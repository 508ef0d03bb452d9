------------------------ MODULE ConsoleOutputProofs -------------------------
(***************************************************************************)
(* Three results, for screens, regions and sequences of any size: no step  *)
(* moves the cursor but into the region, and the types hold, for all       *)
(* programs, those included that set a region beside the cursor; and what  *)
(* careful programs write does to the window what a terminal makes of it,   *)
(* character by character. The last one rests on what the block moves of    *)
(* io_copy leave in the bank, byte by byte and then row by row, by induction *)
(* over the bytes and the rows.                                             *)
(***************************************************************************)
EXTENDS ConsoleOutput, WellFoundedInduction, TLAPS

IsScreen(s) == s = [mem |-> s.mem, region |-> s.region, cursor |-> s.cursor]

Extent(r) == r.w \in Nat \ {0} /\ r.h \in Nat \ {0}

Within(r, c) ==
  /\ c = [x |-> c.x, y |-> c.y]
  /\ c.x \in 0 .. r.w - 1
  /\ c.y \in 0 .. r.h - 1

(* A screen whose region is not empty, with the cursor in it, and one with *)
(* the cursor anywhere, as a change of region leaves it.                   *)
Sound(s) == IsScreen(s) /\ Extent(s.region) /\ Within(s.region, s.cursor)

Placed(c) == c = [x |-> c.x, y |-> c.y] /\ c.x \in Nat /\ c.y \in Nat
Loose(s) == IsScreen(s) /\ Extent(s.region) /\ Placed(s.cursor)

LEMMA SoundIsLoose ==
  ASSUME NEW s, Sound(s)
  PROVE  Loose(s)
BY DEF Sound, Loose, Within, Placed, Extent

(* What calls that do not move the cursor give back. *)
Keeps(s, t) == IsScreen(t) /\ t.region = s.region /\ t.cursor = s.cursor

LEMMA KeepsLoose ==
  ASSUME NEW s, NEW t, Loose(s), Keeps(s, t)
  PROVE  Loose(t)
BY DEF Loose, Keeps

LEMMA ScreenKept ==
  ASSUME NEW s, IsScreen(s), NEW bytes
  PROVE  Keeps(s, [s EXCEPT !.mem = bytes])
BY DEF IsScreen, Keeps

(* Scrolling, filling and going back to a region change only the matrix.   *)
LEMMA ScrollKeeps ==
  ASSUME NEW s, IsScreen(s), NEW horizontal, NEW vertical
  PROVE  Keeps(s, Scroll(s, horizontal, vertical))
<1>1. Keeps(s, ScrollSimple(s))
  BY ScreenKept DEF ScrollSimple
<1>2. Keeps(s, ScrollComplex(s, horizontal, vertical))
  BY ScreenKept DEF ScrollComplex
<1> QED
  BY <1>1, <1>2 DEF Scroll

(* An empty region stands for the screen, which is not empty. *)
LEMMA ResolvedExtent ==
  ASSUME NEW r, r.w \in Nat, r.h \in Nat
  PROVE  Extent(Resolved(r))
BY ScreenAssumption DEF Resolved, FullScreen, Extent, ScreenAssumption

LEMMA SetXYSound ==
  ASSUME NEW s, IsScreen(s), Extent(s.region), NEW x \in Int, NEW y \in Int
  PROVE  /\ Sound(SetXY(s, x, y))
         /\ SetXY(s, x, y).region = s.region
<1> DEFINE row == WrappedRow(s, x, y)
           lines == LinesBelow(s, row)
           shown == IF lines > 0 THEN Scroll(s, 0, lines) ELSE s
           at == [x |-> IF x < 0 \/ x >= s.region.w THEN 0 ELSE x,
                  y |-> IF row < 0 THEN 0 ELSE row - lines]
<1>1. Keeps(s, shown)
  BY ScrollKeeps DEF Keeps, IsScreen
<1>2. Within(s.region, at)
  <2>1. at.x \in 0 .. s.region.w - 1
    BY DEF Extent
  <2>2. row \in Int
    BY DEF WrappedRow
  <2>3. at.y \in 0 .. s.region.h - 1
    <3> HIDE DEF row
    <3> QED BY <2>2 DEF LinesBelow, Extent
  <2> QED
    BY <2>1, <2>3 DEF Within
<1>3. SetXY(s, x, y) = [shown EXCEPT !.cursor = at]
  BY DEF SetXY
<1> HIDE DEF at, shown
<1>4. /\ IsScreen([shown EXCEPT !.cursor = at])
      /\ [shown EXCEPT !.cursor = at].region = s.region
      /\ [shown EXCEPT !.cursor = at].cursor = at
  BY <1>1 DEF Keeps, IsScreen
<1> QED
  BY <1>2, <1>3, <1>4 DEF Sound

LEMMA PutSound ==
  ASSUME NEW s, Loose(s), NEW glyph
  PROVE  /\ Sound(Put(s, glyph))
         /\ Put(s, glyph).region = s.region
<1> DEFINE a == Cell(s.region.x + s.cursor.x, s.region.y + s.cursor.y)
           written == [s EXCEPT !.mem[a] = glyph]
<1>1. Keeps(s, written)
  BY DEF Loose, IsScreen, Keeps
<1>2. s.cursor.x + 1 \in Int /\ s.cursor.y \in Int
  BY DEF Loose, Placed
<1>3. Put(s, glyph) = SetXY(written, s.cursor.x + 1, s.cursor.y)
  BY DEF Put
<1> HIDE DEF written
<1> QED
  BY <1>1, <1>2, <1>3, SetXYSound DEF Loose, Keeps

LEMMA TxtPutSound ==
  ASSUME NEW s, Loose(s), NEW c
  PROVE  /\ Sound(TxtPut(s, c)) \/ TxtPut(s, c) = s
         /\ TxtPut(s, c).region = s.region
<1> DEFINE x == s.cursor.x
           y == s.cursor.y
<1>1. IsScreen(s) /\ Extent(s.region) /\ x \in Int /\ y \in Int
  BY DEF Loose, Placed
<1>2. ASSUME c = "BS", x > 0
      PROVE  Sound(TxtPut(s, c)) /\ TxtPut(s, c).region = s.region
  <2> DEFINE moved == SetXY(s, x - 1, y)
             erased == Put(moved, Blank)
  <2>1. x - 1 \in Int
    BY <1>1
  <2>2. Sound(moved) /\ moved.region = s.region
    BY <1>1, <2>1, SetXYSound
  <2>3. Sound(erased) /\ erased.region = s.region
    <3> HIDE DEF moved
    <3> QED BY <2>2, SoundIsLoose, PutSound
  <2>4. TxtPut(s, c) = SetXY(erased, x - 1, y)
    BY <1>2 DEF TxtPut
  <2> HIDE DEF erased
  <2> QED
    BY <1>1, <2>1, <2>3, <2>4, SetXYSound DEF Sound
<1>3. ASSUME c = "BS", ~(x > 0)
      PROVE  TxtPut(s, c) = s
  BY <1>3 DEF TxtPut
<1>4. ASSUME c = "TAB"
      PROVE  Sound(TxtPut(s, c)) /\ TxtPut(s, c).region = s.region
  <2>1. (x \div TabStop + 1) * TabStop \in Int
    BY <1>1, ScreenAssumption DEF ScreenAssumption
  <2>2. TxtPut(s, c) = SetXY(s, (x \div TabStop + 1) * TabStop, y)
    BY <1>4 DEF TxtPut
  <2> QED
    BY <1>1, <2>1, <2>2, SetXYSound
<1>5. ASSUME c = "NL"
      PROVE  Sound(TxtPut(s, c)) /\ TxtPut(s, c).region = s.region
  <2>1. 0 \in Int /\ y + 1 \in Int
    BY <1>1
  <2>2. TxtPut(s, c) = SetXY(s, 0, y + 1)
    BY <1>5 DEF TxtPut
  <2> QED
    BY <1>1, <2>1, <2>2, SetXYSound
<1>6. ASSUME c = "CR"
      PROVE  TxtPut(s, c) = s
  BY <1>6 DEF TxtPut
<1>7. ASSUME c \notin {"BS", "TAB", "NL", "CR"}
      PROVE  TxtPut(s, c) = Put(s, Glyph(c))
  BY <1>7 DEF TxtPut
<1> QED
  BY <1>2, <1>3, <1>4, <1>5, <1>6, <1>7, PutSound

(* The parts of a region that are cleared or scrolled are set as regions,   *)
(* and the region is set back at the end.                                   *)
LEMMA RegionSetBack ==
  ASSUME NEW s, Loose(s), NEW t, IsScreen(t), t.cursor = s.cursor
  PROVE  Keeps(s, SetRegion(t, s.region))
BY DEF Loose, IsScreen, Keeps, SetRegion, Resolved, Extent

LEMMA RegionSet ==
  ASSUME NEW s, IsScreen(s), NEW r
  PROVE  IsScreen(SetRegion(s, r)) /\ SetRegion(s, r).cursor = s.cursor
BY DEF IsScreen, SetRegion

LEMMA FillKeeps ==
  ASSUME NEW s, IsScreen(s)
  PROVE  Keeps(s, FillBlank(s))
BY DEF IsScreen, Keeps, FillBlank

LEMMA ClearPartKeeps ==
  ASSUME NEW s, Loose(s), NEW x, NEW y, NEW w, NEW h
  PROVE  Keeps(s, ClearPart(s, x, y, w, h))
<1> DEFINE part == [x |-> s.region.x + x, y |-> s.region.y + y, w |-> w, h |-> h]
           filled == FillBlank(SetRegion(s, part))
<1>1. IsScreen(filled) /\ filled.cursor = s.cursor
  <2>1. IsScreen(SetRegion(s, part)) /\ SetRegion(s, part).cursor = s.cursor
    BY RegionSet DEF Loose
  <2> QED
    BY <2>1, FillKeeps DEF Keeps
<1>2. ClearPart(s, x, y, w, h) = SetRegion(filled, s.region)
  BY DEF ClearPart
<1> HIDE DEF filled
<1> QED
  BY <1>1, <1>2, RegionSetBack

LEMMA ClearedTwice ==
  ASSUME NEW s, Loose(s), NEW x, NEW y, NEW w, NEW h, NEW x1, NEW y1, NEW w1, NEW h1
  PROVE  Keeps(s, ClearPart(ClearPart(s, x, y, w, h), x1, y1, w1, h1))
<1> DEFINE t == ClearPart(s, x, y, w, h)
<1>1. Loose(t) /\ Keeps(s, t)
  BY ClearPartKeeps, KeepsLoose
<1> HIDE DEF t
<1>2. Keeps(t, ClearPart(t, x1, y1, w1, h1))
  BY <1>1, ClearPartKeeps
<1> QED
  BY <1>1, <1>2 DEF t, Keeps

LEMMA ClearKeeps ==
  ASSUME NEW s, Loose(s), NEW mode
  PROVE  Keeps(s, Clear(s, mode)) /\ Keeps(s, ClearLine(s, mode))
<1>1. Keeps(s, s) /\ Keeps(s, FillBlank(s))
  BY FillKeeps DEF Keeps, Loose
<1>2. Keeps(s, Clear(s, mode))
  BY <1>1, ClearedTwice, Zenon DEF Clear
<1>3. Keeps(s, ClearLine(s, mode))
  BY <1>1, ClearPartKeeps, Zenon DEF ClearLine
<1> QED
  BY <1>2, <1>3

LEMMA ScrollRestKeeps ==
  ASSUME NEW s, Loose(s), NEW horizontal
  PROVE  Keeps(s, ScrollRest(s, horizontal))
<1> DEFINE rest == [x |-> s.region.x + s.cursor.x, y |-> s.region.y + s.cursor.y,
                    w |-> s.region.w - s.cursor.x, h |-> 1]
           scrolled == Scroll(SetRegion(s, rest), horizontal, 0)
<1>1. IsScreen(scrolled) /\ scrolled.cursor = s.cursor
  <2>1. IsScreen(SetRegion(s, rest)) /\ SetRegion(s, rest).cursor = s.cursor
    BY RegionSet DEF Loose
  <2> QED
    BY <2>1, ScrollKeeps DEF Keeps
<1>2. ScrollRest(s, horizontal) = SetRegion(scrolled, s.region)
  BY DEF ScrollRest
<1> HIDE DEF scrolled
<1> QED
  BY <1>1, <1>2, RegionSetBack

LEMMA InsertDeleteKeep ==
  ASSUME NEW s, Loose(s), NEW count
  PROVE  Keeps(s, Insert(s, count)) /\ Keeps(s, Delete(s, count))
<1>1. Keeps(s, s)
  BY DEF Keeps, Loose
<1> QED
  BY <1>1, ScrollRestKeeps, Zenon DEF Insert, Delete

LEMMA ArgumentsInt ==
  ASSUME NEW m \in Nat, NEW args \in Seq(0 .. m)
  PROVE  args \in Seq(Int)
<1>1. args \in [1 .. Len(args) -> Int]
  OBVIOUS
<1> QED
  BY <1>1

(* The sequences that move the cursor move it by integers. *)
LEMMA TargetInt ==
  ASSUME NEW s, Loose(s), NEW letter \in Movers, NEW args \in Seq(Int), args # <<>>
  PROVE  Target(s, letter, args).x \in Int /\ Target(s, letter, args).y \in Int
<1>1. s.cursor.x \in Int /\ s.cursor.y \in Int
  BY DEF Loose, Placed
<1>2. args[1] \in Int /\ (Len(args) > 1 => args[2] \in Int)
  OBVIOUS
<1>3. OneAtLeast(args[1]) \in Int /\ (Len(args) > 1 => OneAtLeast(args[2]) \in Int)
  BY <1>2 DEF OneAtLeast
<1> DEFINE IsPlace(p) == p.x \in Int /\ p.y \in Int
<1>4. /\ IsPlace(Cuu(s, args[1])) /\ IsPlace(Cud(s, args[1]))
      /\ IsPlace(Cuf(s, args[1])) /\ IsPlace(Cub(s, args[1]))
      /\ IsPlace(Cha(s, args[1])) /\ IsPlace(Cup(args))
  BY <1>1, <1>3 DEF Cuu, Cud, Cuf, Cub, Cha, Cup
<1>5. letter \in {"A", "B", "C", "D", "G", "H"}
  BY DEF Movers
<1>6. IsPlace(Target(s, letter, args))
  <2> HIDE DEF IsPlace
  <2> QED BY <1>4, <1>5, Zenon DEF Target
<1> QED
  BY <1>6

LEMMA HandleSound ==
  ASSUME NEW s, Loose(s), NEW letter \in Handled, NEW args \in Seq(Int), args # <<>>
  PROVE  /\ Sound(Handle(s, letter, args)) \/ Keeps(s, Handle(s, letter, args))
         /\ Handle(s, letter, args).region = s.region
<1>1. IsScreen(s) /\ Extent(s.region)
  BY DEF Loose
<1>2. CASE letter \in Movers
  <2> DEFINE to == Target(s, letter, args)
  <2>1. to.x \in Int /\ to.y \in Int
    BY <1>2, TargetInt
  <2>2. Handle(s, letter, args) = SetXY(s, to.x, to.y)
    BY <1>2, Zenon DEF Handle, Movers
  <2> HIDE DEF to
  <2> QED
    BY <1>1, <2>1, <2>2, SetXYSound
<1>3. CASE letter \notin Movers
  <2>1. letter \in {"J", "K", "@", "P", "m"}
    BY <1>3 DEF Handled, Letters, Movers
  <2>2. Keeps(s, s)
    BY DEF Keeps, Loose
  <2>3. Keeps(s, Handle(s, letter, args))
    BY <1>3, <2>1, <2>2, ClearKeeps, InsertDeleteKeep, Zenon DEF Handle
  <2> QED
    BY <2>3 DEF Keeps
<1> QED
  BY <1>2, <1>3

-----------------------------------------------------------------------------
Inv == Extent(region) /\ Placed(cursor)

LEMMA InvIsLoose == Inv <=> Loose(Screen)
BY DEF Inv, Loose, IsScreen, Screen

(* A step leaves the cursor alone or takes it into the region.             *)
Goes == Extent(region') /\ (cursor' = cursor \/ Within(region', cursor'))

LEMMA GoesOn ==
  ASSUME Inv, Goes
  PROVE  Inv' /\ (cursor' # cursor => Inside')
BY DEF Inv, Goes, Extent, Within, Placed, Inside

LEMMA BecomesGoes ==
  ASSUME Inv, NEW s, Becomes(s), Extent(s.region),
         Sound(s) \/ s.cursor = cursor
  PROVE  Goes
BY DEF Becomes, Sound, Goes

LEMMA CursorStep ==
  ASSUME Inv, [Next]_vars
  PROVE  Goes
<1>1. Loose(Screen) /\ Extent(region) /\ Screen.region = region /\ Screen.cursor = cursor
  BY InvIsLoose DEF Inv, Screen
<1>2. ASSUME NEW c, Becomes(TxtPut(Screen, c))
      PROVE  Goes
  <2> DEFINE t == TxtPut(Screen, c)
  <2>1. (Sound(t) \/ t = Screen) /\ t.region = region
    BY <1>1, TxtPutSound
  <2>2. Becomes(t)
    BY <1>2
  <2> HIDE DEF t
  <2> QED
    BY <1>1, <2>1, <2>2, BecomesGoes
<1>3. ASSUME UNCHANGED screenVars
      PROVE  Goes
  BY <1>1, <1>3 DEF screenVars, Goes
<1>4. ASSUME NEW c \in Chars, WithinReach(c), ConWriteB(c)
      PROVE  Goes
  <2>1. CASE WritePlain(c)
    BY <2>1, <1>2 DEF WritePlain
  <2>2. CASE WriteEscape(c)
    BY <2>2, <1>3 DEF WriteEscape
  <2>3. CASE Collect(c)
    BY <2>3, <1>3 DEF Collect
  <2>4. CASE Execute(c)
    <3> DEFINE t == Handle(Screen, c, Collected)
    <3>1. c \in Handled /\ Becomes(t)
      BY <2>4 DEF Execute, Completes
    <3>2. Collected \in Seq(0 .. MaxArgument) \ {<<>>}
      BY <2>4, <1>4, Zenon DEF Execute, WithinReach
    <3>3. Collected \in Seq(Int) /\ Collected # <<>>
      <4>1. Collected \in Seq(0 .. MaxArgument) /\ Collected # <<>>
        BY <3>2, Zenon
      <4>2. MaxArgument \in Nat
        BY NumberAssumption DEF NumberAssumption
      <4> QED
        BY <4>1, <4>2, ArgumentsInt, Zenon
    <3>4. (Sound(t) \/ Keeps(Screen, t)) /\ t.region = region
      BY <1>1, <3>1, <3>3, HandleSound
    <3> HIDE DEF t
    <3> QED
      BY <1>1, <3>1, <3>4, BecomesGoes DEF Keeps
  <2>5. CASE Dump(c)
    BY <2>5, <1>3 DEF Dump
  <2> QED
    BY <1>4, <2>1, <2>2, <2>3, <2>4, <2>5 DEF ConWriteB
<1>5. ASSUME ConFlush
      PROVE  Goes
  BY <1>5, <1>3 DEF ConFlush
<1>6. ASSUME FlushChar
      PROVE  Goes
  BY <1>6, <1>2 DEF FlushChar
<1>7. ASSUME NEW on, ConIoctrl(on)
      PROVE  Goes
  BY <1>7, <1>3 DEF ConIoctrl
<1>8. ASSUME ConOpen
      PROVE  Goes
  BY <1>8, <1>3 DEF ConOpen
<1>9. ASSUME NEW r \in Regions, TxtSetRegion(r)
      PROVE  Goes
  <2> DEFINE set == SetRegion(Screen, r)
  <2>1. set.region = Resolved(r) /\ set.cursor = cursor
    BY <1>1 DEF Loose, IsScreen, SetRegion
  <2>2. Extent(Resolved(r))
    BY ResolvedExtent, ScreenAssumption DEF ScreenAssumption, Region
  <2>3. Becomes(set)
    BY <1>9 DEF TxtSetRegion
  <2> HIDE DEF set
  <2> QED
    BY <2>1, <2>2, <2>3, BecomesGoes
<1>10. ASSUME NEW c \in RawChars, TxtPutC(c)
       PROVE  Goes
  BY <1>10, <1>2 DEF TxtPutC
<1>11. ASSUME NEW x \in Places, NEW y \in Places, TxtSetXY(x, y)
       PROVE  Goes
  <2>1. x \in Int /\ y \in Int
    BY NumberAssumption DEF NumberAssumption
  <2>2. Sound(SetXY(Screen, x, y)) /\ SetXY(Screen, x, y).region = region
    BY <1>1, <2>1, SetXYSound DEF Loose
  <2> QED
    BY <1>1, <1>11, <2>2, BecomesGoes DEF TxtSetXY
<1>12. ASSUME UNCHANGED vars
       PROVE  Goes
  BY <1>12, <1>3 DEF vars
<1> QED
  BY <1>4, <1>5, <1>6, <1>7, <1>8, <1>9, <1>10, <1>11, <1>12 DEF Next

LEMMA InvStep ==
  ASSUME Inv, [Next]_vars
  PROVE  Inv'
BY CursorStep, GoesOn

LEMMA InvStarts == Init => Inv
BY ScreenAssumption
DEF ScreenAssumption, Init, ScreenInit, Inv, Extent, Placed, FullScreen

(* Whatever programs write, address, erase, insert or delete, and whatever *)
(* regions they set under the cursor: no step moves the cursor but into the *)
(* region, so that only what is put right after a change of region can go   *)
(* beside it (txt_f256_set_xy, txt_f256_put, txt_f256_set_region).         *)
THEOREM CursorStays == Spec => CursorClipped
<1>1. Init => Inv
  BY InvStarts
<1>2. Inv /\ [Next]_vars => Inv'
  BY InvStep
<1>3. Inv /\ [Next]_vars => [cursor' # cursor => Inside']_vars
  BY CursorStep, GoesOn
<1> QED
  BY <1>1, <1>2, <1>3, PTL DEF Spec, CursorClipped

(* Careful programs are programs, hence the same for them. *)
COROLLARY CursorStaysCareful == CarefulSpec => CursorClipped
<1>1. [CarefulNext]_vars => [Next]_vars
  BY DEF CarefulNext, Next
<1>2. CarefulSpec => Spec
  BY <1>1, PTL DEF CarefulSpec, Spec
<1> QED
  BY <1>2, CursorStays, PTL

-----------------------------------------------------------------------------
(* Recursive functions over 0 .. n. *)

(* Induction over 0 .. n, for the set of the numbers of which something    *)
(* holds.                                                                  *)
LEMMA UpTo ==
  ASSUME NEW n \in Nat, NEW Reached, 0 \in Reached,
         \A i \in 1 .. n : i - 1 \in Reached => i \in Reached
  PROVE  \A i \in 0 .. n : i \in Reached
<1> DEFINE Others == {i \in 0 .. n : i \notin Reached}
<1> SUFFICES ASSUME Others # {} PROVE FALSE
  OBVIOUS
<1>1. PICK i \in Others : \A j \in Others : ~(<<j, i>> \in OpToRel(<, Nat))
  <2>1. Others \subseteq Nat
    OBVIOUS
  <2> HIDE DEF Others
  <2> QED
    BY <2>1, NatLessThanWellFounded, WFMin
<1>2. i \in 1 .. n /\ i - 1 \in 0 .. n
  OBVIOUS
<1>3. i - 1 \notin Others
  <2> DEFINE pair == <<i - 1, i>>
  <2>1. pair \in Nat \X Nat /\ pair[1] < pair[2]
    BY <1>2
  <2> HIDE DEF pair
  <2>2. pair \in OpToRel(<, Nat)
    BY <2>1, Zenon DEF OpToRel
  <2> USE DEF pair
  <2> QED
    BY <1>1, <2>2, Zenon
<1>4. i - 1 \in Reached
  BY <1>2, <1>3
<1> QED
  BY <1>1, <1>2, <1>4

(* f goes from b, through the values of S that the steps lead to.          *)
Follows(f, n, b, step) == f = [i \in 0 .. n |-> IF i = 0 THEN b ELSE step[i][f[i - 1]]]

(* Such a function exists, so that a recursive definition means it.        *)
LEMMA FollowsExists ==
  ASSUME NEW n \in Nat, NEW S, NEW b \in S, NEW step \in [1 .. n -> [S -> S]]
  PROVE  \E f \in [0 .. n -> S] : Follows(f, n, b, step)
<1> DEFINE Reached == {m \in 0 .. n : \E f \in [0 .. m -> S] : Follows(f, m, b, step)}
<1>1. 0 \in Reached
  <2> DEFINE f == [i \in 0 .. 0 |-> b]
  <2>1. f \in [0 .. 0 -> S] /\ Follows(f, 0, b, step)
    BY DEF Follows
  <2> QED
    BY <2>1
<1>2. ASSUME NEW m \in 1 .. n, m - 1 \in Reached
      PROVE  m \in Reached
  <2>1. PICK f \in [0 .. m - 1 -> S] : Follows(f, m - 1, b, step)
    BY <1>2
  <2> DEFINE g == [i \in 0 .. m |-> IF i = m THEN step[m][f[m - 1]] ELSE f[i]]
  <2>2. g \in [0 .. m -> S]
    OBVIOUS
  <2>3. \A i \in 0 .. m : g[i] = IF i = 0 THEN b ELSE step[i][g[i - 1]]
    <3> SUFFICES ASSUME NEW i \in 0 .. m
                 PROVE  g[i] = IF i = 0 THEN b ELSE step[i][g[i - 1]]
      OBVIOUS
    <3>1. \A j \in 0 .. m - 1 : f[j] = IF j = 0 THEN b ELSE step[j][f[j - 1]]
      BY <2>1, Zenon DEF Follows
    <3>2. CASE i = m
      BY <3>2
    <3>3. CASE i \in 0 .. m - 1
      <4>1. g[i] = f[i] /\ (i # 0 => g[i - 1] = f[i - 1])
        BY <3>3
      <4> HIDE DEF g
      <4> QED
        BY <3>1, <3>3, <4>1
    <3> QED
      BY <3>2, <3>3
  <2>4. g = [i \in 0 .. m |-> g[i]]
    OBVIOUS
  <2>5. Follows(g, m, b, step)
    <3> HIDE DEF g
    <3> QED BY <2>3, <2>4 DEF Follows
  <2> QED
    BY <2>2, <2>5
<1>3. \A m \in 0 .. n : m \in Reached
  <2> HIDE DEF Reached
  <2> QED BY <1>1, <1>2, UpTo
<1> QED
  BY <1>3

-----------------------------------------------------------------------------
(* Addresses and cells. *)

Bank == [Addresses -> {Blank, Ink}]

LEMMA ScreenSizes ==
  /\ Columns \in Nat \ {0} /\ Rows \in Nat \ {0}
  /\ BankSize \in Nat \ {0} /\ TabStop \in Nat \ {0}
  /\ MatrixBase \in Nat \ {0}
  /\ Columns * Rows \in Nat
  /\ MatrixBase + Columns * Rows < BankSize
<1>1. /\ Columns \in Nat \ {0} /\ Rows \in Nat \ {0}
      /\ BankSize \in Nat \ {0} /\ TabStop \in Nat \ {0}
      /\ MatrixBase \in Nat \ {0} /\ MatrixBase + 2 * Columns * Rows <= BankSize
  BY ScreenAssumption
<1>2. Columns * Rows \in Nat \ {0} /\ 2 * Columns * Rows = 2 * (Columns * Rows)
  BY <1>1
<1> QED
  BY <1>1, <1>2

LEMMA Modulo ==
  /\ \A i \in Int : i % BankSize \in Addresses
  /\ \A a \in Addresses : a % BankSize = a
BY ScreenSizes, Z3 DEF Addresses

LEMMA Multiples ==
  ASSUME NEW i \in Nat, NEW j \in Nat, i < j
  PROVE  /\ i * Columns \in Nat /\ j * Columns \in Nat
         /\ i * Columns + Columns <= j * Columns
<1>1. (j - i - 1) * Columns \in Nat
  BY ScreenSizes
<1>2. (j - i - 1) * Columns = j * Columns - i * Columns - Columns
  BY ScreenSizes
<1> QED
  BY <1>1, <1>2, ScreenSizes

LEMMA CellIn ==
  ASSUME NEW x \in 0 .. Columns - 1, NEW y \in 0 .. Rows - 1
  PROVE  /\ Cell(x, y) \in MatrixBase .. MatrixBase + Columns * Rows - 1
         /\ Cell(x, y) \in Addresses
<1>1. y * Columns + Columns <= Rows * Columns /\ y * Columns \in Nat
  BY ScreenSizes, Multiples
<1>2. Rows * Columns = Columns * Rows
  BY ScreenSizes
<1> QED
  BY <1>1, <1>2, ScreenSizes DEF Cell, Addresses

LEMMA CellInjective ==
  ASSUME NEW x \in 0 .. Columns - 1, NEW y \in Nat,
         NEW x1 \in 0 .. Columns - 1, NEW y1 \in Nat, Cell(x, y) = Cell(x1, y1)
  PROVE  x = x1 /\ y = y1
<1>1. ~(y < y1) /\ ~(y1 < y)
  BY ScreenSizes, Multiples DEF Cell
<1>2. y = y1
  BY <1>1
<1> QED
  BY <1>2, ScreenSizes, Multiples DEF Cell

(* A cell further down. *)
LEMMA CellBelow ==
  ASSUME NEW x \in Int, NEW y \in Int, NEW n \in Int
  PROVE  /\ Cell(x, y) \in Int /\ n * Columns \in Int
         /\ Cell(x, y + n) = Cell(x, y) + n * Columns
         /\ Cell(x + n, y) = Cell(x, y) + n
<1>1. (y + n) * Columns = y * Columns + n * Columns
  BY ScreenSizes
<1> QED
  BY <1>1, ScreenSizes DEF Cell

-----------------------------------------------------------------------------
(* Block moves. *)

(* Whatever addresses it is given, a move reads and writes the bank.       *)
LEMMA MoveByteType ==
  ASSUME NEW bytes \in Bank, NEW dest \in Int, NEW src \in Int
  PROVE  MoveByte(bytes, dest, src) \in Bank
<1>1. dest % BankSize \in Addresses /\ src % BankSize \in Addresses
  BY Modulo
<1> QED
  BY <1>1 DEF MoveByte, Bank

(* The states of the bank, one after the other; i bytes are moved. *)
LEMMA MovingIs ==
  ASSUME NEW bytes \in Bank, NEW n \in Nat, NEW dest \in Int, NEW src \in Int
  PROVE  LET g == Moving(bytes, n, dest, src)
             step == IF dest < src THEN 1 ELSE -1
         IN /\ g \in [0 .. n -> Bank]
            /\ g[0] = bytes
            /\ \A i \in 1 .. n :
                 g[i] = MoveByte(g[i - 1], dest + step * (i - 1), src + step * (i - 1))
<1> DEFINE step == IF dest < src THEN 1 ELSE -1
           do == [i \in 1 .. n |-> [m \in Bank |->
                    MoveByte(m, dest + step * (i - 1), src + step * (i - 1))]]
           Is(f) == f = [i \in 0 .. n |->
                           IF i = 0 THEN bytes
                           ELSE MoveByte(f[i - 1], dest + step * (i - 1), src + step * (i - 1))]
<1>1. do \in [1 .. n -> [Bank -> Bank]]
  <2>1. \A i \in 1 .. n : dest + step * (i - 1) \in Int /\ src + step * (i - 1) \in Int
    OBVIOUS
  <2>2. \A i \in 1 .. n, m \in Bank :
          MoveByte(m, dest + step * (i - 1), src + step * (i - 1)) \in Bank
    BY <2>1, MoveByteType
  <2> QED
    BY <2>2
<1>2. PICK f \in [0 .. n -> Bank] : Follows(f, n, bytes, do)
  <2> HIDE DEF do
  <2> QED BY <1>1, FollowsExists
<1>3. Is(f)
  <2>1. \A i \in 1 .. n :
          do[i][f[i - 1]] = MoveByte(f[i - 1], dest + step * (i - 1), src + step * (i - 1))
    <3>1. \A i \in 1 .. n : f[i - 1] \in Bank
      OBVIOUS
    <3> HIDE DEF step
    <3> QED BY <3>1
  <2>2. \A i \in 0 .. n : i = 0 \/ i \in 1 .. n
    OBVIOUS
  <2> HIDE DEF do, step
  <2>3. f = [i \in 0 .. n |-> IF i = 0 THEN bytes ELSE do[i][f[i - 1]]]
    BY <1>2 DEF Follows
  <2> QED BY <2>1, <2>2, <2>3
<1>4. Is(Moving(bytes, n, dest, src))
  <2>1. Moving(bytes, n, dest, src) = CHOOSE g : Is(g)
    BY Zenon DEF Moving
  <2> HIDE DEF Is
  <2> QED BY <1>3, <2>1
<1> DEFINE g == Moving(bytes, n, dest, src)
           Reached == {i \in 0 .. n : g[i] \in Bank}
<1>5. /\ g = [i \in 0 .. n |-> g[i]] /\ g[0] = bytes
      /\ \A i \in 1 .. n :
           g[i] = MoveByte(g[i - 1], dest + step * (i - 1), src + step * (i - 1))
  <2> HIDE DEF step, g
  <2>1. Is(g)
    BY <1>4 DEF g
  <2> QED BY <2>1
<1>6. \A i \in 0 .. n : i \in Reached
  <2>1. 0 \in Reached
    BY <1>5
  <2>2. \A i \in 1 .. n : i - 1 \in Reached => i \in Reached
    <3> SUFFICES ASSUME NEW i \in 1 .. n, g[i - 1] \in Bank PROVE g[i] \in Bank
      OBVIOUS
    <3>1. dest + step * (i - 1) \in Int /\ src + step * (i - 1) \in Int
      OBVIOUS
    <3> HIDE DEF g, step
    <3> QED BY <1>5, <3>1, MoveByteType
  <2> HIDE DEF Reached
  <2> QED BY <2>1, <2>2, UpTo
<1> QED
  <2> HIDE DEF g, step
  <2>1. g \in [0 .. n -> Bank]
    BY <1>5, <1>6
  <2> QED BY <1>5, <2>1 DEF g, step

LEMMA IoCopyType ==
  ASSUME NEW bytes \in Bank, NEW count \in Nat, NEW dest \in Int, NEW src \in Int
  PROVE  IoCopy(bytes, count, dest, src) \in Bank
<1> DEFINE n == MovedBytes(count)
<1>1. n \in Nat
  BY DEF MovedBytes
<1>2. Moving(bytes, n, dest, src) \in [0 .. n -> Bank]
  <2> HIDE DEF n
  <2> QED BY <1>1, MovingIs
<1>3. Moving(bytes, n, dest, src)[n] \in Bank
  <2> HIDE DEF n
  <2> QED BY <1>1, <1>2
<1> QED
  BY <1>3, Zenon DEF IoCopy

(* A move to lower addresses that stays in the bank copies the block, even  *)
(* onto itself, and one byte more than it was told.                        *)
LEMMA IoCopyDown ==
  ASSUME NEW bytes \in Bank, NEW count \in Nat, NEW dest \in Addresses, NEW src \in Addresses,
         dest < src, src + count \in Addresses
  PROVE  IoCopy(bytes, count, dest, src) =
           [a \in Addresses |-> IF a \in dest .. dest + count THEN bytes[a + (src - dest)]
                                ELSE bytes[a]]
<1> DEFINE n == count + 1
           g == Moving(bytes, n, dest, src)
           At(i) == [a \in Addresses |-> IF a \in dest .. dest + i - 1 THEN bytes[a + (src - dest)]
                                         ELSE bytes[a]]
           Reached == {i \in 0 .. n : g[i] = At(i)}
<1>1. n \in Nat /\ dest \in Int /\ src \in Int
  BY ScreenSizes DEF Addresses
<1>2. /\ g \in [0 .. n -> Bank] /\ g[0] = bytes
      /\ \A i \in 1 .. n : g[i] = MoveByte(g[i - 1], dest + (i - 1), src + (i - 1))
  <2> DEFINE step == IF dest < src THEN 1 ELSE -1
  <2>1. \A i \in 1 .. n : dest + step * (i - 1) = dest + (i - 1) /\ src + step * (i - 1) = src + (i - 1)
    BY <1>1
  <2>2. /\ g \in [0 .. n -> Bank] /\ g[0] = bytes
        /\ \A i \in 1 .. n : g[i] = MoveByte(g[i - 1], dest + step * (i - 1), src + step * (i - 1))
    <3> HIDE DEF n
    <3> QED BY <1>1, MovingIs, Zenon
  <2> HIDE DEF n, step, g
  <2> QED BY <2>1, <2>2
<1> HIDE DEF g
<1>3. 0 \in Reached
  <2>1. bytes = [a \in Addresses |-> bytes[a]]
    BY DEF Bank
  <2>2. \A a \in Addresses : a \notin dest .. dest + 0 - 1
    BY <1>1
  <2>3. At(0) = [a \in Addresses |-> bytes[a]]
    BY <2>2
  <2> HIDE DEF At
  <2> QED BY <1>1, <1>2, <2>1, <2>3
<1>4. \A i \in 1 .. n : i - 1 \in Reached => i \in Reached
  <2> SUFFICES ASSUME NEW i \in 1 .. n, g[i - 1] = At(i - 1) PROVE g[i] = At(i)
    OBVIOUS
  <2>1. dest + (i - 1) \in Addresses /\ src + (i - 1) \in Addresses
    BY <1>1, ScreenSizes DEF Addresses
  <2>2. g[i] = [g[i - 1] EXCEPT ![dest + (i - 1)] = g[i - 1][src + (i - 1)]]
    <3>1. /\ (dest + (i - 1)) % BankSize = dest + (i - 1)
          /\ (src + (i - 1)) % BankSize = src + (i - 1)
      BY <2>1, Modulo
    <3>2. g[i] = MoveByte(g[i - 1], dest + (i - 1), src + (i - 1))
      BY <1>2
    <3> QED BY <3>1, <3>2, Zenon DEF MoveByte
  <2>3. g[i - 1][src + (i - 1)] = bytes[src + (i - 1)]
    BY <1>1, <2>1
  <2>4. src + (i - 1) = dest + (i - 1) + (src - dest)
    BY <1>1
  <2>5. DOMAIN g[i - 1] = Addresses
    OBVIOUS
  <2>6. g[i] = [a \in Addresses |-> IF a = dest + (i - 1) THEN bytes[a + (src - dest)]
                                    ELSE At(i - 1)[a]]
    BY <2>2, <2>3, <2>4, <2>5
  <2>7. \A a \in Addresses : a \in dest .. dest + i - 1
          <=> a = dest + (i - 1) \/ a \in dest .. dest + (i - 1) - 1
    BY <1>1 DEF Addresses
  <2> QED BY <2>6, <2>7
<1>5. \A i \in 0 .. n : i \in Reached
  <2> HIDE DEF Reached, n
  <2> QED BY <1>1, <1>3, <1>4, UpTo
<1>6. g[n] = At(n)
  BY <1>1, <1>5
<1>7. \A a \in Addresses : a \in dest .. dest + n - 1 <=> a \in dest .. dest + count
  BY <1>1
<1>8. IoCopy(bytes, count, dest, src) = g[n]
  BY DEF IoCopy, MovedBytes, g
<1> QED
  BY <1>6, <1>7, <1>8

LEMMA CopyRowType ==
  ASSUME NEW bytes \in Bank, NEW n \in Int, NEW x0 \in Int, NEW dx \in Int, NEW y \in Int,
         NEW away \in Int
  PROVE  CopyRow(bytes, n, x0, dx, y, away) \in Bank
<1> DEFINE start == Cell(x0, y) - dx
<1>1. start \in Int
  <2>1. Cell(x0, y) \in Int
    BY CellBelow
  <2> QED
    BY <2>1
<1> HIDE DEF start
<1>2. /\ start % BankSize \in Int /\ (start + away) % BankSize \in Int
      /\ n % BankSize \in Nat
  BY <1>1, Modulo, ScreenSizes DEF Addresses
<1>3. IoCopy(bytes, n % BankSize, start % BankSize, (start + away) % BankSize) \in Bank
  BY <1>2, IoCopyType
<1>4. CopyRow(bytes, n, x0, dx, y, away)
        = IoCopy(bytes, n % BankSize, start % BankSize, (start + away) % BankSize)
  BY DEF CopyRow, start
<1> QED
  BY <1>3, <1>4

(* The states of the bank, row after row. *)
LEMMA CopyingIs ==
  ASSUME NEW bytes \in Bank, NEW r, r.y \in Int, NEW rows \in Nat, NEW n \in Int,
         NEW x0 \in Int, NEW dx \in Int, NEW away \in Int
  PROVE  LET g == Copying(bytes, r, rows, n, x0, dx, away)
         IN /\ g \in [0 .. rows -> Bank]
            /\ g[0] = bytes
            /\ \A i \in 1 .. rows : g[i] = CopyRow(g[i - 1], n, x0, dx, r.y + i - 1, away)
<1> DEFINE do == [i \in 1 .. rows |-> [m \in Bank |-> CopyRow(m, n, x0, dx, r.y + i - 1, away)]]
           Is(f) == f = [i \in 0 .. rows |->
                           IF i = 0 THEN bytes
                           ELSE CopyRow(f[i - 1], n, x0, dx, r.y + i - 1, away)]
<1>1. do \in [1 .. rows -> [Bank -> Bank]]
  <2>1. \A i \in 1 .. rows : r.y + i - 1 \in Int
    OBVIOUS
  <2>2. \A i \in 1 .. rows, m \in Bank : CopyRow(m, n, x0, dx, r.y + i - 1, away) \in Bank
    BY <2>1, CopyRowType
  <2> QED
    BY <2>2
<1>2. PICK f \in [0 .. rows -> Bank] : Follows(f, rows, bytes, do)
  <2> HIDE DEF do
  <2> QED BY <1>1, FollowsExists
<1>3. Is(f)
  <2>1. \A i \in 1 .. rows : do[i][f[i - 1]] = CopyRow(f[i - 1], n, x0, dx, r.y + i - 1, away)
    <3>1. \A i \in 1 .. rows : f[i - 1] \in Bank
      OBVIOUS
    <3> QED BY <3>1
  <2>2. \A i \in 0 .. rows : i = 0 \/ i \in 1 .. rows
    OBVIOUS
  <2> HIDE DEF do
  <2>3. f = [i \in 0 .. rows |-> IF i = 0 THEN bytes ELSE do[i][f[i - 1]]]
    BY <1>2 DEF Follows
  <2> QED BY <2>1, <2>2, <2>3
<1> DEFINE g == Copying(bytes, r, rows, n, x0, dx, away)
           Reached == {i \in 0 .. rows : g[i] \in Bank}
<1>4. Is(g)
  <2>1. g = CHOOSE h : Is(h)
    BY Zenon DEF Copying
  <2> HIDE DEF Is, g
  <2> QED BY <1>3, <2>1
<1>5. /\ g = [i \in 0 .. rows |-> g[i]] /\ g[0] = bytes
      /\ \A i \in 1 .. rows : g[i] = CopyRow(g[i - 1], n, x0, dx, r.y + i - 1, away)
  <2> HIDE DEF g
  <2>1. Is(g)
    BY <1>4 DEF g
  <2>2. \A i \in 1 .. rows : i \in 0 .. rows /\ i # 0
    OBVIOUS
  <2>3. 0 \in 0 .. rows
    OBVIOUS
  <2> QED BY <2>1, <2>2, <2>3
<1>6. \A i \in 0 .. rows : i \in Reached
  <2>1. 0 \in Reached
    BY <1>5
  <2>2. \A i \in 1 .. rows : i - 1 \in Reached => i \in Reached
    <3> SUFFICES ASSUME NEW i \in 1 .. rows, g[i - 1] \in Bank PROVE g[i] \in Bank
      OBVIOUS
    <3>1. r.y + i - 1 \in Int
      OBVIOUS
    <3> HIDE DEF g
    <3>2. CopyRow(g[i - 1], n, x0, dx, r.y + i - 1, away) \in Bank
      BY <3>1, CopyRowType
    <3> QED BY <1>5, <3>2
  <2> HIDE DEF Reached
  <2> QED BY <2>1, <2>2, UpTo
<1> QED
  <2> HIDE DEF g
  <2>1. g \in [0 .. rows -> Bank]
    BY <1>5, <1>6
  <2> QED BY <1>5, <2>1, Zenon DEF g

-----------------------------------------------------------------------------
(* What the calls do to the matrix. *)

LEMMA BlankedType ==
  ASSUME NEW bytes \in Bank, NEW cells
  PROVE  Blanked(bytes, cells) \in Bank
BY DEF Blanked, Bank

(* A screen whose bank holds characters. *)
Typed(s) == IsScreen(s) /\ s.mem \in Bank
Whole(r) == r.x \in Int /\ r.y \in Int /\ r.w \in Int /\ r.h \in Int

LEMMA ScrollTyped ==
  ASSUME NEW s, Typed(s), Whole(s.region), NEW horizontal \in Int, NEW vertical \in Int,
         vertical <= s.region.h
  PROVE  Typed(Scroll(s, horizontal, vertical))
<1>1. Typed(ScrollSimple(s))
  <2> DEFINE count == (Rows - 1) * Columns
             moved == IoCopy(s.mem, count, MatrixBase, MatrixBase + Columns)
  <2>1. count \in Nat /\ MatrixBase \in Int /\ MatrixBase + Columns \in Int
    BY ScreenSizes
  <2>2. moved \in Bank
    BY <2>1, IoCopyType DEF Typed
  <2> HIDE DEF moved
  <2>3. Blanked(moved, Block(0 .. Columns - 1, {Rows - 1})) \in Bank
    BY <2>2, BlankedType
  <2>4. ScrollSimple(s) = [s EXCEPT !.mem = Blanked(moved, Block(0 .. Columns - 1, {Rows - 1}))]
    BY DEF ScrollSimple, moved
  <2> QED
    BY <2>3, <2>4 DEF Typed, IsScreen
<1>2. Typed(ScrollComplex(s, horizontal, vertical))
  <2> DEFINE r == s.region
             dx == IF horizontal >= 0 THEN 1 ELSE -1
             x0 == IF horizontal >= 0 THEN r.x ELSE r.x + r.w - 1
             x3 == IF horizontal >= 0 THEN r.x + r.w ELSE r.x - 1
             x2 == x3 - horizontal
             rows == r.h - vertical
             away == vertical * Columns + horizontal
             copied == Copying(s.mem, r, rows, x2 - x0, x0, dx, away)[rows]
             entered == IF horizontal >= 0 THEN x2 .. x3 - 1 ELSE x3 + 1 .. x2
             bottom == r.y + r.h
             cells == Block(entered, r.y .. bottom - 1)
                        \cup Block(r.x .. r.x + r.w - 1, bottom - vertical .. bottom - 1)
  <2>1. /\ rows \in Nat /\ dx \in Int /\ x0 \in Int /\ x2 - x0 \in Int /\ r.y \in Int
    BY DEF Whole
  <2>2. away \in Int
    BY ScreenSizes
  <2>3. copied \in Bank
    <3> HIDE DEF rows, dx, x0, x2, away, r
    <3>1. Copying(s.mem, r, rows, x2 - x0, x0, dx, away) \in [0 .. rows -> Bank]
      BY <2>1, <2>2, CopyingIs DEF Typed
    <3> QED
      BY <2>1, <3>1
  <2>4. ScrollComplex(s, horizontal, vertical) = [s EXCEPT !.mem = Blanked(copied, cells)]
    BY Zenon DEF ScrollComplex
  <2> HIDE DEF copied, cells
  <2> QED
    BY <2>3, <2>4, BlankedType DEF Typed, IsScreen
<1> QED
  BY <1>1, <1>2 DEF Scroll

(* The region is a part of the screen. *)
OnScreen(r) == r \in Region /\ Fits(r) /\ r.w > 0 /\ r.h > 0

(* The cursor is not further away than a change of region leaves it.       *)
Near(r, c) == c.x < Columns /\ c.y < Rows /\ c.y + 2 <= 2 * r.h

Ready(s) == Loose(s) /\ Typed(s) /\ OnScreen(s.region) /\ Near(s.region, s.cursor)

LEMMA OnScreenWhole ==
  ASSUME NEW r, OnScreen(r)
  PROVE  /\ Extent(r) /\ Whole(r)
         /\ r.x \in Nat /\ r.y \in Nat /\ r.x + r.w <= Columns /\ r.y + r.h <= Rows
BY ScreenSizes DEF OnScreen, Region, Fits, Extent, Whole

LEMMA SetXYTyped ==
  ASSUME NEW s, Typed(s), OnScreen(s.region), NEW x \in Int, NEW y \in Int, InReach(s, x, y)
  PROVE  Typed(SetXY(s, x, y))
<1> DEFINE row == WrappedRow(s, x, y)
           lines == LinesBelow(s, row)
           shown == IF lines > 0 THEN Scroll(s, 0, lines) ELSE s
           at == [x |-> IF x < 0 \/ x >= s.region.w THEN 0 ELSE x,
                  y |-> IF row < 0 THEN 0 ELSE row - lines]
<1>1. lines \in Int /\ lines <= s.region.h
  BY OnScreenWhole DEF WrappedRow, LinesBelow, InReach, Extent
<1>2. Typed(shown)
  <2> HIDE DEF lines
  <2>1. Whole(s.region)
    BY OnScreenWhole
  <2>2. Typed(Scroll(s, 0, lines))
    BY <1>1, <2>1, ScrollTyped
  <2> QED
    BY <2>2
<1>3. SetXY(s, x, y) = [shown EXCEPT !.cursor = at]
  BY DEF SetXY
<1> HIDE DEF at, shown
<1> QED
  BY <1>2, <1>3 DEF Typed, IsScreen

(* What SetXY is given by the calls that write: the next row at most.      *)
LEMMA NextRowInReach ==
  ASSUME NEW s, Extent(s.region), NEW x \in Int, NEW y \in Int,
         y + 2 <= 2 * s.region.h \/ (y + 1 <= 2 * s.region.h /\ x < s.region.w)
  PROVE  InReach(s, x, y)
BY DEF InReach, LinesBelow, WrappedRow, Extent

LEMMA SoundIsReady ==
  ASSUME NEW s, Sound(s), Typed(s), OnScreen(s.region)
  PROVE  Ready(s)
<1>1. Near(s.region, s.cursor)
  <2>1. /\ s.region.w \in Nat \ {0} /\ s.region.h \in Nat \ {0}
        /\ s.region.x \in Nat /\ s.region.y \in Nat
        /\ s.region.x + s.region.w <= Columns /\ s.region.y + s.region.h <= Rows
    BY OnScreenWhole DEF Extent
  <2> QED
    BY <2>1, ScreenSizes DEF Near, Sound, Within
<1> QED
  BY <1>1, SoundIsLoose DEF Ready

LEMMA SetXYReady ==
  ASSUME NEW s, Typed(s), OnScreen(s.region), NEW x \in Int, NEW y \in Int, InReach(s, x, y)
  PROVE  /\ Ready(SetXY(s, x, y)) /\ SetXY(s, x, y).region = s.region
         /\ Sound(SetXY(s, x, y))
<1>1. Sound(SetXY(s, x, y)) /\ SetXY(s, x, y).region = s.region
  BY SetXYSound, OnScreenWhole DEF Typed
<1> QED
  BY <1>1, SetXYTyped, SoundIsReady

LEMMA PutReady ==
  ASSUME NEW s, Ready(s), NEW glyph \in {Blank, Ink}
  PROVE  /\ Ready(Put(s, glyph)) /\ Put(s, glyph).region = s.region
         /\ Sound(Put(s, glyph))
<1> DEFINE a == Cell(s.region.x + s.cursor.x, s.region.y + s.cursor.y)
           written == [s EXCEPT !.mem[a] = glyph]
<1>1. Typed(written) /\ written.region = s.region
  <2> DEFINE bytes == [s.mem EXCEPT ![a] = glyph]
  <2>1. s = [mem |-> s.mem, region |-> s.region, cursor |-> s.cursor] /\ s.mem \in Bank
    BY DEF Ready, Typed, IsScreen
  <2>2. bytes \in Bank
    BY <2>1 DEF Bank
  <2>3. written = [mem |-> bytes, region |-> s.region, cursor |-> s.cursor]
    BY <2>1
  <2> HIDE DEF bytes
  <2> QED
    BY <2>2, <2>3 DEF Typed, IsScreen
<1>2. /\ s.cursor.x + 1 \in Int /\ s.cursor.y \in Int
      /\ s.cursor.y + 2 <= 2 * s.region.h
  BY DEF Ready, Loose, Placed, Near
<1>3. Put(s, glyph) = SetXY(written, s.cursor.x + 1, s.cursor.y)
  BY DEF Put
<1>4. OnScreen(s.region) /\ Extent(s.region)
  BY OnScreenWhole DEF Ready
<1> HIDE DEF written
<1>5. InReach(written, s.cursor.x + 1, s.cursor.y)
  BY <1>1, <1>2, <1>4, NextRowInReach
<1> QED
  BY <1>1, <1>2, <1>3, <1>4, <1>5, SetXYReady

LEMMA TxtPutReady ==
  ASSUME NEW s, Ready(s), NEW c
  PROVE  Ready(TxtPut(s, c)) /\ TxtPut(s, c).region = s.region
<1> DEFINE x == s.cursor.x
           y == s.cursor.y
<1>1. /\ Typed(s) /\ OnScreen(s.region) /\ Extent(s.region)
      /\ x \in Nat /\ y \in Nat /\ y + 2 <= 2 * s.region.h
  BY DEF Ready, Loose, Placed, Near
<1>2. ASSUME c = "BS", x > 0
      PROVE  Ready(TxtPut(s, c)) /\ TxtPut(s, c).region = s.region
  <2> DEFINE moved == SetXY(s, x - 1, y)
             erased == Put(moved, Blank)
  <2>1. x - 1 \in Int /\ y \in Int
    BY <1>1
  <2>2. InReach(s, x - 1, y)
    BY <1>1, <2>1, NextRowInReach
  <2>3. Ready(moved) /\ moved.region = s.region
    BY <1>1, <2>1, <2>2, SetXYReady
  <2>4. Ready(erased) /\ erased.region = s.region
    <3> HIDE DEF moved
    <3> QED BY <2>3, PutReady
  <2>5. TxtPut(s, c) = SetXY(erased, x - 1, y)
    BY <1>2 DEF TxtPut
  <2> HIDE DEF erased
  <2>6. InReach(erased, x - 1, y)
    BY <1>1, <2>1, <2>4, NextRowInReach
  <2> QED
    BY <1>1, <2>1, <2>4, <2>5, <2>6, SetXYReady DEF Ready
<1>3. ASSUME c = "BS", ~(x > 0)
      PROVE  TxtPut(s, c) = s
  BY <1>3 DEF TxtPut
<1>4. ASSUME c = "TAB"
      PROVE  Ready(TxtPut(s, c)) /\ TxtPut(s, c).region = s.region
  <2> DEFINE stop == (x \div TabStop + 1) * TabStop
  <2>1. stop \in Int
    BY <1>1, ScreenSizes
  <2>2. TxtPut(s, c) = SetXY(s, stop, y)
    BY <1>4 DEF TxtPut
  <2> HIDE DEF stop
  <2>3. InReach(s, stop, y)
    BY <1>1, <2>1, NextRowInReach
  <2> QED
    BY <1>1, <2>1, <2>2, <2>3, SetXYReady
<1>5. ASSUME c = "NL"
      PROVE  Ready(TxtPut(s, c)) /\ TxtPut(s, c).region = s.region
  <2>1. 0 \in Int /\ y + 1 \in Int
    BY <1>1
  <2>2. TxtPut(s, c) = SetXY(s, 0, y + 1)
    BY <1>5 DEF TxtPut
  <2>3. InReach(s, 0, y + 1)
    <3>1. (y + 1) + 1 <= 2 * s.region.h /\ 0 < s.region.w
      BY <1>1 DEF Extent
    <3> HIDE DEF y
    <3> QED BY <1>1, <2>1, <3>1, NextRowInReach
  <2> QED
    BY <1>1, <2>1, <2>2, <2>3, SetXYReady
<1>6. ASSUME c = "CR"
      PROVE  TxtPut(s, c) = s
  BY <1>6 DEF TxtPut
<1>7. ASSUME c \notin {"BS", "TAB", "NL", "CR"}
      PROVE  TxtPut(s, c) = Put(s, Glyph(c))
  BY <1>7 DEF TxtPut
<1>8. Glyph(c) \in {Blank, Ink}
  BY DEF Glyph
<1> QED
  BY <1>2, <1>3, <1>4, <1>5, <1>6, <1>7, <1>8, PutReady

LEMMA FillTyped ==
  ASSUME NEW s, Typed(s)
  PROVE  Typed(FillBlank(s))
BY BlankedType DEF Typed, IsScreen, FillBlank

LEMMA RegionTyped ==
  ASSUME NEW s, Typed(s), NEW r
  PROVE  Typed(SetRegion(s, r))
BY DEF Typed, IsScreen, SetRegion

LEMMA ClearPartTyped ==
  ASSUME NEW s, Typed(s), NEW x, NEW y, NEW w, NEW h
  PROVE  Typed(ClearPart(s, x, y, w, h))
<1> DEFINE part == [x |-> s.region.x + x, y |-> s.region.y + y, w |-> w, h |-> h]
<1>1. Typed(FillBlank(SetRegion(s, part)))
  BY RegionTyped, FillTyped
<1>2. ClearPart(s, x, y, w, h) = SetRegion(FillBlank(SetRegion(s, part)), s.region)
  BY Zenon DEF ClearPart
<1> HIDE DEF part
<1> QED
  BY <1>1, <1>2, RegionTyped

LEMMA ClearTyped ==
  ASSUME NEW s, Typed(s), NEW mode
  PROVE  Typed(Clear(s, mode)) /\ Typed(ClearLine(s, mode))
<1>1. \A x, y, w, h, x1, y1, w1, h1 :
        /\ Typed(ClearPart(s, x, y, w, h))
        /\ Typed(ClearPart(ClearPart(s, x, y, w, h), x1, y1, w1, h1))
  BY ClearPartTyped
<1>2. Typed(Clear(s, mode))
  BY <1>1, FillTyped, Zenon DEF Clear
<1>3. Typed(ClearLine(s, mode))
  BY <1>1, Zenon DEF ClearLine
<1> QED
  BY <1>2, <1>3

LEMMA ScrollRestTyped ==
  ASSUME NEW s, Ready(s), NEW horizontal \in Int
  PROVE  Typed(ScrollRest(s, horizontal))
<1> DEFINE rest == [x |-> s.region.x + s.cursor.x, y |-> s.region.y + s.cursor.y,
                    w |-> s.region.w - s.cursor.x, h |-> 1]
           set == SetRegion(s, rest)
<1>1. Typed(set) /\ set.region = Resolved(rest)
  BY RegionTyped DEF Ready, Typed, IsScreen, SetRegion
<1>2. Whole(set.region) /\ set.region.h >= 0
  <2>1. Whole(rest) /\ rest.h >= 0
    BY OnScreenWhole DEF Ready, Loose, Placed, Extent, Whole
  <2>2. Whole(FullScreen) /\ FullScreen.h >= 0
    BY ScreenSizes DEF Whole, FullScreen
  <2> HIDE DEF rest
  <2> QED
    BY <1>1, <2>1, <2>2 DEF Resolved
<1>3. ScrollRest(s, horizontal) = SetRegion(Scroll(set, horizontal, 0), s.region)
  BY Zenon DEF ScrollRest
<1> HIDE DEF set
<1>4. Typed(Scroll(set, horizontal, 0))
  BY <1>1, <1>2, ScrollTyped
<1> QED
  BY <1>3, <1>4, RegionTyped

LEMMA InsertDeleteTyped ==
  ASSUME NEW s, Ready(s), NEW count \in Int
  PROVE  Typed(Insert(s, count)) /\ Typed(Delete(s, count))
<1>1. Typed(s) /\ s.cursor.x \in Int
  BY DEF Ready, Loose, Placed
<1>2. Typed(ScrollRest(s, -count))
  BY ScrollRestTyped
<1>3. Typed(ScrollRest(s, IF count > s.cursor.x THEN s.cursor.x ELSE count))
  BY <1>1, ScrollRestTyped
<1>4. Typed(Insert(s, count))
  BY <1>1, <1>2, Zenon DEF Insert
<1>5. Typed(Delete(s, count))
  BY <1>1, <1>3, Zenon DEF Delete
<1> QED
  BY <1>4, <1>5

LEMMA HandleReady ==
  ASSUME NEW s, Ready(s), NEW letter \in Handled, NEW args \in Seq(Int), args # <<>>,
         letter \in Movers => LET to == Target(s, letter, args) IN InReach(s, to.x, to.y)
  PROVE  Ready(Handle(s, letter, args)) /\ Handle(s, letter, args).region = s.region
<1>1. Loose(s) /\ Typed(s) /\ OnScreen(s.region)
  BY DEF Ready
<1>2. CASE letter \in Movers
  <2> DEFINE to == Target(s, letter, args)
  <2>1. to.x \in Int /\ to.y \in Int
    BY <1>1, <1>2, TargetInt
  <2>2. Handle(s, letter, args) = SetXY(s, to.x, to.y)
    BY <1>2, Zenon DEF Handle, Movers
  <2>3. InReach(s, to.x, to.y)
    BY <1>2
  <2> HIDE DEF to
  <2> QED
    BY <1>1, <2>1, <2>2, <2>3, SetXYReady
<1>3. CASE letter \notin Movers
  <2> DEFINE t == Handle(s, letter, args)
  <2>1. letter \in {"J", "K", "@", "P", "m"}
    BY <1>3 DEF Handled, Letters, Movers
  <2>2. Keeps(s, s) /\ args[1] \in Int
    BY <1>1 DEF Keeps, Loose
  <2>3. Keeps(s, t)
    BY <1>1, <1>3, <2>1, <2>2, ClearKeeps, InsertDeleteKeep, Zenon DEF Handle
  <2>4. Typed(t)
    BY <1>1, <1>3, <2>1, <2>2, ClearTyped, InsertDeleteTyped, Zenon DEF Handle
  <2> HIDE DEF t
  <2>5. Loose(t) /\ t.region = s.region /\ t.cursor = s.cursor
    BY <1>1, <2>3, KeepsLoose DEF Keeps
  <2>6. Ready(t) /\ t.region = s.region
    BY <1>1, <2>4, <2>5 DEF Ready
  <2> QED
    BY <2>6 DEF t
<1> QED
  BY <1>2, <1>3

-----------------------------------------------------------------------------
(* What a sequence holds while it is collected, and while it is shown.     *)

ScreenTypes == mem \in Bank /\ OnScreen(region) /\ Near(region, cursor)

BufferTypes ==
  /\ ansi \in BOOLEAN
  /\ ansi_buffer \in Seq(Chars)
  /\ ansi_buffer # <<>> => flushing \/ ansi_buffer[1] = "ESC"
  /\ \A i \in 1 .. Len(ansi_buffer) : ansi_buffer[i] \in Letters => i = Len(ansi_buffer) /\ flushing
  /\ flushing \in BOOLEAN
  /\ flushing => ansi_buffer # <<>> /\ ansi

LEMMA TypesAre ==
  ASSUME Inv, ScreenTypes, BufferTypes
  PROVE  TypeOK
<1>1. cursor \in [x : 0 .. Columns - 1, y : 0 .. Rows - 1]
  <2>1. cursor = [x |-> cursor.x, y |-> cursor.y] /\ cursor.x \in Nat /\ cursor.y \in Nat
    BY DEF Inv, Placed
  <2>2. cursor.x \in 0 .. Columns - 1 /\ cursor.y \in 0 .. Rows - 1
    BY <2>1, ScreenSizes DEF ScreenTypes, Near
  <2> QED
    BY <2>1, <2>2
<1> QED
  BY <1>1, Zenon DEF TypeOK, ScreenTypes, BufferTypes, Bank, OnScreen

LEMMA ReadyScreen == Inv /\ ScreenTypes <=> Ready(Screen)
<1>1. Inv <=> Loose(Screen)
  BY InvIsLoose
<1>2. IsScreen(Screen) /\ Screen.mem = mem /\ Screen.region = region /\ Screen.cursor = cursor
  BY DEF Screen, IsScreen
<1> QED
  BY <1>1, <1>2 DEF ScreenTypes, Ready, Typed

LEMMA ReadyBecomes ==
  ASSUME NEW s, Ready(s), Becomes(s)
  PROVE  ScreenTypes'
BY DEF Ready, Typed, Becomes, ScreenTypes, OnScreen, Region, Fits, Near

LEMMA CollectedInts ==
  ASSUME NEW c, Completes(c), WithinReach(c)
  PROVE  Collected \in Seq(Int) /\ Collected # <<>>
<1>1. Collected \in Seq(0 .. MaxArgument) \ {<<>>}
  BY Zenon DEF WithinReach
<1>2. Collected \in Seq(0 .. MaxArgument) /\ Collected # <<>>
  BY <1>1, Zenon
<1>3. MaxArgument \in Nat
  BY NumberAssumption DEF NumberAssumption
<1> QED
  BY <1>2, <1>3, ArgumentsInt, Zenon

(* What a step leaves of the screen is a screen of the same kind.          *)
LEMMA ExecuteReady ==
  ASSUME Ready(Screen), NEW c, Completes(c), WithinReach(c)
  PROVE  /\ Ready(Handle(Screen, c, Collected))
         /\ Handle(Screen, c, Collected).region = region
<1>1. c \in Handled
  BY DEF Completes
<1>2. c \in Movers => LET to == Target(Screen, c, Collected) IN InReach(Screen, to.x, to.y)
  BY Zenon DEF WithinReach, Reachable
<1>3. Collected \in Seq(Int) /\ Collected # <<>>
  BY CollectedInts
<1>4. Screen.region = region
  BY DEF Screen
<1> QED
  BY <1>1, <1>2, <1>3, <1>4, HandleReady

(* The region is on the screen, and the line below the cursor in reach.    *)
LEMMA RegionReady ==
  ASSUME Ready(Screen), NEW r \in Regions, Settable(r)
  PROVE  /\ Ready(SetRegion(Screen, r))
         /\ SetRegion(Screen, r) = [mem |-> mem, region |-> Resolved(r), cursor |-> cursor]
<1> DEFINE set == SetRegion(Screen, r)
<1>1. set = [mem |-> mem, region |-> Resolved(r), cursor |-> cursor]
  BY DEF SetRegion, Screen
<1>2. OnScreen(Resolved(r))
  <2>1. r \in Region /\ Fits(r)
    BY ScreenAssumption DEF ScreenAssumption
  <2>2. FullScreen \in Region /\ Fits(FullScreen) /\ FullScreen.w > 0 /\ FullScreen.h > 0
    BY ScreenSizes DEF Region, FullScreen, Fits
  <2>3. r.w \in Nat /\ r.h \in Nat
    BY <2>1, ScreenSizes DEF Region
  <2> QED
    BY <2>1, <2>2, <2>3 DEF Resolved, OnScreen
<1>3. Typed(set)
  BY RegionTyped DEF Ready
<1>4. Placed(cursor) /\ cursor.x < Columns /\ cursor.y < Rows
  BY DEF Ready, Loose, Near, Screen
<1>5. Extent(Resolved(r))
  BY <1>2, OnScreenWhole
<1>6. InReach(set, 0, cursor.y + 1)
  BY DEF Settable
<1> HIDE DEF set
<1>7. cursor.y + 2 <= 2 * set.region.h
  <2>1. set.region.w \in Nat \ {0} /\ set.region.h \in Nat \ {0} /\ cursor.y \in Nat
    BY <1>1, <1>4, <1>5 DEF Extent, Placed
  <2> QED
    BY <1>6, <2>1 DEF InReach, LinesBelow, WrappedRow
<1>8. Ready(set)
  <2>1. IsScreen(set) /\ set.region = Resolved(r) /\ set.cursor = cursor
    BY <1>1 DEF IsScreen
  <2> QED
    BY <1>2, <1>3, <1>4, <1>5, <1>7, <2>1 DEF Ready, Loose, Near
<1> QED
  BY <1>1, <1>8 DEF set

LEMMA ScreenStep ==
  ASSUME Inv, ScreenTypes, [Next]_vars
  PROVE  ScreenTypes'
<1>1. Ready(Screen)
  BY ReadyScreen
<1>2. ASSUME UNCHANGED screenVars
      PROVE  ScreenTypes'
  BY <1>2 DEF screenVars, ScreenTypes, OnScreen, Near
<1>3. \A c : Ready(TxtPut(Screen, c))
  BY <1>1, TxtPutReady
<1>4. ASSUME NEW c \in Chars, WithinReach(c), ConWriteB(c)
      PROVE  ScreenTypes'
  <2>1. CASE WritePlain(c)
    BY <2>1, <1>3, ReadyBecomes DEF WritePlain
  <2>2. CASE WriteEscape(c) \/ Collect(c) \/ Dump(c)
    BY <2>2, <1>2 DEF WriteEscape, Collect, Dump
  <2>3. CASE Execute(c)
    BY <2>3, <1>1, <1>4, ExecuteReady, ReadyBecomes DEF Execute
  <2> QED
    BY <1>4, <2>1, <2>2, <2>3 DEF ConWriteB
<1>5. ASSUME ConFlush \/ (\E on \in BOOLEAN : ConIoctrl(on)) \/ ConOpen \/ UNCHANGED vars
      PROVE  ScreenTypes'
  BY <1>5, <1>2 DEF ConFlush, ConIoctrl, ConOpen, vars
<1>6. ASSUME FlushChar
      PROVE  ScreenTypes'
  BY <1>6, <1>3, ReadyBecomes DEF FlushChar
<1>7. ASSUME NEW r \in Regions, Settable(r), TxtSetRegion(r)
      PROVE  ScreenTypes'
  BY <1>1, <1>7, RegionReady, ReadyBecomes DEF TxtSetRegion
<1>8. ASSUME NEW c \in RawChars, TxtPutC(c)
      PROVE  ScreenTypes'
  BY <1>8, <1>3, ReadyBecomes DEF TxtPutC
<1>9. ASSUME NEW x \in Places, NEW y \in Places, Reachable(x, y), TxtSetXY(x, y)
      PROVE  ScreenTypes'
  <2>1. x \in Int /\ y \in Int
    BY NumberAssumption DEF NumberAssumption
  <2>2. Ready(SetXY(Screen, x, y))
    BY <1>1, <1>9, <2>1, SetXYReady DEF Reachable, Ready
  <2> QED
    BY <1>9, <2>2, ReadyBecomes DEF TxtSetXY
<1> QED
  BY <1>4, <1>5, <1>6, <1>7, <1>8, <1>9 DEF Next

(* A character is added to a sequence only while the sequence is collected, *)
(* and a letter only to be shown.                                          *)
LEMMA BufferAppended ==
  ASSUME BufferTypes, ansi_buffer # <<>>, ~flushing, NEW c \in Chars, c \notin Letters \/ flushing',
         ansi_buffer' = Append(ansi_buffer, c), ansi, ansi' = ansi, flushing' \in BOOLEAN
  PROVE  BufferTypes'
<1> DEFINE new == Append(ansi_buffer, c)
<1>1. ansi_buffer \in Seq(Chars)
  BY DEF BufferTypes
<1>2. /\ new \in Seq(Chars) /\ new # <<>> /\ Len(new) = Len(ansi_buffer) + 1
      /\ \A i \in 1 .. Len(ansi_buffer) : new[i] = ansi_buffer[i]
      /\ new[Len(new)] = c
  BY <1>1
<1>3. Len(ansi_buffer) \in Nat /\ Len(ansi_buffer) > 0
  BY <1>1
<1>4. new[1] = "ESC"
  BY <1>2, <1>3 DEF BufferTypes
<1>5. \A i \in 1 .. Len(new) : i = Len(new) \/ i \in 1 .. Len(ansi_buffer)
  BY <1>2, <1>3
<1>6. \A i \in 1 .. Len(ansi_buffer) : new[i] \notin Letters
  BY <1>2 DEF BufferTypes
<1>7. \A i \in 1 .. Len(new) : new[i] \in Letters => i = Len(new) /\ flushing'
  <2> HIDE DEF new
  <2> QED BY <1>2, <1>5, <1>6
<1> HIDE DEF new
<1>8. ansi_buffer' = new
  BY DEF new
<1> QED
  BY <1>2, <1>4, <1>7, <1>8 DEF BufferTypes

LEMMA BufferStep ==
  ASSUME BufferTypes, [Next]_vars
  PROVE  BufferTypes'
<1>1. ASSUME UNCHANGED consoleVars
      PROVE  BufferTypes'
  BY <1>1 DEF consoleVars, BufferTypes
<1>2. ASSUME ansi_buffer' = <<>>, ansi' \in BOOLEAN, flushing' = FALSE
      PROVE  BufferTypes'
  <2>1. <<>> \in Seq(Chars) /\ 1 .. Len(<<>>) = {}
    OBVIOUS
  <2> QED
    BY <1>2, <2>1 DEF BufferTypes
<1>3. ASSUME NEW c \in Chars, ~flushing, ConWriteB(c)
      PROVE  BufferTypes'
  <2>1. CASE WritePlain(c)
    BY <2>1, <1>1 DEF WritePlain
  <2>2. CASE WriteEscape(c)
    <3>1. /\ ansi_buffer' = <<c>> /\ c = "ESC"
          /\ ansi' = ansi /\ flushing' = FALSE
      BY <2>2, <1>3 DEF WriteEscape, BufferTypes
    <3>2. <<c>> \in Seq(Chars) /\ <<c>> # <<>> /\ <<c>>[1] = c /\ 1 .. Len(<<c>>) = {1}
      OBVIOUS
    <3>3. c \notin Letters
      BY <3>1 DEF Letters
    <3> QED
      BY <3>1, <3>2, <3>3 DEF BufferTypes
  <2>3. CASE Collect(c)
    BY <2>3, <1>3, BufferAppended DEF Collect, BufferTypes
  <2>4. CASE Execute(c)
    BY <2>4, <1>2, <1>3 DEF Execute, BufferTypes
  <2>5. CASE Dump(c)
    BY <2>5, <1>3, BufferAppended DEF Dump
  <2> QED
    BY <1>3, <2>1, <2>2, <2>3, <2>4, <2>5 DEF ConWriteB
<1>4. ASSUME ConFlush
      PROVE  BufferTypes'
  <2>1. CASE ansi
    BY <1>4, <2>1 DEF ConFlush, BufferTypes
  <2>2. CASE ~ansi
    BY <1>2, <1>4, <2>2 DEF ConFlush, BufferTypes
  <2> QED
    BY <2>1, <2>2
<1>5. ASSUME FlushChar
      PROVE  BufferTypes'
  <2> DEFINE new == Tail(ansi_buffer)
  <2>1. /\ ansi_buffer \in Seq(Chars) /\ ansi_buffer # <<>> /\ ansi
        /\ ansi_buffer' = new /\ flushing' = (new # <<>>) /\ ansi' = ansi
    BY <1>5 DEF FlushChar, BufferTypes
  <2>2. /\ new \in Seq(Chars) /\ Len(new) = Len(ansi_buffer) - 1
        /\ \A i \in 1 .. Len(new) : new[i] = ansi_buffer[i + 1]
    BY <2>1
  <2>3. /\ Len(ansi_buffer) \in Nat /\ Len(new) \in Nat /\ (Len(new) > 0 => new # <<>>)
        /\ \A i \in 1 .. Len(new) : i + 1 \in 1 .. Len(ansi_buffer)
    BY <2>1, <2>2
  <2>4. \A i \in 1 .. Len(new) : new[i] \in Letters => i = Len(new) /\ new # <<>>
    <3> SUFFICES ASSUME NEW i \in 1 .. Len(new), new[i] \in Letters
                 PROVE  i = Len(new) /\ new # <<>>
      OBVIOUS
    <3>1. i + 1 = Len(ansi_buffer)
      BY <2>2, <2>3 DEF BufferTypes
    <3>2. i = Len(new)
      <4>1. i \in Nat /\ Len(new) = Len(ansi_buffer) - 1 /\ Len(ansi_buffer) \in Nat
        BY <2>2, <2>3
      <4> QED
        BY <3>1, <4>1
    <3>3. Len(new) > 0
      BY <2>3
    <3> QED
      BY <2>3, <3>2, <3>3
  <2> HIDE DEF new
  <2> QED
    BY <2>1, <2>2, <2>4 DEF BufferTypes
<1>6. ASSUME NEW on \in BOOLEAN, ConIoctrl(on)
      PROVE  BufferTypes'
  BY <1>6 DEF ConIoctrl, BufferTypes
<1>7. ASSUME ConOpen
      PROVE  BufferTypes'
  BY <1>2, <1>7 DEF ConOpen, BufferTypes
<1>8. ASSUME UNCHANGED vars \/ (\E r \in Regions : TxtSetRegion(r)) \/ (\E c \in RawChars : TxtPutC(c))
               \/ (\E x, y \in Places : TxtSetXY(x, y))
      PROVE  BufferTypes'
  BY <1>1, <1>8 DEF vars, TxtSetRegion, TxtPutC, TxtSetXY
<1> QED
  BY <1>3, <1>4, <1>5, <1>6, <1>7, <1>8 DEF Next, ConWriteB

LEMMA ScreenStarts == Init => Inv /\ ScreenTypes
<1> SUFFICES ASSUME Init PROVE Inv /\ ScreenTypes
  OBVIOUS
<1>1. Inv
  BY InvStarts
<1>2. OnScreen(region) /\ Near(region, cursor)
  BY ScreenSizes
  DEF Init, ScreenInit, FullScreen, OnScreen, Region, Fits, Near
<1>3. mem \in Bank
  BY DEF Init, ScreenInit, Bank
<1> QED
  BY <1>1, <1>2, <1>3 DEF ScreenTypes

(* Whatever programs do: the matrix and the bytes of the bank around it     *)
(* hold characters, the region is on the screen, and what is collected is   *)
(* an escape sequence without a letter, but for the one that has it shown   *)
(* (con_write_b, con_flush, txt_f256_set_region).                          *)
THEOREM TypeCorrect == Spec => []TypeOK
<1> DEFINE IInv == Inv /\ ScreenTypes /\ BufferTypes
<1>1. Init => IInv
  <2>1. Init => BufferTypes
    <3>1. <<>> \in Seq(Chars) /\ 1 .. Len(<<>>) = {}
      OBVIOUS
    <3> QED
      BY <3>1 DEF Init, BufferTypes
  <2> QED
    BY <2>1, ScreenStarts
<1>2. IInv /\ [Next]_vars => IInv'
  BY InvStep, ScreenStep, BufferStep
<1>3. IInv => TypeOK
  BY TypesAre
<1> QED
  <2> HIDE DEF IInv
  <2> QED BY <1>1, <1>2, <1>3, PTL DEF Spec

-----------------------------------------------------------------------------
(* What scrolling up shows. *)

(* The first of the w + 1 bytes that are copied for row y of a region that  *)
(* starts in column x: the one before the row.                             *)
Before(x, y) == Cell(x, y) - 1
RowBytes(r, y) == Before(r.x, y) .. Before(r.x, y) + r.w

(* Rows y and y1 below it, where both are copied. *)
LEMMA RowsApart ==
  ASSUME NEW r, OnScreen(r), NEW y \in Int, NEW y1 \in Int, y < y1,
         NEW a \in RowBytes(r, y), NEW b \in RowBytes(r, y1), NEW v \in Nat, v > 0
  PROVE  a < b + v * Columns
<1>1. /\ Before(r.x, y) \in Int /\ Before(r.x, y1) \in Int /\ r.w \in Nat /\ r.w <= Columns
      /\ r.x \in Int /\ Cell(r.x, y) \in Int
  <2>1. r.w \in Nat /\ r.w <= Columns /\ r.x \in Int
    BY OnScreenWhole, ScreenSizes DEF Extent
  <2>2. Cell(r.x, y) \in Int /\ Cell(r.x, y1) \in Int
    BY <2>1, CellBelow, Zenon
  <2> QED
    BY <2>1, <2>2 DEF Before
<1>2. Cell(r.x, y1) = Cell(r.x, y) + (y1 - y) * Columns
  <2>1. (y1 - y) * Columns = y1 * Columns - y * Columns
    BY ScreenSizes
  <2> QED
    BY <1>1, <2>1, ScreenSizes DEF Cell
<1>3. (y1 - y) * Columns >= Columns /\ v * Columns >= Columns
      /\ (y1 - y) * Columns \in Int /\ v * Columns \in Int
  <2>1. 0 < y1 - y /\ y1 - y \in Nat
    OBVIOUS
  <2>2. 0 * Columns = 0 /\ Columns \in Nat
    BY ScreenSizes
  <2> QED
    BY <2>1, <2>2, Multiples
<1>4. Before(r.x, y1) = Before(r.x, y) + (y1 - y) * Columns
  BY <1>1, <1>2, <1>3 DEF Before
<1>5. a <= Before(r.x, y) + r.w /\ a \in Int /\ b >= Before(r.x, y1) /\ b \in Int
  BY <1>1 DEF RowBytes
<1> QED
  BY <1>1, <1>3, <1>4, <1>5, ScreenSizes

LEMMA RowBytesIn ==
  ASSUME NEW r, OnScreen(r), NEW v \in Nat, NEW y \in Int, r.y <= y, y + v < r.y + r.h
  PROVE  /\ Before(r.x, y) \in Addresses
         /\ Before(r.x, y) + v * Columns \in Addresses
         /\ Before(r.x, y) + v * Columns + r.w \in Addresses
<1>1. /\ r.x \in Nat /\ r.y \in Nat /\ r.w \in Nat /\ r.w > 0 /\ r.h \in Nat
      /\ r.x + r.w <= Columns /\ r.y + r.h <= Rows
  BY OnScreenWhole DEF Extent
<1>2. /\ y \in 0 .. Rows - 1 /\ y + v \in 0 .. Rows - 1
      /\ r.x \in 0 .. Columns - 1 /\ r.x + r.w - 1 \in 0 .. Columns - 1
  BY <1>1, ScreenSizes
<1>3. /\ Cell(r.x, y) \in MatrixBase .. MatrixBase + Columns * Rows - 1
      /\ Cell(r.x, y + v) \in MatrixBase .. MatrixBase + Columns * Rows - 1
      /\ Cell(r.x + r.w - 1, y + v) \in MatrixBase .. MatrixBase + Columns * Rows - 1
  BY <1>2, CellIn
<1>4. /\ Cell(r.x, y + v) = Cell(r.x, y) + v * Columns /\ v * Columns \in Int
      /\ Cell(r.x + r.w - 1, y + v) = Cell(r.x, y) + v * Columns + r.w - 1
  <2>1. (y + v) * Columns = y * Columns + v * Columns /\ v * Columns \in Int /\ y * Columns \in Int
    BY ScreenSizes
  <2> QED
    BY <1>1, <2>1, ScreenSizes DEF Cell
<1> QED
  BY <1>1, <1>3, <1>4, ScreenSizes DEF Before, Addresses

(* A row is copied up together with the byte before it. *)
LEMMA CopyRowUp ==
  ASSUME NEW bytes \in Bank, NEW r, OnScreen(r), NEW v \in Nat, v > 0,
         NEW y \in Int, r.y <= y, y + v < r.y + r.h
  PROVE  CopyRow(bytes, r.w, r.x, 1, y, v * Columns) =
           [a \in Addresses |-> IF a \in RowBytes(r, y) THEN bytes[a + v * Columns] ELSE bytes[a]]
<1> DEFINE dest == Before(r.x, y)
           away == v * Columns
<1>1. /\ dest \in Addresses /\ dest + away \in Addresses /\ dest + away + r.w \in Addresses
      /\ r.w \in Nat /\ r.w \in Addresses
  <2>1. r.w \in Nat /\ r.w < BankSize
    <3>1. r.w \in Nat /\ r.w <= Columns
      BY OnScreenWhole, ScreenSizes DEF Extent
    <3>2. Columns <= Columns * Rows
      BY ScreenSizes, CellIn DEF Cell
    <3> QED
      BY <3>1, <3>2, ScreenSizes
  <2> QED
    BY <2>1, RowBytesIn, ScreenSizes DEF Addresses
<1>2. dest \in Int /\ away \in Int /\ away > 0
  <2>1. 0 * Columns = 0
    BY ScreenSizes
  <2>2. 0 * Columns + Columns <= v * Columns /\ v * Columns \in Nat
    BY Multiples
  <2> QED
    BY <1>1, <2>1, <2>2, ScreenSizes DEF Addresses
<1>3. r.w % BankSize = r.w /\ dest % BankSize = dest /\ (dest + away) % BankSize = dest + away
  BY <1>1, Modulo
<1>4. CopyRow(bytes, r.w, r.x, 1, y, away) = IoCopy(bytes, r.w, dest, dest + away)
  <2>1. CopyRow(bytes, r.w, r.x, 1, y, away)
          = IoCopy(bytes, r.w % BankSize, dest % BankSize, (dest + away) % BankSize)
    BY DEF CopyRow, Before
  <2> HIDE DEF dest, away
  <2> QED BY <1>3, <2>1
<1> HIDE DEF dest, away
<1> DEFINE src == dest + away
<1>5. dest < src /\ src \in Addresses /\ src + r.w \in Addresses /\ src - dest = away
  BY <1>1, <1>2
<1> HIDE DEF src
<1>6. IoCopy(bytes, r.w, dest, src) =
        [a \in Addresses |-> IF a \in dest .. dest + r.w THEN bytes[a + (src - dest)] ELSE bytes[a]]
  BY <1>1, <1>5, IoCopyDown
<1>7. CopyRow(bytes, r.w, r.x, 1, y, away) =
        [a \in Addresses |-> IF a \in dest .. dest + r.w THEN bytes[a + away] ELSE bytes[a]]
  BY <1>4, <1>5, <1>6 DEF src
<1> QED
  BY <1>7 DEF dest, away, RowBytes

(* After each row: what has been copied is from the bank as it was.        *)
LEMMA CopyingUp ==
  ASSUME NEW bytes \in Bank, NEW r, OnScreen(r), NEW v \in Nat, v > 0, v <= r.h
  PROVE  \A i \in 0 .. r.h - v :
           Copying(bytes, r, r.h - v, r.w, r.x, 1, v * Columns)[i] =
             [a \in Addresses |->
               IF \E k \in 1 .. i : a \in RowBytes(r, r.y + k - 1) THEN bytes[a + v * Columns]
               ELSE bytes[a]]
<1> DEFINE rows == r.h - v
           away == v * Columns
           g == Copying(bytes, r, rows, r.w, r.x, 1, away)
           Copied(i, a) == \E k \in 1 .. i : a \in RowBytes(r, r.y + k - 1)
           At(i) == [a \in Addresses |-> IF Copied(i, a) THEN bytes[a + away] ELSE bytes[a]]
           Reached == {i \in 0 .. rows : g[i] = At(i)}
<1>1. /\ r.y \in Nat /\ r.h \in Nat /\ r.w \in Int /\ r.x \in Int
      /\ rows \in Nat /\ away \in Int
  BY OnScreenWhole, ScreenSizes DEF Extent
<1>2. /\ g \in [0 .. rows -> Bank] /\ g[0] = bytes
      /\ \A i \in 1 .. rows : g[i] = CopyRow(g[i - 1], r.w, r.x, 1, r.y + i - 1, away)
  <2> HIDE DEF rows, away
  <2> QED BY <1>1, CopyingIs
<1>3. 0 \in Reached
  <2>1. bytes = [a \in Addresses |-> bytes[a]]
    BY DEF Bank
  <2>2. \A a : ~Copied(0, a)
    OBVIOUS
  <2> HIDE DEF Copied, g, rows
  <2>3. At(0) = [a \in Addresses |-> bytes[a]]
    BY <2>2
  <2> QED
    BY <1>1, <1>2, <2>1, <2>3
<1>4. \A i \in 1 .. rows : i - 1 \in Reached => i \in Reached
  <2> SUFFICES ASSUME NEW i \in 1 .. rows, g[i - 1] = At(i - 1) PROVE g[i] = At(i)
    OBVIOUS
  <2> DEFINE y == r.y + i - 1
             before == g[i - 1]
  <2>1. y \in Int /\ r.y <= y /\ y + v < r.y + r.h
    BY <1>1
  <2>2. before \in Bank
    <3>1. i - 1 \in 0 .. rows
      BY <1>1
    <3> HIDE DEF g, rows
    <3> QED BY <1>2, <3>1
  <2>3. g[i] = [a \in Addresses |-> IF a \in RowBytes(r, y) THEN before[a + away] ELSE before[a]]
    <3>1. g[i] = CopyRow(before, r.w, r.x, 1, y, away)
      <4> HIDE DEF g, rows, away
      <4> QED BY <1>2
    <3> HIDE DEF y, before, g, rows
    <3> QED BY <2>1, <2>2, <3>1, CopyRowUp
  <2>4. \A a \in RowBytes(r, y) : a + away \in Addresses /\ ~Copied(i - 1, a + away)
    <3> SUFFICES ASSUME NEW a \in RowBytes(r, y) PROVE a + away \in Addresses /\ ~Copied(i - 1, a + away)
      OBVIOUS
    <3>1. a + away \in Addresses
      <4>1. /\ Before(r.x, y) \in Addresses
            /\ Before(r.x, y) + away \in Addresses
            /\ Before(r.x, y) + away + r.w \in Addresses
        BY <2>1, RowBytesIn
      <4> HIDE DEF away, y
      <4> QED BY <1>1, <4>1, ScreenSizes DEF RowBytes, Addresses
    <3>2. \A k \in 1 .. i - 1 : a + away \notin RowBytes(r, r.y + k - 1)
      <4> SUFFICES ASSUME NEW k \in 1 .. i - 1, a + away \in RowBytes(r, r.y + k - 1) PROVE FALSE
        OBVIOUS
      <4>1. r.y + k - 1 \in Int /\ r.y + k - 1 < y
        BY <1>1
      <4>2. a + away < a + away
        <5> HIDE DEF y
        <5> QED BY <2>1, <4>1, RowsApart
      <4>3. a + away \in Int
        <5> HIDE DEF away, y
        <5> QED BY <3>1, ScreenSizes DEF Addresses
      <4> HIDE DEF away
      <4> QED
        BY <4>2, <4>3
    <3> QED
      BY <3>1, <3>2
  <2>5. \A a : Copied(i, a) <=> a \in RowBytes(r, y) \/ Copied(i - 1, a)
    <3>1. \A k \in 1 .. i : k = i \/ k \in 1 .. i - 1
      OBVIOUS
    <3>2. i \in 1 .. i /\ \A k \in 1 .. i - 1 : k \in 1 .. i
      OBVIOUS
    <3> QED BY <3>1, <3>2
  <2>6. \A a \in RowBytes(r, y) : before[a + away] = bytes[a + away]
    <3> HIDE DEF Copied, g, away, y
    <3> QED BY <2>4
  <2>7. \A a \in Addresses : a \notin RowBytes(r, y)
          => before[a] = IF Copied(i, a) THEN bytes[a + away] ELSE bytes[a]
    <3> HIDE DEF Copied, g, away, y
    <3> QED BY <2>5
  <2> HIDE DEF Copied, g, away, y, before
  <2> QED
    BY <2>3, <2>5, <2>6, <2>7
<1>5. \A i \in 0 .. rows : i \in Reached
  <2> HIDE DEF Reached, rows
  <2> QED BY <1>1, <1>3, <1>4, UpTo
<1>6. \A i \in 0 .. rows : g[i] = At(i)
  <2> HIDE DEF g, At, rows
  <2> QED BY <1>5
<1> QED
  BY <1>6, Zenon

(* The cell of region r that shows what is at (x, y) of the window.        *)
At(r, x, y) == Cell(r.x + x, r.y + y)

LEMMA WindowCells ==
  ASSUME NEW r, OnScreen(r), NEW x \in 0 .. r.w - 1, NEW y \in 0 .. r.h - 1
  PROVE  /\ r.x + x \in 0 .. Columns - 1 /\ r.y + y \in 0 .. Rows - 1
         /\ At(r, x, y) \in MatrixBase .. MatrixBase + Columns * Rows - 1
         /\ At(r, x, y) \in Addresses
<1>1. r.x + x \in 0 .. Columns - 1 /\ r.y + y \in 0 .. Rows - 1
  BY OnScreenWhole, ScreenSizes DEF Extent
<1> QED
  BY <1>1, CellIn DEF At

(* Different places of a window are different cells. *)
LEMMA AtInjective ==
  ASSUME NEW r, OnScreen(r), NEW x \in 0 .. r.w - 1, NEW y \in 0 .. r.h - 1,
         NEW x1 \in 0 .. r.w - 1, NEW y1 \in 0 .. r.h - 1, At(r, x, y) = At(r, x1, y1)
  PROVE  x = x1 /\ y = y1
<1>1. /\ r.x + x \in 0 .. Columns - 1 /\ r.y + y \in 0 .. Rows - 1
      /\ r.x + x1 \in 0 .. Columns - 1 /\ r.y + y1 \in 0 .. Rows - 1
  BY WindowCells
<1>2. r.y + y \in Nat /\ r.y + y1 \in Nat /\ r.x \in Nat /\ r.y \in Nat
  BY <1>1, OnScreenWhole, ScreenSizes
<1>3. r.x + x = r.x + x1 /\ r.y + y = r.y + y1
  BY <1>1, <1>2, CellInjective DEF At
<1> QED
  BY <1>2, <1>3

(* The rows that scroll in are blank, and those above them are copied.     *)
LEMMA ComplexShows ==
  ASSUME NEW s, Typed(s), OnScreen(s.region), NEW v \in Nat, v > 0, v <= s.region.h,
         NEW x \in 0 .. s.region.w - 1, NEW y \in 0 .. s.region.h - 1
  PROVE  ScrollComplex(s, 0, v).mem[At(s.region, x, y)] =
           IF y + v < s.region.h THEN s.mem[At(s.region, x, y + v)] ELSE Blank
<1> DEFINE r == s.region
           rows == r.h - v
           away == v * Columns
           copied == Copying(s.mem, r, rows, r.w, r.x, 1, away)[rows]
           bottom == r.y + r.h
           cells == Block(r.x .. r.x + r.w - 1, bottom - v .. bottom - 1)
           a == At(r, x, y)
<1>1. /\ r.x \in Nat /\ r.y \in Nat /\ r.w \in Nat /\ r.h \in Nat /\ rows \in Nat /\ away \in Int
      /\ s.mem \in Bank /\ OnScreen(r)
  BY OnScreenWhole, ScreenSizes DEF Extent, Typed
<1>2. ScrollComplex(s, 0, v).mem = Blanked(copied, cells)
  <2> DEFINE dx == IF 0 >= 0 THEN 1 ELSE -1
             x0 == IF 0 >= 0 THEN r.x ELSE r.x + r.w - 1
             x3 == IF 0 >= 0 THEN r.x + r.w ELSE r.x - 1
             x2 == x3 - 0
             entered == IF 0 >= 0 THEN x2 .. x3 - 1 ELSE x3 + 1 .. x2
             left == Block(entered, r.y .. bottom - 1)
             result == Copying(s.mem, r, rows, x2 - x0, x0, dx, v * Columns + 0)[rows]
  <2>1. ScrollComplex(s, 0, v) = [s EXCEPT !.mem = Blanked(result, left \cup cells)]
    BY Zenon DEF ScrollComplex
  <2>2. dx = 1 /\ x0 = r.x /\ x2 - x0 = r.w /\ v * Columns + 0 = away /\ entered = {}
    <3> HIDE DEF r
    <3> QED BY <1>1, ScreenSizes
  <2>3. result = copied
    <3> HIDE DEF dx, x0, x2, away, rows, r
    <3> QED BY <2>2
  <2>4. left \cup cells = cells
    <3>1. left = {}
      <4> HIDE DEF entered
      <4> QED BY <2>2 DEF Block
    <3> HIDE DEF left, cells
    <3> QED BY <3>1
  <2>5. s = [mem |-> s.mem, region |-> s.region, cursor |-> s.cursor]
    BY DEF Typed, IsScreen
  <2> HIDE DEF result, left, cells, copied
  <2> QED
    BY <2>1, <2>3, <2>4, <2>5
<1>3. copied = [b \in Addresses |->
                 IF \E k \in 1 .. rows : b \in RowBytes(r, r.y + k - 1) THEN s.mem[b + away]
                 ELSE s.mem[b]]
  <2>1. rows \in 0 .. rows
    BY <1>1
  <2>2. \A i \in 0 .. r.h - v :
           Copying(s.mem, r, r.h - v, r.w, r.x, 1, v * Columns)[i] =
             [b \in Addresses |->
               IF \E k \in 1 .. i : b \in RowBytes(r, r.y + k - 1) THEN s.mem[b + v * Columns]
               ELSE s.mem[b]]
    <3> HIDE DEF r
    <3> QED BY <1>1, CopyingUp
  <2> QED
    BY <2>1, <2>2
<1>4. a \in Addresses
  BY WindowCells
<1>5. a \in cells <=> y + v >= r.h
  <2>1. ASSUME y + v >= r.h
        PROVE  a \in cells
    <3>1. r.x + x \in r.x .. r.x + r.w - 1 /\ r.y + y \in bottom - v .. bottom - 1
      BY <1>1, <2>1
    <3> HIDE DEF r, bottom
    <3> QED BY <3>1 DEF Block, At
  <2>2. ASSUME a \in cells
        PROVE  y + v >= r.h
    <3>1. PICK x1 \in r.x .. r.x + r.w - 1, y1 \in bottom - v .. bottom - 1 : a = Cell(x1, y1)
      <4> HIDE DEF r, bottom
      <4> QED BY <2>2 DEF Block
    <3> DEFINE x2 == x1 - r.x
               y2 == y1 - r.y
    <3>2. /\ x2 \in 0 .. r.w - 1 /\ y2 \in 0 .. r.h - 1 /\ y2 + v >= r.h
          /\ x1 = r.x + x2 /\ y1 = r.y + y2
      BY <1>1
    <3>3. y = y2
      <4>1. At(r, x, y) = At(r, x2, y2)
        <5> HIDE DEF r, x2, y2
        <5> QED BY <3>1, <3>2 DEF At
      <4> HIDE DEF x2, y2
      <4> QED BY <3>2, <4>1, AtInjective
    <3> QED
      BY <3>2, <3>3
  <2> QED
    BY <2>1, <2>2, <1>1
<1>6. ASSUME y + v < r.h
      PROVE  copied[a] = s.mem[At(r, x, y + v)]
  <2>1. y + 1 \in 1 .. rows /\ r.y + (y + 1) - 1 = r.y + y
    BY <1>1, <1>6
  <2>2. /\ a \in RowBytes(r, r.y + y)
        /\ At(r, x, y + v) = a + away
    <3>1. (r.y + (y + v)) * Columns = (r.y + y) * Columns + v * Columns
          /\ (r.y + y) * Columns \in Int
      BY <1>1, ScreenSizes
    <3> QED
      BY <1>1, <3>1, ScreenSizes DEF RowBytes, Before, At, Cell
  <2>3. \E k \in 1 .. rows : a \in RowBytes(r, r.y + k - 1)
    <3> HIDE DEF a, r, rows
    <3> QED BY <2>1, <2>2
  <2> HIDE DEF a, r, rows, away, copied
  <2> QED
    BY <1>3, <1>4, <2>2, <2>3
<1> HIDE DEF a, r, rows, away, copied, cells
<1>7. Blanked(copied, cells)[a] = IF a \in cells THEN Blank ELSE copied[a]
  BY <1>4 DEF Blanked
<1>8. y + v >= r.h <=> ~(y + v < r.h)
  BY <1>1
<1> QED
  BY <1>2, <1>5, <1>6, <1>7, <1>8 DEF a, r

LEMMA SimpleShows ==
  ASSUME NEW s, Typed(s), s.region = FullScreen, NEW x \in 0 .. Columns - 1, NEW y \in 0 .. Rows - 1
  PROVE  ScrollSimple(s).mem[Cell(x, y)] = IF y + 1 < Rows THEN s.mem[Cell(x, y + 1)] ELSE Blank
<1> DEFINE count == (Rows - 1) * Columns
           src == MatrixBase + Columns
           moved == IoCopy(s.mem, count, MatrixBase, src)
           last == Block(0 .. Columns - 1, {Rows - 1})
           a == Cell(x, y)
<1>1. ScrollSimple(s).mem = Blanked(moved, last)
  <2>1. s = [mem |-> s.mem, region |-> s.region, cursor |-> s.cursor]
    BY DEF Typed, IsScreen
  <2>2. ScrollSimple(s) = [s EXCEPT !.mem = Blanked(moved, last)]
    BY Zenon DEF ScrollSimple
  <2> HIDE DEF moved, last
  <2> QED BY <2>1, <2>2
<1>2. /\ count \in Nat /\ MatrixBase \in Addresses /\ src \in Addresses /\ MatrixBase < src
      /\ src + count \in Addresses /\ src - MatrixBase = Columns
  <2>1. count = Rows * Columns - Columns /\ Rows * Columns = Columns * Rows /\ count \in Nat
    BY ScreenSizes
  <2> HIDE DEF count
  <2> QED BY <2>1, ScreenSizes DEF Addresses
<1>3. moved = [b \in Addresses |-> IF b \in MatrixBase .. MatrixBase + count THEN s.mem[b + Columns]
                                   ELSE s.mem[b]]
  <2>1. moved = [b \in Addresses |-> IF b \in MatrixBase .. MatrixBase + count
                                     THEN s.mem[b + (src - MatrixBase)] ELSE s.mem[b]]
    <3> HIDE DEF count, src
    <3> QED BY <1>2, IoCopyDown DEF Typed
  <2> HIDE DEF count, src, moved
  <2> QED BY <1>2, <2>1
<1>4. a \in Addresses
  BY CellIn
<1>5. a \in last <=> y + 1 >= Rows
  <2>1. ASSUME y + 1 >= Rows
        PROVE  a \in last
    <3>1. y = Rows - 1
      BY <2>1, ScreenSizes
    <3> QED BY <3>1 DEF Block
  <2>2. ASSUME a \in last
        PROVE  y + 1 >= Rows
    <3>1. PICK x1 \in 0 .. Columns - 1 : a = Cell(x1, Rows - 1)
      BY <2>2 DEF Block
    <3>2. y \in Nat /\ Rows - 1 \in Nat
      BY ScreenSizes
    <3>3. y = Rows - 1
      BY <3>1, <3>2, CellInjective
    <3> QED BY <3>3, ScreenSizes
  <2> QED
    BY <2>1, <2>2
<1>6. ASSUME y + 1 < Rows
      PROVE  moved[a] = s.mem[Cell(x, y + 1)]
  <2>1. y * Columns + Columns <= count /\ y * Columns \in Nat
    <3>1. y \in Nat /\ Rows - 1 \in Nat /\ y < Rows - 1
      BY <1>6, ScreenSizes
    <3> QED BY <3>1, Multiples
  <2>2. (y + 1) * Columns = y * Columns + Columns
    BY ScreenSizes
  <2>3. a \in MatrixBase .. MatrixBase + count /\ a + Columns = Cell(x, y + 1)
    <3> HIDE DEF count
    <3> QED BY <1>2, <2>1, <2>2, ScreenSizes DEF Cell
  <2> HIDE DEF a, count, moved
  <2> QED
    BY <1>3, <1>4, <2>3
<1> HIDE DEF a, moved, last
<1>7. Blanked(moved, last)[a] = IF a \in last THEN Blank ELSE moved[a]
  BY <1>4 DEF Blanked
<1>8. y + 1 >= Rows <=> ~(y + 1 < Rows)
  BY ScreenSizes
<1> QED
  BY <1>1, <1>5, <1>6, <1>7, <1>8 DEF a

(* The window scrolls, however the driver does it. *)
LEMMA ScrollShows ==
  ASSUME NEW s, Typed(s), OnScreen(s.region), NEW v \in Nat, v > 0, v <= s.region.h,
         NEW x \in 0 .. s.region.w - 1, NEW y \in 0 .. s.region.h - 1
  PROVE  Scroll(s, 0, v).mem[At(s.region, x, y)] =
           IF y + v < s.region.h THEN s.mem[At(s.region, x, y + v)] ELSE Blank
<1>1. CASE v = 1 /\ s.region = FullScreen
  <2>1. Scroll(s, 0, v) = ScrollSimple(s)
    BY <1>1 DEF Scroll
  <2>2. /\ x \in 0 .. Columns - 1 /\ y \in 0 .. Rows - 1
        /\ s.region.w = Columns /\ s.region.h = Rows /\ s.region.x = 0 /\ s.region.y = 0
    BY <1>1 DEF FullScreen
  <2>3. \A i \in Int, j \in Int : At(s.region, i, j) = Cell(i, j)
    BY <2>2 DEF At
  <2>4. ScrollSimple(s).mem[Cell(x, y)] = IF y + 1 < Rows THEN s.mem[Cell(x, y + 1)] ELSE Blank
    BY <1>1, <2>2, SimpleShows
  <2>5. x \in Int /\ y \in Int /\ y + 1 \in Int
    BY <2>2, ScreenSizes
  <2>6. At(s.region, x, y) = Cell(x, y) /\ At(s.region, x, y + v) = Cell(x, y + 1)
    BY <1>1, <2>3, <2>5
  <2> QED
    BY <1>1, <2>1, <2>2, <2>4, <2>6
<1>2. CASE ~(v = 1 /\ s.region = FullScreen)
  <2>1. Scroll(s, 0, v) = ScrollComplex(s, 0, v)
    BY <1>2 DEF Scroll
  <2> QED
    BY <2>1, ComplexShows
<1> QED
  BY <1>1, <1>2

-----------------------------------------------------------------------------
(* What the window shows. *)

WindowPlaces(r) == (0 .. r.w - 1) \X (0 .. r.h - 1)
Text(s) == [p \in WindowPlaces(s.region) |-> s.mem[At(s.region, p[1], p[2])]]

ScrolledText(shown, r, lines) ==
  [p \in WindowPlaces(r) |-> IF p[2] + lines < r.h THEN shown[p[1], p[2] + lines] ELSE Blank]

LEMMA LargestOfZero ==
  ASSUME NEW i \in Int
  PROVE  T!Max({0, i}) = IF i > 0 THEN i ELSE 0
<1> DEFINE m == IF i > 0 THEN i ELSE 0
           Largest(x) == x \in {0, i} /\ \A y \in {0, i} : x >= y
<1>1. Largest(m)
  OBVIOUS
<1>2. \A x : Largest(x) => x = m
  OBVIOUS
<1>3. T!Max({0, i}) = CHOOSE x \in {0, i} : \A y \in {0, i} : x >= y
  BY DEF T!Max
<1> QED
  BY <1>1, <1>2, <1>3

LEMMA TextScrolled ==
  ASSUME NEW s, Typed(s), OnScreen(s.region), NEW v \in Nat, v > 0, v <= s.region.h
  PROVE  Text(Scroll(s, 0, v)) = ScrolledText(Text(s), s.region, v)
<1> DEFINE r == s.region
           t == Scroll(s, 0, v)
<1>1. t.region = r
  BY ScrollKeeps DEF Keeps, Typed
<1>2. r.w \in Nat /\ r.h \in Nat
  BY OnScreenWhole DEF Extent
<1>3. \A x \in 0 .. r.w - 1, y \in 0 .. r.h - 1 :
        t.mem[At(r, x, y)] = IF y + v < r.h THEN Text(s)[x, y + v] ELSE Blank
  <2> SUFFICES ASSUME NEW x \in 0 .. r.w - 1, NEW y \in 0 .. r.h - 1
               PROVE  t.mem[At(r, x, y)] = IF y + v < r.h THEN Text(s)[x, y + v] ELSE Blank
    OBVIOUS
  <2>1. t.mem[At(r, x, y)] = IF y + v < r.h THEN s.mem[At(r, x, y + v)] ELSE Blank
    BY ScrollShows
  <2>2. ASSUME y + v < r.h
        PROVE  Text(s)[x, y + v] = s.mem[At(r, x, y + v)]
    <3>1. y + v \in 0 .. r.h - 1
      BY <1>2, <2>2
    <3> QED
      BY <3>1 DEF Text, WindowPlaces
  <2> HIDE DEF r, t
  <2> QED
    BY <2>1, <2>2
<1> HIDE DEF t
<1>4. Text(t) = [p \in WindowPlaces(r) |-> t.mem[At(r, p[1], p[2])]]
  BY <1>1 DEF Text
<1>5. \A p \in WindowPlaces(r) : p[1] \in 0 .. r.w - 1 /\ p[2] \in 0 .. r.h - 1
  BY DEF WindowPlaces
<1> HIDE DEF r
<1>6. Text(t) = ScrolledText(Text(s), r, v)
  BY <1>3, <1>4, <1>5 DEF ScrolledText
<1> QED
  BY <1>6 DEF r, t

(* Not scrolling at all is scrolling by no lines. *)
LEMMA TextNotScrolled ==
  ASSUME NEW s, OnScreen(s.region)
  PROVE  Text(s) = ScrolledText(Text(s), s.region, 0)
<1> DEFINE r == s.region
<1>1. r.w \in Nat /\ r.h \in Nat
  BY OnScreenWhole DEF Extent
<1>2. \A p \in WindowPlaces(r) : p[2] + 0 < r.h /\ p[2] + 0 = p[2] /\ p = <<p[1], p[2]>>
  BY <1>1 DEF WindowPlaces
<1>3. Text(s) = [p \in WindowPlaces(r) |-> Text(s)[p]]
  BY DEF Text
<1> HIDE DEF r
<1>4. Text(s) = ScrolledText(Text(s), r, 0)
  BY <1>2, <1>3 DEF ScrolledText
<1> QED
  BY <1>4 DEF r

LEMMA SetXYShows ==
  ASSUME NEW s, Typed(s), OnScreen(s.region), NEW x \in Int, NEW y \in Int, InReach(s, x, y)
  PROVE  LET wrapped == WrappedRow(s, x, y)
             row == IF wrapped > 0 THEN wrapped ELSE 0
             below == row - s.region.h + 1
             lines == IF below > 0 THEN below ELSE 0
             t == SetXY(s, x, y)
         IN /\ Text(t) = ScrolledText(Text(s), s.region, lines)
            /\ t.cursor = [x |-> IF x \in 0 .. s.region.w - 1 THEN x ELSE 0, y |-> row - lines]
            /\ t.region = s.region
<1> DEFINE wrapped == WrappedRow(s, x, y)
           row == IF wrapped > 0 THEN wrapped ELSE 0
           below == row - s.region.h + 1
           lines == IF below > 0 THEN below ELSE 0
           t == SetXY(s, x, y)
           shown == IF lines > 0 THEN Scroll(s, 0, lines) ELSE s
           at == [x |-> IF x \in 0 .. s.region.w - 1 THEN x ELSE 0, y |-> row - lines]
<1>1. s.region.w \in Nat /\ s.region.h \in Nat \ {0}
  BY OnScreenWhole DEF Extent
<1>2. wrapped \in Int
  BY DEF WrappedRow
<1>3. LinesBelow(s, wrapped) = lines /\ lines \in Nat /\ lines <= s.region.h
  <2>1. LinesBelow(s, wrapped) <= s.region.h
    BY DEF InReach
  <2> HIDE DEF wrapped
  <2> QED BY <1>1, <1>2, <2>1 DEF LinesBelow
<1>4. t = [shown EXCEPT !.cursor = at]
  <2> DEFINE drawn(n) == IF n > 0 THEN Scroll(s, 0, n) ELSE s
             place(n) == [x |-> IF x < 0 \/ x >= s.region.w THEN 0 ELSE x,
                          y |-> IF wrapped < 0 THEN 0 ELSE wrapped - n]
             n == LinesBelow(s, wrapped)
  <2>1. t = [drawn(n) EXCEPT !.cursor = place(n)]
    BY Zenon DEF SetXY
  <2>2. place(lines) = at
    <3>1. (IF x < 0 \/ x >= s.region.w THEN 0 ELSE x) = IF x \in 0 .. s.region.w - 1 THEN x ELSE 0
      BY <1>1
    <3>2. (IF wrapped < 0 THEN 0 ELSE wrapped - lines) = row - lines
      <4> HIDE DEF wrapped
      <4> QED BY <1>1, <1>2
    <3> HIDE DEF row, lines, wrapped
    <3> QED BY <3>1, <3>2
  <2> HIDE DEF n, place, at, lines
  <2>3. n = lines
    BY <1>3 DEF n
  <2> QED
    BY <2>1, <2>2, <2>3
<1>5. /\ Typed(shown) /\ shown.region = s.region
      /\ Text(shown) = ScrolledText(Text(s), s.region, lines)
  <2> HIDE DEF lines
  <2>1. CASE lines > 0
    <3>1. Whole(s.region)
      BY OnScreenWhole
    <3>2. Typed(Scroll(s, 0, lines))
      BY <1>3, <3>1, ScrollTyped
    <3>3. Scroll(s, 0, lines).region = s.region
      BY ScrollKeeps DEF Keeps, Typed
    <3> QED
      BY <1>3, <2>1, <3>2, <3>3, TextScrolled
  <2>2. CASE ~(lines > 0)
    <3>1. lines = 0
      BY <1>3, <2>2
    <3> QED
      BY <3>1, TextNotScrolled
  <2> QED
    BY <2>1, <2>2
<1> HIDE DEF shown, at, lines, t
<1>6. t.mem = shown.mem /\ t.region = shown.region /\ t.cursor = at
  <2>1. shown = [mem |-> shown.mem, region |-> shown.region, cursor |-> shown.cursor]
    BY <1>5 DEF Typed, IsScreen
  <2> QED
    BY <1>4, <2>1
<1>7. Text(t) = Text(shown)
  BY <1>6 DEF Text
<1>8. /\ Text(t) = ScrolledText(Text(s), s.region, lines)
      /\ t.cursor = at /\ t.region = s.region
  BY <1>5, <1>6, <1>7
<1> QED
  BY <1>8 DEF at, lines, t

(* SetXY on the screen is Place on the terminal. *)
LEMMA PlaceStep ==
  ASSUME NEW s, Typed(s), s.region = region, OnScreen(region),
         NEW x \in Int, NEW y \in Int, InReach(s, x, y), Becomes(SetXY(s, x, y))
  PROVE  T!Place(Text(s), x, y)
<1> DEFINE wrapped == WrappedRow(s, x, y)
           row == IF wrapped > 0 THEN wrapped ELSE 0
           below == row - region.h + 1
           lines == IF below > 0 THEN below ELSE 0
           t == SetXY(s, x, y)
           size == [w |-> region.w, h |-> region.h]
<1>1. region.w \in Nat /\ region.h \in Nat
  BY OnScreenWhole DEF Extent
<1>2. wrapped \in Int /\ row \in Int /\ below \in Int
  BY <1>1 DEF WrappedRow
<1>3. wrapped = IF x < size.w THEN y ELSE y + 1
  BY <1>1 DEF WrappedRow
<1>4. T!Max({0, wrapped}) = row /\ T!Max({0, below}) = lines
  <2> HIDE DEF wrapped, below
  <2> QED BY <1>2, LargestOfZero
<1>5. /\ Text(t) = ScrolledText(Text(s), region, lines)
      /\ t.cursor = [x |-> IF x \in 0 .. region.w - 1 THEN x ELSE 0, y |-> row - lines]
      /\ t.region = region
  BY SetXYShows
<1>6. mem' = t.mem /\ region' = t.region /\ cursor' = t.cursor
  BY DEF Becomes
<1> HIDE DEF t, wrapped, row, below, lines
<1>7. Text(t) = [p \in (0 .. region'.w - 1) \X (0 .. region'.h - 1) |->
                   mem'[Cell(region'.x + p[1], region'.y + p[2])]]
  BY <1>5, <1>6 DEF Text, At, WindowPlaces
<1>8. <<cursor'.x, cursor'.y>> = <<IF x \in 0 .. size.w - 1 THEN x ELSE 0, row - lines>>
  BY <1>5, <1>6
<1>9. ScrolledText(Text(s), region, lines) = T!Scrolled(Text(s), lines)
  BY DEF ScrolledText, T!Scrolled, T!Positions, WindowPlaces
<1>10. [w |-> region'.w, h |-> region'.h] = size
  BY <1>5, <1>6
<1>11. row - size.h + 1 = below
  BY DEF below
<1> QED
  BY <1>3, <1>4, <1>5, <1>7, <1>8, <1>9, <1>10, <1>11 DEF T!Place

(* What the terminal shows now. *)
LEMMA TerminalNow ==
  /\ Text(Screen) = [p \in (0 .. region.w - 1) \X (0 .. region.h - 1) |->
                       mem[Cell(region.x + p[1], region.y + p[2])]]
  /\ Screen.mem = mem /\ Screen.region = region /\ Screen.cursor = cursor
BY DEF Text, Screen, WindowPlaces, At

(* A screen of which the window differs in nothing. *)
LEMMA SameScreen ==
  ASSUME Becomes(Screen) \/ UNCHANGED screenVars
  PROVE  UNCHANGED T!window
BY DEF Becomes, Screen, screenVars, T!window

LEMMA SameInput ==
  ASSUME UNCHANGED consoleVars
  PROVE  UNCHANGED T!input
BY DEF consoleVars, T!input

LEMMA PlacesAre == T!Positions([w |-> region.w, h |-> region.h]) = WindowPlaces(region)
BY DEF T!Positions, WindowPlaces

LEMMA InsideIs == T!Inside <=> Inside
BY DEF T!Inside, T!Positions, Inside

(* Whatever is in the bank, the window shows characters. *)
LEMMA TextTyped ==
  ASSUME NEW s, Typed(s), OnScreen(s.region)
  PROVE  Text(s) \in [WindowPlaces(s.region) -> {Blank, Ink}]
<1> DEFINE r == s.region
<1>1. \A p \in WindowPlaces(r) : At(r, p[1], p[2]) \in Addresses
  <2> SUFFICES ASSUME NEW x \in 0 .. r.w - 1, NEW y \in 0 .. r.h - 1
               PROVE  At(r, x, y) \in Addresses
    BY DEF WindowPlaces
  <2> QED
    BY WindowCells
<1>2. s.mem \in [Addresses -> {Blank, Ink}]
  BY DEF Typed, Bank
<1> HIDE DEF r
<1>3. [p \in WindowPlaces(r) |-> s.mem[At(r, p[1], p[2])]] \in [WindowPlaces(r) -> {Blank, Ink}]
  BY <1>1, <1>2
<1> QED
  BY <1>3 DEF Text, r

(* Writing a cell of the window writes that place of its text.             *)
LEMMA TextWritten ==
  ASSUME NEW s, Typed(s), OnScreen(s.region), NEW glyph \in {Blank, Ink},
         NEW x \in 0 .. s.region.w - 1, NEW y \in 0 .. s.region.h - 1
  PROVE  LET written == [s EXCEPT !.mem[At(s.region, x, y)] = glyph]
         IN /\ Typed(written) /\ written.region = s.region /\ written.cursor = s.cursor
            /\ Text(written) = [Text(s) EXCEPT ![<<x, y>>] = glyph]
<1> DEFINE r == s.region
           a == At(r, x, y)
           bytes == [s.mem EXCEPT ![a] = glyph]
           written == [s EXCEPT !.mem[a] = glyph]
<1>1. s = [mem |-> s.mem, region |-> s.region, cursor |-> s.cursor] /\ s.mem \in Bank
  BY DEF Typed, IsScreen
<1>2. bytes \in Bank
  BY <1>1 DEF Bank
<1>3. written = [mem |-> bytes, region |-> s.region, cursor |-> s.cursor]
  BY <1>1
<1>4. \A x1 \in 0 .. r.w - 1, y1 \in 0 .. r.h - 1 :
        bytes[At(r, x1, y1)] = IF <<x1, y1>> = <<x, y>> THEN glyph ELSE s.mem[At(r, x1, y1)]
  <2> SUFFICES ASSUME NEW x1 \in 0 .. r.w - 1, NEW y1 \in 0 .. r.h - 1
               PROVE  bytes[At(r, x1, y1)] =
                        IF <<x1, y1>> = <<x, y>> THEN glyph ELSE s.mem[At(r, x1, y1)]
    OBVIOUS
  <2>1. At(r, x1, y1) \in Addresses
    BY WindowCells
  <2>2. At(r, x1, y1) = a => x1 = x /\ y1 = y
    BY AtInjective
  <2>3. DOMAIN s.mem = Addresses
    BY <1>1 DEF Bank
  <2> HIDE DEF r
  <2> QED
    BY <2>1, <2>2, <2>3
<1> HIDE DEF written, bytes
<1>5. Text(written) = [p \in WindowPlaces(r) |-> bytes[At(r, p[1], p[2])]]
  BY <1>3 DEF Text
<1>6. \A p \in WindowPlaces(r) : p[1] \in 0 .. r.w - 1 /\ p[2] \in 0 .. r.h - 1 /\ p = <<p[1], p[2]>>
  BY DEF WindowPlaces
<1>7. Text(s) = [p \in WindowPlaces(r) |-> s.mem[At(r, p[1], p[2])]]
  BY DEF Text
<1> HIDE DEF r
<1>8. Text(written) = [Text(s) EXCEPT ![<<x, y>>] = glyph]
  BY <1>4, <1>5, <1>6, <1>7
<1> QED
  BY <1>2, <1>3, <1>8 DEF Typed, IsScreen, written, r

(* A cell that is written from outside the window is none of it.           *)
LEMMA StrayWritten ==
  ASSUME NEW s, Ready(s), ~(s.cursor.x < s.region.w /\ s.cursor.y < s.region.h),
         NEW glyph \in {Blank, Ink}
  PROVE  LET written == [s EXCEPT !.mem[At(s.region, s.cursor.x, s.cursor.y)] = glyph]
         IN /\ Typed(written) /\ written.region = s.region
            /\ Text(written) = Text(s)
<1> DEFINE r == s.region
           x == s.cursor.x
           y == s.cursor.y
           a == At(r, x, y)
           bytes == [s.mem EXCEPT ![a] = glyph]
           written == [s EXCEPT !.mem[a] = glyph]
<1>1. /\ s = [mem |-> s.mem, region |-> s.region, cursor |-> s.cursor] /\ s.mem \in Bank
      /\ OnScreen(r) /\ x \in Nat /\ y \in Nat /\ x < Columns
  BY DEF Ready, Typed, IsScreen, Loose, Placed, Near
<1>2. bytes \in Bank
  BY <1>1 DEF Bank
<1>3. written = [mem |-> bytes, region |-> s.region, cursor |-> s.cursor]
  BY <1>1
<1>4. \A i \in 0 .. r.w - 1, j \in 0 .. r.h - 1 : At(r, i, j) \in Addresses /\ At(r, i, j) # a
  <2> SUFFICES ASSUME NEW i \in 0 .. r.w - 1, NEW j \in 0 .. r.h - 1
               PROVE  At(r, i, j) \in Addresses /\ At(r, i, j) # a
    OBVIOUS
  <2>1. /\ r.x \in Nat /\ r.y \in Nat /\ r.w \in Nat /\ r.h \in Nat
        /\ r.x + r.w <= Columns /\ Columns \in Nat
    BY <1>1, OnScreenWhole, ScreenSizes DEF Extent
  <2>2. /\ i \in 0 .. Columns - 1 /\ x \in 0 .. Columns - 1
        /\ r.y + j \in Nat /\ r.y + y \in Nat /\ i \in Int /\ x \in Int /\ j \in Int /\ y \in Int
    <3> HIDE DEF x, y, r
    <3> QED BY <1>1, <2>1
  <2>3. \A k \in Int, l \in Int : At(r, k, l) = r.x + Cell(k, r.y + l) /\ Cell(k, r.y + l) \in Int
    <3> SUFFICES ASSUME NEW k \in Int, NEW l \in Int
                 PROVE  At(r, k, l) = r.x + Cell(k, r.y + l) /\ Cell(k, r.y + l) \in Int
      OBVIOUS
    <3>1. (r.y + l) * Columns \in Int
      BY <2>1
    <3> HIDE DEF r
    <3> QED BY <2>1, <3>1, ScreenSizes DEF At, Cell
  <2>4. ASSUME At(r, i, j) = a
        PROVE  Cell(i, r.y + j) = Cell(x, r.y + y)
    <3>1. /\ At(r, i, j) = r.x + Cell(i, r.y + j) /\ Cell(i, r.y + j) \in Int
          /\ a = r.x + Cell(x, r.y + y) /\ Cell(x, r.y + y) \in Int
      <4> HIDE DEF x, y, r
      <4> QED BY <2>2, <2>3
    <3>2. \A p, q, t \in Int : p + q = p + t => q = t
      OBVIOUS
    <3>3. r.x \in Int
      BY <2>1
    <3> HIDE DEF a, x, y, r
    <3>4. r.x + Cell(i, r.y + j) = r.x + Cell(x, r.y + y)
      BY <2>4, <3>1, Zenon
    <3> QED BY <3>1, <3>2, <3>3, <3>4, Zenon
  <2>5. ASSUME At(r, i, j) = a
        PROVE  i = x /\ r.y + j = r.y + y
    <3>1. Cell(i, r.y + j) = Cell(x, r.y + y)
      BY <2>4, <2>5
    <3> HIDE DEF x, y, r
    <3> QED BY <2>2, <3>1, CellInjective
  <2>6. ~(x < r.w /\ y < r.h)
    OBVIOUS
  <2>7. ASSUME At(r, i, j) = a
        PROVE  FALSE
    <3>1. i = x /\ r.y + j = r.y + y
      BY <2>5, <2>7
    <3> HIDE DEF x, y, r, a
    <3> QED BY <2>1, <2>2, <2>6, <3>1
  <2>8. At(r, i, j) \in Addresses
    BY <1>1, WindowCells
  <2> QED
    BY <2>7, <2>8
<1>5. \A i \in 0 .. r.w - 1, j \in 0 .. r.h - 1 : bytes[At(r, i, j)] = s.mem[At(r, i, j)]
  <2>1. DOMAIN s.mem = Addresses
    BY <1>1 DEF Bank
  <2> HIDE DEF a, r
  <2> QED BY <1>4, <2>1
<1> HIDE DEF written, bytes
<1>6. Text(written) = [p \in WindowPlaces(r) |-> bytes[At(r, p[1], p[2])]]
  BY <1>3 DEF Text
<1>7. \A p \in WindowPlaces(r) : p[1] \in 0 .. r.w - 1 /\ p[2] \in 0 .. r.h - 1
  BY DEF WindowPlaces
<1>8. Text(s) = [p \in WindowPlaces(r) |-> s.mem[At(r, p[1], p[2])]]
  BY DEF Text
<1> HIDE DEF r
<1>9. Text(written) = Text(s)
  BY <1>5, <1>6, <1>7, <1>8
<1> QED
  BY <1>2, <1>3, <1>9 DEF Typed, IsScreen, written, a, r, x, y

(* Within the window, SetXY only moves the cursor. *)
LEMMA SetXYInside ==
  ASSUME NEW s, Extent(s.region), NEW x \in 0 .. s.region.w - 1, NEW y \in 0 .. s.region.h - 1
  PROVE  SetXY(s, x, y) = [s EXCEPT !.cursor = [x |-> x, y |-> y]]
<1>1. s.region.w \in Nat /\ s.region.h \in Nat /\ x \in Nat /\ y \in Nat
  BY DEF Extent
<1>2. WrappedRow(s, x, y) = y
  BY <1>1 DEF WrappedRow
<1>3. LinesBelow(s, y) = 0
  BY <1>1 DEF LinesBelow
<1>4. ~(0 > 0) /\ ~(x < 0 \/ x >= s.region.w) /\ ~(y < 0) /\ y - 0 = y
  BY <1>1
<1> DEFINE drawn(n) == IF n > 0 THEN Scroll(s, 0, n) ELSE s
           place(row, n) == [x |-> IF x < 0 \/ x >= s.region.w THEN 0 ELSE x,
                             y |-> IF row < 0 THEN 0 ELSE row - n]
<1>5. SetXY(s, x, y) = [drawn(LinesBelow(s, WrappedRow(s, x, y)))
                          EXCEPT !.cursor = place(WrappedRow(s, x, y),
                                                  LinesBelow(s, WrappedRow(s, x, y)))]
  BY Zenon DEF SetXY
<1>6. drawn(0) = s /\ place(y, 0) = [x |-> x, y |-> y]
  BY <1>4
<1> HIDE DEF drawn, place
<1> QED
  BY <1>2, <1>3, <1>5, <1>6

LEMMA PutStep ==
  ASSUME Ready(Screen), NEW glyph \in {Blank, Ink}, Becomes(Put(Screen, glyph))
  PROVE  T!Show(glyph)
<1> DEFINE x == cursor.x
           y == cursor.y
           written == [Screen EXCEPT !.mem[At(region, x, y)] = glyph]
           shown == IF Inside THEN [Text(Screen) EXCEPT ![<<x, y>>] = glyph] ELSE Text(Screen)
<1>1. /\ Typed(Screen) /\ OnScreen(region) /\ Extent(region) /\ Screen.region = region
      /\ Screen.cursor = cursor
      /\ x \in Nat /\ y \in Nat /\ y + 2 <= 2 * region.h
  BY TerminalNow DEF Ready, Loose, Placed, Near
<1>2. x \in Int /\ y \in Int /\ x + 1 \in Int
  BY <1>1
<1>3. Typed(written) /\ written.region = region /\ Text(written) = shown
  <2>1. CASE Inside
    <3>1. x \in 0 .. Screen.region.w - 1 /\ y \in 0 .. Screen.region.h - 1
      BY <1>1, <2>1 DEF Inside
    <3> HIDE DEF x, y
    <3> QED BY <1>1, <2>1, <3>1, TextWritten
  <2>2. CASE ~Inside
    <3>1. ~(x < region.w /\ y < region.h)
      BY <1>1, <2>2 DEF Inside, Extent
    <3> QED BY <1>1, <2>2, <3>1, StrayWritten
  <2> QED
    BY <2>1, <2>2
<1>4. Put(Screen, glyph) = SetXY(written, x + 1, y)
  BY <1>1 DEF Put, At
<1> HIDE DEF written, shown
<1>5. InReach(written, x + 1, y)
  <2> HIDE DEF x, y
  <2> QED BY <1>1, <1>2, <1>3, NextRowInReach
<1>6. T!Place(Text(written), x + 1, y)
  BY <1>1, <1>2, <1>3, <1>4, <1>5, PlaceStep
<1>7. T!Place(shown, x + 1, y)
  BY <1>3, <1>6
<1>8. T!Show(glyph) <=> T!Place(shown, x + 1, y)
  <2>1. <<x, y>>[1] = x /\ <<x, y>>[2] = y
    OBVIOUS
  <2>2. T!Show(glyph) <=>
          T!Place(IF T!Inside THEN [Text(Screen) EXCEPT ![<<x, y>>] = glyph] ELSE Text(Screen),
                  <<x, y>>[1] + 1, <<x, y>>[2])
    BY TerminalNow DEF T!Show
  <2> QED
    BY <2>1, <2>2, InsideIs DEF shown
<1> QED
  BY <1>7, <1>8

LEMMA BackSpaceStep ==
  ASSUME Ready(Screen), cursor.x > 0, Inside, Becomes(TxtPut(Screen, "BS"))
  PROVE  T!BackSpace
<1> DEFINE r == region
           x == cursor.x - 1
           y == cursor.y
           to(s, i) == [s EXCEPT !.cursor = [x |-> i, y |-> y]]
           moved == to(Screen, x)
           written == [moved EXCEPT !.mem[At(r, x, y)] = Blank]
           erased == to(written, x + 1)
<1>1. /\ Typed(Screen) /\ OnScreen(r) /\ Extent(r) /\ Screen.region = r /\ Screen.cursor = cursor
      /\ cursor.x \in 0 .. r.w - 1 /\ y \in 0 .. r.h - 1
  BY TerminalNow DEF Ready, Loose, Inside
<1>2. x \in 0 .. r.w - 1 /\ x + 1 \in 0 .. r.w - 1 /\ x + 1 = cursor.x /\ x \in Int
  BY <1>1 DEF Extent
<1>3. \A s, i : IsScreen(s) => /\ IsScreen(to(s, i)) /\ to(s, i).mem = s.mem
                               /\ to(s, i).region = s.region
                               /\ to(s, i).cursor = [x |-> i, y |-> y]
  BY DEF IsScreen
<1>4. /\ SetXY(Screen, x, y) = moved
      /\ Typed(moved) /\ moved.region = r /\ moved.cursor = [x |-> x, y |-> y]
      /\ Text(moved) = Text(Screen)
  <2>1. SetXY(Screen, x, y) = moved
    <3> HIDE DEF x, y, r
    <3> QED BY <1>1, <1>2, SetXYInside
  <2>2. IsScreen(Screen)
    BY <1>1 DEF Typed
  <2> HIDE DEF to, x, y
  <2> QED
    BY <1>1, <1>3, <2>1, <2>2 DEF Typed, Text
<1>5. /\ Typed(written) /\ written.region = r
      /\ Text(written) = [Text(Screen) EXCEPT ![<<x, y>>] = Blank]
  <2>1. x \in 0 .. moved.region.w - 1 /\ y \in 0 .. moved.region.h - 1 /\ OnScreen(moved.region)
    <3> HIDE DEF moved, x, y, r
    <3> QED BY <1>1, <1>2, <1>4
  <2>2. At(moved.region, x, y) = At(r, x, y)
    <3> HIDE DEF moved
    <3> QED BY <1>4
  <2> DEFINE erase(b) == [moved EXCEPT !.mem[b] = Blank]
  <2> HIDE DEF moved, x, y
  <2>3. LET e == erase(At(moved.region, x, y))
        IN /\ Typed(e) /\ e.region = moved.region
           /\ Text(e) = [Text(moved) EXCEPT ![<<x, y>>] = Blank]
    BY <1>4, <2>1, TextWritten
  <2>4. written = erase(At(r, x, y))
    OBVIOUS
  <2> HIDE DEF erase, written, r
  <2> QED BY <1>4, <2>2, <2>3, <2>4
<1>6. Put(moved, Blank) = erased
  <2>1. Put(moved, Blank) = SetXY(written, x + 1, y)
    <3> HIDE DEF moved, x, y
    <3> QED BY <1>4 DEF Put, At
  <2>2. SetXY(written, x + 1, y) = erased
    <3> HIDE DEF written, x, y, r
    <3> QED BY <1>1, <1>2, <1>5, SetXYInside
  <2> QED
    BY <2>1, <2>2
<1>7. TxtPut(Screen, "BS") = SetXY(erased, x, y)
  <2>1. TxtPut(Screen, "BS") = SetXY(Put(SetXY(Screen, x, y), Blank), x, y)
    BY <1>1 DEF TxtPut
  <2> HIDE DEF x, y, moved, erased
  <2> QED BY <1>4, <1>6, <2>1
<1> HIDE DEF written
<1>8. IsScreen(erased) /\ erased.mem = written.mem /\ erased.region = r
  <2>1. IsScreen(written)
    BY <1>5 DEF Typed
  <2> HIDE DEF to, x, y
  <2> QED BY <1>3, <1>5, <2>1
<1> HIDE DEF erased
<1>9. /\ SetXY(erased, x, y).mem = written.mem /\ SetXY(erased, x, y).region = r
      /\ SetXY(erased, x, y).cursor = [x |-> x, y |-> y]
  <2>1. SetXY(erased, x, y) = to(erased, x)
    <3> HIDE DEF x, y, r
    <3> QED BY <1>1, <1>2, <1>8, SetXYInside
  <2> HIDE DEF to, x, y
  <2> QED BY <1>3, <1>8, <2>1
<1>10. /\ mem' = written.mem /\ region' = region /\ cursor' = [x |-> x, y |-> y]
  BY <1>7, <1>9 DEF Becomes
<1>11. T!BackSpace
  <2>1. <<cursor.x, cursor.y>>[1] = cursor.x /\ <<cursor.x, cursor.y>>[2] = cursor.y
    OBVIOUS
  <2>2. Text(written) = [p \in (0 .. region'.w - 1) \X (0 .. region'.h - 1) |->
                          mem'[Cell(region'.x + p[1], region'.y + p[2])]]
    BY <1>5, <1>10 DEF Text, At, WindowPlaces
  <2>3. <<cursor'.x, cursor'.y>> = <<x, y>>
    BY <1>10
  <2>4. [w |-> region'.w, h |-> region'.h] = [w |-> region.w, h |-> region.h]
    BY <1>10
  <2> QED
    BY <1>5, <2>1, <2>2, <2>3, <2>4, TerminalNow, InsideIs DEF T!BackSpace
<1> QED
  BY <1>11

(* Beside the window, a character of it may be erased. *)
LEMMA StrayBackSpaceStep ==
  ASSUME Ready(Screen), cursor.x > 0, ~Inside, Becomes(TxtPut(Screen, "BS"))
  PROVE  T!BackSpace
<1> DEFINE x == cursor.x
           y == cursor.y
           moved == SetXY(Screen, x - 1, y)
           erased == Put(moved, Blank)
           t == SetXY(erased, x - 1, y)
<1>1. /\ Typed(Screen) /\ OnScreen(region) /\ Extent(region) /\ Screen.region = region
      /\ Screen.cursor = cursor
      /\ x \in Nat /\ y \in Nat /\ y + 2 <= 2 * region.h
  BY TerminalNow DEF Ready, Loose, Placed, Near
<1>2. x - 1 \in Int /\ y \in Int
  BY <1>1
<1>3. Ready(moved) /\ moved.region = region
  <2>1. InReach(Screen, x - 1, y)
    <3> HIDE DEF x, y
    <3> QED BY <1>1, <1>2, NextRowInReach
  <2> QED
    BY <1>1, <1>2, <2>1, SetXYReady
<1>4. Ready(erased) /\ erased.region = region
  <2> HIDE DEF moved
  <2> QED BY <1>3, PutReady
<1>5. TxtPut(Screen, "BS") = t
  BY <1>1 DEF TxtPut
<1> HIDE DEF erased
<1>6. Ready(t) /\ Sound(t) /\ t.region = region
  <2>1. InReach(erased, x - 1, y)
    <3> HIDE DEF x, y
    <3> QED BY <1>1, <1>2, <1>4, NextRowInReach
  <2>2. Typed(erased) /\ OnScreen(erased.region)
    BY <1>4 DEF Ready
  <2> QED
    BY <1>2, <1>4, <2>1, <2>2, SetXYReady
<1> HIDE DEF t
<1>7. mem' = t.mem /\ region' = region /\ cursor' = t.cursor
  BY <1>5, <1>6 DEF Becomes
<1> DEFINE size == [w |-> region.w, h |-> region.h]
<1>8. [p \in (0 .. region'.w - 1) \X (0 .. region'.h - 1) |->
         mem'[Cell(region'.x + p[1], region'.y + p[2])]] \in T!Texts(size)
  <2>1. Text(t) \in [WindowPlaces(region) -> {Blank, Ink}]
    BY <1>1, <1>6, TextTyped DEF Ready
  <2>2. Text(t) = [p \in (0 .. region'.w - 1) \X (0 .. region'.h - 1) |->
                     mem'[Cell(region'.x + p[1], region'.y + p[2])]]
    BY <1>6, <1>7 DEF Text, At, WindowPlaces
  <2> QED
    BY <2>1, <2>2, PlacesAre DEF T!Texts
<1>9. <<cursor'.x, cursor'.y>> \in T!Positions(size)
  <2>1. cursor'.x \in 0 .. region.w - 1 /\ cursor'.y \in 0 .. region.h - 1
    BY <1>6, <1>7 DEF Sound, Within
  <2> QED
    BY <2>1, PlacesAre DEF WindowPlaces
<1>10. [w |-> region'.w, h |-> region'.h] = size /\ <<x, y>>[1] = x
  BY <1>7
<1> HIDE DEF size
<1> QED
  BY <1>8, <1>9, <1>10, InsideIs DEF T!BackSpace, size

(* Whatever character is printed. *)
LEMMA TxtPutStep ==
  ASSUME Ready(Screen), NEW c, Becomes(TxtPut(Screen, c))
  PROVE  T!PutChar(c)
<1> DEFINE x == cursor.x
           y == cursor.y
<1>1. /\ Typed(Screen) /\ OnScreen(region) /\ Extent(region) /\ Screen.region = region
      /\ Screen.cursor = cursor
      /\ x \in Nat /\ y \in Nat /\ y + 2 <= 2 * region.h
  BY TerminalNow DEF Ready, Loose, Placed, Near
<1>2. CASE c = "BS"
  <2>1. CASE x > 0 /\ Inside
    BY <1>2, <2>1, BackSpaceStep DEF T!PutChar
  <2>2. CASE x > 0 /\ ~Inside
    BY <1>2, <2>2, StrayBackSpaceStep DEF T!PutChar
  <2>3. CASE ~(x > 0)
    <3>1. TxtPut(Screen, c) = Screen
      BY <1>1, <1>2, <2>3 DEF TxtPut
    <3>2. UNCHANGED T!window
      BY <3>1, SameScreen
    <3>3. <<x, y>>[1] = 0
      BY <1>1, <2>3
    <3>4. T!BackSpace
      BY <3>2, <3>3 DEF T!BackSpace
    <3> QED
      BY <1>2, <3>4 DEF T!PutChar
  <2> QED
    BY <2>1, <2>2, <2>3
<1>3. CASE c = "TAB"
  <2> DEFINE stop == (x \div TabStop + 1) * TabStop
  <2>1. stop \in Int
    BY <1>1, ScreenSizes
  <2>2. TxtPut(Screen, c) = SetXY(Screen, stop, y)
    BY <1>1, <1>3 DEF TxtPut
  <2>3. InReach(Screen, stop, y)
    <3> HIDE DEF stop, y
    <3> QED BY <1>1, <2>1, NextRowInReach
  <2>4. T!Place(Text(Screen), stop, y)
    <3> HIDE DEF stop
    <3> QED BY <1>1, <2>1, <2>2, <2>3, PlaceStep
  <2>5. <<x, y>>[1] = x /\ <<x, y>>[2] = y
    OBVIOUS
  <2>6. T!PutChar(c) <=> T!Place(Text(Screen), (<<x, y>>[1] \div TabStop + 1) * TabStop, <<x, y>>[2])
    BY <1>3, TerminalNow DEF T!PutChar
  <2> QED
    BY <2>4, <2>5, <2>6
<1>4. CASE c = "NL"
  <2>1. 0 \in Int /\ y + 1 \in Int
    BY <1>1
  <2>2. TxtPut(Screen, c) = SetXY(Screen, 0, y + 1)
    BY <1>1, <1>4 DEF TxtPut
  <2>3. InReach(Screen, 0, y + 1)
    <3>1. (y + 1) + 1 <= 2 * region.h /\ 0 < region.w
      BY <1>1 DEF Extent
    <3> HIDE DEF y
    <3> QED BY <1>1, <2>1, <3>1, NextRowInReach
  <2>4. T!Place(Text(Screen), 0, y + 1)
    BY <1>1, <2>1, <2>2, <2>3, PlaceStep
  <2>5. <<x, y>>[2] = y
    OBVIOUS
  <2>6. T!PutChar(c) <=> T!Place(Text(Screen), 0, <<x, y>>[2] + 1)
    BY <1>4, TerminalNow DEF T!PutChar
  <2> QED
    BY <2>4, <2>5, <2>6
<1>5. CASE c = "CR"
  <2>1. TxtPut(Screen, c) = Screen
    BY <1>5 DEF TxtPut
  <2>2. UNCHANGED T!window
    BY <2>1, SameScreen
  <2> QED
    BY <1>5, <2>2 DEF T!PutChar
<1>6. CASE c \notin {"BS", "TAB", "NL", "CR"}
  <2>1. TxtPut(Screen, c) = Put(Screen, Glyph(c))
    BY <1>6 DEF TxtPut
  <2>2. Glyph(c) \in {Blank, Ink}
    BY DEF Glyph
  <2>3. T!Show(Glyph(c))
    BY <2>1, <2>2, PutStep
  <2>4. CASE c = "SPACE"
    BY <2>3, <2>4 DEF T!PutChar, Glyph
  <2>5. CASE c # "SPACE"
    <3>1. T!Show(Ink)
      BY <2>3, <2>5 DEF Glyph
    <3> QED
      BY <1>6, <2>5, <3>1 DEF T!PutChar
  <2> QED
    BY <2>4, <2>5
<1> QED
  BY <1>2, <1>3, <1>4, <1>5, <1>6

-----------------------------------------------------------------------------
(* What erasing shows. *)

(* Columns x to x + w - 1 of rows y to y + h - 1. *)
Part(x, y, w, h) == (x .. x + w - 1) \X (y .. y + h - 1)
Erased(shown, r, area) == [p \in WindowPlaces(r) |-> IF p \in area THEN Blank ELSE shown[p]]

(* A part that is not empty is all that ClearPart blanks. *)
LEMMA ClearPartShows ==
  ASSUME NEW s, Ready(s), NEW x \in Nat, NEW y \in Nat, NEW w \in Nat \ {0}, NEW h \in Nat \ {0},
         x + w <= s.region.w, y + h <= s.region.h
  PROVE  LET t == ClearPart(s, x, y, w, h)
         IN /\ Ready(t) /\ t.region = s.region /\ t.cursor = s.cursor
            /\ Text(t) = Erased(Text(s), s.region, Part(x, y, w, h))
<1> DEFINE r == s.region
           part == [x |-> r.x + x, y |-> r.y + y, w |-> w, h |-> h]
           t == ClearPart(s, x, y, w, h)
           cells == RegionCells(part)
<1>1. Typed(s) /\ Loose(s) /\ OnScreen(r) /\ Keeps(s, t) /\ Typed(t)
  BY ClearPartKeeps, ClearPartTyped DEF Ready
<1>2. r.x \in Nat /\ r.y \in Nat /\ r.w \in Nat \ {0} /\ r.h \in Nat \ {0}
  BY <1>1, OnScreenWhole DEF Extent
<1>3. Resolved(part) = part /\ Resolved(r) = r
  BY <1>2 DEF Resolved
<1>4. t.mem = Blanked(s.mem, cells)
  <2>1. t = SetRegion(FillBlank(SetRegion(s, part)), r)
    BY Zenon DEF ClearPart
  <2>2. s = [mem |-> s.mem, region |-> s.region, cursor |-> s.cursor]
    BY <1>1 DEF Typed, IsScreen
  <2> HIDE DEF part, t, r
  <2>3. SetRegion(s, part) = [mem |-> s.mem, region |-> part, cursor |-> s.cursor]
    BY <1>3, <2>2 DEF SetRegion
  <2>4. FillBlank(SetRegion(s, part)) = [mem |-> Blanked(s.mem, cells), region |-> part, cursor |-> s.cursor]
    <3> HIDE DEF cells
    <3>1. RegionCells(part) = cells
      BY DEF cells
    <3> QED
      BY <2>3, <3>1 DEF FillBlank
  <2> HIDE DEF cells
  <2> QED
    BY <2>1, <2>4 DEF SetRegion
<1>5. \A i \in 0 .. r.w - 1, j \in 0 .. r.h - 1 :
        t.mem[At(r, i, j)] = IF <<i, j>> \in Part(x, y, w, h) THEN Blank ELSE s.mem[At(r, i, j)]
  <2> SUFFICES ASSUME NEW i \in 0 .. r.w - 1, NEW j \in 0 .. r.h - 1
               PROVE  t.mem[At(r, i, j)] =
                        IF <<i, j>> \in Part(x, y, w, h) THEN Blank ELSE s.mem[At(r, i, j)]
    OBVIOUS
  <2>1. At(r, i, j) \in Addresses
    BY <1>1, WindowCells
  <2>2. cells = {Cell(x1, y1) : x1 \in r.x + x .. r.x + x + w - 1, y1 \in r.y + y .. r.y + y + h - 1}
    BY DEF RegionCells, Block
  <2>3. ASSUME <<i, j>> \in Part(x, y, w, h)
        PROVE  At(r, i, j) \in cells
    <3>1. r.x + i \in r.x + x .. r.x + x + w - 1 /\ r.y + j \in r.y + y .. r.y + y + h - 1
      BY <1>2, <2>3 DEF Part
    <3> HIDE DEF r, cells
    <3> QED BY <2>2, <3>1 DEF At
  <2>4. ASSUME At(r, i, j) \in cells
        PROVE  <<i, j>> \in Part(x, y, w, h)
    <3>1. PICK x1 \in r.x + x .. r.x + x + w - 1, y1 \in r.y + y .. r.y + y + h - 1 :
             At(r, i, j) = Cell(x1, y1)
      <4> HIDE DEF r, cells
      <4> QED BY <2>2, <2>4
    <3> DEFINE i1 == x1 - r.x
               j1 == y1 - r.y
    <3>2. /\ i1 \in x .. x + w - 1 /\ j1 \in y .. y + h - 1
          /\ i1 \in 0 .. r.w - 1 /\ j1 \in 0 .. r.h - 1
          /\ x1 = r.x + i1 /\ y1 = r.y + j1
      BY <1>2
    <3>3. At(r, i, j) = At(r, i1, j1)
      <4> HIDE DEF r, i1, j1
      <4> QED BY <3>1, <3>2 DEF At
    <3>4. i = i1 /\ j = j1
      <4> HIDE DEF i1, j1
      <4> QED BY <1>1, <3>2, <3>3, AtInjective
    <3> QED
      BY <3>2, <3>4 DEF Part
  <2> HIDE DEF cells, r, t
  <2>5. Blanked(s.mem, cells)[At(r, i, j)] = IF At(r, i, j) \in cells THEN Blank ELSE s.mem[At(r, i, j)]
    BY <2>1 DEF Blanked
  <2> QED
    BY <1>4, <2>3, <2>4, <2>5
<1> HIDE DEF t
<1>6. Loose(t) /\ t.region = r /\ t.cursor = s.cursor
  BY <1>1, KeepsLoose DEF Keeps
<1>7. Ready(t)
  BY <1>1, <1>6 DEF Ready
<1>8. \A p \in WindowPlaces(r) : p[1] \in 0 .. r.w - 1 /\ p[2] \in 0 .. r.h - 1 /\ p = <<p[1], p[2]>>
  BY DEF WindowPlaces
<1>9. Text(t) = Erased(Text(s), r, Part(x, y, w, h))
  <2>1. Text(t) = [p \in WindowPlaces(r) |-> t.mem[At(r, p[1], p[2])]]
    BY <1>6 DEF Text
  <2>2. Text(s) = [p \in WindowPlaces(r) |-> s.mem[At(r, p[1], p[2])]]
    BY DEF Text
  <2> HIDE DEF r
  <2> QED
    BY <1>5, <1>8, <2>1, <2>2 DEF Erased
<1> QED
  BY <1>6, <1>7, <1>9 DEF t, r

LEMMA FillShows ==
  ASSUME NEW s, Typed(s), OnScreen(s.region)
  PROVE  /\ FillBlank(s).region = s.region /\ FillBlank(s).cursor = s.cursor
         /\ Text(FillBlank(s)) = [p \in WindowPlaces(s.region) |-> Blank]
<1> DEFINE r == s.region
           t == FillBlank(s)
           cells == RegionCells(r)
<1>1. t.mem = Blanked(s.mem, cells) /\ t.region = r /\ t.cursor = s.cursor
  BY DEF FillBlank, Typed, IsScreen
<1>2. \A p \in WindowPlaces(r) : At(r, p[1], p[2]) \in Addresses /\ At(r, p[1], p[2]) \in cells
  <2> SUFFICES ASSUME NEW x \in 0 .. r.w - 1, NEW y \in 0 .. r.h - 1
               PROVE  At(r, x, y) \in Addresses /\ At(r, x, y) \in cells
    BY DEF WindowPlaces
  <2>1. At(r, x, y) \in Addresses
    BY WindowCells
  <2>2. r.x + x \in r.x .. r.x + r.w - 1 /\ r.y + y \in r.y .. r.y + r.h - 1
    BY OnScreenWhole DEF Extent
  <2> HIDE DEF r
  <2>3. At(r, x, y) \in cells
    BY <2>2 DEF RegionCells, Block, At
  <2> QED
    BY <2>1, <2>3
<1> HIDE DEF t, cells, r
<1>3. \A p \in WindowPlaces(r) : Blanked(s.mem, cells)[At(r, p[1], p[2])] = Blank
  BY <1>2 DEF Blanked
<1>4. Text(t) = [p \in WindowPlaces(r) |-> t.mem[At(r, p[1], p[2])]]
  BY <1>1 DEF Text
<1>5. Text(t) = [p \in WindowPlaces(r) |-> Blank]
  BY <1>1, <1>3, <1>4
<1> QED
  BY <1>1, <1>5 DEF t, r

LEMMA ErasedTwice ==
  ASSUME NEW shown, NEW r, NEW area, NEW area1, NEW area2,
         \A p \in WindowPlaces(r) : p \in area <=> p \in area1 \/ p \in area2
  PROVE  Erased(Erased(shown, r, area1), r, area2) = Erased(shown, r, area)
BY DEF Erased

LEMMA ErasedOnce ==
  ASSUME NEW shown, NEW r, NEW area, NEW area1,
         \A p \in WindowPlaces(r) : p \in area <=> p \in area1
  PROVE  Erased(shown, r, area1) = Erased(shown, r, area)
BY DEF Erased

(* The areas of the terminal, of this window and cursor. *)
Line == {p \in WindowPlaces(region) : p[2] = cursor.y}
LineBefore == {p \in Line : p[1] < cursor.x}
Above == {p \in WindowPlaces(region) : p[2] < cursor.y} \cup LineBefore

LEMMA AreasAre ==
  /\ T!Positions([w |-> region.w, h |-> region.h]) = WindowPlaces(region)
  /\ T!Line = Line /\ T!LineBefore = LineBefore /\ T!Before = Above
<1>1. <<cursor.x, cursor.y>>[1] = cursor.x /\ <<cursor.x, cursor.y>>[2] = cursor.y
  OBVIOUS
<1>2. T!Line = Line
  BY <1>1, PlacesAre DEF T!Line, Line
<1>3. T!LineBefore = LineBefore
  BY <1>1, <1>2 DEF T!LineBefore, LineBefore
<1>4. T!Before = Above
  BY <1>1, <1>3, PlacesAre DEF T!Before, Above
<1> QED
  BY <1>2, <1>3, <1>4, PlacesAre

LEMMA EraseStep ==
  ASSUME NEW t, t.region = region, t.cursor = cursor, NEW area,
         Text(t) = Erased(Text(Screen), region, area), Becomes(t)
  PROVE  T!Erase(area)
<1>1. mem' = t.mem /\ region' = region /\ cursor' = cursor
  BY DEF Becomes
<1>2. Text(t) = [p \in (0 .. region'.w - 1) \X (0 .. region'.h - 1) |->
                   mem'[Cell(region'.x + p[1], region'.y + p[2])]]
  BY <1>1 DEF Text, At, WindowPlaces
<1>3. Erased(Text(Screen), region, area) =
        [p \in T!Positions([w |-> region.w, h |-> region.h]) |->
           IF p \in area THEN Blank ELSE Text(Screen)[p]]
  BY DEF Erased, T!Positions, WindowPlaces
<1> QED
  BY <1>1, <1>2, <1>3, TerminalNow DEF T!Erase

LEMMA FillStep ==
  ASSUME Ready(Screen), Becomes(FillBlank(Screen))
  PROVE  T!Erase(WindowPlaces(region))
<1> DEFINE t == FillBlank(Screen)
<1>1. /\ t.region = region /\ t.cursor = cursor
      /\ Text(t) = [p \in WindowPlaces(region) |-> Blank]
  BY FillShows, TerminalNow DEF Ready
<1>2. Text(t) = Erased(Text(Screen), region, WindowPlaces(region))
  BY <1>1 DEF Erased
<1> HIDE DEF t
<1>3. Becomes(t)
  BY DEF t
<1> QED
  BY <1>1, <1>2, <1>3, EraseStep

(* A mode that is none erases nothing. *)
LEMMA NothingErased ==
  ASSUME Ready(Screen), Becomes(Screen)
  PROVE  T!Erase({})
<1>1. Text(Screen) = Erased(Text(Screen), region, {})
  BY TerminalNow DEF Text, Erased
<1> QED
  BY <1>1, EraseStep, TerminalNow

(* Where the cursor is when a careful program erases a part of the window. *)
LEMMA ClearStep ==
  ASSUME Ready(Screen), NEW mode, Becomes(Clear(Screen, mode)),
         mode \in {0, 1} => Inside, mode = 0 => cursor.y < region.h - 1, mode = 1 => cursor.y > 0
  PROVE  T!Erase(T!WindowPart(mode))
<1> DEFINE x == cursor.x
           y == cursor.y
           w == region.w
           h == region.h
<1>1. ASSUME mode \in {0, 1}
      PROVE  /\ Screen.region = region /\ Screen.cursor = cursor
             /\ w \in Nat /\ h \in Nat /\ x \in 0 .. w - 1 /\ y \in 0 .. h - 1
  BY <1>1, TerminalNow DEF Ready, Loose, Inside, Extent
<1>2. ASSUME mode \in {0, 1}
      PROVE  /\ x \in Nat /\ y \in Nat /\ w \in Nat \ {0} /\ 0 \in Nat /\ 1 \in Nat \ {0}
             /\ x < w /\ y < h
  <2>1. /\ w \in Nat /\ h \in Nat /\ x \in 0 .. w - 1 /\ y \in 0 .. h - 1
    BY <1>1, <1>2
  <2> QED
    BY <2>1
<1>3. CASE mode = 0
  <2>0. mode \in {0, 1}
    BY <1>3
  <2> DEFINE t1 == ClearPart(Screen, x, y, w - x, 1)
             t == ClearPart(t1, 0, y + 1, w, h - y - 1)
             area == WindowPlaces(region) \ Above
             part1 == Part(x, y, w - x, 1)
             part == Part(0, y + 1, w, h - y - 1)
  <2>1. /\ w - x \in Nat \ {0} /\ x + (w - x) <= w /\ y + 1 <= h
        /\ y + 1 \in Nat /\ h - y - 1 \in Nat \ {0} /\ 0 + w <= w /\ y + 1 + (h - y - 1) <= h
    BY <2>0, <1>1, <1>2, <1>3
  <2>2. /\ Ready(t1) /\ t1.region = region /\ t1.cursor = cursor
        /\ Text(t1) = Erased(Text(Screen), region, part1)
    <3> HIDE DEF x, y, w, h, part1
    <3>1. part1 = Part(x, y, w - x, 1)
      BY DEF part1
    <3> DEFINE n == w - x
    <3>2. n \in Nat \ {0} /\ x + n <= w
      BY <2>1
    <3> HIDE DEF n
    <3>3. /\ x + n <= Screen.region.w /\ y + 1 <= Screen.region.h
      BY <2>0, <1>1, <2>1, <3>2 DEF w, h
    <3>4. LET u == ClearPart(Screen, x, y, n, 1)
          IN /\ Ready(u) /\ u.region = Screen.region /\ u.cursor = Screen.cursor
             /\ Text(u) = Erased(Text(Screen), Screen.region, Part(x, y, n, 1))
      BY <2>0, <1>2, <3>2, <3>3, ClearPartShows
    <3> QED
      BY <2>0, <1>1, <3>1, <3>4 DEF n
  <2> HIDE DEF t1
  <2>3. /\ t.region = region /\ t.cursor = cursor
        /\ Text(t) = Erased(Text(t1), region, part)
    <3> DEFINE i == y + 1
               n == h - y - 1
    <3>1. i \in Nat /\ n \in Nat \ {0} /\ 0 + w <= t1.region.w /\ i + n <= t1.region.h
      BY <2>1, <2>2
    <3>2. LET u == ClearPart(t1, 0, i, w, n)
          IN /\ u.region = t1.region /\ u.cursor = t1.cursor
             /\ Text(u) = Erased(Text(t1), t1.region, Part(0, i, w, n))
      <4>1. w \in Nat \ {0} /\ 0 \in Nat
        BY <2>0, <1>2
      <4> HIDE DEF i, n, w, x, y, h
      <4> QED BY <2>2, <3>1, <4>1, ClearPartShows
    <3> QED
      BY <2>2, <3>2
  <2>4. Clear(Screen, mode) = t
    <3> DEFINE clear(a, b, r) ==
          ClearPart(ClearPart(Screen, a, b, r.w - a, 1), 0, b + 1, r.w, r.h - b - 1)
    <3>1. Clear(Screen, mode) = clear(Screen.cursor.x, Screen.cursor.y, Screen.region)
      BY <1>3 DEF Clear
    <3>2. clear(Screen.cursor.x, Screen.cursor.y, Screen.region) = clear(x, y, region)
      <4> HIDE DEF clear
      <4> QED BY <2>0, <1>1
    <3> QED
      BY <3>1, <3>2 DEF t1
  <2>5. \A p \in WindowPlaces(region) : p \in area <=> p \in part1 \/ p \in part
    <3> SUFFICES ASSUME NEW i \in 0 .. w - 1, NEW j \in 0 .. h - 1
                 PROVE  <<i, j>> \in area <=> <<i, j>> \in part1 \/ <<i, j>> \in part
      BY DEF WindowPlaces
    <3>1. <<i, j>> \in WindowPlaces(region) /\ <<i, j>>[1] = i /\ <<i, j>>[2] = j
      BY DEF WindowPlaces
    <3>2. <<i, j>> \in Above <=> j < y \/ (j = y /\ i < x)
      BY <3>1 DEF Above, LineBefore, Line
    <3>3. <<i, j>> \in part1 <=> i >= x /\ j = y
      BY <2>0, <1>1 DEF Part
    <3>4. <<i, j>> \in part <=> j > y
      BY <2>0, <1>1 DEF Part
    <3>5. i \in Int /\ j \in Int /\ x \in Int /\ y \in Int
      BY <2>0, <1>1
    <3> HIDE DEF part1, part, x, y
    <3> QED
      BY <3>1, <3>2, <3>3, <3>4, <3>5
  <2> HIDE DEF t, area, part1, part
  <2>6. Text(t) = Erased(Text(Screen), region, area)
    BY <2>2, <2>3, <2>5, ErasedTwice
  <2>7. T!WindowPart(mode) = area
    BY <1>3, AreasAre DEF area, T!WindowPart
  <2>8. Becomes(t)
    BY <2>4
  <2> QED
    BY <2>3, <2>6, <2>7, <2>8, EraseStep
<1>4. CASE mode = 1
  <2>0. mode \in {0, 1}
    BY <1>4
  <2> DEFINE t1 == ClearPart(Screen, 0, 0, w, y)
             t == ClearPart(t1, 0, y, x + 1, 1)
             area == Above \cup {<<x, y>>}
             part1 == Part(0, 0, w, y)
             part == Part(0, y, x + 1, 1)
  <2>1. y \in Nat \ {0} /\ 0 + w <= w /\ 0 + y <= h /\ x + 1 \in Nat \ {0} /\ 0 + (x + 1) <= w /\ y + 1 <= h
    BY <2>0, <1>1, <1>2, <1>4
  <2>2. /\ Ready(t1) /\ t1.region = region /\ t1.cursor = cursor
        /\ Text(t1) = Erased(Text(Screen), region, part1)
    <3>1. /\ 0 + w <= Screen.region.w /\ 0 + y <= Screen.region.h
      BY <2>0, <1>1, <2>1
    <3>2. LET u == ClearPart(Screen, 0, 0, w, y)
          IN /\ Ready(u) /\ u.region = Screen.region /\ u.cursor = Screen.cursor
             /\ Text(u) = Erased(Text(Screen), Screen.region, Part(0, 0, w, y))
      <4> HIDE DEF y, w
      <4> QED BY <2>0, <1>2, <2>1, <3>1, ClearPartShows
    <3> QED
      BY <2>0, <1>1, <3>2
  <2> HIDE DEF t1
  <2>3. /\ t.region = region /\ t.cursor = cursor
        /\ Text(t) = Erased(Text(t1), region, part)
    <3> DEFINE n == x + 1
    <3>1. n \in Nat \ {0} /\ 0 + n <= t1.region.w /\ y + 1 <= t1.region.h
      BY <2>1, <2>2
    <3>2. LET u == ClearPart(t1, 0, y, n, 1)
          IN /\ u.region = t1.region /\ u.cursor = t1.cursor
             /\ Text(u) = Erased(Text(t1), t1.region, Part(0, y, n, 1))
      <4> HIDE DEF n, y
      <4> QED BY <2>0, <1>2, <2>2, <3>1, ClearPartShows
    <3> QED
      BY <2>2, <3>2
  <2>4. Clear(Screen, mode) = t
    <3> DEFINE clear(a, b, r) == ClearPart(ClearPart(Screen, 0, 0, r.w, b), 0, b, a + 1, 1)
    <3>1. mode # 0
      BY <1>4
    <3>2. Clear(Screen, mode) = clear(Screen.cursor.x, Screen.cursor.y, Screen.region)
      BY <1>4, <3>1 DEF Clear
    <3>3. clear(Screen.cursor.x, Screen.cursor.y, Screen.region) = clear(x, y, region)
      <4> HIDE DEF clear
      <4> QED BY <2>0, <1>1
    <3> QED
      BY <3>2, <3>3 DEF t1
  <2>5. \A p \in WindowPlaces(region) : p \in area <=> p \in part1 \/ p \in part
    <3> SUFFICES ASSUME NEW i \in 0 .. w - 1, NEW j \in 0 .. h - 1
                 PROVE  <<i, j>> \in area <=> <<i, j>> \in part1 \/ <<i, j>> \in part
      BY DEF WindowPlaces
    <3>1. <<i, j>> \in WindowPlaces(region) /\ <<i, j>>[1] = i /\ <<i, j>>[2] = j
      BY DEF WindowPlaces
    <3>2. <<i, j>> \in Above <=> j < y \/ (j = y /\ i < x)
      BY <3>1 DEF Above, LineBefore, Line
    <3>3. <<i, j>> \in part1 <=> j < y
      BY <2>0, <1>1 DEF Part
    <3>4. <<i, j>> \in part <=> j = y /\ i <= x
      BY <2>0, <1>1 DEF Part
    <3>5. i \in Int /\ j \in Int /\ x \in Int /\ y \in Int
      BY <2>0, <1>1
    <3>6. <<i, j>> = <<x, y>> <=> i = x /\ j = y
      OBVIOUS
    <3> HIDE DEF part1, part, x, y
    <3> QED
      BY <3>2, <3>3, <3>4, <3>5, <3>6
  <2> HIDE DEF t, area, part1, part
  <2>6. Text(t) = Erased(Text(Screen), region, area)
    BY <2>2, <2>3, <2>5, ErasedTwice
  <2>7. T!WindowPart(mode) = area
    BY <1>4, AreasAre DEF area, T!WindowPart
  <2>8. Becomes(t)
    BY <2>4
  <2> QED
    BY <2>3, <2>6, <2>7, <2>8, EraseStep
<1>5. CASE mode = 2
  <2>1. mode # 0 /\ mode # 1
    BY <1>5
  <2>2. Clear(Screen, mode) = FillBlank(Screen)
    BY <1>5, <2>1, Zenon DEF Clear
  <2>3. T!WindowPart(mode) = WindowPlaces(region)
    BY <1>5, <2>1, AreasAre, Zenon DEF T!WindowPart
  <2> QED
    BY <2>2, <2>3, FillStep
<1>6. CASE mode \notin {0, 1, 2}
  <2>1. Clear(Screen, mode) = Screen
    BY <1>6 DEF Clear
  <2>2. T!WindowPart(mode) = {}
    BY <1>6 DEF T!WindowPart
  <2> QED
    BY <2>1, <2>2, NothingErased
<1> QED
  BY <1>3, <1>4, <1>5, <1>6

LEMMA ClearLineStep ==
  ASSUME Ready(Screen), NEW mode, Becomes(ClearLine(Screen, mode)),
         Inside, mode = 1 => cursor.x > 0
  PROVE  T!Erase(T!LinePart(mode))
<1> DEFINE x == cursor.x
           y == cursor.y
           w == region.w
           h == region.h
<1>1. /\ Screen.region = region /\ Screen.cursor = cursor
      /\ w \in Nat /\ h \in Nat /\ x \in 0 .. w - 1 /\ y \in 0 .. h - 1
  BY TerminalNow DEF Ready, Loose, Inside, Extent
<1>2. x \in Nat /\ y \in Nat /\ w \in Nat \ {0} /\ 0 \in Nat /\ 1 \in Nat \ {0} /\ x < w /\ y + 1 <= h
  BY <1>1
<1>3. ASSUME NEW i \in Nat, NEW n \in Nat \ {0}, i + n <= w, NEW area,
             \A p \in WindowPlaces(region) : p \in area <=> p \in Part(i, y, n, 1),
             Becomes(ClearPart(Screen, i, y, n, 1))
      PROVE  T!Erase(area)
  <2> DEFINE t == ClearPart(Screen, i, y, n, 1)
  <2>1. i + n <= Screen.region.w /\ y + 1 <= Screen.region.h
    BY <1>1, <1>2, <1>3
  <2>2. /\ t.region = Screen.region /\ t.cursor = Screen.cursor
        /\ Text(t) = Erased(Text(Screen), Screen.region, Part(i, y, n, 1))
    <3>1. y \in Nat /\ 1 \in Nat \ {0}
      BY <1>2
    <3> HIDE DEF y, w, h
    <3> QED BY <1>3, <2>1, <3>1, ClearPartShows
  <2>3. Text(t) = Erased(Text(Screen), region, area)
    BY <1>1, <1>3, <2>2, ErasedOnce
  <2>4. t.region = region /\ t.cursor = cursor /\ Becomes(t)
    BY <1>1, <1>3, <2>2
  <2> HIDE DEF t
  <2> QED
    BY <2>3, <2>4, EraseStep
<1>4. T!LinePart(mode) = CASE mode = 0 -> Line \ LineBefore
                          [] mode = 1 -> LineBefore
                          [] mode = 2 -> Line
                          [] OTHER    -> {}
  BY AreasAre DEF T!LinePart
<1>5. \A p \in WindowPlaces(region) :
        /\ p \in Line <=> p \in Part(0, y, w, 1)
        /\ p \in LineBefore <=> p \in Part(0, y, x, 1)
        /\ p \in Line \ LineBefore <=> p \in Part(x, y, w - x, 1)
  <2> SUFFICES ASSUME NEW i \in 0 .. w - 1, NEW j \in 0 .. h - 1
               PROVE  /\ <<i, j>> \in Line <=> <<i, j>> \in Part(0, y, w, 1)
                      /\ <<i, j>> \in LineBefore <=> <<i, j>> \in Part(0, y, x, 1)
                      /\ <<i, j>> \in Line \ LineBefore <=> <<i, j>> \in Part(x, y, w - x, 1)
    BY DEF WindowPlaces
  <2>1. <<i, j>> \in WindowPlaces(region) /\ <<i, j>>[1] = i /\ <<i, j>>[2] = j
    BY DEF WindowPlaces
  <2>2. /\ <<i, j>> \in Line <=> j = y
        /\ <<i, j>> \in LineBefore <=> j = y /\ i < x
    BY <2>1 DEF Line, LineBefore
  <2>3. /\ <<i, j>> \in Part(0, y, w, 1) <=> j = y
        /\ <<i, j>> \in Part(0, y, x, 1) <=> j = y /\ i < x
        /\ <<i, j>> \in Part(x, y, w - x, 1) <=> j = y /\ i >= x
    BY <1>1 DEF Part
  <2>4. i < x <=> ~(i >= x)
    BY <1>1
  <2> QED
    BY <2>2, <2>3, <2>4
<1>6. CASE mode = 0
  <2>1. ClearLine(Screen, mode) = ClearPart(Screen, x, y, w - x, 1)
    <3>1. ClearLine(Screen, mode) =
            ClearPart(Screen, Screen.cursor.x, Screen.cursor.y, Screen.region.w - Screen.cursor.x, 1)
      BY <1>6 DEF ClearLine
    <3> QED
      BY <1>1, <3>1
  <2>2. w - x \in Nat \ {0} /\ x + (w - x) <= w
    BY <1>1, <1>2
  <2>3. T!LinePart(mode) = Line \ LineBefore
    BY <1>6, <1>4
  <2> HIDE DEF x, y, w
  <2> QED
    BY <1>2, <1>3, <1>5, <2>1, <2>2, <2>3
<1>7. CASE mode = 1
  <2>1. ClearLine(Screen, mode) = ClearPart(Screen, 0, y, x, 1)
    <3>1. mode # 0
      BY <1>7
    <3>2. ClearLine(Screen, mode) = ClearPart(Screen, 0, Screen.cursor.y, Screen.cursor.x, 1)
      BY <1>7, <3>1 DEF ClearLine
    <3> QED
      BY <1>1, <3>2
  <2>2. x \in Nat \ {0} /\ 0 + x <= w
    BY <1>2, <1>7
  <2>3. T!LinePart(mode) = LineBefore
    BY <1>7, <1>4
  <2> HIDE DEF x, y, w
  <2> QED
    BY <1>2, <1>3, <1>5, <2>1, <2>2, <2>3
<1>8. CASE mode = 2
  <2>1. ClearLine(Screen, mode) = ClearPart(Screen, 0, y, w, 1)
    <3>1. mode # 0 /\ mode # 1
      BY <1>8
    <3>2. ClearLine(Screen, mode) = ClearPart(Screen, 0, Screen.cursor.y, Screen.region.w, 1)
      BY <1>8, <3>1, Zenon DEF ClearLine
    <3> QED
      BY <1>1, <3>2
  <2>2. 0 + w <= w
    BY <1>2
  <2>3. T!LinePart(mode) = Line
    BY <1>8, <1>4
  <2> HIDE DEF x, y, w
  <2> QED
    BY <1>2, <1>3, <1>5, <2>1, <2>2, <2>3
<1>9. CASE mode \notin {0, 1, 2}
  <2>1. ClearLine(Screen, mode) = Screen
    BY <1>9 DEF ClearLine
  <2>2. T!LinePart(mode) = {}
    BY <1>4, <1>9
  <2> QED
    BY <2>1, <2>2, NothingErased
<1> QED
  BY <1>6, <1>7, <1>8, <1>9

LEMMA ExecuteStep ==
  ASSUME Ready(Screen), NEW c, Completes(c), WithinReach(c), Careful(c),
         Becomes(Handle(Screen, c, Collected))
  PROVE  T!Perform(c, Collected)
<1>1. Collected \in Seq(Int) /\ Collected # <<>>
  BY CollectedInts
<1>2. CASE c \in Movers
  <2> DEFINE to == Target(Screen, c, Collected)
  <2>1. to.x \in Int /\ to.y \in Int
    BY <1>1, <1>2, TargetInt DEF Ready
  <2>2. Handle(Screen, c, Collected) = SetXY(Screen, to.x, to.y)
    BY <1>2, Zenon DEF Handle, Movers
  <2>3. InReach(Screen, to.x, to.y)
    BY <1>2, Zenon DEF WithinReach, Reachable
  <2>4. Typed(Screen) /\ OnScreen(region) /\ Screen.region = region /\ Screen.cursor = cursor
    BY TerminalNow DEF Ready
  <2> HIDE DEF to
  <2>5. T!Place(Text(Screen), to.x, to.y)
    BY <2>1, <2>2, <2>3, <2>4, PlaceStep
  <2>6. \A n : T!Count(n) = OneAtLeast(n)
    BY DEF T!Count, OneAtLeast
  <2>7. <<cursor.x, cursor.y>>[1] = cursor.x /\ <<cursor.x, cursor.y>>[2] = cursor.y
    OBVIOUS
  <2>8. CASE c = "A"
    <3>1. to.x = cursor.x /\ to.y = cursor.y - OneAtLeast(Collected[1])
      BY <2>4, <2>8 DEF to, Target, Cuu
    <3> QED
      BY <2>5, <2>6, <2>7, <2>8, <3>1, TerminalNow, Zenon DEF T!Perform
  <2>9. CASE c = "B"
    <3>1. to.x = cursor.x /\ to.y = cursor.y + OneAtLeast(Collected[1])
      BY <2>4, <2>9 DEF to, Target, Cud
    <3> QED
      BY <2>5, <2>6, <2>7, <2>9, <3>1, TerminalNow, Zenon DEF T!Perform
  <2>10. CASE c = "C"
    <3>1. to.x = cursor.x + OneAtLeast(Collected[1]) /\ to.y = cursor.y
      BY <2>4, <2>10 DEF to, Target, Cuf
    <3> QED
      BY <2>5, <2>6, <2>7, <2>10, <3>1, TerminalNow, Zenon DEF T!Perform
  <2>11. CASE c = "D"
    <3>1. to.x = cursor.x - OneAtLeast(Collected[1]) /\ to.y = cursor.y
      BY <2>4, <2>11 DEF to, Target, Cub
    <3> QED
      BY <2>5, <2>6, <2>7, <2>11, <3>1, TerminalNow, Zenon DEF T!Perform
  <2>12. CASE c = "G"
    <3>1. to.x = OneAtLeast(Collected[1]) - 1 /\ to.y = cursor.y
      BY <2>4, <2>12 DEF to, Target, Cha
    <3> QED
      BY <2>5, <2>6, <2>7, <2>12, <3>1, TerminalNow, Zenon DEF T!Perform
  <2>13. CASE c = "H"
    <3>1. /\ to.x = OneAtLeast(Collected[1]) - 1
          /\ to.y = IF Len(Collected) > 1 THEN OneAtLeast(Collected[2]) - 1 ELSE 0
      BY <2>4, <2>13 DEF to, Target, Cup
    <3> QED
      BY <2>5, <2>6, <2>13, <3>1, TerminalNow, Zenon DEF T!Perform
  <2> QED
    BY <1>2, <2>8, <2>9, <2>10, <2>11, <2>12, <2>13 DEF Movers
<1>3. CASE c = "J"
  <2>1. Handle(Screen, c, Collected) = Clear(Screen, Collected[1])
    BY <1>3 DEF Handle, Movers
  <2>2. /\ Collected[1] \in {0, 1} => Inside
        /\ Collected[1] = 0 => cursor.y < region.h - 1
        /\ Collected[1] = 1 => cursor.y > 0
    BY <1>3 DEF Careful
  <2> QED
    BY <1>3, <2>1, <2>2, ClearStep DEF T!Perform
<1>4. CASE c = "K"
  <2>1. Handle(Screen, c, Collected) = ClearLine(Screen, Collected[1])
    BY <1>4 DEF Handle, Movers
  <2>2. Inside /\ (Collected[1] = 1 => cursor.x > 0)
    BY <1>4 DEF Careful
  <2> QED
    BY <1>4, <2>1, <2>2, ClearLineStep DEF T!Perform
<1>5. CASE c = "m"
  <2>1. Handle(Screen, c, Collected) = Screen
    BY <1>5 DEF Handle, Movers
  <2> QED
    BY <1>5, <2>1, SameScreen DEF T!Perform
<1>6. c \in Handled /\ c \notin {"@", "P"}
  BY DEF Completes, Careful
<1> QED
  BY <1>2, <1>3, <1>4, <1>5, <1>6 DEF Handled, Letters, Movers

-----------------------------------------------------------------------------
(* What calls do. *)

(* The sequence with c at its end. *)
LEMMA SequenceWith ==
  ASSUME BufferTypes, ansi_buffer # <<>>, ~flushing, NEW c, c # "ESC"
  PROVE  /\ T!With(c) = Append(ansi_buffer, c)
         /\ T!With(c)[1] = "ESC"
         /\ Len(ansi_buffer) > 1 => T!With(c)[2] = ansi_buffer[2]
         /\ Len(ansi_buffer) = 1 => T!With(c)[2] = c
         /\ SubSeq(T!With(c), 3, Len(ansi_buffer)) = SubSeq(ansi_buffer, 3, Len(ansi_buffer))
<1> DEFINE b == ansi_buffer
<1>1. b \in Seq(Chars) /\ b # <<>> /\ b[1] = "ESC"
  BY DEF BufferTypes
<1>2. Len(b) \in Nat /\ Len(b) > 0
  BY <1>1
<1>3. T!With(c) = Append(b, c)
  BY DEF T!With
<1> DEFINE new == Append(b, c)
<1>4. /\ \A i \in 1 .. Len(b) : new[i] = b[i]
      /\ new[Len(b) + 1] = c
  BY <1>1
<1>5. SubSeq(new, 3, Len(b)) = SubSeq(b, 3, Len(b))
  <2>1. \A i \in 1 .. Len(b) - 2 : new[i + 2] = b[i + 2]
    <3>1. \A i \in 1 .. Len(b) - 2 : i + 2 \in 1 .. Len(b)
      BY <1>2
    <3> HIDE DEF b, new
    <3> QED BY <1>4, <3>1
  <2> HIDE DEF b, new
  <2> QED BY <1>2, <2>1
<1> HIDE DEF b, new
<1>6. new[1] = "ESC" /\ (Len(b) > 1 => new[2] = b[2]) /\ (Len(b) = 1 => new[2] = c)
  BY <1>1, <1>2, <1>4
<1> QED
  BY <1>3, <1>5, <1>6 DEF b, new

LEMMA WriteStep ==
  ASSUME Ready(Screen), BufferTypes, NEW c \in Chars, Careful(c), WithinReach(c), ConWriteB(c)
  PROVE  T!Write(c)
<1>1. ~flushing
  BY DEF ConWriteB
<1>2. Handled = T!Understood /\ "ESC" \notin Letters
  BY DEF Handled, Letters, T!Understood
<1>3. CASE WritePlain(c)
  <2>1. T!PutChar(c)
    BY <1>3, TxtPutStep DEF WritePlain
  <2>2. UNCHANGED T!input
    BY <1>3, SameInput DEF WritePlain
  <2>3. T!Plain(c)
    <3>1. CASE ~ansi
      BY <3>1 DEF T!Plain
    <3>2. CASE ansi_buffer = <<>> /\ c # "ESC"
      <4>1. T!With(c) = <<c>>
        BY <3>2 DEF T!With
      <4> QED
        BY <3>2, <4>1 DEF T!Plain
    <3> QED
      BY <1>3, <3>1, <3>2 DEF WritePlain
  <2> QED
    BY <1>1, <2>1, <2>2, <2>3 DEF T!Write
<1>4. CASE WriteEscape(c)
  <2>1. c = "ESC" /\ ansi /\ ansi_buffer' = <<c>> /\ UNCHANGED <<screenVars, ansi, flushing>>
    BY <1>4 DEF WriteEscape
  <2>2. T!With(c) = <<c>> /\ ~T!Plain(c)
    <3>1. T!With(c) = <<c>>
      BY <2>1 DEF T!With
    <3> QED
      BY <2>1, <3>1 DEF T!Plain
  <2>3. UNCHANGED T!window
    BY <2>1, SameScreen
  <2> QED
    BY <1>1, <1>2, <2>1, <2>2, <2>3 DEF T!Write
<1>5. ASSUME Collect(c) \/ Execute(c) \/ Dump(c)
      PROVE  /\ ansi /\ ansi_buffer # <<>> /\ c # "ESC" /\ ~T!Plain(c)
             /\ Completes(c) <=> T!Known(c) /\ c \in Letters
  <2>1. ansi /\ ansi_buffer # <<>> /\ c # "ESC"
    BY <1>2, <1>5 DEF Collect, Execute, Dump, Completes, Handled
  <2>2. ~T!Plain(c)
    BY <1>1, <2>1, SequenceWith DEF T!Plain
  <2>3. Completes(c) <=> T!Known(c) /\ c \in Letters
    <3>1. ansi_buffer \in Seq(Chars)
      BY DEF BufferTypes
    <3>2. Len(ansi_buffer) = 1 \/ Len(ansi_buffer) > 1
      <4> DEFINE n == Len(ansi_buffer)
      <4>1. n \in Nat /\ n # 0
        BY <2>1, <3>1
      <4> HIDE DEF n
      <4>2. n = 1 \/ n > 1
        BY <4>1
      <4> QED
        BY <4>2 DEF n
    <3>3. CASE Len(ansi_buffer) > 1
      BY <1>1, <1>2, <2>1, <3>3, SequenceWith DEF Completes, T!Known, Handled
    <3>4. CASE Len(ansi_buffer) = 1
      <4>1. T!With(c)[2] = c
        BY <1>1, <2>1, <3>4, SequenceWith
      <4>2. "[" \notin T!Understood
        BY DEF T!Understood
      <4>3. ~T!Known(c)
        BY <4>1, <4>2 DEF T!Known
      <4> QED
        BY <3>4, <4>3 DEF Completes
    <3> QED
      BY <3>2, <3>3, <3>4
  <2> QED
    BY <2>1, <2>2, <2>3
<1>6. CASE Collect(c)
  <2>1. c \notin Letters /\ ansi_buffer' = Append(ansi_buffer, c)
        /\ UNCHANGED <<screenVars, ansi, flushing>>
    BY <1>6 DEF Collect
  <2>2. UNCHANGED T!window
    BY <2>1, SameScreen
  <2>3. ~T!Plain(c) /\ T!With(c) = Append(ansi_buffer, c)
    BY <1>1, <1>5, <1>6, SequenceWith
  <2> QED
    BY <1>1, <2>1, <2>2, <2>3 DEF T!Write
<1>7. CASE Execute(c)
  <2>1. Completes(c) /\ Becomes(Handle(Screen, c, Collected)) /\ ansi_buffer' = <<>>
        /\ UNCHANGED <<ansi, flushing>>
    BY <1>7 DEF Execute
  <2>2. T!Perform(c, Collected)
    BY <2>1, ExecuteStep
  <2>3. Collected = Arguments(SubSeq(T!With(c), 3, Len(ansi_buffer)))
    BY <1>1, <1>5, <1>7, SequenceWith DEF Collected
  <2>4. ~T!Plain(c) /\ c \in Letters /\ T!Known(c)
    BY <1>5, <1>7, <2>1
  <2>5. T!Perform(c, Arguments(SubSeq(T!With(c), 3, Len(ansi_buffer))))
    BY <2>2, <2>3
  <2> QED
    BY <1>1, <2>1, <2>4, <2>5 DEF T!Write
<1>8. CASE Dump(c)
  <2>1. c \in Letters /\ ~Completes(c) /\ ansi_buffer' = Append(ansi_buffer, c)
        /\ flushing' = TRUE /\ UNCHANGED <<screenVars, ansi>>
    BY <1>8 DEF Dump
  <2>2. UNCHANGED T!window
    BY <2>1, SameScreen
  <2>3. ~T!Plain(c) /\ ~T!Known(c) /\ T!With(c) = Append(ansi_buffer, c)
    BY <1>1, <1>5, <1>8, <2>1, SequenceWith
  <2> QED
    BY <1>1, <2>1, <2>2, <2>3 DEF T!Write
<1> QED
  BY <1>3, <1>4, <1>6, <1>7, <1>8 DEF ConWriteB

LEMMA RegionStep ==
  ASSUME Ready(Screen), NEW r \in Regions, Settable(r), TxtSetRegion(r)
  PROVE  T!NewWindow([w |-> Resolved(r).w, h |-> Resolved(r).h])
<1> DEFINE R == Resolved(r)
           set == [mem |-> mem, region |-> R, cursor |-> cursor]
<1>1. Ready(set) /\ Becomes(set)
  BY RegionReady DEF TxtSetRegion
<1>2. mem' = mem /\ region' = R /\ cursor' = cursor /\ set.region = R /\ set.mem = mem
  BY <1>1 DEF Becomes
<1> HIDE DEF set, R
<1>3. Text(set) \in [WindowPlaces(R) -> {Blank, Ink}]
  BY <1>1, <1>2, TextTyped DEF Ready
<1>4. Text(set) = [p \in (0 .. region'.w - 1) \X (0 .. region'.h - 1) |->
                     mem'[Cell(region'.x + p[1], region'.y + p[2])]]
  BY <1>2 DEF Text, At, WindowPlaces
<1> DEFINE shape == [w |-> R.w, h |-> R.h]
<1>5. T!Positions(shape) = WindowPlaces(R)
  BY DEF T!Positions, WindowPlaces
<1>6. /\ [p \in (0 .. region'.w - 1) \X (0 .. region'.h - 1) |->
            mem'[Cell(region'.x + p[1], region'.y + p[2])]] \in T!Texts(shape)
      /\ [w |-> region'.w, h |-> region'.h] = shape
      /\ <<cursor'.x, cursor'.y>> = <<cursor.x, cursor.y>>
  BY <1>2, <1>3, <1>4, <1>5 DEF T!Texts
<1>7. ~flushing /\ UNCHANGED T!input
  BY SameInput DEF TxtSetRegion
<1> HIDE DEF shape
<1>8. T!NewWindow(shape)
  BY <1>6, <1>7 DEF T!NewWindow
<1> QED
  BY <1>8 DEF shape, R

(* Initially the window is the full screen. *)
LEMMA TerminalInit ==
  ASSUME Init
  PROVE  T!Init
<1> DEFINE shape == [w |-> region.w, h |-> region.h]
<1>1. region = FullScreen /\ mem = [a \in Addresses |-> Blank] /\ cursor = [x |-> 0, y |-> 0]
  BY DEF Init, ScreenInit
<1>2. shape \in {[w |-> s.w, h |-> s.h] : s \in {Resolved(q) : q \in Regions} \cup {FullScreen}}
  BY <1>1
<1>3. \A p \in WindowPlaces(region) : mem[Cell(region.x + p[1], region.y + p[2])] = Blank
  <2>1. OnScreen(region)
    BY <1>1, ScreenSizes DEF OnScreen, Region, Fits, FullScreen
  <2>2. \A x \in 0 .. region.w - 1, y \in 0 .. region.h - 1 : At(region, x, y) \in Addresses
    BY <2>1, WindowCells
  <2>3. \A p \in WindowPlaces(region) : At(region, p[1], p[2]) \in Addresses
    BY <2>2 DEF WindowPlaces
  <2> QED
    BY <1>1, <2>3 DEF At
<1>4. [p \in (0 .. region.w - 1) \X (0 .. region.h - 1) |->
         mem[Cell(region.x + p[1], region.y + p[2])]] = [p \in T!Positions(shape) |-> Blank]
  BY <1>3 DEF T!Positions, WindowPlaces
<1>5. <<cursor.x, cursor.y>> = <<0, 0>>
  BY <1>1
<1>6. ansi = TRUE /\ ansi_buffer = <<>> /\ flushing = FALSE
  BY DEF Init
<1> HIDE DEF shape
<1>7. [w |-> region.w, h |-> region.h] = shape
  BY DEF shape
<1> QED
  BY <1>2, <1>4, <1>5, <1>6, <1>7 DEF T!Init

(* One promise for each call. *)
LEMMA CallsAnswered ==
  ASSUME Inv, ScreenTypes, BufferTypes
  PROVE  Answered
<1>1. Ready(Screen)
  BY ReadyScreen
<1>2. ASSUME NEW c \in Chars, Careful(c), WithinReach(c), ConWriteB(c)
      PROVE  T!Write(c)
  BY <1>1, <1>2, WriteStep
<1>3. ASSUME ConFlush
      PROVE  T!Flush
  <2>1. UNCHANGED T!window
    BY <1>3, SameScreen DEF ConFlush
  <2> QED
    BY <1>3, <2>1 DEF ConFlush, T!Flush
<1>4. ASSUME FlushChar
      PROVE  T!Spill
  <2>1. T!PutChar(Head(ansi_buffer))
    BY <1>1, <1>4, TxtPutStep DEF FlushChar
  <2> QED
    BY <1>4, <2>1 DEF FlushChar, T!Spill
<1>5. ASSUME NEW on \in BOOLEAN, ConIoctrl(on)
      PROVE  T!Switch(on)
  <2>1. UNCHANGED T!window
    BY <1>5, SameScreen DEF ConIoctrl
  <2> QED
    BY <1>5, <2>1 DEF ConIoctrl, T!Switch
<1>6. ASSUME ConOpen
      PROVE  T!Open
  <2>1. UNCHANGED T!window
    BY <1>6, SameScreen DEF ConOpen
  <2> QED
    BY <1>6, <2>1 DEF ConOpen, T!Open
<1>7. ASSUME NEW c \in RawChars, TxtPutC(c)
      PROVE  T!PrintRaw(c)
  <2>1. T!PutChar(c) /\ UNCHANGED T!input
    BY <1>1, <1>7, TxtPutStep, SameInput DEF TxtPutC
  <2> QED
    BY <1>7, <2>1 DEF TxtPutC, T!PrintRaw
<1>8. ASSUME NEW x \in Places, NEW y \in Places, Reachable(x, y), TxtSetXY(x, y)
      PROVE  T!Move(x, y)
  <2>1. x \in Int /\ y \in Int
    BY NumberAssumption DEF NumberAssumption
  <2>2. Typed(Screen) /\ OnScreen(region) /\ Screen.region = region
    BY <1>1, TerminalNow DEF Ready
  <2>3. T!Place(Text(Screen), x, y)
    BY <1>8, <2>1, <2>2, PlaceStep DEF Reachable, TxtSetXY
  <2>4. UNCHANGED T!input
    BY <1>8, SameInput DEF TxtSetXY
  <2> QED
    BY <1>8, <2>3, <2>4, TerminalNow DEF TxtSetXY, T!Move
<1>9. ASSUME NEW r \in Regions, Settable(r), TxtSetRegion(r)
      PROVE  T!NewWindow([w |-> Resolved(r).w, h |-> Resolved(r).h])
  BY <1>1, <1>9, RegionStep
<1> QED
  BY <1>2, <1>3, <1>4, <1>5, <1>6, <1>7, <1>8, <1>9 DEF Answered

LEMMA TerminalStep ==
  ASSUME Answered, [CarefulNext]_vars
  PROVE  T!Next \/ UNCHANGED T!vars
<1>1. ASSUME NEW c \in Chars, Careful(c), WithinReach(c), ConWriteB(c)
      PROVE  T!Next
  BY <1>1 DEF Answered, T!Next
<1>2. ASSUME ConFlush \/ FlushChar \/ ConOpen
      PROVE  T!Next
  BY <1>2 DEF Answered, T!Next
<1>3. ASSUME NEW on \in BOOLEAN, ConIoctrl(on)
      PROVE  T!Next
  BY <1>3 DEF Answered, T!Next
<1>4. ASSUME NEW r \in Regions, Settable(r), TxtSetRegion(r)
      PROVE  T!Next
  <2>1. T!NewWindow([w |-> Resolved(r).w, h |-> Resolved(r).h])
    BY <1>4 DEF Answered
  <2>2. [w |-> Resolved(r).w, h |-> Resolved(r).h] \in
          {[w |-> s.w, h |-> s.h] : s \in {Resolved(q) : q \in Regions} \cup {FullScreen}}
    OBVIOUS
  <2> QED
    BY <2>1, <2>2 DEF T!Next
<1>5. ASSUME NEW c \in RawChars, TxtPutC(c)
      PROVE  T!Next
  BY <1>5 DEF Answered, T!Next
<1>6. ASSUME NEW x \in Places, NEW y \in Places, Reachable(x, y), TxtSetXY(x, y)
      PROVE  T!Next
  BY <1>6 DEF Answered, T!Next
<1>7. ASSUME UNCHANGED vars
      PROVE  UNCHANGED T!vars
  <2>1. UNCHANGED screenVars /\ UNCHANGED consoleVars
    BY <1>7 DEF vars
  <2> QED
    BY <2>1, SameScreen, SameInput DEF T!vars
<1> QED
  BY <1>1, <1>2, <1>3, <1>4, <1>5, <1>6, <1>7 DEF CarefulNext

(* Careful programs are programs, hence the same types for them. *)
COROLLARY TypeCorrectCareful == CarefulSpec => []TypeOK
<1>1. [CarefulNext]_vars => [Next]_vars
  BY DEF CarefulNext, Next
<1>2. CarefulSpec => Spec
  BY <1>1, PTL DEF CarefulSpec, Spec
<1> QED
  BY <1>2, TypeCorrect, PTL

(* Every byte that a careful program writes does to the window what a       *)
(* terminal makes of it: text wraps at the edge of the window and scrolls   *)
(* with it, a sequence does what its letter says and shows nothing before,  *)
(* and one that nobody understands is shown to its last character; from     *)
(* outside the window, after a change of region, nothing of it is written   *)
(* over. So it is though the driver scrolls by moving blocks of the bank,   *)
(* each one byte longer than it was told, and erases through regions that   *)
(* are set and set back (con_write_b, con_flush, txt_f256_scroll, io_copy,  *)
(* txt_clear).                                                              *)
THEOREM TerminalImplemented == CarefulSpec => ImplementsTerminal
<1> DEFINE IInv == Inv /\ ScreenTypes /\ BufferTypes
<1>1. CarefulSpec => []IInv
  <2>1. Init => IInv
    <3>1. <<>> \in Seq(Chars) /\ 1 .. Len(<<>>) = {}
      OBVIOUS
    <3> QED
      BY <3>1, ScreenStarts DEF Init, BufferTypes
  <2>2. IInv /\ [CarefulNext]_vars => IInv'
    <3>1. [CarefulNext]_vars => [Next]_vars
      BY DEF CarefulNext, Next
    <3> QED
      BY <3>1, InvStep, ScreenStep, BufferStep
  <2> HIDE DEF IInv
  <2> QED
    BY <2>1, <2>2, PTL DEF CarefulSpec
<1>2. Init => T!Init
  BY TerminalInit
<1>3. IInv => [Answered]_vars
  BY CallsAnswered
<1>4. IInv /\ [CarefulNext]_vars => [T!Next]_(T!vars)
  BY CallsAnswered, TerminalStep
<1> HIDE DEF IInv
<1> QED
  BY <1>1, <1>2, <1>3, <1>4, PTL DEF CarefulSpec, ImplementsTerminal, T!Spec
=============================================================================
