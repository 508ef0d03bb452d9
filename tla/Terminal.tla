------------------------------ MODULE Terminal ------------------------------
(***************************************************************************)
(* What the console promises to show: a window of characters, a cursor, and *)
(* what every character that is written does to them. Text that runs over   *)
(* the right edge goes on in the next line, and text that runs over the     *)
(* bottom scrolls the window. A sequence that is not complete shows         *)
(* nothing; the letter that completes it has it carried out, or shown       *)
(* character by character if nobody understands it.                         *)
(***************************************************************************)
EXTENDS Integers, Sequences, FiniteSetsExt

CONSTANTS
  Chars,         \* the characters that are written to the console
  RawChars,      \* the characters that are printed past it
  Places,        \* the coordinates that the cursor is sent to
  Letters,       \* the characters that complete a sequence
  Arguments(_),  \* the numbers in a sequence of characters, at least one
  Sizes,         \* the sizes of windows, [w |-> columns, h |-> rows], none empty
  Blank, Ink,    \* what a place can show
  TabStop        \* the distance of the tabulator stops

VARIABLES
  size,        \* of the window
  text,        \* what each position shows
  at,          \* the position of the cursor
  processing,  \* sequences are understood
  held,        \* the incomplete sequence, or what is still to be shown of one
  spilling     \* it is being shown

window == <<size, text, at>>
input == <<processing, held, spilling>>
vars == <<window, input>>

Positions(s) == (0 .. s.w - 1) \X (0 .. s.h - 1)
Texts(s) == [Positions(s) -> {Blank, Ink}]

Init ==
  /\ size \in Sizes
  /\ text = [p \in Positions(size) |-> Blank]
  /\ at = <<0, 0>>
  /\ processing = TRUE
  /\ held = <<>>
  /\ spilling = FALSE

-----------------------------------------------------------------------------
(* What a character does that is printed. *)

(* After a change of window, and only then, the cursor may be outside it.   *)
Inside == at \in Positions(size)

Scrolled(shown, lines) ==
  [p \in Positions(size) |->
    IF p[2] + lines < size.h THEN shown[p[1], p[2] + lines] ELSE Blank]

(* The cursor goes to (x, y) and shown with it, moved up if y is below the  *)
(* window; x beyond the right edge is the start of the next line.           *)
Place(shown, x, y) ==
  LET column == IF x \in 0 .. size.w - 1 THEN x ELSE 0
      row == Max({0, IF x < size.w THEN y ELSE y + 1})
      lines == Max({0, row - size.h + 1})
  IN /\ at' = <<column, row - lines>>
     /\ UNCHANGED size
     /\ text' = Scrolled(shown, lines)

(* Outside the window nothing shows, but the cursor goes on as it does      *)
(* everywhere, and so into the window.                                      *)
Show(glyph) ==
  Place(IF Inside THEN [text EXCEPT ![at] = glyph] ELSE text, at[1] + 1, at[2])

(* From outside the window it is only promised that the cursor goes into it. *)
BackSpace ==
  LET left == <<at[1] - 1, at[2]>> IN
  \/ at[1] = 0 /\ UNCHANGED window
  \/ /\ at[1] > 0 /\ Inside
     /\ text' = [text EXCEPT ![left] = Blank]
     /\ at' = left
     /\ UNCHANGED size
  \/ /\ at[1] > 0 /\ ~Inside
     /\ text' \in Texts(size)
     /\ at' \in Positions(size)
     /\ UNCHANGED size

PutChar(c) ==
  CASE c = "BS"    -> BackSpace
    [] c = "TAB"   -> Place(text, (at[1] \div TabStop + 1) * TabStop, at[2])
    [] c = "NL"    -> Place(text, 0, at[2] + 1)
    [] c = "CR"    -> UNCHANGED window
    [] c = "SPACE" -> Show(Blank)
    [] OTHER       -> Show(Ink)

-----------------------------------------------------------------------------
(* What a sequence does that is carried out. *)

Line == {p \in Positions(size) : p[2] = at[2]}
LineBefore == {p \in Line : p[1] < at[1]}
Before == {p \in Positions(size) : p[2] < at[2]} \cup LineBefore

LinePart(mode) ==
  CASE mode = 0 -> Line \ LineBefore
    [] mode = 1 -> LineBefore
    [] mode = 2 -> Line
    [] OTHER    -> {}

WindowPart(mode) ==
  CASE mode = 0 -> Positions(size) \ Before
    [] mode = 1 -> Before \cup {at}
    [] mode = 2 -> Positions(size)
    [] OTHER    -> {}

Erase(area) ==
  /\ text' = [p \in Positions(size) |-> IF p \in area THEN Blank ELSE text[p]]
  /\ UNCHANGED <<size, at>>

(* Numbers count from one, and none is one. *)
Count(n) == IF n = 0 THEN 1 ELSE n

(* What inserting ("@") and deleting ("P") show is not promised.            *)
Perform(letter, args) ==
  \/ letter = "A" /\ Place(text, at[1], at[2] - Count(args[1]))
  \/ letter = "B" /\ Place(text, at[1], at[2] + Count(args[1]))
  \/ letter = "C" /\ Place(text, at[1] + Count(args[1]), at[2])
  \/ letter = "D" /\ Place(text, at[1] - Count(args[1]), at[2])
  \/ letter = "G" /\ Place(text, Count(args[1]) - 1, at[2])
  \/ letter = "H" /\ Place(text, Count(args[1]) - 1, IF Len(args) > 1 THEN Count(args[2]) - 1 ELSE 0)
  \/ letter = "J" /\ Erase(WindowPart(args[1]))
  \/ letter = "K" /\ Erase(LinePart(args[1]))
  \/ letter = "m" /\ UNCHANGED window

-----------------------------------------------------------------------------
(* What is written, and what else is asked. *)

Understood == {"@", "A", "B", "C", "D", "G", "H", "J", "K", "P", "m"}

(* What is held once c is written: an ESC forgets what was held before.     *)
With(c) == IF c = "ESC" THEN <<c>> ELSE Append(held, c)

(* c is not part of a sequence. *)
Plain(c) == ~processing \/ With(c)[1] # "ESC"

Known(c) == With(c)[2] = "[" /\ c \in Understood

Write(c) ==
  /\ ~spilling
  /\ \/ /\ Plain(c)
        /\ PutChar(c)
        /\ UNCHANGED input
     \/ /\ ~Plain(c) /\ c \notin Letters
        /\ held' = With(c)
        /\ UNCHANGED <<window, processing, spilling>>
     \/ /\ ~Plain(c) /\ c \in Letters /\ Known(c)
        /\ Perform(c, Arguments(SubSeq(With(c), 3, Len(held))))
        /\ held' = <<>>
        /\ UNCHANGED <<processing, spilling>>
     \/ /\ ~Plain(c) /\ c \in Letters /\ ~Known(c)
        /\ held' = With(c)
        /\ spilling' = TRUE
        /\ UNCHANGED <<window, processing>>

(* What is held is shown, or forgotten where sequences are not understood.  *)
Flush ==
  /\ ~spilling
  /\ IF processing THEN spilling' = TRUE /\ UNCHANGED held
                   ELSE held' = <<>> /\ UNCHANGED spilling
  /\ UNCHANGED <<window, processing>>

Spill ==
  /\ spilling
  /\ PutChar(Head(held))
  /\ held' = Tail(held)
  /\ spilling' = (held' # <<>>)
  /\ UNCHANGED processing

Switch(on) ==
  /\ ~spilling
  /\ processing' = on
  /\ UNCHANGED <<window, held, spilling>>

Open ==
  /\ ~spilling
  /\ processing' = TRUE
  /\ held' = <<>>
  /\ UNCHANGED <<window, spilling>>

PrintRaw(c) == ~spilling /\ PutChar(c) /\ UNCHANGED input
Move(x, y) == ~spilling /\ Place(text, x, y) /\ UNCHANGED input

(* Another window shows what is there, and the cursor keeps its column and  *)
(* row, wherever in that window they are.                                   *)
NewWindow(s) ==
  /\ ~spilling
  /\ size' = s
  /\ text' \in Texts(s)
  /\ UNCHANGED <<at, input>>

Next ==
  \/ \E c \in Chars : Write(c)
  \/ Flush
  \/ Spill
  \/ \E on \in BOOLEAN : Switch(on)
  \/ Open
  \/ \E c \in RawChars : PrintRaw(c)
  \/ \E x, y \in Places : Move(x, y)
  \/ \E s \in Sizes : NewWindow(s)

Spec == Init /\ [][Next]_vars
=============================================================================
