---------------------------- MODULE ConsoleOutput ---------------------------
(***************************************************************************)
(* The output half of the console (src/src/dev/console.c) on the text      *)
(* screen: characters of an ANSI escape sequence are collected until a     *)
(* letter ends it; then a handler acts on the screen, or the collected     *)
(* characters are shown, one by one, when no handler knows the letter.     *)
(* A program writes bytes, flushes, switches the processing of sequences   *)
(* on and off, opens the console again, and calls the text screen directly *)
(* in between. One channel writes to the screen; nothing interrupts it     *)
(* that touches the screen. SGR only changes the colour.                   *)
(***************************************************************************)
EXTENDS TextScreen

CONSTANTS
  Chars,        \* the characters that programs write to the console
  RawChars,     \* and those that they pass to txt_put
  Places,       \* the coordinates that programs pass to txt_set_xy
  MaxSequence,  \* bound: the characters of a sequence before its letter
  MaxArgument   \* bound: the largest argument of a sequence, which is a short

Digits == <<"0", "1", "2", "3", "4", "5", "6", "7", "8", "9">>
Letters == {"@", "A", "B", "C", "D", "G", "H", "J", "K", "P", "m", "x"}
Handled == Letters \ {"x"}   \* ansi_sequence; "x" is any other letter

ASSUME CharAssumption ==
  Chars \cup RawChars \subseteq Letters \cup {Digits[i] : i \in 1 .. 10}
       \cup {"ESC", "[", ";", "SPACE", "BS", "TAB", "NL", "CR"}

ASSUME NumberAssumption ==
  /\ Places \subseteq Int
  /\ MaxSequence \in 1 .. 11   \* no more than ansi_buffer and arg hold
  /\ MaxArgument \in 1 .. 32767

VARIABLES
  ansi,          \* CON_CTRL_ANSI
  ansi_buffer,   \* the sequence collected, or what of it con_flush has not shown
  flushing       \* con_flush is showing it

consoleVars == <<ansi, ansi_buffer, flushing>>
vars == <<screenVars, consoleVars>>

(* txt_f256_init, and the console opened by con_install. *)
Init ==
  /\ ScreenInit
  /\ ansi = TRUE
  /\ ansi_buffer = <<>>
  /\ flushing = FALSE

-----------------------------------------------------------------------------
(* The handlers of the sequences: what they make of screen s.              *)

OneAtLeast(n) == IF n = 0 THEN 1 ELSE n

Cuu(s, n) == [x |-> s.cursor.x, y |-> s.cursor.y - OneAtLeast(n)]
Cud(s, n) == [x |-> s.cursor.x, y |-> s.cursor.y + OneAtLeast(n)]
Cuf(s, n) == [x |-> s.cursor.x + OneAtLeast(n), y |-> s.cursor.y]
Cub(s, n) == [x |-> s.cursor.x - OneAtLeast(n), y |-> s.cursor.y]
Cha(s, n) == [x |-> OneAtLeast(n) - 1, y |-> s.cursor.y]
Cup(args) == [x |-> OneAtLeast(args[1]) - 1,
              y |-> IF Len(args) > 1 THEN OneAtLeast(args[2]) - 1 ELSE 0]

(* Where the sequences that move the cursor send it.                       *)
Movers == {"A", "B", "C", "D", "G", "H"}
Target(s, letter, args) ==
  CASE letter = "A" -> Cuu(s, args[1])
    [] letter = "B" -> Cud(s, args[1])
    [] letter = "C" -> Cuf(s, args[1])
    [] letter = "D" -> Cub(s, args[1])
    [] letter = "G" -> Cha(s, args[1])
    [] letter = "H" -> Cup(args)

Handle(s, letter, args) ==
  CASE letter \in Movers -> LET to == Target(s, letter, args) IN SetXY(s, to.x, to.y)
    [] letter = "J" -> Clear(s, args[1])
    [] letter = "K" -> ClearLine(s, args[1])
    [] letter = "@" -> Insert(s, args[1])
    [] letter = "P" -> Delete(s, args[1])
    [] letter = "m" -> s

(* The arguments in the characters between "ESC [" and the letter: at least *)
(* one, 0 where no digit stands; other characters are skipped.             *)
Arguments(characters) ==
  LET Value(c) == (CHOOSE i \in 1 .. 10 : Digits[i] = c) - 1
      Read(args, c) ==
        CASE c \in {Digits[i] : i \in 1 .. 10} ->
               [args EXCEPT ![Len(args)] = @ * 10 + Value(c)]
          [] c = ";" -> Append(args, 0)
          [] OTHER -> args
  IN FoldLeft(Read, <<0>>, characters)

(* The arguments of the sequence in the buffer, its letter not yet in it.  *)
Collected == Arguments(SubSeq(ansi_buffer, 3, Len(ansi_buffer)))

(* Letter c completes a sequence that a handler knows.                     *)
Completes(c) ==
  /\ ansi
  /\ ansi_buffer # <<>>
  /\ c \in Handled
  /\ Len(ansi_buffer) > 1
  /\ ansi_buffer[2] = "["

-----------------------------------------------------------------------------
(* Bytes written to the console. *)

(* c is shown, or acts as the control character it is. *)
WritePlain(c) ==
  /\ ~ansi \/ (ansi_buffer = <<>> /\ c # "ESC")
  /\ Becomes(TxtPut(Screen, c))
  /\ UNCHANGED consoleVars

(* A new sequence starts; one that was begun before is forgotten. *)
WriteEscape(c) ==
  /\ ansi
  /\ c = "ESC"
  /\ ansi_buffer' = <<c>>
  /\ UNCHANGED <<screenVars, ansi, flushing>>

Collect(c) ==
  /\ ansi
  /\ ansi_buffer # <<>>
  /\ c \notin Letters \cup {"ESC"}
  /\ Len(ansi_buffer) < MaxSequence
  /\ ansi_buffer' = Append(ansi_buffer, c)
  /\ UNCHANGED <<screenVars, ansi, flushing>>

(* Mutant of Execute: the sequence stays in the buffer. *)
ExecuteKeepsBuffer(c) ==
  /\ Completes(c)
  /\ Becomes(Handle(Screen, c, Collected))
  /\ ansi_buffer' = Append(ansi_buffer, c)
  /\ UNCHANGED <<ansi, flushing>>

Execute(c) ==
  /\ Completes(c)
  /\ Becomes(Handle(Screen, c, Collected))
  /\ ansi_buffer' = <<>>
  /\ UNCHANGED <<ansi, flushing>>

(* No handler knows the sequence: con_flush shows it. *)
Dump(c) ==
  /\ ansi
  /\ ansi_buffer # <<>>
  /\ c \in Letters
  /\ ~Completes(c)
  /\ ansi_buffer' = Append(ansi_buffer, c)
  /\ flushing' = TRUE
  /\ UNCHANGED <<screenVars, ansi>>

ConWriteB(c) ==
  /\ ~flushing
  /\ WritePlain(c) \/ WriteEscape(c) \/ Collect(c) \/ Execute(c) \/ Dump(c)

-----------------------------------------------------------------------------
(* The other calls. *)

ConFlush ==
  /\ ~flushing
  /\ ansi_buffer # <<>>
  /\ IF ansi THEN flushing' = TRUE /\ UNCHANGED ansi_buffer
             ELSE ansi_buffer' = <<>> /\ UNCHANGED flushing
  /\ UNCHANGED <<screenVars, ansi>>

(* One turn of the loop of con_flush. *)
FlushChar ==
  /\ flushing
  /\ Becomes(TxtPut(Screen, Head(ansi_buffer)))
  /\ ansi_buffer' = Tail(ansi_buffer)
  /\ flushing' = (ansi_buffer' # <<>>)
  /\ UNCHANGED ansi

ConIoctrl(on) ==
  /\ ~flushing
  /\ ansi' = on
  /\ UNCHANGED <<screenVars, ansi_buffer, flushing>>

ConOpen ==
  /\ ~flushing
  /\ ansi' = TRUE
  /\ ansi_buffer' = <<>>
  /\ UNCHANGED <<screenVars, flushing>>

(* The cursor stays where it was, and may be outside the region now.        *)
TxtSetRegion(r) ==
  /\ ~flushing
  /\ Becomes(SetRegion(Screen, r))
  /\ UNCHANGED consoleVars

TxtPutC(c) ==
  /\ ~flushing
  /\ Becomes(TxtPut(Screen, c))
  /\ UNCHANGED consoleVars

TxtSetXY(x, y) ==
  /\ ~flushing
  /\ Becomes(SetXY(Screen, x, y))
  /\ UNCHANGED consoleVars

-----------------------------------------------------------------------------
Reachable(x, y) == InReach(Screen, x, y)

(* From the cursor the next line can be reached in region r too.            *)
Settable(r) == InReach(SetRegion(Screen, r), 0, cursor.y + 1)

(* The arguments are within their bound, and the program does not send the *)
(* cursor more than a height below the region.                             *)
WithinReach(c) ==
  Completes(c) =>
    /\ Collected \in Seq(0 .. MaxArgument) \ {<<>>}
    /\ c \in Movers =>
         LET to == Target(Screen, c, Collected) IN Reachable(to.x, to.y)

Next ==
  \/ \E c \in Chars : WithinReach(c) /\ ConWriteB(c)
  \/ ConFlush
  \/ FlushChar
  \/ \E on \in BOOLEAN : ConIoctrl(on)
  \/ ConOpen
  \/ \E r \in Regions : Settable(r) /\ TxtSetRegion(r)
  \/ \E c \in RawChars : TxtPutC(c)
  \/ \E x, y \in Places : Reachable(x, y) /\ TxtSetXY(x, y)

Spec == Init /\ [][Next]_vars

Inside ==
  /\ cursor.x \in 0 .. region.w - 1
  /\ cursor.y \in 0 .. region.h - 1

(* A program is careful if it erases parts of the window only with the      *)
(* cursor in it, and where the part, and what the call takes in besides, is  *)
(* not empty, and neither inserts nor deletes characters: an empty part, set *)
(* as the region, stands for the whole screen.                              *)
Careful(c) ==
  Completes(c) =>
    /\ c \notin {"@", "P"}
    /\ c = "J" /\ Collected[1] \in {0, 1} => Inside
    /\ c = "J" /\ Collected[1] = 0 => cursor.y < region.h - 1
    /\ c = "J" /\ Collected[1] = 1 => cursor.y > 0
    /\ c = "K" => Inside
    /\ c = "K" /\ Collected[1] = 1 => cursor.x > 0

CarefulNext ==
  \/ \E c \in Chars : Careful(c) /\ WithinReach(c) /\ ConWriteB(c)
  \/ ConFlush
  \/ FlushChar
  \/ \E on \in BOOLEAN : ConIoctrl(on)
  \/ ConOpen
  \/ \E r \in Regions : Settable(r) /\ TxtSetRegion(r)
  \/ \E c \in RawChars : TxtPutC(c)
  \/ \E x, y \in Places : Reachable(x, y) /\ TxtSetXY(x, y)

CarefulSpec == Init /\ [][CarefulNext]_vars

-----------------------------------------------------------------------------
(* Types: the bank holds characters, the region is on the screen, and the  *)
(* buffer is empty or starts with ESC, with a letter only while it is shown. *)
TypeOK ==
  /\ mem \in [Addresses -> {Blank, Ink}]
  /\ region \in Region /\ Fits(region) /\ region.w > 0 /\ region.h > 0
  /\ cursor \in [x : 0 .. Columns - 1, y : 0 .. Rows - 1]
  /\ ansi \in BOOLEAN
  /\ ansi_buffer \in Seq(Chars)
  /\ ansi_buffer # <<>> => flushing \/ ansi_buffer[1] = "ESC"
  /\ \A i \in 1 .. Len(ansi_buffer) : ansi_buffer[i] \in Letters => i = Len(ansi_buffer) /\ flushing
  /\ flushing \in BOOLEAN
  /\ flushing => ansi_buffer # <<>> /\ ansi

(* Only a change of region leaves the cursor outside it: whatever is        *)
(* printed, wrapped, scrolled or addressed, wherever the cursor was, a step  *)
(* that moves it takes it into the region: "If the (x, y) coordinate is      *)
(* outside the region, it will be clipped to the region" (txt_f256_set_xy).  *)
(* Otherwise txt_f256_put would go on writing over what the region keeps     *)
(* output from.                                                             *)
CursorClipped == [][cursor' # cursor => Inside']_vars

T == INSTANCE Terminal WITH
       Sizes <- {[w |-> s.w, h |-> s.h] : s \in {Resolved(r) : r \in Regions} \cup {FullScreen}},
       size <- [w |-> region.w, h |-> region.h],
       text <- [p \in (0 .. region.w - 1) \X (0 .. region.h - 1) |->
                  mem[Cell(region.x + p[1], region.y + p[2])]],
       at <- <<cursor.x, cursor.y>>,
       processing <- ansi,
       held <- ansi_buffer,
       spilling <- flushing

(* What each call of a program does is what the terminal promises of it.    *)
Answered ==
  /\ \A c \in Chars : Careful(c) /\ WithinReach(c) /\ ConWriteB(c) => T!Write(c)
  /\ ConFlush => T!Flush
  /\ FlushChar => T!Spill
  /\ \A on \in BOOLEAN : ConIoctrl(on) => T!Switch(on)
  /\ ConOpen => T!Open
  /\ \A c \in RawChars : TxtPutC(c) => T!PrintRaw(c)
  /\ \A x, y \in Places : Reachable(x, y) /\ TxtSetXY(x, y) => T!Move(x, y)
  /\ \A r \in Regions :
       Settable(r) /\ TxtSetRegion(r) => T!NewWindow([w |-> Resolved(r).w, h |-> Resolved(r).h])

(* The promise to programs, over what region and matrix show: every         *)
(* character does to the window what a terminal makes of it, through the     *)
(* regions that are set and set back and the blocks that are moved; the      *)
(* characters of a sequence do not show while it is incomplete, whatever is  *)
(* called in between; and none is lost (con_write_b, ansi_match_pattern,     *)
(* con_flush, txt_put, txt_f256_put, txt_f256_scroll, txt_clear).           *)
ImplementsTerminal == T!Spec /\ [][Answered]_vars
=============================================================================
