----------------------------- MODULE TextScreen -----------------------------
(***************************************************************************)
(* The text screen of the F256 (src/src/dev/txt_f256.c) and the layer over *)
(* it (txt_screen.c): a matrix of cells in a bank of I/O memory, a region  *)
(* that output is confined to, and a cursor relative to it.                *)
(* Each operator is a call: it takes the screen and gives what the call    *)
(* makes of it. Programs call txt_set_region, txt_set_xy and txt_put       *)
(* directly; the console (ConsoleOutput) calls the others for them.        *)
(* A second matrix holds the colours and is written wherever the text is:  *)
(* it is left out, and so are font, border, resolution and mode.           *)
(***************************************************************************)
EXTENDS Integers, Sequences, SequencesExt

CONSTANTS
  Columns, Rows,   \* f256_max_size, without a border also f256_visible_size
  MatrixBase,      \* the address of tvky_text_matrix in its bank
  BankSize,        \* 2^16: addresses and counts of copies wrap there
  TabStop,         \* 8
  Regions,         \* the regions that programs set
  Blank, Ink       \* what a cell shows: a space, or any other character

Region == [x : 0 .. Columns - 1, y : 0 .. Rows - 1, w : 0 .. Columns, h : 0 .. Rows]
Fits(r) == r.x + r.w <= Columns /\ r.y + r.h <= Rows

ASSUME ScreenAssumption ==
  /\ {Columns, Rows, BankSize, TabStop} \subseteq Nat \ {0}
  /\ MatrixBase \in Nat \ {0}
  /\ MatrixBase + 2 * Columns * Rows <= BankSize
  /\ Regions \subseteq {r \in Region : Fits(r)}
  /\ Blank # Ink

VARIABLES
  mem,      \* the bank of I/O memory the text matrix is in
  region,   \* f256_region
  cursor    \* f256_cursor

screenVars == <<mem, region, cursor>>
Screen == [mem |-> mem, region |-> region, cursor |-> cursor]

Addresses == 0 .. BankSize - 1
FullScreen == [x |-> 0, y |-> 0, w |-> Columns, h |-> Rows]
Cell(x, y) == MatrixBase + y * Columns + x

Becomes(s) ==
  /\ mem' = s.mem
  /\ region' = s.region
  /\ cursor' = s.cursor

ScreenInit ==
  /\ mem = [a \in Addresses |-> Blank]
  /\ region = FullScreen
  /\ cursor = [x |-> 0, y |-> 0]

-----------------------------------------------------------------------------
(* The driver, txt_f256.c. *)

(* A region of zero size stands for the full screen. *)
Resolved(r) == IF r.w = 0 \/ r.h = 0 THEN FullScreen ELSE r
SetRegion(s, r) == [s EXCEPT !.region = Resolved(r)]

Blanked(bytes, cells) == [a \in Addresses |-> IF a \in cells THEN Blank ELSE bytes[a]]
Block(columns, rows) == {Cell(x, y) : x \in columns, y \in rows}
RegionCells(r) == Block(r.x .. r.x + r.w - 1, r.y .. r.y + r.h - 1)
FillBlank(s) == [s EXCEPT !.mem = Blanked(@, RegionCells(s.region))]

(* Mutant of MovedBytes: the count is that of the bytes moved.              *)
MovedBytesExactly(count) == count

(* MVN and MVP move one byte more than their count. *)
MovedBytes(count) == count + 1

MoveByte(bytes, dest, src) == [bytes EXCEPT ![dest % BankSize] = bytes[src % BankSize]]

(* Byte by byte, upwards or downwards, around the end of the bank: what is  *)
(* in the bank after each of the first n bytes.                             *)
Moving(bytes, n, dest, src) ==
  LET step == IF dest < src THEN 1 ELSE -1
      moving[i \in 0 .. n] ==
        IF i = 0 THEN bytes
        ELSE MoveByte(moving[i - 1], dest + step * (i - 1), src + step * (i - 1))
  IN moving

IoCopy(bytes, count, dest, src) ==
  LET n == MovedBytes(count) IN Moving(bytes, n, dest, src)[n]

ScrollSimple(s) ==
  LET count == (Rows - 1) * Columns
      moved == IoCopy(s.mem, count, MatrixBase, MatrixBase + Columns)
  IN [s EXCEPT !.mem = Blanked(moved, Block(0 .. Columns - 1, {Rows - 1}))]

(* A row of n cells beside column x0, on the side of the sign dx, is copied *)
(* from the place that is away cells further on.                            *)
CopyRow(bytes, n, x0, dx, y, away) ==
  LET start == Cell(x0, y) - dx
  IN IoCopy(bytes, n % BankSize, start % BankSize, (start + away) % BankSize)

(* What is in the bank after each of the first rows of region r.            *)
Copying(bytes, r, rows, n, x0, dx, away) ==
  LET copying[i \in 0 .. rows] ==
        IF i = 0 THEN bytes ELSE CopyRow(copying[i - 1], n, x0, dx, r.y + i - 1, away)
  IN copying

(* Scrolling left (right if horizontal is negative) and up. No call that is *)
(* modelled scrolls down, or up by more than the height of the region.      *)
ScrollComplex(s, horizontal, vertical) ==
  LET r == s.region
      dx == IF horizontal >= 0 THEN 1 ELSE -1
      x0 == IF horizontal >= 0 THEN r.x ELSE r.x + r.w - 1
      x3 == IF horizontal >= 0 THEN r.x + r.w ELSE r.x - 1
      x2 == x3 - horizontal
      rows == r.h - vertical
      away == vertical * Columns + horizontal
      copied == Copying(s.mem, r, rows, x2 - x0, x0, dx, away)[rows]
      entered == IF horizontal >= 0 THEN x2 .. x3 - 1 ELSE x3 + 1 .. x2
      bottom == r.y + r.h
  IN [s EXCEPT !.mem = Blanked(copied, Block(entered, r.y .. bottom - 1)
                         \cup Block(r.x .. r.x + r.w - 1, bottom - vertical .. bottom - 1))]

Scroll(s, horizontal, vertical) ==
  IF horizontal = 0 /\ vertical = 1 /\ s.region = FullScreen
  THEN ScrollSimple(s)
  ELSE ScrollComplex(s, horizontal, vertical)

(* The row that (x, y) means: the next one if x is beyond the right edge.   *)
WrappedRow(s, x, y) == IF x >= s.region.w THEN y + 1 ELSE y

(* Mutant of LinesBelow: the window scrolls one line too late.              *)
LinesBelowLate(s, row) == IF row > s.region.h THEN row - s.region.h ELSE 0

(* How far the region scrolls up for row to be in it. *)
LinesBelow(s, row) == IF row >= s.region.h THEN row - s.region.h + 1 ELSE 0

SetXY(s, x, y) ==
  LET row == WrappedRow(s, x, y)
      lines == LinesBelow(s, row)
      shown == IF lines > 0 THEN Scroll(s, 0, lines) ELSE s
  IN [shown EXCEPT !.cursor = [x |-> IF x < 0 \/ x >= s.region.w THEN 0 ELSE x,
                               y |-> IF row < 0 THEN 0 ELSE row - lines]]

(* txt_f256_scroll is right up to here.                                     *)
InReach(s, x, y) == LinesBelow(s, WrappedRow(s, x, y)) <= s.region.h

Put(s, glyph) ==
  LET a == Cell(s.region.x + s.cursor.x, s.region.y + s.cursor.y)
  IN SetXY([s EXCEPT !.mem[a] = glyph], s.cursor.x + 1, s.cursor.y)

-----------------------------------------------------------------------------
(* The uniform layer, txt_screen.c. *)

Glyph(c) == IF c = "SPACE" THEN Blank ELSE Ink

TxtPut(s, c) ==
  LET x == s.cursor.x
      y == s.cursor.y
  IN CASE c = "BS"  -> IF x > 0 THEN SetXY(Put(SetXY(s, x - 1, y), Blank), x - 1, y) ELSE s
       [] c = "TAB" -> SetXY(s, (x \div TabStop + 1) * TabStop, y)
       [] c = "NL"  -> SetXY(s, 0, y + 1)
       [] c = "CR"  -> s
       [] OTHER     -> Put(s, Glyph(c))

(* Blank columns x to x + w - 1 of rows y to y + h - 1 of the region, by    *)
(* way of a region of that size, and go back to the region.                 *)
ClearPart(s, x, y, w, h) ==
  LET part == [x |-> s.region.x + x, y |-> s.region.y + y, w |-> w, h |-> h]
  IN SetRegion(FillBlank(SetRegion(s, part)), s.region)

Clear(s, mode) ==
  LET x == s.cursor.x
      y == s.cursor.y
      r == s.region
  IN CASE mode = 0 -> ClearPart(ClearPart(s, x, y, r.w - x, 1), 0, y + 1, r.w, r.h - y - 1)
       [] mode = 1 -> ClearPart(ClearPart(s, 0, 0, r.w, y), 0, y, x + 1, 1)
       [] mode = 2 -> FillBlank(s)
       [] OTHER -> s

ClearLine(s, mode) ==
  LET x == s.cursor.x
      y == s.cursor.y
      w == s.region.w
  IN CASE mode = 0 -> ClearPart(s, x, y, w - x, 1)
       [] mode = 1 -> ClearPart(s, 0, y, x, 1)
       [] mode = 2 -> ClearPart(s, 0, y, w, 1)
       [] OTHER -> s

(* Scroll what is from the cursor to the end of its line.                   *)
ScrollRest(s, horizontal) ==
  LET rest == [x |-> s.region.x + s.cursor.x, y |-> s.region.y + s.cursor.y,
               w |-> s.region.w - s.cursor.x, h |-> 1]
  IN SetRegion(Scroll(SetRegion(s, rest), horizontal, 0), s.region)

Insert(s, count) == IF count > 0 THEN ScrollRest(s, -count) ELSE s

Delete(s, count) ==
  LET clamped == IF count > s.cursor.x THEN s.cursor.x ELSE count
  IN IF count > 0 THEN ScrollRest(s, clamped) ELSE s
=============================================================================
