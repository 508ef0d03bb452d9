---------------------------- MODULE ConsoleInput ----------------------------
(***************************************************************************)
(* Keyboard input on the F256K, from the key matrix to a program:          *)
(*   kbd_handle_irq (src/src/dev/kbd_f256k.c) samples the matrix once a    *)
(*     frame and puts a word for each key that changed into the scan code  *)
(*     ring, with the modifiers of that moment;                            *)
(*   kbd_getc (kbd_f256.c) turns words into characters, and keeps the      *)
(*     rest of an escape sequence in char_buffer;                          *)
(*   con_read_b and con_has_input (console.c) read characters, the latter  *)
(*     into key_buffer, where the former finds them.                       *)
(* The interrupt may come between any two steps of the program's calls.    *)
(* The two rings are sequences here: RingBuffer implements WordQueue, and  *)
(* fewer words wait than the queue is sure to keep.                        *)
(***************************************************************************)
EXTENDS Integers, Sequences, SequencesExt

CONSTANTS
  MatrixOrder,  \* the keys, in the order a scan of the matrix meets them
  Modifier,     \* the modifier of each key, or "NONE"
  KEY_BREAK, KEY_C,
  Layout,       \* for each table, the character code of each key, 0 for none
  AnsiKeys,     \* the escape sequences of the character codes from 128 up
  MaxAhead      \* bound: how many words the typist gets ahead of the program

Keys == {MatrixOrder[i] : i \in DOMAIN MatrixOrder}
Modifiers == {"CAPS", "SHIFT", "CTRL", "ALT", "OS"}
Tables == {"unmodified", "alt", "control", "control_shift", "caps", "caps_shift", "shift"}
Chars == 1 .. 255
Scans == [key : Keys, mods : SUBSET Modifiers, press : BOOLEAN]

(* A key has one place in the matrix; SHIFT has two keys, CTRL one.        *)
ASSUME KeyAssumption ==
  /\ MatrixOrder \in Seq(Keys)
  /\ \A i, j \in DOMAIN MatrixOrder : MatrixOrder[i] = MatrixOrder[j] => i = j
  /\ \A j, k \in Keys : Modifier[j] = "CTRL" /\ Modifier[k] = "CTRL" => j = k
  /\ Modifier \in [Keys -> Modifiers \cup {"NONE"}]
  /\ Layout \in [Tables -> [Keys -> Chars \cup {0}]]
  /\ DOMAIN AnsiKeys \subseteq 128 .. 152
  /\ \A c \in DOMAIN AnsiKeys : AnsiKeys[c] \in Seq(Chars) /\ AnsiKeys[c] # <<>>
  /\ MaxAhead \in Nat

VARIABLES
  kbd_stat,          \* the keys that are down, as of the last scan
  modifiers,
  break_pressed,
  scan_code_buffer,  \* the words of the scan code ring
  char_buffer,       \* the characters of the character ring
  key_buffer,        \* the console's peeked character, or 0
  calling,           \* the call the program is in, or "none"
  scanning,          \* that call is in the scan code loop of kbd_getc
  delivered,         \* the character con_read_b returned, 0 before it has
  readable,          \* con_has_input answered yes
  broken             \* the flag that kbd_break has read, until it returns

kbd == <<kbd_stat, modifiers, break_pressed>>
answers == <<delivered, readable, broken>>
vars == <<kbd, scan_code_buffer, char_buffer, key_buffer, calling, scanning, answers>>

Init ==
  /\ kbd_stat = {}
  /\ modifiers = {}
  /\ break_pressed = FALSE
  /\ scan_code_buffer = <<>>
  /\ char_buffer = <<>>
  /\ key_buffer = 0
  /\ calling = "none"
  /\ scanning = FALSE
  /\ delivered = 0
  /\ readable = FALSE
  /\ broken = FALSE

-----------------------------------------------------------------------------
(* The interrupt handler. *)

(* Mutant of ModifiersAfter: the release of a modifier is not seen. *)
ModifiersNeverReleased(mods, key, press) ==
  IF press /\ Modifier[key] # "NONE" THEN mods \cup {Modifier[key]} ELSE mods

(* The modifiers after key changes: CAPS flips, the others follow the key. *)
ModifiersAfter(mods, key, press) ==
  CASE Modifier[key] = "NONE" -> mods
    [] Modifier[key] = "CAPS" -> IF ~press THEN mods
                                 ELSE IF "CAPS" \in mods THEN mods \ {"CAPS"}
                                 ELSE mods \cup {"CAPS"}
    [] OTHER -> IF press THEN mods \cup {Modifier[key]} ELSE mods \ {Modifier[key]}

(* Key k changed: what kbd_process_key makes of the modifiers, the break   *)
(* flag and the words to queue.                                            *)
ProcessKey(now, state, key) ==
  LET press == key \in now
      mods == ModifiersAfter(state.mods, key, press)
  IN [mods |-> mods,
      brk |-> \/ state.brk
              \/ press /\ key = KEY_BREAK
              \/ press /\ key = KEY_C /\ "CTRL" \in mods,
      words |-> Append(state.words, [key |-> key, mods |-> mods, press |-> press])]

(* The scan that finds the keys in now pressed: what the modifiers, the    *)
(* break flag and the words are after the first i keys of the matrix.      *)
Scanned(now) ==
  LET state[i \in 0 .. Len(MatrixOrder)] ==
        IF i = 0 THEN [mods |-> modifiers, brk |-> break_pressed, words |-> <<>>]
        ELSE IF MatrixOrder[i] \in now <=> MatrixOrder[i] \in kbd_stat THEN state[i - 1]
        ELSE ProcessKey(now, state[i - 1], MatrixOrder[i])
  IN state
ScanMatrix(now) == Scanned(now)[Len(MatrixOrder)]

KbdHandleIrq(now) ==
  LET scan == ScanMatrix(now) IN
  /\ Len(scan_code_buffer) + Len(scan.words) <= MaxAhead
  /\ kbd_stat' = now
  /\ modifiers' = scan.mods
  /\ break_pressed' = scan.brk
  /\ scan_code_buffer' = scan_code_buffer \o scan.words
  /\ UNCHANGED <<char_buffer, key_buffer, calling, scanning, answers>>

-----------------------------------------------------------------------------
(* From words to characters. *)

Table(mods) ==
  CASE mods \cap {"ALT", "SHIFT", "CTRL", "CAPS"} = {} -> "unmodified"
    [] "ALT" \in mods -> "alt"
    [] "ALT" \notin mods /\ "CTRL" \in mods ->
         IF "SHIFT" \in mods THEN "control_shift" ELSE "control"
    [] mods \cap {"ALT", "CTRL"} = {} /\ "CAPS" \in mods ->
         IF "SHIFT" \in mods THEN "caps_shift" ELSE "caps"
    [] mods \cap {"ALT", "CTRL", "CAPS"} = {} /\ "SHIFT" \in mods -> "shift"

Zero == 48
ESC == 27

(* The decimal digits of the modifier number of an escape sequence. *)
ModifierDigits(mods) ==
  LET bit(m, n) == IF m \in mods THEN n ELSE 0
      number == 1 + bit("SHIFT", 1) + bit("CTRL", 2) + bit("ALT", 4) + bit("OS", 8)
  IN CASE number = 1 -> <<>>
       [] number \in 2 .. 9 -> <<Zero + number>>
       [] OTHER -> <<Zero + number \div 10, Zero + (number % 10)>>

(* Mutant of ToAnsi: the sequence is copied with its final NUL. *)
ToAnsiWithNul(mods, c) ==
  IF c \in DOMAIN AnsiKeys THEN <<91>> \o AnsiKeys[c] \o <<0>> ELSE <<>>

(* What kbd_to_ansi puts into char_buffer beside the character it returns. *)
ToAnsi(mods, c) ==
  IF c \in DOMAIN AnsiKeys
    THEN LET digits == ModifierDigits(mods)
             semicolon == IF digits = <<>> THEN <<>> ELSE <<59>>
         IN IF Head(AnsiKeys[c]) \in Zero .. Zero + 9
              THEN <<91>> \o AnsiKeys[c] \o semicolon \o digits \o <<126>>
              ELSE <<91>> \o digits \o <<Head(AnsiKeys[c])>>
    ELSE IF c = ESC THEN <<ESC>> ELSE <<>>

(* The character code of a word; the character that kbd_to_ansi returns    *)
(* for it; and all the characters that come of it.                         *)
Code(scan) == Layout[Table(scan.mods)][scan.key]
FirstChar(scan) == IF Code(scan) \in DOMAIN AnsiKeys THEN ESC ELSE Code(scan)
Expansion(scan) ==
  IF ~scan.press \/ Code(scan) = 0 THEN <<>>
  ELSE <<FirstChar(scan)>> \o ToAnsi(scan.mods, Code(scan))

-----------------------------------------------------------------------------
(* The program. *)

(* con_read_b, con_has_input or kbd_break is called. *)
Call(call) ==
  /\ calling = "none"
  /\ calling' = call
  /\ delivered' = 0
  /\ readable' = FALSE
  /\ UNCHANGED <<kbd, scan_code_buffer, char_buffer, key_buffer, scanning, broken>>

(* con_open empties the console's buffer. *)
ConOpen ==
  /\ calling = "none"
  /\ key_buffer' = 0
  /\ UNCHANGED <<kbd, scan_code_buffer, char_buffer, calling, scanning, answers>>

(* A character was peeked before: no need for the keyboard. *)
ConPeeked ==
  /\ calling \in {"read", "status"}
  /\ key_buffer # 0
  /\ IF calling = "read"
       THEN delivered' = key_buffer /\ key_buffer' = 0 /\ UNCHANGED readable
       ELSE readable' = TRUE /\ UNCHANGED <<key_buffer, delivered>>
  /\ calling' = "none"
  /\ UNCHANGED <<kbd, scan_code_buffer, char_buffer, scanning, broken>>

(* Mutant of GetcReturns: the status does not keep the character. *)
GetcReturnsUnkept(c) ==
  /\ IF calling = "read"
       THEN /\ calling' = IF c = 0 THEN "read" ELSE "none"
            /\ delivered' = IF c = 0 THEN delivered ELSE c
            /\ UNCHANGED <<key_buffer, readable>>
       ELSE /\ calling' = "none"
            /\ readable' = (c # 0)
            /\ UNCHANGED <<key_buffer, delivered>>
  /\ scanning' = FALSE

(* kbd_getc returns c: con_read_b tries again on 0, con_has_input answers, *)
(* and keeps the character.                                                *)
GetcReturns(c) ==
  /\ IF calling = "read"
       THEN /\ calling' = IF c = 0 THEN "read" ELSE "none"
            /\ delivered' = IF c = 0 THEN delivered ELSE c
            /\ UNCHANGED <<key_buffer, readable>>
       ELSE /\ calling' = "none"
            /\ readable' = (c # 0)
            /\ key_buffer' = c
            /\ UNCHANGED delivered
  /\ scanning' = FALSE

(* Mutant of Getc: the loop is entered although characters wait. *)
GetcAlwaysScans ==
  /\ calling \in {"read", "status"}
  /\ key_buffer = 0
  /\ ~scanning
  /\ scanning' = TRUE
  /\ UNCHANGED <<kbd, scan_code_buffer, char_buffer, key_buffer, calling, answers>>

(* kbd_getc is called: it takes a waiting character, or enters its loop. *)
Getc ==
  /\ calling \in {"read", "status"}
  /\ key_buffer = 0
  /\ ~scanning
  /\ IF char_buffer # <<>>
       THEN GetcReturns(Head(char_buffer)) /\ char_buffer' = Tail(char_buffer)
       ELSE scanning' = TRUE /\ UNCHANGED <<char_buffer, key_buffer, calling, delivered, readable>>
  /\ UNCHANGED <<kbd, scan_code_buffer, broken>>

(* Mutant of GetcScan: presses without a character are skipped, too. *)
GetcScanSkipsAll ==
  /\ scanning
  /\ IF scan_code_buffer = <<>>
       THEN GetcReturns(0) /\ UNCHANGED <<scan_code_buffer, char_buffer>>
       ELSE LET scan == Head(scan_code_buffer) IN
            /\ scan_code_buffer' = Tail(scan_code_buffer)
            /\ IF Expansion(scan) # <<>>
                 THEN /\ GetcReturns(FirstChar(scan))
                      /\ char_buffer' = char_buffer \o ToAnsi(scan.mods, Code(scan))
                 ELSE UNCHANGED <<char_buffer, key_buffer, calling, scanning, delivered, readable>>
  /\ UNCHANGED <<kbd, broken>>

(* Mutant of GetcScan: a word without a character is not removed. *)
GetcScanKeepsWord ==
  /\ scanning
  /\ IF scan_code_buffer = <<>>
       THEN GetcReturns(0) /\ UNCHANGED <<scan_code_buffer, char_buffer>>
       ELSE LET scan == Head(scan_code_buffer) IN
            /\ scan.press
            /\ GetcReturns(FirstChar(scan))
            /\ IF Code(scan) = 0
                 THEN UNCHANGED <<scan_code_buffer, char_buffer>>
                 ELSE /\ scan_code_buffer' = Tail(scan_code_buffer)
                      /\ char_buffer' = char_buffer \o ToAnsi(scan.mods, Code(scan))
  /\ UNCHANGED <<kbd, broken>>

(* The loop of kbd_getc: a word is fetched; releases are skipped, and the  *)
(* first press ends the loop, even if there is no character for it.        *)
GetcScan ==
  /\ scanning
  /\ IF scan_code_buffer = <<>>
       THEN GetcReturns(0) /\ UNCHANGED <<scan_code_buffer, char_buffer>>
       ELSE LET scan == Head(scan_code_buffer) IN
            /\ scan_code_buffer' = Tail(scan_code_buffer)
            /\ IF scan.press
                 THEN /\ GetcReturns(FirstChar(scan))
                      /\ char_buffer' = char_buffer \o ToAnsi(scan.mods, Code(scan))
                 ELSE UNCHANGED <<char_buffer, key_buffer, calling, scanning, delivered, readable>>
  /\ UNCHANGED <<kbd, broken>>

(* kbd_break reads the flag, then clears it. *)
BreakRead ==
  /\ calling = "break"
  /\ broken' = break_pressed
  /\ calling' = "break_clear"
  /\ UNCHANGED <<kbd, scan_code_buffer, char_buffer, key_buffer, scanning, delivered, readable>>

BreakClear ==
  /\ calling = "break_clear"
  /\ break_pressed' = FALSE
  /\ broken' = FALSE
  /\ calling' = "none"
  /\ UNCHANGED <<kbd_stat, modifiers, scan_code_buffer, char_buffer, key_buffer, scanning,
                 delivered, readable>>

(* The steps of a call that has begun. *)
Proceed == ConPeeked \/ Getc \/ GetcScan \/ BreakRead \/ BreakClear

Next ==
  \/ \E now \in SUBSET Keys : KbdHandleIrq(now)
  \/ \E call \in {"read", "status", "break"} : Call(call)
  \/ ConOpen
  \/ Proceed

(* The interrupt handler runs once a frame, so a call that has begun goes  *)
(* on; nothing makes the typist type or the program call.                  *)
Spec == Init /\ [][Next]_vars /\ WF_vars(Proceed)

-----------------------------------------------------------------------------
(* Every variable stays within its range. *)
TypeOK ==
  /\ kbd_stat \subseteq Keys
  /\ modifiers \subseteq Modifiers
  /\ break_pressed \in BOOLEAN
  /\ scan_code_buffer \in Seq(Scans) /\ Len(scan_code_buffer) <= MaxAhead
  /\ char_buffer \in Seq(Chars)
  /\ key_buffer \in Chars \cup {0}
  /\ calling \in {"none", "read", "status", "break", "break_clear"}
  /\ scanning \in BOOLEAN
  /\ delivered \in Chars \cup {0}
  /\ readable \in BOOLEAN
  /\ broken \in BOOLEAN

(* No modifier sticks: one that is set, CAPS aside, has a key that is      *)
(* down, whatever changes one scan of the matrix finds together; and CTRL, *)
(* which has one key only, is set exactly while its key is down.           *)
NoStuckModifier ==
  /\ \A m \in modifiers \ {"CAPS"} : \E key \in kbd_stat : Modifier[key] = m
  /\ "CTRL" \in modifiers <=> \E key \in kbd_stat : Modifier[key] = "CTRL"

(* char_buffer never holds more than the rest of one key's sequence: a new *)
(* sequence is started only when the last one has been read, so the ring   *)
(* of 128 never fills up.                                                  *)
OneSequence ==
  char_buffer = <<>> \/
    \E mods \in SUBSET Modifiers, c \in DOMAIN AnsiKeys \cup {ESC} :
      IsSuffix(char_buffer, ToAnsi(mods, c))

(* The characters on their way to the program, oldest first: the peeked    *)
(* one, those of a sequence begun, those of the words that wait.           *)
Waiting ==
  LET expansions == [i \in DOMAIN scan_code_buffer |-> Expansion(scan_code_buffer[i])]
  IN (IF key_buffer = 0 THEN <<>> ELSE <<key_buffer>>)
     \o char_buffer \o FlattenSeq(expansions)

(* Whatever the interleaving of interrupts, peeks and reads, characters    *)
(* are delivered once, in the order of the key presses, with no sequence   *)
(* torn apart; and a status that says so means that a character is there.  *)
Promise == INSTANCE TypeAhead WITH keys <- kbd_stat, pending <- Waiting
ImplementsTypeAhead == Promise!Spec

(* A read returns once characters wait, however many words without a       *)
(* character come first; a status returns, whatever the typist does        *)
(* meanwhile: its loop over words without a character cannot be kept going *)
(* by new ones.                                                            *)
CallsReturn ==
  /\ calling = "read" /\ Waiting # <<>> ~> calling = "none"
  /\ calling = "status" ~> calling = "none"
=============================================================================
