----------------------------- MODULE Cartridge ------------------------------
(***************************************************************************)
(* The cartridge calls of src/src/cartridge.c: identification, erase and   *)
(* writing, with the chip.  The calls do not ask the chip whether it has   *)
(* finished: they wait a number of jiffies, and the counter is read byte   *)
(* by byte.  A chip that is busy ignores commands.                         *)
(*                                                                         *)
(* Addresses count from the base of the cartridge.  The three writes that  *)
(* make a command, and the write of the byte behind it, are one step: a    *)
(* chip that ends its work between them ignores the rest.                  *)
(***************************************************************************)
EXTENDS Timers, Sequences

CONSTANTS
  Size,                     \* bytes of the cartridge
  Bits,                     \* a byte is the set of its bits that are set
  Probe,                    \* the last value cart_rw_match tries
  EraseWait, WriteWait,     \* jiffies the calls wait: 30 and 3
  EraseTicks, WriteTicks,   \* ticks that the chip may see while it is busy
  MaxCount,                 \* bytes a program copies in one call
  StartMax,                 \* bound on the counter when a call begins
  Late,                     \* bound on how late a call sees that its wait is over
  None                      \* no request

CART_ID_UNDEF == -2
CART_ID_NONE == -1
CART_ID_RAM == 0
CART_ID_FLASH == 1

Cells == 0 .. Size - 1
Last == Size - 1    \* cart_end_address
Byte == SUBSET Bits

(* What the chip is asked for; a byte to copy comes from the cartridge.    *)
Requests ==
  [kind : {"erase"}]
    \cup [kind : {"write"}, to : Cells, value : Byte]
    \cup [kind : {"copy"}, to : Cells, from : Cells]

ASSUME CartridgeAssumption ==
  /\ Size \in Nat /\ Size > 0
  /\ Probe \in Byte
  /\ EraseTicks \in Nat /\ WriteTicks \in Nat
  /\ EraseWait \in Nat /\ WriteWait \in Nat
  /\ EraseWait > EraseTicks /\ WriteWait > WriteTicks
  /\ MaxCount \in Nat /\ StartMax \in Nat /\ Late \in Nat
  /\ None \notin Requests

VARIABLES
  slot,            \* what has been in the slot since the machine was switched on
  content,         \* what the cartridge holds
  chip,            \* the request the chip is busy with, and for how many ticks
  cart_id_memo,
  stage,           \* where the call under way is
  todo,            \* requests that the call has not sent yet
  delay,           \* the jiffies to wait for the one it has sent
  target_jiffies,
  torn             \* history: the counter carried in the middle of a reading

call == <<stage, todo, delay, target_jiffies>>
vars == <<slot, content, chip, cart_id_memo, call, torn, jiffies, reading>>

Idle == [request |-> None, ticks |-> 0]
Busy == chip.request # None

Init ==
  /\ slot \in {CART_ID_NONE, CART_ID_RAM, CART_ID_FLASH}
  /\ content \in [Cells -> Byte]
  /\ chip = Idle
  /\ cart_id_memo = CART_ID_UNDEF
  /\ stage = "none" /\ todo = <<>> /\ delay = 0 /\ target_jiffies = 0
  /\ torn = FALSE
  /\ TimersInit

-----------------------------------------------------------------------------
(* The calls. *)

(* cart_id: found out once.  RAM is recognised by writing to its first     *)
(* byte; a flash chip, idle so far, ignores that and answers a command.    *)
CartId ==
  /\ cart_id_memo' = slot
  /\ content' = IF cart_id_memo = CART_ID_UNDEF /\ slot = CART_ID_RAM
                  THEN [content EXCEPT ![0] = Probe] ELSE content

(* A call that has these requests for the chip, if there is one.           *)
Call(requests) ==
  /\ stage = "none"
  /\ jiffies <= StartMax
  /\ CartId
  /\ IF slot = CART_ID_FLASH /\ requests # <<>>
       THEN stage' = "command" /\ todo' = requests /\ torn' = (torn /\ Busy)
       ELSE UNCHANGED <<stage, todo, torn>>
  /\ UNCHANGED <<slot, chip, delay, target_jiffies, jiffies, reading>>

Erase == [kind |-> "erase"]
Write(address, value) == [kind |-> "write", to |-> address, value |-> value]
Copy(to, from) == [kind |-> "copy", to |-> to, from |-> from]

CartErase == Call(<<Erase>>)

CartWriteB(address, value) ==
  Call(IF address \in Cells THEN <<Write(address, value)>> ELSE <<>>)

(* Mutant of InCartridge: the end of the block is not looked at. *)
InCartridgeStart(src, count) == 0 <= src /\ Last >= src

(* The test is made for the source, so that nothing is written from the    *)
(* memory of the machine.                                                  *)
InCartridge(src, count) == 0 <= src /\ Last >= src + count

CartWrite(dest, src, count) ==
  Call(IF InCartridge(src, count)
         THEN [x \in 1 .. count |-> Copy(dest + x - 1, src + x - 1)] ELSE <<>>)

(* Mutant of DelayOf: the wait of a byte for all. *)
DelayOfByte(request) == WriteWait

DelayOf(request) == IF request.kind = "erase" THEN EraseWait ELSE WriteWait

(* cart_flash_command, and the byte. *)
Command ==
  /\ stage = "command"
  /\ chip' = IF Busy THEN chip ELSE [request |-> Head(todo), ticks |-> 0]
  /\ todo' = Tail(todo)
  /\ delay' = DelayOf(Head(todo))
  /\ stage' = "target"
  /\ UNCHANGED <<slot, content, cart_id_memo, target_jiffies, torn, jiffies, reading>>

Read ==
  /\ stage \in {"target", "wait"}
  /\ ReadHalf
  /\ UNCHANGED <<slot, content, chip, cart_id_memo, call, torn, jiffies>>

SetTarget ==
  /\ stage = "target"
  /\ ReadRest
  /\ target_jiffies' = JiffiesRead + delay
  /\ stage' = "wait"
  /\ UNCHANGED <<slot, content, chip, cart_id_memo, todo, delay, torn, jiffies>>

(* Mutant of StillWaiting: waits for the jiffy of the target itself to end. *)
StillWaitingForTick == JiffiesRead # target_jiffies

StillWaiting == JiffiesRead < target_jiffies

(* The wait ends, and with it the loop of cart_write or the call.          *)
TestTarget ==
  /\ stage = "wait"
  /\ ReadRest
  /\ stage' = IF StillWaiting THEN "wait" ELSE IF todo = <<>> THEN "none" ELSE "command"
  /\ UNCHANGED <<slot, content, chip, cart_id_memo, todo, delay, target_jiffies, torn, jiffies>>

-----------------------------------------------------------------------------
(* The chip and the counter. *)

(* A byte that is written only loses bits. *)
Effect(request, m) ==
  CASE request.kind = "erase" -> [c \in Cells |-> Bits]
    [] request.kind = "write" -> [m EXCEPT ![request.to] = @ \cap request.value]
    [] request.kind = "copy" -> [m EXCEPT ![request.to] = @ \cap m[request.from]]

ChipDone ==
  /\ Busy
  /\ content' = Effect(chip.request, content)
  /\ chip' = Idle
  /\ UNCHANGED <<slot, cart_id_memo, call, torn, jiffies, reading>>

TicksOf(request) == IF request.kind = "erase" THEN EraseTicks ELSE WriteTicks

(* The counter ticks, which a chip sees only so often while it is busy. *)
CounterTicks ==
  /\ jiffies < IF stage = "wait" THEN target_jiffies + Late ELSE StartMax
  /\ Busy => chip.ticks < TicksOf(chip.request)
  /\ Tick
  /\ chip' = IF Busy THEN [chip EXCEPT !.ticks = @ + 1] ELSE chip
  /\ torn' = (torn \/ (HalfRead /\ Carries))
  /\ UNCHANGED <<slot, content, cart_id_memo, call>>

Programs ==
  \/ CartErase
  \/ \E address \in Cells \cup {-1, Size}, value \in Byte : CartWriteB(address, value)
  \/ \E count \in 0 .. MaxCount, src \in Cells \cup {-1} :
       \E dest \in 0 .. Size - count : CartWrite(dest, src, count)
Firmware == Command \/ Read \/ SetTarget \/ TestTarget
Hardware == ChipDone \/ CounterTicks

Next == Programs \/ Firmware \/ Hardware
Spec == Init /\ [][Next]_vars
FairSpec == Spec /\ WF_vars(Firmware) /\ WF_vars(ChipDone) /\ WF_vars(CounterTicks)

-----------------------------------------------------------------------------
(* Every variable stays within its range: no byte is read from outside the *)
(* cartridge or written there.                                             *)
TypeOK ==
  /\ slot \in {CART_ID_NONE, CART_ID_RAM, CART_ID_FLASH}
  /\ content \in [Cells -> Byte]
  /\ chip \in [request : Requests \cup {None}, ticks : Nat]
  /\ cart_id_memo \in {CART_ID_UNDEF, slot}
  /\ stage \in {"none", "command", "target", "wait"}
  /\ todo \in Seq(Requests)
  /\ delay \in Nat /\ target_jiffies \in Nat
  /\ torn \in BOOLEAN
  /\ jiffies \in Nat
  /\ reading \in [part : {"none", "low", "high"}, value : Nat]

(* What the chip has not carried out: what it is busy with, and the rest.  *)
Pending == (IF Busy THEN <<chip.request>> ELSE <<>>) \o todo

Promise == INSTANCE NorFlash WITH pending <- Pending, excused <- torn,
             content <- IF slot = CART_ID_FLASH THEN content ELSE [c \in Cells |-> {}]

(* What each call asks of a flash chip: cart_erase for an erasure, and      *)
(* cart_write_b for its byte if the address is in the cartridge.  cart_write *)
(* copies its block if that lies in the cartridge with the byte behind it;   *)
(* it writes nothing at all from "regular memory", where its comment places  *)
(* the source, nor when the block ends with the last byte of the cartridge.  *)
Asks(requests) ==
  IF slot = CART_ID_FLASH /\ requests # <<>>
    THEN Promise!AskFor(requests) ELSE UNCHANGED Promise!vars

CallsAsk ==
  /\ CartErase => Asks(<<Erase>>)
  /\ \A address \in Cells \cup {-1, Size}, value \in Byte :
       CartWriteB(address, value) =>
         Asks(IF address \in Cells THEN <<Write(address, value)>> ELSE <<>>)
  /\ \A count \in 0 .. MaxCount, src \in Cells \cup {-1} : \A dest \in 0 .. Size - count :
       CartWrite(dest, src, count) =>
         Asks(IF src .. src + count \subseteq Cells
                THEN [x \in 1 .. count |-> Copy(dest + x - 1, src + x - 1)] ELSE <<>>)

(* What a call asks for arrives, whole, in order and before the call        *)
(* returns; it is lost only when the counter carried in the middle of a     *)
(* reading, which can end a wait while the chip is still busy.  And every   *)
(* call asks for what is said above, no more and no less.                   *)
ImplementsNorFlash == Promise!Spec /\ [][CallsAsk]_vars

(* Every call returns.                                                     *)
CallsReturn == stage # "none" ~> stage = "none"
=============================================================================
