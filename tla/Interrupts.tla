----------------------------- MODULE Interrupts -----------------------------
(***************************************************************************)
(* The interrupt controller of the F256 and its driver,                    *)
(* src/src/dev/interrupts_f256.c: registering handlers, masking, clearing  *)
(* and the dispatcher int_handle_irq.                                      *)
(*                                                                         *)
(* A line is a bit of one of three groups.  The devices raise lines at any *)
(* time; the CPU enters the dispatcher between any two steps of the        *)
(* program, which does not run again until the dispatcher returns.  A      *)
(* register is read and written back in separate steps.  A pending bit is  *)
(* latched whether or not its line is masked, and writing a one clears it. *)
(***************************************************************************)
EXTENDS Integers

CONSTANTS
  Sources,   \* the lines that devices raise
  Numbers,   \* the interrupt numbers that the program uses
  Handlers,
  None       \* no handler, no line, no call

Groups == 0 .. 2
Lines == Groups \X (0 .. 7)

ASSUME InterruptAssumption ==
  /\ Sources \subseteq Lines
  /\ Numbers \subseteq 0 .. 47
  /\ None \notin Handlers /\ None \notin Lines

VARIABLES
  pending, masked,     \* the lines that are set in the registers
  handler,             \* int_handle_00 .. int_handle_27
  irq_enabled,         \* the CPU takes interrupts
  modifying,           \* the register the program has read and will write
  isr,                 \* where the dispatcher is: "out" when not running
  group, mask_bits,    \* its variables
  owed                 \* history: the lines raised since their handler was
                       \* last called, or passed over because there is none

cpu == <<irq_enabled, modifying>>
dispatcher == <<isr, group, mask_bits>>
vars == <<pending, masked, handler, cpu, dispatcher, owed>>

(* Mutant of IntLine: the SD card interrupt moved to IED ATN IN. *)
IntLineShifted(n) ==
  CASE n = 0  -> <<0, 0>>
    [] n = 31 -> <<1, 4>>
    [] n = 34 -> <<2, 2>>
    [] OTHER  -> None

(* g_int_group and g_int_mask: the line of each interrupt number. *)
IntLine(n) ==
  CASE n = 0  -> <<0, 0>>   \* INT_SOF_A
    [] n = 1  -> <<0, 1>>   \* INT_SOL_A
    [] n = 6  -> <<0, 7>>   \* INT_RESERVED_1, the cartridge
    [] n = 16 -> <<0, 2>>   \* INT_KBD_PS2
    [] n = 18 -> <<0, 3>>   \* INT_MOUSE
    [] n = 19 -> <<1, 0>>   \* INT_COM1
    [] n = 24 -> <<0, 4>>   \* INT_TIMER0
    [] n = 25 -> <<0, 5>>   \* INT_TIMER1
    [] n = 29 -> <<1, 5>>   \* INT_VIA0
    [] n = 30 -> <<1, 6>>   \* INT_VIA1
    [] n = 31 -> <<1, 4>>   \* INT_RTC
    [] n = 33 -> <<2, 7>>   \* INT_SDC_INS
    [] n = 34 -> <<1, 7>>   \* INT_SDC
    [] OTHER  -> None

LinesOf(g) == {line \in Lines : line[1] = g}

(* int_init, then int_enable_all in initialize(). *)
Init ==
  /\ pending = {}
  /\ masked = Lines
  /\ handler = [line \in Lines |-> None]
  /\ irq_enabled = TRUE
  /\ modifying = None
  /\ isr = "out"
  /\ group = 0
  /\ mask_bits = {}
  /\ owed = {}

-----------------------------------------------------------------------------
(* The devices. *)
Raise(line) ==
  /\ pending' = pending \cup {line}
  /\ owed' = owed \cup {line}
  /\ UNCHANGED <<masked, handler, cpu, dispatcher>>

-----------------------------------------------------------------------------
(* The program, while the dispatcher does not run. *)

ProgramRuns == isr = "out"

IntEnableAll(enable) ==
  /\ ProgramRuns /\ modifying = None
  /\ irq_enabled' = enable
  /\ UNCHANGED <<pending, masked, handler, modifying, dispatcher, owed>>

IntRegister(n, h) ==
  /\ ProgramRuns /\ modifying = None
  /\ handler' = IF IntLine(n) = None THEN handler ELSE [handler EXCEPT ![IntLine(n)] = h]
  /\ UNCHANGED <<pending, masked, cpu, dispatcher, owed>>

(* int_enable, int_disable and int_clear read a register ... *)
ModifyRead(op, n) ==
  /\ ProgramRuns /\ modifying = None
  /\ IntLine(n) # None
  /\ modifying' = [op   |-> op,
                   line |-> IntLine(n),
                   read |-> LinesOf(IntLine(n)[1]) \cap
                              (IF op = "clear" THEN pending ELSE masked)]
  /\ UNCHANGED <<pending, masked, handler, irq_enabled, dispatcher, owed>>

(* ... and write it back with the bit of the line set or cleared. *)
MaskWrite ==
  /\ ProgramRuns /\ modifying # None
  /\ modifying.op # "clear"
  /\ masked' = (masked \ LinesOf(modifying.line[1])) \cup
                 (IF modifying.op = "enable" THEN modifying.read \ {modifying.line}
                                             ELSE modifying.read \cup {modifying.line})
  /\ modifying' = None
  /\ UNCHANGED <<pending, handler, irq_enabled, dispatcher, owed>>

(* PENDING is a register in which a one clears the bit. *)
ClearWrite ==
  /\ ProgramRuns /\ modifying # None
  /\ modifying.op = "clear"
  /\ pending' = pending \ (modifying.read \cup {modifying.line})
  /\ modifying' = None
  /\ UNCHANGED <<masked, handler, irq_enabled, dispatcher, owed>>

-----------------------------------------------------------------------------
(* The dispatcher. *)

IsrEnter ==
  /\ ProgramRuns /\ irq_enabled
  /\ pending \ masked # {}
  /\ isr' = "read"
  /\ group' = 0
  /\ UNCHANGED <<pending, masked, handler, cpu, mask_bits, owed>>

(* Mutant of NextGroup: one group too many. *)
NextGroupPastLast ==
  IF group = 3 THEN isr' = "out" /\ group' = 0
               ELSE isr' = "read" /\ group' = group + 1

NextGroup ==
  IF group = 2 THEN isr' = "out" /\ group' = 0
               ELSE isr' = "read" /\ group' = group + 1

IsrRead ==
  /\ isr = "read"
  /\ mask_bits' = pending \cap LinesOf(group)
  /\ IF mask_bits' = {} THEN NextGroup ELSE isr' = "ack" /\ UNCHANGED group
  /\ UNCHANGED <<pending, masked, handler, cpu, owed>>

(* Mutant of IsrAck: the whole group is acknowledged, not what was read. *)
IsrAckAll ==
  /\ isr = "ack"
  /\ pending' = pending \ LinesOf(group)
  /\ isr' = "call"
  /\ UNCHANGED <<masked, handler, cpu, group, mask_bits, owed>>

IsrAck ==
  /\ isr = "ack"
  /\ pending' = pending \ mask_bits
  /\ isr' = "call"
  /\ UNCHANGED <<masked, handler, cpu, group, mask_bits, owed>>

(* The lines that have a branch in int_handle_irq. *)
Dispatched ==
  {line \in Lines : \/ line[1] = 0
                    \/ line[1] = 1 /\ line[2] \notin {1, 2, 3}
                    \/ line[1] = 2 /\ line[2] <= 3}

(* The handler that is tested for null before the handler of a line is     *)
(* called: that of IED SREQ IN is guarded by that of IED ATN IN.           *)
TestedFor(line) == IF line = <<2, 3>> THEN <<2, 2>> ELSE line

Calls(line) == line \in Dispatched /\ handler[TestedFor(line)] # None

(* The handlers are called in the order of their bits. *)
IsrCall(line) ==
  /\ isr = "call"
  /\ line \in mask_bits
  /\ \A other \in mask_bits : line[2] <= other[2]
  /\ mask_bits' = mask_bits \ {line}
  /\ owed' = IF Calls(line) \/ handler[line] = None THEN owed \ {line} ELSE owed
  /\ UNCHANGED <<pending, masked, handler, cpu, isr, group>>

(* Mutant of IsrGroupDone: the dispatcher goes back to the group. *)
IsrGroupAgain ==
  /\ isr = "call"
  /\ mask_bits = {}
  /\ isr' = "read"
  /\ UNCHANGED <<pending, masked, handler, cpu, group, mask_bits, owed>>

IsrGroupDone ==
  /\ isr = "call"
  /\ mask_bits = {}
  /\ NextGroup
  /\ UNCHANGED <<pending, masked, handler, cpu, mask_bits, owed>>

Dispatcher == IsrEnter \/ IsrRead \/ IsrAck \/ (\E line \in Lines : IsrCall(line)) \/ IsrGroupDone

-----------------------------------------------------------------------------
(* Everything but int_clear, which nothing in the firmware of the F256     *)
(* calls: the PS/2 and A2560K keyboard drivers do.                         *)
FirmwareNext ==
  \/ \E line \in Sources : Raise(line)
  \/ \E enable \in BOOLEAN : IntEnableAll(enable)
  \/ \E n \in Numbers, h \in Handlers \cup {None} : IntRegister(n, h)
  \/ \E op \in {"enable", "disable"}, n \in Numbers : ModifyRead(op, n)
  \/ MaskWrite
  \/ Dispatcher

(* The CPU takes an interrupt and the dispatcher goes on; the program and  *)
(* the devices do as they like.                                            *)
FirmwareSpec == Init /\ [][FirmwareNext]_vars /\ WF_vars(Dispatcher)

(* Programs may call int_clear through the system calls. *)
Next ==
  \/ FirmwareNext
  \/ \E n \in Numbers : ModifyRead("clear", n)
  \/ ClearWrite

Spec == Init /\ [][Next]_vars

-----------------------------------------------------------------------------
Modifications ==
  [op : {"enable", "disable", "clear"}, line : Lines, read : SUBSET Lines] \cup {None}

(* Every variable stays within its range; what the dispatcher has read is  *)
(* of the group it is at.                                                  *)
TypeOK ==
  /\ pending \subseteq Lines
  /\ masked \subseteq Lines
  /\ handler \in [Lines -> Handlers \cup {None}]
  /\ irq_enabled \in BOOLEAN
  /\ modifying \in Modifications
  /\ isr \in {"out", "read", "ack", "call"}
  /\ group \in Groups
  /\ mask_bits \subseteq LinesOf(group)
  /\ owed \subseteq Lines

(* No interrupt of a line that the dispatcher calls a handler for is lost: *)
(* one raised since that handler was last called is still pending, or the  *)
(* dispatcher has yet to come to it, however devices raise lines between   *)
(* its steps.  This is why the dispatcher acknowledges before it calls,    *)
(* and only what it has read.  A line that has a number but no branch in   *)
(* it, as INT_SDC_INS, is acknowledged and nobody is called.               *)
NoLostInterrupt == owed \cap Dispatched \subseteq pending \cup mask_bits

(* The dispatcher never calls through a null pointer, although it tests    *)
(* int_handle_22 before it calls int_handle_23.                            *)
NoNullCall ==
  [][\A line \in Lines : IsrCall(line) /\ Calls(line) => handler[line] # None]_vars

(* A line that is raised is served, unless it is masked or the CPU does    *)
(* not take interrupts: no other line, however often raised, starves it.   *)
Served ==
  \A line \in Sources :
    line \in owed \cap Dispatched ~>
      line \notin owed \/ line \in masked \/ ~irq_enabled

(* int_clear is to "acknowledge an interrupt (clear out its pending flag)" *)
(* (interrupts_f256.c:461): its own, and no other.                         *)
ClearsOnlyItsOwn == [][ClearWrite => pending \ pending' \subseteq {modifying.line}]_vars
=============================================================================
