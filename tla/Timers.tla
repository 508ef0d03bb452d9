------------------------------- MODULE Timers -------------------------------
(***************************************************************************)
(* timers_jiffies of src/src/timers.c, which reads the bytes of a running  *)
(* counter one after the other.  Of the three bytes two are kept: a low    *)
(* one of LowSize values, and the rest.                                    *)
(***************************************************************************)
EXTENDS Integers

CONSTANT LowSize   \* values of the low byte of the counter

ASSUME TimerAssumption == LowSize \in Nat /\ LowSize > 0

VARIABLES
  jiffies,   \* the counter
  reading    \* the byte of it that has been read, and its value

Low == jiffies % LowSize
High == jiffies - Low

Unread == [part |-> "none", value |-> 0]
HalfRead == reading # Unread

TimersInit == jiffies = 0 /\ reading = Unread

(* timers_jiffies reads one byte ... *)
ReadHalf ==
  /\ ~HalfRead
  /\ reading' \in {[part |-> "low", value |-> Low], [part |-> "high", value |-> High]}

(* ... and then the other.  C leaves the order to the compiler. *)
JiffiesRead == reading.value + IF reading.part = "low" THEN High ELSE Low
ReadRest == HalfRead /\ reading' = Unread

(* The counter carries from the low byte into the rest. *)
Carries == Low = LowSize - 1

Tick == jiffies' = jiffies + 1 /\ UNCHANGED reading
=============================================================================
