---------------------------- MODULE MCInterrupts ----------------------------
(* Interrupts with a few lines: the start of frame, the timer of the same  *)
(* group, the real time clock and the two IED lines of group 2, which have *)
(* no number; INT_SDC, which no device of this instance raises, and an     *)
(* unassigned number.                                                      *)
EXTENDS Interrupts

CONSTANT h

MCSources == {<<0, 0>>, <<0, 4>>, <<2, 3>>}
MCNumbers == {0, 2, 24, 34}
MCHandlers == {h}
=============================================================================
