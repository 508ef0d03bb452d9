--------------------------- MODULE MCConsoleInput ---------------------------
(* ConsoleInput with a few keys of the F256K matrix: the left SHIFT key,   *)
(* C, the right SHIFT key, CTRL and RUN/STOP; C stands for the ordinary    *)
(* keys, and its shifted character is a function key, F1, so that one key  *)
(* gives a plain character, a control character and an escape sequence.    *)
EXTENDS ConsoleInput, TLC

CONSTANT MCKeys

MCMatrixOrder ==
  SelectSeq(<<"LSHIFT", "C", "RSHIFT", "CAPS", "CTRL", "RUNSTOP">>, LAMBDA key : key \in MCKeys)
MCModifier ==
  [key \in MCKeys |-> CASE key \in {"LSHIFT", "RSHIFT"} -> "SHIFT"
                        [] key \in {"CTRL", "CAPS"} -> key
                        [] OTHER -> "NONE"]
MCLayout ==
  [table \in Tables |-> [key \in MCKeys |->
    IF key # "C" THEN 0
    ELSE CASE table \in {"shift", "caps_shift", "control_shift"} -> 138
           [] table = "control" -> 3
           [] OTHER -> 99]]
MCAnsiKeys == 138 :> <<49, 49>>
=============================================================================
