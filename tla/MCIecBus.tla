------------------------------ MODULE MCIecBus ------------------------------
(* A bus with two devices, one of them at the number that iec_print closes. *)
EXTENDS IecBus

MCMessages == {<<>>, <<1>>, <<1, 2>>}
MCText == <<1, 2>>
=============================================================================
