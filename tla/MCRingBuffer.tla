---------------------------- MODULE MCRingBuffer ----------------------------
(* RingBuffer with few slots and two words that can be told apart.         *)
EXTENDS RingBuffer

MCWords == {1, 2}
=============================================================================
