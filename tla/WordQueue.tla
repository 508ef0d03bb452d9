----------------------------- MODULE WordQueue -----------------------------
(***************************************************************************)
(* What a word ring promises its two users, an interrupt handler that puts *)
(* and a program that gets: words come out once each, in the order they    *)
(* went in, and none is lost as long as no more than Sure words wait.      *)
(* Beyond that a put may drop its own word, or everything that waits.      *)
(***************************************************************************)
EXTENDS Naturals, Sequences

CONSTANTS
  Words,  \* what can be put
  Sure    \* number of words that are sure to be kept

VARIABLES
  queue,  \* the words that wait, the oldest first
  got     \* what the last get returned, 0 for nothing

vars == <<queue, got>>

Init == queue = <<>> /\ got = 0

Put(w) ==
  /\ queue' = Append(queue, w)
  /\ UNCHANGED got

Overrun(w) ==
  /\ Len(queue) >= Sure
  /\ queue' \in {queue, <<>>, <<w>>}
  /\ UNCHANGED got

Get ==
  /\ queue # <<>>
  /\ got' = Head(queue)
  /\ queue' = Tail(queue)

GetNothing ==
  /\ queue = <<>>
  /\ got' = 0
  /\ UNCHANGED queue

Next ==
  \/ \E w \in Words : Put(w) \/ Overrun(w)
  \/ Get
  \/ GetNothing

Spec == Init /\ [][Next]_vars
=============================================================================
