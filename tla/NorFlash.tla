------------------------------ MODULE NorFlash ------------------------------
(***************************************************************************)
(* The promise of a flash cartridge: what programs ask for is done, whole  *)
(* and in order, before they can ask for more.  The flash can be erased    *)
(* as a whole, and writing a byte only clears bits of it.  When there is   *)
(* an excuse, requests may be lost, but nothing else may happen.           *)
(***************************************************************************)
EXTENDS Sequences, SequencesExt

CONSTANTS Cells, Bits   \* a byte is the set of its bits that are set

VARIABLES
  content,
  pending,   \* the requests that have not been carried out
  excused

vars == <<content, pending, excused>>

Requests ==
  [kind : {"erase"}]
    \cup [kind : {"write"}, to : Cells, value : SUBSET Bits]
    \cup [kind : {"copy"}, to : Cells, from : Cells]

CarriedOut(r, m) ==
  CASE r.kind = "erase" -> [c \in Cells |-> Bits]
    [] r.kind = "write" -> [m EXCEPT ![r.to] = @ \cap r.value]
    [] r.kind = "copy" -> [m EXCEPT ![r.to] = @ \cap m[r.from]]

Init ==
  /\ content \in [Cells -> SUBSET Bits]
  /\ pending = <<>>
  /\ excused = FALSE

(* A program asks for something, whether or not an excuse is still good. *)
Ask ==
  /\ pending = <<>> \/ excused
  /\ pending' \in Seq(Requests) /\ IsStrictPrefix(pending, pending')
  /\ excused' = (excused /\ pending # <<>>)
  /\ UNCHANGED content

(* A program asks for just these. *)
AskFor(requests) == Ask /\ pending' = pending \o requests

Perform ==
  /\ pending # <<>>
  /\ content' = CarriedOut(Head(pending), content)
  /\ pending' = Tail(pending)
  /\ UNCHANGED excused

Excuse == excused' = TRUE /\ UNCHANGED <<content, pending>>

Lose ==
  /\ excused
  /\ \E i \in DOMAIN pending : pending' = RemoveAt(pending, i)
  /\ UNCHANGED <<content, excused>>

Next == Ask \/ Perform \/ Excuse \/ Lose
Spec == Init /\ [][Next]_vars
=============================================================================
