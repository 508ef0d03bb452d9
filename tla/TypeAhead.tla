----------------------------- MODULE TypeAhead -----------------------------
(***************************************************************************)
(* What console input promises a program: the characters of the keys that  *)
(* are pressed wait in the order of the key presses; a read delivers the   *)
(* oldest; a status that answers yes is right.  (A status may answer no    *)
(* although characters wait: that is all the program may rely on.)  Opening*)
(* the console may drop the oldest character.                              *)
(***************************************************************************)
EXTENDS Naturals, Sequences

VARIABLES
  keys,       \* the keys that are down
  pending,    \* characters typed and not yet read
  delivered,  \* the character the last call, a read, returned
  readable    \* the last call, a status, answered yes

vars == <<keys, pending, delivered, readable>>

Init ==
  /\ keys = {}
  /\ pending = <<>>
  /\ delivered = 0
  /\ readable = FALSE

(* Only a change of the keys brings characters, behind those that wait. *)
Type ==
  /\ keys' # keys
  /\ Len(pending') >= Len(pending)
  /\ SubSeq(pending', 1, Len(pending)) = pending
  /\ UNCHANGED <<delivered, readable>>

(* A call begins: what the last one answered is gone. *)
Begin ==
  /\ delivered' = 0
  /\ readable' = FALSE
  /\ UNCHANGED <<keys, pending>>

Read ==
  /\ pending # <<>>
  /\ delivered' = Head(pending)
  /\ pending' = Tail(pending)
  /\ UNCHANGED <<keys, readable>>

Status ==
  /\ readable' \in {FALSE, pending # <<>>}
  /\ UNCHANGED <<keys, pending, delivered>>

Reopen ==
  /\ pending # <<>>
  /\ pending' = Tail(pending)
  /\ UNCHANGED <<keys, delivered, readable>>

Next ==
  \/ Type
  \/ Begin
  \/ Read
  \/ Status
  \/ Reopen

Spec == Init /\ [][Next]_vars
=============================================================================
