---------------------------- MODULE FatFsObjects ----------------------------
(***************************************************************************)
(* What src/src/dev/fsys.c sees of FatFs: a file or directory object is on *)
(* a path, or closed, or stale, when its drive was mounted again after the *)
(* object was opened; and the errors that its calls return.                *)
(***************************************************************************)
CONSTANTS
  Paths,             \* files or directories on the drives
  Drives,            \* sets of paths, one for each mountable drive
  Stale, Closed,     \* states of an object beside the path it is on
  None               \* no path

ASSUME ObjectAssumption ==
  /\ Stale \notin Paths /\ Closed \notin Paths /\ None \notin Paths
  /\ Stale # Closed /\ None # Stale /\ None # Closed
  /\ \A drive \in Drives : drive \subseteq Paths

Objects == Paths \cup {Stale, Closed}

OK == "OK"
ERR_OUT_OF_HANDLES == "ERR_OUT_OF_HANDLES"
FSYS_ERR == "FSYS_ERR"
=============================================================================
