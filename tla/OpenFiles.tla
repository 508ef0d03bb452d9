----------------------------- MODULE OpenFiles -----------------------------
(***************************************************************************)
(* What the file half of the channel system promises a program: a table    *)
(* from channel numbers to the files opened on them.  Every operation on a *)
(* channel reaches the file the table names, an open never disturbs        *)
(* another entry, and swapping two channel numbers swaps their files.      *)
(***************************************************************************)
CONSTANTS
  Channels,   \* channel numbers
  Paths,      \* files on the drives
  Drives,     \* sets of paths, one for each mountable drive
  Stale,      \* what a file object becomes when its drive is mounted again
  None        \* no file

VARIABLES
  table,      \* open file channels and the file each one carries
  reached     \* the file the last call operated on, or None

vars == <<table, reached>>

Init ==
  /\ table = [c \in {} |-> None]
  /\ reached = None

(* A channel number that carries no file is given one. *)
Open(c, p) ==
  /\ c \notin DOMAIN table
  /\ table' = [x \in DOMAIN table \cup {c} |-> IF x = c THEN p ELSE table[x]]
  /\ reached' = None

(* A read, write, seek, status or flush. *)
Use(c) ==
  /\ c \in DOMAIN table
  /\ reached' = table[c]
  /\ UNCHANGED table

Close(c) ==
  /\ c \in DOMAIN table
  /\ reached' = table[c]
  /\ table' = [x \in DOMAIN table \ {c} |-> table[x]]

(* The number that the other of the two channels has after a swap. *)
Other(c1, c2, c) == IF c = c1 THEN c2 ELSE IF c = c2 THEN c1 ELSE c

Swap(c1, c2) ==
  /\ table' = [c \in {x \in Channels : Other(c1, c2, x) \in DOMAIN table} |->
                 table[Other(c1, c2, c)]]
  /\ reached' = None

(* Mounting a drive again invalidates the files that were open on it. *)
Remount(drive) ==
  /\ table' = [c \in DOMAIN table |->
                 IF table[c] \in drive THEN Stale ELSE table[c]]
  /\ reached' = None

(* A call that is refused, or that concerns a device. *)
Elsewhere ==
  /\ reached' = None
  /\ UNCHANGED table

Next ==
  \/ \E c \in Channels, p \in Paths : Open(c, p)
  \/ \E c \in Channels : Use(c) \/ Close(c)
  \/ \E c1, c2 \in Channels : Swap(c1, c2)
  \/ \E drive \in Drives : Remount(drive)
  \/ Elsewhere

Spec == Init /\ [][Next]_vars
=============================================================================
