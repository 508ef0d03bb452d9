---------------------------- MODULE Directories ----------------------------
(***************************************************************************)
(* The directory handles of src/src/dev/fsys.c: g_dir_state says which are *)
(* allocated, g_directory holds their FatFs objects.  Every action is one  *)
(* complete call.                                                          *)
(*                                                                         *)
(* A handle is allocated before the call that may fail and is not given    *)
(* back when it does; and fsys_findfirst, when no handle is free, goes on  *)
(* with handle 0.                                                          *)
(***************************************************************************)
EXTENDS Integers, FatFsObjects

CONSTANT MAX_DIRECTORIES  \* number of directory handles

Handles == 0 .. MAX_DIRECTORIES - 1

ASSUME DirectoryAssumption == MAX_DIRECTORIES \in Nat

VARIABLES
  g_dir_state,   \* whether each handle is allocated
  g_directory,   \* the FatFs object of each handle
  held,          \* the handles that were returned to programs and not closed
  dir_result,    \* what the last call returned, handles apart
  scanned        \* the directory the last call read, or None

dirVars == <<g_dir_state, g_directory, held, dir_result, scanned>>

ERR_BAD_HANDLE == "ERR_BAD_HANDLE"
DirResults == {OK, ERR_OUT_OF_HANDLES, ERR_BAD_HANDLE, FSYS_ERR}

(* fsys_init: all handles are available. *)
DirInit ==
  /\ g_dir_state = [h \in Handles |-> 0]
  /\ g_directory = [h \in Handles |-> Closed]
  /\ held = {}
  /\ dir_result = OK
  /\ scanned = None

-----------------------------------------------------------------------------
(* The handle that a search for a free one stops at. *)
FirstFreeDir(h) == g_dir_state[h] = 0 /\ \A i \in Handles : i < h => g_dir_state[i] = 1
NoneFree == \A h \in Handles : g_dir_state[h] = 1

(* Mutant of Taken: the handle is found but not marked. *)
TakenUnmarked(h) == UNCHANGED g_dir_state

(* Handle h is marked as allocated. *)
Taken(h) == g_dir_state' = [g_dir_state EXCEPT ![h] = 1]

(* FatFs opens directory d on the object of h, for the program to hold. *)
DirOpened(d, h) ==
  /\ g_directory' = [g_directory EXCEPT ![h] = d]
  /\ held' = held \cup {h}
  /\ dir_result' = OK

(* Mutant of OpenFailed: the handle is returned all the same. *)
OpenFailedReturned(h, objects) ==
  /\ \E o \in objects : g_directory' = [g_directory EXCEPT ![h] = o]
  /\ dir_result' = OK
  /\ held' = held \cup {h}

(* It fails, which leaves the object closed; or, in a search, fails later,   *)
(* on the first entry, which leaves it open.                               *)
OpenFailed(h, objects) ==
  /\ \E o \in objects : g_directory' = [g_directory EXCEPT ![h] = o]
  /\ dir_result' = FSYS_ERR
  /\ UNCHANGED held

FsysOpendir(d) ==
  /\ scanned' = None
  /\ \/ \E h \in Handles :
          /\ FirstFreeDir(h)
          /\ Taken(h)
          /\ DirOpened(d, h) \/ OpenFailed(h, {Closed})
     \/ /\ NoneFree
        /\ dir_result' = ERR_OUT_OF_HANDLES
        /\ UNCHANGED <<g_dir_state, g_directory, held>>

(* A search takes the first free handle, or else handle 0 as it is.        *)
FsysFindfirst(d) ==
  /\ scanned' = None
  /\ \E h \in Handles :
       /\ \/ FirstFreeDir(h) /\ Taken(h)
          \/ NoneFree /\ h = 0 /\ UNCHANGED g_dir_state
       /\ DirOpened(d, h) \/ OpenFailed(h, {Closed, d})

(* fsys_readdir and fsys_findnext: FatFs reads the next entry, and fails   *)
(* if the object is not valid.                                             *)
FsysReaddir(h) ==
  /\ IF g_dir_state[h] = 1
       THEN /\ scanned' = g_directory[h]
            /\ \/ g_directory[h] \in Paths /\ dir_result' = OK
               \/ dir_result' = FSYS_ERR
       ELSE /\ scanned' = None
            /\ dir_result' = ERR_BAD_HANDLE
  /\ UNCHANGED <<g_dir_state, g_directory, held>>

(* f_closedir: an object that is no longer valid stays as it is. *)
FClosedir(h) ==
  g_directory' = [g_directory EXCEPT ![h] = IF @ \in Paths THEN Closed ELSE @]

(* Mutant of FsysClosedir: the handle stays allocated if it cannot be      *)
(* closed.                                                                 *)
FsysClosedirValid(h) ==
  /\ scanned' = None
  /\ dir_result' = OK
  /\ held' = held \ {h}
  /\ FClosedir(h)
  /\ g_dir_state' = [g_dir_state EXCEPT ![h] = IF g_directory[h] \in Paths THEN 0 ELSE @]

FsysClosedir(h) ==
  /\ dir_result' = OK
  /\ held' = held \ {h}
  /\ IF g_dir_state[h] = 1
       THEN /\ scanned' = g_directory[h]
            /\ FClosedir(h)
            /\ g_dir_state' = [g_dir_state EXCEPT ![h] = 0]
       ELSE scanned' = None /\ UNCHANGED <<g_dir_state, g_directory>>

(* Mounting a drive, after which the objects on it are no longer valid.    *)
FsysMountDirs(drive) ==
  /\ scanned' = None
  /\ \/ /\ g_directory' = [h \in Handles |->
                             IF g_directory[h] \in drive THEN Stale ELSE g_directory[h]]
        /\ dir_result' = OK
     \/ /\ dir_result' = FSYS_ERR
        /\ UNCHANGED g_directory
  /\ UNCHANGED <<g_dir_state, held>>

-----------------------------------------------------------------------------
(* A program names handles it was given, or ones that nobody uses.         *)
Nameable == {h \in Handles : h \in held \/ g_dir_state[h] = 0}

OtherDirCalls ==
  \/ \E d \in Paths : FsysOpendir(d)
  \/ \E h \in Nameable : FsysReaddir(h) \/ FsysClosedir(h)
  \/ \E drive \in Drives : FsysMountDirs(drive)

(* Programs may begin a search at any time ... *)
DirNext == OtherDirCalls \/ \E d \in Paths : FsysFindfirst(d)
DirSpec == DirInit /\ [][DirNext]_dirVars

(* ... but should have a handle left for it. *)
CarefulDirNext == OtherDirCalls \/ \E d \in Paths : ~NoneFree /\ FsysFindfirst(d)
CarefulDirSpec == DirInit /\ [][CarefulDirNext]_dirVars

-----------------------------------------------------------------------------
(* Every variable stays within its range, and a handle that a program      *)
(* holds is allocated, on an object that was opened.                       *)
DirTypeOK ==
  /\ g_dir_state \in [Handles -> {0, 1}]
  /\ g_directory \in [Handles -> Objects]
  /\ held \subseteq {h \in Handles : g_dir_state[h] = 1 /\ g_directory[h] # Closed}
  /\ dir_result \in DirResults
  /\ scanned \in Objects \cup {None}

(* To its programs the handles are a table of open directories: what a     *)
(* handle reads is the directory it was opened on, whoever else opens,     *)
(* closes or searches, until its drive is mounted again.                   *)
DirTable == [h \in held |-> g_directory[h]]
DirPromise == INSTANCE OpenFiles
  WITH Channels <- Handles, table <- DirTable, reached <- scanned
ImplementsOpenDirectories == DirPromise!Spec

(* A handle is lost, allocated with nobody to close it, only by a call     *)
(* that fails: closing gives back what was taken, valid or not.            *)
Lost == {h \in Handles \ held : g_dir_state[h] = 1}
LostOnlyByFailure == [][Lost' # Lost => dir_result' = FSYS_ERR]_dirVars
=============================================================================
