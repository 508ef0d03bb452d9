---------------------------- MODULE FileHandles ----------------------------
(***************************************************************************)
(* The channel table (src/src/dev/channel.c) and the file descriptors of   *)
(* the file system (src/src/dev/fsys.c) that hang from it.                 *)
(*                                                                         *)
(* A channel is a record of g_channels: the number it is open under (-1    *)
(* when free), the device behind it and a private data block.  Channels    *)
(* 0 .. CDEV_FILE - 1 belong to the device of the same number; the others  *)
(* are a pool shared by the files and by the devices above CDEV_FILE.  A   *)
(* file channel keeps in data[0] the index of its descriptor in g_file;    *)
(* other drivers keep what they like there.                                *)
(*                                                                         *)
(* There is one caller at a time: the firmware is single-tasking and no    *)
(* interrupt handler touches these tables.  Every action is one complete   *)
(* call.                                                                   *)
(***************************************************************************)
EXTENDS Integers, FiniteSets, FatFsObjects

CONSTANTS
  CDEV_FILE,         \* number of the file device, and of the first pool channel
  CDEV_DEVICES_MAX,  \* number of device slots
  CHAN_MAX,          \* number of channels
  MAX_FILES,         \* number of file descriptors
  DriverData,        \* a data[0] a driver other than the file driver may store
  MayFail            \* devices whose open routine can return an error

CDEV_CONSOLE == 0
Channels == 0 .. CHAN_MAX - 1
Devices == 0 .. CDEV_DEVICES_MAX - 1
Pool == CDEV_FILE .. CHAN_MAX - 1
Fds == 0 .. MAX_FILES - 1

ASSUME TableAssumption ==
  /\ CDEV_FILE \in Nat /\ CDEV_DEVICES_MAX \in Nat
  /\ CHAN_MAX \in Nat /\ MAX_FILES \in Nat
  /\ CDEV_CONSOLE < CDEV_FILE /\ CDEV_FILE < CDEV_DEVICES_MAX
  /\ CDEV_DEVICES_MAX <= CHAN_MAX
  /\ DriverData \in Nat /\ DriverData >= MAX_FILES
  /\ MayFail \subseteq Devices

VARIABLES
  number, dev, data,  \* the fields of g_channels; of the data block, data[0]
  registered,         \* devices with a driver in g_channel_devs
  g_fil_state,        \* whether each descriptor is allocated
  g_file,             \* the FatFs file object of each descriptor
  result,             \* what the last call returned
  reached             \* the file the last call operated on, or None

chans == <<number, dev, data>>
vars == <<number, dev, data, registered, g_fil_state, g_file, result, reached>>

ERR_BADCHANNEL == "ERR_BADCHANNEL"
DEV_ERR_BADDEV == "DEV_ERR_BADDEV"
Results == {OK, ERR_OUT_OF_HANDLES, ERR_BADCHANNEL, DEV_ERR_BADDEV, FSYS_ERR}

(* After initialize(): the console is registered and already open. *)
Init ==
  /\ number = [c \in Channels |-> IF c = CDEV_CONSOLE THEN c ELSE -1]
  /\ dev = [c \in Channels |-> IF c = CDEV_CONSOLE THEN c ELSE -1]
  /\ data = [c \in Channels |-> IF c = CDEV_CONSOLE THEN DriverData ELSE 0]
  /\ registered = {CDEV_CONSOLE, CDEV_FILE}
  /\ g_fil_state = [fd \in Fds |-> 0]
  /\ g_file = [fd \in Fds |-> Closed]
  /\ result = OK
  /\ reached = None

-----------------------------------------------------------------------------
(* The helpers of channel.c. *)

IsOpen(c) == number[c] = c
FileChannels == {c \in Channels : IsOpen(c) /\ dev[c] = CDEV_FILE}

(* c is the channel that chan_alloc(d) hands out. *)
ChanAlloc(d, c) ==
  IF d < CDEV_FILE
    THEN c = d
    ELSE /\ c \in Pool
         /\ ~IsOpen(c)
         /\ \A i \in Pool : i < c => IsOpen(i)

(* chan_alloc(d) returns 0. *)
NoChannel(d) == d >= CDEV_FILE /\ \A i \in Pool : IsOpen(i)

(* Mutant of ChanFree: scrubs the data block as it does the other fields. *)
ChanFreeScrubsData(c) ==
  /\ number' = [number EXCEPT ![c] = -1]
  /\ dev' = [dev EXCEPT ![c] = -1]
  /\ data' = [data EXCEPT ![c] = -1]

ChanFree(c) ==
  /\ number' = [number EXCEPT ![c] = -1]
  /\ dev' = [dev EXCEPT ![c] = -1]
  /\ UNCHANGED data

(* What chan_get_records(c) returns. *)
ChanGetRecords(c) == IF IsOpen(c) THEN OK ELSE DEV_ERR_BADDEV

-----------------------------------------------------------------------------
(* Devices: registering, opening and closing. *)

(* cdev_register: the slot of the device is overwritten, whoever uses it. *)
CdevRegister(d) ==
  /\ registered' = registered \cup {d}
  /\ result' = OK
  /\ reached' = None
  /\ UNCHANGED <<chans, g_fil_state, g_file>>

(* The driver's open routine ran on channel c: it may have stored data. *)
DriverOpen(d, c, r) ==
  /\ number' = [number EXCEPT ![c] = c]
  /\ dev' = [dev EXCEPT ![c] = d]
  /\ \/ data' = [data EXCEPT ![c] = DriverData]
     \/ d # CDEV_CONSOLE /\ UNCHANGED data
  /\ \/ r = OK
     \/ d \in MayFail /\ r = FSYS_ERR

ChanOpen(d) ==
  /\ d # CDEV_FILE
  /\ reached' = None
  /\ UNCHANGED <<registered, g_fil_state, g_file>>
  /\ \/ /\ d \notin registered
        /\ result' = DEV_ERR_BADDEV
        /\ UNCHANGED chans
     \/ /\ d \in registered
        /\ NoChannel(d)
        /\ result' = ERR_OUT_OF_HANDLES
        /\ UNCHANGED chans
     \/ /\ d \in registered
        /\ result' \in {OK, FSYS_ERR}
        /\ \E c \in Channels : ChanAlloc(d, c) /\ DriverOpen(d, c, result')

(* chan_close is "not for files" (syscalls.h): callers use fsys_close.     *)
ChanClose(c) ==
  /\ c \notin FileChannels
  /\ IF IsOpen(c) THEN ChanFree(c) ELSE UNCHANGED chans
  /\ result' = OK
  /\ reached' = None
  /\ UNCHANGED <<registered, g_fil_state, g_file>>

(* Device and data block change places, the numbers stay.  Callers name    *)
(* open channels.                                                          *)
ChanSwap(c1, c2) ==
  /\ IsOpen(c1) /\ IsOpen(c2)
  /\ dev' = [dev EXCEPT ![c1] = dev[c2], ![c2] = dev[c1]]
  /\ data' = [data EXCEPT ![c1] = data[c2], ![c2] = data[c1]]
  /\ result' = OK
  /\ reached' = None
  /\ UNCHANGED <<number, registered, g_fil_state, g_file>>

-----------------------------------------------------------------------------
(* Files: opening and closing. *)

(* The descriptor that fsys_open picks: the first free one. *)
FirstFree(fd) == g_fil_state[fd] = 0 /\ \A i \in Fds : i < fd => g_fil_state[i] = 1

(* f_open succeeded, on descriptor fd and channel c. *)
OpenDone(p, fd, c) ==
  /\ g_fil_state' = [g_fil_state EXCEPT ![fd] = 1]
  /\ g_file' = [g_file EXCEPT ![fd] = p]
  /\ number' = [number EXCEPT ![c] = c]
  /\ dev' = [dev EXCEPT ![c] = CDEV_FILE]
  /\ data' = [data EXCEPT ![c] = fd]
  /\ result' = OK

(* Mutant of OpenUndone: returns the channel but not the descriptor. *)
OpenUndoneKeepsFd(fd, c) ==
  /\ g_fil_state' = [g_fil_state EXCEPT ![fd] = 1]
  /\ g_file' = [g_file EXCEPT ![fd] = Closed]
  /\ ChanFree(c)
  /\ result' = FSYS_ERR

(* Mutant of OpenUndone: returns the descriptor but not the channel. *)
OpenUndoneKeepsChannel(fd, c) ==
  /\ g_file' = [g_file EXCEPT ![fd] = Closed]
  /\ number' = [number EXCEPT ![c] = c]
  /\ dev' = [dev EXCEPT ![c] = CDEV_FILE]
  /\ result' = FSYS_ERR
  /\ UNCHANGED <<data, g_fil_state>>

(* f_open failed: descriptor and channel go back to their pools. *)
OpenUndone(fd, c) ==
  /\ g_fil_state' = [g_fil_state EXCEPT ![fd] = 0]
  /\ g_file' = [g_file EXCEPT ![fd] = Closed]
  /\ ChanFree(c)
  /\ result' = FSYS_ERR

OpenRefused ==
  /\ (\A fd \in Fds : g_fil_state[fd] = 1) \/ NoChannel(CDEV_FILE)
  /\ result' = ERR_OUT_OF_HANDLES
  /\ UNCHANGED <<chans, g_fil_state, g_file>>

FsysOpen(p) ==
  /\ reached' = None
  /\ UNCHANGED registered
  /\ \/ \E fd \in Fds, c \in Channels :
          /\ FirstFree(fd)
          /\ ChanAlloc(CDEV_FILE, c)
          /\ OpenDone(p, fd, c) \/ OpenUndone(fd, c)
     \/ OpenRefused

(* f_close: on an error the object stays as it is. *)
FClose(fd) ==
  \/ g_file[fd] \in Paths /\ g_file' = [g_file EXCEPT ![fd] = Closed]
  \/ UNCHANGED g_file

(* Mutant of FsysClose: the descriptor stays allocated. *)
FsysCloseKeepsFd(c) ==
  /\ c \in FileChannels
  /\ reached' = g_file[data[c]]
  /\ FClose(data[c])
  /\ ChanFree(c)
  /\ result' = OK
  /\ UNCHANGED <<registered, g_fil_state>>

(* Callers close the channels that carry files; the result of f_close is   *)
(* ignored.                                                                *)
FsysClose(c) ==
  /\ c \in FileChannels
  /\ reached' = g_file[data[c]]
  /\ FClose(data[c])
  /\ ChanFree(c)
  /\ g_fil_state' = [g_fil_state EXCEPT ![data[c]] = 0]
  /\ result' = OK
  /\ UNCHANGED registered

(* Mounting a drive, after which the file objects on it are no longer      *)
(* valid; f_mount may also fail and change nothing.                        *)
FsysMount(drive) ==
  /\ reached' = None
  /\ \/ /\ g_file' = [fd \in Fds |-> IF g_file[fd] \in drive THEN Stale ELSE g_file[fd]]
        /\ result' = OK
     \/ /\ result' = FSYS_ERR
        /\ UNCHANGED g_file
  /\ UNCHANGED <<chans, registered, g_fil_state>>

-----------------------------------------------------------------------------
(* Input and output on a channel. *)

(* fchan_to_file finds a descriptor behind file channel c. *)
FchanToFile(c) == data[c] \in Fds

(* FatFs operates on descriptor fd, and fails if the object is not valid. *)
FatFs(fd) ==
  /\ reached' = g_file[fd]
  /\ \/ g_file[fd] \in Paths /\ result' = OK
     \/ result' = FSYS_ERR

(* chan_read, chan_readline, chan_read_b, chan_write, chan_write_b,        *)
(* chan_status, chan_flush and chan_seek: the driver behind the channel is *)
(* called, and for a file its fchan_ routine calls FatFs.                  *)
ChanIo(c) ==
  /\ IF c \in FileChannels /\ FchanToFile(c)
       THEN FatFs(data[c])
       ELSE /\ result' = IF c \in FileChannels THEN ERR_BADCHANNEL ELSE ChanGetRecords(c)
            /\ reached' = None
  /\ UNCHANGED <<chans, registered, g_fil_state, g_file>>

-----------------------------------------------------------------------------
(* Every call but chan_open. *)
OtherCalls ==
  \/ \E d \in Devices \ {CDEV_FILE} : CdevRegister(d)
  \/ \E c \in Channels : ChanClose(c)
  \/ \E c1, c2 \in Channels : ChanSwap(c1, c2)
  \/ \E p \in Paths : FsysOpen(p)
  \/ \E c \in Channels : FsysClose(c)
  \/ \E drive \in Drives : FsysMount(drive)
  \/ \E c \in Channels : ChanIo(c)

(* Programs may open any device at any time ... *)
Next == OtherCalls \/ \E d \in Devices : ChanOpen(d)
Spec == Init /\ [][Next]_vars

(* ... but a careful one does not open a device whose own channel number   *)
(* it has swapped to a file: chan_alloc hands that channel out again.      *)
CarefulNext == OtherCalls \/ \E d \in Devices \ FileChannels : ChanOpen(d)
CarefulSpec == Init /\ [][CarefulNext]_vars

-----------------------------------------------------------------------------
(* Every variable stays within its range; a channel that is not open has   *)
(* no device.                                                              *)
TypeOK ==
  /\ number \in [Channels -> Channels \cup {-1}]
  /\ dev \in [Channels -> Devices \cup {-1}]
  /\ data \in [Channels -> Fds \cup {0, DriverData}]
  /\ registered \subseteq Devices
  /\ g_fil_state \in [Fds -> {0, 1}]
  /\ g_file \in [Fds -> Objects]
  /\ result \in Results
  /\ reached \in Objects \cup {None}

(* Every open file channel names a descriptor that is allocated and has    *)
(* been opened (fsys_open sets data[0] only after f_open succeeded).       *)
ChannelsNameFiles ==
  \A c \in FileChannels :
    /\ data[c] \in Fds
    /\ g_fil_state[data[c]] = 1
    /\ g_file[data[c]] # Closed

(* No two open file channels share a descriptor: a read on one can never   *)
(* move or see the file of another.                                        *)
NoSharedDescriptor ==
  \A c1, c2 \in FileChannels : c1 # c2 => data[c1] # data[c2]

(* No descriptor leaks: an allocated one is named by an open file channel, *)
(* through which fsys_close can give it back.                              *)
NoLostDescriptor ==
  \A fd \in Fds : g_fil_state[fd] = 1 => \E c \in FileChannels : data[c] = fd

(* Descriptors and file channels correspond one to one.                    *)
FdOwnership == ChannelsNameFiles /\ NoSharedDescriptor /\ NoLostDescriptor

(* What the program sees: each open file channel and the file it carries.  *)
Table == [c \in FileChannels |-> g_file[data[c]]]

(* The two tables and the descriptor in data[0] together implement the     *)
(* table of open files.                                                    *)
Promise == INSTANCE OpenFiles WITH table <- Table, reached <- reached
ImplementsOpenFiles == Promise!Spec

(* fsys_open runs out of handles only when MAX_FILES files are really open *)
(* or every channel of the pool is in use: no earlier failure, close, swap *)
(* or change of media has used up a descriptor for good.                   *)
RefusedOnlyWhenFull ==
  [][\A p \in Paths :
       FsysOpen(p) /\ result' = ERR_OUT_OF_HANDLES =>
         \/ Cardinality(FileChannels) = MAX_FILES
         \/ \A c \in Pool : IsOpen(c)]_vars
=============================================================================
