-------------------------- MODULE FileHandlesProofs --------------------------
(***************************************************************************)
(* Theorems about the handles of fsys.c, for tables of any size: those of  *)
(* files, FileHandles, and those of directories, Directories.  Whatever    *)
(* programs call, the tables of channels and descriptors keep their types  *)
(* and no two open file channels ever name the same descriptor.  Careful   *)
(* programs also never lose one: descriptors and open file channels stay   *)
(* in one-to-one correspondence.  Directory handles are lost by failures   *)
(* only, and implement a table of open directories.                        *)
(***************************************************************************)
EXTENDS FileHandles, Directories, FunctionTheorems, FiniteSetTheorems, TLAPS

(* The ranges that the assumptions on the constants give.                  *)
LEMMA ConstantFacts ==
  /\ CDEV_FILE \in Nat /\ CHAN_MAX \in Nat /\ MAX_FILES \in Nat
  /\ CDEV_CONSOLE \in Channels /\ CDEV_CONSOLE \in Devices
  /\ CDEV_FILE \in Devices /\ CDEV_FILE # CDEV_CONSOLE
  /\ Devices \subseteq Channels
  /\ Pool \subseteq Channels
  /\ -1 \notin Channels /\ -1 \notin Devices
  /\ DriverData \notin Fds
  /\ \A p \in Paths : p # Closed /\ p # Stale
  /\ Stale # Closed
BY TableAssumption, ObjectAssumption, SMT
   DEF CDEV_CONSOLE, Channels, Devices, Pool, Fds

(* The channel of a pool device, and of a file, was not open before.       *)
LEMMA PoolAllocIsFree ==
  ASSUME NEW d \in Devices, d >= CDEV_FILE, NEW c, ChanAlloc(d, c)
  PROVE  c \in Channels /\ ~IsOpen(c)
<1>1. CDEV_FILE \in Int /\ d \in Int
  BY TableAssumption DEF Devices
<1>2. ~(d < CDEV_FILE)
  BY <1>1
<1>3. QED
  BY <1>2, ConstantFacts DEF ChanAlloc

(* A fixed device always gets the channel of its own number.               *)
LEMMA FixedAlloc ==
  ASSUME NEW d \in Devices, d < CDEV_FILE, NEW c, ChanAlloc(d, c)
  PROVE  c = d
BY DEF ChanAlloc

(* The inductive invariant of any program: NoLostDescriptor is left out,   *)
(* and ChannelsNameFiles is needed for TypeOK, because fsys_close uses     *)
(* data[0] as an index without looking at it.                              *)
Safe == TypeOK /\ ChannelsNameFiles /\ NoSharedDescriptor

LEMMA InitSafe == Init => Safe /\ NoLostDescriptor
<1> SUFFICES ASSUME Init PROVE Safe /\ NoLostDescriptor
  OBVIOUS
<1>1. TypeOK
  BY ConstantFacts DEF Init, TypeOK, Objects, Results, OK, CDEV_CONSOLE
<1>2. FileChannels = {}
  BY ConstantFacts DEF Init, FileChannels, IsOpen
<1>3. QED
  BY <1>1, <1>2 DEF Init, Safe, ChannelsNameFiles, NoSharedDescriptor, NoLostDescriptor

-----------------------------------------------------------------------------
(* Calls that open, close and swap devices.                                *)

LEMMA CdevRegisterSafe ==
  ASSUME Safe, NEW d \in Devices, CdevRegister(d)
  PROVE  Safe' /\ (NoLostDescriptor => NoLostDescriptor')
<1>1. TypeOK'
  BY DEF Safe, TypeOK, CdevRegister, chans, OK, Results
<1>2. FileChannels' = FileChannels
  BY DEF CdevRegister, chans, FileChannels, IsOpen
<1>3. QED
  BY <1>1, <1>2 DEF Safe, CdevRegister, chans, ChannelsNameFiles,
                    NoSharedDescriptor, NoLostDescriptor

(* Opening a device can only take a channel away from the file channels,   *)
(* and only when that channel has the number of the device.                *)
LEMMA ChanOpenSafe ==
  ASSUME Safe, NEW d \in Devices, ChanOpen(d)
  PROVE  /\ Safe'
         /\ d \notin FileChannels /\ NoLostDescriptor => NoLostDescriptor'
<1>1. CASE UNCHANGED chans
  <2>1. TypeOK'
    BY <1>1 DEF Safe, TypeOK, ChanOpen, chans, Results, OK, FSYS_ERR,
                DEV_ERR_BADDEV, ERR_OUT_OF_HANDLES
  <2>2. FileChannels' = FileChannels
    BY <1>1 DEF chans, FileChannels, IsOpen
  <2>3. QED
    BY <1>1, <2>1, <2>2 DEF Safe, ChanOpen, chans, ChannelsNameFiles,
                            NoSharedDescriptor, NoLostDescriptor
<1>2. ASSUME NEW c \in Channels, ChanAlloc(d, c), DriverOpen(d, c, result'),
             result' \in {OK, FSYS_ERR}
      PROVE  /\ Safe'
             /\ d \notin FileChannels /\ NoLostDescriptor => NoLostDescriptor'
  <2>1. TypeOK'
    BY <1>2, ConstantFacts DEF Safe, TypeOK, ChanOpen, DriverOpen, Results, OK, FSYS_ERR
  <2>2. FileChannels' = FileChannels \ {c}
    BY <1>2, ConstantFacts DEF Safe, TypeOK, ChanOpen, DriverOpen, FileChannels, IsOpen
  <2>3. \A x \in FileChannels' : data'[x] = data[x]
    BY <1>2, <2>2 DEF Safe, TypeOK, DriverOpen, FileChannels
  <2>4. d \notin FileChannels => c \notin FileChannels
    BY <1>2, PoolAllocIsFree, FixedAlloc, ConstantFacts DEF FileChannels, Devices
  <2>5. QED
    BY <2>1, <2>2, <2>3, <2>4 DEF Safe, ChanOpen, ChannelsNameFiles,
                                  NoSharedDescriptor, NoLostDescriptor
<1>3. QED
  BY <1>1, <1>2 DEF ChanOpen

LEMMA ChanCloseSafe ==
  ASSUME Safe, NEW c \in Channels, ChanClose(c)
  PROVE  Safe' /\ (NoLostDescriptor => NoLostDescriptor')
<1>1. TypeOK'
  BY DEF Safe, TypeOK, ChanClose, ChanFree, chans, OK, Results
<1>2. FileChannels' = FileChannels /\ UNCHANGED data
  <2>1. CASE IsOpen(c)
    <3>1. number'[c] = -1 /\ \A x \in Channels \ {c} : number'[x] = number[x] /\ dev'[x] = dev[x]
      BY <2>1 DEF Safe, TypeOK, ChanClose, ChanFree
    <3>2. c \notin FileChannels /\ c \notin FileChannels'
      BY <3>1, ConstantFacts DEF ChanClose, FileChannels, IsOpen
    <3>3. QED
      BY <2>1, <3>1, <3>2 DEF FileChannels, IsOpen, ChanClose, ChanFree
  <2>2. CASE ~IsOpen(c)
    BY <2>2 DEF ChanClose, chans, FileChannels, IsOpen
  <2>3. QED
    BY <2>1, <2>2
<1>3. QED
  BY <1>1, <1>2 DEF Safe, ChanClose, ChannelsNameFiles, NoSharedDescriptor,
                    NoLostDescriptor

(* A swap permutes the open file channels together with their data.        *)
LEMMA ChanSwapSafe ==
  ASSUME Safe, NEW c1 \in Channels, NEW c2 \in Channels, ChanSwap(c1, c2)
  PROVE  Safe' /\ (NoLostDescriptor => NoLostDescriptor')
<1> DEFINE Other(c) == IF c = c1 THEN c2 ELSE IF c = c2 THEN c1 ELSE c
<1>1. TypeOK'
  BY DEF Safe, TypeOK, ChanSwap, OK, Results
<1>2. \A c \in Channels : /\ Other(c) \in Channels /\ Other(Other(c)) = c
                          /\ dev'[c] = dev[Other(c)] /\ data'[c] = data[Other(c)]
                          /\ IsOpen(c)' <=> IsOpen(Other(c))
  BY DEF Safe, TypeOK, ChanSwap, IsOpen
<1>3. /\ \A c \in Channels : c \in FileChannels' <=> Other(c) \in FileChannels
      /\ FileChannels \subseteq Channels /\ FileChannels' \subseteq Channels
  BY <1>2 DEF FileChannels
<1> HIDE DEF Other
<1> UNCHANGED <<g_fil_state, g_file>>
  BY DEF ChanSwap
<1>4. ChannelsNameFiles'
  BY <1>2, <1>3 DEF Safe, ChannelsNameFiles
<1>5. NoSharedDescriptor'
  BY <1>2, <1>3 DEF Safe, NoSharedDescriptor
<1>6. NoLostDescriptor => NoLostDescriptor'
  BY <1>2, <1>3 DEF NoLostDescriptor
<1>7. QED
  BY <1>1, <1>4, <1>5, <1>6 DEF Safe

-----------------------------------------------------------------------------
(* Calls that open and close files.                                        *)

LEMMA FsysOpenSafe ==
  ASSUME Safe, NEW p \in Paths, FsysOpen(p)
  PROVE  Safe' /\ (NoLostDescriptor => NoLostDescriptor')
<1>1. CASE OpenRefused
  <2>1. TypeOK'
    BY <1>1 DEF Safe, TypeOK, FsysOpen, OpenRefused, chans, Results, ERR_OUT_OF_HANDLES
  <2>2. FileChannels' = FileChannels
    BY <1>1 DEF OpenRefused, chans, FileChannels, IsOpen
  <2>3. QED
    BY <1>1, <2>1, <2>2 DEF Safe, OpenRefused, chans, ChannelsNameFiles,
                            NoSharedDescriptor, NoLostDescriptor
<1>2. ASSUME NEW fd \in Fds, NEW c \in Channels, FirstFree(fd),
             ChanAlloc(CDEV_FILE, c)
      PROVE  OpenDone(p, fd, c) \/ OpenUndone(fd, c) =>
               Safe' /\ (NoLostDescriptor => NoLostDescriptor')
  <2>1. c \notin FileChannels
    BY <1>2, PoolAllocIsFree, ConstantFacts DEF FileChannels
  <2>2. \A x \in FileChannels : data[x] \in Fds /\ data[x] # fd
    BY <1>2 DEF Safe, ChannelsNameFiles, FirstFree
  <2>3. CASE OpenDone(p, fd, c)
    <3>1. TypeOK'
      BY <1>2, <2>3, ConstantFacts DEF Safe, TypeOK, FsysOpen, OpenDone, Objects, Results, OK
    <3>2. FileChannels' = FileChannels \cup {c}
      BY <2>3, ConstantFacts DEF Safe, TypeOK, OpenDone, FileChannels, IsOpen
    <3>3. data'[c] = fd /\ \A x \in FileChannels : data'[x] = data[x]
      BY <2>1, <2>3 DEF Safe, TypeOK, OpenDone, FileChannels
    <3>4. g_fil_state'[fd] = 1 /\ g_file'[fd] = p
      BY <2>3 DEF Safe, TypeOK, OpenDone
    <3>5. \A f \in Fds : f # fd => g_fil_state'[f] = g_fil_state[f] /\ g_file'[f] = g_file[f]
      BY <2>3 DEF Safe, TypeOK, OpenDone
    <3>6. ChannelsNameFiles'
      BY <2>2, <3>2, <3>3, <3>4, <3>5, ConstantFacts DEF Safe, ChannelsNameFiles
    <3>7. NoSharedDescriptor'
      BY <2>2, <3>2, <3>3 DEF Safe, NoSharedDescriptor
    <3>8. NoLostDescriptor => NoLostDescriptor'
      BY <3>2, <3>3, <3>5 DEF NoLostDescriptor
    <3>9. QED
      BY <3>1, <3>6, <3>7, <3>8 DEF Safe
  <2>4. CASE OpenUndone(fd, c)
    <3>1. TypeOK'
      BY <1>2, <2>4 DEF Safe, TypeOK, FsysOpen, OpenUndone, ChanFree, Objects,
                        Results, FSYS_ERR
    <3>2. FileChannels' = FileChannels /\ data' = data
      BY <2>1, <2>4, ConstantFacts DEF Safe, TypeOK, OpenUndone, ChanFree, FileChannels, IsOpen
    <3>3. g_fil_state' = g_fil_state
      BY <1>2, <2>4 DEF Safe, TypeOK, OpenUndone, FirstFree
    <3>4. \A f \in Fds : f # fd => g_file'[f] = g_file[f]
      BY <2>4 DEF Safe, TypeOK, OpenUndone
    <3>5. QED
      BY <2>2, <3>1, <3>2, <3>3, <3>4 DEF Safe, ChannelsNameFiles,
                                          NoSharedDescriptor, NoLostDescriptor
  <2>5. QED
    BY <2>3, <2>4
<1>3. QED
  BY <1>1, <1>2 DEF FsysOpen

(* fsys_close gives back the one descriptor that its channel names.        *)
LEMMA FsysCloseSafe ==
  ASSUME Safe, NEW c \in Channels, FsysClose(c)
  PROVE  Safe' /\ (NoLostDescriptor => NoLostDescriptor')
<1>1. data[c] \in Fds
  BY DEF Safe, ChannelsNameFiles, FsysClose
<1>2. TypeOK'
  BY <1>1 DEF Safe, TypeOK, FsysClose, FClose, ChanFree, Objects, Results, OK
<1>3. FileChannels' = FileChannels \ {c} /\ data' = data
  BY ConstantFacts DEF Safe, TypeOK, FsysClose, ChanFree, FileChannels, IsOpen
<1>4. \A x \in FileChannels' : data[x] # data[c]
  BY <1>3 DEF Safe, NoSharedDescriptor, FsysClose
<1>5. \A f \in Fds : f # data[c] => g_fil_state'[f] = g_fil_state[f] /\ g_file'[f] = g_file[f]
  BY DEF Safe, TypeOK, FsysClose, FClose
<1>6. g_fil_state'[data[c]] = 0
  BY <1>1 DEF Safe, TypeOK, FsysClose
<1>7. ChannelsNameFiles' /\ NoSharedDescriptor'
  BY <1>3, <1>4, <1>5 DEF Safe, ChannelsNameFiles, NoSharedDescriptor
<1>8. NoLostDescriptor => NoLostDescriptor'
  BY <1>3, <1>5, <1>6 DEF NoLostDescriptor
<1>9. QED
  BY <1>2, <1>7, <1>8 DEF Safe

(* Mounting a drive makes objects stale; none becomes closed.              *)
LEMMA FsysMountSafe ==
  ASSUME Safe, NEW drive \in Drives, FsysMount(drive)
  PROVE  Safe' /\ (NoLostDescriptor => NoLostDescriptor')
<1>1. TypeOK'
  BY DEF Safe, TypeOK, FsysMount, chans, Objects, Results, OK, FSYS_ERR
<1>2. FileChannels' = FileChannels
  BY DEF FsysMount, chans, FileChannels, IsOpen
<1>3. \A f \in Fds : g_file[f] # Closed => g_file'[f] # Closed
  BY ConstantFacts DEF FsysMount
<1>4. QED
  BY <1>1, <1>2, <1>3 DEF Safe, FsysMount, chans, ChannelsNameFiles,
                          NoSharedDescriptor, NoLostDescriptor

-----------------------------------------------------------------------------
(* Input and output leave the tables alone.                                *)
LEMMA ChanIoSafe ==
  ASSUME Safe, NEW c \in Channels, ChanIo(c)
  PROVE  Safe' /\ (NoLostDescriptor => NoLostDescriptor')
<1>1. UNCHANGED <<chans, registered, g_fil_state, g_file>>
  BY DEF ChanIo
<1>2. result' \in Results /\ reached' \in Objects \cup {None}
  BY DEF Safe, TypeOK, ChanIo, FchanToFile, FatFs, ChanGetRecords, Results, OK, FSYS_ERR,
         DEV_ERR_BADDEV, ERR_BADCHANNEL
<1>3. FileChannels' = FileChannels
  BY <1>1 DEF chans, FileChannels, IsOpen
<1>4. QED
  BY <1>1, <1>2, <1>3 DEF Safe, TypeOK, chans, ChannelsNameFiles, NoSharedDescriptor,
                          NoLostDescriptor

-----------------------------------------------------------------------------
(* Every call but chan_open preserves both.                                *)
LEMMA OtherCallsSafe ==
  ASSUME Safe, OtherCalls
  PROVE  Safe' /\ (NoLostDescriptor => NoLostDescriptor')
BY CdevRegisterSafe, ChanCloseSafe, ChanSwapSafe, FsysOpenSafe, FsysCloseSafe,
   FsysMountSafe, ChanIoSafe DEF OtherCalls

LEMMA StutterSafe ==
  ASSUME Safe, UNCHANGED vars
  PROVE  Safe' /\ (NoLostDescriptor => NoLostDescriptor')
BY DEF vars, Safe, TypeOK, ChannelsNameFiles, NoSharedDescriptor, NoLostDescriptor,
       FileChannels, IsOpen

(* The tables keep their types under any sequence of calls: in particular  *)
(* fsys_close never indexes g_file with the data block of another driver.  *)
THEOREM TypeCorrect == Spec => []TypeOK
<1>1. Safe /\ [Next]_vars => Safe'
  BY OtherCallsSafe, ChanOpenSafe, StutterSafe DEF Next
<1>2. Safe => TypeOK
  BY DEF Safe
<1>3. QED
  BY InitSafe, <1>1, <1>2, PTL DEF Spec

(* Whatever programs do, two open file channels never name one descriptor. *)
THEOREM NeverShared == Spec => []NoSharedDescriptor
<1>1. Safe /\ [Next]_vars => Safe'
  BY OtherCallsSafe, ChanOpenSafe, StutterSafe DEF Next
<1>2. Safe => NoSharedDescriptor
  BY DEF Safe
<1>3. QED
  BY InitSafe, <1>1, <1>2, PTL DEF Spec

(* Under careful programs descriptors and file channels correspond one to  *)
(* one: none is shared, none dangles and none is lost.                     *)
THEOREM Ownership == CarefulSpec => []FdOwnership
<1> DEFINE IInv == Safe /\ NoLostDescriptor
<1>1. Init => IInv
  BY InitSafe
<1>2. IInv /\ [CarefulNext]_vars => IInv'
  BY OtherCallsSafe, ChanOpenSafe, StutterSafe DEF CarefulNext
<1>3. IInv => FdOwnership
  BY DEF Safe, FdOwnership
<1>4. QED
  BY <1>1, <1>2, <1>3, PTL DEF CarefulSpec

-----------------------------------------------------------------------------
(* No handle is used up for good.                                          *)

(* When every descriptor is allocated, the file channels are as many as    *)
(* the descriptors: data[0] is a bijection between them.                   *)
LEMMA AllAllocated ==
  ASSUME Safe, NoLostDescriptor, \A fd \in Fds : g_fil_state[fd] = 1
  PROVE  Cardinality(FileChannels) = MAX_FILES
<1> DEFINE f == [c \in FileChannels |-> data[c]]
<1>1. f \in [FileChannels -> Fds]
  BY DEF Safe, ChannelsNameFiles
<1>2. \A c1, c2 \in FileChannels : f[c1] = f[c2] => c1 = c2
  BY DEF Safe, NoSharedDescriptor
<1>3. \A fd \in Fds : \E c \in FileChannels : f[c] = fd
  BY DEF NoLostDescriptor
<1> HIDE DEF f
<1>4. f \in Bijection(FileChannels, Fds)
  BY <1>1, <1>2, <1>3 DEF Bijection, Injection, Surjection, IsInjective
<1>5. ExistsBijection(Fds, FileChannels)
  BY <1>4, Fun_ExistsBijSymmetric DEF ExistsBijection
<1>6. IsFiniteSet(Fds) /\ Cardinality(Fds) = MAX_FILES
  <2>1. 0 \in Int /\ MAX_FILES - 1 \in Int /\ MAX_FILES \in Nat
    BY ConstantFacts
  <2>2. IsFiniteSet(0 .. MAX_FILES - 1)
    BY <2>1, FS_Interval
  <2>3. Cardinality(0 .. MAX_FILES - 1) =
          IF 0 > MAX_FILES - 1 THEN 0 ELSE (MAX_FILES - 1) - 0 + 1
    BY <2>1, FS_Interval, Zenon
  <2>4. QED
    BY <2>1, <2>2, <2>3 DEF Fds
<1>7. QED
  BY <1>5, <1>6, FS_Bijection

(* Under careful programs, with tables of any size, fsys_open refuses for  *)
(* want of handles only when MAX_FILES files are open or every channel of  *)
(* the pool is: no failure, close, swap or change of media before it has   *)
(* used up a descriptor for good.                                          *)
THEOREM HandlesComeBack == CarefulSpec => RefusedOnlyWhenFull
<1> DEFINE IInv == Safe /\ NoLostDescriptor
           Refused == \A p \in Paths :
                        FsysOpen(p) /\ result' = ERR_OUT_OF_HANDLES =>
                          \/ Cardinality(FileChannels) = MAX_FILES
                          \/ \A c \in Pool : IsOpen(c)
<1>1. Init => IInv
  BY InitSafe
<1>2. IInv /\ [CarefulNext]_vars => IInv'
  BY OtherCallsSafe, ChanOpenSafe, StutterSafe DEF CarefulNext
<1>3. IInv => Refused
  <2> SUFFICES ASSUME IInv, NEW p \in Paths, FsysOpen(p), result' = ERR_OUT_OF_HANDLES
               PROVE  Cardinality(FileChannels) = MAX_FILES \/ \A c \in Pool : IsOpen(c)
    OBVIOUS
  <2>1. OpenRefused
    BY DEF FsysOpen, OpenDone, OpenUndone, OK, FSYS_ERR, ERR_OUT_OF_HANDLES
  <2>2. QED
    BY <2>1, AllAllocated DEF OpenRefused, NoChannel
<1>4. IInv /\ [CarefulNext]_vars => [Refused]_vars
  BY <1>3
<1>5. QED
  BY <1>1, <1>2, <1>4, PTL DEF CarefulSpec, RefusedOnlyWhenFull

-----------------------------------------------------------------------------
(* The two tables together implement the table of open files.              *)

LEMMA SameTable ==
  ASSUME FileChannels' = FileChannels,
         \A c \in FileChannels : g_file'[data'[c]] = g_file[data[c]]
  PROVE  Table' = Table
BY DEF Table

LEMMA InitPromise == Init => Promise!Init
<1> SUFFICES ASSUME Init PROVE Promise!Init
  OBVIOUS
<1>1. FileChannels = {}
  BY ConstantFacts DEF Init, FileChannels, IsOpen
<1>2. QED
  BY <1>1 DEF Init, Table, Promise!Init

(* Calls on devices and mounts that fail happen elsewhere.                 *)
LEMMA CdevRegisterPromise ==
  ASSUME NEW d \in Devices, CdevRegister(d)
  PROVE  Promise!Elsewhere
BY SameTable DEF CdevRegister, chans, FileChannels, IsOpen, Promise!Elsewhere

LEMMA ChanOpenPromise ==
  ASSUME Safe, NEW d \in Devices \ FileChannels, ChanOpen(d)
  PROVE  Promise!Elsewhere
<1>1. FileChannels' = FileChannels /\ \A x \in FileChannels : data'[x] = data[x]
  <2>1. CASE UNCHANGED chans
    BY <2>1 DEF chans, FileChannels, IsOpen
  <2>2. ASSUME NEW c \in Channels, ChanAlloc(d, c), DriverOpen(d, c, result')
        PROVE  FileChannels' = FileChannels /\ \A x \in FileChannels : data'[x] = data[x]
    <3>1. c \notin FileChannels
      BY <2>2, PoolAllocIsFree, FixedAlloc, ConstantFacts DEF FileChannels, Devices
    <3>2. FileChannels' = FileChannels \ {c}
      BY <2>2, ConstantFacts DEF Safe, TypeOK, ChanOpen, DriverOpen, FileChannels, IsOpen
    <3>3. \A x \in FileChannels : data'[x] = data[x]
      BY <2>2, <3>1 DEF Safe, TypeOK, DriverOpen, FileChannels
    <3>4. QED
      BY <3>1, <3>2, <3>3
  <2>3. QED
    BY <2>1, <2>2 DEF ChanOpen
<1>2. UNCHANGED g_file /\ reached' = None
  BY DEF ChanOpen
<1>3. QED
  BY <1>1, <1>2, SameTable DEF Promise!Elsewhere

LEMMA ChanClosePromise ==
  ASSUME Safe, NEW c \in Channels, ChanClose(c)
  PROVE  Promise!Elsewhere
<1>1. FileChannels' = FileChannels /\ UNCHANGED <<data, g_file>> /\ reached' = None
  <2>1. CASE IsOpen(c)
    <3>1. number'[c] = -1 /\ \A x \in Channels \ {c} : number'[x] = number[x] /\ dev'[x] = dev[x]
      BY <2>1 DEF Safe, TypeOK, ChanClose, ChanFree
    <3>2. c \notin FileChannels /\ c \notin FileChannels'
      BY <3>1, ConstantFacts DEF ChanClose, FileChannels, IsOpen
    <3>3. QED
      BY <2>1, <3>1, <3>2 DEF FileChannels, IsOpen, ChanClose, ChanFree
  <2>2. CASE ~IsOpen(c)
    BY <2>2 DEF ChanClose, chans, FileChannels, IsOpen
  <2>3. QED
    BY <2>1, <2>2
<1>2. QED
  BY <1>1, SameTable DEF Promise!Elsewhere

(* A swap of channels is a swap of the files they carry.                   *)
LEMMA ChanSwapPromise ==
  ASSUME Safe, NEW c1 \in Channels, NEW c2 \in Channels, ChanSwap(c1, c2)
  PROVE  Promise!Swap(c1, c2)
<1> DEFINE Other(c) == Promise!Other(c1, c2, c)
<1>1. \A c \in Channels : /\ Other(c) \in Channels
                          /\ dev'[c] = dev[Other(c)] /\ data'[c] = data[Other(c)]
                          /\ IsOpen(c)' <=> IsOpen(Other(c))
  BY DEF Safe, TypeOK, ChanSwap, IsOpen, Promise!Other
<1> HIDE DEF Other
<1>2. \A c \in Channels : c \in FileChannels' <=> Other(c) \in FileChannels
  BY <1>1 DEF FileChannels
<1>3. FileChannels' = {c \in Channels : Other(c) \in DOMAIN Table}
  BY <1>2 DEF FileChannels, Table
<1>4. \A c \in FileChannels' : g_file'[data'[c]] = Table[Other(c)]
  <2> TAKE c \in FileChannels'
  <2>1. c \in Channels /\ Other(c) \in FileChannels
    BY <1>2 DEF FileChannels
  <2>2. UNCHANGED g_file
    BY DEF ChanSwap
  <2>3. QED
    BY <1>1, <2>1, <2>2 DEF Table
<1>5. Table' = [c \in {x \in Channels : Other(x) \in DOMAIN Table} |-> Table[Other(c)]]
  BY <1>3, <1>4 DEF Table
<1>6. reached' = None
  BY DEF ChanSwap
<1>7. QED
  BY <1>5, <1>6 DEF Other, Promise!Swap

(* An open adds one file on a channel that carried none, or nothing: the   *)
(* object of a descriptor that no channel names may change meanwhile.      *)
LEMMA FsysOpenPromise ==
  ASSUME Safe, NEW p \in Paths, FsysOpen(p)
  PROVE  Promise!Elsewhere \/ \E c \in Channels : Promise!Open(c, p)
<1>1. reached' = None
  BY DEF FsysOpen
<1>2. CASE OpenRefused
  <2>1. FileChannels' = FileChannels
    BY <1>2 DEF OpenRefused, chans, FileChannels, IsOpen
  <2>2. QED
    BY <1>1, <1>2, <2>1, SameTable DEF OpenRefused, chans, Promise!Elsewhere
<1>3. ASSUME NEW fd \in Fds, NEW c \in Channels, FirstFree(fd),
             ChanAlloc(CDEV_FILE, c)
      PROVE  /\ OpenDone(p, fd, c) => Promise!Open(c, p)
             /\ OpenUndone(fd, c) => Promise!Elsewhere
  <2>1. c \notin FileChannels
    BY <1>3, PoolAllocIsFree, ConstantFacts DEF FileChannels
  <2>2. \A x \in FileChannels : data[x] \in Fds /\ data[x] # fd
    BY <1>3 DEF Safe, ChannelsNameFiles, FirstFree
  <2>3. ASSUME OpenDone(p, fd, c) PROVE Promise!Open(c, p)
    <3>1. FileChannels' = FileChannels \cup {c}
      BY <2>3, ConstantFacts DEF Safe, TypeOK, OpenDone, FileChannels, IsOpen
    <3>2. data'[c] = fd /\ \A x \in FileChannels : data'[x] = data[x]
      BY <2>1, <2>3 DEF Safe, TypeOK, OpenDone, FileChannels
    <3>3. g_file'[fd] = p /\ \A f \in Fds : f # fd => g_file'[f] = g_file[f]
      BY <2>3 DEF Safe, TypeOK, OpenDone
    <3>4. \A x \in FileChannels' : g_file'[data'[x]] = IF x = c THEN p ELSE Table[x]
      BY <2>1, <2>2, <3>1, <3>2, <3>3 DEF Table
    <3>5. Table' = [x \in DOMAIN Table \cup {c} |-> IF x = c THEN p ELSE Table[x]]
      BY <3>1, <3>4 DEF Table
    <3>6. c \notin DOMAIN Table
      BY <2>1 DEF Table
    <3>7. QED
      BY <1>1, <2>1, <3>5, <3>6 DEF Promise!Open
  <2>4. ASSUME OpenUndone(fd, c) PROVE Promise!Elsewhere
    <3>1. FileChannels' = FileChannels /\ data' = data
      BY <2>1, <2>4, ConstantFacts DEF Safe, TypeOK, OpenUndone, ChanFree, FileChannels, IsOpen
    <3>2. \A f \in Fds : f # fd => g_file'[f] = g_file[f]
      BY <2>4 DEF Safe, TypeOK, OpenUndone
    <3>3. QED
      BY <1>1, <2>2, <3>1, <3>2, SameTable DEF Promise!Elsewhere
  <2>5. QED
    BY <2>3, <2>4
<1>4. QED
  BY <1>2, <1>3 DEF FsysOpen

(* A close reaches the file of its channel and takes it off the table.     *)
LEMMA FsysClosePromise ==
  ASSUME Safe, NEW c \in Channels, FsysClose(c)
  PROVE  Promise!Close(c)
<1>1. c \in FileChannels /\ data[c] \in Fds /\ reached' = g_file[data[c]]
  BY DEF Safe, ChannelsNameFiles, FsysClose
<1>2. FileChannels' = FileChannels \ {c} /\ data' = data
  BY ConstantFacts DEF Safe, TypeOK, FsysClose, ChanFree, FileChannels, IsOpen
<1>3. \A x \in FileChannels' : data[x] \in Fds /\ data[x] # data[c]
  BY <1>1, <1>2 DEF Safe, NoSharedDescriptor, ChannelsNameFiles
<1>4. \A f \in Fds : f # data[c] => g_file'[f] = g_file[f]
  BY DEF Safe, TypeOK, FsysClose, FClose
<1>5. \A x \in FileChannels' : g_file'[data'[x]] = Table[x]
  BY <1>2, <1>3, <1>4 DEF Table
<1>6. Table' = [x \in DOMAIN Table \ {c} |-> Table[x]]
  BY <1>2, <1>5 DEF Table
<1>7. QED
  BY <1>1, <1>6 DEF Table, Promise!Close

LEMMA FsysMountPromise ==
  ASSUME Safe, NEW drive \in Drives, FsysMount(drive)
  PROVE  Promise!Elsewhere \/ Promise!Remount(drive)
<1>1. FileChannels' = FileChannels /\ data' = data /\ reached' = None
  BY DEF FsysMount, chans, FileChannels, IsOpen
<1>2. CASE UNCHANGED g_file
  BY <1>1, <1>2, SameTable DEF Promise!Elsewhere
<1>3. CASE g_file' = [fd \in Fds |-> IF g_file[fd] \in drive THEN Stale ELSE g_file[fd]]
  <2>1. \A c \in FileChannels : g_file'[data'[c]] = IF Table[c] \in drive THEN Stale ELSE Table[c]
    BY <1>1, <1>3 DEF Safe, ChannelsNameFiles, Table
  <2>2. Table' = [c \in DOMAIN Table |-> IF Table[c] \in drive THEN Stale ELSE Table[c]]
    BY <1>1, <2>1 DEF Table
  <2>3. QED
    BY <1>1, <2>2 DEF Promise!Remount
<1>4. QED
  BY <1>2, <1>3 DEF FsysMount

(* Input and output on a file channel reach the file of that channel.      *)
LEMMA ChanIoPromise ==
  ASSUME Safe, NEW c \in Channels, ChanIo(c)
  PROVE  Promise!Elsewhere \/ Promise!Use(c)
<1>1. Table' = Table
  BY SameTable DEF ChanIo, chans, FileChannels, IsOpen
<1>2. reached' = None \/ (c \in FileChannels /\ reached' = g_file[data[c]])
  BY DEF ChanIo, FatFs
<1>3. QED
  BY <1>1, <1>2 DEF Table, Promise!Elsewhere, Promise!Use

(* Under careful programs, whatever the size of the tables, the channel    *)
(* table and the descriptors are together a table of open files: every     *)
(* operation on a channel reaches the file opened on it.                   *)
THEOREM OpenFilesImplemented == CarefulSpec => ImplementsOpenFiles
<1> DEFINE IInv == Safe /\ NoLostDescriptor
<1>1. IInv /\ [CarefulNext]_vars => IInv'
  BY OtherCallsSafe, ChanOpenSafe, StutterSafe DEF CarefulNext
<1>2. Safe /\ CarefulNext => Promise!Next
  BY CdevRegisterPromise, ChanOpenPromise, ChanClosePromise, ChanSwapPromise,
     FsysOpenPromise, FsysClosePromise, FsysMountPromise, ChanIoPromise
     DEF CarefulNext, OtherCalls, Promise!Next
<1>3. UNCHANGED vars => UNCHANGED Promise!vars
  BY DEF vars, chans, Promise!vars, Table, FileChannels, IsOpen
<1>4. IInv /\ [CarefulNext]_vars => [Promise!Next]_(Promise!vars)
  BY <1>2, <1>3
<1>5. QED
  BY InitSafe, InitPromise, <1>1, <1>4, PTL DEF CarefulSpec, ImplementsOpenFiles, Promise!Spec

-----------------------------------------------------------------------------
(* Directory handles. *)

(* A call that opens takes a free handle, which no program holds.          *)
LEMMA FreeNotHeld ==
  ASSUME DirTypeOK, NEW h \in Handles, FirstFreeDir(h)
  PROVE  h \notin held
  BY DEF DirTypeOK, FirstFreeDir

(* What a careful program may do leaves every variable in its range.       *)
LEMMA DirTypeStep == DirTypeOK /\ [CarefulDirNext]_dirVars => DirTypeOK'
<1> SUFFICES ASSUME DirTypeOK, [CarefulDirNext]_dirVars PROVE DirTypeOK'
  OBVIOUS
<1> USE DirectoryAssumption, ObjectAssumption
<1>1. ASSUME NEW d \in Paths, FsysOpendir(d) PROVE DirTypeOK'
  <2>1. CASE NoneFree /\ UNCHANGED <<g_dir_state, g_directory, held>>
             /\ dir_result' = ERR_OUT_OF_HANDLES /\ scanned' = None
    BY <2>1 DEF DirTypeOK, DirResults
  <2>2. ASSUME NEW h \in Handles, FirstFreeDir(h), Taken(h), DirOpened(d, h), scanned' = None
        PROVE  DirTypeOK'
    BY <2>2 DEF DirTypeOK, DirResults, Taken, DirOpened, Objects
  <2>3. ASSUME NEW h \in Handles, FirstFreeDir(h), Taken(h), OpenFailed(h, {Closed}), scanned' = None
        PROVE  DirTypeOK'
    BY <2>3, FreeNotHeld DEF DirTypeOK, DirResults, Taken, OpenFailed, Objects
  <2> QED BY <1>1, <2>1, <2>2, <2>3 DEF FsysOpendir
<1>2. ASSUME NEW d \in Paths, ~NoneFree, FsysFindfirst(d) PROVE DirTypeOK'
  <2>1. ASSUME NEW h \in Handles, FirstFreeDir(h), Taken(h), DirOpened(d, h), scanned' = None
        PROVE  DirTypeOK'
    BY <2>1 DEF DirTypeOK, DirResults, Taken, DirOpened, Objects
  <2>2. ASSUME NEW h \in Handles, FirstFreeDir(h), Taken(h), OpenFailed(h, {Closed, d}), scanned' = None
        PROVE  DirTypeOK'
    BY <2>2, FreeNotHeld DEF DirTypeOK, DirResults, Taken, OpenFailed, Objects
  <2> QED BY <1>2, <2>1, <2>2 DEF FsysFindfirst
<1>3. ASSUME NEW h \in Nameable, FsysReaddir(h) PROVE DirTypeOK'
  BY <1>3 DEF DirTypeOK, DirResults, FsysReaddir, Nameable, Objects
<1>4. ASSUME NEW h \in Nameable, FsysClosedir(h) PROVE DirTypeOK'
  BY <1>4 DEF DirTypeOK, DirResults, FsysClosedir, FClosedir, Nameable, Objects
<1>5. ASSUME NEW drive \in Drives, FsysMountDirs(drive) PROVE DirTypeOK'
  BY <1>5 DEF DirTypeOK, DirResults, FsysMountDirs, Objects
<1>6. CASE UNCHANGED dirVars
  BY <1>6 DEF DirTypeOK, dirVars
<1> QED BY <1>1, <1>2, <1>3, <1>4, <1>5, <1>6 DEF CarefulDirNext, OtherDirCalls

(* A handle that a careful program holds is allocated and was opened, for  *)
(* any number of handles: fsys_opendir, fsys_findfirst, fsys_closedir.     *)
THEOREM DirTypeCorrect == CarefulDirSpec => []DirTypeOK
<1>1. DirInit => DirTypeOK
  BY DirectoryAssumption, ObjectAssumption DEF DirInit, DirTypeOK, Objects, DirResults
<1> QED BY <1>1, DirTypeStep, PTL DEF CarefulDirSpec

(* Only a failing call loses a handle, for any number of handles.          *)
THEOREM LossesAreFailures == CarefulDirSpec => LostOnlyByFailure
<1>1. DirTypeOK /\ [CarefulDirNext]_dirVars => [Lost' # Lost => dir_result' = FSYS_ERR]_dirVars
  <2> SUFFICES ASSUME DirTypeOK, CarefulDirNext, dir_result' # FSYS_ERR PROVE Lost' = Lost
    OBVIOUS
  <2>1. ASSUME NEW d \in Paths, NEW h \in Handles, FirstFreeDir(h), Taken(h), DirOpened(d, h)
        PROVE  Lost' = Lost
    BY <2>1 DEF DirTypeOK, Lost, Taken, DirOpened, FirstFreeDir
  <2>2. ASSUME NEW d \in Paths, FsysOpendir(d) PROVE Lost' = Lost
    BY <2>1, <2>2 DEF FsysOpendir, OpenFailed, Lost
  <2>3. ASSUME NEW d \in Paths, ~NoneFree, FsysFindfirst(d) PROVE Lost' = Lost
    BY <2>1, <2>3 DEF FsysFindfirst, OpenFailed, Lost
  <2>4. ASSUME NEW h \in Nameable, FsysReaddir(h) PROVE Lost' = Lost
    BY <2>4 DEF FsysReaddir, Lost
  <2>5. ASSUME NEW h \in Nameable, FsysClosedir(h) PROVE Lost' = Lost
    BY <2>5 DEF FsysClosedir, Lost, DirTypeOK, Nameable
  <2>6. ASSUME NEW drive \in Drives, FsysMountDirs(drive) PROVE Lost' = Lost
    BY <2>6 DEF FsysMountDirs, Lost
  <2> QED BY <2>2, <2>3, <2>4, <2>5, <2>6 DEF CarefulDirNext, OtherDirCalls
<1> QED BY <1>1, DirTypeCorrect, PTL DEF CarefulDirSpec, LostOnlyByFailure

-----------------------------------------------------------------------------
(* The refinement: each call is a step of the table of open directories.   *)

LEMMA OpenStep ==
  ASSUME DirTypeOK, NEW d \in Paths, NEW h \in Handles, FirstFreeDir(h), DirOpened(d, h), scanned' = None
  PROVE  DirPromise!Next
<1>1. h \notin held
  BY FreeNotHeld
<1>2. DirPromise!Open(h, d)
  BY <1>1 DEF DirPromise!Open, DirOpened, DirTable, DirTypeOK
<1> QED BY <1>2 DEF DirPromise!Next

LEMMA FailedStep ==
  ASSUME DirTypeOK, NEW h \in Handles, FirstFreeDir(h), NEW objects, OpenFailed(h, objects), scanned' = None
  PROVE  DirPromise!Next
<1>1. h \notin held
  BY FreeNotHeld
<1>2. DirPromise!Elsewhere
  BY <1>1 DEF DirPromise!Elsewhere, OpenFailed, DirTable, DirTypeOK
<1> QED BY <1>2 DEF DirPromise!Next

LEMMA ReadStep ==
  ASSUME DirTypeOK, NEW h \in Nameable, FsysReaddir(h)
  PROVE  DirPromise!Next
<1>1. CASE h \in held
  <2>1. DirPromise!Use(h)
    BY <1>1 DEF DirPromise!Use, FsysReaddir, DirTable, DirTypeOK
  <2> QED BY <2>1 DEF DirPromise!Next, Nameable
<1>2. CASE h \notin held
  <2>1. DirPromise!Elsewhere
    BY <1>2 DEF DirPromise!Elsewhere, FsysReaddir, DirTable, Nameable
  <2> QED BY <2>1 DEF DirPromise!Next
<1> QED BY <1>1, <1>2

LEMMA CloseStep ==
  ASSUME DirTypeOK, NEW h \in Nameable, FsysClosedir(h)
  PROVE  DirPromise!Next
<1>1. CASE h \in held
  <2>1. DirPromise!Close(h)
    BY <1>1 DEF DirPromise!Close, FsysClosedir, FClosedir, DirTable, DirTypeOK
  <2> QED BY <2>1 DEF DirPromise!Next, Nameable
<1>2. CASE h \notin held
  <2>1. DirPromise!Elsewhere
    BY <1>2 DEF DirPromise!Elsewhere, FsysClosedir, DirTable, Nameable
  <2> QED BY <2>1 DEF DirPromise!Next
<1> QED BY <1>1, <1>2

LEMMA MountStep ==
  ASSUME DirTypeOK, NEW drive \in Drives, FsysMountDirs(drive)
  PROVE  DirPromise!Next
<1>1. CASE g_directory' = [h \in Handles |->
                             IF g_directory[h] \in drive THEN Stale ELSE g_directory[h]]
  <2>1. DirPromise!Remount(drive)
    BY <1>1 DEF DirPromise!Remount, FsysMountDirs, DirTable, DirTypeOK
  <2> QED BY <2>1 DEF DirPromise!Next
<1>2. CASE UNCHANGED g_directory
  <2>1. DirPromise!Elsewhere
    BY <1>2 DEF DirPromise!Elsewhere, FsysMountDirs, DirTable
  <2> QED BY <2>1 DEF DirPromise!Next
<1> QED BY <1>1, <1>2 DEF FsysMountDirs

(* With any number of handles, directories and drives, each handle reads   *)
(* the directory it was opened on.                                         *)
THEOREM TableImplemented == CarefulDirSpec => ImplementsOpenDirectories
<1>1. DirInit => DirPromise!Init
  BY DEF DirInit, DirPromise!Init, DirTable
<1>2. DirTypeOK /\ [CarefulDirNext]_dirVars => [DirPromise!Next]_(DirPromise!vars)
  <2> SUFFICES ASSUME DirTypeOK, [CarefulDirNext]_dirVars PROVE DirPromise!Next \/ UNCHANGED DirPromise!vars
    OBVIOUS
  <2>1. ASSUME NEW d \in Paths, FsysOpendir(d) PROVE DirPromise!Next
    <3>1. CASE NoneFree /\ UNCHANGED <<g_dir_state, g_directory, held>> /\ scanned' = None
      <4>1. DirPromise!Elsewhere
        BY <3>1 DEF DirPromise!Elsewhere, DirTable
      <4> QED BY <4>1 DEF DirPromise!Next
    <3> QED BY <2>1, <3>1, OpenStep, FailedStep DEF FsysOpendir
  <2>2. ASSUME NEW d \in Paths, ~NoneFree, FsysFindfirst(d) PROVE DirPromise!Next
    BY <2>2, OpenStep, FailedStep DEF FsysFindfirst
  <2>3. CASE UNCHANGED dirVars
    BY <2>3 DEF dirVars, DirPromise!vars, DirTable
  <2> QED BY <2>1, <2>2, <2>3, ReadStep, CloseStep, MountStep DEF CarefulDirNext, OtherDirCalls
<1> QED BY <1>1, <1>2, DirTypeCorrect, PTL DEF CarefulDirSpec, ImplementsOpenDirectories, DirPromise!Spec
=============================================================================
