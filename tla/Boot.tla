-------------------------------- MODULE Boot --------------------------------
(***************************************************************************)
(* The boot screen of src/src/boot.c: which sources can be booted, the     *)
(* wait for a key, and the launch, which for an SD card is a run of the    *)
(* loaders.  The counter ticks, keys arrive and SD cards are pulled        *)
(* between any two steps.                                                  *)
(***************************************************************************)
EXTENDS Loaders, Timers

CONSTANTS
  Timeout,      \* 60 * 15
  StartMax,     \* bound on the counter when the wait begins
  JiffiesMax,   \* bound on the counter
  SDFiles,      \* the sets of boot files that an SD card may hold at first
  Keys,         \* the keys that may be pressed: n for Fn, or SPACE
  SPACE, NONE   \* NONE is no source and no key

RecordSources == {"RAM", "CARTRIDGE", "ROM"}
CardSources == {"SD0", "SD1"}
Sources == RecordSources \cup CardSources

ASSUME BootAssumption ==
  /\ Timeout \in Nat /\ StartMax \in Nat /\ JiffiesMax \in Nat
  /\ JiffiesMax >= StartMax + LowSize + Timeout
  /\ NONE \notin Sources /\ NONE \notin Keys

VARIABLES
  stage,          \* where boot_screen is
  boot_ram,       \* the DIP switch allows boot from RAM
  media,          \* what each source holds: a boot record, or boot files
  bootable,       \* positions in the chain found to be bootable
  boot_source,
  key,            \* the scan code that waits, or NONE
  jiffies_target,
  found,          \* history: the sources that held something at the scan
  asked,          \* history: when the wait began
  chosen          \* history: the source the user chose, or NONE

clock == <<jiffies, reading, jiffies_target, asked>>
choice == <<bootable, boot_source, found, chosen>>
vars == <<stage, boot_ram, media, key, clock, choice, loading>>

Init ==
  /\ LoadInit
  /\ stage = "scan"
  /\ boot_ram \in BOOLEAN
  /\ media \in [Sources -> SDFiles \cup {{}, {"record"}}]
  /\ \A s \in RecordSources : media[s] \in {{}, {"record"}}
  /\ \A s \in CardSources : media[s] \in SDFiles
  /\ bootable = {} /\ boot_source = NONE /\ found = {} /\ chosen = NONE
  /\ key = NONE
  /\ TimersInit /\ jiffies_target = 0 /\ asked = 0

-----------------------------------------------------------------------------
(* The scan. *)

boot_chain ==
  (IF boot_ram THEN <<"RAM">> ELSE <<>>) \o <<"CARTRIDGE", "SD0", "SD1", "ROM">>

(* The RAM is counted and three of the others. *)
boot_src_cnt == IF boot_ram THEN 4 ELSE 3

(* is_bootable: a valid boot record, or a boot file of either format. *)
IsBootable(s) == s \in Sources /\ media[s] # {}

(* Mutant of Default: the last one is kept. *)
DefaultLast(positions) ==
  IF positions = {} THEN NONE
  ELSE boot_chain[CHOOSE p \in positions : \A q \in positions : q <= p]

(* The first of the positions found, by the order of the chain. *)
Default(positions) ==
  IF positions = {} THEN NONE
  ELSE boot_chain[CHOOSE p \in positions : \A q \in positions : p <= q]

Scan ==
  /\ stage = "scan"
  /\ bootable' = {p \in 1 .. boot_src_cnt : IsBootable(boot_chain[p])}
  /\ boot_source' = Default(bootable')
  /\ found' = {s \in Sources : IsBootable(s)}
  /\ stage' = "target"
  /\ UNCHANGED <<boot_ram, media, key, clock, chosen, loading>>

-----------------------------------------------------------------------------
(* The wait. *)

(* The first byte of a reading. *)
ReadFirst ==
  /\ stage \in {"target", "wait"}
  /\ ReadHalf
  /\ asked' = IF stage = "target" THEN jiffies ELSE asked
  /\ UNCHANGED <<stage, boot_ram, media, key, jiffies, jiffies_target, choice, loading>>

(* Mutants of StillWaiting: waits until the counter is at its target; and  *)
(* compares the wrong way round.                                           *)
StillWaitingForTick == jiffies_target # JiffiesRead
StillWaitingReversed == jiffies_target < JiffiesRead

StillWaiting == jiffies_target > JiffiesRead

SetTarget ==
  /\ stage = "target"
  /\ ReadRest
  /\ jiffies_target' = JiffiesRead + Timeout
  /\ stage' = "wait"
  /\ UNCHANGED <<boot_ram, media, key, jiffies, asked, choice, loading>>

TestTarget ==
  /\ stage = "wait"
  /\ ReadRest
  /\ stage' = IF StillWaiting THEN "poll" ELSE "boot"
  /\ UNCHANGED <<boot_ram, media, key, jiffies, jiffies_target, asked, choice, loading>>

(* A function key selects the bootable source of that position.  F6 would  *)
(* be one behind the array.                                                *)
Selects(k) == k \in bootable

(* kbd_get_scancode, which does not wait: the key of a source, SPACE, or   *)
(* something else.                                                         *)
Poll ==
  /\ stage = "poll"
  /\ key' = NONE
  /\ \/ /\ key \in Keys \ {SPACE} /\ Selects(key)
        /\ boot_source' = boot_chain[key]
        /\ chosen' = boot_chain[key]
        /\ stage' = "boot"
     \/ /\ key = SPACE
        /\ stage' = "boot"
        /\ UNCHANGED <<boot_source, chosen>>
     \/ /\ key # SPACE
        /\ ~Selects(key)
        /\ stage' = "wait"
        /\ UNCHANGED <<boot_source, chosen>>
  /\ UNCHANGED <<boot_ram, media, bootable, found, clock, loading>>

-----------------------------------------------------------------------------
(* boot_from. *)

(* The file to boot from a card: PGZ before PGX. *)
BootFile(files) == IF "pgz" \in files THEN "PGZ" ELSE "PGX"

(* The boot screen does not come back: its variables and its surroundings  *)
(* matter no more.                                                         *)
Forget ==
  /\ media' = [s \in Sources |-> {}] /\ key' = NONE
  /\ bootable' = {} /\ boot_source' = NONE /\ found' = {} /\ chosen' = NONE
  /\ jiffies' = 0 /\ reading' = Unread /\ jiffies_target' = 0 /\ asked' = 0

BootFrom ==
  /\ stage = "boot"
  /\ \/ /\ boot_source \in CardSources /\ IsBootable(boot_source)
        /\ stage' = BootFile(media[boot_source])
     \/ /\ boot_source \in RecordSources
        /\ stage' = "running"
     \/ /\ boot_source \notin RecordSources
        /\ ~IsBootable(boot_source)
        /\ stage' = "nothing"
  /\ Forget
  /\ UNCHANGED <<boot_ram, loading>>

(* proc_run for the boot file, and the steps of its loader. *)
RunBootFile ==
  /\ load = "idle" /\ stage \in {"PGZ", "PGX"}
  /\ \E p \in Programs : p.format = stage /\ ProcRun(p)
  /\ UNCHANGED <<stage, boot_ram, media, key, clock, choice>>

Load ==
  /\ LoaderStep
  /\ UNCHANGED <<stage, boot_ram, media, key, clock, choice>>

-----------------------------------------------------------------------------
(* The surroundings. *)

CounterTicks ==
  /\ stage \in {"target", "wait", "poll"}
  /\ jiffies < IF stage = "target" THEN StartMax ELSE JiffiesMax
  /\ Tick
  /\ UNCHANGED <<stage, boot_ram, media, key, jiffies_target, asked, choice, loading>>

PressKey ==
  /\ stage \in {"target", "wait", "poll"}
  /\ key = NONE
  /\ key' \in Keys
  /\ UNCHANGED <<stage, boot_ram, media, clock, choice, loading>>

(* A card is pulled; what is read of it from then on fails. *)
PullCard(s) ==
  /\ stage \in {"target", "wait", "poll", "boot"}
  /\ media[s] # {}
  /\ media' = [media EXCEPT ![s] = {}]
  /\ UNCHANGED <<stage, boot_ram, key, clock, choice, loading>>

(* A program that was started from a boot record, a shell, registers a     *)
(* loader, loads a file, or runs another program.                          *)
Shell ==
  /\ stage = "running"
  /\ \/ \E p \in Programs, dest \in Destinations \cup {0} : FsysLoad(p, dest)
     \/ \E files \in Directories : ProcRunName(files)
     \/ \E extension \in Extensions : FsysRegisterLoader(extension)
  /\ UNCHANGED <<stage, boot_ram, media, key, clock, choice>>

Firmware == Scan \/ ReadFirst \/ SetTarget \/ TestTarget \/ Poll
              \/ BootFrom \/ RunBootFile \/ Load
Surroundings == CounterTicks \/ PressKey \/ Shell \/ \E s \in CardSources : PullCard(s)
Next == Firmware \/ Surroundings
Spec == Init /\ [][Next]_vars /\ WF_vars(Firmware) /\ WF_vars(CounterTicks)

-----------------------------------------------------------------------------
Over == stage \in {"running", "nothing"} \/ load \in {"executing", "loaded", "refused"}

(* Every variable stays within its range, and a loader only stores within  *)
(* memory.                                                                 *)
TypeOK ==
  /\ stage \in {"scan", "target", "wait", "poll", "boot", "PGZ", "PGX", "running", "nothing"}
  /\ bootable \subseteq 1 .. boot_src_cnt
  /\ boot_source \in Sources \cup {NONE} /\ chosen \in Sources \cup {NONE}
  /\ key \in Keys \cup {NONE}
  /\ jiffies \in 0 .. JiffiesMax /\ asked \in 0 .. jiffies
  /\ load \in {"idle", "reading", "executing", "loaded", "refused"}
  /\ Len(loaders) <= MAX_LOADERS
  /\ loader \in {"none", "PGZ", "PGX", "ELF", "default", "user"}
  /\ memory \in [Memory -> Byte]
  /\ locals.seg \in Nat /\ locals.dest \in 0 .. MemorySize

(* The order that the documentation gives (README.md:31), ROM being last.  *)
Documented == <<"RAM", "CARTRIDGE", "SD0", "SD1", "ROM">>
Considered == {s \in found : s = "RAM" => boot_ram}

(* What is launched is what the user chose; or else the first source, in   *)
(* the documented order, that could be booted when the screen looked, and  *)
(* not one that keys, ticks or pulled cards have put in its place.         *)
FirstOrChosen ==
  [][stage' \in {"PGZ", "PGX", "running"} /\ stage' # stage =>
       IF chosen # NONE THEN boot_source = chosen /\ chosen \in Considered
       ELSE \E p \in DOMAIN Documented :
              /\ boot_source = Documented[p]
              /\ Documented[p] \in Considered
              /\ \A q \in 1 .. p - 1 : Documented[q] \notin Considered]_vars

(* The user has the time that is announced, but for two carries of the low *)
(* byte: a reading of the counter may be wrong by one each time.           *)
TimeToChoose ==
  [][stage = "wait" /\ stage' = "boot" =>
       jiffies - asked >= Timeout - 2 * (LowSize - 1)]_vars

(* The screen ends: something runs or is found not to, whatever the user   *)
(* does and does not do.                                                   *)
BootEnds == <>Over
=============================================================================
