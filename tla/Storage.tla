------------------------------ MODULE Storage ------------------------------
(***************************************************************************)
(* The SD card driver (src/src/dev/sdc_spi.c) below the block devices      *)
(* (src/src/dev/block.c) and the disk layer of FatFs                       *)
(* (src/src/fatfs/toolbox_bdev.c), for one slot; the slots share nothing.  *)
(*                                                                         *)
(* A call is a sequence of commands and data blocks on the SPI bus.  The   *)
(* user may pull the card, or put one in, between any two of them: a card  *)
(* that is not there answers with ones, and one that has just got power    *)
(* answers nothing before CMD0.  The card itself is modelled by what the   *)
(* driver relies on; it keeps the time limits of its specification.        *)
(***************************************************************************)
EXTENDS Integers

CONSTANTS
  Kinds,      \* the kinds of cards the user has
  Blocks,     \* number of blocks of every card
  MaxCount,   \* bound: the longest transfer, in blocks
  Tries,      \* how often the driver asks a card to leave the idle state
  NoCard      \* an empty slot

VARIABLES
  card,            \* the card in the slot: kind, state, and what it transfers
  type,            \* the flags of t_sd_card_info.type
  noinit,          \* SDC_STAT_NOINIT of t_sd_card_info.status
  slow, selected,  \* the bits of the SPI control register
  call,            \* the block device call under way, or the last one
  step,            \* what the driver does next, "none" between calls
  count, index,    \* blocks left, and the block of the buffer it is at
  cmd, tmr,        \* the command repeated during initialisation; tries left
  moved,           \* block of the card and of the buffer, for each one moved
  result           \* what the last call returned

spi == <<slow, selected>>
info == <<type, noinit>>
vars == <<card, info, spi, call, step, count, index, cmd, tmr, moved, result>>

DEV_ERR_BADDEV == -2
ERR_BAD_ARGUMENT == -38
ERR_NOT_READY == -40

SECTOR_SIZE == 512
Numbers == 0 .. Blocks - 1
Off(kind) == [kind |-> kind, state |-> "off", multi |-> FALSE, at |-> 0]
States == {"off", "idle", "ready", "reading", "writing", "csd"}
Cards == [kind : Kinds, state : States, multi : BOOLEAN, at : 0 .. Blocks]

ASSUME StorageAssumption ==
  /\ Kinds \subseteq {"SDHC", "SDSC", "SDv1", "MMC"}
  /\ Blocks \in Nat /\ MaxCount \in Nat /\ Tries \in Nat \ {0}
  /\ NoCard \notin Cards

(* After sdc_install. *)
Init ==
  /\ card \in {NoCard} \cup {Off(kind) : kind \in Kinds}
  /\ type = {} /\ noinit = FALSE
  /\ slow = FALSE /\ selected = FALSE
  /\ call = [op |-> "none", lba |-> 0, count |-> 0]
  /\ step = "none"
  /\ count = 0 /\ index = 0
  /\ cmd = "ACMD41" /\ tmr = 0
  /\ moved = {}
  /\ result = 0

-----------------------------------------------------------------------------
(* The card. *)

NoAnswer == 255     \* no card, or no valid response in time
Illegal == 4        \* a bit of the response; 1 is the idle state
AddressError == 32

(* The block that an address means to the card: SDHC cards count blocks,   *)
(* the others bytes.                                                       *)
Addressed(c, arg) == IF c.kind = "SDHC" THEN arg ELSE arg \div SECTOR_SIZE
GoodAddress(c, arg) ==
  /\ c.kind = "SDHC" \/ arg % SECTOR_SIZE = 0
  /\ Addressed(c, arg) \in Numbers

Idle(c) == [c EXCEPT !.state = "idle", !.multi = FALSE]
Ready(c) == [c EXCEPT !.state = "ready", !.multi = FALSE]
Describe(c) == [c EXCEPT !.state = "csd"]
Transfer(c, state, multi, arg) ==
  [kind |-> c.kind, state |-> state, multi |-> multi, at |-> Addressed(c, arg)]

(* A card that is to be initialised takes its time to become ready; an     *)
(* SDHC card waits for a host that says it knows them (arg 1).             *)
Wakes(command, arg) ==
  \/ command = "ACMD41" /\ card.kind \in {"SDSC", "SDv1"}
  \/ command = "ACMD41" /\ card.kind = "SDHC" /\ arg = 1
  \/ command = "CMD1" /\ card.kind = "MMC"

Known(command) ==
  \/ command = "CMD8" /\ card.kind \in {"SDHC", "SDSC"}
  \/ command = "ACMD41" /\ card.kind # "MMC"
  \/ command = "CMD58"

IdleAnswers(command, arg, r) ==
  /\ card.state = "idle"
  /\ \/ Wakes(command, arg) /\ r = 0 /\ card' = Ready(card)
     \/ (Wakes(command, arg) \/ Known(command)) /\ r = 1 /\ UNCHANGED card
     \/ ~Wakes(command, arg) /\ ~Known(command) /\ r = 1 + Illegal /\ UNCHANGED card

Reads == {"CMD17", "CMD18"}
Writes == {"CMD24", "CMD25"}
Multiples == {"CMD18", "CMD25"}
Accepted == {"CMD16", "CMD58"} \cup IF card.kind = "MMC" THEN {"CMD1"} ELSE {"ACMD41", "ACMD23"}

ReadyAnswers(command, arg, r) ==
  /\ card.state = "ready"
  /\ \/ /\ command \in Reads \cup Writes
        /\ GoodAddress(card, arg)
        /\ r = 0
        /\ card' = Transfer(card, IF command \in Reads THEN "reading" ELSE "writing",
                            command \in Multiples, arg)
     \/ command \in Reads \cup Writes /\ ~GoodAddress(card, arg) /\ r = AddressError /\ UNCHANGED card
     \/ command = "CMD9" /\ r = 0 /\ card' = Describe(card)
     \/ command \in Accepted /\ r = 0 /\ UNCHANGED card
     \/ /\ command \notin Reads \cup Writes \cup Accepted \cup {"CMD9"}
        /\ r = Illegal /\ UNCHANGED card

TransferAnswers(command, r) ==
  /\ card.state \notin {"off", "idle", "ready"}
  /\ \/ command = "CMD12" /\ card.state = "reading" /\ r = 0 /\ card' = Ready(card)
     \/ ~(command = "CMD12" /\ card.state = "reading") /\ r = Illegal /\ UNCHANGED card

(* What the slot answers to a command. *)
Answers(command, arg, r) ==
  \/ card = NoCard /\ r = NoAnswer /\ UNCHANGED card
  \/ card # NoCard /\ command = "CMD0" /\ r = 1 /\ card' = Idle(card)
  \/ /\ card # NoCard /\ command # "CMD0"
     /\ \/ card.state = "off" /\ r = NoAnswer /\ UNCHANGED card
        \/ IdleAnswers(command, arg, r)
        \/ ReadyAnswers(command, arg, r)
        \/ TransferAnswers(command, r)

(* The card after a data block: on to the next, or the transfer is over.   *)
NextBlock(c) == IF c.multi THEN [c EXCEPT !.at = @ + 1] ELSE Ready(c)
BlockRefused(c) == IF c.multi THEN c ELSE Ready(c)

CardIs(state) == card # NoCard /\ card.state = state

Remove == card # NoCard /\ card' = NoCard /\ UNCHANGED <<info, spi, call, step, count, index, cmd, tmr, moved, result>>
Insert(kind) ==
  /\ card = NoCard
  /\ card' = Off(kind)
  /\ UNCHANGED <<info, spi, call, step, count, index, cmd, tmr, moved, result>>

-----------------------------------------------------------------------------
(* The driver: the calls. *)

(* SD0_Tx_cmd: the card is selected anew, but not to stop a transfer, and  *)
(* r is its response.                                                      *)
TxCmd(command, arg, r) ==
  /\ Answers(command, arg, r)
  /\ selected' = TRUE

Responses == {0, 1, Illegal, 1 + Illegal, AddressError, NoAnswer}

(* Mutant of Return: the card stays selected. *)
ReturnSelected(r) ==
  /\ UNCHANGED selected
  /\ step' = "none"
  /\ result' = r

(* The call is over: the card is deselected. *)
Return(r) ==
  /\ selected' = FALSE
  /\ step' = "none"
  /\ result' = r

(* bdev_init and the others on a number without a device. *)
BdevBad ==
  /\ step = "none"
  /\ result' = DEV_ERR_BADDEV
  /\ UNCHANGED <<card, info, spi, call, step, count, index, cmd, tmr, moved>>

(* sdc_init: the bus is slowed down and the card gets its clocks. *)
SdcInit ==
  /\ step = "none"
  /\ call' = [op |-> "init", lba |-> 0, count |-> 0]
  /\ slow' = TRUE
  /\ type' = {}
  /\ step' = "reset"
  /\ count' = 0 /\ index' = 0
  /\ moved' = {}
  /\ UNCHANGED <<card, noinit, selected, cmd, tmr, result>>

(* sdc_read, sdc_write and the commands of sdc_ioctrl, unless the card has *)
(* failed to initialise.                                                   *)
First(op, n) ==
  CASE op = "read"    -> "read"
    [] op = "write"   -> IF n > 1 /\ type \cap {"SDC1", "SDC2"} # {} THEN "erase count" ELSE "write"
    [] op = "sync"    -> "sync"
    [] op = "sectors" -> "csd"
    [] op = "other"   -> "end"

SdcTransfer(op, lba, n) ==
  /\ step = "none"
  /\ IF noinit
       THEN /\ result' = ERR_NOT_READY
            /\ UNCHANGED <<call, step, count, index, moved>>
       ELSE /\ call' = [op |-> op, lba |-> lba, count |-> n]
            /\ step' = First(op, n)
            /\ count' = n /\ index' = 0
            /\ moved' = {}
            /\ UNCHANGED result
  /\ UNCHANGED <<card, info, spi, cmd, tmr>>

(* sdc_status reports what the last initialisation found. *)
SdcStatus ==
  /\ step = "none"
  /\ result' = IF noinit THEN 1 ELSE 0
  /\ UNCHANGED <<card, info, spi, call, step, count, index, cmd, tmr, moved>>

-----------------------------------------------------------------------------
(* The driver: initialisation. *)

InitUnchanged == UNCHANGED <<call, count, index, moved>>

InitReset ==
  /\ step = "reset"
  /\ \E r \in Responses :
       /\ TxCmd("CMD0", 0, r)
       /\ step' = IF r = 1 THEN "version" ELSE "done"
  /\ UNCHANGED <<info, slow, cmd, tmr, result>> /\ InitUnchanged

(* A card of version 2 answers to CMD8; its voltage may be wrong. *)
InitVersion ==
  /\ step = "version"
  /\ \E r \in Responses :
       /\ TxCmd("CMD8", 426, r)
       /\ IF r = 1 THEN step' \in {"wake", "done"} ELSE step' = "old"
  /\ cmd' = "ACMD41" /\ tmr' = Tries
  /\ UNCHANGED <<info, slow, result>> /\ InitUnchanged

(* Another one is asked whether it is an SD card at all. *)
InitOld ==
  /\ step = "old"
  /\ \E r \in Responses :
       /\ TxCmd("ACMD41", 0, r)
       /\ type' = IF r <= 1 THEN {"SDC2"} ELSE {"MMC3"}
       /\ cmd' = IF r <= 1 THEN "ACMD41" ELSE "CMD1"
  /\ step' = "wake old" /\ tmr' = Tries
  /\ UNCHANGED <<noinit, slow, result>> /\ InitUnchanged

(* Mutant of TriesLeft: the attempts are not counted. *)
TriesUncounted(r) == tmr

TriesLeft(r) == IF r = 0 THEN tmr ELSE tmr - 1

(* The command is repeated until the card leaves the idle state. *)
InitWake ==
  /\ step \in {"wake", "wake old"}
  /\ \E r \in Responses :
       /\ TxCmd(cmd, IF step = "wake" THEN 1 ELSE 0, r)
       /\ tmr' = TriesLeft(r)
       /\ step' = IF r = 0 THEN IF step = "wake" THEN "capacity" ELSE "block length"
                  ELSE IF tmr' > 0 THEN step
                  ELSE IF step = "wake" THEN "done" ELSE "failed"
  /\ UNCHANGED <<info, slow, cmd, result>> /\ InitUnchanged

(* Mutant of SDv2Type: the capacity bit is not looked at. *)
SDv2TypeIgnored == {"SDC2"}

(* The capacity bit of the operating conditions tells how it is addressed. *)
SDv2Type == IF card.kind = "SDHC" THEN {"SDC2", "BLOCK"} ELSE {"SDC2"}

InitCapacity ==
  /\ step = "capacity"
  /\ \E r \in Responses :
       /\ TxCmd("CMD58", 0, r)
       /\ type' = IF r = 0 THEN SDv2Type ELSE type
  /\ step' = "done"
  /\ UNCHANGED <<noinit, slow, cmd, tmr, result>> /\ InitUnchanged

InitBlockLength ==
  /\ step = "block length"
  /\ \E r \in Responses :
       /\ TxCmd("CMD16", SECTOR_SIZE, r)
       /\ step' = IF r = 0 THEN "done" ELSE "failed"
  /\ UNCHANGED <<info, slow, cmd, tmr, result>> /\ InitUnchanged

InitDone ==
  /\ step \in {"done", "failed"}
  /\ type' = IF step = "failed" THEN {} ELSE type
  /\ noinit' = (type' = {})
  /\ slow' = FALSE
  /\ Return(IF noinit' THEN 1 ELSE 0)
  /\ UNCHANGED <<card, cmd, tmr>> /\ InitUnchanged

-----------------------------------------------------------------------------
(* The driver: transfers. *)

(* Cards that do not count in blocks are given byte addresses. *)
Address == IF "BLOCK" \in type THEN call.lba ELSE call.lba * SECTOR_SIZE

TransferUnchanged == UNCHANGED <<info, slow, call, cmd, tmr>>
Multiple == call.count > 1

(* Mutant of MoreBlocks: one too many. *)
OneMoreBlock == count >= 1

MoreBlocks == count > 1

(* Mutant of Advance: the buffer pointer stays. *)
AdvanceInPlace == count' = count - 1 /\ UNCHANGED index

Advance == count' = count - 1 /\ index' = index + 1

(* Mutant of AfterLast: a transfer of many blocks is not stopped. *)
AfterLastUnstopped(stop) == "end"

AfterLast(stop) == IF Multiple THEN stop ELSE "end"

(* A data block passes, or is refused, or the card is no longer there to   *)
(* answer in time; an error is answered like the last block.               *)
MoveBlock(state, stop) ==
  /\ \/ /\ CardIs(state) /\ card.at \in Numbers
        /\ card' = NextBlock(card)
        /\ moved' = moved \cup {<<card.at, index>>}
        /\ Advance
        /\ step' = IF MoreBlocks THEN step ELSE AfterLast(stop)
     \/ /\ card' = IF CardIs(state) THEN BlockRefused(card) ELSE card
        /\ step' = AfterLast(stop)
        /\ UNCHANGED <<count, index, moved>>
  /\ UNCHANGED <<selected, result>> /\ TransferUnchanged

ReadCommand ==
  /\ step = "read"
  /\ \E r \in Responses :
       /\ TxCmd(IF Multiple THEN "CMD18" ELSE "CMD17", Address, r)
       /\ step' = IF r = 0 THEN "read block" ELSE "end"
  /\ UNCHANGED <<count, index, moved, result>> /\ TransferUnchanged

(* SD0_Rx_datablock *)
ReadBlock == step = "read block" /\ MoveBlock("reading", "read stop")

ReadStop ==
  /\ step = "read stop"
  /\ \E r \in Responses : TxCmd("CMD12", 0, r)
  /\ step' = "end"
  /\ UNCHANGED <<count, index, moved, result>> /\ TransferUnchanged

(* ACMD23 tells the card how many blocks will come. *)
WriteEraseCount ==
  /\ step = "erase count"
  /\ \E r \in Responses : TxCmd("ACMD23", call.count, r)
  /\ step' = "write"
  /\ UNCHANGED <<count, index, moved, result>> /\ TransferUnchanged

WriteCommand ==
  /\ step = "write"
  /\ \E r \in Responses :
       /\ TxCmd(IF Multiple THEN "CMD25" ELSE "CMD24", Address, r)
       /\ step' = IF r = 0 THEN "write block" ELSE "end"
  /\ UNCHANGED <<count, index, moved, result>> /\ TransferUnchanged

(* SD0_Tx_datablock *)
WriteBlock == step = "write block" /\ MoveBlock("writing", "write stop")

(* The stop token. *)
WriteStop ==
  /\ step = "write stop"
  /\ card' = IF CardIs("writing") THEN Ready(card) ELSE card
  /\ step' = "end"
  /\ UNCHANGED <<selected, count, index, moved, result>> /\ TransferUnchanged

(* sdc_ioctrl: the card's description is asked for, then read.             *)
CsdCommand ==
  /\ step = "csd"
  /\ \E r \in Responses :
       /\ TxCmd("CMD9", 0, r)
       /\ step' = IF r = 0 THEN "csd block" ELSE "end"
  /\ UNCHANGED <<count, index, moved, result>> /\ TransferUnchanged

CsdBlock ==
  /\ step = "csd block"
  /\ \/ CardIs("csd") /\ card' = Ready(card) /\ count' = 0
     \/ card' = (IF CardIs("csd") THEN Ready(card) ELSE card) /\ UNCHANGED count
  /\ step' = "end"
  /\ UNCHANGED <<selected, index, moved, result>> /\ TransferUnchanged

Sync ==
  /\ step = "sync"
  /\ selected' = TRUE
  /\ step' = "end"
  /\ UNCHANGED <<card, count, index, moved, result>> /\ TransferUnchanged

(* The size that was asked for is returned, or 0 by sdc_ioctrl. *)
End ==
  /\ step = "end"
  /\ Return(IF call.op \in {"read", "write"} THEN call.count * SECTOR_SIZE ELSE 0)
  /\ UNCHANGED <<card, count, index, moved>> /\ TransferUnchanged
-----------------------------------------------------------------------------
(* What follows the steps of a call that has begun. *)
Proceed ==
  \/ InitReset \/ InitVersion \/ InitOld \/ InitWake \/ InitCapacity \/ InitBlockLength \/ InitDone
  \/ ReadCommand \/ ReadBlock \/ ReadStop
  \/ WriteEraseCount \/ WriteCommand \/ WriteBlock \/ WriteStop
  \/ CsdCommand \/ CsdBlock \/ Sync
  \/ End

Begin ==
  \/ BdevBad \/ SdcInit \/ SdcStatus
  \/ \E op \in {"read", "write"}, lba \in 0 .. Blocks, n \in 1 .. MaxCount : SdcTransfer(op, lba, n)
  \/ \E op \in {"sync", "sectors", "other"} : SdcTransfer(op, 0, 1)

Next == Proceed \/ Begin \/ Remove \/ \E kind \in Kinds : Insert(kind)

(* The controller finishes each byte, and every wait for the card has a    *)
(* limit, so a call that has begun goes on.                                *)
Spec == Init /\ [][Next]_vars /\ WF_vars(Proceed)

-----------------------------------------------------------------------------
InitSteps ==
  {"reset", "version", "old", "wake", "wake old", "capacity", "block length", "done", "failed"}
TransferSteps ==
  {"read", "read block", "read stop", "erase count", "write", "write block", "write stop",
   "csd", "csd block", "sync", "end"}
Ops == {"none", "init", "read", "write", "sync", "sectors", "other"}

(* Every variable stays within its range; in particular no transfer runs   *)
(* beyond the blocks of its buffer.                                        *)
TypeOK ==
  /\ card \in Cards \cup {NoCard}
  /\ type \in {{}, {"MMC3"}, {"SDC2"}, {"SDC2", "BLOCK"}}
  /\ noinit \in BOOLEAN
  /\ slow \in BOOLEAN /\ selected \in BOOLEAN
  /\ call \in [op : Ops, lba : Nat, count : Nat]
  /\ step \in {"none"} \cup InitSteps \cup TransferSteps
  /\ count \in 0 .. call.count /\ index \in 0 .. call.count
  /\ cmd \in {"ACMD41", "CMD1"} /\ tmr \in 0 .. Tries
  /\ moved \subseteq Numbers \X Nat
  /\ result \in Int

InUse == {"ready", "reading", "writing", "csd"}

(* A card that obeys transfers is addressed the way it counts, although    *)
(* the driver never learns that a card was exchanged: a new one has not    *)
(* been woken up.                                                          *)
AddressedRight ==
  card # NoCard /\ card.state \in InUse /\ step \notin InitSteps =>
    (card.kind = "SDHC" <=> "BLOCK" \in type)

(* Each block that a transfer moves is the one that was asked for, at its  *)
(* place in the buffer, whatever cards come and go meanwhile.              *)
RightBlocks == \A move \in moved : move[1] = call.lba + move[2]

(* Between calls no card is left within a transfer, where it would refuse  *)
(* the next command, even after a block went wrong; and the bus is free    *)
(* and at full speed, whichever way the last call ended.                   *)
NothingLeftOpen ==
  step = "none" =>
    /\ card = NoCard \/ card.state \in {"off", "idle", "ready"}
    /\ ~selected /\ ~slow

(* Every call returns, even if cards come and go all the time.             *)
Returns == step # "none" ~> step = "none"

(* disk_read and disk_write tell FatFs so. *)
BdevToFatFs(r) ==
  IF r >= 0 THEN "RES_OK"
  ELSE CASE r = ERR_NOT_READY -> "RES_NOTRDY"
         [] r = ERR_BAD_ARGUMENT -> "RES_PARERR"
         [] OTHER -> "RES_ERROR"

(* "return short the number of bytes read (negative number for error)"     *)
(* (sdc_spi.c:378): FatFs is told that all is well only when every block   *)
(* has been moved.                                                         *)
ErrorsReported ==
  [][End /\ call.op \in {"read", "write"} /\ BdevToFatFs(result') = "RES_OK" => count = 0]_vars
=============================================================================
