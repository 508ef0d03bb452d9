--------------------------- MODULE StorageProofs ---------------------------
(***************************************************************************)
(* Theorems about Storage, for cards of any size, transfers of any length  *)
(* and any number of attempts to wake a card.                              *)
(***************************************************************************)
EXTENDS Storage, TLAPS

AtRest(c) == c = NoCard \/ c.state \in {"off", "idle", "ready"}
Woken(c) == c # NoCard /\ c.state \in InUse

(* The driver tries at least once. *)
LEMMA TriesFact == Tries \in Nat /\ Tries >= 1
BY StorageAssumption

(* A card stays a card, of its kind.                                       *)
LEMMA CardFact ==
  ASSUME NEW c \in Cards
  PROVE  /\ c # NoCard
         /\ Idle(c) \in Cards /\ Idle(c).kind = c.kind /\ Idle(c).state = "idle"
         /\ Ready(c) \in Cards /\ Ready(c).kind = c.kind /\ Ready(c).state = "ready"
         /\ Describe(c) \in Cards /\ Describe(c).kind = c.kind /\ Describe(c).state = "csd"
<1>1. c # NoCard
  BY StorageAssumption
<1>2. /\ Idle(c) \in Cards /\ Idle(c).kind = c.kind /\ Idle(c).state = "idle"
      /\ Ready(c) \in Cards /\ Ready(c).kind = c.kind /\ Ready(c).state = "ready"
      /\ Describe(c) \in Cards /\ Describe(c).kind = c.kind /\ Describe(c).state = "csd"
  BY DEF Idle, Ready, Describe, Cards, States
<1>3. QED
  BY <1>1, <1>2

(* What the invariant needs to know of a command: it leaves an empty slot  *)
(* empty, it wakes a card only when it is one of the commands for that,    *)
(* and it begins a transfer only when it is one of those.                  *)
Effect(command, arg, r) ==
  /\ card' \in Cards \cup {NoCard}
  /\ selected' = TRUE
  /\ card = NoCard => card' = NoCard /\ r = NoAnswer
  /\ card # NoCard => card' # NoCard /\ card'.kind = card.kind
  /\ command = "CMD0" => ~Woken(card')
  /\ command = "CMD12" /\ (AtRest(card) \/ card.state = "reading") => AtRest(card')
  /\ command \notin {"CMD9", "CMD17", "CMD18", "CMD24", "CMD25"} /\ AtRest(card) => AtRest(card')
  /\ AtRest(card) /\ r # 0 => AtRest(card')
  /\ ~Woken(card) /\ Woken(card') =>
       /\ r = 0
       /\ command \in {"ACMD41", "CMD1"}
       /\ card.kind = "SDHC" => command = "ACMD41" /\ arg = 1
  /\ command = "CMD58" /\ Woken(card) /\ AtRest(card) => r = 0
  /\ command \in Reads \cup Writes /\ AtRest(card) /\ r = 0 =>
       /\ Woken(card)
       /\ card'.state = IF command \in Reads THEN "reading" ELSE "writing"
       /\ (card'.multi <=> command \in Multiples)
       /\ card'.at = Addressed(card, arg)
  /\ command = "CMD9" /\ AtRest(card) /\ r = 0 => card'.state = "csd"

LEMMA CommandFact ==
  ASSUME card \in Cards \cup {NoCard}, NEW command, NEW arg, NEW r,
         TxCmd(command, arg, r)
  PROVE  Effect(command, arg, r)
<1> USE DEF Effect, AtRest, Woken, InUse
<1>1. CASE card = NoCard /\ r = NoAnswer /\ UNCHANGED card
  BY <1>1 DEF TxCmd, NoAnswer
<1>2. CASE card # NoCard /\ command = "CMD0" /\ r = 1 /\ card' = Idle(card)
  BY <1>2, CardFact DEF TxCmd, Reads, Writes
<1>3. CASE card # NoCard /\ command # "CMD0" /\ card.state = "off" /\ r = NoAnswer /\ UNCHANGED card
  BY <1>3 DEF TxCmd, NoAnswer
<1>4. CASE card # NoCard /\ command # "CMD0" /\ IdleAnswers(command, arg, r)
  BY <1>4, CardFact DEF TxCmd, IdleAnswers, Wakes, Known, Illegal, Reads, Writes
<1>5. CASE card # NoCard /\ command # "CMD0" /\ ReadyAnswers(command, arg, r)
  <2>1. CASE /\ command \in Reads \cup Writes
             /\ GoodAddress(card, arg)
             /\ r = 0
             /\ card' = Transfer(card, IF command \in Reads THEN "reading" ELSE "writing",
                                 command \in Multiples, arg)
    <3>1. PICK state \in States : /\ state = IF command \in Reads THEN "reading" ELSE "writing"
                                  /\ card' = Transfer(card, state, command \in Multiples, arg)
      BY <2>1 DEF States
    <3>2. /\ card' \in Cards /\ card'.kind = card.kind /\ card'.state = state
          /\ card'.multi = (command \in Multiples) /\ card'.at = Addressed(card, arg)
      <4>1. card.kind \in Kinds /\ Addressed(card, arg) \in 0 .. Blocks
        BY <1>5, <2>1, StorageAssumption DEF Cards, GoodAddress, Numbers
      <4>2. QED
        BY <3>1, <4>1 DEF Transfer, Cards
    <3>3. card' # NoCard
      BY <3>2, StorageAssumption
    <3>4. QED
      BY <1>5, <2>1, <3>1, <3>2, <3>3 DEF TxCmd, ReadyAnswers, Reads, Writes
  <2>2. CASE command = "CMD9" /\ r = 0 /\ card' = Describe(card)
    BY <1>5, <2>2, CardFact DEF TxCmd, ReadyAnswers, Reads, Writes
  <2>3. CASE command \in Reads \cup Writes /\ r = AddressError /\ UNCHANGED card
    BY <1>5, <2>3 DEF TxCmd, ReadyAnswers, Reads, Writes, AddressError
  <2>4. CASE command \in Accepted /\ r = 0 /\ UNCHANGED card
    BY <1>5, <2>4 DEF TxCmd, ReadyAnswers, Reads, Writes, Accepted
  <2>5. CASE /\ command \notin Reads \cup Writes \cup Accepted \cup {"CMD9"}
             /\ r = Illegal /\ UNCHANGED card
    BY <1>5, <2>5 DEF TxCmd, ReadyAnswers, Reads, Writes, Accepted, Illegal
  <2>6. QED
    BY <1>5, <2>1, <2>2, <2>3, <2>4, <2>5 DEF ReadyAnswers
<1>6. CASE card # NoCard /\ command # "CMD0" /\ TransferAnswers(command, r)
  BY <1>6, CardFact DEF TxCmd, TransferAnswers, Illegal, Reads, Writes
<1>7. QED
  BY <1>1, <1>2, <1>3, <1>4, <1>5, <1>6 DEF TxCmd, Answers

-----------------------------------------------------------------------------
(* The blocks that are left and those moved make up the transfer.          *)
Counted ==
  /\ step \in {"read", "write", "erase count"} => count = call.count /\ index = 0 /\ count >= 1
  /\ step \in {"read block", "write block"} => count >= 1 /\ index + count = call.count
  /\ step \in {"wake", "wake old"} => tmr >= 1

(* While it is being initialised a card is asleep, or about to be given    *)
(* its type; one that SDHC cards do not answer to is none of them.         *)
AddressedAs ==
  /\ Woken(card) =>
       /\ step \notin {"version", "wake", "old"}
       /\ step \in {"wake old", "block length", "failed"} => card.kind # "SDHC"
       /\ step \notin InitSteps \ {"done"} => (card.kind = "SDHC" <=> "BLOCK" \in type)
  /\ step \in {"wake old", "block length", "failed"} => "BLOCK" \notin type

(* Transfers are under way only in the steps that move blocks or end them. *)
Resting ==
  AtRest(card) \/
    /\ step = "read block" => card.state = "reading" /\ (card.multi <=> Multiple)
    /\ step = "write block" => card.state = "writing" /\ (card.multi <=> Multiple)
    /\ step = "read stop" => card.state = "reading"
    /\ step = "write stop" => card.state = "writing"
    /\ step = "csd block" => card.state = "csd"
    /\ step \in {"read block", "write block", "read stop", "write stop", "csd block"}

(* The card and the buffer are at the same block.                          *)
Placed ==
  step \in {"read block", "write block"} /\ ~AtRest(card) => card.at = call.lba + index

Bus == (step \notin InitSteps => ~slow) /\ (step = "none" => ~selected)

IInv == TypeOK /\ Counted /\ AddressedAs /\ Resting /\ Placed /\ RightBlocks /\ Bus

LEMMA InitIInv == Init => IInv
<1> SUFFICES ASSUME Init PROVE IInv
  OBVIOUS
<1>1. card \in Cards \cup {NoCard} /\ AtRest(card) /\ ~Woken(card)
  <2>1. ASSUME NEW kind \in Kinds
        PROVE  Off(kind) \in Cards /\ Off(kind).state = "off"
    BY StorageAssumption DEF Off, Cards, States
  <2>2. QED
    BY <2>1 DEF Init, AtRest, Woken, InUse
<1>2. TypeOK /\ Counted
  <2>1. call \in [op : Ops, lba : Nat, count : Nat] /\ call.count = 0
    BY DEF Init, Ops
  <2>2. moved \subseteq Numbers \X Nat
    BY DEF Init
  <2>3. /\ type \in {{}, {"MMC3"}, {"SDC2"}, {"SDC2", "BLOCK"}}
        /\ count \in 0 .. call.count /\ index \in 0 .. call.count
        /\ step \in {"none"} \cup InitSteps \cup TransferSteps
    BY DEF Init
  <2>4. noinit \in BOOLEAN /\ slow \in BOOLEAN /\ selected \in BOOLEAN
    BY DEF Init
  <2>5. cmd \in {"ACMD41", "CMD1"} /\ tmr \in 0 .. Tries
    BY TriesFact DEF Init
  <2>6. TypeOK
    <3>1. result \in Int
      BY DEF Init
    <3>2. QED
      BY <1>1, <2>1, <2>2, <2>3, <2>4, <2>5, <3>1, Zenon DEF TypeOK
  <2>7. Counted
    BY DEF Init, Counted
  <2>8. QED
    BY <2>6, <2>7
<1>3. AddressedAs /\ Resting /\ Placed /\ RightBlocks /\ Bus
  BY <1>1 DEF Init, AddressedAs, Resting, Placed, RightBlocks, Bus, InitSteps
<1>4. QED
  BY <1>2, <1>3 DEF IInv

-----------------------------------------------------------------------------
(* The commands of the initialisation.                                     *)
LEMMA InitialisationIInv ==
  ASSUME IInv,
         InitReset \/ InitVersion \/ InitOld \/ InitWake \/ InitCapacity \/ InitBlockLength
  PROVE  IInv'
<1> USE DEF InitSteps
<1>1. card \in Cards \cup {NoCard}
  BY DEF IInv, TypeOK
<1>2. AtRest(card)
  BY DEF IInv, Resting, InitReset, InitVersion, InitOld, InitWake, InitCapacity, InitBlockLength
<1>3. UNCHANGED <<noinit, slow, call, count, index, moved, result>>
  BY DEF InitReset, InitVersion, InitOld, InitWake, InitCapacity, InitBlockLength, InitUnchanged, info
<1>4. ASSUME card' \in Cards \cup {NoCard}, AtRest(card'), selected' = TRUE,
             step' \in InitSteps,
             type' \in {{}, {"MMC3"}, {"SDC2"}, {"SDC2", "BLOCK"}},
             cmd' \in {"ACMD41", "CMD1"}, tmr' \in 0 .. Tries,
             step' \in {"wake", "wake old"} => tmr' >= 1,
             AddressedAs'
      PROVE  IInv'
  <2>1. TypeOK'
    BY <1>3, <1>4 DEF IInv, TypeOK
  <2>2. Counted' /\ Resting' /\ Placed' /\ Bus'
    BY <1>3, <1>4 DEF Counted, Resting, Placed, Bus, IInv
  <2>3. RightBlocks'
    BY <1>3 DEF IInv, RightBlocks
  <2>4. QED
    BY <1>4, <2>1, <2>2, <2>3 DEF IInv
<1>5. CASE InitReset
  <2>1. PICK r \in Responses : TxCmd("CMD0", 0, r) /\ step' = IF r = 1 THEN "version" ELSE "done"
    BY <1>5 DEF InitReset
  <2>2. /\ card' \in Cards \cup {NoCard} /\ AtRest(card') /\ selected' = TRUE /\ ~Woken(card')
    <3>1. Effect("CMD0", 0, r)
      BY <1>1, <2>1, CommandFact
    <3>2. QED
      BY <1>2, <3>1 DEF Effect, Woken, Reads, Writes
  <2>3. UNCHANGED <<type, cmd, tmr>>
    BY <1>5 DEF InitReset, info
  <2>4. AddressedAs'
    BY <2>1, <2>2 DEF IInv, AddressedAs
  <2>5. QED
    BY <1>4, <2>1, <2>2, <2>3, <2>4 DEF IInv, TypeOK
<1>6. CASE InitVersion
  <2>1. PICK r \in Responses : TxCmd("CMD8", 426, r)
    BY <1>6 DEF InitVersion
  <2>2. /\ card' \in Cards \cup {NoCard} /\ AtRest(card') /\ selected' = TRUE
        /\ ~Woken(card) => ~Woken(card')
    <3>1. Effect("CMD8", 426, r)
      BY <1>1, <2>1, CommandFact
    <3>2. QED
      BY <1>2, <3>1 DEF Effect, Woken, Reads, Writes
  <2>3. ~Woken(card')
    BY <1>6, <2>2 DEF IInv, InitVersion, AddressedAs
  <2>4. step' \in {"wake", "done", "old"} /\ cmd' = "ACMD41" /\ tmr' = Tries /\ type' = type
    BY <1>6 DEF InitVersion, info
  <2>5. AddressedAs'
    BY <2>3, <2>4 DEF IInv, AddressedAs
  <2>6. tmr' \in 0 .. Tries /\ tmr' >= 1
    BY <2>4, TriesFact
  <2>7. type' \in {{}, {"MMC3"}, {"SDC2"}, {"SDC2", "BLOCK"}}
    BY <2>4 DEF IInv, TypeOK
  <2>8. QED
    BY <1>4, <2>2, <2>4, <2>5, <2>6, <2>7
<1>7. CASE InitOld
  <2>1. PICK r \in Responses : /\ TxCmd("ACMD41", 0, r)
                              /\ type' \in {{"SDC2"}, {"MMC3"}}
                              /\ cmd' \in {"ACMD41", "CMD1"}
    BY <1>7, Zenon DEF InitOld
  <2>2. /\ card' \in Cards \cup {NoCard} /\ AtRest(card') /\ selected' = TRUE
        /\ ~Woken(card) /\ Woken(card') => card.kind # "SDHC" /\ card'.kind = card.kind
    <3>1. Effect("ACMD41", 0, r)
      BY <1>1, <2>1, CommandFact
    <3>2. QED
      BY <1>2, <3>1 DEF Effect, Woken, Reads, Writes
  <2>3. step' = "wake old" /\ ~Woken(card)
    BY <1>7 DEF IInv, InitOld, AddressedAs
  <2>4. AddressedAs'
    BY <2>1, <2>2, <2>3 DEF IInv, AddressedAs
  <2>5. tmr' \in 0 .. Tries /\ tmr' >= 1
    <3>1. tmr' = Tries
      BY <1>7 DEF InitOld
    <3>2. QED
      BY <3>1, TriesFact
  <2>6. QED
    BY <1>4, <2>1, <2>2, <2>3, <2>4, <2>5
<1>8. CASE InitWake
  <2>1. PICK r \in Responses : /\ TxCmd(cmd, IF step = "wake" THEN 1 ELSE 0, r)
                              /\ tmr' = TriesLeft(r)
                              /\ step' = IF r = 0 THEN IF step = "wake" THEN "capacity" ELSE "block length"
                                         ELSE IF tmr' > 0 THEN step
                                         ELSE IF step = "wake" THEN "done" ELSE "failed"
    BY <1>8 DEF InitWake
  <2>2. step \in {"wake", "wake old"} /\ UNCHANGED <<type, cmd>>
    BY <1>8 DEF InitWake, info
  <2>3. /\ card' \in Cards \cup {NoCard} /\ AtRest(card') /\ selected' = TRUE
        /\ Woken(card') => card'.kind = card.kind
        /\ ~Woken(card) /\ Woken(card') => r = 0 /\ (card.kind = "SDHC" => step = "wake")
    <3>1. cmd \in {"ACMD41", "CMD1"}
      BY DEF IInv, TypeOK
    <3>2. Effect(cmd, IF step = "wake" THEN 1 ELSE 0, r)
      BY <1>1, <2>1, CommandFact
    <3>3. QED
      BY <1>2, <3>1, <3>2 DEF Effect, Woken, Reads, Writes
  <2>4. tmr' \in 0 .. Tries /\ (step' \in {"wake", "wake old"} => tmr' >= 1)
    <3>1. tmr \in 0 .. Tries
      BY DEF IInv, TypeOK
    <3>2. tmr >= 1
      BY <2>2 DEF IInv, Counted
    <3>3. tmr' \in 0 .. Tries
      <4>1. tmr' = tmr \/ tmr' = tmr - 1
        BY <2>1 DEF TriesLeft
      <4>2. QED
        BY <3>1, <3>2, <4>1, TriesFact
    <3>4. step' \in {"wake", "wake old"} => tmr' > 0
      BY <2>1, <2>2, Zenon
    <3>5. tmr' > 0 => tmr' >= 1
      BY <3>3, TriesFact
    <3>6. QED
      BY <3>3, <3>4, <3>5, Zenon
  <2>5. AddressedAs'
    BY <2>1, <2>2, <2>3 DEF IInv, AddressedAs
  <2>6. QED
    BY <1>4, <2>1, <2>2, <2>3, <2>4, <2>5 DEF IInv, TypeOK
<1>9. CASE InitCapacity
  <2>1. PICK r \in Responses : TxCmd("CMD58", 0, r) /\ type' = IF r = 0 THEN SDv2Type ELSE type
    BY <1>9 DEF InitCapacity
  <2>2. /\ card' \in Cards \cup {NoCard} /\ AtRest(card') /\ selected' = TRUE
        /\ Woken(card') => Woken(card) /\ card'.kind = card.kind /\ r = 0
    <3>1. Effect("CMD58", 0, r)
      BY <1>1, <2>1, CommandFact
    <3>2. QED
      BY <1>2, <3>1 DEF Effect, Woken, Reads, Writes
  <2>3. step' = "done" /\ UNCHANGED <<cmd, tmr>>
    BY <1>9 DEF InitCapacity
  <2>4. AddressedAs'
    BY <2>1, <2>2, <2>3 DEF IInv, AddressedAs, SDv2Type
  <2>5. QED
    BY <1>4, <2>1, <2>2, <2>3, <2>4 DEF IInv, TypeOK, SDv2Type
<1>10. CASE InitBlockLength
  <2>1. PICK r \in Responses : TxCmd("CMD16", SECTOR_SIZE, r) /\ step' = IF r = 0 THEN "done" ELSE "failed"
    BY <1>10 DEF InitBlockLength
  <2>2. /\ card' \in Cards \cup {NoCard} /\ AtRest(card') /\ selected' = TRUE
        /\ Woken(card') => Woken(card) /\ card'.kind = card.kind
    <3>1. Effect("CMD16", SECTOR_SIZE, r)
      BY <1>1, <2>1, CommandFact
    <3>2. QED
      BY <1>2, <3>1 DEF Effect, Woken, Reads, Writes
  <2>3. step = "block length" /\ UNCHANGED <<type, cmd, tmr>>
    BY <1>10 DEF InitBlockLength, info
  <2>4. AddressedAs'
    BY <2>1, <2>2, <2>3 DEF IInv, AddressedAs
  <2>5. QED
    BY <1>4, <2>1, <2>2, <2>3, <2>4 DEF IInv, TypeOK
<1>11. QED
  BY <1>5, <1>6, <1>7, <1>8, <1>9, <1>10

-----------------------------------------------------------------------------
(* Between calls, and when a call ends.                                    *)
LEMMA CallIInv ==
  ASSUME IInv,
         \/ BdevBad \/ SdcStatus \/ SdcInit \/ InitDone \/ End
         \/ \E op \in {"read", "write"}, lba \in 0 .. Blocks, n \in 1 .. MaxCount : SdcTransfer(op, lba, n)
         \/ \E op \in {"sync", "sectors", "other"} : SdcTransfer(op, 0, 1)
  PROVE  IInv'
<1>1. card' = card /\ AtRest(card)
  BY DEF IInv, Resting, BdevBad, SdcStatus, SdcInit, InitDone, End, SdcTransfer
<1>2. CASE BdevBad \/ SdcStatus
  <2>1. UNCHANGED <<card, type, noinit, slow, selected, call, step, count, index, cmd, tmr, moved>>
    BY <1>2 DEF BdevBad, SdcStatus, info, spi
  <2>2. result' \in Int
    BY <1>2 DEF BdevBad, SdcStatus, DEV_ERR_BADDEV
  <2>3. TypeOK'
    BY <2>1, <2>2, Zenon DEF IInv, TypeOK
  <2>4. Counted' /\ AddressedAs' /\ Resting' /\ Placed' /\ RightBlocks' /\ Bus'
    BY <2>1 DEF IInv, Counted, AddressedAs, Resting, Placed, RightBlocks, Bus, AtRest, Woken, Multiple
  <2>5. QED
    BY <2>3, <2>4 DEF IInv
<1>3. CASE SdcInit
  <2>1. /\ UNCHANGED <<card, noinit, selected, cmd, tmr, result>>
        /\ type' = {} /\ slow' = TRUE /\ step' = "reset" /\ moved' = {}
    BY <1>3 DEF SdcInit
  <2>2. /\ call' \in [op : Ops, lba : Nat, count : Nat]
        /\ count' \in 0 .. call'.count /\ index' \in 0 .. call'.count
    BY <1>3 DEF SdcInit, Ops
  <2>3. /\ type' \in {{}, {"MMC3"}, {"SDC2"}, {"SDC2", "BLOCK"}}
        /\ slow' \in BOOLEAN /\ step' \in {"none"} \cup InitSteps \cup TransferSteps
        /\ moved' \subseteq Numbers \X Nat
    BY <2>1 DEF InitSteps
  <2>4. TypeOK'
    BY <2>1, <2>2, <2>3, Zenon DEF IInv, TypeOK
  <2>5. Counted' /\ AddressedAs' /\ Resting' /\ Placed' /\ RightBlocks' /\ Bus'
    BY <1>1, <2>1 DEF Counted, AddressedAs, Resting, Placed, RightBlocks, Bus, InitSteps, AtRest, Woken
  <2>6. QED
    BY <2>4, <2>5 DEF IInv
<1>4. CASE InitDone
  <2>1. /\ UNCHANGED <<card, call, count, index, cmd, tmr, moved>>
        /\ slow' = FALSE /\ selected' = FALSE /\ step' = "none"
        /\ noinit' \in BOOLEAN /\ result' \in {0, 1}
    BY <1>4 DEF InitDone, Return, InitUnchanged
  <2>2. type' = {} \/ (step = "done" /\ type' = type)
    BY <1>4 DEF InitDone
  <2>3. Woken(card) => (card.kind = "SDHC" <=> "BLOCK" \in type')
    <3>1. CASE step = "done"
      BY <1>4, <3>1 DEF IInv, AddressedAs, InitSteps, InitDone
    <3>2. CASE step = "failed"
      BY <1>4, <3>2 DEF IInv, AddressedAs, InitDone
    <3>3. QED
      BY <1>4, <3>1, <3>2 DEF InitDone
  <2>4. TypeOK'
    <3>1. /\ type' \in {{}, {"MMC3"}, {"SDC2"}, {"SDC2", "BLOCK"}}
      BY <2>2 DEF IInv, TypeOK
    <3>2. slow' \in BOOLEAN /\ selected' \in BOOLEAN
      BY <2>1
    <3>3. step' \in {"none"} \cup InitSteps \cup TransferSteps
      BY <2>1
    <3>4. result' \in Int
      BY <2>1
    <3>5. QED
      BY <2>1, <3>1, <3>2, <3>3, <3>4, Zenon DEF IInv, TypeOK
  <2>5. AddressedAs'
    BY <2>1, <2>3 DEF AddressedAs, Woken
  <2>6. Counted' /\ Resting' /\ Placed' /\ RightBlocks' /\ Bus'
    BY <1>1, <2>1 DEF IInv, Counted, Resting, Placed, RightBlocks, Bus, AtRest
  <2>7. QED
    BY <2>4, <2>5, <2>6 DEF IInv
<1>5. CASE End
  <2>1. /\ UNCHANGED <<card, type, noinit, slow, call, count, index, cmd, tmr, moved>>
        /\ selected' = FALSE /\ step' = "none" /\ step = "end"
    BY <1>5 DEF End, Return, TransferUnchanged, info
  <2>2. result' \in Int
    <3>1. call.count \in Nat
      BY DEF IInv, TypeOK
    <3>2. result' = call.count * 512 \/ result' = 0
      BY <1>5 DEF End, Return, SECTOR_SIZE
    <3>3. QED
      BY <3>1, <3>2
  <2>3. TypeOK'
    <3>1. selected' \in BOOLEAN /\ step' \in {"none"} \cup InitSteps \cup TransferSteps
      BY <2>1
    <3>2. QED
      BY <2>1, <2>2, <3>1, Zenon DEF IInv, TypeOK
  <2>4. Counted' /\ AddressedAs' /\ Resting' /\ Placed' /\ RightBlocks' /\ Bus'
    BY <1>1, <2>1 DEF IInv, Counted, AddressedAs, Resting, Placed, RightBlocks, Bus, InitSteps, AtRest, Woken
  <2>5. QED
    BY <2>3, <2>4 DEF IInv
<1>6. ASSUME NEW op \in {"read", "write", "sync", "sectors", "other"}, NEW lba \in Nat, NEW n \in Nat \ {0},
             SdcTransfer(op, lba, n)
      PROVE  IInv'
  <2>1. UNCHANGED <<card, type, noinit, slow, selected, cmd, tmr>> /\ step = "none"
    BY <1>6 DEF SdcTransfer, info, spi
  <2>2. CASE noinit
    <3>1. UNCHANGED <<call, step, count, index, moved>> /\ result' \in Int
      BY <1>6, <2>2 DEF SdcTransfer, ERR_NOT_READY
    <3>2. TypeOK'
      BY <2>1, <3>1, Zenon DEF IInv, TypeOK
    <3>3. Counted' /\ AddressedAs' /\ Resting' /\ Placed' /\ RightBlocks' /\ Bus'
      BY <2>1, <3>1 DEF IInv, Counted, AddressedAs, Resting, Placed, RightBlocks, Bus, AtRest, Woken, Multiple
    <3>4. QED
      BY <3>2, <3>3 DEF IInv
  <2>3. CASE ~noinit
    <3>1. /\ call' = [op |-> op, lba |-> lba, count |-> n] /\ step' = First(op, n)
          /\ count' = n /\ index' = 0 /\ moved' = {} /\ result' = result
      BY <1>6, <2>3 DEF SdcTransfer
    <3>2. step' \in {"read", "write", "erase count", "sync", "csd", "end"}
      BY <3>1, Zenon DEF First
    <3>3. TypeOK'
      <4>1. /\ call' \in [op : Ops, lba : Nat, count : Nat]
            /\ count' \in 0 .. call'.count /\ index' \in 0 .. call'.count
        BY <3>1 DEF Ops
      <4>2. /\ step' \in {"none"} \cup InitSteps \cup TransferSteps
            /\ moved' \subseteq Numbers \X Nat
        BY <3>1, <3>2 DEF TransferSteps
      <4>3. QED
        BY <2>1, <3>1, <4>1, <4>2, Zenon DEF IInv, TypeOK
    <3>4. Counted'
      <4>1. call'.count = n /\ count' = n /\ index' = 0 /\ n >= 1
        BY <3>1
      <4>2. QED
        BY <3>2, <4>1 DEF Counted
    <3>5. AddressedAs' /\ Resting' /\ Placed' /\ RightBlocks' /\ Bus'
      BY <1>1, <2>1, <3>1, <3>2 DEF IInv, AddressedAs, Resting, Placed, RightBlocks, Bus, InitSteps, AtRest, Woken
    <3>6. QED
      BY <3>3, <3>4, <3>5 DEF IInv
  <2>4. QED
    BY <2>2, <2>3
<1>7. QED
  BY <1>2, <1>3, <1>4, <1>5, <1>6

-----------------------------------------------------------------------------
(* The commands of a transfer.                                             *)
LEMMA CommandIInv ==
  ASSUME IInv,
         ReadCommand \/ ReadStop \/ WriteEraseCount \/ WriteCommand \/ CsdCommand \/ Sync
  PROVE  IInv'
<1>1. card \in Cards \cup {NoCard}
  BY DEF IInv, TypeOK
<1>2. UNCHANGED <<type, noinit, slow, call, count, index, cmd, tmr, moved, result>>
  BY DEF ReadCommand, ReadStop, WriteEraseCount, WriteCommand, CsdCommand, Sync, TransferUnchanged, info
<1>3. step \notin InitSteps /\ step # "none"
  BY DEF ReadCommand, ReadStop, WriteEraseCount, WriteCommand, CsdCommand, Sync, InitSteps
<1>4. ASSUME card' \in Cards \cup {NoCard}, selected' = TRUE,
             Woken(card') => Woken(card) /\ card'.kind = card.kind,
             step' \in TransferSteps, Counted', Resting', Placed'
      PROVE  IInv'
  <2>1. TypeOK'
    BY <1>2, <1>4, Zenon DEF IInv, TypeOK
  <2>2. AddressedAs'
    BY <1>2, <1>3, <1>4 DEF IInv, AddressedAs, InitSteps, TransferSteps
  <2>3. RightBlocks' /\ Bus'
    BY <1>2, <1>3, <1>4 DEF IInv, RightBlocks, Bus, TransferSteps
  <2>4. QED
    BY <1>4, <2>1, <2>2, <2>3 DEF IInv
<1>5. call.lba \in Nat /\ count \in Nat
  <2>1. call \in [op : Ops, lba : Nat, count : Nat] /\ count \in 0 .. call.count
    BY DEF IInv, TypeOK
  <2>2. QED
    BY <2>1
<1>6. ASSUME step \in {"read", "write"},
             NEW command \in Reads \cup Writes, NEW r, TxCmd(command, Address, r),
             command \in Multiples <=> Multiple,
             r = 0 => step' = IF command \in Reads THEN "read block" ELSE "write block",
             r # 0 => step' = "end"
      PROVE  IInv'
  <2>1. Effect(command, Address, r)
    BY <1>1, <1>6, CommandFact
  <2>2. AtRest(card)
    BY <1>6 DEF IInv, Resting
  <2>3. step' \in {"read block", "write block", "end"}
    BY <1>6
  <2>4. count >= 1 /\ index = 0 /\ count = call.count
    BY <1>6 DEF IInv, Counted
  <2>5. UNCHANGED call /\ UNCHANGED count /\ UNCHANGED index
    BY <1>2
  <2>6. Counted'
    <3>1. index' + count' = call'.count /\ count' >= 1
      BY <1>5, <2>4, <2>5
    <3>2. QED
      BY <2>3, <3>1 DEF Counted
  <2>7. card' \in Cards \cup {NoCard} /\ selected' = TRUE
    BY <2>1 DEF Effect
  <2>8. CASE r = 0
    <3>1. Woken(card) /\ card'.kind = card.kind
      BY <1>6, <2>1, <2>2, <2>8 DEF Effect, Woken
    <3>2. card'.state = IF command \in Reads THEN "reading" ELSE "writing"
      BY <1>6, <2>1, <2>2, <2>8 DEF Effect
    <3>3. card'.multi <=> Multiple
      BY <1>6, <2>1, <2>2, <2>8 DEF Effect
    <3>4. card'.at = Addressed(card, Address)
      BY <1>6, <2>1, <2>2, <2>8 DEF Effect
    <3>5. card.kind = "SDHC" <=> "BLOCK" \in type
      BY <1>3, <3>1 DEF IInv, AddressedAs
    <3>6. card'.at = call.lba
      <4>1. (call.lba * 512) \div 512 = call.lba
        BY <1>5
      <4>2. QED
        BY <3>4, <3>5, <4>1 DEF Addressed, Address, SECTOR_SIZE
    <3>7. Placed'
      <4>1. card'.at = call'.lba + index'
        BY <1>5, <2>4, <2>5, <3>6
      <4>2. QED
        BY <4>1 DEF Placed
    <3>8. Resting'
      <4>1. Multiple' = Multiple
        BY <2>5 DEF Multiple
      <4>2. QED
        BY <1>6, <2>8, <3>2, <3>3, <4>1 DEF Resting
    <3>9. QED
      BY <1>4, <2>3, <2>6, <2>7, <3>1, <3>7, <3>8 DEF TransferSteps
  <2>9. CASE r # 0
    <3>1. AtRest(card') /\ (Woken(card') => Woken(card) /\ card'.kind = card.kind)
      BY <2>1, <2>2, <2>9 DEF Effect, Woken
    <3>2. Resting' /\ Placed'
      BY <3>1 DEF Resting, Placed
    <3>3. QED
      BY <1>4, <2>3, <2>6, <2>7, <3>1, <3>2 DEF TransferSteps
  <2>10. QED
    BY <2>8, <2>9
<1>7. CASE ReadCommand
  <2>1. PICK r \in Responses : /\ TxCmd(IF Multiple THEN "CMD18" ELSE "CMD17", Address, r)
                              /\ step' = IF r = 0 THEN "read block" ELSE "end"
    BY <1>7 DEF ReadCommand
  <2>2. step = "read"
    BY <1>7 DEF ReadCommand
  <2>3. CASE Multiple
    BY <1>6, <2>1, <2>2, <2>3 DEF Reads, Writes, Multiples
  <2>4. CASE ~Multiple
    BY <1>6, <2>1, <2>2, <2>4 DEF Reads, Writes, Multiples
  <2>5. QED
    BY <2>3, <2>4
<1>8. CASE WriteCommand
  <2>1. PICK r \in Responses : /\ TxCmd(IF Multiple THEN "CMD25" ELSE "CMD24", Address, r)
                              /\ step' = IF r = 0 THEN "write block" ELSE "end"
    BY <1>8 DEF WriteCommand
  <2>2. step = "write"
    BY <1>8 DEF WriteCommand
  <2>3. CASE Multiple
    BY <1>6, <2>1, <2>2, <2>3 DEF Reads, Writes, Multiples
  <2>4. CASE ~Multiple
    BY <1>6, <2>1, <2>2, <2>4 DEF Reads, Writes, Multiples
  <2>5. QED
    BY <2>3, <2>4
<1>9. CASE ReadStop
  <2>1. PICK r \in Responses : TxCmd("CMD12", 0, r)
    BY <1>9 DEF ReadStop
  <2>2. step = "read stop" /\ step' = "end"
    BY <1>9 DEF ReadStop
  <2>3. Effect("CMD12", 0, r)
    BY <1>1, <2>1, CommandFact
  <2>4. AtRest(card) \/ card.state = "reading"
    BY <2>2 DEF IInv, Resting
  <2>5. /\ card' \in Cards \cup {NoCard} /\ selected' = TRUE /\ AtRest(card')
        /\ Woken(card') => Woken(card) /\ card'.kind = card.kind
    BY <2>3, <2>4 DEF Effect, Woken
  <2>6. Counted' /\ Resting' /\ Placed'
    BY <2>2, <2>5 DEF Counted, Resting, Placed
  <2>7. QED
    BY <1>4, <2>2, <2>5, <2>6 DEF TransferSteps
<1>10. CASE WriteEraseCount
  <2>1. PICK r \in Responses : TxCmd("ACMD23", call.count, r)
    BY <1>10 DEF WriteEraseCount
  <2>2. step = "erase count" /\ step' = "write" /\ AtRest(card)
    BY <1>10 DEF WriteEraseCount, IInv, Resting
  <2>3. Effect("ACMD23", call.count, r)
    BY <1>1, <2>1, CommandFact
  <2>4. /\ card' \in Cards \cup {NoCard} /\ selected' = TRUE /\ AtRest(card')
        /\ Woken(card') => Woken(card) /\ card'.kind = card.kind
    BY <2>2, <2>3 DEF Effect, Woken
  <2>5. Counted'
    BY <1>2, <2>2 DEF IInv, Counted
  <2>6. Resting' /\ Placed'
    BY <2>2, <2>4 DEF Resting, Placed
  <2>7. QED
    BY <1>4, <2>2, <2>4, <2>5, <2>6 DEF TransferSteps
<1>11. CASE CsdCommand
  <2>1. PICK r \in Responses : TxCmd("CMD9", 0, r) /\ step' = IF r = 0 THEN "csd block" ELSE "end"
    BY <1>11 DEF CsdCommand
  <2>2. AtRest(card)
    BY <1>11 DEF CsdCommand, IInv, Resting
  <2>3. Effect("CMD9", 0, r)
    BY <1>1, <2>1, CommandFact
  <2>4. /\ card' \in Cards \cup {NoCard} /\ selected' = TRUE
        /\ Woken(card') => Woken(card) /\ card'.kind = card.kind
        /\ r = 0 => card'.state = "csd"
        /\ r # 0 => AtRest(card')
    BY <2>2, <2>3 DEF Effect, Woken
  <2>5. Counted' /\ Resting' /\ Placed'
    BY <2>1, <2>4 DEF Counted, Resting, Placed
  <2>6. QED
    BY <1>4, <2>1, <2>4, <2>5 DEF TransferSteps
<1>12. CASE Sync
  <2>1. card' = card /\ selected' = TRUE /\ step' = "end" /\ AtRest(card)
    BY <1>12 DEF Sync, IInv, Resting
  <2>2. Counted' /\ Resting' /\ Placed'
    BY <2>1 DEF Counted, Resting, Placed, AtRest
  <2>3. QED
    BY <1>1, <1>4, <2>1, <2>2 DEF TransferSteps
<1>13. QED
  BY <1>7, <1>8, <1>9, <1>10, <1>11, <1>12

-----------------------------------------------------------------------------
(* A block, or the stop token.                                             *)
LEMMA BlockFact ==
  ASSUME card \in Cards, card.at \in Numbers
  PROVE  /\ NextBlock(card) \in Cards /\ NextBlock(card).kind = card.kind
         /\ card.multi => /\ NextBlock(card).state = card.state
                          /\ NextBlock(card).multi = TRUE
                          /\ NextBlock(card).at = card.at + 1
         /\ ~card.multi => NextBlock(card).state = "ready"
<1>1. CASE card.multi
  <2>1. card.at + 1 \in 0 .. Blocks
    BY StorageAssumption DEF Numbers
  <2>2. NextBlock(card) = [card EXCEPT !.at = card.at + 1]
    BY <1>1 DEF NextBlock
  <2>3. QED
    BY <1>1, <2>1, <2>2 DEF Cards
<1>2. CASE ~card.multi
  BY <1>2, CardFact DEF NextBlock
<1>3. QED
  BY <1>1, <1>2

LEMMA BlockIInv ==
  ASSUME IInv,
         ReadBlock \/ WriteBlock
  PROVE  IInv'
<1>0. PICK state, stop :
        /\ \/ state = "reading" /\ step = "read block" /\ stop = "read stop"
           \/ state = "writing" /\ step = "write block" /\ stop = "write stop"
        /\ MoveBlock(state, stop)
  BY Zenon DEF ReadBlock, WriteBlock
<1>1. card \in Cards \cup {NoCard}
  BY DEF IInv, TypeOK
<1>2. UNCHANGED <<type, noinit, slow, selected, call, cmd, tmr, result>>
  BY <1>0 DEF MoveBlock, TransferUnchanged, info
<1>3. count >= 1 /\ index + count = call.count
  BY <1>0 DEF IInv, Counted
<1>4. call.lba \in Nat /\ call.count \in Nat /\ count \in Nat /\ index \in Nat
  <2>1. call \in [op : Ops, lba : Nat, count : Nat]
    BY DEF IInv, TypeOK
  <2>2. call.lba \in Nat /\ call.count \in Nat
    BY <2>1
  <2>3. count \in 0 .. call.count /\ index \in 0 .. call.count
    BY DEF IInv, TypeOK
  <2>4. QED
    BY <2>2, <2>3
<1>5. AtRest(card) \/ (card.state = state /\ (card.multi <=> Multiple) /\ card.at = call.lba + index)
  BY <1>0 DEF IInv, Resting, Placed
<1>6. ASSUME card' \in Cards \cup {NoCard},
             Woken(card') => Woken(card) /\ card'.kind = card.kind,
             step' \in {step, stop, "end"},
             count' \in 0 .. call.count, index' \in 0 .. call.count,
             moved' \subseteq Numbers \X Nat,
             Counted', Resting', Placed', RightBlocks'
      PROVE  IInv'
  <2>1. step' \in TransferSteps /\ step \in TransferSteps
    BY <1>0, <1>6 DEF TransferSteps
  <2>2. TypeOK'
    <3>1. count' \in 0 .. call'.count /\ index' \in 0 .. call'.count
      BY <1>2, <1>6
    <3>2. QED
      BY <1>2, <1>6, <2>1, <3>1, Zenon DEF IInv, TypeOK
  <2>3. step \notin InitSteps /\ step' \notin InitSteps /\ step' # "none"
    BY <2>1 DEF InitSteps, TransferSteps
  <2>4. AddressedAs'
    BY <1>2, <1>6, <2>3 DEF IInv, AddressedAs, InitSteps
  <2>5. Bus'
    BY <1>2, <2>3 DEF IInv, Bus
  <2>6. QED
    BY <1>6, <2>2, <2>4, <2>5 DEF IInv
<1>7. CASE /\ CardIs(state) /\ card.at \in Numbers
           /\ card' = NextBlock(card)
           /\ moved' = moved \cup {<<card.at, index>>}
           /\ Advance
           /\ step' = IF MoreBlocks THEN step ELSE AfterLast(stop)
  <2>1. card \in Cards /\ card.state = state /\ (card.multi <=> Multiple) /\ card.at = call.lba + index
    BY <1>0, <1>1, <1>5, <1>7 DEF CardIs, AtRest
  <2>2. count' = count - 1 /\ index' = index + 1
    BY <1>7 DEF Advance
  <2>3. step' \in {step, stop, "end"}
    BY <1>7 DEF AfterLast
  <2>4. step' = step => count > 1
    BY <1>0, <1>7 DEF AfterLast, MoreBlocks
  <2>5. Counted'
    <3>1. index' + count' = call'.count
      <4>1. call' = call
        BY <1>2
      <4>2. (index + 1) + (count - 1) = call.count
        BY <1>3, <1>4
      <4>3. QED
        BY <2>2, <4>1, <4>2
    <3>2. step' = step => count' >= 1
      <4>1. count > 1 => count - 1 >= 1
        BY <1>4
      <4>2. QED
        BY <2>2, <2>4, <4>1
    <3>3. step' \in {"read block", "write block"} => step' = step
      BY <1>0, <2>3
    <3>4. QED
      BY <1>0, <2>3, <3>1, <3>2, <3>3 DEF Counted
  <2>6. RightBlocks'
    <3>1. call' = call
      BY <1>2
    <3>2. ASSUME NEW move \in moved'
          PROVE  move[1] = call.lba + move[2]
      <4>1. CASE move \in moved
        BY <4>1 DEF IInv, RightBlocks
      <4>2. CASE move = <<card.at, index>>
        BY <2>1, <4>2
      <4>3. QED
        BY <1>7, <3>2, <4>1, <4>2
    <3>3. QED
      BY <3>1, <3>2 DEF RightBlocks
  <2>7. card' \in Cards /\ card'.kind = card.kind
    BY <1>7, <2>1, BlockFact
  <2>8. Woken(card) /\ (Woken(card') => card'.kind = card.kind)
    BY <1>0, <2>1, <2>7, CardFact DEF Woken, InUse
  <2>9. /\ Multiple => card'.state = state /\ card'.multi /\ card'.at = call.lba + index'
        /\ ~Multiple => AtRest(card')
    <3>1. CASE Multiple
      <4>1. card'.state = state /\ card'.multi /\ card'.at = card.at + 1
        BY <1>7, <2>1, <3>1, BlockFact
      <4>2. card.at + 1 = call.lba + index'
        BY <1>4, <2>1, <2>2
      <4>3. QED
        BY <3>1, <4>1, <4>2
    <3>2. CASE ~Multiple
      BY <1>7, <2>1, <3>2, BlockFact DEF AtRest
    <3>3. QED
      BY <3>1, <3>2
  <2>10. Placed'
    BY <1>2, <2>9 DEF Placed
  <2>11. Resting'
    <3>1. Multiple' = Multiple
      BY <1>2 DEF Multiple
    <3>2. CASE Multiple
      <4>1. step' \in {step, stop}
        BY <1>7, <3>2 DEF AfterLast
      <4>2. card'.multi = TRUE
        BY <1>7, <2>1, <3>2, BlockFact
      <4>3. QED
        BY <1>0, <2>9, <3>1, <3>2, <4>1, <4>2 DEF Resting
    <3>3. CASE ~Multiple
      BY <2>9, <3>3 DEF Resting
    <3>4. QED
      BY <3>2, <3>3
  <2>12. count' \in 0 .. call.count /\ index' \in 0 .. call.count
    <3>1. count - 1 \in 0 .. call.count /\ index + 1 \in 0 .. call.count
      BY <1>3, <1>4
    <3>2. QED
      BY <2>2, <3>1
  <2>13. moved' \subseteq Numbers \X Nat
    <3>1. moved \subseteq Numbers \X Nat
      BY DEF IInv, TypeOK
    <3>2. <<card.at, index>> \in Numbers \X Nat
      BY <1>4, <1>7
    <3>3. QED
      BY <1>7, <3>1, <3>2
  <2>14. QED
    BY <1>6, <2>3, <2>5, <2>6, <2>7, <2>8, <2>10, <2>11, <2>12, <2>13
<1>8. CASE /\ card' = IF CardIs(state) THEN BlockRefused(card) ELSE card
           /\ step' = AfterLast(stop)
           /\ UNCHANGED <<count, index, moved>>
  <2>1. step' \in {stop, "end"}
    BY <1>8 DEF AfterLast
  <2>2. Counted' /\ RightBlocks'
    BY <1>0, <1>2, <1>8, <2>1 DEF IInv, Counted, RightBlocks
  <2>3. Placed'
    BY <1>0, <2>1 DEF Placed
  <2>4. /\ card' \in Cards \cup {NoCard}
        /\ Woken(card') => Woken(card) /\ card'.kind = card.kind
        /\ card'.state = state \/ AtRest(card')
        /\ ~Multiple => AtRest(card')
    <3>1. CASE CardIs(state)
      <4>1. card \in Cards /\ card.state = state /\ (card.multi <=> Multiple)
        BY <1>0, <1>1, <1>5, <3>1 DEF CardIs, AtRest
      <4>2. CASE Multiple
        BY <1>8, <3>1, <4>1, <4>2 DEF BlockRefused
      <4>3. CASE ~Multiple
        <5>1. card' = Ready(card)
          BY <1>8, <3>1, <4>1, <4>3 DEF BlockRefused
        <5>2. QED
          BY <1>0, <4>1, <5>1, CardFact DEF AtRest, Woken, InUse
      <4>4. QED
        BY <4>2, <4>3
    <3>2. CASE ~CardIs(state)
      <4>1. AtRest(card) /\ card' = card
        BY <1>5, <1>8, <3>2 DEF CardIs, AtRest
      <4>2. QED
        BY <1>1, <4>1
    <3>3. QED
      BY <3>1, <3>2
  <2>5. Resting'
    <3>1. CASE Multiple
      <4>1. step' = stop
        BY <1>8, <3>1 DEF AfterLast
      <4>2. QED
        BY <1>0, <2>4, <3>1, <4>1 DEF Resting, Multiple
    <3>2. CASE ~Multiple
      BY <2>4, <3>2 DEF Resting
    <3>3. QED
      BY <3>1, <3>2
  <2>6. count' \in 0 .. call.count /\ index' \in 0 .. call.count /\ moved' \subseteq Numbers \X Nat
    BY <1>8 DEF IInv, TypeOK
  <2>7. QED
    BY <1>6, <2>1, <2>2, <2>3, <2>4, <2>5, <2>6
<1>9. QED
  BY <1>0, <1>7, <1>8 DEF MoveBlock

-----------------------------------------------------------------------------
(* The other steps of a transfer, and the user.                            *)
LEMMA EndingIInv ==
  ASSUME IInv, WriteStop \/ CsdBlock
  PROVE  IInv'
<1>1. card \in Cards \cup {NoCard}
  BY DEF IInv, TypeOK
<1>2. UNCHANGED <<type, noinit, slow, selected, call, index, cmd, tmr, moved, result>>
  BY DEF WriteStop, CsdBlock, TransferUnchanged, info
<1>3. step \in {"write stop", "csd block"} /\ step' = "end"
  BY DEF WriteStop, CsdBlock
<1>4. count' \in 0 .. call.count
  <2>1. count \in 0 .. call.count /\ call \in [op : Ops, lba : Nat, count : Nat]
    BY DEF IInv, TypeOK
  <2>2. call.count \in Nat
    BY <2>1
  <2>3. count' = count \/ count' = 0
    BY DEF WriteStop, CsdBlock
  <2>4. QED
    BY <2>1, <2>2, <2>3
<1>5. \/ card' = Ready(card) /\ card # NoCard /\ Woken(card)
      \/ card' = card /\ AtRest(card)
  <2>1. CASE WriteStop
    BY <1>1, <2>1 DEF WriteStop, CardIs, IInv, Resting, AtRest, Woken, InUse
  <2>2. CASE CsdBlock
    BY <1>1, <2>2 DEF CsdBlock, CardIs, IInv, Resting, AtRest, Woken, InUse
  <2>3. QED
    BY <2>1, <2>2
<1>6. /\ card' \in Cards \cup {NoCard} /\ AtRest(card')
      /\ Woken(card') => Woken(card) /\ card'.kind = card.kind
  BY <1>1, <1>5, CardFact DEF AtRest
<1>7. TypeOK'
  <2>1. count' \in 0 .. call'.count
    BY <1>2, <1>4
  <2>2. step' \in {"none"} \cup InitSteps \cup TransferSteps
    BY <1>3 DEF TransferSteps
  <2>3. index' \in 0 .. call'.count
    BY <1>2 DEF IInv, TypeOK
  <2>4. QED
    BY <1>2, <1>6, <2>1, <2>2, <2>3, Zenon DEF IInv, TypeOK
<1>8. AddressedAs'
  BY <1>2, <1>3, <1>6 DEF IInv, AddressedAs, InitSteps
<1>9. Counted' /\ Resting' /\ Placed' /\ Bus'
  BY <1>2, <1>3, <1>6 DEF IInv, Counted, Resting, Placed, Bus, InitSteps
<1>10. RightBlocks'
  BY <1>2 DEF IInv, RightBlocks
<1>11. QED
  BY <1>7, <1>8, <1>9, <1>10 DEF IInv

LEMMA UserIInv ==
  ASSUME IInv, Remove \/ \E kind \in Kinds : Insert(kind)
  PROVE  IInv'
<1>1. UNCHANGED <<type, noinit, slow, selected, call, step, count, index, cmd, tmr, moved, result>>
  BY DEF Remove, Insert, info, spi
<1>2. card' \in Cards \cup {NoCard} /\ AtRest(card') /\ ~Woken(card')
  <2>1. CASE Remove
    BY <2>1 DEF Remove, AtRest, Woken
  <2>2. ASSUME NEW kind \in Kinds, Insert(kind)
        PROVE  card' \in Cards /\ card'.state = "off"
    BY <2>2, StorageAssumption DEF Insert, Off, Cards, States
  <2>3. QED
    BY <2>1, <2>2 DEF AtRest, Woken, InUse
<1>3. TypeOK'
  BY <1>1, <1>2, Zenon DEF IInv, TypeOK
<1>4. Counted' /\ AddressedAs' /\ Resting' /\ Placed' /\ RightBlocks' /\ Bus'
  BY <1>1, <1>2 DEF IInv, Counted, AddressedAs, Resting, Placed, RightBlocks, Bus
<1>5. QED
  BY <1>3, <1>4 DEF IInv

LEMMA StutterIInv ==
  ASSUME IInv, UNCHANGED vars
  PROVE  IInv'
<1>1. UNCHANGED <<card, type, noinit, slow, selected, call, step, count, index, cmd, tmr, moved, result>>
  BY DEF vars, info, spi
<1>2. TypeOK'
  BY <1>1, Zenon DEF IInv, TypeOK
<1>3. Counted' /\ AddressedAs' /\ Resting' /\ Placed' /\ RightBlocks' /\ Bus'
  BY <1>1 DEF IInv, Counted, AddressedAs, Resting, Placed, RightBlocks, Bus, AtRest, Woken, Multiple
<1>4. QED
  BY <1>2, <1>3 DEF IInv

-----------------------------------------------------------------------------
LEMMA SpecIInv == Spec => []IInv
<1>1. ASSUME IInv, [Next]_vars
      PROVE  IInv'
  <2>1. CASE \/ InitReset \/ InitVersion \/ InitOld \/ InitWake \/ InitCapacity \/ InitBlockLength
    BY <1>1, <2>1, InitialisationIInv
  <2>2. CASE InitDone \/ End \/ Begin
    BY <1>1, <2>2, CallIInv DEF Begin
  <2>3. CASE ReadCommand \/ ReadStop \/ WriteEraseCount \/ WriteCommand \/ CsdCommand \/ Sync
    BY <1>1, <2>3, CommandIInv
  <2>4. CASE ReadBlock \/ WriteBlock
    BY <1>1, <2>4, BlockIInv
  <2>5. CASE WriteStop \/ CsdBlock
    BY <1>1, <2>5, EndingIInv
  <2>6. CASE Remove \/ \E kind \in Kinds : Insert(kind)
    BY <1>1, <2>6, UserIInv
  <2>7. CASE UNCHANGED vars
    BY <1>1, <2>7, StutterIInv
  <2>8. QED
    BY <1>1, <2>1, <2>2, <2>3, <2>4, <2>5, <2>6, <2>7 DEF Next, Proceed
<1>2. QED
  BY <1>1, InitIInv, PTL DEF Spec

(* No transfer runs beyond the buffer of its caller, whatever is in the    *)
(* slot, and every register and flag keeps its range.                      *)
THEOREM TypeCorrect == Spec => []TypeOK
<1>1. IInv => TypeOK
  BY DEF IInv
<1>2. QED
  BY <1>1, SpecIInv, PTL

(* A card that obeys transfers is addressed the way it counts, even after  *)
(* cards were exchanged without the driver noticing.                       *)
THEOREM AddressingCorrect == Spec => []AddressedRight
<1>1. IInv => AddressedRight
  BY DEF IInv, AddressedAs, AddressedRight, Woken
<1>2. QED
  BY <1>1, SpecIInv, PTL

(* sdc_read and sdc_write move the blocks they were asked for, each to or  *)
(* from its own place in the buffer.                                       *)
THEOREM TransfersCorrect == Spec => []RightBlocks
<1>1. IInv => RightBlocks
  BY DEF IInv
<1>2. QED
  BY <1>1, SpecIInv, PTL

(* A call that returns leaves no card within a transfer and the bus free.  *)
THEOREM CallsLeaveNothingOpen == Spec => []NothingLeftOpen
<1>1. IInv => NothingLeftOpen
  BY DEF IInv, Resting, Bus, NothingLeftOpen, AtRest, InitSteps
<1>2. QED
  BY <1>1, SpecIInv, PTL
=============================================================================
