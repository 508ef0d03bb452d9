-------------------------- MODULE CartridgeProofs ---------------------------
(* Theorems about Cartridge, for cartridges of any size, waits of any      *)
(* length, and a counter with a low byte of any size.                      *)
EXTENDS Cartridge, SequenceTheorems, TLAPS

USE DEF CART_ID_UNDEF, CART_ID_NONE, CART_ID_RAM, CART_ID_FLASH, Cells, Last

-----------------------------------------------------------------------------
(* The inductive invariant. *)

(* Where a call is, and what it has left; only a flash chip has requests.  *)
Sending ==
  /\ stage = "none" => todo = <<>>
  /\ stage = "command" => todo # <<>>
  /\ Busy \/ stage # "none" => slot = CART_ID_FLASH
  /\ reading # Unread => stage \in {"target", "wait"} /\ reading.part # "none"

(* A reading that is not torn gives a time that was, and is not ahead.     *)
Halves ==
  ~torn => /\ reading.part = "low" => reading.value + High <= jiffies
           /\ reading.part = "high" => reading.value = High

(* While the chip is busy its call waits, until more ticks have passed     *)
(* than the chip can take.                                                 *)
Awaited ==
  ~torn /\ Busy =>
    /\ stage \in {"target", "wait"}
    /\ delay = DelayOf(chip.request)
    /\ chip.ticks <= TicksOf(chip.request)
    /\ stage = "wait" => jiffies + delay <= target_jiffies + chip.ticks
    /\ stage = "target" /\ reading.part = "low" => jiffies <= reading.value + High + chip.ticks

IInv == TypeOK /\ Sending /\ Halves /\ Awaited

-----------------------------------------------------------------------------
(* A time is split into two numbers, of which a tick changes the low one   *)
(* only, unless it carries.                                                *)
LEMMA Parts ==
  ASSUME jiffies \in Nat PROVE Low \in Nat /\ High \in Nat /\ Low + High = jiffies
<1>1. Low \in Nat /\ Low <= jiffies
  BY TimerAssumption, SMT DEF Low
<1>2. QED
  BY <1>1 DEF High

LEMMA NoCarry ==
  ASSUME jiffies \in Nat, Tick, ~Carries PROVE Low' = Low + 1 /\ High' = High
<1>1. \A n, m \in Nat : m > 0 /\ n % m # m - 1 => (n + 1) % m = (n % m) + 1
  <2> SUFFICES ASSUME NEW n \in Nat, NEW m \in Nat, m > 0, n % m # m - 1
               PROVE (n + 1) % m = (n % m) + 1
    OBVIOUS
  <2> DEFINE q == n \div m
             r == n % m
             p == (n + 1) \div m
             t == (n + 1) % m
  <2>1. q \in Int /\ r \in 0 .. m - 1 /\ n = (m * q) + r
    BY SMT
  <2>2. p \in Int /\ t \in 0 .. m - 1 /\ n + 1 = (m * p) + t
    BY SMT
  <2>3. r + 1 \in 0 .. m - 1 /\ (m * p) + t = (m * q) + (r + 1)
    BY <2>1, <2>2
  <2> HIDE DEF q, r, p, t
  <2>4. ASSUME p # q PROVE FALSE
    <3>1. \A k \in Int : k >= 1 => m * k >= m
      BY SMT
    <3>2. m * p - m * q = m * (p - q) /\ m * q - m * p = m * (q - p)
      BY <2>1, <2>2, SMT
    <3>3. m * p - m * q >= m \/ m * q - m * p >= m
      BY <2>1, <2>2, <2>4, <3>1, <3>2
    <3>4. m * p \in Int /\ m * q \in Int
      BY <2>1, <2>2
    <3>5. QED
      BY <2>2, <2>3, <3>3, <3>4
  <2>5. t = r + 1
    BY <2>1, <2>2, <2>3, <2>4
  <2>6. QED
    BY <2>5 DEF r, t
<1>2. Low' = Low + 1
  <2>1. jiffies % LowSize # LowSize - 1
    BY DEF Low, Carries
  <2>2. (jiffies + 1) % LowSize = (jiffies % LowSize) + 1
    BY <1>1, <2>1, TimerAssumption
  <2>3. QED
    BY <2>2 DEF Low, Tick
<1>3. QED
  BY <1>2, Parts DEF High, Tick

-----------------------------------------------------------------------------
(* Every call of a program is a Call with requests for the cartridge, even *)
(* those of cart_write, although its test is made for the source only.     *)

LEMMA CopiesTyped ==
  ASSUME NEW count \in 0 .. MaxCount, NEW src \in Cells \cup {-1}, NEW dest \in 0 .. Size - count,
         InCartridge(src, count)
  PROVE [x \in 1 .. count |-> Copy(dest + x - 1, src + x - 1)] \in Seq(Requests)
<1>1. count \in Nat /\ src \in Nat /\ Size \in Nat /\ src + count < Size
  BY CartridgeAssumption DEF InCartridge
<1>2. ASSUME NEW x \in 1 .. count PROVE Copy(dest + x - 1, src + x - 1) \in Requests
  <2>1. dest + x - 1 \in Cells /\ src + x - 1 \in Cells
    BY <1>1
  <2>2. QED
    BY <2>1 DEF Copy, Requests
<1>3. QED
  BY <1>1, <1>2, IsASeq

(* What each call asks for. *)
LEMMA EraseCalls ==
  <<Erase>> \in Seq(Requests) /\ (CartErase => Call(<<Erase>>))
<1>1. Erase \in Requests
  BY DEF Erase, Requests
<1>2. QED
  BY <1>1 DEF CartErase

ByteRequest(address, value) == IF address \in Cells THEN <<Write(address, value)>> ELSE <<>>

LEMMA ByteCalls ==
  ASSUME NEW address, NEW value \in Byte
  PROVE  /\ ByteRequest(address, value) \in Seq(Requests)
         /\ CartWriteB(address, value) => Call(ByteRequest(address, value))
<1>1. CASE address \in Cells
  <2>1. Write(address, value) \in Requests
    BY <1>1 DEF Write, Requests
  <2>2. <<Write(address, value)>> \in Seq(Requests)
    BY <2>1
  <2>3. QED
    BY <1>1, <2>2 DEF CartWriteB, ByteRequest
<1>2. CASE address \notin Cells
  BY <1>2, EmptySeq DEF CartWriteB, ByteRequest
<1>3. QED
  BY <1>1, <1>2

BlockRequests(dest, src, count) ==
  IF src .. src + count \subseteq Cells
    THEN [x \in 1 .. count |-> Copy(dest + x - 1, src + x - 1)] ELSE <<>>

LEMMA BlockCalls ==
  ASSUME NEW count \in 0 .. MaxCount, NEW src \in Cells \cup {-1}, NEW dest \in 0 .. Size - count
  PROVE  /\ BlockRequests(dest, src, count) \in Seq(Requests)
         /\ CartWrite(dest, src, count) => Call(BlockRequests(dest, src, count))
<1>1. Size \in Nat /\ MaxCount \in Nat /\ count \in Nat /\ src \in Int
  BY CartridgeAssumption DEF Cells
<1>2. InCartridge(src, count) <=> src .. src + count \subseteq Cells
  <2>1. src \in src .. src + count /\ src + count \in src .. src + count
    BY <1>1
  <2>2. src .. src + count \subseteq Cells => 0 <= src /\ src + count <= Size - 1
    BY <1>1, <2>1 DEF Cells
  <2>3. 0 <= src /\ src + count <= Size - 1 => src .. src + count \subseteq Cells
    BY <1>1 DEF Cells
  <2>4. QED
    BY <1>1, <2>2, <2>3 DEF InCartridge, Last
<1>3. CASE InCartridge(src, count)
  <2>1. [x \in 1 .. count |-> Copy(dest + x - 1, src + x - 1)] \in Seq(Requests)
    BY <1>3, CopiesTyped
  <2>2. QED
    BY <1>2, <1>3, <2>1 DEF CartWrite, BlockRequests
<1>4. CASE ~InCartridge(src, count)
  BY <1>2, <1>4, EmptySeq DEF CartWrite, BlockRequests
<1>5. QED
  BY <1>3, <1>4

LEMMA ProgramsCall ==
  ASSUME Programs PROVE \E requests \in Seq(Requests) : Call(requests)
<1>1. CASE CartErase
  BY <1>1, EraseCalls
<1>2. CASE \E address \in Cells \cup {-1, Size}, value \in Byte : CartWriteB(address, value)
  BY <1>2, ByteCalls
<1>3. CASE \E count \in 0 .. MaxCount, src \in Cells \cup {-1} :
             \E dest \in 0 .. Size - count : CartWrite(dest, src, count)
  BY <1>3, BlockCalls
<1>4. QED
  BY <1>1, <1>2, <1>3 DEF Programs

-----------------------------------------------------------------------------
(* Types. *)

LEMMA EffectTyped ==
  ASSUME NEW request \in Requests, content \in [Cells -> Byte]
  PROVE Effect(request, content) \in [Cells -> Byte]
BY DEF Requests, Effect, Byte

LEMMA TypeStep ==
  ASSUME TypeOK, Sending, [Next]_vars PROVE TypeOK'
<1>1. ASSUME NEW requests \in Seq(Requests), Call(requests) PROVE TypeOK'
  <2>1. content' \in [Cells -> Byte]
    BY <1>1, CartridgeAssumption DEF TypeOK, Call, CartId
  <2>2. /\ todo' \in Seq(Requests)
        /\ stage' \in {"none", "command", "target", "wait"}
        /\ torn' \in BOOLEAN
    BY <1>1 DEF TypeOK, Call
  <2>3. QED
    BY <1>1, <2>1, <2>2 DEF TypeOK, Call, CartId
<1>2. CASE Command
  <2>1. Head(todo) \in Requests /\ Tail(todo) \in Seq(Requests)
    BY <1>2 DEF TypeOK, Sending, Command
  <2>2. DelayOf(Head(todo)) \in Nat
    BY CartridgeAssumption DEF DelayOf
  <2>3. QED
    BY <1>2, <2>1, <2>2 DEF TypeOK, Command
<1>3. CASE Read
  BY <1>3, Parts DEF TypeOK, Read, ReadHalf, call
<1>4. CASE SetTarget
  <2>1. JiffiesRead + delay \in Nat
    BY Parts DEF JiffiesRead, TypeOK
  <2>2. QED
    BY <1>4, <2>1 DEF TypeOK, SetTarget, ReadRest, Unread
<1>5. CASE TestTarget
  BY <1>5 DEF TypeOK, TestTarget, ReadRest, Unread
<1>6. CASE ChipDone
  BY <1>6, EffectTyped DEF TypeOK, ChipDone, Busy, Idle, call
<1>7. CASE CounterTicks
  <2>1. chip' \in [request : Requests \cup {None}, ticks : Nat]
    BY <1>7 DEF TypeOK, CounterTicks
  <2>2. jiffies' \in Nat /\ torn' \in BOOLEAN
    BY <1>7 DEF TypeOK, CounterTicks, Tick
  <2>3. QED
    BY <1>7, <2>1, <2>2 DEF TypeOK, CounterTicks, Tick, call
<1>8. CASE UNCHANGED vars
  BY <1>8 DEF TypeOK, vars, call
<1>9. QED
  BY <1>1, <1>2, <1>3, <1>4, <1>5, <1>6, <1>7, <1>8, ProgramsCall DEF Next, Firmware, Hardware

-----------------------------------------------------------------------------
(* The rest of the invariant. *)

LEMMA SendingStep ==
  ASSUME TypeOK, Sending, [Next]_vars PROVE Sending'
<1>1. ASSUME NEW requests \in Seq(Requests), Call(requests) PROVE Sending'
  BY <1>1 DEF Sending, Call, CartId, Busy, Unread
<1>2. CASE Command
  BY <1>2 DEF Sending, Command, Busy, Unread
<1>3. CASE Read
  BY <1>3 DEF Sending, Read, ReadHalf, HalfRead, Busy, Unread, call
<1>4. CASE SetTarget
  BY <1>4 DEF Sending, SetTarget, ReadRest, Busy, Unread
<1>5. CASE TestTarget
  BY <1>5 DEF Sending, TestTarget, ReadRest, Busy, Unread
<1>6. CASE ChipDone
  BY <1>6 DEF Sending, ChipDone, Busy, Idle, Unread, call
<1>7. CASE CounterTicks
  BY <1>7 DEF Sending, CounterTicks, Tick, Busy, Unread, call, TypeOK
<1>8. CASE UNCHANGED vars
  BY <1>8 DEF Sending, vars, call, Busy, Unread
<1>9. QED
  BY <1>1, <1>2, <1>3, <1>4, <1>5, <1>6, <1>7, <1>8, ProgramsCall DEF Next, Firmware, Hardware

LEMMA HalvesStep ==
  ASSUME TypeOK, Sending, Halves, [Next]_vars PROVE Halves'
<1>1. ASSUME NEW requests \in Seq(Requests), Call(requests) PROVE Halves'
  BY <1>1 DEF Sending, Halves, Call, Unread, High, Low
<1>2. CASE Command
  BY <1>2 DEF Halves, Command, High, Low
<1>3. CASE Read
  BY <1>3, Parts DEF TypeOK, Halves, Read, ReadHalf, High, Low
<1>4. CASE SetTarget \/ TestTarget
  BY <1>4 DEF Halves, SetTarget, TestTarget, ReadRest, Unread
<1>5. CASE ChipDone
  BY <1>5 DEF Halves, ChipDone, High, Low
<1>6. CASE CounterTicks
  <2> SUFFICES ASSUME ~torn', reading.part \in {"low", "high"} PROVE Halves'
    BY <1>6 DEF Halves, CounterTicks, Tick
  <2>1. HalfRead /\ ~torn /\ ~Carries
    <3>1. HalfRead
      BY DEF HalfRead, Unread
    <3>2. QED
      BY <1>6, <3>1 DEF CounterTicks
  <2>2. High' = High
    BY <1>6, <2>1, NoCarry DEF CounterTicks, TypeOK
  <2>3. QED
    BY <1>6, <2>1, <2>2, Parts DEF Halves, CounterTicks, Tick, TypeOK
<1>7. CASE UNCHANGED vars
  BY <1>7 DEF Halves, vars, High, Low
<1>8. QED
  BY <1>1, <1>2, <1>3, <1>4, <1>5, <1>6, <1>7, ProgramsCall DEF Next, Firmware, Hardware

(* What a reading that is not torn gives is at most the time.              *)
LEMMA NotAhead ==
  ASSUME TypeOK, Halves, ~torn, reading.part \in {"low", "high"} PROVE JiffiesRead <= jiffies
BY Parts DEF JiffiesRead, Halves, TypeOK

(* A wait that is over has been longer than the chip is busy.              *)
LEMMA Outlasted ==
  ASSUME TypeOK, Sending, Halves, Awaited, TestTarget, ~torn, ~StillWaiting PROVE ~Busy
<1> SUFFICES ASSUME Busy PROVE FALSE
  OBVIOUS
<1>1. reading.part \in {"low", "high"} /\ stage = "wait"
  BY DEF TestTarget, ReadRest, HalfRead, Sending, TypeOK
<1>2. JiffiesRead <= jiffies /\ target_jiffies <= JiffiesRead
  BY <1>1, NotAhead, Parts DEF StillWaiting, TypeOK, JiffiesRead
<1>3. delay > TicksOf(chip.request)
  BY CartridgeAssumption DEF Awaited, DelayOf, TicksOf
<1>4. JiffiesRead \in Nat /\ TicksOf(chip.request) \in Nat
  BY <1>1, Parts, CartridgeAssumption DEF JiffiesRead, TypeOK, TicksOf
<1>5. QED
  BY <1>1, <1>2, <1>3, <1>4 DEF Awaited, TypeOK

LEMMA AwaitedStep ==
  ASSUME TypeOK, Sending, Halves, Awaited, [Next]_vars PROVE Awaited'
<1>1. ASSUME NEW requests \in Seq(Requests), Call(requests) PROVE Awaited'
  BY <1>1 DEF Awaited, Call, Busy, TypeOK
<1>2. CASE Command
  <2> SUFFICES ASSUME ~torn, Busy' PROVE Awaited'
    BY <1>2 DEF Awaited, Command
  <2>1. ~Busy /\ reading.part = "none"
    BY <1>2 DEF Awaited, Sending, Command, Unread
  <2>2. TicksOf(Head(todo)) \in Nat
    BY CartridgeAssumption DEF TicksOf
  <2>3. QED
    BY <1>2, <2>1, <2>2 DEF Awaited, Command, TicksOf, DelayOf, TypeOK
<1>3. CASE Read
  BY <1>3, Parts DEF Awaited, Read, ReadHalf, call, Busy, High, Low, TypeOK, TicksOf, DelayOf
<1>4. CASE SetTarget
  <2> SUFFICES ASSUME ~torn, Busy PROVE Awaited'
    BY <1>4 DEF Awaited, SetTarget, Busy
  <2>1. reading.part \in {"low", "high"}
    BY <1>4 DEF SetTarget, ReadRest, HalfRead, Sending, TypeOK
  <2>2. jiffies <= JiffiesRead + chip.ticks
    BY <1>4, <2>1, Parts DEF JiffiesRead, Awaited, Halves, SetTarget, TypeOK
  <2>3. JiffiesRead \in Nat
    BY Parts DEF JiffiesRead, TypeOK
  <2>4. jiffies' + delay' <= target_jiffies' + chip'.ticks
    BY <1>4, <2>2, <2>3 DEF SetTarget, TypeOK
  <2>5. QED
    BY <1>4, <2>4 DEF Awaited, SetTarget, TicksOf, DelayOf, Busy
<1>5. CASE TestTarget
  <2>1. CASE StillWaiting
    BY <1>5, <2>1 DEF Awaited, TestTarget, Busy, TicksOf, DelayOf
  <2>2. CASE ~StillWaiting
    BY <1>5, <2>2, Outlasted DEF Awaited, TestTarget, Busy
  <2>3. QED
    BY <2>1, <2>2
<1>6. CASE ChipDone
  BY <1>6 DEF Awaited, ChipDone, Busy, Idle
<1>7. CASE CounterTicks
  <2> SUFFICES ASSUME ~torn', Busy' PROVE Awaited'
    BY DEF Awaited
  <2>1. ~torn /\ Busy /\ (HalfRead => ~Carries)
    BY <1>7 DEF CounterTicks, Busy
  <2>2. chip'.request = chip.request /\ chip'.ticks = chip.ticks + 1 /\ jiffies' = jiffies + 1
    BY <1>7, <2>1 DEF CounterTicks, Tick, TypeOK
  <2>3. chip'.ticks <= TicksOf(chip.request)
    BY <1>7, <2>1, <2>2, CartridgeAssumption DEF CounterTicks, TypeOK, TicksOf
  <2>4. reading.part = "low" => High' = High
    BY <1>7, <2>1, NoCarry DEF CounterTicks, TypeOK, HalfRead, Unread
  <2>5. stage = "target" /\ reading.part = "low" => jiffies' <= reading.value + High' + chip'.ticks
    BY <2>1, <2>2, <2>4, Parts DEF Awaited, TypeOK
  <2>6. stage = "wait" => jiffies' + delay <= target_jiffies + chip'.ticks
    BY <2>1, <2>2 DEF Awaited, TypeOK
  <2>7. QED
    BY <1>7, <2>1, <2>2, <2>3, <2>5, <2>6 DEF Awaited, CounterTicks, Tick, call, TicksOf, DelayOf
<1>8. CASE UNCHANGED vars
  BY <1>8 DEF Awaited, vars, call, Busy, High, Low, TicksOf, DelayOf
<1>9. QED
  BY <1>1, <1>2, <1>3, <1>4, <1>5, <1>6, <1>7, <1>8, ProgramsCall DEF Next, Firmware, Hardware

-----------------------------------------------------------------------------
LEMMA Inductive == Spec => []IInv
<1>1. Init => IInv
  BY CartridgeAssumption
     DEF Init, IInv, TypeOK, Sending, Halves, Awaited, Idle, Busy, TimersInit, Unread
<1>2. IInv /\ [Next]_vars => IInv'
  BY TypeStep, SendingStep, HalvesStep, AwaitedStep DEF IInv
<1>3. QED
  BY <1>1, <1>2, PTL DEF Spec

(* Nothing is read or written outside the cartridge, and the counters and  *)
(* the request under way are what they should be.                          *)
THEOREM TypeCorrect == Spec => []TypeOK
<1>1. IInv => TypeOK
  BY DEF IInv
<1>2. QED
  BY <1>1, Inductive, PTL

(* A call returns only when the chip is done with what it was sent, unless *)
(* a reading of the counter was torn.                                      *)
THEOREM ReturnsDone == Spec => [](stage = "none" /\ ~torn => ~Busy)
<1>1. IInv => (stage = "none" /\ ~torn => ~Busy)
  BY DEF IInv, Awaited
<1>2. QED
  BY <1>1, Inductive, PTL

-----------------------------------------------------------------------------
(* The refinement: what is pending, as a sequence of a chip and the rest.  *)

Owed(c, t) == (IF c.request # None THEN <<c.request>> ELSE <<>>) \o t

LEMMA Ahead ==
  ASSUME NEW r \in Requests, NEW t \in Seq(Requests)
  PROVE /\ <<r>> \o t \in Seq(Requests)
        /\ <<r>> \o t # <<>>
        /\ Head(<<r>> \o t) = r
        /\ Tail(<<r>> \o t) = t
        /\ t # <<>> => 2 \in DOMAIN (<<r>> \o t) /\ Promise!RemoveAt(<<r>> \o t, 2) = <<r>> \o Tail(t)
<1> DEFINE p == <<r>> \o t
<1>1. <<r>> \in Seq(Requests) /\ Len(<<r>>) = 1 /\ <<r>>[1] = r
  OBVIOUS
<1>2. /\ p \in Seq(Requests)
      /\ Len(p) = Len(t) + 1
      /\ \A i \in 1 .. Len(t) + 1 : p[i] = IF i <= 1 THEN r ELSE t[i - 1]
  BY <1>1, ConcatProperties
<1> HIDE DEF p
<1>3. p # <<>> /\ Head(p) = r
  BY <1>2
<1>4. Tail(p) = t
  <2>1. Tail(p) \in Seq(Requests) /\ Len(Tail(p)) = Len(t) /\ \A i \in 1 .. Len(t) : Tail(p)[i] = t[i]
    BY <1>2, <1>3, HeadTailProperties
  <2>2. QED
    BY <2>1, SeqEqual
<1>5. ASSUME t # <<>> PROVE 2 \in DOMAIN p /\ Promise!RemoveAt(p, 2) = <<r>> \o Tail(t)
  <2>1. Len(t) \in Nat /\ Len(t) >= 1 /\ 2 \in DOMAIN p
    BY <1>2, <1>5
  <2>2. SubSeq(p, 1, 1) = <<r>>
    <3>1. \A i \in 1 .. 1 : p[i] \in Requests /\ p[i] = r
      BY <1>2, <2>1
    <3>2. SubSeq(p, 1, 1) = <<p[1]>> \o SubSeq(p, 2, 1)
      BY <1>2, <2>1, SubSeqRecursiveFirst
    <3>3. SubSeq(p, 2, 1) = <<>>
      BY SubSeqEmpty
    <3>4. <<r>> \o <<>> = <<r>>
      BY <1>1, ConcatEmptySeq
    <3>5. p[1] = r
      BY <3>1
    <3>6. QED
      BY <3>2, <3>3, <3>4, <3>5
  <2>3. SubSeq(p, 3, Len(p)) = Tail(t)
    <3>1. SubSeq(p, 3, Len(p)) = SubSeq(Tail(p), 2, Len(p) - 1)
      BY <1>2, <1>3, <2>1
    <3>2. QED
      BY <1>2, <1>4, <1>5, <3>1, TailIsSubSeq
  <2>4. Promise!RemoveAt(p, 2) = SubSeq(p, 1, 1) \o SubSeq(p, 3, Len(p))
    BY SMT DEF Promise!RemoveAt
  <2>5. QED
    BY <2>1, <2>2, <2>3, <2>4
<1>6. QED
  BY <1>2, <1>3, <1>4, <1>5 DEF p

LEMMA Alone ==
  ASSUME NEW t \in Seq(Requests), NEW c, c.request = None PROVE Owed(c, t) = t
BY ConcatEmptySeq DEF Owed

LEMMA OwedTyped ==
  ASSUME NEW c, c.request \in Requests \cup {None}, NEW t \in Seq(Requests)
  PROVE Owed(c, t) \in Seq(Requests) /\ (Owed(c, t) = <<>> <=> c.request = None /\ t = <<>>)
<1>1. CASE c.request = None
  BY <1>1, Alone
<1>2. CASE c.request # None
  BY <1>2, Ahead DEF Owed
<1>3. QED
  BY <1>1, <1>2

LEMMA Extends ==
  ASSUME NEW c, c.request \in Requests \cup {None}, NEW t \in Seq(Requests), t # <<>>
  PROVE Promise!IsStrictPrefix(Owed(c, <<>>), Owed(c, t))
<1>1. CASE c.request = None
  <2>1. Owed(c, <<>>) = <<>> /\ Owed(c, t) = t
    BY <1>1, Alone, EmptySeq
  <2>2. QED
    BY <2>1 DEF Promise!IsStrictPrefix, Promise!IsPrefix
<1>2. CASE c.request # None
  <2>1. Owed(c, <<>>) = <<c.request>> /\ Owed(c, t) = <<c.request>> \o t
    BY <1>2 DEF Owed
  <2>2. /\ <<c.request>> \o t \in Seq(Requests)
        /\ Len(<<c.request>> \o t) = Len(t) + 1
        /\ (<<c.request>> \o t)[1] = c.request
    BY <1>2, ConcatProperties
  <2>3. Len(t) \in Nat /\ Len(t) >= 1
    OBVIOUS
  <2>4. QED
    BY <2>1, <2>2, <2>3 DEF Promise!IsStrictPrefix, Promise!IsPrefix
<1>3. QED
  BY <1>1, <1>2

LEMMA OwedGrows ==
  ASSUME NEW c, c.request \in Requests \cup {None}, NEW t \in Seq(Requests)
  PROVE Owed(c, t) = Owed(c, <<>>) \o t
<1>1. CASE c.request = None
  <2>1. Owed(c, t) = t /\ Owed(c, <<>>) = <<>>
    BY <1>1, Alone, EmptySeq
  <2>2. QED
    BY <2>1, ConcatEmptySeq
<1>2. CASE c.request # None
  <2>1. Owed(c, <<>>) = <<c.request>> /\ Owed(c, t) = <<c.request>> \o t
    BY <1>2 DEF Owed
  <2>2. QED
    BY <2>1
<1>3. QED
  BY <1>1, <1>2

-----------------------------------------------------------------------------
(* The steps. *)

Mapped == IF slot = CART_ID_FLASH THEN content ELSE [c \in Cells |-> {}]

LEMMA PendingOwed == Pending = Owed(chip, todo) /\ Pending' = Owed(chip', todo')
BY DEF Pending, Owed, Busy

(* A call asks, if there is a chip and something to ask for.               *)
LEMMA CallAsks ==
  ASSUME IInv, NEW requests \in Seq(Requests), Call(requests)
  PROVE Asks(requests)
<1>1. CASE slot = CART_ID_FLASH /\ requests # <<>>
  <2>1. Mapped' = Mapped
    BY <1>1 DEF Call, CartId, Mapped
  <2>2. todo = <<>> /\ todo' = requests /\ torn' = (torn /\ Busy) /\ chip' = chip
    BY <1>1 DEF IInv, Sending, Call
  <2>3. chip.request \in Requests \cup {None}
    BY DEF IInv, TypeOK
  <2>4. Pending = <<>> <=> ~Busy
    BY <2>2, <2>3, PendingOwed, OwedTyped, EmptySeq DEF Busy
  <2>5. Pending = <<>> \/ torn
    BY <2>4 DEF IInv, Awaited, Call
  <2>6. Pending' \in Seq(Requests)
    BY <2>2, <2>3, PendingOwed, OwedTyped
  <2>7. Promise!IsStrictPrefix(Pending, Pending')
    BY <1>1, <2>2, <2>3, PendingOwed, Extends
  <2>8. Requests = Promise!Requests
    BY DEF Requests, Promise!Requests, Byte
  <2>9. Promise!Ask
    BY <2>1, <2>2, <2>4, <2>5, <2>6, <2>7, <2>8 DEF Promise!Ask, Mapped
  <2>10. Pending' = Pending \o requests
    BY <2>2, <2>3, PendingOwed, OwedGrows
  <2>11. QED
    BY <1>1, <2>9, <2>10 DEF Promise!AskFor, Asks
<1>2. CASE ~(slot = CART_ID_FLASH /\ requests # <<>>)
  <2>1. Mapped' = Mapped
    <3>1. CASE slot = CART_ID_FLASH
      BY <1>2, <3>1 DEF Call, CartId, Mapped
    <3>2. CASE slot # CART_ID_FLASH
      BY <1>2, <3>2 DEF Call, Mapped
    <3>3. QED
      BY <3>1, <3>2
  <2>2. Pending' = Pending /\ torn' = torn
    BY <1>2, PendingOwed DEF Call
  <2>3. QED
    BY <1>2, <2>1, <2>2 DEF Promise!vars, Mapped, Asks
<1>3. QED
  BY <1>1, <1>2

(* A command that the chip ignores is lost; one that it takes is not.      *)
LEMMA CommandLoses ==
  ASSUME IInv, Command
  PROVE Promise!Lose \/ UNCHANGED Promise!vars
<1>1. todo \in Seq(Requests) /\ todo # <<>> /\ todo' = Tail(todo)
  BY DEF IInv, TypeOK, Sending, Command
<1>2. Mapped' = Mapped /\ torn' = torn
  BY DEF Command, Mapped
<1>3. CASE Busy
  <2>1. torn /\ chip.request \in Requests /\ chip' = chip
    BY <1>3 DEF IInv, Awaited, Command, TypeOK, Busy
  <2>2. Pending = <<chip.request>> \o todo /\ Pending' = <<chip.request>> \o Tail(todo)
    BY <1>1, <1>3, <2>1, PendingOwed DEF Owed, Busy
  <2>3. 2 \in DOMAIN Pending /\ Pending' = Promise!RemoveAt(Pending, 2)
    BY <1>1, <2>1, <2>2, Ahead
  <2>4. QED
    BY <1>2, <2>1, <2>3 DEF Promise!Lose, Mapped
<1>4. CASE ~Busy
  <2>1. Pending = todo
    BY <1>1, <1>4, PendingOwed, Alone DEF Busy
  <2>2. chip' = [request |-> Head(todo), ticks |-> 0] /\ Head(todo) \in Requests
    BY <1>1, <1>4, HeadTailProperties DEF Command
  <2>3. Pending' = <<Head(todo)>> \o Tail(todo)
    <3>1. Head(todo) # None
      BY <2>2, CartridgeAssumption
    <3>2. QED
      BY <1>1, <2>2, <3>1, PendingOwed DEF Owed
  <2>4. QED
    BY <1>1, <1>2, <2>1, <2>2, <2>3 DEF Promise!vars, Mapped
<1>5. QED
  BY <1>3, <1>4

LEMMA ChipPerforms ==
  ASSUME IInv, ChipDone
  PROVE Promise!Perform
<1>1. chip.request \in Requests /\ todo \in Seq(Requests) /\ chip' = Idle /\ todo' = todo
  BY DEF IInv, TypeOK, ChipDone, Busy, call
<1>2. Pending = <<chip.request>> \o todo
  BY PendingOwed DEF Owed, ChipDone, Busy
<1>3. Pending' = todo
  BY <1>1, PendingOwed, Alone DEF Idle
<1>4. Pending # <<>> /\ Head(Pending) = chip.request /\ Pending' = Tail(Pending)
  BY <1>1, <1>2, <1>3, Ahead
<1>5. Mapped = content /\ Mapped' = content' /\ torn' = torn
  BY DEF IInv, Sending, ChipDone, Mapped
<1>6. content' = Promise!CarriedOut(chip.request, content)
  BY DEF ChipDone, Effect, Promise!CarriedOut
<1>7. QED
  BY <1>4, <1>5, <1>6 DEF Promise!Perform, Mapped

LEMMA TickExcuses ==
  ASSUME IInv, CounterTicks
  PROVE Promise!Excuse \/ UNCHANGED Promise!vars
<1>1. chip'.request = chip.request /\ todo' = todo /\ Mapped' = Mapped
  BY DEF IInv, TypeOK, CounterTicks, call, Mapped
<1>2. Pending' = Pending
  BY <1>1, PendingOwed DEF Owed
<1>3. torn' = TRUE \/ torn' = torn
  BY DEF IInv, TypeOK, CounterTicks
<1>4. QED
  BY <1>1, <1>2, <1>3 DEF Promise!Excuse, Promise!vars, Mapped

LEMMA WaitStutters ==
  ASSUME Read \/ SetTarget \/ TestTarget \/ UNCHANGED vars
  PROVE UNCHANGED Promise!vars
<1>1. UNCHANGED <<slot, content, chip, todo, torn>>
  BY DEF Read, SetTarget, TestTarget, vars, call
<1>2. Pending' = Pending
  BY <1>1, PendingOwed
<1>3. QED
  BY <1>1, <1>2 DEF Promise!vars

(* What the calls ask for, and they ask for what is said of each, arrives   *)
(* in order and before the call returns unless a reading was torn, for      *)
(* cartridges of any size.                                                  *)
THEOREM FlashImplemented == Spec => ImplementsNorFlash
<1>1. Init => Promise!Init
  <2> SUFFICES ASSUME Init PROVE Promise!Init
    OBVIOUS
  <2>1. Pending = <<>>
    BY PendingOwed, Alone, EmptySeq DEF Init, Idle
  <2>2. QED
    BY <2>1 DEF Init, Promise!Init, Byte
<1>2. IInv /\ [Next]_vars => [Promise!Next]_(Promise!vars)
  <2> SUFFICES ASSUME IInv, [Next]_vars PROVE Promise!Next \/ UNCHANGED Promise!vars
    OBVIOUS
  <2>1. CASE Programs
    <3>1. PICK requests \in Seq(Requests) : Call(requests)
      BY <2>1, ProgramsCall
    <3>2. Asks(requests)
      BY <3>1, CallAsks
    <3>3. QED
      BY <3>2 DEF Asks, Promise!AskFor, Promise!Next
  <2>2. CASE Command
    BY <2>2, CommandLoses DEF Promise!Next
  <2>3. CASE ChipDone
    BY <2>3, ChipPerforms DEF Promise!Next
  <2>4. CASE CounterTicks
    BY <2>4, TickExcuses DEF Promise!Next
  <2>5. QED
    BY <2>1, <2>2, <2>3, <2>4, WaitStutters DEF Next, Firmware, Hardware
<1>3. IInv /\ [Next]_vars => [CallsAsk]_vars
  <2> SUFFICES ASSUME IInv PROVE CallsAsk
    OBVIOUS
  <2>1. CartErase => Asks(<<Erase>>)
    BY EraseCalls, CallAsks
  <2>2. ASSUME NEW address \in Cells \cup {-1, Size}, NEW value \in Byte, CartWriteB(address, value)
        PROVE  Asks(ByteRequest(address, value))
    BY <2>2, ByteCalls, CallAsks
  <2>3. ASSUME NEW count \in 0 .. MaxCount, NEW src \in Cells \cup {-1}, NEW dest \in 0 .. Size - count,
               CartWrite(dest, src, count)
        PROVE  Asks(BlockRequests(dest, src, count))
    BY <2>3, BlockCalls, CallAsks
  <2>4. QED
    BY <2>1, <2>2, <2>3 DEF CallsAsk, ByteRequest, BlockRequests
<1>4. QED
  BY <1>1, <1>2, <1>3, Inductive, PTL DEF Spec, ImplementsNorFlash, Promise!Spec
=============================================================================
