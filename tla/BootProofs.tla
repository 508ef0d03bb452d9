----------------------------- MODULE BootProofs -----------------------------
(***************************************************************************)
(* Theorems about the boot screen of Boot: what it launches, whatever keys,*)
(* ticks and pulled cards come between its steps, and how long it waits,   *)
(* for any timeout and any width of the low byte of the counter; and about *)
(* its loaders: what they execute is in memory as its file describes, for  *)
(* any programs, any sizes of addresses, and chunks that end anywhere.     *)
(***************************************************************************)
EXTENDS Boot, SequenceTheorems, WellFoundedInduction, TLAPS

(* A reading of the counter that is under way has its low byte, or a high  *)
(* part that the counter has had.                                          *)
HalfReading ==
  HalfRead =>
    \/ reading.part = "low" /\ reading.value \in 0 .. LowSize - 1
    \/ /\ reading.part = "high" /\ reading.value \in 0 .. jiffies
       /\ stage = "target" => reading.value >= asked - (LowSize - 1)

(* The target may be early by the reading that set it.                     *)
Clock ==
  /\ jiffies \in Nat /\ asked \in 0 .. jiffies /\ jiffies_target \in Int
  /\ HalfReading
  /\ stage = "scan" => ~HalfRead
  /\ stage \in {"wait", "poll"} => jiffies_target >= asked + Timeout - (LowSize - 1)

(* From the scan to the launch the selection is of what the scan found.    *)
Choice ==
  /\ boot_ram \in BOOLEAN
  /\ stage = "scan" => chosen = NONE
  /\ stage \in {"target", "wait", "poll", "boot"} =>
       /\ found \subseteq Sources
       /\ bootable = {p \in 1 .. boot_src_cnt : boot_chain[p] \in found}
       /\ chosen = NONE => boot_source = Default(bootable)
       /\ chosen # NONE => boot_source = chosen /\ \E p \in bootable : chosen = boot_chain[p]

-----------------------------------------------------------------------------
(* The clock. *)

(* The two parts of the counter.                                           *)
LEMMA Parts ==
  ASSUME NEW j \in Nat
  PROVE  /\ j % LowSize \in 0 .. LowSize - 1
         /\ j - (j % LowSize) \in Nat
         /\ j - (j % LowSize) <= j /\ j - (j % LowSize) >= j - (LowSize - 1)
<1>1. LowSize \in Nat /\ LowSize > 0
  BY TimerAssumption
<1>2. j % LowSize \in 0 .. LowSize - 1 /\ j = LowSize * (j \div LowSize) + (j % LowSize)
  BY <1>1
<1>3. j \div LowSize \in Nat
  BY <1>1
<1>4. LowSize * (j \div LowSize) \in Nat
  BY <1>1, <1>3
<1> DEFINE low == j % LowSize
           high == LowSize * (j \div LowSize)
<1>5. low \in 0 .. LowSize - 1 /\ high \in Nat /\ j = high + low
  BY <1>2, <1>4
<1> HIDE DEF low, high
<1>6. j - low = high /\ high <= j /\ high >= j - (LowSize - 1)
  BY <1>1, <1>5
<1>7. QED
  BY <1>5, <1>6 DEF low

(* A reading is wrong by at most the low byte: too small by it when the    *)
(* low byte carries between the two halves one way, too large the other.   *)
LEMMA ReadingIs ==
  ASSUME Clock, HalfRead
  PROVE  /\ JiffiesRead \in Int
         /\ JiffiesRead <= jiffies + (LowSize - 1)
         /\ stage = "target" => JiffiesRead >= asked - (LowSize - 1)
<1>1. LowSize \in Nat /\ LowSize > 0 /\ jiffies \in Nat /\ asked \in 0 .. jiffies
  BY TimerAssumption DEF Clock
<1>2. /\ Low \in 0 .. LowSize - 1 /\ High \in Nat
      /\ High <= jiffies /\ High >= jiffies - (LowSize - 1)
  BY <1>1, Parts DEF Low, High
<1>3. CASE reading.part = "low" /\ reading.value \in 0 .. LowSize - 1
  <2>1. JiffiesRead = reading.value + High
    BY <1>3 DEF JiffiesRead
  <2>2. QED
    BY <1>1, <1>2, <1>3, <2>1
<1>4. CASE /\ reading.part = "high" /\ reading.value \in 0 .. jiffies
           /\ stage = "target" => reading.value >= asked - (LowSize - 1)
  <2>1. JiffiesRead = reading.value + Low
    BY <1>4 DEF JiffiesRead
  <2>2. QED
    BY <1>1, <1>2, <1>4, <2>1
<1>5. QED
  BY <1>3, <1>4 DEF Clock, HalfReading

(* Nothing has been read or chosen at the start.                           *)
LEMMA InitInv == Init => Clock /\ Choice
<1> SUFFICES ASSUME Init PROVE Clock /\ Choice
  OBVIOUS
<1>1. jiffies = 0 /\ asked = 0 /\ jiffies_target = 0 /\ ~HalfRead /\ stage = "scan"
  BY DEF Init, TimersInit, HalfRead
<1>2. Clock
  BY <1>1 DEF Clock, HalfReading
<1>3. QED
  BY <1>1, <1>2 DEF Init, Choice

(* Steps of the loaders and of the surroundings that leave the screen as   *)
(* it is.                                                                  *)
Elsewhere == UNCHANGED <<stage, boot_ram, clock, choice>>

(* What neither the clock nor the choice depends on.                       *)
LEMMA ElsewhereInv ==
  ASSUME Clock, Choice, Elsewhere
  PROVE  Clock' /\ Choice'
BY DEF Elsewhere, clock, choice, Clock, Choice, HalfReading, HalfRead, boot_src_cnt,
       boot_chain, Default

(* Every step of the boot screen keeps what is said of the clock.          *)
LEMMA ClockStep ==
  ASSUME Clock, Scan \/ ReadFirst \/ SetTarget \/ TestTarget \/ Poll \/ BootFrom \/ CounterTicks
  PROVE  Clock'
<1>0. /\ LowSize \in Nat /\ LowSize > 0 /\ Timeout \in Nat
      /\ jiffies \in Nat /\ asked \in 0 .. jiffies /\ jiffies_target \in Int
  BY TimerAssumption, BootAssumption DEF Clock
<1>1. CASE Scan
  BY <1>1 DEF Scan, clock, Clock, HalfReading, HalfRead
<1>2. CASE ReadFirst
  <2>1. /\ Low \in 0 .. LowSize - 1 /\ High \in 0 .. jiffies
        /\ High >= jiffies - (LowSize - 1)
    BY <1>0, Parts DEF Low, High
  <2>2. /\ stage' = stage /\ stage \in {"target", "wait"}
        /\ jiffies' = jiffies /\ jiffies_target' = jiffies_target
        /\ asked' = IF stage = "target" THEN jiffies ELSE asked
    BY <1>2 DEF ReadFirst
  <2>3. \/ reading'.part = "low" /\ reading'.value = Low
        \/ reading'.part = "high" /\ reading'.value = High
    BY <1>2 DEF ReadFirst, ReadHalf
  <2>4. HalfReading'
    BY <1>0, <2>1, <2>2, <2>3 DEF HalfReading
  <2>5. QED
    BY <1>0, <2>2, <2>4 DEF Clock
<1>3. CASE SetTarget
  <2>1. /\ HalfRead /\ stage = "target" /\ ~HalfRead' /\ stage' = "wait"
        /\ jiffies' = jiffies /\ asked' = asked /\ jiffies_target' = JiffiesRead + Timeout
    BY <1>3 DEF SetTarget, ReadRest, HalfRead, Unread
  <2>2. JiffiesRead \in Int /\ JiffiesRead >= asked - (LowSize - 1)
    BY <2>1, ReadingIs
  <2>3. QED
    BY <1>0, <2>1, <2>2 DEF Clock, HalfReading
<1>4. CASE TestTarget
  <2>1. /\ stage = "wait" /\ ~HalfRead' /\ stage' \in {"poll", "boot"}
        /\ jiffies' = jiffies /\ asked' = asked /\ jiffies_target' = jiffies_target
    BY <1>4 DEF TestTarget, ReadRest, HalfRead, Unread
  <2>2. QED
    BY <2>1 DEF Clock, HalfReading
<1>5. CASE Poll
  BY <1>5 DEF Poll, clock, Clock, HalfReading, HalfRead
<1>6. CASE BootFrom
  <2>1. /\ ~HalfRead' /\ stage' \in {"PGZ", "PGX", "running", "nothing"}
        /\ jiffies' = 0 /\ asked' = 0 /\ jiffies_target' = 0
    BY <1>6 DEF BootFrom, BootFile, Forget, HalfRead, Unread
  <2>2. QED
    BY <2>1 DEF Clock, HalfReading
<1>7. CASE CounterTicks
  <2>1. /\ jiffies' = jiffies + 1 /\ asked' = asked /\ jiffies_target' = jiffies_target
        /\ reading' = reading /\ stage' = stage
    BY <1>7 DEF CounterTicks, Tick
  <2>2. HalfReading'
    BY <1>0, <2>1 DEF Clock, HalfReading, HalfRead, Unread
  <2>3. QED
    BY <1>0, <2>1, <2>2 DEF Clock, HalfRead, Unread
<1>8. QED
  BY <1>1, <1>2, <1>3, <1>4, <1>5, <1>6, <1>7

-----------------------------------------------------------------------------
(* The choice. *)

(* Every step of the boot screen keeps what is said of the selection.      *)
LEMMA ChoiceStep ==
  ASSUME Choice,
         Scan \/ ReadFirst \/ SetTarget \/ TestTarget \/ Poll \/ BootFrom \/ CounterTicks
  PROVE  Choice'
<1>1. CASE Scan
  <2>1. /\ boot_ram' = boot_ram /\ chosen' = NONE /\ stage' = "target"
        /\ found' = {s \in Sources : IsBootable(s)}
        /\ bootable' = {p \in 1 .. boot_src_cnt : IsBootable(boot_chain[p])}
        /\ boot_source' = Default(bootable')
    BY <1>1 DEF Scan, Choice
  <2>2. bootable' = {p \in 1 .. boot_src_cnt : boot_chain[p] \in found'}
    BY <2>1 DEF IsBootable
  <2>3. boot_src_cnt' = boot_src_cnt /\ boot_chain' = boot_chain
    BY <2>1 DEF boot_src_cnt, boot_chain
  <2>4. Default(bootable)' = Default(bootable')
    BY <2>3 DEF Default
  <2>5. QED
    BY <2>1, <2>2, <2>3, <2>4 DEF Choice
<1>2. CASE ReadFirst \/ SetTarget \/ TestTarget \/ CounterTicks
  <2>1. UNCHANGED <<boot_ram, choice>>
    BY <1>2 DEF ReadFirst, SetTarget, TestTarget, CounterTicks
  <2>2. stage \in {"target", "wait", "poll", "boot"} /\ stage' # "scan"
    BY <1>2 DEF ReadFirst, SetTarget, TestTarget, CounterTicks
  <2>3. QED
    BY <2>1, <2>2 DEF choice, Choice, boot_src_cnt, boot_chain, Default
<1>3. CASE Poll
  <2>1. /\ boot_ram' = boot_ram /\ bootable' = bootable /\ found' = found
        /\ stage = "poll" /\ stage' \in {"wait", "boot"}
    BY <1>3 DEF Poll
  <2>2. boot_src_cnt' = boot_src_cnt /\ boot_chain' = boot_chain
        /\ Default(bootable)' = Default(bootable)
    BY <2>1 DEF boot_src_cnt, boot_chain, Default
  <2>3. \/ UNCHANGED <<boot_source, chosen>>
        \/ /\ key \in bootable
           /\ boot_source' = boot_chain[key] /\ chosen' = boot_chain[key]
    BY <1>3 DEF Poll, Selects
  <2>4. \A p \in bootable : boot_chain[p] # NONE
    BY <2>1, BootAssumption DEF Choice
  <2>5. QED
    BY <2>1, <2>2, <2>3, <2>4 DEF Choice
<1>4. CASE BootFrom
  BY <1>4 DEF BootFrom, BootFile, Choice
<1>5. QED
  BY <1>1, <1>2, <1>3, <1>4

(* Both hold from step to step.                                            *)
LEMMA NextInv == Clock /\ Choice /\ [Next]_vars => Clock' /\ Choice'
<1> SUFFICES ASSUME Clock, Choice, [Next]_vars PROVE Clock' /\ Choice'
  OBVIOUS
<1>1. CASE UNCHANGED vars
  BY <1>1, ElsewhereInv DEF vars, Elsewhere
<1>2. CASE RunBootFile \/ Load \/ PressKey \/ Shell \/ \E s \in CardSources : PullCard(s)
  <2>1. Elsewhere
    BY <1>2 DEF RunBootFile, Load, PressKey, Shell, PullCard, Elsewhere
  <2>2. QED
    BY <2>1, ElsewhereInv
<1>3. CASE Scan \/ ReadFirst \/ SetTarget \/ TestTarget \/ Poll \/ BootFrom \/ CounterTicks
  BY <1>3, ClockStep, ChoiceStep
<1>4. QED
  BY <1>1, <1>2, <1>3 DEF Next, Firmware, Surroundings

(* For any timeout: whoever does not press a key has it to choose, but for *)
(* two carries of the low byte, one in the reading that sets the target    *)
(* and one in the reading that is compared with it.                        *)
THEOREM TimeIsGiven == Spec => TimeToChoose
<1> DEFINE InTime == stage = "wait" /\ stage' = "boot" =>
                       jiffies - asked >= Timeout - 2 * (LowSize - 1)
<1>1. Clock /\ [Next]_vars => InTime
  <2> SUFFICES ASSUME Clock, [Next]_vars, stage = "wait", stage' = "boot"
               PROVE  jiffies - asked >= Timeout - 2 * (LowSize - 1)
    OBVIOUS
  <2>1. TestTarget
    BY DEF Next, Firmware, Surroundings, vars, Scan, ReadFirst, SetTarget, TestTarget, Poll,
           BootFrom, RunBootFile, Load, CounterTicks, PressKey, Shell, PullCard
  <2>2. HalfRead /\ ~(jiffies_target > JiffiesRead)
    BY <2>1 DEF TestTarget, ReadRest, StillWaiting
  <2>3. JiffiesRead \in Int /\ JiffiesRead <= jiffies + (LowSize - 1)
    BY <2>2, ReadingIs
  <2>4. /\ jiffies \in Nat /\ asked \in Nat /\ jiffies_target \in Int
        /\ LowSize \in Nat /\ Timeout \in Nat
        /\ jiffies_target >= asked + Timeout - (LowSize - 1)
    BY TimerAssumption, BootAssumption DEF Clock
  <2>5. QED
    BY <2>2, <2>3, <2>4
<1>2. Clock /\ Choice /\ [Next]_vars => [InTime]_vars
  BY <1>1
<1>3. QED
  BY InitInv, NextInv, <1>2, PTL DEF Spec, TimeToChoose

-----------------------------------------------------------------------------
(* The launch. *)

(* A sequence with one more element in front.                              *)
Before(x, s) == <<x>> \o s

(* What is where in it.                                                    *)
LEMMA BeforeIs ==
  ASSUME NEW S, NEW x \in S, NEW s \in Seq(S)
  PROVE  /\ Before(x, s)[1] = x
         /\ \A p \in 2 .. Len(s) + 1 : Before(x, s)[p] = s[p - 1]
<1> DEFINE one == <<x>>
           both == one \o s
<1>1. one \in Seq(S) /\ Len(one) = 1 /\ one[1] = x
  OBVIOUS
<1> HIDE DEF one
<1>2. \A i \in 1 .. Len(one) + Len(s) : both[i] = IF i <= Len(one) THEN one[i] ELSE s[i - Len(one)]
  BY <1>1, ConcatProperties, Zenon
<1>3. Len(s) \in Nat
  OBVIOUS
<1> HIDE DEF both
<1>4. both[1] = x /\ \A p \in 2 .. Len(s) + 1 : both[p] = s[p - 1]
  BY <1>1, <1>2, <1>3
<1>5. QED
  BY <1>4, Zenon DEF both, one, Before

(* The chain is the documented order, from the RAM when the switch allows  *)
(* it and from the cartridge when not.                                     *)
LEMMA ChainIs ==
  ASSUME boot_ram \in BOOLEAN
  PROVE  /\ boot_ram => boot_src_cnt = 4 /\ \A p \in 1 .. 4 : boot_chain[p] = Documented[p]
         /\ ~boot_ram => boot_src_cnt = 3 /\ \A p \in 1 .. 3 : boot_chain[p] = Documented[p + 1]
<1>1. CASE boot_ram
  <2> DEFINE others == <<"CARTRIDGE", "SD0", "SD1", "ROM">>
  <2>1. boot_chain = <<"RAM">> \o others
    BY <1>1 DEF boot_chain
  <2>2. "RAM" \in Sources /\ "CARTRIDGE" \in Sources /\ "SD0" \in Sources
        /\ "SD1" \in Sources /\ "ROM" \in Sources
    BY DEF Sources, RecordSources, CardSources
  <2>3. others \in Seq(Sources)
    BY <2>2
  <2>4. Len(others) = 4
    OBVIOUS
  <2>5. \A p \in 2 .. 5 : others[p - 1] = Documented[p]
    BY DEF Documented
  <2>6. Documented[1] = "RAM"
    BY DEF Documented
  <2> HIDE DEF others
  <2>7. /\ boot_chain[1] = "RAM"
        /\ \A p \in 2 .. Len(others) + 1 : boot_chain[p] = others[p - 1]
    <3> DEFINE ram == "RAM"
    <3>1. ram \in Sources
      BY <2>2
    <3> HIDE DEF ram
    <3>2. Before(ram, others)[1] = ram
      BY <2>3, <3>1, BeforeIs
    <3>3. \A p \in 2 .. Len(others) + 1 : Before(ram, others)[p] = others[p - 1]
      BY <2>3, <3>1, BeforeIs
    <3>4. boot_chain = Before(ram, others)
      BY <2>1, Zenon DEF ram, Before
    <3>5. QED
      BY <3>2, <3>3, <3>4, Zenon DEF ram
  <2>8. \A p \in 1 .. 4 : p = 1 \/ p \in 2 .. 5
    OBVIOUS
  <2>9. QED
    BY <1>1, <2>4, <2>5, <2>6, <2>7, <2>8 DEF boot_src_cnt
<1>2. CASE ~boot_ram
  <2>1. boot_chain = <<"CARTRIDGE", "SD0", "SD1", "ROM">>
    BY <1>2 DEF boot_chain
  <2>2. QED
    BY <1>2, <2>1 DEF boot_src_cnt, Documented
<1>3. QED
  BY <1>1, <1>2

(* The default is the first of the positions.                              *)
LEMMA DefaultIs ==
  ASSUME NEW positions \in SUBSET (1 .. 4), positions # {}
  PROVE  \E p \in positions : /\ Default(positions) = boot_chain[p]
                              /\ \A q \in positions : p <= q
<1>1. \E p \in positions : \A q \in positions : p <= q
  <2>1. CASE 1 \in positions
    BY <2>1
  <2>2. CASE 1 \notin positions /\ 2 \in positions
    BY <2>2
  <2>3. CASE 1 \notin positions /\ 2 \notin positions /\ 3 \in positions
    BY <2>3
  <2>4. CASE 1 \notin positions /\ 2 \notin positions /\ 3 \notin positions
    <3>1. \A q \in positions : q = 4
      BY <2>4
    <3>2. PICK p \in positions : TRUE
      OBVIOUS
    <3>3. \A q \in positions : p <= q
      BY <3>1
    <3>4. QED
      BY <3>3
  <2>5. QED
    BY <2>1, <2>2, <2>3, <2>4
<1>2. QED
  BY <1>1 DEF Default

(* Whatever keys are pressed, cards pulled and ticks counted between the   *)
(* steps of the boot screen, what it launches is what the user chose, and  *)
(* otherwise the first source in the documented order that the scan found. *)
THEOREM LaunchesRight == Spec => FirstOrChosen
<1> DEFINE Launch == stage' \in {"PGZ", "PGX", "running"} /\ stage' # stage
           Right == IF chosen # NONE THEN boot_source = chosen /\ chosen \in Considered
                    ELSE \E p \in DOMAIN Documented :
                           /\ boot_source = Documented[p]
                           /\ Documented[p] \in Considered
                           /\ \A q \in 1 .. p - 1 : Documented[q] \notin Considered
<1>1. Choice /\ [Next]_vars => (Launch => Right)
  <2> SUFFICES ASSUME Choice, [Next]_vars, Launch PROVE Right
    OBVIOUS
  <2>1. BootFrom
    BY DEF Next, Firmware, Surroundings, vars, Scan, ReadFirst, SetTarget, TestTarget, Poll,
           BootFrom, RunBootFile, Load, CounterTicks, PressKey, Shell, PullCard
  <2>2. /\ stage = "boot" /\ boot_source \in Sources
    BY <2>1 DEF BootFrom, Sources
  <2>3. /\ boot_ram \in BOOLEAN /\ found \subseteq Sources
        /\ bootable = {p \in 1 .. boot_src_cnt : boot_chain[p] \in found}
        /\ chosen = NONE => boot_source = Default(bootable)
        /\ chosen # NONE => boot_source = chosen /\ \E p \in bootable : chosen = boot_chain[p]
    BY <2>2 DEF Choice
  <2>4. /\ Documented[1] = "RAM" /\ DOMAIN Documented = 1 .. 5
        /\ \A p \in 2 .. 5 : Documented[p] # "RAM"
    BY DEF Documented
  <2>5. bootable \subseteq 1 .. 4
    BY <2>3, ChainIs
  <2>6. \A p \in bootable : boot_chain[p] \in Considered
    <3>1. CASE boot_ram
      BY <2>3, <3>1 DEF Considered
    <3>2. CASE ~boot_ram
      BY <2>3, <2>4, <3>2, ChainIs DEF Considered
    <3>3. QED
      BY <2>3, <3>1, <3>2
  <2>7. CASE chosen # NONE
    BY <2>3, <2>6, <2>7
  <2>8. CASE chosen = NONE
    <3>1. boot_source = Default(bootable) /\ bootable # {}
      BY <2>2, <2>3, <2>8, BootAssumption DEF Default
    <3>2. PICK p \in bootable : boot_source = boot_chain[p] /\ \A q \in bootable : p <= q
      BY <2>5, <3>1, DefaultIs
    <3>3. CASE boot_ram
      <4>1. /\ p \in 1 .. 4 /\ boot_chain[p] = Documented[p] /\ p \in DOMAIN Documented
            /\ \A q \in 1 .. p - 1 : q \in 1 .. 4 /\ q \notin bootable /\ boot_chain[q] = Documented[q]
        BY <2>4, <2>5, <3>2, <3>3, ChainIs
      <4>2. \A q \in 1 .. p - 1 : Documented[q] \notin Considered
        BY <2>3, <3>3, <4>1, ChainIs DEF Considered
      <4>3. QED
        BY <2>6, <2>8, <3>2, <4>1, <4>2
    <3>4. CASE ~boot_ram
      <4>1. /\ p \in 1 .. 3 /\ boot_chain[p] = Documented[p + 1] /\ p + 1 \in DOMAIN Documented
            /\ \A q \in 1 .. p - 1 : q \in 1 .. 3 /\ q \notin bootable
                                     /\ boot_chain[q] = Documented[q + 1]
        BY <2>3, <2>4, <2>5, <3>2, <3>4, ChainIs
      <4>2. \A q \in 1 .. p - 1 : Documented[q + 1] \notin Considered
        BY <2>3, <3>4, <4>1, ChainIs DEF Considered
      <4>3. Documented[1] \notin Considered
        BY <2>4, <3>4 DEF Considered
      <4>4. \A q \in 1 .. (p + 1) - 1 : Documented[q] \notin Considered
        <5> TAKE q \in 1 .. (p + 1) - 1
        <5>1. CASE q = 1
          BY <4>3, <5>1
        <5>2. CASE q # 1
          <6>1. q - 1 \in 1 .. p - 1 /\ (q - 1) + 1 = q
            BY <4>1, <5>2
          <6>2. QED
            BY <4>2, <6>1
        <5>3. QED
          BY <5>1, <5>2
      <4>5. QED
        BY <2>6, <2>8, <3>2, <4>1, <4>4
    <3>5. QED
      BY <2>3, <3>3, <3>4
  <2>9. QED
    BY <2>7, <2>8
<1>2. Clock /\ Choice /\ [Next]_vars => [Launch => Right]_vars
  BY <1>1
<1>3. QED
  BY InitInv, NextInv, <1>2, PTL DEF Spec, FirstOrChosen

-----------------------------------------------------------------------------
(* What the loaders keep. *)

(* What has been read and not looked at, and what has not been read, are   *)
(* the end of the file.                                                    *)
Ends(whole, c, f) ==
  /\ Len(c) + Len(f) <= Len(whole)
  /\ \A i \in 1 .. Len(c) : c[i] = whole[Len(whole) - Len(c) - Len(f) + i]
  /\ \A i \in 1 .. Len(f) : f[i] = whole[Len(whole) - Len(f) + i]

(* The file, the bytes in it, and how far the loader has looked at it.     *)
Whole == Contents(program)
Values == {Whole[i] : i \in DOMAIN Whole}
Place == Len(Whole) - Len(chunk) - Len(file)

(* Memory m, with the first n of the bytes at addr.                        *)
Partly(m, addr, bytes, n) ==
  [a \in Memory |-> IF a - addr \in 0 .. n - 1 THEN bytes[a - addr + 1] ELSE m[a]]

(* The loader is in the segment after the first k, or before it.           *)
InPgzSegment(k) ==
  LET s == program.segments[k + 1]
      w == program.width
      seg == locals.seg
  IN  /\ k < Len(program.segments)
      /\ seg < 2 * w + Len(s.data)
      /\ seg < w => locals.address = s.addr % Power[seg]
      /\ seg >= w => locals.address = s.addr
      /\ seg <= w => locals.count = -1
      /\ w < seg /\ seg <= 2 * w => locals.count = Len(s.data) % Power[seg - w]
      /\ seg > 2 * w => locals.count = Len(s.data)
      /\ seg > w => locals.dest = s.addr + (IF seg < 2 * w THEN 0 ELSE seg - 2 * w)
      /\ memory = Partly(Images(program)[k], s.addr, s.data, IF seg < 2 * w THEN 0 ELSE seg - 2 * w)

(* The loader has the first k segments behind it and is as far into the    *)
(* next one as its counter says.                                           *)
PgzAt(k) ==
  /\ Place = Len(PgzFiles(program)[k]) + locals.seg
  /\ StartsAt(program, k, start)
  /\ locals.seg = 0 => memory = Images(program)[k]
  /\ locals.seg # 0 => InPgzSegment(k)

(* What the PGZ loader has done, up to its place in the file.              *)
PgzReading ==
  /\ locals.idx = 0 => Place = 0 /\ memory = Blank /\ start = 0 /\ locals.seg = 0
  /\ locals.idx # 0 => /\ program.sound /\ locals.width = program.width
                       /\ \E k \in 0 .. Len(program.segments) : PgzAt(k)

(* What of the address and the data of a PGX file has been read after so   *)
(* many bytes.                                                             *)
PgxAddress(n, idx) ==
  IF idx = 0 THEN 0 ELSE IF idx > Wide THEN n ELSE n \div Power[Wide - (idx - 1)]
PgxStored(idx) == IF idx > Wide + 1 THEN idx - Wide - 1 ELSE 0

(* What the PGX loader has done: its counter is its place in the file.     *)
PgxReading ==
  LET s == program.segments[1]
      idx == locals.idx
  IN  /\ idx = Place /\ start = 0
      /\ idx # 0 => program.sound
      /\ locals.address = PgxAddress(s.addr, idx)
      /\ locals.dest = IF idx > Wide + 1 THEN s.addr + PgxStored(idx) ELSE 0
      /\ memory = Partly(Blank, s.addr, s.data, PgxStored(idx))

(* What the ELF loader has done: the segments before its place are loaded, *)
(* unless a read has failed.                                               *)
ElfReading ==
  /\ chunk = <<>>
  /\ locals.idx = 0 => Place = 0
  /\ locals.idx # 0 => Place = locals.idx - 1 /\ program.sound
  /\ IsLoaded(locals.header) => InMemory(locals.header)
  /\ ~failed => /\ memory = Images(program)[Place]
                /\ \A i \in 1 .. Place : program.segments[i].kind # "dynamic"

(* What the default loader has done.                                       *)
DefaultReading ==
  /\ chunk = <<>>
  /\ locals.dest = destination + Place
  /\ memory = Partly(Blank, destination, Whole, Place)

(* The table begins with the three loaders that are built in; all others   *)
(* are the program's own.                                                  *)
Table ==
  /\ Len(loaders) \in 3 .. MAX_LOADERS
  /\ loaders \in Seq([extension : Extensions \cup {"PGZ", "PGX", "ELF"},
                      loader : {"user", "PGZ", "PGX", "ELF"}])
  /\ \A i \in 1 .. 3 : loaders[i].extension = BuiltIn[i]
  /\ \A i \in DOMAIN loaders : loaders[i].loader \in {"user", loaders[i].extension}

(* Before a program is asked for, memory is as it was.                     *)
Idle ==
  load = "idle" =>
    file = <<>> /\ chunk = <<>> /\ memory = Blank /\ start = 0 /\ ~failed /\ locals = Locals0

(* The loader is one for the file.                                         *)
Request ==
  /\ program \in Programs
  /\ destination \in Destinations \cup {0}
  /\ loader \in {"PGZ", "PGX", "ELF"} => program.format = loader
  /\ loader = "default" =>
       destination \in Destinations /\ program.format \notin {"PGZ", "PGX", "ELF"}

(* What holds while a loader reads.                                        *)
ReadingRight ==
  load = "reading" =>
    /\ Request
    /\ loader # "none"
    /\ chunk \in Seq(Values) /\ file \in Seq(Values) /\ Ends(Whole, chunk, file)
    /\ loader # "ELF" => ~failed
    /\ loader = "PGZ" => PgzReading
    /\ loader = "PGX" => PgxReading
    /\ loader = "ELF" => ElfReading
    /\ loader = "default" => DefaultReading

(* What a header is, and what the variables of the loader are.             *)
SegmentType == [addr : Nat, data : Seq(Byte), zeros : Nat, kind : Kinds]
LocalsType ==
  locals \in [idx : Nat, seg : Nat, width : {0, Narrow, Wide}, address : Int, count : Int,
              dest : 0 .. MemorySize, header : SegmentType]

-----------------------------------------------------------------------------
(* Induction over 0 .. n, for the set of the numbers of which something    *)
(* holds.                                                                  *)
LEMMA UpTo ==
  ASSUME NEW n \in Nat, NEW Reached, 0 \in Reached,
         \A i \in 1 .. n : i - 1 \in Reached => i \in Reached
  PROVE  \A i \in 0 .. n : i \in Reached
<1> DEFINE Others == {i \in 0 .. n : i \notin Reached}
<1> SUFFICES ASSUME Others # {} PROVE FALSE
  OBVIOUS
<1>1. PICK i \in Others : \A j \in Others : ~(<<j, i>> \in OpToRel(<, Nat))
  <2>1. Others \subseteq Nat
    OBVIOUS
  <2> HIDE DEF Others
  <2> QED
    BY <2>1, NatLessThanWellFounded, WFMin
<1>2. i \in 1 .. n /\ i - 1 \in 0 .. n
  OBVIOUS
<1>3. i - 1 \notin Others
  <2> DEFINE pair == <<i - 1, i>>
  <2>1. pair \in Nat \X Nat /\ pair[1] < pair[2]
    BY <1>2
  <2> HIDE DEF pair
  <2>2. pair \in OpToRel(<, Nat)
    BY <2>1, Zenon DEF OpToRel
  <2> USE DEF pair
  <2> QED
    BY <1>1, <2>2, Zenon
<1>4. i - 1 \in Reached
  BY <1>2, <1>3
<1> QED
  BY <1>1, <1>2, <1>4

(* f goes from b, through the values of S that the steps lead to.          *)
Follows(f, n, b, step) == f = [i \in 0 .. n |-> IF i = 0 THEN b ELSE step[i][f[i - 1]]]

(* Such a function exists, so that a recursive definition means it.        *)
LEMMA FollowsExists ==
  ASSUME NEW n \in Nat, NEW S, NEW b \in S, NEW step \in [1 .. n -> [S -> S]]
  PROVE  \E f \in [0 .. n -> S] : Follows(f, n, b, step)
<1> DEFINE Reached == {m \in 0 .. n : \E f \in [0 .. m -> S] : Follows(f, m, b, step)}
<1>1. 0 \in Reached
  <2> DEFINE f == [i \in 0 .. 0 |-> b]
  <2>1. f \in [0 .. 0 -> S] /\ Follows(f, 0, b, step)
    BY DEF Follows
  <2> QED
    BY <2>1
<1>2. ASSUME NEW m \in 1 .. n, m - 1 \in Reached
      PROVE  m \in Reached
  <2>1. PICK f \in [0 .. m - 1 -> S] : Follows(f, m - 1, b, step)
    BY <1>2
  <2> DEFINE g == [i \in 0 .. m |-> IF i = m THEN step[m][f[m - 1]] ELSE f[i]]
  <2>2. g \in [0 .. m -> S]
    OBVIOUS
  <2>3. \A i \in 0 .. m : g[i] = IF i = 0 THEN b ELSE step[i][g[i - 1]]
    <3> SUFFICES ASSUME NEW i \in 0 .. m
                 PROVE  g[i] = IF i = 0 THEN b ELSE step[i][g[i - 1]]
      OBVIOUS
    <3>1. \A j \in 0 .. m - 1 : f[j] = IF j = 0 THEN b ELSE step[j][f[j - 1]]
      BY <2>1, Zenon DEF Follows
    <3>2. CASE i = m
      BY <3>2
    <3>3. CASE i \in 0 .. m - 1
      <4>1. g[i] = f[i] /\ (i # 0 => g[i - 1] = f[i - 1])
        BY <3>3
      <4> HIDE DEF g
      <4> QED
        BY <3>1, <3>3, <4>1
    <3> QED
      BY <3>2, <3>3
  <2>4. g = [i \in 0 .. m |-> g[i]]
    OBVIOUS
  <2>5. Follows(g, m, b, step)
    <3> HIDE DEF g
    <3> QED BY <2>3, <2>4 DEF Follows
  <2> QED
    BY <2>2, <2>5
<1>3. \A m \in 0 .. n : m \in Reached
  <2> HIDE DEF Reached
  <2> QED BY <1>1, <1>2, UpTo
<1> QED
  BY <1>3

-----------------------------------------------------------------------------
(* Numbers and their digits. *)

(* The sizes are numbers.                                                  *)
LEMMA LoaderSizes ==
  /\ Base \in Nat /\ Base > 1 /\ Narrow \in Nat /\ Wide \in Nat /\ Chunk \in Nat \ {0}
  /\ 1 < Narrow /\ Narrow < Wide /\ MemorySize \in Nat
BY LoaderAssumption

(* The powers of the base, one from the other.                             *)
LEMMA PowerIs ==
  /\ Power \in [0 .. Wide -> Nat \ {0}]
  /\ Power[0] = 1
  /\ \A i \in 1 .. Wide : Power[i] = Power[i - 1] * Base
<1> DEFINE S == Nat \ {0}
           do == [i \in 1 .. Wide |-> [m \in S |-> m * Base]]
           Is(f) == f = [n \in 0 .. Wide |-> IF n = 0 THEN 1 ELSE f[n - 1] * Base]
<1>0. Wide \in Nat /\ 1 \in S
  BY LoaderSizes
<1>1. do \in [1 .. Wide -> [S -> S]]
  <2>1. \A m \in S : m * Base \in S
    BY LoaderSizes
  <2> HIDE DEF S
  <2> QED
    BY <2>1
<1>2. PICK f \in [0 .. Wide -> S] : Follows(f, Wide, 1, do)
  <2> HIDE DEF do, S
  <2> QED BY <1>0, <1>1, FollowsExists
<1>3. Is(f)
  <2>1. \A i \in 1 .. Wide : do[i][f[i - 1]] = f[i - 1] * Base
    <3>1. \A i \in 1 .. Wide : f[i - 1] \in S
      BY <1>0
    <3> QED BY <3>1
  <2>2. \A i \in 0 .. Wide : i = 0 \/ i \in 1 .. Wide
    BY <1>0
  <2> HIDE DEF do
  <2>3. f = [i \in 0 .. Wide |-> IF i = 0 THEN 1 ELSE do[i][f[i - 1]]]
    BY <1>2 DEF Follows
  <2> QED BY <2>1, <2>2, <2>3
<1>4. Is(Power)
  <2>1. Power = CHOOSE g : Is(g)
    BY Zenon DEF Power
  <2> HIDE DEF Is
  <2> QED BY <1>3, <2>1
<1>5. /\ Power = [i \in 0 .. Wide |-> Power[i]] /\ Power[0] = 1
      /\ \A i \in 1 .. Wide : Power[i] = Power[i - 1] * Base
  <2> DEFINE g == Power
  <2>1. g = [n \in 0 .. Wide |-> IF n = 0 THEN 1 ELSE g[n - 1] * Base]
    BY <1>4
  <2> HIDE DEF g
  <2>2. g = [i \in 0 .. Wide |-> g[i]] /\ g[0] = 1
    BY <1>0, <2>1
  <2>3. \A i \in 1 .. Wide : i \in 0 .. Wide /\ i # 0
    BY <1>0
  <2>4. \A i \in 1 .. Wide : g[i] = g[i - 1] * Base
    BY <2>1, <2>3
  <2> QED BY <2>2, <2>4 DEF g
<1> DEFINE Reached == {i \in 0 .. Wide : Power[i] \in S}
<1>6. \A i \in 0 .. Wide : i \in Reached
  <2>1. 0 \in Reached
    BY <1>0, <1>5
  <2>2. \A i \in 1 .. Wide : i - 1 \in Reached => i \in Reached
    <3> SUFFICES ASSUME NEW i \in 1 .. Wide, Power[i - 1] \in S PROVE Power[i] \in S
      OBVIOUS
    <3>1. Power[i] = Power[i - 1] * Base
      BY <1>5
    <3> QED BY <3>1, LoaderSizes
  <2> HIDE DEF Reached
  <2> QED BY <1>0, <2>1, <2>2, UpTo
<1> QED
  BY <1>5, <1>6

(* A quotient and a remainder, in the way the provers can use them.        *)
LEMMA DivisionIs ==
  ASSUME NEW n \in Int, NEW d \in Nat \ {0}, NEW q \in Int, NEW r \in 0 .. d - 1,
         n = d * q + r
  PROVE  n \div d = q /\ n % d = r
<1> DEFINE p == n \div d
           s == n % d
<1>1. p \in Int /\ s \in 0 .. d - 1 /\ n = d * p + s
  OBVIOUS
<1> HIDE DEF p, s
<1>2. d * (q - p) = s - r
  BY <1>1
<1>3. CASE q > p
  <2>1. d * (q - p) >= d
    <3> DEFINE k == q - p
    <3>1. k \in Nat \ {0}
      BY <1>1, <1>3
    <3> HIDE DEF k
    <3>2. d * k >= d
      BY <3>1
    <3> QED BY <3>2 DEF k
  <2> QED BY <1>1, <1>2, <2>1
<1>4. CASE q < p
  <2>1. d * (p - q) >= d
    <3> DEFINE k == p - q
    <3>1. k \in Nat \ {0}
      BY <1>1, <1>4
    <3> HIDE DEF k
    <3>2. d * k >= d
      BY <3>1
    <3> QED BY <3>2 DEF k
  <2>2. d * (p - q) = r - s
    BY <1>1
  <2> QED BY <1>1, <2>1, <2>2
<1>5. CASE q = p
  BY <1>1, <1>5 DEF p, s
<1> QED
  BY <1>1, <1>3, <1>4, <1>5

(* One digit more, on either side.                                         *)
LEMMA DigitIs ==
  ASSUME NEW i \in 1 .. Wide, NEW n \in Nat
  PROVE  LET digit == (n \div Power[i - 1]) % Base
         IN /\ digit \in Byte
            /\ n % Power[i] = (n % Power[i - 1]) + digit * Power[i - 1]
            /\ n \div Power[i - 1] = (n \div Power[i]) * Base + digit
<1> DEFINE P == Power[i - 1]
           q == n \div P
           r == n % P
           h == q \div Base
           d == q % Base
<1>1. P \in Nat \ {0} /\ Power[i] = P * Base
  BY PowerIs, LoaderSizes
<1>2. Base \in Nat \ {0}
  BY LoaderSizes
<1> HIDE DEF P
<1>3. q \in Int /\ r \in 0 .. P - 1 /\ n = P * q + r
  BY <1>1
<1> HIDE DEF q, r
<1>4. h \in Int /\ d \in 0 .. Base - 1 /\ q = Base * h + d
  BY <1>2, <1>3
<1> HIDE DEF h, d
<1>5. n = (P * Base) * h + (d * P + r)
  <2>1. P * q = P * (Base * h) + P * d
    BY <1>1, <1>2, <1>4
  <2>2. P * (Base * h) = (P * Base) * h /\ P * d = d * P
    BY <1>1, <1>2, <1>4
  <2>3. P * (Base * h) \in Int /\ d * P \in Int
    BY <1>1, <1>2, <1>4
  <2> QED BY <1>1, <1>3, <2>1, <2>2, <2>3
<1>6. d * P + r \in 0 .. P * Base - 1
  <2>1. d * P >= 0 /\ d * P <= (Base - 1) * P
    BY <1>1, <1>2, <1>4
  <2>2. (Base - 1) * P = P * Base - P /\ P * Base \in Nat /\ d * P \in Int
    BY <1>1, <1>2, <1>4
  <2> QED BY <1>1, <1>3, <2>1, <2>2
<1>7. P * Base \in Nat \ {0}
  BY <1>1, <1>2
<1>8. n \div (P * Base) = h /\ n % (P * Base) = d * P + r
  BY <1>4, <1>5, <1>6, <1>7, DivisionIs
<1>9. d * P \in Int /\ h * Base = Base * h /\ d * P + r = r + d * P
  BY <1>1, <1>2, <1>3, <1>4
<1>10. n % Power[i] = r + d * P /\ q = (n \div Power[i]) * Base + d
  BY <1>1, <1>4, <1>8, <1>9
<1> QED
  BY <1>4, <1>10 DEF d, h, q, r, P, Byte

(* A number below a power has that many digits at most.                    *)
LEMMA SmallNumbers ==
  ASSUME NEW i \in 0 .. Wide, NEW n \in Nat, n < Power[i]
  PROVE  n % Power[i] = n /\ n \div Power[i] = 0
<1>1. Power[i] \in Nat \ {0}
  BY PowerIs
<1>2. n = Power[i] * 0 + n /\ n \in 0 .. Power[i] - 1
  BY <1>1
<1> QED
  BY <1>1, <1>2, DivisionIs

(* No digits are zero.                                                     *)
LEMMA NoDigits ==
  ASSUME NEW n \in Nat
  PROVE  n % Power[0] = 0 /\ n \div Power[0] = n
<1>1. n = 1 * n + 0 /\ 0 \in 0 .. 1 - 1
  OBVIOUS
<1>2. n \div 1 = n /\ n % 1 = 0
  BY <1>1, DivisionIs
<1> QED
  BY <1>2, PowerIs

-----------------------------------------------------------------------------
(* What is left of a file. *)

(* A file that has just been opened.                                       *)
LEMMA EndsWhole ==
  ASSUME NEW S, NEW whole \in Seq(S)
  PROVE  Ends(whole, <<>>, whole)
BY DEF Ends

(* A part of it is read.                                                   *)
LEMMA EndsRead ==
  ASSUME NEW S, NEW whole \in Seq(S), NEW f \in Seq(S), Ends(whole, <<>>, f),
         NEW n \in 0 .. Len(f)
  PROVE  LET c == SubSeq(f, 1, n)
             rest == SubSeq(f, n + 1, Len(f))
         IN /\ c \in Seq(S) /\ rest \in Seq(S)
            /\ Len(c) = n /\ Len(rest) = Len(f) - n
            /\ Ends(whole, c, rest) /\ Ends(whole, <<>>, rest)
            /\ \A i \in 1 .. n : c[i] = whole[Len(whole) - Len(f) + i]
<1> DEFINE c == SubSeq(f, 1, n)
           rest == SubSeq(f, n + 1, Len(f))
<1>1. Len(f) \in Nat /\ Len(whole) \in Nat /\ Len(f) <= Len(whole)
      /\ \A i \in 1 .. Len(f) : f[i] = whole[Len(whole) - Len(f) + i]
  BY DEF Ends
<1>2. c \in Seq(S) /\ Len(c) = n /\ \A i \in 1 .. n : c[i] = f[i]
  BY <1>1
<1>3. /\ rest \in Seq(S) /\ Len(rest) = Len(f) - n
      /\ \A i \in 1 .. Len(f) - n : rest[i] = f[n + i]
  BY <1>1
<1> HIDE DEF c, rest
<1>4. \A i \in 1 .. n : c[i] = whole[Len(whole) - Len(f) + i]
  <2> SUFFICES ASSUME NEW i \in 1 .. n PROVE c[i] = whole[Len(whole) - Len(f) + i]
    OBVIOUS
  <2>1. i \in 1 .. Len(f)
    BY <1>1
  <2> QED BY <1>1, <1>2, <2>1
<1>5. \A i \in 1 .. Len(rest) : rest[i] = whole[Len(whole) - Len(rest) + i]
  <2> SUFFICES ASSUME NEW i \in 1 .. Len(rest)
               PROVE  rest[i] = whole[Len(whole) - Len(rest) + i]
    OBVIOUS
  <2>1. n + i \in 1 .. Len(f) /\ Len(whole) - Len(f) + (n + i) = Len(whole) - Len(rest) + i
    BY <1>1, <1>3
  <2> QED BY <1>1, <1>3, <2>1
<1>6. Ends(whole, c, rest)
  <2>1. Len(whole) - Len(c) - Len(rest) = Len(whole) - Len(f)
    BY <1>1, <1>2, <1>3
  <2> QED BY <1>1, <1>2, <1>3, <1>4, <1>5, <2>1 DEF Ends
<1>7. Ends(whole, <<>>, rest)
  BY <1>1, <1>3, <1>5 DEF Ends
<1> QED
  BY <1>2, <1>3, <1>4, <1>6, <1>7 DEF c, rest

(* What is where in the rest of a sequence.                                *)
LEMMA TailIs ==
  ASSUME NEW S, NEW s \in Seq(S), s # <<>>
  PROVE  /\ Tail(s) \in Seq(S) /\ Len(Tail(s)) = Len(s) - 1 /\ Len(s) \in Nat \ {0}
         /\ Head(s) = s[1] /\ \A i \in 1 .. Len(s) - 1 : Tail(s)[i] = s[i + 1]
OBVIOUS

(* A byte that has been read is looked at.                                 *)
LEMMA EndsByte ==
  ASSUME NEW S, NEW whole \in Seq(S), NEW c \in Seq(S), NEW f \in Seq(S),
         Ends(whole, c, f), c # <<>>
  PROVE  /\ Ends(whole, Tail(c), f)
         /\ Head(c) = whole[Len(whole) - Len(c) - Len(f) + 1]
         /\ Len(whole) - Len(Tail(c)) - Len(f) = Len(whole) - Len(c) - Len(f) + 1
<1> DEFINE t == Tail(c)
<1>1. t \in Seq(S) /\ Len(t) = Len(c) - 1 /\ Len(c) \in Nat \ {0}
      /\ Head(c) = c[1] /\ \A i \in 1 .. Len(c) - 1 : t[i] = c[i + 1]
  BY TailIs
<1> HIDE DEF t
<1>2. Len(f) \in Nat /\ Len(whole) \in Nat
  OBVIOUS
<1>3. \A i \in 1 .. Len(t) : t[i] = whole[Len(whole) - Len(t) - Len(f) + i]
  <2> SUFFICES ASSUME NEW i \in 1 .. Len(t)
               PROVE  t[i] = whole[Len(whole) - Len(t) - Len(f) + i]
    OBVIOUS
  <2>1. i + 1 \in 1 .. Len(c) /\ Len(whole) - Len(c) - Len(f) + (i + 1) = Len(whole) - Len(t) - Len(f) + i
    BY <1>1, <1>2
  <2> QED BY <1>1, <2>1 DEF Ends
<1>4. Ends(whole, t, f)
  BY <1>1, <1>2, <1>3 DEF Ends
<1>5. Head(c) = whole[Len(whole) - Len(c) - Len(f) + 1]
  BY <1>1 DEF Ends
<1> QED
  BY <1>1, <1>2, <1>4, <1>5 DEF t

(* The same for what is read piece by piece.                               *)
LEMMA EndsPiece ==
  ASSUME NEW S, NEW whole \in Seq(S), NEW f \in Seq(S), Ends(whole, <<>>, f), f # <<>>
  PROVE  /\ Ends(whole, <<>>, Tail(f))
         /\ Head(f) = whole[Len(whole) - Len(f) + 1]
         /\ Len(Tail(f)) = Len(f) - 1
<1> DEFINE t == Tail(f)
<1>1. t \in Seq(S) /\ Len(t) = Len(f) - 1 /\ Len(f) \in Nat \ {0}
      /\ Head(f) = f[1] /\ \A i \in 1 .. Len(f) - 1 : t[i] = f[i + 1]
  BY TailIs
<1> HIDE DEF t
<1>2. Len(whole) \in Nat /\ Len(f) <= Len(whole)
  BY DEF Ends
<1>3. \A i \in 1 .. Len(t) : t[i] = whole[Len(whole) - Len(t) + i]
  <2> SUFFICES ASSUME NEW i \in 1 .. Len(t)
               PROVE  t[i] = whole[Len(whole) - Len(t) + i]
    OBVIOUS
  <2>1. i + 1 \in 1 .. Len(f) /\ Len(whole) - Len(f) + (i + 1) = Len(whole) - Len(t) + i
    BY <1>1, <1>2
  <2> QED BY <1>1, <2>1 DEF Ends
<1>4. Ends(whole, <<>>, t)
  BY <1>1, <1>2, <1>3 DEF Ends
<1>5. Head(f) = whole[Len(whole) - Len(f) + 1]
  BY <1>1 DEF Ends
<1> QED
  BY <1>1, <1>4, <1>5 DEF t

-----------------------------------------------------------------------------
(* What is in memory. *)

(* Memory with none of the bytes.                                          *)
LEMMA PartlyNone ==
  ASSUME NEW m, m = [a \in Memory |-> m[a]], NEW addr \in Nat, NEW bytes
  PROVE  Partly(m, addr, bytes, 0) = m
<1>1. \A a \in Memory : ~(a - addr \in 0 .. 0 - 1)
  BY LoaderSizes DEF Memory
<1>2. Partly(m, addr, bytes, 0) = [a \in Memory |-> m[a]]
  BY <1>1 DEF Partly
<1> QED
  BY <1>2, Zenon

(* One byte more is one assignment to memory.                              *)
LEMMA PartlyMore ==
  ASSUME NEW m, NEW addr \in Nat, NEW bytes, NEW n \in Nat, addr + n < MemorySize
  PROVE  Partly(m, addr, bytes, n + 1)
           = [Partly(m, addr, bytes, n) EXCEPT ![addr + n] = bytes[n + 1]]
<1>1. \A a \in Memory : a - addr \in 0 .. (n + 1) - 1 <=> a = addr + n \/ a - addr \in 0 .. n - 1
  BY LoaderSizes DEF Memory
<1>3. addr + n \in Memory
  BY LoaderSizes DEF Memory
<1> DEFINE old == Partly(m, addr, bytes, n)
           new == [old EXCEPT ![addr + n] = bytes[n + 1]]
<1>4. old = [a \in Memory |-> IF a - addr \in 0 .. n - 1 THEN bytes[a - addr + 1] ELSE m[a]]
  BY DEF Partly
<1>5. new = [a \in Memory |-> IF a = addr + n THEN bytes[n + 1] ELSE old[a]]
  <2> HIDE DEF old
  <2>1. old = [a \in Memory |-> old[a]]
    BY <1>4
  <2> QED BY <2>1
<1>6. \A a \in Memory :
        (IF a = addr + n THEN bytes[n + 1] ELSE old[a])
          = IF a - addr \in 0 .. (n + 1) - 1 THEN bytes[a - addr + 1] ELSE m[a]
  <2> SUFFICES ASSUME NEW a \in Memory
               PROVE  (IF a = addr + n THEN bytes[n + 1] ELSE old[a])
                        = IF a - addr \in 0 .. (n + 1) - 1 THEN bytes[a - addr + 1] ELSE m[a]
    OBVIOUS
  <2>1. old[a] = IF a - addr \in 0 .. n - 1 THEN bytes[a - addr + 1] ELSE m[a]
    BY <1>4
  <2> HIDE DEF old
  <2>2. CASE a = addr + n
    <3>1. a - addr + 1 = n + 1 /\ a - addr \in 0 .. (n + 1) - 1
      BY <2>2
    <3> QED BY <2>2, <3>1
  <2>3. CASE a # addr + n
    BY <1>1, <2>1, <2>3
  <2> QED BY <2>2, <2>3
<1> QED
  <2> HIDE DEF old
  <2>1. new = Partly(m, addr, bytes, n + 1)
    BY <1>5, <1>6 DEF Partly
  <2> QED BY <2>1 DEF old

(* It is memory still.                                                     *)
LEMMA PartlyType ==
  ASSUME NEW m \in [Memory -> Byte], NEW addr \in Nat, NEW bytes \in Seq(Byte),
         NEW n \in 0 .. Len(bytes)
  PROVE  Partly(m, addr, bytes, n) \in [Memory -> Byte]
<1>1. \A a \in Memory : a - addr \in 0 .. n - 1 => a - addr + 1 \in 1 .. Len(bytes)
  BY LoaderSizes DEF Memory
<1> QED
  BY <1>1 DEF Partly

(* Memory with all of the bytes of a segment.                              *)
LEMMA PartlyAll ==
  ASSUME NEW m, NEW s, s.addr \in Nat, NEW S, s.data \in Seq(S), s.zeros = 0
  PROVE  Stored(m, s) = Partly(m, s.addr, s.data, Len(s.data))
<1>1. \A a \in Memory : ~(a - s.addr \in Len(s.data) .. Len(s.data) + s.zeros - 1)
  BY LoaderSizes DEF Memory
<1> QED
  BY <1>1 DEF Stored, Partly

(* A chunk of k bytes is stored behind the n that are there.               *)
GrowsBy(m, addr, bytes, n, s, k) ==
  Stored(Partly(m, addr, bytes, n), s) = Partly(m, addr, bytes, n + k)

(* Memory with the bytes of one chunk more.                                *)
LEMMA PartlyChunk ==
  ASSUME NEW m, NEW addr \in Nat, NEW bytes, NEW n \in Nat, NEW k \in Nat,
         NEW s, s.addr = addr + n, s.zeros = 0, Len(s.data) = k,
         \A i \in 1 .. k : s.data[i] = bytes[n + i]
  PROVE  GrowsBy(m, addr, bytes, n, s, k)
<1> DEFINE old == Partly(m, addr, bytes, n)
<1>1. \A a \in Memory :
        (IF a - s.addr \in 0 .. k - 1 THEN s.data[a - s.addr + 1] ELSE old[a])
          = IF a - addr \in 0 .. (n + k) - 1 THEN bytes[a - addr + 1] ELSE m[a]
  <2> SUFFICES ASSUME NEW a \in Memory
               PROVE  (IF a - s.addr \in 0 .. k - 1 THEN s.data[a - s.addr + 1] ELSE old[a])
                        = IF a - addr \in 0 .. (n + k) - 1 THEN bytes[a - addr + 1] ELSE m[a]
    OBVIOUS
  <2>0. a \in Nat
    BY LoaderSizes DEF Memory
  <2>1. old[a] = IF a - addr \in 0 .. n - 1 THEN bytes[a - addr + 1] ELSE m[a]
    BY DEF Partly
  <2>2. CASE a - s.addr \in 0 .. k - 1
    <3>1. a - s.addr + 1 \in 1 .. k /\ n + (a - s.addr + 1) = a - addr + 1
          /\ a - addr \in 0 .. (n + k) - 1
      BY <2>0, <2>2
    <3> QED BY <2>2, <3>1
  <2>3. CASE a - s.addr \notin 0 .. k - 1
    <3>1. a - addr \in 0 .. (n + k) - 1 <=> a - addr \in 0 .. n - 1
      BY <2>0, <2>3
    <3> QED BY <2>1, <2>3, <3>1
  <2> QED BY <2>2, <2>3
<1>2. \A a \in Memory : ~(a - s.addr \in Len(s.data) .. Len(s.data) + s.zeros - 1)
  BY LoaderSizes DEF Memory
<1>3. Stored(old, s) = [a \in Memory |-> IF a - s.addr \in 0 .. k - 1 THEN s.data[a - s.addr + 1] ELSE old[a]]
  <2> HIDE DEF old
  <2> QED BY <1>2 DEF Stored
<1> QED
  <2> HIDE DEF old
  <2>1. Stored(old, s) = Partly(m, addr, bytes, n + k)
    BY <1>1, <1>3 DEF Partly
  <2> QED BY <2>1 DEF old, GrowsBy

-----------------------------------------------------------------------------
(* Files and what they describe. *)

(* Two sequences as one.                                                   *)
Joined(s, t) == s \o t

(* What is where in it.                                                    *)
LEMMA JoinedIs ==
  ASSUME NEW S, NEW s \in Seq(S), NEW t \in Seq(S)
  PROVE  /\ Joined(s, t) \in Seq(S) /\ Len(Joined(s, t)) = Len(s) + Len(t)
         /\ \A i \in 1 .. Len(s) : Joined(s, t)[i] = s[i]
<1> DEFINE both == s \o t
<1>1. both \in Seq(S) /\ Len(both) = Len(s) + Len(t) /\ Len(s) \in Nat /\ Len(t) \in Nat
  OBVIOUS
<1>2. \A i \in 1 .. Len(s) + Len(t) : both[i] = IF i <= Len(s) THEN s[i] ELSE t[i - Len(s)]
  BY ConcatProperties, Zenon
<1> HIDE DEF both
<1>3. \A i \in 1 .. Len(s) : both[i] = s[i]
  BY <1>1, <1>2
<1> QED
  BY <1>1, <1>3, Zenon DEF both, Joined

(* What is before and behind the seam.                                     *)
LEMMA JoinedBehind ==
  ASSUME NEW S, NEW s \in Seq(S), NEW t \in Seq(S)
  PROVE  \A i \in 1 .. Len(t) : Joined(s, t)[Len(s) + i] = t[i]
<1> DEFINE both == s \o t
<1>1. Len(s) \in Nat /\ Len(t) \in Nat
  OBVIOUS
<1>2. \A i \in 1 .. Len(s) + Len(t) : both[i] = IF i <= Len(s) THEN s[i] ELSE t[i - Len(s)]
  BY ConcatProperties, Zenon
<1> HIDE DEF both
<1>3. \A i \in 1 .. Len(t) : both[Len(s) + i] = t[i]
  <2> SUFFICES ASSUME NEW i \in 1 .. Len(t) PROVE both[Len(s) + i] = t[i]
    OBVIOUS
  <2>1. Len(s) + i \in 1 .. Len(s) + Len(t) /\ ~(Len(s) + i <= Len(s)) /\ (Len(s) + i) - Len(s) = i
    BY <1>1
  <2> QED BY <1>2, <2>1
<1> QED
  BY <1>3, Zenon DEF both, Joined

(* The digits of a number are bytes.                                       *)
LEMMA DigitsIs ==
  ASSUME NEW n \in Nat, NEW w \in 1 .. Wide
  PROVE  /\ Digits(n, w) \in Seq(Byte) /\ Len(Digits(n, w)) = w
         /\ \A i \in 1 .. w : Digits(n, w)[i] = (n \div Power[i - 1]) % Base
<1> DEFINE digit(i) == (n \div Power[i - 1]) % Base
<1>1. \A i \in 1 .. w : digit(i) \in Byte
  <2> SUFFICES ASSUME NEW i \in 1 .. w PROVE digit(i) \in Byte
    OBVIOUS
  <2>1. i \in 1 .. Wide
    BY LoaderSizes
  <2> QED BY <2>1, DigitIs
<1> HIDE DEF digit
<1>2. Digits(n, w) = [i \in 1 .. w |-> digit(i)]
  BY DEF Digits, digit
<1>3. w \in Nat
  BY LoaderSizes
<1>4. Digits(n, w) \in Seq(Byte) /\ Len(Digits(n, w)) = w
  BY <1>1, <1>2, <1>3
<1>5. \A i \in 1 .. w : Digits(n, w)[i] = digit(i)
  BY <1>2
<1> QED
  BY <1>4, <1>5 DEF digit

(* What is where in a segment of a PGZ file.                               *)
LEMMA EncodedIs ==
  ASSUME NEW s \in SegmentType, NEW w \in 1 .. Wide
  PROVE  /\ Encoded(s, w) \in Seq(Byte) /\ Len(Encoded(s, w)) = 2 * w + Len(s.data)
         /\ Len(s.data) \in Nat
         /\ \A i \in 1 .. w : Encoded(s, w)[i] = (s.addr \div Power[i - 1]) % Base
         /\ \A i \in 1 .. w : Encoded(s, w)[w + i] = (Len(s.data) \div Power[i - 1]) % Base
         /\ \A i \in 1 .. Len(s.data) : Encoded(s, w)[2 * w + i] = s.data[i]
<1> DEFINE a == Digits(s.addr, w)
           c == Digits(Len(s.data), w)
           d == s.data
           ac == Joined(a, c)
           e == Joined(ac, d)
<1>1. d \in Seq(Byte) /\ s.addr \in Nat /\ Len(s.data) \in Nat /\ w \in Nat
  BY LoaderSizes DEF SegmentType
<1>2. /\ a \in Seq(Byte) /\ Len(a) = w /\ \A i \in 1 .. w : a[i] = (s.addr \div Power[i - 1]) % Base
      /\ c \in Seq(Byte) /\ Len(c) = w /\ \A i \in 1 .. w : c[i] = (Len(s.data) \div Power[i - 1]) % Base
  BY <1>1, DigitsIs
<1>3. Encoded(s, w) = e
  BY Zenon DEF Encoded, Joined
<1> HIDE DEF a, c, d, ac, e
<1>4. /\ ac \in Seq(Byte) /\ Len(ac) = Len(a) + Len(c)
      /\ \A i \in 1 .. Len(a) : ac[i] = a[i]
      /\ \A i \in 1 .. Len(c) : ac[Len(a) + i] = c[i]
  <2>1. a \in Seq(Byte) /\ c \in Seq(Byte)
    BY <1>2
  <2>2. Joined(a, c) \in Seq(Byte)
    BY <2>1, JoinedIs, Zenon
  <2>3. Len(Joined(a, c)) = Len(a) + Len(c)
    BY <2>1, JoinedIs, Zenon
  <2>4. \A i \in 1 .. Len(a) : Joined(a, c)[i] = a[i]
    BY <2>1, JoinedIs, Zenon
  <2>5. \A i \in 1 .. Len(c) : Joined(a, c)[Len(a) + i] = c[i]
    BY <2>1, JoinedBehind, Zenon
  <2> QED BY <2>2, <2>3, <2>4, <2>5 DEF ac
<1>5. /\ e \in Seq(Byte) /\ Len(e) = Len(ac) + Len(d)
      /\ \A i \in 1 .. Len(ac) : e[i] = ac[i]
      /\ \A i \in 1 .. Len(d) : e[Len(ac) + i] = d[i]
  <2>1. ac \in Seq(Byte) /\ d \in Seq(Byte)
    BY <1>1, <1>4
  <2>2. Joined(ac, d) \in Seq(Byte)
    BY <2>1, JoinedIs, Zenon
  <2>3. Len(Joined(ac, d)) = Len(ac) + Len(d)
    BY <2>1, JoinedIs, Zenon
  <2>4. \A i \in 1 .. Len(ac) : Joined(ac, d)[i] = ac[i]
    BY <2>1, JoinedIs, Zenon
  <2>5. \A i \in 1 .. Len(d) : Joined(ac, d)[Len(ac) + i] = d[i]
    BY <2>1, JoinedBehind, Zenon
  <2> QED BY <2>2, <2>3, <2>4, <2>5 DEF e
<1>6. Len(ac) = 2 * w
  BY <1>1, <1>2, <1>4
<1>7. \A i \in 1 .. w : i \in 1 .. Len(ac) /\ w + i \in 1 .. Len(ac)
  BY <1>1, <1>6
<1>8. /\ e \in Seq(Byte) /\ Len(e) = 2 * w + Len(d)
      /\ \A i \in 1 .. w : e[i] = ac[i] /\ e[w + i] = ac[w + i]
      /\ \A i \in 1 .. Len(d) : e[2 * w + i] = d[i]
  BY <1>5, <1>6, <1>7
<1>9. /\ \A i \in 1 .. w : e[i] = (s.addr \div Power[i - 1]) % Base
      /\ \A i \in 1 .. w : e[w + i] = (Len(s.data) \div Power[i - 1]) % Base
  BY <1>2, <1>4, <1>8
<1> QED
  BY <1>1, <1>3, <1>8, <1>9 DEF d

(* Memory is memory with a segment in it.                                  *)
LEMMA StoredType ==
  ASSUME NEW m \in [Memory -> Byte], NEW s, s.data \in Seq(Byte), s.addr \in Int
  PROVE  Stored(m, s) \in [Memory -> Byte]
<1>1. 0 \in Byte
  BY LoaderSizes DEF Byte
<1>2. \A a \in Memory : a - s.addr \in 0 .. Len(s.data) - 1 => a - s.addr + 1 \in 1 .. Len(s.data)
  BY LoaderSizes DEF Memory
<1> QED
  BY <1>1, <1>2 DEF Stored

(* So it is at the start.                                                  *)
LEMMA BlankType == Blank \in [Memory -> Byte]
BY LoaderSizes DEF Blank, Byte

(* The image after each segment.                                           *)
LEMMA ImagesIs ==
  ASSUME NEW p, p.segments \in Seq(SegmentType)
  PROVE  /\ Images(p) \in [0 .. Len(p.segments) -> [Memory -> Byte]]
         /\ Images(p)[0] = Blank
         /\ \A k \in 1 .. Len(p.segments) :
              Images(p)[k] = IF IsLoaded(p.segments[k])
                               THEN Stored(Images(p)[k - 1], p.segments[k])
                               ELSE Images(p)[k - 1]
<1> DEFINE n == Len(p.segments)
           S == [Memory -> Byte]
           Step(k, m) == IF IsLoaded(p.segments[k]) THEN Stored(m, p.segments[k]) ELSE m
           do == [k \in 1 .. n |-> [m \in S |-> Step(k, m)]]
           Is(f) == f = [k \in 0 .. n |->
                           IF k = 0 THEN Blank
                           ELSE IF IsLoaded(p.segments[k]) THEN Stored(f[k - 1], p.segments[k])
                           ELSE f[k - 1]]
           Steps(f) == f = [k \in 0 .. n |-> IF k = 0 THEN Blank ELSE Step(k, f[k - 1])]
<1>0. n \in Nat /\ Blank \in S
  BY BlankType
<1>1. \A k \in 1 .. n, m \in S : Step(k, m) \in S
  <2> SUFFICES ASSUME NEW k \in 1 .. n, NEW m \in S PROVE Step(k, m) \in S
    OBVIOUS
  <2>1. p.segments[k] \in SegmentType
    OBVIOUS
  <2>2. p.segments[k].data \in Seq(Byte) /\ p.segments[k].addr \in Int
    BY <2>1 DEF SegmentType
  <2> QED BY <2>2, StoredType
<1>2. \A f : Is(f) <=> Steps(f)
  OBVIOUS
<1> HIDE DEF n, S, Step
<1>3. do \in [1 .. n -> [S -> S]]
  BY <1>1
<1>4. PICK f \in [0 .. n -> S] : Follows(f, n, Blank, do)
  <2> HIDE DEF do
  <2> QED BY <1>0, <1>3, FollowsExists
<1>5. Steps(f)
  <2>1. \A k \in 1 .. n : do[k][f[k - 1]] = Step(k, f[k - 1])
    <3>1. \A k \in 1 .. n : f[k - 1] \in S
      BY <1>0
    <3> QED BY <3>1
  <2>2. \A k \in 0 .. n : k = 0 \/ k \in 1 .. n
    BY <1>0
  <2> HIDE DEF do
  <2>3. f = [k \in 0 .. n |-> IF k = 0 THEN Blank ELSE do[k][f[k - 1]]]
    BY <1>4 DEF Follows
  <2> QED BY <2>1, <2>2, <2>3
<1> DEFINE g == Images(p)
<1>6. Steps(g)
  <2>1. g = CHOOSE h : Is(h)
    BY Zenon DEF Images, n
  <2> HIDE DEF Is, g, Steps
  <2>2. Is(g)
    BY <1>2, <1>5, <2>1
  <2> QED BY <1>2, <2>2
<1> HIDE DEF g
<1>7. g = [k \in 0 .. n |-> g[k]] /\ g[0] = Blank
      /\ \A k \in 1 .. n : g[k] = Step(k, g[k - 1])
  <2>1. 0 \in 0 .. n /\ \A k \in 1 .. n : k \in 0 .. n /\ k # 0
    BY <1>0
  <2>2. g[0] = Blank
    BY <1>6, <2>1
  <2>3. \A k \in 1 .. n : g[k] = Step(k, g[k - 1])
    BY <1>6, <2>1
  <2>4. g = [k \in 0 .. n |-> g[k]]
    BY <1>6
  <2> QED BY <2>2, <2>3, <2>4
<1> DEFINE Reached == {k \in 0 .. n : g[k] \in S}
<1>8. \A k \in 0 .. n : k \in Reached
  <2>1. 0 \in Reached
    BY <1>0, <1>7
  <2>2. \A k \in 1 .. n : k - 1 \in Reached => k \in Reached
    <3> SUFFICES ASSUME NEW k \in 1 .. n, g[k - 1] \in S PROVE g[k] \in S
      BY <1>0
    <3> QED BY <1>1, <1>7
  <2> HIDE DEF Reached
  <2> QED BY <1>0, <2>1, <2>2, UpTo
<1>9. g \in [0 .. n -> S]
  BY <1>7, <1>8
<1> QED
  BY <1>7, <1>9 DEF g, S, Step, n

(* The file after each segment.                                            *)
LEMMA PgzFilesIs ==
  ASSUME NEW p, p.segments \in Seq(SegmentType), p.width \in 1 .. Wide
  PROVE  /\ PgzFiles(p) \in [0 .. Len(p.segments) -> Seq(Nat)]
         /\ PgzFiles(p)[0] = <<Signature(p)>>
         /\ \A k \in 1 .. Len(p.segments) :
              PgzFiles(p)[k] = PgzFiles(p)[k - 1] \o Encoded(p.segments[k], p.width)
<1> DEFINE n == Len(p.segments)
           S == Seq(Nat)
           b == <<Signature(p)>>
           Step(k, m) == m \o Encoded(p.segments[k], p.width)
           do == [k \in 1 .. n |-> [m \in S |-> Step(k, m)]]
           Is(f) == f = [k \in 0 .. n |->
                           IF k = 0 THEN <<Signature(p)>>
                           ELSE f[k - 1] \o Encoded(p.segments[k], p.width)]
           Steps(f) == f = [k \in 0 .. n |-> IF k = 0 THEN b ELSE Step(k, f[k - 1])]
<1>0. n \in Nat /\ b \in S
  BY LoaderSizes DEF Signature, SIGNATURE_PGX, SIGNATURE_Z, SIGNATURE_z, BAD_SIGNATURE
<1>1. \A k \in 1 .. n, m \in S : Step(k, m) \in S
  <2> SUFFICES ASSUME NEW k \in 1 .. n, NEW m \in S PROVE Step(k, m) \in S
    OBVIOUS
  <2>1. p.segments[k] \in SegmentType
    OBVIOUS
  <2>2. Encoded(p.segments[k], p.width) \in Seq(Byte)
    BY <2>1, EncodedIs
  <2>3. Byte \subseteq Nat
    BY DEF Byte
  <2>4. Encoded(p.segments[k], p.width) \in Seq(Nat)
    BY <2>2, <2>3, SeqMonotonic
  <2> QED BY <2>4
<1>2. \A f : Is(f) <=> Steps(f)
  OBVIOUS
<1> HIDE DEF n, S, Step, b
<1>3. do \in [1 .. n -> [S -> S]]
  BY <1>1
<1>4. PICK f \in [0 .. n -> S] : Follows(f, n, b, do)
  <2> HIDE DEF do
  <2> QED BY <1>0, <1>3, FollowsExists
<1>5. Steps(f)
  <2>1. \A k \in 1 .. n : do[k][f[k - 1]] = Step(k, f[k - 1])
    <3>1. \A k \in 1 .. n : f[k - 1] \in S
      BY <1>0
    <3> QED BY <3>1
  <2>2. \A k \in 0 .. n : k = 0 \/ k \in 1 .. n
    BY <1>0
  <2> HIDE DEF do
  <2>3. f = [k \in 0 .. n |-> IF k = 0 THEN b ELSE do[k][f[k - 1]]]
    BY <1>4 DEF Follows
  <2> QED BY <2>1, <2>2, <2>3
<1> DEFINE g == PgzFiles(p)
<1>6. Steps(g)
  <2>1. g = CHOOSE h : Is(h)
    BY Zenon DEF PgzFiles, n
  <2> HIDE DEF Is, g, Steps
  <2>2. Is(g)
    BY <1>2, <1>5, <2>1
  <2> QED BY <1>2, <2>2
<1> HIDE DEF g
<1>7. g = [k \in 0 .. n |-> g[k]] /\ g[0] = b
      /\ \A k \in 1 .. n : g[k] = Step(k, g[k - 1])
  <2>1. 0 \in 0 .. n /\ \A k \in 1 .. n : k \in 0 .. n /\ k # 0
    BY <1>0
  <2>2. g[0] = b
    BY <1>6, <2>1
  <2>3. \A k \in 1 .. n : g[k] = Step(k, g[k - 1])
    BY <1>6, <2>1
  <2>4. g = [k \in 0 .. n |-> g[k]]
    BY <1>6
  <2> QED BY <2>2, <2>3, <2>4
<1> DEFINE Reached == {k \in 0 .. n : g[k] \in S}
<1>8. \A k \in 0 .. n : k \in Reached
  <2>1. 0 \in Reached
    BY <1>0, <1>7
  <2>2. \A k \in 1 .. n : k - 1 \in Reached => k \in Reached
    <3> SUFFICES ASSUME NEW k \in 1 .. n, g[k - 1] \in S PROVE g[k] \in S
      BY <1>0
    <3> QED BY <1>1, <1>7
  <2> HIDE DEF Reached
  <2> QED BY <1>0, <2>1, <2>2, UpTo
<1>9. g \in [0 .. n -> S]
  BY <1>7, <1>8
<1> QED
  BY <1>7, <1>9 DEF g, S, Step, n, b

(* One segment more.                                                       *)
LEMMA PgzNext ==
  ASSUME NEW p, p.segments \in Seq(SegmentType), p.width \in 1 .. Wide,
         NEW k \in 1 .. Len(p.segments)
  PROVE  LET before == PgzFiles(p)[k - 1]
             after == PgzFiles(p)[k]
             segment == Encoded(p.segments[k], p.width)
         IN /\ before \in Seq(Nat) /\ after \in Seq(Nat)
            /\ Len(before) \in Nat /\ Len(after) = Len(before) + Len(segment)
            /\ \A i \in 1 .. Len(before) : after[i] = before[i]
            /\ \A i \in 1 .. Len(segment) : after[Len(before) + i] = segment[i]
<1> DEFINE before == PgzFiles(p)[k - 1]
           after == PgzFiles(p)[k]
           segment == Encoded(p.segments[k], p.width)
<1>1. before \in Seq(Nat) /\ after \in Seq(Nat) /\ after = Joined(before, segment)
  <2>1. k - 1 \in 0 .. Len(p.segments) /\ k \in 0 .. Len(p.segments)
    OBVIOUS
  <2>2. PgzFiles(p) \in [0 .. Len(p.segments) -> Seq(Nat)]
    BY PgzFilesIs
  <2>3. after = before \o segment
    BY PgzFilesIs
  <2> QED BY <2>1, <2>2, <2>3, Zenon DEF Joined
<1>2. segment \in Seq(Nat)
  <2>1. p.segments[k] \in SegmentType
    OBVIOUS
  <2>2. segment \in Seq(Byte)
    BY <2>1, EncodedIs
  <2>3. Byte \subseteq Nat
    BY DEF Byte
  <2> HIDE DEF segment
  <2> QED BY <2>2, <2>3, SeqMonotonic
<1> HIDE DEF before, after, segment
<1>3. Len(after) = Len(before) + Len(segment)
  <2>1. Len(Joined(before, segment)) = Len(before) + Len(segment)
    BY <1>1, <1>2, JoinedIs, Zenon
  <2> QED BY <1>1, <2>1
<1>4. \A i \in 1 .. Len(before) : after[i] = before[i]
  <2>1. \A i \in 1 .. Len(before) : Joined(before, segment)[i] = before[i]
    BY <1>1, <1>2, JoinedIs, Zenon
  <2> QED BY <1>1, <2>1, Zenon
<1>5. \A i \in 1 .. Len(segment) : after[Len(before) + i] = segment[i]
  <2>1. \A i \in 1 .. Len(segment) : Joined(before, segment)[Len(before) + i] = segment[i]
    BY <1>1, <1>2, JoinedBehind, Zenon
  <2> QED BY <1>1, <2>1, Zenon
<1>6. Len(before) \in Nat
  BY <1>1
<1> QED
  BY <1>1, <1>3, <1>4, <1>5, <1>6 DEF before, after, segment

(* What is behind a segment leaves it where it is.                         *)
LEMMA PgzPrefix ==
  ASSUME NEW p, p.segments \in Seq(SegmentType), p.width \in 1 .. Wide,
         NEW k \in 0 .. Len(p.segments), NEW m \in k .. Len(p.segments)
  PROVE  /\ Len(PgzFiles(p)[k]) \in Nat /\ Len(PgzFiles(p)[m]) \in Nat
         /\ Len(PgzFiles(p)[k]) <= Len(PgzFiles(p)[m])
         /\ \A i \in 1 .. Len(PgzFiles(p)[k]) : PgzFiles(p)[m][i] = PgzFiles(p)[k][i]
<1> DEFINE n == Len(p.segments)
           F == PgzFiles(p)
           Kept(j) == /\ Len(F[k]) <= Len(F[j])
                      /\ \A i \in 1 .. Len(F[k]) : F[j][i] = F[k][i]
           Reached == {j \in 0 .. n : j >= k => Kept(j)}
<1>0. n \in Nat
  OBVIOUS
<1>1. n \in Nat /\ F \in [0 .. n -> Seq(Nat)]
  BY <1>0, PgzFilesIs, Zenon
<1>2. \A j \in 1 .. n :
        /\ Len(F[j - 1]) <= Len(F[j])
        /\ \A i \in 1 .. Len(F[j - 1]) : F[j][i] = F[j - 1][i]
  <2> SUFFICES ASSUME NEW j \in 1 .. n
               PROVE  /\ Len(F[j - 1]) <= Len(F[j])
                      /\ \A i \in 1 .. Len(F[j - 1]) : F[j][i] = F[j - 1][i]
    OBVIOUS
  <2>1. p.segments[j] \in SegmentType
    OBVIOUS
  <2> DEFINE size == Len(Encoded(p.segments[j], p.width))
  <2>2. size \in Nat
    <3>1. Encoded(p.segments[j], p.width) \in Seq(Byte)
      BY <2>1, EncodedIs
    <3> QED BY <3>1
  <2>3. Len(F[j - 1]) \in Nat /\ Len(F[j]) = Len(F[j - 1]) + size
    BY PgzNext, Zenon
  <2>4. \A i \in 1 .. Len(F[j - 1]) : F[j][i] = F[j - 1][i]
    BY PgzNext, Zenon
  <2> HIDE DEF F, size
  <2>5. Len(F[j - 1]) <= Len(F[j])
    BY <2>2, <2>3
  <2> QED BY <2>4, <2>5
<1> HIDE DEF n, F
<1>3. \A j \in 0 .. n : Len(F[j]) \in Nat
  BY <1>1
<1>4. 0 \in Reached
  <2>1. CASE k = 0
    BY <1>1, <1>3, <2>1 DEF n
  <2>2. CASE k # 0
    <3>1. ~(0 >= k)
      BY <1>1, <2>2 DEF n
    <3> QED BY <1>1, <3>1
  <2> QED BY <2>1, <2>2
<1>5. \A j \in 1 .. n : j - 1 \in Reached => j \in Reached
  <2> SUFFICES ASSUME NEW j \in 1 .. n, j - 1 \in Reached, j >= k PROVE Kept(j)
    <3>1. \A j \in 1 .. n : j \in 0 .. n
      BY <1>1
    <3> HIDE DEF Kept
    <3> QED BY <3>1
  <2>0. k \in 0 .. n /\ j \in 0 .. n /\ j - 1 \in 0 .. n
    BY <1>1 DEF n
  <2>1. CASE j = k
    BY <1>3, <2>0, <2>1
  <2>2. CASE j # k
    <3>1. Kept(j - 1)
      BY <2>0, <2>2
    <3>2. Len(F[j - 1]) \in Nat /\ Len(F[j]) \in Nat /\ Len(F[k]) \in Nat
      BY <1>3, <2>0
    <3>3. Len(F[k]) <= Len(F[j])
      BY <1>2, <3>1, <3>2
    <3>4. \A i \in 1 .. Len(F[k]) : i \in 1 .. Len(F[j - 1])
      BY <3>1, <3>2
    <3>5. \A i \in 1 .. Len(F[k]) : F[j][i] = F[k][i]
      BY <1>2, <3>1, <3>4
    <3> QED BY <3>3, <3>5
  <2> QED BY <2>1, <2>2
<1>6. \A j \in 0 .. n : j \in Reached
  <2> HIDE DEF Reached
  <2> QED BY <1>1, <1>4, <1>5, UpTo
<1>7. m \in 0 .. n /\ m >= k /\ k \in 0 .. n
  BY <1>1 DEF n
<1>8. Kept(m)
  BY <1>6, <1>7
<1> QED
  BY <1>3, <1>7, <1>8 DEF F

(* A PGZ file is its signature and the segments one behind the other.      *)
LEMMA PgzFileIs ==
  ASSUME NEW p, p.segments \in Seq(SegmentType), p.width \in 1 .. Wide
  PROVE  LET n == Len(p.segments)
             L(k) == Len(PgzFiles(p)[k])
             whole == PgzFile(p)
         IN /\ whole \in Seq(Nat) /\ whole[1] = Signature(p)
            /\ L(0) = 1 /\ L(n) = Len(whole)
            /\ \A k \in 0 .. n : L(k) \in Nat \ {0} /\ L(k) <= Len(whole)
            /\ \A k \in 1 .. n : L(k) = L(k - 1) + (2 * p.width + Len(p.segments[k].data))
            /\ \A k \in 0 .. n : L(k) = Len(whole) => k = n
            /\ \A k \in 1 .. n : \A i \in 1 .. 2 * p.width + Len(p.segments[k].data) :
                 whole[L(k - 1) + i] = Encoded(p.segments[k], p.width)[i]
<1> DEFINE n == Len(p.segments)
           F == PgzFiles(p)
           whole == PgzFile(p)
           size(k) == 2 * p.width + Len(p.segments[k].data)
<1>0. n \in Nat
  OBVIOUS
<1>1. n \in Nat /\ F \in [0 .. n -> Seq(Nat)] /\ F[0] = <<Signature(p)>>
  BY <1>0, PgzFilesIs, Zenon
<1>2. whole = F[n]
  BY DEF PgzFile
<1>3. \A k \in 1 .. n : /\ size(k) \in Nat \ {0}
                        /\ Len(Encoded(p.segments[k], p.width)) = size(k)
  <2> SUFFICES ASSUME NEW k \in 1 .. n
               PROVE  /\ size(k) \in Nat \ {0}
                      /\ Len(Encoded(p.segments[k], p.width)) = size(k)
    OBVIOUS
  <2>1. p.segments[k] \in SegmentType
    OBVIOUS
  <2>2. Len(Encoded(p.segments[k], p.width)) = size(k) /\ Len(p.segments[k].data) \in Nat
    BY <2>1, EncodedIs
  <2> QED BY <2>2, LoaderSizes
<1>4. \A k \in 1 .. n :
        /\ Len(F[k]) = Len(F[k - 1]) + size(k)
        /\ \A i \in 1 .. size(k) : F[k][Len(F[k - 1]) + i] = Encoded(p.segments[k], p.width)[i]
  <2> SUFFICES ASSUME NEW k \in 1 .. n
               PROVE  /\ Len(F[k]) = Len(F[k - 1]) + size(k)
                      /\ \A i \in 1 .. size(k) :
                           F[k][Len(F[k - 1]) + i] = Encoded(p.segments[k], p.width)[i]
    OBVIOUS
  <2>1. Len(Encoded(p.segments[k], p.width)) = size(k)
    BY <1>3
  <2> HIDE DEF size
  <2>2. Len(F[k]) = Len(F[k - 1]) + Len(Encoded(p.segments[k], p.width))
    BY PgzNext
  <2>3. \A i \in 1 .. Len(Encoded(p.segments[k], p.width)) :
          F[k][Len(F[k - 1]) + i] = Encoded(p.segments[k], p.width)[i]
    BY PgzNext
  <2> QED BY <2>1, <2>2, <2>3
<1>5. \A k \in 0 .. n : \A m \in k .. n :
        /\ Len(F[k]) \in Nat /\ Len(F[m]) \in Nat /\ Len(F[k]) <= Len(F[m])
        /\ \A i \in 1 .. Len(F[k]) : F[m][i] = F[k][i]
  <2> SUFFICES ASSUME NEW k \in 0 .. n, NEW m \in k .. n
               PROVE  /\ Len(F[k]) \in Nat /\ Len(F[m]) \in Nat /\ Len(F[k]) <= Len(F[m])
                      /\ \A i \in 1 .. Len(F[k]) : F[m][i] = F[k][i]
    OBVIOUS
  <2> QED BY PgzPrefix, Zenon
<1> HIDE DEF F, n, whole, size
<1>6. Len(F[0]) = 1 /\ F[0][1] = Signature(p)
  BY <1>1
<1>7. \A k \in 0 .. n : 0 \in 0 .. n /\ k \in 0 .. n /\ n \in k .. n /\ k \in 0 .. n
  BY <1>1
<1>8. \A k \in 0 .. n : Len(F[k]) \in Nat /\ Len(F[k]) >= 1 /\ Len(F[k]) <= Len(whole)
  BY <1>2, <1>5, <1>6, <1>7
<1>9. whole \in Seq(Nat) /\ whole[1] = Signature(p)
  <2>1. n \in 0 .. n /\ 0 \in 0 .. n /\ n \in 0 .. n /\ 1 \in 1 .. 1
    BY <1>1
  <2>2. F[n][1] = F[0][1]
    BY <1>5, <1>6, <2>1
  <2> QED BY <1>1, <1>2, <1>6, <2>1, <2>2
<1>10. \A k \in 0 .. n : Len(F[k]) = Len(whole) => k = n
  <2> SUFFICES ASSUME NEW k \in 0 .. n, k # n PROVE Len(F[k]) # Len(whole)
    OBVIOUS
  <2>1. k + 1 \in 1 .. n /\ (k + 1) - 1 = k /\ k + 1 \in 0 .. n
    BY <1>1
  <2>2. Len(F[k + 1]) = Len(F[k]) + size(k + 1) /\ size(k + 1) \in Nat \ {0}
    BY <1>3, <1>4, <2>1
  <2>3. Len(F[k]) \in Nat /\ Len(F[k + 1]) <= Len(whole) /\ Len(whole) \in Nat
    BY <1>8, <1>9, <2>1
  <2> QED BY <2>2, <2>3
<1>11. \A k \in 1 .. n : \A i \in 1 .. size(k) :
         whole[Len(F[k - 1]) + i] = Encoded(p.segments[k], p.width)[i]
  <2> SUFFICES ASSUME NEW k \in 1 .. n, NEW i \in 1 .. size(k)
               PROVE  whole[Len(F[k - 1]) + i] = Encoded(p.segments[k], p.width)[i]
    OBVIOUS
  <2>1. k \in 0 .. n /\ n \in k .. n /\ k - 1 \in 0 .. n
    BY <1>1
  <2>2. Len(F[k - 1]) \in Nat /\ Len(F[k]) = Len(F[k - 1]) + size(k) /\ size(k) \in Nat
    BY <1>3, <1>4, <1>8, <2>1
  <2>3. Len(F[k - 1]) + i \in 1 .. Len(F[k])
    BY <2>2
  <2>4. F[n][Len(F[k - 1]) + i] = F[k][Len(F[k - 1]) + i]
    BY <1>5, <2>1, <2>3
  <2> QED BY <1>2, <1>4, <2>4
<1> QED
  BY <1>2, <1>4, <1>6, <1>8, <1>9, <1>10, <1>11 DEF F, n, whole, size

-----------------------------------------------------------------------------
(* Programs. *)

(* What the assumption says of one program.                                *)
LEMMA ProgramIs ==
  ASSUME NEW p \in Programs
  PROVE  /\ p.segments \in Seq(SegmentType) /\ Len(p.segments) \in Nat
         /\ \A i \in 1 .. Len(p.segments) :
              /\ p.segments[i] \in SegmentType
              /\ p.segments[i].addr \in Nat /\ p.segments[i].data \in Seq(Byte)
              /\ p.segments[i].zeros \in Nat /\ p.segments[i].kind \in Kinds
              /\ Len(p.segments[i].data) \in Nat
              /\ IsLoaded(p.segments[i]) => InMemory(p.segments[i])
<1>1. IsProgram(p)
  BY ProgramAssumption
<1>2. p.segments \in Seq(SegmentType) /\ Len(p.segments) \in Nat
  BY <1>1 DEF IsProgram, SegmentType
<1>3. DOMAIN p.segments = 1 .. Len(p.segments)
  BY <1>2
<1>4. \A i \in 1 .. Len(p.segments) : IsLoaded(p.segments[i]) => InMemory(p.segments[i])
  BY <1>1, <1>3 DEF IsProgram
<1>5. \A i \in 1 .. Len(p.segments) : p.segments[i] \in SegmentType
  BY <1>2
<1>6. \A s \in SegmentType : /\ s.addr \in Nat /\ s.data \in Seq(Byte)
                             /\ s.zeros \in Nat /\ s.kind \in Kinds /\ Len(s.data) \in Nat
  BY DEF SegmentType
<1> QED
  BY <1>2, <1>4, <1>5, <1>6

(* And of one in a PGZ file.                                               *)
LEMMA PgzProgramIs ==
  ASSUME NEW p \in Programs, p.format = "PGZ"
  PROVE  /\ p.width \in 1 .. Wide /\ p.width > 1 /\ p.width \in {Narrow, Wide}
         /\ \A i \in 1 .. Len(p.segments) :
              /\ IsLoaded(p.segments[i]) /\ p.segments[i].zeros = 0
              /\ p.segments[i].addr < Power[p.width] /\ Len(p.segments[i].data) < Power[p.width]
              /\ p.segments[i].addr + Len(p.segments[i].data) <= MemorySize
         /\ p.sound => StartsAt(p, Len(p.segments), p.entry)
         /\ Contents(p) = PgzFile(p)
<1>1. IsProgram(p)
  BY ProgramAssumption
<1>2. DOMAIN p.segments = 1 .. Len(p.segments)
  BY ProgramIs
<1>3. p.width \in {Narrow, Wide} /\ (p.sound => StartsAt(p, Len(p.segments), p.entry))
  BY <1>1 DEF IsProgram
<1>4. p.width \in 1 .. Wide /\ p.width > 1
  BY <1>3, LoaderSizes
<1>5. \A i \in 1 .. Len(p.segments) : Fits(p.segments[i], p.width)
  BY <1>1, <1>2 DEF IsProgram
<1>6. \A i \in 1 .. Len(p.segments) :
        /\ IsLoaded(p.segments[i]) /\ p.segments[i].zeros = 0
        /\ p.segments[i].addr < Power[p.width] /\ Len(p.segments[i].data) < Power[p.width]
  BY <1>5 DEF Fits
<1>7. \A i \in 1 .. Len(p.segments) : p.segments[i].addr + Len(p.segments[i].data) <= MemorySize
  <2> SUFFICES ASSUME NEW i \in 1 .. Len(p.segments)
               PROVE  p.segments[i].addr + Len(p.segments[i].data) <= MemorySize
    OBVIOUS
  <2>1. /\ p.segments[i].zeros = 0 /\ p.segments[i].addr \in Nat
        /\ Len(p.segments[i].data) \in Nat /\ InMemory(p.segments[i])
    BY <1>6, ProgramIs
  <2> QED BY <2>1, LoaderSizes DEF InMemory
<1>8. Contents(p) = PgzFile(p)
  BY DEF Contents
<1> QED
  BY <1>3, <1>4, <1>6, <1>7, <1>8

(* The start address after each segment of a PGZ file.                     *)
LEMMA StartStays ==
  ASSUME NEW p \in Programs, NEW k \in 0 .. Len(p.segments) - 1, NEW e,
         StartsAt(p, k, e), p.segments[k + 1].data # <<>>
  PROVE  StartsAt(p, k + 1, e)
<1>1. StartSegments(p, k + 1) = StartSegments(p, k)
  <2>1. Len(p.segments) \in Nat
    BY ProgramIs
  <2>2. 1 .. k + 1 = (1 .. k) \cup {k + 1}
    BY <2>1
  <2> QED BY <2>2 DEF StartSegments
<1> QED
  BY <1>1 DEF StartsAt

(* A segment without bytes gives the start address, another one leaves it. *)
LEMMA StartChanges ==
  ASSUME NEW p \in Programs, NEW k \in 0 .. Len(p.segments) - 1,
         p.segments[k + 1].data = <<>>
  PROVE  StartsAt(p, k + 1, p.segments[k + 1].addr)
<1>1. Len(p.segments) \in Nat
  BY ProgramIs
<1>2. k + 1 \in 1 .. k + 1
  BY <1>1
<1>3. k + 1 \in StartSegments(p, k + 1)
  BY <1>2 DEF StartSegments
<1>4. \A j \in StartSegments(p, k + 1) : j <= k + 1
  BY <1>1 DEF StartSegments
<1> QED
  BY <1>3, <1>4 DEF StartsAt

(* There is one start address.                                             *)
LEMMA StartIsOne ==
  ASSUME NEW p, NEW n \in Nat, NEW e, NEW f, StartsAt(p, n, e), StartsAt(p, n, f)
  PROVE  e = f
<1>1. StartSegments(p, n) \subseteq Nat
  BY DEF StartSegments
<1>2. \A i, j \in StartSegments(p, n) : i <= j /\ j <= i => i = j
  BY <1>1
<1>3. CASE StartSegments(p, n) = {}
  BY <1>3 DEF StartsAt
<1>4. CASE StartSegments(p, n) # {}
  <2>1. PICK i \in StartSegments(p, n) :
          e = p.segments[i].addr /\ \A j \in StartSegments(p, n) : j <= i
    BY <1>4 DEF StartsAt
  <2>2. PICK j \in StartSegments(p, n) :
          f = p.segments[j].addr /\ \A i2 \in StartSegments(p, n) : i2 <= j
    BY <1>4 DEF StartsAt
  <2> QED BY <1>2, <2>1, <2>2
<1> QED
  BY <1>3, <1>4

(* The image after a segment of a PGZ file.                                *)
LEMMA PgzImage ==
  ASSUME NEW p \in Programs, p.format = "PGZ", NEW k \in 0 .. Len(p.segments) - 1
  PROVE  LET s == p.segments[k + 1]
             image == Images(p)[k]
         IN /\ image \in [Memory -> Byte]
            /\ Partly(image, s.addr, s.data, 0) = image
            /\ Images(p)[k + 1] = Partly(image, s.addr, s.data, Len(s.data))
<1> DEFINE s == p.segments[k + 1]
           image == Images(p)[k]
           n == Len(p.segments)
<1>1. n \in Nat /\ p.segments \in Seq(SegmentType)
  BY ProgramIs
<1>2. k + 1 \in 1 .. n /\ k \in 0 .. n /\ (k + 1) - 1 = k
  BY <1>1
<1>3. s.addr \in Nat /\ s.data \in Seq(Byte) /\ s.zeros = 0 /\ IsLoaded(s)
  BY <1>2, ProgramIs, PgzProgramIs
<1>4. Images(p) \in [0 .. n -> [Memory -> Byte]]
  BY <1>1, ImagesIs, Zenon
<1>5. image \in [Memory -> Byte]
  BY <1>2, <1>4
<1>6. Images(p)[k + 1] = Stored(image, s)
  <2>1. Images(p)[k + 1] = IF IsLoaded(p.segments[k + 1])
                             THEN Stored(Images(p)[(k + 1) - 1], p.segments[k + 1])
                             ELSE Images(p)[(k + 1) - 1]
    BY <1>1, <1>2, ImagesIs
  <2> QED BY <1>2, <1>3, <2>1
<1> HIDE DEF s, image
<1>7. image = [a \in Memory |-> image[a]]
  BY <1>5
<1>8. Partly(image, s.addr, s.data, 0) = image
  BY <1>3, <1>7, PartlyNone
<1>9. Stored(image, s) = Partly(image, s.addr, s.data, Len(s.data))
  BY <1>3, PartlyAll
<1> QED
  BY <1>5, <1>6, <1>8, <1>9 DEF s, image

-----------------------------------------------------------------------------
(* The PGZ loader. *)

(* The PGZ loader is at work.                                              *)
PgzLoads ==
  /\ load = "reading" /\ loader = "PGZ" /\ program \in Programs /\ program.format = "PGZ"
  /\ LocalsType
  /\ chunk \in Seq(Values) /\ file \in Seq(Values) /\ Ends(Whole, chunk, file)

(* Its file.                                                               *)
LEMMA WholePgz ==
  ASSUME PgzLoads
  PROVE  /\ Whole = PgzFile(program) /\ Whole \in Seq(Nat) /\ Whole \in Seq(Values)
         /\ Values \subseteq Nat
         /\ Len(chunk) \in Nat /\ Len(file) \in Nat /\ Len(Whole) \in Nat /\ Place \in Nat
         /\ Place + Len(chunk) + Len(file) = Len(Whole)
         /\ chunk # <<>> => Head(chunk) = Whole[Place + 1] /\ Head(chunk) \in Nat /\ Len(chunk) > 0
<1>1. program \in Programs /\ program.format = "PGZ"
  BY DEF PgzLoads
<1>2. program.segments \in Seq(SegmentType) /\ program.width \in 1 .. Wide /\ Whole = PgzFile(program)
  BY <1>1, ProgramIs, PgzProgramIs DEF Whole
<1>3. Whole \in Seq(Nat)
  BY <1>2, PgzFileIs
<1>4. Values \subseteq Nat /\ Whole \in Seq(Values)
  BY <1>3 DEF Values
<1>5. /\ chunk \in Seq(Values) /\ file \in Seq(Values) /\ Ends(Whole, chunk, file)
  BY DEF PgzLoads
<1>6. Len(chunk) \in Nat /\ Len(file) \in Nat /\ Len(Whole) \in Nat
      /\ Len(chunk) + Len(file) <= Len(Whole)
  BY <1>3, <1>5 DEF Ends
<1>7. chunk # <<>> => Head(chunk) = Whole[Place + 1]
  BY <1>4, <1>5, EndsByte DEF Place
<1>8. chunk # <<>> => Head(chunk) \in Values /\ Len(chunk) > 0
  BY <1>5
<1> QED
  BY <1>2, <1>3, <1>4, <1>6, <1>7, <1>8 DEF Place

(* The next byte.                                                          *)
LEMMA PlaceMoves ==
  ASSUME PgzLoads, chunk # <<>>, chunk' = Tail(chunk), UNCHANGED <<program, file>>
  PROVE  /\ Whole' = Whole /\ Values' = Values
         /\ Place' = Place + 1
         /\ chunk' \in Seq(Values) /\ Ends(Whole, chunk', file)
<1>1. Whole' = Whole /\ Values' = Values
  BY DEF Whole, Values
<1>2. Whole \in Seq(Values) /\ chunk \in Seq(Values) /\ file \in Seq(Values) /\ Ends(Whole, chunk, file)
  BY WholePgz DEF PgzLoads
<1>3. Ends(Whole, Tail(chunk), file)
      /\ Len(Whole) - Len(Tail(chunk)) - Len(file) = Len(Whole) - Len(chunk) - Len(file) + 1
  BY <1>2, EndsByte
<1>4. Tail(chunk) \in Seq(Values)
  BY <1>2
<1> QED
  BY <1>1, <1>3, <1>4 DEF Place

(* How many bytes of the data are stored.                                  *)
Done(w, seg) == IF seg < 2 * w THEN 0 ELSE seg - 2 * w

(* The byte is one of a segment.                                           *)
LEMMA PgzByteIs ==
  ASSUME PgzLoads, PgzReading, locals.idx # 0, chunk # <<>>
  PROVE  \E k \in 0 .. Len(program.segments) - 1 :
           LET s == program.segments[k + 1]
               w == program.width
               seg == locals.seg
           IN /\ PgzAt(k)
              /\ seg \in 0 .. 2 * w + Len(s.data) - 1
              /\ Head(chunk) = Encoded(s, w)[seg + 1]
              /\ memory = Partly(Images(program)[k], s.addr, s.data, Done(w, seg))
<1>0. program \in Programs /\ program.format = "PGZ"
  BY DEF PgzLoads
<1> DEFINE n == Len(program.segments)
           w == program.width
           seg == locals.seg
<1>1. n \in Nat /\ program.segments \in Seq(SegmentType) /\ w \in 1 .. Wide /\ w \in Nat /\ w > 1
  BY <1>0, ProgramIs, PgzProgramIs, LoaderSizes
<1>2. seg \in Nat
  BY DEF PgzLoads, LocalsType
<1>3. PICK k \in 0 .. n : PgzAt(k)
  BY DEF PgzReading
<1>4. /\ Place = Len(PgzFiles(program)[k]) + seg
      /\ seg = 0 => memory = Images(program)[k]
      /\ seg # 0 => InPgzSegment(k)
  BY <1>3 DEF PgzAt
<1>5. /\ Place \in Nat /\ Place < Len(Whole) /\ Head(chunk) = Whole[Place + 1]
      /\ Len(Whole) \in Nat
  BY WholePgz
<1>6. k < n
  <2>1. CASE seg # 0
    BY <1>4, <2>1 DEF InPgzSegment
  <2>2. CASE seg = 0
    <3>1. Len(PgzFiles(program)[k]) \in Nat /\ Len(PgzFiles(program)[k]) < Len(Whole)
      BY <1>1, <1>4, <1>5, <2>2, PgzFileIs
    <3>2. Whole = PgzFile(program) /\ n \in 0 .. n
      BY <1>1, WholePgz
    <3>3. Len(PgzFiles(program)[n]) = Len(Whole)
      BY <1>1, <3>2, PgzFileIs
    <3>4. k # n
      BY <3>1, <3>3
    <3> QED BY <1>1, <3>4
  <2> QED BY <2>1, <2>2
<1> DEFINE s == program.segments[k + 1]
<1>7. k + 1 \in 1 .. n /\ (k + 1) - 1 = k /\ k \in 0 .. n - 1
  BY <1>1, <1>6
<1>8. s.addr \in Nat /\ Len(s.data) \in Nat /\ s.data \in Seq(Byte)
  BY <1>0, <1>7, ProgramIs
<1>9. seg \in 0 .. 2 * w + Len(s.data) - 1
  <2> DEFINE size == Len(s.data)
  <2>1. seg # 0 => seg < 2 * w + size
    BY <1>4 DEF InPgzSegment
  <2>2. w \in Nat /\ w > 1 /\ seg \in Nat /\ size \in Nat
    BY <1>1, <1>2, <1>8
  <2> HIDE DEF seg, w, s, size
  <2>3. seg \in 0 .. 2 * w + size - 1
    BY <2>1, <2>2
  <2> QED BY <2>3 DEF size
<1>10. Head(chunk) = Encoded(s, w)[seg + 1]
  <2>1. seg + 1 \in 1 .. 2 * w + Len(s.data)
    <3> DEFINE size == Len(s.data)
    <3>1. size \in Nat /\ seg \in 0 .. 2 * w + size - 1
      BY <1>8, <1>9
    <3> HIDE DEF s, w, seg, size
    <3>2. seg + 1 \in 1 .. 2 * w + size
      BY <1>1, <3>1
    <3> QED BY <3>2 DEF size
  <2>2. \A i \in 1 .. 2 * w + Len(s.data) :
          PgzFile(program)[Len(PgzFiles(program)[(k + 1) - 1]) + i] = Encoded(s, w)[i]
    BY <1>1, <1>7, PgzFileIs
  <2>3. Whole[Len(PgzFiles(program)[k]) + (seg + 1)] = Encoded(s, w)[seg + 1]
    BY <1>7, <2>1, <2>2, WholePgz
  <2>4. Len(PgzFiles(program)[k]) \in Nat
    BY <1>1, PgzFileIs
  <2>5. Len(PgzFiles(program)[k]) + (seg + 1) = Place + 1
    BY <1>2, <1>4, <2>4
  <2> QED BY <1>5, <2>3, <2>5
<1>11. memory = Partly(Images(program)[k], s.addr, s.data, Done(w, seg))
  <2>1. CASE seg # 0
    BY <1>4, <2>1 DEF InPgzSegment, Done
  <2>2. CASE seg = 0
    <3>1. Done(w, seg) = 0
      BY <1>1, <2>2 DEF Done
    <3> HIDE DEF seg
    <3> QED BY <1>0, <1>4, <1>7, <2>2, <3>1, PgzImage
  <2> QED BY <2>1, <2>2
<1> QED
  BY <1>3, <1>7, <1>9, <1>10, <1>11

(* The loop goes on, in the segment or to the next one.                    *)
LEMMA NextByteIs ==
  ASSUME LocalsType, NEW a \in Int, NEW c \in Int, NEW d \in 0 .. MemorySize, NextByte(a, c, d)
  PROVE  /\ LocalsType' /\ chunk' = Tail(chunk) /\ load' = load
         /\ locals'.idx = locals.idx /\ locals'.width = locals.width
         /\ locals'.dest = d
         /\ SegmentEnds(locals.seg + 1, c) => locals'.seg = 0
         /\ ~SegmentEnds(locals.seg + 1, c) =>
              locals'.seg = locals.seg + 1 /\ locals'.address = a /\ locals'.count = c
<1>1. locals.seg \in Nat /\ locals.seg + 1 \in Nat /\ -1 \in Int /\ 0 \in Nat
  BY DEF LocalsType
<1>2. CASE SegmentEnds(locals.seg + 1, c)
  <2>1. locals' = [locals EXCEPT !.seg = 0, !.address = -1, !.count = -1, !.dest = d]
    BY <1>2 DEF NextByte
  <2> QED BY <1>1, <1>2, <2>1 DEF LocalsType, NextByte
<1>3. CASE ~SegmentEnds(locals.seg + 1, c)
  <2>1. locals' = [locals EXCEPT !.seg = @ + 1, !.address = a, !.count = c, !.dest = d]
    BY <1>3 DEF NextByte
  <2> QED BY <1>1, <1>3, <2>1 DEF LocalsType, NextByte
<1> QED
  BY <1>2, <1>3

(* What a byte of a field adds to its number.                              *)
LEMMA FieldGrows ==
  ASSUME NEW n \in Nat, NEW w \in 1 .. Wide, n < Power[w], NEW i \in 0 .. w - 1
  PROVE  LET digit == (n \div Power[i]) % Base
         IN /\ digit \in Nat /\ Power[i] \in Nat /\ n % Power[i] \in Nat
            /\ i = 0 => digit = n % Power[1]
            /\ n % Power[i + 1] = (n % Power[i]) + digit * Power[i]
            /\ i = w - 1 => n % Power[i + 1] = n
<1>1. w \in Nat /\ i \in 0 .. Wide /\ i + 1 \in 1 .. Wide /\ (i + 1) - 1 = i /\ w \in 0 .. Wide
  BY LoaderSizes
<1> DEFINE digit == (n \div Power[i]) % Base
<1>2. digit \in Byte /\ n % Power[i + 1] = (n % Power[i]) + digit * Power[i]
  <2>1. LET d == (n \div Power[(i + 1) - 1]) % Base
        IN /\ d \in Byte
           /\ n % Power[i + 1] = (n % Power[(i + 1) - 1]) + d * Power[(i + 1) - 1]
    BY <1>1, DigitIs
  <2> QED BY <1>1, <2>1
<1>3. digit \in Nat
  BY <1>2 DEF Byte
<1>4. Power[i] \in Nat \ {0}
  BY <1>1, PowerIs
<1>5. n % Power[i] \in Nat
  BY <1>4
<1>6. i = 0 => digit = n % Power[1]
  <2> SUFFICES ASSUME i = 0 PROVE digit = n % Power[1]
    OBVIOUS
  <2>1. n % Power[0] = 0 /\ Power[0] = 1
    BY NoDigits, PowerIs
  <2>2. n % Power[0 + 1] = 0 + digit * 1
    BY <1>2, <2>1
  <2> HIDE DEF digit
  <2> QED BY <1>3, <2>2
<1>7. i = w - 1 => n % Power[i + 1] = n
  <2> SUFFICES ASSUME i = w - 1 PROVE n % Power[i + 1] = n
    OBVIOUS
  <2>1. i + 1 = w
    BY <1>1
  <2>2. n % Power[w] = n
    BY <1>1, SmallNumbers
  <2> QED BY <2>1, <2>2
<1> QED
  BY <1>2, <1>3, <1>4, <1>5, <1>6, <1>7

(* Within a segment.                                                       *)
LEMMA PgzGoesOn ==
  ASSUME NEW k \in 0 .. Len(program.segments) - 1, PgzAt(k), program' = program,
         locals.seg \in Nat, locals'.seg = locals.seg + 1,
         Place \in Nat, Place' = Place + 1, start' = start,
         Len(PgzFiles(program)[k]) \in Nat, InPgzSegment(k)'
  PROVE  PgzAt(k)'
<1>1. Place = Len(PgzFiles(program)[k]) + locals.seg /\ StartsAt(program, k, start)
  BY DEF PgzAt
<1>2. Place' = Len(PgzFiles(program)[k]) + locals'.seg /\ locals'.seg # 0
  BY <1>1
<1>3. StartsAt(program, k, start)' /\ (PgzFiles(program)[k])' = PgzFiles(program)[k]
  BY <1>1
<1> QED
  BY <1>2, <1>3 DEF PgzAt

(* From one segment to the next.                                           *)
LEMMA PgzGoesBehind ==
  ASSUME PgzLoads, NEW k \in 0 .. Len(program.segments) - 1, PgzAt(k), program' = program,
         locals.seg + 1 = 2 * program.width + Len(program.segments[k + 1].data),
         locals'.seg = 0, Place \in Nat, Place' = Place + 1,
         StartsAt(program, k + 1, start'),
         memory' = Partly(Images(program)[k], program.segments[k + 1].addr,
                          program.segments[k + 1].data, Len(program.segments[k + 1].data))
  PROVE  PgzAt(k + 1)' /\ k + 1 \in 0 .. Len(program.segments)
<1>0. program \in Programs /\ program.format = "PGZ"
  BY DEF PgzLoads
<1> DEFINE n == Len(program.segments)
           L(i) == Len(PgzFiles(program)[i])
           size == 2 * program.width + Len(program.segments[k + 1].data)
<1>1. n \in Nat /\ program.segments \in Seq(SegmentType) /\ program.width \in 1 .. Wide
      /\ program.width \in Nat
  BY <1>0, ProgramIs, PgzProgramIs, LoaderSizes
<1>2. k + 1 \in 1 .. n /\ (k + 1) - 1 = k /\ k \in 0 .. n /\ k + 1 \in 0 .. n
  BY <1>1
<1>3. L(k + 1) = L(k) + size /\ L(k) \in Nat /\ L(k + 1) \in Nat
  <2>1. \A j \in 1 .. n : L(j) = L(j - 1) + (2 * program.width + Len(program.segments[j].data))
    BY <1>1, PgzFileIs
  <2>2. \A j \in 0 .. n : L(j) \in Nat \ {0}
    BY <1>1, PgzFileIs
  <2> HIDE DEF L
  <2>3. L(k + 1) = L((k + 1) - 1) + size
    BY <1>2, <2>1
  <2> QED BY <1>2, <2>2, <2>3
<1>4. Place = L(k) + locals.seg /\ locals.seg \in Nat
  BY DEF PgzAt, PgzLoads, LocalsType
<1>5. Place' = L(k + 1) + locals'.seg
  <2> HIDE DEF L, size
  <2>1. locals.seg + 1 = size
    BY DEF size
  <2> QED BY <1>3, <1>4, <2>1
<1>6. memory' = Images(program)[k + 1]
  BY <1>0, PgzImage
<1>7. /\ StartsAt(program, k + 1, start)'
      /\ (PgzFiles(program)[k + 1])' = PgzFiles(program)[k + 1]
      /\ (Images(program)[k + 1])' = Images(program)[k + 1]
  OBVIOUS
<1> QED
  BY <1>2, <1>5, <1>6, <1>7 DEF PgzAt

(* In a segment, with k of them behind.                                    *)
InSegment(k) ==
  LET s == program.segments[k + 1]
      w == program.width
      seg == locals.seg
  IN /\ PgzLoads /\ locals.idx # 0 /\ chunk # <<>>
     /\ program.sound /\ locals.width = w
     /\ k \in 0 .. Len(program.segments) - 1 /\ PgzAt(k)
     /\ seg \in 0 .. 2 * w + Len(s.data) - 1
     /\ Head(chunk) = Encoded(s, w)[seg + 1]
     /\ memory = Partly(Images(program)[k], s.addr, s.data, Done(w, seg))
     /\ UNCHANGED <<request, file, failed>>

(* The numbers and the bytes of the segment the loader is in.              *)
LEMMA InSegmentIs ==
  ASSUME NEW k, InSegment(k)
  PROVE  LET s == program.segments[k + 1]
             w == program.width
             seg == locals.seg
             size == Len(s.data)
         IN /\ program \in Programs /\ program.format = "PGZ" /\ program' = program
            /\ Len(program.segments) \in Nat /\ k \in 0 .. Len(program.segments) - 1
            /\ w \in 1 .. Wide /\ w \in Nat /\ w > 1 /\ w \in {Narrow, Wide}
            /\ seg \in Nat /\ size \in Nat /\ seg < 2 * w + size
            /\ s \in SegmentType /\ s.addr \in Nat /\ s.data \in Seq(Byte)
            /\ s.addr < Power[w] /\ size < Power[w] /\ s.addr + size <= MemorySize
            /\ Place \in Nat /\ Len(PgzFiles(program)[k]) \in Nat
            /\ seg # 0 => InPgzSegment(k)
            /\ StartsAt(program, k, start)
            /\ locals.dest \in 0 .. MemorySize /\ LocalsType
<1>1. program \in Programs /\ program.format = "PGZ" /\ program' = program
      /\ locals.seg \in Nat /\ locals.dest \in 0 .. MemorySize /\ LocalsType
  BY DEF InSegment, PgzLoads, LocalsType, request
<1>2. Len(program.segments) \in Nat /\ k \in 0 .. Len(program.segments) - 1
  BY <1>1, ProgramIs DEF InSegment
<1>3. k + 1 \in 1 .. Len(program.segments) /\ k \in 0 .. Len(program.segments)
  BY <1>2
<1>4. /\ program.width \in 1 .. Wide /\ program.width > 1 /\ program.width \in {Narrow, Wide}
      /\ program.segments \in Seq(SegmentType)
  BY <1>1, ProgramIs, PgzProgramIs
<1>5. program.width \in Nat
  BY <1>4, LoaderSizes
<1>6. LET s == program.segments[k + 1]
      IN /\ s \in SegmentType /\ s.addr \in Nat /\ s.data \in Seq(Byte) /\ Len(s.data) \in Nat
         /\ s.addr < Power[program.width] /\ Len(s.data) < Power[program.width]
         /\ s.addr + Len(s.data) <= MemorySize
  BY <1>1, <1>3, ProgramIs, PgzProgramIs
<1>7. Place \in Nat
  BY WholePgz DEF InSegment
<1>8. Len(PgzFiles(program)[k]) \in Nat
  BY <1>3, <1>4, PgzFileIs
<1>9. (locals.seg # 0 => InPgzSegment(k)) /\ StartsAt(program, k, start)
  BY DEF InSegment, PgzAt
<1>10. locals.seg < 2 * program.width + Len(program.segments[k + 1].data)
  <2> DEFINE size == Len(program.segments[k + 1].data)
  <2>1. locals.seg \in 0 .. 2 * program.width + size - 1 /\ size \in Nat
    BY <1>6 DEF InSegment
  <2> HIDE DEF size
  <2>2. locals.seg < 2 * program.width + size
    BY <1>5, <2>1
  <2> QED BY <2>2 DEF size
<1> QED
  BY <1>1, <1>2, <1>4, <1>5, <1>6, <1>7, <1>8, <1>9, <1>10

(* The byte is stored, or belongs to a field.                              *)
LEMMA PgzAddressStep ==
  ASSUME NEW k, InSegment(k), PgzAddress(Head(chunk)), Place' = Place + 1
  PROVE  PgzAt(k)' /\ LocalsType' /\ memory' = memory
         /\ locals'.idx = locals.idx /\ locals'.width = locals.width
         /\ chunk' = Tail(chunk) /\ load' = load
<1> DEFINE s == program.segments[k + 1]
           w == program.width
           seg == locals.seg
           b == Head(chunk)
           size == Len(s.data)
           a == IF seg = 0 THEN b ELSE locals.address + b * Power[seg]
           c == IF seg = 0 THEN -1 ELSE locals.count
<1>1. /\ seg < w /\ NextByte(a, c, locals.dest) /\ memory' = memory /\ start' = start
      /\ locals.width = w
  BY DEF PgzAddress, InSegment
<1>2. /\ w \in 1 .. Wide /\ w \in Nat /\ w > 1 /\ seg \in Nat /\ size \in Nat
      /\ s \in SegmentType /\ s.addr \in Nat /\ s.addr < Power[w]
      /\ locals.dest \in 0 .. MemorySize /\ LocalsType
      /\ seg # 0 => InPgzSegment(k)
  BY InSegmentIs
<1>3. b = (s.addr \div Power[seg]) % Base
  <2>1. \A i \in 1 .. w : Encoded(s, w)[i] = (s.addr \div Power[i - 1]) % Base
    BY <1>2, EncodedIs
  <2>2. seg + 1 \in 1 .. w /\ (seg + 1) - 1 = seg
    BY <1>1, <1>2
  <2> HIDE DEF s, w
  <2>3. Encoded(s, w)[seg + 1] = (s.addr \div Power[seg]) % Base
    BY <2>1, <2>2
  <2> QED BY <2>3 DEF InSegment, s, w
<1>4. seg \in 0 .. w - 1
  BY <1>1, <1>2
<1>5. seg # 0 => locals.address = s.addr % Power[seg] /\ locals.count = -1
  BY <1>1, <1>2 DEF InPgzSegment
<1>6. /\ a = s.addr % Power[seg + 1] /\ a \in Int
      /\ seg = w - 1 => a = s.addr
  <2> DEFINE n == s.addr
             digit == (n \div Power[seg]) % Base
  <2>1. n \in Nat /\ n < Power[w]
    BY <1>2
  <2> HIDE DEF n, w, seg
  <2>2. /\ digit \in Nat /\ Power[seg] \in Nat /\ n % Power[seg] \in Nat
        /\ seg = 0 => digit = n % Power[1]
        /\ n % Power[seg + 1] = (n % Power[seg]) + digit * Power[seg]
        /\ seg = w - 1 => n % Power[seg + 1] = n
    BY <1>2, <1>4, <2>1, FieldGrows
  <2>3. b = digit /\ (seg # 0 => locals.address = n % Power[seg])
    BY <1>3, <1>5 DEF n, w, seg
  <2> HIDE DEF digit, b
  <2>4. digit * Power[seg] \in Nat
    BY <2>2
  <2>5. a = n % Power[seg + 1]
    <3>1. CASE seg = 0
      BY <2>2, <2>3, <3>1
    <3>2. CASE seg # 0
      BY <2>2, <2>3, <3>2
    <3> QED BY <3>1, <3>2
  <2>6. n % Power[seg + 1] \in Int
    BY <2>2, <2>4
  <2> HIDE DEF a
  <2> QED BY <2>2, <2>5, <2>6 DEF n
<1>7. c = -1
  BY <1>5
<1> HIDE DEF a, c, b
<1>8. ~SegmentEnds(seg + 1, c)
  BY <1>1, <1>2, <1>7 DEF SegmentEnds
<1>9. /\ LocalsType' /\ chunk' = Tail(chunk) /\ load' = load
      /\ locals'.idx = locals.idx /\ locals'.width = locals.width
      /\ locals'.seg = seg + 1 /\ locals'.address = a /\ locals'.count = -1
  <2>1. -1 \in Int
    OBVIOUS
  <2> QED BY <1>1, <1>2, <1>6, <1>7, <1>8, <2>1, NextByteIs
<1>10. InPgzSegment(k)'
  <2>1. /\ program' = program /\ k < Len(program.segments)
        /\ memory = Partly(Images(program)[k], s.addr, s.data, Done(w, seg))
    <3>1. program' = program /\ Len(program.segments) \in Nat /\ k \in 0 .. Len(program.segments) - 1
      BY InSegmentIs
    <3>2. k < Len(program.segments)
      BY <3>1
    <3> QED BY <3>1, <3>2 DEF InSegment
  <2>2. Done(w, seg) = 0 /\ seg + 1 < 2 * w + size /\ seg + 1 < 2 * w
    <3> HIDE DEF w, seg, size
    <3> QED BY <1>1, <1>2 DEF Done
  <2>3. /\ seg + 1 >= w => locals'.address = s.addr
        /\ ~(seg + 1 > w)
    <3> HIDE DEF w, seg, s
    <3> QED BY <1>1, <1>2, <1>6, <1>9
  <2>4. memory' = Partly(Images(program)[k], s.addr, s.data, 0)
    BY <1>1, <2>1, <2>2
  <2>5. seg + 1 < w => locals'.address = s.addr % Power[seg + 1]
    BY <1>6, <1>9
  <2> HIDE DEF seg
  <2>6. locals'.seg = seg + 1 /\ locals'.count = -1
    BY <1>9
  <2>7. ~(w < seg + 1) /\ ~(seg + 1 > 2 * w)
    <3> HIDE DEF w
    <3> QED BY <1>2, <2>2, <2>3 DEF seg
  <2> QED BY <2>1, <2>2, <2>3, <2>4, <2>5, <2>6, <2>7 DEF InPgzSegment
<1>11. PgzAt(k)'
  <2>1. /\ k \in 0 .. Len(program.segments) - 1 /\ program' = program
        /\ Place \in Nat /\ Len(PgzFiles(program)[k]) \in Nat /\ PgzAt(k)
    BY InSegmentIs DEF InSegment
  <2> QED BY <1>1, <1>2, <1>9, <1>10, <2>1, PgzGoesOn
<1> QED
  BY <1>1, <1>9, <1>11

(* The size of a segment, and where it goes.                               *)
LEMMA PgzSizeStep ==
  ASSUME NEW k, InSegment(k), PgzSize(Head(chunk)), Place' = Place + 1
  PROVE  /\ PgzAt(k)' \/ (PgzAt(k + 1)' /\ k + 1 \in 0 .. Len(program.segments))
         /\ LocalsType' /\ memory' = memory
         /\ locals'.idx = locals.idx /\ locals'.width = locals.width
         /\ chunk' = Tail(chunk) /\ load' = load
<1> DEFINE s == program.segments[k + 1]
           w == program.width
           seg == locals.seg
           b == Head(chunk)
           size == Len(s.data)
           i == seg - w
           c == IF i = 0 THEN b ELSE locals.count + b * Power[i]
           d == IF i = 0 THEN locals.address ELSE locals.dest
<1>1. /\ seg \in w .. 2 * w - 1 /\ NextByte(locals.address, c, d) /\ memory' = memory
      /\ start' = IF i = w - 1 /\ c = 0 THEN locals.address ELSE start
      /\ locals.width = w
  BY DEF PgzSize, InSegment
<1>2. /\ w \in 1 .. Wide /\ w \in Nat /\ w > 1 /\ seg \in Nat /\ size \in Nat
      /\ s \in SegmentType /\ s.addr \in Nat /\ size < Power[w]
      /\ s.addr + size <= MemorySize /\ s.data \in Seq(Byte)
      /\ locals.dest \in 0 .. MemorySize /\ LocalsType
      /\ seg # 0 => InPgzSegment(k)
  BY InSegmentIs
<1>3. seg # 0 /\ i \in 0 .. w - 1
  BY <1>1, <1>2
<1>4. b = (size \div Power[i]) % Base
  <2>1. \A j \in 1 .. w : Encoded(s, w)[w + j] = (size \div Power[j - 1]) % Base
    BY <1>2, EncodedIs
  <2>2. i + 1 \in 1 .. w /\ (i + 1) - 1 = i /\ w + (i + 1) = seg + 1
    <3>1. seg \in Nat /\ w \in Nat /\ i \in 0 .. w - 1
      BY <1>2, <1>3
    <3> HIDE DEF w, seg
    <3> QED BY <3>1
  <2> HIDE DEF s, w, seg, i, size
  <2>3. Encoded(s, w)[seg + 1] = (size \div Power[i]) % Base
    BY <2>1, <2>2
  <2> QED BY <2>3 DEF InSegment, s, w, seg
<1>5. /\ locals.address = s.addr
      /\ i # 0 => locals.count = size % Power[i] /\ locals.dest = s.addr
  <2>1. InPgzSegment(k)
    BY <1>2, <1>3
  <2>2. seg >= w /\ seg <= 2 * w /\ seg < 2 * w /\ (i # 0 => w < seg)
    <3> HIDE DEF seg, w
    <3> QED BY <1>1, <1>2
  <2>3. /\ seg >= w => locals.address = s.addr
        /\ w < seg /\ seg <= 2 * w => locals.count = size % Power[i]
        /\ seg > w => locals.dest = s.addr + (IF seg < 2 * w THEN 0 ELSE seg - 2 * w)
    BY <2>1 DEF InPgzSegment
  <2>4. seg > w => locals.dest = s.addr + 0
    BY <2>2, <2>3
  <2>5. i # 0 => seg > w
    <3> HIDE DEF seg, w
    <3> QED BY <1>1, <1>2, <2>2
  <2> HIDE DEF i, w, seg
  <2> QED BY <1>2, <2>2, <2>3, <2>4, <2>5
<1>6. /\ c = size % Power[i + 1] /\ c \in Nat
      /\ i = w - 1 => c = size
  <2> HIDE DEF size, w, i
  <2> DEFINE digit == (size \div Power[i]) % Base
  <2>2. /\ digit \in Nat /\ Power[i] \in Nat /\ size % Power[i] \in Nat
        /\ i = 0 => digit = size % Power[1]
        /\ size % Power[i + 1] = (size % Power[i]) + digit * Power[i]
        /\ i = w - 1 => size % Power[i + 1] = size
    BY <1>2, <1>3, FieldGrows
  <2>3. b = digit /\ (i # 0 => locals.count = size % Power[i])
    BY <1>4, <1>5
  <2> HIDE DEF digit, b
  <2>4. digit * Power[i] \in Nat
    BY <2>2
  <2>5. c = size % Power[i + 1]
    <3>1. CASE i = 0
      BY <2>2, <2>3, <3>1
    <3>2. CASE i # 0
      BY <2>2, <2>3, <3>2
    <3> QED BY <3>1, <3>2
  <2>6. size % Power[i + 1] \in Nat
    BY <2>2, <2>4
  <2> HIDE DEF c
  <2> QED BY <2>2, <2>5, <2>6
<1>7. d = s.addr /\ d \in 0 .. MemorySize
  <2>1. d = s.addr
    <3> HIDE DEF i, s
    <3> QED BY <1>5
  <2> HIDE DEF d, size, s
  <2> QED BY <1>2, <2>1, LoaderSizes
<1> HIDE DEF d, c, b
<1>8. SegmentEnds(seg + 1, c) <=> seg + 1 = 2 * w /\ size = 0
  <2>1. SegmentEnds(seg + 1, c) <=> seg + 1 >= 2 * w + c
    BY <1>1 DEF SegmentEnds
  <2>2. seg + 1 = 2 * w <=> i = w - 1
    <3> HIDE DEF seg, w
    <3> QED BY <1>1, <1>2
  <2>3. seg + 1 <= 2 * w
    <3> HIDE DEF seg, w
    <3> QED BY <1>1, <1>2
  <2> HIDE DEF seg, w, size, i
  <2> QED BY <1>2, <1>6, <2>1, <2>2, <2>3
<1>9. /\ LocalsType' /\ chunk' = Tail(chunk) /\ load' = load
      /\ locals'.idx = locals.idx /\ locals'.width = locals.width
      /\ locals'.dest = s.addr
      /\ SegmentEnds(seg + 1, c) => locals'.seg = 0
      /\ ~SegmentEnds(seg + 1, c) =>
           locals'.seg = seg + 1 /\ locals'.address = s.addr /\ locals'.count = c
  <2>1. locals.address \in Int /\ c \in Int
    BY <1>2, <1>5, <1>6
  <2> QED BY <1>1, <1>2, <1>5, <1>7, <2>1, NextByteIs
<1>10. /\ program \in Programs /\ program.format = "PGZ" /\ program' = program
       /\ Len(program.segments) \in Nat /\ k \in 0 .. Len(program.segments) - 1
       /\ Place \in Nat /\ Len(PgzFiles(program)[k]) \in Nat /\ PgzAt(k) /\ PgzLoads
       /\ StartsAt(program, k, start)
  BY InSegmentIs DEF InSegment
<1>11. memory' = Partly(Images(program)[k], s.addr, s.data, 0)
  <2>1. memory = Partly(Images(program)[k], s.addr, s.data, Done(w, seg))
    BY DEF InSegment
  <2>2. Done(w, seg) = 0
    <3> HIDE DEF w, seg
    <3> QED BY <1>1, <1>2 DEF Done
  <2> QED BY <1>1, <2>1, <2>2
<1>12. CASE SegmentEnds(seg + 1, c)
  <2>1. seg + 1 = 2 * w + size /\ size = 0 /\ i = w - 1 /\ c = 0
    <3>1. i = w - 1 /\ seg + 1 = 2 * w /\ size = 0
      <4> HIDE DEF size
      <4>1. seg + 1 = 2 * w /\ size = 0
        BY <1>8, <1>12
      <4> HIDE DEF w, seg
      <4> QED BY <1>2, <4>1
    <3>2. c = 0
      BY <1>6, <3>1
    <3> HIDE DEF size, w, seg, i
    <3> QED BY <1>2, <3>1, <3>2
  <2>2. s.data = <<>>
    BY <1>2, <2>1
  <2>3. StartsAt(program, k + 1, start')
    <3>1. start' = s.addr
      BY <1>1, <1>5, <2>1
    <3>2. StartsAt(program, k + 1, s.addr)
      BY <1>10, <2>2, StartChanges
    <3> QED BY <3>1, <3>2
  <2>4. memory' = Partly(Images(program)[k], s.addr, s.data, Len(s.data))
    BY <1>11, <2>1
  <2>5. locals'.seg = 0
    BY <1>9, <1>12
  <2>6. PgzAt(k + 1)' /\ k + 1 \in 0 .. Len(program.segments)
    BY <1>10, <2>1, <2>3, <2>4, <2>5, PgzGoesBehind
  <2> QED BY <1>1, <1>9, <2>6
<1>13. CASE ~SegmentEnds(seg + 1, c)
  <2>1. ~(seg + 1 = 2 * w /\ size = 0)
    <3> HIDE DEF seg, w, size
    <3> QED BY <1>8, <1>13
  <2>2. seg + 1 < 2 * w + size /\ seg + 1 >= w /\ seg + 1 > w /\ seg + 1 <= 2 * w
    <3> HIDE DEF seg, w, size
    <3> QED BY <1>1, <1>2, <2>1
  <2>3. start' = start
    <3>1. i = w - 1 => c = size /\ seg + 1 = 2 * w
      <4>1. i = w - 1 => seg + 1 = 2 * w
        <5> HIDE DEF seg, w
        <5> QED BY <1>2
      <4> QED BY <1>6, <4>1
    <3> HIDE DEF i, size, seg, w
    <3> QED BY <1>1, <2>1, <3>1
  <2>4. locals'.count = size % Power[i + 1] /\ (seg + 1) - w = i + 1
    <3>1. (seg + 1) - w = i + 1
      <4> HIDE DEF seg, w
      <4> QED BY <1>2
    <3> QED BY <1>6, <1>9, <1>13, <3>1
  <2>5. (IF seg + 1 < 2 * w THEN 0 ELSE (seg + 1) - 2 * w) = 0
    <3> HIDE DEF seg, w
    <3> QED BY <1>2, <2>2
  <2>6. locals'.seg = seg + 1 /\ locals'.address = s.addr /\ locals'.dest = s.addr
    BY <1>9, <1>13
  <2>7. k < Len(program.segments) /\ program' = program
    BY <1>10
  <2>8. s.addr + 0 = s.addr
    BY <1>2
  <2>9. InPgzSegment(k)'
    <3> HIDE DEF i
    <3>1. ~(seg + 1 < w) /\ ~(seg + 1 <= w) /\ ~(seg + 1 > 2 * w)
      <4> HIDE DEF w, seg
      <4> QED BY <1>2, <2>2
    <3> HIDE DEF seg
    <3>2. locals'.count = size % Power[locals'.seg - w]
      BY <2>4, <2>6
    <3> QED BY <1>11, <2>2, <2>5, <2>6, <2>7, <2>8, <3>1, <3>2 DEF InPgzSegment
  <2>10. locals.seg \in Nat
    BY <1>2
  <2>11. PgzAt(k)'
    BY <1>10, <2>3, <2>6, <2>9, <2>10, PgzGoesOn
  <2> QED BY <1>1, <1>9, <2>11
<1> QED
  BY <1>1, <1>9, <1>12, <1>13

(* A byte of a segment is stored.                                          *)
LEMMA PgzDataStep ==
  ASSUME NEW k, InSegment(k), PgzData(Head(chunk)), Place' = Place + 1
  PROVE  /\ PgzAt(k)' \/ (PgzAt(k + 1)' /\ k + 1 \in 0 .. Len(program.segments))
         /\ LocalsType' /\ memory' \in [Memory -> Byte]
         /\ locals'.idx = locals.idx /\ locals'.width = locals.width
         /\ chunk' = Tail(chunk) /\ load' = load
<1> DEFINE s == program.segments[k + 1]
           w == program.width
           seg == locals.seg
           b == Head(chunk)
           size == Len(s.data)
           i == seg - 2 * w
           image == Images(program)[k]
<1>1. /\ seg >= 2 * w /\ memory' = [memory EXCEPT ![locals.dest] = b]
      /\ NextByte(locals.address, locals.count, locals.dest + 1) /\ start' = start
      /\ locals.width = w
  BY DEF PgzData, InSegment
<1>2. /\ w \in 1 .. Wide /\ w \in Nat /\ w > 1 /\ seg \in Nat /\ size \in Nat
      /\ seg < 2 * w + size
      /\ s \in SegmentType /\ s.addr \in Nat /\ size < Power[w]
      /\ s.addr + size <= MemorySize /\ s.data \in Seq(Byte)
      /\ locals.dest \in 0 .. MemorySize /\ LocalsType
      /\ seg # 0 => InPgzSegment(k)
  BY InSegmentIs
<1>3. /\ seg # 0 /\ i \in 0 .. size - 1 /\ i \in Nat /\ i + 1 \in 1 .. size
      /\ 2 * w + (i + 1) = seg + 1 /\ seg > w /\ seg >= w /\ ~(seg < 2 * w)
  <2> HIDE DEF seg, w, size
  <2> QED BY <1>1, <1>2
<1>4. b = s.data[i + 1]
  <2>1. \A j \in 1 .. size : Encoded(s, w)[2 * w + j] = s.data[j]
    BY <1>2, EncodedIs
  <2> HIDE DEF s, w, seg, i, size
  <2>2. Encoded(s, w)[seg + 1] = s.data[i + 1]
    BY <1>3, <2>1
  <2> QED BY <2>2 DEF InSegment, s, w, seg
<1>5. locals.address = s.addr /\ locals.count = size /\ locals.dest = s.addr + i
  <2>1. InPgzSegment(k)
    BY <1>2, <1>3
  <2>2. /\ seg >= w => locals.address = s.addr
        /\ w < seg /\ seg <= 2 * w => locals.count = size % Power[seg - w]
        /\ seg > 2 * w => locals.count = size
        /\ seg > w => locals.dest = s.addr + (IF seg < 2 * w THEN 0 ELSE i)
    BY <2>1 DEF InPgzSegment
  <2>3. size % Power[w] = size
    <3>1. w \in 0 .. Wide
      BY <1>2
    <3> HIDE DEF size, w
    <3> QED BY <1>2, <3>1, SmallNumbers
  <2>4. w \in Nat /\ w > 1 /\ seg \in Nat /\ seg >= 2 * w
    BY <1>1, <1>2
  <2> HIDE DEF seg, w
  <2>5. /\ seg = 2 * w \/ seg > 2 * w
        /\ seg = 2 * w => seg - w = w /\ w < seg /\ seg <= 2 * w
    BY <2>4
  <2>6. locals.count = size
    <3> HIDE DEF seg, w, size
    <3> QED BY <2>2, <2>3, <2>4, <2>5
  <2> HIDE DEF seg, w, i
  <2> QED BY <1>3, <2>2, <2>6
<1>6. /\ program \in Programs /\ program.format = "PGZ" /\ program' = program
      /\ Len(program.segments) \in Nat /\ k \in 0 .. Len(program.segments) - 1
      /\ Place \in Nat /\ Len(PgzFiles(program)[k]) \in Nat /\ PgzAt(k) /\ PgzLoads
      /\ StartsAt(program, k, start)
  BY InSegmentIs DEF InSegment
<1>7. image \in [Memory -> Byte]
  BY <1>6, PgzImage
<1>8. memory' = Partly(image, s.addr, s.data, i + 1)
  <2>1. memory = Partly(image, s.addr, s.data, i)
    <3>1. memory = Partly(image, s.addr, s.data, Done(w, seg))
      BY DEF InSegment
    <3> QED BY <1>3, <3>1 DEF Done
  <2>2. s.addr + i < MemorySize
    <3> HIDE DEF s, size, i
    <3> QED BY <1>2, <1>3, LoaderSizes
  <2>3. i \in Nat /\ s.addr \in Nat
    BY <1>2, <1>3
  <2> HIDE DEF i, s, image
  <2>4. Partly(image, s.addr, s.data, i + 1)
          = [Partly(image, s.addr, s.data, i) EXCEPT ![s.addr + i] = s.data[i + 1]]
    <3> DEFINE addr == s.addr
               bytes == s.data
    <3>1. addr \in Nat /\ i \in Nat /\ addr + i < MemorySize
      BY <2>2, <2>3
    <3> HIDE DEF addr, bytes
    <3>2. Partly(image, addr, bytes, i + 1)
            = [Partly(image, addr, bytes, i) EXCEPT ![addr + i] = bytes[i + 1]]
      BY <3>1, PartlyMore
    <3> QED BY <3>2 DEF addr, bytes
  <2> QED BY <1>1, <1>4, <1>5, <2>1, <2>4
<1>9. memory' \in [Memory -> Byte]
  <2>1. i + 1 \in 0 .. size
    <3> HIDE DEF i, size
    <3> QED BY <1>2, <1>3
  <2> HIDE DEF i, s, image
  <2> QED BY <1>2, <1>7, <1>8, <2>1, PartlyType DEF size
<1>10. locals.dest + 1 \in 0 .. MemorySize /\ locals.dest + 1 = s.addr + (i + 1)
  <2> DEFINE addr == s.addr
  <2>1. /\ addr \in Nat /\ size \in Nat /\ addr + size <= MemorySize
        /\ i \in Nat /\ i + 1 \in 1 .. size /\ locals.dest = addr + i /\ MemorySize \in Nat
    BY <1>2, <1>3, <1>5, LoaderSizes
  <2> HIDE DEF addr, size, i
  <2>2. locals.dest + 1 \in 0 .. MemorySize /\ locals.dest + 1 = addr + (i + 1)
    BY <2>1
  <2> QED BY <2>2 DEF addr
<1> HIDE DEF b
<1>11. SegmentEnds(seg + 1, locals.count) <=> i + 1 = size
  <2>1. SegmentEnds(seg + 1, locals.count) <=> seg + 1 >= 2 * w + size
    BY <1>1, <1>5 DEF SegmentEnds
  <2> HIDE DEF seg, w, size, i
  <2> QED BY <1>2, <1>3, <2>1
<1>12. /\ LocalsType' /\ chunk' = Tail(chunk) /\ load' = load
       /\ locals'.idx = locals.idx /\ locals'.width = locals.width
       /\ locals'.dest = s.addr + (i + 1)
       /\ SegmentEnds(seg + 1, locals.count) => locals'.seg = 0
       /\ ~SegmentEnds(seg + 1, locals.count) =>
            locals'.seg = seg + 1 /\ locals'.address = s.addr /\ locals'.count = size
  <2>1. locals.address \in Int /\ locals.count \in Int /\ LocalsType
    BY <1>2, <1>5
  <2> DEFINE a == locals.address
             c == locals.count
             d == locals.dest + 1
  <2>2. NextByte(a, c, d) /\ d \in 0 .. MemorySize /\ a = s.addr /\ c = size /\ d = s.addr + (i + 1)
    BY <1>1, <1>5, <1>10
  <2> HIDE DEF a, c, d
  <2>3. a \in Int /\ c \in Int
    BY <2>1 DEF a, c
  <2>4. /\ LocalsType' /\ chunk' = Tail(chunk) /\ load' = load
        /\ locals'.idx = locals.idx /\ locals'.width = locals.width /\ locals'.dest = d
        /\ SegmentEnds(locals.seg + 1, c) => locals'.seg = 0
        /\ ~SegmentEnds(locals.seg + 1, c) =>
             locals'.seg = locals.seg + 1 /\ locals'.address = a /\ locals'.count = c
    BY <2>1, <2>2, <2>3, NextByteIs
  <2>5. c = locals.count
    BY DEF c
  <2> HIDE DEF i, s, size
  <2> QED BY <2>2, <2>4, <2>5
<1>13. s.data # <<>>
  <2> HIDE DEF i, s
  <2> QED BY <1>2, <1>3 DEF size
<1>14. CASE SegmentEnds(seg + 1, locals.count)
  <2>1. i + 1 = size
    BY <1>11, <1>14
  <2>2. seg + 1 = 2 * w + size
    <3> HIDE DEF seg, w, size, i
    <3> QED BY <1>3, <2>1
  <2>3. StartsAt(program, k + 1, start')
    BY <1>1, <1>6, <1>13, StartStays
  <2>4. memory' = Partly(image, s.addr, s.data, Len(s.data))
    BY <1>8, <2>1
  <2>5. locals'.seg = 0
    BY <1>12, <1>14
  <2>6. PgzAt(k + 1)' /\ k + 1 \in 0 .. Len(program.segments)
    BY <1>6, <2>2, <2>3, <2>4, <2>5, PgzGoesBehind
  <2> QED BY <1>9, <1>12, <2>6
<1>15. CASE ~SegmentEnds(seg + 1, locals.count)
  <2>1. i + 1 # size
    <3> HIDE DEF i, size
    <3> QED BY <1>11, <1>15
  <2>2. /\ seg + 1 < 2 * w + size /\ seg + 1 >= w /\ seg + 1 > w /\ seg + 1 > 2 * w
        /\ ~(seg + 1 < w) /\ ~(seg + 1 <= w) /\ ~(seg + 1 <= 2 * w) /\ ~(seg + 1 < 2 * w)
        /\ (seg + 1) - 2 * w = i + 1
    <3> HIDE DEF seg, w, size, i
    <3> QED BY <1>1, <1>2, <1>3, <2>1
  <2>3. /\ locals'.seg = seg + 1 /\ locals'.address = s.addr /\ locals'.count = size
        /\ locals'.dest = s.addr + (i + 1)
    BY <1>12, <1>15
  <2>4. k < Len(program.segments) /\ program' = program
    BY <1>6
  <2>5. (IF seg + 1 < 2 * w THEN 0 ELSE (seg + 1) - 2 * w) = i + 1
    BY <2>2
  <2>6. InPgzSegment(k)'
    <3> HIDE DEF i, seg
    <3> QED BY <1>8, <2>2, <2>3, <2>4, <2>5 DEF InPgzSegment
  <2>7. locals.seg \in Nat /\ locals'.seg = locals.seg + 1
    BY <1>2, <2>3
  <2>8. PgzAt(k)'
    BY <1>1, <1>6, <2>6, <2>7, PgzGoesOn
  <2> QED BY <1>9, <1>12, <2>8
<1> QED
  BY <1>14, <1>15

(* A byte of a segment: the loader is one place further in it, or behind   *)
(* it.                                                                     *)
LEMMA PgzSegmentStep ==
  ASSUME PgzLoads, PgzReading, memory \in [Memory -> Byte], locals.idx # 0, chunk # <<>>,
         PgzAddress(Head(chunk)) \/ PgzSize(Head(chunk)) \/ PgzData(Head(chunk)),
         UNCHANGED <<request, file, failed>>
  PROVE  /\ LocalsType' /\ memory' \in [Memory -> Byte] /\ load' = load
         /\ chunk' = Tail(chunk) /\ PgzReading'
<1>1. PICK k \in 0 .. Len(program.segments) - 1 :
        LET s == program.segments[k + 1]
            w == program.width
            seg == locals.seg
        IN /\ PgzAt(k)
           /\ seg \in 0 .. 2 * w + Len(s.data) - 1
           /\ Head(chunk) = Encoded(s, w)[seg + 1]
           /\ memory = Partly(Images(program)[k], s.addr, s.data, Done(w, seg))
  BY PgzByteIs
<1>2. InSegment(k) /\ program.sound /\ locals.width = program.width
  BY <1>1 DEF InSegment, PgzReading
<1>3. program' = program /\ chunk' = Tail(chunk)
  BY DEF request, PgzAddress, PgzSize, PgzData, NextByte
<1>4. Place' = Place + 1
  BY <1>3, PlaceMoves DEF request
<1>5. /\ PgzAt(k)' \/ (PgzAt(k + 1)' /\ k + 1 \in 0 .. Len(program.segments))
      /\ LocalsType' /\ memory' \in [Memory -> Byte]
      /\ locals'.idx = locals.idx /\ locals'.width = locals.width /\ load' = load
  <2>1. CASE PgzAddress(Head(chunk))
    BY <1>2, <1>4, <2>1, PgzAddressStep
  <2>2. CASE PgzSize(Head(chunk))
    BY <1>2, <1>4, <2>2, PgzSizeStep
  <2>3. CASE PgzData(Head(chunk))
    BY <1>2, <1>4, <2>3, PgzDataStep
  <2> QED BY <2>1, <2>2, <2>3
<1>6. k \in 0 .. Len(program.segments) /\ k + 1 \in 0 .. Len(program.segments)
  BY ProgramIs DEF PgzLoads
<1>7. \E j \in 0 .. Len(program.segments) : PgzAt(j)'
  BY <1>5, <1>6
<1>8. PgzReading'
  BY <1>2, <1>3, <1>5, <1>7 DEF PgzReading
<1> QED
  BY <1>3, <1>5, <1>8

(* The file is refused for its signature, or its segments follow.          *)
LEMMA PgzSignatureStep ==
  ASSUME PgzLoads, PgzReading, chunk # <<>>, locals.idx = 0,
         PgzSignature(Head(chunk)), UNCHANGED <<request, file, failed>>
  PROVE  /\ LocalsType' /\ memory' = memory
         /\ \/ load' = load /\ chunk' = Tail(chunk) /\ PgzReading'
            \/ /\ ~program.sound /\ load' \in {"loaded", "refused"} /\ chunk' = <<>>
<1> DEFINE b == Head(chunk)
           n == Len(program.segments)
<1>0. /\ program \in Programs /\ program.format = "PGZ" /\ program' = program /\ LocalsType
      /\ destination' = destination
  BY DEF PgzLoads, request
<1>1. /\ program.segments \in Seq(SegmentType) /\ program.width \in 1 .. Wide
      /\ program.width \in {Narrow, Wide} /\ n \in Nat
  BY <1>0, ProgramIs, PgzProgramIs
<1>2. Place = 0 /\ memory = Blank /\ start = 0 /\ locals.seg = 0
  BY DEF PgzReading
<1>3. Whole = PgzFile(program) /\ b = Whole[Place + 1]
  BY WholePgz
<1>4. b = Signature(program)
  <2>1. 0 + 1 = 1
    OBVIOUS
  <2> QED BY <1>1, <1>2, <1>3, <2>1, PgzFileIs
<1>5. /\ program.sound => b = IF program.width = Wide THEN SIGNATURE_z ELSE SIGNATURE_Z
      /\ ~program.sound => b = BAD_SIGNATURE
  BY <1>0, <1>4 DEF Signature
<1>6. /\ SIGNATURE_z # SIGNATURE_Z /\ BAD_SIGNATURE # SIGNATURE_Z /\ BAD_SIGNATURE # SIGNATURE_z
  BY LoaderSizes DEF SIGNATURE_z, SIGNATURE_Z, BAD_SIGNATURE
<1>7. CASE b \in {SIGNATURE_Z, SIGNATURE_z}
  <2>1. /\ locals' = [locals EXCEPT !.idx = 1,
                                    !.width = IF b = SIGNATURE_Z THEN Narrow ELSE Wide]
        /\ chunk' = Tail(chunk) /\ load' = load /\ start' = start /\ memory' = memory
    BY <1>7 DEF PgzSignature
  <2>2. program.sound
    BY <1>5, <1>6, <1>7
  <2>3. (IF b = SIGNATURE_Z THEN Narrow ELSE Wide) = program.width
    BY <1>1, <1>5, <1>6, <2>2
  <2>4. /\ LocalsType' /\ locals'.idx = 1 /\ locals'.width = program.width /\ locals'.seg = 0
    <3> HIDE DEF b
    <3>1. locals' = [locals EXCEPT !.idx = 1, !.width = program.width]
      BY <2>1, <2>3
    <3> QED BY <1>0, <1>1, <1>2, <3>1 DEF LocalsType
  <2>5. Place' = 0 + 1
    BY <1>2, <2>1, PlaceMoves DEF request
  <2>6. PgzAt(0)'
    <3>1. Len(PgzFiles(program)[0]) = 1
      BY <1>1, PgzFileIs
    <3>2. Images(program)[0] = Blank
      BY <1>1, ImagesIs
    <3>3. StartSegments(program, 0) = {}
      BY DEF StartSegments
    <3>4. StartsAt(program, 0, 0)
      BY <3>3 DEF StartsAt
    <3>5. /\ Place' = 1 + 0 /\ locals'.seg = 0 /\ start' = 0 /\ memory' = Blank /\ program' = program
      BY <1>0, <1>2, <2>1, <2>4, <2>5
    <3> QED BY <3>1, <3>2, <3>4, <3>5 DEF PgzAt
  <2>7. 0 \in 0 .. Len(program.segments)
    BY <1>1
  <2>8. PgzReading'
    BY <1>0, <2>2, <2>4, <2>6, <2>7 DEF PgzReading
  <2> QED BY <2>1, <2>4, <2>8
<1>8. CASE b \notin {SIGNATURE_Z, SIGNATURE_z}
  <2>1. LoaderReturns(ERR_BAD_BINARY, start) /\ chunk' = <<>> /\ locals' = locals /\ memory' = memory
    BY <1>8 DEF PgzSignature
  <2>2. load' \in {"loaded", "refused"}
    BY <1>2, <2>1 DEF LoaderReturns
  <2>3. ~program.sound
    BY <1>5, <1>8
  <2>4. LocalsType'
    BY <1>0, <2>1 DEF LocalsType
  <2> QED BY <2>1, <2>2, <2>3, <2>4
<1> QED
  BY <1>7, <1>8

(* At the end of the file all segments are behind.                         *)
LEMMA PgzAtEnd ==
  ASSUME PgzLoads, PgzReading, chunk = <<>>, file = <<>>
  PROVE  /\ program.sound /\ memory = Described(program) /\ start = program.entry
         /\ \A i \in DOMAIN program.segments : program.segments[i].kind # "dynamic"
<1> DEFINE n == Len(program.segments)
           L(i) == Len(PgzFiles(program)[i])
<1>0. program \in Programs /\ program.format = "PGZ"
  BY DEF PgzLoads
<1>1. /\ program.segments \in Seq(SegmentType) /\ program.width \in 1 .. Wide /\ n \in Nat
      /\ program.width \in Nat
  BY <1>0, ProgramIs, PgzProgramIs, LoaderSizes
<1>2. Len(chunk) = 0 /\ Len(file) = 0
  OBVIOUS
<1>3. Place = Len(Whole) /\ Place \in Nat /\ Whole = PgzFile(program)
  BY <1>2, WholePgz
<1>4. /\ \A k \in 0 .. n : L(k) \in Nat \ {0} /\ L(k) <= Len(Whole)
      /\ \A k \in 1 .. n : L(k) = L(k - 1) + (2 * program.width + Len(program.segments[k].data))
      /\ \A k \in 0 .. n : L(k) = Len(Whole) => k = n
  BY <1>1, <1>3, PgzFileIs
<1>5. locals.idx # 0
  <2>1. 0 \in 0 .. n
    BY <1>1
  <2>2. Len(Whole) # 0
    BY <1>3, <1>4, <2>1
  <2> QED BY <1>3, <2>2 DEF PgzReading
<1>6. PICK k \in 0 .. n : PgzAt(k)
  BY <1>5 DEF PgzReading
<1>7. /\ Place = L(k) + locals.seg /\ StartsAt(program, k, start)
      /\ locals.seg = 0 => memory = Images(program)[k]
      /\ locals.seg # 0 => InPgzSegment(k)
  BY <1>6 DEF PgzAt
<1>8. locals.seg = 0
  <2> SUFFICES ASSUME locals.seg # 0 PROVE FALSE
    OBVIOUS
  <2> DEFINE size == 2 * program.width + Len(program.segments[k + 1].data)
  <2>1. k < n /\ locals.seg < size
    BY <1>7 DEF InPgzSegment
  <2>2. k + 1 \in 1 .. n /\ (k + 1) - 1 = k /\ k + 1 \in 0 .. n
    BY <1>1, <2>1
  <2>3. L(k + 1) = L(k) + size
    <3> HIDE DEF L
    <3>1. L(k + 1) = L((k + 1) - 1) + size
      BY <1>4, <2>2
    <3> QED BY <2>2, <3>1
  <2>4. L(k) \in Nat /\ L(k + 1) <= Len(Whole) /\ locals.seg \in Nat /\ Len(Whole) \in Nat
    BY <1>3, <1>4, <2>2 DEF PgzLoads, LocalsType
  <2>5. size \in Nat
    <3> DEFINE data == Len(program.segments[k + 1].data)
               w == program.width
    <3>1. data \in Nat /\ w \in Nat
      BY <1>0, <1>1, <2>2, ProgramIs
    <3> HIDE DEF data, w
    <3>2. 2 * w + data \in Nat
      BY <3>1
    <3> QED BY <3>2 DEF data, w
  <2>6. Len(Whole) = L(k) + locals.seg
    BY <1>3, <1>7
  <2> HIDE DEF L, size
  <2> QED BY <2>1, <2>3, <2>4, <2>5, <2>6
<1>9. k = n
  <2>1. L(k) \in Nat
    BY <1>4
  <2>2. L(k) = Len(Whole)
    BY <1>3, <1>7, <1>8, <2>1
  <2> HIDE DEF L, n
  <2> QED BY <1>4, <2>2
<1>10. program.sound
  BY <1>5 DEF PgzReading
<1>11. memory = Described(program)
  BY <1>7, <1>8, <1>9 DEF Described
<1>12. start = program.entry
  <2>1. StartsAt(program, n, program.entry)
    BY <1>0, <1>10, PgzProgramIs
  <2> QED BY <1>1, <1>7, <1>9, <2>1, StartIsOne
<1>13. \A i \in DOMAIN program.segments : program.segments[i].kind # "dynamic"
  <2>1. DOMAIN program.segments = 1 .. n
    BY <1>1
  <2>2. \A i \in 1 .. n : IsLoaded(program.segments[i])
    BY <1>0, PgzProgramIs
  <2> QED BY <2>1, <2>2 DEF IsLoaded
<1> QED
  BY <1>10, <1>11, <1>12, <1>13

-----------------------------------------------------------------------------
(* A PGX file is its signature, its address from the high byte, and data.  *)
LEMMA PgxProgramIs ==
  ASSUME NEW p \in Programs, p.format = "PGX"
  PROVE  LET s == p.segments[1]
             size == Len(s.data)
             whole == Contents(p)
         IN /\ Len(p.segments) = 1
            /\ p.segments \in Seq(SegmentType)
            /\ s \in SegmentType /\ s.addr \in Nat /\ s.data \in Seq(Byte) /\ size \in Nat
            /\ IsLoaded(s) /\ s.zeros = 0 /\ s.addr < Power[Wide]
            /\ s.addr + size <= MemorySize
            /\ p.sound => p.entry = s.addr
            /\ whole \in Seq(Nat) /\ Len(whole) = 1 + Wide + size
            /\ whole[1] = Signature(p)
            /\ \A i \in 1 .. Wide : whole[1 + i] = (s.addr \div Power[Wide - i]) % Base
            /\ \A i \in 1 .. size : whole[1 + Wide + i] = s.data[i]
<1> DEFINE s == p.segments[1]
           d == s.data
           size == Len(d)
           digits == Digits(s.addr, Wide)
           r == Reverse(digits)
           one == <<Signature(p)>>
           front == Joined(one, r)
           whole == Joined(front, d)
<1>1. IsProgram(p)
  BY ProgramAssumption
<1>2. /\ Len(p.segments) = 1 /\ Fits(s, Wide) /\ (p.sound => p.entry = s.addr)
  BY <1>1 DEF IsProgram
<1>3. 1 \in 1 .. Len(p.segments)
  BY <1>2
<1>4. /\ p.segments \in Seq(SegmentType)
      /\ s \in SegmentType /\ s.addr \in Nat /\ d \in Seq(Byte) /\ size \in Nat
      /\ IsLoaded(s) => InMemory(s)
  BY <1>3, ProgramIs
<1>5. IsLoaded(s) /\ s.zeros = 0 /\ s.addr < Power[Wide]
  BY <1>2 DEF Fits
<1>6. s.addr + size <= MemorySize
  <2> DEFINE a == s.addr
  <2>1. a + size + 0 <= MemorySize /\ a \in Nat /\ size \in Nat
    BY <1>4, <1>5 DEF InMemory
  <2> HIDE DEF a, size
  <2>2. a + size <= MemorySize
    BY <2>1
  <2> QED BY <2>2 DEF a
<1>7. Wide \in Nat /\ Wide \in 1 .. Wide
  BY LoaderSizes
<1>8. /\ digits \in Seq(Byte) /\ Len(digits) = Wide
      /\ \A i \in 1 .. Wide : digits[i] = (s.addr \div Power[i - 1]) % Base
  BY <1>4, <1>7, DigitsIs
<1>9. /\ r \in Seq(Nat) /\ Len(r) = Wide
      /\ \A i \in 1 .. Wide : r[i] = (s.addr \div Power[Wide - i]) % Base
  <2> HIDE DEF digits
  <2>1. r = [i \in 1 .. Wide |-> digits[(Wide - i) + 1]]
    BY <1>8 DEF Reverse
  <2>2. \A i \in 1 .. Wide : (Wide - i) + 1 \in 1 .. Wide /\ ((Wide - i) + 1) - 1 = Wide - i
    BY <1>7
  <2>3. \A i \in 1 .. Wide : digits[(Wide - i) + 1] \in Nat
    <3> SUFFICES ASSUME NEW i \in 1 .. Wide PROVE digits[(Wide - i) + 1] \in Nat
      OBVIOUS
    <3> DEFINE j == (Wide - i) + 1
    <3>1. j \in 1 .. Len(digits) /\ digits \in Seq(Byte)
      BY <1>8, <2>2
    <3> HIDE DEF j
    <3>2. digits[j] \in Byte
      BY <3>1
    <3> QED BY <3>2 DEF j, Byte
  <2> HIDE DEF s
  <2>4. \A i \in 1 .. Wide : r[i] = (s.addr \div Power[Wide - i]) % Base
    <3> SUFFICES ASSUME NEW i \in 1 .. Wide
                 PROVE  r[i] = (s.addr \div Power[Wide - i]) % Base
      OBVIOUS
    <3>1. r[i] = digits[(Wide - i) + 1]
      BY <2>1
    <3> HIDE DEF r
    <3>2. digits[(Wide - i) + 1] = (s.addr \div Power[((Wide - i) + 1) - 1]) % Base
      BY <1>8, <2>2
    <3> QED BY <2>2, <3>1, <3>2
  <2> HIDE DEF r
  <2> QED BY <1>7, <2>1, <2>3, <2>4
<1>10. one \in Seq(Nat) /\ Len(one) = 1 /\ one[1] = Signature(p)
  <2>1. Signature(p) \in Nat
    BY LoaderSizes DEF Signature, SIGNATURE_PGX, SIGNATURE_Z, SIGNATURE_z, BAD_SIGNATURE
  <2> QED BY <2>1
<1>11. d \in Seq(Nat)
  <2>1. Byte \subseteq Nat
    BY DEF Byte
  <2> HIDE DEF d
  <2> QED BY <1>4, <2>1, SeqMonotonic
<1> HIDE DEF one, r, d
<1>12. one \in Seq(Nat) /\ r \in Seq(Nat)
  BY <1>9, <1>10
<1>13. /\ front \in Seq(Nat) /\ Len(front) = Len(one) + Len(r)
  BY <1>12, JoinedIs, Zenon
<1>14. \A i \in 1 .. Len(one) : front[i] = one[i]
  BY <1>12, JoinedIs, Zenon
<1>15. \A i \in 1 .. Len(r) : front[Len(one) + i] = r[i]
  BY <1>12, JoinedBehind, Zenon
<1> HIDE DEF front
<1>16. /\ whole \in Seq(Nat) /\ Len(whole) = Len(front) + Len(d)
  BY <1>11, <1>13, JoinedIs, Zenon
<1>17. \A i \in 1 .. Len(front) : whole[i] = front[i]
  BY <1>11, <1>13, JoinedIs, Zenon
<1>18. \A i \in 1 .. Len(d) : whole[Len(front) + i] = d[i]
  BY <1>11, <1>13, JoinedBehind, Zenon
<1>19. Contents(p) = whole
  BY Zenon DEF Contents, PgxFile, whole, front, Joined, one, r, digits, s, d
<1> HIDE DEF whole
<1>20. Len(front) = 1 + Wide /\ Len(whole) = 1 + Wide + size
  BY <1>7, <1>9, <1>10, <1>13, <1>16
<1>21. whole[1] = Signature(p)
  <2>1. 1 \in 1 .. Len(one) /\ 1 \in 1 .. Len(front)
    BY <1>7, <1>10, <1>20
  <2> QED BY <1>10, <1>14, <1>17, <2>1
<1>22. \A i \in 1 .. Wide : whole[1 + i] = r[i]
  <2>1. \A i \in 1 .. Wide : 1 + i \in 1 .. Len(front) /\ i \in 1 .. Len(r)
    BY <1>7, <1>9, <1>20
  <2> QED BY <1>10, <1>15, <1>17, <2>1
<1>23. \A i \in 1 .. size : whole[1 + Wide + i] = d[i]
  BY <1>18, <1>20
<1> HIDE DEF s
<1> QED
  BY <1>2, <1>4, <1>5, <1>6, <1>9, <1>16, <1>19, <1>20, <1>21, <1>22, <1>23 DEF s, d

(* What a file consists of.                                                *)
LEMMA WholeIs ==
  ASSUME NEW p \in Programs
  PROVE  \E S : Contents(p) \in Seq(S)
<1>1. CASE p.format = "PGZ"
  <2>1. Contents(p) = PgzFile(p) /\ p.width \in 1 .. Wide /\ p.segments \in Seq(SegmentType)
    BY <1>1, PgzProgramIs, ProgramIs
  <2> QED BY <2>1, PgzFileIs
<1>2. CASE p.format = "PGX"
  BY <1>2, PgxProgramIs
<1>3. CASE p.format = "ELF"
  <2>1. p.segments \in Seq(SegmentType)
    BY ProgramIs
  <2> QED BY <1>3, <2>1 DEF Contents
<1>4. CASE p.format \notin {"PGZ", "PGX", "ELF"}
  <2>1. 1 \in 1 .. Len(p.segments)
    BY <1>4, ProgramAssumption DEF IsProgram
  <2>2. p.segments[1].data \in Seq(Byte)
    BY <2>1, ProgramIs
  <2> QED BY <1>4, <2>2 DEF Contents
<1> QED
  BY <1>1, <1>2, <1>3, <1>4

-----------------------------------------------------------------------------
(* What a step of a loader does: it goes on, or ends as it should.         *)
Loads(with) ==
  /\ load = "reading" /\ loader = with
  /\ ReadingRight /\ LocalsType /\ memory \in [Memory -> Byte]

(* A step that leaves a loader reading as it should, or returns from it as *)
(* it should.                                                              *)
StepsRight ==
  /\ UNCHANGED request /\ LocalsType' /\ memory' \in [Memory -> Byte]
  /\ \/ load' = "reading" /\ ReadingRight'
     \/ load' \in {"executing", "loaded", "refused"} /\ RunsWholePrograms'

(* What is known of a loader at work.                                      *)
LEMMA LoadsIs ==
  ASSUME NEW with, Loads(with)
  PROVE  /\ load = "reading" /\ loader = with /\ Request /\ program \in Programs
         /\ chunk \in Seq(Values) /\ file \in Seq(Values) /\ Ends(Whole, chunk, file)
         /\ with # "ELF" => ~failed
         /\ LocalsType /\ memory \in [Memory -> Byte]
BY DEF Loads, ReadingRight, Request

(* A step after which the loader still reads.                              *)
LEMMA GoesOn ==
  ASSUME NEW with, Loads(with), load' = load, UNCHANGED request,
         LocalsType', memory' \in [Memory -> Byte],
         chunk' \in Seq(Values), file' \in Seq(Values), Ends(Whole, chunk', file'),
         failed' = failed \/ with = "ELF",
         with = "PGZ" => PgzReading', with = "PGX" => PgxReading',
         with = "ELF" => ElfReading', with = "default" => DefaultReading'
  PROVE  StepsRight
<1>1. /\ program' = program /\ loader' = loader /\ destination' = destination
  BY DEF request
<1>2. load = "reading" /\ loader = with /\ Request /\ with # "none" /\ (with # "ELF" => ~failed)
  BY DEF Loads, ReadingRight
<1>3. Request' /\ Whole' = Whole /\ Values' = Values
  BY <1>1, <1>2 DEF Request, Whole, Values
<1>4. Ends(Whole, chunk, file)' <=> Ends(Whole, chunk', file')
  BY <1>3 DEF Ends
<1>5. ReadingRight'
  BY <1>1, <1>2, <1>3, <1>4 DEF ReadingRight
<1> QED
  BY <1>2, <1>5 DEF StepsRight

(* The program that is executed has a start address.                       *)
LEMMA Ending ==
  ASSUME NEW r, NEW s, LoaderReturns(r, s)
  PROVE  /\ load' \in {"executing", "loaded", "refused"} /\ start' = s
         /\ load' = "executing" => s # 0
BY DEF LoaderReturns

(* A step with which the loader returns.                                   *)
LEMMA Finishes ==
  ASSUME NEW with \in {"PGZ", "PGX", "ELF"}, Loads(with), UNCHANGED request,
         LocalsType', memory' \in [Memory -> Byte],
         NEW r, NEW s, LoaderReturns(r, s),
         \/ failed'
         \/ Loadable(program) /\ memory' = Described(program) /\ s = program.entry
         \/ ~Loadable(program) /\ s = 0
  PROVE  StepsRight
<1>1. program' = program /\ loader' = with
  BY DEF request, Loads
<1>2. /\ load' \in {"executing", "loaded", "refused"} /\ start' = s
      /\ load' = "executing" => s # 0
  BY Ending
<1>3. Described(program)' = Described(program) /\ Loadable(program)' = Loadable(program)
  BY <1>1
<1>4. RunsWholePrograms'
  <2>1. CASE failed'
    BY <2>1 DEF RunsWholePrograms
  <2>2. CASE Loadable(program) /\ memory' = Described(program) /\ s = program.entry
    BY <1>1, <1>2, <1>3, <2>2 DEF RunsWholePrograms
  <2>3. CASE ~Loadable(program) /\ s = 0
    BY <1>1, <1>2, <1>3, <2>3 DEF RunsWholePrograms
  <2> QED BY <2>1, <2>2, <2>3
<1> QED
  BY <1>2, <1>4 DEF StepsRight

-----------------------------------------------------------------------------
(* A chunk is read, the same for both formats.                             *)
LEMMA PieceIs ==
  ASSUME NEW with, Loads(with), chunk = <<>>, file # <<>>
  PROVE  LET n == IF Len(file) < Chunk THEN Len(file) ELSE Chunk
             c == SubSeq(file, 1, n)
             rest == SubSeq(file, n + 1, Len(file))
         IN /\ Whole \in Seq(Values)
            /\ n \in 0 .. Len(file) /\ n \in Nat
            /\ c \in Seq(Values) /\ rest \in Seq(Values)
            /\ Len(c) = n /\ Len(rest) = Len(file) - n
            /\ Ends(Whole, c, rest) /\ Ends(Whole, <<>>, rest)
            /\ \A i \in 1 .. n : c[i] = Whole[Len(Whole) - Len(file) + i]
            /\ Len(Whole) - Len(c) - Len(rest) = Place
<1> DEFINE n == IF Len(file) < Chunk THEN Len(file) ELSE Chunk
           c == SubSeq(file, 1, n)
           rest == SubSeq(file, n + 1, Len(file))
<1>1. /\ chunk \in Seq(Values) /\ file \in Seq(Values) /\ Ends(Whole, chunk, file)
      /\ program \in Programs /\ Request
  BY LoadsIs
<1>2. Len(file) \in Nat /\ n \in 0 .. Len(file) /\ n \in Nat
  BY <1>1, LoaderSizes
<1>3. Whole \in Seq(Values)
  <2>1. \E S : Whole \in Seq(S)
    BY <1>1, WholeIs DEF Whole
  <2> QED BY <2>1 DEF Values
<1>4. /\ c \in Seq(Values) /\ rest \in Seq(Values)
      /\ Len(c) = n /\ Len(rest) = Len(file) - n
      /\ Ends(Whole, c, rest) /\ Ends(Whole, <<>>, rest)
      /\ \A i \in 1 .. n : c[i] = Whole[Len(Whole) - Len(file) + i]
  <2>1. file \in Seq(Values) /\ Ends(Whole, <<>>, file)
    BY <1>1
  <2> HIDE DEF n
  <2> QED BY <1>2, <1>3, <2>1, EndsRead
<1>5. Len(Whole) - Len(c) - Len(rest) = Place
  <2>1. Len(chunk) = 0 /\ Len(Whole) \in Nat
    BY <1>3
  <2> HIDE DEF n, c, rest
  <2> QED BY <1>2, <1>4, <2>1 DEF Place
<1> QED
  BY <1>2, <1>3, <1>4, <1>5

(* The PGZ loader reads a chunk, or is at the end of the file.             *)
LEMMA PgzReads ==
  ASSUME Loads("PGZ"), ReadChunk
  PROVE  StepsRight
<1>1. /\ PgzLoads /\ PgzReading /\ loader = "PGZ" /\ program \in Programs /\ load = "reading"
      /\ LocalsType /\ memory \in [Memory -> Byte]
  BY DEF Loads, ReadingRight, Request, PgzLoads
<1>2. /\ chunk = <<>> /\ UNCHANGED request /\ locals' = locals /\ memory' = memory
      /\ program' = program
  BY DEF ReadChunk, request
<1>3. LocalsType' /\ memory' \in [Memory -> Byte]
  BY <1>1, <1>2 DEF LocalsType
<1>4. FinalStart = start
  BY <1>1 DEF FinalStart
<1>5. CASE /\ file # <<>>
           /\ LET n == IF Len(file) < Chunk THEN Len(file) ELSE Chunk
              IN  /\ chunk' = SubSeq(file, 1, n)
                  /\ file' = SubSeq(file, n + 1, Len(file))
           /\ UNCHANGED <<load, start, result, failed>>
  <2>1. /\ chunk' \in Seq(Values) /\ file' \in Seq(Values) /\ Ends(Whole, chunk', file')
        /\ Len(Whole) - Len(chunk') - Len(file') = Place
    BY <1>2, <1>5, PieceIs
  <2>2. Place' = Place
    <3>1. Whole' = Whole
      BY <1>2 DEF Whole
    <3> QED BY <2>1, <3>1 DEF Place
  <2>3. start' = start /\ load' = load /\ failed' = failed
    BY <1>5
  <2>4. PgzReading'
    BY <1>1, <1>2, <2>2, <2>3 DEF PgzReading, PgzAt, InPgzSegment
  <2> QED
    BY <1>2, <1>3, <2>1, <2>3, <2>4, GoesOn
<1>6. CASE /\ file = <<>>
           /\ LoaderReturns(OK, FinalStart)
           /\ UNCHANGED <<file, chunk, failed>>
  <2>1. /\ program.sound /\ memory = Described(program) /\ start = program.entry
        /\ \A i \in DOMAIN program.segments : program.segments[i].kind # "dynamic"
    BY <1>1, <1>2, <1>6, PgzAtEnd
  <2>2. Loadable(program) /\ memory' = Described(program)
    BY <1>2, <2>1 DEF Loadable
  <2> QED
    BY <1>2, <1>3, <1>4, <1>6, <2>1, <2>2, Finishes
<1>7. CASE failed' /\ LoaderReturns(IF loader = "PGX" THEN ERR_READ ELSE OK, FinalStart)
  BY <1>2, <1>3, <1>7, Finishes
<1> QED
  BY <1>5, <1>6, <1>7 DEF ReadChunk

(* It looks at a byte.                                                     *)
LEMMA PgzLooks ==
  ASSUME Loads("PGZ"), PgzByte
  PROVE  StepsRight
<1>1. /\ PgzLoads /\ PgzReading /\ loader = "PGZ" /\ program \in Programs /\ load = "reading"
      /\ LocalsType /\ memory \in [Memory -> Byte] /\ file \in Seq(Values)
  BY DEF Loads, ReadingRight, Request, PgzLoads
<1>2. chunk # <<>> /\ UNCHANGED <<request, file, failed>> /\ program' = program /\ file' = file
      /\ failed' = failed /\ UNCHANGED request
  BY DEF PgzByte, request
<1>3. ASSUME load' = load, chunk' = Tail(chunk), PgzReading', LocalsType',
             memory' \in [Memory -> Byte]
      PROVE  StepsRight
  <2>1. chunk' \in Seq(Values) /\ Ends(Whole, chunk', file)
    BY <1>1, <1>2, <1>3, PlaceMoves
  <2> QED
    BY <1>1, <1>2, <1>3, <2>1, GoesOn
<1>4. CASE PgzSignature(Head(chunk))
  <2>1. locals.idx = 0
    BY <1>4 DEF PgzSignature
  <2>2. /\ LocalsType' /\ memory' = memory
        /\ \/ load' = load /\ chunk' = Tail(chunk) /\ PgzReading'
           \/ ~program.sound /\ load' \in {"loaded", "refused"} /\ chunk' = <<>>
    BY <1>1, <1>2, <1>4, <2>1, PgzSignatureStep
  <2>3. CASE load' = load /\ chunk' = Tail(chunk) /\ PgzReading'
    BY <1>1, <1>3, <2>2, <2>3
  <2>4. CASE ~program.sound /\ load' \in {"loaded", "refused"}
    <3>1. ~Loadable(program)'
      BY <1>2, <2>4 DEF Loadable
    <3>2. RunsWholePrograms'
      BY <2>4, <3>1 DEF RunsWholePrograms
    <3> QED BY <1>1, <1>2, <2>2, <2>4, <3>2 DEF StepsRight
  <2> QED BY <2>2, <2>3, <2>4
<1>5. CASE PgzAddress(Head(chunk)) \/ PgzSize(Head(chunk)) \/ PgzData(Head(chunk))
  <2>1. locals.idx # 0
    BY <1>1, <1>5 DEF PgzAddress, PgzSize, PgzData, LocalsType
  <2> QED
    BY <1>1, <1>2, <1>3, <1>5, <2>1, PgzSegmentStep
<1> QED
  BY <1>4, <1>5 DEF PgzByte

-----------------------------------------------------------------------------
(* The PGX loader. *)

(* One digit more of the address.                                          *)
LEMMA PgxAddressGrows ==
  ASSUME NEW n \in Nat, n < Power[Wide], NEW i \in 1 .. Wide
  PROVE  LET digit == (n \div Power[Wide - i]) % Base
         IN PgxAddress(n, i + 1) = PgxAddress(n, i) * Base + digit
<1> DEFINE digit == (n \div Power[Wide - i]) % Base
           j == Wide - (i - 1)
<1>1. Wide \in Nat /\ i \in Nat /\ j \in 1 .. Wide /\ j - 1 = Wide - i /\ i # 0 /\ ~(i > Wide)
      /\ Wide - ((i + 1) - 1) = j - 1 /\ i + 1 # 0
  BY LoaderSizes
<1>2. n \div Power[j - 1] = (n \div Power[j]) * Base + digit
  <2> HIDE DEF j
  <2>1. n \div Power[j - 1] = (n \div Power[j]) * Base + ((n \div Power[j - 1]) % Base)
    BY <1>1, DigitIs
  <2> QED BY <1>1, <2>1
<1>3. PgxAddress(n, i) = n \div Power[j]
  BY <1>1 DEF PgxAddress
<1>4. PgxAddress(n, i + 1) = n \div Power[j - 1]
  <2>1. CASE i + 1 > Wide
    <3>1. j - 1 = 0
      BY <1>1, <2>1
    <3>2. n \div Power[0] = n
      BY NoDigits
    <3>3. PgxAddress(n, i + 1) = n
      BY <1>1, <2>1 DEF PgxAddress
    <3> HIDE DEF j
    <3> QED BY <3>1, <3>2, <3>3
  <2>2. CASE ~(i + 1 > Wide)
    <3>1. PgxAddress(n, i + 1) = n \div Power[Wide - ((i + 1) - 1)]
      BY <1>1, <2>2 DEF PgxAddress
    <3> HIDE DEF j
    <3> QED BY <1>1, <3>1
  <2> QED BY <2>1, <2>2
<1> QED
  BY <1>2, <1>3, <1>4

(* No digit of it, and all of them.                                        *)
LEMMA PgxAddressStarts ==
  ASSUME NEW n \in Nat, n < Power[Wide]
  PROVE  /\ PgxAddress(n, 0) = 0 /\ PgxAddress(n, 1) = 0
         /\ \A i \in Nat : i > Wide => PgxAddress(n, i) = n
<1>1. Wide \in 0 .. Wide /\ Wide \in Nat /\ Wide > 1 /\ Wide - (1 - 1) = Wide
  BY LoaderSizes
<1>2. n \div Power[Wide] = 0
  BY <1>1, SmallNumbers
<1> QED
  BY <1>1, <1>2 DEF PgxAddress

(* The next byte of a file.                                                *)
LEMMA ByteIs ==
  ASSUME NEW with, Loads(with), chunk # <<>>, UNCHANGED <<request, file>>
  PROVE  /\ Place \in Nat /\ Len(Whole) \in Nat /\ Place < Len(Whole)
         /\ Head(chunk) = Whole[Place + 1]
         /\ chunk' = Tail(chunk) =>
              /\ Place' = Place + 1 /\ chunk' \in Seq(Values)
              /\ Ends(Whole, chunk', file)
<1>1. /\ chunk \in Seq(Values) /\ file \in Seq(Values) /\ Ends(Whole, chunk, file)
      /\ program \in Programs
  BY LoadsIs
<1>2. Whole \in Seq(Values)
  <2>1. \E S : Whole \in Seq(S)
    BY <1>1, WholeIs DEF Whole
  <2> QED BY <2>1 DEF Values
<1>3. /\ Len(Whole) \in Nat /\ Len(chunk) \in Nat \ {0} /\ Len(file) \in Nat
      /\ Len(chunk) + Len(file) <= Len(Whole)
  BY <1>1, <1>2 DEF Ends
<1>4. Head(chunk) = Whole[Place + 1] /\ Ends(Whole, Tail(chunk), file)
      /\ Len(Whole) - Len(Tail(chunk)) - Len(file) = Place + 1
  BY <1>1, <1>2, EndsByte DEF Place
<1>5. Tail(chunk) \in Seq(Values)
  BY <1>1
<1>6. Whole' = Whole /\ file' = file
  BY DEF Whole, request
<1>7. Place \in Nat /\ Place < Len(Whole)
  BY <1>3 DEF Place
<1>8. chunk' = Tail(chunk) =>
        /\ Place' = Place + 1 /\ chunk' \in Seq(Values)
        /\ Ends(Whole, chunk', file)
  <2> SUFFICES ASSUME chunk' = Tail(chunk)
               PROVE  /\ Place' = Place + 1 /\ chunk' \in Seq(Values)
                      /\ Ends(Whole, chunk', file)
    OBVIOUS
  <2>1. Place' = Len(Whole) - Len(Tail(chunk)) - Len(file)
    BY <1>6 DEF Place
  <2> QED BY <1>4, <1>5, <2>1
<1> QED
  BY <1>3, <1>4, <1>7, <1>8

(* The PGX loader reads a chunk, or is at the end of the file.             *)
LEMMA PgxReads ==
  ASSUME Loads("PGX"), ReadChunk
  PROVE  StepsRight
<1>1. /\ PgxReading /\ loader = "PGX" /\ program \in Programs /\ load = "reading"
      /\ LocalsType /\ memory \in [Memory -> Byte] /\ Request
      /\ file \in Seq(Values)
  BY DEF Loads, ReadingRight, Request
<1>2. /\ chunk = <<>> /\ UNCHANGED request /\ locals' = locals /\ memory' = memory
      /\ program' = program /\ program.format = "PGX"
  BY <1>1 DEF ReadChunk, request, Request
<1>3. LocalsType' /\ memory' \in [Memory -> Byte]
  BY <1>1, <1>2 DEF LocalsType
<1>4. FinalStart = locals.address
  BY <1>1 DEF FinalStart
<1>5. CASE /\ file # <<>>
           /\ LET n == IF Len(file) < Chunk THEN Len(file) ELSE Chunk
              IN  /\ chunk' = SubSeq(file, 1, n)
                  /\ file' = SubSeq(file, n + 1, Len(file))
           /\ UNCHANGED <<load, start, result, failed>>
  <2>1. /\ chunk' \in Seq(Values) /\ file' \in Seq(Values) /\ Ends(Whole, chunk', file')
        /\ Len(Whole) - Len(chunk') - Len(file') = Place
    BY <1>2, <1>5, PieceIs
  <2>2. Place' = Place
    <3>1. Whole' = Whole
      BY <1>2 DEF Whole
    <3> QED BY <2>1, <3>1 DEF Place
  <2>3. start' = start /\ load' = load /\ failed' = failed
    BY <1>5
  <2>4. PgxReading'
    BY <1>1, <1>2, <2>2, <2>3 DEF PgxReading
  <2> QED
    BY <1>2, <1>3, <2>1, <2>3, <2>4, GoesOn
<1>6. CASE /\ file = <<>>
           /\ LoaderReturns(OK, FinalStart)
           /\ UNCHANGED <<file, chunk, failed>>
  <2> DEFINE s == program.segments[1]
             size == Len(s.data)
             addr == s.addr
  <2>1. /\ Len(program.segments) = 1 /\ program.segments \in Seq(SegmentType)
        /\ addr \in Nat /\ s.data \in Seq(Byte) /\ size \in Nat
        /\ IsLoaded(s) /\ s.zeros = 0 /\ addr < Power[Wide]
        /\ program.sound => program.entry = addr
        /\ Len(Whole) = 1 + Wide + size
    BY <1>1, <1>2, PgxProgramIs DEF Whole
  <2>2. Place = 1 + Wide + size /\ Wide \in Nat
    <3>1. Len(chunk) = 0 /\ Len(file) = 0
      BY <1>2, <1>6
    <3> HIDE DEF size
    <3> QED BY <2>1, <3>1, LoaderSizes DEF Place
  <2>3. /\ locals.idx = Place /\ locals.address = PgxAddress(addr, locals.idx)
        /\ locals.idx # 0 => program.sound
        /\ memory = Partly(Blank, addr, s.data, PgxStored(locals.idx))
    BY <1>1 DEF PgxReading
  <2>4. locals.idx # 0 /\ locals.idx \in Nat /\ locals.idx > Wide /\ PgxStored(locals.idx) = size
    <3> HIDE DEF size, s
    <3>1. locals.idx # 0 /\ locals.idx \in Nat /\ locals.idx > Wide
      BY <2>1, <2>2, <2>3
    <3>2. PgxStored(locals.idx) = size
      BY <2>1, <2>2, <2>3 DEF PgxStored
    <3> QED BY <3>1, <3>2
  <2>5. locals.address = addr
    <3> HIDE DEF addr
    <3> QED BY <2>1, <2>3, <2>4, PgxAddressStarts
  <2>6. memory = Described(program)
    <3>1. Stored(Blank, s) = Partly(Blank, s.addr, s.data, size)
      BY <2>1, PartlyAll
    <3>2. 1 \in 1 .. Len(program.segments)
      BY <2>1
    <3>3. /\ Images(program)[0] = Blank
          /\ Images(program)[1] = IF IsLoaded(s) THEN Stored(Images(program)[1 - 1], s)
                                  ELSE Images(program)[1 - 1]
      BY <2>1, <3>2, ImagesIs
    <3>4. 1 - 1 = 0
      OBVIOUS
    <3>5. Images(program)[1] = Stored(Blank, s)
      BY <2>1, <3>3, <3>4
    <3> QED BY <2>1, <2>3, <2>4, <3>1, <3>5 DEF Described
  <2>7. Loadable(program)
    <3>1. DOMAIN program.segments = {1}
      BY <2>1
    <3> QED BY <2>1, <2>3, <2>4, <3>1 DEF Loadable, IsLoaded
  <2>8. memory' = Described(program) /\ FinalStart = program.entry
    BY <1>2, <1>4, <2>1, <2>3, <2>4, <2>5, <2>6
  <2> QED
    BY <1>2, <1>3, <1>6, <2>7, <2>8, Finishes
<1>7. CASE failed' /\ LoaderReturns(IF loader = "PGX" THEN ERR_READ ELSE OK, FinalStart)
  BY <1>2, <1>3, <1>7, Finishes
<1> QED
  BY <1>5, <1>6, <1>7 DEF ReadChunk

(* The PGX loader looks at a byte.                                         *)
LEMMA PgxLooks ==
  ASSUME Loads("PGX"), PgxByte
  PROVE  StepsRight
<1> DEFINE s == program.segments[1]
           size == Len(s.data)
           addr == s.addr
           idx == locals.idx
           b == Head(chunk)
<1>1. /\ PgxReading /\ loader = "PGX" /\ program \in Programs /\ load = "reading"
      /\ LocalsType /\ memory \in [Memory -> Byte] /\ Request
      /\ file \in Seq(Values) /\ program.format = "PGX"
  BY DEF Loads, ReadingRight, Request
<1>2. /\ chunk # <<>> /\ UNCHANGED request /\ UNCHANGED <<request, file>> /\ program' = program
      /\ file' = file /\ failed' = failed
      /\ chunk' = IF load' = "reading" THEN Tail(chunk) ELSE <<>>
  BY DEF PgxByte, request
<1>3. /\ Len(program.segments) = 1 /\ s.data \in Seq(Byte)
      /\ addr \in Nat /\ size \in Nat /\ addr < Power[Wide] /\ addr + size <= MemorySize
      /\ Len(Whole) = 1 + Wide + size /\ Whole[1] = Signature(program)
      /\ \A i \in 1 .. Wide : Whole[1 + i] = (addr \div Power[Wide - i]) % Base
      /\ \A i \in 1 .. size : Whole[1 + Wide + i] = s.data[i]
  BY <1>1, PgxProgramIs DEF Whole
<1>4. /\ idx = Place /\ start = 0 /\ (idx # 0 => program.sound)
      /\ locals.address = PgxAddress(addr, idx)
      /\ locals.dest = IF idx > Wide + 1 THEN addr + PgxStored(idx) ELSE 0
      /\ memory = Partly(Blank, addr, s.data, PgxStored(idx))
  BY <1>1 DEF PgxReading
<1>5. /\ idx \in Nat /\ idx < Len(Whole) /\ b = Whole[idx + 1]
      /\ chunk' = Tail(chunk) =>
           /\ Place' = idx + 1 /\ chunk' \in Seq(Values)
           /\ Ends(Whole, chunk', file)
  BY <1>2, <1>4, ByteIs
<1>6. Wide \in Nat /\ Wide > 1 /\ Base \in Nat \ {0} /\ MemorySize \in Nat
  BY LoaderSizes
<1>7. /\ program.sound => Signature(program) = SIGNATURE_PGX
      /\ ~program.sound => Signature(program) # SIGNATURE_PGX
  BY <1>1, <1>6 DEF Signature, SIGNATURE_PGX, BAD_SIGNATURE
<1>8. ASSUME load' = load, start' = start, LocalsType', memory' \in [Memory -> Byte],
             locals'.idx = idx + 1, program.sound,
             locals'.address = PgxAddress(addr, idx + 1),
             locals'.dest = IF idx + 1 > Wide + 1 THEN addr + PgxStored(idx + 1) ELSE 0,
             memory' = Partly(Blank, addr, s.data, PgxStored(idx + 1))
      PROVE  StepsRight
  <2>1. chunk' = Tail(chunk)
    BY <1>1, <1>2, <1>8
  <2>2. Place' = idx + 1 /\ chunk' \in Seq(Values) /\ Ends(Whole, chunk', file)
    BY <1>5, <2>1
  <2>3. program'.segments[1] = s /\ s.addr = addr /\ program'.sound /\ start' = 0
    BY <1>2, <1>4, <1>8
  <2>4. PgxReading'
    <3> HIDE DEF idx, s
    <3> QED BY <1>8, <2>2, <2>3 DEF PgxReading
  <2> QED
    BY <1>1, <1>2, <1>8, <2>2, <2>4, GoesOn
<1>9. CASE /\ idx = 0 /\ b = SIGNATURE_PGX
            /\ locals' = [locals EXCEPT !.idx = 1]
            /\ UNCHANGED <<load, start, result, memory>>
  <2>1. program.sound
    BY <1>3, <1>5, <1>7, <1>9
  <2>2. /\ LocalsType' /\ locals'.idx = 1 /\ locals'.address = locals.address
        /\ locals'.dest = locals.dest /\ memory' = memory /\ load' = load /\ start' = start
    BY <1>1, <1>9 DEF LocalsType
  <2>3. /\ PgxAddress(addr, 0) = 0 /\ PgxAddress(addr, 1) = 0
    <3> HIDE DEF addr
    <3> QED BY <1>3, PgxAddressStarts
  <2>4. PgxStored(0) = 0 /\ PgxStored(1) = 0 /\ ~(0 > Wide + 1) /\ ~(1 > Wide + 1)
    BY <1>6 DEF PgxStored
  <2>5. idx + 1 = 1
    BY <1>9
  <2>6. locals'.address = PgxAddress(addr, 1) /\ locals'.dest = 0
    BY <1>4, <1>9, <2>2, <2>3, <2>4
  <2>7. memory' = Partly(Blank, addr, s.data, PgxStored(1))
    BY <1>4, <1>9, <2>2, <2>4
  <2> HIDE DEF idx, addr, s, b
  <2> QED
    BY <1>1, <1>8, <2>1, <2>2, <2>4, <2>5, <2>6, <2>7
<1>10. CASE /\ idx = 0 /\ b # SIGNATURE_PGX
            /\ LoaderReturns(ERR_BAD_BINARY, 0)
            /\ UNCHANGED <<locals, memory>>
  <2>1. ~Loadable(program)
    BY <1>3, <1>5, <1>7, <1>10 DEF Loadable
  <2>2. LocalsType' /\ memory' \in [Memory -> Byte]
    BY <1>1, <1>10 DEF LocalsType
  <2> QED
    BY <1>2, <1>10, <2>1, <2>2, Finishes
<1>11. CASE /\ idx \in 1 .. Wide
            /\ locals' = [locals EXCEPT !.idx = @ + 1, !.address = @ * Base + b]
            /\ UNCHANGED <<load, start, result, memory>>
  <2> DEFINE digit == (addr \div Power[Wide - idx]) % Base
  <2>1. b = digit /\ program.sound
    <3>1. Whole[1 + idx] = digit /\ idx + 1 = 1 + idx /\ idx # 0
      BY <1>3, <1>5, <1>11
    <3> QED BY <1>4, <1>5, <3>1
  <2>2. PgxAddress(addr, idx + 1) = PgxAddress(addr, idx) * Base + digit
    <3> HIDE DEF addr, idx
    <3> QED BY <1>3, <1>11, PgxAddressGrows
  <2>3. digit \in Int
    <3>1. Wide - idx \in 0 .. Wide
      BY <1>5, <1>6, <1>11
    <3>2. Power[Wide - idx] \in Nat \ {0}
      BY <3>1, PowerIs
    <3> HIDE DEF addr, idx
    <3>3. addr \div Power[Wide - idx] \in Int
      BY <1>3, <3>2
    <3> QED BY <1>6, <3>3
  <2> HIDE DEF digit
  <2>4. /\ locals'.idx = idx + 1 /\ locals'.dest = locals.dest /\ memory' = memory
        /\ locals'.address = locals.address * Base + digit /\ load' = load /\ start' = start
        /\ LocalsType'
    <3> HIDE DEF b
    <3>1. locals.address * Base + digit \in Int /\ locals.idx + 1 \in Nat
      BY <1>1, <1>6, <2>3 DEF LocalsType
    <3>2. locals' = [locals EXCEPT !.idx = locals.idx + 1, !.address = locals.address * Base + digit]
      BY <1>11, <2>1
    <3> QED BY <1>1, <1>11, <3>1, <3>2 DEF LocalsType
  <2>5. PgxStored(idx) = 0 /\ PgxStored(idx + 1) = 0 /\ ~(idx > Wide + 1) /\ ~(idx + 1 > Wide + 1)
    <3> HIDE DEF idx
    <3> QED BY <1>5, <1>6, <1>11 DEF PgxStored
  <2>6. locals'.address = PgxAddress(addr, idx + 1) /\ locals'.dest = 0
    BY <1>4, <2>2, <2>4, <2>5
  <2>7. memory' = Partly(Blank, addr, s.data, PgxStored(idx + 1))
    BY <1>4, <2>4, <2>5
  <2> HIDE DEF idx, addr, s, b
  <2> QED
    BY <1>1, <1>8, <2>1, <2>4, <2>5, <2>6, <2>7
<1>12. CASE /\ idx > Wide
            /\ LET dest == IF idx = Wide + 1 THEN locals.address ELSE locals.dest
               IN  /\ memory' = [memory EXCEPT ![dest] = b]
                   /\ locals' = [locals EXCEPT !.idx = @ + 1, !.dest = dest + 1]
            /\ UNCHANGED <<load, start, result>>
  <2> DEFINE i == idx - Wide - 1
  <2>1. /\ i \in Nat /\ i + 1 \in 1 .. size /\ i \in 0 .. size - 1
        /\ idx + 1 = 1 + Wide + (i + 1) /\ idx # 0
        /\ idx > Wide /\ idx + 1 > Wide /\ idx + 1 \in Nat
        /\ idx + 1 > Wide + 1 /\ (idx = Wide + 1 => i = 0)
    <3>1. idx > Wide /\ idx \in Nat /\ idx < 1 + Wide + size /\ size \in Nat
      BY <1>3, <1>5, <1>12
    <3> HIDE DEF idx, size
    <3> QED BY <1>6, <3>1
  <2>2. PgxStored(idx) = i /\ PgxStored(idx + 1) = i + 1
    <3> HIDE DEF idx
    <3> QED BY <1>5, <1>6, <1>12 DEF PgxStored
  <2>3. b = s.data[i + 1]
    <3> HIDE DEF i, idx, size, s
    <3> QED BY <1>3, <1>5, <2>1
  <2>4. PgxAddress(addr, idx) = addr /\ PgxAddress(addr, idx + 1) = addr
    <3> HIDE DEF i, idx, addr
    <3> QED BY <1>3, <1>5, <2>1, PgxAddressStarts
  <2> DEFINE dest == addr + i
  <2>5. (IF idx = Wide + 1 THEN locals.address ELSE locals.dest) = dest
    <3>1. CASE idx = Wide + 1
      <4> HIDE DEF i, idx, addr
      <4> QED BY <1>3, <1>4, <2>1, <2>4, <3>1
    <3>2. CASE idx # Wide + 1
      <4>1. idx > Wide + 1
        <5> HIDE DEF idx
        <5> QED BY <1>5, <1>6, <1>12, <3>2
      <4> HIDE DEF i, idx, addr
      <4> QED BY <1>4, <2>2, <3>2, <4>1
    <3> QED BY <3>1, <3>2
  <2>6. /\ memory' = [memory EXCEPT ![dest] = b]
        /\ locals' = [locals EXCEPT !.idx = locals.idx + 1, !.dest = dest + 1]
        /\ load' = load /\ start' = start
    BY <1>12, <2>5
  <2>7. dest < MemorySize /\ dest + 1 \in 0 .. MemorySize /\ dest + 1 = addr + (i + 1)
        /\ i + 1 \in 0 .. size
    <3> HIDE DEF i, addr, size
    <3> QED BY <1>3, <1>6, <2>1
  <2> HIDE DEF dest
  <2>8. /\ LocalsType' /\ locals'.idx = idx + 1 /\ locals'.address = locals.address
        /\ locals'.dest = dest + 1
    <3>1. locals.idx + 1 \in Nat
      BY <2>1
    <3>2. dest + 1 \in 0 .. MemorySize
      BY <2>7
    <3> HIDE DEF i
    <3> QED BY <1>1, <2>6, <3>1, <3>2 DEF LocalsType
  <2>9. memory' = Partly(Blank, addr, s.data, i + 1)
    <3> DEFINE bytes == s.data
    <3>1. addr \in Nat /\ i \in Nat /\ addr + i < MemorySize
      BY <1>3, <2>1, <2>7 DEF dest
    <3> HIDE DEF addr, bytes, i
    <3>2. Partly(Blank, addr, bytes, i + 1)
            = [Partly(Blank, addr, bytes, i) EXCEPT ![addr + i] = bytes[i + 1]]
      BY <3>1, PartlyMore
    <3>3. memory = Partly(Blank, addr, bytes, i)
      BY <1>4, <2>2 DEF bytes
    <3>4. memory' = [memory EXCEPT ![addr + i] = bytes[i + 1]]
      BY <2>3, <2>6 DEF bytes, dest
    <3>5. memory' = Partly(Blank, addr, bytes, i + 1)
      BY <3>2, <3>3, <3>4
    <3> QED BY <3>5 DEF bytes
  <2>10. memory' \in [Memory -> Byte]
    <3> HIDE DEF i, addr, s
    <3> QED BY <1>3, <2>7, <2>9, BlankType, PartlyType DEF size
  <2>11. /\ locals'.address = PgxAddress(addr, idx + 1)
         /\ locals'.dest = IF idx + 1 > Wide + 1 THEN addr + PgxStored(idx + 1) ELSE 0
         /\ memory' = Partly(Blank, addr, s.data, PgxStored(idx + 1))
         /\ program.sound
    <3> HIDE DEF i, idx, addr, s
    <3> QED BY <1>4, <2>1, <2>2, <2>4, <2>7, <2>8, <2>9
  <2> HIDE DEF idx, addr, s, b, i
  <2> QED
    BY <1>8, <2>6, <2>8, <2>10, <2>11
<1> QED
  BY <1>9, <1>10, <1>11, <1>12 DEF PgxByte

-----------------------------------------------------------------------------
(* The ELF loader. *)

(* What is known of the ELF loader at work.                                *)
LEMMA ElfIs ==
  ASSUME Loads("ELF")
  PROVE  /\ program \in Programs /\ program.format = "ELF" /\ load = "reading"
         /\ Whole = program.segments /\ Whole \in Seq(SegmentType) /\ Whole \in Seq(Values)
         /\ Len(program.segments) \in Nat /\ chunk = <<>> /\ ElfReading
         /\ file \in Seq(Values) /\ Ends(Whole, <<>>, file)
         /\ Len(file) \in Nat /\ Len(file) <= Len(Whole) /\ Place = Len(Whole) - Len(file)
         /\ Place \in Nat
         /\ LocalsType /\ memory \in [Memory -> Byte]
         /\ locals.header \in SegmentType /\ locals.idx \in Nat
<1>1. /\ program \in Programs /\ program.format = "ELF" /\ load = "reading" /\ ElfReading
      /\ chunk \in Seq(Values) /\ file \in Seq(Values) /\ Ends(Whole, chunk, file)
      /\ LocalsType /\ memory \in [Memory -> Byte]
  BY DEF Loads, ReadingRight, Request
<1>2. chunk = <<>> /\ Len(chunk) = 0
  BY <1>1 DEF ElfReading
<1>3. Whole = program.segments /\ Whole \in Seq(SegmentType) /\ Len(program.segments) \in Nat
  BY <1>1, ProgramIs DEF Whole, Contents
<1>4. Whole \in Seq(Values)
  BY <1>3 DEF Values
<1>5. Ends(Whole, <<>>, file)
  BY <1>1, <1>2
<1>6. Len(file) \in Nat /\ Len(file) <= Len(Whole) /\ Len(Whole) \in Nat
  BY <1>1, <1>3, <1>5 DEF Ends
<1>7. Place = Len(Whole) - Len(file) /\ Place \in Nat
  BY <1>2, <1>6 DEF Place
<1>8. locals.header \in SegmentType /\ locals.idx \in Nat
  BY <1>1 DEF LocalsType
<1> QED
  BY <1>1, <1>2, <1>3, <1>4, <1>5, <1>6, <1>7, <1>8

(* The ELF loader reads the header of the file.                            *)
LEMMA ElfHeaderStep ==
  ASSUME Loads("ELF"), ElfHeader
  PROVE  StepsRight
<1>1. /\ program' = program /\ file' = file /\ chunk' = chunk /\ memory' = memory
      /\ UNCHANGED request /\ locals.idx = 0 /\ failed' \in {failed, TRUE}
  BY DEF ElfHeader, request
<1>2. /\ program \in Programs /\ load = "reading" /\ chunk = <<>> /\ ElfReading
      /\ file \in Seq(Values) /\ Ends(Whole, <<>>, file)
      /\ LocalsType /\ memory \in [Memory -> Byte]
  BY ElfIs
<1>3. CASE /\ program.sound /\ failed' = failed
           /\ locals' = [locals EXCEPT !.idx = 1] /\ UNCHANGED <<load, start, result>>
  <2>1. LocalsType' /\ locals'.idx = 1 /\ locals'.header = locals.header
    BY <1>2, <1>3 DEF LocalsType
  <2>2. Place' = Place /\ Place = 0
    BY <1>1, <1>2 DEF Place, Whole, ElfReading
  <2>3. ElfReading'
    <3>1. 0 = 1 - 1
      OBVIOUS
    <3> QED BY <1>1, <1>2, <1>3, <2>1, <2>2, <3>1 DEF ElfReading
  <2>4. chunk' \in Seq(Values) /\ file' \in Seq(Values) /\ Ends(Whole, chunk', file')
    BY <1>1, <1>2
  <2>5. load' = load
    BY <1>3
  <2> QED
    BY <1>1, <1>2, <2>1, <2>3, <2>4, <2>5, GoesOn
<1>4. CASE /\ ~(program.sound /\ failed' = failed)
           /\ LoaderReturns(ERR_BAD_BINARY, 0) /\ UNCHANGED locals
  <2>1. failed' \/ ~Loadable(program)
    BY <1>1, <1>4 DEF Loadable
  <2>2. LocalsType' /\ memory' \in [Memory -> Byte]
    BY <1>1, <1>2, <1>4 DEF LocalsType
  <2> QED
    BY <1>1, <1>4, <2>1, <2>2, Finishes
<1> QED
  BY <1>3, <1>4 DEF ElfHeader

(* The ELF loader has been through all segments.                           *)
LEMMA ElfEndStep ==
  ASSUME Loads("ELF"), ElfEnd
  PROVE  StepsRight
<1>1. /\ program' = program /\ memory' = memory /\ locals' = locals /\ failed' = failed
      /\ UNCHANGED request /\ locals.idx > 0 /\ file = <<>>
      /\ LoaderReturns(OK, program.entry)
  BY DEF ElfEnd, request
<1>2. /\ program \in Programs /\ load = "reading" /\ ElfReading
      /\ Whole = program.segments /\ Whole \in Seq(SegmentType) /\ Place = Len(Whole) - Len(file)
      /\ LocalsType /\ memory \in [Memory -> Byte] /\ locals.idx \in Nat
      /\ Len(program.segments) \in Nat
  BY ElfIs
<1>3. LocalsType' /\ memory' \in [Memory -> Byte]
  BY <1>1, <1>2 DEF LocalsType
<1>4. Place = Len(program.segments)
  <2>1. Len(file) = 0
    BY <1>1
  <2> QED BY <1>2, <2>1
<1>5. ~failed => Loadable(program) /\ memory' = Described(program)
  <2> SUFFICES ASSUME ~failed PROVE Loadable(program) /\ memory' = Described(program)
    OBVIOUS
  <2>1. /\ memory = Images(program)[Place]
        /\ \A i \in 1 .. Place : program.segments[i].kind # "dynamic"
        /\ program.sound
    BY <1>1, <1>2 DEF ElfReading
  <2>2. DOMAIN program.segments = 1 .. Place
    BY <1>2, <1>4
  <2> QED BY <1>1, <1>4, <2>1, <2>2 DEF Loadable, Described
<1>6. failed' \/ (Loadable(program) /\ memory' = Described(program))
  BY <1>1, <1>5
<1> QED
  BY <1>1, <1>3, <1>6, Finishes

(* What is stored when the bytes of a segment could not be read is what is *)
(* there.                                                                  *)
LEMMA KeptBytes ==
  ASSUME NEW m \in [Memory -> Byte], NEW h \in SegmentType, InMemory(h)
  PROVE  [i \in DOMAIN h.data |-> m[h.addr + i - 1]] \in Seq(Byte)
<1> DEFINE bytes == [i \in DOMAIN h.data |-> m[h.addr + i - 1]]
           size == Len(h.data)
           addr == h.addr
<1>1. h.data \in Seq(Byte) /\ addr \in Nat /\ size \in Nat /\ h.zeros \in Nat
      /\ addr + size + h.zeros <= MemorySize /\ DOMAIN h.data = 1 .. size
  BY DEF SegmentType, InMemory
<1>2. \A i \in 1 .. size : addr + i - 1 \in Memory
  <2> DEFINE zeros == h.zeros
  <2>1. zeros \in Nat /\ addr + size + zeros <= MemorySize /\ MemorySize \in Nat
    BY <1>1, LoaderSizes
  <2> HIDE DEF addr, size, zeros
  <2> QED BY <1>1, <2>1 DEF Memory
<1>3. bytes = [i \in 1 .. size |-> m[addr + i - 1]]
  BY <1>1
<1> HIDE DEF addr, size
<1>4. \A i \in 1 .. size : m[addr + i - 1] \in Byte
  BY <1>2
<1>5. [i \in 1 .. size |-> m[addr + i - 1]] \in Seq(Byte)
  BY <1>1, <1>4
<1> HIDE DEF bytes
<1>6. bytes \in Seq(Byte)
  BY <1>3, <1>5
<1> QED
  BY <1>6 DEF bytes

(* The ELF loader reads a program header and its segment, or fails to.     *)
LEMMA ElfSegmentStep ==
  ASSUME Loads("ELF"), ElfSegment
  PROVE  StepsRight
<1>1. /\ program' = program /\ chunk' = chunk /\ UNCHANGED request /\ locals.idx > 0
      /\ file # <<>> /\ file' = Tail(file)
  BY DEF ElfSegment, request
<1>2. /\ program \in Programs /\ load = "reading" /\ chunk = <<>> /\ ElfReading
      /\ Whole = program.segments /\ Whole \in Seq(SegmentType) /\ Whole \in Seq(Values)
      /\ file \in Seq(Values) /\ Ends(Whole, <<>>, file)
      /\ Len(file) \in Nat /\ Len(file) <= Len(Whole) /\ Place = Len(Whole) - Len(file)
      /\ Place \in Nat /\ Len(program.segments) \in Nat
      /\ LocalsType /\ memory \in [Memory -> Byte]
      /\ locals.header \in SegmentType /\ locals.idx \in Nat
  BY ElfIs
<1>3. /\ file' \in Seq(Values) /\ Ends(Whole, <<>>, file') /\ Len(file') = Len(file) - 1
      /\ Head(file) = Whole[Len(Whole) - Len(file) + 1] /\ Len(file) > 0
  <2>1. /\ Ends(Whole, <<>>, Tail(file))
        /\ Head(file) = Whole[Len(Whole) - Len(file) + 1]
        /\ Len(Tail(file)) = Len(file) - 1
    BY <1>1, <1>2, EndsPiece
  <2>2. Tail(file) \in Seq(Values) /\ Len(file) > 0
    BY <1>1, <1>2
  <2> QED BY <1>1, <2>1, <2>2
<1> DEFINE s == program.segments[Place + 1]
<1>4. Head(file) = s /\ Place + 1 \in 1 .. Len(program.segments) /\ Place' = Place + 1
  <2>1. Head(file) = s
    BY <1>2, <1>3
  <2>2. Place + 1 \in 1 .. Len(program.segments)
    <3>1. Len(Whole) = Len(program.segments)
      BY <1>2
    <3> QED BY <1>2, <1>3, <3>1
  <2>3. Place' = Len(Whole) - Len(chunk) - Len(file')
    BY <1>1 DEF Place, Whole
  <2>4. Len(chunk) = 0
    BY <1>2
  <2>5. Place' = Place + 1
    BY <1>2, <1>3, <2>3, <2>4
  <2> QED BY <2>1, <2>2, <2>5
<1>5. s \in SegmentType /\ (IsLoaded(s) => InMemory(s))
  BY <1>2, <1>4, ProgramIs
<1> HIDE DEF s
<1>6. /\ IsLoaded(locals.header) => InMemory(locals.header)
      /\ Place = locals.idx - 1 /\ program.sound
      /\ ~failed => /\ memory = Images(program)[Place]
                    /\ \A i \in 1 .. Place : program.segments[i].kind # "dynamic"
  <2>1. locals.idx # 0
    BY <1>1
  <2> QED BY <1>2, <2>1 DEF ElfReading
<1>7. PICK header_read \in BOOLEAN, data_read \in BOOLEAN :
        LET header == IF header_read THEN Head(file) ELSE locals.header
        IN  /\ failed' = (failed \/ ~header_read \/ ~data_read)
            /\ data_read \/ header.kind = "load"
            /\ locals' = [locals EXCEPT !.idx = @ + 1, !.header = header]
            /\ \/ /\ header.kind \in {"null", "note"}
                  /\ UNCHANGED <<load, start, result, memory>>
               \/ /\ header.kind = "dynamic"
                  /\ LoaderReturns(ERR_BAD_BINARY, 0)
                  /\ UNCHANGED memory
               \/ /\ header.kind = "load"
                  /\ memory' = LET bytes == [i \in DOMAIN header.data |-> memory[header.addr + i - 1]]
                               IN  Stored(memory, IF data_read THEN header
                                                  ELSE [header EXCEPT !.data = bytes])
                  /\ UNCHANGED <<load, start, result>>
  BY DEF ElfSegment
<1> DEFINE header == IF header_read THEN Head(file) ELSE locals.header
<1>8. /\ header \in SegmentType /\ (IsLoaded(header) => InMemory(header))
      /\ header_read => header = s
  BY <1>2, <1>4, <1>5, <1>6
<1>9. locals' = [locals EXCEPT !.idx = locals.idx + 1, !.header = header]
      /\ failed' = (failed \/ ~header_read \/ ~data_read)
  BY <1>7
<1>10. \/ header.kind \in {"null", "note"} /\ load' = load /\ memory' = memory
       \/ header.kind = "dynamic" /\ LoaderReturns(ERR_BAD_BINARY, 0) /\ memory' = memory
       \/ /\ header.kind = "load" /\ load' = load
          /\ memory' = LET bytes == [i \in DOMAIN header.data |-> memory[header.addr + i - 1]]
                       IN  Stored(memory, IF data_read THEN header
                                          ELSE [header EXCEPT !.data = bytes])
  <2> USE <1>7
  <2> HIDE DEF header
  <2> QED BY Zenon DEF header
<1> HIDE <1>7
<1> HIDE DEF header
<1>11. /\ LocalsType' /\ locals'.idx = locals.idx + 1 /\ locals'.header = header
  <2>1. locals.idx + 1 \in Nat /\ LocalsType /\ header \in SegmentType
    BY <1>2, <1>8
  <2>2. locals' = [locals EXCEPT !.idx = locals.idx + 1, !.header = header]
    BY <1>9
  <2> QED BY <2>1, <2>2 DEF LocalsType
<1>12. ~failed' => ~failed /\ header_read /\ data_read
  BY <1>9
<1>13. chunk' \in Seq(Values) /\ Ends(Whole, chunk', file') /\ chunk' = <<>>
  BY <1>1, <1>2, <1>3
<1>14. /\ (Place + 1) - 1 = Place
       /\ Images(program)[Place + 1] = IF IsLoaded(s) THEN Stored(Images(program)[Place], s)
                                       ELSE Images(program)[Place]
  <2>1. (Place + 1) - 1 = Place
    BY <1>2
  <2>2. program.segments \in Seq(SegmentType)
    BY <1>2
  <2>3. Images(program)[Place + 1] = IF IsLoaded(program.segments[Place + 1])
                                       THEN Stored(Images(program)[(Place + 1) - 1], program.segments[Place + 1])
                                       ELSE Images(program)[(Place + 1) - 1]
    BY <1>4, <2>2, ImagesIs
  <2> QED BY <2>1, <2>3 DEF s
<1>15. ASSUME load' = load, memory' \in [Memory -> Byte], header.kind # "dynamic",
              ~failed' => memory' = Images(program)[Place + 1]
       PROVE  StepsRight
  <2>1. ~failed' => \A i \in 1 .. Place + 1 : program.segments[i].kind # "dynamic"
    <3> SUFFICES ASSUME ~failed', NEW i \in 1 .. Place + 1
                 PROVE  program.segments[i].kind # "dynamic"
      OBVIOUS
    <3>1. CASE i = Place + 1
      BY <1>8, <1>12, <1>15, <3>1 DEF s
    <3>2. CASE i \in 1 .. Place
      BY <1>6, <1>12, <3>2
    <3> QED BY <1>2, <3>1, <3>2
  <2>2. Place + 1 = locals'.idx - 1 /\ locals'.idx # 0
    BY <1>2, <1>6, <1>11
  <2>3. ElfReading'
    <3>1. (Images(program)[Place])' = Images(program)[Place + 1]
      BY <1>1, <1>4
    <3>2. /\ chunk' = <<>> /\ Place' = Place + 1 /\ program' = program
          /\ locals'.header = header
      BY <1>1, <1>4, <1>11, <1>13
    <3> QED BY <1>6, <1>8, <1>15, <2>1, <2>2, <3>1, <3>2 DEF ElfReading
  <2> QED
    BY <1>1, <1>3, <1>11, <1>13, <1>15, <2>3, GoesOn
<1>16. CASE header.kind \in {"null", "note"} /\ load' = load /\ memory' = memory
  <2>1. ~failed' => memory' = Images(program)[Place + 1]
    BY <1>6, <1>8, <1>12, <1>14, <1>16 DEF IsLoaded
  <2> QED
    BY <1>2, <1>15, <1>16, <2>1
<1>17. CASE header.kind = "dynamic" /\ LoaderReturns(ERR_BAD_BINARY, 0) /\ memory' = memory
  <2>1. failed' \/ ~Loadable(program)
    <3>1. DOMAIN program.segments = 1 .. Len(program.segments)
      BY <1>2
    <3>2. header_read => ~Loadable(program)
      BY <1>4, <1>8, <1>17, <3>1 DEF Loadable, s
    <3> QED BY <1>12, <3>2
  <2>2. memory' \in [Memory -> Byte]
    BY <1>2, <1>17
  <2> QED
    BY <1>1, <1>11, <1>17, <2>1, <2>2, Finishes
<1>18. CASE /\ header.kind = "load" /\ load' = load
            /\ memory' = LET bytes == [i \in DOMAIN header.data |-> memory[header.addr + i - 1]]
                         IN  Stored(memory, IF data_read THEN header
                                            ELSE [header EXCEPT !.data = bytes])
  <2> DEFINE bytes == [i \in DOMAIN header.data |-> memory[header.addr + i - 1]]
             what == IF data_read THEN header ELSE [header EXCEPT !.data = bytes]
  <2>1. IsLoaded(header) /\ InMemory(header)
    BY <1>8, <1>18 DEF IsLoaded
  <2>2. bytes \in Seq(Byte)
    BY <1>2, <1>8, <2>1, KeptBytes
  <2>3. memory' = Stored(memory, what)
    BY <1>18
  <2> HIDE DEF bytes
  <2>4. what.data \in Seq(Byte) /\ what.addr \in Int /\ (data_read => what = header)
    BY <1>8, <2>2 DEF SegmentType
  <2> HIDE DEF what
  <2>5. memory' \in [Memory -> Byte]
    BY <1>2, <2>3, <2>4, StoredType
  <2>6. ~failed' => memory' = Images(program)[Place + 1]
    BY <1>6, <1>8, <1>12, <1>14, <2>1, <2>3, <2>4
  <2> QED
    BY <1>15, <1>18, <2>5, <2>6
<1> QED
  BY <1>10, <1>16, <1>17, <1>18

-----------------------------------------------------------------------------
(* The default loader. *)

(* What is known of the default loader at work.                            *)
LEMMA DefaultIsRead ==
  ASSUME Loads("default")
  PROVE  /\ program \in Programs /\ load = "reading" /\ destination \in Nat \ {0}
         /\ Whole \in Seq(Byte) /\ destination + Len(Whole) <= MemorySize
         /\ Len(Whole) \in Nat /\ chunk = <<>> /\ DefaultReading
         /\ file \in Seq(Values) /\ Ends(Whole, <<>>, file)
         /\ Len(file) \in Nat /\ Len(file) <= Len(Whole) /\ Place = Len(Whole) - Len(file)
         /\ Place \in Nat /\ Whole = Contents(program)
         /\ LocalsType /\ memory \in [Memory -> Byte]
<1>1. /\ program \in Programs /\ program.format \notin {"PGZ", "PGX", "ELF"}
      /\ destination \in Destinations /\ load = "reading" /\ DefaultReading
      /\ chunk \in Seq(Values) /\ file \in Seq(Values) /\ Ends(Whole, chunk, file)
      /\ LocalsType /\ memory \in [Memory -> Byte]
  BY DEF Loads, ReadingRight, Request
<1>2. chunk = <<>> /\ Len(chunk) = 0
  BY <1>1 DEF DefaultReading
<1>3. destination \in Nat \ {0}
  BY <1>1, LoaderAssumption DEF Memory
<1>4. /\ Len(program.segments) = 1 /\ destination + Len(program.segments[1].data) <= MemorySize
  BY <1>1, ProgramAssumption DEF IsProgram
<1>5. Whole = program.segments[1].data /\ Whole = Contents(program)
  BY <1>1 DEF Whole, Contents
<1>6. Whole \in Seq(Byte) /\ Len(Whole) \in Nat
  <2>1. 1 \in 1 .. Len(program.segments)
    BY <1>4
  <2> QED BY <1>1, <1>5, <2>1, ProgramIs
<1>7. Ends(Whole, <<>>, file)
  BY <1>1, <1>2
<1>8. Len(file) \in Nat /\ Len(file) <= Len(Whole)
  BY <1>1, <1>6, <1>7 DEF Ends
<1>9. Place = Len(Whole) - Len(file) /\ Place \in Nat
  BY <1>2, <1>6, <1>8 DEF Place
<1> QED
  BY <1>1, <1>2, <1>3, <1>4, <1>5, <1>6, <1>7, <1>8, <1>9

(* The default loader reads a chunk, is at the end of the file, or fails.  *)
LEMMA DefaultSteps ==
  ASSUME Loads("default"), DefaultChunk
  PROVE  StepsRight
<1>1. /\ program' = program /\ chunk' = chunk /\ UNCHANGED request /\ destination' = destination
      /\ loader' = loader
  BY DEF DefaultChunk, request
<1>2. /\ program \in Programs /\ load = "reading" /\ destination \in Nat \ {0}
      /\ Whole \in Seq(Byte) /\ destination + Len(Whole) <= MemorySize
      /\ Len(Whole) \in Nat /\ chunk = <<>> /\ DefaultReading
      /\ file \in Seq(Values) /\ Ends(Whole, <<>>, file)
      /\ Len(file) \in Nat /\ Len(file) <= Len(Whole) /\ Place = Len(Whole) - Len(file)
      /\ Place \in Nat /\ Whole = Contents(program)
      /\ LocalsType /\ memory \in [Memory -> Byte]
  BY DefaultIsRead
<1>3. locals.dest = destination + Place /\ memory = Partly(Blank, destination, Whole, Place)
  BY <1>2 DEF DefaultReading
<1>4. CASE /\ file # <<>>
           /\ LET n == IF Len(file) < Chunk THEN Len(file) ELSE Chunk
              IN  /\ memory' = Stored(memory, [addr |-> locals.dest, data |-> SubSeq(file, 1, n), zeros |-> 0])
                  /\ locals' = [locals EXCEPT !.dest = @ + n]
                  /\ file' = SubSeq(file, n + 1, Len(file))
           /\ UNCHANGED <<load, start, result, failed>>
  <2> DEFINE n == IF Len(file) < Chunk THEN Len(file) ELSE Chunk
             c == SubSeq(file, 1, n)
             rest == SubSeq(file, n + 1, Len(file))
             s == [addr |-> locals.dest, data |-> c, zeros |-> 0]
  <2>1. /\ n \in 0 .. Len(file) /\ n \in Nat
        /\ c \in Seq(Values) /\ rest \in Seq(Values)
        /\ Len(c) = n /\ Len(rest) = Len(file) - n
        /\ Ends(Whole, c, rest) /\ Ends(Whole, <<>>, rest)
        /\ \A i \in 1 .. n : c[i] = Whole[Len(Whole) - Len(file) + i]
    BY <1>2, <1>4, PieceIs
  <2>2. /\ memory' = Stored(memory, s) /\ locals' = [locals EXCEPT !.dest = locals.dest + n]
        /\ file' = rest /\ load' = load /\ failed' = failed
    BY <1>4
  <2> HIDE DEF n, c, rest
  <2>3. /\ s.addr = destination + Place /\ s.zeros = 0 /\ Len(s.data) = n
        /\ \A i \in 1 .. n : s.data[i] = Whole[Place + i]
    BY <1>2, <1>3, <2>1
  <2> HIDE DEF s
  <2>4. memory' = Partly(Blank, destination, Whole, Place + n)
    <3>1. Stored(Partly(Blank, destination, Whole, Place), s)
            = Partly(Blank, destination, Whole, Place + n)
      <4>1. destination \in Nat /\ Place \in Nat /\ n \in Nat
        BY <1>2, <2>1
      <4>2. \A i \in 1 .. n : s.data[i] = Whole[Place + i]
        BY <2>3
      <4>3. s.addr = destination + Place /\ s.zeros = 0 /\ Len(s.data) = n
        BY <2>3
      <4>4. GrowsBy(Blank, destination, Whole, Place, s, n)
        BY <4>1, <4>2, <4>3, PartlyChunk
      <4> QED BY <4>4, Zenon DEF GrowsBy
    <3> QED BY <1>3, <2>2, <3>1
  <2>5. /\ Place + n \in 0 .. Len(Whole)
        /\ locals.dest + n = destination + (Place + n)
        /\ locals.dest + n \in 0 .. MemorySize
    BY <1>2, <1>3, <2>1, LoaderSizes
  <2>6. memory' \in [Memory -> Byte]
    BY <1>2, <2>4, <2>5, BlankType, PartlyType
  <2>7. LocalsType' /\ locals'.dest = destination + (Place + n)
    BY <1>2, <2>2, <2>5 DEF LocalsType
  <2>8. Place' = Place + n /\ Whole' = Whole
    <3>1. Whole' = Whole
      BY <1>1 DEF Whole
    <3>2. Len(chunk') = 0
      BY <1>1, <1>2
    <3>3. Place' = Len(Whole) - 0 - Len(rest)
      BY <2>2, <3>1, <3>2 DEF Place
    <3> QED BY <1>2, <2>1, <3>1, <3>3
  <2>9. DefaultReading'
    BY <1>1, <1>2, <2>4, <2>7, <2>8 DEF DefaultReading
  <2>10. chunk' \in Seq(Values) /\ file' \in Seq(Values) /\ Ends(Whole, chunk', file')
    BY <1>1, <1>2, <2>1, <2>2
  <2> QED
    BY <1>1, <2>2, <2>6, <2>7, <2>9, <2>10, GoesOn
<1>5. ASSUME UNCHANGED <<locals, memory>>, NEW r, LoaderReturns(r, 0),
             failed' \/ file = <<>>
      PROVE  StepsRight
  <2>1. load' = "loaded" /\ LocalsType' /\ memory' \in [Memory -> Byte]
    BY <1>2, <1>5 DEF LoaderReturns, LocalsType
  <2>2. file = <<>> => memory' = Stored(Blank, [addr |-> destination, data |-> Whole, zeros |-> 0])
    <3> SUFFICES ASSUME file = <<>>
                 PROVE  memory' = Stored(Blank, [addr |-> destination, data |-> Whole, zeros |-> 0])
      OBVIOUS
    <3>1. Len(file) = 0
      OBVIOUS
    <3>2. Place = Len(Whole)
      BY <1>2, <3>1
    <3> DEFINE s == [addr |-> destination, data |-> Whole, zeros |-> 0]
    <3>3. s.addr = destination /\ s.data = Whole /\ s.zeros = 0
      OBVIOUS
    <3> HIDE DEF s
    <3>4. Stored(Blank, s) = Partly(Blank, destination, Whole, Len(Whole))
      BY <1>2, <3>3, PartlyAll
    <3>5. memory' = Stored(Blank, s)
      BY <1>3, <1>5, <3>2, <3>4
    <3> QED BY <3>5 DEF s
  <2>3. loader' = "default" /\ Contents(program)' = Whole
    BY <1>1, <1>2, LoadsIs
  <2>4. RunsWholePrograms'
    <3>1. CASE failed'
      BY <3>1 DEF RunsWholePrograms
    <3>2. CASE file = <<>>
      BY <1>1, <2>1, <2>2, <2>3, <3>2 DEF RunsWholePrograms
    <3> QED BY <1>5, <3>1, <3>2
  <2> QED
    BY <1>1, <2>1, <2>4 DEF StepsRight
<1>6. CASE /\ file = <<>>
           /\ LoaderReturns(OK, 0)
           /\ UNCHANGED <<file, locals, memory, failed>>
  BY <1>5, <1>6
<1>7. CASE /\ failed' = TRUE
           /\ LoaderReturns(ERR_READ, 0)
           /\ UNCHANGED <<file, locals, memory>>
  BY <1>5, <1>7
<1> QED
  BY <1>4, <1>6, <1>7 DEF DefaultChunk

(* A loader of the program's own does what it likes.                       *)
LEMMA UserSteps ==
  ASSUME Loads("user"), UserLoads
  PROVE  StepsRight
<1>1. /\ UNCHANGED request /\ loader' = loader /\ locals' = locals /\ memory' = memory
  BY DEF UserLoads, request
<1>2. loader = "user" /\ LocalsType /\ memory \in [Memory -> Byte]
  BY LoadsIs
<1>3. load' \in {"executing", "loaded", "refused"}
  BY DEF UserLoads, LoaderReturns
<1>4. LocalsType' /\ memory' \in [Memory -> Byte]
  BY <1>1, <1>2 DEF LocalsType
<1>5. RunsWholePrograms'
  BY <1>1, <1>2 DEF RunsWholePrograms
<1> QED
  BY <1>1, <1>3, <1>4, <1>5 DEF StepsRight

-----------------------------------------------------------------------------
(* Any step of a loader.                                                   *)
LEMMA LoaderStepsRight ==
  ASSUME ReadingRight, LocalsType, memory \in [Memory -> Byte], LoaderStep
  PROVE  StepsRight
<1>1. load = "reading"
  BY DEF LoaderStep, ReadChunk, PgzByte, PgxByte, ElfHeader, ElfSegment, ElfEnd, DefaultChunk,
         UserLoads, Reading
<1>2. \A with : loader = with => Loads(with)
  BY <1>1 DEF Loads
<1>3. CASE ReadChunk
  <2>1. loader = "PGZ" \/ loader = "PGX"
    BY <1>3 DEF ReadChunk, Reading
  <2> QED BY <1>2, <1>3, <2>1, PgzReads, PgxReads
<1>4. CASE PgzByte
  BY <1>2, <1>4, PgzLooks DEF PgzByte, Reading
<1>5. CASE PgxByte
  BY <1>2, <1>5, PgxLooks DEF PgxByte, Reading
<1>6. CASE ElfHeader
  BY <1>2, <1>6, ElfHeaderStep DEF ElfHeader, Reading
<1>7. CASE ElfSegment
  BY <1>2, <1>7, ElfSegmentStep DEF ElfSegment, Reading
<1>8. CASE ElfEnd
  BY <1>2, <1>8, ElfEndStep DEF ElfEnd, Reading
<1>9. CASE DefaultChunk
  BY <1>2, <1>9, DefaultSteps DEF DefaultChunk, Reading
<1>10. CASE UserLoads
  BY <1>2, <1>10, UserSteps DEF UserLoads, Reading
<1> QED
  BY <1>3, <1>4, <1>5, <1>6, <1>7, <1>8, <1>9, <1>10 DEF LoaderStep

-----------------------------------------------------------------------------
(* The choice of the loader. *)

(* Sets of numbers have a least element, and bounded ones a greatest.      *)
LEMMA LeastExists ==
  ASSUME NEW S, S \subseteq Nat, S # {}
  PROVE  \E x \in S : \A y \in S : x <= y
<1>1. PICK x \in S : \A y \in S : ~(<<y, x>> \in OpToRel(<, Nat))
  BY NatLessThanWellFounded, WFMin
<1>2. \A y \in S : x <= y
  <2> SUFFICES ASSUME NEW y \in S, y < x PROVE FALSE
    OBVIOUS
  <2> DEFINE pair == <<y, x>>
  <2>1. pair \in Nat \X Nat /\ pair[1] < pair[2]
    OBVIOUS
  <2> HIDE DEF pair
  <2>2. pair \in OpToRel(<, Nat)
    BY <2>1, Zenon DEF OpToRel
  <2> USE DEF pair
  <2> QED
    BY <1>1, <2>2, Zenon
<1> QED
  BY <1>2

(* The first and the last of the positions.                                *)
LEMMA MinIs ==
  ASSUME NEW S, S \subseteq Nat, S # {}
  PROVE  Min(S) \in S
BY LeastExists DEF Min

LEMMA MaxIs ==
  ASSUME NEW n \in Nat, NEW S \in SUBSET (0 .. n), S # {}
  PROVE  Max(S) \in S
<1> DEFINE others == {n - x : x \in S}
<1>1. others \subseteq Nat /\ others # {}
  <2>1. \A x \in S : n - x \in Nat
    OBVIOUS
  <2>2. \A y \in others : y \in Nat
    BY <2>1
  <2>3. PICK x \in S : TRUE
    OBVIOUS
  <2>4. n - x \in others
    BY <2>3
  <2> HIDE DEF others
  <2> QED BY <2>2, <2>4
<1>2. PICK least \in others : \A y \in others : least <= y
  <2> HIDE DEF others
  <2> QED BY <1>1, LeastExists
<1>3. PICK x \in S : n - x = least
  OBVIOUS
<1>4. \A y \in S : x >= y
  <2> SUFFICES ASSUME NEW y \in S PROVE x >= y
    OBVIOUS
  <2>1. n - x <= n - y
    BY <1>2, <1>3
  <2> HIDE DEF others
  <2> QED BY <2>1
<1> QED
  BY <1>4 DEF Max

(* The built-in loaders load what they are for, and the default loader     *)
(* what has none, to an address.                                           *)
LEMMA LoaderForIs ==
  ASSUME Table, NEW format, NEW dest
  PROVE  LET l == LoaderFor(format, dest)
         IN /\ l \in {"none", "PGZ", "PGX", "ELF", "default", "user"}
            /\ l \in {"PGZ", "PGX", "ELF"} => format = l
            /\ l = "default" => dest # 0 /\ format \notin {"PGZ", "PGX", "ELF"}
<1> DEFINE kinds == {"user", "PGZ", "PGX", "ELF"}
<1>1. /\ Len(loaders) \in Nat /\ 3 <= Len(loaders)
      /\ DOMAIN loaders = 1 .. Len(loaders)
      /\ \A i \in 1 .. Len(loaders) :
           loaders[i].loader \in kinds /\ loaders[i].loader \in {"user", loaders[i].extension}
      /\ \A i \in 1 .. 3 : loaders[i].extension = BuiltIn[i]
  <2> DEFINE entries == [extension : Extensions \cup {"PGZ", "PGX", "ELF"}, loader : kinds]
  <2>1. loaders \in Seq(entries) /\ Len(loaders) \in 3 .. MAX_LOADERS
    BY DEF Table
  <2>2. \A e \in entries : e.loader \in kinds
    OBVIOUS
  <2> HIDE DEF entries
  <2>3. Len(loaders) \in Nat /\ DOMAIN loaders = 1 .. Len(loaders)
        /\ \A i \in 1 .. Len(loaders) : loaders[i] \in entries
    BY <2>1
  <2>4. 3 <= Len(loaders)
    BY <2>1
  <2>5. \A i \in 1 .. Len(loaders) : loaders[i].loader \in {"user", loaders[i].extension}
    BY <2>3 DEF Table
  <2>6. \A i \in 1 .. 3 : loaders[i].extension = BuiltIn[i]
    BY DEF Table
  <2> HIDE DEF kinds
  <2> QED BY <2>2, <2>3, <2>4, <2>5, <2>6
<1>2. CASE Registered(format) # {}
  <2>1. Registered(format) \in SUBSET (0 .. Len(loaders))
    BY <1>1 DEF Registered
  <2>2. Max(Registered(format)) \in Registered(format)
    BY <1>1, <1>2, <2>1, MaxIs
  <2>3. /\ loaders[Max(Registered(format))].extension = format
        /\ Max(Registered(format)) \in 1 .. Len(loaders)
    BY <1>1, <2>2 DEF Registered
  <2>4. LoaderFor(format, dest) = loaders[Max(Registered(format))].loader
    BY <1>2 DEF LoaderFor
  <2> QED
    BY <1>1, <2>3, <2>4
<1>3. CASE Registered(format) = {}
  <2>1. \A i \in 1 .. 3 : format # BuiltIn[i]
    BY <1>1, <1>3 DEF Registered
  <2>2. BuiltIn[1] = "PGZ" /\ BuiltIn[2] = "PGX" /\ BuiltIn[3] = "ELF"
    BY DEF BuiltIn
  <2>3. format \notin {"PGZ", "PGX", "ELF"}
    BY <2>1, <2>2
  <2> QED
    BY <1>3, <2>3 DEF LoaderFor
<1> QED
  BY <1>2, <1>3

-----------------------------------------------------------------------------
(* Requests. *)

(* The names that a loader may have.                                       *)
Loaderlike == {"none", "PGZ", "PGX", "ELF", "default", "user"}

(* The variables of a loader when it is called.                            *)
LEMMA FirstLocals ==
  ASSUME NEW a \in Int, NEW d \in 0 .. MemorySize
  PROVE  LET first == [Locals0 EXCEPT !.address = a, !.dest = d]
             all == [idx : Nat, seg : Nat, width : {0, Narrow, Wide}, address : Int, count : Int,
                     dest : 0 .. MemorySize, header : SegmentType]
         IN /\ Locals0 \in all /\ first \in all
            /\ first.idx = 0 /\ first.seg = 0 /\ first.address = a /\ first.dest = d
            /\ first.header = NoHeader /\ ~IsLoaded(NoHeader)
<1>1. NoHeader \in SegmentType /\ ~IsLoaded(NoHeader)
  BY DEF NoHeader, SegmentType, Kinds, IsLoaded
<1> DEFINE first == [Locals0 EXCEPT !.address = a, !.dest = d]
           All == [idx : Nat, seg : Nat, width : {0, Narrow, Wide}, address : Int, count : Int,
                   dest : 0 .. MemorySize, header : SegmentType]
<1>2. /\ Locals0 \in All /\ Locals0.idx = 0 /\ Locals0.seg = 0 /\ Locals0.header = NoHeader
  <2>1. 0 \in Nat /\ -1 \in Int /\ 0 \in 0 .. MemorySize
    BY LoaderSizes
  <2> QED BY <1>1, <2>1 DEF Locals0
<1>3. first \in All
  <2> DEFINE old == Locals0
  <2>1. old \in All
    BY <1>2
  <2> HIDE DEF old
  <2>2. [old EXCEPT !.address = a, !.dest = d] \in All
    BY <2>1
  <2> QED BY <2>2 DEF old
<1>4. /\ first.idx = 0 /\ first.seg = 0 /\ first.address = a /\ first.dest = d
      /\ first.header = NoHeader
  <2> DEFINE old == Locals0
  <2>1. old \in All /\ old.idx = 0 /\ old.seg = 0 /\ old.header = NoHeader
    BY <1>2
  <2> HIDE DEF old
  <2>2. LET new == [old EXCEPT !.address = a, !.dest = d]
        IN /\ new.idx = 0 /\ new.seg = 0 /\ new.address = a /\ new.dest = d
           /\ new.header = NoHeader
    BY <2>1
  <2> QED BY <2>2 DEF old
<1> QED
  BY <1>1, <1>2, <1>3, <1>4 DEF first

(* The loader that is chosen for a file starts as it should.               *)
LEMMA LoadFileRight ==
  ASSUME Table, Idle, load = "idle", NEW p \in Programs, NEW dest \in Destinations \cup {0},
         LoadFile(p, dest)
  PROVE  /\ loaders' = loaders /\ memory' = memory /\ LocalsType' /\ loader' \in Loaderlike
         /\ load' \in {"reading", "refused"} /\ ReadingRight'
<1> DEFINE l == LoaderFor(p.format, dest)
           first == [Locals0 EXCEPT !.address = IF l = "PGX" THEN 0 ELSE -1,
                                    !.dest = IF l = "default" THEN dest ELSE 0]
           a == IF l = "PGX" THEN 0 ELSE -1
           d == IF l = "default" THEN dest ELSE 0
<1>1. /\ program' = p /\ loader' = l /\ destination' = dest
      /\ \/ /\ l # "none" /\ load' = "reading" /\ file' = Contents(p)
            /\ start' = start /\ failed' = failed
         \/ load' = "refused"
      /\ locals' = first
      /\ loaders' = loaders /\ chunk' = chunk /\ memory' = memory
  BY DEF LoadFile, Refused
<1>2. /\ l \in Loaderlike
      /\ l \in {"PGZ", "PGX", "ELF"} => p.format = l
      /\ l = "default" => dest # 0 /\ p.format \notin {"PGZ", "PGX", "ELF"}
  BY LoaderForIs DEF Loaderlike
<1>3. chunk = <<>> /\ memory = Blank /\ start = 0 /\ ~failed
  BY DEF Idle
<1>4. a \in Int /\ d \in 0 .. MemorySize /\ dest \in Nat
  BY LoaderAssumption DEF Memory
<1> HIDE DEF l
<1>5. /\ LocalsType' /\ locals'.idx = 0 /\ locals'.seg = 0 /\ locals'.address = a
      /\ locals'.dest = d /\ locals'.header = NoHeader /\ ~IsLoaded(NoHeader)
  <2>1. locals' = [Locals0 EXCEPT !.address = a, !.dest = d]
    BY <1>1
  <2> HIDE DEF a, d
  <2> QED BY <1>4, <2>1, FirstLocals DEF LocalsType
<1>6. ASSUME l # "none", load' = "reading", file' = Contents(p), start' = start, failed' = failed
      PROVE  ReadingRight'
  <2>1. PICK S : Contents(p) \in Seq(S)
    BY WholeIs
  <2>2. Whole' = Contents(p) /\ file' = Whole' /\ chunk' = <<>>
    BY <1>1, <1>3, <1>6 DEF Whole
  <2>3. Values' = {Contents(p)[i] : i \in DOMAIN Contents(p)}
    BY <2>2 DEF Values
  <2>4. chunk' \in Seq(Values') /\ file' \in Seq(Values')
    <3> DEFINE whole == Contents(p)
    <3>1. whole \in Seq(S)
      BY <2>1
    <3> HIDE DEF whole
    <3>2. whole \in Seq({whole[i] : i \in DOMAIN whole})
      BY <3>1
    <3> QED BY <2>2, <2>3, <3>2 DEF whole
  <2>5. Ends(Whole, chunk, file)' /\ Place' = 0
    <3>1. Ends(Whole', <<>>, Whole')
      BY <2>1, <2>2, EndsWhole
    <3>2. Ends(Whole, chunk, file)' = Ends(Whole', chunk', file')
      BY DEF Ends
    <3>3. Ends(Whole, chunk, file)'
      BY <2>2, <3>1, <3>2
    <3>4. Len(Whole') \in Nat /\ Len(chunk') = 0
      BY <2>1, <2>2
    <3>5. Place' = Len(Whole') - Len(chunk') - Len(file')
      BY DEF Place
    <3>6. Place' = 0
      BY <2>2, <3>4, <3>5
    <3> QED BY <3>3, <3>6
  <2>6. Request'
    BY <1>1, <1>2 DEF Request
  <2>7. memory' = Blank /\ start' = 0 /\ ~failed'
    BY <1>1, <1>3, <1>6
  <2>8. Blank = [x \in Memory |-> Blank[x]]
    BY BlankType
  <2>9. l = "PGZ" => PgzReading'
    BY <1>5, <2>5, <2>7 DEF PgzReading
  <2>10. l = "PGX" => PgxReading'
    <3> SUFFICES ASSUME l = "PGX" PROVE PgxReading'
      OBVIOUS
    <3> DEFINE s == p.segments[1]
    <3>1. s.addr \in Nat
      BY <1>2, PgxProgramIs
    <3>2. PgxAddress(s.addr, 0) = 0 /\ PgxStored(0) = 0 /\ ~(0 > Wide + 1)
      BY LoaderSizes DEF PgxAddress, PgxStored
    <3>3. Partly(Blank, s.addr, s.data, 0) = Blank
      BY <2>8, <3>1, PartlyNone
    <3>4. program'.segments[1] = s /\ locals'.idx = 0 /\ locals'.address = 0 /\ locals'.dest = 0
      BY <1>1, <1>5
    <3> HIDE DEF s
    <3> QED BY <2>5, <2>7, <3>2, <3>3, <3>4 DEF PgxReading
  <2>11. l = "ELF" => ElfReading'
    <3> SUFFICES ASSUME l = "ELF" PROVE ElfReading'
      OBVIOUS
    <3>1. Images(p)[0] = Blank
      BY ProgramIs, ImagesIs
    <3>2. (Images(program)[Place])' = Blank
      BY <1>1, <2>5, <3>1
    <3> QED BY <1>5, <2>2, <2>5, <2>7, <3>2 DEF ElfReading
  <2>12. l = "default" => DefaultReading'
    <3> SUFFICES ASSUME l = "default" PROVE DefaultReading'
      OBVIOUS
    <3>1. Partly(Blank, dest, Whole', 0) = Blank
      BY <1>4, <2>8, PartlyNone
    <3>2. locals'.dest = dest /\ dest = dest + 0 /\ destination' = dest
      BY <1>1, <1>4, <1>5
    <3> QED BY <2>2, <2>5, <2>7, <3>1, <3>2 DEF DefaultReading
  <2> QED
    BY <1>1, <1>6, <2>4, <2>5, <2>6, <2>7, <2>9, <2>10, <2>11, <2>12 DEF ReadingRight
<1>7. CASE load' = "refused"
  BY <1>1, <1>2, <1>5, <1>7 DEF ReadingRight
<1>8. CASE /\ l # "none" /\ load' = "reading" /\ file' = Contents(p)
           /\ start' = start /\ failed' = failed
  BY <1>1, <1>2, <1>5, <1>6, <1>8
<1> QED
  BY <1>1, <1>7, <1>8

-----------------------------------------------------------------------------
(* The loaders as a whole. *)

(* The invariant of the loaders.                                           *)
LoadersInv ==
  /\ Table /\ Idle /\ ReadingRight
  /\ LocalsType /\ memory \in [Memory -> Byte]
  /\ loader \in Loaderlike
  /\ load \in {"idle", "reading", "executing", "loaded", "refused"}
  /\ RunsWholePrograms

(* It holds at the start.                                                  *)
LEMMA LoadersInit == LoadInit => LoadersInv
<1> SUFFICES ASSUME LoadInit PROVE LoadersInv
  OBVIOUS
<1>1. /\ loaders = [i \in 1 .. 3 |-> [extension |-> BuiltIn[i], loader |-> BuiltIn[i]]]
      /\ loader = "none" /\ load = "idle" /\ file = <<>> /\ chunk = <<>> /\ locals = Locals0
      /\ memory = Blank /\ start = 0 /\ ~failed
  BY DEF LoadInit
<1>2. Table
  <2>1. BuiltIn[1] = "PGZ" /\ BuiltIn[2] = "PGX" /\ BuiltIn[3] = "ELF"
    BY DEF BuiltIn
  <2> DEFINE entries == [extension : Extensions \cup {"PGZ", "PGX", "ELF"},
                         loader : {"user", "PGZ", "PGX", "ELF"}]
  <2>2. \A i \in 1 .. 3 : BuiltIn[i] \in {"PGZ", "PGX", "ELF"}
    BY <2>1
  <2>3. \A i \in 1 .. 3 : [extension |-> BuiltIn[i], loader |-> BuiltIn[i]] \in entries
    BY <2>2
  <2> HIDE DEF entries
  <2>4. loaders \in Seq(entries) /\ Len(loaders) = 3 /\ DOMAIN loaders = 1 .. 3
    BY <1>1, <2>3
  <2>5. Len(loaders) \in 3 .. MAX_LOADERS
    BY <2>4, LoaderAssumption
  <2>6. \A i \in 1 .. 3 : /\ loaders[i].extension = BuiltIn[i]
                          /\ loaders[i].loader \in {"user", loaders[i].extension}
    BY <1>1
  <2> QED BY <2>4, <2>5, <2>6 DEF Table, entries
<1>3. LocalsType
  <2>1. -1 \in Int /\ 0 \in 0 .. MemorySize
    BY LoaderSizes
  <2>2. Locals0 \in [idx : Nat, seg : Nat, width : {0, Narrow, Wide}, address : Int, count : Int,
                     dest : 0 .. MemorySize, header : SegmentType]
    BY <2>1, FirstLocals
  <2> QED BY <1>1, <2>2 DEF LocalsType
<1>4. Idle /\ ReadingRight /\ RunsWholePrograms
  BY <1>1 DEF Idle, ReadingRight, RunsWholePrograms
<1>5. memory \in [Memory -> Byte]
  BY <1>1, BlankType
<1> QED
  BY <1>1, <1>2, <1>3, <1>4, <1>5 DEF LoadersInv, Loaderlike

(* It holds when nothing happens to them.                                  *)
LEMMA LoadersStay == LoadersInv /\ UNCHANGED loading => LoadersInv'
<1> SUFFICES ASSUME LoadersInv, UNCHANGED loading PROVE LoadersInv'
  OBVIOUS
<1>1. /\ load' = load /\ program' = program /\ loader' = loader /\ destination' = destination
      /\ loaders' = loaders /\ file' = file /\ chunk' = chunk /\ locals' = locals
      /\ memory' = memory /\ start' = start /\ failed' = failed
  BY DEF loading, request
<1>2. Table' /\ Idle' /\ LocalsType'
  BY <1>1 DEF LoadersInv, Table, Idle, LocalsType
<1>3. Whole' = Whole /\ Values' = Values /\ Place' = Place
  BY <1>1 DEF Whole, Values, Place
<1>4. (PgzReading => PgzReading') /\ (PgxReading => PgxReading')
  BY <1>1, <1>3 DEF PgzReading, PgxReading, PgzAt, InPgzSegment
<1>5. (ElfReading => ElfReading') /\ (DefaultReading => DefaultReading')
  BY <1>1, <1>3 DEF ElfReading, DefaultReading
<1>6. ReadingRight'
  BY <1>1, <1>3, <1>4, <1>5 DEF LoadersInv, ReadingRight, Request, Ends
<1>7. RunsWholePrograms'
  BY <1>1 DEF LoadersInv, RunsWholePrograms
<1> QED
  BY <1>1, <1>2, <1>6, <1>7 DEF LoadersInv

(* A step that a loader takes, or that a request starts.                   *)
LEMMA LoaderStepInv ==
  ASSUME LoadersInv, LoaderStep
  PROVE  LoadersInv'
<1>1. StepsRight
  BY LoaderStepsRight DEF LoadersInv
<1>2. loaders' = loaders /\ loader' = loader
  BY <1>1 DEF StepsRight, request
<1>3. Table'
  BY <1>2 DEF LoadersInv, Table
<1>4. load' \in {"reading", "executing", "loaded", "refused"} /\ ReadingRight' /\ RunsWholePrograms'
  <2>1. CASE load' = "reading" /\ ReadingRight'
    BY <2>1 DEF RunsWholePrograms
  <2>2. CASE load' \in {"executing", "loaded", "refused"} /\ RunsWholePrograms'
    BY <2>2 DEF ReadingRight
  <2> QED BY <1>1, <2>1, <2>2 DEF StepsRight
<1>5. Idle'
  BY <1>4 DEF Idle
<1> QED
  BY <1>1, <1>2, <1>3, <1>4, <1>5 DEF LoadersInv, StepsRight

(* Each of their actions keeps it.                                         *)
LEMMA LoadFileInv ==
  ASSUME LoadersInv, load = "idle", NEW p \in Programs, NEW dest \in Destinations \cup {0},
         LoadFile(p, dest)
  PROVE  LoadersInv'
<1>1. /\ loaders' = loaders /\ memory' = memory /\ LocalsType' /\ loader' \in Loaderlike
      /\ load' \in {"reading", "refused"} /\ ReadingRight'
  BY LoadFileRight DEF LoadersInv
<1>2. Table' /\ Idle' /\ RunsWholePrograms'
  BY <1>1 DEF LoadersInv, Table, Idle, RunsWholePrograms
<1> QED
  BY <1>1, <1>2 DEF LoadersInv

LEMMA ProcRunNameInv ==
  ASSUME LoadersInv, NEW files \in Directories, ProcRunName(files)
  PROVE  LoadersInv'
<1> DEFINE known == {i \in DOMAIN files : Registered(files[i].format) # {}}
<1>1. load = "idle"
  BY DEF ProcRunName
<1>2. ASSUME Refused(ERR_NOT_FOUND) \/ Refused(FSYS_ERR_DISK_ERR),
             UNCHANGED <<request, file, chunk, locals, memory>>
      PROVE  LoadersInv'
  <2>1. /\ load' = "refused" /\ loaders' = loaders /\ loader' = loader /\ locals' = locals
        /\ memory' = memory
    BY <1>2 DEF Refused, request
  <2>2. Table' /\ Idle' /\ RunsWholePrograms' /\ ReadingRight' /\ LocalsType'
    BY <2>1 DEF LoadersInv, Table, Idle, RunsWholePrograms, ReadingRight, LocalsType
  <2> QED
    BY <2>1, <2>2 DEF LoadersInv
<1>3. CASE known # {} /\ LoadFile(files[Min(known)], 0)
  <2>1. files \in Seq(Programs)
    BY ProgramAssumption
  <2>2. known \subseteq Nat /\ known \subseteq DOMAIN files
    BY <2>1
  <2>3. Min(known) \in known
    <3> HIDE DEF known
    <3> QED BY <1>3, <2>2, MinIs
  <2>4. files[Min(known)] \in Programs
    <3>1. Min(known) \in DOMAIN files
      BY <2>2, <2>3
    <3> HIDE DEF known
    <3> QED BY <2>1, <3>1
  <2> HIDE DEF known
  <2>5. 0 \in Destinations \cup {0}
    OBVIOUS
  <2> QED
    BY <1>1, <1>3, <2>4, <2>5, LoadFileInv
<1>4. CASE known = {} /\ Refused(ERR_NOT_FOUND)
           /\ UNCHANGED <<request, file, chunk, locals, memory, failed>>
  BY <1>2, <1>4
<1>5. CASE Refused(FSYS_ERR_DISK_ERR) /\ UNCHANGED <<request, file, chunk, locals, memory>>
  BY <1>2, <1>5
<1> QED
  BY <1>3, <1>4, <1>5 DEF ProcRunName

LEMMA FsysRegisterLoaderInv ==
  ASSUME LoadersInv, NEW extension \in Extensions, FsysRegisterLoader(extension)
  PROVE  LoadersInv'
<1>1. /\ load = "idle" /\ load' = load /\ loader' = loader /\ file' = file /\ chunk' = chunk
      /\ locals' = locals /\ memory' = memory /\ start' = start /\ failed' = failed
  BY DEF FsysRegisterLoader
<1>2. Idle' /\ RunsWholePrograms' /\ ReadingRight' /\ LocalsType'
  BY <1>1 DEF LoadersInv, Idle, RunsWholePrograms, ReadingRight, LocalsType
<1>3. Table'
  <2>1. CASE loaders' = loaders
    BY <2>1 DEF LoadersInv, Table
  <2>2. CASE /\ Len(loaders) < MAX_LOADERS
             /\ loaders' = Append(loaders, [extension |-> extension, loader |-> "user"])
    <3> DEFINE entries == [extension : Extensions \cup {"PGZ", "PGX", "ELF"},
                           loader : {"user", "PGZ", "PGX", "ELF"}]
               e == [extension |-> extension, loader |-> "user"]
    <3>1. loaders \in Seq(entries) /\ Len(loaders) \in 3 .. MAX_LOADERS
          /\ \A n \in 1 .. 3 : loaders[n].extension = BuiltIn[n]
          /\ \A i \in DOMAIN loaders : loaders[i].loader \in {"user", loaders[i].extension}
      BY DEF LoadersInv, Table
    <3>2. e \in entries /\ e.loader = "user"
      OBVIOUS
    <3> HIDE DEF entries, e
    <3>3. /\ loaders' \in Seq(entries) /\ Len(loaders') = Len(loaders) + 1
          /\ \A i \in 1 .. Len(loaders) : loaders'[i] = loaders[i]
          /\ loaders'[Len(loaders) + 1] = e
          /\ DOMAIN loaders' = 1 .. Len(loaders) + 1 /\ DOMAIN loaders = 1 .. Len(loaders)
      BY <2>2, <3>1, <3>2 DEF e
    <3>4. Len(loaders') \in 3 .. MAX_LOADERS
      BY <2>2, <3>1, <3>3, LoaderAssumption
    <3>5. \A i \in 1 .. 3 : loaders'[i].extension = BuiltIn[i]
      <4>1. \A i \in 1 .. 3 : i \in 1 .. Len(loaders)
        BY <3>1
      <4> QED BY <3>1, <3>3, <4>1
    <3>6. \A i \in DOMAIN loaders' : loaders'[i].loader \in {"user", loaders'[i].extension}
      <4> SUFFICES ASSUME NEW i \in 1 .. Len(loaders) + 1
                   PROVE  loaders'[i].loader \in {"user", loaders'[i].extension}
        BY <3>3
      <4>1. CASE i = Len(loaders) + 1
        BY <3>2, <3>3, <4>1
      <4>2. CASE i \in 1 .. Len(loaders)
        BY <3>1, <3>3, <4>2
      <4> QED BY <3>1, <4>1, <4>2
    <3> QED BY <3>3, <3>4, <3>5, <3>6 DEF Table, entries
  <2> QED
    BY <2>1, <2>2 DEF FsysRegisterLoader
<1> QED
  BY <1>1, <1>2, <1>3 DEF LoadersInv

-----------------------------------------------------------------------------
(* The boot screen and the loaders together. *)

(* The types of the boot screen's own variables.                           *)
BootType ==
  /\ stage \in {"scan", "target", "wait", "poll", "boot", "PGZ", "PGX", "running", "nothing"}
  /\ bootable \subseteq 1 .. boot_src_cnt
  /\ boot_source \in Sources \cup {NONE} /\ chosen \in Sources \cup {NONE}
  /\ key \in Keys \cup {NONE}
  /\ jiffies \in 0 .. JiffiesMax

(* The positions in the chain are those of sources.                        *)
LEMMA PositionsAreSources ==
  ASSUME boot_ram \in BOOLEAN, NEW p \in 1 .. boot_src_cnt
  PROVE  p \in 1 .. 4 /\ boot_chain[p] \in Sources
<1>1. \A q \in 1 .. 5 : Documented[q] \in Sources
  <2>1. /\ Documented[1] = "RAM" /\ Documented[2] = "CARTRIDGE" /\ Documented[3] = "SD0"
        /\ Documented[4] = "SD1" /\ Documented[5] = "ROM"
    BY DEF Documented
  <2>2. {"RAM", "CARTRIDGE", "SD0", "SD1", "ROM"} \subseteq Sources
    BY DEF Sources, RecordSources, CardSources
  <2> QED BY <2>1, <2>2
<1>2. CASE boot_ram
  <2>1. p \in 1 .. 4 /\ boot_chain[p] = Documented[p]
    BY <1>2, ChainIs
  <2>2. p \in 1 .. 5
    BY <2>1
  <2> QED BY <1>1, <2>1, <2>2
<1>3. CASE ~boot_ram
  <2>1. p \in 1 .. 3 /\ boot_chain[p] = Documented[p + 1]
    BY <1>3, ChainIs
  <2>2. p + 1 \in 1 .. 5 /\ p \in 1 .. 4
    BY <2>1
  <2> QED BY <1>1, <2>1, <2>2
<1> QED
  BY <1>2, <1>3

(* Types and the loaders' invariant at the start.                          *)
LEMMA BootTypeInit == Init => BootType /\ LoadersInv
<1> SUFFICES ASSUME Init PROVE BootType /\ LoadersInv
  OBVIOUS
<1>1. 0 \in 0 .. JiffiesMax
  BY BootAssumption
<1>2. BootType
  BY <1>1 DEF Init, BootType, TimersInit
<1> QED
  BY <1>2, LoadersInit DEF Init

(* The steps that are not the loaders' leave them alone; the loaders and   *)
(* the shell leave the screen alone.                                       *)
LEMMA BootTypeStep ==
  ASSUME BootType, boot_ram \in BOOLEAN, [Next]_vars
  PROVE  BootType'
<1>0. /\ stage \in {"scan", "target", "wait", "poll", "boot", "PGZ", "PGX", "running", "nothing"}
      /\ bootable \subseteq 1 .. boot_src_cnt
      /\ boot_source \in Sources \cup {NONE} /\ chosen \in Sources \cup {NONE}
      /\ key \in Keys \cup {NONE} /\ jiffies \in 0 .. JiffiesMax
      /\ JiffiesMax \in Nat /\ StartMax \in Nat /\ StartMax <= JiffiesMax
  BY BootAssumption, TimerAssumption DEF BootType
<1>1. CASE UNCHANGED <<stage, boot_ram, key, clock, choice>>
  BY <1>0, <1>1 DEF BootType, clock, choice, boot_src_cnt
<1>2. CASE \/ UNCHANGED vars
           \/ RunBootFile \/ Load \/ Shell \/ \E s \in CardSources : PullCard(s)
  <2>1. UNCHANGED <<stage, boot_ram, key, clock, choice>>
    BY <1>2 DEF vars, RunBootFile, Load, Shell, PullCard
  <2> QED BY <1>1, <2>1
<1>3. CASE PressKey
  BY <1>0, <1>3 DEF PressKey, BootType, clock, choice, boot_src_cnt
<1>4. CASE CounterTicks
  <2>1. /\ jiffies' = jiffies + 1
        /\ jiffies < IF stage = "target" THEN StartMax ELSE JiffiesMax
        /\ UNCHANGED <<stage, boot_ram, key, choice>>
    BY <1>4 DEF CounterTicks, Tick
  <2>2. jiffies' \in 0 .. JiffiesMax
    BY <1>0, <2>1
  <2> QED BY <1>0, <2>1, <2>2 DEF BootType, choice, boot_src_cnt
<1>5. CASE ReadFirst \/ SetTarget \/ TestTarget
  <2>1. /\ UNCHANGED <<boot_ram, key, jiffies, choice>>
        /\ stage' \in {stage, "wait", "poll", "boot"}
    BY <1>5 DEF ReadFirst, SetTarget, TestTarget
  <2> QED BY <1>0, <2>1 DEF BootType, choice, boot_src_cnt
<1>6. CASE Scan
  <2>1. /\ bootable' = {p \in 1 .. boot_src_cnt : IsBootable(boot_chain[p])}
        /\ boot_source' = Default(bootable') /\ stage' = "target"
        /\ UNCHANGED <<boot_ram, key, clock, chosen>>
    BY <1>6 DEF Scan
  <2>2. bootable' \subseteq 1 .. boot_src_cnt /\ bootable' \in SUBSET (1 .. 4)
    <3>1. \A p \in bootable' : p \in 1 .. boot_src_cnt
      BY <2>1
    <3>2. \A p \in bootable' : p \in 1 .. 4
      BY <3>1, PositionsAreSources
    <3> QED BY <3>1, <3>2
  <2>3. boot_source' \in Sources \cup {NONE}
    <3> DEFINE positions == bootable'
    <3>1. CASE positions = {}
      BY <2>1, <3>1 DEF Default
    <3>2. CASE positions # {}
      <4>1. positions \in SUBSET (1 .. 4) /\ positions \subseteq 1 .. boot_src_cnt
        BY <2>2
      <4>2. boot_source' = Default(positions)
        BY <2>1
      <4> HIDE DEF positions
      <4>3. \E p \in positions : Default(positions) = boot_chain[p]
        BY <3>2, <4>1, DefaultIs
      <4> QED BY <4>1, <4>2, <4>3, PositionsAreSources
    <3> QED BY <3>1, <3>2
  <2>4. boot_src_cnt' = boot_src_cnt
    BY <2>1 DEF boot_src_cnt
  <2> QED BY <1>0, <2>1, <2>2, <2>3, <2>4 DEF BootType, clock
<1>7. CASE Poll
  <2>1. /\ key' = NONE /\ stage' \in {"wait", "boot"}
        /\ UNCHANGED <<boot_ram, bootable, clock>>
    BY <1>7 DEF Poll
  <2>2. \/ boot_source' = boot_source /\ chosen' = chosen
        \/ /\ key \in bootable /\ boot_source' = boot_chain[key] /\ chosen' = boot_chain[key]
    BY <1>7 DEF Poll, Selects
  <2>3. boot_source' \in Sources \cup {NONE} /\ chosen' \in Sources \cup {NONE}
    BY <1>0, <2>2, PositionsAreSources
  <2>4. boot_src_cnt' = boot_src_cnt
    BY <2>1 DEF boot_src_cnt
  <2> QED BY <1>0, <2>1, <2>3, <2>4 DEF BootType, clock
<1>8. CASE BootFrom
  <2>1. /\ stage' \in {"PGZ", "PGX", "running", "nothing"}
        /\ key' = NONE /\ bootable' = {} /\ boot_source' = NONE /\ chosen' = NONE /\ jiffies' = 0
    BY <1>8 DEF BootFrom, Forget, BootFile
  <2> QED BY <1>0, <2>1 DEF BootType
<1> QED
  BY <1>2, <1>3, <1>4, <1>5, <1>6, <1>7, <1>8 DEF Next, Firmware, Surroundings

(* Every step of the boot screen keeps the loaders' invariant.             *)
LEMMA LoadersNext ==
  ASSUME LoadersInv, [Next]_vars
  PROVE  LoadersInv'
<1>1. CASE UNCHANGED loading
  BY <1>1, LoadersStay
<1>2. CASE \/ UNCHANGED vars
           \/ Scan \/ ReadFirst \/ SetTarget \/ TestTarget \/ Poll \/ BootFrom
           \/ CounterTicks \/ PressKey \/ \E s \in CardSources : PullCard(s)
  <2>1. UNCHANGED loading
    BY <1>2 DEF vars, Scan, ReadFirst, SetTarget, TestTarget, Poll, BootFrom, CounterTicks,
                PressKey, PullCard
  <2> QED BY <1>1, <2>1
<1>3. ASSUME NEW p \in Programs, NEW dest \in Destinations \cup {0}, FsysLoad(p, dest)
      PROVE  LoadersInv'
  <2>1. load = "idle" /\ LoadFile(p, dest)
    BY <1>3 DEF FsysLoad
  <2> QED BY <2>1, LoadFileInv
<1>4. CASE RunBootFile
  <2>1. PICK p \in Programs : FsysLoad(p, 0)
    BY <1>4 DEF RunBootFile, ProcRun
  <2>2. 0 \in Destinations \cup {0}
    OBVIOUS
  <2> QED BY <1>3, <2>1, <2>2
<1>5. CASE Load
  BY <1>5, LoaderStepInv DEF Load
<1>6. CASE Shell
  <2>1. CASE \E p \in Programs, dest \in Destinations \cup {0} : FsysLoad(p, dest)
    BY <1>3, <2>1
  <2>2. CASE \E files \in Directories : ProcRunName(files)
    BY <2>2, ProcRunNameInv
  <2>3. CASE \E extension \in Extensions : FsysRegisterLoader(extension)
    BY <2>3, FsysRegisterLoaderInv
  <2> QED BY <1>6, <2>1, <2>2, <2>3 DEF Shell
<1> QED
  BY <1>2, <1>4, <1>5, <1>6 DEF Next, Firmware, Surroundings

(* The inductive invariant as a whole.                                     *)
BootInv == Clock /\ Choice /\ BootType /\ LoadersInv

(* It holds always.                                                        *)
LEMMA BootInvAlways == Spec => []BootInv
<1>1. Init => BootInv
  BY InitInv, BootTypeInit DEF BootInv
<1>2. BootInv /\ [Next]_vars => BootInv'
  BY NextInv, BootTypeStep, LoadersNext DEF BootInv, Choice
<1> QED
  BY <1>1, <1>2, PTL DEF Spec

(* Every variable stays within its range, for any programs that fit into   *)
(* the memory of the machine: a loader stores no byte outside it, wherever *)
(* chunks end and reads fail, and whatever loaders are registered.         *)
THEOREM TypeCorrect == Spec => []TypeOK
<1>1. BootInv => TypeOK
  <2> SUFFICES ASSUME BootInv PROVE TypeOK
    OBVIOUS
  <2>1. asked \in 0 .. jiffies
    BY DEF BootInv, Clock
  <2>2. Len(loaders) <= MAX_LOADERS
    <3>1. Len(loaders) \in 3 .. MAX_LOADERS
      BY DEF BootInv, LoadersInv, Table
    <3> QED BY <3>1
  <2>3. locals.seg \in Nat /\ locals.dest \in 0 .. MemorySize
    BY DEF BootInv, LoadersInv, LocalsType
  <2>4. /\ memory \in [Memory -> Byte]
        /\ loader \in {"none", "PGZ", "PGX", "ELF", "default", "user"}
        /\ load \in {"idle", "reading", "executing", "loaded", "refused"}
    BY DEF BootInv, LoadersInv, Loaderlike
  <2> QED
    BY <2>1, <2>2, <2>3, <2>4 DEF BootInv, BootType, TypeOK
<1> QED
  BY BootInvAlways, <1>1, PTL

(* What is executed is in memory as its file describes, and entered where  *)
(* it says, for any file of any format and length, any size of the chunks  *)
(* that it is read in and any width of its fields.                         *)
THEOREM ProgramsRunWhole == Spec => []RunsWholePrograms
<1>1. BootInv => RunsWholePrograms
  BY DEF BootInv, LoadersInv
<1> QED
  BY BootInvAlways, <1>1, PTL
=============================================================================
