------------------------- MODULE ConsoleInputProofs -------------------------
(***************************************************************************)
(* Theorems about ConsoleInput for any key matrix, any layout and any      *)
(* escape sequences.                                                       *)
(***************************************************************************)
EXTENDS ConsoleInput, SequenceTheorems, WellFoundedInduction, TLAPS

-----------------------------------------------------------------------------
(* Recursive functions over 0 .. n. *)

(* Induction over 0 .. n, for the set T of the numbers that satisfy what   *)
(* is to be proved.                                                        *)
LEMMA CountUp ==
  ASSUME NEW n \in Nat, NEW T, 0 \in T,
         \A i \in 1 .. n : i - 1 \in T => i \in T
  PROVE  \A i \in 0 .. n : i \in T
<1> DEFINE Missed == {i \in 0 .. n : i \notin T}
<1> SUFFICES ASSUME Missed # {} PROVE FALSE
  OBVIOUS
<1>1. PICK i \in Missed : \A j \in Missed : ~(<<j, i>> \in OpToRel(<, Nat))
  <2>1. Missed \subseteq Nat
    OBVIOUS
  <2> HIDE DEF Missed
  <2>2. QED
    BY <2>1, NatLessThanWellFounded, WFMin
<1>2. i \in 1 .. n /\ i - 1 \in 0 .. n
  OBVIOUS
<1>3. i - 1 \notin Missed
  <2> DEFINE pair == <<i - 1, i>>
  <2>1. pair \in Nat \X Nat /\ pair[1] < pair[2]
    BY <1>2
  <2> HIDE DEF pair
  <2>2. pair \in OpToRel(<, Nat)
    BY <2>1, Zenon DEF OpToRel
  <2> USE DEF pair
  <2>3. QED
    BY <1>1, <2>2, Zenon
<1>4. QED
  BY <1>2, <1>3

(* Functions from the positions up to n to S; steps at these positions;    *)
(* and that f starts with b and goes on with these steps.                  *)
Runs(n, S) == [0 .. n -> S]
Steps(n, S) == [1 .. n -> [S -> S]]
Stepwise(n, f, b, step) == f[0] = b /\ \A i \in 1 .. n : f[i] = step[i][f[i - 1]]

(* A function that is defined on 0 .. n by its value at 0 and a step from  *)
(* each value to the next exists.                                          *)
LEMMA StepwiseExists ==
  ASSUME NEW n \in Nat, NEW S, NEW b \in S, NEW step \in Steps(n, S)
  PROVE  \E f \in Runs(n, S) : Stepwise(n, f, b, step)
<1> DEFINE T == {m \in 0 .. n : \E f \in Runs(m, S) : Stepwise(m, f, b, step)}
<1>1. 0 \in T
  <2>1. [i \in 0 .. 0 |-> b] \in Runs(0, S) /\ Stepwise(0, [i \in 0 .. 0 |-> b], b, step)
    BY DEF Runs, Stepwise
  <2>2. QED
    BY <2>1
<1>2. ASSUME NEW m \in 1 .. n, m - 1 \in T
      PROVE  m \in T
  <2>1. PICK f \in Runs(m - 1, S) : Stepwise(m - 1, f, b, step)
    BY <1>2
  <2> DEFINE g == [i \in 0 .. m |-> IF i = m THEN step[m][f[m - 1]] ELSE f[i]]
  <2>2. g \in Runs(m, S)
    BY DEF Runs, Steps
  <2>3. Stepwise(m, g, b, step)
    <3>1. g[0] = b
      BY <2>1 DEF Stepwise
    <3>2. ASSUME NEW i \in 1 .. m
          PROVE  g[i] = step[i][g[i - 1]]
      <4>1. g[i - 1] = f[i - 1]
        OBVIOUS
      <4>2. CASE i = m
        <5>1. g[m] = step[m][f[m - 1]]
          OBVIOUS
        <5>2. QED
          BY <4>1, <4>2, <5>1
      <4>3. CASE i # m
        <5>1. g[i] = f[i] /\ f[i] = step[i][f[i - 1]]
          BY <2>1, <4>3 DEF Stepwise
        <5>2. QED
          BY <4>1, <5>1
      <4>4. QED
        BY <4>2, <4>3
    <3> HIDE DEF g
    <3>3. QED
      BY <3>1, <3>2 DEF Stepwise
  <2> HIDE DEF g
  <2>4. \E h \in Runs(m, S) : Stepwise(m, h, b, step)
    BY <2>2, <2>3
  <2>5. QED
    BY <2>4
<1> HIDE DEF T
<1>3. \A m \in 0 .. n : m \in T
  BY <1>1, <1>2, CountUp
<1>4. n \in T
  BY <1>3
<1>5. QED
  BY <1>4 DEF T

-----------------------------------------------------------------------------
(* A scan of the matrix. *)

(* What a scan has made of the keys so far.                                *)
ScanStates == [mods : SUBSET Modifiers, brk : BOOLEAN, words : Seq(Scans)]

LEMMA MatrixKeys ==
  /\ Len(MatrixOrder) \in Nat
  /\ \A i \in 1 .. Len(MatrixOrder) : MatrixOrder[i] \in Keys
  /\ DOMAIN MatrixOrder = 1 .. Len(MatrixOrder)
BY KeyAssumption

LEMMA ModifiersAfterType ==
  ASSUME NEW mods \in SUBSET Modifiers, NEW key \in Keys, NEW press \in BOOLEAN
  PROVE  ModifiersAfter(mods, key, press) \in SUBSET Modifiers
<1>1. Modifier[key] \in Modifiers \cup {"NONE"}
  BY KeyAssumption
<1>2. QED
  BY <1>1 DEF ModifiersAfter, Modifiers

LEMMA ProcessKeyType ==
  ASSUME NEW now \in SUBSET Keys, NEW state \in ScanStates, NEW key \in Keys
  PROVE  ProcessKey(now, state, key) \in ScanStates
<1> DEFINE press == key \in now
           mods == ModifiersAfter(state.mods, key, press)
           scan == [key |-> key, mods |-> mods, press |-> press]
<1>1. mods \in SUBSET Modifiers
  <2>1. press \in BOOLEAN /\ state.mods \in SUBSET Modifiers
    BY DEF ScanStates
  <2> HIDE DEF press
  <2>2. QED
    BY <2>1, ModifiersAfterType
<1>2. scan \in Scans
  BY <1>1 DEF Scans
<1>3. Append(state.words, scan) \in Seq(Scans)
  BY <1>2, AppendProperties DEF ScanStates
<1>4. QED
  BY <1>1, <1>3 DEF ProcessKey, ScanStates

(* The modifiers once key is pressed, and once it is released.             *)
Pressed(mods, key) == ModifiersAfter(mods, key, TRUE)
Released(mods, key) == ModifiersAfter(mods, key, FALSE)

LEMMA ProcessKeyMods ==
  ASSUME NEW now \in SUBSET Keys, NEW state \in ScanStates, NEW key \in Keys
  PROVE  /\ key \in now =>
              ProcessKey(now, state, key).mods = Pressed(state.mods, key)
         /\ key \notin now =>
              ProcessKey(now, state, key).mods = Released(state.mods, key)
<1>1. ProcessKey(now, state, key).mods = ModifiersAfter(state.mods, key, key \in now)
  BY DEF ProcessKey
<1>2. CASE key \in now
  <2>1. (key \in now) = TRUE
    BY <1>2
  <2>2. QED
    BY <1>1, <1>2, <2>1 DEF Pressed
<1>3. CASE key \notin now
  <2>1. (key \in now) = FALSE
    BY <1>3
  <2>2. QED
    BY <1>1, <1>3, <2>1 DEF Released
<1>4. QED
  BY <1>2, <1>3

(* The states of a scan, one after the other.                              *)
LEMMA ScannedSteps ==
  ASSUME TypeOK, NEW now \in SUBSET Keys
  PROVE  /\ \A i \in 0 .. Len(MatrixOrder) : Scanned(now)[i] \in ScanStates
         /\ Scanned(now)[0] = [mods |-> modifiers, brk |-> break_pressed, words |-> <<>>]
         /\ \A i \in 1 .. Len(MatrixOrder) :
              Scanned(now)[i] =
                IF MatrixOrder[i] \in now <=> MatrixOrder[i] \in kbd_stat
                  THEN Scanned(now)[i - 1]
                  ELSE ProcessKey(now, Scanned(now)[i - 1], MatrixOrder[i])
<1> DEFINE n == Len(MatrixOrder)
           same(i) == MatrixOrder[i] \in now <=> MatrixOrder[i] \in kbd_stat
           b == [mods |-> modifiers, brk |-> break_pressed, words |-> <<>>]
           step == [i \in 1 .. n |-> [s \in ScanStates |->
                      IF same(i) THEN s ELSE ProcessKey(now, s, MatrixOrder[i])]]
           Is(f) == f = [i \in 0 .. n |-> IF i = 0 THEN b ELSE IF same(i) THEN f[i - 1]
                                          ELSE ProcessKey(now, f[i - 1], MatrixOrder[i])]
<1>1. n \in Nat
  BY MatrixKeys
<1>2. b \in ScanStates
  BY EmptySeq DEF TypeOK, ScanStates
<1>3. step \in Steps(n, ScanStates)
  <2>1. \A i \in 1 .. n, s \in ScanStates :
          (IF same(i) THEN s ELSE ProcessKey(now, s, MatrixOrder[i])) \in ScanStates
    BY MatrixKeys, ProcessKeyType
  <2>2. QED
    BY <2>1 DEF Steps
<1>4. \E f : Is(f)
  <2>1. PICK f \in Runs(n, ScanStates) : Stepwise(n, f, b, step)
    <3> HIDE DEF n, b, step, same, Is
    <3>1. QED
      BY <1>1, <1>2, <1>3, StepwiseExists
  <2>2. ASSUME NEW i \in 1 .. n
        PROVE  step[i][f[i - 1]] = IF same(i) THEN f[i - 1]
                                       ELSE ProcessKey(now, f[i - 1], MatrixOrder[i])
    <3>1. f[i - 1] \in ScanStates
      BY <1>1 DEF Runs
    <3>2. QED
      BY <3>1
  <2>3. Is(f)
    <3> HIDE DEF n, step, b, same
    <3>1. \A i \in 0 .. n :
            f[i] = IF i = 0 THEN b ELSE IF same(i) THEN f[i - 1]
                   ELSE ProcessKey(now, f[i - 1], MatrixOrder[i])
      <4>1. \A i \in 0 .. n : i = 0 \/ i \in 1 .. n
        BY <1>1
      <4>2. 0 \notin 1 .. n
        BY <1>1
      <4>3. QED
        BY <2>1, <2>2, <4>1, <4>2 DEF Stepwise
    <3>2. f = [i \in 0 .. n |-> f[i]]
      BY DEF Runs
    <3>3. QED
      BY <3>1, <3>2, Zenon
  <2>4. QED
    BY <2>3
<1>5. Is(Scanned(now))
  <2>1. Scanned(now) = CHOOSE f : Is(f)
    BY Zenon DEF Scanned
  <2> HIDE DEF Is
  <2>2. QED
    BY <1>4, <2>1
<1> DEFINE g == Scanned(now)
           T == {i \in 0 .. n : g[i] \in ScanStates}
<1>6. g[0] = b /\ \A i \in 1 .. n : g[i] = IF same(i) THEN g[i - 1]
                                             ELSE ProcessKey(now, g[i - 1], MatrixOrder[i])
  <2> HIDE DEF b, same, g
  <2>1. Is(g)
    BY <1>5 DEF g
  <2>2. QED
    BY <1>1, <2>1
<1>7. 0 \in T
  BY <1>1, <1>2, <1>6
<1>8. \A i \in 1 .. n : i - 1 \in T => i \in T
  BY <1>6, MatrixKeys, ProcessKeyType
<1>9. \A i \in 0 .. n : i \in T
  <2> HIDE DEF T, n
  <2>1. QED
    BY <1>1, <1>7, <1>8, CountUp
<1>10. QED
  BY <1>6, <1>9

(* A scan that finds nothing new does nothing.                             *)
LEMMA ScanNothing ==
  ASSUME TypeOK
  PROVE  ScanMatrix(kbd_stat) = [mods |-> modifiers, brk |-> break_pressed, words |-> <<>>]
<1> DEFINE n == Len(MatrixOrder)
           g == Scanned(kbd_stat)
           T == {i \in 0 .. n : g[i] = g[0]}
<1>1. kbd_stat \in SUBSET Keys /\ n \in Nat
  BY MatrixKeys DEF TypeOK
<1>2. \A i \in 1 .. n : g[i] = g[i - 1]
  <2> HIDE DEF g
  <2>1. QED
    BY <1>1, ScannedSteps DEF g
<1>3. 0 \in T /\ \A i \in 1 .. n : i - 1 \in T => i \in T
  BY <1>1, <1>2
<1>4. \A i \in 0 .. n : i \in T
  <2> HIDE DEF T, n
  <2>1. QED
    BY <1>1, <1>3, CountUp
<1>5. g[n] = g[0]
  BY <1>1, <1>4
<1>6. g[0] = [mods |-> modifiers, brk |-> break_pressed, words |-> <<>>]
  BY <1>1, ScannedSteps
<1>7. QED
  BY <1>5, <1>6 DEF ScanMatrix

(* NoStuckModifier, for the modifiers mods while the keys in down are down.*)
Unstuck(mods, down) ==
  /\ \A m \in mods \ {"CAPS"} : \E key \in down : Modifier[key] = m
  /\ "CTRL" \in mods <=> \E key \in down : Modifier[key] = "CTRL"

(* Each change of a key keeps the modifiers in step with the keys.         *)
LEMMA KeyUnstuck ==
  ASSUME NEW mods \in SUBSET Modifiers, NEW down \in SUBSET Keys, NEW key \in Keys,
         Unstuck(mods, down)
  PROVE  /\ Unstuck(Pressed(mods, key), down \cup {key})
         /\ Unstuck(Released(mods, key), down \ {key})
<1>1. Modifier[key] \in Modifiers \cup {"NONE"}
  BY KeyAssumption
<1>2. \A k \in Keys : Modifier[k] = "CTRL" /\ Modifier[key] = "CTRL" => k = key
  BY KeyAssumption
<1>3. CASE Modifier[key] = "NONE"
  BY <1>3 DEF Unstuck, Pressed, Released, ModifiersAfter, Modifiers
<1>4. CASE Modifier[key] = "CAPS"
  BY <1>4 DEF Unstuck, Pressed, Released, ModifiersAfter
<1>5. CASE Modifier[key] \in Modifiers \ {"CAPS"}
  <2>1. /\ Pressed(mods, key) = mods \cup {Modifier[key]}
        /\ Released(mods, key) = mods \ {Modifier[key]}
    BY <1>5 DEF Pressed, Released, ModifiersAfter, Modifiers
  <2>2. Unstuck(mods \cup {Modifier[key]}, down \cup {key})
    BY <1>5 DEF Unstuck
  <2>3. Unstuck(mods \ {Modifier[key]}, down \ {key})
    BY <1>2, <1>5 DEF Unstuck
  <2>4. QED
    BY <2>1, <2>2, <2>3
<1>6. QED
  BY <1>1, <1>3, <1>4, <1>5

(* The keys that are down once a scan has seen the first i keys.           *)
DownAfter(now, i) ==
  {key \in Keys : \E j \in 1 .. Len(MatrixOrder) :
     MatrixOrder[j] = key /\ IF j <= i THEN key \in now ELSE key \in kbd_stat}

LEMMA DownStep ==
  ASSUME NEW now \in SUBSET Keys, NEW i \in 1 .. Len(MatrixOrder)
  PROVE  /\ MatrixOrder[i] \in now =>
              DownAfter(now, i) = DownAfter(now, i - 1) \cup {MatrixOrder[i]}
         /\ MatrixOrder[i] \notin now =>
              DownAfter(now, i) = DownAfter(now, i - 1) \ {MatrixOrder[i]}
         /\ (MatrixOrder[i] \in now <=> MatrixOrder[i] \in kbd_stat) =>
              DownAfter(now, i) = DownAfter(now, i - 1)
<1> DEFINE n == Len(MatrixOrder)
<1>1. /\ n \in Nat /\ MatrixOrder[i] \in Keys
      /\ \A j \in 1 .. n : MatrixOrder[j] = MatrixOrder[i] => j = i
  BY MatrixKeys, KeyAssumption
<1>2. \A j \in 1 .. n : j # i => (j <= i <=> j <= i - 1)
  BY <1>1
<1>3. i <= i /\ ~(i <= i - 1)
  BY <1>1
<1>4. QED
  BY <1>1, <1>2, <1>3 DEF DownAfter

LEMMA ScanUnstuck ==
  ASSUME TypeOK, NoStuckModifier, NEW now \in SUBSET Keys
  PROVE  Unstuck(ScanMatrix(now).mods, now)
<1> DEFINE n == Len(MatrixOrder)
           g == Scanned(now)
           T == {i \in 0 .. n : Unstuck(g[i].mods, DownAfter(now, i))}
<1>1. n \in Nat
  BY MatrixKeys
<1>2. DownAfter(now, 0) = kbd_stat /\ DownAfter(now, n) = now
  BY <1>1, MatrixKeys DEF DownAfter, Keys, TypeOK
<1>3. 0 \in T
  <2>1. g[0].mods = modifiers
    BY ScannedSteps
  <2>2. QED
    BY <1>1, <1>2, <2>1 DEF NoStuckModifier, Unstuck
<1>4. ASSUME NEW i \in 1 .. n, i - 1 \in T
      PROVE  i \in T
  <2> DEFINE key == MatrixOrder[i]
             mods == g[i - 1].mods
             down == DownAfter(now, i - 1)
  <2>1. /\ key \in Keys /\ mods \in SUBSET Modifiers /\ down \in SUBSET Keys
        /\ Unstuck(mods, down)
    BY <1>1, <1>4, MatrixKeys, ScannedSteps DEF ScanStates, DownAfter
  <2>2. CASE key \in now <=> key \in kbd_stat
    <3>1. g[i] = g[i - 1] /\ DownAfter(now, i) = down
      BY <2>2, ScannedSteps, DownStep
    <3>2. QED
      BY <1>1, <2>1, <3>1
  <2>3. CASE ~(key \in now <=> key \in kbd_stat)
    <3>1. g[i] = ProcessKey(now, g[i - 1], key)
      BY <2>3, ScannedSteps
    <3>2. Unstuck(g[i].mods, DownAfter(now, i))
      <4>1. CASE key \in now
        <5>1. g[i].mods = Pressed(mods, key)
          <6>1. g[i - 1] \in ScanStates
            BY <1>1, ScannedSteps
          <6> HIDE DEF g, key
          <6>2. QED
            BY <2>1, <3>1, <4>1, <6>1, ProcessKeyMods
        <5>2. DownAfter(now, i) = down \cup {key}
          BY <4>1, DownStep
        <5> HIDE DEF key, mods, down, g
        <5>3. QED
          BY <2>1, <5>1, <5>2, KeyUnstuck
      <4>2. CASE key \notin now
        <5>1. g[i].mods = Released(mods, key)
          <6>1. g[i - 1] \in ScanStates
            BY <1>1, ScannedSteps
          <6> HIDE DEF g, key
          <6>2. QED
            BY <2>1, <3>1, <4>2, <6>1, ProcessKeyMods
        <5>2. DownAfter(now, i) = down \ {key}
          BY <4>2, DownStep
        <5> HIDE DEF key, mods, down, g
        <5>3. QED
          BY <2>1, <5>1, <5>2, KeyUnstuck
      <4>3. QED
        BY <4>1, <4>2
    <3>3. QED
      BY <1>1, <3>2
  <2>4. QED
    BY <2>2, <2>3
<1>5. \A i \in 0 .. n : i \in T
  <2> HIDE DEF T, n
  <2>1. QED
    BY <1>1, <1>3, <1>4, CountUp
<1>6. QED
  BY <1>1, <1>2, <1>5 DEF ScanMatrix

-----------------------------------------------------------------------------
(* The characters of a word. *)

LEMMA ShortStrings ==
  /\ <<>> \in Seq(Chars)
  /\ \A c \in Chars : <<c>> \in Seq(Chars)
  /\ \A c, d \in Chars : <<c, d>> \in Seq(Chars)
OBVIOUS

LEMMA DigitsType ==
  ASSUME NEW mods
  PROVE  ModifierDigits(mods) \in Seq(Chars)
<1> DEFINE bit(m, n) == IF m \in mods THEN n ELSE 0
           number == 1 + bit("SHIFT", 1) + bit("CTRL", 2) + bit("ALT", 4) + bit("OS", 8)
<1>1. number \in 1 .. 16
  OBVIOUS
<1>2. ModifierDigits(mods) =
        CASE number = 1 -> <<>>
          [] number \in 2 .. 9 -> <<Zero + number>>
          [] OTHER -> <<Zero + number \div 10, Zero + (number % 10)>>
  BY DEF ModifierDigits
<1> HIDE DEF number
<1>3. CASE number = 1
  BY <1>2, <1>3
<1>4. CASE number \in 2 .. 9
  <2>1. ModifierDigits(mods) = <<Zero + number>>
    BY <1>2, <1>4
  <2>2. Zero + number \in Chars
    BY <1>4 DEF Zero, Chars
  <2>3. QED
    BY <2>1, <2>2, ShortStrings
<1>5. CASE number \in 10 .. 16
  <2>1. ModifierDigits(mods) = <<Zero + number \div 10, Zero + (number % 10)>>
    BY <1>2, <1>5
  <2>2. Zero + number \div 10 \in Chars /\ Zero + (number % 10) \in Chars
    BY <1>5 DEF Zero, Chars
  <2>3. QED
    BY <2>1, <2>2, ShortStrings
<1>6. QED
  BY <1>1, <1>3, <1>4, <1>5

LEMMA ToAnsiType ==
  ASSUME NEW mods, NEW c
  PROVE  ToAnsi(mods, c) \in Seq(Chars)
<1>1. CASE c \in DOMAIN AnsiKeys
  <2> DEFINE digits == ModifierDigits(mods)
             semicolon == IF digits = <<>> THEN <<>> ELSE <<59>>
  <2>1. /\ AnsiKeys[c] \in Seq(Chars) /\ Head(AnsiKeys[c]) \in Chars
        /\ digits \in Seq(Chars) /\ semicolon \in Seq(Chars)
        /\ <<91>> \in Seq(Chars) /\ <<126>> \in Seq(Chars)
    <3>1. 91 \in Chars /\ 126 \in Chars /\ 59 \in Chars
      BY DEF Chars
    <3>2. AnsiKeys[c] \in Seq(Chars) /\ AnsiKeys[c] # <<>>
      BY <1>1, KeyAssumption
    <3>3. Head(AnsiKeys[c]) \in Chars
      BY <3>2
    <3>4. digits \in Seq(Chars)
      BY DigitsType
    <3> HIDE DEF digits
    <3>5. QED
      BY <3>1, <3>2, <3>3, <3>4, ShortStrings
  <2>2. <<Head(AnsiKeys[c])>> \in Seq(Chars)
    BY <2>1, ShortStrings
  <2>3. ToAnsi(mods, c) = IF Head(AnsiKeys[c]) \in Zero .. Zero + 9
              THEN <<91>> \o AnsiKeys[c] \o semicolon \o digits \o <<126>>
              ELSE <<91>> \o digits \o <<Head(AnsiKeys[c])>>
    BY <1>1 DEF ToAnsi
  <2> HIDE DEF digits, semicolon
  <2>4. <<91>> \o AnsiKeys[c] \o semicolon \o digits \o <<126>> \in Seq(Chars)
    BY <2>1, ConcatProperties
  <2>5. <<91>> \o digits \o <<Head(AnsiKeys[c])>> \in Seq(Chars)
    BY <2>1, <2>2, ConcatProperties
  <2>6. QED
    BY <2>3, <2>4, <2>5
<1>2. CASE c \notin DOMAIN AnsiKeys
  <2>1. ESC \in Chars
    BY DEF ESC, Chars
  <2>2. QED
    BY <1>2, <2>1, ShortStrings DEF ToAnsi
<1>3. QED
  BY <1>1, <1>2

LEMMA CodeType ==
  ASSUME NEW scan \in Scans
  PROVE  Code(scan) \in Chars \cup {0} /\ FirstChar(scan) \in Chars \cup {0}
<1>1. scan.key \in Keys /\ scan.mods \in SUBSET Modifiers
  BY DEF Scans
<1>2. Table(scan.mods) \in Tables
  BY <1>1 DEF Table, Tables, Modifiers
<1>3. Code(scan) \in Chars \cup {0}
  BY <1>1, <1>2, KeyAssumption DEF Code
<1>4. QED
  BY <1>3 DEF FirstChar, ESC, Chars

-----------------------------------------------------------------------------
(* The invariant. *)

(* While the program is in the scan code loop of kbd_getc there is no      *)
(* character that could have been taken instead.                           *)
CallShape ==
  scanning => calling \in {"read", "status"} /\ key_buffer = 0 /\ char_buffer = <<>>

(* What the proofs of TypeOK, NoStuckModifier and OneSequence need of each *)
(* other: OneSequence rests on CallShape, and NoStuckModifier on the types.*)
Inv == TypeOK /\ CallShape /\ NoStuckModifier /\ OneSequence

LEMMA IrqType ==
  ASSUME TypeOK, NEW now \in SUBSET Keys, KbdHandleIrq(now)
  PROVE  TypeOK'
<1> DEFINE scan == ScanMatrix(now)
<1>1. scan \in ScanStates
  BY ScannedSteps, MatrixKeys DEF ScanMatrix
<1> HIDE DEF scan
<1>2. scan.words \in Seq(Scans) /\ scan.mods \in SUBSET Modifiers /\ scan.brk \in BOOLEAN
  BY <1>1 DEF ScanStates
<1>3. /\ scan_code_buffer' = scan_code_buffer \o scan.words
      /\ Len(scan_code_buffer) + Len(scan.words) <= MaxAhead
  BY DEF KbdHandleIrq, scan
<1>4. scan_code_buffer' \in Seq(Scans) /\ Len(scan_code_buffer') <= MaxAhead
  BY <1>2, <1>3, ConcatProperties DEF TypeOK
<1>5. /\ kbd_stat' = now /\ modifiers' = scan.mods /\ break_pressed' = scan.brk
      /\ UNCHANGED <<char_buffer, key_buffer, calling, scanning, answers>>
  BY DEF KbdHandleIrq, scan
<1>6. QED
  BY <1>2, <1>4, <1>5 DEF TypeOK, answers

LEMMA ProgramType ==
  ASSUME TypeOK, CallShape,
         (\E call \in {"read", "status", "break"} : Call(call)) \/ ConOpen \/ Proceed
  PROVE  TypeOK'
<1> USE DEF TypeOK, kbd, answers
<1>1. CASE \E call \in {"read", "status", "break"} : Call(call)
  BY <1>1 DEF Call
<1>2. CASE ConOpen
  BY <1>2 DEF ConOpen
<1>3. CASE ConPeeked
  BY <1>3 DEF ConPeeked
<1>4. CASE Getc
  <2>1. CASE char_buffer = <<>>
    BY <1>4, <2>1 DEF Getc
  <2>2. CASE char_buffer # <<>>
    <3>1. Head(char_buffer) \in Chars /\ Tail(char_buffer) \in Seq(Chars)
      BY <2>2
    <3>2. GetcReturns(Head(char_buffer)) /\ char_buffer' = Tail(char_buffer)
      BY <1>4, <2>2 DEF Getc
    <3>3. QED
      BY <1>4, <3>1, <3>2 DEF Getc, GetcReturns
  <2>3. QED
    BY <2>1, <2>2
<1>5. CASE GetcScan
  <2>1. CASE scan_code_buffer = <<>>
    BY <1>5, <2>1 DEF GetcScan, GetcReturns
  <2>2. CASE scan_code_buffer # <<>>
    <3> DEFINE scan == Head(scan_code_buffer)
    <3>1. /\ scan \in Scans /\ Tail(scan_code_buffer) \in Seq(Scans)
          /\ Len(Tail(scan_code_buffer)) <= MaxAhead
      BY <2>2, KeyAssumption
    <3>2. /\ FirstChar(scan) \in Chars \cup {0}
          /\ char_buffer \o ToAnsi(scan.mods, Code(scan)) \in Seq(Chars)
      BY <3>1, CodeType, ToAnsiType, ConcatProperties
    <3>3. CASE scan.press
      <4>1. /\ GetcReturns(FirstChar(scan))
            /\ char_buffer' = char_buffer \o ToAnsi(scan.mods, Code(scan))
            /\ scan_code_buffer' = Tail(scan_code_buffer) /\ UNCHANGED <<kbd, broken>>
        BY <1>5, <2>2, <3>3 DEF GetcScan
      <4> HIDE DEF scan
      <4>2. QED
        BY <3>1, <3>2, <4>1 DEF GetcReturns
    <3>4. CASE ~scan.press
      BY <1>5, <2>2, <3>1, <3>4 DEF GetcScan
    <3>5. QED
      BY <3>3, <3>4
  <2>3. QED
    BY <2>1, <2>2
<1>6. CASE BreakRead
  BY <1>6 DEF BreakRead
<1>7. CASE BreakClear
  BY <1>7 DEF BreakClear
<1>8. QED
  BY <1>1, <1>2, <1>3, <1>4, <1>5, <1>6, <1>7 DEF Proceed

(* A sequence is a suffix of itself, and so is what is left of a suffix    *)
(* when its first element is taken.                                        *)
LEMMA SuffixRules ==
  ASSUME NEW S, NEW t \in Seq(S)
  PROVE  /\ IsSuffix(t, t)
         /\ \A s \in Seq(S) : s # <<>> /\ IsSuffix(s, t) => IsSuffix(Tail(s), t)
<1>1. \A u \in Seq(S) : Reverse(u) \in Seq(S) /\ Len(Reverse(u)) = Len(u)
  BY DEF Reverse
<1>2. \A u, v \in Seq(S) :
        IsSuffix(u, v) <=> /\ Len(u) <= Len(v)
                           /\ \A i \in 1 .. Len(u) : Reverse(u)[i] = Reverse(v)[i]
  <2> SUFFICES ASSUME NEW u \in Seq(S), NEW v \in Seq(S)
               PROVE  IsSuffix(u, v) <=> /\ Len(u) <= Len(v)
                                         /\ \A i \in 1 .. Len(u) : Reverse(u)[i] = Reverse(v)[i]
    OBVIOUS
  <2>1. Reverse(u) \in Seq(S) /\ Reverse(v) \in Seq(S) /\ Len(Reverse(u)) = Len(u) /\ Len(Reverse(v)) = Len(v)
    BY <1>1
  <2>2. QED
    BY <2>1 DEF IsSuffix, IsPrefix
<1>3. IsSuffix(t, t)
  BY <1>2
<1>4. ASSUME NEW s \in Seq(S), s # <<>>, IsSuffix(s, t)
      PROVE  IsSuffix(Tail(s), t)
  <2>1. /\ Tail(s) \in Seq(S) /\ Len(Tail(s)) = Len(s) - 1 /\ Len(s) \in Nat \ {0}
        /\ \A i \in 1 .. Len(Tail(s)) : Tail(s)[i] = s[i + 1]
    BY <1>4, HeadTailProperties
  <2>2. ASSUME NEW i \in 1 .. Len(Tail(s))
        PROVE  Reverse(Tail(s))[i] = Reverse(s)[i]
    <3>1. Reverse(Tail(s))[i] = Tail(s)[(Len(Tail(s)) - i) + 1]
      BY DEF Reverse
    <3>2. Reverse(s)[i] = s[(Len(s) - i) + 1]
      BY <2>1 DEF Reverse
    <3>3. Tail(s)[(Len(Tail(s)) - i) + 1] = s[((Len(Tail(s)) - i) + 1) + 1]
      BY <2>1
    <3>4. QED
      BY <2>1, <3>1, <3>2, <3>3
  <2>3. Len(s) <= Len(t) /\ \A i \in 1 .. Len(s) : Reverse(s)[i] = Reverse(t)[i]
    BY <1>2, <1>4
  <2>4. Len(Tail(s)) <= Len(t) /\ 1 .. Len(Tail(s)) \subseteq 1 .. Len(s)
    BY <2>1, <2>3
  <2>5. \A i \in 1 .. Len(Tail(s)) : Reverse(Tail(s))[i] = Reverse(t)[i]
    BY <2>2, <2>3, <2>4
  <2>6. QED
    BY <1>2, <2>1, <2>4, <2>5
<1>5. QED
  BY <1>3, <1>4

(* What is left of a key's sequence when its first character is taken.     *)
LEMMA OneSequenceTail ==
  ASSUME TypeOK, OneSequence, char_buffer # <<>>, char_buffer' = Tail(char_buffer)
  PROVE  OneSequence'
<1>1. PICK mods \in SUBSET Modifiers, c \in DOMAIN AnsiKeys \cup {ESC} :
        IsSuffix(char_buffer, ToAnsi(mods, c))
  BY DEF OneSequence
<1>2. char_buffer \in Seq(Chars) /\ ToAnsi(mods, c) \in Seq(Chars)
  BY ToAnsiType DEF TypeOK
<1>3. IsSuffix(char_buffer', ToAnsi(mods, c))
  BY <1>1, <1>2, SuffixRules
<1>4. QED
  BY <1>3 DEF OneSequence

(* A sequence is started when char_buffer is empty.                        *)
LEMMA OneSequenceStart ==
  ASSUME TypeOK, NEW scan \in Scans, char_buffer = <<>>,
         char_buffer' = char_buffer \o ToAnsi(scan.mods, Code(scan))
  PROVE  OneSequence'
<1> DEFINE c == Code(scan)
<1>1. ToAnsi(scan.mods, c) \in Seq(Chars) /\ scan.mods \in SUBSET Modifiers
  BY ToAnsiType DEF Scans
<1>2. char_buffer' = ToAnsi(scan.mods, c)
  BY <1>1, ConcatEmptySeq
<1>3. CASE c \in DOMAIN AnsiKeys \cup {ESC}
  <2>1. IsSuffix(char_buffer', ToAnsi(scan.mods, c))
    BY <1>1, <1>2, SuffixRules
  <2> HIDE DEF c
  <2>2. QED
    BY <1>1, <1>3, <2>1 DEF OneSequence
<1>4. CASE c \notin DOMAIN AnsiKeys \cup {ESC}
  BY <1>2, <1>4 DEF ToAnsi, OneSequence
<1>5. QED
  BY <1>3, <1>4

LEMMA InitInv == Init => Inv
<1> SUFFICES ASSUME Init PROVE Inv
  OBVIOUS
<1>1. TypeOK
  <2>1. scan_code_buffer \in Seq(Scans) /\ Len(scan_code_buffer) <= MaxAhead
    BY KeyAssumption, EmptySeq DEF Init
  <2>2. char_buffer \in Seq(Chars)
    BY ShortStrings DEF Init
  <2>3. QED
    BY <2>1, <2>2 DEF Init, TypeOK
<1>2. CallShape /\ NoStuckModifier /\ OneSequence
  BY DEF Init, CallShape, NoStuckModifier, OneSequence
<1>3. QED
  BY <1>1, <1>2 DEF Inv

(* The interrupt touches neither the call nor the characters.              *)
LEMMA IrqInv ==
  ASSUME Inv, NEW now \in SUBSET Keys, KbdHandleIrq(now)
  PROVE  Inv'
<1>1. TypeOK'
  BY IrqType DEF Inv
<1>2. UNCHANGED <<char_buffer, key_buffer, calling, scanning>>
  BY DEF KbdHandleIrq
<1>3. CallShape' /\ OneSequence'
  BY <1>2 DEF Inv, CallShape, OneSequence
<1>4. NoStuckModifier'
  <2>1. modifiers' = ScanMatrix(now).mods /\ kbd_stat' = now
    BY DEF KbdHandleIrq
  <2>2. Unstuck(modifiers', kbd_stat')
    BY <2>1, ScanUnstuck DEF Inv
  <2>3. QED
    BY <2>2 DEF Unstuck, NoStuckModifier
<1>5. QED
  BY <1>1, <1>3, <1>4 DEF Inv

(* The program's steps leave the keys and the modifiers alone.             *)
LEMMA ProgramInv ==
  ASSUME Inv,
         (\E call \in {"read", "status", "break"} : Call(call)) \/ ConOpen \/ Proceed
  PROVE  Inv'
<1>1. TypeOK'
  BY ProgramType DEF Inv
<1>2. UNCHANGED <<kbd_stat, modifiers>>
  BY DEF Proceed, Call, ConOpen, ConPeeked, Getc, GetcScan, BreakRead, BreakClear, kbd
<1>3. NoStuckModifier'
  BY <1>2 DEF Inv, NoStuckModifier
<1>4. CallShape'
  <2>1. CASE (\E call \in {"read", "status", "break"} : Call(call)) \/ ConOpen
             \/ ConPeeked \/ BreakRead \/ BreakClear
    BY <2>1 DEF Inv, CallShape, Call, ConOpen, ConPeeked, BreakRead, BreakClear
  <2>2. CASE Getc
    BY <2>2 DEF Getc, GetcReturns, CallShape
  <2>3. CASE GetcScan
    <3>1. (UNCHANGED <<char_buffer, key_buffer, calling, scanning>>) \/ scanning' = FALSE
      BY <2>3 DEF GetcScan, GetcReturns
    <3>2. QED
      BY <3>1 DEF Inv, CallShape
  <2>4. QED
    BY <2>1, <2>2, <2>3 DEF Proceed
<1>5. OneSequence'
  <2>1. CASE UNCHANGED char_buffer
    BY <2>1 DEF Inv, OneSequence
  <2>2. CASE Getc
    <3>1. CASE char_buffer # <<>>
      BY <2>2, <3>1, OneSequenceTail DEF Inv, Getc
    <3>2. CASE char_buffer = <<>>
      BY <2>1, <2>2, <3>2 DEF Getc
    <3>3. QED
      BY <3>1, <3>2
  <2>3. CASE GetcScan
    <3> DEFINE scan == Head(scan_code_buffer)
    <3>1. CASE scan_code_buffer # <<>> /\ scan.press
      <4>1. scan \in Scans
        BY <3>1 DEF Inv, TypeOK
      <4>2. char_buffer = <<>>
        BY <2>3 DEF Inv, CallShape, GetcScan
      <4>3. char_buffer' = char_buffer \o ToAnsi(scan.mods, Code(scan))
        BY <2>3, <3>1 DEF GetcScan
      <4> HIDE DEF scan
      <4>4. QED
        BY <4>1, <4>2, <4>3, OneSequenceStart DEF Inv
    <3>2. CASE scan_code_buffer = <<>> \/ ~scan.press
      <4>1. UNCHANGED char_buffer
        BY <2>3, <3>2 DEF GetcScan
      <4>2. QED
        BY <2>1, <4>1
    <3>3. QED
      BY <3>1, <3>2
  <2>4. CASE (\E call \in {"read", "status", "break"} : Call(call)) \/ ConOpen
             \/ ConPeeked \/ BreakRead \/ BreakClear
    <3>1. UNCHANGED char_buffer
      BY <2>4 DEF Call, ConOpen, ConPeeked, BreakRead, BreakClear
    <3>2. QED
      BY <2>1, <3>1
  <2>5. QED
    BY <2>2, <2>3, <2>4 DEF Proceed
<1>6. QED
  BY <1>1, <1>3, <1>4, <1>5 DEF Inv

LEMMA NextInv == Inv /\ [Next]_vars => Inv'
<1> SUFFICES ASSUME Inv, [Next]_vars PROVE Inv'
  OBVIOUS
<1>1. CASE \E now \in SUBSET Keys : KbdHandleIrq(now)
  BY <1>1, IrqInv
<1>2. CASE (\E call \in {"read", "status", "break"} : Call(call)) \/ ConOpen \/ Proceed
  BY <1>2, ProgramInv
<1>3. CASE UNCHANGED vars
  <2>1. TypeOK'
    BY <1>3 DEF Inv, TypeOK, vars, kbd, answers
  <2>2. CallShape' /\ NoStuckModifier' /\ OneSequence'
    BY <1>3 DEF Inv, CallShape, NoStuckModifier, OneSequence, vars, kbd, answers
  <2>3. QED
    BY <2>1, <2>2 DEF Inv
<1>4. QED
  BY <1>1, <1>2, <1>3 DEF Next

LEMMA InvAlways == Spec => []Inv
BY InitInv, NextInv, PTL DEF Spec

(* Every variable of the keyboard driver and the console stays within its  *)
(* range, whatever the interrupts do between the steps of a call.          *)
THEOREM TypeCorrect == Spec => []TypeOK
<1>1. Inv => TypeOK
  BY DEF Inv
<1>2. QED
  BY <1>1, InvAlways, PTL

(* kbd_process_key: however many keys one scan finds changed, and in       *)
(* whatever order the matrix meets them, no modifier but CAPS stays set    *)
(* without a key that is down.                                             *)
THEOREM ModifiersFollowKeys == Spec => []NoStuckModifier
<1>1. Inv => NoStuckModifier
  BY DEF Inv
<1>2. QED
  BY <1>1, InvAlways, PTL

(* kbd_to_ansi: char_buffer holds the rest of at most one key's escape     *)
(* sequence.                                                               *)
THEOREM SequencesNeverMix == Spec => []OneSequence
<1>1. Inv => OneSequence
  BY DEF Inv
<1>2. QED
  BY <1>1, InvAlways, PTL

-----------------------------------------------------------------------------
(* FlattenSeq, which joins the characters of the words that wait. *)

Strings == Seq(Chars)
Cat(s, t) == s \o t

LEMMA CatRules ==
  /\ <<>> \in Strings
  /\ \A s, t \in Strings : Cat(s, t) \in Strings
  /\ \A s \in Strings : Cat(s, <<>>) = s /\ Cat(<<>>, s) = s
  /\ \A s, t, u \in Strings : Cat(Cat(s, t), u) = Cat(s, Cat(t, u))
<1>1. <<>> \in Strings
  BY ShortStrings DEF Strings
<1>2. \A s, t \in Strings : Cat(s, t) \in Strings
  BY ConcatProperties DEF Strings, Cat
<1>3. \A s \in Strings : Cat(s, <<>>) = s /\ Cat(<<>>, s) = s
  BY ConcatEmptySeq DEF Strings, Cat
<1>4. \A s, t, u \in Strings : Cat(Cat(s, t), u) = Cat(s, Cat(t, u))
  BY ConcatAssociative DEF Strings, Cat
<1>5. QED
  BY <1>1, <1>2, <1>3, <1>4

(* f joins the first n strings of ss, one after the other.                 *)
Joins(f, n, ss) ==
  /\ \A i \in 1 .. n : ss[i] \in Strings
  /\ \A i \in 0 .. n : f[i] \in Strings
  /\ f[0] = <<>>
  /\ \A i \in 1 .. n : f[i] = Cat(f[i - 1], ss[i])

LEMMA JoinsExists ==
  ASSUME NEW n \in Nat, NEW ss, \A i \in 1 .. n : ss[i] \in Strings
  PROVE  \E f : Joins(f, n, ss)
<1> DEFINE step == [i \in 1 .. n |-> [s \in Strings |-> Cat(s, ss[i])]]
           b == <<>>
<1>1. b \in Strings
  BY CatRules
<1>2. step \in Steps(n, Strings)
  BY CatRules DEF Steps
<1>3. PICK f \in Runs(n, Strings) : Stepwise(n, f, b, step)
  <2> HIDE DEF b, step
  <2>1. QED
    BY <1>1, <1>2, StepwiseExists
<1>4. \A i \in 0 .. n : f[i] \in Strings
  BY DEF Runs
<1>5. ASSUME NEW i \in 1 .. n
      PROVE  f[i] = Cat(f[i - 1], ss[i])
  <2>1. f[i - 1] \in Strings
    BY <1>4
  <2>2. f[i] = step[i][f[i - 1]]
    BY <1>3 DEF Stepwise
  <2>3. QED
    BY <2>1, <2>2
<1>6. Joins(f, n, ss)
  BY <1>3, <1>4, <1>5 DEF Joins, Stepwise
<1>7. QED
  BY <1>6

(* Joins that begin with the same strings agree that far.                  *)
LEMMA JoinsAgree ==
  ASSUME NEW k \in Nat, NEW n \in Nat, n <= k, NEW ss, NEW tt, NEW f, NEW g,
         Joins(f, k, ss), Joins(g, n, tt), \A i \in 1 .. n : tt[i] = ss[i]
  PROVE  f[n] = g[n]
<1> DEFINE T == {i \in 0 .. n : f[i] = g[i]}
<1>1. 0 \in T
  BY DEF Joins
<1>2. ASSUME NEW i \in 1 .. n, i - 1 \in T
      PROVE  i \in T
  <2>1. f[i] = Cat(f[i - 1], ss[i]) /\ g[i] = Cat(g[i - 1], tt[i])
    BY DEF Joins
  <2>2. QED
    BY <1>2, <2>1
<1>3. \A i \in 0 .. n : i \in T
  <2> HIDE DEF T
  <2>1. QED
    BY <1>1, <1>2, CountUp
<1>4. QED
  BY <1>3

LEMMA FlattenIs ==
  ASSUME NEW ss \in Seq(Strings), NEW f, Joins(f, Len(ss), ss)
  PROVE  FlattenSeq(ss) = f[Len(ss)] /\ FlattenSeq(ss) \in Strings
<1> DEFINE n == Len(ss)
           Is(h) == h = [i \in 1 .. n |-> IF i = 1 THEN ss[i] ELSE h[i - 1] \o ss[i]]
<1>1. n \in Nat /\ f[n] \in Strings
  BY DEF Joins
<1>2. CASE n = 0
  <2>1. FlattenSeq(ss) = ss /\ ss = <<>>
    BY <1>2 DEF FlattenSeq
  <2>2. QED
    BY <1>1, <1>2, <2>1 DEF Joins
<1>3. CASE n # 0
  <2> DEFINE h == [i \in 1 .. n |-> f[i]]
             c == CHOOSE g : Is(g)
  <2>1. f[1] = ss[1]
    <3>1. f[1] = Cat(f[1 - 1], ss[1]) /\ ss[1] \in Strings
      BY <1>1, <1>3 DEF Joins
    <3>2. QED
      BY <3>1, CatRules DEF Joins
  <2>2. Is(h)
    <3>1. ASSUME NEW i \in 1 .. n
          PROVE  f[i] = IF i = 1 THEN ss[i] ELSE h[i - 1] \o ss[i]
      <4>1. CASE i = 1
        BY <2>1, <4>1
      <4>2. CASE i # 1
        <5>1. h[i - 1] = f[i - 1]
          BY <4>2
        <5>2. f[i] = Cat(f[i - 1], ss[i])
          BY DEF Joins
        <5>3. QED
          BY <4>2, <5>1, <5>2, Zenon DEF Cat
      <4>3. QED
        BY <4>1, <4>2
    <3>2. QED
      BY <3>1, Zenon
  <2>3. Is(c)
    <3> HIDE DEF Is, h
    <3>1. QED
      BY <2>2
  <2>4. FlattenSeq(ss) = c[n]
    BY <1>3, Zenon DEF FlattenSeq
  <2> DEFINE Join(i) == c[i - 1] \o ss[i]
  <2>5. \A i \in 1 .. n : c[i] = IF i = 1 THEN ss[i] ELSE Join(i)
    <3> HIDE DEF c
    <3>1. c = [i \in 1 .. n |-> IF i = 1 THEN ss[i] ELSE Join(i)]
      BY <2>3
    <3> HIDE DEF Join
    <3>2. QED
      BY <3>1
  <2> HIDE DEF c, Is
  <2>6. \A i \in 1 .. n : Join(i) = Cat(c[i - 1], ss[i])
    BY Zenon DEF Cat
  <2> HIDE DEF Join
  <2> DEFINE T == {i \in 0 .. n : i # 0 => c[i] = f[i]}
  <2>7. 0 \in T
    BY <1>1
  <2>8. ASSUME NEW i \in 1 .. n, i - 1 \in T
        PROVE  i \in T
    <3>1. CASE i = 1
      BY <1>1, <2>1, <2>5, <3>1
    <3>2. CASE i # 1
      <4>1. c[i - 1] = f[i - 1]
        BY <2>8, <3>2
      <4>2. c[i] = Cat(c[i - 1], ss[i]) /\ f[i] = Cat(f[i - 1], ss[i])
        BY <2>5, <2>6, <3>2 DEF Joins
      <4>3. QED
        BY <1>1, <4>1, <4>2
    <3>3. QED
      BY <3>1, <3>2
  <2>9. \A i \in 0 .. n : i \in T
    <3> HIDE DEF T, n
    <3>1. QED
      BY <1>1, <2>7, <2>8, CountUp
  <2>10. c[n] = f[n]
    BY <1>1, <1>3, <2>9
  <2>11. QED
    BY <1>1, <2>4, <2>10
<1>4. QED
  BY <1>2, <1>3

(* A join of n + 1 strings is the first one, then the join of the others.  *)
LEMMA JoinsFirst ==
  ASSUME NEW n \in Nat, NEW ss, NEW tt, NEW f, NEW g,
         Joins(f, n + 1, ss), Joins(g, n, tt), \A i \in 1 .. n : tt[i] = ss[i + 1]
  PROVE  f[n + 1] = Cat(ss[1], g[n])
<1> DEFINE T == {i \in 0 .. n : f[i + 1] = Cat(ss[1], g[i])}
<1>1. ss[1] \in Strings /\ \A i \in 0 .. n : g[i] \in Strings
  BY DEF Joins
<1>2. \A i \in 0 .. n : f[i + 1] = Cat(f[i], ss[i + 1])
  <2>1. \A i \in 0 .. n : i + 1 \in 1 .. n + 1 /\ (i + 1) - 1 = i
    OBVIOUS
  <2>2. QED
    BY <2>1 DEF Joins
<1>3. 0 \in T
  <2>1. f[0] = <<>> /\ g[0] = <<>> /\ f[0 + 1] = Cat(f[0], ss[1])
    BY <1>2 DEF Joins
  <2>2. QED
    BY <1>1, <2>1, CatRules
<1>4. ASSUME NEW i \in 1 .. n, i - 1 \in T
      PROVE  i \in T
  <2>1. f[i] = Cat(ss[1], g[i - 1])
    <3>1. (i - 1) + 1 = i
      OBVIOUS
    <3>2. QED
      BY <1>4, <3>1
  <2>2. /\ f[i + 1] = Cat(f[i], tt[i]) /\ g[i] = Cat(g[i - 1], tt[i])
        /\ tt[i] \in Strings /\ g[i - 1] \in Strings
    BY <1>1, <1>2 DEF Joins
  <2>3. f[i + 1] = Cat(ss[1], g[i])
    <3> DEFINE x == ss[1]
               y == g[i - 1]
               z == tt[i]
    <3>1. /\ f[i + 1] = Cat(Cat(x, y), z) /\ g[i] = Cat(y, z)
          /\ x \in Strings /\ y \in Strings /\ z \in Strings
      BY <1>1, <2>1, <2>2
    <3> HIDE DEF x, y, z
    <3>2. f[i + 1] = Cat(x, Cat(y, z))
      BY <3>1, CatRules, Zenon
    <3>3. QED
      BY <3>1, <3>2 DEF x
  <2>4. QED
    BY <2>3
<1>5. \A i \in 0 .. n : i \in T
  <2> HIDE DEF T
  <2>1. QED
    BY <1>3, <1>4, CountUp
<1>6. QED
  BY <1>5

(* Further strings leave the join of the first ones in front.              *)
LEMMA JoinsMore ==
  ASSUME NEW k \in Nat, NEW m \in Nat, m <= k, NEW uu, NEW f, Joins(f, k, uu)
  PROVE  \E z \in Strings : f[k] = Cat(f[m], z)
<1> DEFINE n == k - m
           T == {j \in 0 .. n : \E z \in Strings : f[m + j] = Cat(f[m], z)}
<1>1. f[m] \in Strings
  BY DEF Joins
<1>2. 0 \in T
  <2>1. m + 0 = m /\ f[m] = Cat(f[m], <<>>)
    BY <1>1, CatRules
  <2>2. QED
    BY <2>1, CatRules
<1>3. ASSUME NEW j \in 1 .. n, j - 1 \in T
      PROVE  j \in T
  <2>1. PICK z \in Strings : f[m + (j - 1)] = Cat(f[m], z)
    BY <1>3
  <2>2. m + j \in 1 .. k /\ (m + j) - 1 = m + (j - 1)
    OBVIOUS
  <2>3. uu[m + j] \in Strings /\ f[m + j] = Cat(f[m + (j - 1)], uu[m + j])
    BY <2>2 DEF Joins
  <2>4. Cat(z, uu[m + j]) \in Strings /\ f[m + j] = Cat(f[m], Cat(z, uu[m + j]))
    <3> DEFINE x == f[m]
               y == uu[m + j]
    <3>1. f[m + j] = Cat(Cat(x, z), y) /\ x \in Strings /\ y \in Strings
      BY <1>1, <2>1, <2>3
    <3> HIDE DEF x, y
    <3>2. f[m + j] = Cat(x, Cat(z, y)) /\ Cat(z, y) \in Strings
      BY <3>1, CatRules, Zenon
    <3>3. QED
      BY <3>2 DEF x, y
  <2>5. QED
    BY <2>4
<1>4. \A j \in 0 .. n : j \in T
  <2>1. n \in Nat
    OBVIOUS
  <2> HIDE DEF T, n
  <2>2. QED
    BY <1>2, <1>3, <2>1, CountUp
<1>5. n \in 0 .. n /\ m + n = k
  OBVIOUS
<1> HIDE DEF n
<1>6. QED
  BY <1>4, <1>5

(* The first string can be taken off.                                      *)
LEMMA FlattenTail ==
  ASSUME NEW ss \in Seq(Strings), ss # <<>>
  PROVE  FlattenSeq(ss) = Cat(Head(ss), FlattenSeq(Tail(ss)))
<1> DEFINE n == Len(ss) - 1
           tt == Tail(ss)
<1>1. /\ tt \in Seq(Strings) /\ Len(tt) = n /\ n \in Nat /\ Len(ss) = n + 1
      /\ Head(ss) = ss[1]
      /\ \A i \in 1 .. n : tt[i] = ss[i + 1]
  BY HeadTailProperties
<1>2. /\ \A i \in 1 .. Len(ss) : ss[i] \in Strings
      /\ \A i \in 1 .. Len(tt) : tt[i] \in Strings
  <2> HIDE DEF tt
  <2>1. QED
    BY <1>1
<1> HIDE DEF tt, n
<1>3. PICK f : Joins(f, n + 1, ss)
  BY <1>1, <1>2, JoinsExists
<1>4. PICK g : Joins(g, n, tt)
  BY <1>1, <1>2, JoinsExists
<1>5. f[n + 1] = Cat(ss[1], g[n])
  BY <1>1, <1>3, <1>4, JoinsFirst
<1>6. FlattenSeq(ss) = f[n + 1]
  BY <1>1, <1>3, FlattenIs
<1>7. FlattenSeq(tt) = g[n]
  BY <1>1, <1>4, FlattenIs
<1>8. QED
  BY <1>1, <1>5, <1>6, <1>7 DEF tt

(* More strings behind leave what there was in front.                      *)
LEMMA FlattenPrefix ==
  ASSUME NEW ss \in Seq(Strings), NEW tt \in Seq(Strings)
  PROVE  \E z \in Strings : FlattenSeq(ss \o tt) = Cat(FlattenSeq(ss), z)
<1> DEFINE m == Len(ss)
           n == Len(tt)
           uu == ss \o tt
<1>1. /\ uu \in Seq(Strings) /\ Len(uu) = m + n /\ m \in Nat /\ n \in Nat
      /\ \A i \in 1 .. m : uu[i] = ss[i]
  BY ConcatProperties
<1> HIDE DEF uu
<1>2. /\ \A i \in 1 .. m + n : uu[i] \in Strings
      /\ \A i \in 1 .. m : ss[i] \in Strings
  BY <1>1
<1> HIDE DEF m, n
<1> DEFINE k == m + n
<1>3. k \in Nat /\ m <= k
  BY <1>1
<1>4. PICK f : Joins(f, k, uu)
  BY <1>2, <1>3, JoinsExists
<1> HIDE DEF k
<1>5. PICK g : Joins(g, m, ss)
  BY <1>1, <1>2, JoinsExists
<1>6. f[m] = g[m]
  BY <1>1, <1>3, <1>4, <1>5, JoinsAgree
<1>7. PICK z \in Strings : f[k] = Cat(f[m], z)
  BY <1>1, <1>3, <1>4, JoinsMore
<1>8. FlattenSeq(uu) = f[k]
  BY <1>1, <1>4, FlattenIs DEF k
<1>9. FlattenSeq(ss) = g[m]
  BY <1>1, <1>5, FlattenIs DEF m
<1>10. QED
  BY <1>6, <1>7, <1>8, <1>9 DEF uu

-----------------------------------------------------------------------------
(* The characters that wait, and TypeAhead. *)

(* The characters of the words in words; and Waiting, as a function of the *)
(* three variables it is made from.                                        *)
Expansions(words) == [i \in DOMAIN words |-> Expansion(words[i])]
Characters(words) == FlattenSeq(Expansions(words))
Peeked(key) == IF key = 0 THEN <<>> ELSE <<key>>
WaitingIn(key, rest, words) == Cat(Cat(Peeked(key), rest), Characters(words))

LEMMA WaitingIs ==
  /\ Waiting = WaitingIn(key_buffer, char_buffer, scan_code_buffer)
  /\ Waiting' = WaitingIn(key_buffer', char_buffer', scan_code_buffer')
BY Zenon DEF Waiting, WaitingIn, Peeked, Characters, Expansions, Cat

LEMMA ExpansionType ==
  ASSUME NEW scan \in Scans
  PROVE  Expansion(scan) \in Strings
<1>1. CASE ~scan.press \/ Code(scan) = 0
  BY <1>1, CatRules DEF Expansion
<1>2. CASE scan.press /\ Code(scan) # 0
  <2>1. FirstChar(scan) \in Chars
    BY <1>2, CodeType DEF FirstChar, ESC, Chars
  <2>2. <<FirstChar(scan)>> \in Strings
    BY <2>1, ShortStrings DEF Strings
  <2>3. ToAnsi(scan.mods, Code(scan)) \in Strings
    BY ToAnsiType DEF Strings
  <2>4. Expansion(scan) = Cat(<<FirstChar(scan)>>, ToAnsi(scan.mods, Code(scan)))
    BY <1>2, Zenon DEF Expansion, Cat
  <2>5. QED
    BY <2>2, <2>3, <2>4, CatRules
<1>3. QED
  BY <1>1, <1>2

LEMMA ExpansionsType ==
  ASSUME NEW words \in Seq(Scans)
  PROVE  /\ Expansions(words) \in Seq(Strings)
         /\ Len(Expansions(words)) = Len(words)
         /\ \A i \in 1 .. Len(words) : Expansions(words)[i] = Expansion(words[i])
<1>1. DOMAIN words = 1 .. Len(words) /\ Len(words) \in Nat
  OBVIOUS
<1>2. \A i \in 1 .. Len(words) : Expansion(words[i]) \in Strings
  BY ExpansionType
<1>3. QED
  BY <1>1, <1>2 DEF Expansions

LEMMA CharactersRules ==
  /\ Characters(<<>>) = <<>>
  /\ \A words \in Seq(Scans) : Characters(words) \in Strings
  /\ \A words \in Seq(Scans) : words # <<>> =>
       Characters(words) = Cat(Expansion(Head(words)), Characters(Tail(words)))
  /\ \A words, more \in Seq(Scans) :
       \E z \in Strings : Characters(words \o more) = Cat(Characters(words), z)
<1>1. Characters(<<>>) = <<>>
  <2>1. <<>> \in Seq(Scans)
    BY EmptySeq
  <2>2. Expansions(<<>>) = <<>>
    BY <2>1, ExpansionsType, EmptySeq
  <2>3. QED
    BY <2>2, EmptySeq DEF Characters, FlattenSeq
<1>2. ASSUME NEW words \in Seq(Scans)
      PROVE  Characters(words) \in Strings
  <2> DEFINE ss == Expansions(words)
  <2>1. ss \in Seq(Strings)
    BY ExpansionsType
  <2> HIDE DEF ss
  <2>2. Len(ss) \in Nat /\ \A i \in 1 .. Len(ss) : ss[i] \in Strings
    BY <2>1
  <2>3. PICK f : Joins(f, Len(ss), ss)
    BY <2>2, JoinsExists
  <2>4. QED
    BY <2>1, <2>3, FlattenIs DEF Characters, ss
<1>3. ASSUME NEW words \in Seq(Scans), words # <<>>
      PROVE  Characters(words) = Cat(Expansion(Head(words)), Characters(Tail(words)))
  <2>1. /\ Tail(words) \in Seq(Scans) /\ Len(words) \in Nat \ {0}
        /\ Len(Tail(words)) = Len(words) - 1
        /\ \A i \in 1 .. Len(Tail(words)) : Tail(words)[i] = words[i + 1]
    BY <1>3, HeadTailProperties
  <2> DEFINE ss == Expansions(words)
             tt == Expansions(Tail(words))
  <2>2. /\ ss \in Seq(Strings) /\ Len(ss) = Len(words)
        /\ \A i \in 1 .. Len(words) : ss[i] = Expansion(words[i])
    BY ExpansionsType
  <2>3. /\ tt \in Seq(Strings) /\ Len(tt) = Len(words) - 1
        /\ \A i \in 1 .. Len(words) - 1 : tt[i] = Expansion(Tail(words)[i])
    BY <2>1, ExpansionsType
  <2> HIDE DEF ss, tt
  <2>4. ss # <<>> /\ Head(ss) = Expansion(Head(words))
    BY <2>1, <2>2
  <2>5. /\ Tail(ss) \in Seq(Strings) /\ Len(Tail(ss)) = Len(words) - 1
        /\ \A i \in 1 .. Len(words) - 1 : Tail(ss)[i] = ss[i + 1]
    BY <2>2, <2>4, HeadTailProperties
  <2>6. ASSUME NEW i \in 1 .. Len(words) - 1
        PROVE  Tail(ss)[i] = tt[i]
    <3>1. Tail(ss)[i] = ss[i + 1] /\ i + 1 \in 1 .. Len(words)
      BY <2>1, <2>5
    <3>2. tt[i] = Expansion(words[i + 1])
      BY <2>1, <2>3
    <3>3. QED
      BY <2>2, <3>1, <3>2
  <2>7. Tail(ss) = tt
    BY <2>3, <2>5, <2>6, SeqEqual
  <2>8. FlattenSeq(ss) = Cat(Head(ss), FlattenSeq(tt))
    BY <2>2, <2>4, <2>7, FlattenTail
  <2>9. QED
    BY <2>4, <2>8 DEF Characters, ss, tt
<1>4. ASSUME NEW words \in Seq(Scans), NEW more \in Seq(Scans)
      PROVE  \E z \in Strings : Characters(words \o more) = Cat(Characters(words), z)
  <2> DEFINE both == words \o more
             ss == Expansions(words)
             tt == Expansions(more)
             uu == Expansions(both)
  <2>1. /\ both \in Seq(Scans) /\ Len(both) = Len(words) + Len(more)
        /\ Len(words) \in Nat /\ Len(more) \in Nat
        /\ \A i \in 1 .. Len(words) + Len(more) :
             both[i] = IF i <= Len(words) THEN words[i] ELSE more[i - Len(words)]
    BY ConcatProperties
  <2> HIDE DEF both
  <2>2. /\ ss \in Seq(Strings) /\ Len(ss) = Len(words)
        /\ \A i \in 1 .. Len(words) : ss[i] = Expansion(words[i])
    BY ExpansionsType
  <2>3. /\ tt \in Seq(Strings) /\ Len(tt) = Len(more)
        /\ \A i \in 1 .. Len(more) : tt[i] = Expansion(more[i])
    BY ExpansionsType
  <2>4. /\ uu \in Seq(Strings) /\ Len(uu) = Len(both)
        /\ \A i \in 1 .. Len(both) : uu[i] = Expansion(both[i])
    BY <2>1, ExpansionsType
  <2> HIDE DEF ss, tt, uu
  <2>5. /\ ss \o tt \in Seq(Strings) /\ Len(ss \o tt) = Len(both)
        /\ \A i \in 1 .. Len(both) :
             (ss \o tt)[i] = IF i <= Len(words) THEN ss[i] ELSE tt[i - Len(words)]
    BY <2>1, <2>2, <2>3, ConcatProperties
  <2>6. ASSUME NEW i \in 1 .. Len(both)
        PROVE  (ss \o tt)[i] = uu[i]
    <3>1. CASE i <= Len(words)
      BY <2>1, <2>2, <2>4, <2>5, <3>1
    <3>2. CASE ~(i <= Len(words))
      <4>1. i - Len(words) \in 1 .. Len(more)
        BY <2>1, <3>2
      <4>2. (ss \o tt)[i] = tt[i - Len(words)] /\ uu[i] = Expansion(both[i])
        BY <2>4, <2>5, <3>2
      <4>3. both[i] = more[i - Len(words)]
        BY <2>1, <3>2
      <4>4. QED
        BY <2>3, <4>1, <4>2, <4>3
    <3>3. QED
      BY <3>1, <3>2
  <2>7. ss \o tt = uu
    BY <2>4, <2>5, <2>6, SeqEqual
  <2>8. \E z \in Strings : FlattenSeq(uu) = Cat(FlattenSeq(ss), z)
    BY <2>2, <2>3, <2>7, FlattenPrefix
  <2>9. QED
    BY <2>8 DEF Characters, ss, uu, both
<1>5. QED
  BY <1>1, <1>2, <1>3, <1>4

LEMMA PeekedRules ==
  /\ Peeked(0) = <<>>
  /\ \A c \in Chars : Peeked(c) = <<c>> /\ Peeked(c) \in Strings
<1>1. Peeked(0) = <<>>
  BY DEF Peeked
<1>2. \A c \in Chars : Peeked(c) = <<c>>
  BY DEF Peeked, Chars
<1>3. QED
  BY <1>1, <1>2, ShortStrings DEF Strings

LEMMA FirstCharType ==
  ASSUME NEW scan \in Scans, Code(scan) # 0
  PROVE  FirstChar(scan) \in Chars
BY CodeType DEF FirstChar, ESC, Chars

LEMMA WaitingType ==
  ASSUME TypeOK
  PROVE  /\ Peeked(key_buffer) \in Strings /\ char_buffer \in Strings
         /\ Characters(scan_code_buffer) \in Strings
         /\ Waiting \in Strings
<1>1. Peeked(key_buffer) \in Strings
  BY PeekedRules, CatRules DEF TypeOK
<1>2. char_buffer \in Strings /\ Characters(scan_code_buffer) \in Strings
  BY CharactersRules DEF TypeOK, Strings
<1>3. QED
  BY <1>1, <1>2, WaitingIs, CatRules DEF WaitingIn

(* A string that begins with the character c.                              *)
LEMMA FirstOf ==
  ASSUME NEW c \in Chars, NEW s \in Strings
  PROVE  /\ Cat(<<c>>, s) # <<>> /\ Head(Cat(<<c>>, s)) = c /\ Tail(Cat(<<c>>, s)) = s
<1>1. <<c>> \in Strings /\ Len(<<c>>) = 1 /\ <<c>>[1] = c
  BY ShortStrings DEF Strings
<1> DEFINE t == <<c>> \o s
<1>2. /\ t \in Seq(Chars) /\ Len(t) = 1 + Len(s) /\ Len(s) \in Nat
      /\ \A i \in 1 .. 1 + Len(s) : t[i] = IF i <= 1 THEN <<c>>[i] ELSE s[i - 1]
  BY <1>1, ConcatProperties DEF Strings
<1> HIDE DEF t
<1>3. t # <<>> /\ Head(t) = c
  BY <1>1, <1>2
<1>4. /\ Tail(t) \in Seq(Chars) /\ Len(Tail(t)) = Len(s)
      /\ \A i \in 1 .. Len(s) : Tail(t)[i] = t[i + 1]
  BY <1>2, <1>3, HeadTailProperties
<1>5. \A i \in 1 .. Len(s) : Tail(t)[i] = s[i]
  BY <1>2, <1>4
<1>6. Tail(t) = s
  BY <1>4, <1>5, SeqEqual DEF Strings
<1>7. QED
  BY <1>3, <1>6 DEF Cat, t

(* The first character that waits, wherever it is.                         *)
LEMMA WaitingPeeked ==
  ASSUME TypeOK, key_buffer # 0
  PROVE  /\ Waiting # <<>> /\ Head(Waiting) = key_buffer
         /\ Tail(Waiting) = WaitingIn(0, char_buffer, scan_code_buffer)
<1> DEFINE rest == Cat(char_buffer, Characters(scan_code_buffer))
<1>1. key_buffer \in Chars /\ Peeked(key_buffer) = <<key_buffer>> /\ <<key_buffer>> \in Strings
  BY PeekedRules DEF TypeOK
<1>2. rest \in Strings
  BY WaitingType, CatRules
<1>3. Waiting = Cat(<<key_buffer>>, rest)
  <2> DEFINE x == <<key_buffer>>
             words == Characters(scan_code_buffer)
  <2>1. Waiting = Cat(Cat(x, char_buffer), words)
    BY <1>1, WaitingIs DEF WaitingIn
  <2>2. x \in Strings /\ char_buffer \in Strings /\ words \in Strings
    BY <1>1, WaitingType
  <2> HIDE DEF x, words
  <2>3. Waiting = Cat(x, Cat(char_buffer, words))
    BY <2>1, <2>2, CatRules
  <2>4. QED
    BY <2>3 DEF x, words
<1>4. WaitingIn(0, char_buffer, scan_code_buffer) = rest
  BY PeekedRules, WaitingType, CatRules DEF WaitingIn
<1> HIDE DEF rest
<1>5. QED
  BY <1>1, <1>2, <1>3, <1>4, FirstOf

LEMMA WaitingBuffered ==
  ASSUME TypeOK, key_buffer = 0, char_buffer # <<>>
  PROVE  /\ Head(char_buffer) \in Chars
         /\ Waiting # <<>> /\ Head(Waiting) = Head(char_buffer)
         /\ Tail(Waiting) = WaitingIn(0, Tail(char_buffer), scan_code_buffer)
         /\ Waiting = WaitingIn(Head(char_buffer), Tail(char_buffer), scan_code_buffer)
<1> DEFINE c == Head(char_buffer)
           cs == Tail(char_buffer)
           words == Characters(scan_code_buffer)
<1>1. c \in Chars /\ cs \in Strings /\ char_buffer = Cat(<<c>>, cs)
  <2>1. char_buffer \in Seq(Chars) /\ c \in Chars /\ cs \in Seq(Chars)
    BY DEF TypeOK
  <2>2. <<c>> \o cs = char_buffer
    BY <2>1
  <2>3. QED
    BY <2>1, <2>2 DEF Cat, Strings
<1> HIDE DEF c, cs
<1>2. words \in Strings /\ <<c>> \in Strings /\ Peeked(c) = <<c>> /\ Peeked(0) = <<>>
  BY <1>1, WaitingType, PeekedRules
<1> HIDE DEF words
<1>3. Waiting = Cat(char_buffer, words)
  <2>1. Waiting = Cat(Cat(<<>>, char_buffer), words)
    BY <1>2, WaitingIs DEF WaitingIn, words
  <2>2. QED
    BY <2>1, WaitingType, CatRules
<1>4. Waiting = Cat(<<c>>, Cat(cs, words)) /\ Cat(cs, words) \in Strings
  BY <1>1, <1>2, <1>3, CatRules, Zenon
<1>5. WaitingIn(0, cs, scan_code_buffer) = Cat(cs, words)
  BY <1>1, <1>2, CatRules DEF WaitingIn, words
<1>6. WaitingIn(c, cs, scan_code_buffer) = Cat(Cat(<<c>>, cs), words)
  BY <1>2 DEF WaitingIn, words
<1>7. QED
  BY <1>1, <1>3, <1>4, <1>5, <1>6, FirstOf DEF c, cs

(* When the loop of kbd_getc takes a word, what that word stands for moves *)
(* from the scan code ring to where its characters go.                     *)
LEMMA WaitingScanned ==
  ASSUME TypeOK, CallShape, scanning, scan_code_buffer # <<>>,
         NEW scan, scan = Head(scan_code_buffer)
  PROVE  /\ scan \in Scans
         /\ Expansion(scan) = <<>> =>
              Waiting = WaitingIn(0, <<>>, Tail(scan_code_buffer))
         /\ scan.press /\ Code(scan) # 0 =>
              /\ FirstChar(scan) \in Chars
              /\ Waiting # <<>> /\ Head(Waiting) = FirstChar(scan)
              /\ Tail(Waiting) = WaitingIn(0, ToAnsi(scan.mods, Code(scan)),
                                           Tail(scan_code_buffer))
              /\ Waiting = WaitingIn(FirstChar(scan), ToAnsi(scan.mods, Code(scan)),
                                     Tail(scan_code_buffer))
<1> DEFINE words == Characters(Tail(scan_code_buffer))
           c == FirstChar(scan)
           cs == ToAnsi(scan.mods, Code(scan))
<1>1. scan \in Scans /\ Tail(scan_code_buffer) \in Seq(Scans)
  BY DEF TypeOK
<1>2. words \in Strings /\ cs \in Strings /\ Expansion(scan) \in Strings
  BY <1>1, CharactersRules, ToAnsiType, ExpansionType DEF Strings
<1>3. Characters(scan_code_buffer) = Cat(Expansion(scan), words)
  BY CharactersRules DEF TypeOK
<1>4. Waiting = Cat(Expansion(scan), words)
  <2>1. key_buffer = 0 /\ char_buffer = <<>>
    BY DEF CallShape
  <2>2. Waiting = Cat(Cat(<<>>, <<>>), Cat(Expansion(scan), words))
    BY <1>3, <2>1, WaitingIs, PeekedRules DEF WaitingIn
  <2> HIDE DEF words
  <2>3. Cat(Expansion(scan), words) \in Strings
    BY <1>2, CatRules
  <2>4. QED
    BY <2>2, <2>3, CatRules
<1>5. ASSUME Expansion(scan) = <<>>
      PROVE  Waiting = WaitingIn(0, <<>>, Tail(scan_code_buffer))
  BY <1>2, <1>4, <1>5, CatRules, PeekedRules DEF WaitingIn
<1>6. ASSUME scan.press, Code(scan) # 0
      PROVE  /\ c \in Chars /\ Waiting = Cat(<<c>>, Cat(cs, words))
             /\ Waiting = Cat(Cat(<<c>>, cs), words)
  <2>1. c \in Chars
    BY <1>1, <1>6, FirstCharType
  <2>2. Expansion(scan) = Cat(<<c>>, cs)
    BY <1>6, Zenon DEF Expansion, Cat
  <2>3. <<c>> \in Strings
    BY <2>1, ShortStrings DEF Strings
  <2> DEFINE x == <<c>>
  <2>4. Waiting = Cat(Cat(x, cs), words) /\ x \in Strings
    BY <1>4, <2>2, <2>3
  <2> HIDE DEF c, cs, words, x
  <2>5. Cat(Cat(x, cs), words) = Cat(x, Cat(cs, words))
    BY <1>2, <2>4, CatRules
  <2>6. QED
    BY <2>1, <2>4, <2>5 DEF x
<1>7. WaitingIn(0, cs, Tail(scan_code_buffer)) = Cat(cs, words)
  BY <1>2, CatRules, PeekedRules DEF WaitingIn
<1>8. ASSUME c \in Chars
      PROVE  WaitingIn(c, cs, Tail(scan_code_buffer)) = Cat(Cat(<<c>>, cs), words)
  BY <1>8, PeekedRules DEF WaitingIn
<1>9. Cat(cs, words) \in Strings
  BY <1>2, CatRules
<1> HIDE DEF c, cs, words
<1>10. ASSUME scan.press, Code(scan) # 0
       PROVE  /\ c \in Chars /\ Waiting # <<>> /\ Head(Waiting) = c
              /\ Tail(Waiting) = WaitingIn(0, cs, Tail(scan_code_buffer))
              /\ Waiting = WaitingIn(c, cs, Tail(scan_code_buffer))
  BY <1>6, <1>7, <1>8, <1>9, <1>10, FirstOf
<1>11. QED
  BY <1>1, <1>5, <1>10 DEF c, cs

(* ConsoleInput does what TypeAhead promises. *)

LEMMA PromiseInit == Init => Promise!Init
<1> SUFFICES ASSUME Init PROVE Promise!Init
  OBVIOUS
<1>1. Waiting = <<>>
  <2>1. Waiting = WaitingIn(0, <<>>, <<>>)
    BY WaitingIs DEF Init
  <2>2. WaitingIn(0, <<>>, <<>>) = <<>>
    BY CatRules, CharactersRules, PeekedRules DEF WaitingIn
  <2>3. QED
    BY <2>1, <2>2
<1>2. QED
  BY <1>1 DEF Init, Promise!Init

(* A step that leaves the characters and the answers alone.                *)
LEMMA PromiseStutter ==
  ASSUME UNCHANGED <<kbd_stat, key_buffer, char_buffer, scan_code_buffer, delivered, readable>>
  PROVE  UNCHANGED Promise!vars
<1>1. Waiting' = Waiting
  BY WaitingIs
<1>2. QED
  BY <1>1 DEF Promise!vars

LEMMA IrqPromise ==
  ASSUME Inv, NEW now \in SUBSET Keys, KbdHandleIrq(now)
  PROVE  [Promise!Next]_Promise!vars
<1> DEFINE more == ScanMatrix(now).words
<1>1. /\ kbd_stat' = now /\ scan_code_buffer' = scan_code_buffer \o more
      /\ UNCHANGED <<char_buffer, key_buffer, delivered, readable>>
  BY DEF KbdHandleIrq, answers
<1>2. CASE now = kbd_stat
  <2>1. more = <<>>
    BY <1>2, ScanNothing DEF Inv
  <2>2. scan_code_buffer' = scan_code_buffer
    BY <1>1, <2>1, ConcatEmptySeq DEF Inv, TypeOK
  <2>3. QED
    BY <1>1, <1>2, <2>2, PromiseStutter
<1>3. CASE now # kbd_stat
  <2> DEFINE a == Cat(Peeked(key_buffer), char_buffer)
             b == Characters(scan_code_buffer)
  <2>1. more \in Seq(Scans)
    <3>1. ScanMatrix(now) \in ScanStates
      BY ScannedSteps, MatrixKeys DEF Inv, ScanMatrix
    <3>2. QED
      BY <3>1 DEF ScanStates
  <2>2. PICK z \in Strings : Characters(scan_code_buffer \o more) = Cat(b, z)
    <3> HIDE DEF more
    <3>1. QED
      BY <2>1, CharactersRules DEF Inv, TypeOK
  <2>3. /\ Waiting = Cat(a, b) /\ Waiting' = Cat(a, Cat(b, z))
        /\ a \in Strings /\ b \in Strings /\ Waiting \in Strings
    <3>1. Waiting' = Cat(a, Characters(scan_code_buffer'))
      BY <1>1, WaitingIs DEF WaitingIn
    <3>2. QED
      BY <1>1, <2>2, <3>1, WaitingIs, WaitingType, CatRules DEF WaitingIn, Inv
  <2> HIDE DEF a, b
  <2>4. Waiting' = Cat(Waiting, z)
    BY <2>3, CatRules
  <2> DEFINE w == Waiting
             v == w \o z
  <2>5. /\ w \in Seq(Chars) /\ z \in Seq(Chars) /\ Waiting' = v
    BY <2>3, <2>4 DEF Strings, Cat
  <2> HIDE DEF w
  <2>6. Len(v) >= Len(w) /\ SubSeq(v, 1, Len(w)) = w
    <3>1. /\ v \in Seq(Chars) /\ Len(v) = Len(w) + Len(z) /\ Len(w) \in Nat /\ Len(z) \in Nat
          /\ \A i \in 1 .. Len(w) + Len(z) : v[i] = IF i <= Len(w) THEN w[i] ELSE z[i - Len(w)]
      BY <2>5, ConcatProperties
    <3> HIDE DEF v
    <3>2. \A i \in 1 .. Len(w) : v[i] = w[i] /\ v[i] \in Chars
      BY <2>5, <3>1
    <3>3. /\ SubSeq(v, 1, Len(w)) \in Seq(Chars) /\ Len(SubSeq(v, 1, Len(w))) = Len(w)
          /\ \A i \in 1 .. Len(w) : SubSeq(v, 1, Len(w))[i] = w[i]
      BY <3>1, <3>2, SubSeqProperties
    <3>4. SubSeq(v, 1, Len(w)) = w
      BY <2>5, <3>3, SeqEqual
    <3>5. QED
      BY <3>1, <3>4
  <2> HIDE DEF v
  <2>7. Promise!Type
    BY <1>1, <1>3, <2>5, <2>6 DEF Promise!Type, w
  <2>8. QED
    BY <2>7 DEF Promise!Next
<1>4. QED
  BY <1>2, <1>3

LEMMA CallPromise ==
  ASSUME Inv, (\E call \in {"read", "status", "break"} : Call(call)) \/ ConOpen
              \/ BreakRead \/ BreakClear
  PROVE  [Promise!Next]_Promise!vars
<1>1. CASE \E call \in {"read", "status", "break"} : Call(call)
  <2>1. /\ UNCHANGED <<kbd_stat, key_buffer, char_buffer, scan_code_buffer>>
        /\ delivered' = 0 /\ readable' = FALSE
    BY <1>1 DEF Call, kbd
  <2>2. Waiting' = Waiting
    BY <2>1, WaitingIs
  <2>3. Promise!Begin
    BY <2>1, <2>2 DEF Promise!Begin
  <2>4. QED
    BY <2>3 DEF Promise!Next
<1>2. CASE ConOpen
  <2>1. /\ UNCHANGED <<kbd_stat, char_buffer, scan_code_buffer, delivered, readable>>
        /\ key_buffer' = 0
    BY <1>2 DEF ConOpen, kbd, answers
  <2>2. CASE key_buffer = 0
    BY <2>1, <2>2, PromiseStutter
  <2>3. CASE key_buffer # 0
    <3>1. Waiting # <<>> /\ Waiting' = Tail(Waiting)
      BY <2>1, <2>3, WaitingPeeked, WaitingIs DEF Inv
    <3>2. Promise!Reopen
      BY <2>1, <3>1 DEF Promise!Reopen
    <3>3. QED
      BY <3>2 DEF Promise!Next
  <2>4. QED
    BY <2>2, <2>3
<1>3. CASE BreakRead \/ BreakClear
  <2>1. UNCHANGED <<kbd_stat, key_buffer, char_buffer, scan_code_buffer, delivered, readable>>
    BY <1>3 DEF BreakRead, BreakClear, kbd
  <2>2. QED
    BY <2>1, PromiseStutter
<1>4. QED
  BY <1>1, <1>2, <1>3

(* kbd_getc or the peeked character supplies c, which is the oldest that   *)
(* waits, or 0: what the call does with it is a step of TypeAhead.         *)
LEMMA AnswerPromise ==
  ASSUME NEW c, UNCHANGED kbd_stat, calling \in {"read", "status"},
         c # 0 => Waiting # <<>> /\ c = Head(Waiting),
         calling = "read" =>
           /\ UNCHANGED readable
           /\ delivered' = IF c = 0 THEN delivered ELSE c
           /\ Waiting' = IF c = 0 THEN Waiting ELSE Tail(Waiting),
         calling = "status" =>
           /\ UNCHANGED delivered /\ readable' = (c # 0) /\ Waiting' = Waiting
  PROVE  [Promise!Next]_Promise!vars
<1>1. CASE calling = "read" /\ c = 0
  BY <1>1 DEF Promise!vars
<1>2. CASE calling = "read" /\ c # 0
  <2>1. Promise!Read
    BY <1>2 DEF Promise!Read
  <2>2. QED
    BY <2>1 DEF Promise!Next
<1>3. CASE calling = "status"
  <2>1. readable' \in {FALSE, Waiting # <<>>}
    <3>1. CASE c = 0
      BY <1>3, <3>1
    <3>2. CASE c # 0
      <4>1. (Waiting # <<>>) = TRUE /\ readable' = TRUE
        BY <1>3, <3>2
      <4>2. QED
        BY <4>1
    <3>3. QED
      BY <3>1, <3>2
  <2>2. Promise!Status
    BY <1>3, <2>1 DEF Promise!Status
  <2>3. QED
    BY <2>2 DEF Promise!Next
<1>4. QED
  BY <1>1, <1>2, <1>3

LEMMA ConPeekedPromise ==
  ASSUME Inv, ConPeeked
  PROVE  [Promise!Next]_Promise!vars
<1>1. /\ calling \in {"read", "status"} /\ key_buffer # 0
      /\ UNCHANGED <<kbd_stat, char_buffer, scan_code_buffer>>
      /\ calling = "read" => delivered' = key_buffer /\ key_buffer' = 0 /\ UNCHANGED readable
      /\ calling = "status" => readable' = TRUE /\ UNCHANGED <<key_buffer, delivered>>
  BY DEF ConPeeked, kbd
<1>2. /\ Waiting # <<>> /\ key_buffer = Head(Waiting)
      /\ Tail(Waiting) = WaitingIn(0, char_buffer, scan_code_buffer)
  BY <1>1, WaitingPeeked DEF Inv
<1>3. calling = "read" => Waiting' = Tail(Waiting)
  BY <1>1, <1>2, WaitingIs
<1>4. calling = "status" => Waiting' = Waiting
  BY <1>1, WaitingIs
<1>5. calling = "status" => readable' = (key_buffer # 0)
  BY <1>1
<1>6. QED
  BY <1>1, <1>2, <1>3, <1>4, <1>5, AnswerPromise

LEMMA GetcPromise ==
  ASSUME Inv, Getc
  PROVE  [Promise!Next]_Promise!vars
<1>1. CASE char_buffer = <<>>
  <2>1. UNCHANGED <<kbd_stat, key_buffer, char_buffer, scan_code_buffer, delivered, readable>>
    BY <1>1 DEF Getc, kbd
  <2>2. QED
    BY <2>1, PromiseStutter
<1>2. CASE char_buffer # <<>>
  <2> DEFINE c == Head(char_buffer)
             cs == Tail(char_buffer)
  <2>1. /\ calling \in {"read", "status"} /\ key_buffer = 0
        /\ GetcReturns(c) /\ char_buffer' = cs
        /\ UNCHANGED <<kbd_stat, scan_code_buffer>>
    BY <1>2 DEF Getc, kbd
  <2>2. /\ c \in Chars /\ Waiting # <<>> /\ Head(Waiting) = c
        /\ Tail(Waiting) = WaitingIn(0, cs, scan_code_buffer)
        /\ Waiting = WaitingIn(c, cs, scan_code_buffer)
    BY <1>2, <2>1, WaitingBuffered DEF Inv
  <2> HIDE DEF c, cs
  <2>3. c # 0
    BY <2>2 DEF Chars
  <2>4. calling = "read" =>
          delivered' = c /\ UNCHANGED readable /\ Waiting' = Tail(Waiting)
    BY <2>1, <2>2, <2>3, WaitingIs DEF GetcReturns
  <2>5. calling = "status" =>
          readable' = (c # 0) /\ UNCHANGED delivered /\ Waiting' = Waiting
    BY <2>1, <2>2, WaitingIs DEF GetcReturns
  <2>6. QED
    BY <2>1, <2>2, <2>3, <2>4, <2>5, AnswerPromise
<1>3. QED
  BY <1>1, <1>2

LEMMA GetcScanPromise ==
  ASSUME Inv, GetcScan
  PROVE  [Promise!Next]_Promise!vars
<1>1. /\ scanning /\ calling \in {"read", "status"} /\ key_buffer = 0
      /\ char_buffer = <<>> /\ UNCHANGED kbd_stat
  BY DEF Inv, CallShape, GetcScan, kbd
<1>2. CASE scan_code_buffer = <<>>
  <2>1. GetcReturns(0) /\ UNCHANGED <<scan_code_buffer, char_buffer>>
    BY <1>2 DEF GetcScan
  <2>2. key_buffer' = key_buffer /\ Waiting' = Waiting
    BY <1>1, <2>1, WaitingIs DEF GetcReturns
  <2>3. /\ calling = "read" => UNCHANGED <<delivered, readable>>
        /\ calling = "status" => readable' = (0 # 0) /\ UNCHANGED delivered
    BY <2>1 DEF GetcReturns
  <2>4. QED
    BY <1>1, <2>2, <2>3, AnswerPromise
<1>3. CASE scan_code_buffer # <<>>
  <2> DEFINE scan == Head(scan_code_buffer)
             words == Tail(scan_code_buffer)
             c == FirstChar(scan)
             cs == ToAnsi(scan.mods, Code(scan))
  <2>1. /\ scan \in Scans
        /\ Expansion(scan) = <<>> => Waiting = WaitingIn(0, <<>>, words)
        /\ scan.press /\ Code(scan) # 0 =>
             /\ c \in Chars
             /\ Waiting # <<>> /\ Head(Waiting) = c
             /\ Tail(Waiting) = WaitingIn(0, cs, words)
             /\ Waiting = WaitingIn(c, cs, words)
    BY <1>1, <1>3, WaitingScanned DEF Inv
  <2>2. /\ scan_code_buffer' = words
        /\ scan.press => GetcReturns(c) /\ char_buffer' = char_buffer \o cs
        /\ ~scan.press => UNCHANGED <<char_buffer, key_buffer, calling, delivered, readable>>
    BY <1>3 DEF GetcScan
  <2>3. scan.press => char_buffer' = cs
    BY <1>1, <2>2, ToAnsiType, ConcatEmptySeq
  <2>4. CASE ~scan.press
    <3>1. Waiting' = Waiting
      <4>1. Expansion(scan) = <<>>
        BY <2>4 DEF Expansion
      <4>2. QED
        BY <1>1, <2>1, <2>2, <2>4, <4>1, WaitingIs
    <3>2. QED
      BY <1>1, <2>2, <2>4, <3>1 DEF Promise!vars
  <2>5. CASE scan.press /\ Code(scan) = 0
    <3>1. c = 0 /\ cs = <<>> /\ Expansion(scan) = <<>>
      <4>1. 0 \notin DOMAIN AnsiKeys
        <5>1. DOMAIN AnsiKeys \subseteq 128 .. 152 /\ 0 \notin 128 .. 152
          BY KeyAssumption
        <5>2. QED
          BY <5>1
      <4>2. QED
        BY <2>5, <4>1 DEF FirstChar, ToAnsi, ESC, Expansion
    <3>2. GetcReturns(0) /\ char_buffer' = <<>>
      BY <2>2, <2>3, <2>5, <3>1
    <3>3. key_buffer' = 0
      BY <1>1, <3>2 DEF GetcReturns
    <3>4. Waiting' = Waiting
      BY <2>1, <2>2, <3>1, <3>2, <3>3, WaitingIs
    <3>5. /\ calling = "read" => UNCHANGED <<delivered, readable>>
          /\ calling = "status" => readable' = (0 # 0) /\ UNCHANGED delivered
      BY <3>2 DEF GetcReturns
    <3>6. QED
      BY <1>1, <3>4, <3>5, AnswerPromise
  <2>6. CASE scan.press /\ Code(scan) # 0
    <3> HIDE DEF scan, words, c, cs
    <3>1. c # 0 /\ GetcReturns(c) /\ char_buffer' = cs
      BY <2>1, <2>2, <2>3, <2>6 DEF Chars
    <3>2. calling = "read" =>
            delivered' = c /\ UNCHANGED readable /\ Waiting' = Tail(Waiting)
      BY <1>1, <2>1, <2>2, <2>6, <3>1, WaitingIs DEF GetcReturns
    <3>3. calling = "status" =>
            readable' = (c # 0) /\ UNCHANGED delivered /\ Waiting' = Waiting
      BY <2>1, <2>2, <2>6, <3>1, WaitingIs DEF GetcReturns
    <3>4. QED
      BY <1>1, <2>1, <2>6, <3>1, <3>2, <3>3, AnswerPromise
  <2>7. QED
    BY <2>4, <2>5, <2>6
<1>4. QED
  BY <1>2, <1>3

LEMMA PromiseNext == Inv /\ [Next]_vars => [Promise!Next]_Promise!vars
<1> SUFFICES ASSUME Inv, [Next]_vars PROVE [Promise!Next]_Promise!vars
  OBVIOUS
<1>1. CASE \E now \in SUBSET Keys : KbdHandleIrq(now)
  BY <1>1, IrqPromise
<1>2. CASE (\E call \in {"read", "status", "break"} : Call(call)) \/ ConOpen
           \/ BreakRead \/ BreakClear
  BY <1>2, CallPromise
<1>3. CASE ConPeeked
  BY <1>3, ConPeekedPromise
<1>4. CASE Getc
  BY <1>4, GetcPromise
<1>5. CASE GetcScan
  BY <1>5, GetcScanPromise
<1>6. CASE UNCHANGED vars
  <2>1. UNCHANGED <<kbd_stat, key_buffer, char_buffer, scan_code_buffer, delivered, readable>>
    BY <1>6 DEF vars, kbd, answers
  <2>2. QED
    BY <2>1, PromiseStutter
<1>7. QED
  BY <1>1, <1>2, <1>3, <1>4, <1>5, <1>6 DEF Next, Proceed

(* con_read_b, con_has_input, kbd_getc and kbd_handle_irq together deliver *)
(* each typed character once, in the order of the key presses, whatever    *)
(* the interleaving of interrupts and calls.                               *)
THEOREM TypeAheadImplemented == Spec => ImplementsTypeAhead
BY InvAlways, PromiseInit, PromiseNext, PTL DEF Spec, ImplementsTypeAhead, Promise!Spec
=============================================================================
