-------------------------- MODULE InterruptsProofs --------------------------
(***************************************************************************)
(* Theorems about what runs at interrupt level: the dispatcher of          *)
(* Interrupts, for any set of lines that devices raise, any numbers the    *)
(* program uses and any handlers; and the RingBuffer that a handler fills  *)
(* while the program empties it, for a ring of any size and any words.     *)
(***************************************************************************)
EXTENDS Interrupts, RingBuffer, SequenceTheorems, TLAPS

-----------------------------------------------------------------------------
(* The dispatcher. *)

(* No interrupt number stands for a line of group 2 that the dispatcher    *)
(* has a branch for.                                                       *)
LEMMA IntLineFact ==
  ASSUME NEW n
  PROVE  /\ IntLine(n) \in Lines \cup {None}
         /\ IntLine(n) # None => \A bit \in 0 .. 3 : IntLine(n) # <<2, bit>>
BY InterruptAssumption, SMT DEF IntLine, Lines, Groups

(* The lines of the dispatcher's current group have been read before it    *)
(* acknowledges or calls, and only then.                                   *)
BitsRead == isr \in {"out", "read"} => mask_bits = {}

(* The vectors of group 2 stay null: it is the reason why the wrong test   *)
(* before int_handle_23 does no harm.                                      *)
Group2Null == \A bit \in 0 .. 3 : handler[<<2, bit>>] = None

Structure == TypeOK /\ BitsRead /\ Group2Null
IInv == Structure /\ NoLostInterrupt

LEMMA InitIInv == Init => IInv
<1> SUFFICES ASSUME Init PROVE IInv
  OBVIOUS
<1>1. TypeOK
  BY DEF Init, TypeOK, Groups, LinesOf, Modifications
<1>2. BitsRead /\ NoLostInterrupt
  BY DEF Init, BitsRead, NoLostInterrupt
<1>3. Group2Null
  BY DEF Init, Group2Null, Lines, Groups
<1>4. QED
  BY <1>1, <1>2, <1>3 DEF IInv, Structure

-----------------------------------------------------------------------------
(* A line that is raised is pending.                                       *)
LEMMA RaiseIInv ==
  ASSUME NEW line \in Sources, Raise(line)
  PROVE  (Structure => Structure') /\ (IInv => IInv')
<1>1. TypeOK => TypeOK'
  BY InterruptAssumption DEF TypeOK, Raise, cpu, dispatcher
<1>2. BitsRead /\ Group2Null => BitsRead' /\ Group2Null'
  BY DEF Raise, BitsRead, Group2Null, dispatcher
<1>3. NoLostInterrupt => NoLostInterrupt'
  BY DEF Raise, NoLostInterrupt, dispatcher
<1>4. QED
  BY <1>1, <1>2, <1>3 DEF IInv, Structure

(* The program changes neither the pending lines nor the dispatcher.       *)
LEMMA ProgramIInv ==
  ASSUME Structure,
         \/ \E enable \in BOOLEAN : IntEnableAll(enable)
         \/ \E n \in Numbers, h \in Handlers \cup {None} : IntRegister(n, h)
         \/ \E op \in {"enable", "disable", "clear"}, n \in Numbers : ModifyRead(op, n)
         \/ MaskWrite
  PROVE  Structure' /\ (IInv => IInv')
<1>1. UNCHANGED <<pending, dispatcher, owed>>
  BY DEF IntEnableAll, IntRegister, ModifyRead, MaskWrite
<1>2. BitsRead' /\ (NoLostInterrupt => NoLostInterrupt')
  BY <1>1 DEF Structure, BitsRead, NoLostInterrupt, dispatcher
<1>3. TypeOK' /\ Group2Null'
  <2>1. CASE \E enable \in BOOLEAN : IntEnableAll(enable)
    BY <1>1, <2>1 DEF Structure, TypeOK, Group2Null, IntEnableAll, dispatcher
  <2>2. ASSUME NEW n \in Numbers, NEW h \in Handlers \cup {None}, IntRegister(n, h)
        PROVE  TypeOK' /\ Group2Null'
    <3>1. handler' \in [Lines -> Handlers \cup {None}]
      BY <2>2, IntLineFact DEF Structure, TypeOK, IntRegister
    <3>2. Group2Null'
      BY <2>2, IntLineFact DEF Structure, TypeOK, Group2Null, IntRegister
    <3>3. QED
      BY <1>1, <2>2, <3>1, <3>2 DEF Structure, TypeOK, IntRegister, cpu, dispatcher
  <2>3. ASSUME NEW op \in {"enable", "disable", "clear"}, NEW n \in Numbers,
               ModifyRead(op, n)
        PROVE  TypeOK' /\ Group2Null'
    <3>1. modifying' \in Modifications
      BY <2>3, IntLineFact DEF ModifyRead, Modifications, LinesOf
    <3>2. QED
      BY <1>1, <2>3, <3>1 DEF Structure, TypeOK, Group2Null, ModifyRead, dispatcher
  <2>4. CASE MaskWrite
    <3>1. masked' \subseteq Lines /\ modifying' \in Modifications
      BY <2>4 DEF Structure, TypeOK, MaskWrite, Modifications, LinesOf
    <3>2. QED
      BY <1>1, <2>4, <3>1 DEF Structure, TypeOK, Group2Null, MaskWrite, dispatcher
  <2>5. QED
    BY <2>1, <2>2, <2>3, <2>4
<1>4. QED
  BY <1>2, <1>3 DEF Structure, IInv

(* int_clear does lose interrupts, but keeps the types.                    *)
LEMMA ClearStructure ==
  ASSUME Structure, ClearWrite
  PROVE  Structure'
<1>1. TypeOK'
  BY DEF Structure, TypeOK, ClearWrite, dispatcher, Modifications
<1>2. QED
  BY <1>1 DEF Structure, BitsRead, Group2Null, ClearWrite, dispatcher

-----------------------------------------------------------------------------
(* The dispatcher, step by step.                                           *)

LEMMA NextGroupFact ==
  ASSUME group \in Groups, NextGroup
  PROVE  isr' \in {"out", "read"} /\ group' \in Groups
BY DEF NextGroup, Groups

(* Where a line is called or passed over, it is no longer owed.            *)
LEMMA CallFact ==
  ASSUME Structure, NEW line \in Lines, IsrCall(line), line \in Dispatched
  PROVE  line \notin owed'
<1>1. CASE line = <<2, 3>>
  <2>1. handler[line] = None
    BY <1>1 DEF Structure, Group2Null
  <2>2. QED
    BY <2>1 DEF IsrCall
<1>2. CASE line # <<2, 3>>
  BY <1>2 DEF IsrCall, Calls, TestedFor
<1>3. QED
  BY <1>1, <1>2

LEMMA DispatcherIInv ==
  ASSUME Structure, Dispatcher
  PROVE  Structure' /\ (IInv => IInv')
<1> USE DEF Structure
<1>1. UNCHANGED <<masked, handler, cpu>>
  BY DEF Dispatcher, IsrEnter, IsrRead, IsrAck, IsrCall, IsrGroupDone
<1>2. Group2Null'
  BY <1>1 DEF Group2Null
<1>3. ASSUME pending' \subseteq Lines, isr' \in {"out", "read", "ack", "call"},
             group' \in Groups, mask_bits' \subseteq LinesOf(group)', owed' \subseteq Lines
      PROVE  TypeOK'
  BY <1>1, <1>3 DEF TypeOK, cpu
<1>4. CASE IsrEnter
  <2>1. TypeOK' /\ BitsRead'
    BY <1>3, <1>4 DEF TypeOK, BitsRead, IsrEnter, ProgramRuns, Groups, LinesOf
  <2>2. NoLostInterrupt => NoLostInterrupt'
    BY <1>4 DEF NoLostInterrupt, IsrEnter
  <2>3. QED
    BY <1>2, <2>1, <2>2 DEF IInv
<1>5. CASE IsrRead
  <2>1. mask_bits = {} /\ UNCHANGED <<pending, owed>>
    BY <1>5 DEF BitsRead, IsrRead
  <2>2. CASE mask_bits' = {}
    <3>1. isr' \in {"out", "read"} /\ group' \in Groups
      BY <1>5, <2>2, NextGroupFact DEF TypeOK, IsrRead
    <3>2. TypeOK' /\ BitsRead'
      BY <1>3, <2>1, <2>2, <3>1 DEF TypeOK, BitsRead
    <3>3. QED
      BY <1>2, <2>1, <2>2, <3>2 DEF IInv, NoLostInterrupt
  <2>3. CASE mask_bits' # {}
    <3>1. TypeOK' /\ BitsRead'
      BY <1>3, <1>5, <2>1, <2>3 DEF TypeOK, BitsRead, IsrRead, LinesOf
    <3>2. QED
      BY <1>2, <2>1, <3>1 DEF IInv, NoLostInterrupt
  <2>4. QED
    BY <2>2, <2>3
<1>6. CASE IsrAck
  <2>1. TypeOK' /\ BitsRead'
    BY <1>3, <1>6 DEF TypeOK, BitsRead, IsrAck, LinesOf
  <2>2. NoLostInterrupt => NoLostInterrupt'
    BY <1>6 DEF NoLostInterrupt, IsrAck
  <2>3. QED
    BY <1>2, <2>1, <2>2 DEF IInv
<1>7. ASSUME NEW line \in Lines, IsrCall(line)
      PROVE  Structure' /\ (IInv => IInv')
  <2>1. TypeOK' /\ BitsRead'
    BY <1>3, <1>7 DEF TypeOK, BitsRead, IsrCall, LinesOf
  <2>2. NoLostInterrupt => NoLostInterrupt'
    BY <1>7, CallFact DEF NoLostInterrupt, IsrCall
  <2>3. QED
    BY <1>2, <2>1, <2>2 DEF IInv
<1>8. CASE IsrGroupDone
  <2>1. isr' \in {"out", "read"} /\ group' \in Groups
    BY <1>8, NextGroupFact DEF TypeOK, IsrGroupDone
  <2>2. TypeOK' /\ BitsRead'
    BY <1>3, <1>8, <2>1 DEF TypeOK, BitsRead, IsrGroupDone
  <2>3. NoLostInterrupt => NoLostInterrupt'
    BY <1>8 DEF NoLostInterrupt, IsrGroupDone
  <2>4. QED
    BY <1>2, <2>2, <2>3 DEF IInv
<1>9. QED
  BY <1>4, <1>5, <1>6, <1>7, <1>8 DEF Dispatcher

-----------------------------------------------------------------------------
LEMMA FirmwareNextIInv ==
  ASSUME Structure, FirmwareNext
  PROVE  Structure' /\ (IInv => IInv')
<1>1. CASE \E line \in Sources : Raise(line)
  BY <1>1, RaiseIInv
<1>2. CASE \E op \in {"enable", "disable"}, n \in Numbers : ModifyRead(op, n)
  BY <1>2, ProgramIInv
<1>3. QED
  BY <1>1, <1>2, ProgramIInv, DispatcherIInv DEF FirmwareNext

LEMMA StutterIInv ==
  ASSUME UNCHANGED vars
  PROVE  (Structure => Structure') /\ (IInv => IInv')
BY DEF vars, cpu, dispatcher, IInv, Structure, TypeOK, BitsRead, Group2Null,
       NoLostInterrupt

(* The registers, the vectors and the dispatcher keep their types, even    *)
(* when programs call int_clear.                                           *)
THEOREM TypeCorrect == Spec => []TypeOK
<1>1. Structure /\ [Next]_vars => Structure'
  <2>1. ASSUME Structure, NEW n \in Numbers, ModifyRead("clear", n) PROVE Structure'
    BY <2>1, ProgramIInv
  <2>2. QED
    BY <2>1, FirmwareNextIInv, ClearStructure, StutterIInv DEF Next
<1>2. Init => Structure
  BY InitIInv DEF IInv
<1>3. Structure => TypeOK
  BY DEF Structure
<1>4. QED
  BY <1>1, <1>2, <1>3, PTL DEF Spec

(* As long as nothing calls int_clear, no interrupt of a line that the     *)
(* dispatcher knows is lost, in whatever order devices raise lines.        *)
THEOREM NoneLost == FirmwareSpec => []NoLostInterrupt
<1>1. IInv /\ [FirmwareNext]_vars => IInv'
  BY FirmwareNextIInv, StutterIInv DEF IInv
<1>2. IInv => NoLostInterrupt
  BY DEF IInv
<1>3. QED
  BY InitIInv, <1>1, <1>2, PTL DEF FirmwareSpec

(* The dispatcher calls no null pointer, whatever numbers are registered.  *)
THEOREM NeverCallsNull == FirmwareSpec => NoNullCall
<1> DEFINE Good == \A line \in Lines : IsrCall(line) /\ Calls(line) => handler[line] # None
<1>1. IInv /\ [FirmwareNext]_vars => IInv'
  BY FirmwareNextIInv, StutterIInv DEF IInv
<1>2. IInv => Good
  <2> SUFFICES ASSUME IInv, NEW line \in Lines, IsrCall(line), Calls(line)
               PROVE  handler[line] # None
    OBVIOUS
  <2>1. handler[<<2, 2>>] = None
    BY DEF IInv, Structure, Group2Null
  <2>2. QED
    BY <2>1 DEF Calls, TestedFor
<1>3. IInv => [Good]_vars
  BY <1>2
<1>4. QED
  BY InitIInv, <1>1, <1>3, PTL DEF FirmwareSpec, NoNullCall

-----------------------------------------------------------------------------
(* The word ring. *)

(* What the steps of a get need to know of each other: a get that has      *)
(* found the ring non-empty still finds a word when it comes to load it.   *)
RingInv == RingTypeOK /\ OnlyPutWords

LEMMA RingInitInv == rb_word_init => RingInv
<1> SUFFICES ASSUME rb_word_init PROVE RingInv
  OBVIOUS
<1>1. 0 \in Slots /\ 0 # MAX_BUFFER_SIZE
  BY SizeAssumption DEF Slots
<1>2. RingTypeOK
  BY <1>1 DEF rb_word_init, RingTypeOK
<1>3. OnlyPutWords
  BY <1>1 DEF rb_word_init, OnlyPutWords, Occupied, WholeRing, First, Slots
<1>4. QED
  BY <1>2, <1>3 DEF RingInv

(* A put may run in any state of a get.                                    *)
LEMMA PutInv ==
  ASSUME RingInv, NEW w \in Words, rb_word_put(w)
  PROVE  RingInv'
<1> USE SizeAssumption DEF Slots
<1>1. RingTypeOK'
  BY DEF RingInv, RingTypeOK, rb_word_put, Wrap
<1>2. CASE rb_word_full
  <2>1. UNCHANGED ring_vars
    BY <1>2 DEF rb_word_put, ring_vars, ring
  <2>2. OnlyPutWords'
    BY <2>1 DEF RingInv, OnlyPutWords, Occupied, WholeRing, First, ring_vars, ring
  <2>3. QED
    BY <1>1, <2>2 DEF RingInv
<1>3. CASE ~rb_word_full
  <2>1. /\ head \in Slots /\ First \in Slots /\ First' = First
        /\ head' = IF head = MAX_BUFFER_SIZE - 1 THEN 0 ELSE head + 1
    BY <1>3 DEF RingInv, RingTypeOK, rb_word_put, Wrap, First
  <2>2. \A s \in Slots : buffer'[s] = IF s = head THEN w ELSE buffer[s]
    BY <1>3 DEF RingInv, RingTypeOK, rb_word_put
  <2>3. \A s \in Slots : Occupied(s)' => s = head \/ Occupied(s)
    <3>1. getting' = getting
      BY DEF rb_word_put
    <3>2. QED
      BY <2>1, <3>1 DEF Occupied, WholeRing
  <2>4. OnlyPutWords'
    BY <2>2, <2>3 DEF RingInv, OnlyPutWords, rb_word_put
  <2>5. QED
    BY <1>1, <2>4 DEF RingInv
<1>4. QED
  BY <1>2, <1>3

(* Each step of a get, wherever puts have left the ring.                   *)
LEMMA GetInv ==
  ASSUME RingInv, GetTest \/ GetLoad \/ GetAdvance \/ GetWrap
  PROVE  RingInv'
<1> USE SizeAssumption DEF Slots
<1>1. CASE GetTest
  <2>1. RingTypeOK'
    BY <1>1 DEF RingInv, RingTypeOK, GetTest, ring
  <2>2. OnlyPutWords'
    BY <1>1 DEF RingInv, RingTypeOK, OnlyPutWords, Occupied, WholeRing, First, GetTest, ring,
                rb_word_empty
  <2>3. QED
    BY <2>1, <2>2 DEF RingInv
<1>2. CASE GetLoad
  <2>1. First = tail /\ tail \in Slots
    BY <1>2 DEF RingInv, RingTypeOK, GetLoad, First
  <2>2. Occupied(tail)
    BY <1>2, <2>1 DEF RingInv, RingTypeOK, GetLoad, Occupied, WholeRing
  <2>3. data' \in Words
    BY <1>2, <2>1, <2>2 DEF RingInv, OnlyPutWords, GetLoad
  <2>4. RingTypeOK'
    BY <1>2, <2>3 DEF RingInv, RingTypeOK, GetLoad, ring
  <2>5. \A s \in Slots : Occupied(s)' => Occupied(s)
    BY <1>2 DEF GetLoad, ring, Occupied, WholeRing, First
  <2>6. OnlyPutWords'
    BY <1>2, <2>3, <2>5 DEF RingInv, OnlyPutWords, GetLoad, ring
  <2>7. QED
    BY <2>4, <2>6 DEF RingInv
<1>3. CASE GetAdvance
  <2>1. RingTypeOK'
    BY <1>3 DEF RingInv, RingTypeOK, GetAdvance
  <2>2. \A s \in Slots : Occupied(s)' => Occupied(s)
    BY <1>3 DEF RingInv, RingTypeOK, GetAdvance, Occupied, WholeRing, First
  <2>3. OnlyPutWords'
    BY <1>3, <2>2 DEF RingInv, OnlyPutWords, GetAdvance
  <2>4. QED
    BY <2>1, <2>3 DEF RingInv
<1>4. CASE GetWrap
  <2>1. RingTypeOK'
    BY <1>4 DEF RingInv, RingTypeOK, GetWrap, Wrap
  <2>2. \A s \in Slots : Occupied(s)' => Occupied(s)
    BY <1>4 DEF RingInv, RingTypeOK, GetWrap, Wrap, Occupied, WholeRing, First
  <2>3. OnlyPutWords'
    BY <1>4, <2>2 DEF RingInv, OnlyPutWords, GetWrap
  <2>4. QED
    BY <2>1, <2>3 DEF RingInv
<1>5. QED
  BY <1>1, <1>2, <1>3, <1>4

LEMMA RingNextInv == RingInv /\ [RingNext]_ring_vars => RingInv'
<1>1. ASSUME RingInv, UNCHANGED ring_vars PROVE RingInv'
  BY <1>1 DEF RingInv, RingTypeOK, OnlyPutWords, Occupied, WholeRing, First, ring_vars, ring
<1>2. QED
  BY <1>1, PutInv, GetInv DEF RingNext

(* In a ring of any size the indices stay within it: the slots that        *)
(* rb_word_put writes and rb_word_get reads are always slots of the buffer,*)
(* whichever steps interleave.                                             *)
THEOREM RingTypeCorrect == RingSpec => []RingTypeOK
<1>1. RingInv => RingTypeOK
  BY DEF RingInv
<1>2. QED
  BY RingInitInv, RingNextInv, <1>1, PTL DEF RingSpec

(* In a ring of any size no get delivers a slot that was never written,    *)
(* even after puts have overrun the ring between its steps.                *)
THEOREM NoStrayWords == RingSpec => []OnlyPutWords
<1>1. RingInv => OnlyPutWords
  BY DEF RingInv
<1>2. QED
  BY RingInitInv, RingNextInv, <1>1, PTL DEF RingSpec

-----------------------------------------------------------------------------
(* The words that wait, as a queue. *)

(* The slot j places after slot f; the number of slots from f to h; and    *)
(* the words of the c slots of b that begin with f.                        *)
At(f, j) == IF f + j < MAX_BUFFER_SIZE THEN f + j ELSE (f + j) - MAX_BUFFER_SIZE
Distance(f, h) == IF f <= h THEN h - f ELSE (h - f) + MAX_BUFFER_SIZE
WordsFrom(b, f, c) == [i \in 1 .. c |-> b[((f + i) - 1) % MAX_BUFFER_SIZE]]

LEMMA Modulo ==
  ASSUME NEW n \in Nat, n > 0, NEW a \in Int, -n < a, a < 2 * n
  PROVE  a % n = IF a < 0 THEN a + n ELSE IF a < n THEN a ELSE a - n
OBVIOUS

LEMMA AtIs ==
  ASSUME NEW f \in Slots, NEW i \in 1 .. MAX_BUFFER_SIZE
  PROVE  ((f + i) - 1) % MAX_BUFFER_SIZE = At(f, i - 1) /\ At(f, i - 1) \in Slots
BY Modulo, SizeAssumption DEF At, Slots

LEMMA DistanceIs ==
  ASSUME NEW f \in Slots, NEW h \in Slots
  PROVE  (h - f) % MAX_BUFFER_SIZE = Distance(f, h) /\ Distance(f, h) \in 0 .. MAX_BUFFER_SIZE - 1
BY Modulo, SizeAssumption DEF Distance, Slots

(* One word more is put: the distance grows, unless the ring comes round.  *)
LEMMA DistanceGrows ==
  ASSUME NEW f \in Slots, NEW h \in Slots
  PROVE  Distance(f, Wrap(h + 1)) = IF Wrap(h + 1) = f THEN 0 ELSE Distance(f, h) + 1
<1>1. CASE h + 1 >= MAX_BUFFER_SIZE
  BY <1>1, SizeAssumption DEF Distance, Wrap, Slots
<1>2. CASE ~(h + 1 >= MAX_BUFFER_SIZE)
  BY <1>2, SizeAssumption DEF Distance, Wrap, Slots
<1>3. QED
  BY <1>1, <1>2

Values == Words \cup {0}

LEMMA WordsFromIs ==
  ASSUME NEW b \in [Slots -> Values], NEW f \in Slots, NEW c \in 0 .. MAX_BUFFER_SIZE
  PROVE  /\ WordsFrom(b, f, c) \in Seq(Values)
         /\ Len(WordsFrom(b, f, c)) = c
         /\ \A i \in 1 .. c : WordsFrom(b, f, c)[i] = b[At(f, i - 1)]
<1>1. c \in Nat /\ \A i \in 1 .. c : i \in 1 .. MAX_BUFFER_SIZE
  BY SizeAssumption
<1>2. \A i \in 1 .. c : /\ ((f + i) - 1) % MAX_BUFFER_SIZE = At(f, i - 1)
                          /\ b[At(f, i - 1)] \in Values
  BY <1>1, AtIs
<1> DEFINE e == [i \in 1 .. c |-> b[At(f, i - 1)]]
<1>3. WordsFrom(b, f, c) = e
  BY <1>2 DEF WordsFrom
<1>4. e \in [1 .. c -> Values] /\ \A i \in 1 .. c : e[i] = b[At(f, i - 1)]
  BY <1>2
<1> HIDE DEF e
<1>5. e \in Seq(Values) /\ Len(e) = c
  BY <1>1, <1>4
<1>6. QED
  BY <1>3, <1>4, <1>5

(* A word written behind the others is appended to them.                   *)
LEMMA WordsFromAppend ==
  ASSUME NEW b \in [Slots -> Values], NEW f \in Slots, NEW c \in 0 .. MAX_BUFFER_SIZE - 1,
         NEW w \in Words
  PROVE  WordsFrom([b EXCEPT ![At(f, c)] = w], f, c + 1) = Append(WordsFrom(b, f, c), w)
<1> DEFINE bb == [b EXCEPT ![At(f, c)] = w]
           s == WordsFrom(b, f, c)
           t == WordsFrom(bb, f, c + 1)
<1>1. c \in 0 .. MAX_BUFFER_SIZE /\ c + 1 \in 0 .. MAX_BUFFER_SIZE /\ w \in Values
  BY SizeAssumption DEF Values
<1>2. At(f, c) \in Slots /\ \A i \in 1 .. c : At(f, i - 1) \in Slots /\ At(f, i - 1) # At(f, c)
  BY SizeAssumption DEF At, Slots
<1>3. /\ bb \in [Slots -> Values] /\ bb[At(f, c)] = w
      /\ \A i \in 1 .. c : bb[At(f, i - 1)] = b[At(f, i - 1)]
  BY <1>1, <1>2
<1>4. /\ s \in Seq(Values) /\ Len(s) = c /\ \A i \in 1 .. c : s[i] = b[At(f, i - 1)]
  BY <1>1, WordsFromIs
<1> HIDE DEF bb
<1>5. /\ t \in Seq(Values) /\ Len(t) = c + 1 /\ \A i \in 1 .. c + 1 : t[i] = bb[At(f, i - 1)]
  BY <1>1, <1>3, WordsFromIs
<1> HIDE DEF s, t
<1>6. /\ Append(s, w) \in Seq(Values) /\ Len(Append(s, w)) = c + 1
      /\ \A i \in 1 .. c : Append(s, w)[i] = s[i]
      /\ Append(s, w)[c + 1] = w
  BY <1>1, <1>4, AppendProperties
<1>7. ASSUME NEW i \in 1 .. c + 1
      PROVE  t[i] = Append(s, w)[i]
  <2>1. CASE i = c + 1
    <3>1. i - 1 = c
      BY <1>1, <2>1
    <3>2. QED
      BY <1>3, <1>5, <1>6, <2>1, <3>1
  <2>2. CASE i # c + 1
    <3>1. i \in 1 .. c
      BY <1>1, <2>2
    <3>2. QED
      BY <1>3, <1>4, <1>5, <1>6, <3>1
  <2>3. QED
    BY <2>1, <2>2
<1>8. t = Append(s, w)
  BY <1>1, <1>5, <1>6, <1>7, SeqEqual
<1>9. QED
  BY <1>8 DEF bb, s, t

(* The word in the first slot is the head, those from the next slot the    *)
(* tail.                                                                   *)
LEMMA WordsFromTail ==
  ASSUME NEW b \in [Slots -> Values], NEW f \in Slots, NEW c \in 1 .. MAX_BUFFER_SIZE
  PROVE  /\ WordsFrom(b, f, c) # <<>>
         /\ Head(WordsFrom(b, f, c)) = b[f]
         /\ Tail(WordsFrom(b, f, c)) = WordsFrom(b, Wrap(f + 1), c - 1)
<1> DEFINE s == WordsFrom(b, f, c)
           t == WordsFrom(b, Wrap(f + 1), c - 1)
<1>1. /\ Wrap(f + 1) \in Slots /\ At(f, 0) = f /\ c \in 0 .. MAX_BUFFER_SIZE
      /\ c - 1 \in 0 .. MAX_BUFFER_SIZE
      /\ \A i \in 1 .. c - 1 : At(Wrap(f + 1), i - 1) = At(f, i)
  BY SizeAssumption DEF At, Wrap, Slots
<1>2. /\ s \in Seq(Values) /\ Len(s) = c /\ \A i \in 1 .. c : s[i] = b[At(f, i - 1)]
  BY <1>1, WordsFromIs
<1>3. /\ t \in Seq(Values) /\ Len(t) = c - 1
      /\ \A i \in 1 .. c - 1 : t[i] = b[At(Wrap(f + 1), i - 1)]
  BY <1>1, WordsFromIs
<1> HIDE DEF s, t
<1>4. s # <<>> /\ s[1] = b[f] /\ Head(s) = s[1]
  <2>1. 1 \in 1 .. c /\ 1 - 1 = 0
    OBVIOUS
  <2>2. QED
    BY <1>1, <1>2, <2>1
<1>5. /\ Tail(s) \in Seq(Values) /\ Len(Tail(s)) = c - 1
      /\ \A i \in 1 .. c - 1 : Tail(s)[i] = s[i + 1]
  BY <1>2, <1>4, HeadTailProperties
<1>6. ASSUME NEW i \in 1 .. c - 1
      PROVE  Tail(s)[i] = t[i]
  <2>1. i + 1 \in 1 .. c /\ (i + 1) - 1 = i
    OBVIOUS
  <2>2. s[i + 1] = b[At(f, i)]
    BY <1>2, <2>1
  <2>3. QED
    BY <1>1, <1>3, <1>5, <2>2
<1>7. Tail(s) = t
  BY <1>3, <1>5, <1>6, SeqEqual
<1>8. QED
  BY <1>4, <1>7 DEF s, t

(* Waiting, as a function of the ring.                                     *)
LEMMA WaitingIs ==
  /\ Waiting = WordsFrom(buffer, First, Count)
  /\ Waiting' = WordsFrom(buffer', First', Count')
BY DEF Waiting, WordsFrom

(* How many words wait: none only if the indices are equal, and at least   *)
(* one while a get has yet to advance tail past the one it found.          *)
LEMMA CountIs ==
  ASSUME RingTypeOK
  PROVE  /\ First \in Slots
         /\ Count \in 0 .. MAX_BUFFER_SIZE
         /\ WholeRing => Count = MAX_BUFFER_SIZE
         /\ ~WholeRing => Count = Distance(First, head) /\ Count < MAX_BUFFER_SIZE
         /\ getting \in {"tested", "loaded"} => Count >= 1
<1>1. First \in Slots /\ head \in Slots
  BY SizeAssumption DEF RingTypeOK, First, Slots
<1>2. (head - First) % MAX_BUFFER_SIZE = Distance(First, head) /\ Distance(First, head) \in Slots
  BY <1>1, DistanceIs DEF Slots
<1>3. Distance(First, head) = 0 => head = First
  BY <1>1, SizeAssumption DEF Distance, Slots
<1>4. CASE WholeRing
  BY <1>1, <1>4, SizeAssumption DEF Count
<1>5. CASE ~WholeRing
  <2>1. Count = Distance(First, head)
    BY <1>2, <1>5 DEF Count
  <2>2. getting \in {"tested", "loaded"} => Count >= 1
    BY <1>2, <1>3, <1>5, <2>1, SizeAssumption DEF WholeRing, Slots
  <2>3. QED
    BY <1>1, <1>2, <1>5, <2>1, <2>2, SizeAssumption DEF Slots
<1>6. QED
  BY <1>4, <1>5

LEMMA WaitingType ==
  ASSUME RingTypeOK
  PROVE  Waiting \in Seq(Values) /\ Len(Waiting) = Count
BY CountIs, WaitingIs, WordsFromIs DEF RingTypeOK, Values

LEMMA QueueInit == rb_word_init => Queue!Init
<1> SUFFICES ASSUME rb_word_init PROVE Queue!Init
  OBVIOUS
<1>1. First = 0 /\ ~WholeRing /\ (head - First) % MAX_BUFFER_SIZE = 0
  BY SizeAssumption DEF rb_word_init, First, WholeRing
<1>2. Waiting = <<>>
  BY <1>1 DEF Waiting, Count
<1>3. QED
  BY <1>2 DEF rb_word_init, Pending, Queue!Init

LEMMA NotLast ==
  ASSUME NEW n \in Nat, NEW i \in 1 .. n, i # n
  PROVE  i \in 1 .. n - 1 /\ i + 1 \in 1 .. n
OBVIOUS

(* While a get is loaded, its word is no longer in the queue: putting one  *)
(* behind the others commutes with that.                                   *)
LEMMA TailAppend ==
  ASSUME NEW S, NEW s \in Seq(S), s # <<>>, NEW w \in S
  PROVE  Tail(Append(s, w)) = Append(Tail(s), w)
<1>1. Tail(s) \in Seq(S) /\ Len(Tail(s)) = Len(s) - 1 /\ Len(s) \in Nat \ {0}
  BY HeadTailProperties, LenProperties, EmptySeq
<1>2. Append(s, w) \in Seq(S) /\ Append(s, w) # <<>> /\ Len(Append(s, w)) = Len(s) + 1
  BY AppendProperties
<1> DEFINE l == Tail(Append(s, w))
           r == Append(Tail(s), w)
<1>3. /\ l \in Seq(S) /\ Len(l) = Len(s)
      /\ \A i \in 1 .. Len(s) : l[i] = Append(s, w)[i + 1]
  BY <1>1, <1>2, HeadTailProperties
<1>4. r \in Seq(S) /\ Len(r) = Len(s)
  BY <1>1, AppendProperties
<1>5. \A i \in 1 .. Len(s) : l[i] = r[i]
  <2> TAKE i \in 1 .. Len(s)
  <2>1. CASE i = Len(s)
    BY <1>1, <1>3, <2>1, AppendProperties
  <2>2. CASE i # Len(s)
    <3>1. i \in 1 .. Len(s) - 1 /\ i + 1 \in 1 .. Len(s)
      BY <1>1, <2>2, NotLast
    <3>2. Append(s, w)[i + 1] = s[i + 1] /\ r[i] = Tail(s)[i] /\ Tail(s)[i] = s[i + 1]
      BY <1>1, <3>1, AppendProperties, HeadTailProperties
    <3>3. QED
      BY <1>3, <3>2
  <2>3. QED
    BY <2>1, <2>2
<1> HIDE DEF l, r
<1>6. l = r
  BY <1>3, <1>4, <1>5, SeqEqual
<1>7. QED
  BY <1>6 DEF l, r
(* A put adds its word behind those that wait, or overruns the ring, which *)
(* takes at least MAX_BUFFER_SIZE - 2 words that wait.                     *)
LEMMA PutMaps ==
  ASSUME RingInv, NEW w \in Words, rb_word_put(w)
  PROVE  Queue!Put(w) \/ Queue!Overrun(w) \/ UNCHANGED Queue!vars
<1> USE SizeAssumption
<1>1. CASE rb_word_full
  <2>1. UNCHANGED ring_vars
    BY <1>1 DEF rb_word_put, ring_vars, ring
  <2>2. QED
    BY <2>1 DEF ring_vars, ring, Queue!vars, Pending, Waiting, Count, WholeRing, First
<1>2. CASE ~rb_word_full
  <2>1. /\ RingTypeOK /\ RingTypeOK'
        /\ First \in Slots /\ First' = First /\ head \in Slots
        /\ buffer' = [buffer EXCEPT ![head] = w] /\ buffer \in [Slots -> Values]
        /\ head' = Wrap(head + 1)
        /\ getting' = getting /\ data' = data
    BY <1>2, PutInv, CountIs DEF RingInv, RingTypeOK, rb_word_put, First, Values
  <2>2. w \in Values /\ buffer' \in [Slots -> Values]
    BY <2>1 DEF Values
  <2>3. Waiting \in Seq(Values) /\ Len(Waiting) = Count /\ Count \in 0 .. MAX_BUFFER_SIZE
    BY <2>1, WaitingType, CountIs
  <2>4. Len(Pending) = IF getting = "loaded" THEN Count - 1 ELSE Count
    <3>1. getting = "loaded" => Waiting # <<>>
      BY <2>1, <2>3, CountIs
    <3>2. QED
      BY <2>3, <3>1, HeadTailProperties DEF Pending
  <2>5. CASE WholeRing
    <3>1. Count = MAX_BUFFER_SIZE /\ Len(Pending) >= MAX_BUFFER_SIZE - 2
      BY <2>1, <2>4, <2>5, CountIs
    <3>2. /\ ~WholeRing' /\ Distance(First', head') = 1
      BY <2>1, <2>5 DEF WholeRing, Distance, Wrap, Slots
    <3>3. Count' = 1
      <4>1. head' \in Slots
        BY <2>1 DEF RingTypeOK
      <4>2. (head' - First') % MAX_BUFFER_SIZE = 1
        BY <2>1, <3>2, <4>1, DistanceIs
      <4>3. QED
        BY <3>2, <4>2 DEF Count
    <3>4. Waiting' = Append(<<>>, w)
      <4>1. head = At(First, 0)
        BY <2>1, <2>5 DEF WholeRing, At, Slots
      <4>2. WordsFrom(buffer, First, 0) = <<>>
        BY DEF WordsFrom
      <4>3. 0 \in 0 .. MAX_BUFFER_SIZE - 1 /\ 0 + 1 = 1
        OBVIOUS
      <4>4. WordsFrom([buffer EXCEPT ![At(First, 0)] = w], First, 0 + 1)
              = Append(WordsFrom(buffer, First, 0), w)
        BY <2>1, <4>3, WordsFromAppend
      <4>5. buffer' = [buffer EXCEPT ![At(First, 0)] = w] /\ First' = First
        BY <2>1, <4>1
      <4>6. QED
        BY <3>3, <4>2, <4>3, <4>4, <4>5, WaitingIs, Zenon
    <3>5. Pending' \in {<<w>>, <<>>}
      BY <2>2, <3>4 DEF Pending
    <3>6. QED
      BY <2>1, <3>1, <3>5 DEF Queue!Overrun
  <2>6. CASE ~WholeRing
    <3>1. /\ Count = Distance(First, head) /\ Count \in 0 .. MAX_BUFFER_SIZE - 1
          /\ head = At(First, Count)
      <4>1. Count = Distance(First, head) /\ Count \in 0 .. MAX_BUFFER_SIZE - 1
        BY <2>1, <2>3, <2>6, CountIs
      <4>2. QED
        BY <2>1, <4>1 DEF Distance, At, Slots
    <3>2. WordsFrom(buffer', First', Count + 1) = Append(Waiting, w)
      <4>1. WordsFrom([buffer EXCEPT ![At(First, Count)] = w], First, Count + 1)
              = Append(WordsFrom(buffer, First, Count), w)
        BY <2>1, <3>1, WordsFromAppend
      <4>2. buffer' = [buffer EXCEPT ![At(First, Count)] = w] /\ First' = First
        BY <2>1, <3>1
      <4>3. QED
        BY <4>1, <4>2, WaitingIs, Zenon
    <3>3. CASE Count' = Count + 1
      <4>1. Waiting' = Append(Waiting, w)
        BY <3>2, <3>3, WaitingIs
      <4>2. CASE getting = "loaded"
        <5>1. Waiting # <<>>
          BY <2>1, <2>3, <4>2, CountIs
        <5>2. Tail(Append(Waiting, w)) = Append(Tail(Waiting), w)
          BY <2>2, <2>3, <5>1, TailAppend
        <5>3. Pending' = Append(Pending, w)
          BY <2>1, <4>1, <4>2, <5>2 DEF Pending
        <5>4. QED
          BY <2>1, <5>3 DEF Queue!Put
      <4>3. CASE getting # "loaded"
        BY <2>1, <4>1, <4>3 DEF Pending, Queue!Put
      <4>4. QED
        BY <4>2, <4>3
    <3>4. CASE Count' # Count + 1
      <4>1. head' \in Slots /\ First' \in Slots
        BY <2>1 DEF RingTypeOK
      <4>2. (head' - First') % MAX_BUFFER_SIZE = Distance(First', head')
        BY <4>1, DistanceIs
      <4>3. Distance(First', head') = IF head' = First THEN 0 ELSE Count + 1
        BY <2>1, <3>1, DistanceGrows
      <4>4. Count = MAX_BUFFER_SIZE - 1 \/ head' # First
        BY <2>1, <3>1 DEF Distance, Wrap, Slots
      <4>5. head' = First
        BY <2>1, <3>4, <4>2, <4>3 DEF Count, WholeRing
      <4>6. ~WholeRing'
        BY <3>1, <3>4, <4>4, <4>5 DEF Count
      <4>7. Count' = 0 /\ getting # "loaded"
        BY <2>1, <4>2, <4>3, <4>5, <4>6 DEF Count, WholeRing
      <4>8. Waiting' = <<>>
        BY <4>7, WaitingIs DEF WordsFrom
      <4>9. Pending' = <<>> /\ Len(Pending) >= MAX_BUFFER_SIZE - 2
        BY <2>1, <2>4, <4>4, <4>5, <4>7, <4>8 DEF Pending
      <4>10. QED
        BY <2>1, <4>9 DEF Queue!Overrun
    <3>5. QED
      BY <3>3, <3>4
  <2>7. QED
    BY <2>5, <2>6
<1>3. QED
  BY <1>1, <1>2

(* A get takes its word from the queue in the step that loads it; its      *)
(* other steps leave the queue alone.                                      *)
LEMMA GetMaps ==
  ASSUME RingInv, GetTest \/ GetLoad \/ GetAdvance \/ GetWrap
  PROVE  Queue!Get \/ Queue!GetNothing \/ UNCHANGED Queue!vars
<1> USE SizeAssumption
<1>1. RingTypeOK /\ RingTypeOK'
  BY GetInv DEF RingInv
<1>2. /\ First \in Slots /\ head \in Slots /\ Count \in 0 .. MAX_BUFFER_SIZE
      /\ Waiting \in Seq(Values) /\ Len(Waiting) = Count
      /\ buffer \in [Slots -> Values]
  BY <1>1, CountIs, WaitingType DEF RingTypeOK, Values
<1>3. CASE GetTest
  <2>1. First' = First /\ UNCHANGED <<buffer, head>> /\ tail = First
    BY <1>3, <1>1 DEF GetTest, ring, First, RingTypeOK, Slots
  <2>2. ~WholeRing /\ getting # "loaded" /\ getting' # "loaded"
    BY <1>3 DEF GetTest, WholeRing
  <2>3. CASE rb_word_empty
    <3>1. Count = 0
      BY <1>1, <1>2, <2>1, <2>2, <2>3, CountIs DEF rb_word_empty, Distance, Slots
    <3>2. Waiting = <<>> /\ Pending = <<>>
      BY <2>2, <3>1, WaitingIs DEF WordsFrom, Pending
    <3>3. UNCHANGED getting /\ data' = 0
      BY <1>3, <2>3 DEF GetTest
    <3>4. Pending' = Pending
      BY <2>1, <3>3 DEF Pending, Waiting, Count, WholeRing
    <3>5. QED
      BY <3>2, <3>3, <3>4 DEF Queue!GetNothing
  <2>4. CASE ~rb_word_empty
    <3>1. ~WholeRing' /\ data' = data
      BY <1>3, <2>1, <2>4 DEF GetTest, WholeRing, rb_word_empty
    <3>2. Pending' = Pending
      BY <2>1, <2>2, <3>1 DEF Pending, Waiting, Count
    <3>3. QED
      BY <3>1, <3>2 DEF Queue!vars
  <2>5. QED
    BY <2>3, <2>4
<1>4. CASE GetLoad
  <2>1. First = tail /\ Count \in 1 .. MAX_BUFFER_SIZE /\ getting = "tested" /\ getting' = "loaded"
    BY <1>1, <1>2, <1>4, CountIs DEF GetLoad, First, RingTypeOK, Slots
  <2>2. Waiting # <<>> /\ Head(Waiting) = buffer[tail]
    BY <1>2, <2>1, WordsFromTail, WaitingIs
  <2>3. Waiting' = Waiting
    BY <1>4 DEF GetLoad, ring, Waiting, Count, WholeRing, First
  <2>4. Pending = Waiting /\ Pending' = Tail(Waiting) /\ data' = buffer[tail]
    BY <1>4, <2>1, <2>3 DEF Pending, GetLoad
  <2>5. QED
    BY <2>2, <2>4 DEF Queue!Get
<1>5. CASE GetAdvance
  <2>1. /\ First = tail /\ Count \in 1 .. MAX_BUFFER_SIZE
        /\ First' = Wrap(First + 1) /\ ~WholeRing' /\ UNCHANGED <<buffer, head, data>>
        /\ getting = "loaded" /\ getting' = "advanced"
    BY <1>1, <1>2, <1>5, CountIs DEF GetAdvance, First, RingTypeOK, Slots, WholeRing, Wrap
  <2>2. Count' = Count - 1
    <3>1. First' \in Slots /\ head' \in Slots
      BY <1>1, <2>1 DEF RingTypeOK, First, Slots
    <3>2. (head' - First') % MAX_BUFFER_SIZE = Distance(First', head')
      BY <3>1, DistanceIs
    <3>3. Count = IF head = First THEN MAX_BUFFER_SIZE ELSE Distance(First, head)
      BY <1>1, <2>1, CountIs DEF WholeRing
    <3>4. Distance(First', head') = Count - 1
      BY <1>2, <2>1, <3>3 DEF Distance, Wrap, Slots
    <3>5. QED
      BY <2>1, <3>2, <3>4 DEF Count
  <2>3. Tail(Waiting) = Waiting'
    BY <1>2, <2>1, <2>2, WordsFromTail, WaitingIs
  <2>4. QED
    BY <2>1, <2>3 DEF Pending, Queue!vars
<1>6. CASE GetWrap
  <2>1. First' = First /\ UNCHANGED <<buffer, head, data>>
    BY <1>1, <1>6 DEF GetWrap, Wrap, First, RingTypeOK, Slots
  <2>2. getting = "advanced" /\ getting' = "idle"
    BY <1>6 DEF GetWrap
  <2>3. Pending' = Pending
    BY <2>1, <2>2 DEF Pending, Waiting, Count, WholeRing
  <2>4. QED
    BY <2>1, <2>3 DEF Queue!vars
<1>7. QED
  BY <1>3, <1>4, <1>5, <1>6

(* A ring of any size implements the queue of words, whichever steps of    *)
(* rb_word_put and rb_word_get interleave: words come out once each and in *)
(* the order they went in, as long as no more than MAX_BUFFER_SIZE - 2 of  *)
(* them wait.                                                              *)
THEOREM QueueImplemented == RingSpec => ImplementsWordQueue
<1>1. ASSUME RingInv, UNCHANGED ring_vars PROVE UNCHANGED Queue!vars
  BY <1>1 DEF ring_vars, ring, Queue!vars, Pending, Waiting, Count, WholeRing, First
<1>2. RingInv /\ [RingNext]_ring_vars => [Queue!Next]_(Queue!vars)
  BY <1>1, PutMaps, GetMaps DEF RingNext, Queue!Next
<1>3. QED
  BY RingInitInv, RingNextInv, QueueInit, <1>2, PTL DEF RingSpec, ImplementsWordQueue, Queue!Spec
=============================================================================
