----------------------------- MODULE RingBuffer -----------------------------
(***************************************************************************)
(* The word ring of src/src/ring_buffer.c between an interrupt handler     *)
(* that calls rb_word_put and a program that calls rb_word_get.  The put   *)
(* runs to its end once started; the get can be interrupted between any    *)
(* two of its steps, which are taken in program order.                     *)
(***************************************************************************)
EXTENDS Integers, Sequences

CONSTANTS
  MAX_BUFFER_SIZE,  \* slots of the ring
  Words             \* the words put into it; 0 is not one of them

ASSUME SizeAssumption == MAX_BUFFER_SIZE \in Nat /\ MAX_BUFFER_SIZE >= 2
ASSUME WordAssumption == 0 \notin Words

Slots == 0 .. MAX_BUFFER_SIZE - 1

VARIABLES
  buffer, head, tail,  \* the ring
  getting,             \* how far the get that is under way has come
  data                 \* the word it will return, or the last one returned

ring == <<buffer, head, tail>>
ring_vars == <<buffer, head, tail, getting, data>>

(* rb_word_init leaves the slots as they are. *)
rb_word_init ==
  /\ buffer \in [Slots -> Words \cup {0}]
  /\ head = 0
  /\ tail = 0
  /\ getting = "idle"
  /\ data = 0

rb_word_full == head + 1 = tail

(* Mutant of rb_word_empty: the empty and the full test confused. *)
EmptyWhenFull == head + 1 = tail

rb_word_empty == head = tail

(* Mutant of Wrap: an index one too large is let through. *)
WrapLate(i) == IF i > MAX_BUFFER_SIZE THEN 0 ELSE i

(* An index after its increment. *)
Wrap(i) == IF i >= MAX_BUFFER_SIZE THEN 0 ELSE i

rb_word_put(w) ==
  /\ IF rb_word_full
       THEN UNCHANGED <<buffer, head>>
       ELSE /\ buffer' = [buffer EXCEPT ![head] = w]
            /\ head' = Wrap(head + 1)
  /\ UNCHANGED <<tail, getting, data>>

(* rb_word_get, step by step: the test, the load of the word, the          *)
(* increment of tail, and its wrap.                                        *)
GetTest ==
  /\ getting = "idle"
  /\ IF rb_word_empty
       THEN data' = 0 /\ UNCHANGED getting
       ELSE getting' = "tested" /\ UNCHANGED data
  /\ UNCHANGED ring

(* Mutant of GetLoad: buffer[++tail] instead of buffer[tail++]. *)
GetLoadPreincrement ==
  /\ getting = "tested"
  /\ data' = buffer[(tail + 1) % MAX_BUFFER_SIZE]
  /\ getting' = "loaded"
  /\ UNCHANGED ring

GetLoad ==
  /\ getting = "tested"
  /\ data' = buffer[tail]
  /\ getting' = "loaded"
  /\ UNCHANGED ring

GetAdvance ==
  /\ getting = "loaded"
  /\ tail' = tail + 1
  /\ getting' = "advanced"
  /\ UNCHANGED <<buffer, head, data>>

GetWrap ==
  /\ getting = "advanced"
  /\ tail' = Wrap(tail)
  /\ getting' = "idle"
  /\ UNCHANGED <<buffer, head, data>>

RingNext ==
  \/ \E w \in Words : rb_word_put(w)
  \/ GetTest \/ GetLoad \/ GetAdvance \/ GetWrap

RingSpec == rb_word_init /\ [][RingNext]_ring_vars

-----------------------------------------------------------------------------
(* The indices stay within the ring, although a put may see tail before it *)
(* is wrapped and the test for a full ring is no test on the last slot.    *)
RingTypeOK ==
  /\ buffer \in [Slots -> Words \cup {0}]
  /\ head \in Slots
  /\ getting \in {"idle", "tested", "loaded", "advanced"}
  /\ tail \in IF getting = "advanced" THEN 1 .. MAX_BUFFER_SIZE ELSE Slots
  /\ data \in Words \cup {0}

(* The slot of the oldest word. *)
First == IF tail = MAX_BUFFER_SIZE THEN 0 ELSE tail

(* A get that has found the ring non-empty and has not advanced tail       *)
(* cannot have emptied it: if the indices are equal then, it is because    *)
(* puts have gone all the way round.                                       *)
WholeRing == head = First /\ getting \in {"tested", "loaded"}

(* Slot s is one of those from tail to head. *)
Occupied(s) ==
  \/ WholeRing
  \/ First <= s /\ s < head
  \/ head < First /\ (First <= s \/ s < head)

(* The slots from tail to head hold words that were put, and so does a get *)
(* that found the ring non-empty: whatever puts run between its steps, it  *)
(* never delivers a slot that was not written.                             *)
OnlyPutWords ==
  /\ \A s \in Slots : Occupied(s) => buffer[s] \in Words
  /\ getting \in {"loaded", "advanced"} => data \in Words

Count == IF WholeRing THEN MAX_BUFFER_SIZE ELSE (head - First) % MAX_BUFFER_SIZE

Waiting == [i \in 1 .. Count |-> buffer[((First + i) - 1) % MAX_BUFFER_SIZE]]

(* A word has been got as soon as it is loaded. *)
Pending == IF getting = "loaded" THEN Tail(Waiting) ELSE Waiting

(* Whatever the interleaving of puts with the steps of a get, the ring     *)
(* delivers what was put, once and in order, as long as no more than       *)
(* MAX_BUFFER_SIZE - 2 words wait.                                         *)
Queue == INSTANCE WordQueue WITH
  queue <- Pending, got <- data, Sure <- MAX_BUFFER_SIZE - 2
ImplementsWordQueue == Queue!Spec
=============================================================================
