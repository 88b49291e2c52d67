----------------------------- MODULE CxBuffers ------------------------------
(***************************************************************************)
(* collectionx/list: Deque, RingBuffer and PriorityQueue, and the          *)
(* Concurrent* variants of the first two, whose every method runs under    *)
(* one mutex and is therefore one step. A structure is the record of its   *)
(* Go struct; next to it a plain sequence says what it is meant to hold.   *)
(***************************************************************************)
EXTENDS Integers, Sequences, FiniteSets, SequencesExt

CONSTANTS
  Items,     \* values put into the buffers; naturals, so that they compare
  Zero,      \* the zero value of the element type
  Unset,     \* a nil pointer: the zero value of a Concurrent* wrapper
  RingCaps,  \* capacities given to NewRingBuffer
  MaxLen     \* bound: length of a deque or queue

ASSUME BuffersAssumption ==
  /\ Items \subseteq Nat /\ Zero \notin Items /\ RingCaps \subseteq Nat /\ MaxLen \in Nat

VARIABLES
  dq, dqRef,       \* ConcurrentDeque.deque, and the sequence it stands for
  rb, rbRef,       \* ConcurrentRingBuffer.buffer, and the sequence it stands for
  evicted,         \* what the last Push of the ring buffer returned, <<>> for None
  pq, pqRef,       \* PriorityQueue.h.items, and the pushed items in sorted order
  sorted           \* what the last ValuesSorted returned

dequeVars == <<dq, dqRef>>
ringVars == <<rb, rbRef, evicted>>
queueVars == <<pq, pqRef, sorted>>

Batches == { <<x>> : x \in Items } \cup { <<x, y>> : x \in Items, y \in Items }

-----------------------------------------------------------------------------
(* Deque                                                                   *)

EmptyDeque == [buf |-> <<>>, head |-> 0, size |-> 0]

\* Slots are counted from 0 as in Go; buf is a sequence, so slot i is buf[i + 1].
physicalIndex(d, i) == (d.head + i) % Len(d.buf)
Slot(d, i) == d.buf[physicalIndex(d, i) + 1]
Put(d, p, x) == [d EXCEPT !.buf[p + 1] = x]

DequeValues(d) == [i \in 1..d.size |-> Slot(d, i - 1)]

\* Front, Back and Get answer from the same slots as Values.
DequeReads(d) ==
  [front |-> IF d.size = 0 THEN <<>> ELSE <<d.buf[d.head + 1]>>,
   back  |-> IF d.size = 0 THEN <<>> ELSE <<Slot(d, d.size - 1)>>,
   get   |-> [i \in 0..(d.size - 1) |-> Slot(d, i)]]

\* Fault: the buffer is copied as it lies, not from head.
ensureCapacityCopiesRaw(d) ==
  CASE Len(d.buf) = 0 -> [d EXCEPT !.buf = [i \in 1..4 |-> Zero]]
    [] d.size < Len(d.buf) -> d
    [] OTHER -> [d EXCEPT !.buf = [i \in 1..(2 * Len(d.buf)) |->
                                     IF i <= Len(d.buf) THEN d.buf[i] ELSE Zero],
                          !.head = 0]

\* ensureCapacity(1): four slots at first, twice as many when full, the items
\* moved so that the first lies at 0.
ensureCapacity(d) ==
  CASE Len(d.buf) = 0 -> [d EXCEPT !.buf = [i \in 1..4 |-> Zero]]
    [] d.size < Len(d.buf) -> d
    [] OTHER -> [d EXCEPT !.buf = [i \in 1..(2 * Len(d.buf)) |->
                                     IF i <= d.size THEN Slot(d, i - 1) ELSE Zero],
                          !.head = 0]

pushFrontOne(d0, x) ==
  LET d == ensureCapacity(d0)
      h == IF d.size = 0 THEN 0 ELSE (d.head - 1 + Len(d.buf)) % Len(d.buf)
  IN [Put(d, h, x) EXCEPT !.head = h, !.size = d.size + 1]

pushBackOne(d0, x) ==
  LET d == ensureCapacity(d0) IN [Put(d, physicalIndex(d, d.size), x) EXCEPT !.size = d.size + 1]

PushFront(d, xs) == FoldLeft(pushFrontOne, d, xs)
PushBack(d, xs) == FoldLeft(pushBackOne, d, xs)

PopFront(d) ==
  IF d.size = 0 THEN d
  ELSE [Put(d, d.head, Zero) EXCEPT
          !.head = IF d.size = 1 THEN 0 ELSE (d.head + 1) % Len(d.buf), !.size = d.size - 1]

PopBack(d) ==
  IF d.size = 0 THEN d
  ELSE [Put(d, physicalIndex(d, d.size - 1), Zero) EXCEPT
          !.head = IF d.size = 1 THEN 0 ELSE d.head, !.size = d.size - 1]

DequeClear(d) ==
  [buf |-> [i \in 1..Len(d.buf) |->
              IF \E j \in 0..(d.size - 1) : physicalIndex(d, j) = i - 1 THEN Zero ELSE d.buf[i]],
   head |-> 0, size |-> 0]

\* ConcurrentDeque: a push makes the inner deque, everything else leaves a nil one
\* alone and reads it as empty; Snapshot pushes the items into a new deque.
Initialized(d) == IF d = Unset THEN EmptyDeque ELSE d
LockedUpdate(d, next) == IF d = Unset THEN d ELSE next
LockedDequeValues(d) == IF d = Unset THEN <<>> ELSE DequeValues(d)
DequeSnapshot(d) == PushBack(EmptyDeque, LockedDequeValues(d))

DequeInit == dq = Unset /\ dqRef = <<>>

DequePush(xs) ==
  /\ Len(dqRef) + Len(xs) <= MaxLen
  /\ \/ dq' = PushFront(Initialized(dq), xs) /\ dqRef' = Reverse(xs) \o dqRef
     \/ dq' = PushBack(Initialized(dq), xs) /\ dqRef' = dqRef \o xs

DequePop ==
  \/ dq' = LockedUpdate(dq, PopFront(dq)) /\ dqRef' = (IF dqRef = <<>> THEN <<>> ELSE Tail(dqRef))
  \/ dq' = LockedUpdate(dq, PopBack(dq)) /\ dqRef' = (IF dqRef = <<>> THEN <<>> ELSE Front(dqRef))

DequeClears == dq' = LockedUpdate(dq, DequeClear(dq)) /\ dqRef' = <<>>

DequeNext == (\E xs \in Batches : DequePush(xs)) \/ DequePop \/ DequeClears

\* However pushes, pops, growth and clearing alternate at both ends, the ring
\* holds exactly the sequence of live items, reads at every index agree with it,
\* a snapshot has the same items, and popped slots keep no item alive.
DequeIsSequence ==
  /\ LockedDequeValues(dq) = dqRef
  /\ DequeValues(DequeSnapshot(dq)) = dqRef
  /\ dq # Unset =>
       /\ \A i \in 1..Len(dqRef) : DequeReads(dq).get[i - 1] = dqRef[i]
       /\ dqRef # <<>> => DequeReads(dq).front = <<Head(dqRef)>> /\ DequeReads(dq).back = <<Last(dqRef)>>
       /\ Cardinality({ i \in 1..Len(dq.buf) : dq.buf[i] # Zero }) = Len(dqRef)

-----------------------------------------------------------------------------
(* RingBuffer                                                              *)

NewRingBuffer(c) == [buf |-> [i \in 1..c |-> Zero], head |-> 0, size |-> 0]

RingValues(r) == [i \in 1..r.size |-> Slot(r, i - 1)]
RingReads(r) ==
  [capacity |-> Len(r.buf), full |-> r.size = Len(r.buf) /\ r.buf # <<>>,
   peek |-> IF r.size = 0 THEN <<>> ELSE <<r.buf[r.head + 1]>>]

\* Push: a buffer without slots takes nothing; a full one overwrites its oldest.
RingPush(r, x) ==
  CASE r.buf = <<>> -> r
    [] r.size < Len(r.buf) -> [Put(r, physicalIndex(r, r.size), x) EXCEPT !.size = r.size + 1]
    [] OTHER -> [Put(r, r.head, x) EXCEPT !.head = (r.head + 1) % Len(r.buf)]

RingEvicts(r) == IF r.buf # <<>> /\ r.size = Len(r.buf) THEN <<r.buf[r.head + 1]>> ELSE <<>>

\* Pop and Clear are those of the deque, statement by statement.
RingPop(r) == PopFront(r)
RingClear(r) == DequeClear(r)

LockedRingValues(r) == IF r = Unset THEN <<>> ELSE RingValues(r)
RingSnapshot(r) ==
  IF r = Unset THEN NewRingBuffer(0) ELSE FoldLeft(RingPush, NewRingBuffer(Len(r.buf)), RingValues(r))

RingInit ==
  /\ rb \in {Unset} \cup { NewRingBuffer(c) : c \in RingCaps }
  /\ rbRef = <<>> /\ evicted = <<>>

RingCapacity == IF rb = Unset THEN 0 ELSE Len(rb.buf)

RingPushes(x) ==
  /\ rb' = IF rb = Unset THEN rb ELSE RingPush(rb, x)
  /\ evicted' = IF rb = Unset THEN <<>> ELSE RingEvicts(rb)
  /\ rbRef' = LET all == rbRef \o <<x>>
                  over == Len(all) - RingCapacity
              IN SubSeq(all, IF over > 0 THEN over + 1 ELSE 1, Len(all))

RingPops == /\ rb' = LockedUpdate(rb, RingPop(rb)) /\ evicted' = <<>>
            /\ rbRef' = (IF rbRef = <<>> THEN <<>> ELSE Tail(rbRef))
RingClears == rb' = LockedUpdate(rb, RingClear(rb)) /\ rbRef' = <<>> /\ evicted' = <<>>

RingNext == (\E x \in Items : RingPushes(x)) \/ RingPops \/ RingClears

\* The buffer always holds the newest capacity-many items, oldest first, through
\* any number of wrap-arounds, and so does a snapshot of it.
RingHoldsNewest ==
  /\ LockedRingValues(rb) = rbRef /\ RingValues(RingSnapshot(rb)) = rbRef
  /\ rb # Unset /\ rbRef # <<>> => RingReads(rb).peek = <<Head(rbRef)>>

-----------------------------------------------------------------------------
(* PriorityQueue over container/heap; less(a, b) is a < b                  *)

\* container/heap promises a heap order of the items: no item is less than its
\* parent. Which of them, only its code says.
HeapOrders(s) ==
  { h \in { [i \in 1..Len(s) |-> s[p[i]]] : p \in Permutations(1..Len(s)) } :
      \A i \in 2..Len(h) : ~(h[i] < h[i \div 2]) }

\* NewPriorityQueue copies the items and makes a heap of them.
NewPriorityQueue(xs) == HeapOrders(xs)

PQPush(h, x) == HeapOrders(Append(h, x))
PQPop(h) == IF h = <<>> THEN {h} ELSE HeapOrders(Tail(h))
PQReads(h) == [peek |-> IF h = <<>> THEN <<>> ELSE <<h[1]>>, values |-> h]

\* ValuesSorted pops a copy until it is empty: every pop gives the least of the
\* rest, and the queue itself is left alone.
ValuesSorted(h) == [out |-> SortSeq(h, LAMBDA a, b : a < b), left |-> h]

QueueInit == pq \in NewPriorityQueue(<<>>) /\ pqRef = <<>> /\ sorted = <<>>

QueuePush(x) ==
  /\ Len(pq) < MaxLen
  /\ pq' \in PQPush(pq, x)
  /\ pqRef' = SortSeq(Append(pqRef, x), LAMBDA a, b : a < b) /\ UNCHANGED sorted
QueuePop ==
  /\ pq' \in PQPop(pq) /\ pqRef' = (IF pqRef = <<>> THEN <<>> ELSE Tail(pqRef)) /\ UNCHANGED sorted
QueueClear == pq' = <<>> /\ pqRef' = <<>> /\ UNCHANGED sorted
QueueSorted ==
  /\ LET v == ValuesSorted(pq) IN sorted' = v.out /\ pq' = v.left
  /\ UNCHANGED pqRef

QueueNext == (\E x \in Items : QueuePush(x)) \/ QueuePop \/ QueueClear \/ QueueSorted

\* Whatever heap order the pushes left, the queue holds the pushed items less the
\* popped ones and its head is a least one; reading it sorted does not drain it.
QueueServesLeast ==
  /\ SortSeq(pq, LAMBDA a, b : a < b) = pqRef
  /\ pqRef # <<>> => PQReads(pq).peek = <<Head(pqRef)>>
=============================================================================
