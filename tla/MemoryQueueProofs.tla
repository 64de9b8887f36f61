------------------------- MODULE MemoryQueueProofs -------------------------
(***************************************************************************)
(* Proofs about MemoryQueue, for every capacity, every number of callers   *)
(* and workers, and every set of delays.                                   *)
(***************************************************************************)
EXTENDS MemoryQueue, FiniteSetTheorems, SequenceTheorems, FunctionTheorems, TLAPS

(* Close leaves nothing queued, and nothing is queued afterwards. *)
ClosedEmpty == closed => ready = <<>> /\ delayed = {}

(* What is on the ready list may be handed out. *)
ReadyDue == \A i \in DOMAIN ready : ready[i].readyAt <= now

(* The inductive invariant. *)
IInv ==
  /\ TypeOK
  /\ PendingExact
  /\ pending <= Capacity
  /\ ClosedEmpty
  /\ ReadyDue
  /\ NothingLostOrDuplicated
  /\ NoLostWakeup

USE CapacityAssumption, CallersAssumption, WorkersAssumption, DelaysAssumption, BoundsAssumption
-----------------------------------------------------------------------------
(* The order of heap.Pops over a finite set of tasks lists each of its     *)
(* members exactly once.                                                   *)
LEMMA HeapOrderLists ==
  ASSUME NEW S \in SUBSET Task, IsFiniteSet(S), NEW s \in HeapOrder(S)
  PROVE  /\ s \in Seq(S)
         /\ s \in Seq(Task)
         /\ Len(s) = Cardinality(S)
         /\ DOMAIN s = 1..Cardinality(S)
         /\ Range(s) = S
         /\ \A i, j \in DOMAIN s : s[i] = s[j] => i = j
<1> DEFINE n == Cardinality(S)
<1>1. n \in Nat
  BY FS_CardinalityType
<1>2. s \in [1..n -> S] /\ \A i, j \in 1..n : i < j => Less(s[i], s[j])
  BY DEF HeapOrder
<1>3. \A i, j \in 1..n : s[i] = s[j] => i = j
  <2> SUFFICES ASSUME NEW i \in 1..n, NEW j \in 1..n, s[i] = s[j], i # j PROVE FALSE
    OBVIOUS
  <2>1. s[i] \in Task /\ ~Less(s[i], s[i])
    BY <1>2 DEF Less, Task
  <2>2. i < j \/ j < i
    BY <1>1
  <2> QED
    BY <1>2, <2>1, <2>2
<1>4. s \in Injection(1..n, S)
  BY <1>2, <1>3 DEF Injection, IsInjective
<1>5. IsFiniteSet(1..n) /\ Cardinality(1..n) = n
  BY <1>1, FS_Interval
<1>6. s \in Surjection(1..n, S)
  BY <1>4, <1>5, FS_Injection
<1>7. Range(s) = S
  BY <1>6 DEF Surjection, Range
<1>8. s \in Seq(S) /\ Len(s) = n /\ s \in Seq(Task)
  BY <1>1, <1>2
<1> QED
  BY <1>2, <1>3, <1>7, <1>8

(* Claiming or giving up one reservation changes their number by one. *)
LEMMA HeldCount ==
  ASSUME TypeOK, NEW c \in Callers
  PROVE  /\ IsFiniteSet(Held) /\ Cardinality(Held) \in Nat
         /\ Cardinality(Held \cup {c}) = IF c \in Held THEN Cardinality(Held) ELSE Cardinality(Held) + 1
         /\ Cardinality(Held \ {c}) = IF c \in Held THEN Cardinality(Held) - 1 ELSE Cardinality(Held)
<1>1. Held \in SUBSET Callers
  BY DEF Held
<1>2. IsFiniteSet(Held)
  BY <1>1, FS_Subset
<1> QED
  BY <1>2, FS_CardinalityType, FS_AddElement, FS_RemoveElement

(* The sizes the counter is compared with are naturals. *)
LEMMA QueuedCounts ==
  ASSUME TypeOK
  PROVE  /\ Len(ready) \in Nat /\ DOMAIN ready = 1..Len(ready)
         /\ Cardinality(delayed) \in Nat
         /\ Cardinality(Held) \in Nat
<1>1. Len(ready) \in Nat /\ DOMAIN ready = 1..Len(ready)
  BY LenProperties DEF TypeOK
<1>2. Cardinality(delayed) \in Nat
  BY FS_CardinalityType DEF TypeOK
<1>3. Held \in SUBSET Callers
  BY DEF Held
<1> QED
  BY <1>1, <1>2, <1>3, FS_Subset, FS_CardinalityType

(* The invariant holds at the start. *)
LEMMA InitInvariant == Init => IInv
<1> SUFFICES ASSUME Init PROVE IInv
  OBVIOUS
<1>1. Held = {}
  BY DEF Init, Held
<1>2. TypeOK
  <2>1. delayed \in SUBSET Task /\ IsFiniteSet(delayed)
    BY FS_EmptySet DEF Init
  <2>2. ready \in Seq(Task)
    BY EmptySeq DEF Init
  <2> QED
    BY <2>1, <2>2 DEF Init, TypeOK, ReservationStates, WorkerStates, NoTimer, NoTask
<1>3. PendingExact
  BY <1>1, FS_EmptySet DEF Init, PendingExact
<1> QED
  BY <1>2, <1>3 DEF Init, IInv, ClosedEmpty, ReadyDue, NothingLostOrDuplicated, NoLostWakeup

-----------------------------------------------------------------------------
(* Callers. *)

(* Reserve keeps the invariant: a claim is counted. *)
LEMMA ReserveStep == ASSUME IInv, NEW c \in Callers, Reserve(c) PROVE IInv'
<1> USE DEF IInv
<1>1. TypeOK'
  BY DEF Reserve, HasRoom, TypeOK, ReservationStates, workerVars
<1>2. Held' = Held \cup {c} /\ c \notin Held
  BY DEF Reserve, HasRoom, TypeOK, Held
<1>3. PendingExact'
  <2>1. Cardinality(Held') = Cardinality(Held) + 1
    BY <1>2, HeldCount
  <2> QED
    BY <2>1, HeldCount, QueuedCounts DEF Reserve, HasRoom, PendingExact, IInv, TypeOK
<1>4. pending' <= Capacity
  BY DEF Reserve, HasRoom, TypeOK
<1>5. ClosedEmpty' /\ ReadyDue' /\ NothingLostOrDuplicated' /\ NoLostWakeup'
  BY DEF Reserve, HasRoom, ClosedEmpty, ReadyDue, NothingLostOrDuplicated, NoLostWakeup,
     TimerFired, workerVars
<1> QED
  BY <1>1, <1>3, <1>4, <1>5

(* What a reservation given back or used on a closed queue does to the counter. *)
LEMMA Decremented ==
  ASSUME IInv, NEW c \in Callers, resv[c] = "held", DecrementPending,
         resv' = [resv EXCEPT ![c] = "used"], UNCHANGED <<ready, delayed, closed>>
  PROVE  /\ resv' \in [Callers -> ReservationStates]
         /\ PendingExact'
         /\ pending' \in Nat /\ pending' <= Capacity
<1> USE DEF IInv
<1>1. Held' = Held \ {c} /\ c \in Held
  BY DEF TypeOK, Held
<1>2. Cardinality(Held') = Cardinality(Held) - 1
  BY <1>1, HeldCount
<1>3. Cardinality(Held) \in Nat /\ Cardinality(Held) # 0
  BY <1>1, HeldCount, FS_EmptySet
<1>4. Len(ready) \in Nat /\ Cardinality(delayed) \in Nat
  BY LenProperties, FS_CardinalityType DEF TypeOK
<1>5. resv' \in [Callers -> ReservationStates]
  BY DEF TypeOK, ReservationStates
<1>6. CASE closed
  <2>1. pending = 0 /\ pending' = 0
    BY <1>6 DEF PendingExact, DecrementPending
  <2>2. PendingExact'
    BY <1>6, <2>1 DEF PendingExact
  <2> QED
    BY <1>5, <2>1, <2>2
<1>7. CASE ~closed
  <2>1. pending = Cardinality(Held) + Len(ready) + Cardinality(delayed)
    BY <1>7 DEF PendingExact
  <2>2. pending > 0 /\ pending' = pending - 1
    BY <2>1, <1>3, <1>4 DEF DecrementPending
  <2>3. PendingExact'
    BY <1>2, <1>3, <1>4, <1>7, <2>1, <2>2 DEF PendingExact
  <2> QED
    BY <1>5, <2>1, <2>2, <2>3 DEF TypeOK
<1> QED
  BY <1>6, <1>7

(* Release keeps the invariant: the claim is given back once. *)
LEMMA ReleaseStep == ASSUME IInv, NEW c \in Callers, Release(c) PROVE IInv'
<1> USE DEF IInv
<1>1. resv' \in [Callers -> ReservationStates] /\ PendingExact' /\ pending' \in Nat
      /\ pending' <= Capacity
  BY Decremented DEF Release, Unused
<1>2. TypeOK'
  BY <1>1 DEF Release, Unused, TypeOK, SignalLocked, workerVars
<1>3. ClosedEmpty' /\ ReadyDue' /\ NothingLostOrDuplicated'
  BY DEF Release, Unused, ClosedEmpty, ReadyDue, NothingLostOrDuplicated, workerVars
<1>4. NoLostWakeup'
  BY DEF Release, Unused, NoLostWakeup, SignalLocked, TypeOK, workerVars
<1> QED
  BY <1>1, <1>2, <1>3, <1>4

(* A commit to a closed queue keeps the invariant. *)
LEMMA CommitClosedStep == ASSUME IInv, NEW c \in Callers, CommitClosed(c) PROVE IInv'
<1> USE DEF IInv
<1>1. resv' \in [Callers -> ReservationStates] /\ PendingExact' /\ pending' \in Nat
      /\ pending' <= Capacity
  BY Decremented DEF CommitClosed, Unused
<1>2. TypeOK'
  BY <1>1 DEF CommitClosed, Unused, TypeOK, workerVars
<1>3. ClosedEmpty' /\ ReadyDue' /\ NothingLostOrDuplicated' /\ NoLostWakeup'
  BY DEF CommitClosed, Unused, ClosedEmpty, ReadyDue, NothingLostOrDuplicated, NoLostWakeup,
     TimerFired, workerVars
<1> QED
  BY <1>1, <1>2, <1>3

(* A commit keeps the invariant: a claim turns into one queued task. *)
LEMMA CommitDelayedStep ==
  ASSUME IInv, NEW c \in Callers, NEW delay \in Delays, CommitDelayed(c, delay)
  PROVE  IInv'
<1> USE DEF IInv
<1> DEFINE item == [seq |-> nextSeq + 1, readyAt |-> now + delay, delay |-> delay]
<1>1. item \in Task /\ item.seq = nextSeq + 1 /\ item.readyAt = now + delay
  BY DEF TypeOK, Task
<1>2. \/ delay = 0 /\ ready' = Append(ready, item) /\ delayed' = delayed
      \/ delay # 0 /\ delayed' = delayed \cup {item} /\ ready' = ready
  BY DEF CommitDelayed, Unused
<1>3. nextSeq' = nextSeq + 1 /\ closed' = closed /\ ~closed /\ taken' = taken
      /\ pending' = pending
  BY DEF CommitDelayed, Unused, workerVars
<1>4. Held' = Held \ {c} /\ c \in Held
  BY DEF CommitDelayed, Unused, TypeOK, Held
<1>5. Cardinality(Held') = Cardinality(Held) - 1
  BY <1>4, HeldCount
<1>6. /\ \A i \in DOMAIN ready : ready[i].seq # nextSeq + 1
      /\ \A b \in delayed : b.seq # nextSeq + 1
      /\ nextSeq + 1 \notin taken
      /\ nextSeq \in Nat
  BY DEF NothingLostOrDuplicated, TypeOK
<1>7. /\ ready' \in Seq(Task) /\ delayed' \in SUBSET Task /\ IsFiniteSet(delayed')
      /\ Len(ready') + Cardinality(delayed') = Len(ready) + Cardinality(delayed) + 1
  <2>1. CASE delay = 0
    <3>1. ready' = Append(ready, item) /\ ready \in Seq(Task) /\ delayed' = delayed
      BY <1>2, <2>1 DEF TypeOK
    <3>2. ready' \in Seq(Task) /\ Len(ready') = Len(ready) + 1
      BY <1>1, <3>1, AppendProperties
    <3> QED
      BY <3>1, <3>2, QueuedCounts DEF TypeOK
  <2>2. CASE delay # 0
    <3>1. item \notin delayed
      BY <1>1, <1>6
    <3>2. delayed' = delayed \cup {item} /\ IsFiniteSet(delayed) /\ delayed \subseteq Task
          /\ ready' = ready
      BY <1>2, <2>2 DEF TypeOK
    <3>3. IsFiniteSet(delayed') /\ Cardinality(delayed') = Cardinality(delayed) + 1
      BY <3>1, <3>2, FS_AddElement
    <3>4. delayed' \in SUBSET Task /\ ready' \in Seq(Task)
      BY <1>1, <3>2 DEF TypeOK
    <3>5. Len(ready') + Cardinality(delayed') = Len(ready) + Cardinality(delayed) + 1
      BY <3>2, <3>3, QueuedCounts
    <3> QED
      BY <3>3, <3>4, <3>5
  <2> QED
    BY <2>1, <2>2
<1>8. TypeOK'
  <2>1. resv' \in [Callers -> ReservationStates] /\ signalled' \in [Workers -> BOOLEAN]
    BY DEF CommitDelayed, Unused, TypeOK, SignalLocked, ReservationStates
  <2>2. nextSeq' \in Nat /\ pending' \in Nat
    BY <1>3 DEF TypeOK
  <2> QED
    BY <1>7, <2>1, <2>2 DEF CommitDelayed, Unused, TypeOK, workerVars
<1>9. PendingExact'
  <2>1. Len(ready') \in Nat /\ Cardinality(delayed') \in Nat
    BY <1>7, LenProperties, FS_CardinalityType
  <2>2. pending = Cardinality(Held) + Len(ready) + Cardinality(delayed)
    BY <1>3 DEF PendingExact
  <2> QED
    BY <1>3, <1>5, <1>7, <2>1, <2>2, QueuedCounts DEF PendingExact
<1>10. ClosedEmpty' /\ pending' <= Capacity
  BY <1>3 DEF ClosedEmpty
<1>11. NoLostWakeup'
  BY DEF CommitDelayed, Unused, SignalLocked, NoLostWakeup, TypeOK, workerVars
<1>12. ReadyDue'
  <2>1. now' = now /\ now \in Nat
    BY DEF CommitDelayed, Unused, TypeOK, workerVars
  <2>2. CASE delay = 0
    <3>1. item.readyAt <= now
      BY <1>1, <2>1, <2>2
    <3>2. ready' = Append(ready, item)
      BY <1>2, <2>2
    <3> QED
      BY <1>1, <2>1, <3>1, <3>2, AppendProperties, QueuedCounts DEF ReadyDue, TypeOK
  <2>3. CASE delay # 0
    BY <1>2, <2>1, <2>3 DEF ReadyDue
  <2> QED
    BY <2>2, <2>3
<1>13. NothingLostOrDuplicated'
  <2> USE DEF NothingLostOrDuplicated
  <2>1. CASE delay = 0
    <3>1. /\ ready' = Append(ready, item) /\ delayed' = delayed
          /\ DOMAIN ready = 1..Len(ready) /\ Len(ready) \in Nat
      BY <1>2, <2>1, QueuedCounts
    <3>2. /\ DOMAIN ready' = 1..(Len(ready) + 1)
          /\ \A i \in DOMAIN ready : ready'[i] = ready[i]
          /\ ready'[Len(ready) + 1] = item
      BY <1>1, <3>1, AppendProperties DEF TypeOK
    <3>3. \A i \in DOMAIN ready' : i \in DOMAIN ready \/ i = Len(ready) + 1
      BY <3>1, <3>2
    <3> QED
      BY <1>1, <1>3, <1>6, <3>1, <3>2, <3>3
  <2>2. CASE delay # 0
    BY <1>1, <1>2, <1>3, <1>6, <2>2
  <2> QED
    BY <2>1, <2>2
<1> QED
  BY <1>8, <1>9, <1>10, <1>11, <1>12, <1>13

-----------------------------------------------------------------------------
(* Workers. *)

(* NothingLostOrDuplicated of any ready list, heap and set of taken tasks. *)
PlacedOnce(list, heap, gone) ==
  /\ gone \subseteq 1..nextSeq
  /\ \A i, j \in DOMAIN list : list[i].seq = list[j].seq => i = j
  /\ \A a, b \in heap : a.seq = b.seq => a = b
  /\ \A i \in DOMAIN list : \A b \in heap : list[i].seq # b.seq
  /\ \A i \in DOMAIN list : list[i].seq \in 1..nextSeq /\ list[i].seq \notin gone
  /\ \A b \in heap : b.seq \in 1..nextSeq /\ b.seq \notin gone
  /\ \A n \in 1..nextSeq :
       \/ n \in gone
       \/ \E i \in DOMAIN list : list[i].seq = n
       \/ \E b \in heap : b.seq = n

(* Where the elements of a concatenation are. *)
LEMMA Concatenation ==
  ASSUME NEW list \in Seq(Task), NEW moved \in Seq(Task)
  PROVE  /\ Len(list) \in Nat /\ Len(moved) \in Nat
         /\ DOMAIN list = 1..Len(list) /\ DOMAIN moved = 1..Len(moved)
         /\ DOMAIN (list \o moved) = 1..(Len(list) + Len(moved))
         /\ \A i \in DOMAIN list : (list \o moved)[i] = list[i]
         /\ \A i \in DOMAIN moved : (list \o moved)[Len(list) + i] = moved[i]
         /\ \A k \in DOMAIN (list \o moved) :
              k \in DOMAIN list \/ \E i \in DOMAIN moved : k = Len(list) + i
<1> DEFINE queue == list \o moved
<1>1. /\ Len(list) \in Nat /\ Len(moved) \in Nat
      /\ DOMAIN list = 1..Len(list) /\ DOMAIN moved = 1..Len(moved)
      /\ DOMAIN queue = 1..(Len(list) + Len(moved))
      /\ \A i \in DOMAIN list : queue[i] = list[i]
      /\ \A i \in DOMAIN moved : queue[Len(list) + i] = moved[i]
  BY ConcatProperties, LenProperties
<1>2. \A k \in DOMAIN queue : \/ k \in DOMAIN list
                             \/ \E i \in DOMAIN moved : k = Len(list) + i
  <2> SUFFICES ASSUME NEW k \in DOMAIN queue, k \notin DOMAIN list
               PROVE  \E i \in DOMAIN moved : k = Len(list) + i
    OBVIOUS
  <2>1. k - Len(list) \in DOMAIN moved /\ k = Len(list) + (k - Len(list))
    BY <1>1
  <2> QED
    BY <2>1
<1> QED
  BY <1>1, <1>2

(* Moving a part of the heap to the end of the list, each item once, loses *)
(* nothing and duplicates nothing.                                         *)
LEMMA MovePlacedOnce ==
  ASSUME NEW list \in Seq(Task), NEW heap \in SUBSET Task, NEW gone,
         NEW part \in SUBSET heap, NEW moved \in Seq(Task),
         Range(moved) = part, \A i, j \in DOMAIN moved : moved[i] = moved[j] => i = j,
         PlacedOnce(list, heap, gone)
  PROVE  PlacedOnce(list \o moved, heap \ part, gone)
<1> DEFINE queue == list \o moved
<1>1. /\ Len(list) \in Nat /\ Len(moved) \in Nat
      /\ DOMAIN list = 1..Len(list) /\ DOMAIN moved = 1..Len(moved)
      /\ DOMAIN queue = 1..(Len(list) + Len(moved))
      /\ \A i \in DOMAIN list : queue[i] = list[i]
      /\ \A i \in DOMAIN moved : queue[Len(list) + i] = moved[i]
  BY Concatenation
<1>2. \A k \in DOMAIN queue : k \in DOMAIN list \/ \E i \in DOMAIN moved : k = Len(list) + i
  BY Concatenation
<1>3. \A i \in DOMAIN moved : moved[i] \in part
  BY DEF Range
<1>4. \A b \in part : \E i \in DOMAIN moved : moved[i] = b
  BY DEF Range
<1>5. \A i, j \in DOMAIN queue : queue[i].seq = queue[j].seq => i = j
  <2> SUFFICES ASSUME NEW i \in DOMAIN queue,
                      NEW j \in DOMAIN queue, queue[i].seq = queue[j].seq
               PROVE  i = j
    OBVIOUS
  <2>1. CASE i \in DOMAIN list /\ j \in DOMAIN list
    BY <1>1, <2>1 DEF PlacedOnce
  <2>2. CASE i \in DOMAIN list /\ j \notin DOMAIN list
    BY <1>1, <1>2, <1>3, <2>2 DEF PlacedOnce
  <2>3. CASE i \notin DOMAIN list /\ j \in DOMAIN list
    BY <1>1, <1>2, <1>3, <2>3 DEF PlacedOnce
  <2>4. CASE i \notin DOMAIN list /\ j \notin DOMAIN list
    <3>1. PICK x \in DOMAIN moved : i = Len(list) + x
      BY <1>2, <2>4
    <3>2. PICK y \in DOMAIN moved : j = Len(list) + y
      BY <1>2, <2>4
    <3>3. moved[x] = moved[y]
      BY <1>1, <1>3, <3>1, <3>2 DEF PlacedOnce
    <3> QED
      BY <3>1, <3>2, <3>3
  <2> QED
    BY <2>1, <2>2, <2>3, <2>4
<1>6. \A i \in DOMAIN queue : \A b \in heap \ part : queue[i].seq # b.seq
  BY <1>1, <1>2, <1>3 DEF PlacedOnce
<1>7. \A i \in DOMAIN queue : queue[i].seq \in 1..nextSeq /\ queue[i].seq \notin gone
  BY <1>1, <1>2, <1>3 DEF PlacedOnce
<1>8. ASSUME NEW n \in 1..nextSeq, n \notin gone, \A b \in heap \ part : b.seq # n
      PROVE  \E i \in DOMAIN queue : queue[i].seq = n
  <2>1. CASE \E i \in DOMAIN list : list[i].seq = n
    <3>1. PICK i \in DOMAIN list : list[i].seq = n
      BY <2>1
    <3>2. i \in DOMAIN queue /\ queue[i].seq = n
      BY <1>1, <3>1
    <3> QED
      BY <3>2
  <2>2. CASE \E b \in heap : b.seq = n
    <3>1. PICK b \in part : b.seq = n
      BY <1>8, <2>2
    <3>2. PICK i \in DOMAIN moved : moved[i] = b
      BY <1>4
    <3>3. Len(list) + i \in DOMAIN queue /\ queue[Len(list) + i].seq = n
      BY <1>1, <3>1, <3>2
    <3> QED
      BY <3>3
  <2> QED
    BY <1>8, <2>1, <2>2 DEF PlacedOnce
<1> QED
  BY <1>5, <1>6, <1>7, <1>8 DEF PlacedOnce

(* Taking the first task of the list loses nothing and duplicates nothing. *)
LEMMA TakePlacedOnce ==
  ASSUME NEW list \in Seq(Task), list # <<>>, NEW heap, NEW gone, PlacedOnce(list, heap, gone)
  PROVE  PlacedOnce(Tail(list), heap, gone \cup {Head(list).seq}) /\ Head(list).seq \notin gone
<1> DEFINE rest == Tail(list)
<1>1. /\ Len(list) \in Nat \ {0} /\ DOMAIN list = 1..Len(list) /\ 1 \in DOMAIN list
      /\ Head(list) = list[1]
      /\ rest \in Seq(Task) /\ Len(rest) = Len(list) - 1 /\ DOMAIN rest = 1..(Len(list) - 1)
      /\ \A i \in DOMAIN rest : rest[i] = list[i + 1] /\ i + 1 \in DOMAIN list
  BY HeadTailProperties, LenProperties, EmptySeq
<1>2. \A i \in DOMAIN list : i = 1 \/ (i - 1 \in DOMAIN rest /\ rest[i - 1] = list[i])
  BY <1>1
<1>3. \A i, j \in DOMAIN rest : rest[i].seq = rest[j].seq => i = j
  <2> SUFFICES ASSUME NEW i \in DOMAIN rest, NEW j \in DOMAIN rest, rest[i].seq = rest[j].seq
               PROVE  i = j
    OBVIOUS
  <2>1. i + 1 = j + 1
    BY <1>1 DEF PlacedOnce
  <2> QED
    BY <1>1, <2>1
<1>4. \A i \in DOMAIN rest : rest[i].seq # Head(list).seq
  <2> SUFFICES ASSUME NEW i \in DOMAIN rest, rest[i].seq = Head(list).seq PROVE FALSE
    OBVIOUS
  <2>1. i + 1 = 1
    BY <1>1 DEF PlacedOnce
  <2> QED
    BY <1>1, <2>1
<1>5. \A n \in 1..nextSeq :
        \/ n \in gone \cup {Head(list).seq}
        \/ \E i \in DOMAIN rest : rest[i].seq = n
        \/ \E b \in heap : b.seq = n
  <2> SUFFICES ASSUME NEW n \in 1..nextSeq, NEW i \in DOMAIN list, list[i].seq = n
               PROVE  n = Head(list).seq \/ \E j \in DOMAIN rest : rest[j].seq = n
    BY DEF PlacedOnce
  <2>1. CASE i = 1
    BY <1>1, <2>1
  <2>2. CASE i # 1
    BY <1>2, <2>2
  <2> QED
    BY <2>1, <2>2
<1>6. Head(list).seq \in 1..nextSeq /\ Head(list).seq \notin gone
  BY <1>1 DEF PlacedOnce
<1>7. \A b \in heap : b.seq # Head(list).seq
  BY <1>1 DEF PlacedOnce
<1>8. \A i \in DOMAIN rest : /\ rest[i].seq \in 1..nextSeq /\ rest[i].seq \notin gone
                            /\ \A b \in heap : rest[i].seq # b.seq
  BY <1>1 DEF PlacedOnce
<1> HIDE DEF rest
<1>9. PlacedOnce(rest, heap, gone \cup {Head(list).seq})
  BY <1>3, <1>4, <1>5, <1>6, <1>7, <1>8 DEF PlacedOnce
<1> QED
  BY <1>6, <1>9 DEF rest

(* Taking a task keeps the invariant, with the due tasks that move along. *)
LEMMA DequeueTaskStep == ASSUME IInv, NEW w \in Workers, DequeueTask(w) PROVE IInv'
<1> USE DEF IInv
<1>1. PICK moved \in HeapOrder(Due) :
        /\ ready \o moved # <<>>
        /\ ready' = Tail(ready \o moved)
        /\ processing' = [processing EXCEPT ![w] = Head(ready \o moved).seq]
        /\ taken' = taken \cup {Head(ready \o moved).seq}
  BY DEF DequeueTask, HeapAfterMove
<1> DEFINE queue == ready \o moved
<1>2. /\ pc[w] = "dequeue" /\ ~closed
      /\ delayed' = delayed \ Due
      /\ pending' = pending - 1
      /\ pc' = [pc EXCEPT ![w] = "processing"]
      /\ UNCHANGED <<now, nextSeq, closed, resv, signalled, deadline, cancelled>>
  BY DEF DequeueTask, HeapAfterMove
<1>3. Due \in SUBSET delayed /\ Due \in SUBSET Task /\ IsFiniteSet(Due)
  BY FS_Subset DEF Due, TypeOK
<1>4. /\ moved \in Seq(Task) /\ Len(moved) = Cardinality(Due) /\ Range(moved) = Due
      /\ \A i, j \in DOMAIN moved : moved[i] = moved[j] => i = j
  BY <1>3, HeapOrderLists
<1>5. /\ queue \in Seq(Task) /\ queue # <<>> /\ Len(queue) = Len(ready) + Cardinality(Due)
      /\ Head(queue) \in Task /\ Tail(queue) \in Seq(Task) /\ Len(Tail(queue)) = Len(queue) - 1
  <2>1. queue \in Seq(Task) /\ queue # <<>> /\ Len(queue) = Len(ready) + Cardinality(Due)
    BY <1>1, <1>4, ConcatProperties DEF TypeOK
  <2> HIDE DEF queue
  <2> QED
    BY <2>1, HeadTailProperties
<1>6. /\ IsFiniteSet(delayed') /\ delayed' \in SUBSET Task
      /\ Cardinality(delayed') = Cardinality(delayed) - Cardinality(Due)
  <2>1. delayed \cap Due = Due
    BY <1>3
  <2> QED
    BY <1>2, <2>1, FS_Difference DEF TypeOK
<1>7. /\ Cardinality(Due) \in Nat /\ Cardinality(delayed) \in Nat /\ Len(ready) \in Nat
      /\ Cardinality(Held) \in Nat /\ Cardinality(delayed') \in Nat /\ Len(queue) \in Nat \ {0}
  <2>1. Cardinality(Due) \in Nat /\ Cardinality(delayed') \in Nat
    BY <1>3, <1>6, FS_CardinalityType
  <2>2. Len(queue) \in Nat \ {0}
    BY <1>5, EmptySeq
  <2> QED
    BY <2>1, <2>2, QueuedCounts
<1>8. pending = Cardinality(Held) + Len(ready) + Cardinality(delayed)
  BY <1>2 DEF PendingExact
<1>9. PendingExact'
  <2>1. Held' = Held
    BY <1>2 DEF Held
  <2>2. Len(ready') = Len(ready) + Cardinality(Due) - 1
    BY <1>1, <1>5, <1>7
  <2>3. pending' = Cardinality(Held') + Len(ready') + Cardinality(delayed')
    <3>1. pending' = pending - 1
      BY <1>2
    <3>2. Cardinality(delayed') = Cardinality(delayed) - Cardinality(Due)
      BY <1>6
    <3> DEFINE dues == Cardinality(Due)
              heap == Cardinality(delayed)
              held == Cardinality(Held)
              list == Len(ready)
    <3>3. /\ dues \in Nat /\ heap \in Nat /\ held \in Nat /\ list \in Nat
          /\ pending = held + list + heap
      BY <1>7, <1>8
    <3>4. Len(ready') = list + dues - 1 /\ Cardinality(delayed') = heap - dues
          /\ Cardinality(Held') = held
      BY <2>1, <2>2, <3>2
    <3> HIDE DEF queue, dues, heap, held, list
    <3> QED
      BY <3>1, <3>3, <3>4
  <2> QED
    BY <1>2, <2>3 DEF PendingExact
<1>10. pending' \in Nat /\ pending' <= Capacity
  <2>1. Cardinality(Due) <= Cardinality(delayed)
    BY <1>6, <1>7
  <2>2. Len(ready) + Cardinality(Due) # 0
    BY <1>5, <1>7
  <2>3. pending # 0
    BY <1>7, <1>8, <2>1, <2>2
  <2> QED
    BY <1>2, <2>3 DEF TypeOK
<1>11. TypeOK'
  <2>1. ready' \in Seq(Task) /\ processing' \in [Workers -> Nat] /\ taken' \in SUBSET Nat
    BY <1>1, <1>5 DEF TypeOK, Task
  <2>2. pc' \in [Workers -> WorkerStates]
    BY <1>2 DEF TypeOK, WorkerStates
  <2> QED
    BY <1>2, <1>6, <1>10, <2>1, <2>2 DEF TypeOK
<1>12. ClosedEmpty'
  BY <1>2 DEF ClosedEmpty
<1>13. ReadyDue'
  <2>1. \A i \in DOMAIN queue : queue[i].readyAt <= now
    <3>1. ready \in Seq(Task)
      BY DEF TypeOK
    <3>2. /\ \A i \in DOMAIN queue :
               i \in DOMAIN ready \/ \E j \in DOMAIN moved : i = Len(ready) + j
          /\ \A i \in DOMAIN ready : queue[i] = ready[i]
          /\ \A i \in DOMAIN moved : queue[Len(ready) + i] = moved[i]
      BY <1>4, <3>1, Concatenation
    <3>3. \A i \in DOMAIN moved : moved[i].readyAt <= now
      BY <1>4 DEF Range, Due
    <3>4. \A i \in DOMAIN ready : ready[i].readyAt <= now
      BY DEF ReadyDue
    <3> HIDE DEF queue
    <3> QED
      BY <3>2, <3>3, <3>4
  <2> HIDE DEF queue
  <2>2. \A i \in DOMAIN Tail(queue) : i + 1 \in DOMAIN queue /\ Tail(queue)[i] = queue[i + 1]
    BY <1>5, HeadTailProperties, LenProperties
  <2>3. ready' = Tail(queue)
    BY <1>1 DEF queue
  <2> QED
    BY <1>2, <2>1, <2>2, <2>3 DEF ReadyDue
<1>14. NothingLostOrDuplicated'
  <2>1. PlacedOnce(ready, delayed, taken)
    BY <1>2 DEF NothingLostOrDuplicated, PlacedOnce
  <2>2. PlacedOnce(queue, delayed', taken)
    BY <1>2, <1>3, <1>4, <2>1, MovePlacedOnce DEF TypeOK
  <2>3. PlacedOnce(ready', delayed', taken')
    BY <1>1, <1>5, <2>2, TakePlacedOnce
  <2> QED
    BY <1>2, <2>3 DEF NothingLostOrDuplicated, PlacedOnce
<1>15. NoLostWakeup'
  <2> SUFFICES ASSUME NEW v \in Workers, pc'[v] = "waiting", ~signalled'[v]
               PROVE  /\ ~closed'
                      /\ ready' # <<>> => TimerFired(v)'
                      /\ \A item \in delayed' : deadline'[v] # NoTimer
                           /\ deadline'[v] <= item.readyAt
    BY DEF NoLostWakeup
  <2>1. pc[v] = "waiting" /\ ~signalled[v]
    BY <1>2 DEF TypeOK
  <2>2. /\ ready # <<>> => TimerFired(v)
        /\ \A item \in delayed : deadline[v] # NoTimer /\ deadline[v] <= item.readyAt
    BY <2>1 DEF NoLostWakeup
  <2>3. ASSUME ready = <<>> PROVE TimerFired(v)
    <3>1. Len(moved) # 0
      BY <1>4, <1>5, <1>7, <2>3
    <3>2. Due # {}
      BY <1>4, <3>1, FS_EmptySet
    <3>3. PICK item \in delayed : item.readyAt <= now
      BY <3>2 DEF Due
    <3>4. item.readyAt \in Int /\ now \in Int /\ deadline[v] \in Int
      BY DEF TypeOK, Task, NoTimer
    <3> QED
      BY <2>2, <3>3, <3>4 DEF TimerFired
  <2> QED
    BY <1>2, <2>2, <2>3 DEF TimerFired
<1> QED
  BY <1>9, <1>10, <1>11, <1>12, <1>13, <1>14, <1>15

(* A worker goes to sleep only when nothing is due and its timer covers what will be. *)
LEMMA DequeueWaitStep == ASSUME IInv, NEW w \in Workers, DequeueWait(w) PROVE IInv'
<1> USE DEF IInv
<1>1. TypeOK'
  <2>1. deadline' \in [Workers -> Nat \cup {NoTimer}]
    BY DEF DequeueWait, queueVars, TypeOK, Task
  <2> QED
    BY <2>1 DEF DequeueWait, queueVars, TypeOK, WorkerStates
<1>2. PendingExact' /\ ClosedEmpty' /\ ReadyDue' /\ NothingLostOrDuplicated'
      /\ pending' <= Capacity
  <2>1. Held' = Held
    BY DEF DequeueWait, queueVars, Held
  <2> QED
    BY <2>1 DEF DequeueWait, queueVars, PendingExact, ClosedEmpty, ReadyDue,
       NothingLostOrDuplicated
<1>3. NoLostWakeup'
  <2>1. ready' = <<>> /\ delayed' = delayed /\ closed' = closed /\ now' = now /\ ~closed
    BY DEF DequeueWait, queueVars
  <2>2. \A item \in delayed : deadline'[w] # NoTimer /\ deadline'[w] <= item.readyAt
    BY DEF DequeueWait, queueVars, TypeOK, Task, NoTimer
  <2>3. \A v \in Workers \ {w} :
          pc'[v] = pc[v] /\ signalled'[v] = signalled[v] /\ deadline'[v] = deadline[v]
    BY DEF DequeueWait, queueVars, TypeOK
  <2> QED
    BY <2>1, <2>2, <2>3 DEF NoLostWakeup
<1> QED
  BY <1>1, <1>2, <1>3

(* Waking up keeps the invariant. *)
LEMMA LeaveSelectStep ==
  ASSUME IInv, NEW w \in Workers, NEW next \in {"dequeue", "stopped"}, LeaveSelect(w, next)
  PROVE  IInv'
<1> USE DEF IInv
<1>1. TypeOK'
  BY DEF LeaveSelect, queueVars, TypeOK, WorkerStates
<1>2. PendingExact' /\ ClosedEmpty' /\ ReadyDue' /\ NothingLostOrDuplicated'
      /\ pending' <= Capacity
  <2>1. Held' = Held
    BY DEF LeaveSelect, queueVars, Held
  <2> QED
    BY <2>1 DEF LeaveSelect, queueVars, PendingExact, ClosedEmpty, ReadyDue,
       NothingLostOrDuplicated
<1>3. NoLostWakeup'
  BY DEF LeaveSelect, queueVars, NoLostWakeup, TimerFired, TypeOK
<1> QED
  BY <1>1, <1>2, <1>3

(* Leaving a closed queue keeps the invariant. *)
LEMMA DequeueClosedStep == ASSUME IInv, NEW w \in Workers, DequeueClosed(w) PROVE IInv'
<1> USE DEF IInv
<1>1. TypeOK'
  BY DEF DequeueClosed, queueVars, TypeOK, WorkerStates
<1>2. PendingExact' /\ ClosedEmpty' /\ ReadyDue' /\ NothingLostOrDuplicated'
      /\ pending' <= Capacity
  <2>1. Held' = Held
    BY DEF DequeueClosed, queueVars, Held
  <2> QED
    BY <2>1 DEF DequeueClosed, queueVars, PendingExact, ClosedEmpty, ReadyDue,
       NothingLostOrDuplicated
<1>3. NoLostWakeup'
  BY DEF DequeueClosed, queueVars, NoLostWakeup, TimerFired, TypeOK
<1> QED
  BY <1>1, <1>2, <1>3

(* Finishing a task keeps the invariant. *)
LEMMA ProcessedStep == ASSUME IInv, NEW w \in Workers, Processed(w) PROVE IInv'
<1> USE DEF IInv
<1>1. TypeOK'
  BY DEF Processed, queueVars, TypeOK, WorkerStates, NoTask
<1>2. PendingExact' /\ ClosedEmpty' /\ ReadyDue' /\ NothingLostOrDuplicated'
      /\ pending' <= Capacity
  <2>1. Held' = Held
    BY DEF Processed, queueVars, Held
  <2> QED
    BY <2>1 DEF Processed, queueVars, PendingExact, ClosedEmpty, ReadyDue,
       NothingLostOrDuplicated
<1>3. NoLostWakeup'
  BY DEF Processed, queueVars, NoLostWakeup, TimerFired, TypeOK
<1> QED
  BY <1>1, <1>2, <1>3

-----------------------------------------------------------------------------
(* The runtime. *)

(* Close keeps the invariant: it empties the queue and wakes all workers. *)
LEMMA CloseStep == ASSUME IInv, Close PROVE IInv'
<1> USE DEF IInv
<1>1. ready' = <<>> /\ delayed' = {} /\ pending' = 0 /\ closed' /\ closed' \in BOOLEAN
  BY DEF Close
<1>2. ready' \in Seq(Task) /\ IsFiniteSet(delayed')
  BY <1>1, EmptySeq, FS_EmptySet
<1>3. TypeOK'
  <2>1. signalled' \in [Workers -> BOOLEAN]
    BY DEF Close, SignalLocked, TypeOK
  <2>2. delayed' \in SUBSET Task /\ pending' \in Nat
    BY <1>1
  <2> QED
    BY <1>1, <1>2, <2>1, <2>2 DEF Close, TypeOK, workerVars
<1>4. PendingExact' /\ ClosedEmpty' /\ ReadyDue' /\ pending' <= Capacity
  BY <1>1 DEF PendingExact, ClosedEmpty, ReadyDue
<1>5. NothingLostOrDuplicated'
  BY <1>1 DEF Close, NothingLostOrDuplicated, workerVars
<1>6. NoLostWakeup'
  BY DEF Close, SignalLocked, NoLostWakeup, TypeOK, workerVars
<1> QED
  BY <1>3, <1>4, <1>5, <1>6

(* Cancellation keeps the invariant. *)
LEMMA CancelStep == ASSUME IInv, Cancel PROVE IInv'
<1> USE DEF IInv
<1>1. TypeOK'
  BY DEF Cancel, queueVars, TypeOK, workerVars
<1>2. PendingExact' /\ ClosedEmpty' /\ ReadyDue' /\ NothingLostOrDuplicated'
      /\ pending' <= Capacity
  <2>1. Held' = Held
    BY DEF Cancel, queueVars, Held, workerVars
  <2> QED
    BY <2>1 DEF Cancel, queueVars, PendingExact, ClosedEmpty, ReadyDue, NothingLostOrDuplicated,
       workerVars
<1>3. NoLostWakeup'
  BY DEF Cancel, queueVars, NoLostWakeup, TimerFired, TypeOK, workerVars
<1> QED
  BY <1>1, <1>2, <1>3

(* Time keeps the invariant: timers stay ahead of tasks. *)
LEMMA TickStep == ASSUME IInv, Tick PROVE IInv'
<1> USE DEF IInv
<1>1. TypeOK'
  <2>1. now' \in Nat
    BY DEF Tick, queueVars, TypeOK
  <2> QED
    BY <2>1 DEF Tick, queueVars, TypeOK, workerVars
<1>2. PendingExact' /\ ClosedEmpty' /\ NothingLostOrDuplicated' /\ pending' <= Capacity
  <2>1. Held' = Held
    BY DEF Tick, queueVars, Held
  <2> QED
    BY <2>1 DEF Tick, queueVars, PendingExact, ClosedEmpty, NothingLostOrDuplicated, workerVars
<1>3. NoLostWakeup'
  <2>1. \A w \in Workers : TimerFired(w) => TimerFired(w)'
    BY DEF Tick, queueVars, TypeOK, TimerFired, NoTimer, workerVars
  <2> QED
    BY <2>1 DEF Tick, queueVars, NoLostWakeup, workerVars
<1>4. ReadyDue'
  <2>1. \A i \in DOMAIN ready : ready[i].readyAt \in Nat
    <3>1. \A i \in DOMAIN ready : ready[i] \in Task
      BY LenProperties DEF TypeOK
    <3> QED
      BY <3>1 DEF Task
  <2> QED
    BY <2>1 DEF Tick, queueVars, ReadyDue, TypeOK
<1> QED
  BY <1>1, <1>2, <1>3, <1>4

(* Every step keeps the invariant. *)
LEMMA NextInvariant == IInv /\ [Next]_vars => IInv'
<1> SUFFICES ASSUME IInv, [Next]_vars PROVE IInv'
  OBVIOUS
<1>1. ASSUME NEW c \in Callers, CallerStep(c) PROVE IInv'
  BY <1>1, ReserveStep, CommitDelayedStep, CommitClosedStep, ReleaseStep DEF CallerStep
<1>2. ASSUME NEW w \in Workers, WorkerStep(w) PROVE IInv'
  <2>1. CASE DequeueTask(w)
    BY <2>1, DequeueTaskStep
  <2>2. CASE DequeueWait(w)
    BY <2>2, DequeueWaitStep
  <2>3. CASE DequeueClosed(w) \/ Processed(w)
    BY <2>3, DequeueClosedStep, ProcessedStep
  <2>4. CASE Wake(w) \/ WakeCancelled(w)
    BY <2>4, LeaveSelectStep DEF Wake, WakeCancelled
  <2> QED
    BY <1>2, <2>1, <2>2, <2>3, <2>4 DEF WorkerStep
<1>3. CASE Close \/ Cancel \/ Tick
  BY <1>3, CloseStep, CancelStep, TickStep
<1>4. CASE UNCHANGED vars
  <2>1. Held' = Held
    BY <1>4 DEF vars, Held
  <2> QED
    BY <1>4, <2>1 DEF vars, IInv, TypeOK, PendingExact, ClosedEmpty, ReadyDue,
       NothingLostOrDuplicated,
                      NoLostWakeup, TimerFired
<1> QED
  BY <1>1, <1>2, <1>3, <1>4 DEF Next

(* The invariant holds for ever. *)
LEMMA Invariance == Spec => []IInv
  BY InitInvariant, NextInvariant, PTL DEF Spec

-----------------------------------------------------------------------------
(* The variables keep their types; in particular the counter never goes    *)
(* below zero, though Close resets it under outstanding reservations.      *)
THEOREM TypeCorrect == Spec => []TypeOK
<1>1. IInv => TypeOK
  BY DEF IInv
<1> QED
  BY <1>1, Invariance, PTL

(* The counter admission reads is exact: reservations plus queued tasks    *)
(* while the queue is open, zero once it is closed.                        *)
THEOREM CounterExact == Spec => []PendingExact
<1>1. IInv => PendingExact
  BY DEF IInv
<1> QED
  BY <1>1, Invariance, PTL

(* Reserved slots and queued tasks together never exceed the capacity. *)
THEOREM CapacitySafe == Spec => []CapacityRespected
<1>1. IInv => CapacityRespected
  <2> SUFFICES ASSUME IInv PROVE CapacityRespected
    OBVIOUS
  <2>1. TypeOK /\ PendingExact /\ ClosedEmpty /\ pending <= Capacity
    BY DEF IInv
  <2>2. CASE closed
    <3>1. Len(ready) = 0 /\ Cardinality(delayed) = 0
      BY <2>1, <2>2, EmptySeq, FS_EmptySet DEF ClosedEmpty
    <3> QED
      BY <2>1, <3>1 DEF CapacityRespected, TypeOK
  <2>3. CASE ~closed
    <3>1. pending = Cardinality(Held) + Len(ready) + Cardinality(delayed)
      BY <2>1, <2>3 DEF PendingExact
    <3> QED
      BY <2>1, <3>1, QueuedCounts DEF CapacityRespected, TypeOK
  <2> QED
    BY <2>2, <2>3
<1> QED
  BY <1>1, Invariance, PTL

(* Every committed task is in exactly one place until Close. *)
THEOREM TasksConserved == Spec => []NothingLostOrDuplicated
<1>1. IInv => NothingLostOrDuplicated
  BY DEF IInv
<1> QED
  BY <1>1, Invariance, PTL

(* A sleeping worker with nothing pending to wake it has no task to run: a *)
(* ready task implies its timer is due, a delayed one that it is armed in  *)
(* time.                                                                   *)
THEOREM WakeupSafe == Spec => []NoLostWakeup
<1>1. IInv => NoLostWakeup
  BY DEF IInv
<1> QED
  BY <1>1, Invariance, PTL

-----------------------------------------------------------------------------
(* The order in which tasks are handed out. *)

SameKind(a, b) == a.delay = 0 <=> b.delay = 0

(* The tasks of a kind are in order on the list, and its delayed ones were *)
(* due before those of the heap, which holds no immediate ones.            *)
Ordered(list, heap) ==
  /\ \A i, j \in DOMAIN list : i < j /\ SameKind(list[i], list[j]) => Less(list[i], list[j])
  /\ \A i \in DOMAIN list, b \in heap : list[i].delay # 0 => Less(list[i], b)
  /\ \A b \in heap : b.delay # 0

(* Moving what is due, in the order of the heap, keeps the order. *)
LEMMA MoveOrdered ==
  ASSUME TypeOK, Ordered(ready, delayed), NEW moved \in HeapOrder(Due)
  PROVE  Ordered(ready \o moved, delayed \ Due)
<1> DEFINE queue == ready \o moved
<1>1. /\ moved \in Seq(Task) /\ DOMAIN moved = 1..Cardinality(Due)
      /\ \A i \in DOMAIN moved : moved[i] \in Due
  <2>1. Due \in SUBSET Task /\ IsFiniteSet(Due)
    BY FS_Subset DEF Due, TypeOK
  <2> QED
    BY <2>1, HeapOrderLists DEF Range
<1>2. \A i, j \in DOMAIN moved : i < j => Less(moved[i], moved[j])
  BY <1>1 DEF HeapOrder
<1>3. /\ Len(ready) \in Nat /\ DOMAIN ready = 1..Len(ready) /\ DOMAIN moved = 1..Len(moved)
      /\ DOMAIN queue = 1..(Len(ready) + Len(moved)) /\ Len(moved) \in Nat
      /\ \A i \in DOMAIN ready : queue[i] = ready[i]
      /\ \A i \in DOMAIN moved : queue[Len(ready) + i] = moved[i]
      /\ \A k \in DOMAIN queue : k \in DOMAIN ready
           \/ \E i \in DOMAIN moved : k = Len(ready) + i
  BY <1>1, Concatenation DEF TypeOK
<1> HIDE DEF queue
<1>4. ASSUME NEW i \in DOMAIN queue, NEW j \in DOMAIN queue, i < j, SameKind(queue[i], queue[j])
      PROVE  Less(queue[i], queue[j])
  <2>1. CASE i \in DOMAIN ready /\ j \in DOMAIN ready
    BY <1>3, <1>4, <2>1 DEF Ordered
  <2>2. CASE i \in DOMAIN ready /\ j \notin DOMAIN ready
    <3>1. PICK y \in DOMAIN moved : j = Len(ready) + y
      BY <1>3, <2>2
    <3>2. queue[i] = ready[i] /\ queue[j] = moved[y] /\ moved[y] \in delayed
      BY <1>1, <1>3, <2>2, <3>1 DEF Due
    <3>3. ready[i].delay # 0
      BY <1>4, <3>2 DEF Ordered, SameKind
    <3> QED
      BY <2>2, <3>2, <3>3 DEF Ordered
  <2>3. CASE i \notin DOMAIN ready
    <3>1. PICK x \in DOMAIN moved : i = Len(ready) + x
      BY <1>3, <2>3
    <3>2. j \notin DOMAIN ready
      BY <1>3, <1>4, <3>1
    <3>3. PICK y \in DOMAIN moved : j = Len(ready) + y
      BY <1>3, <3>2
    <3>4. x < y
      BY <1>3, <1>4, <3>1, <3>3
    <3> QED
      BY <1>2, <1>3, <3>1, <3>3, <3>4
  <2> QED
    BY <2>1, <2>2, <2>3
<1>5. ASSUME NEW i \in DOMAIN queue, NEW b \in delayed \ Due, queue[i].delay # 0
      PROVE  Less(queue[i], b)
  <2>1. CASE i \in DOMAIN ready
    BY <1>3, <1>5, <2>1 DEF Ordered
  <2>2. CASE i \notin DOMAIN ready
    <3>1. PICK x \in DOMAIN moved : i = Len(ready) + x
      BY <1>3, <2>2
    <3>2. queue[i] \in Task /\ queue[i].readyAt <= now
      BY <1>1, <1>3, <3>1 DEF Due, TypeOK
    <3>3. b \in Task /\ ~(b.readyAt <= now) /\ now \in Nat
      BY <1>5 DEF Due, TypeOK
    <3> QED
      BY <3>2, <3>3 DEF Less, Task
  <2> QED
    BY <2>1, <2>2
<1> QED
  BY <1>4, <1>5 DEF Ordered, queue

(* Taking the first task keeps the order of the others. *)
LEMMA TakeOrdered ==
  ASSUME NEW list \in Seq(Task), list # <<>>, NEW heap, Ordered(list, heap)
  PROVE  Ordered(Tail(list), heap)
<1>1. /\ Len(list) \in Nat
      /\ DOMAIN Tail(list) = 1..(Len(list) - 1) /\ DOMAIN list = 1..Len(list)
      /\ \A i \in DOMAIN Tail(list) : Tail(list)[i] = list[i + 1] /\ i + 1 \in DOMAIN list
  BY HeadTailProperties, LenProperties, EmptySeq
<1> QED
  BY <1>1 DEF Ordered

(* A commit is last among the immediate tasks, and is due after what the   *)
(* list holds already.                                                     *)
LEMMA CommitOrdered ==
  ASSUME IInv, Ordered(ready, delayed),
         NEW c \in Callers, NEW delay \in Delays, CommitDelayed(c, delay)
  PROVE  Ordered(ready', delayed')
<1> USE DEF IInv
<1> DEFINE item == [seq |-> nextSeq + 1, readyAt |-> now + delay, delay |-> delay]
<1>1. item \in Task /\ item.seq = nextSeq + 1 /\ item.readyAt = now + delay
      /\ item.delay = delay
  BY DEF TypeOK, Task
<1>2. \/ delay = 0 /\ ready' = Append(ready, item) /\ delayed' = delayed
      \/ delay # 0 /\ delayed' = delayed \cup {item} /\ ready' = ready
  BY DEF CommitDelayed, Unused
<1>3. \A i \in DOMAIN ready : ready[i] \in Task /\ Less(ready[i], item)
  <2> SUFFICES ASSUME NEW i \in DOMAIN ready PROVE ready[i] \in Task /\ Less(ready[i], item)
    OBVIOUS
  <2>1. ready[i] \in Task /\ ready[i].readyAt <= now /\ ready[i].seq \in 1..nextSeq
    BY DEF TypeOK, ReadyDue, NothingLostOrDuplicated
  <2>2. now \in Nat /\ nextSeq \in Nat /\ delay \in Nat
    BY DEF TypeOK
  <2> HIDE DEF item
  <2> QED
    BY <1>1, <2>1, <2>2 DEF Less, Task
<1> HIDE DEF item
<1>4. CASE delay = 0
  <2>1. /\ DOMAIN ready = 1..Len(ready) /\ Len(ready) \in Nat
        /\ DOMAIN ready' = 1..(Len(ready) + 1)
        /\ \A i \in DOMAIN ready : ready'[i] = ready[i]
        /\ ready'[Len(ready) + 1] = item
    <3>1. ready' = Append(ready, item) /\ ready \in Seq(Task)
      BY <1>2, <1>4 DEF TypeOK
    <3> QED
      BY <1>1, <3>1, QueuedCounts, AppendProperties
  <2>2. \A i, j \in DOMAIN ready' : i < j => i \in DOMAIN ready
    BY <2>1
  <2>3. \A i \in DOMAIN ready' : i \in DOMAIN ready \/ (i = Len(ready) + 1 /\ ready'[i] = item)
    BY <2>1
  <2> QED
    BY <1>1, <1>2, <1>3, <1>4, <2>1, <2>2, <2>3 DEF Ordered
<1>5. CASE delay # 0
  BY <1>1, <1>2, <1>3, <1>5 DEF Ordered
<1> QED
  BY <1>4, <1>5

(* The list and the heap are in order, and what is taken is the first of   *)
(* its kind.                                                               *)
LEMMA NextOrdered ==
  ASSUME IInv, Ordered(ready, delayed), [Next]_vars
  PROVE  /\ Ordered(ready', delayed')
         /\ \A a \in Queued : a.seq \in taken' \ taken =>
              \A b \in Queued : b # a /\ SameKind(a, b) => Less(a, b)
<1> USE DEF IInv
<1>1. ASSUME NEW c \in Callers, NEW delay \in Delays, CommitDelayed(c, delay)
      PROVE  Ordered(ready', delayed') /\ taken' = taken
  BY <1>1, CommitOrdered DEF CommitDelayed, workerVars
<1>2. ASSUME NEW w \in Workers, DequeueTask(w)
      PROVE  /\ Ordered(ready', delayed')
             /\ \A a \in Queued : a.seq \in taken' \ taken =>
                  \A b \in Queued : b # a /\ SameKind(a, b) => Less(a, b)
  <2>1. PICK moved \in HeapOrder(Due) :
          /\ ready \o moved # <<>>
          /\ ready' = Tail(ready \o moved)
          /\ taken' = taken \cup {Head(ready \o moved).seq}
    BY <1>2 DEF DequeueTask, HeapAfterMove
  <2>2. PICK queue : queue = ready \o moved
    OBVIOUS
  <2>3. ~closed /\ delayed' = delayed \ Due
    BY <1>2 DEF DequeueTask, HeapAfterMove
  <2>4. Ordered(queue, delayed')
    BY <2>2, <2>3, MoveOrdered
  <2>5. Due \in SUBSET Task /\ IsFiniteSet(Due)
    BY FS_Subset DEF Due, TypeOK
  <2>6. /\ moved \in Seq(Task) /\ Range(moved) = Due
        /\ \A i, j \in DOMAIN moved : moved[i] = moved[j] => i = j
    BY <2>5, HeapOrderLists
  <2>7. queue \in Seq(Task) /\ queue # <<>> /\ Range(queue) = Range(ready) \cup Due
    BY <2>1, <2>2, <2>6, ConcatProperties, RangeConcatenation DEF TypeOK
  <2>8. Ordered(ready', delayed')
    BY <2>1, <2>2, <2>4, <2>7, TakeOrdered
  <2>9. PlacedOnce(queue, delayed', taken)
    <3>1. PlacedOnce(ready, delayed, taken)
      BY <2>3 DEF NothingLostOrDuplicated, PlacedOnce
    <3>2. Due \in SUBSET delayed
      BY DEF Due
    <3> QED
      BY <2>2, <2>3, <2>6, <3>1, <3>2, MovePlacedOnce DEF TypeOK
  <2>10. /\ DOMAIN queue = 1..Len(queue) /\ Len(queue) \in Nat /\ 1 \in DOMAIN queue
         /\ Head(queue) = queue[1]
    BY <2>7, HeadTailProperties, LenProperties, EmptySeq
  <2>11. \A b \in Queued : b \in delayed' \/ \E k \in DOMAIN queue : b = queue[k]
    BY <2>3, <2>7 DEF Queued, Range
  <2>12. ASSUME NEW a \in Queued, a.seq \in taken' \ taken PROVE a = queue[1]
    <3>1. a.seq = queue[1].seq
      BY <2>1, <2>2, <2>10, <2>12
    <3>2. a \notin delayed'
      BY <2>9, <2>10, <3>1 DEF PlacedOnce
    <3>3. PICK k \in DOMAIN queue : a = queue[k]
      BY <2>11, <3>2
    <3> QED
      BY <2>9, <2>10, <3>1, <3>3 DEF PlacedOnce
  <2>13. ASSUME NEW b \in Queued, b # queue[1], SameKind(queue[1], b) PROVE Less(queue[1], b)
    <3>1. CASE b \in delayed'
      <4>1. b.delay # 0
        BY <2>4, <3>1 DEF Ordered
      <4> QED
        BY <2>4, <2>10, <2>13, <3>1, <4>1 DEF Ordered, SameKind
    <3>2. CASE b \notin delayed'
      <4>1. PICK k \in DOMAIN queue : b = queue[k]
        BY <2>11, <3>2
      <4>2. k > 1
        BY <2>10, <2>13, <4>1
      <4> QED
        BY <2>4, <2>10, <2>13, <4>1, <4>2 DEF Ordered
    <3> QED
      BY <3>1, <3>2
  <2> QED
    BY <2>8, <2>12, <2>13
<1>3. CASE Close
  <2>1. ready' = <<>> /\ delayed' = {} /\ taken' = taken
    BY <1>3 DEF Close, workerVars
  <2>2. DOMAIN ready' = {}
    BY <2>1
  <2> QED
    BY <2>1, <2>2 DEF Ordered
<1>4. ASSUME UNCHANGED <<ready, delayed, taken>>
      PROVE  Ordered(ready', delayed') /\ taken' = taken
  BY <1>4
<1>5. ASSUME NEW c \in Callers, Reserve(c) \/ CommitClosed(c) \/ Release(c)
      PROVE  UNCHANGED <<ready, delayed, taken>>
  BY <1>5 DEF Reserve, CommitClosed, Release, workerVars
<1>6. ASSUME NEW w \in Workers,
             DequeueWait(w) \/ DequeueClosed(w) \/ Wake(w) \/ WakeCancelled(w) \/ Processed(w)
      PROVE  UNCHANGED <<ready, delayed, taken>>
  BY <1>6 DEF DequeueWait, DequeueClosed, Wake, WakeCancelled, LeaveSelect, Processed, queueVars
<1>7. CASE Cancel \/ Tick \/ UNCHANGED vars
  <2>1. UNCHANGED <<ready, delayed, taken>>
    BY <1>7 DEF Cancel, Tick, queueVars, workerVars, vars
  <2> QED
    BY <1>4, <2>1
<1> QED
  BY <1>1, <1>2, <1>3, <1>4, <1>5, <1>6, <1>7 DEF Next, CallerStep, WorkerStep

(* Of the delayed tasks the one that is due first is handed out first, and *)
(* the immediate ones in the order of their commits, whichever worker asks *)
(* and whichever others were moved from the heap along with it.            *)
THEOREM OrderSafe == Spec => HandedOutInOrder
<1> DEFINE InOrderStep ==
      \A a \in Queued : a.seq \in taken' \ taken =>
        \A b \in Queued : b # a /\ (a.delay = 0 <=> b.delay = 0) => Less(a, b)
<1>1. Init => Ordered(ready, delayed)
  <2>1. DOMAIN <<>> = {}
    OBVIOUS
  <2> QED
    BY <2>1 DEF Init, Ordered
<1>2. IInv /\ Ordered(ready, delayed) /\ [Next]_vars =>
        Ordered(ready, delayed)' /\ InOrderStep
  BY NextOrdered DEF SameKind
<1> HIDE DEF InOrderStep
<1>3. Spec => [][InOrderStep]_vars
  BY <1>1, <1>2, Invariance, PTL DEF Spec
<1> QED
  BY <1>3 DEF HandedOutInOrder, InOrderStep

-----------------------------------------------------------------------------
(* The refinement: each step of the queue is a step of DelayQueue. *)

(* The initial queue is an initial DelayQueue. *)
LEMMA InitRefines == Init => Abstract!Init
<1> SUFFICES ASSUME Init PROVE Abstract!Init
  OBVIOUS
<1>1. Held = {}
  BY DEF Init, Held
<1>2. Queued = {}
  BY DEF Init, Queued, Range
<1> QED
  BY <1>1, <1>2 DEF Init, Abstract!Init

(* Admission by the counter is admission by the real number of claims and  *)
(* tasks: the ready list and the heap share no task.                       *)
LEMMA QueuedSize == ASSUME IInv PROVE Cardinality(Queued) = Len(ready) + Cardinality(delayed)
<1>0. TypeOK /\ NothingLostOrDuplicated
  BY DEF IInv
<1>1. /\ Len(ready) \in Nat /\ DOMAIN ready = 1..Len(ready)
      /\ ready \in [1..Len(ready) -> Range(ready)]
  BY <1>0, LenProperties DEF TypeOK, Range
<1>2. ready \in Surjection(1..Len(ready), Range(ready))
  BY <1>1 DEF Surjection, Range
<1>3. ready \in Injection(1..Len(ready), Range(ready))
  <2>1. \A i, j \in 1..Len(ready) : ready[i] = ready[j] => i = j
    <3> SUFFICES ASSUME NEW i \in 1..Len(ready), NEW j \in 1..Len(ready), ready[i] = ready[j]
                 PROVE  i = j
      OBVIOUS
    <3>1. ready[i].seq = ready[j].seq
      OBVIOUS
    <3> QED
      BY <1>0, <1>1, <3>1 DEF NothingLostOrDuplicated
  <2>2. DOMAIN ready = 1..Len(ready) /\ ready \in [1..Len(ready) -> Range(ready)]
    BY <1>1
  <2> QED
    BY <2>1, <2>2 DEF Injection, IsInjective
<1>4. IsFiniteSet(1..Len(ready)) /\ Cardinality(1..Len(ready)) = Len(ready)
  <2> DEFINE n == Len(ready)
  <2>1. n \in Nat
    BY <1>1
  <2> HIDE DEF n
  <2>2. IsFiniteSet(1..n) /\ Cardinality(1..n) = n
    BY <2>1, FS_Interval
  <2> QED
    BY <2>2 DEF n
<1>5. IsFiniteSet(Range(ready)) /\ Cardinality(Range(ready)) = Len(ready)
  BY <1>2, <1>3, <1>4, FS_Surjection
<1>6. Range(ready) \cap delayed = {}
  BY <1>0 DEF NothingLostOrDuplicated, Range
<1>7. Cardinality(Range(ready) \cup delayed) = Len(ready) + Cardinality(delayed) - 0
  BY <1>0, <1>5, <1>6, FS_Union, FS_EmptySet DEF TypeOK
<1> QED
  BY <1>0, <1>1, <1>7, QueuedCounts DEF Queued

(* Reserve claims a slot. *)
LEMMA ReserveRefines == ASSUME IInv, NEW c \in Callers, Reserve(c) PROVE Abstract!Claim(c)
<1>1. Held' = Held \cup {c} /\ c \notin Held
  BY DEF IInv, Reserve, HasRoom, TypeOK, Held
<1>2. Queued' = Queued
  BY DEF Reserve, HasRoom, Queued
<1>3. Cardinality(Held) + Cardinality(Queued) < Capacity
  <2>1. ~closed /\ pending < Capacity
    BY DEF Reserve, HasRoom
  <2>2. pending = Cardinality(Held) + Len(ready) + Cardinality(delayed)
    BY <2>1 DEF IInv, PendingExact
  <2> QED
    BY <2>1, <2>2, QueuedSize, QueuedCounts DEF IInv
<1>4. UNCHANGED <<now, nextSeq, taken, closed>> /\ ~closed
  BY DEF Reserve, HasRoom, workerVars
<1> QED
  <2>1. \A S : Abstract!Cardinality(S) = Cardinality(S)
    BY DEF Abstract!Cardinality, Cardinality
  <2>2. Abstract!Cardinality(Held) + Abstract!Cardinality(Queued) < Capacity
    BY <1>3, <2>1
  <2> QED
    BY <1>1, <1>2, <1>4, <2>2 DEF Abstract!Claim

(* A commit puts a task for a claim. *)
LEMMA CommitDelayedRefines ==
  ASSUME IInv, NEW c \in Callers, NEW delay \in Delays, CommitDelayed(c, delay)
  PROVE  Abstract!Put(c, delay)
<1> DEFINE item == [seq |-> nextSeq + 1, readyAt |-> now + delay, delay |-> delay]
<1>1. Held' = Held \ {c} /\ c \in Held
  BY DEF IInv, CommitDelayed, Unused, TypeOK, Held
<1>2. Queued' = Queued \cup {item}
  <2>1. CASE delay = 0
    <3>1. ready' = Append(ready, item) /\ delayed' = delayed /\ item \in Task
      BY <2>1 DEF CommitDelayed, Unused, IInv, TypeOK, Task
    <3>2. /\ Len(ready) \in Nat /\ DOMAIN ready = 1..Len(ready)
          /\ DOMAIN ready' = 1..(Len(ready) + 1)
          /\ \A i \in DOMAIN ready : ready'[i] = ready[i]
          /\ ready'[Len(ready) + 1] = item
      BY <3>1, AppendProperties, LenProperties DEF IInv, TypeOK
    <3>3. Range(ready') = Range(ready) \cup {item}
      <4>1. \A i \in DOMAIN ready' : i \in DOMAIN ready \/ i = Len(ready) + 1
        BY <3>2
      <4>2. DOMAIN ready \subseteq DOMAIN ready' /\ Len(ready) + 1 \in DOMAIN ready'
        BY <3>2
      <4> QED
        BY <3>2, <4>1, <4>2 DEF Range
    <3> QED
      BY <3>1, <3>3 DEF Queued
  <2>2. CASE delay # 0
    BY <2>2 DEF CommitDelayed, Unused, Queued
  <2> QED
    BY <2>1, <2>2
<1> QED
  BY <1>1, <1>2 DEF CommitDelayed, Unused, Abstract!Put, workerVars

(* Giving a claim back is the same in both. *)
LEMMA GiveBackRefines ==
  ASSUME IInv, NEW c \in Callers, CommitClosed(c) \/ Release(c)
  PROVE  Abstract!GiveBack(c)
<1>1. /\ Held' = Held \ {c} /\ c \in Held
      /\ UNCHANGED <<now, nextSeq, ready, delayed, closed, taken>>
  BY DEF IInv, CommitClosed, Unused, Release, TypeOK, Held, workerVars
<1>2. Queued' = Queued
  BY <1>1 DEF Queued
<1> QED
  BY <1>1, <1>2 DEF Abstract!GiveBack

(* Dequeue hands out a task that is due. *)
LEMMA DequeueTaskRefines ==
  ASSUME IInv, NEW w \in Workers, DequeueTask(w)
  PROVE  \E item \in Queued : Abstract!Take(item)
<1> USE DEF IInv
<1>1. PICK moved \in HeapOrder(Due) :
        /\ ready \o moved # <<>>
        /\ ready' = Tail(ready \o moved)
        /\ taken' = taken \cup {Head(ready \o moved).seq}
  BY DEF DequeueTask, HeapAfterMove
<1> DEFINE queue == ready \o moved
<1> DEFINE first == queue[1]
<1>2. ~closed /\ delayed' = delayed \ Due /\ UNCHANGED <<now, nextSeq, closed, resv>>
  BY DEF DequeueTask, HeapAfterMove
<1>3. Due \in SUBSET delayed /\ Due \in SUBSET Task /\ IsFiniteSet(Due)
  BY FS_Subset DEF Due, TypeOK
<1>4. /\ moved \in Seq(Task) /\ Range(moved) = Due
      /\ \A i, j \in DOMAIN moved : moved[i] = moved[j] => i = j
  BY <1>3, HeapOrderLists
<1>5. PlacedOnce(queue, delayed', taken)
  <2>1. PlacedOnce(ready, delayed, taken)
    BY <1>2 DEF NothingLostOrDuplicated, PlacedOnce
  <2> QED
    BY <1>2, <1>3, <1>4, <2>1, MovePlacedOnce DEF TypeOK
<1>6. queue \in Seq(Task) /\ queue # <<>> /\ Range(queue) = Range(ready) \cup Due
  BY <1>1, <1>4, ConcatProperties, RangeConcatenation DEF TypeOK
<1>7. ready' = Tail(queue) /\ taken' = taken \cup {Head(queue).seq}
  BY <1>1
<1> HIDE DEF queue
<1>8. /\ DOMAIN queue = 1..Len(queue) /\ Len(queue) \in Nat \ {0} /\ 1 \in DOMAIN queue
      /\ Head(queue) = first /\ first \in Range(queue)
      /\ DOMAIN ready' = 1..(Len(queue) - 1)
      /\ \A i \in DOMAIN ready' : ready'[i] = queue[i + 1] /\ i + 1 \in DOMAIN queue
  BY <1>6, <1>7, HeadTailProperties, LenProperties, EmptySeq DEF Range
<1>9. first.seq \notin taken /\ first \notin delayed'
  BY <1>5, <1>8 DEF PlacedOnce
<1>10. Range(ready') = Range(queue) \ {first}
  <2>1. \A i \in DOMAIN queue : i # 1 => i - 1 \in DOMAIN ready' /\ ready'[i - 1] = queue[i]
    BY <1>8
  <2>2. \A i \in DOMAIN queue : queue[i] = first => i = 1
    BY <1>5, <1>8 DEF PlacedOnce
  <2>3. \A i \in DOMAIN ready' : ready'[i] # first
    BY <1>8, <2>2
  <2> QED
    BY <1>8, <2>1, <2>3 DEF Range
<1>11. first \in Queued /\ Queued' = Queued \ {first}
  BY <1>2, <1>3, <1>6, <1>8, <1>9, <1>10 DEF Queued
<1>12. first.readyAt <= now
  BY <1>6, <1>8 DEF Range, ReadyDue, Due
<1>13. Held' = Held
  BY <1>2 DEF Held
<1> HIDE DEF first
<1>14. Abstract!Take(first)
  BY <1>2, <1>7, <1>8, <1>9, <1>11, <1>12, <1>13 DEF Abstract!Take
<1> QED
  BY <1>11, <1>14

(* Close shuts the queue. *)
LEMMA CloseRefines == ASSUME IInv, Close PROVE Abstract!Shut
<1>1. Held' = Held
  BY DEF Close, Held
<1>2. Queued' = {}
  BY DEF Close, Queued, Range
<1>3. ~closed /\ closed' = TRUE /\ UNCHANGED <<now, nextSeq, taken>>
  BY DEF Close, workerVars
<1> QED
  BY <1>1, <1>2, <1>3 DEF Abstract!Shut

(* Time passes alike. *)
LEMMA TickRefines == ASSUME IInv, Tick PROVE Abstract!Tick
<1>1. Held' = Held /\ Queued' = Queued
  BY DEF Tick, queueVars, Held, Queued
<1>2. now' = now + 1 /\ UNCHANGED <<nextSeq, taken, closed>>
  BY DEF Tick, queueVars, workerVars
<1> QED
  BY <1>1, <1>2 DEF Abstract!Tick

(* Waiting, waking, ending a task, cancelling: the callers see none of it. *)
LEMMA SilentRefines ==
  ASSUME UNCHANGED <<now, resv, ready, delayed, nextSeq, taken, closed>>
  PROVE  UNCHANGED Abstract!vars
<1>1. Held' = Held /\ Queued' = Queued
  BY DEF Held, Queued
<1> QED
  BY <1>1 DEF Abstract!vars

(* Every step is one of DelayQueue or leaves it as it is. *)
LEMMA NextRefines == IInv /\ [Next]_vars => [Abstract!Next]_(Abstract!vars)
<1> SUFFICES ASSUME IInv, [Next]_vars PROVE [Abstract!Next]_(Abstract!vars)
  OBVIOUS
<1>1. ASSUME NEW c \in Callers, CallerStep(c) PROVE Abstract!Next
  BY <1>1, ReserveRefines, CommitDelayedRefines, GiveBackRefines DEF CallerStep, Abstract!Next
<1>2. ASSUME NEW w \in Workers, WorkerStep(w) PROVE [Abstract!Next]_(Abstract!vars)
  <2>1. CASE DequeueTask(w)
    BY <2>1, DequeueTaskRefines DEF Abstract!Next
  <2>2. CASE DequeueWait(w)
    BY <2>2, SilentRefines DEF DequeueWait, queueVars
  <2>3. CASE DequeueClosed(w)
    BY <2>3, SilentRefines DEF DequeueClosed, queueVars
  <2>4. CASE Wake(w) \/ WakeCancelled(w)
    BY <2>4, SilentRefines DEF Wake, WakeCancelled, LeaveSelect, queueVars
  <2>5. CASE Processed(w)
    BY <2>5, SilentRefines DEF Processed, queueVars
  <2> QED
    BY <1>2, <2>1, <2>2, <2>3, <2>4, <2>5 DEF WorkerStep
<1>3. CASE Close
  BY <1>3, CloseRefines DEF Abstract!Next
<1>4. CASE Cancel
  BY <1>4, SilentRefines DEF Cancel, queueVars, workerVars
<1>5. CASE Tick
  BY <1>5, TickRefines DEF Abstract!Next
<1>6. CASE UNCHANGED vars
  BY <1>6, SilentRefines DEF vars
<1> QED
  BY <1>1, <1>2, <1>3, <1>4, <1>5, <1>6 DEF Next

(* The queue implements DelayQueue: a bag of bounded size whose claims and *)
(* tasks are counted together, whose tasks are handed out once and never   *)
(* early, and which Close empties for good.                                *)
THEOREM Refinement == Spec => ImplementsDelayQueue
  BY InitRefines, NextRefines, Invariance, PTL DEF Spec, ImplementsDelayQueue, Abstract!Spec
=============================================================================
