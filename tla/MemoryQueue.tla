---------------------------- MODULE MemoryQueue ----------------------------
(***************************************************************************)
(* The in-process delivery queue of MuxMail Lite                           *)
(* (internal/lite/memory_queue.go).                                        *)
(*                                                                         *)
(* API handlers and retrying workers (Callers) reserve one slot of         *)
(* capacity, then commit a task into it, at once or with a delay, or       *)
(* release it.  Workers dequeue; with nothing ready they leave the mutex   *)
(* and select on the notify channel they captured under the mutex, on a    *)
(* timer for the earliest delayed task, and on their context.  Every       *)
(* critical section of the mutex is one action.                            *)
(***************************************************************************)
EXTENDS Integers, Sequences, FiniteSets, Functions

CONSTANTS
  Capacity,   \* MemoryQueueConfig.Capacity
  Callers,    \* goroutines that reserve and commit (API handlers, retries)
  Workers,    \* goroutines that dequeue
  Delays,     \* the delays callers ask for (0 is Enqueue / Commit)
  MaxSeq,     \* bound on the number of committed tasks
  MaxTime     \* bound on the clock

ASSUME CapacityAssumption == Capacity \in Nat \ {0}
ASSUME CallersAssumption  == IsFiniteSet(Callers)
ASSUME WorkersAssumption  == IsFiniteSet(Workers)
ASSUME DelaysAssumption   == Delays \subseteq Nat
ASSUME BoundsAssumption   == MaxSeq \in Nat /\ MaxTime \in Nat

NoTimer == -1    \* nextDelayLocked's -1: no delayed task, no timer
NoTask  == 0     \* a worker that is not processing a task

VARIABLES
  now,         \* the clock q.now() reads, which is taken never to step back
  pending,     \* MemoryQueue.pending
  nextSeq,     \* MemoryQueue.nextSeq
  ready,       \* MemoryQueue.ready
  delayed,     \* MemoryQueue.delayed, the heap as the set of its items
  closed,      \* MemoryQueue.closed
  resv,        \* each caller's latest QueueReservation
  pc,          \* where each worker is in runOne / Dequeue
  signalled,   \* whether the notify channel a waiting worker captured was closed
  deadline,    \* when the timer a waiting worker armed fires
  processing,  \* the task each worker is processing
  cancelled,   \* the workers' context is done
  taken        \* history: every task some Dequeue has returned

vars == <<now, pending, nextSeq, ready, delayed, closed, resv, pc, signalled,
          deadline, processing, cancelled, taken>>

(***************************************************************************)
(* A queued task.  seq is queuedTask.sequence and stands for the task too; *)
(* delay is the caller's argument, kept so that properties can tell the    *)
(* immediate tasks from the delayed ones.                                  *)
(***************************************************************************)
Task == [seq : Nat \ {0}, readyAt : Nat, delay : Nat]

ReservationStates == {"none", "held", "used"}
WorkerStates      == {"dequeue", "waiting", "processing", "stopped"}

Init ==
  /\ now = 0
  /\ pending = 0
  /\ nextSeq = 0
  /\ ready = <<>>
  /\ delayed = {}
  /\ closed = FALSE
  /\ resv = [c \in Callers |-> "none"]
  /\ pc = [w \in Workers |-> "dequeue"]
  /\ signalled = [w \in Workers |-> FALSE]
  /\ deadline = [w \in Workers |-> NoTimer]
  /\ processing = [w \in Workers |-> NoTask]
  /\ cancelled = FALSE
  /\ taken = {}

queueVars  == <<pending, nextSeq, ready, delayed, closed, resv>>
workerVars == <<pc, deadline, processing, taken>>

Waiting == {w \in Workers : pc[w] = "waiting"}

(* Seeded faults: nobody is signalled; one waiter is, as a send on a channel *)
(* would do.                                                                *)
SignalNobody == UNCHANGED signalled
SignalOne ==
  \/ Waiting = {} /\ UNCHANGED signalled
  \/ \E w \in Waiting : signalled' = [signalled EXCEPT ![w] = TRUE]

(* signalLocked closes the current notify channel: every worker now        *)
(* waiting captured that channel or one closed before it.                  *)
SignalLocked ==
  signalled' = [w \in Workers |-> IF pc[w] = "waiting" THEN TRUE ELSE signalled[w]]

-----------------------------------------------------------------------------
(* Callers. *)

(* Seeded fault: one reservation too many is let through. *)
HasRoomOffByOne == pending <= Capacity

(* Reserve's capacity test. *)
HasRoom == pending < Capacity

(* Reserve.  A closed queue and a full one return an error and change      *)
(* nothing.  A caller that used its reservation may ask for another one.   *)
Reserve(c) ==
  /\ resv[c] # "held"
  /\ ~closed
  /\ HasRoom
  /\ pending' = pending + 1
  /\ resv' = [resv EXCEPT ![c] = "held"]
  /\ UNCHANGED <<now, nextSeq, ready, delayed, closed, signalled, cancelled, workerVars>>

(* Seeded fault: a used reservation may be used again. *)
UnusedForgotten(c) == resv[c] # "none"

(* The used flag of the reservation, which Commit and Release test first. *)
Unused(c) == resv[c] = "held"

(* CommitDelayed on an open queue; Commit is CommitDelayed with delay 0. *)
CommitDelayed(c, delay) ==
  /\ Unused(c)
  /\ ~closed
  /\ nextSeq < MaxSeq /\ now + delay <= MaxTime  \* the model's bounds
  /\ resv' = [resv EXCEPT ![c] = "used"]
  /\ nextSeq' = nextSeq + 1
  /\ LET item == [seq |-> nextSeq + 1, readyAt |-> now + delay, delay |-> delay] IN
       \/ /\ delay = 0
          /\ ready' = Append(ready, item)
          /\ UNCHANGED delayed
       \/ /\ delay # 0
          /\ delayed' = delayed \cup {item}
          /\ UNCHANGED ready
  /\ SignalLocked
  /\ UNCHANGED <<now, pending, closed, cancelled, workerVars>>

(* Seeded fault: the decrement trusts the counter. *)
DecrementUnguarded == pending' = pending - 1

(* The decrement Commit and Release share: never below zero, because Close *)
(* has already reset the counter under a reservation still held.           *)
DecrementPending == pending' = IF pending > 0 THEN pending - 1 ELSE pending

(* CommitDelayed on a closed queue uses the reservation up and fails. *)
CommitClosed(c) ==
  /\ Unused(c)
  /\ closed
  /\ resv' = [resv EXCEPT ![c] = "used"]
  /\ DecrementPending
  /\ UNCHANGED <<now, nextSeq, ready, delayed, closed, signalled, cancelled, workerVars>>

(* Release.  processSend defers it on every failure, after a failed Commit *)
(* too: on a used reservation it does nothing.                             *)
Release(c) ==
  /\ Unused(c)
  /\ resv' = [resv EXCEPT ![c] = "used"]
  /\ DecrementPending
  /\ SignalLocked
  /\ UNCHANGED <<now, nextSeq, ready, delayed, closed, cancelled, workerVars>>

-----------------------------------------------------------------------------
(* Workers. *)

(* Seeded fault: the heap is ordered by insertion. *)
LessBySequence(a, b) == a.seq < b.seq

(* delayedTaskHeap.Less *)
Less(a, b) ==
  \/ a.readyAt < b.readyAt
  \/ a.readyAt = b.readyAt /\ a.seq < b.seq

(* What moveReadyLocked pops off the heap. *)
Due == {item \in delayed : item.readyAt <= now}

(* Seeded fault: due tasks are copied to the ready list and stay in the heap. *)
HeapAfterMoveKept == delayed

(* The heap once moveReadyLocked has popped the due tasks. *)
HeapAfterMove == delayed \ Due

(* The sequences in which successive heap.Pops return the items of S. *)
HeapOrder(S) ==
  {s \in [1..Cardinality(S) -> S] :
     \A i, j \in 1..Cardinality(S) : i < j => Less(s[i], s[j])}

(* Dequeue with a task ready once moveReadyLocked has moved the due ones. *)
(* The context is not looked at.                                           *)
DequeueTask(w) ==
  /\ pc[w] = "dequeue"
  /\ ~closed
  /\ \E moved \in HeapOrder(Due) :
       LET queue == ready \o moved IN
         /\ queue # <<>>
         /\ ready' = Tail(queue)
         /\ processing' = [processing EXCEPT ![w] = Head(queue).seq]
         /\ taken' = taken \cup {Head(queue).seq}
  /\ delayed' = HeapAfterMove
  /\ pending' = pending - 1
  /\ pc' = [pc EXCEPT ![w] = "processing"]
  /\ UNCHANGED <<now, nextSeq, closed, resv, signalled, deadline, cancelled>>

(* Dequeue with nothing ready: capture the notify channel and the wait for *)
(* the earliest delayed task, unlock and select.                           *)
DequeueWait(w) ==
  /\ pc[w] = "dequeue"
  /\ ~closed
  /\ ready = <<>>
  /\ Due = {}
  /\ \/ /\ delayed = {}
        /\ deadline' = [deadline EXCEPT ![w] = NoTimer]
     \/ \E first \in delayed :
          /\ \A item \in delayed : first.readyAt <= item.readyAt
          /\ deadline' = [deadline EXCEPT ![w] = first.readyAt]
  /\ signalled' = [signalled EXCEPT ![w] = FALSE]
  /\ pc' = [pc EXCEPT ![w] = "waiting"]
  /\ UNCHANGED <<queueVars, now, processing, cancelled, taken>>

(* Dequeue on a closed queue; runOne then returns. *)
DequeueClosed(w) ==
  /\ pc[w] = "dequeue"
  /\ closed
  /\ pc' = [pc EXCEPT ![w] = "stopped"]
  /\ UNCHANGED <<queueVars, now, signalled, deadline, processing, cancelled, taken>>

TimerFired(w) == deadline[w] # NoTimer /\ deadline[w] <= now

(* Leaving the select: the channel and the timer are locals of the loop. *)
LeaveSelect(w, next) ==
  /\ pc[w] = "waiting"
  /\ pc' = [pc EXCEPT ![w] = next]
  /\ signalled' = [signalled EXCEPT ![w] = FALSE]
  /\ deadline' = [deadline EXCEPT ![w] = NoTimer]
  /\ UNCHANGED <<queueVars, now, processing, cancelled, taken>>

(* The select takes notify or the timer and Dequeue loops. *)
Wake(w) == (signalled[w] \/ TimerFired(w)) /\ LeaveSelect(w, "dequeue")

(* The select takes ctx.Done, which Go may prefer to a closed notify;      *)
(* runOne then returns.                                                    *)
WakeCancelled(w) == cancelled /\ LeaveSelect(w, "stopped")

(* runOne: ProcessTask returned, whatever its outcome. *)
Processed(w) ==
  /\ pc[w] = "processing"
  /\ pc' = [pc EXCEPT ![w] = "dequeue"]
  /\ processing' = [processing EXCEPT ![w] = NoTask]
  /\ UNCHANGED <<queueVars, now, signalled, deadline, cancelled, taken>>

-----------------------------------------------------------------------------
(* The runtime. *)

(* Close discards every task that no worker has started. *)
Close ==
  /\ ~closed
  /\ closed' = TRUE
  /\ pending' = 0
  /\ ready' = <<>>
  /\ delayed' = {}
  /\ SignalLocked
  /\ UNCHANGED <<now, nextSeq, resv, cancelled, workerVars>>

Cancel ==
  /\ ~cancelled
  /\ cancelled' = TRUE
  /\ UNCHANGED <<queueVars, now, signalled, workerVars>>

Tick ==
  /\ now < MaxTime
  /\ now' = now + 1
  /\ UNCHANGED <<queueVars, signalled, cancelled, workerVars>>

CallerStep(c) ==
  \/ Reserve(c)
  \/ \E delay \in Delays : CommitDelayed(c, delay)
  \/ CommitClosed(c)
  \/ Release(c)

WorkerStep(w) ==
  \/ DequeueTask(w)
  \/ DequeueWait(w)
  \/ DequeueClosed(w)
  \/ Wake(w)
  \/ WakeCancelled(w)
  \/ Processed(w)

Next ==
  \/ \E c \in Callers : CallerStep(c)
  \/ \E w \in Workers : WorkerStep(w)
  \/ Close
  \/ Cancel
  \/ Tick

Spec == Init /\ [][Next]_vars

(* The Go scheduler runs every runnable worker, the provider call of a     *)
(* task ends by its timeout, and the clock advances.  Nothing is assumed   *)
(* of callers, of Close or of Cancel.                                      *)
FairSpec ==
  /\ Spec
  /\ WF_vars(Tick)
  /\ \A w \in Workers : WF_vars(WorkerStep(w))

-----------------------------------------------------------------------------
(* The shape of the queue and of its users; in particular the counter never *)
(* goes below zero.                                                        *)
TypeOK ==
  /\ now \in Nat
  /\ pending \in Nat
  /\ nextSeq \in Nat
  /\ ready \in Seq(Task)
  /\ delayed \in SUBSET Task /\ IsFiniteSet(delayed)
  /\ closed \in BOOLEAN
  /\ resv \in [Callers -> ReservationStates]
  /\ pc \in [Workers -> WorkerStates]
  /\ signalled \in [Workers -> BOOLEAN]
  /\ deadline \in [Workers -> Nat \cup {NoTimer}]
  /\ processing \in [Workers -> Nat]
  /\ cancelled \in BOOLEAN
  /\ taken \in SUBSET Nat

Held == {c \in Callers : resv[c] = "held"}

(* While the queue is open the counter that admission reads is exactly the *)
(* outstanding reservations plus the queued tasks, and Close leaves it at  *)
(* zero whatever late Commits and Releases do.                             *)
PendingExact ==
  pending = IF closed THEN 0 ELSE Cardinality(Held) + Len(ready) + Cardinality(delayed)

(* Queued tasks, reserved slots included, never exceed the capacity. *)
CapacityRespected == pending \in 0..Capacity /\ Len(ready) + Cardinality(delayed) <= Capacity

(* Every committed task is in exactly one place: the ready list, the heap  *)
(* or some worker's hands; only Close discards tasks.                      *)
NothingLostOrDuplicated ==
  /\ taken \subseteq 1..nextSeq
  /\ \A i, j \in DOMAIN ready : ready[i].seq = ready[j].seq => i = j
  /\ \A a, b \in delayed : a.seq = b.seq => a = b
  /\ \A i \in DOMAIN ready : \A b \in delayed : ready[i].seq # b.seq
  /\ \A i \in DOMAIN ready : ready[i].seq \in 1..nextSeq /\ ready[i].seq \notin taken
  /\ \A b \in delayed : b.seq \in 1..nextSeq /\ b.seq \notin taken
  /\ ~closed => \A n \in 1..nextSeq :
       \/ n \in taken
       \/ \E i \in DOMAIN ready : ready[i].seq = n
       \/ \E b \in delayed : b.seq = n

(* A worker asleep in the select whose notify channel is still open will   *)
(* be woken by its timer in time for every queued task: one Dequeue may    *)
(* move several due tasks to the ready list and take only the first,       *)
(* without signalling the others.                                          *)
NoLostWakeup ==
  \A w \in Workers :
    pc[w] = "waiting" /\ ~signalled[w] =>
      /\ ~closed
      /\ ready # <<>> => TimerFired(w)
      /\ \A item \in delayed : deadline[w] # NoTimer /\ deadline[w] <= item.readyAt

Queued == Range(ready) \cup delayed

(* Among delayed tasks, none is handed out while one with an earlier ready *)
(* time (or an equal one and an earlier commit) is still queued; among     *)
(* immediate tasks, none overtakes an earlier one.                         *)
HandedOutInOrder ==
  [][\A a \in Queued : a.seq \in taken' \ taken =>
       \A b \in Queued : b # a /\ (a.delay = 0 <=> b.delay = 0) => Less(a, b)]_vars

Abstract == INSTANCE DelayQueue WITH
  clock <- now, claims <- Held, items <- Queued, issued <- nextSeq,
  handed <- taken, open <- ~closed

(* The queue is a DelayQueue: the counter it admits by, the split between   *)
(* list and heap and the waiting protocol are invisible to its callers.     *)
ImplementsDelayQueue == Abstract!Spec

(* A committed task is handed to a worker, unless the queue is closed or   *)
(* the workers' context is cancelled.                                      *)
EventuallyTaken ==
  \A n \in 1..MaxSeq : nextSeq >= n ~> n \in taken \/ closed \/ cancelled

(* Close reaches every worker: each one stops. *)
CloseStopsWorkers ==
  closed ~> \A w \in Workers : pc[w] = "stopped"
=============================================================================
