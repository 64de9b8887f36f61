--------------------------- MODULE DeliveryProofs ---------------------------
(***************************************************************************)
(* Proofs about Delivery, for any messages, workers, channels and numbers  *)
(* of attempts and any reports of the provider, across a crash.            *)
(***************************************************************************)
EXTENDS Delivery, TLAPS

(* A worker has a task as long as it is busy. *)
Busy(w) == pc[w] # "idle"

(* A message is in one place at most: waiting for its slot, in one task of *)
(* the queue, or with one worker.                                          *)
OneTask ==
  /\ \A i, j \in items : carried[i.seq].message = carried[j.seq].message => i = j
  /\ \A w \in Workers : Busy(w) =>
       /\ \A i \in items : carried[i.seq].message # task[w].message
       /\ \A v \in Workers : Busy(v) /\ task[v].message = task[w].message => v = w

(* A message without a record was never tried, and nobody works on it.     *)
Untouched ==
  \A m \in Messages :
    /\ m \in claims => status[m] = "none"
    /\ status[m] = "none" =>
         /\ \A n \in Attempts : attempt[m][n] = "none" /\ <<m, n>> \notin accepted
         /\ \A i \in items : carried[i.seq].message # m
         /\ \A w \in Workers : Busy(w) => task[w].message # m

(* What the records and the provider know of the attempts before and after *)
(* the one a task is for, and of that one until it is tried.               *)
Behind(t) ==
  \A k \in Attempts : k < t.attempt =>
    /\ attempt[t.message][k] = "failed"
    /\ <<t.message, k>> \in accepted => <<t.message, k>> \in lost
Ahead(t) ==
  \A k \in Attempts : k > t.attempt =>
    attempt[t.message][k] = "none" /\ <<t.message, k>> \notin accepted
Untried(t) ==
  attempt[t.message][t.attempt] = "none" /\ <<t.message, t.attempt>> \notin accepted

(* The worker's own attempt, by the worker's place.                        *)
Tried(w) ==
  LET record == attempt[task[w].message][task[w].attempt] IN
    /\ pc[w] \in {"logSending", "logAttempt"} => Untried(task[w])
    /\ pc[w] \in {"call", "logSent"} => record = "sending"
    /\ pc[w] = "call" => Attempted(w) \notin accepted
    /\ pc[w] = "logMessageSent" => record = "sent"
    /\ pc[w] \in {"logPermanent", "logRetriable"} => record \in {"none", "sending"}
    /\ pc[w] \in {"logFailed", "logRetrying", "retry", "commitRetry"} => record = "failed"
    /\ pc[w] \notin {"logSent", "logMessageSent"} /\ Attempted(w) \in accepted =>
         Attempted(w) \in lost
    /\ pc[w] \in {"logRetrying", "retry", "commitRetry"} => HasNextChannel(w)

InOrder ==
  /\ \A i \in items :
       Behind(carried[i.seq]) /\ Ahead(carried[i.seq]) /\ Untried(carried[i.seq])
  /\ \A w \in Workers : Busy(w) =>
       Behind(task[w]) /\ Ahead(task[w]) /\ Tried(w)

(* Only a message an attempt of which was recorded as sent has the status  *)
(* of an event; one that failed has no such attempt, and no work left.     *)
Outcomes ==
  \A m \in Messages :
    /\ status[m] \in EventType => \E n \in Attempts : attempt[m][n] = "sent"
    /\ status[m] = "failed" =>
         /\ \A n \in Attempts : attempt[m][n] # "sent"
         /\ \A i \in items : carried[i.seq].message # m
         /\ \A w \in Workers : Busy(w) => task[w].message # m

(* The event's recipient is suppressed for it. *)
Suppressed(e) ==
  /\ e.type = "bounced" => suppressed[Recipient[e.message]] \in {"hard_bounce", "complaint"}
  /\ e.type = "complained" => suppressed[Recipient[e.message]] = "complaint"

(* How far the latest status may have moved from the webhook's snapshot,   *)
(* and what the webhook has done by each stage.                            *)
Snapshot ==
  hook # NoHook =>
    LET m == hook.event.message IN
    /\ status[m] # "none"
    /\ status[m] = hook.snapshot \/ status[m] \notin EventType
    /\ hook.snapshot \in EventType => status[m] = hook.snapshot \/ m \in overtaken
    /\ hook.snapshot \in EventType => \E n \in Attempts : attempt[m][n] = "sent"
    /\ hook.snapshot = "failed" => status[m] = "failed"
    /\ hook.stage # "validate" =>
         attempt[m][hook.event.attempt] = "sent" /\ hook.event \in events
    /\ hook.stage = "count" => hook.event \notin DOMAIN counted
    /\ hook.stage = "status" => Suppressed(hook.event)

(* The inductive invariant. *)
IInv ==
  /\ TypeOK /\ OneTask /\ Untouched /\ InOrder /\ Outcomes /\ Snapshot
  /\ NoDuplicateSend /\ EventCountedOnce /\ AckedEventTakesEffect

(* The bundles of variables are their members. *)
USE DEF queueVars, logVars, providerVars, hookVars, outside

(* A task in the queue is one of those ever committed.                     *)
LEMMA Queued ==
  ASSUME TypeOK, NEW item \in items
  PROVE  /\ item.seq \in DOMAIN carried
         /\ carried[item.seq] \in Tasks
         /\ carried[item.seq].attempt <= Channels[carried[item.seq].message]
<1>1. item.seq \in 1..Len(carried)
  BY DEF TypeOK
<1>2. item.seq \in DOMAIN carried /\ carried[item.seq] \in Tasks
  BY <1>1 DEF TypeOK
<1> QED
  BY <1>2 DEF TypeOK

(* What a commit adds, one claim for the old tasks and one for the new.    *)
LEMMA Committed ==
  ASSUME TypeOK, NEW c, NEW delay, Queue!Put(c, delay),
         NEW t \in Tasks, t.attempt <= Channels[t.message], carried' = Append(carried, t)
  PROVE  /\ carried' \in Seq(Tasks) /\ issued' = Len(carried')
         /\ \A i \in DOMAIN carried' : carried'[i].attempt <= Channels[carried'[i].message]
         /\ \A i \in items' : i.seq \in 1..issued'
         /\ \E new : /\ items' = items \cup {new} /\ new \notin items
                     /\ carried'[new.seq] = t
         /\ \A i \in items : carried'[i.seq] = carried[i.seq] /\ carried[i.seq] \in Tasks
<1> DEFINE new == [seq |-> issued + 1, readyAt |-> clock + delay, delay |-> delay]
<1>1. /\ issued \in Nat /\ issued = Len(carried) /\ issued' = issued + 1
      /\ items' = items \cup {new} /\ new.seq = issued + 1
  BY DEF TypeOK, Queue!Put
<1>2. /\ carried' \in Seq(Tasks) /\ Len(carried') = issued + 1 /\ carried'[issued + 1] = t
      /\ DOMAIN carried' = (1..issued) \cup {issued + 1}
      /\ \A i \in 1..issued : carried'[i] = carried[i]
  BY <1>1 DEF TypeOK
<1>3. \A i \in items : i.seq \in 1..issued /\ carried[i.seq] \in Tasks
        /\ carried'[i.seq] = carried[i.seq]
  BY <1>1, <1>2, Queued DEF TypeOK
<1>4. \A i \in DOMAIN carried' : carried'[i].attempt <= Channels[carried'[i].message]
  BY <1>1, <1>2 DEF TypeOK
<1>5. new \notin items
  BY <1>1, <1>3
<1> HIDE DEF new
<1>6. \A i \in items' : i.seq \in 1..issued'
  BY <1>1, <1>3
<1> QED
  BY <1>1, <1>2, <1>3, <1>4, <1>5, <1>6

(* A worker that moves on without touching the records of attempts leaves  *)
(* the others' tasks as they were, whatever of the queue it takes away.    *)
LEMMA WorkerMoves ==
  ASSUME InOrder, NEW w \in Workers, Busy(w), items' \subseteq items,
         UNCHANGED <<carried, attempt, accepted, lost>>,
         \A v \in Workers : v # w => pc'[v] = pc[v],
         \A v \in Workers : Busy(v)' => task'[v] = task[v],
         Busy(w)' => Tried(w)'
  PROVE  InOrder'
<1>1. ASSUME NEW i \in items'
      PROVE  Behind(carried[i.seq])' /\ Ahead(carried[i.seq])' /\ Untried(carried[i.seq])'
  BY DEF InOrder, Behind, Ahead, Untried
<1>2. ASSUME NEW v \in Workers, Busy(v)' PROVE Behind(task[v])' /\ Ahead(task[v])' /\ Tried(v)'
  <2>1. Busy(v) /\ task'[v] = task[v]
    BY <1>2 DEF Busy
  <2>2. Behind(task[v])' /\ Ahead(task[v])'
    BY <2>1 DEF InOrder, Behind, Ahead
  <2>3. CASE v # w
    <3>1. Tried(v) /\ pc'[v] = pc[v]
      BY <2>1, <2>3 DEF InOrder
    <3>2. Tried(v)'
      BY <2>1, <3>1 DEF Tried, Untried, Attempted, HasNextChannel
    <3> QED
      BY <2>2, <3>2
  <2> QED
    BY <1>2, <2>2, <2>3
<1> QED
  BY <1>1, <1>2 DEF InOrder

(* A worker that tries its attempt, or records what came of it, has the    *)
(* message to itself, so that nobody else's order is disturbed.            *)
LEMMA WorkerTries ==
  ASSUME TypeOK, OneTask, InOrder, NEW w \in Workers, Busy(w),
         UNCHANGED <<items, carried, task>>,
         \A v \in Workers : v # w => pc'[v] = pc[v],
         \A m \in Messages, n \in Attempts : <<m, n>> # Attempted(w) =>
           /\ attempt'[m][n] = attempt[m][n]
           /\ <<m, n>> \in accepted' <=> <<m, n>> \in accepted
           /\ <<m, n>> \in lost' <=> <<m, n>> \in lost,
         Busy(w)' => Tried(w)'
  PROVE  InOrder'
<1>1. ASSUME NEW t \in Tasks, t.message # task[w].message
      PROVE  /\ Behind(t) => Behind(t)'
             /\ Ahead(t) => Ahead(t)'
             /\ Untried(t) => Untried(t)'
  BY <1>1 DEF Behind, Ahead, Untried, Attempted, Tasks
<1>2. ASSUME NEW i \in items'
      PROVE  Behind(carried[i.seq])' /\ Ahead(carried[i.seq])' /\ Untried(carried[i.seq])'
  BY <1>1, Queued DEF OneTask, InOrder
<1>3. ASSUME NEW v \in Workers, Busy(v)' PROVE Behind(task[v])' /\ Ahead(task[v])' /\ Tried(v)'
  <2>1. task[w] \in Tasks
    BY DEF TypeOK, Busy
  <2>2. CASE v = w
    <3>1. Behind(task[w])' /\ Ahead(task[w])'
      BY <2>1 DEF InOrder, Behind, Ahead, Attempted, Tasks
    <3> QED
      BY <1>3, <2>2, <3>1
  <2>3. CASE v # w
    <3>1. Busy(v) /\ task[v] \in Tasks /\ task[v].message # task[w].message
      BY <1>3, <2>3 DEF Busy, OneTask, TypeOK
    <3>2. Behind(task[v])' /\ Ahead(task[v])'
      BY <1>1, <3>1 DEF InOrder
    <3>3. /\ attempt'[task[v].message][task[v].attempt] = attempt[task[v].message][task[v].attempt]
          /\ Attempted(v) \in accepted' <=> Attempted(v) \in accepted
          /\ Attempted(v) \in lost' <=> Attempted(v) \in lost
      BY <3>1 DEF Attempted, Tasks
    <3>4. Tried(v)'
      BY <1>1, <2>3, <3>1, <3>3 DEF InOrder, Tried, Attempted, HasNextChannel
    <3> QED
      BY <3>2, <3>4
  <2> QED
    BY <2>2, <2>3
<1> QED
  BY <1>2, <1>3 DEF InOrder

(* The webhook handler is free or has an event and a snapshot.             *)
LEMMA HookFree ==
  ASSUME TypeOK
  PROVE  /\ hook = NoHook <=> hook.stage = "free"
         /\ hook # NoHook =>
              hook.event \in Event /\ hook.snapshot \in Statuses \ {"none"}
              /\ hook.stage \in HookStages
  BY DEF TypeOK, NoHook, HookStages

(* While a worker has a message that no attempt of its is recorded as sent *)
(* for, no event has taken effect on it: none has moved its status, a      *)
(* webhook that reports on it is still at its validation, and events       *)
(* answered before were overtaken.                                         *)
LEMMA NotSentYet ==
  ASSUME IInv, NEW w \in Workers, Busy(w), pc[w] # "logMessageSent"
  PROVE  LET m == task[w].message IN
         /\ m \in Messages
         /\ \A n \in Attempts : attempt[m][n] # "sent"
         /\ status[m] \notin EventType \cup {"none", "failed"}
         /\ hook # NoHook /\ hook.event.message = m =>
              hook.stage = "validate" /\ hook.snapshot \notin EventType \cup {"failed"}
         /\ \A e \in acked : e.message = m => m \in overtaken
<1> USE DEF IInv
<1> DEFINE m == task[w].message
<1>1. m \in Messages /\ task[w].attempt \in Attempts /\ task[w] \in Tasks
  BY DEF TypeOK, Busy, Tasks
<1>2. ASSUME NEW n \in Attempts PROVE attempt[m][n] # "sent"
  <2>1. Behind(task[w]) /\ Ahead(task[w]) /\ Tried(w)
    BY DEF InOrder
  <2>2. CASE n = task[w].attempt
    BY <2>1, <2>2, <1>1 DEF Tried, Untried, Busy, TypeOK, Stages
  <2>3. CASE n < task[w].attempt
    BY <2>1, <2>3, <1>1 DEF Behind
  <2>4. CASE n > task[w].attempt
    BY <2>1, <2>4, <1>1 DEF Ahead
  <2> QED
    BY <2>2, <2>3, <2>4, <1>1, ChannelsAssumption DEF Attempts
<1>3. status[m] \notin EventType \cup {"none", "failed"}
  BY <1>1, <1>2 DEF Outcomes, Untouched
<1>4. ASSUME hook # NoHook, hook.event.message = m
      PROVE  hook.stage = "validate" /\ hook.snapshot \notin EventType \cup {"failed"}
  <2>1. CASE hook.snapshot \in EventType
    BY <2>1, <1>3, <1>4, <1>1, <1>2 DEF Snapshot, Outcomes
  <2> QED
    BY <2>1, <1>1, <1>2, <1>3, <1>4, HookFree DEF Snapshot, Event
<1>5. ASSUME NEW e \in acked, e.message = m PROVE m \in overtaken
  BY <1>3, <1>5 DEF AckedEventTakesEffect, TypeOK, Event, EventType, Rank
<1> QED
  BY <1>1, <1>2, <1>3, <1>4, <1>5

(* Each action keeps the invariant.  A message that waits for a slot has   *)
(* no record.                                                              *)
LEMMA ReserveSlotStep ==
  ASSUME IInv, NEW m \in Messages, ReserveSlot(m)
  PROVE  IInv'
<1> USE DEF IInv
<1>1. TypeOK'
  BY DEF TypeOK, ReserveSlot, Queue!Claim
<1>2. OneTask'
  BY DEF OneTask, Busy, ReserveSlot, Queue!Claim
<1>3. Untouched'
  BY DEF Untouched, Busy, ReserveSlot, Queue!Claim
<1>4. InOrder'
  BY ChannelsAssumption, WorkersAssumption DEF TypeOK, OneTask, InOrder, Behind, Ahead, Untried,
     Tried, Attempted, HasNextChannel, Busy, Tasks, ReserveSlot, Queue!Claim
<1>5. Outcomes'
  BY DEF Outcomes, Busy, ReserveSlot, Queue!Claim
<1>6. Snapshot'
  BY DEF Outcomes, Untouched, Snapshot, Suppressed, EventType, Statuses, Event, NoHook,
     HookStages, ReserveSlot, Queue!Claim
<1>7. NoDuplicateSend'
  BY DEF NoDuplicateSend, ReserveSlot, Queue!Claim
<1>8. EventCountedOnce'
  BY ChannelsAssumption, WorkersAssumption DEF EventCountedOnce, Snapshot, ReserveSlot,
     Queue!Claim
<1>9. AckedEventTakesEffect'
  BY DEF AckedEventTakesEffect, ReserveSlot, Queue!Claim
<1> QED
  BY <1>1, <1>2, <1>3, <1>4, <1>5, <1>6, <1>7, <1>8, <1>9

(* The first task of a message is for its first attempt.                   *)
LEMMA SubmitStep ==
  ASSUME IInv, NEW m \in Messages, Submit(m)
  PROVE  IInv'
<1> USE DEF IInv
<1>0. /\ [message |-> m, attempt |-> 1] \in Tasks
      /\ [message |-> m, attempt |-> 1].attempt <= Channels[[message |-> m, attempt |-> 1].message]
  BY ChannelsAssumption DEF Tasks, Attempts
<1>c. /\ carried' \in Seq(Tasks) /\ issued' = Len(carried')
      /\ \A i \in DOMAIN carried' : carried'[i].attempt <= Channels[carried'[i].message]
      /\ \A i \in items' : i.seq \in 1..issued'
      /\ \E new : /\ items' = items \cup {new} /\ new \notin items
                  /\ carried'[new.seq] = [message |-> m, attempt |-> 1]
      /\ \A i \in items : carried'[i.seq] = carried[i.seq] /\ carried[i.seq] \in Tasks
  BY <1>0, Committed DEF Submit
<1>b. PICK new : /\ items' = items \cup {new} /\ new \notin items
                 /\ carried'[new.seq] = [message |-> m, attempt |-> 1]
  BY <1>c
<1>a. /\ status[m] = "none"
      /\ \A n \in Attempts : attempt[m][n] = "none" /\ <<m, n>> \notin accepted
      /\ \A i \in items : carried[i.seq].message # m
      /\ \A w \in Workers : Busy(w) => task[w].message # m
  BY DEF Submit, Queue!Put, Untouched
<1>1. TypeOK'
  BY <1>0, <1>c, <1>b DEF TypeOK, Stages, Statuses, HasNextChannel, NoTask, Submit, Queue!Put
<1>2. OneTask'
  <2>1. \A i, j \in items' : carried'[i.seq].message = carried'[j.seq].message => i = j
    BY <1>c, <1>b, <1>a DEF OneTask
  <2> QED
    BY <2>1, <1>c, <1>b, <1>a DEF OneTask, Busy, Submit
<1>3. Untouched'
  BY <1>0, <1>c, <1>b DEF TypeOK, Untouched, Busy, Submit, Queue!Put
<1>4. InOrder'
  <2>1. attempt' = attempt /\ accepted' = accepted /\ lost' = lost
    BY DEF Submit
  <2>2. ASSUME NEW i \in items'
        PROVE  (Behind(carried[i.seq]) /\ Ahead(carried[i.seq]) /\ Untried(carried[i.seq]))'
    <3>1. CASE i \in items
      <4>1. carried'[i.seq] = carried[i.seq]
        BY <3>1, <1>c
      <4>2. Behind(carried[i.seq]) /\ Ahead(carried[i.seq]) /\ Untried(carried[i.seq])
        BY <3>1 DEF InOrder
      <4> QED
        BY <4>1, <4>2, <2>1 DEF Behind, Ahead, Untried
    <3>2. CASE i = new
      <4>1. carried'[i.seq] = [message |-> m, attempt |-> 1]
        BY <3>2, <1>b
      <4>2. \A k \in Attempts : k >= 1
        BY ChannelsAssumption DEF Attempts
      <4>3. 1 \in Attempts
        BY ChannelsAssumption DEF Attempts
      <4> QED
        BY <4>1, <4>2, <4>3, <2>1, <1>a DEF Behind, Ahead, Untried, Attempts
    <3> QED
      BY <3>1, <3>2, <1>b
  <2>3. ASSUME NEW v \in Workers, Busy(v)'
        PROVE (Behind(task[v]) /\ Ahead(task[v]) /\ Tried(v))'
    BY <2>3 DEF InOrder, Behind, Ahead, Tried, Untried, Attempted, HasNextChannel, Busy, TypeOK,
       Submit
  <2> QED
    BY <2>2, <2>3 DEF InOrder
<1>5. Outcomes'
  BY <1>0, <1>c, <1>b DEF Outcomes, Untouched, Busy, EventType, Submit, Queue!Put
<1>6. Snapshot'
  BY <1>0, <1>c, <1>b DEF Outcomes, Untouched, Snapshot, Suppressed, EventType, Statuses, Event,
     NoHook, HookStages, Submit, Queue!Put
<1>7. NoDuplicateSend'
  BY <1>0, <1>c, <1>b DEF NoDuplicateSend, Submit, Queue!Put
<1>8. EventCountedOnce'
  BY <1>0, <1>c, <1>b, ChannelsAssumption, WorkersAssumption DEF EventCountedOnce, Snapshot,
     Submit, Queue!Put
<1>9. AckedEventTakesEffect'
  <2>1. status[m] = "none" /\ \A e \in acked : e.message = m => m \in overtaken
    BY DEF Submit, Queue!Put, Untouched, AckedEventTakesEffect, TypeOK, Event, EventType, Rank
  <2> QED
    BY <2>1 DEF AckedEventTakesEffect, TypeOK, Event, Submit
<1> QED
  BY <1>1, <1>2, <1>3, <1>4, <1>5, <1>6, <1>7, <1>8, <1>9

(* The message leaves the queue as it reaches the worker.                  *)
LEMMA TakeTaskStep ==
  ASSUME IInv, NEW w \in Workers, TakeTask(w)
  PROVE  IInv'
<1> USE DEF IInv
<1>1. TypeOK'
  BY Queued DEF TypeOK, Stages, Statuses, HasNextChannel, NoTask, TakeTask, Goto, Queue!Take
<1>2. OneTask'
  BY DEF TypeOK, OneTask, Busy, TakeTask, Goto, Queue!Take
<1>3. Untouched'
  BY DEF TypeOK, Untouched, Busy, TakeTask, Goto, Queue!Take
<1>4. InOrder'
  <2>1. PICK item \in items : /\ items' = items \ {item}
                              /\ task' = [task EXCEPT ![w] = carried[item.seq]]
                              /\ carried[item.seq] \in Tasks
    BY Queued DEF TakeTask, Queue!Take
  <2>2. /\ UNCHANGED <<carried, attempt, accepted, lost>>
        /\ pc' = [pc EXCEPT ![w] = "logSending"]
    BY DEF TakeTask, Goto
  <2>3. ASSUME NEW i \in items'
        PROVE  Behind(carried[i.seq])' /\ Ahead(carried[i.seq])' /\ Untried(carried[i.seq])'
    BY <2>1, <2>2 DEF InOrder, Behind, Ahead, Untried
  <2>4. Behind(task[w])' /\ Ahead(task[w])' /\ Untried(task[w])'
    BY <2>1, <2>2 DEF InOrder, Behind, Ahead, Untried, TypeOK
  <2>5. Tried(w)'
    BY <2>1, <2>2, <2>4 DEF Tried, Untried, Attempted, TypeOK
  <2>6. ASSUME NEW v \in Workers, v # w, Busy(v)'
        PROVE  Behind(task[v])' /\ Ahead(task[v])' /\ Tried(v)'
    <3>1. Busy(v) /\ pc'[v] = pc[v] /\ task'[v] = task[v]
      BY <2>1, <2>2, <2>6 DEF Busy, TypeOK
    <3>2. Behind(task[v]) /\ Ahead(task[v]) /\ Tried(v)
      BY <3>1 DEF InOrder
    <3>3. Behind(task[v])' /\ Ahead(task[v])'
      BY <2>2, <3>1, <3>2 DEF Behind, Ahead
    <3>4. Tried(v)'
      BY <2>2, <3>1, <3>2 DEF Tried, Untried, Attempted, HasNextChannel
    <3> QED
      BY <3>3, <3>4
  <2> QED
    BY <2>3, <2>4, <2>5, <2>6 DEF InOrder
<1>5. Outcomes'
  BY DEF TypeOK, Outcomes, Busy, TakeTask, Goto, Queue!Take
<1>6. Snapshot'
  BY DEF Outcomes, Untouched, Snapshot, Suppressed, EventType, Statuses, Event, NoHook,
     HookStages, TakeTask, Queue!Take
<1>7. NoDuplicateSend'
  BY DEF NoDuplicateSend, TakeTask, Goto, Queue!Take
<1>8. EventCountedOnce'
  BY DEF EventCountedOnce, TakeTask, Goto, Queue!Take
<1>9. AckedEventTakesEffect'
  BY DEF AckedEventTakesEffect, TakeTask, Goto, Queue!Take
<1> QED
  BY <1>1, <1>2, <1>3, <1>4, <1>5, <1>6, <1>7, <1>8, <1>9

(* A worker's record cannot take back an event's: there is none yet.       *)
LEMMA LogSendingStep ==
  ASSUME IInv, NEW w \in Workers, LogSending(w)
  PROVE  IInv'
<1> USE DEF IInv
<1>1. TypeOK'
  BY DEF TypeOK, Stages, Statuses, HasNextChannel, NoTask, LogSending, Goto, LogMessage
<1>2. OneTask'
  BY DEF OneTask, Busy, LogSending, Goto, LogMessage
<1>3. Untouched'
  BY DEF Untouched, Busy, LogSending, Goto, LogMessage
<1>4. InOrder'
  <2>1. Busy(w) /\ (Busy(w)' => Tried(w)')
    BY ChannelsAssumption DEF InOrder, Busy, Tried, Untried, Attempted, HasNextChannel,
       TypeOK, Tasks, LogSending, Goto, LogMessage
  <2>2. /\ items' \subseteq items /\ UNCHANGED <<carried, attempt, accepted, lost>>
        /\ \A v \in Workers : v # w => pc'[v] = pc[v]
        /\ \A v \in Workers : Busy(v)' => task'[v] = task[v]
    BY DEF TypeOK, Busy, LogSending, Goto, LogMessage
  <2> QED
    BY <2>1, <2>2, WorkerMoves
<1>5. Outcomes'
  <2>1. Busy(w) /\ pc[w] # "logMessageSent"
    BY DEF LogSending, Goto, Busy
  <2> QED
    BY <2>1, NotSentYet, HookFree DEF Outcomes, Snapshot, Suppressed, AckedEventTakesEffect,
       Busy, Event, EventType, Rank, LogSending, Goto, LogMessage
<1>6. Snapshot'
  <2>1. Busy(w) /\ pc[w] # "logMessageSent"
    BY DEF LogSending, Goto, Busy
  <2> QED
    BY <2>1, NotSentYet, HookFree DEF Outcomes, Snapshot, Suppressed, AckedEventTakesEffect,
       Event, EventType, Rank, LogSending, LogMessage
<1>7. NoDuplicateSend'
  BY DEF NoDuplicateSend, LogSending, Goto, LogMessage
<1>8. EventCountedOnce'
  BY DEF EventCountedOnce, LogSending, Goto, LogMessage
<1>9. AckedEventTakesEffect'
  <2>1. Busy(w) /\ pc[w] # "logMessageSent"
    BY DEF LogSending, Goto, Busy
  <2> QED
    BY <2>1, NotSentYet, HookFree DEF AckedEventTakesEffect, LogSending, Goto, LogMessage
<1> QED
  BY <1>1, <1>2, <1>3, <1>4, <1>5, <1>6, <1>7, <1>8, <1>9

(* The attempt is recorded before the provider is called.                  *)
LEMMA LogAttemptSendingStep ==
  ASSUME IInv, NEW w \in Workers, LogAttemptSending(w)
  PROVE  IInv'
<1> USE DEF IInv
<1>1. TypeOK'
  BY DEF TypeOK, Stages, Statuses, HasNextChannel, NoTask, LogAttemptSending, Goto, LogAttempt
<1>2. OneTask'
  BY DEF OneTask, Busy, LogAttemptSending, Goto, LogAttempt
<1>3. Untouched'
  BY DEF Untouched, Busy, LogAttemptSending, Goto, LogAttempt
<1>4. InOrder'
  <2>1. Busy(w) /\ (Busy(w)' => Tried(w)')
    BY ChannelsAssumption DEF InOrder, Busy, Tried, Untried, Attempted, HasNextChannel,
       TypeOK, Tasks, LogAttemptSending, Goto, LogAttempt
  <2> QED
    BY <2>1, WorkerTries DEF TypeOK, Tasks, Attempted, LogAttemptSending, Goto, LogAttempt
<1>5. Outcomes'
  <2>1. Busy(w) /\ pc[w] # "logMessageSent"
    BY DEF LogAttemptSending, Goto, Busy
  <2> QED
    BY <2>1, NotSentYet, HookFree DEF Outcomes, Busy, LogAttemptSending, Goto, LogAttempt
<1>6. Snapshot'
  <2>1. Busy(w) /\ pc[w] # "logMessageSent"
    BY DEF LogAttemptSending, Goto, Busy
  <2> QED
    BY <2>1, NotSentYet, HookFree DEF Outcomes, Snapshot, Suppressed, Event, EventType,
       LogAttemptSending, LogAttempt
<1>7. NoDuplicateSend'
  BY DEF NoDuplicateSend, LogAttemptSending, Goto, LogAttempt
<1>8. EventCountedOnce'
  BY DEF EventCountedOnce, LogAttemptSending, Goto, LogAttempt
<1>9. AckedEventTakesEffect'
  BY DEF AckedEventTakesEffect, LogAttemptSending, Goto, LogAttempt
<1> QED
  BY <1>1, <1>2, <1>3, <1>4, <1>5, <1>6, <1>7, <1>8, <1>9

(* A channel that cannot be used leaves no record of its attempt.          *)
LEMMA UnresolvedStep ==
  ASSUME IInv, NEW w \in Workers, Unresolved(w)
  PROVE  IInv'
<1> USE DEF IInv
<1>1. TypeOK'
  BY DEF TypeOK, Stages, Statuses, HasNextChannel, NoTask, Unresolved, Goto
<1>2. OneTask'
  BY DEF OneTask, Busy, Unresolved, Goto
<1>3. Untouched'
  BY DEF Untouched, Busy, Unresolved, Goto
<1>4. InOrder'
  <2>1. Busy(w) /\ (Busy(w)' => Tried(w)')
    BY ChannelsAssumption DEF InOrder, Busy, Tried, Untried, Attempted, HasNextChannel,
       TypeOK, Tasks, Unresolved, Goto
  <2>2. /\ items' \subseteq items /\ UNCHANGED <<carried, attempt, accepted, lost>>
        /\ \A v \in Workers : v # w => pc'[v] = pc[v]
        /\ \A v \in Workers : Busy(v)' => task'[v] = task[v]
    BY DEF TypeOK, Busy, Unresolved, Goto
  <2> QED
    BY <2>1, <2>2, WorkerMoves
<1>5. Outcomes'
  BY DEF Outcomes, Busy, Unresolved, Goto
<1>6. Snapshot'
  BY DEF Outcomes, Untouched, Snapshot, Suppressed, EventType, Statuses, Event, NoHook,
     HookStages, Unresolved
<1>7. NoDuplicateSend'
  BY DEF NoDuplicateSend, Unresolved, Goto
<1>8. EventCountedOnce'
  BY ChannelsAssumption, WorkersAssumption DEF EventCountedOnce, Snapshot, Unresolved, Goto
<1>9. AckedEventTakesEffect'
  BY DEF AckedEventTakesEffect, Unresolved, Goto
<1> QED
  BY <1>1, <1>2, <1>3, <1>4, <1>5, <1>6, <1>7, <1>8, <1>9

(* Of the attempts before, the provider accepted only those it could not   *)
(* tell.                                                                   *)
LEMMA CallAcceptedStep ==
  ASSUME IInv, NEW w \in Workers, CallAccepted(w)
  PROVE  IInv'
<1> USE DEF IInv
<1>0. /\ task[w].message \in Messages /\ task[w].attempt \in Attempts /\ Busy(w)
      /\ Attempted(w) \in Messages \X Attempts
      /\ \A m \in Messages, n \in Attempts :
           <<m, n>> = Attempted(w) <=> m = task[w].message /\ n = task[w].attempt
  BY DEF TypeOK, Tasks, Busy, Attempted, CallAccepted, Goto
<1>1. TypeOK'
  BY <1>0 DEF TypeOK, Stages, Statuses, HasNextChannel, NoTask, CallAccepted, Goto,
     AfterAccepted
<1>2. OneTask'
  BY DEF OneTask, Busy, CallAccepted, Goto, AfterAccepted
<1>3. Untouched'
  BY <1>0 DEF Untouched, Busy, CallAccepted, Goto, AfterAccepted
<1>4. InOrder'
  <2>1. Busy(w) /\ (Busy(w)' => Tried(w)')
    BY <1>0, ChannelsAssumption DEF InOrder, Busy, Tried, Untried, Attempted,
       HasNextChannel, TypeOK, Tasks, CallAccepted, Goto, AfterAccepted
  <2> QED
    BY <2>1, WorkerTries DEF TypeOK, Tasks, Attempted, CallAccepted, Goto, AfterAccepted
<1>5. Outcomes'
  BY DEF Outcomes, Busy, CallAccepted, Goto, AfterAccepted
<1>6. Snapshot'
  BY DEF Outcomes, Untouched, Snapshot, Suppressed, EventType, Statuses, Event, NoHook,
     HookStages, CallAccepted, AfterAccepted
<1>7. NoDuplicateSend'
  <2> SUFFICES ASSUME NEW m \in Messages, NEW j \in Attempts, NEW k \in Attempts,
                      j < k, <<m, j>> \in accepted', <<m, k>> \in accepted'
               PROVE  <<m, j>> \in lost'
    BY DEF NoDuplicateSend
  <2>1. accepted' = accepted \cup {Attempted(w)} /\ lost \subseteq lost'
    BY DEF CallAccepted
  <2>2. Behind(task[w]) /\ Ahead(task[w])
    BY <1>0 DEF InOrder
  <2>3. CASE <<m, j>> \in accepted /\ <<m, k>> \in accepted
    BY <2>1, <2>3 DEF NoDuplicateSend
  <2>4. CASE <<m, k>> = Attempted(w) /\ <<m, j>> \in accepted
    BY <2>1, <2>2, <2>4, <1>0 DEF Behind
  <2>5. CASE <<m, j>> = Attempted(w)
    BY <2>1, <2>2, <2>5, <1>0, ChannelsAssumption DEF Ahead, Attempts
  <2> QED
    BY <2>1, <2>3, <2>4, <2>5
<1>8. EventCountedOnce'
  BY DEF EventCountedOnce, CallAccepted, Goto, AfterAccepted
<1>9. AckedEventTakesEffect'
  BY DEF AckedEventTakesEffect, CallAccepted, Goto, AfterAccepted
<1> QED
  BY <1>1, <1>2, <1>3, <1>4, <1>5, <1>6, <1>7, <1>8, <1>9

(* An acceptance the worker never learns of is one of those lost.          *)
LEMMA CallAnswerLostStep ==
  ASSUME IInv, NEW w \in Workers, CallAnswerLost(w)
  PROVE  IInv'
<1> USE DEF IInv
<1>0. /\ task[w].message \in Messages /\ task[w].attempt \in Attempts /\ Busy(w)
      /\ Attempted(w) \in Messages \X Attempts
      /\ \A m \in Messages, n \in Attempts :
           <<m, n>> = Attempted(w) <=> m = task[w].message /\ n = task[w].attempt
  BY DEF TypeOK, Tasks, Busy, Attempted, CallAnswerLost, Goto
<1>1. TypeOK'
  BY <1>0 DEF TypeOK, Stages, Statuses, HasNextChannel, NoTask, CallAnswerLost, Goto
<1>2. OneTask'
  BY DEF OneTask, Busy, CallAnswerLost, Goto
<1>3. Untouched'
  BY <1>0 DEF Untouched, Busy, CallAnswerLost, Goto
<1>4. InOrder'
  <2>1. Busy(w) /\ (Busy(w)' => Tried(w)')
    BY <1>0, ChannelsAssumption DEF InOrder, Busy, Tried, Untried, Attempted,
       HasNextChannel, TypeOK, Tasks, CallAnswerLost, Goto
  <2> QED
    BY <2>1, WorkerTries DEF TypeOK, Tasks, Attempted, CallAnswerLost, Goto
<1>5. Outcomes'
  BY DEF Outcomes, Busy, CallAnswerLost, Goto
<1>6. Snapshot'
  BY DEF Outcomes, Untouched, Snapshot, Suppressed, EventType, Statuses, Event, NoHook,
     HookStages, CallAnswerLost
<1>7. NoDuplicateSend'
  <2> SUFFICES ASSUME NEW m \in Messages, NEW j \in Attempts, NEW k \in Attempts,
                      j < k, <<m, j>> \in accepted', <<m, k>> \in accepted'
               PROVE  <<m, j>> \in lost'
    BY DEF NoDuplicateSend
  <2>1. accepted' = accepted \cup {Attempted(w)} /\ lost \subseteq lost'
    BY DEF CallAnswerLost
  <2>2. Behind(task[w]) /\ Ahead(task[w])
    BY <1>0 DEF InOrder
  <2>3. CASE <<m, j>> \in accepted /\ <<m, k>> \in accepted
    BY <2>1, <2>3 DEF NoDuplicateSend
  <2>4. CASE <<m, k>> = Attempted(w) /\ <<m, j>> \in accepted
    BY <2>1, <2>2, <2>4, <1>0 DEF Behind
  <2>5. CASE <<m, j>> = Attempted(w)
    BY <2>1, <2>2, <2>5, <1>0, ChannelsAssumption DEF Ahead, Attempts
  <2> QED
    BY <2>1, <2>3, <2>4, <2>5
<1>8. EventCountedOnce'
  BY ChannelsAssumption, WorkersAssumption DEF EventCountedOnce, Snapshot, CallAnswerLost, Goto
<1>9. AckedEventTakesEffect'
  BY DEF AckedEventTakesEffect, CallAnswerLost, Goto
<1> QED
  BY <1>1, <1>2, <1>3, <1>4, <1>5, <1>6, <1>7, <1>8, <1>9

(* A refusal moves the worker only.                                        *)
LEMMA CallRefusedStep ==
  ASSUME IInv, NEW w \in Workers, CallRefused(w)
  PROVE  IInv'
<1> USE DEF IInv
<1>1. TypeOK'
  BY DEF TypeOK, Stages, Statuses, HasNextChannel, NoTask, CallRefused, Goto
<1>2. OneTask'
  BY DEF TypeOK, OneTask, Busy, CallRefused, Goto
<1>3. Untouched'
  BY DEF TypeOK, Untouched, Busy, CallRefused, Goto
<1>4. InOrder'
  <2>1. \A i \in items : Behind(carried[i.seq])' /\ Ahead(carried[i.seq])'
          /\ Untried(carried[i.seq])'
    BY DEF InOrder, Behind, Ahead, Untried, CallRefused
  <2>2. ASSUME NEW v \in Workers, Busy(v)' PROVE Behind(task[v])' /\ Ahead(task[v])'
    BY <2>2 DEF InOrder, Behind, Ahead, CallRefused, Goto, Busy, TypeOK
  <2>3. ASSUME NEW v \in Workers, Busy(v)' PROVE Tried(v)'
    BY <2>3 DEF InOrder, Tried, Untried, Attempted, HasNextChannel, CallRefused, Goto, Busy,
       TypeOK
  <2> QED
    BY <2>1, <2>2, <2>3 DEF InOrder, CallRefused
<1>5. Outcomes'
  BY DEF TypeOK, Outcomes, Busy, CallRefused, Goto
<1>6. Snapshot'
  BY DEF Outcomes, Untouched, Snapshot, Suppressed, EventType, Statuses, Event, NoHook,
     HookStages, CallRefused
<1>7. NoDuplicateSend'
  BY DEF NoDuplicateSend, CallRefused, Goto
<1>8. EventCountedOnce'
  BY ChannelsAssumption, WorkersAssumption DEF EventCountedOnce, Snapshot, CallRefused, Goto
<1>9. AckedEventTakesEffect'
  BY DEF AckedEventTakesEffect, CallRefused, Goto
<1> QED
  BY <1>1, <1>2, <1>3, <1>4, <1>5, <1>6, <1>7, <1>8, <1>9

(* From now on events can be validated against the attempt.                *)
LEMMA LogAttemptSentStep ==
  ASSUME IInv, NEW w \in Workers, LogAttemptSent(w)
  PROVE  IInv'
<1> USE DEF IInv
<1>1. TypeOK'
  BY DEF TypeOK, Stages, Statuses, HasNextChannel, NoTask, LogAttemptSent, Goto, LogAttempt
<1>2. OneTask'
  BY DEF OneTask, Busy, LogAttemptSent, Goto, LogAttempt
<1>3. Untouched'
  BY DEF Untouched, Busy, LogAttemptSent, Goto, LogAttempt
<1>4. InOrder'
  <2>1. Busy(w) /\ (Busy(w)' => Tried(w)')
    BY ChannelsAssumption DEF InOrder, Busy, Tried, Untried, Attempted, HasNextChannel,
       TypeOK, Tasks, LogAttemptSent, Goto, LogAttempt
  <2> QED
    BY <2>1, WorkerTries DEF TypeOK, Tasks, Attempted, LogAttemptSent, Goto, LogAttempt
<1>5. Outcomes'
  BY DEF Outcomes, Busy, LogAttemptSent, Goto, LogAttempt
<1>6. Snapshot'
  BY DEF Outcomes, Untouched, Snapshot, Suppressed, EventType, Statuses, Event, NoHook,
     HookStages, LogAttemptSent, LogAttempt
<1>7. NoDuplicateSend'
  BY DEF NoDuplicateSend, LogAttemptSent, Goto, LogAttempt
<1>8. EventCountedOnce'
  BY DEF EventCountedOnce, LogAttemptSent, Goto, LogAttempt
<1>9. AckedEventTakesEffect'
  BY DEF AckedEventTakesEffect, LogAttemptSent, Goto, LogAttempt
<1> QED
  BY <1>1, <1>2, <1>3, <1>4, <1>5, <1>6, <1>7, <1>8, <1>9

(* The worker's last record may overtake an event's, which is remembered.  *)
LEMMA LogSentStep ==
  ASSUME IInv, NEW w \in Workers, LogSent(w)
  PROVE  IInv'
<1> USE DEF IInv
<1>1. TypeOK'
  BY DEF TypeOK, Stages, Tasks, Statuses, HasNextChannel, NoTask, LogSent, Goto, LogMessage
<1>2. OneTask'
  BY DEF OneTask, Busy, LogSent, Goto, LogMessage
<1>3. Untouched'
  BY DEF Untouched, Busy, LogSent, Goto, LogMessage
<1>4. InOrder'
  <2>1. Busy(w) /\ (Busy(w)' => Tried(w)')
    BY ChannelsAssumption DEF InOrder, Busy, Tried, Untried, Attempted, HasNextChannel,
       TypeOK, Tasks, LogSent, Goto, LogMessage
  <2>2. /\ items' \subseteq items /\ UNCHANGED <<carried, attempt, accepted, lost>>
        /\ \A v \in Workers : v # w => pc'[v] = pc[v]
        /\ \A v \in Workers : Busy(v)' => task'[v] = task[v]
    BY DEF TypeOK, Busy, LogSent, Goto, LogMessage
  <2> QED
    BY <2>1, <2>2, WorkerMoves
<1>5. Outcomes'
  BY DEF Outcomes, Untouched, Busy, EventType, LogSent, Goto, LogMessage
<1>6. Snapshot'
  BY DEF TypeOK, Outcomes, Untouched, Snapshot, Suppressed, Busy, EventType, Statuses, Event,
     NoHook, HookStages, LogSent, Goto, LogMessage
<1>7. NoDuplicateSend'
  BY DEF NoDuplicateSend, LogSent, Goto, LogMessage
<1>8. EventCountedOnce'
  BY DEF EventCountedOnce, LogSent, Goto, LogMessage
<1>9. AckedEventTakesEffect'
  BY DEF Outcomes, AckedEventTakesEffect, Snapshot, Suppressed, Rank, Event, EventType, LogSent,
     LogMessage
<1> QED
  BY <1>1, <1>2, <1>3, <1>4, <1>5, <1>6, <1>7, <1>8, <1>9

(* The attempt fails, and the worker goes on only with a channel left.     *)
LEMMA LogAttemptFailedStep ==
  ASSUME IInv, NEW w \in Workers, LogAttemptFailed(w)
  PROVE  IInv'
<1> USE DEF IInv
<1>1. TypeOK'
  BY DEF TypeOK, Stages, Statuses, HasNextChannel, NoTask, LogAttemptFailed, Goto, LogAttempt
<1>2. OneTask'
  BY DEF TypeOK, OneTask, Busy, LogAttemptFailed, Goto, LogAttempt
<1>3. Untouched'
  BY DEF TypeOK, Untouched, Busy, LogAttemptFailed, Goto, LogAttempt
<1>4. InOrder'
  <2>1. Busy(w) /\ (Busy(w)' => Tried(w)')
    BY ChannelsAssumption DEF InOrder, Busy, Tried, Untried, Attempted, HasNextChannel,
       TypeOK, Tasks, LogAttemptFailed, Goto, LogAttempt
  <2> QED
    BY <2>1, WorkerTries DEF TypeOK, Tasks, Attempted, LogAttemptFailed, Goto, LogAttempt
<1>5. Outcomes'
  <2>1. Busy(w) /\ pc[w] # "logMessageSent"
    BY DEF LogAttemptFailed, Goto, Busy
  <2> QED
    BY <2>1, NotSentYet, HookFree DEF TypeOK, Outcomes, Busy, LogAttemptFailed, Goto, LogAttempt
<1>6. Snapshot'
  <2>1. Busy(w) /\ pc[w] # "logMessageSent"
    BY DEF LogAttemptFailed, Goto, Busy
  <2> QED
    BY <2>1, NotSentYet, HookFree DEF Outcomes, Snapshot, Suppressed, Event, EventType,
       LogAttemptFailed, LogAttempt
<1>7. NoDuplicateSend'
  BY DEF NoDuplicateSend, LogAttemptFailed, Goto, LogAttempt
<1>8. EventCountedOnce'
  BY DEF EventCountedOnce, LogAttemptFailed, Goto, LogAttempt
<1>9. AckedEventTakesEffect'
  BY DEF AckedEventTakesEffect, LogAttemptFailed, Goto, LogAttempt
<1> QED
  BY <1>1, <1>2, <1>3, <1>4, <1>5, <1>6, <1>7, <1>8, <1>9

(* A message that fails has no attempt sent, and with this worker the last *)
(* work on it ends.                                                        *)
LEMMA LogFailedStep ==
  ASSUME IInv, NEW w \in Workers, LogFailed(w)
  PROVE  IInv'
<1> USE DEF IInv
<1>1. TypeOK'
  BY DEF TypeOK, Stages, Statuses, HasNextChannel, NoTask, LogFailed, Goto, LogMessage
<1>2. OneTask'
  BY DEF OneTask, Busy, LogFailed, Goto, LogMessage
<1>3. Untouched'
  BY DEF Untouched, Busy, LogFailed, Goto, LogMessage
<1>4. InOrder'
  <2>1. Busy(w) /\ (Busy(w)' => Tried(w)')
    BY ChannelsAssumption DEF InOrder, Busy, Tried, Untried, Attempted, HasNextChannel,
       TypeOK, Tasks, LogFailed, Goto, LogMessage
  <2>2. /\ items' \subseteq items /\ UNCHANGED <<carried, attempt, accepted, lost>>
        /\ \A v \in Workers : v # w => pc'[v] = pc[v]
        /\ \A v \in Workers : Busy(v)' => task'[v] = task[v]
    BY DEF TypeOK, Busy, LogFailed, Goto, LogMessage
  <2> QED
    BY <2>1, <2>2, WorkerMoves
<1>5. Outcomes'
  <2> DEFINE m == task[w].message
  <2>1. Busy(w) /\ pc[w] # "logMessageSent"
    BY DEF LogFailed, Goto, Busy
  <2>2. /\ items' = items /\ carried' = carried /\ attempt' = attempt
        /\ status'[m] = "failed" /\ \A l \in Messages \ {m} : status'[l] = status[l]
    BY <2>1, NotSentYet DEF LogFailed, LogMessage, TypeOK
  <2>3. \A v \in Workers : Busy(v)' => Busy(v) /\ v # w /\ task'[v] = task[v]
    BY DEF LogFailed, Goto, LogMessage, Busy, TypeOK
  <2>4. /\ \A i \in items : carried[i.seq].message # m
        /\ \A v \in Workers \ {w} : Busy(v) => task[v].message # m
    BY <2>1 DEF OneTask
  <2>5. \A n \in Attempts : attempt[m][n] # "sent"
    BY <2>1, NotSentYet
  <2> HIDE DEF m
  <2>6. ASSUME NEW l \in Messages, l # m
        PROVE  /\ status'[l] \in EventType => \E n \in Attempts : attempt[l][n] = "sent"
               /\ status'[l] = "failed" =>
                    /\ \A n \in Attempts : attempt[l][n] # "sent"
                    /\ \A i \in items : carried[i.seq].message # l
                    /\ \A v \in Workers : Busy(v)' => task'[v].message # l
    BY <2>2, <2>3, <2>6 DEF Outcomes
  <2> QED
    BY <2>2, <2>3, <2>4, <2>5, <2>6 DEF Outcomes, EventType
<1>6. Snapshot'
  <2>1. Busy(w) /\ pc[w] # "logMessageSent"
    BY DEF LogFailed, Goto, Busy
  <2> QED
    BY <2>1, NotSentYet, HookFree DEF Outcomes, Snapshot, Suppressed, AckedEventTakesEffect,
       Event, EventType, Rank, LogFailed, LogMessage
<1>7. NoDuplicateSend'
  BY DEF NoDuplicateSend, LogFailed, Goto, LogMessage
<1>8. EventCountedOnce'
  BY DEF EventCountedOnce, LogFailed, Goto, LogMessage
<1>9. AckedEventTakesEffect'
  <2>1. Busy(w) /\ pc[w] # "logMessageSent"
    BY DEF LogFailed, Goto, Busy
  <2> QED
    BY <2>1, NotSentYet, HookFree DEF AckedEventTakesEffect, LogFailed, Goto, LogMessage
<1> QED
  BY <1>1, <1>2, <1>3, <1>4, <1>5, <1>6, <1>7, <1>8, <1>9

(* As for the sending record, no event has taken effect yet.               *)
LEMMA LogRetryingStep ==
  ASSUME IInv, NEW w \in Workers, LogRetrying(w)
  PROVE  IInv'
<1> USE DEF IInv
<1>1. TypeOK'
  BY DEF TypeOK, Stages, Statuses, HasNextChannel, NoTask, LogRetrying, Goto, LogMessage
<1>2. OneTask'
  BY DEF OneTask, Busy, LogRetrying, Goto, LogMessage
<1>3. Untouched'
  BY DEF Untouched, Busy, LogRetrying, Goto, LogMessage
<1>4. InOrder'
  <2>1. Busy(w) /\ (Busy(w)' => Tried(w)')
    BY ChannelsAssumption DEF InOrder, Busy, Tried, Untried, Attempted, HasNextChannel,
       TypeOK, Tasks, LogRetrying, Goto, LogMessage
  <2>2. /\ items' \subseteq items /\ UNCHANGED <<carried, attempt, accepted, lost>>
        /\ \A v \in Workers : v # w => pc'[v] = pc[v]
        /\ \A v \in Workers : Busy(v)' => task'[v] = task[v]
    BY DEF TypeOK, Busy, LogRetrying, Goto, LogMessage
  <2> QED
    BY <2>1, <2>2, WorkerMoves
<1>5. Outcomes'
  <2>1. Busy(w) /\ pc[w] # "logMessageSent"
    BY DEF LogRetrying, Goto, Busy
  <2> QED
    BY <2>1, NotSentYet, HookFree DEF Outcomes, Snapshot, Suppressed, AckedEventTakesEffect,
       Busy, Event, EventType, Rank, LogRetrying, Goto, LogMessage
<1>6. Snapshot'
  <2>1. Busy(w) /\ pc[w] # "logMessageSent"
    BY DEF LogRetrying, Goto, Busy
  <2> QED
    BY <2>1, NotSentYet, HookFree DEF Outcomes, Snapshot, Suppressed, AckedEventTakesEffect,
       Event, EventType, Rank, LogRetrying, LogMessage
<1>7. NoDuplicateSend'
  BY DEF NoDuplicateSend, LogRetrying, Goto, LogMessage
<1>8. EventCountedOnce'
  BY DEF EventCountedOnce, LogRetrying, Goto, LogMessage
<1>9. AckedEventTakesEffect'
  <2>1. Busy(w) /\ pc[w] # "logMessageSent"
    BY DEF LogRetrying, Goto, Busy
  <2> QED
    BY <2>1, NotSentYet, HookFree DEF AckedEventTakesEffect, LogRetrying, Goto, LogMessage
<1> QED
  BY <1>1, <1>2, <1>3, <1>4, <1>5, <1>6, <1>7, <1>8, <1>9

(* A retry's slot concerns the queue only.                                 *)
LEMMA ReserveRetryStep ==
  ASSUME IInv, NEW w \in Workers, ReserveRetry(w)
  PROVE  IInv'
<1> USE DEF IInv
<1>1. TypeOK'
  BY DEF TypeOK, Stages, Statuses, HasNextChannel, NoTask, ReserveRetry, Goto, Queue!Claim
<1>2. OneTask'
  BY DEF OneTask, Busy, ReserveRetry, Goto, Queue!Claim
<1>3. Untouched'
  BY ChannelsAssumption, WorkersAssumption DEF Untouched, Busy, ReserveRetry, Goto, Queue!Claim
<1>4. InOrder'
  BY ChannelsAssumption, WorkersAssumption DEF TypeOK, OneTask, InOrder, Behind, Ahead, Untried,
     Tried, Attempted, HasNextChannel, Busy, Tasks, ReserveRetry, Goto, Queue!Claim
<1>5. Outcomes'
  BY DEF Outcomes, Busy, ReserveRetry, Goto, Queue!Claim
<1>6. Snapshot'
  BY DEF Outcomes, Untouched, Snapshot, Suppressed, EventType, Statuses, Event, NoHook,
     HookStages, ReserveRetry, Queue!Claim
<1>7. NoDuplicateSend'
  BY DEF NoDuplicateSend, ReserveRetry, Goto, Queue!Claim
<1>8. EventCountedOnce'
  BY DEF EventCountedOnce, ReserveRetry, Goto, Queue!Claim
<1>9. AckedEventTakesEffect'
  BY DEF AckedEventTakesEffect, ReserveRetry, Goto, Queue!Claim
<1> QED
  BY <1>1, <1>2, <1>3, <1>4, <1>5, <1>6, <1>7, <1>8, <1>9

(* The message goes back to the queue, for the attempt after the one that  *)
(* failed.                                                                 *)
LEMMA CommitRetryStep ==
  ASSUME IInv, NEW w \in Workers, CommitRetry(w)
  PROVE  IInv'
<1> USE DEF IInv
<1>0. /\ NextAttempt(w) \in Tasks
      /\ NextAttempt(w).message = task[w].message
      /\ NextAttempt(w).attempt = task[w].attempt + 1
      /\ NextAttempt(w).attempt <= Channels[task[w].message]
  <2>1. task[w] \in Tasks /\ HasNextChannel(w)
    BY DEF CommitRetry, Goto, TypeOK, InOrder, Tried, Busy
  <2> QED
    BY <2>1, ChannelsAssumption DEF NextAttempt, Tasks, Attempts, HasNextChannel
<1>c. /\ carried' \in Seq(Tasks) /\ issued' = Len(carried')
      /\ \A i \in DOMAIN carried' : carried'[i].attempt <= Channels[carried'[i].message]
      /\ \A i \in items' : i.seq \in 1..issued'
      /\ \E new : /\ items' = items \cup {new} /\ new \notin items
                  /\ carried'[new.seq] = NextAttempt(w)
      /\ \A i \in items : carried'[i.seq] = carried[i.seq] /\ carried[i.seq] \in Tasks
  BY <1>0, Committed DEF CommitRetry
<1>b. PICK new : /\ items' = items \cup {new} /\ new \notin items
                 /\ carried'[new.seq] = NextAttempt(w)
  BY <1>c
<1>1. TypeOK'
  BY <1>0, <1>c, <1>b DEF TypeOK, Stages, Statuses, HasNextChannel, NoTask, CommitRetry, Goto,
     Queue!Put, NextAttempt
<1>2. OneTask'
  BY <1>0, <1>c, <1>b DEF TypeOK, OneTask, Busy, CommitRetry, Goto, Queue!Put, NextAttempt
<1>3. Untouched'
  BY <1>0, <1>c, <1>b DEF TypeOK, Untouched, Busy, CommitRetry, Goto, Queue!Put, NextAttempt
<1>4. InOrder'
  <2>1. attempt' = attempt /\ accepted' = accepted /\ lost' = lost
    BY DEF CommitRetry
  <2>2. ASSUME NEW i \in items'
        PROVE  (Behind(carried[i.seq]) /\ Ahead(carried[i.seq]) /\ Untried(carried[i.seq]))'
    <3>1. CASE i \in items
      <4>1. carried'[i.seq] = carried[i.seq]
        BY <3>1, <1>c
      <4>2. Behind(carried[i.seq]) /\ Ahead(carried[i.seq]) /\ Untried(carried[i.seq])
        BY <3>1 DEF InOrder
      <4> QED
        BY <4>1, <4>2, <2>1 DEF Behind, Ahead, Untried
    <3>2. CASE i = new
      <4>1. carried'[i.seq] = NextAttempt(w)
        BY <3>2, <1>b
      <4>2. /\ Behind(task[w]) /\ Ahead(task[w]) /\ Tried(w)
            /\ pc[w] = "commitRetry" /\ task[w].attempt \in Attempts
        BY DEF InOrder, CommitRetry, Goto, Busy, TypeOK, Tasks
      <4>3. /\ NextAttempt(w).message = task[w].message
            /\ NextAttempt(w).attempt = task[w].attempt + 1
            /\ NextAttempt(w).attempt \in Attempts
        BY <1>0 DEF Tasks
      <4>4. /\ attempt[task[w].message][task[w].attempt] = "failed"
            /\ <<task[w].message, task[w].attempt>> \in accepted =>
                 <<task[w].message, task[w].attempt>> \in lost
        BY <4>2 DEF Tried, Attempted
      <4>5. \A k \in Attempts : k < task[w].attempt + 1 =>
              k < task[w].attempt \/ k = task[w].attempt
        BY <4>2, ChannelsAssumption DEF Attempts
      <4>6. Behind(NextAttempt(w))
        BY <4>2, <4>3, <4>4, <4>5 DEF Behind
      <4>7. Ahead(NextAttempt(w)) /\ Untried(NextAttempt(w))
        BY <4>2, <4>3, ChannelsAssumption DEF Ahead, Untried, Attempts
      <4> QED
        BY <4>1, <4>6, <4>7, <2>1 DEF Behind, Ahead, Untried
    <3> QED
      BY <3>1, <3>2, <1>b
  <2>3. ASSUME NEW v \in Workers, Busy(v)'
        PROVE (Behind(task[v]) /\ Ahead(task[v]) /\ Tried(v))'
    BY <2>3 DEF InOrder, Behind, Ahead, Tried, Untried, Attempted, HasNextChannel, Busy, TypeOK,
       CommitRetry, Goto
  <2> QED
    BY <2>2, <2>3 DEF InOrder
<1>5. Outcomes'
  BY <1>0, <1>c, <1>b DEF TypeOK, Outcomes, Busy, CommitRetry, Goto, Queue!Put, NextAttempt
<1>6. Snapshot'
  BY <1>0, <1>c, <1>b DEF Outcomes, Untouched, Snapshot, Suppressed, EventType, Statuses, Event,
     NoHook, HookStages, CommitRetry, Queue!Put, NextAttempt
<1>7. NoDuplicateSend'
  BY <1>0, <1>c, <1>b DEF NoDuplicateSend, CommitRetry, Queue!Put, NextAttempt
<1>8. EventCountedOnce'
  BY <1>0, <1>c, <1>b DEF EventCountedOnce, CommitRetry, Queue!Put, NextAttempt
<1>9. AckedEventTakesEffect'
  BY <1>0, <1>c, <1>b DEF AckedEventTakesEffect, CommitRetry, Queue!Put, NextAttempt
<1> QED
  BY <1>1, <1>2, <1>3, <1>4, <1>5, <1>6, <1>7, <1>8, <1>9

(* A full queue moves the worker only.                                     *)
LEMMA RetryRefusedStep ==
  ASSUME IInv, NEW w \in Workers, RetryRefused(w)
  PROVE  IInv'
<1> USE DEF IInv
<1>1. TypeOK'
  BY DEF TypeOK, Stages, Statuses, HasNextChannel, NoTask, RetryRefused, Goto, AfterRetryRefused
<1>2. OneTask'
  BY DEF OneTask, Busy, RetryRefused, Goto, AfterRetryRefused
<1>3. Untouched'
  BY DEF Untouched, Busy, RetryRefused, Goto, AfterRetryRefused
<1>4. InOrder'
  BY ChannelsAssumption, WorkersAssumption DEF TypeOK, OneTask, InOrder, Behind, Ahead, Untried,
     Tried, Attempted, HasNextChannel, Busy, Tasks, RetryRefused, Goto, AfterRetryRefused
<1>5. Outcomes'
  BY DEF Outcomes, Busy, RetryRefused, Goto, AfterRetryRefused
<1>6. Snapshot'
  BY DEF Outcomes, Untouched, Snapshot, Suppressed, EventType, Statuses, Event, NoHook,
     HookStages, RetryRefused, AfterRetryRefused
<1>7. NoDuplicateSend'
  BY DEF NoDuplicateSend, RetryRefused, Goto, AfterRetryRefused
<1>8. EventCountedOnce'
  BY DEF EventCountedOnce, RetryRefused, Goto, AfterRetryRefused
<1>9. AckedEventTakesEffect'
  BY DEF AckedEventTakesEffect, RetryRefused, Goto, AfterRetryRefused
<1> QED
  BY <1>1, <1>2, <1>3, <1>4, <1>5, <1>6, <1>7, <1>8, <1>9

(* A closed queue gives the slot back.                                     *)
LEMMA RetryCommitRefusedStep ==
  ASSUME IInv, NEW w \in Workers, RetryCommitRefused(w)
  PROVE  IInv'
<1> USE DEF IInv
<1>1. TypeOK'
  BY DEF TypeOK, Stages, Statuses, HasNextChannel, NoTask, RetryCommitRefused, Goto,
     AfterRetryRefused, Queue!GiveBack
<1>2. OneTask'
  BY DEF OneTask, Busy, RetryCommitRefused, Goto, AfterRetryRefused, Queue!GiveBack
<1>3. Untouched'
  BY DEF Untouched, Busy, RetryCommitRefused, Goto, AfterRetryRefused, Queue!GiveBack
<1>4. InOrder'
  BY ChannelsAssumption, WorkersAssumption DEF TypeOK, OneTask, InOrder, Behind, Ahead, Untried,
     Tried, Attempted, HasNextChannel, Busy, Tasks, RetryCommitRefused, Goto, AfterRetryRefused,
     Queue!GiveBack
<1>5. Outcomes'
  BY DEF Outcomes, Busy, RetryCommitRefused, Goto, AfterRetryRefused, Queue!GiveBack
<1>6. Snapshot'
  BY DEF Outcomes, Untouched, Snapshot, Suppressed, EventType, Statuses, Event, NoHook,
     HookStages, RetryCommitRefused, AfterRetryRefused, Queue!GiveBack
<1>7. NoDuplicateSend'
  BY DEF NoDuplicateSend, RetryCommitRefused, AfterRetryRefused, Queue!GiveBack
<1>8. EventCountedOnce'
  BY DEF EventCountedOnce, RetryCommitRefused, AfterRetryRefused, Queue!GiveBack
<1>9. AckedEventTakesEffect'
  BY DEF AckedEventTakesEffect, RetryCommitRefused, AfterRetryRefused, Queue!GiveBack
<1> QED
  BY <1>1, <1>2, <1>3, <1>4, <1>5, <1>6, <1>7, <1>8, <1>9

(* A webhook starts with a snapshot of the latest status.                  *)
LEMMA BeginEventStep ==
  ASSUME IInv, NEW e \in Event, BeginEvent(e)
  PROVE  IInv'
<1> USE DEF IInv
<1>0. /\ hook' \in [stage : HookStages, event : Event, snapshot : Statuses \ {"none"}]
      /\ hook'.event = e /\ hook'.snapshot = status[e.message] /\ hook'.stage = "validate"
      /\ e.message \in Messages /\ e.attempt \in Attempts /\ status[e.message] # "none"
  BY DEF BeginEvent, HookStages, Event, TypeOK, Untouched
<1>1. TypeOK'
  BY <1>0 DEF TypeOK, BeginEvent, aside
<1>2. OneTask'
  BY <1>0 DEF OneTask, Busy, BeginEvent, aside
<1>3. Untouched'
  BY <1>0 DEF Untouched, Busy, BeginEvent, aside
<1>4. InOrder'
  BY <1>0 DEF InOrder, Behind, Ahead, Untried, Tried, Attempted, HasNextChannel, Busy,
     BeginEvent, aside
<1>5. Outcomes'
  BY <1>0 DEF Outcomes, Busy, BeginEvent, aside
<1>6. Snapshot'
  BY <1>0 DEF Untouched, Outcomes, Snapshot, Suppressed, EventType, NoHook, HookStages, Event,
     Statuses, BeginEvent, aside
<1>7. NoDuplicateSend'
  BY <1>0 DEF NoDuplicateSend, BeginEvent, aside
<1>8. EventCountedOnce'
  BY <1>0 DEF EventCountedOnce, BeginEvent, aside
<1>9. AckedEventTakesEffect'
  BY <1>0 DEF AckedEventTakesEffect, BeginEvent, aside
<1> QED
  BY <1>1, <1>2, <1>3, <1>4, <1>5, <1>6, <1>7, <1>8, <1>9

(* A webhook that is turned away leaves everything as it was.              *)
LEMMA RejectEventStep ==
  ASSUME IInv, RejectEvent
  PROVE  IInv'
<1> USE DEF IInv
<1>1. TypeOK'
  BY DEF TypeOK, RejectEvent, aside
<1>2. OneTask'
  BY ChannelsAssumption DEF OneTask, Busy, RejectEvent, aside
<1>3. Untouched'
  BY DEF Untouched, Busy, RejectEvent, aside
<1>4. InOrder'
  BY ChannelsAssumption DEF InOrder, Behind, Ahead, Untried, Tried, Attempted, HasNextChannel,
     Busy, RejectEvent, aside
<1>5. Outcomes'
  BY DEF Outcomes, Busy, RejectEvent, aside
<1>6. Snapshot'
  BY DEF Snapshot, RejectEvent, aside
<1>7. NoDuplicateSend'
  BY ChannelsAssumption DEF NoDuplicateSend, RejectEvent, aside
<1>8. EventCountedOnce'
  BY DEF EventCountedOnce, RejectEvent, aside
<1>9. AckedEventTakesEffect'
  BY DEF AckedEventTakesEffect, RejectEvent, aside
<1> QED
  BY <1>1, <1>2, <1>3, <1>4, <1>5, <1>6, <1>7, <1>8, <1>9

(* An event that is counted next was not recorded before.                  *)
LEMMA RecordEventStep ==
  ASSUME IInv, RecordEvent
  PROVE  IInv'
<1> USE DEF IInv
<1>0. /\ hook.stage \in HookStages /\ hook # NoHook /\ hook.event \in Event
      /\ hook.snapshot \in Statuses \ {"none"}
      /\ hook.event.message \in Messages /\ hook.event.attempt \in Attempts
         /\ hook.event.type \in EventType
      /\ hook' \in {NoHook} \cup [stage : HookStages, event : Event, snapshot : Statuses \ {"none"}]
      /\ hook' # NoHook => hook'.event = hook.event /\ hook'.snapshot = hook.snapshot
      /\ Recipient[hook.event.message] \in Recipients
  BY DEF TypeOK, NoHook, HookStages, Event, Recipients, RecordEvent, AfterDuplicate, NextStage
<1>1. TypeOK'
  BY <1>0 DEF TypeOK, RecordEvent, aside, AfterDuplicate, NextStage
<1>2. OneTask'
  BY <1>0 DEF OneTask, Busy, RecordEvent, aside, AfterDuplicate, NextStage
<1>3. Untouched'
  BY <1>0 DEF Untouched, Busy, RecordEvent, aside, AfterDuplicate, NextStage
<1>4. InOrder'
  BY <1>0, ChannelsAssumption DEF InOrder, Behind, Ahead, Untried, Tried, Attempted,
     HasNextChannel, Busy, RecordEvent, aside, AfterDuplicate, NextStage
<1>5. Outcomes'
  BY <1>0 DEF Outcomes, Busy, RecordEvent, aside, AfterDuplicate, NextStage
<1>6. Snapshot'
  BY <1>0 DEF TypeOK, Snapshot, RecordEvent, aside, AfterDuplicate, NextStage
<1>7. NoDuplicateSend'
  BY <1>0 DEF NoDuplicateSend, RecordEvent, aside, AfterDuplicate, NextStage
<1>8. EventCountedOnce'
  BY <1>0 DEF EventCountedOnce, RecordEvent, aside, AfterDuplicate, NextStage
<1>9. AckedEventTakesEffect'
  BY <1>0 DEF AckedEventTakesEffect, RecordEvent, aside, AfterDuplicate, NextStage
<1> QED
  BY <1>1, <1>2, <1>3, <1>4, <1>5, <1>6, <1>7, <1>8, <1>9

(* It is counted for the first time.                                       *)
LEMMA CountEventStep ==
  ASSUME IInv, CountEvent
  PROVE  IInv'
<1> USE DEF IInv
<1>0. /\ hook.stage \in HookStages /\ hook # NoHook /\ hook.event \in Event
      /\ hook.snapshot \in Statuses \ {"none"}
      /\ hook.event.message \in Messages /\ hook.event.attempt \in Attempts
         /\ hook.event.type \in EventType
      /\ hook' \in {NoHook} \cup [stage : HookStages, event : Event, snapshot : Statuses \ {"none"}]
      /\ hook' # NoHook => hook'.event = hook.event /\ hook'.snapshot = hook.snapshot
      /\ Recipient[hook.event.message] \in Recipients
  BY DEF TypeOK, NoHook, HookStages, Event, Recipients, CountEvent, NextStage
<1>1. TypeOK'
  <2>1. DOMAIN counted' = DOMAIN counted \cup {hook.event} /\ hook.event \in events
    BY <1>0 DEF CountEvent, NextStage, Snapshot
  <2> QED
    BY <2>1, <1>0 DEF TypeOK, CountEvent, aside
<1>2. OneTask'
  BY <1>0 DEF OneTask, Busy, CountEvent, aside, NextStage
<1>3. Untouched'
  BY <1>0 DEF Untouched, Busy, CountEvent, aside, NextStage
<1>4. InOrder'
  BY <1>0, ChannelsAssumption DEF InOrder, Behind, Ahead, Untried, Tried, Attempted,
     HasNextChannel, Busy, CountEvent, aside, NextStage
<1>5. Outcomes'
  BY <1>0 DEF Outcomes, Busy, CountEvent, aside, NextStage
<1>6. Snapshot'
  BY <1>0 DEF Snapshot, CountEvent, aside, NextStage
<1>7. NoDuplicateSend'
  BY <1>0, ChannelsAssumption DEF NoDuplicateSend, CountEvent, aside, NextStage
<1>8. EventCountedOnce'
  BY <1>0 DEF EventCountedOnce, Snapshot, NoHook, HookStages, Event, Statuses, CountEvent,
     aside,
     NextStage
<1>9. AckedEventTakesEffect'
  BY <1>0 DEF AckedEventTakesEffect, CountEvent, aside, NextStage
<1> QED
  BY <1>1, <1>2, <1>3, <1>4, <1>5, <1>6, <1>7, <1>8, <1>9

(* A suppression is never weakened.                                        *)
LEMMA SuppressRecipientStep ==
  ASSUME IInv, SuppressRecipient
  PROVE  IInv'
<1> USE DEF IInv
<1>0. /\ hook.stage \in HookStages /\ hook # NoHook /\ hook.event \in Event
      /\ hook.snapshot \in Statuses \ {"none"}
      /\ hook.event.message \in Messages /\ hook.event.attempt \in Attempts
         /\ hook.event.type \in EventType
      /\ hook' \in {NoHook} \cup [stage : HookStages, event : Event, snapshot : Statuses \ {"none"}]
      /\ hook' # NoHook => hook'.event = hook.event /\ hook'.snapshot = hook.snapshot
      /\ Recipient[hook.event.message] \in Recipients
  BY DEF TypeOK, NoHook, HookStages, Event, Recipients, SuppressRecipient, NextStage,
     Suppression
<1>1. TypeOK'
  BY <1>0 DEF TypeOK, SuppressRecipient, aside, NextStage, Suppression
<1>2. OneTask'
  BY <1>0 DEF OneTask, Busy, SuppressRecipient, aside, NextStage, Suppression
<1>3. Untouched'
  BY <1>0 DEF Untouched, Busy, SuppressRecipient, aside, NextStage, Suppression
<1>4. InOrder'
  BY <1>0, ChannelsAssumption DEF InOrder, Behind, Ahead, Untried, Tried, Attempted,
     HasNextChannel, Busy, SuppressRecipient, aside, NextStage, Suppression
<1>5. Outcomes'
  BY <1>0 DEF Outcomes, Busy, SuppressRecipient, aside, NextStage, Suppression
<1>6. Snapshot'
  BY <1>0 DEF TypeOK, Untouched, Outcomes, Snapshot, Suppressed, EventType, NoHook, HookStages,
     Event, Statuses, SuppressRecipient, aside, NextStage, Suppression
<1>7. NoDuplicateSend'
  BY <1>0 DEF NoDuplicateSend, SuppressRecipient, aside, NextStage, Suppression
<1>8. EventCountedOnce'
  BY <1>0 DEF EventCountedOnce, SuppressRecipient, aside, NextStage, Suppression
<1>9. AckedEventTakesEffect'
  BY <1>0 DEF AckedEventTakesEffect, SuppressRecipient, aside, NextStage, Suppression
<1> QED
  BY <1>1, <1>2, <1>3, <1>4, <1>5, <1>6, <1>7, <1>8, <1>9

(* A suppression that cannot be written leaves everything as it was.       *)
LEMMA SuppressionFailsStep ==
  ASSUME IInv, SuppressionFails
  PROVE  IInv'
<1> USE DEF IInv
<1>1. TypeOK'
  BY DEF TypeOK, SuppressionFails, aside
<1>2. OneTask'
  BY ChannelsAssumption DEF OneTask, Busy, SuppressionFails, aside
<1>3. Untouched'
  BY DEF Untouched, Busy, SuppressionFails, aside
<1>4. InOrder'
  BY ChannelsAssumption DEF InOrder, Behind, Ahead, Untried, Tried, Attempted, HasNextChannel,
     Busy, SuppressionFails, aside
<1>5. Outcomes'
  BY DEF Outcomes, Busy, SuppressionFails, aside
<1>6. Snapshot'
  BY DEF Snapshot, SuppressionFails, aside
<1>7. NoDuplicateSend'
  BY ChannelsAssumption DEF NoDuplicateSend, SuppressionFails, aside
<1>8. EventCountedOnce'
  BY DEF EventCountedOnce, SuppressionFails, aside
<1>9. AckedEventTakesEffect'
  BY DEF AckedEventTakesEffect, SuppressionFails, aside
<1> QED
  BY <1>1, <1>2, <1>3, <1>4, <1>5, <1>6, <1>7, <1>8, <1>9

(* The status applied is the snapshot's successor, and the status since    *)
(* the snapshot is no later than it.                                       *)
LEMMA ApplyEventStep ==
  ASSUME IInv, ApplyEvent
  PROVE  IInv'
<1> USE DEF IInv
<1>0. /\ hook.stage \in HookStages /\ hook # NoHook /\ hook.event \in Event
      /\ hook.snapshot \in Statuses \ {"none"}
      /\ hook.event.message \in Messages /\ hook.event.attempt \in Attempts
         /\ hook.event.type \in EventType
      /\ hook' \in {NoHook} \cup [stage : HookStages, event : Event, snapshot : Statuses \ {"none"}]
      /\ hook' # NoHook => hook'.event = hook.event /\ hook'.snapshot = hook.snapshot
      /\ Recipient[hook.event.message] \in Recipients
  BY DEF TypeOK, NoHook, HookStages, Event, Recipients, ApplyEvent, NextStatus
<1>s. /\ NextStatus(hook.snapshot, hook.event.type) \in Statuses \ {"none"}
      /\ status' \in [Messages -> Statuses]
      /\ status'[hook.event.message] # "none"
      /\ \A m \in Messages \ {hook.event.message} : status'[m] = status[m]
      /\ status'[hook.event.message] \in {status[hook.event.message]} \cup EventType
      /\ status'[hook.event.message] = "failed" => status[hook.event.message] = "failed"
  BY <1>0 DEF ApplyEvent, NextStatus, Statuses, EventType, TypeOK, Snapshot
<1>1. TypeOK'
  <2>1. /\ acked' \subseteq events' /\ events' = events /\ counted' = counted
           /\ suppressed' = suppressed
        /\ hook' = NoHook
    BY <1>0 DEF ApplyEvent, TypeOK, Snapshot
  <2> QED
    BY <2>1, <1>s DEF TypeOK, ApplyEvent, aside
<1>2. OneTask'
  BY <1>0 DEF OneTask, Busy, ApplyEvent, aside, NextStatus
<1>3. Untouched'
  BY <1>0, <1>s DEF Untouched, Snapshot, Busy, NoHook, HookStages, Event, Statuses, ApplyEvent,
     aside, NextStatus
<1>4. InOrder'
  BY <1>0, ChannelsAssumption DEF InOrder, Behind, Ahead, Untried, Tried, Attempted,
     HasNextChannel, Busy, ApplyEvent, aside, NextStatus
<1>5. Outcomes'
  BY <1>0, <1>s DEF Outcomes, Snapshot, Busy, NoHook, HookStages, Event, Statuses, ApplyEvent,
     aside, NextStatus
<1>6. Snapshot'
  BY <1>0 DEF Snapshot, ApplyEvent, aside, NextStatus
<1>7. NoDuplicateSend'
  BY <1>0, ChannelsAssumption DEF NoDuplicateSend, ApplyEvent, aside, NextStatus
<1>8. EventCountedOnce'
  BY <1>0 DEF EventCountedOnce, ApplyEvent, aside, NextStatus
<1>9. AckedEventTakesEffect'
  BY <1>0 DEF TypeOK, AckedEventTakesEffect, Outcomes, Snapshot, Suppressed, Rank, EventType,
     NoHook, HookStages, Event, Statuses, ApplyEvent, aside, NextStatus
<1> QED
  BY <1>1, <1>2, <1>3, <1>4, <1>5, <1>6, <1>7, <1>8, <1>9

(* Closing drops tasks only.                                               *)
LEMMA CloseQueueStep ==
  ASSUME IInv, CloseQueue
  PROVE  IInv'
<1> USE DEF IInv
<1>1. TypeOK'
  BY DEF TypeOK, CloseQueue, Queue!Shut
<1>2. OneTask'
  BY DEF OneTask, Busy, CloseQueue, Queue!Shut
<1>3. Untouched'
  BY DEF Untouched, Busy, CloseQueue, Queue!Shut
<1>4. InOrder'
  BY ChannelsAssumption, WorkersAssumption DEF TypeOK, OneTask, InOrder, Behind, Ahead, Untried,
     Tried, Attempted, HasNextChannel, Busy, Tasks, CloseQueue, Queue!Shut
<1>5. Outcomes'
  BY DEF Outcomes, Busy, CloseQueue, Queue!Shut
<1>6. Snapshot'
  BY DEF Outcomes, Untouched, Snapshot, Suppressed, EventType, Statuses, Event, NoHook,
     HookStages, CloseQueue, Queue!Shut
<1>7. NoDuplicateSend'
  BY DEF NoDuplicateSend, CloseQueue, Queue!Shut
<1>8. EventCountedOnce'
  BY ChannelsAssumption, WorkersAssumption DEF EventCountedOnce, Snapshot, CloseQueue,
     Queue!Shut
<1>9. AckedEventTakesEffect'
  BY DEF AckedEventTakesEffect, CloseQueue, Queue!Shut
<1> QED
  BY <1>1, <1>2, <1>3, <1>4, <1>5, <1>6, <1>7, <1>8, <1>9

(* A crash drops the queue, the workers and the webhook, and keeps the     *)
(* records.                                                                *)
LEMMA CrashStep ==
  ASSUME IInv, Crash
  PROVE  IInv'
<1> USE DEF IInv
<1>1. TypeOK'
  BY DEF TypeOK, Stages, Statuses, HasNextChannel, NoTask, Crash, NoHook
<1>2. OneTask'
  BY DEF OneTask, Busy, Crash
<1>3. Untouched'
  BY DEF Untouched, Busy, Crash
<1>4. InOrder'
  BY DEF InOrder, Busy, Crash
<1>5. Outcomes'
  BY DEF Outcomes, Busy, Crash
<1>6. Snapshot'
  BY DEF Snapshot, Crash
<1>7. NoDuplicateSend'
  BY DEF NoDuplicateSend, Crash
<1>8. EventCountedOnce'
  BY ChannelsAssumption, WorkersAssumption DEF EventCountedOnce, Snapshot, Crash, NoHook
<1>9. AckedEventTakesEffect'
  BY DEF AckedEventTakesEffect, Crash
<1> QED
  BY <1>1, <1>2, <1>3, <1>4, <1>5, <1>6, <1>7, <1>8, <1>9

(* Nothing depends on the time.                                            *)
LEMMA TickStep ==
  ASSUME IInv, Tick
  PROVE  IInv'
<1> USE DEF IInv
<1>1. TypeOK'
  BY DEF TypeOK, Tick
<1>2. OneTask'
  BY DEF OneTask, Busy, Tick
<1>3. Untouched'
  BY DEF Untouched, Busy, Tick
<1>4. InOrder'
  BY ChannelsAssumption, WorkersAssumption DEF TypeOK, OneTask, InOrder, Behind, Ahead, Untried,
     Tried, Attempted, HasNextChannel, Busy, Tasks, Tick
<1>5. Outcomes'
  BY DEF Outcomes, Busy, Tick
<1>6. Snapshot'
  BY DEF Outcomes, Untouched, Snapshot, Suppressed, EventType, Statuses, Event, NoHook,
     HookStages, Tick
<1>7. NoDuplicateSend'
  BY DEF NoDuplicateSend, Tick
<1>8. EventCountedOnce'
  BY ChannelsAssumption, WorkersAssumption DEF EventCountedOnce, Snapshot, Tick
<1>9. AckedEventTakesEffect'
  BY DEF AckedEventTakesEffect, Tick
<1> QED
  BY <1>1, <1>2, <1>3, <1>4, <1>5, <1>6, <1>7, <1>8, <1>9

(* Nothing changes.                                                        *)
LEMMA StutterStep ==
  ASSUME IInv, UNCHANGED vars
  PROVE  IInv'
<1> USE DEF IInv
<1>1. TypeOK'
  BY DEF TypeOK, vars
<1>2. OneTask'
  BY DEF OneTask, Busy, vars
<1>3. Untouched'
  BY DEF Untouched, Busy, vars
<1>4. InOrder'
  BY ChannelsAssumption, WorkersAssumption DEF TypeOK, OneTask, InOrder, Behind, Ahead, Untried,
     Tried, Attempted, HasNextChannel, Busy, Tasks, vars
<1>5. Outcomes'
  BY DEF Outcomes, Busy, vars
<1>6. Snapshot'
  BY DEF Outcomes, Untouched, Snapshot, Suppressed, EventType, Statuses, Event, NoHook,
     HookStages, vars
<1>7. NoDuplicateSend'
  BY DEF NoDuplicateSend, vars
<1>8. EventCountedOnce'
  BY ChannelsAssumption, WorkersAssumption DEF EventCountedOnce, Snapshot, vars
<1>9. AckedEventTakesEffect'
  BY DEF AckedEventTakesEffect, vars
<1> QED
  BY <1>1, <1>2, <1>3, <1>4, <1>5, <1>6, <1>7, <1>8, <1>9

(* The invariant holds at first.                                           *)
LEMMA InitStep == Init => IInv
  BY DEF Init, Queue!Init, IInv, TypeOK, OneTask, Untouched, InOrder, Outcomes, Snapshot,
     NoDuplicateSend, EventCountedOnce, AckedEventTakesEffect, Busy, Stages, Statuses,
     EventType, NoHook

(* Every step keeps it.                                                    *)
LEMMA NextStep == IInv /\ [Next]_vars => IInv'
<1> SUFFICES ASSUME IInv, [Next]_vars PROVE IInv'
  OBVIOUS
<1>1. CASE \E m \in Messages : ReserveSlot(m) \/ Submit(m)
  BY <1>1, ReserveSlotStep, SubmitStep
<1>2. CASE \E w \in Workers : WorkerStep(w)
  BY <1>2, TakeTaskStep, LogSendingStep, LogAttemptSendingStep, UnresolvedStep,
     CallAcceptedStep,
     CallAnswerLostStep, CallRefusedStep, LogAttemptSentStep, LogSentStep, LogAttemptFailedStep,
     LogFailedStep, LogRetryingStep, ReserveRetryStep, CommitRetryStep, RetryRefusedStep,
     RetryCommitRefusedStep DEF WorkerStep
<1>3. CASE \E e \in Event : BeginEvent(e)
  BY <1>3, BeginEventStep
<1>4. CASE HookStep
  BY <1>4, RejectEventStep, RecordEventStep, CountEventStep, SuppressRecipientStep,
     SuppressionFailsStep, ApplyEventStep DEF HookStep
<1>5. CASE CloseQueue \/ Crash \/ Tick
  BY <1>5, CloseQueueStep, CrashStep, TickStep
<1>6. CASE UNCHANGED vars
  BY <1>6, StutterStep
<1> QED
  BY <1>1, <1>2, <1>3, <1>4, <1>5, <1>6 DEF Next

(* It always holds.                                                        *)
LEMMA Invariance == Spec => []IInv
  BY InitStep, NextStep, PTL DEF Spec

(* Every record, task, worker and webhook has its type: no task carries an *)
(* attempt beyond the channels of its message, and every event counted or  *)
(* answered was recorded.                                                  *)
THEOREM TypeCorrect == Spec => []TypeOK
<1>1. IInv => TypeOK
  BY DEF IInv
<1> QED
  BY <1>1, Invariance, PTL

(* No provider accepts a message twice unless the worker never got the     *)
(* answer to the first acceptance, whichever workers take the message and  *)
(* wherever the process dies.                                              *)
THEOREM SentOnce == Spec => []NoDuplicateSend
<1>1. IInv => NoDuplicateSend
  BY DEF IInv
<1> QED
  BY <1>1, Invariance, PTL

(* However often an event is delivered and wherever a delivery of it       *)
(* ended, it is counted once at most.                                      *)
THEOREM CountedOnce == Spec => []EventCountedOnce
<1>1. IInv => EventCountedOnce
  BY DEF IInv
<1> QED
  BY <1>1, Invariance, PTL

(* An event answered 202 has its suppression and its status, unless a      *)
(* worker's sent record overtook it.                                       *)
THEOREM EventsTakeEffect == Spec => []AckedEventTakesEffect
<1>1. IInv => AckedEventTakesEffect
  BY DEF IInv
<1> QED
  BY <1>1, Invariance, PTL

(* A worker logs an attempt that is not finished, after all before it      *)
(* failed.                                                                 *)
LEMMA AttemptLogged ==
  ASSUME IInv, NEW w \in Workers,
         LogAttemptSending(w) \/ LogAttemptSent(w) \/ LogAttemptFailed(w),
         NEW m \in Messages, NEW n \in Attempts, attempt'[m][n] # attempt[m][n]
  PROVE  /\ attempt[m][n] \notin {"sent", "failed"}
         /\ \A k \in 1..(n - 1) : attempt[m][k] = "failed"
<1> USE DEF IInv
<1>1. /\ pc[w] \in {"logAttempt", "logSent", "logPermanent", "logRetriable"}
      /\ \E s : attempt' = [attempt EXCEPT ![task[w].message][task[w].attempt] = s]
  BY DEF LogAttemptSending, LogAttemptSent, LogAttemptFailed, LogAttempt, Goto
<1>2. task[w] \in Tasks /\ Behind(task[w]) /\ Tried(w)
  BY <1>1 DEF TypeOK, InOrder, Busy
<1>3. m = task[w].message /\ n = task[w].attempt
  BY <1>1, <1>2 DEF TypeOK, Tasks
<1>4. attempt[m][n] \notin {"sent", "failed"}
  BY <1>1, <1>2, <1>3 DEF Tried, Untried
<1>5. \A k \in 1..(n - 1) : k \in Attempts /\ k < n
  BY ChannelsAssumption DEF Attempts
<1> QED
  BY <1>2, <1>3, <1>4, <1>5 DEF Behind

(* Attempts are made in order, once each, and each only after those before *)
(* it failed.                                                              *)
THEOREM AttemptsOrdered == Spec => AttemptsInOrder
<1> DEFINE InOrderStep ==
      \A m \in Messages, n \in Attempts : attempt'[m][n] # attempt[m][n] =>
        /\ attempt[m][n] \notin {"sent", "failed"}
        /\ \A k \in 1..(n - 1) : attempt[m][k] = "failed"
<1>1. IInv /\ [Next]_vars => [InOrderStep]_vars
  <2> SUFFICES ASSUME IInv, Next PROVE InOrderStep
    OBVIOUS
  <2>1. ASSUME NEW w \in Workers,
               LogAttemptSending(w) \/ LogAttemptSent(w) \/ LogAttemptFailed(w)
        PROVE  InOrderStep
    BY <2>1, AttemptLogged
  <2>2. CASE attempt' = attempt
    BY <2>2
  <2> QED
    BY <2>1, <2>2 DEF Next, WorkerStep, HookStep, LogMessage, aside, ReserveSlot, Submit,
       BeginEvent,
       TakeTask, LogSending, LogAttemptSending, Unresolved, CallAccepted, CallAnswerLost,
       CallRefused, LogAttemptSent, LogSent, LogAttemptFailed, LogFailed, LogRetrying,
       ReserveRetry, CommitRetry, RetryRefused, RetryCommitRefused, RejectEvent, RecordEvent,
       CountEvent, SuppressRecipient, SuppressionFails, ApplyEvent, CloseQueue, Crash, Tick
<1>2. Spec => [][InOrderStep]_vars
  BY <1>1, Invariance, PTL DEF Spec
<1> QED
  BY <1>2 DEF AttemptsInOrder

(* A worker's record never follows failed, and is not an event's.          *)
LEMMA StatusLogged ==
  ASSUME IInv, NEW w \in Workers, LogSending(w) \/ LogSent(w) \/ LogFailed(w) \/ LogRetrying(w),
         NEW m \in Messages, status'[m] # status[m]
  PROVE  status[m] # "failed" /\ status'[m] \notin EventType
<1> USE DEF IInv
<1>1. /\ Busy(w)
      /\ \E s : s \notin EventType /\ status' = [status EXCEPT ![task[w].message] = s]
  BY DEF LogSending, LogSent, LogFailed, LogRetrying, LogMessage, Goto, Busy, EventType
<1>2. m = task[w].message /\ status'[m] \notin EventType
  BY <1>1 DEF TypeOK, Tasks, Busy
<1> QED
  BY <1>1, <1>2 DEF Outcomes

(* A webhook's record never follows failed, and is graver than the latest. *)
LEMMA EventApplied ==
  ASSUME IInv, ApplyEvent, NEW m \in Messages, status'[m] # status[m]
  PROVE  status[m] # "failed" /\ Rank(status[m]) < Rank(status'[m])
<1> USE DEF IInv
<1> DEFINE next == NextStatus(hook.snapshot, hook.event.type)
<1>1. /\ hook # NoHook /\ hook.stage = "status" /\ hook.event \in Event
      /\ hook.event.type \in EventType /\ hook.event.attempt \in Attempts
  BY HookFree DEF ApplyEvent, NoHook, Event
<1>2. m = hook.event.message /\ next # hook.snapshot /\ status'[m] = next
  BY <1>1 DEF ApplyEvent, TypeOK, Event
<1>3. status[m] # "failed"
  BY <1>1, <1>2 DEF Snapshot, Outcomes
<1>4. next = hook.event.type /\ Rank(hook.snapshot) < Rank(next)
  BY <1>1, <1>2 DEF NextStatus, Rank, EventType
<1>5. status[m] = hook.snapshot \/ Rank(status[m]) = 0
  BY <1>1, <1>2 DEF Snapshot, Rank, EventType
<1>6. Rank(next) > 0
  BY <1>1, <1>4 DEF Rank, EventType
<1> QED
  BY <1>2, <1>3, <1>4, <1>5, <1>6

(* A failed message stays failed, and a webhook that decides on an         *)
(* outdated snapshot never takes a message back to a milder status.        *)
THEOREM OutcomesAdvance == Spec => OutcomesOnlyAdvance
<1> DEFINE Advances ==
      \A m \in Messages : status'[m] # status[m] =>
        /\ status[m] # "failed"
        /\ status'[m] \in EventType => Rank(status[m]) < Rank(status'[m])
<1>1. IInv /\ [Next]_vars => [Advances]_vars
  <2> SUFFICES ASSUME IInv, Next PROVE Advances
    OBVIOUS
  <2>1. ASSUME NEW w \in Workers, LogSending(w) \/ LogSent(w) \/ LogFailed(w) \/ LogRetrying(w)
        PROVE  Advances
    BY <2>1, StatusLogged
  <2>2. CASE ApplyEvent
    BY <2>2, EventApplied
  <2>3. ASSUME NEW m \in Messages, Submit(m) PROVE Advances
    BY <2>3 DEF Submit, Queue!Put, IInv, Untouched, EventType
  <2>4. CASE status' = status
    BY <2>4
  <2> QED
    BY <2>1, <2>2, <2>3, <2>4 DEF Next, WorkerStep, HookStep, LogAttempt, aside, ReserveSlot,
       BeginEvent,
       TakeTask, LogSending, LogAttemptSending, Unresolved, CallAccepted, CallAnswerLost,
       CallRefused, LogAttemptSent, LogSent, LogAttemptFailed, LogFailed, LogRetrying,
       ReserveRetry, CommitRetry, RetryRefused, RetryCommitRefused, RejectEvent, RecordEvent,
       CountEvent, SuppressRecipient, SuppressionFails, CloseQueue, Crash, Tick
<1>2. Spec => [][Advances]_vars
  BY <1>1, Invariance, PTL DEF Spec
<1> QED
  BY <1>2 DEF OutcomesOnlyAdvance
=============================================================================
