------------------------------ MODULE Delivery ------------------------------
(***************************************************************************)
(* The delivery of accepted messages and the webhooks that report on them. *)
(*                                                                         *)
(* Workers (internal/worker/worker.go, ProcessTask) take a task from the   *)
(* queue, try the message's next provider channel, log every step, and     *)
(* put the message back with a delay when another channel is left.         *)
(* Provider events (internal/api/provider_event.go, applyProviderEvent)    *)
(* read the same logs and append to them under eventMu, which workers do   *)
(* not take.  Each append is a critical section of its own.                *)
(*                                                                         *)
(* The queue is the DelayQueue that MemoryQueue implements.  The provider  *)
(* is external: it may accept a message and lose the answer, and it sends  *)
(* events, in any order and as often as it likes, for what it accepted.    *)
(***************************************************************************)
EXTENDS DeliveryRules, Integers, Sequences, FiniteSets

CONSTANTS
  Messages,      \* accepted messages; each one's API handler bears its name
  Workers,
  Recipient,     \* the recipient of each message
  Channels,      \* Message.ProviderChannels: how many each message has
  MaxAttempts,   \* WorkerConfig.MaxAttemptsPerMessage
  RetryAfters,   \* the Retry-After seconds providers answer with, 0 for none
  Capacity,      \* of the queue
  Reports,       \* bound on what the provider reports: a set of [message, type]
  MaxTime        \* bound on the clock

ASSUME ChannelsAssumption == Channels \in [Messages -> Nat \ {0}] /\ MaxAttempts \in Nat \ {0}
ASSUME WorkersAssumption  == Workers \cap Messages = {}   \* the queue tells its callers apart

VARIABLES
  clock, claims, items, issued, handed, open,   \* the queue
  carried,     \* the message and attempt of each task ever committed
  status,      \* the latest message record: FindLatestMessage
  attempt,     \* the latest record of each attempt: latestAttemptsByNumber
  pc,          \* where each worker is in ProcessTask
  task,        \* the task of each worker
  accepted,    \* the attempts the provider accepted
  lost,        \* those of them whose answer the worker never got
  hook,        \* the webhook handler that holds eventMu
  events,      \* the identities in the provider event log
  counted,     \* history: the event statistics recorded
  suppressed,  \* SuppressionStore: the reason for each recipient
  acked,       \* history: the events answered 202
  overtaken,   \* history: the messages whose sent record followed an event's
  crashed      \* the process was restarted (once)

queueVars    == <<clock, claims, items, issued, handed, open, carried>>
logVars      == <<status, attempt, overtaken>>
providerVars == <<accepted, lost>>
hookVars     == <<hook, events, counted, suppressed, acked>>
outside      == <<hookVars, crashed>>
vars == <<queueVars, logVars, providerVars, outside, pc, task>>

Queue == INSTANCE DelayQueue WITH Callers <- Workers \cup Messages, Delays <- Nat

NoTask    == [message |-> "none", attempt |-> 0]
Attempts  == 1..MaxAttempts
Event     == [message : Messages, attempt : Attempts, type : EventType]
NoHook    == [stage |-> "free"]

Recipients == {Recipient[m] : m \in Messages}

Init ==
  /\ Queue!Init
  /\ carried = << >>
  /\ status = [m \in Messages |-> "none"]
  /\ attempt = [m \in Messages |-> [n \in Attempts |-> "none"]]
  /\ pc = [w \in Workers |-> "idle"]
  /\ task = [w \in Workers |-> NoTask]
  /\ accepted = {} /\ lost = {}
  /\ hook = NoHook
  /\ events = {}
  /\ counted = << >>
  /\ suppressed = [r \in Recipients |-> "none"]
  /\ acked = {}
  /\ overtaken = {}
  /\ crashed = FALSE

-----------------------------------------------------------------------------
(* Admission, as far as the workers see it. *)

ReserveSlot(m) ==
  /\ status[m] = "none"
  /\ Queue!Claim(m)
  /\ UNCHANGED <<carried, logVars, providerVars, outside, pc, task>>

(* The queued record is written before the task is committed; nobody else  *)
(* knows the message in between.                                           *)
Submit(m) ==
  /\ Queue!Put(m, 0)
  /\ carried' = Append(carried, [message |-> m, attempt |-> 1])
  /\ status' = [status EXCEPT ![m] = "queued"]
  /\ UNCHANGED <<attempt, overtaken, providerVars, outside, pc, task>>

-----------------------------------------------------------------------------
(* The workers. *)

Goto(w, from, to) == pc[w] = from /\ pc' = [pc EXCEPT ![w] = to]

TakeTask(w) ==
  /\ Goto(w, "idle", "logSending")
  /\ \E item \in items :
       /\ Queue!Take(item)
       /\ task' = [task EXCEPT ![w] = carried[item.seq]]
  /\ UNCHANGED <<carried, logVars, providerVars, outside>>

(* appendMessage for the worker's message.  The latest record is not       *)
(* looked at.  A worker that goes idle drops its task.                     *)
LogMessage(w, s) ==
  /\ status' = [status EXCEPT ![task[w].message] = s]
  /\ task' = [task EXCEPT ![w] = IF pc'[w] = "idle" THEN NoTask ELSE @]
  /\ UNCHANGED <<queueVars, attempt, providerVars, outside>>

(* appendAttempt for the worker's attempt. *)
LogAttempt(w, s) ==
  /\ attempt' = [attempt EXCEPT ![task[w].message][task[w].attempt] = s]
  /\ UNCHANGED <<queueVars, status, overtaken, providerVars, outside, task>>

LogSending(w) ==
  /\ Goto(w, "logSending", "logAttempt")
  /\ LogMessage(w, "sending")
  /\ UNCHANGED overtaken

LogAttemptSending(w) ==
  /\ Goto(w, "logAttempt", "call")
  /\ LogAttempt(w, "sending")

(* The channel is not configured or its account's metadata is incomplete:  *)
(* no attempt is logged as sending and no provider is called.              *)
Unresolved(w) ==
  /\ Goto(w, "logAttempt", "logRetriable")
  /\ UNCHANGED <<queueVars, logVars, providerVars, outside, task>>

Attempted(w) == <<task[w].message, task[w].attempt>>

(* Seeded fault: an accepted result is taken for a temporary failure. *)
AfterAcceptedRetried == "logRetriable"

AfterAccepted == "logSent"

(* sendThroughProvider returns. *)
CallAccepted(w) ==
  /\ Goto(w, "call", AfterAccepted)
  /\ accepted' = accepted \cup {Attempted(w)}
  /\ UNCHANGED <<queueVars, logVars, lost, outside, task>>

(* The call times out, is interrupted or breaks off after the provider has *)
(* accepted the message: a temporary failure for the worker.               *)
CallAnswerLost(w) ==
  /\ Goto(w, "call", "logRetriable")
  /\ accepted' = accepted \cup {Attempted(w)}
  /\ lost' = lost \cup {Attempted(w)}
  /\ UNCHANGED <<queueVars, logVars, outside, task>>

(* message_permanent, or a temporary or channel failure. *)
CallRefused(w) ==
  /\ \/ Goto(w, "call", "logPermanent")
     \/ Goto(w, "call", "logRetriable")
  /\ UNCHANGED <<queueVars, logVars, providerVars, outside, task>>

LogAttemptSent(w) ==
  /\ Goto(w, "logSent", "logMessageSent")
  /\ LogAttempt(w, "sent")

LogSent(w) ==
  /\ Goto(w, "logMessageSent", "idle")
  /\ LogMessage(w, "sent")
  /\ overtaken' = IF status[task[w].message] \in EventType
                  THEN overtaken \cup {task[w].message} ELSE overtaken

(* Seeded fault: the attempt just made is tested instead of the next. *)
HasNextChannelStale(w) == task[w].attempt <= MaxAttempts /\ task[w].attempt <= Channels[task[w].message]

(* hasProviderChannelForAttempt, of the next attempt. *)
HasNextChannel(w) == task[w].attempt < MaxAttempts /\ task[w].attempt < Channels[task[w].message]

LogAttemptFailed(w) ==
  /\ \/ Goto(w, "logPermanent", "logFailed")
     \/ Goto(w, "logRetriable", "logFailed") /\ ~HasNextChannel(w)
     \/ Goto(w, "logRetriable", "logRetrying") /\ HasNextChannel(w)
  /\ LogAttempt(w, "failed")

LogFailed(w) ==
  /\ Goto(w, "logFailed", "idle")
  /\ LogMessage(w, "failed")
  /\ UNCHANGED overtaken

LogRetrying(w) ==
  /\ Goto(w, "logRetrying", "retry")
  /\ LogMessage(w, "retrying")
  /\ UNCHANGED overtaken

(* EnqueueDelayed reserves a slot like any request... *)
ReserveRetry(w) ==
  /\ Goto(w, "retry", "commitRetry")
  /\ Queue!Claim(w)
  /\ UNCHANGED <<carried, logVars, providerVars, outside, task>>

(* Seeded fault: the attempt number is not advanced. *)
NextAttemptSame(w) == task[w]

NextAttempt(w) == [task[w] EXCEPT !.attempt = @ + 1]

(* ... and commits the next attempt into it. *)
CommitRetry(w) ==
  /\ Goto(w, "commitRetry", "idle")
  /\ \E seconds \in RetryAfters : Queue!Put(w, RetryDelay(task[w].attempt + 1, seconds))
  /\ carried' = Append(carried, NextAttempt(w))
  /\ task' = [task EXCEPT ![w] = NoTask]
  /\ UNCHANGED <<logVars, providerVars, outside>>

(* Seeded fault: the message is forgotten when no slot is free. *)
AfterRetryRefusedForgotten == "idle"

AfterRetryRefused == "logFailed"

(* The queue is full or closed: the message fails with channels left. *)
RetryRefused(w) ==
  /\ Goto(w, "retry", AfterRetryRefused)
  /\ ~open \/ Cardinality(claims) + Cardinality(items) >= Capacity
  /\ UNCHANGED <<queueVars, logVars, providerVars, outside, task>>

RetryCommitRefused(w) ==
  /\ Goto(w, "commitRetry", AfterRetryRefused)
  /\ ~open
  /\ Queue!GiveBack(w)
  /\ UNCHANGED <<carried, logVars, providerVars, outside, task>>

-----------------------------------------------------------------------------
(* applyProviderEvent, one handler at a time. *)

aside == <<queueVars, attempt, overtaken, providerVars, crashed, pc, task>>

NextStage(from, to) == hook.stage = from /\ hook' = [hook EXCEPT !.stage = to]

(* A handler locks eventMu and finds the latest message record.  Events    *)
(* come from the provider, for attempts it accepted.                       *)
BeginEvent(e) ==
  /\ hook = NoHook
  /\ <<e.message, e.attempt>> \in accepted
  /\ [message |-> e.message, type |-> e.type] \in Reports  \* the model's bound
  /\ hook' = [stage |-> "validate", event |-> e, snapshot |-> status[e.message]]
  /\ UNCHANGED <<aside, status, events, counted, suppressed, acked>>

(* validateProviderEventAttempt finds no attempt whose latest record is    *)
(* sent: 400.                                                              *)
RejectEvent ==
  /\ hook.stage = "validate"
  /\ attempt[hook.event.message][hook.event.attempt] # "sent"
  /\ hook' = NoHook
  /\ UNCHANGED <<aside, status, events, counted, suppressed, acked>>

(* Seeded faults: a duplicate counts again; it leaves out the suppression. *)
AfterDuplicateCounted      == "count"
AfterDuplicateUnsuppressed == "status"

(* A duplicate repairs what the first delivery may not have come to. *)
AfterDuplicate == "suppress"

(* AppendProviderEventOnce *)
RecordEvent ==
  /\ hook.stage = "validate"
  /\ attempt[hook.event.message][hook.event.attempt] = "sent"
  /\ \/ hook.event \in events /\ NextStage("validate", AfterDuplicate)
     \/ hook.event \notin events /\ NextStage("validate", "count")
  /\ events' = events \cup {hook.event}
  /\ UNCHANGED <<aside, status, counted, suppressed, acked>>

(* recordProviderEventStat, for a new event only. *)
CountEvent ==
  /\ NextStage("count", "suppress")
  /\ counted' = [e \in DOMAIN counted \cup {hook.event} |->
       (IF e \in DOMAIN counted THEN counted[e] ELSE 0) + (IF e = hook.event THEN 1 ELSE 0)]
  /\ UNCHANGED <<aside, status, events, suppressed, acked>>

(* applySuppressionForEvent *)
SuppressRecipient ==
  /\ NextStage("suppress", "status")
  /\ LET r == Recipient[hook.event.message] IN
       suppressed' = [suppressed EXCEPT ![r] = Suppression(@, hook.event.type)]
  /\ UNCHANGED <<aside, status, events, counted, acked>>

(* The suppression file, written only for a change, cannot be written,     *)
(* which leaves the store as it was: 500, and the provider sends the event *)
(* again.                                                                  *)
SuppressionFails ==
  /\ hook.stage = "suppress"
  /\ LET current == suppressed[Recipient[hook.event.message]] IN
       Suppression(current, hook.event.type) # current
  /\ hook' = NoHook
  /\ UNCHANGED <<aside, status, events, counted, suppressed, acked>>

(* appendProviderEventMessageStatus, unless the status in the snapshot     *)
(* stays; 202.                                                             *)
ApplyEvent ==
  /\ hook.stage = "status"
  /\ hook' = NoHook
  /\ LET next == NextStatus(hook.snapshot, hook.event.type) IN
       status' = [status EXCEPT ![hook.event.message] = IF next = hook.snapshot THEN @ ELSE next]
  /\ acked' = acked \cup {hook.event}
  /\ UNCHANGED <<aside, events, counted, suppressed>>

-----------------------------------------------------------------------------
(* Runtime.Close closes the queue. *)
CloseQueue ==
  /\ Queue!Shut
  /\ UNCHANGED <<carried, logVars, providerVars, outside, pc, task>>

(* The process dies and is started again: the queue, the workers and the   *)
(* handler are gone, the logs and the suppression file stay.               *)
Crash ==
  /\ ~crashed
  /\ crashed' = TRUE
  /\ claims' = {} /\ items' = {} /\ open' = TRUE
  /\ pc' = [w \in Workers |-> "idle"]
  /\ task' = [w \in Workers |-> NoTask]
  /\ hook' = NoHook
  /\ UNCHANGED <<clock, issued, handed, carried, logVars, providerVars, events, counted, suppressed, acked>>

(* Beyond MaxTime the clock goes on only while a retry waits for it. *)
Tick ==
  /\ clock < MaxTime \/ \E item \in items : item.readyAt > clock
  /\ clock' = clock + 1
  /\ UNCHANGED <<claims, items, issued, handed, open, carried, logVars, providerVars, outside, pc, task>>

WorkerStep(w) ==
  \/ TakeTask(w) \/ LogSending(w) \/ LogAttemptSending(w) \/ Unresolved(w)
  \/ CallAccepted(w) \/ CallAnswerLost(w) \/ CallRefused(w)
  \/ LogAttemptSent(w) \/ LogSent(w)
  \/ LogAttemptFailed(w) \/ LogFailed(w)
  \/ LogRetrying(w) \/ ReserveRetry(w) \/ CommitRetry(w)
  \/ RetryRefused(w) \/ RetryCommitRefused(w)

HookStep ==
  \/ RejectEvent \/ RecordEvent \/ CountEvent
  \/ SuppressRecipient \/ SuppressionFails \/ ApplyEvent

Next ==
  \/ \E m \in Messages : ReserveSlot(m) \/ Submit(m)
  \/ \E w \in Workers : WorkerStep(w)
  \/ \E e \in Event : BeginEvent(e)
  \/ HookStep
  \/ CloseQueue
  \/ Crash
  \/ Tick

Spec == Init /\ [][Next]_vars

(* Every worker runs on, provider calls end by their timeout, and the      *)
(* clock advances.                                                         *)
FairSpec ==
  /\ Spec
  /\ WF_vars(Tick)
  /\ \A w \in Workers : WF_vars(WorkerStep(w))

-----------------------------------------------------------------------------
Statuses == {"none", "queued", "sending", "sent", "retrying", "failed"} \cup EventType

(* The tasks, and the places of workers and of the webhook handler. *)
Tasks      == [message : Messages, attempt : Attempts]
Stages     == {"idle", "logSending", "logAttempt", "call", "logSent", "logMessageSent",
               "logPermanent", "logRetriable", "logFailed", "logRetrying", "retry", "commitRetry"}
HookStages == {"validate", "count", "suppress", "status"}

(* Where workers, the webhook handler and the records can be; a worker has *)
(* a task as long as it works, no task carries an attempt beyond the       *)
(* message's channels, and an event is recorded before it is counted or    *)
(* answered.                                                               *)
TypeOK ==
  /\ claims \subseteq Workers \cup Messages
  /\ carried \in Seq(Tasks)
  /\ \A i \in DOMAIN carried : carried[i].attempt <= Channels[carried[i].message]
  /\ issued = Len(carried) /\ \A item \in items : item.seq \in 1..issued
  /\ status \in [Messages -> Statuses]
  /\ attempt \in [Messages -> [Attempts -> {"none", "sending", "sent", "failed"}]]
  /\ pc \in [Workers -> Stages]
  /\ task \in [Workers -> Tasks \cup {NoTask}]
  /\ \A w \in Workers : pc[w] # "idle" =>
       task[w] \in Tasks /\ task[w].attempt <= Channels[task[w].message]
  /\ accepted \subseteq Messages \X Attempts /\ lost \subseteq accepted
  /\ hook \in {NoHook} \cup [stage : HookStages, event : Event, snapshot : Statuses \ {"none"}]
  /\ events \subseteq Event /\ acked \subseteq events /\ DOMAIN counted \subseteq events
  /\ suppressed \in [Recipients -> {"none", "hard_bounce", "complaint"}]
  /\ overtaken \subseteq Messages

(* A finished attempt is never tried again, and an attempt starts only     *)
(* after every earlier one has failed: the channels are used in order,     *)
(* once each, whichever workers take the message.                          *)
AttemptsInOrder ==
  [][\A m \in Messages, n \in Attempts : attempt'[m][n] # attempt[m][n] =>
       /\ attempt[m][n] \notin {"sent", "failed"}
       /\ \A k \in 1..(n - 1) : attempt[m][k] = "failed"]_vars

(* No provider accepts a message twice, unless the answer to the earlier   *)
(* acceptance never reached the worker.                                    *)
NoDuplicateSend ==
  \A m \in Messages, j, k \in Attempts :
    j < k /\ <<m, j>> \in accepted /\ <<m, k>> \in accepted => <<m, j>> \in lost

(* An event is counted at most once, however often it is delivered.        *)
EventCountedOnce ==
  \A e \in DOMAIN counted : counted[e] = 1

(* Once an event is answered 202 its recipient is suppressed for it, even  *)
(* if the delivery that recorded it failed or died half way, and the       *)
(* message shows it or a graver one, unless a worker's sent record         *)
(* overtook it.                                                            *)
AckedEventTakesEffect ==
  \A e \in acked :
    /\ e.type = "bounced" => suppressed[Recipient[e.message]] \in {"hard_bounce", "complaint"}
    /\ e.type = "complained" => suppressed[Recipient[e.message]] = "complaint"
    /\ e.message \in overtaken \/ Rank(status[e.message]) >= Rank(e.type)

(* A failed message stays failed: no retry, webhook or late record of      *)
(* another actor follows.  And a webhook, though it decides on a snapshot  *)
(* that workers may outdate, never takes a message back to an earlier or   *)
(* milder status.                                                          *)
OutcomesOnlyAdvance ==
  [][\A m \in Messages : status'[m] # status[m] =>
       /\ status[m] # "failed"
       /\ status'[m] \in EventType => Rank(status[m]) < Rank(status'[m])]_vars

(* What the design document says of the status a caller sees: once a       *)
(* delivery event has advanced it, it does not go back.                    *)
StatusNeverRegresses ==
  [][\A m \in Messages : status[m] \in EventType => status'[m] \in EventType]_vars

(* An accepted message is sent or fails, unless the process dies or the    *)
(* queue is closed.                                                        *)
EveryMessageSettles ==
  \A m \in Messages : status[m] = "queued" ~>
    status[m] \in {"sent", "failed"} \cup EventType \/ crashed \/ ~open
=============================================================================
