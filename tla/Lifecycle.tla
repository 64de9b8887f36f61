------------------------------ MODULE Lifecycle ------------------------------
(***************************************************************************)
(* The life of the serve process (cmd/muxmail/main.go, runServe): requests *)
(* are accepted and delivered until a signal arrives or the HTTP server    *)
(* fails; then the server is drained, the workers are waited for and the   *)
(* queue and the logs are closed, in an order that differs between the two *)
(* ways out.  Handlers and workers run on meanwhile and only notice when   *)
(* they look at the context, the queue or the log.                         *)
(*                                                                         *)
(* Time is left out: a retry becomes ready, a call ends and the shutdown   *)
(* timeout strikes at some point.  Queue limits and provider channels are  *)
(* the business of SendPipeline and Delivery.                              *)
(***************************************************************************)
EXTENDS Integers, FiniteSets

CONSTANTS
  Messages,    \* the messages requested; each one's handler bears its name
  Workers,
  MaxAttempts

ASSUME MaxAttemptsAssumption == MaxAttempts \in Nat \ {0}

VARIABLES
  main,        \* where runServe is
  aborted,     \* runtime.Serve returned an error
  cancelled,   \* the context of the server and the workers is done
  queueOpen,   \* the queue is not closed
  logOpen,     \* the message log is not closed
  handler,     \* where each message's handler is
  ready,       \* the tasks in the queue that a worker can take
  delayed,     \* the tasks waiting for their retry delay
  pc,          \* where each worker is
  task,        \* the task of each worker
  record,      \* the latest record of each message
  missed,      \* history: the messages a record of which met a closed log
  sent,        \* history: the messages a worker knows the provider accepted
  interrupted  \* history: the messages whose provider call the signal cut off

mainVars  == <<main, aborted, cancelled, queueOpen, logOpen>>
taskVars  == <<ready, delayed>>
logVars   == <<record, missed>>
workVars  == <<pc, task>>
vars == <<mainVars, handler, taskVars, workVars, logVars, sent, interrupted>>

NoTask == [message |-> "none", attempt |-> 0]

Init ==
  /\ main = "serving" /\ aborted = FALSE /\ cancelled = FALSE
  /\ queueOpen = TRUE /\ logOpen = TRUE
  /\ handler = [m \in Messages |-> "none"]
  /\ ready = {} /\ delayed = {}
  /\ pc = [w \in Workers |-> "dequeue"]
  /\ task = [w \in Workers |-> NoTask]
  /\ record = [m \in Messages |-> "none"]
  /\ missed = {} /\ sent = {} /\ interrupted = {}

Running == main # "exited"

(* A record is appended, or meets the closed log and is dropped: workers   *)
(* report the error and go on.                                             *)
LogRecord(m, s) ==
  /\ record' = IF logOpen THEN [record EXCEPT ![m] = s] ELSE record
  /\ missed' = IF logOpen THEN missed ELSE missed \cup {m}

-----------------------------------------------------------------------------
(* The handlers of POST /v1/mail/send. *)

HandlerGoto(m, from, to) ==
  /\ Running
  /\ handler[m] = from
  /\ handler' = [handler EXCEPT ![m] = to]

(* The listener is open until the server is shut down. *)
BeginRequest(m) ==
  /\ main = "serving"
  /\ HandlerGoto(m, "none", "log")
  /\ UNCHANGED <<mainVars, taskVars, workVars, logVars, sent, interrupted>>

(* The queued record; without it the request is refused. *)
LogQueued(m) ==
  /\ HandlerGoto(m, "log", IF logOpen THEN "commit" ELSE "refused")
  /\ LogRecord(m, "queued")
  /\ UNCHANGED <<mainVars, taskVars, workVars, sent, interrupted>>

Commit(m) ==
  /\ queueOpen
  /\ HandlerGoto(m, "commit", "answered")
  /\ ready' = ready \cup {[message |-> m, attempt |-> 1]}
  /\ UNCHANGED <<mainVars, delayed, workVars, logVars, sent, interrupted>>

(* The queue was closed under the handler: a failed record, and 500. *)
CommitRefused(m) ==
  /\ ~queueOpen
  /\ HandlerGoto(m, "commit", "refused")
  /\ LogRecord(m, "failed")
  /\ UNCHANGED <<mainVars, taskVars, workVars, sent, interrupted>>

HandlersDone == \A m \in Messages : handler[m] \in {"none", "answered", "refused"}

-----------------------------------------------------------------------------
(* The workers. *)

Goto(w, from, to) == Running /\ pc[w] = from /\ pc' = [pc EXCEPT ![w] = to]

(* Dequeue looks for a ready task before it looks at the context. *)
Take(w) ==
  /\ queueOpen
  /\ Goto(w, "dequeue", "logSending")
  /\ \E t \in ready : task' = [task EXCEPT ![w] = t] /\ ready' = ready \ {t}
  /\ UNCHANGED <<mainVars, handler, delayed, logVars, sent, interrupted>>

(* Dequeue finds nothing ready, or the queue closed. *)
NothingToTake(w) ==
  /\ \/ queueOpen /\ ready = {} /\ Goto(w, "dequeue", "waiting")
     \/ ~queueOpen /\ Goto(w, "dequeue", "stopped")
  /\ UNCHANGED <<mainVars, handler, taskVars, task, logVars, sent, interrupted>>

(* A task is committed or becomes ready, or the queue is closed. *)
Wake(w) ==
  /\ ready # {} \/ ~queueOpen
  /\ Goto(w, "waiting", "dequeue")
  /\ UNCHANGED <<mainVars, handler, taskVars, task, logVars, sent, interrupted>>

(* Seeded fault: a worker waits for tasks whatever becomes of the context. *)
SeesCancelNever == FALSE

(* Dequeue's select on ctx.Done(). *)
SeesCancel == cancelled

StopWaiting(w) ==
  /\ SeesCancel
  /\ Goto(w, "waiting", "stopped")
  /\ UNCHANGED <<mainVars, handler, taskVars, task, logVars, sent, interrupted>>

LogSending(w) ==
  /\ Goto(w, "logSending", "call")
  /\ LogRecord(task[w].message, "sending")
  /\ UNCHANGED <<mainVars, handler, taskVars, task, sent, interrupted>>

(* The provider call starts; under a context that is done it fails at once *)
(* with a temporary failure.                                               *)
StartCall(w) ==
  /\ Goto(w, "call", IF cancelled THEN "retriable" ELSE "calling")
  /\ UNCHANGED <<mainVars, handler, taskVars, task, logVars, sent, interrupted>>

(* The call ends by itself or by its timeout. *)
CallEnds(w) ==
  /\ \/ Goto(w, "calling", "accepted") /\ sent' = sent \cup {task[w].message}
     \/ Goto(w, "calling", "permanent") /\ UNCHANGED sent
     \/ Goto(w, "calling", "retriable") /\ UNCHANGED sent
  /\ UNCHANGED <<mainVars, handler, taskVars, task, logVars, interrupted>>

(* The call is given the workers' context, which the signal ends. *)
CallCutOff(w) ==
  /\ cancelled
  /\ Goto(w, "calling", "retriable")
  /\ interrupted' = interrupted \cup {task[w].message}
  /\ UNCHANGED <<mainVars, handler, taskVars, task, logVars, sent>>

HasNextChannel(w) == task[w].attempt < MaxAttempts

(* Seeded fault: an accepted message keeps its sending record. *)
OutcomeUnlogged == "sending"

OutcomeAccepted == "sent"

(* The outcome is logged and the worker goes back to Dequeue. *)
LogOutcome(w) ==
  /\ \/ Goto(w, "accepted", "dequeue")  /\ LogRecord(task[w].message, OutcomeAccepted)
     \/ Goto(w, "permanent", "dequeue") /\ LogRecord(task[w].message, "failed")
     \/ /\ ~HasNextChannel(w)
        /\ Goto(w, "retriable", "dequeue")
        /\ LogRecord(task[w].message, "failed")
  /\ task' = [task EXCEPT ![w] = NoTask]
  /\ UNCHANGED <<mainVars, handler, taskVars, sent, interrupted>>

LogRetrying(w) ==
  /\ HasNextChannel(w)
  /\ Goto(w, "retriable", "retry")
  /\ LogRecord(task[w].message, "retrying")
  /\ UNCHANGED <<mainVars, handler, taskVars, task, sent, interrupted>>

(* EnqueueDelayed, which a closed queue refuses; a retry without a delay   *)
(* is ready at once.                                                       *)
Retry(w) ==
  /\ queueOpen
  /\ Goto(w, "retry", "dequeue")
  /\ LET next == [task[w] EXCEPT !.attempt = @ + 1] IN
       \/ delayed' = delayed \cup {next} /\ UNCHANGED ready
       \/ ready' = ready \cup {next} /\ UNCHANGED delayed
  /\ task' = [task EXCEPT ![w] = NoTask]
  /\ UNCHANGED <<mainVars, handler, logVars, sent, interrupted>>

RetryRefused(w) ==
  /\ ~queueOpen
  /\ Goto(w, "retry", "dequeue")
  /\ LogRecord(task[w].message, "failed")
  /\ task' = [task EXCEPT ![w] = NoTask]
  /\ UNCHANGED <<mainVars, handler, taskVars, sent, interrupted>>

(* A retry's delay is over. *)
BecomeReady ==
  /\ Running
  /\ \E t \in delayed : delayed' = delayed \ {t} /\ ready' = ready \cup {t}
  /\ UNCHANGED <<mainVars, handler, workVars, logVars, sent, interrupted>>

-----------------------------------------------------------------------------
(* runServe, Runtime.Serve and Runtime.Close. *)

others == <<handler, workVars, logVars, sent, interrupted>>

MainGoto(from, to) == main = from /\ main' = to

(* SIGINT or SIGTERM ends the context of the server and of the workers. *)
Signal ==
  /\ Running
  /\ ~cancelled
  /\ cancelled' = TRUE
  /\ UNCHANGED <<others, main, aborted, queueOpen, logOpen, taskVars>>

(* The listener is closed and requests in flight are waited for. *)
StartDrain ==
  /\ cancelled
  /\ MainGoto("serving", "draining")
  /\ UNCHANGED <<others, aborted, cancelled, queueOpen, logOpen, taskVars>>

DrainOver == HandlersDone

EndDrain ==
  /\ DrainOver
  /\ MainGoto("draining", "joining")
  /\ UNCHANGED <<others, aborted, cancelled, queueOpen, logOpen, taskVars>>

(* Serve returns an error: runServe cancels the workers and closes         *)
(* everything before it waits for them.                                    *)
Abort(from) ==
  /\ MainGoto(from, "closeQueue")
  /\ aborted' = TRUE
  /\ cancelled' = TRUE
  /\ UNCHANGED <<others, queueOpen, logOpen, taskVars>>

(* The HTTP server stops by itself, with requests in flight or not. *)
ServerFails == Abort("serving")

(* Requests are still in flight when the shutdown timeout strikes. *)
ShutdownTimeout == ~HandlersDone /\ Abort("draining")

(* Seeded fault: the logs are closed without waiting for the workers. *)
WorkersStoppedEarly == TRUE

(* <-workerDone *)
WorkersStopped == \A w \in Workers : pc[w] = "stopped"

JoinWorkers ==
  /\ WorkersStopped
  /\ MainGoto("joining", IF aborted THEN "exited" ELSE "closeQueue")
  /\ UNCHANGED <<others, aborted, cancelled, queueOpen, logOpen, taskVars>>

CloseQueue ==
  /\ MainGoto("closeQueue", "closeLog")
  /\ queueOpen' = FALSE
  /\ ready' = {} /\ delayed' = {}
  /\ UNCHANGED <<others, aborted, cancelled, logOpen>>

CloseLog ==
  /\ MainGoto("closeLog", "closeStats")
  /\ logOpen' = FALSE
  /\ UNCHANGED <<others, aborted, cancelled, queueOpen, taskVars>>

CloseStats ==
  /\ MainGoto("closeStats", IF aborted THEN "joining" ELSE "exited")
  /\ UNCHANGED <<others, aborted, cancelled, queueOpen, logOpen, taskVars>>

MainStep ==
  \/ StartDrain \/ EndDrain \/ ShutdownTimeout
  \/ JoinWorkers \/ CloseQueue \/ CloseLog \/ CloseStats

HandlerStep(m) == LogQueued(m) \/ Commit(m) \/ CommitRefused(m)

WorkerStep(w) ==
  \/ Take(w) \/ NothingToTake(w) \/ Wake(w) \/ StopWaiting(w)
  \/ LogSending(w) \/ StartCall(w) \/ CallEnds(w) \/ CallCutOff(w)
  \/ LogOutcome(w) \/ LogRetrying(w) \/ Retry(w) \/ RetryRefused(w)

Next ==
  \/ \E m \in Messages : BeginRequest(m) \/ HandlerStep(m)
  \/ \E w \in Workers : WorkerStep(w)
  \/ BecomeReady
  \/ Signal
  \/ ServerFails
  \/ MainStep

Spec == Init /\ [][Next]_vars

(* runServe and the workers run on, and every provider call ends.  The     *)
(* shutdown timeout bounds the wait for handlers, so none is asked of them.*)
FairSpec ==
  /\ Spec
  /\ WF_vars(MainStep)
  /\ \A w \in Workers : WF_vars(WorkerStep(w))

-----------------------------------------------------------------------------
(* The tasks, where a worker has one, and what a record says. *)
Tasks     == [message : Messages, attempt : 1..MaxAttempts]
HasTask   == {"logSending", "call", "calling", "accepted", "permanent", "retriable", "retry"}
Recorded  == {"none", "queued", "sending", "sent", "retrying", "failed"}

(* Where the main goroutine, handlers, workers and records can be; in      *)
(* particular a worker that works has a task, and one that retries it has  *)
(* an attempt left.                                                        *)
TypeOK ==
  /\ main \in {"serving", "draining", "joining", "closeQueue", "closeLog", "closeStats", "exited"}
  /\ aborted \in BOOLEAN /\ cancelled \in BOOLEAN
  /\ queueOpen \in BOOLEAN /\ logOpen \in BOOLEAN
  /\ handler \in [Messages -> {"none", "log", "commit", "answered", "refused"}]
  /\ ready \subseteq Tasks /\ delayed \subseteq Tasks
  /\ pc \in [Workers -> {"dequeue", "waiting", "stopped"} \cup HasTask]
  /\ task \in [Workers -> Tasks \cup {NoTask}]
  /\ \A w \in Workers : pc[w] \in HasTask => task[w] \in Tasks
  /\ \A w \in Workers : pc[w] = "retry" => HasNextChannel(w)
  /\ record \in [Messages -> Recorded]
  /\ missed \subseteq Messages /\ sent \subseteq Messages /\ interrupted \subseteq Messages

(* Unless Serve failed, the logs outlive every handler and worker that     *)
(* writes to them.                                                         *)
LogOutlivesWork == ~aborted => missed = {}

(* Such an exit leaves every attempt with its outcome on record: no        *)
(* message still sending, none sent without its sent record, none accepted *)
(* from a caller and unknown, none refused that went out.                  *)
GracefulExitIsClean ==
  main = "exited" /\ ~aborted =>
    \A m \in Messages :
      /\ record[m] # "sending"
      /\ m \in sent => record[m] = "sent" /\ handler[m] = "answered"
      /\ handler[m] = "answered" => record[m] # "none"

(* Once the signal is there the process ends, whatever handlers, workers,  *)
(* retries and providers are doing.                                        *)
ShutdownCompletes == cancelled ~> main = "exited"

(* What the design document says of shutdown: a provider call that has     *)
(* started is waited for, up to its own timeout.                           *)
StartedCallsFinish == interrupted = {}

(* What it says of the tasks not yet started: they are discarded, so none  *)
(* starts once the signal is there.                                        *)
UnstartedTasksDiscarded ==
  [][\A w \in Workers : pc[w] = "dequeue" /\ cancelled => pc'[w] # "logSending"]_vars
=============================================================================
