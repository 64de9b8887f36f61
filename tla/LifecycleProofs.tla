-------------------------- MODULE LifecycleProofs --------------------------
(***************************************************************************)
(* Proofs about Lifecycle, for any messages, workers and number of         *)
(* attempts: unless Serve failed, nothing is written to a closed log, and  *)
(* the exit leaves the outcome of every attempt on record.                 *)
(***************************************************************************)
EXTENDS Lifecycle, TLAPS

(* The order of the shutdown: while the server is not joined the handlers  *)
(* have a queue and a log, and while a worker runs it has both.            *)
CloseOrder ==
  ~aborted =>
    /\ missed = {}
    /\ main \in {"serving", "draining", "joining", "closeQueue"} => queueOpen
    /\ main \in {"serving", "draining", "joining", "closeQueue", "closeLog"} => logOpen
    /\ main \notin {"serving", "draining"} => HandlersDone
    /\ main \in {"closeQueue", "closeLog", "closeStats", "exited"} => WorkersStopped

(* The tasks in the queue, ready or not. *)
Queued == ready \cup delayed

(* A message is in one place at most: in one task of the queue, or with    *)
(* one worker, and in neither until its handler has committed it.          *)
OneTask ==
  /\ ready \cap delayed = {}
  /\ \A t, u \in Queued : t.message = u.message => t = u
  /\ \A w \in Workers : pc[w] \in HasTask =>
       /\ \A t \in Queued : t.message # task[w].message
       /\ \A v \in Workers : pc[v] \in HasTask /\ task[v].message = task[w].message => v = w
       /\ handler[task[w].message] = "answered"
  /\ \A t \in Queued : handler[t.message] = "answered"

(* Unless Serve failed: who accepted a message has its outcome logged or   *)
(* is about to log it, and so has whoever logged that it is sent out.      *)
OutcomesLogged ==
  ~aborted =>
    \A m \in Messages :
      /\ handler[m] # "refused"
      /\ handler[m] \in {"commit", "answered"} <=> record[m] # "none"
      /\ record[m] = "sending" => \E w \in Workers :
           pc[w] \in HasTask \ {"logSending", "retry"} /\ task[w].message = m
      /\ m \in sent =>
           /\ handler[m] = "answered"
           /\ \/ \E w \in Workers : pc[w] = "accepted" /\ task[w].message = m
              \/ /\ record[m] = "sent"
                 /\ \A t \in Queued : t.message # m
                 /\ \A w \in Workers : pc[w] \in HasTask => task[w].message # m

(* The inductive invariant. *)
IInv == TypeOK /\ CloseOrder /\ OneTask /\ OutcomesLogged

(* The bundles of variables are their members. *)
USE DEF mainVars, taskVars, logVars, workVars, others

(* Nothing is accepted, queued or logged at first. *)
LEMMA InitInv == Init => IInv
  BY DEF Init, IInv, TypeOK, CloseOrder, OneTask, OutcomesLogged, Queued, HasTask,
     Recorded

(* A new request touches its handler only.                                 *)
LEMMA BeginRequestInv ==
  ASSUME IInv, NEW m \in Messages, BeginRequest(m)
  PROVE  IInv'
<1> USE DEF IInv
<1>1. TypeOK'
  BY DEF TypeOK, HasNextChannel, BeginRequest, HandlerGoto
<1>2. CloseOrder'
  BY DEF CloseOrder, BeginRequest
<1>3. OneTask'
  BY DEF OneTask, Queued, BeginRequest, HandlerGoto
<1>4. OutcomesLogged'
  BY DEF OutcomesLogged, Queued, BeginRequest, HandlerGoto
<1>5. QED
  BY <1>1, <1>2, <1>3, <1>4

(* The queued record is written to a log that is open, unless Serve        *)
(* failed.                                                                 *)
LEMMA LogQueuedInv ==
  ASSUME IInv, NEW m \in Messages, LogQueued(m)
  PROVE  IInv'
<1> USE DEF IInv
<1>1. TypeOK'
  BY DEF TypeOK, Recorded, HasNextChannel, LogQueued, HandlerGoto, LogRecord
<1>2. CloseOrder'
  BY DEF CloseOrder, HandlersDone, LogQueued, HandlerGoto, LogRecord
<1>3. OneTask'
  BY DEF OneTask, Queued, LogQueued, HandlerGoto
<1>4. OutcomesLogged'
  BY DEF TypeOK, CloseOrder, HandlersDone, OutcomesLogged, Queued, LogQueued,
     HandlerGoto, LogRecord
<1>5. QED
  BY <1>1, <1>2, <1>3, <1>4

(* A handler that commits has logged its message, which was nowhere yet.   *)
LEMMA CommitInv ==
  ASSUME IInv, NEW m \in Messages, Commit(m)
  PROVE  IInv'
<1> USE DEF IInv
<1>1. TypeOK'
  BY MaxAttemptsAssumption DEF TypeOK, Tasks, HasNextChannel, Commit, HandlerGoto
<1>2. CloseOrder'
  BY DEF CloseOrder, HandlersDone, Commit, HandlerGoto
<1>3. OneTask'
  BY DEF TypeOK, OneTask, Queued, Commit, HandlerGoto
<1>4. OutcomesLogged'
  BY DEF OutcomesLogged, Queued, Commit, HandlerGoto
<1>5. QED
  BY <1>1, <1>2, <1>3, <1>4

(* A closed queue meets a handler only when Serve failed.                  *)
LEMMA CommitRefusedInv ==
  ASSUME IInv, NEW m \in Messages, CommitRefused(m)
  PROVE  IInv'
<1> USE DEF IInv
<1>1. TypeOK'
  BY DEF TypeOK, Recorded, HasNextChannel, CommitRefused, HandlerGoto, LogRecord
<1>2. CloseOrder'
  BY DEF CloseOrder, HandlersDone, CommitRefused, HandlerGoto
<1>3. OneTask'
  BY DEF OneTask, Queued, CommitRefused, HandlerGoto
<1>4. OutcomesLogged'
  BY DEF CloseOrder, HandlersDone, OutcomesLogged, CommitRefused, HandlerGoto
<1>5. QED
  BY <1>1, <1>2, <1>3, <1>4

(* The message leaves the queue as it reaches the worker.                  *)
LEMMA TakeInv ==
  ASSUME IInv, NEW w \in Workers, Take(w)
  PROVE  IInv'
<1> USE DEF IInv
<1>1. TypeOK'
  BY DEF TypeOK, HasTask, HasNextChannel, Take, Goto
<1>2. CloseOrder'
  BY DEF CloseOrder, HandlersDone, WorkersStopped, Take, Goto
<1>3. OneTask'
  <2>1. PICK t \in ready : task' = [task EXCEPT ![w] = t] /\ ready' = ready \ {t}
    BY DEF Take
  <2>2. /\ pc'[w] = "logSending" /\ task'[w] = t
        /\ \A v \in Workers : v # w => pc'[v] = pc[v] /\ task'[v] = task[v]
    BY <2>1 DEF Take, Goto, TypeOK
  <2>3. /\ handler' = handler /\ Queued' \subseteq Queued /\ t \in Queued
        /\ t \notin delayed
    BY <2>1 DEF Take, OneTask, Queued
  <2>4. QED
    BY <2>1, <2>2, <2>3 DEF OneTask, Queued, Take
<1>4. OutcomesLogged'
  BY DEF TypeOK, OutcomesLogged, Queued, HasTask, Take, Goto
<1>5. QED
  BY <1>1, <1>2, <1>3, <1>4

(* A worker without a task waits or stops.                                 *)
LEMMA NothingToTakeInv ==
  ASSUME IInv, NEW w \in Workers, NothingToTake(w)
  PROVE  IInv'
<1> USE DEF IInv
<1>1. TypeOK'
  BY DEF TypeOK, HasTask, HasNextChannel, NothingToTake, Goto
<1>2. CloseOrder'
  BY DEF CloseOrder, HandlersDone, WorkersStopped, NothingToTake, Goto
<1>3. OneTask'
  BY DEF TypeOK, OneTask, Queued, HasTask, NothingToTake, Goto
<1>4. OutcomesLogged'
  BY DEF TypeOK, OutcomesLogged, Queued, HasTask, NothingToTake, Goto
<1>5. QED
  BY <1>1, <1>2, <1>3, <1>4

(* A worker that waits has no task.                                        *)
LEMMA WakeInv ==
  ASSUME IInv, NEW w \in Workers, Wake(w)
  PROVE  IInv'
<1> USE DEF IInv
<1>1. TypeOK'
  BY DEF TypeOK, HasTask, HasNextChannel, Wake, Goto
<1>2. CloseOrder'
  BY DEF CloseOrder, HandlersDone, WorkersStopped, Wake, Goto
<1>3. OneTask'
  BY DEF OneTask, Queued, HasTask, Wake, Goto
<1>4. OutcomesLogged'
  BY DEF OutcomesLogged, Queued, HasTask, Wake, Goto
<1>5. QED
  BY <1>1, <1>2, <1>3, <1>4

(* A worker that stops at the signal has no task.                          *)
LEMMA StopWaitingInv ==
  ASSUME IInv, NEW w \in Workers, StopWaiting(w)
  PROVE  IInv'
<1> USE DEF IInv
<1>1. TypeOK'
  BY DEF TypeOK, HasTask, HasNextChannel, StopWaiting, Goto
<1>2. CloseOrder'
  BY DEF CloseOrder, HandlersDone, WorkersStopped, StopWaiting, Goto
<1>3. OneTask'
  BY DEF OneTask, Queued, HasTask, StopWaiting, Goto
<1>4. OutcomesLogged'
  BY DEF OutcomesLogged, Queued, HasTask, StopWaiting, Goto
<1>5. QED
  BY <1>1, <1>2, <1>3, <1>4

(* The sending record is written by a worker that is to log the outcome.   *)
LEMMA LogSendingInv ==
  ASSUME IInv, NEW w \in Workers, LogSending(w)
  PROVE  IInv'
<1> USE DEF IInv
<1>1. TypeOK'
  BY DEF TypeOK, Tasks, HasTask, Recorded, HasNextChannel, LogSending, Goto, LogRecord
<1>2. CloseOrder'
  BY DEF TypeOK, CloseOrder, HandlersDone, WorkersStopped, LogSending, Goto, LogRecord
<1>3. OneTask'
  BY DEF TypeOK, OneTask, Queued, LogSending, Goto
<1>4. OutcomesLogged'
  BY DEF TypeOK, OneTask, OutcomesLogged, Queued, HasTask, LogSending, Goto, LogRecord
<1>5. QED
  BY <1>1, <1>2, <1>3, <1>4

(* A worker that starts its call, or fails to, keeps its task.             *)
LEMMA StartCallInv ==
  ASSUME IInv, NEW w \in Workers, StartCall(w)
  PROVE  IInv'
<1> USE DEF IInv
<1>1. TypeOK'
  BY DEF TypeOK, HasTask, HasNextChannel, StartCall, Goto
<1>2. CloseOrder'
  BY DEF CloseOrder, HandlersDone, WorkersStopped, StartCall, Goto
<1>3. OneTask'
  BY DEF TypeOK, OneTask, Queued, StartCall, Goto
<1>4. OutcomesLogged'
  BY DEF OutcomesLogged, Queued, HasTask, StartCall, Goto
<1>5. QED
  BY <1>1, <1>2, <1>3, <1>4

(* A message accepted is with the worker that is to log it sent.           *)
LEMMA CallEndsInv ==
  ASSUME IInv, NEW w \in Workers, CallEnds(w)
  PROVE  IInv'
<1> USE DEF IInv
<1>1. TypeOK'
  BY DEF TypeOK, Tasks, HasTask, HasNextChannel, CallEnds, Goto
<1>2. CloseOrder'
  BY DEF CloseOrder, HandlersDone, WorkersStopped, CallEnds, Goto
<1>3. OneTask'
  BY DEF TypeOK, OneTask, Queued, CallEnds, Goto
<1>4. OutcomesLogged'
  BY DEF TypeOK, OneTask, OutcomesLogged, Queued, HasTask, CallEnds, Goto
<1>5. QED
  BY <1>1, <1>2, <1>3, <1>4

(* A call cut off leaves its worker a failure to log.                      *)
LEMMA CallCutOffInv ==
  ASSUME IInv, NEW w \in Workers, CallCutOff(w)
  PROVE  IInv'
<1> USE DEF IInv
<1>1. TypeOK'
  BY DEF TypeOK, Tasks, HasTask, HasNextChannel, CallCutOff, Goto
<1>2. CloseOrder'
  BY DEF CloseOrder, HandlersDone, WorkersStopped, CallCutOff, Goto
<1>3. OneTask'
  BY DEF TypeOK, OneTask, Queued, CallCutOff, Goto
<1>4. OutcomesLogged'
  BY DEF OutcomesLogged, Queued, HasTask, CallCutOff, Goto
<1>5. QED
  BY <1>1, <1>2, <1>3, <1>4

(* The outcome replaces the sending record as the task ends.               *)
LEMMA LogOutcomeInv ==
  ASSUME IInv, NEW w \in Workers, LogOutcome(w)
  PROVE  IInv'
<1> USE DEF IInv
<1>1. TypeOK'
  BY DEF TypeOK, Tasks, HasTask, Recorded, HasNextChannel, LogOutcome, Goto,
     LogRecord, OutcomeAccepted
<1>2. CloseOrder'
  BY DEF TypeOK, CloseOrder, HandlersDone, WorkersStopped, LogOutcome, Goto, LogRecord
<1>3. OneTask'
  BY DEF TypeOK, OneTask, Queued, HasTask, LogOutcome, Goto
<1>4. OutcomesLogged'
  BY DEF TypeOK, CloseOrder, WorkersStopped, OneTask, OutcomesLogged, Queued, HasTask,
     LogOutcome, Goto, LogRecord, OutcomeAccepted
<1>5. QED
  BY <1>1, <1>2, <1>3, <1>4

(* Only a worker with an attempt left goes on to retry.                    *)
LEMMA LogRetryingInv ==
  ASSUME IInv, NEW w \in Workers, LogRetrying(w)
  PROVE  IInv'
<1> USE DEF IInv
<1>1. TypeOK'
  BY DEF TypeOK, Tasks, HasTask, Recorded, HasNextChannel, LogRetrying, Goto, LogRecord
<1>2. CloseOrder'
  BY DEF TypeOK, CloseOrder, HandlersDone, WorkersStopped, LogRetrying, Goto, LogRecord
<1>3. OneTask'
  BY DEF TypeOK, OneTask, Queued, LogRetrying, Goto
<1>4. OutcomesLogged'
  BY DEF TypeOK, CloseOrder, WorkersStopped, OneTask, OutcomesLogged, Queued,
     LogRetrying, Goto, LogRecord
<1>5. QED
  BY <1>1, <1>2, <1>3, <1>4

(* The message goes back to the queue as it leaves the worker.             *)
LEMMA RetryInv ==
  ASSUME IInv, NEW w \in Workers, Retry(w)
  PROVE  IInv'
<1> USE DEF IInv
<1>1. TypeOK'
  BY MaxAttemptsAssumption DEF TypeOK, Tasks, HasTask, HasNextChannel, Retry, Goto
<1>2. CloseOrder'
  BY DEF CloseOrder, HandlersDone, WorkersStopped, Retry, Goto
<1>3. OneTask'
  BY DEF TypeOK, OneTask, Tasks, Queued, HasTask, Retry, Goto
<1>4. OutcomesLogged'
  BY DEF TypeOK, OutcomesLogged, Tasks, Queued, HasTask, Retry, Goto
<1>5. QED
  BY <1>1, <1>2, <1>3, <1>4

(* A closed queue meets a worker only when Serve failed.                   *)
LEMMA RetryRefusedInv ==
  ASSUME IInv, NEW w \in Workers, RetryRefused(w)
  PROVE  IInv'
<1> USE DEF IInv
<1>1. TypeOK'
  BY DEF TypeOK, Tasks, HasTask, Recorded, HasNextChannel, RetryRefused, Goto, LogRecord
<1>2. CloseOrder'
  BY DEF TypeOK, CloseOrder, WorkersStopped, RetryRefused, Goto
<1>3. OneTask'
  BY DEF TypeOK, OneTask, Queued, HasTask, RetryRefused, Goto
<1>4. OutcomesLogged'
  BY DEF TypeOK, CloseOrder, WorkersStopped, OutcomesLogged, RetryRefused, Goto
<1>5. QED
  BY <1>1, <1>2, <1>3, <1>4

(* A task that becomes ready is in the queue as before.                    *)
LEMMA BecomeReadyInv ==
  ASSUME IInv, BecomeReady
  PROVE  IInv'
<1> USE DEF IInv
<1>1. TypeOK'
  BY DEF TypeOK, HasNextChannel, BecomeReady
<1>2. CloseOrder'
  BY DEF CloseOrder, HandlersDone, WorkersStopped, BecomeReady
<1>3. OneTask'
  BY DEF OneTask, Queued, BecomeReady
<1>4. OutcomesLogged'
  BY DEF OutcomesLogged, Queued, BecomeReady
<1>5. QED
  BY <1>1, <1>2, <1>3, <1>4

(* The signal changes no work.                                             *)
LEMMA SignalInv ==
  ASSUME IInv, Signal
  PROVE  IInv'
<1> USE DEF IInv
<1>1. TypeOK'
  BY DEF TypeOK, HasNextChannel, Signal
<1>2. CloseOrder'
  BY DEF CloseOrder, HandlersDone, WorkersStopped, Signal
<1>3. OneTask'
  BY DEF OneTask, Queued, Signal
<1>4. OutcomesLogged'
  BY DEF OutcomesLogged, Queued, Signal
<1>5. QED
  BY <1>1, <1>2, <1>3, <1>4

(* The queue and the log stay open while requests are drained.             *)
LEMMA StartDrainInv ==
  ASSUME IInv, StartDrain
  PROVE  IInv'
<1> USE DEF IInv
<1>1. TypeOK'
  BY DEF TypeOK, HasNextChannel, StartDrain, MainGoto
<1>2. CloseOrder'
  BY DEF CloseOrder, StartDrain, MainGoto
<1>3. OneTask'
  BY DEF OneTask, Queued, StartDrain
<1>4. OutcomesLogged'
  BY DEF OutcomesLogged, Queued, StartDrain
<1>5. QED
  BY <1>1, <1>2, <1>3, <1>4

(* The drain ends only when every handler is done.                         *)
LEMMA EndDrainInv ==
  ASSUME IInv, EndDrain
  PROVE  IInv'
<1> USE DEF IInv
<1>1. TypeOK'
  BY DEF TypeOK, HasNextChannel, EndDrain, MainGoto, DrainOver
<1>2. CloseOrder'
  BY DEF CloseOrder, HandlersDone, EndDrain, MainGoto, DrainOver
<1>3. OneTask'
  BY DEF OneTask, Queued, EndDrain, DrainOver
<1>4. OutcomesLogged'
  BY DEF OutcomesLogged, Queued, EndDrain, DrainOver
<1>5. QED
  BY <1>1, <1>2, <1>3, <1>4

(* Of a failed Serve the invariant promises little.                        *)
LEMMA ServerFailsInv ==
  ASSUME IInv, ServerFails
  PROVE  IInv'
<1> USE DEF IInv
<1>1. TypeOK'
  BY DEF TypeOK, HasNextChannel, ServerFails, Abort, MainGoto
<1>2. CloseOrder'
  BY DEF CloseOrder, ServerFails, Abort
<1>3. OneTask'
  BY DEF OneTask, Queued, ServerFails, Abort
<1>4. OutcomesLogged'
  BY DEF OutcomesLogged, ServerFails, Abort
<1>5. QED
  BY <1>1, <1>2, <1>3, <1>4

(* Of a failed Serve the invariant promises little.                        *)
LEMMA ShutdownTimeoutInv ==
  ASSUME IInv, ShutdownTimeout
  PROVE  IInv'
<1> USE DEF IInv
<1>1. TypeOK'
  BY DEF TypeOK, HasNextChannel, ShutdownTimeout, Abort, MainGoto
<1>2. CloseOrder'
  BY DEF CloseOrder, ShutdownTimeout, Abort
<1>3. OneTask'
  BY DEF OneTask, Queued, ShutdownTimeout, Abort
<1>4. OutcomesLogged'
  BY DEF OutcomesLogged, ShutdownTimeout, Abort
<1>5. QED
  BY <1>1, <1>2, <1>3, <1>4

(* The queue is closed only after every worker has stopped.                *)
LEMMA JoinWorkersInv ==
  ASSUME IInv, JoinWorkers
  PROVE  IInv'
<1> USE DEF IInv
<1>1. TypeOK'
  BY DEF TypeOK, HasNextChannel, JoinWorkers, MainGoto
<1>2. CloseOrder'
  BY DEF CloseOrder, HandlersDone, WorkersStopped, JoinWorkers, MainGoto
<1>3. OneTask'
  BY DEF OneTask, Queued, JoinWorkers
<1>4. OutcomesLogged'
  BY DEF OutcomesLogged, Queued, JoinWorkers
<1>5. QED
  BY <1>1, <1>2, <1>3, <1>4

(* Nobody uses the queue that is closed, unless Serve failed.              *)
LEMMA CloseQueueInv ==
  ASSUME IInv, CloseQueue
  PROVE  IInv'
<1> USE DEF IInv
<1>1. TypeOK'
  BY DEF TypeOK, HasNextChannel, CloseQueue, MainGoto
<1>2. CloseOrder'
  BY DEF CloseOrder, HandlersDone, WorkersStopped, CloseQueue, MainGoto
<1>3. OneTask'
  BY DEF OneTask, Queued, CloseQueue
<1>4. OutcomesLogged'
  BY DEF OutcomesLogged, Queued, CloseQueue
<1>5. QED
  BY <1>1, <1>2, <1>3, <1>4

(* Nobody uses the log that is closed, unless Serve failed.                *)
LEMMA CloseLogInv ==
  ASSUME IInv, CloseLog
  PROVE  IInv'
<1> USE DEF IInv
<1>1. TypeOK'
  BY DEF TypeOK, HasNextChannel, CloseLog, MainGoto
<1>2. CloseOrder'
  BY DEF CloseOrder, HandlersDone, WorkersStopped, CloseLog, MainGoto
<1>3. OneTask'
  BY DEF OneTask, Queued, CloseLog
<1>4. OutcomesLogged'
  BY DEF OutcomesLogged, Queued, CloseLog
<1>5. QED
  BY <1>1, <1>2, <1>3, <1>4

(* The exit finds workers and handlers as the joins left them.             *)
LEMMA CloseStatsInv ==
  ASSUME IInv, CloseStats
  PROVE  IInv'
<1> USE DEF IInv
<1>1. TypeOK'
  BY DEF TypeOK, HasNextChannel, CloseStats, MainGoto
<1>2. CloseOrder'
  BY DEF CloseOrder, HandlersDone, WorkersStopped, CloseStats, MainGoto
<1>3. OneTask'
  BY DEF OneTask, Queued, CloseStats
<1>4. OutcomesLogged'
  BY DEF OutcomesLogged, Queued, CloseStats
<1>5. QED
  BY <1>1, <1>2, <1>3, <1>4

(* Nothing changes.                                                        *)
LEMMA StutterInv ==
  ASSUME IInv, UNCHANGED vars
  PROVE  IInv'
  BY DEF IInv, TypeOK, CloseOrder, OneTask, OutcomesLogged, Queued, HandlersDone,
     WorkersStopped, HasNextChannel, vars

(* Every step, and stuttering, keeps the invariant. *)
LEMMA NextInv == IInv /\ [Next]_vars => IInv'
<1> SUFFICES ASSUME IInv, [Next]_vars PROVE IInv'
  OBVIOUS
<1>1. CASE \E m \in Messages : BeginRequest(m) \/ HandlerStep(m)
  BY <1>1, BeginRequestInv, LogQueuedInv, CommitInv, CommitRefusedInv DEF HandlerStep
<1>2. CASE \E w \in Workers : WorkerStep(w)
  BY <1>2, TakeInv, NothingToTakeInv, WakeInv, StopWaitingInv, LogSendingInv, StartCallInv, CallEndsInv,
     CallCutOffInv, LogOutcomeInv, LogRetryingInv, RetryInv, RetryRefusedInv DEF WorkerStep
<1>3. CASE BecomeReady
  BY <1>3, BecomeReadyInv
<1>4. CASE Signal \/ ServerFails
  BY <1>4, SignalInv, ServerFailsInv
<1>5. CASE MainStep
  BY <1>5, StartDrainInv, EndDrainInv, ShutdownTimeoutInv, JoinWorkersInv, CloseQueueInv, CloseLogInv,
     CloseStatsInv DEF MainStep
<1>6. CASE UNCHANGED vars
  BY <1>6, StutterInv
<1>7. QED
  BY <1>1, <1>2, <1>3, <1>4, <1>5, <1>6 DEF Next

(* The inductive invariant always holds: the queue and the log are closed  *)
(* after their users, a message is in one place, and outcomes are logged.  *)
THEOREM Safety == Spec => []IInv
<1>1. QED
  BY InitInv, NextInv, PTL DEF Spec

(* Type correctness: a worker that works has a task, and one that retries  *)
(* it has an attempt left.                                                 *)
THEOREM TypeCorrect == Spec => []TypeOK
<1>1. IInv => TypeOK
  BY DEF IInv
<1>2. QED
  BY <1>1, Safety, PTL

(* Unless Serve failed, no handler or worker ever writes to a closed log.  *)
THEOREM LogSafe == Spec => []LogOutlivesWork
<1>1. IInv => LogOutlivesWork
  BY DEF IInv, CloseOrder, LogOutlivesWork
<1>2. QED
  BY <1>1, Safety, PTL

(* Unless Serve failed, the exit leaves no message still sending, none     *)
(* sent without its record and none accepted and unknown.                  *)
THEOREM GracefulExit == Spec => []GracefulExitIsClean
<1>1. IInv => GracefulExitIsClean
  BY DEF IInv, CloseOrder, WorkersStopped, OutcomesLogged, HasTask, GracefulExitIsClean
<1>2. QED
  BY <1>1, Safety, PTL
=============================================================================
