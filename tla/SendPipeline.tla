---------------------------- MODULE SendPipeline ----------------------------
(***************************************************************************)
(* The admission of POST /v1/mail/send (internal/api/send.go, processSend).*)
(*                                                                         *)
(* Each handler goes through the idempotency cache, the suppression and    *)
(* route checks, the queue, the rate limiter and the message log, one      *)
(* critical section after another with nothing locked in between.  What it *)
(* took it gives back, last taken first, in the deferred functions of a    *)
(* request that fails.  Requests that fail before the first of these steps *)
(* change nothing and are left out.  The queue is the DelayQueue that      *)
(* MemoryQueue implements.                                                 *)
(***************************************************************************)
EXTENDS Integers, Sequences, FiniteSets

CONSTANTS
  Handlers,      \* the goroutines serving requests
  Requests,      \* what callers send: key, fingerprint and rate-limit subjects
  MaxMessages,   \* bound on the message IDs generated
  MaxTime,       \* bound on the clock
  CacheLimit, TTL,                       \* of the idempotency cache
  Rules, Window, RuleLimit,              \* of the rate limiter
  Capacity                               \* of the queue

ASSUME WindowAssumption    == Window \in [Rules -> Nat \ {0}]
ASSUME RuleLimitAssumption == RuleLimit \in [Rules -> Nat \ {0}]
ASSUME MessagesAssumption  == MaxMessages \in Nat
ASSUME CacheAssumption     == CacheLimit \in Nat \ {0} /\ TTL \in Nat \ {0}
ASSUME HandlersAssumption  == IsFiniteSet(Handlers)
ASSUME RequestsAssumption  ==
  \A r \in Requests : r.key \in Nat /\ DOMAIN r.subjects \subseteq Rules

VARIABLES
  clock,
  entries, held, completed, evicted,     \* the idempotency cache
  counters, consumed,                    \* the rate limiter
  claims, items, issued, handed, open,   \* the queue
  log,       \* MessageLog: the statuses of each message, oldest first
  stuck,     \* whether its writer has failed, which it keeps to (bufio.Writer), or is closed
  pc,        \* where each handler is in processSend
  request,   \* the request each handler serves
  message,   \* the message ID each handler generated
  carried,   \* history: the message in each task ever committed
  charged    \* history: the counters each accepted message was charged to

cacheVars == <<entries, held, completed, evicted>>
rateVars  == <<counters, consumed>>
queueVars == <<claims, items, issued, handed, open>>
ownVars   == <<log, stuck, pc, request, message, carried, charged>>
vars      == <<clock, cacheVars, rateVars, queueVars, ownVars>>

Messages     == 1..MaxMessages
Keys         == {r.key : r \in Requests}
Fingerprints == {r.fingerprint : r \in Requests}
Subjects     == UNION {{r.subjects[rule] : rule \in DOMAIN r.subjects} : r \in Requests}

Cache == INSTANCE IdempotencyCache WITH Holders <- Handlers, Limit <- CacheLimit
Rate  == INSTANCE RateLimiter WITH Holders <- Handlers
Queue == INSTANCE DelayQueue WITH Callers <- Handlers, Delays <- {0}

NoRequest == [key |-> Cache!NoKey]   \* an idle handler serves none

(* The stages of processSend, each named for what the handler does next.   *)
Stages == {"idle", "recipient", "queue", "rate", "log", "commit", "complete",
           "logFailed", "rollback", "releaseSlot", "releaseKey"}

Init ==
  /\ Cache!Init
  /\ Rate!Init
  /\ Queue!Init
  /\ log = [m \in Messages |-> << >>]
  /\ stuck = FALSE
  /\ pc = [h \in Handlers |-> "idle"]
  /\ request = [h \in Handlers |-> NoRequest]
  /\ message = [h \in Handlers |-> Cache!NoMessage]
  /\ carried = << >>
  /\ charged = {}

(* processSend returns and its locals are gone. *)
Finish(h) ==
  /\ request' = [request EXCEPT ![h] = NoRequest]
  /\ message' = [message EXCEPT ![h] = Cache!NoMessage]

Goto(h, from, to) == pc[h] = from /\ pc' = [pc EXCEPT ![h] = to]

-----------------------------------------------------------------------------
(* The idempotency key is reserved: the request is new. *)
ReserveKey(h, r) ==
  /\ Goto(h, "idle", "recipient")
  /\ Cache!Reserve(h, r.key, r.fingerprint)
  /\ request' = [request EXCEPT ![h] = r]
  /\ UNCHANGED <<rateVars, queueVars, log, stuck, message, carried, charged>>

(* Replay, 409, or 500 from a cache full of requests in flight. *)
AnswerFromCache(h, r) ==
  /\ pc[h] = "idle"
  /\ Cache!Answered(h, r.key, r.fingerprint)
  /\ UNCHANGED <<rateVars, queueVars, ownVars>>

(* The recipient is not suppressed and the scene has a route. *)
RecipientAccepted(h) ==
  /\ Goto(h, "recipient", "queue")
  /\ UNCHANGED <<clock, cacheVars, rateVars, queueVars, log, stuck, request, message, carried, charged>>

(* The recipient is suppressed or no route matches. *)
RecipientRefused(h) ==
  /\ Goto(h, "recipient", "releaseKey")
  /\ UNCHANGED <<clock, cacheVars, rateVars, queueVars, log, stuck, request, message, carried, charged>>

ReserveSlot(h) ==
  /\ Goto(h, "queue", "rate")
  /\ Queue!Claim(h)
  /\ UNCHANGED <<cacheVars, rateVars, log, stuck, request, message, carried, charged>>

(* queue.Reserve fails: full, or closed. *)
NoSlot(h) ==
  /\ Goto(h, "queue", "releaseKey")
  /\ ~open \/ Cardinality(claims) + Cardinality(items) >= Capacity
  /\ UNCHANGED <<clock, cacheVars, rateVars, queueVars, log, stuck, request, message, carried, charged>>

ConsumeQuota(h) ==
  /\ Goto(h, "rate", "log")
  /\ Rate!Allow(h, request[h].subjects)
  /\ UNCHANGED <<cacheVars, queueVars, log, stuck, request, message, carried, charged>>

(* Seeded fault: the queue reservation's Release is not deferred yet. *)
AfterDeniedEarly == "releaseKey"

(* The first deferred function of a request that is over quota. *)
AfterDenied == "releaseSlot"

OverQuota(h) ==
  /\ Goto(h, "rate", AfterDenied)
  /\ Rate!Deny(h, request[h].subjects)
  /\ UNCHANGED <<cacheVars, queueVars, log, stuck, request, message, carried, charged>>

(* A message ID no handler has and the log does not know. *)
FreshMessage(m) == log[m] = << >> /\ \A h \in Handlers : message[h] # m

(* The queued record of the next message is in the log. *)
LogQueued(h) ==
  \E m \in Messages :
    /\ FreshMessage(m)
    /\ \A earlier \in 1..(m - 1) : ~FreshMessage(earlier)
    /\ message' = [message EXCEPT ![h] = m]
    /\ log' = [log EXCEPT ![m] = <<"queued">>]

AppendQueued(h) ==
  /\ Goto(h, "log", "commit")
  /\ ~stuck
  /\ LogQueued(h)
  /\ UNCHANGED <<clock, cacheVars, rateVars, queueVars, stuck, request, carried, charged>>

(* NewMessageID fails, or AppendMessage returns an error, as it will from  *)
(* now on: the writer has failed before, fails now, or is closed.  A write *)
(* that fails may have left all of the record in the file but its newline, *)
(* and queries read it then as they do others.                             *)
AppendQueuedFails(h) ==
  /\ Goto(h, "log", "rollback")
  /\ \/ UNCHANGED <<stuck, log, message>>
     \/ stuck' = TRUE /\ UNCHANGED <<log, message>>
     \/ ~stuck /\ stuck' = TRUE /\ LogQueued(h)
  /\ UNCHANGED <<clock, cacheVars, rateVars, queueVars, request, carried, charged>>

(* commitInitialQueueTask commits the task: a worker may take it at once.  *)
Commit(h) ==
  /\ Goto(h, "commit", "complete")
  /\ Queue!Put(h, 0)
  /\ carried' = Append(carried, message[h])
  /\ UNCHANGED <<cacheVars, rateVars, log, stuck, request, message, charged>>

(* Seeded fault: the error of the commit is ignored. *)
AfterRefusedIgnored == "complete"

AfterRefused == "logFailed"

(* The queue was closed after the slot was reserved; the reservation is    *)
(* used up.                                                                *)
CommitRefused(h) ==
  /\ Goto(h, "commit", AfterRefused)
  /\ ~open
  /\ Queue!GiveBack(h)
  /\ UNCHANGED <<cacheVars, rateVars, log, stuck, request, message, carried, charged>>

(* The failed record is appended if the log still takes it; its error, as  *)
(* that of the commit, is only returned.                                   *)
AppendFailed(h) ==
  /\ Goto(h, "logFailed", "rollback")
  /\ \/ /\ ~stuck /\ stuck' \in BOOLEAN
        /\ log' = [log EXCEPT ![message[h]] = Append(@, "failed")]
     \/ stuck' = TRUE /\ UNCHANGED log
  /\ UNCHANGED <<clock, cacheVars, rateVars, queueVars, request, message, carried, charged>>

(* CompleteQueued; the quota is kept and the caller is answered. *)
Complete(h) ==
  /\ Goto(h, "complete", "idle")
  /\ Cache!CompleteQueued(h, message[h])
  /\ Rate!Keep(h)
  /\ charged' = charged \cup {[message |-> message[h], counter |-> key] : key \in consumed[h]}
  /\ Finish(h)
  /\ UNCHANGED <<queueVars, log, stuck, carried>>

-----------------------------------------------------------------------------
(* The deferred functions of a request that fails. *)

RollbackQuota(h) ==
  /\ Goto(h, "rollback", "releaseSlot")
  /\ Rate!Rollback(h)
  /\ UNCHANGED <<cacheVars, queueVars, log, stuck, request, message, carried, charged>>

(* The queue reservation's Release, which does nothing after a Commit. *)
ReleaseSlot(h) ==
  /\ Goto(h, "releaseSlot", "releaseKey")
  /\ \/ Queue!GiveBack(h)
     \/ h \notin claims /\ UNCHANGED <<clock, queueVars>>
  /\ UNCHANGED <<cacheVars, rateVars, log, stuck, request, message, carried, charged>>

ReleaseKey(h) ==
  /\ Goto(h, "releaseKey", "idle")
  /\ Cache!Release(h)
  /\ Finish(h)
  /\ UNCHANGED <<rateVars, queueVars, log, stuck, carried, charged>>

-----------------------------------------------------------------------------
(* A worker takes a task. *)
TakeTask ==
  /\ \E item \in items : Queue!Take(item)
  /\ UNCHANGED <<cacheVars, rateVars, ownVars>>

(* Runtime.Close closes the queue while handlers may still be running. *)
CloseQueue ==
  /\ Queue!Shut
  /\ UNCHANGED <<cacheVars, rateVars, ownVars>>

Tick ==
  /\ clock < MaxTime
  /\ clock' = clock + 1
  /\ UNCHANGED <<cacheVars, rateVars, queueVars, ownVars>>

HandlerStep(h) ==
  \/ RecipientAccepted(h) \/ RecipientRefused(h)
  \/ ReserveSlot(h) \/ NoSlot(h)
  \/ ConsumeQuota(h) \/ OverQuota(h)
  \/ AppendQueued(h) \/ AppendQueuedFails(h)
  \/ Commit(h) \/ CommitRefused(h) \/ AppendFailed(h)
  \/ Complete(h)
  \/ RollbackQuota(h) \/ ReleaseSlot(h) \/ ReleaseKey(h)

Next ==
  \/ \E h \in Handlers, r \in Requests : ReserveKey(h, r) \/ AnswerFromCache(h, r)
  \/ \E h \in Handlers : HandlerStep(h)
  \/ TakeTask
  \/ CloseQueue
  \/ Tick

Spec == Init /\ [][Next]_vars

-----------------------------------------------------------------------------
(* A handler whose task is in the queue still finds its own pending entry: *)
(* the error return after CompleteQueued, which would answer 500 for a     *)
(* message that is delivered all the same, cannot happen.                  *)
CompletionCannotFail ==
  \A h \in Handlers : pc[h] = "complete" =>
    /\ held[h] = request[h].key
    /\ held[h] \in DOMAIN entries
    /\ entries[held[h]].status = "pending"
    /\ entries[held[h]].fingerprint = request[h].fingerprint

(* However its request ended, and wherever others were meanwhile, an idle  *)
(* handler holds no slot, no key and no quota; one about to release its    *)
(* key has neither slot nor quota left.                                    *)
NothingLeaked ==
  \A h \in Handlers :
    /\ pc[h] \in {"idle", "releaseKey"} => h \notin claims /\ consumed[h] = {}
    /\ pc[h] = "idle" <=> held[h] = Cache!NoKey

InFlight(key)    == {h \in Handlers : key \in consumed[h]}
AcceptedIn(key)  == {m \in Messages : [message |-> m, counter |-> key] \in charged}
CounterKeys      == (UNION {consumed[h] : h \in Handlers}) \cup {c.counter : c \in charged}

(* A running counter is exactly the requests in flight and the messages    *)
(* accepted in its window: a failed request costs no quota, and rolling it *)
(* back costs nobody else theirs.  And no window, past ones included, ever *)
(* accepts more messages than its rule allows.                             *)
QuotaExact ==
  /\ \A key \in DOMAIN counters \cup CounterKeys :
       ~Rate!Expired(key) =>
         Rate!Count(key) = Cardinality(InFlight(key)) + Cardinality(AcceptedIn(key))
  /\ \A key \in CounterKeys : Cardinality(AcceptedIn(key)) <= RuleLimit[key.rule]

(* Two messages accepted under one key are a TTL apart, or the first       *)
(* answer had been evicted.                                                *)
AcceptedOncePerKey ==
  \A a, b \in completed :
    a.key = b.key /\ a.message < b.message =>
      b.at - a.at >= TTL \/ a.message \in evicted

(* Messages that callers see as queued for ever: there is no task of them, *)
(* and no request that would still commit one.                             *)
Stranded ==
  {m \in Messages :
     /\ log[m] = <<"queued">>
     /\ \A i \in DOMAIN carried : carried[i] # m
     /\ \A h \in Handlers : ~(pc[h] = "commit" /\ message[h] = m)}

(* The message log agrees with the queue: a task's message was logged      *)
(* queued before any worker could see it and is in one task only, and a    *)
(* message whose acceptance is recorded as failed is in none.  As long as  *)
(* the queue is open, no message is stranded but the one whose record was  *)
(* written by the append that failed first: the writer takes none after it.*)
LogAgreesWithQueue ==
  /\ \A i, j \in DOMAIN carried : carried[i] = carried[j] => i = j
  /\ \A i \in DOMAIN carried : log[carried[i]] = <<"queued">>
  /\ \A a \in completed : \E i \in DOMAIN carried : carried[i] = a.message
  /\ \A i \in DOMAIN carried :
       \/ \E a \in completed : a.message = carried[i]
       \/ \E h \in Handlers : pc[h] = "complete" /\ message[h] = carried[i]
  /\ open => \A m, n \in Stranded : stuck /\ m = n
=============================================================================
