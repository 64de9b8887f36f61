------------------------- MODULE SendPipelineProofs -------------------------
(***************************************************************************)
(* Proofs about SendPipeline, for any handlers, requests, rules and limits.*)
(* What is proved of the idempotency cache alone is used for the cache of  *)
(* the pipeline, whose steps are steps of that cache.                      *)
(***************************************************************************)
EXTENDS SendPipeline, FiniteSetTheorems, SequenceTheorems, TLAPS

Cached == INSTANCE IdempotencyCacheProofs WITH Holders <- Handlers, Limit <- CacheLimit

(* The messages in the tasks ever committed. *)
Committed == {carried[i] : i \in DOMAIN carried}

(* The shape of the handlers' locals, the log and the limiter.             *)
Types ==
  /\ pc \in [Handlers -> Stages]
  /\ request \in [Handlers -> Requests \cup {NoRequest}]
  /\ message \in [Handlers -> Messages \cup {Cache!NoMessage}]
  /\ log \in [Messages -> {<< >>, <<"queued">>, <<"queued", "failed">>}]
  /\ carried \in Seq(Messages)
  /\ consumed \in [Handlers -> SUBSET Rate!CounterKey]
  /\ DOMAIN counters \subseteq Rate!CounterKey
  /\ \A key \in DOMAIN counters : counters[key] \in Nat \ {0}
  /\ charged \subseteq [message : Messages, counter : Rate!CounterKey]

(* What a handler has by each stage of processSend.                        *)
Locals ==
  \A h \in Handlers :
    /\ pc[h] = "idle" => held[h] = Cache!NoKey
    /\ pc[h] # "idle" => request[h] \in Requests /\ held[h] = request[h].key
    /\ pc[h] \in {"idle", "recipient", "queue", "rate", "log"} => message[h] = Cache!NoMessage
    /\ pc[h] \in {"commit", "complete", "logFailed"} => message[h] \in Messages
    /\ pc[h] \notin {"rate", "log", "commit", "rollback", "releaseSlot"} => h \notin claims
    /\ pc[h] \notin {"log", "commit", "complete", "logFailed", "rollback"} => consumed[h] = {}

(* A handler's message is its own, is logged, has not been accepted, and   *)
(* is in the queue once the handler is past its commit.                    *)
Owns(h) ==
  /\ log[message[h]] # << >>
  /\ \A g \in Handlers : message[g] = message[h] => g = h
  /\ \A a \in completed : a.message # message[h]
  /\ pc[h] = "complete" <=> message[h] \in Committed
  /\ pc[h] \in {"commit", "logFailed"} => log[message[h]] = <<"queued">>
  /\ pc[h] = "logFailed" => ~open

(* Message numbers are given out in order and to one handler each, and     *)
(* only a message accepted or about to be is in the queue.                 *)
Journal ==
  /\ \A m, k \in Messages : log[m] # << >> /\ k < m => log[k] # << >>
  /\ \A h \in Handlers : message[h] # Cache!NoMessage => Owns(h)
  /\ LogAgreesWithQueue
  /\ \A c \in charged : \E a \in completed : a.message = c.message

(* A reservation is for the request of its handler, and every answer given *)
(* under its key has expired or was evicted, and is for an older message.  *)
Answers ==
  /\ \A h \in Handlers : pc[h] # "idle" =>
       /\ entries[held[h]].fingerprint = request[h].fingerprint
       /\ \A a \in completed : a.key = held[h] =>
            /\ a.at <= clock - TTL \/ a.message \in evicted
            /\ message[h] # Cache!NoMessage => a.message < message[h]
  /\ AcceptedOncePerKey

Used(key) == Cardinality(InFlight(key)) + Cardinality(AcceptedIn(key))

(* A running counter counts its requests in flight and those accepted in   *)
(* its window, and there are never more of them than the rule allows.      *)
Quota ==
  \A key \in Rate!CounterKey :
    /\ ~Rate!Expired(key) => Rate!Count(key) = Used(key)
    /\ Used(key) <= RuleLimit[key.rule]

(* The inductive invariant. *)
IInv == Cached!IInv /\ Types /\ Locals /\ Journal /\ Answers /\ Quota
-----------------------------------------------------------------------------
(* What the proofs about the cache assume, for the cache of the pipeline.  *)
LEMMA CacheConstants ==
  /\ Keys \subseteq Nat
  /\ CacheLimit \in Nat \ {0}
  /\ TTL \in Nat \ {0}
  /\ Messages \subseteq Nat \ {Cached!NoMessage}
  BY CacheAssumption, RequestsAssumption DEF Cached!NoMessage, Keys, Messages

(* Both instances say the same of the cache. *)
LEMMA SameCache ==
  /\ Cache!NoKey = Cached!NoKey
  /\ Cache!NoMessage = Cached!NoMessage
  /\ Cache!Live = Cached!Live
  /\ Cache!Overflow = Cached!Overflow
  /\ \A k : Cache!IsPending(k) = Cached!IsPending(k)
<1>1. \A S : Cache!Cardinality(S) = Cached!Cardinality(S)
  BY DEF Cache!Cardinality, Cached!Cardinality
<1>2. \A k : Cache!IsPending(k) = Cached!IsPending(k)
  BY DEF Cache!IsPending, Cached!IsPending
<1>3. Cache!Live = Cached!Live
  BY <1>2 DEF Cache!Live, Cached!Live
<1>4. Cache!Evictable = Cached!Evictable
  BY <1>2, <1>3 DEF Cache!Evictable, Cached!Evictable
<1>5. \A out : Cache!Fits(out) = Cached!Fits(out)
  BY <1>1, <1>3 DEF Cache!Fits, Cached!Fits
<1>6. \A j, k : Cache!Older(j, k) = Cached!Older(j, k)
  BY DEF Cache!Older, Cached!Older
<1>7. Cache!Overflow = Cached!Overflow
  BY <1>4, <1>5, <1>6 DEF Cache!Overflow, Cached!Overflow
<1> QED
  BY <1>2, <1>3, <1>7 DEF Cache!NoKey, Cached!NoKey, Cache!NoMessage, Cached!NoMessage

(* The steps of the two instances are the same. *)
LEMMA SameSteps ==
  ASSUME NEW h, NEW key, NEW fingerprint, NEW m
  PROVE  /\ Cache!Reserve(h, key, fingerprint) => Cached!Reserve(h, key, fingerprint)
         /\ Cache!Answered(h, key, fingerprint) => Cached!Answered(h, key, fingerprint)
         /\ Cache!CompleteQueued(h, m) => Cached!CompleteQueued(h, m)
         /\ Cache!Release(h) => Cached!Release(h)
<1>1. Cache!Reserve(h, key, fingerprint) => Cached!Reserve(h, key, fingerprint)
  BY SameCache DEF Cache!Reserve, Cached!Reserve, Cache!Start, Cached!Start
<1>2. Cache!Answered(h, key, fingerprint) => Cached!Answered(h, key, fingerprint)
  BY SameCache DEF Cache!Answered, Cached!Answered, Cache!Start, Cached!Start, Cache!Replays,
     Cached!Replays,
     Cache!Conflicts, Cached!Conflicts, Cache!Full, Cached!Full, Cache!Restrict, Cached!Restrict
<1>3. Cache!CompleteQueued(h, m) => Cached!CompleteQueued(h, m)
  BY SameCache DEF Cache!CompleteQueued, Cached!CompleteQueued, Cache!CompletionTime,
     Cached!CompletionTime
<1>4. Cache!Release(h) => Cached!Release(h)
  BY SameCache DEF Cache!Release, Cached!Release, Cache!KeysAfterRelease,
     Cached!KeysAfterRelease,
     Cache!Restrict, Cached!Restrict
<1> QED
  BY <1>1, <1>2, <1>3, <1>4

(* A step that leaves the cache alone, or only lets time pass. *)
LEMMA CacheKept ==
  ASSUME Cached!IInv, UNCHANGED <<clock,
         cacheVars>> \/ (clock' = clock + 1 /\ UNCHANGED cacheVars)
  PROVE  Cached!IInv'
  BY CacheConstants, Cached!NextInvariant DEF Cached!Next, Cached!vars, Cached!Tick, cacheVars

(* What the pipeline needs to know of the cache between two steps. *)
LEMMA CacheFacts ==
  ASSUME Cached!IInv
  PROVE  /\ clock \in Nat
         /\ held \in [Handlers -> Keys \cup {Cache!NoKey}]
         /\ completed
               \subseteq [key : Keys, fingerprint : Fingerprints, message : Messages, at : Nat]
         /\ \A h \in Handlers : held[h] # Cache!NoKey =>
              held[h] \in DOMAIN entries /\ entries[held[h]].status = "pending"
         /\ \A g, h \in Handlers : held[g] = held[h] /\ held[g] # Cache!NoKey => g = h
  BY SameCache DEF Cached!IInv, Cached!TypeOK, Cached!HeldIsPending, Cached!IsPending

(* The keys of the requests are keys. *)
LEMMA RequestKeys ==
  ASSUME NEW r \in Requests
  PROVE  r.key \in Keys /\ r.fingerprint \in Fingerprints /\ r.key # Cache!NoKey
  BY RequestsAssumption DEF Keys, Fingerprints, Cache!NoKey

(* Reserve leaves the entries of the others alone, and the key is free     *)
(* only when every answer under it has expired or was evicted.             *)
LEMMA CacheReserves ==
  ASSUME Cached!IInv, NEW h \in Handlers,
         NEW r \in Requests, Cache!Reserve(h, r.key, r.fingerprint)
  PROVE  /\ Cached!IInv'
         /\ held[h] = Cache!NoKey /\ held' = [held EXCEPT ![h] = r.key]
         /\ clock' = clock /\ completed' = completed /\ evicted \subseteq evicted'
         /\ entries'[r.key].fingerprint = r.fingerprint
         /\ \A g \in Handlers : held[g] # Cache!NoKey => entries'[held[g]] = entries[held[g]]
         /\ \A a \in completed : a.key = r.key => a.at <= clock - TTL \/ a.message \in evicted
<1> USE DEF Cached!IInv
<1>1. Cached!Reserve(h, r.key, r.fingerprint)
  BY SameSteps
<1>2. Cached!IInv'
  BY <1>1, RequestKeys, CacheConstants, Cached!ReserveStep
<1>3. PICK out \in SUBSET Cached!Evictable :
        /\ entries' = [k \in (Cached!Live \ out) \cup {r.key} |->
             IF k = r.key
             THEN [fingerprint |-> r.fingerprint, status |-> "pending",
                   message |-> Cached!NoMessage, createdAt |-> clock]
             ELSE entries[k]]
        /\ evicted' = evicted \cup {entries[k].message : k \in out}
  BY <1>1 DEF Cached!Reserve, Cached!Overflow
<1>4. held[h] = Cache!NoKey /\ held' = [held EXCEPT ![h] = r.key] /\ r.key \notin Cached!Live
      /\ clock' = clock /\ completed' = completed
  BY <1>1, SameCache DEF Cached!Reserve, Cached!Start
<1>5. entries'[r.key].fingerprint = r.fingerprint
  BY <1>3
<1>6. ASSUME NEW g \in Handlers, held[g] # Cache!NoKey
      PROVE  entries'[held[g]] = entries[held[g]]
  BY <1>3, <1>4, <1>6, SameCache DEF Cached!HeldIsPending, Cached!Live, Cached!Evictable
<1>7. ASSUME NEW a \in completed, a.key = r.key
      PROVE  a.at <= clock - TTL \/ a.message \in evicted
  <2>1. SUFFICES ASSUME ~(a.at <= clock - TTL), a.message \notin evicted
                 PROVE  FALSE
    OBVIOUS
  <2>2. a.at > clock - TTL
    BY <2>1, CacheAssumption DEF Cached!TypeOK
  <2>3. r.key \in DOMAIN entries /\ ~Cached!IsPending(r.key)
        /\ entries[r.key].message = a.message
    BY <1>7, <2>1, <2>2 DEF Cached!ReplayedWhileLive
  <2>4. PICK b \in completed : b.message = entries[r.key].message
             /\ b.at = entries[r.key].createdAt
    BY <2>3 DEF Cached!AnswersRecorded
  <2>5. a = b
    BY <2>3, <2>4 DEF Cached!MessagesOnce
  <2> QED
    BY <1>4, <2>2, <2>3, <2>4, <2>5 DEF Cached!Live
<1> QED
  BY <1>2, <1>3, <1>4, <1>5, <1>6, <1>7

(* Answering from the cache changes nothing for those that hold a key. *)
LEMMA CacheAnswers ==
  ASSUME Cached!IInv, NEW h \in Handlers,
         NEW r \in Requests, Cache!Answered(h, r.key, r.fingerprint)
  PROVE  /\ Cached!IInv' /\ UNCHANGED <<clock, held, completed, evicted>>
         /\ \A g \in Handlers : held[g] # Cache!NoKey => entries'[held[g]] = entries[held[g]]
<1>1. Cached!Answered(h, r.key, r.fingerprint)
  BY SameSteps
<1>2. Cached!IInv'
  BY <1>1, RequestKeys, CacheConstants, Cached!AnsweredStep
<1>3. UNCHANGED <<clock, held, completed, evicted>>
  BY <1>1 DEF Cached!Answered
<1>4. ASSUME NEW g \in Handlers, held[g] # Cache!NoKey
      PROVE  entries'[held[g]] = entries[held[g]]
  <2>1. held[g] \in Cached!Live
    BY <1>4, SameCache DEF Cached!IInv, Cached!HeldIsPending, Cached!Live
  <2> QED
    BY <1>1, <2>1 DEF Cached!Answered, Cached!Restrict
<1> QED
  BY <1>2, <1>3, <1>4

(* CompleteQueued of a new message stores its answer. *)
LEMMA CacheCompletes ==
  ASSUME Cached!IInv, NEW h \in Handlers,
         NEW m \in Messages, \A a \in completed : a.message # m,
         Cache!CompleteQueued(h, m)
  PROVE  /\ Cached!IInv' /\ UNCHANGED <<clock, evicted>>
         /\ held[h] # Cache!NoKey /\ held' = [held EXCEPT ![h] = Cache!NoKey]
         /\ \E new : /\ completed' = completed \cup {new}
                     /\ new.key = held[h] /\ new.message = m /\ new.at = clock
         /\ \A g \in Handlers \ {h} : held[g] # Cache!NoKey =>
              entries'[held[g]] = entries[held[g]]
<1>1. Cached!CompleteQueued(h, m)
  BY SameSteps
<1>2. Cached!IInv'
  BY <1>1, CacheConstants, Cached!CompleteQueuedStep DEF Cached!Fresh
<1>3. /\ UNCHANGED <<clock, evicted>>
      /\ held[h] # Cache!NoKey /\ held' = [held EXCEPT ![h] = Cache!NoKey]
      /\ \E f : completed' = completed \cup
                  {[key |-> held[h], fingerprint |-> f, message |-> m, at |-> clock]}
  BY <1>1, SameCache DEF Cached!CompleteQueued
<1>5. PICK f :
        completed' = completed
          \cup {[key |-> held[h], fingerprint |-> f, message |-> m, at |-> clock]}
  BY <1>3
<1>6. \E new : /\ completed' = completed \cup {new}
               /\ new.key = held[h] /\ new.message = m /\ new.at = clock
  <2> DEFINE new == [key |-> held[h], fingerprint |-> f, message |-> m, at |-> clock]
  <2>1. completed' = completed \cup {new} /\ new.key = held[h] /\ new.message = m
        /\ new.at = clock
    BY <1>5
  <2> QED
    BY <2>1
<1>4. ASSUME NEW g \in Handlers \ {h}, held[g] # Cache!NoKey
      PROVE  entries'[held[g]] = entries[held[g]]
  <2>1. held[g] # held[h] /\ held[g] \in DOMAIN entries
    BY <1>3, <1>4, SameCache DEF Cached!IInv, Cached!HeldIsPending
  <2> QED
    BY <1>1, <2>1 DEF Cached!CompleteQueued
<1> QED
  BY <1>2, <1>3, <1>4, <1>6

(* Release frees the key of its handler only. *)
LEMMA CacheReleases ==
  ASSUME Cached!IInv, NEW h \in Handlers, Cache!Release(h)
  PROVE  /\ Cached!IInv' /\ UNCHANGED <<clock, completed, evicted>>
         /\ held[h] # Cache!NoKey /\ held' = [held EXCEPT ![h] = Cache!NoKey]
         /\ \A g \in Handlers \ {h} : held[g] # Cache!NoKey =>
              entries'[held[g]] = entries[held[g]]
<1>1. Cached!Release(h)
  BY SameSteps
<1>2. Cached!IInv'
  BY <1>1, CacheConstants, Cached!ReleaseStep
<1>3. /\ UNCHANGED <<clock, completed, evicted>>
      /\ held[h] # Cache!NoKey /\ held' = [held EXCEPT ![h] = Cache!NoKey]
  BY <1>1, SameCache DEF Cached!Release
<1>4. ASSUME NEW g \in Handlers \ {h}, held[g] # Cache!NoKey
      PROVE  entries'[held[g]] = entries[held[g]]
  <2>1. held[g] # held[h] /\ held[g] \in DOMAIN entries
    BY <1>3, <1>4, SameCache DEF Cached!IInv, Cached!HeldIsPending
  <2> QED
    BY <1>1, <2>1 DEF Cached!Release, Cached!KeysAfterRelease, Cached!Restrict
<1> QED
  BY <1>2, <1>3, <1>4

(* Handlers and messages are counted one by one. *)
LEMMA Counting ==
  ASSUME NEW S, S \in SUBSET Handlers \/ S \in SUBSET Messages
  PROVE  /\ IsFiniteSet(S) /\ Cardinality(S) \in Nat
         /\ \A x : x \notin S => Cardinality(S \cup {x}) = Cardinality(S) + 1
         /\ \A x \in S : Cardinality(S \ {x}) = Cardinality(S) - 1 /\ Cardinality(S) >= 1
<1>1. IsFiniteSet(Handlers) /\ IsFiniteSet(Messages)
  BY HandlersAssumption, MessagesAssumption, FS_Interval DEF Messages
<1>2. IsFiniteSet(S)
  BY <1>1, FS_Subset
<1>3. Cardinality(S) \in Nat
  BY <1>2, FS_CardinalityType
<1>4. ASSUME NEW x, x \notin S PROVE Cardinality(S \cup {x}) = Cardinality(S) + 1
  BY <1>2, <1>4, FS_AddElement
<1>5. ASSUME NEW x \in S PROVE Cardinality(S \ {x}) = Cardinality(S) - 1 /\ Cardinality(S) >= 1
  <2>1. Cardinality(S \ {x}) = Cardinality(S) - 1
    BY <1>2, FS_RemoveElement
  <2>2. IsFiniteSet(S \ {x})
    BY <1>2, FS_Subset
  <2>3. Cardinality(S \ {x}) \in Nat
    BY <2>2, FS_CardinalityType
  <2> QED
    BY <1>3, <2>1, <2>3
<1> QED
  BY <1>2, <1>3, <1>4, <1>5

(* The requests in flight under a counter are handlers, those accepted     *)
(* under it messages.                                                      *)
LEMMA UsedParts ==
  ASSUME NEW key
  PROVE  /\ InFlight(key) \in SUBSET Handlers /\ InFlight(key)' \in SUBSET Handlers
         /\ AcceptedIn(key) \in SUBSET Messages /\ AcceptedIn(key)' \in SUBSET Messages
         /\ Used(key) \in Nat /\ Used(key)' \in Nat
<1>1. /\ InFlight(key) \in SUBSET Handlers /\ InFlight(key)' \in SUBSET Handlers
      /\ AcceptedIn(key) \in SUBSET Messages /\ AcceptedIn(key)' \in SUBSET Messages
  BY DEF InFlight, AcceptedIn
<1>2. /\ Cardinality(InFlight(key)) \in Nat /\ Cardinality(InFlight(key)') \in Nat
      /\ Cardinality(AcceptedIn(key)) \in Nat /\ Cardinality(AcceptedIn(key)') \in Nat
  BY <1>1, Counting
<1> QED
  BY <1>1, <1>2 DEF Used

(* The requests in flight under a counter when one handler's quota changes.*)
LEMMA InFlightAfter ==
  ASSUME consumed \in [Handlers -> SUBSET Rate!CounterKey], NEW h \in Handlers, NEW keys,
         consumed' = [consumed EXCEPT ![h] = keys], NEW key
  PROVE  InFlight(key)' = IF key \in keys THEN InFlight(key) \cup {h} ELSE InFlight(key) \ {h}
<1>1. \A g \in Handlers : consumed'[g] = IF g = h THEN keys ELSE consumed[g]
  OBVIOUS
<1>2. CASE key \in keys
  BY <1>1, <1>2 DEF InFlight
<1>3. CASE key \notin keys
  BY <1>1, <1>3 DEF InFlight
<1> QED
  BY <1>2, <1>3

(* A step of others than the limiter, with no time passing. *)
LEMMA QuotaKept ==
  ASSUME Quota, UNCHANGED <<clock, rateVars, charged>>
  PROVE  Quota'
<1>1. \A key : InFlight(key)' = InFlight(key) /\ AcceptedIn(key)' = AcceptedIn(key)
  BY DEF InFlight, AcceptedIn, rateVars
<1>2. \A key : Used(key)' = Used(key)
  BY <1>1 DEF Used
<1> QED
  BY <1>2 DEF Quota, rateVars, Rate!Expired, Rate!Count, Rate!Running, Rate!CounterKey

(* The counters a request is checked against are those of the running      *)
(* windows.                                                                *)
LEMMA CheckedKeys ==
  ASSUME clock \in Nat, NEW r \in Requests, NEW key \in Rate!Checks(r.subjects)
  PROVE  key \in Rate!CounterKey /\ ~Rate!Expired(key)
<1>1. PICK rule \in DOMAIN r.subjects :
        key = [rule |-> rule, subject |-> r.subjects[rule], start |-> Rate!WindowStart(rule)]
  BY DEF Rate!Checks
<1>2. rule \in Rules /\ Window[rule] \in Nat \ {0} /\ r.subjects[rule] \in Subjects
  BY RequestsAssumption, WindowAssumption DEF Subjects
<1>3. clock % Window[rule] \in Nat /\ clock % Window[rule] < Window[rule]
      /\ clock % Window[rule] <= clock
  BY <1>2
<1>4. Rate!WindowStart(rule) \in Nat /\ clock < Rate!WindowStart(rule) + Window[rule]
  BY <1>2, <1>3 DEF Rate!WindowStart
<1> QED
  BY <1>1, <1>2, <1>4 DEF Rate!CounterKey, Rate!Expired

(* Allow counts the request under each counter it is checked against. *)
LEMMA RateAllows ==
  ASSUME Types, Quota, clock \in Nat, NEW h \in Handlers, NEW r \in Requests,
         Rate!Allow(h, r.subjects), UNCHANGED charged
  PROVE  /\ Quota'
         /\ consumed' \in [Handlers -> SUBSET Rate!CounterKey]
         /\ consumed' = [consumed EXCEPT ![h] = Rate!Checks(r.subjects)]
         /\ DOMAIN counters' \subseteq Rate!CounterKey
         /\ \A key \in DOMAIN counters' : counters'[key] \in Nat \ {0}
<1> DEFINE checks == Rate!Checks(r.subjects)
<1>1. /\ consumed \in [Handlers -> SUBSET Rate!CounterKey] /\ consumed[h] = {}
      /\ consumed' = [consumed EXCEPT ![h] = checks]
      /\ \A key \in checks : Rate!Count(key) < RuleLimit[key.rule]
      /\ counters' = [key \in Rate!Running \cup checks |->
           IF key \in checks THEN Rate!Count(key) + 1 ELSE Rate!Count(key)]
      /\ clock' = clock
  BY DEF Types, Rate!Allow, Rate!Passes
<1>2. \A key \in checks : key \in Rate!CounterKey /\ ~Rate!Expired(key)
  BY CheckedKeys
<1> HIDE DEF checks
<1>3. \A key : Rate!Count(key) \in Nat
        /\ (key \in Rate!Running => Rate!Count(key) \in Nat \ {0} /\ key \in Rate!CounterKey)
  BY DEF Types, Rate!Count, Rate!Running
<1>4. ASSUME NEW key \in Rate!CounterKey
      PROVE  /\ ~Rate!Expired(key)' => Rate!Count(key)' = Used(key)'
             /\ Used(key)' <= RuleLimit[key.rule]
  <2>1. /\ ~Rate!Expired(key) => Rate!Count(key) = Used(key)
        /\ Used(key) <= RuleLimit[key.rule] /\ Rate!Expired(key)' = Rate!Expired(key)
        /\ AcceptedIn(key)' = AcceptedIn(key) /\ key.rule \in Rules
           /\ RuleLimit[key.rule] \in Nat
    BY <1>1, RuleLimitAssumption DEF Quota, Rate!Expired, AcceptedIn, Rate!CounterKey
  <2>2. CASE key \in checks
    <3>1. InFlight(key)' = InFlight(key) \cup {h} /\ h \notin InFlight(key)
      BY <1>1, <2>2, InFlightAfter DEF InFlight
    <3>2. Used(key)' = Used(key) + 1
      BY <2>1, <3>1, UsedParts, Counting DEF Used
    <3>3. key \in Rate!Running' /\ Rate!Count(key)' = Rate!Count(key) + 1
      BY <1>1, <1>2, <2>1, <2>2 DEF Rate!Count, Rate!Running
    <3> QED
      BY <1>1, <1>2, <1>3, <2>1, <2>2, <3>2, <3>3, UsedParts
  <2>3. CASE key \notin checks
    <3>1. InFlight(key)' = InFlight(key)
      BY <1>1, <2>3, InFlightAfter DEF InFlight
    <3>2. Used(key)' = Used(key)
      BY <2>1, <3>1 DEF Used
    <3>3. ~Rate!Expired(key) => Rate!Count(key)' = Rate!Count(key)
      BY <1>1, <2>1, <2>3 DEF Rate!Count, Rate!Running
    <3> QED
      BY <2>1, <3>2, <3>3
  <2> QED
    BY <2>2, <2>3
<1>5. Quota'
  BY <1>4 DEF Quota, Rate!CounterKey
<1>6. consumed' \in [Handlers -> SUBSET Rate!CounterKey]
  BY <1>1, <1>2
<1>7. /\ DOMAIN counters' \subseteq Rate!CounterKey
      /\ \A key \in DOMAIN counters' : counters'[key] \in Nat \ {0}
  BY <1>1, <1>2, <1>3
<1> QED
  BY <1>1, <1>5, <1>6, <1>7 DEF checks

(* Deny only forgets the counters of windows that are over. *)
LEMMA RateDenies ==
  ASSUME Types, Quota, NEW h \in Handlers,
         NEW r \in Requests, Rate!Deny(h, r.subjects), UNCHANGED charged
  PROVE  /\ Quota' /\ UNCHANGED <<clock, consumed>>
         /\ DOMAIN counters' \subseteq Rate!CounterKey
         /\ \A key \in DOMAIN counters' : counters'[key] \in Nat \ {0}
<1>1. /\ counters' = [key \in Rate!Running |-> counters[key]]
      /\ UNCHANGED <<clock, consumed>>
  BY DEF Rate!Deny, Rate!Restrict
<1>2. \A key : InFlight(key)' = InFlight(key) /\ AcceptedIn(key)' = AcceptedIn(key)
  BY <1>1 DEF InFlight, AcceptedIn
<1>3. \A key : Used(key)' = Used(key)
  BY <1>2 DEF Used
<1>4. \A key : Rate!Count(key)' = Rate!Count(key) /\ Rate!Expired(key)' = Rate!Expired(key)
  BY <1>1 DEF Rate!Count, Rate!Running, Rate!Expired
<1> QED
  BY <1>1, <1>3, <1>4 DEF Quota, Types, Rate!Running, Rate!CounterKey

(* Rollback takes the request out of the counters that still run. *)
LEMMA RateRollsBack ==
  ASSUME Types, Quota, NEW h \in Handlers, Rate!Rollback(h), UNCHANGED charged
  PROVE  /\ Quota' /\ UNCHANGED clock
         /\ consumed' = [consumed EXCEPT ![h] = {}]
         /\ DOMAIN counters' \subseteq Rate!CounterKey
         /\ \A key \in DOMAIN counters' : counters'[key] \in Nat \ {0}
<1> DEFINE keys == consumed[h]
<1>1. /\ consumed \in [Handlers -> SUBSET Rate!CounterKey]
      /\ consumed' = [consumed EXCEPT ![h] = {}] /\ clock' = clock
      /\ counters' = [key \in {k \in DOMAIN counters : ~(k \in keys /\ counters[k] <= 1)} |->
           IF key \in keys THEN counters[key] - 1 ELSE counters[key]]
  BY DEF Types, Rate!Rollback, Rate!GiveBack
<1>2. \A key \in DOMAIN counters : counters[key] \in Nat \ {0} /\ key \in Rate!CounterKey
  BY DEF Types
<1>3. ASSUME NEW key \in Rate!CounterKey
      PROVE  /\ ~Rate!Expired(key)' => Rate!Count(key)' = Used(key)'
             /\ Used(key)' <= RuleLimit[key.rule]
  <2>1. /\ ~Rate!Expired(key) => Rate!Count(key) = Used(key)
        /\ Used(key) <= RuleLimit[key.rule] /\ Rate!Expired(key)' = Rate!Expired(key)
        /\ AcceptedIn(key)' = AcceptedIn(key) /\ key.rule \in Rules
           /\ RuleLimit[key.rule] \in Nat
    BY <1>1, RuleLimitAssumption DEF Quota, Rate!Expired, AcceptedIn, Rate!CounterKey
  <2>2. CASE key \in keys
    <3>1. InFlight(key)' = InFlight(key) \ {h} /\ h \in InFlight(key)
      BY <1>1, <2>2, InFlightAfter DEF InFlight
    <3>2. Used(key)' = Used(key) - 1 /\ Used(key) >= 1
      BY <2>1, <3>1, UsedParts, Counting DEF Used
    <3>3. ASSUME ~Rate!Expired(key) PROVE Rate!Count(key)' = Rate!Count(key) - 1
      <4>1. key \in DOMAIN counters /\ Rate!Count(key) = counters[key]
        BY <2>1, <3>2, <3>3 DEF Rate!Count, Rate!Running
      <4>2. CASE counters[key] <= 1
        BY <1>1, <1>2, <2>2, <4>1, <4>2 DEF Rate!Count, Rate!Running
      <4>3. CASE ~(counters[key] <= 1)
        BY <1>1, <1>2, <2>1, <2>2, <3>3, <4>1, <4>3 DEF Rate!Count, Rate!Running
      <4> QED
        BY <4>2, <4>3
    <3> QED
      BY <2>1, <3>2, <3>3, UsedParts
  <2>3. CASE key \notin keys
    <3>1. InFlight(key)' = InFlight(key)
      BY <1>1, <2>3, InFlightAfter DEF InFlight
    <3>2. Used(key)' = Used(key)
      BY <2>1, <3>1 DEF Used
    <3>3. Rate!Count(key)' = Rate!Count(key)
      BY <1>1, <2>1, <2>3 DEF Rate!Count, Rate!Running
    <3> QED
      BY <2>1, <3>2, <3>3
  <2> QED
    BY <2>2, <2>3
<1>4. Quota'
  BY <1>3 DEF Quota, Rate!CounterKey
<1> QED
  BY <1>1, <1>2, <1>4

(* An accepted request goes from those in flight to those accepted. *)
LEMMA RateKeeps ==
  ASSUME Types, Quota, NEW h \in Handlers, NEW m \in Messages, Rate!Keep(h),
         \A c \in charged : c.message # m,
         charged' = charged \cup {[message |-> m, counter |-> key] : key \in consumed[h]}
  PROVE  /\ Quota' /\ UNCHANGED <<clock, counters>>
         /\ consumed' = [consumed EXCEPT ![h] = {}]
<1>1. /\ consumed \in [Handlers -> SUBSET Rate!CounterKey]
      /\ consumed' = [consumed EXCEPT ![h] = {}] /\ UNCHANGED <<clock, counters>>
  BY DEF Types, Rate!Keep
<1>2. ASSUME NEW key \in Rate!CounterKey
      PROVE  Used(key)' = Used(key)
  <2>1. CASE key \in consumed[h]
    <3>1. InFlight(key)' = InFlight(key) \ {h} /\ h \in InFlight(key)
      BY <1>1, <2>1, InFlightAfter DEF InFlight
    <3>2. AcceptedIn(key)' = AcceptedIn(key) \cup {m} /\ m \notin AcceptedIn(key)
      BY <2>1 DEF AcceptedIn
    <3> QED
      BY <3>1, <3>2, UsedParts, Counting DEF Used
  <2>2. CASE key \notin consumed[h]
    <3>1. InFlight(key)' = InFlight(key)
      BY <1>1, <2>2, InFlightAfter DEF InFlight
    <3>2. AcceptedIn(key)' = AcceptedIn(key)
      BY <2>2 DEF AcceptedIn
    <3> QED
      BY <3>1, <3>2 DEF Used
  <2> QED
    BY <2>1, <2>2
<1> QED
  BY <1>1, <1>2 DEF Quota, Rate!Count, Rate!Running, Rate!Expired, Rate!CounterKey

(* Time only ends windows. *)
LEMMA RateTicks ==
  ASSUME Quota, clock \in Nat, clock' = clock + 1, UNCHANGED <<rateVars, charged>>
  PROVE  Quota'
<1>1. \A key : InFlight(key)' = InFlight(key) /\ AcceptedIn(key)' = AcceptedIn(key)
  BY DEF InFlight, AcceptedIn, rateVars
<1>2. \A key : Used(key)' = Used(key)
  BY <1>1 DEF Used
<1>3. ASSUME NEW key \in Rate!CounterKey, ~Rate!Expired(key)'
      PROVE  ~Rate!Expired(key) /\ Rate!Count(key)' = Rate!Count(key)
  <2>1. key.start + Window[key.rule] \in Nat
    BY WindowAssumption DEF Rate!CounterKey
  <2> QED
    BY <1>3, <2>1 DEF Rate!Expired, Rate!Count, Rate!Running, rateVars
<1> QED
  BY <1>2, <1>3 DEF Quota, Rate!CounterKey

(* What is in a message's log. *)
LEMMA Statuses ==
  /\ <<"queued">> # << >> /\ <<"queued", "failed">> # << >>
     /\ <<"queued", "failed">> # <<"queued">>
  /\ Append(<<"queued">>, "failed") = <<"queued", "failed">>
<1> DEFINE S == {"queued", "failed"}
<1>1. <<"queued">> \in Seq(S) /\ Len(<<"queued">>) = 1 /\ <<"queued">>[1] = "queued"
  OBVIOUS
<1>2. /\ <<"queued", "failed">> \in Seq(S) /\ Len(<<"queued", "failed">>) = 2
      /\ <<"queued", "failed">>[1] = "queued" /\ <<"queued", "failed">>[2] = "failed"
  OBVIOUS
<1> HIDE DEF S
<1>3. "failed" \in S
  BY DEF S
<1>4. /\ Append(<<"queued">>, "failed") \in Seq(S) /\ Len(Append(<<"queued">>, "failed")) = 2
      /\ Append(<<"queued">>, "failed")[1] = "queued"
         /\ Append(<<"queued">>, "failed")[2] = "failed"
  BY <1>1, <1>3, AppendProperties
<1>5. \A i \in 1..2 : Append(<<"queued">>, "failed")[i] = <<"queued", "failed">>[i]
  <2>1. \A i \in 1..2 : i = 1 \/ i = 2
    OBVIOUS
  <2> QED
    BY <1>2, <1>4, <2>1
<1>6. Append(<<"queued">>, "failed") = <<"queued", "failed">>
  BY <1>2, <1>4, <1>5, SeqEqual
<1>7. <<"queued">> # << >> /\ <<"queued", "failed">> # << >>
      /\ <<"queued", "failed">> # <<"queued">>
  OBVIOUS
<1> QED
  BY <1>6, <1>7

(* A step that writes nothing, generates no message and commits no task.   *)
LEMMA JournalKept ==
  ASSUME Types, Locals, Journal, UNCHANGED <<log, carried, completed, charged>>,
         ~open => ~open', stuck => stuck',
         NEW h \in Handlers, \A g \in Handlers \ {h} : pc'[g] = pc[g],
         \A g \in Handlers \ {h} : message'[g] = message[g],
         message'[h] # Cache!NoMessage => message'[h] = message[h],
         pc[h] # "complete", pc[h] # "commit" \/ ~open, pc'[h] \notin {"complete", "commit"},
         pc'[h] = "logFailed" => pc[h] = "commit" /\ ~open
  PROVE  Journal'
<1>1. Committed' = Committed
  BY DEF Committed
<1>2. \A m, k \in Messages : log'[m] # << >> /\ k < m => log'[k] # << >>
  BY DEF Journal
<1>3. ASSUME NEW g \in Handlers, message'[g] # Cache!NoMessage
      PROVE  Owns(g)'
  <2>1. message'[g] = message[g] /\ Owns(g)
    BY <1>3 DEF Journal
  <2> QED
    BY <1>1, <1>3, <2>1 DEF Owns
<1>4. LogAgreesWithQueue'
  <2>1. ASSUME NEW i \in DOMAIN carried
        PROVE  \/ \E a \in completed : a.message = carried[i]
               \/ \E g \in Handlers : pc'[g] = "complete" /\ message'[g] = carried[i]
    BY <1>1 DEF Journal, LogAgreesWithQueue
  <2>2. open' => open /\ Stranded' \subseteq Stranded
    BY DEF Stranded
  <2> QED
    BY <2>1, <2>2 DEF Journal, LogAgreesWithQueue
<1>5. \A c \in charged' : \E a \in completed' : a.message = c.message
  BY DEF Journal
<1> QED
  BY <1>2, <1>3, <1>4, <1>5 DEF Journal

(* A step of no handler. *)
LEMMA JournalUntouched ==
  ASSUME Journal, UNCHANGED <<log, stuck, carried, completed, charged, pc, message>>,
         ~open => ~open'
  PROVE  Journal'
<1>1. Committed' = Committed
  BY DEF Committed
<1>2. LogAgreesWithQueue'
  BY DEF Journal, LogAgreesWithQueue, Stranded
<1> QED
  BY <1>1, <1>2 DEF Journal, Owns

(* A step that accepts no message, and leaves every reservation it does    *)
(* not give back as it was.                                                *)
LEMMA AnswersKept ==
  ASSUME Answers, clock \in Nat, clock' = clock \/ clock' = clock + 1,
         completed \subseteq [key : Keys, fingerprint : Fingerprints, message : Messages, at : Nat],
         completed' = completed, evicted \subseteq evicted',
         \A h \in Handlers : pc'[h] # "idle" =>
           /\ pc[h] # "idle" /\ held'[h] = held[h] /\ request'[h] = request[h]
           /\ message'[h] = message[h]
              /\ entries'[held[h]].fingerprint = entries[held[h]].fingerprint
  PROVE  Answers'
<1>1. \A a \in completed : a.at <= clock - TTL => a.at <= clock' - TTL
  BY CacheAssumption
<1>2. AcceptedOncePerKey'
  BY DEF Answers, AcceptedOncePerKey
<1> QED
  BY <1>1, <1>2 DEF Answers

(* A recipient that may be sent to.                                        *)
LEMMA RecipientAcceptedStep ==
  ASSUME IInv, NEW h \in Handlers, RecipientAccepted(h)
  PROVE  IInv'
<1> USE DEF IInv
<1>1. Cached!IInv'
  BY CacheKept DEF RecipientAccepted, Goto, cacheVars
<1>2. Quota'
  BY QuotaKept DEF RecipientAccepted, Goto, rateVars
<1>3. Types'
  BY CacheFacts DEF Types, Stages, RecipientAccepted, Goto, rateVars
<1>4. Locals'
  BY CacheFacts DEF Locals, RecipientAccepted, Goto, cacheVars, rateVars, queueVars
<1>5. Journal'
  <2>1. /\ pc[h] \notin {"complete", "commit"} \/ (pc[h] = "commit" /\ ~open)
        /\ pc'[h] \notin {"complete", "commit"}
           /\ (pc'[h] = "logFailed" => pc[h] = "commit" /\ ~open)
        /\ \A g \in Handlers \ {h} : pc'[g] = pc[g]
    BY DEF Types, RecipientAccepted, Goto
  <2>2. /\ UNCHANGED <<log, carried, completed, charged>>
        /\ (~open => ~open') /\ (stuck => stuck')
        /\ \A g \in Handlers \ {h} : message'[g] = message[g]
        /\ (message'[h] # Cache!NoMessage => message'[h] = message[h])
    BY <2>1 DEF Types, RecipientAccepted, cacheVars, queueVars
  <2> QED
    BY <2>1, <2>2, JournalKept
<1>6. Answers'
  BY CacheFacts DEF Answers, AcceptedOncePerKey, RecipientAccepted, Goto, cacheVars
<1> QED
  BY <1>1, <1>2, <1>3, <1>4, <1>5, <1>6

(* A recipient that is suppressed, or no route.                            *)
LEMMA RecipientRefusedStep ==
  ASSUME IInv, NEW h \in Handlers, RecipientRefused(h)
  PROVE  IInv'
<1> USE DEF IInv
<1>1. Cached!IInv'
  BY CacheKept DEF RecipientRefused, Goto, cacheVars
<1>2. Quota'
  BY QuotaKept DEF RecipientRefused, Goto, rateVars
<1>3. Types'
  BY CacheFacts DEF Types, Stages, RecipientRefused, Goto, rateVars
<1>4. Locals'
  BY CacheFacts DEF Locals, RecipientRefused, Goto, cacheVars, rateVars, queueVars
<1>5. Journal'
  <2>1. /\ pc[h] \notin {"complete", "commit"} \/ (pc[h] = "commit" /\ ~open)
        /\ pc'[h] \notin {"complete", "commit"}
           /\ (pc'[h] = "logFailed" => pc[h] = "commit" /\ ~open)
        /\ \A g \in Handlers \ {h} : pc'[g] = pc[g]
    BY DEF Types, RecipientRefused, Goto
  <2>2. /\ UNCHANGED <<log, carried, completed, charged>>
        /\ (~open => ~open') /\ (stuck => stuck')
        /\ \A g \in Handlers \ {h} : message'[g] = message[g]
        /\ (message'[h] # Cache!NoMessage => message'[h] = message[h])
    BY <2>1 DEF Types, RecipientRefused, cacheVars, queueVars
  <2> QED
    BY <2>1, <2>2, JournalKept
<1>6. Answers'
  BY CacheFacts DEF Answers, AcceptedOncePerKey, RecipientRefused, Goto, cacheVars
<1> QED
  BY <1>1, <1>2, <1>3, <1>4, <1>5, <1>6

(* A slot in the queue is claimed.                                         *)
LEMMA ReserveSlotStep ==
  ASSUME IInv, NEW h \in Handlers, ReserveSlot(h)
  PROVE  IInv'
<1> USE DEF IInv
<1>1. Cached!IInv'
  BY CacheKept DEF ReserveSlot, Goto, Queue!Claim, cacheVars
<1>2. Quota'
  BY QuotaKept DEF ReserveSlot, Goto, Queue!Claim, rateVars
<1>3. Types'
  BY CacheFacts DEF Types, Stages, ReserveSlot, Goto, Queue!Claim, rateVars
<1>4. Locals'
  BY CacheFacts DEF Locals, Types, ReserveSlot, Goto, Queue!Claim, cacheVars, rateVars
<1>5. Journal'
  <2>1. /\ pc[h] \notin {"complete", "commit"} \/ (pc[h] = "commit" /\ ~open)
        /\ pc'[h] \notin {"complete", "commit"}
           /\ (pc'[h] = "logFailed" => pc[h] = "commit" /\ ~open)
        /\ \A g \in Handlers \ {h} : pc'[g] = pc[g]
    BY DEF ReserveSlot, Goto, Queue!Claim, queueVars
  <2>2. /\ UNCHANGED <<log, carried, completed, charged>>
        /\ (~open => ~open') /\ (stuck => stuck')
        /\ \A g \in Handlers \ {h} : message'[g] = message[g]
        /\ (message'[h] # Cache!NoMessage => message'[h] = message[h])
    BY <2>1 DEF ReserveSlot, Queue!Claim, cacheVars
  <2> QED
    BY <2>1, <2>2, JournalKept
<1>6. Answers'
  BY CacheFacts DEF Answers, AcceptedOncePerKey, ReserveSlot, Goto, Queue!Claim, cacheVars
<1> QED
  BY <1>1, <1>2, <1>3, <1>4, <1>5, <1>6

(* No slot in the queue.                                                   *)
LEMMA NoSlotStep ==
  ASSUME IInv, NEW h \in Handlers, NoSlot(h)
  PROVE  IInv'
<1> USE DEF IInv
<1>1. Cached!IInv'
  BY CacheKept DEF NoSlot, Goto, cacheVars
<1>2. Quota'
  BY QuotaKept DEF NoSlot, Goto, rateVars
<1>3. Types'
  BY CacheFacts DEF Types, Stages, NoSlot, Goto, rateVars
<1>4. Locals'
  BY CacheFacts DEF Locals, NoSlot, Goto, cacheVars, rateVars, queueVars
<1>5. Journal'
  <2>1. /\ pc[h] \notin {"complete", "commit"} \/ (pc[h] = "commit" /\ ~open)
        /\ pc'[h] \notin {"complete", "commit"}
           /\ (pc'[h] = "logFailed" => pc[h] = "commit" /\ ~open)
        /\ \A g \in Handlers \ {h} : pc'[g] = pc[g]
    BY DEF Types, NoSlot, Goto
  <2>2. /\ UNCHANGED <<log, carried, completed, charged>>
        /\ (~open => ~open') /\ (stuck => stuck')
        /\ \A g \in Handlers \ {h} : message'[g] = message[g]
        /\ (message'[h] # Cache!NoMessage => message'[h] = message[h])
    BY <2>1 DEF Types, NoSlot, cacheVars, queueVars
  <2> QED
    BY <2>1, <2>2, JournalKept
<1>6. Answers'
  BY CacheFacts DEF Answers, AcceptedOncePerKey, NoSlot, Goto, cacheVars
<1> QED
  BY <1>1, <1>2, <1>3, <1>4, <1>5, <1>6

(* Quota is consumed under each rule.                                      *)
LEMMA ConsumeQuotaStep ==
  ASSUME IInv, NEW h \in Handlers, ConsumeQuota(h)
  PROVE  IInv'
<1> USE DEF IInv
<1>1. Cached!IInv' /\ clock' = clock
  BY CacheKept DEF ConsumeQuota, Goto, cacheVars, Rate!Allow
<1>2. /\ Quota'
      /\ consumed' \in [Handlers -> SUBSET Rate!CounterKey]
      /\ consumed' = [consumed EXCEPT ![h] = Rate!Checks(request[h].subjects)]
      /\ DOMAIN counters' \subseteq Rate!CounterKey
      /\ \A key \in DOMAIN counters' : counters'[key] \in Nat \ {0}
  BY CacheFacts, RateAllows DEF ConsumeQuota, Goto, Locals, Types
<1>3. Types'
  BY CacheFacts, <1>1, <1>2 DEF Types, Stages, ConsumeQuota, Goto
<1>4. Locals'
  BY CacheFacts, <1>1, <1>2 DEF Locals, Types, ConsumeQuota, Goto, cacheVars, queueVars
<1>5. Journal'
  <2>1. /\ pc[h] \notin {"complete", "commit"} \/ (pc[h] = "commit" /\ ~open)
        /\ pc'[h] \notin {"complete", "commit"}
           /\ (pc'[h] = "logFailed" => pc[h] = "commit" /\ ~open)
        /\ \A g \in Handlers \ {h} : pc'[g] = pc[g]
    BY DEF Types, ConsumeQuota, Goto
  <2>2. /\ UNCHANGED <<log, carried, completed, charged>>
        /\ (~open => ~open') /\ (stuck => stuck')
        /\ \A g \in Handlers \ {h} : message'[g] = message[g]
        /\ (message'[h] # Cache!NoMessage => message'[h] = message[h])
    BY <1>2, <2>1 DEF Types, ConsumeQuota, cacheVars, queueVars
  <2> QED
    BY <2>1, <2>2, JournalKept
<1>6. Answers'
  BY CacheFacts, <1>1, <1>2 DEF Answers, AcceptedOncePerKey, ConsumeQuota, Goto, cacheVars
<1> QED
  BY <1>1, <1>2, <1>3, <1>4, <1>5, <1>6

(* Some rule is exceeded.                                                  *)
LEMMA OverQuotaStep ==
  ASSUME IInv, NEW h \in Handlers, OverQuota(h)
  PROVE  IInv'
<1> USE DEF IInv
<1>1. Cached!IInv' /\ clock' = clock
  BY CacheKept DEF OverQuota, Goto, cacheVars, Rate!Deny
<1>2. /\ Quota' /\ UNCHANGED <<clock, consumed>>
      /\ DOMAIN counters' \subseteq Rate!CounterKey
      /\ \A key \in DOMAIN counters' : counters'[key] \in Nat \ {0}
  BY RateDenies DEF OverQuota, Goto, Locals, Types
<1>3. Types'
  BY CacheFacts, <1>1, <1>2 DEF Types, Stages, OverQuota, Goto, AfterDenied
<1>4. Locals'
  BY CacheFacts, <1>1, <1>2 DEF Locals, OverQuota, Goto, AfterDenied, cacheVars, queueVars
<1>5. Journal'
  <2>1. /\ pc[h] \notin {"complete", "commit"} \/ (pc[h] = "commit" /\ ~open)
        /\ pc'[h] \notin {"complete", "commit"}
           /\ (pc'[h] = "logFailed" => pc[h] = "commit" /\ ~open)
        /\ \A g \in Handlers \ {h} : pc'[g] = pc[g]
    BY DEF Types, OverQuota, Goto, AfterDenied
  <2>2. /\ UNCHANGED <<log, carried, completed, charged>>
        /\ (~open => ~open') /\ (stuck => stuck')
        /\ \A g \in Handlers \ {h} : message'[g] = message[g]
        /\ (message'[h] # Cache!NoMessage => message'[h] = message[h])
    BY <1>2, <2>1 DEF OverQuota, AfterDenied, cacheVars, queueVars
  <2> QED
    BY <2>1, <2>2, JournalKept
<1>6. Answers'
  BY CacheFacts, <1>1, <1>2 DEF Answers, AcceptedOncePerKey, OverQuota, Goto, AfterDenied,
     cacheVars
<1> QED
  BY <1>1, <1>2, <1>3, <1>4, <1>5, <1>6

(* The queued record names a message no one has.  A handler goes on with   *)
(* its commit, or its append was the first to fail.                        *)
LEMMA QueuedLogged ==
  ASSUME IInv, NEW h \in Handlers, NEW next \in {"commit", "rollback"}, Goto(h, "log", next),
         ~stuck, LogQueued(h), next = "rollback" => stuck',
         UNCHANGED <<clock, cacheVars, rateVars, queueVars, request, carried, charged>>
  PROVE  IInv'
<1> USE DEF IInv
<1>0. PICK m \in Messages :
        /\ FreshMessage(m)
        /\ \A earlier \in 1..(m - 1) : ~FreshMessage(earlier)
        /\ message' = [message EXCEPT ![h] = m]
        /\ log' = [log EXCEPT ![m] = <<"queued">>]
  BY DEF LogQueued
<1>a. /\ m # Cache!NoMessage /\ log[m] = << >> /\ message[h] = Cache!NoMessage
      /\ pc[h] = "log" /\ pc' = [pc EXCEPT ![h] = next]
      /\ \A g \in Handlers : message[g] # m
      /\ m \notin Committed
      /\ \A a \in completed : a.message < m /\ a.message \in Nat
      /\ \A k \in Messages : k < m => log[k] # << >>
  <2>1. m # Cache!NoMessage /\ log[m] = << >> /\ message[h] = Cache!NoMessage
        /\ \A g \in Handlers : message[g] # m
    BY <1>0 DEF FreshMessage, Locals, Goto, Messages, Cache!NoMessage
  <2>2. m \notin Committed
    BY <2>1, Statuses DEF Journal, LogAgreesWithQueue, Committed
  <2>3. ASSUME NEW a \in completed PROVE a.message < m /\ a.message \in Nat
    <3>1. a.message \in Messages
      BY CacheFacts
    <3>2. log[a.message] = <<"queued">> /\ a.message \in Committed
      BY DEF Journal, LogAgreesWithQueue, Committed
    <3>3. ~(m < a.message)
      BY <2>1, <3>1, <3>2, Statuses DEF Journal
    <3> QED
      BY <2>2, <3>1, <3>2, <3>3 DEF Messages
  <2>4. ASSUME NEW k \in Messages, k < m PROVE log[k] # << >>
    <3>1. k \in 1..(m - 1)
      BY <2>4 DEF Messages
    <3>2. CASE \E g \in Handlers : message[g] = k
      <4>1. k # Cache!NoMessage
        BY DEF Messages, Cache!NoMessage
      <4> QED
        BY <3>2, <4>1 DEF Journal, Owns
    <3> QED
      BY <1>0, <3>1, <3>2 DEF FreshMessage
  <2> QED
    BY <2>1, <2>2, <2>3, <2>4 DEF Goto
<1>1. Cached!IInv'
  BY CacheKept DEF Goto, cacheVars
<1>2. Quota'
  BY QuotaKept DEF Goto, rateVars
<1>3. Types'
  BY CacheFacts, <1>0, <1>a DEF Types, Stages, rateVars
<1>4. Locals'
  BY CacheFacts, <1>0, <1>a DEF Locals, Types, cacheVars, rateVars, queueVars
<1>5. Journal'
  <2>1. /\ \A k \in Messages : log'[k] = IF k = m THEN <<"queued">> ELSE log[k]
        /\ \A g \in Handlers : message'[g] = IF g = h THEN m ELSE message[g]
        /\ \A g \in Handlers : pc'[g] = IF g = h THEN next ELSE pc[g]
        /\ Committed' = Committed /\ UNCHANGED <<carried, completed, charged, open>>
    BY <1>0, <1>a DEF Types, Committed, cacheVars, queueVars
  <2>2. \A n, k \in Messages : log'[n] # << >> /\ k < n => log'[k] # << >>
    BY <1>a, <2>1, Statuses DEF Journal
  <2>3. ASSUME NEW g \in Handlers, message'[g] # Cache!NoMessage
        PROVE  Owns(g)'
    <3>1. CASE g = h
      BY <1>a, <2>1, <3>1, Statuses DEF Owns
    <3>2. CASE g # h
      <4>1. message[g] \in Messages /\ message[g] # m /\ Owns(g)
        BY <1>a, <2>1, <2>3, <3>2 DEF Types, Journal
      <4> QED
        BY <1>a, <2>1, <3>2, <4>1 DEF Owns
    <3> QED
      BY <3>1, <3>2
  <2>4. LogAgreesWithQueue'
    <3>1. \A i \in DOMAIN carried : carried[i] \in Messages /\ carried[i] # m
      BY <1>a DEF Types, Committed
    <3>2. \A i \in DOMAIN carried : log'[carried[i]] = <<"queued">>
      BY <2>1, <3>1 DEF Journal, LogAgreesWithQueue
    <3>3. ASSUME NEW i \in DOMAIN carried
          PROVE  \/ \E a \in completed : a.message = carried[i]
                 \/ \E g \in Handlers : pc'[g] = "complete" /\ message'[g] = carried[i]
      BY <1>a, <2>1 DEF Journal, LogAgreesWithQueue
    <3>4. open => \A k, n \in Stranded' : stuck' /\ k = n
      <4>1. open => Stranded = {}
        BY DEF Journal, LogAgreesWithQueue
      <4>2. Stranded' \subseteq Stranded \cup {m}
        BY <1>a, <2>1 DEF Stranded
      <4>3. m \in Stranded' => stuck'
        BY <2>1 DEF Stranded
      <4> QED
        BY <4>1, <4>2, <4>3
    <3> QED
      BY <2>1, <3>2, <3>3, <3>4 DEF Journal, LogAgreesWithQueue
  <2> QED
    BY <2>1, <2>2, <2>3, <2>4 DEF Journal
<1>6. Answers'
  <2>1. /\ UNCHANGED <<clock, entries, held, completed, evicted, request>>
        /\ \A g \in Handlers : message'[g] = IF g = h THEN m ELSE message[g]
        /\ \A g \in Handlers : pc'[g] # "idle" => pc[g] # "idle"
    BY <1>0, <1>a DEF Types, cacheVars
  <2> QED
    BY <1>a, <2>1 DEF Answers, AcceptedOncePerKey
<1> QED
  BY <1>1, <1>2, <1>3, <1>4, <1>5, <1>6

(* The queued record is written.                                           *)
LEMMA AppendQueuedStep ==
  ASSUME IInv, NEW h \in Handlers, AppendQueued(h)
  PROVE  IInv'
  BY QueuedLogged DEF AppendQueued

(* The queued record cannot be written, or is but for its newline.         *)
LEMMA AppendQueuedFailsStep ==
  ASSUME IInv, NEW h \in Handlers, AppendQueuedFails(h)
  PROVE  IInv'
<1>a. CASE ~stuck /\ stuck' = TRUE /\ LogQueued(h)
  BY <1>a, QueuedLogged DEF AppendQueuedFails
<1>b. SUFFICES ASSUME UNCHANGED <<log, message>> PROVE IInv'
  BY <1>a DEF AppendQueuedFails
<1> USE <1>b DEF IInv
<1>1. Cached!IInv'
  BY CacheKept DEF AppendQueuedFails, Goto, cacheVars
<1>2. Quota'
  BY QuotaKept DEF AppendQueuedFails, Goto, rateVars
<1>3. Types'
  BY CacheFacts DEF Types, Stages, AppendQueuedFails, Goto, rateVars
<1>4. Locals'
  BY CacheFacts DEF Locals, AppendQueuedFails, Goto, cacheVars, rateVars, queueVars
<1>5. Journal'
  <2>1. /\ pc[h] \notin {"complete", "commit"} \/ (pc[h] = "commit" /\ ~open)
        /\ pc'[h] \notin {"complete", "commit"}
           /\ (pc'[h] = "logFailed" => pc[h] = "commit" /\ ~open)
        /\ \A g \in Handlers \ {h} : pc'[g] = pc[g]
    BY DEF Types, AppendQueuedFails, Goto
  <2>2. /\ UNCHANGED <<log, carried, completed, charged>>
        /\ (~open => ~open') /\ (stuck => stuck')
        /\ \A g \in Handlers \ {h} : message'[g] = message[g]
        /\ (message'[h] # Cache!NoMessage => message'[h] = message[h])
    BY <2>1 DEF Types, AppendQueuedFails, cacheVars, queueVars
  <2> QED
    BY <2>1, <2>2, JournalKept
<1>6. Answers'
  BY CacheFacts DEF Answers, AcceptedOncePerKey, AppendQueuedFails, Goto, cacheVars
<1> QED
  BY <1>1, <1>2, <1>3, <1>4, <1>5, <1>6

(* The task is in the queue.                                               *)
LEMMA CommitStep ==
  ASSUME IInv, NEW h \in Handlers, Commit(h)
  PROVE  IInv'
<1> USE DEF IInv
<1>0. /\ message[h] \in Messages /\ message[h] # Cache!NoMessage
         /\ log[message[h]] = <<"queued">>
      /\ message[h] \notin Committed
      /\ \A g \in Handlers : message[g] = message[h] => g = h
      /\ pc[h] = "commit" /\ open
      /\ carried' \in Seq(Messages) /\ DOMAIN carried' = DOMAIN carried \cup {Len(carried) + 1}
      /\ Len(carried) + 1 \notin DOMAIN carried /\ carried'[Len(carried) + 1] = message[h]
      /\ \A i \in DOMAIN carried : carried'[i] = carried[i]
  <2>1. pc[h] = "commit" /\ open /\ message[h] \in Messages /\ message[h] # Cache!NoMessage
    BY DEF Commit, Goto, Locals, Messages, Cache!NoMessage, Queue!Put
  <2>2. log[message[h]] = <<"queued">> /\ message[h] \notin Committed
        /\ \A g \in Handlers : message[g] = message[h] => g = h
    BY <2>1 DEF Journal, Owns
  <2>3. carried' = Append(carried, message[h]) /\ carried \in Seq(Messages)
    BY DEF Commit, Types
  <2> QED
    BY <2>1, <2>2, <2>3
<1>1. Cached!IInv'
  BY CacheKept DEF Commit, Goto, Queue!Put, cacheVars
<1>2. Quota'
  BY QuotaKept DEF Commit, Goto, Queue!Put, rateVars
<1>3. Types'
  BY <1>0 DEF Types, Stages, Commit, Goto, rateVars
<1>4. Locals'
  BY CacheFacts, <1>0 DEF Locals, Commit, Goto, Queue!Put, cacheVars, rateVars
<1>5. Journal'
  <2>1. /\ Committed' = Committed \cup {message[h]}
        /\ UNCHANGED <<log, message, completed, charged>> /\ open'
        /\ \A g \in Handlers : pc'[g] = IF g = h THEN "complete" ELSE pc[g]
    BY <1>0 DEF Types, Committed, Commit, Goto, Queue!Put, cacheVars
  <2>2. \A m, k \in Messages : log'[m] # << >> /\ k < m => log'[k] # << >>
    BY <2>1 DEF Journal
  <2>3. ASSUME NEW g \in Handlers, message'[g] # Cache!NoMessage
        PROVE  Owns(g)'
    <3>1. Owns(g)
      BY <2>1, <2>3 DEF Journal
    <3>2. CASE g = h
      BY <1>0, <2>1, <3>1, <3>2 DEF Owns
    <3>3. CASE g # h
      BY <1>0, <2>1, <3>1, <3>3 DEF Owns
    <3> QED
      BY <3>2, <3>3
  <2>4. LogAgreesWithQueue'
    <3>1. \A i \in DOMAIN carried : carried[i] # message[h]
      BY <1>0 DEF Committed
    <3>2. \A i, j \in DOMAIN carried' : carried'[i] = carried'[j] => i = j
      BY <1>0, <3>1 DEF Journal, LogAgreesWithQueue
    <3>3. \A i \in DOMAIN carried' : log'[carried'[i]] = <<"queued">>
      BY <1>0, <2>1 DEF Journal, LogAgreesWithQueue
    <3>4. \A a \in completed' : \E i \in DOMAIN carried' : carried'[i] = a.message
      BY <1>0, <2>1 DEF Journal, LogAgreesWithQueue
    <3>5. ASSUME NEW i \in DOMAIN carried'
          PROVE  \/ \E a \in completed : a.message = carried'[i]
                 \/ \E g \in Handlers : pc'[g] = "complete" /\ message[g] = carried'[i]
      <4>1. CASE i \in DOMAIN carried
        BY <1>0, <2>1, <4>1 DEF Journal, LogAgreesWithQueue
      <4>2. CASE i = Len(carried) + 1
        BY <1>0, <2>1, <4>2
      <4> QED
        BY <1>0, <4>1, <4>2
    <3>6. Stranded' \subseteq Stranded
      BY <1>0, <2>1 DEF Stranded
    <3>7. stuck' = stuck
      BY DEF Commit
    <3>8. \A m, n \in Stranded' : stuck' /\ m = n
      BY <1>0, <3>6, <3>7 DEF Journal, LogAgreesWithQueue
    <3> QED
      BY <2>1, <3>2, <3>3, <3>4, <3>5, <3>8 DEF LogAgreesWithQueue
  <2> QED
    BY <2>1, <2>2, <2>3, <2>4 DEF Journal
<1>6. Answers'
  BY CacheFacts, <1>0 DEF Answers, AcceptedOncePerKey, Commit, Goto, Queue!Put, cacheVars
<1> QED
  BY <1>1, <1>2, <1>3, <1>4, <1>5, <1>6

(* The queue was closed under the handler.                                 *)
LEMMA CommitRefusedStep ==
  ASSUME IInv, NEW h \in Handlers, CommitRefused(h)
  PROVE  IInv'
<1> USE DEF IInv
<1>1. Cached!IInv'
  BY CacheKept DEF CommitRefused, Goto, Queue!GiveBack, AfterRefused, cacheVars
<1>2. Quota'
  BY QuotaKept DEF CommitRefused, Goto, Queue!GiveBack, AfterRefused, rateVars
<1>3. Types'
  BY CacheFacts DEF Types, Stages, CommitRefused, Goto, Queue!GiveBack, AfterRefused, cacheVars,
     rateVars, queueVars, ownVars
<1>4. Locals'
  BY CacheFacts DEF Locals, Types, CommitRefused, Goto, Queue!GiveBack, AfterRefused, cacheVars,
     rateVars, queueVars, ownVars
<1>5. Journal'
  <2>1. /\ pc[h] \notin {"complete", "commit"} \/ (pc[h] = "commit" /\ ~open)
        /\ pc'[h] \notin {"complete", "commit"}
           /\ (pc'[h] = "logFailed" => pc[h] = "commit" /\ ~open)
        /\ \A g \in Handlers \ {h} : pc'[g] = pc[g]
    BY DEF Types, CommitRefused, Goto, Queue!GiveBack, AfterRefused
  <2>2. /\ UNCHANGED <<log, carried, completed, charged>>
        /\ (~open => ~open') /\ (stuck => stuck')
        /\ \A g \in Handlers \ {h} : message'[g] = message[g]
        /\ (message'[h] # Cache!NoMessage => message'[h] = message[h])
    BY <2>1 DEF Types, CommitRefused, Queue!GiveBack, AfterRefused, cacheVars, queueVars
  <2> QED
    BY <2>1, <2>2, JournalKept
<1>6. Answers'
  BY CacheFacts DEF Answers, AcceptedOncePerKey, Types, Locals, CommitRefused, Goto,
     Queue!GiveBack, AfterRefused, cacheVars, rateVars, queueVars, ownVars
<1> QED
  BY <1>1, <1>2, <1>3, <1>4, <1>5, <1>6

(* The failed record, written or not.                                      *)
LEMMA AppendFailedStep ==
  ASSUME IInv, NEW h \in Handlers, AppendFailed(h)
  PROVE  IInv'
<1> USE DEF IInv
<1>0. /\ message[h] \in Messages /\ log[message[h]] = <<"queued">> /\ ~open
      /\ message[h] \notin Committed /\ message[h] # Cache!NoMessage
      /\ \A g \in Handlers : message[g] = message[h] => g = h
      /\ log' = log \/ log' = [log EXCEPT ![message[h]] = <<"queued", "failed">>]
      /\ pc' = [pc EXCEPT ![h] = "rollback"] /\ pc[h] = "logFailed"
      /\ UNCHANGED <<clock, cacheVars, rateVars, queueVars, request, message, carried, charged>>
  <2>1. pc[h] = "logFailed" /\ message[h] \in Messages /\ message[h] # Cache!NoMessage
    BY DEF AppendFailed, Goto, Locals, Messages, Cache!NoMessage
  <2>2. log[message[h]] = <<"queued">> /\ ~open /\ message[h] \notin Committed
        /\ \A g \in Handlers : message[g] = message[h] => g = h
    BY <2>1 DEF Journal, Owns
  <2> QED
    BY <2>1, <2>2, Statuses DEF AppendFailed, Goto
<1>1. Cached!IInv'
  BY CacheKept DEF AppendFailed, Goto, cacheVars
<1>2. Quota'
  BY QuotaKept DEF AppendFailed, Goto, rateVars
<1>3. Types'
  BY <1>0 DEF Types, Stages, rateVars
<1>4. Locals'
  BY CacheFacts, <1>0 DEF Locals, AppendFailed, cacheVars, rateVars, queueVars
<1>5. Journal'
  <2>1. /\ \A m \in Messages : m # message[h] => log'[m] = log[m]
        /\ log'[message[h]] # << >>
        /\ log'[message[h]] = <<"queued">> \/ log'[message[h]] = <<"queued", "failed">>
        /\ Committed' = Committed /\ completed' = completed /\ charged' = charged
        /\ message' = message /\ ~open' /\ carried' = carried
        /\ \A g \in Handlers : pc'[g] = IF g = h THEN "rollback" ELSE pc[g]
    BY <1>0, Statuses DEF Types, Committed, cacheVars, queueVars
  <2>2. \A m, k \in Messages : log'[m] # << >> /\ k < m => log'[k] # << >>
    BY <1>0, <2>1, Statuses DEF Journal
  <2>3. ASSUME NEW g \in Handlers, message'[g] # Cache!NoMessage
        PROVE  Owns(g)'
    <3>1. message[g] \in Messages /\ Owns(g)
      BY <2>1, <2>3 DEF Types, Journal
    <3>2. CASE g = h
      BY <1>0, <2>1, <3>1, <3>2 DEF Owns
    <3>3. CASE g # h
      BY <1>0, <2>1, <3>1, <3>3 DEF Owns
    <3> QED
      BY <3>2, <3>3
  <2>4. LogAgreesWithQueue'
    <3>1. \A i \in DOMAIN carried : carried[i] \in Messages /\ carried[i] # message[h]
      BY <1>0 DEF Types, Committed
    <3>2. \A i \in DOMAIN carried : log'[carried[i]] = <<"queued">>
      BY <2>1, <3>1 DEF Journal, LogAgreesWithQueue
    <3>3. ASSUME NEW i \in DOMAIN carried
          PROVE  \/ \E a \in completed : a.message = carried[i]
                 \/ \E g \in Handlers : pc'[g] = "complete" /\ message[g] = carried[i]
      BY <1>0, <2>1 DEF Journal, LogAgreesWithQueue
    <3> QED
      BY <2>1, <3>2, <3>3 DEF Journal, LogAgreesWithQueue
  <2> QED
    BY <2>1, <2>2, <2>3, <2>4 DEF Journal
<1>6. Answers'
  BY CacheFacts, <1>0 DEF Answers, AcceptedOncePerKey, AppendFailed, cacheVars
<1> QED
  BY <1>1, <1>2, <1>3, <1>4, <1>5, <1>6

(* The answer is stored and the quota kept.                                *)
LEMMA CompleteStep ==
  ASSUME IInv, NEW h \in Handlers, Complete(h)
  PROVE  IInv'
<1> USE DEF IInv
<1>0. /\ message[h] \in Messages /\ message[h] # Cache!NoMessage
      /\ \A a \in completed : a.message # message[h]
      /\ \A c \in charged : c.message # message[h]
  BY DEF Complete, Goto, Locals, Journal, Owns, Messages, Cache!NoMessage
<1>1. /\ Cached!IInv' /\ UNCHANGED <<clock, evicted>>
      /\ held[h] # Cache!NoKey /\ held' = [held EXCEPT ![h] = Cache!NoKey]
      /\ \E new : /\ completed' = completed \cup {new} /\ new.key = held[h]
                  /\ new.message = message[h] /\ new.at = clock
      /\ \A g \in Handlers \ {h} : held[g] # Cache!NoKey => entries'[held[g]] = entries[held[g]]
  BY <1>0, CacheCompletes DEF Complete
<1>2. /\ Quota' /\ UNCHANGED <<clock, counters>>
      /\ consumed' = [consumed EXCEPT ![h] = {}]
  BY <1>0, RateKeeps DEF Complete
<1>3. Types'
  BY <1>0, <1>2 DEF Types, Stages, Complete, Goto, Finish, Cache!NoMessage
<1>4. Locals'
  BY CacheFacts, <1>1, <1>2 DEF Locals, Types, Complete, Goto, Finish, queueVars
<1>5. Journal'
  <2>1. /\ \A g \in Handlers : message'[g] = IF g = h THEN Cache!NoMessage ELSE message[g]
        /\ \A g \in Handlers : pc'[g] = IF g = h THEN "idle" ELSE pc[g]
        /\ pc[h] = "complete" /\ message[h] \in Committed
        /\ Committed' = Committed /\ UNCHANGED <<log, carried, open>>
        /\ charged' = charged \cup {[message |-> message[h], counter |-> key] : key \in consumed[h]}
    BY <1>0 DEF Types, Journal, Owns, Complete, Goto, Finish, Committed, queueVars
  <2>2. /\ completed \subseteq completed'
        /\ \A a \in completed' \ completed : a.message = message[h]
        /\ \E a \in completed' : a.message = message[h]
    BY <1>1
  <2>3. \A m, k \in Messages : log'[m] # << >> /\ k < m => log'[k] # << >>
    BY <2>1 DEF Journal
  <2>4. ASSUME NEW g \in Handlers, message'[g] # Cache!NoMessage
        PROVE  Owns(g)'
    <3>1. g # h /\ message'[g] = message[g] /\ Owns(g)
      BY <2>1, <2>4 DEF Journal
    <3>2. message[g] # message[h]
      BY <3>1 DEF Owns
    <3> QED
      BY <2>1, <2>2, <2>4, <3>1, <3>2 DEF Owns
  <2>5. LogAgreesWithQueue'
    <3>1. \A a \in completed' : \E i \in DOMAIN carried : carried[i] = a.message
      BY <2>1, <2>2 DEF Journal, LogAgreesWithQueue, Committed
    <3>2. ASSUME NEW i \in DOMAIN carried
          PROVE  \/ \E a \in completed' : a.message = carried[i]
                 \/ \E g \in Handlers : pc'[g] = "complete" /\ message'[g] = carried[i]
      <4>1. CASE carried[i] = message[h]
        BY <2>2, <4>1
      <4>2. CASE carried[i] # message[h]
        BY <2>1, <2>2, <4>2 DEF Journal, LogAgreesWithQueue
      <4> QED
        BY <4>1, <4>2
    <3>3. Stranded' \subseteq Stranded /\ stuck' = stuck
      BY <2>1 DEF Stranded, Complete
    <3> QED
      BY <2>1, <3>1, <3>2, <3>3 DEF Journal, LogAgreesWithQueue
  <2>6. \A c \in charged' : \E a \in completed' : a.message = c.message
    BY <2>1, <2>2 DEF Journal
  <2> QED
    BY <2>3, <2>4, <2>5, <2>6 DEF Journal
<1>6. Answers'
  <2>1. /\ \A g \in Handlers \ {h} : UNCHANGED <<message[g], request[g], pc[g], held[g]>>
        /\ pc'[h] = "idle" /\ pc[h] = "complete"
    BY <1>1, CacheFacts DEF Types, Complete, Goto, Finish
  <2>2. PICK new : /\ completed' = completed \cup {new} /\ new.key = held[h]
                   /\ new.message = message[h] /\ new.at = clock
    BY <1>1
  <2>3. \A a \in completed : a.key = held[h] =>
          (a.at <= clock - TTL \/ a.message \in evicted) /\ a.message < message[h]
    BY <1>0, <2>1 DEF Answers
  <2>4. ASSUME NEW g \in Handlers, pc'[g] # "idle"
        PROVE  /\ entries'[held'[g]].fingerprint = request'[g].fingerprint
               /\ \A a \in completed' : a.key = held'[g] =>
                    /\ a.at <= clock' - TTL \/ a.message \in evicted'
                    /\ message'[g] # Cache!NoMessage => a.message < message'[g]
    <3>1. g # h /\ pc[g] # "idle" /\ held[g] # Cache!NoKey /\ held'[g] = held[g]
      BY <2>1, <2>4, RequestKeys DEF Locals
    <3>2. held[g] # held[h]
      BY <3>1, CacheFacts
    <3> QED
      BY <1>1, <2>1, <2>2, <3>1, <3>2 DEF Answers
  <2>5. AcceptedOncePerKey'
    <3>1. \A a \in completed' : a.at \in Nat /\ a.message \in Nat
      BY <1>0, <2>2, CacheFacts DEF Messages
    <3>2. SUFFICES ASSUME NEW a \in completed',
                          NEW b \in completed', a.key = b.key, a.message < b.message
                   PROVE  b.at - a.at >= TTL \/ a.message \in evicted
      BY <1>1 DEF AcceptedOncePerKey
    <3>3. CASE a \in completed /\ b \in completed
      BY <3>2, <3>3 DEF Answers, AcceptedOncePerKey
    <3>4. CASE a \in completed /\ b = new
      BY <2>2, <2>3, <3>1, <3>2, <3>4, CacheFacts, CacheAssumption
    <3>5. CASE a = new
      BY <2>2, <2>3, <3>1, <3>2, <3>5
    <3> QED
      BY <2>2, <3>3, <3>4, <3>5
  <2> QED
    BY <2>4, <2>5 DEF Answers
<1> QED
  BY <1>1, <1>2, <1>3, <1>4, <1>5, <1>6

(* Quota is given back.                                                    *)
LEMMA RollbackQuotaStep ==
  ASSUME IInv, NEW h \in Handlers, RollbackQuota(h)
  PROVE  IInv'
<1> USE DEF IInv
<1>1. Cached!IInv' /\ clock' = clock
  BY CacheKept DEF RollbackQuota, Goto, cacheVars, Rate!Rollback
<1>2. /\ Quota' /\ UNCHANGED clock
      /\ consumed' = [consumed EXCEPT ![h] = {}]
      /\ DOMAIN counters' \subseteq Rate!CounterKey
      /\ \A key \in DOMAIN counters' : counters'[key] \in Nat \ {0}
  BY RateRollsBack DEF RollbackQuota
<1>3. Types'
  BY CacheFacts, <1>1, <1>2 DEF Types, Stages, RollbackQuota, Goto
<1>4. Locals'
  BY CacheFacts, <1>1, <1>2 DEF Locals, Types, RollbackQuota, Goto, cacheVars, queueVars
<1>5. Journal'
  <2>1. /\ pc[h] \notin {"complete", "commit"} \/ (pc[h] = "commit" /\ ~open)
        /\ pc'[h] \notin {"complete", "commit"}
           /\ (pc'[h] = "logFailed" => pc[h] = "commit" /\ ~open)
        /\ \A g \in Handlers \ {h} : pc'[g] = pc[g]
    BY DEF Types, RollbackQuota, Goto
  <2>2. /\ UNCHANGED <<log, carried, completed, charged>>
        /\ (~open => ~open') /\ (stuck => stuck')
        /\ \A g \in Handlers \ {h} : message'[g] = message[g]
        /\ (message'[h] # Cache!NoMessage => message'[h] = message[h])
    BY <1>2, <2>1 DEF Types, RollbackQuota, cacheVars, queueVars
  <2> QED
    BY <2>1, <2>2, JournalKept
<1>6. Answers'
  BY CacheFacts, <1>1, <1>2 DEF Answers, AcceptedOncePerKey, RollbackQuota, Goto, cacheVars
<1> QED
  BY <1>1, <1>2, <1>3, <1>4, <1>5, <1>6

(* The slot is given back, if it was not used.                             *)
LEMMA ReleaseSlotStep ==
  ASSUME IInv, NEW h \in Handlers, ReleaseSlot(h)
  PROVE  IInv'
<1> USE DEF IInv
<1>1. Cached!IInv'
  BY CacheKept DEF ReleaseSlot, Goto, Queue!GiveBack, cacheVars
<1>2. Quota'
  BY QuotaKept DEF ReleaseSlot, Goto, Queue!GiveBack, rateVars
<1>3. Types'
  BY CacheFacts DEF Types, Stages, ReleaseSlot, Goto, rateVars
<1>4. Locals'
  BY CacheFacts DEF Locals, ReleaseSlot, Goto, Queue!GiveBack, cacheVars, rateVars, queueVars
<1>5. Journal'
  <2>1. /\ pc[h] \notin {"complete", "commit"} \/ (pc[h] = "commit" /\ ~open)
        /\ pc'[h] \notin {"complete", "commit"}
           /\ (pc'[h] = "logFailed" => pc[h] = "commit" /\ ~open)
        /\ \A g \in Handlers \ {h} : pc'[g] = pc[g]
    BY DEF ReleaseSlot, Goto, Queue!GiveBack, queueVars
  <2>2. /\ UNCHANGED <<log, carried, completed, charged>>
        /\ (~open => ~open') /\ (stuck => stuck')
        /\ \A g \in Handlers \ {h} : message'[g] = message[g]
        /\ (message'[h] # Cache!NoMessage => message'[h] = message[h])
    BY <2>1 DEF ReleaseSlot, Queue!GiveBack, queueVars, cacheVars, queueVars
  <2> QED
    BY <2>1, <2>2, JournalKept
<1>6. Answers'
  BY CacheFacts DEF Answers, AcceptedOncePerKey, ReleaseSlot, Goto, Queue!GiveBack, cacheVars
<1> QED
  BY <1>1, <1>2, <1>3, <1>4, <1>5, <1>6

(* The key is given back.                                                  *)
LEMMA ReleaseKeyStep ==
  ASSUME IInv, NEW h \in Handlers, ReleaseKey(h)
  PROVE  IInv'
<1> USE DEF IInv
<1>1. /\ Cached!IInv' /\ UNCHANGED <<clock, completed, evicted>>
      /\ held[h] # Cache!NoKey /\ held' = [held EXCEPT ![h] = Cache!NoKey]
      /\ \A g \in Handlers \ {h} : held[g] # Cache!NoKey => entries'[held[g]] = entries[held[g]]
  BY CacheReleases DEF ReleaseKey
<1>2. Quota'
  BY <1>1, QuotaKept DEF ReleaseKey, Goto, Finish, rateVars
<1>3. Types'
  BY CacheFacts, <1>1 DEF Types, Stages, ReleaseKey, Goto, Finish, rateVars
<1>4. Locals'
  BY CacheFacts, <1>1 DEF Locals, Types, ReleaseKey, Goto, Finish, rateVars, queueVars
<1>5. Journal'
  <2>1. /\ pc[h] \notin {"complete", "commit"} \/ (pc[h] = "commit" /\ ~open)
        /\ pc'[h] \notin {"complete", "commit"}
           /\ (pc'[h] = "logFailed" => pc[h] = "commit" /\ ~open)
        /\ \A g \in Handlers \ {h} : pc'[g] = pc[g]
    BY DEF Types, ReleaseKey, Goto, Finish
  <2>2. /\ UNCHANGED <<log, carried, completed, charged>>
        /\ (~open => ~open') /\ (stuck => stuck')
        /\ \A g \in Handlers \ {h} : message'[g] = message[g]
        /\ (message'[h] # Cache!NoMessage => message'[h] = message[h])
    BY <1>1, <2>1 DEF ReleaseKey, Finish, cacheVars, queueVars
  <2> QED
    BY <2>1, <2>2, JournalKept
<1>6. Answers'
  <2>1. \A g \in Handlers : pc[g] # "idle" => held[g] # Cache!NoKey
    BY RequestKeys DEF Locals
  <2>2. \A g \in Handlers \ {h} : UNCHANGED <<message[g], request[g], pc[g], held[g]>>
    BY <1>1, CacheFacts DEF Types, ReleaseKey, Goto, Finish
  <2>3. pc'[h] = "idle"
    BY DEF Types, ReleaseKey, Goto
  <2> QED
    BY <1>1, <2>1, <2>2, <2>3, CacheFacts, AnswersKept
<1> QED
  BY <1>1, <1>2, <1>3, <1>4, <1>5, <1>6

(* A new request has its key.                                              *)
LEMMA ReserveKeyStep ==
  ASSUME IInv, NEW h \in Handlers, NEW r \in Requests, ReserveKey(h, r)
  PROVE  IInv'
<1> USE DEF IInv
<1>1. /\ Cached!IInv'
      /\ held[h] = Cache!NoKey /\ held' = [held EXCEPT ![h] = r.key] /\ r.key # Cache!NoKey
      /\ clock' = clock /\ completed' = completed /\ evicted \subseteq evicted'
      /\ entries'[r.key].fingerprint = r.fingerprint
      /\ \A g \in Handlers : held[g] # Cache!NoKey => entries'[held[g]] = entries[held[g]]
      /\ \A a \in completed : a.key = r.key => a.at <= clock - TTL \/ a.message \in evicted
  BY RequestKeys, CacheReserves DEF ReserveKey
<1>2. Quota'
  BY <1>1, QuotaKept DEF ReserveKey, Goto, rateVars, ownVars
<1>3. Types'
  BY CacheFacts, <1>1 DEF Types, Stages, ReserveKey, Goto, rateVars
<1>4. Locals'
  BY CacheFacts, <1>1 DEF Locals, Types, ReserveKey, Goto, rateVars, queueVars
<1>5. Journal'
  <2>1. /\ pc[h] \notin {"complete", "commit"} \/ (pc[h] = "commit" /\ ~open)
        /\ pc'[h] \notin {"complete", "commit"}
           /\ (pc'[h] = "logFailed" => pc[h] = "commit" /\ ~open)
        /\ \A g \in Handlers \ {h} : pc'[g] = pc[g]
    BY DEF Types, ReserveKey, Goto
  <2>2. /\ UNCHANGED <<log, carried, completed, charged>>
        /\ (~open => ~open') /\ (stuck => stuck')
        /\ \A g \in Handlers \ {h} : message'[g] = message[g]
        /\ (message'[h] # Cache!NoMessage => message'[h] = message[h])
    BY <1>1, <2>1 DEF Types, ReserveKey, cacheVars, queueVars
  <2> QED
    BY <2>1, <2>2, JournalKept
<1>6. Answers'
  <2>1. /\ \A g \in Handlers : held'[g] = IF g = h THEN r.key ELSE held[g]
        /\ \A g \in Handlers : request'[g] = IF g = h THEN r ELSE request[g]
        /\ \A g \in Handlers \ {h} : pc'[g] = pc[g]
        /\ message' = message /\ message[h] = Cache!NoMessage
    BY <1>1, CacheFacts DEF Types, Locals, ReserveKey, Goto
  <2>2. ASSUME NEW g \in Handlers, pc'[g] # "idle"
        PROVE  /\ entries'[held'[g]].fingerprint = request'[g].fingerprint
               /\ \A a \in completed' : a.key = held'[g] =>
                    /\ a.at <= clock' - TTL \/ a.message \in evicted'
                    /\ message'[g] # Cache!NoMessage => a.message < message'[g]
    <3>1. CASE g = h
      BY <1>1, <2>1, <3>1
    <3>2. CASE g # h
      <4>1. pc[g] # "idle" /\ held[g] # Cache!NoKey /\ held'[g] = held[g]
        BY <2>1, <2>2, <3>2, RequestKeys DEF Locals
      <4> QED
        BY <1>1, <2>1, <3>2, <4>1 DEF Answers
    <3> QED
      BY <3>1, <3>2
  <2>3. AcceptedOncePerKey'
    BY <1>1 DEF Answers, AcceptedOncePerKey
  <2> QED
    BY <2>2, <2>3 DEF Answers
<1> QED
  BY <1>1, <1>2, <1>3, <1>4, <1>5, <1>6

(* A request is answered from the cache.                                   *)
LEMMA AnswerFromCacheStep ==
  ASSUME IInv, NEW h \in Handlers, NEW r \in Requests, AnswerFromCache(h, r)
  PROVE  IInv'
<1> USE DEF IInv
<1>1. /\ Cached!IInv' /\ UNCHANGED <<clock, held, completed, evicted>>
      /\ \A g \in Handlers : held[g] # Cache!NoKey => entries'[held[g]] = entries[held[g]]
  BY CacheAnswers DEF AnswerFromCache
<1>2. Quota'
  BY <1>1, QuotaKept DEF AnswerFromCache, Goto, rateVars, ownVars
<1>3. Types'
  BY CacheFacts, <1>1 DEF Types, AnswerFromCache, rateVars, ownVars
<1>4. Locals'
  BY CacheFacts, <1>1 DEF Locals, AnswerFromCache, rateVars, queueVars, ownVars
<1>5. Journal'
  BY <1>1, JournalUntouched DEF AnswerFromCache, cacheVars, queueVars, ownVars
<1>6. Answers'
  <2>1. \A g \in Handlers : pc[g] # "idle" => held[g] # Cache!NoKey
    BY RequestKeys DEF Locals
  <2> QED
    BY <1>1, <2>1, CacheFacts, AnswersKept DEF AnswerFromCache, ownVars
<1> QED
  BY <1>1, <1>2, <1>3, <1>4, <1>5, <1>6

(* A worker takes a task.                                                  *)
LEMMA TakeTaskStep ==
  ASSUME IInv, TakeTask
  PROVE  IInv'
<1> USE DEF IInv
<1>1. Cached!IInv'
  BY CacheKept DEF TakeTask, Goto, Queue!Take, cacheVars
<1>2. Quota'
  BY QuotaKept DEF TakeTask, Queue!Take, ownVars
<1>3. Types'
  BY CacheFacts DEF Types, TakeTask, Queue!Take, rateVars, ownVars
<1>4. Locals'
  BY CacheFacts DEF Locals, TakeTask, Queue!Take, cacheVars, rateVars, ownVars
<1>5. Journal'
  BY JournalUntouched DEF TakeTask, Queue!Take, cacheVars, ownVars
<1>6. Answers'
  BY CacheFacts DEF Answers, AcceptedOncePerKey, TakeTask, Queue!Take, cacheVars, ownVars
<1> QED
  BY <1>1, <1>2, <1>3, <1>4, <1>5, <1>6

(* The queue is closed.                                                    *)
LEMMA CloseQueueStep ==
  ASSUME IInv, CloseQueue
  PROVE  IInv'
<1> USE DEF IInv
<1>1. Cached!IInv'
  BY CacheKept DEF CloseQueue, Goto, Queue!Shut, cacheVars
<1>2. Quota'
  BY QuotaKept DEF CloseQueue, Queue!Shut, ownVars
<1>3. Types'
  BY CacheFacts DEF Types, CloseQueue, Queue!Shut, rateVars, ownVars
<1>4. Locals'
  BY CacheFacts DEF Locals, CloseQueue, Queue!Shut, cacheVars, rateVars, ownVars
<1>5. Journal'
  BY JournalUntouched DEF CloseQueue, Queue!Shut, cacheVars, ownVars
<1>6. Answers'
  BY CacheFacts DEF Answers, AcceptedOncePerKey, CloseQueue, Queue!Shut, cacheVars, ownVars
<1> QED
  BY <1>1, <1>2, <1>3, <1>4, <1>5, <1>6

(* Time passes.                                                            *)
LEMMA TickStep ==
  ASSUME IInv, Tick
  PROVE  IInv'
<1> USE DEF IInv
<1>1. Cached!IInv'
  BY CacheKept DEF Tick, Goto, cacheVars
<1>2. Quota'
  BY CacheFacts, RateTicks DEF Tick, rateVars, ownVars
<1>3. Types'
  BY CacheFacts, <1>2 DEF Types, Tick, rateVars, ownVars
<1>4. Locals'
  BY CacheFacts, <1>2 DEF Locals, Tick, cacheVars, rateVars, queueVars, ownVars
<1>5. Journal'
  BY JournalUntouched DEF Tick, cacheVars, queueVars, ownVars
<1>6. Answers'
  BY CacheFacts, AnswersKept DEF Tick, cacheVars, ownVars
<1> QED
  BY <1>1, <1>2, <1>3, <1>4, <1>5, <1>6

-----------------------------------------------------------------------------
(* Nothing has happened. *)
LEMMA InitInvariant == Init => IInv
<1> SUFFICES ASSUME Init PROVE IInv
  OBVIOUS
<1>1. Cached!IInv
  BY CacheConstants, SameCache, Cached!InitInvariant DEF Init, Cache!Init, Cached!Init
<1>2. /\ clock = 0 /\ completed = {} /\ charged = {} /\ carried = << >> /\ open
      /\ counters = << >> /\ consumed = [h \in Handlers |-> {}] /\ claims = {}
      /\ held = [h \in Handlers |-> Cache!NoKey]
      /\ log = [m \in Messages |-> << >>] /\ pc = [h \in Handlers |-> "idle"]
      /\ request = [h \in Handlers |-> NoRequest]
         /\ message = [h \in Handlers |-> Cache!NoMessage]
  BY DEF Init, Cache!Init, Rate!Init, Queue!Init
<1>3. Types
  BY <1>2 DEF Types, Stages
<1>4. Locals
  BY <1>2 DEF Locals
<1>5. Journal
  BY <1>2, Statuses DEF Journal, LogAgreesWithQueue, Stranded
<1>6. Answers
  BY <1>2 DEF Answers, AcceptedOncePerKey
<1>7. ASSUME NEW key \in Rate!CounterKey
      PROVE  Rate!Count(key) = 0 /\ Used(key) = 0 /\ 0 <= RuleLimit[key.rule]
  <2>1. InFlight(key) = {} /\ AcceptedIn(key) = {}
    BY <1>2 DEF InFlight, AcceptedIn
  <2>2. Used(key) = 0
    BY <2>1, FS_EmptySet DEF Used
  <2>3. Rate!Count(key) = 0
    BY <1>2 DEF Rate!Count, Rate!Running
  <2>4. 0 <= RuleLimit[key.rule]
    BY RuleLimitAssumption DEF Rate!CounterKey
  <2> QED
    BY <2>2, <2>3, <2>4
<1> QED
  BY <1>1, <1>3, <1>4, <1>5, <1>6, <1>7 DEF IInv, Quota

(* Every step keeps the invariant. *)
LEMMA NextInvariant == IInv /\ [Next]_vars => IInv'
<1> SUFFICES ASSUME IInv, [Next]_vars PROVE IInv'
  OBVIOUS
<1>1. ASSUME NEW h \in Handlers, NEW r \in Requests, ReserveKey(h, r) \/ AnswerFromCache(h, r)
      PROVE  IInv'
  BY <1>1, ReserveKeyStep, AnswerFromCacheStep
<1>2. ASSUME NEW h \in Handlers, HandlerStep(h)
      PROVE  IInv'
  BY <1>2, RecipientAcceptedStep, RecipientRefusedStep, ReserveSlotStep, NoSlotStep,
     ConsumeQuotaStep,
     OverQuotaStep, AppendQueuedStep, AppendQueuedFailsStep, CommitStep, CommitRefusedStep,
     AppendFailedStep, CompleteStep, RollbackQuotaStep, ReleaseSlotStep, ReleaseKeyStep DEF
     HandlerStep
<1>3. CASE UNCHANGED vars
  <2> USE <1>3 DEF IInv, vars
  <2>1. Cached!IInv'
    BY CacheKept DEF cacheVars
  <2>2. Types' /\ Locals'
    BY DEF Types, Locals, ownVars, rateVars, cacheVars, queueVars
  <2>3. Journal'
    BY JournalUntouched DEF ownVars, cacheVars, queueVars
  <2>4. Answers'
    BY DEF Answers, AcceptedOncePerKey, ownVars, cacheVars
  <2>5. Quota'
    BY QuotaKept DEF ownVars
  <2> QED
    BY <2>1, <2>2, <2>3, <2>4, <2>5
<1> QED
  BY <1>1, <1>2, <1>3, TakeTaskStep, CloseQueueStep, TickStep DEF Next

(* The invariant holds in every behaviour. *)
LEMMA Invariance == Spec => []IInv
  BY InitInvariant, NextInvariant, PTL DEF Spec

(* A handler that has committed its task finds its pending entry. *)
THEOREM CompletionSafe == Spec => []CompletionCannotFail
<1>1. IInv => CompletionCannotFail
  BY CacheFacts, RequestKeys DEF IInv, Locals, Answers, CompletionCannotFail
<1> QED
  BY <1>1, Invariance, PTL

(* What a handler took is given back by the time it is idle. *)
THEOREM LeakFree == Spec => []NothingLeaked
<1>1. IInv => NothingLeaked
  BY RequestKeys DEF IInv, Locals, NothingLeaked
<1> QED
  BY <1>1, Invariance, PTL

(* The counters are exact, and no window lets more through than its limit. *)
THEOREM QuotaSafe == Spec => []QuotaExact
<1>1. IInv => QuotaExact
  <2> SUFFICES ASSUME IInv PROVE QuotaExact
    OBVIOUS
  <2>1. DOMAIN counters \cup CounterKeys \subseteq Rate!CounterKey
    <3>1. \A h \in Handlers : consumed[h] \subseteq Rate!CounterKey
      BY DEF IInv, Types
    <3>2. \A c \in charged : c.counter \in Rate!CounterKey
      BY DEF IInv, Types
    <3>3. CounterKeys \subseteq Rate!CounterKey
      BY <3>1, <3>2 DEF CounterKeys
    <3> QED
      BY <3>3 DEF IInv, Types
  <2>2. ASSUME NEW key \in CounterKeys
        PROVE  Cardinality(AcceptedIn(key)) <= RuleLimit[key.rule]
    <3>1. key \in Rate!CounterKey /\ Used(key) <= RuleLimit[key.rule]
          /\ RuleLimit[key.rule] \in Nat
      BY <2>1, RuleLimitAssumption DEF IInv, Quota, Rate!CounterKey
    <3>2. Cardinality(InFlight(key)) \in Nat /\ Cardinality(AcceptedIn(key)) \in Nat
      BY UsedParts, Counting
    <3> QED
      BY <3>1, <3>2 DEF Used
  <2> QED
    BY <2>1, <2>2 DEF IInv, Quota, QuotaExact, Used
<1> QED
  BY <1>1, Invariance, PTL

(* A key's request is accepted once a TTL, evictions aside. *)
THEOREM AcceptedOnce == Spec => []AcceptedOncePerKey
<1>1. IInv => AcceptedOncePerKey
  BY DEF IInv, Answers
<1> QED
  BY <1>1, Invariance, PTL

(* The message log and the queue agree. *)
THEOREM LogAgrees == Spec => []LogAgreesWithQueue
<1>1. IInv => LogAgreesWithQueue
  BY DEF IInv, Journal
<1> QED
  BY <1>1, Invariance, PTL

-----------------------------------------------------------------------------
(* Handlers use the cache as its specification says: what is proved of the *)
(* cache alone holds of the cache in the pipeline.                         *)
THEOREM CacheRefined == Spec => Cache!Spec
<1>1. Init => Cache!Init
  BY DEF Init
<1>2. IInv /\ [Next]_vars => [Cache!Next]_Cache!vars
  <2> SUFFICES ASSUME IInv, [Next]_vars PROVE [Cache!Next]_Cache!vars
    OBVIOUS
  <2>1. ASSUME NEW h \in Handlers, NEW r \in Requests, ReserveKey(h, r) \/ AnswerFromCache(h, r)
        PROVE  Cache!Next
    BY <2>1, RequestKeys DEF ReserveKey, AnswerFromCache, Cache!Next
  <2>2. ASSUME NEW h \in Handlers, Complete(h)
        PROVE  Cache!Next
    <3>1. message[h] \in Messages /\ Cache!Fresh(message[h])
      BY <2>2 DEF IInv, Locals, Journal, Owns, Complete, Goto, Messages, Cache!NoMessage,
         Cache!Fresh
    <3> QED
      BY <2>2, <3>1 DEF Complete, Cache!Next
  <2>3. ASSUME NEW h \in Handlers, ReleaseKey(h)
        PROVE  Cache!Next
    BY <2>3 DEF ReleaseKey, Cache!Next
  <2>4. ASSUME NEW h \in Handlers, HandlerStep(h), ~Complete(h), ~ReleaseKey(h)
        PROVE  UNCHANGED Cache!vars
    BY <2>4 DEF HandlerStep, RecipientAccepted, RecipientRefused, ReserveSlot, NoSlot,
       ConsumeQuota,
       OverQuota, AppendQueued, AppendQueuedFails, Commit, CommitRefused, AppendFailed,
       RollbackQuota,
       ReleaseSlot, Queue!Claim, Queue!Put, Queue!GiveBack, Rate!Allow, Rate!Deny,
       Rate!Rollback,
       cacheVars, Cache!vars
  <2>5. CASE Tick
    BY <2>5 DEF Tick, cacheVars, Cache!Next, Cache!Tick
  <2>6. CASE TakeTask \/ CloseQueue \/ UNCHANGED vars
    BY <2>6 DEF TakeTask, CloseQueue, Queue!Take, Queue!Shut, vars, cacheVars, Cache!vars
  <2> QED
    BY <2>1, <2>2, <2>3, <2>4, <2>5, <2>6 DEF Next
<1> QED
  BY <1>1, <1>2, Invariance, PTL DEF Spec, Cache!Spec

(* Handlers, workers and the process use the queue as DelayQueue, which    *)
(* the queue is shown to implement, allows.                                *)
THEOREM QueueRefined == Spec => Queue!Spec
<1>1. Init => Queue!Init
  BY DEF Init
<1>2. [Next]_vars => [Queue!Next]_Queue!vars
  <2> SUFFICES ASSUME [Next]_vars PROVE [Queue!Next]_Queue!vars
    OBVIOUS
  <2>1. ASSUME NEW h \in Handlers, NEW r \in Requests, ReserveKey(h, r) \/ AnswerFromCache(h, r)
        PROVE  UNCHANGED Queue!vars
    BY <2>1 DEF ReserveKey, AnswerFromCache, Cache!Reserve, Cache!Answered, queueVars,
       Queue!vars
  <2>2. ASSUME NEW h \in Handlers, ReserveSlot(h) \/ Commit(h) \/ CommitRefused(h)
        PROVE  Queue!Next
    BY <2>2 DEF ReserveSlot, Commit, CommitRefused, Queue!Next
  <2>3. ASSUME NEW h \in Handlers, ReleaseSlot(h)
        PROVE  [Queue!Next]_Queue!vars
    BY <2>3 DEF ReleaseSlot, Queue!Next, queueVars, Queue!vars
  <2>4. ASSUME NEW h \in Handlers, HandlerStep(h),
               ~ReserveSlot(h), ~Commit(h), ~CommitRefused(h), ~ReleaseSlot(h)
        PROVE  UNCHANGED Queue!vars
    BY <2>4 DEF HandlerStep, RecipientAccepted, RecipientRefused, NoSlot, ConsumeQuota,
       OverQuota,
       AppendQueued, AppendQueuedFails, AppendFailed, Complete, RollbackQuota, ReleaseKey,
       Rate!Allow, Rate!Deny, Rate!Rollback, Rate!Keep, Cache!CompleteQueued, Cache!Release,
       queueVars, Queue!vars
  <2>5. CASE TakeTask
    BY <2>5 DEF TakeTask, Queue!Next
  <2>6. CASE CloseQueue
    BY <2>6 DEF CloseQueue, Queue!Next
  <2>7. CASE Tick
    BY <2>7 DEF Tick, queueVars, Queue!Next, Queue!Tick
  <2>8. CASE UNCHANGED vars
    BY <2>8 DEF vars, queueVars, Queue!vars
  <2> QED
    BY <2>1, <2>2, <2>3, <2>4, <2>5, <2>6, <2>7, <2>8 DEF Next
<1> QED
  BY <1>1, <1>2, PTL DEF Spec, Queue!Spec

=============================================================================
