---------------------------- MODULE RateLimiter ----------------------------
(***************************************************************************)
(* The fixed-window rate limiter (internal/lite/rate_limiter.go).  Allow   *)
(* checks every rule that applies to a request and consumes quota only if  *)
(* all of them pass; Rollback, deferred until the request is accepted,     *)
(* gives the quota back, possibly after the window has ended.              *)
(***************************************************************************)
EXTENDS Integers, Functions

CONSTANTS
  Rules,      \* RateLimitRule
  Window,     \* the length of each rule's window
  RuleLimit,  \* RateLimitPolicy: how many requests each rule lets through a window
  Subjects,   \* recipients and IP addresses
  Holders     \* the requests in flight

VARIABLES
  clock,     \* what l.now() reads, taken never to step back
  counters,  \* FixedWindowRateLimiter.counters
  consumed   \* the counter keys in each holder's RateLimitDecision

vars == <<clock, counters, consumed>>

CounterKey == [rule : Rules, subject : Subjects, start : Nat]

Init ==
  /\ clock = 0
  /\ counters = << >>
  /\ consumed = [h \in Holders |-> {}]

WindowStart(rule) == clock - (clock % Window[rule])

(* buildRateLimitChecks: the counters a request is checked against.  A     *)
(* request is its subject under each rule that applies to it: the rule on  *)
(* the user's IP address does only when the caller sent one.               *)
Checks(request) ==
  {[rule |-> rule, subject |-> request[rule], start |-> WindowStart(rule)] : rule \in DOMAIN request}

(* The counter's ExpiresAt is the end of its window. *)
Expired(key) == clock >= key.start + Window[key.rule]

(* The counters deleteExpired leaves. *)
Running == {key \in DOMAIN counters : ~Expired(key)}

Count(key) == IF key \in Running THEN counters[key] ELSE 0

Passes(key) == Count(key) < RuleLimit[key.rule]

Allow(h, request) ==
  /\ consumed[h] = {}
  /\ \A key \in Checks(request) : Passes(key)
  /\ counters' = [key \in Running \cup Checks(request) |->
       IF key \in Checks(request) THEN Count(key) + 1 ELSE Count(key)]
  /\ consumed' = [consumed EXCEPT ![h] = Checks(request)]
  /\ UNCHANGED clock

(* Allow when some rule is exceeded: 429, nothing consumed. *)
Deny(h, request) ==
  /\ consumed[h] = {}
  /\ \E key \in Checks(request) : ~Passes(key)
  /\ counters' = Restrict(counters, Running)
  /\ UNCHANGED <<clock, consumed>>

(* Seeded fault: the whole counter is dropped, other requests' quota too. *)
GiveBackAll(keys) == Restrict(counters, DOMAIN counters \ keys)

(* The counters once one request under each of keys is given back; a       *)
(* counter that is gone expired with its window.                           *)
GiveBack(keys) ==
  [key \in {k \in DOMAIN counters : ~(k \in keys /\ counters[k] <= 1)} |->
     IF key \in keys THEN counters[key] - 1 ELSE counters[key]]

Rollback(h) ==
  /\ counters' = GiveBack(consumed[h])
  /\ consumed' = [consumed EXCEPT ![h] = {}]
  /\ UNCHANGED clock

(* The request is accepted and its decision forgotten. *)
Keep(h) ==
  /\ consumed' = [consumed EXCEPT ![h] = {}]
  /\ UNCHANGED <<clock, counters>>
=============================================================================
