---------------------------- MODULE DeliveryRules ----------------------------
(* The rules that workers and webhooks decide by: how long to wait before  *)
(* the next attempt, and what an event makes of a message and a recipient. *)
EXTENDS Integers

CONSTANTS
  Backoff,       \* WorkerConfig.RetryBackoffSeconds
  MaxRetryAfter  \* maxRetryAfterSeconds

ASSUME RetryAssumption == MaxRetryAfter \in Nat /\ \A n \in DOMAIN Backoff : Backoff[n] \in Nat

EventType == {"delivered", "bounced", "complained"}

AtMost(a, b)  == IF a < b THEN a ELSE b
AtLeast(a, b) == IF a > b THEN a ELSE b

(* The backoff configured for an attempt; past the end of the list, none. *)
BackoffBefore(n) == IF n \in DOMAIN Backoff THEN Backoff[n] ELSE 0

(* retryDelay: the longer of the configured backoff and the provider's     *)
(* Retry-After, neither beyond the cap.                                    *)
RetryDelay(n, retryAfter) ==
  AtMost(AtLeast(BackoffBefore(n), AtMost(retryAfter, MaxRetryAfter)), MaxRetryAfter)

(* SuppressionStore.Add: a complaint takes over from a hard bounce, and    *)
(* nothing takes over from a complaint.                                    *)
Suppression(current, type) ==
  CASE type = "complained"                     -> "complaint"
    [] type = "bounced" /\ current = "none"    -> "hard_bounce"
    [] OTHER                                   -> current

(* Seeded fault: a late delivered event rolls back. *)
NextStatusLatest(current, type) ==
  IF current = "failed" THEN current ELSE type

(* nextProviderEventMessageStatus: a failed or complained message keeps    *)
(* its status, a bounced one can only be complained about, and a delivered *)
(* one can still bounce or be complained about.                            *)
NextStatus(current, type) ==
  IF \/ current \in {"failed", "complained"}
     \/ current = "bounced" /\ type # "complained"
  THEN current
  ELSE type

Rank(s) == CASE s = "delivered"  -> 1
             [] s = "bounced"    -> 2
             [] s = "complained" -> 3
             [] OTHER            -> 0
=============================================================================
