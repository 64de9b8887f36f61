-------------------------- MODULE IdempotencyCache --------------------------
(***************************************************************************)
(* The in-memory idempotency cache (internal/lite/idempotency_cache.go).   *)
(*                                                                         *)
(* A request reserves its key before anything else is done for it, and     *)
(* holds the reservation through admission: CompleteQueued turns the       *)
(* pending entry into the answer later requests with the key replay, and   *)
(* Release, deferred on every failure, removes it.  Both run long after    *)
(* Reserve let go of the mutex.  A key stands for the code's triple of     *)
(* application, scene and hashed Idempotency-Key; its number is its place  *)
(* in idempotencyKeyLess.                                                  *)
(***************************************************************************)
EXTENDS Integers, FiniteSets, Functions

CONSTANTS
  Keys,          \* idempotency keys
  Fingerprints,  \* what RequestFingerprint tells requests apart by
  Holders,       \* the requests in flight: one reservation each
  Messages,      \* message IDs
  Limit,         \* IdempotencyCacheConfig.Capacity
  TTL            \* IdempotencyCacheConfig.TTL

ASSUME KeysAssumption   == Keys \subseteq Nat
ASSUME LimitAssumption  == Limit \in Nat \ {0}
ASSUME TTLAssumption    == TTL \in Nat \ {0}

NoKey     == -1
NoMessage == 0

ASSUME MessagesAssumption == Messages \subseteq Nat \ {NoMessage}

VARIABLES
  clock,      \* what c.now() reads, taken never to step back
  entries,    \* IdempotencyCache.entries
  held,       \* the key of each holder's unused reservation
  completed,  \* history: what CompleteQueued has ever stored
  evicted     \* history: the messages whose entry was evicted before it expired

vars == <<clock, entries, held, completed, evicted>>

Entry == [fingerprint : Fingerprints, status : {"pending", "queued"},
          message : Messages \cup {NoMessage}, createdAt : Nat]

Init ==
  /\ clock = 0
  /\ entries = << >>
  /\ held = [h \in Holders |-> NoKey]
  /\ completed = {}
  /\ evicted = {}

IsPending(k) == entries[k].status = "pending"

(* Seeded fault: a pending entry expires like any other. *)
LiveForgetsPending == {k \in DOMAIN entries : entries[k].createdAt > clock - TTL}

(* The entries deleteExpired leaves: a pending one never expires. *)
Live == {k \in DOMAIN entries : IsPending(k) \/ entries[k].createdAt > clock - TTL}

(* Seeded fault: any entry may be evicted. *)
EvictableAny == Live

(* What evictOverflowExceptPending may evict. *)
Evictable == {k \in Live : ~IsPending(k)}

(* Seeded fault: entries are evicted by key alone. *)
OlderByKey(j, k) == j < k

(* The order in which entries are evicted. *)
Older(j, k) ==
  \/ entries[j].createdAt < entries[k].createdAt
  \/ entries[j].createdAt = entries[k].createdAt /\ j < k

(* The cache with one entry more and out evicted is within its limit. *)
Fits(out) == Cardinality(Live \ out) < Limit

(* The loop of evictOverflowExceptPending: oldest entries go until the new *)
(* one fits, and no more than that.                                        *)
Overflow ==
  {out \in SUBSET Evictable :
     /\ Fits(out)
     /\ \A j \in out : ~Fits(out \ {j})
     /\ \A j \in out, k \in Evictable \ out : Older(j, k)}

(* A holder is free to reserve when it holds no unused reservation. *)
Start(h) == held[h] = NoKey

(* Reserve, the key being free. *)
Reserve(h, key, fingerprint) ==
  /\ Start(h)
  /\ key \notin Live
  /\ \E out \in Overflow :
       /\ entries' = [k \in (Live \ out) \cup {key} |->
            IF k = key
            THEN [fingerprint |-> fingerprint, status |-> "pending",
                  message |-> NoMessage, createdAt |-> clock]
            ELSE entries[k]]
       /\ evicted' = evicted \cup {entries[k].message : k \in out}
  /\ held' = [held EXCEPT ![h] = key]
  /\ UNCHANGED <<clock, completed>>

(* Reserve when the answer is known, for the same request. *)
Replays(key, fingerprint) ==
  /\ key \in Live
  /\ ~IsPending(key)
  /\ entries[key].fingerprint = fingerprint

(* Reserve when the key is held or was used by another request: 409. *)
Conflicts(key, fingerprint) ==
  /\ key \in Live
  /\ IsPending(key) \/ entries[key].fingerprint # fingerprint

(* Reserve when pending entries alone fill the cache. *)
Full(key) == key \notin Live /\ Overflow = {}

(* Reserve without a reservation: a replay, a conflict or a full cache.    *)
(* The expired entries are gone in each case.  The code drops everything   *)
(* it may evict before it finds the cache full, but only a cache of        *)
(* nothing but pending entries gets there.                                 *)
Answered(h, key, fingerprint) ==
  /\ Start(h)
  /\ Replays(key, fingerprint) \/ Conflicts(key, fingerprint) \/ Full(key)
  /\ entries' = Restrict(entries, Live)
  /\ UNCHANGED <<clock, held, completed, evicted>>

(* Seeded fault: a completed entry keeps the time it was reserved at. *)
CompletionTimeStale(h) == entries[held[h]].createdAt

(* What CompleteQueued sets CreatedAt to: the TTL runs from acceptance. *)
CompletionTime(h) == clock

(* CompleteQueued; its two errors, for a reservation used before and for   *)
(* one whose entry is gone or no longer pending, are shown not to happen   *)
(* (PendingIffHeld).                                                       *)
CompleteQueued(h, message) ==
  /\ held[h] # NoKey
  /\ LET stored == [entries[held[h]] EXCEPT
                      !.message = message, !.status = "queued", !.createdAt = CompletionTime(h)] IN
       /\ entries' = [entries EXCEPT ![held[h]] = stored]
       /\ completed' = completed \cup
            {[key |-> held[h], fingerprint |-> stored.fingerprint,
              message |-> message, at |-> clock]}
  /\ held' = [held EXCEPT ![h] = NoKey]
  /\ UNCHANGED <<clock, evicted>>

(* Seeded fault: the entry stays behind. *)
KeysAfterReleaseKept(key) == DOMAIN entries

(* What Release leaves: it takes only a pending entry away. *)
KeysAfterRelease(key) ==
  {k \in DOMAIN entries : k = key => ~IsPending(k)}

Release(h) ==
  /\ held[h] # NoKey
  /\ entries' = Restrict(entries, KeysAfterRelease(held[h]))
  /\ held' = [held EXCEPT ![h] = NoKey]
  /\ UNCHANGED <<clock, completed, evicted>>

Tick ==
  /\ clock' = clock + 1
  /\ UNCHANGED <<entries, held, completed, evicted>>

Fresh(message) == \A a \in completed : a.message # message

Next ==
  \/ \E h \in Holders, key \in Keys, fingerprint \in Fingerprints :
       Reserve(h, key, fingerprint) \/ Answered(h, key, fingerprint)
  \/ \E h \in Holders :
       \/ \E message \in Messages : Fresh(message) /\ CompleteQueued(h, message)
       \/ Release(h)
  \/ Tick

Spec == Init /\ [][Next]_vars

-----------------------------------------------------------------------------
(* The shape of the cache, and of what requests hold and were answered. *)
TypeOK ==
  /\ clock \in Nat
  /\ DOMAIN entries \subseteq Keys
  /\ \A k \in DOMAIN entries : entries[k] \in Entry
  /\ held \in [Holders -> Keys \cup {NoKey}]
  /\ completed \subseteq
       [key : Keys, fingerprint : Fingerprints, message : Messages, at : Nat]
  /\ evicted \subseteq Messages

(* The cache never grows beyond its limit, pending entries included. *)
SizeBounded == IsFiniteSet(DOMAIN entries) /\ Cardinality(DOMAIN entries) <= Limit

HeldIsPending ==
  /\ \A h \in Holders : held[h] # NoKey => held[h] \in DOMAIN entries /\ IsPending(held[h])
  /\ \A g, h \in Holders : held[g] = held[h] /\ held[g] # NoKey => g = h

PendingIsHeld ==
  \A k \in DOMAIN entries : IsPending(k) => \E h \in Holders : held[h] = k

(* Whatever other requests reserve, complete, release, expire or evict in  *)
(* the meantime, a held reservation finds its own entry still pending, so  *)
(* CompleteQueued cannot fail after the message is in the queue; two       *)
(* requests never hold the same key; and no pending entry outlives its     *)
(* request, which would block its key for ever.                            *)
PendingIffHeld == HeldIsPending /\ PendingIsHeld

(* Until it expires or is evicted, an accepted request's key answers with  *)
(* that request's message and fingerprint: it is not accepted twice.       *)
ReplayedWhileLive ==
  \A a \in completed :
    a.at > clock - TTL /\ a.message \notin evicted =>
      /\ a.key \in DOMAIN entries
      /\ ~IsPending(a.key)
      /\ entries[a.key].message = a.message
      /\ entries[a.key].fingerprint = a.fingerprint

(* Eviction is first in, first out: an evicted answer is older than every  *)
(* live answer that stays, and goes only from a full cache.                *)
OldestEvictedFirst ==
  [][\A a, b \in completed :
       /\ a.message \in evicted' \ evicted
       /\ b.at > clock - TTL
       /\ b.message \notin evicted'
       => a.at <= b.at /\ Cardinality(DOMAIN entries') = Limit]_vars
=============================================================================
