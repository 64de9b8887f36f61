----------------------- MODULE IdempotencyCacheProofs -----------------------
(***************************************************************************)
(* Proofs about IdempotencyCache, for any set of keys and requests and for *)
(* any limit and TTL.                                                      *)
(***************************************************************************)
EXTENDS IdempotencyCache, FiniteSetTheorems, TLAPS

(* An answer in the cache is that of an accepted request, as old as the    *)
(* acceptance.                                                             *)
AnswersRecorded ==
  \A k \in DOMAIN entries : ~IsPending(k) =>
    \E a \in completed :
      /\ a.key = k
      /\ a.message = entries[k].message
      /\ a.at = entries[k].createdAt

(* A message is accepted once. *)
MessagesOnce == \A a, b \in completed : a.message = b.message => a = b

(* The inductive invariant.  PendingIffHeld is inductive with the types;   *)
(* what ReplayedWhileLive needs besides is that an entry that stays live   *)
(* as long as its acceptance is recent is the entry of that acceptance.    *)
IInv ==
  /\ TypeOK
  /\ SizeBounded
  /\ HeldIsPending
  /\ PendingIsHeld
  /\ AnswersRecorded
  /\ MessagesOnce
  /\ ReplayedWhileLive

-----------------------------------------------------------------------------
(* The invariant holds at the start. *)
LEMMA InitInvariant == Init => IInv
<1> SUFFICES ASSUME Init PROVE IInv
  OBVIOUS
<1>1. DOMAIN entries = {} /\ completed = {} /\ evicted = {} /\ clock = 0
  BY DEF Init
<1>2. TypeOK
  BY <1>1 DEF Init, TypeOK, NoKey
<1>3. SizeBounded
  BY <1>1, FS_EmptySet, LimitAssumption DEF SizeBounded
<1> QED
  BY <1>1, <1>2, <1>3 DEF Init, IInv, HeldIsPending, PendingIsHeld, AnswersRecorded,
     MessagesOnce, ReplayedWhileLive

(* What an eviction leaves alone. *)
LEMMA Spared ==
  ASSUME IInv, NEW out \in SUBSET Evictable
  PROVE  /\ Live \subseteq DOMAIN entries
         /\ \A k \in DOMAIN entries : IsPending(k) => k \in Live \ out
         /\ \A h \in Holders : held[h] # NoKey => held[h] \in Live \ out
         /\ \A a \in completed :
              a.at > clock - TTL /\ a.message \notin evicted /\ a.key \notin out => a.key \in Live \ out
         /\ \A k \in out : entries[k].message \in Messages
<1> USE DEF IInv
<1>1. Live \subseteq DOMAIN entries /\ out \subseteq DOMAIN entries
  BY DEF Live, Evictable
<1>2. \A k \in DOMAIN entries : IsPending(k) => k \in Live \ out
  BY DEF Live, Evictable
<1>3. \A h \in Holders : held[h] # NoKey => held[h] \in Live \ out
  BY <1>2 DEF HeldIsPending
<1>4. ASSUME NEW a \in completed, a.at > clock - TTL, a.message \notin evicted, a.key \notin out
      PROVE  a.key \in Live \ out
  <2>1. a.key \in DOMAIN entries /\ ~IsPending(a.key) /\ entries[a.key].message = a.message
    BY <1>4 DEF ReplayedWhileLive
  <2>2. PICK b \in completed : b.message = entries[a.key].message /\ b.at = entries[a.key].createdAt
    BY <2>1 DEF AnswersRecorded
  <2>3. a = b
    BY <2>1, <2>2 DEF MessagesOnce
  <2>4. entries[a.key].createdAt > clock - TTL
    BY <1>4, <2>2, <2>3
  <2> QED
    BY <1>4, <2>1, <2>4 DEF Live
<1>5. ASSUME NEW k \in out PROVE entries[k].message \in Messages
  <2>1. k \in DOMAIN entries /\ ~IsPending(k)
    BY DEF Evictable, Live
  <2>2. PICK a \in completed : a.message = entries[k].message
    BY <2>1 DEF AnswersRecorded
  <2> QED
    BY <2>2 DEF TypeOK
<1> QED
  BY <1>1, <1>2, <1>3, <1>4, <1>5

(* A finite cache stays finite, and what is left of it is no larger. *)
LEMMA Shrinks ==
  ASSUME IInv, NEW S \in SUBSET DOMAIN entries
  PROVE  IsFiniteSet(S) /\ Cardinality(S) \in Nat /\ Cardinality(S) <= Limit
<1>1. IsFiniteSet(DOMAIN entries) /\ Cardinality(DOMAIN entries) <= Limit
  BY DEF IInv, SizeBounded
<1>2. IsFiniteSet(S) /\ Cardinality(S) <= Cardinality(DOMAIN entries)
  BY <1>1, FS_Subset
<1>3. Cardinality(S) \in Nat /\ Cardinality(DOMAIN entries) \in Nat
  BY <1>1, <1>2, FS_CardinalityType
<1> QED
  BY <1>1, <1>2, <1>3, LimitAssumption

(* The entries after Reserve, one claim for each kind of key. *)
LEMMA Reserved ==
  ASSUME NEW key, NEW out, NEW entry,
         entries' = [k \in (Live \ out) \cup {key} |-> IF k = key THEN entry ELSE entries[k]],
         key \notin Live
  PROVE  /\ DOMAIN entries' = (Live \ out) \cup {key}
         /\ entries'[key] = entry
         /\ \A k \in Live \ out : k # key /\ entries'[k] = entries[k]
  OBVIOUS

(* Reserve, with its expiry and eviction, keeps the invariant. *)
LEMMA ReserveStep ==
  ASSUME IInv, NEW h \in Holders, NEW key \in Keys, NEW fingerprint \in Fingerprints,
         Reserve(h, key, fingerprint)
  PROVE  IInv'
<1> USE DEF IInv
<1> DEFINE entry == [fingerprint |-> fingerprint, status |-> "pending",
                     message |-> NoMessage, createdAt |-> clock]
<1>1. PICK out \in Overflow :
        /\ entries' = [k \in (Live \ out) \cup {key} |-> IF k = key THEN entry ELSE entries[k]]
        /\ evicted' = evicted \cup {entries[k].message : k \in out}
  BY DEF Reserve
<1>2. /\ out \in SUBSET Evictable
      /\ Fits(out)
  BY DEF Overflow
<1>3. /\ held[h] = NoKey /\ key \notin Live
      /\ held' = [held EXCEPT ![h] = key]
      /\ clock' = clock /\ completed' = completed
  BY DEF Reserve, Start
<1>4. /\ DOMAIN entries' = (Live \ out) \cup {key}
      /\ entries'[key] = entry
      /\ \A k \in Live \ out : k # key /\ entries'[k] = entries[k]
  BY <1>1, <1>3, Reserved
<1>5. entry \in Entry /\ entry.status = "pending" /\ key # NoKey
  BY KeysAssumption DEF TypeOK, Entry, NoKey
<1> HIDE DEF entry
<1>6. /\ Live \subseteq DOMAIN entries
      /\ \A k \in DOMAIN entries : IsPending(k) => k \in Live \ out
      /\ \A g \in Holders : held[g] # NoKey => held[g] \in Live \ out
      /\ \A a \in completed :
           a.at > clock - TTL /\ a.message \notin evicted /\ a.key \notin out => a.key \in Live \ out
      /\ \A k \in out : entries[k].message \in Messages
  BY <1>2, Spared
<1>7. /\ IsPending(key)'
      /\ \A k \in Live \ out : IsPending(k)' <=> IsPending(k)
  BY <1>4, <1>5 DEF IsPending
<1>8. TypeOK'
  <2>1. DOMAIN entries' \subseteq Keys /\ \A k \in DOMAIN entries' : entries'[k] \in Entry
    BY <1>4, <1>5, <1>6 DEF TypeOK
  <2>2. held' \in [Holders -> Keys \cup {NoKey}]
    BY <1>3 DEF TypeOK
  <2>3. evicted' \subseteq Messages
    BY <1>1, <1>6 DEF TypeOK
  <2> QED
    BY <2>1, <2>2, <2>3, <1>3 DEF TypeOK
<1>9. SizeBounded'
  <2>1. IsFiniteSet(Live \ out) /\ Cardinality(Live \ out) \in Nat
    BY <1>6, Shrinks
  <2>2. key \notin Live \ out
    BY <1>3
  <2>3. IsFiniteSet((Live \ out) \cup {key}) /\ Cardinality((Live \ out) \cup {key}) = Cardinality(Live \ out) + 1
    BY <2>1, <2>2, FS_AddElement
  <2>4. Cardinality(Live \ out) < Limit
    BY <1>2 DEF Fits
  <2> QED
    BY <1>4, <2>1, <2>3, <2>4, LimitAssumption DEF SizeBounded
<1>10. HeldIsPending'
  <2>1. held'[h] = key /\ \A g \in Holders : g # h => held'[g] = held[g]
    BY <1>3 DEF TypeOK
  <2>2. ASSUME NEW g \in Holders, held'[g] # NoKey PROVE held'[g] \in DOMAIN entries' /\ IsPending(held[g])'
    <3>1. CASE g = h
      BY <3>1, <2>1, <1>4, <1>7 DEF IsPending
    <3>2. CASE g # h
      <4>1. held'[g] = held[g] /\ held[g] \in Live \ out /\ IsPending(held[g])
        BY <3>2, <2>1, <2>2, <1>6 DEF HeldIsPending
      <4> QED
        BY <4>1, <1>4 DEF IsPending
    <3> QED
      BY <3>1, <3>2
  <2>3. ASSUME NEW f \in Holders, NEW g \in Holders, held'[f] = held'[g], held'[f] # NoKey PROVE f = g
    <3>1. \A e \in Holders : e # h /\ held'[e] # NoKey => held'[e] \in Live
      BY <2>1, <1>6
    <3> QED
      BY <3>1, <2>1, <2>3, <1>3 DEF HeldIsPending
  <2> QED
    BY <2>2, <2>3 DEF HeldIsPending, IsPending
<1>11. PendingIsHeld'
  <2>1. held'[h] = key /\ \A g \in Holders : g # h => held'[g] = held[g]
    BY <1>3 DEF TypeOK
  <2>2. ASSUME NEW k \in DOMAIN entries', IsPending(k)' PROVE \E g \in Holders : held'[g] = k
    <3>1. CASE k = key
      BY <3>1, <2>1
    <3>2. CASE k # key
      <4>1. k \in DOMAIN entries /\ IsPending(k) /\ k # NoKey
        BY <3>2, <2>2, <1>4, <1>6, <1>7, KeysAssumption DEF TypeOK, NoKey
      <4>2. PICK g \in Holders : held[g] = k
        BY <4>1 DEF PendingIsHeld
      <4> QED
        BY <4>1, <4>2, <2>1, <1>3
    <3> QED
      BY <3>1, <3>2
  <2> QED
    BY <2>2 DEF PendingIsHeld, IsPending
<1>12. AnswersRecorded'
  <2>1. ASSUME NEW k \in DOMAIN entries', ~IsPending(k)'
        PROVE  \E a \in completed : a.key = k /\ a.message = entries'[k].message /\ a.at = entries'[k].createdAt
    <3>1. k \in Live \ out /\ ~IsPending(k) /\ entries'[k] = entries[k]
      BY <2>1, <1>4, <1>7
    <3> QED
      BY <3>1, <1>6 DEF AnswersRecorded
  <2> QED
    BY <2>1, <1>3 DEF AnswersRecorded, IsPending
<1>13. MessagesOnce'
  BY <1>3 DEF MessagesOnce
<1>14. ReplayedWhileLive'
  <2>1. ASSUME NEW a \in completed, a.at > clock - TTL, a.message \notin evicted'
        PROVE  /\ a.key \in DOMAIN entries'
               /\ ~IsPending(a.key)'
               /\ entries'[a.key].message = a.message
               /\ entries'[a.key].fingerprint = a.fingerprint
    <3>1. a.message \notin evicted /\ \A k \in out : entries[k].message # a.message
      BY <2>1, <1>1
    <3>2. /\ a.key \in DOMAIN entries /\ ~IsPending(a.key)
          /\ entries[a.key].message = a.message
          /\ entries[a.key].fingerprint = a.fingerprint
      BY <2>1, <3>1 DEF ReplayedWhileLive
    <3>3. a.key \in Live \ out
      BY <2>1, <3>1, <3>2, <1>6
    <3>4. entries'[a.key] = entries[a.key] /\ a.key \in DOMAIN entries' /\ ~IsPending(a.key)'
      BY <3>2, <3>3, <1>4, <1>7
    <3> QED
      BY <3>2, <3>4
  <2> QED
    BY <2>1, <1>3 DEF ReplayedWhileLive, IsPending
<1> QED
  BY <1>8, <1>9, <1>10, <1>11, <1>12, <1>13, <1>14

(* Answered leaves the live entries as they are: an eviction of none. *)
LEMMA AnsweredStep ==
  ASSUME IInv, NEW h \in Holders, NEW key \in Keys, NEW fingerprint \in Fingerprints,
         Answered(h, key, fingerprint)
  PROVE  IInv'
<1> USE DEF IInv
<1>1. /\ DOMAIN entries' = Live
      /\ \A k \in Live : entries'[k] = entries[k]
      /\ UNCHANGED <<clock, held, completed, evicted>>
  BY DEF Answered, Restrict
<1>2. /\ Live \subseteq DOMAIN entries
      /\ \A k \in DOMAIN entries : IsPending(k) => k \in Live
      /\ \A g \in Holders : held[g] # NoKey => held[g] \in Live
      /\ \A a \in completed : a.at > clock - TTL /\ a.message \notin evicted => a.key \in Live
  BY Spared, {} \in SUBSET Evictable
<1>3. \A k \in Live : IsPending(k)' <=> IsPending(k)
  BY <1>1 DEF IsPending
<1>4. TypeOK'
  BY <1>1, <1>2 DEF TypeOK
<1>5. SizeBounded'
  BY <1>1, <1>2, Shrinks DEF SizeBounded
<1>6. HeldIsPending'
  BY <1>1, <1>2 DEF HeldIsPending, IsPending
<1>7. PendingIsHeld'
  BY <1>1, <1>2 DEF PendingIsHeld, IsPending
<1>8. AnswersRecorded' /\ MessagesOnce'
  BY <1>1, <1>2 DEF AnswersRecorded, MessagesOnce, IsPending
<1>9. ReplayedWhileLive'
  BY <1>1, <1>2 DEF ReplayedWhileLive, IsPending
<1> QED
  BY <1>4, <1>5, <1>6, <1>7, <1>8, <1>9

(* CompleteQueued keeps the invariant: the entry it reserved is still there. *)
LEMMA CompleteQueuedStep ==
  ASSUME IInv, NEW h \in Holders, NEW message \in Messages, Fresh(message),
         CompleteQueued(h, message)
  PROVE  IInv'
<1> USE DEF IInv
<1>0. PICK key \in Keys : key = held[h]
  BY DEF CompleteQueued, TypeOK
<1> DEFINE stored == [entries[key] EXCEPT !.message = message, !.status = "queued", !.createdAt = CompletionTime(h)]
           answer == [key |-> key, fingerprint |-> stored.fingerprint, message |-> message, at |-> clock]
<1>1. /\ key \in DOMAIN entries /\ IsPending(key) /\ key # NoKey
      /\ key \in Keys /\ entries[key] \in Entry
  BY <1>0 DEF CompleteQueued, HeldIsPending, TypeOK
<1>2. /\ entries' = [entries EXCEPT ![key] = stored]
      /\ completed' = completed \cup {answer}
      /\ held' = [held EXCEPT ![h] = NoKey]
      /\ clock' = clock /\ evicted' = evicted
  BY <1>0 DEF CompleteQueued
<1>3. /\ stored \in Entry /\ stored.message = message /\ stored.status = "queued"
      /\ stored.createdAt = clock
  BY <1>1 DEF Entry, CompletionTime, TypeOK
<1>4. /\ answer.key = key /\ answer.fingerprint = stored.fingerprint
      /\ answer.message = message /\ answer.at = clock
      /\ answer \in [key : Keys, fingerprint : Fingerprints, message : Messages, at : Nat]
  BY <1>1, <1>3 DEF Entry, TypeOK
<1>5. \A a \in completed : a.message # message
  BY DEF Fresh
<1> HIDE DEF stored, answer
<1>6. /\ DOMAIN entries' = DOMAIN entries
      /\ entries'[key] = stored
      /\ \A k \in DOMAIN entries : k # key => entries'[k] = entries[k]
  BY <1>1, <1>2
<1>7. /\ ~IsPending(key)'
      /\ \A k \in DOMAIN entries : k # key => (IsPending(k)' <=> IsPending(k))
  BY <1>3, <1>6 DEF IsPending
<1>8. held'[h] = NoKey /\ \A g \in Holders : g # h => held'[g] = held[g] /\ (held[g] # NoKey => held[g] # key)
  BY <1>0, <1>1, <1>2 DEF TypeOK, HeldIsPending
<1>9. TypeOK'
  <2>1. DOMAIN entries' \subseteq Keys /\ \A k \in DOMAIN entries' : entries'[k] \in Entry
    BY <1>3, <1>6 DEF TypeOK
  <2> QED
    BY <2>1, <1>2, <1>4 DEF TypeOK
<1>10. SizeBounded'
  BY <1>6 DEF SizeBounded
<1>11. HeldIsPending'
  BY <1>6, <1>8 DEF HeldIsPending, IsPending
<1>12. PendingIsHeld'
  <2>1. ASSUME NEW k \in DOMAIN entries', IsPending(k)' PROVE \E g \in Holders : held'[g] = k
    <3>1. k # key /\ k \in DOMAIN entries /\ IsPending(k)
      BY <2>1, <1>6, <1>7
    <3>2. PICK g \in Holders : held[g] = k
      BY <3>1 DEF PendingIsHeld
    <3>3. g # h
      BY <3>1, <3>2, <1>0
    <3> QED
      BY <3>2, <3>3, <1>8
  <2> QED
    BY <2>1 DEF PendingIsHeld, IsPending
<1>13. AnswersRecorded'
  <2>1. ASSUME NEW k \in DOMAIN entries', ~IsPending(k)'
        PROVE  \E a \in completed' : a.key = k /\ a.message = entries'[k].message /\ a.at = entries'[k].createdAt
    <3>1. CASE k = key
      BY <3>1, <1>2, <1>3, <1>4, <1>6
    <3>2. CASE k # key
      BY <3>2, <2>1, <1>2, <1>6, <1>7 DEF AnswersRecorded
    <3> QED
      BY <3>1, <3>2
  <2> QED
    BY <2>1 DEF AnswersRecorded, IsPending
<1>14. MessagesOnce'
  BY <1>2, <1>4, <1>5 DEF MessagesOnce
<1>15. ReplayedWhileLive'
  <2>1. ASSUME NEW a \in completed', a.at > clock - TTL, a.message \notin evicted
        PROVE  /\ a.key \in DOMAIN entries'
               /\ ~IsPending(a.key)'
               /\ entries'[a.key].message = a.message
               /\ entries'[a.key].fingerprint = a.fingerprint
    <3>1. CASE a = answer
      BY <3>1, <1>1, <1>3, <1>4, <1>6, <1>7
    <3>2. CASE a \in completed
      <4>1. /\ a.key \in DOMAIN entries /\ ~IsPending(a.key)
            /\ entries[a.key].message = a.message
            /\ entries[a.key].fingerprint = a.fingerprint
        BY <3>2, <2>1 DEF ReplayedWhileLive
      <4> QED
        BY <4>1, <1>1, <1>6, <1>7
    <3> QED
      BY <3>1, <3>2, <1>2
  <2> QED
    BY <2>1, <1>2 DEF ReplayedWhileLive, IsPending
<1> QED
  BY <1>9, <1>10, <1>11, <1>12, <1>13, <1>14, <1>15

(* Release keeps the invariant. *)
LEMMA ReleaseStep == ASSUME IInv, NEW h \in Holders, Release(h) PROVE IInv'
<1> USE DEF IInv
<1> DEFINE key == held[h]
<1>1. key \in DOMAIN entries /\ IsPending(key) /\ key # NoKey
  BY DEF Release, HeldIsPending
<1>2. /\ DOMAIN entries' = DOMAIN entries \ {key}
      /\ \A k \in DOMAIN entries' : entries'[k] = entries[k]
      /\ held' = [held EXCEPT ![h] = NoKey]
      /\ UNCHANGED <<clock, completed, evicted>>
  BY <1>1 DEF Release, Restrict, KeysAfterRelease
<1>3. held'[h] = NoKey /\ \A g \in Holders : g # h => held'[g] = held[g] /\ (held[g] # NoKey => held[g] # key)
  BY <1>1, <1>2 DEF TypeOK, HeldIsPending
<1>4. TypeOK'
  BY <1>2 DEF TypeOK
<1>5. SizeBounded'
  BY <1>2, Shrinks DEF SizeBounded
<1>6. HeldIsPending'
  BY <1>2, <1>3 DEF HeldIsPending, IsPending
<1>7. PendingIsHeld'
  <2>1. ASSUME NEW k \in DOMAIN entries', IsPending(k)' PROVE \E g \in Holders : held'[g] = k
    <3>1. k # key /\ k \in DOMAIN entries /\ IsPending(k)
      BY <2>1, <1>2 DEF IsPending
    <3>2. PICK g \in Holders : held[g] = k
      BY <3>1 DEF PendingIsHeld
    <3> QED
      BY <3>1, <3>2, <1>3
  <2> QED
    BY <2>1 DEF PendingIsHeld, IsPending
<1>8. AnswersRecorded' /\ MessagesOnce'
  BY <1>2 DEF AnswersRecorded, MessagesOnce, IsPending
<1>9. ReplayedWhileLive'
  BY <1>1, <1>2 DEF ReplayedWhileLive, IsPending
<1> QED
  BY <1>4, <1>5, <1>6, <1>7, <1>8, <1>9

(* Time keeps the invariant: answers expire, reservations do not. *)
LEMMA TickStep == ASSUME IInv, Tick PROVE IInv'
<1> USE DEF IInv
<1>1. clock' = clock + 1 /\ clock \in Nat /\ UNCHANGED <<entries, held, completed, evicted>>
  BY DEF Tick, TypeOK
<1>2. TypeOK' /\ SizeBounded'
  BY <1>1 DEF TypeOK, SizeBounded
<1>3. HeldIsPending' /\ PendingIsHeld' /\ AnswersRecorded' /\ MessagesOnce'
  BY <1>1 DEF HeldIsPending, PendingIsHeld, AnswersRecorded, MessagesOnce, IsPending
<1>4. ReplayedWhileLive'
  <2>1. \A a \in completed : a.at \in Nat /\ (a.at > clock' - TTL => a.at > clock - TTL)
    BY <1>1, TTLAssumption DEF TypeOK
  <2> QED
    BY <1>1, <2>1 DEF ReplayedWhileLive, IsPending
<1> QED
  BY <1>2, <1>3, <1>4

(* Every step keeps the invariant. *)
LEMMA NextInvariant == IInv /\ [Next]_vars => IInv'
<1> SUFFICES ASSUME IInv, [Next]_vars PROVE IInv'
  OBVIOUS
<1>1. ASSUME NEW h \in Holders, NEW key \in Keys, NEW fingerprint \in Fingerprints,
             Reserve(h, key, fingerprint) \/ Answered(h, key, fingerprint)
      PROVE  IInv'
  BY <1>1, ReserveStep, AnsweredStep
<1>2. ASSUME NEW h \in Holders, NEW message \in Messages, Fresh(message), CompleteQueued(h, message)
      PROVE  IInv'
  BY <1>2, CompleteQueuedStep
<1>3. ASSUME NEW h \in Holders, Release(h) PROVE IInv'
  BY <1>3, ReleaseStep
<1>4. CASE Tick
  BY <1>4, TickStep
<1>5. CASE UNCHANGED vars
  BY <1>5 DEF vars, IInv, TypeOK, SizeBounded, HeldIsPending, PendingIsHeld, AnswersRecorded,
     MessagesOnce, ReplayedWhileLive, IsPending
<1> QED
  BY <1>1, <1>2, <1>3, <1>4, <1>5 DEF Next

(* The invariant holds for ever. *)
LEMMA Invariance == Spec => []IInv
  BY InitInvariant, NextInvariant, PTL DEF Spec

-----------------------------------------------------------------------------
(* The variables keep their types; in particular an evicted or accepted    *)
(* message is always one that was generated, never the empty ID.           *)
THEOREM TypeCorrect == Spec => []TypeOK
<1>1. IInv => TypeOK
  BY DEF IInv
<1> QED
  BY <1>1, Invariance, PTL

(* The cache never exceeds its limit, pending entries included. *)
THEOREM SizeSafe == Spec => []SizeBounded
<1>1. IInv => SizeBounded
  BY DEF IInv
<1> QED
  BY <1>1, Invariance, PTL

(* A reservation keeps its pending entry through every expiry and eviction *)
(* that other requests bring about, and no pending entry is orphaned: the  *)
(* error returns of CompleteQueued cannot be reached.                      *)
THEOREM ReservationSafe == Spec => []PendingIffHeld
<1>1. IInv => PendingIffHeld
  BY DEF IInv, PendingIffHeld
<1> QED
  BY <1>1, Invariance, PTL

(* The key of an accepted request answers with that request's message and  *)
(* fingerprint until the answer expires or is evicted.                     *)
THEOREM ReplaySafe == Spec => []ReplayedWhileLive
<1>1. IInv => ReplayedWhileLive
  BY DEF IInv
<1> QED
  BY <1>1, Invariance, PTL

-----------------------------------------------------------------------------
(* The cache after a Reserve that evicts anything is full: the eviction    *)
(* stops as soon as the new entry fits.                                    *)
LEMMA EvictsNoMore ==
  ASSUME IInv, NEW key, key \notin Live, NEW out \in Overflow, NEW gone \in out
  PROVE  Cardinality((Live \ out) \cup {key}) = Limit
<1>1. /\ out \in SUBSET Evictable /\ Fits(out) /\ ~Fits(out \ {gone})
  BY DEF Overflow
<1>2. gone \in Live /\ Live \subseteq DOMAIN entries
  BY <1>1 DEF Live, Evictable
<1>3. IsFiniteSet(Live \ out) /\ Cardinality(Live \ out) \in Nat
  BY <1>2, Shrinks
<1>4. Live \ (out \ {gone}) = (Live \ out) \cup {gone}
  BY <1>2
<1>5. Cardinality(Live \ (out \ {gone})) = Cardinality(Live \ out) + 1
  BY <1>3, <1>4, FS_AddElement
<1>6. Cardinality((Live \ out) \cup {key}) = Cardinality(Live \ out) + 1
  BY <1>3, FS_AddElement
<1> QED
  BY <1>1, <1>3, <1>5, <1>6, LimitAssumption DEF Fits

(* What Reserve evicts is older than every answer it leaves. *)
LEMMA ReserveEvictsOldest ==
  ASSUME IInv, NEW h \in Holders, NEW key \in Keys, NEW fingerprint \in Fingerprints,
         Reserve(h, key, fingerprint),
         NEW a \in completed, NEW b \in completed,
         a.message \in evicted' \ evicted, b.at > clock - TTL, b.message \notin evicted'
  PROVE  a.at <= b.at /\ Cardinality(DOMAIN entries') = Limit
<1> USE DEF IInv
<1>1. PICK out \in Overflow :
        /\ DOMAIN entries' = (Live \ out) \cup {key}
        /\ evicted' = evicted \cup {entries[k].message : k \in out}
  BY DEF Reserve
<1>2. /\ out \in SUBSET Evictable
      /\ \A j \in out, k \in Evictable \ out : Older(j, k)
  BY DEF Overflow
<1>3. PICK gone \in out : entries[gone].message = a.message
  BY <1>1
<1>4. entries[gone].createdAt = a.at
  <2>1. gone \in DOMAIN entries /\ ~IsPending(gone)
    BY <1>2 DEF Evictable, Live
  <2>2. PICK c \in completed : c.message = entries[gone].message /\ c.at = entries[gone].createdAt
    BY <2>1 DEF AnswersRecorded
  <2>3. c = a
    BY <2>2, <1>3 DEF MessagesOnce
  <2> QED
    BY <2>2, <2>3
<1>5. b.message \notin evicted /\ \A k \in out : entries[k].message # b.message
  BY <1>1
<1>6. /\ b.key \in DOMAIN entries /\ ~IsPending(b.key) /\ entries[b.key].message = b.message
  BY <1>5 DEF ReplayedWhileLive
<1>7. b.key \in Evictable \ out
  BY <1>2, <1>5, <1>6, Spared DEF Evictable
<1>8. entries[b.key].createdAt = b.at
  <2>1. PICK c \in completed : c.message = entries[b.key].message /\ c.at = entries[b.key].createdAt
    BY <1>6 DEF AnswersRecorded
  <2>2. c = b
    BY <2>1, <1>6 DEF MessagesOnce
  <2> QED
    BY <2>1, <2>2
<1>9. a.at <= b.at
  <2>1. Older(gone, b.key)
    BY <1>2, <1>3, <1>7
  <2>2. a.at \in Nat /\ b.at \in Nat
    BY DEF TypeOK
  <2> QED
    BY <2>1, <2>2, <1>4, <1>8 DEF Older
<1>10. Cardinality(DOMAIN entries') = Limit
  <2>1. key \notin Live
    BY DEF Reserve
  <2> QED
    BY <2>1, <1>1, <1>3, EvictsNoMore
<1> QED
  BY <1>9, <1>10

(* Eviction is first in, first out, and takes from a full cache only. *)
THEOREM EvictionSafe == Spec => OldestEvictedFirst
<1> DEFINE EvictsOldest ==
      \A a, b \in completed :
        /\ a.message \in evicted' \ evicted
        /\ b.at > clock - TTL
        /\ b.message \notin evicted'
        => a.at <= b.at /\ Cardinality(DOMAIN entries') = Limit
<1>1. IInv /\ [Next]_vars => [EvictsOldest]_vars
  <2> SUFFICES ASSUME IInv, Next PROVE EvictsOldest
    OBVIOUS
  <2>1. ASSUME NEW h \in Holders, NEW key \in Keys, NEW fingerprint \in Fingerprints,
               Reserve(h, key, fingerprint)
        PROVE  EvictsOldest
    BY <2>1, ReserveEvictsOldest
  <2>2. CASE evicted' = evicted
    BY <2>2
  <2> QED
    BY <2>1, <2>2 DEF Next, Answered, CompleteQueued, Release, Tick
<1>2. Spec => [][EvictsOldest]_vars
  BY <1>1, Invariance, PTL DEF Spec
<1> QED
  BY <1>2 DEF OldestEvictedFirst
=============================================================================
