----------------------------- MODULE DelayQueue -----------------------------
(***************************************************************************)
(* What internal/lite/memory_queue.go promises its callers, without the    *)
(* counter, the ready list, the heap, the channel and the timers: a bag of *)
(* tasks of bounded size.  A claim counts as a task against the bound, a   *)
(* task is handed out at most once and never before its ready time, and    *)
(* shutting the queue empties it for good.                                 *)
(***************************************************************************)
EXTENDS Integers, FiniteSets

CONSTANTS Capacity, Callers, Delays

VARIABLES
  clock,
  claims,    \* the callers that hold a slot
  items,     \* the tasks put and not yet taken
  issued,    \* how many tasks were ever put
  handed,    \* the sequence numbers of the tasks taken
  open

vars == <<clock, claims, items, issued, handed, open>>

Init ==
  /\ clock = 0
  /\ claims = {}
  /\ items = {}
  /\ issued = 0
  /\ handed = {}
  /\ open = TRUE

Claim(c) ==
  /\ open
  /\ c \notin claims
  /\ Cardinality(claims) + Cardinality(items) < Capacity
  /\ claims' = claims \cup {c}
  /\ UNCHANGED <<clock, items, issued, handed, open>>

Put(c, delay) ==
  /\ open
  /\ c \in claims
  /\ claims' = claims \ {c}
  /\ issued' = issued + 1
  /\ items' = items \cup {[seq |-> issued + 1, readyAt |-> clock + delay, delay |-> delay]}
  /\ UNCHANGED <<clock, handed, open>>

GiveBack(c) ==
  /\ c \in claims
  /\ claims' = claims \ {c}
  /\ UNCHANGED <<clock, items, issued, handed, open>>

Take(item) ==
  /\ open
  /\ item.readyAt <= clock
  /\ item.seq \notin handed
  /\ items' = items \ {item}
  /\ handed' = handed \cup {item.seq}
  /\ UNCHANGED <<clock, claims, issued, open>>

Shut ==
  /\ open
  /\ open' = FALSE
  /\ items' = {}
  /\ UNCHANGED <<clock, claims, issued, handed>>

Tick ==
  /\ clock' = clock + 1
  /\ UNCHANGED <<claims, items, issued, handed, open>>

Next ==
  \/ \E c \in Callers : Claim(c) \/ GiveBack(c) \/ \E delay \in Delays : Put(c, delay)
  \/ \E item \in items : Take(item)
  \/ Shut
  \/ Tick

Spec == Init /\ [][Next]_vars
=============================================================================
