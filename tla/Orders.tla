------------------------------- MODULE Orders -------------------------------
(***************************************************************************)
(* Order as the code's loops and sorts have it: a list is filtered, cut    *)
(* off or sorted (domain/route.go, SuppressionStore.List, the queries of   *)
(* the message log), and names are sorted before they are hashed           *)
(* (writeCanonicalVars).                                                   *)
(***************************************************************************)
EXTENDS Integers, FiniteSets

(* The place of a number in S, and the number in the n-th place. *)
Place(S, i) == Cardinality({j \in S : j <= i})
Nth(S, n)   == CHOOSE i \in S : Place(S, i) = n

(* The members of S, of which Before says which comes first. *)
InOrder(S, Before(_, _)) ==
  [n \in 1..Cardinality(S) |-> CHOOSE x \in S : Cardinality({y \in S : Before(y, x)}) = n - 1]
=============================================================================
