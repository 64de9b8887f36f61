---------------------------- MODULE MCLifecycle ----------------------------
(* Model-checking instance of Lifecycle: two requests, two workers and a   *)
(* provider channel to fall back on.                                       *)
EXTENDS Lifecycle

CONSTANTS m1, m2

MCMessages == {m1, m2}
=============================================================================
