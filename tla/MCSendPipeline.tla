--------------------------- MODULE MCSendPipeline ---------------------------
(* Model-checking instance of SendPipeline: two requests under one key, of *)
(* which the second asks for something else, and one each under two other keys.   *)
EXTENDS SendPipeline, TLC

MCRules     == {"email_minute", "caller_ip_hour", "user_ip_hour"}
MCWindow    == [email_minute |-> 1, caller_ip_hour |-> 2, user_ip_hour |-> 2]
MCRuleLimit == [email_minute |-> 1, caller_ip_hour |-> 2, user_ip_hour |-> 1]

MCRequests == {
  [key |-> 1, fingerprint |-> "first",
   subjects |-> [email_minute |-> "ann", caller_ip_hour |-> "ip"]],
  [key |-> 1, fingerprint |-> "other",
   subjects |-> [email_minute |-> "bob", caller_ip_hour |-> "ip", user_ip_hour |-> "ip"]],
  [key |-> 2, fingerprint |-> "first",
   subjects |-> [email_minute |-> "ann", caller_ip_hour |-> "ip", user_ip_hour |-> "ip"]],
  [key |-> 3, fingerprint |-> "first",
   subjects |-> [email_minute |-> "bob", user_ip_hour |-> "ip"]]}

Symmetry == Permutations(Handlers)
=============================================================================
