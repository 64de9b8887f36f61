----------------------------- MODULE MCDelivery -----------------------------
(* Model-checking instance of Delivery: two messages to one recipient, one *)
(* with a second channel to fall back on and every kind of event, one that *)
(* bounces.                                                                *)
EXTENDS Delivery, TLC

CONSTANTS m1, m2

MCMessages  == {m1, m2}
MCRecipient == [m \in MCMessages |-> "ann"]
MCChannels  == [m \in MCMessages |-> IF m = m1 THEN 2 ELSE 1]
MCReports   == [message : {m1}, type : EventType] \cup {[message |-> m2, type |-> "bounced"]}
NoBackoff   == << >>
OneSecond   == <<0, 1>>
NoReports   == {}

Symmetry == Permutations(Workers)
=============================================================================
