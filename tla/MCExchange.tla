----------------------------- MODULE MCExchange -----------------------------
(* Model-checking instance of Exchange: routes over every kind of channel. *)
(* A second has two units, a Duration holds seven and a half seconds, and  *)
(* the calendar ends at 9.                                                 *)
EXTENDS Exchange

ChannelOf(code, provider, account, transport) ==
  [code |-> code, provider |-> provider, account |-> account, transport |-> transport,
   found |-> TRUE, enabled |-> TRUE]

ResendAPI  == ChannelOf("resend-api", "resend", "resend", "api")
ResendAPI2 == ChannelOf("resend-eu", "resend", "resend", "api")
ResendSMTP == ChannelOf("resend-smtp", "resend", "resend", "smtp")
BrevoAPI   == ChannelOf("brevo-api", "brevo", "brevo", "api")
Mock       == ChannelOf("mock", "mock", "mock", "api")
Disabled   == [ResendAPI EXCEPT !.enabled = FALSE]
NotFound   == [BrevoAPI EXCEPT !.found = FALSE]

MCRoutes == {
  <<ResendAPI, BrevoAPI, ResendAPI2>>, <<BrevoAPI, ResendSMTP>>, <<ResendSMTP, ResendAPI>>,
  <<NotFound, ResendAPI>>, <<Disabled, NotFound>>, <<Mock>> }

MCIdentifiers == {"app"} \cup 
  UNION {{channel.code, channel.account} : channel \in {ResendAPI, ResendAPI2, ResendSMTP, BrevoAPI, Mock}}
MCNormal   == [s \in {"ann@example.com", "Ann@example.com"} |-> "ann@example.com"]
MCIds      == <<"id-1", "id-2", "id-3">>
MCBackoff  == <<0, 1>>
MCHeaders  == {NoHeader} \cup [form : {"seconds"}, value : {2, 16}]
                         \cup [form : {"date"}, value : {-1, 1, 13, 15}]
MCInstants == {5, 10}
MCOffsets  == {-1, 0, 1}
=============================================================================
