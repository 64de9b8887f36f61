---------------------------- MODULE MCAdmission ----------------------------
(***************************************************************************)
(* A valid configuration of two apps and three channels, and every file    *)
(* that differs from it in one entry, or in a channel and an account or a  *)
(* channel and a route; good secrets, and all but one good; suppression    *)
(* files with no entry, a good one and bad ones.                           *)
(***************************************************************************)
EXTENDS Admission, TLC

MCSettings == {"max_file_size_mb", "memory_queue_size"}
MCUnits    == "max_file_size_mb" :> 4 @@ "memory_queue_size" :> 1
MCIntWidth == 8

MCLower ==
  LET self == {"ann@example.com", "bob@other.org", "example.com", Wildcard}
  IN [x \in self |-> x] @@ "Ann@Example.com" :> "ann@example.com" @@ "Example.com" :> "example.com"

MCRecipientOrder == <<"ann@example.com", "bob@other.org">>

MCRecipientDomain ==
  "ann@example.com" :> "example.com" @@ "Ann@Example.com" :> "example.com" @@ "bob@other.org" :> "other.org"

Refs == {"ref.app1", "ref.app2", "ref.provider", "ref.smtp"}

(* An entry meets a short, spaced or unreadable key where it names         *)
(* another's reference.                                                    *)
GoodVault == "ref.app1" :> "key1" @@ "ref.app2" :> "key2" @@ "ref.provider" :> "short" @@ "ref.smtp" :> "spaced"

MCVaults ==
  {GoodVault, [GoodVault EXCEPT !["ref.app2"] = "key1"],
   [GoodVault EXCEPT !["ref.provider"] = Unreadable], [GoodVault EXCEPT !["ref.smtp"] = ""]}

Smtp == [host |-> "host", port |-> 587, username |-> "user", password |-> NoRef]

AccountOf(code, provider) == [code |-> code, provider |-> provider, enabled |-> TRUE, apiKey |-> "ref.provider"]

ChannelOf(code, account, transport, smtp) ==
  [code |-> code, account |-> account, transport |-> transport, enabled |-> TRUE,
   from |-> "in sender domain", fromName |-> "safe", smtp |-> smtp]

TemplateOf(locale, text) ==
  [code |-> "welcome", locale |-> locale, enabled |-> TRUE, subject |-> "parses", html |-> "parses", text |-> text]

AppOf(code, ref, routes) ==
  [code |-> code, enabled |-> TRUE, defaultLocale |-> "en", locales |-> {"en", "zh"},
   keys      |-> <<[code |-> "main", enabled |-> TRUE, ref |-> ref]>>,
   templates |-> <<TemplateOf("en", "parses"), TemplateOf("zh", "")>>,
   scenes    |-> <<[code |-> "login", enabled |-> TRUE, template |-> "welcome", limit |-> 1, routes |-> routes]>>]

Base ==
  [settings |-> [s \in MCSettings |-> 10], attempts |-> 2, backoff |-> <<0, 30>>, stats |-> "off",
   trustedProxies |-> {[kind |-> "address", mapped |-> FALSE, bits |-> 0, hosts |-> {"proxy"}]},
   accounts |-> <<AccountOf("resend", "resend"), AccountOf("mock", "mock")>>,
   channels |-> <<ChannelOf("web", "resend", "api", {}), ChannelOf("mail", "resend", "smtp", {Smtp}),
                  ChannelOf("test", "mock", "api", {})>>,
   apps     |-> <<AppOf("shop", "ref.app1", "example.com" :> <<"mail", "web", "test">> @@ Wildcard :> <<"web">>),
                  AppOf("blog", "ref.app2", Wildcard :> <<"mail", "test">>)>>,
   webhooks |-> [enabled |-> TRUE, shared |-> "ref.provider", resend |-> NoRef, brevo |-> NoRef]]

-----------------------------------------------------------------------------
(* The entries that differ from one in a field. *)
DefaultEdits ==
  {[Base EXCEPT !.settings[s] = n] : s \in MCSettings, n \in {-1, 0, 40, 100}}
    \cup {[Base EXCEPT !.attempts = n] : n \in 0..4}
    \cup {[Base EXCEPT !.attempts = n, !.backoff = b] :
            n \in {0, 1, 3}, b \in {<< >>, <<0>>, <<30>>, <<0, 30, 120>>, <<0, 301, 1>>}}
    \cup {[Base EXCEPT !.stats = x] : x \in {"", "file", "redis"}}
    \cup {[Base EXCEPT !.trustedProxies = {[kind |-> k, mapped |-> m, bits |-> b, hosts |-> {"proxy", "bob"}]}] :
            k \in {"prefix", "other"}, m \in BOOLEAN, b \in {0, 1, 96, 97}}
    \cup {[Base EXCEPT !.trustedProxies = {}]}

AccountEdits(a) ==
  {[a EXCEPT !.code = x] : x \in {"", "resend", "mock"}}
    \cup {[a EXCEPT !.provider = x] : x \in {"mock", "resend", "brevo", "ses"}}
    \cup {[a EXCEPT !.enabled = FALSE]}
    \cup {[a EXCEPT !.apiKey = x] : x \in {NoRef, "ref.smtp", "ref.app2"}}

SmtpEdits ==
  {[Smtp EXCEPT !.host = ""], [Smtp EXCEPT !.port = 25], [Smtp EXCEPT !.username = ""],
   [Smtp EXCEPT !.password = "ref.smtp"]}

ChannelEdits(ch) ==
  {[ch EXCEPT !.code = x] : x \in {"", "web", "mail"}}
    \cup {[ch EXCEPT !.account = x] : x \in {"mock", "resend", "nobody"}}
    \cup {[ch EXCEPT !.transport = x, !.smtp = y] : x \in Transports \cup {"fax"}, y \in {{}, {Smtp}}}
    \cup {[ch EXCEPT !.enabled = FALSE]}
    \cup {[ch EXCEPT !.from = x] : x \in {"other domain", "malformed"}}
    \cup {[ch EXCEPT !.fromName = "control characters"]}
    \cup {[ch EXCEPT !.smtp = IF ch.smtp = {} THEN {} ELSE {x}] : x \in SmtpEdits}

KeyEdits(key) ==
  {[key EXCEPT !.enabled = FALSE], [key EXCEPT !.code = ""]}
    \cup {[key EXCEPT !.ref = x] : x \in Refs}

TemplateEdits(t) ==
  {[t EXCEPT !.code = "other"], [t EXCEPT !.enabled = FALSE], [t EXCEPT !.html = ""]}
    \cup {[t EXCEPT !.locale = x] : x \in {"en", "zh", "fr"}}
    \cup {[t EXCEPT !.subject = x] : x \in {"", "broken"}}
    \cup {[t EXCEPT !.text = x] : x \in {"", "broken"}}

(* What parses and does not render. *)
ExecutionEdits(app) ==
  {[app EXCEPT !.templates[1].subject = "empty"], [app EXCEPT !.templates[1].text = "fails"],
   [app EXCEPT !.templates[2].html = "empty"]}

(* Every channel list under one key, and every key with one list. *)
RouteLists == {Wildcard :> list : list \in {<< >>, <<"web">>, <<"web", "web">>, <<"test", "mail", "web">>, <<"gone">>}}

Routes ==
  RouteLists
    \cup {"example.com" :> <<"web">>}
    \cup {key :> <<"mail">> @@ Wildcard :> <<"web">> : key \in {"Example.com", "example.com", ""}}

SceneEdits(s) ==
  {[s EXCEPT !.enabled = FALSE], [s EXCEPT !.code = ""], [s EXCEPT !.template = "other"], [s EXCEPT !.limit = 0]}
    \cup {[s EXCEPT !.routes = x] : x \in Routes}

AppEdits(app) ==
  {[app EXCEPT !.enabled = FALSE], [app EXCEPT !.code = "blog"]}
    \cup {[app EXCEPT !.defaultLocale = x] : x \in {"", "zh", "fr"}}
    \cup {[app EXCEPT !.locales = x] : x \in {{"en"}, {"zh"}, {"en", ""}, {}}}
    \cup {[app EXCEPT !.keys = x] : x \in {<< >>} \cup {<<k>> : k \in KeyEdits(app.keys[1])}}
    \cup {[app EXCEPT !.keys = Append(@, [code |-> k, enabled |-> FALSE, ref |-> "ref.app2"])] : k \in {"main", "spare"}}
    \cup {[app EXCEPT !.templates = << >>]}
    \cup ExecutionEdits(app)
    \cup UNION {{[app EXCEPT !.templates[i] = t] : t \in TemplateEdits(app.templates[i])} : i \in {1, 2}}
    \cup {[app EXCEPT !.scenes = << >>], [app EXCEPT !.scenes = Append(@, @[1])]}
    \cup {[app EXCEPT !.scenes[1] = s] : s \in SceneEdits(app.scenes[1])}

WebhookEdits ==
  {[Base.webhooks EXCEPT !.enabled = FALSE, !.shared = s] : s \in {NoRef, "ref.smtp"}}
    \cup {[enabled |-> TRUE, shared |-> s, resend |-> r, brevo |-> b] :
            s \in {NoRef, "ref.smtp"}, r \in {NoRef, "ref.app1", "ref.provider"}, b \in {NoRef, "ref.provider"}}

MCConfigurations ==
  {Base} \cup DefaultEdits
    \cup UNION {{[Base EXCEPT !.channels[i] = ch, !.accounts[1] = a] :
                   ch \in ChannelEdits(Base.channels[i]), a \in AccountEdits(Base.accounts[1])} : i \in {1, 2}}
    \cup UNION {{[Base EXCEPT !.channels[i] = ch, !.apps[1].scenes[1].routes = x] :
                   ch \in ChannelEdits(Base.channels[i]), x \in RouteLists} : i \in {2, 3}}
    \cup {[Base EXCEPT !.accounts[2] = a] : a \in AccountEdits(Base.accounts[2])}
    \cup {[Base EXCEPT !.apps = << >>]}
    \cup {[Base EXCEPT !.apps[1] = app] : app \in AppEdits(Base.apps[1])}
    \cup {[Base EXCEPT !.webhooks = w] : w \in WebhookEdits}

Entry(app, email, reason) == [app |-> app, email |-> email, reason |-> reason]

MCSuppressionFiles ==
  {{}, {Entry("shop", "Ann@Example.com", "manual")}, {Entry("gone", "ann@example.com", "manual")},
   {Entry("shop", "ann", "manual")}, {Entry("shop", "bob@other.org", "spam")},
   {Entry("blog", "ann@example.com", "manual"), Entry("blog", "Ann@Example.com", "manual")}}

MCRequests ==
  [token : {"key1", "key2"}, scene : {"login", "gone"}, locale : {"", "en", "zh"},
   to : {"ann@example.com", "bob@other.org"}]

-----------------------------------------------------------------------------
(* Addresses in both spellings. *)
MCAddresses ==
  {NoAddress, [host |-> "bob", mapped |-> FALSE]} \cup [host : {"proxy", "ann"}, mapped : BOOLEAN]

(* Literals of up to four digits and numbers on both sides of all bounds,  *)
(* each written in several ways.                                           *)
PlainZeros == 3

Digits == UNION {[1..n -> {0, 1, 7}] : n \in 0..(PlainZeros + 1)}

AnyLiterals ==
  {[negative |-> n, integer |-> i, fraction |-> f, exponent |-> e] :
     n \in BOOLEAN, e \in -9..7,
     i \in {<<0>>} \cup {d \in Digits : d # << >> /\ d[1] # 0}, f \in {d \in Digits : Len(d) <= PlainZeros}}

MCLiterals == {l \in AnyLiterals : Len(l.integer) + Len(l.fraction) <= PlainZeros + 1}

Literal(integer, fraction, exponent) ==
  <<"number", [negative |-> FALSE, integer |-> integer, fraction |-> fraction, exponent |-> exponent]>>

(* Variables: equal ones in another order or spelling, a name given twice, *)
(* and what may not be.                                                    *)
Object(size, fields) == [kind |-> "object", size |-> size, fields |-> fields]
Absent == [kind |-> Missing, size |-> 0, fields |-> << >>]

MCVars ==
  {Absent, [Absent EXCEPT !.kind = Null], [Absent EXCEPT !.kind = Malformed], Object(2, << >>), Object(9, << >>)}
    \cup {Object(5, <<<<"code", v>>>>) :
            v \in {<<"string", "1">>, <<"string", "true">>, <<"bool", "true">>, <<"string", Malformed>>,
                   <<"null", Null>>, <<"nested", Null>>, Literal(<<1>>, << >>, 0), Literal(<<1>>, <<0>>, 0),
                   Literal(<<1, 0>>, << >>, 3), Literal(<<1>>, << >>, 4), Literal(<<1>>, << >>, 1), Literal(<<0>>, << >>, 0)}}
    \cup {Object(6, <<<<"code", <<"bool", "true">>>>, <<n, Literal(<<1>>, << >>, 0)>>>>) : n \in {"code", "name", Malformed}}
    \cup {Object(6, <<<<"name", Literal(<<1>>, <<0>>, 0)>>, <<"code", <<"bool", "true">>>>>>),
          Object(8, <<<<"name", <<"bool", "true">>>>, <<"code", <<"bool", "true">>>>, <<"last", <<"bool", "true">>>>>>)}

Raw ==
  [contentType |-> "application/json", size |-> 9, body |-> "object", key |-> "key", scene |-> "login",
   to |-> "ann@example.com", locale |-> Missing, vars |-> Absent, context |-> Absent]

MCRawRequests ==
  {[Raw EXCEPT !.to = to, !.locale = l, !.vars = v] :
     to \in {"ann@example.com", "Ann@Example.com", "bob@other.org"}, l \in {Missing, "en"}, v \in MCVars}
    \cup {[Raw EXCEPT !.contentType = "text/plain"], [Raw EXCEPT !.size = 99]}
    \cup {[Raw EXCEPT !.body = x] : x \in {Null, Malformed}}
    \cup {[Raw EXCEPT !.key = x] : x \in {Missing, Malformed}}
    \cup {[Raw EXCEPT !.scene = x] : x \in {Missing, Null, Malformed}}
    \cup {[Raw EXCEPT !.to = x] : x \in {Missing, Null, Malformed}}
    \cup {[Raw EXCEPT !.locale = x] : x \in {Null, Malformed, "fr"}}
    \cup {[Raw EXCEPT !.context = x] :
            x \in {Object(3, << >>), Object(3, <<<<"user_id", <<"bool", "true">>>>>>),
                   Object(3, <<<<"user_ip", <<"string", Malformed>>>>>>), Object(3, <<<<"user_id", <<"string", "ann">>>>>>),
                   Object(3, <<<<Malformed, <<"bool", "true">>>>>>), Object(9, << >>), [Absent EXCEPT !.kind = Null]}}

MCLocales  == {"en", "zh"}
MCVarNames == <<"code", "last", "name">>
MCNormalized == [to \in DOMAIN MCRecipientDomain |-> MCLower[to]]
=============================================================================
