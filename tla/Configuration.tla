--------------------------- MODULE Configuration ---------------------------
(***************************************************************************)
(* The configuration file and what internal/config accepts of it.          *)
(*                                                                         *)
(* A configuration is a record c of the file's sections; a list of the     *)
(* file is a sequence, an optional value (an SMTP block) a set of at most  *)
(* one, an absent reference NoRef.  An optional "enabled" is the Boolean   *)
(* EnabledValue makes of it, and "" stands for every malformed name.  v    *)
(* maps the secret references to what they resolve to at the moment, and   *)
(* f is the suppression file's set of entries.  LoadFile also resolves     *)
(* relative paths, which is left out.                                      *)
(***************************************************************************)
EXTENDS Integers, Sequences, FiniteSets

CONSTANTS
  Settings,   \* the numeric settings: timeouts, sizes, log limits
  Units,      \* what a setting is multiplied by: bytes of a MB, ns of an hour
  IntWidth,   \* the width of an int; with Units scaled down from 64 bits
  Lower       \* strings.ToLower on the addresses and domains in play

(* Units are positive, and there are no capital letters in "*". *)
ASSUME UnitsAssumption == \A s \in Settings : Units[s] \in Nat \ {0}
ASSUME LowerAssumption == "*" \in DOMAIN Lower /\ Lower["*"] = "*"

maxMVPAttemptsPerMessage  == 3
maxMVPRetryBackoffSeconds == 300
DefaultSetting            == 10   \* any positive number
DefaultBackoff            == <<0, 30, 120>>

NoRef      == "none"
Unreadable == "unreadable"   \* unset variable, missing file, unknown scheme

-----------------------------------------------------------------------------
(* domain/constants.go *)
Providers         == {"mock", "resend", "brevo"}
Transports        == {"api", "smtp"}
SuppressionReason == {"hard_bounce", "complaint", "manual"}
Wildcard          == "*"

SupportsTransport(provider, transport) ==
  \/ provider \in Providers /\ transport = "api"
  \/ provider \in Providers \ {"mock"} /\ transport = "smtp"

(* Secret values, by what the checks tell apart: long enough for an API    *)
(* key, visible but too short, with white space inside, empty.             *)
KeyValues == {"key1", "key2"}

Visible(value)            == value \in KeyValues \cup {"short"}
IsValidAPIKeyValue(value) == value \in KeyValues
IsSvixSecret(value)       == value \in KeyValues

Resolve(v, ref) == IF ref \in DOMAIN v THEN v[ref] ELSE Unreadable

(* resolveSecretRef: the reference resolves to some text. *)
ResolvesSecret(v, ref) == Resolve(v, ref) \notin {Unreadable, ""}

-----------------------------------------------------------------------------
(* The shape that a file has once it is decoded, as far as it matters: the *)
(* numbers are integers, and the lists of the routes are lists.            *)
IsConfiguration(c) ==
  /\ {"settings", "attempts", "backoff", "stats"} \subseteq DOMAIN c
  /\ c.settings \in [Settings -> Int] /\ c.attempts \in Int /\ c.backoff \in Seq(Int)
  /\ \A proxy \in c.trustedProxies : proxy.bits \in Int
  /\ \A a \in DOMAIN c.apps : \A s \in DOMAIN c.apps[a].scenes :
       LET routes == c.apps[a].scenes[s].routes
       IN \A key \in DOMAIN routes : routes[key] \in Seq(STRING)

(* applyDefaults, on the sections where an omitted value is 0 or empty. *)
WithDefaults(c) ==
  LET attempts == IF c.attempts = 0 THEN maxMVPAttemptsPerMessage ELSE c.attempts
      known    == attempts \in 1..Len(DefaultBackoff)
  IN [c EXCEPT
        !.settings = [s \in Settings |-> IF c.settings[s] = 0 THEN DefaultSetting ELSE c.settings[s]],
        !.attempts = attempts,
        !.backoff  = IF c.backoff # << >> THEN c.backoff
                     ELSE IF known THEN SubSeq(DefaultBackoff, 1, attempts)
                     ELSE DefaultBackoff,
        !.stats    = IF c.stats = "" THEN "off" ELSE c.stats]

-----------------------------------------------------------------------------
(* The entry a map built first come, first kept holds under a code; and    *)
(* the one a map built by overwriting holds.                               *)
Named(list, code)      == {i \in DOMAIN list : list[i].code = code}
FirstNamed(list, code) == {list[i] : i \in {i \in Named(list, code) : \A j \in Named(list, code) : i <= j}}
LastNamed(list, code)  == {list[i] : i \in {i \in Named(list, code) : \A j \in Named(list, code) : i >= j}}

(* Every code is an identifier and no two are the same. *)
UniqueCodes(list) ==
  \A i, j \in DOMAIN list : list[i].code # "" /\ (list[i].code = list[j].code => i = j)

(* A prefix that would trust everybody is refused; an IPv4-mapped one      *)
(* counts from bit 96.                                                     *)
IsValidTrustedProxy(proxy) ==
  CASE proxy.kind = "address" -> TRUE
    [] proxy.kind = "prefix"  -> proxy.bits > (IF proxy.mapped THEN 96 ELSE 0)
    [] OTHER                  -> FALSE

ValidateServer(c) == \A proxy \in c.trustedProxies : IsValidTrustedProxy(proxy)

ValidateRuntime(c) == c.stats \in {"off", "file"}

(* validateServer's, validateDefaults' and validateLogging's numbers. *)
ValidateDefaults(c) ==
  /\ \A s \in Settings : c.settings[s] > 0
  /\ c.attempts \in 1..maxMVPAttemptsPerMessage
  /\ Len(c.backoff) = c.attempts
  /\ \A i \in DOMAIN c.backoff :
       c.backoff[i] \in 0..maxMVPRetryBackoffSeconds /\ (i = 1 => c.backoff[i] = 0)

UsesHTTPHeader(provider) == provider \in {"resend", "brevo"}

ValidateProviderAccounts(c, v) ==
  /\ UniqueCodes(c.accounts)
  /\ \A i \in DOMAIN c.accounts :
       LET account == c.accounts[i] IN
       /\ account.provider \in Providers
       /\ account.apiKey # NoRef =>
            /\ ResolvesSecret(v, account.apiKey)
            /\ UsesHTTPHeader(account.provider) => Visible(Resolve(v, account.apiKey))

(* Seeded fault: nobody asks for a password. *)
ValidateSMTPNoPassword(channel, account, v) ==
  /\ (channel.smtp # {}) <=> (channel.transport = "smtp")
  /\ \A smtp \in channel.smtp :
       /\ smtp.host # "" /\ smtp.port = 587 /\ smtp.username # ""
       /\ smtp.password # NoRef => ResolvesSecret(v, smtp.password)

(* The SMTP block comes with SMTP and only with it, and either it or the   *)
(* account has the password.                                               *)
ValidateSMTP(channel, account, v) ==
  /\ (channel.smtp # {}) <=> (channel.transport = "smtp")
  /\ \A smtp \in channel.smtp :
       /\ smtp.host # "" /\ smtp.port = 587 /\ smtp.username # ""
       /\ IF smtp.password = NoRef THEN account.apiKey # NoRef ELSE ResolvesSecret(v, smtp.password)

ValidateProviderChannels(c, v) ==
  /\ UniqueCodes(c.channels)
  /\ \A i \in DOMAIN c.channels :
       LET channel == c.channels[i] IN
       /\ channel.from = "in sender domain" /\ channel.fromName # "control characters"
       /\ \E account \in FirstNamed(c.accounts, channel.account) :
            /\ SupportsTransport(account.provider, channel.transport)
            /\ channel.enabled => account.enabled
            /\ channel.transport = "api" /\ UsesHTTPHeader(account.provider) => account.apiKey # NoRef
            /\ ValidateSMTP(channel, account, v)

-----------------------------------------------------------------------------
ValidateAppLocales(app) == "" \notin app.locales /\ app.defaultLocale \in app.locales

(* API keys are told apart by their values, across all apps. *)
APIKeys(c) == UNION {{a} \X DOMAIN c.apps[a].keys : a \in DOMAIN c.apps}

KeyValue(c, v, key) == Resolve(v, c.apps[key[1]].keys[key[2]].ref)

ValidateAPIKeys(c, v) ==
  /\ \A a \in DOMAIN c.apps : UniqueCodes(c.apps[a].keys)
  /\ \A key \in APIKeys(c) : IsValidAPIKeyValue(KeyValue(c, v, key))
  /\ \A k, l \in APIKeys(c) : KeyValue(c, v, k) = KeyValue(c, v, l) => k = l

(* A template source is absent (""), broken, or parses; but what parses    *)
(* need not render: it "fails" when it is executed, for an escape that     *)
(* html/template refuses, an associated template that is missing or        *)
(* control characters in a subject, or is "empty", which is a comment or a *)
(* subject of spaces.  All others are "parses".                            *)
ValidateTemplates(app) ==
  /\ \A i \in DOMAIN app.templates :
       LET template == app.templates[i] IN
       /\ template.code # "" /\ template.locale \in app.locales
       /\ template.subject \notin {"", "broken"}
       /\ {template.html, template.text} # {""}
       /\ "broken" \notin {template.html, template.text}
  /\ \A i, j \in DOMAIN app.templates :
       /\ app.templates[i].code = app.templates[j].code
       /\ app.templates[i].locale = app.templates[j].locale
       => i = j

ValidateRateLimit(limit) == limit > 0

(* A channel a route may name: there, enabled, and on an enabled account. *)
Routable(c, code) ==
  \E channel \in FirstNamed(c.channels, code) :
    /\ channel.enabled
    /\ \E account \in FirstNamed(c.accounts, channel.account) : account.enabled

(* Seeded fault: a domain may be written in capital letters. *)
IsValidRouteDomainAnyCase(key) == key # ""

IsValidRouteDomain(key) == key # "" /\ Lower[key] = key

ValidateRoutePolicy(c, policy) ==
  /\ Wildcard \in DOMAIN policy
  /\ \A key \in DOMAIN policy :
       /\ key = Wildcard \/ IsValidRouteDomain(key)
       /\ policy[key] # << >>
       /\ \A i, j \in DOMAIN policy[key] : policy[key][i] = policy[key][j] => i = j
       /\ \A i \in DOMAIN policy[key] : Routable(c, policy[key][i])

(* Seeded fault: the template may be disabled in the default language. *)
ValidateScenesDisabled(c, app) ==
  /\ UniqueCodes(app.scenes)
  /\ \A i \in DOMAIN app.scenes :
       LET scene == app.scenes[i] IN
       /\ \E t \in DOMAIN app.templates :
            /\ app.templates[t].code = scene.template
            /\ app.templates[t].locale = app.defaultLocale
       /\ ValidateRateLimit(scene.limit)
       /\ ValidateRoutePolicy(c, scene.routes)

(* The scene's template exists, enabled, in the language everybody falls   *)
(* back to.                                                                *)
ValidateScenes(c, app) ==
  /\ UniqueCodes(app.scenes)
  /\ \A i \in DOMAIN app.scenes :
       LET scene == app.scenes[i] IN
       /\ \E t \in DOMAIN app.templates :
            /\ app.templates[t].code = scene.template
            /\ app.templates[t].locale = app.defaultLocale
            /\ app.templates[t].enabled
       /\ ValidateRateLimit(scene.limit)
       /\ ValidateRoutePolicy(c, scene.routes)

ValidateApps(c, v) ==
  /\ c.apps # << >> /\ UniqueCodes(c.apps)
  /\ ValidateAPIKeys(c, v)
  /\ \A i \in DOMAIN c.apps :
       LET app == c.apps[i] IN
       /\ app.keys # << >> /\ app.templates # << >> /\ app.scenes # << >>
       /\ ValidateAppLocales(app)
       /\ ValidateTemplates(app)
       /\ ValidateScenes(c, app)

ValidateWebhooks(c, v) ==
  c.webhooks.enabled =>
    /\ {c.webhooks.shared, c.webhooks.resend, c.webhooks.brevo} # {NoRef}
    /\ \A ref \in {c.webhooks.shared, c.webhooks.brevo} \ {NoRef} : Visible(Resolve(v, ref))
    /\ \A ref \in {c.webhooks.resend} \ {NoRef} : IsSvixSecret(Resolve(v, ref))

-----------------------------------------------------------------------------
IsAddress(email) == email \in DOMAIN Lower

ValidateSuppressionFile(c, f) ==
  \A entry \in f :
    /\ \E app \in DOMAIN c.apps : c.apps[app].code = entry.app
    /\ IsAddress(entry.email)
    /\ entry.reason \in SuppressionReason
    /\ \A other \in f :
         entry.app = other.app /\ Lower[entry.email] = Lower[other.email] => entry = other

(* Validate: the report has no errors. *)
Validate(c, v, f) ==
  /\ ValidateServer(c)
  /\ ValidateRuntime(c)
  /\ ValidateDefaults(c)
  /\ ValidateProviderAccounts(c, v)
  /\ ValidateProviderChannels(c, v)
  /\ ValidateApps(c, v)
  /\ ValidateWebhooks(c, v)
  /\ ValidateSuppressionFile(c, f)
=============================================================================
