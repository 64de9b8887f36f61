----------------------------- MODULE Admission -----------------------------
(***************************************************************************)
(* From a configuration file to a served request: the start of the process *)
(* (cmd/muxmail/main.go, api.NewRuntime), the steps of processSend that    *)
(* read nothing but the configuration, and what a worker later finds under *)
(* the channels the request was given.                                     *)
(*                                                                         *)
(* Validation, the authenticator, the provider resolver, the router, the   *)
(* renderer and the adapters each read the configuration their own way,    *)
(* and resolve the secrets it refers to at different times: an operator    *)
(* may replace one at any moment.  The suppression file is validated and   *)
(* loaded at the start and rewritten by webhooks while the process runs.   *)
(***************************************************************************)
EXTENDS AppViews, RequestFingerprint, CallerAddress

CONSTANTS
  Configurations,   \* the files an operator may have written
  Vaults,           \* what the secret references may resolve to
  SuppressionFiles, \* the suppression files an operator may have written
  Requests,         \* key, scene, locale and recipient callers send
  Addresses,        \* the addresses of peers, proxies and callers
  RecipientDomain,  \* the domain of each address, in small letters
  MaxSuppressions   \* bound on the entries of the suppression file

(* What decoding and parsing make of files, requests and connections: no   *)
(* proxy covers what is no address, and every address has its place in     *)
(* the order.                                                              *)
ASSUME FilesAssumption ==
  /\ \A c \in Configurations : IsConfiguration(c)
  /\ \A c \in Configurations : \A proxy \in c.trustedProxies : NoAddress.host \notin proxy.hosts
  /\ \A file \in SuppressionFiles : \A entry \in file :
       IsAddress(entry.email) => Lower[entry.email] \in Range(RecipientOrder)
ASSUME RecipientsAssumption ==
  /\ \A to \in DOMAIN RecipientDomain : IsAddress(to) /\ Lower[to] \in Range(RecipientOrder)
  /\ \A request \in Requests : request.to \in DOMAIN RecipientDomain
ASSUME NamedAssumption == "" \notin DOMAIN RecipientDomain
ASSUME AddressesAssumption == Addresses \subseteq [host : STRING, mapped : BOOLEAN]

VARIABLES
  config,       \* the loaded configuration
  vault,        \* the secrets, as they are now
  suppressions, \* the suppression file, which the store keeps in memory too
  stage,        \* how far the process has started
  keys,         \* Authenticator: the API keys, with the index of their app
  messages,     \* the accepted message, until nothing more comes of it
  trusted       \* history: what happened since a secret last changed

vars == <<config, vault, suppressions, stage, keys, messages, trusted>>

Init ==
  /\ \E c \in Configurations : config = WithDefaults(c)
  /\ vault \in Vaults
  /\ suppressions \in SuppressionFiles
  /\ stage = "down"
  /\ keys = {}
  /\ messages = {}
  /\ trusted = "nothing"

-----------------------------------------------------------------------------
(* runServe's Validate and NewRuntime's, of which the later counts. *)
Check ==
  /\ stage = "down"
  /\ Validate(config, vault, suppressions)
  /\ stage' = "validated"
  /\ trusted' = IF trusted = "ran" THEN "ran" ELSE "validated"
  /\ UNCHANGED <<config, vault, suppressions, keys, messages>>

Reject ==
  /\ stage = "down"
  /\ ~Validate(config, vault, suppressions)
  /\ stage' = "rejected"
  /\ UNCHANGED <<config, vault, suppressions, keys, messages, trusted>>

AuthenticatorBuilds ==
  /\ \A key \in APIKeys(config) : IsValidAPIKeyValue(KeyValue(config, vault, key))
  /\ \A k, l \in APIKeys(config) :
       KeyValue(config, vault, k) = KeyValue(config, vault, l) => k = l

NewAuthenticator ==
  /\ stage = "validated"
  /\ IF AuthenticatorBuilds
     THEN /\ stage' = "authenticator"
          /\ keys' = {[app     |-> key[1],
                       enabled |-> config.apps[key[1]].keys[key[2]].enabled,
                       value   |-> KeyValue(config, vault, key)] : key \in APIKeys(config)}
     ELSE stage' = "failed" /\ UNCHANGED keys
  /\ UNCHANGED <<config, vault, suppressions, messages, trusted>>

(* A setting in the unit the program counts in.  The product is an int     *)
(* and wraps around.                                                       *)
InUnits(s) ==
  LET wrapped == (config.settings[s] * Units[s]) % 2^IntWidth
  IN IF wrapped < 2^(IntWidth - 1) THEN wrapped ELSE wrapped - 2^IntWidth

(* NewMessageLog, newStatsSink, NewMemoryQueue, NewIdempotencyCache and    *)
(* worker.New, each with its own check of its settings.                    *)
StoresBuild ==
  /\ \A s \in Settings : InUnits(s) > 0
  /\ config.stats \in {"off", "file"}
  /\ config.attempts > 0

LoadSuppressionStore ==
  \A entry \in suppressions :
    /\ entry.app # "" /\ IsAddress(entry.email) /\ entry.reason \in SuppressionReason
    /\ \A other \in suppressions :
         entry.app = other.app /\ Lower[entry.email] = Lower[other.email] => entry = other

(* normalizeTrustedProxyPrefix: unmap, then refuse an empty prefix. *)
ProxyParses(proxy) ==
  \/ proxy.kind = "address"
  \/ /\ proxy.kind = "prefix"
     /\ proxy.mapped => proxy.bits > 96
     /\ (IF proxy.mapped THEN proxy.bits - 96 ELSE proxy.bits) # 0

WebhooksBuild ==
  LET hooks == config.webhooks IN
  hooks.enabled =>
    /\ \A ref \in {hooks.shared, hooks.brevo} \ {NoRef} : Resolve(vault, ref) # Unreadable
    /\ \A ref \in {hooks.resend} \ {NoRef} : IsSvixSecret(Resolve(vault, ref))

(* providerAdapterFor *)
Adapter(provider, transport) ==
  CASE provider \in {"mock", "resend", "brevo"} /\ transport = "api" -> provider
    [] provider \in {"resend", "brevo"} /\ transport = "smtp"        -> "smtp"
    [] OTHER                                                         -> "not wired"

ResolverBuilds ==
  \A i \in DOMAIN config.channels :
    \E account \in LastNamed(config.accounts, config.channels[i].account) :
      Adapter(account.provider, config.channels[i].transport) # "not wired"

(* The rest of NewRuntime, NewProviderResolverFromConfig and worker.New. *)
NewRuntime ==
  /\ stage = "authenticator"
  /\ IF /\ StoresBuild /\ LoadSuppressionStore
        /\ \A proxy \in config.trustedProxies : ProxyParses(proxy)
        /\ WebhooksBuild /\ ResolverBuilds
     THEN stage' = "up" /\ trusted' = IF trusted = "nothing" THEN "nothing" ELSE "ran"
     ELSE stage' = "failed" /\ UNCHANGED trusted
  /\ UNCHANGED <<config, vault, suppressions, keys, messages>>

(* The process ends, however far it got, and may be started again. *)
Stop ==
  /\ stage # "down"
  /\ stage' = "down" /\ keys' = {} /\ messages' = {}
  /\ UNCHANGED <<config, vault, suppressions, trusted>>

(* External: the operator changes what a secret reference resolves to. *)
ReplaceSecret ==
  /\ vault' \in Vaults \ {vault}
  /\ trusted' = "nothing"
  /\ UNCHANGED <<config, suppressions, stage, keys, messages>>

-----------------------------------------------------------------------------
(* findEnabledTemplate, in the requested language or the app's default. *)
EnabledTemplates(app, code, locale) ==
  {i \in DOMAIN app.templates :
     app.templates[i].code = code /\ app.templates[i].locale = locale /\ app.templates[i].enabled}

ResolveTemplate(app, scene, locale) ==
  LET wanted == IF locale = "" THEN app.defaultLocale ELSE locale
      found  == EnabledTemplates(app, scene.template, wanted)
  IN IF found # {} THEN found ELSE EnabledTemplates(app, scene.template, app.defaultLocale)

(* The language of the mail, which is the one of its template.  *)
RenderedLocale(app, scene, locale) ==
  LET wanted == IF locale = "" THEN app.defaultLocale ELSE locale
  IN IF EnabledTemplates(app, scene.template, wanted) # {} THEN wanted ELSE app.defaultLocale

Parses(template) == "broken" \notin {template.subject, template.html, template.text}

(* Render, but for the errors that depend on the caller's variables. *)
Renders(template) ==
  /\ Parses(template)
  /\ template.subject \notin {"", "fails", "empty"}
  /\ "fails" \notin {template.html, template.text}
  /\ {template.html, template.text} \ {"", "empty"} # {}

(* uniqueAndTruncateChannels *)
UniqueAndTruncate(channels, max) ==
  LET firsts == {i \in DOMAIN channels : channels[i] # "" /\ \A j \in 1..i - 1 : channels[j] # channels[i]}
      found  == Cardinality(firsts)
  IN [n \in 1..(IF found < max THEN found ELSE max) |-> channels[Nth(firsts, n)]]

SelectRoute(scene, to) ==
  LET key == IF RecipientDomain[to] \in DOMAIN scene.routes THEN RecipientDomain[to] ELSE Wildcard
  IN IF key \in DOMAIN scene.routes
     THEN UniqueAndTruncate(scene.routes[key], config.attempts) ELSE << >>

Suppressed(app, to) ==
  \E entry \in suppressions : entry.app = app.code /\ Lower[entry.email] = Lower[to]

(* What processSend answers, in the order it looks: a refusal's code, or   *)
(* "accepted".  key is the API key found for the caller's token.           *)
Answer(key, request) ==
  LET app    == config.apps[key.app]
      scenes == FirstNamed(app.scenes, request.scene)
      scene  == CHOOSE s \in scenes : TRUE
      found  == ResolveTemplate(app, scene, request.locale)
  IN IF ~key.enabled THEN "unauthorized"
     ELSE IF ~app.enabled THEN "app_disabled"
     ELSE IF scenes = {} THEN "scene_not_found"
     ELSE IF ~scene.enabled THEN "scene_disabled"
     ELSE IF request.locale \notin app.locales \cup {""} THEN "invalid_locale"
     ELSE IF found = {} THEN "template_locale_not_found"
     ELSE IF \E i \in found : ~Renders(app.templates[i]) THEN "template_render_failed"
     ELSE IF Suppressed(app, request.to) THEN "suppressed_recipient"
     ELSE IF SelectRoute(scene, request.to) = << >> THEN "route_not_found"
     ELSE "accepted"

(* AuthenticateHeader: the app the caller's token belongs to. *)
KeysOf(request) == {key \in keys : key.value = request.token}

(* The request is accepted as a message for the channels of its route. *)
Send(request) ==
  /\ stage = "up" /\ messages = {}
  /\ \E key \in KeysOf(request) :
       /\ Answer(key, request) = "accepted"
       /\ \E scene \in FirstNamed(config.apps[key.app].scenes, request.scene) :
            messages' = {[app |-> key.app, scene |-> request.scene, to |-> request.to,
                          channels |-> SelectRoute(scene, request.to)]}
  /\ UNCHANGED <<config, vault, suppressions, stage, keys, trusted>>

(* Seeded fault: two spellings of an address are two entries. *)
SameRecipientSpelled(entry, app, email) == entry.app = app /\ entry.email = email

(* SuppressionStore.Add's key. *)
SameRecipient(entry, app, email) == entry.app = app /\ Lower[entry.email] = Lower[email]

(* A webhook reports a bounce or a complaint, which Add stores and writes  *)
(* to the file; a complaint replaces a bounce and nothing replaces a       *)
(* complaint or a manual entry.  The event's spelling of the address is    *)
(* the provider's.                                                         *)
Suppress(message, email, reason) ==
  LET app   == config.apps[message.app].code
      known == {entry \in suppressions : SameRecipient(entry, app, email)}
      new   == [app |-> app, email |-> email, reason |-> reason]
  IN /\ Lower[email] = Lower[message.to]
     /\ \/ known = {}
        \/ reason = "complaint" /\ \A entry \in known : entry.reason = "hard_bounce"
     /\ suppressions' = (suppressions \ known) \cup {new}
     /\ Cardinality(suppressions') <= MaxSuppressions
     /\ UNCHANGED <<config, vault, stage, keys, messages, trusted>>

(* A worker is done with the message, and no event is expected of it. *)
Deliver ==
  /\ messages # {} /\ messages' = {}
  /\ UNCHANGED <<config, vault, suppressions, stage, keys, trusted>>

Next ==
  \/ Check \/ Reject \/ NewAuthenticator \/ NewRuntime \/ Stop \/ ReplaceSecret
  \/ \E request \in Requests : Send(request)
  \/ \E message \in messages, email \in DOMAIN RecipientDomain, reason \in {"hard_bounce", "complaint"} :
       Suppress(message, email, reason)
  \/ Deliver

Spec == Init /\ [][Next]_vars

-----------------------------------------------------------------------------
(* What sendThroughProvider finds under a channel's code: the resolver's   *)
(* maps keep the last channel and the last account of a name.              *)
Runtimes(code) ==
  {[channel |-> channel, account |-> account] :
     channel \in LastNamed(config.channels, code),
     account \in UNION {LastNamed(config.accounts, ch.account) : ch \in LastNamed(config.channels, code)}}

(* What an adapter's Send needs before it opens a connection: a sender,    *)
(* and a key or a password.                                                *)
EnvelopeReady(channel) == channel.from # "malformed" /\ channel.fromName # "control characters"

ResendReady(account) == Visible(Resolve(vault, account.apiKey))
BrevoReady(account)  == Visible(Resolve(vault, account.apiKey))

SMTPReady(channel, account) ==
  \E smtp \in channel.smtp :
    /\ smtp.host # "" /\ smtp.port = 587 /\ smtp.username # ""
    /\ Resolve(vault, IF smtp.password = NoRef THEN account.apiKey ELSE smtp.password) # Unreadable

AdapterReady(channel, account) ==
  CASE Adapter(account.provider, channel.transport) = "mock"   -> TRUE
    [] Adapter(account.provider, channel.transport) = "resend" -> EnvelopeReady(channel) /\ ResendReady(account)
    [] Adapter(account.provider, channel.transport) = "brevo"  -> EnvelopeReady(channel) /\ BrevoReady(account)
    [] Adapter(account.provider, channel.transport) = "smtp"   -> EnvelopeReady(channel) /\ SMTPReady(channel, account)

ReachesProvider(code) ==
  \E runtime \in Runtimes(code) :
    /\ code # "" /\ runtime.account.code # ""
    /\ runtime.channel.account = runtime.account.code
    /\ runtime.account.provider \in Providers /\ runtime.channel.transport \in Transports
    /\ runtime.channel.enabled /\ runtime.account.enabled
    /\ AdapterReady(runtime.channel, runtime.account)

(* A configuration that validates starts, and one that ran starts again,   *)
(* whatever webhooks did to the suppression file meanwhile: only a changed *)
(* secret can keep the process from starting, or a setting so large that   *)
(* it overflows in the program's unit, which validation lets through.      *)
StartsAgain ==
  /\ stage = "failed"   => trusted = "nothing" \/ \E s \in Settings : InUnits(s) # config.settings[s] * Units[s]
  /\ stage = "rejected" => trusted # "ran"

(* No request fails for a template or a route that the configuration ought *)
(* to have, whatever scene, language and recipient it names.  If its mail  *)
(* cannot be rendered, then the template parses, which is all that was     *)
(* validated, but fails or is empty when it is executed.  And a request    *)
(* whose recipient is suppressed is refused for an entry that the app      *)
(* finds in its list, by the recipient or among all, as long as the list   *)
(* is.                                                                     *)
ServesEveryRequest ==
  stage = "up" => \A request \in Requests : \A key \in KeysOf(request) :
    LET app == config.apps[key.app]
        List(n, reason, email) ==
          ProcessSuppressionList(suppressions, app.code, [limit |-> n, reason |-> reason, email |-> email])
    IN /\ Answer(key, request) \notin {"template_locale_not_found", "route_not_found"}
       /\ Answer(key, request) = "template_render_failed" =>
            \E scene \in FirstNamed(app.scenes, request.scene) :
              \E i \in ResolveTemplate(app, scene, request.locale) :
                Parses(app.templates[i]) /\ ~Renders(app.templates[i])
       /\ Answer(key, request) = "suppressed_recipient" =>
            \E list \in List(1, "", request.to) :
              /\ Len(list) = 1 /\ Lower[list[1].email] = Lower[request.to]
              /\ \A all \in List(ListedByDefault, "", "") \cup List(0, list[1].reason, "") :
                   Len(all) < ListedByDefault => Contains(all, list[1])

(* Every channel a message was given leads to a call of a provider: no     *)
(* attempt is spent on one that is unknown, disabled or incomplete, unless *)
(* a secret changed under the running process.                             *)
AttemptsReachProvider ==
  \A message \in messages : trusted = "ran" =>
    \A i \in DOMAIN message.channels : ReachesProvider(message.channels[i])

(* A message gets the channels the operator wrote for its recipient's      *)
(* domain, in whatever case, or else those of the wildcard, in order and   *)
(* none twice, up to the number of attempts; and each attempt has a delay, *)
(* the first none.  The app's summary of the configuration shows these     *)
(* channels, each with the account and the provider that an attempt uses.  *)
RouteHonoured ==
  \A message \in messages :
    LET app    == config.apps[message.app]
        routes == (CHOOSE s \in FirstNamed(app.scenes, message.scene) : TRUE).routes
        exact  == {key \in DOMAIN routes : Lower[key] = RecipientDomain[message.to]}
        list   == routes[CHOOSE key \in IF exact = {} THEN {Wildcard} ELSE exact : TRUE]
    IN /\ message.channels = SubSeq(list, 1, IF Len(list) < config.attempts THEN Len(list) ELSE config.attempts)
       /\ IsInjective(message.channels)
       /\ Len(message.channels) <= Len(config.backoff) /\ config.backoff[1] = 0
       /\ LET summary == ProcessAdminConfigSummary(config, app)
          IN \A i \in DOMAIN message.channels :
               \E shown \in summary.channels, account \in summary.accounts :
                 /\ shown.code = message.channels[i] /\ account.code = shown.account /\ account.enabled
                 /\ \A runtime \in Runtimes(shown.code) :
                      /\ runtime.account.code = account.code /\ runtime.account.provider = shown.provider
                      /\ runtime.channel.transport = shown.transport

(* Two requests with one key are taken for the same exactly if they are:   *)
(* to one recipient, in whatever case, with equal variables, in whatever   *)
(* order and spelling, and rendered in one language, be it asked for, the  *)
(* default or what there is instead of it.                                 *)
FingerprintFaithful ==
  stage = "up" =>
    /\ FingerprintsTellSameApart
    /\ \A i \in DOMAIN config.apps : \A s \in DOMAIN config.apps[i].scenes :
         LET app == config.apps[i]
             scene == app.scenes[s]
         IN \A one, other \in app.locales \cup {""} :
              RenderedLocale(app, scene, one) = RenderedLocale(app, scene, other)
                <=> ResolveTemplate(app, scene, one) = ResolveTemplate(app, scene, other)

(* A peer that is no proxy of the operator's is counted as itself by the   *)
(* rate limit, whatever headers it sends, and one address is one caller in *)
(* either spelling, connected directly or named by a proxy.  Behind a      *)
(* proxy the first entry of X-Forwarded-For counts, so the proxy has to    *)
(* replace what the client sent: one that appends lets the client choose.  *)
OneCaller ==
  stage = "up" =>
    LET Caller(peer, forwarded, real) == CallerIP(config.trustedProxies, peer, [forwarded |-> forwarded, real |-> real])
        Own(peer) == Caller(peer, << >>, NoAddress)
        proxies   == {a \in Addresses : \E proxy \in config.trustedProxies : a.host \in proxy.hosts}
        others    == Addresses \ (proxies \cup {NoAddress})
    IN /\ \A a, b \in Addresses : Own(a) = Own(b) <=> a.host = b.host
       /\ \A a \in others, claimed \in Addresses : Caller(a, <<claimed, a>>, claimed) = Own(a)
       /\ \A proxy \in proxies, a \in others, other \in Addresses :
            /\ Caller(proxy, <<a, other>>, other) = Own(a)
            /\ Caller(proxy, <<NoAddress, other>>, a) = Own(a)
=============================================================================
