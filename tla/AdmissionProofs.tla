---------------------------- MODULE AdmissionProofs ----------------------------
(***************************************************************************)
(* Proofs about Admission, for any configurations, secrets, suppression    *)
(* files, requests and addresses.                                          *)
(***************************************************************************)
EXTENDS Admission, FiniteSetTheorems, SequenceTheorems, TLAPS

(* The stages that validation leads to. *)
Started == {"validated", "authenticator", "up"}

(* The configuration, and which keys the authenticator has of it. *)
Loaded ==
  /\ \E c \in Configurations : config = WithDefaults(c)
  /\ vault \in Vaults
  /\ stage \in Started \cup {"down", "rejected", "failed"}
  /\ trusted \in {"nothing", "validated", "ran"}
  /\ \A key \in keys : key.app \in DOMAIN config.apps

(* What validation says holds with the secrets of the moment until one is  *)
(* replaced, and of everything else as long as the process is there.       *)
Valid ==
  /\ trusted # "nothing" => Validate(config, vault, suppressions)
  /\ stage \in Started => \E v \in Vaults : Validate(config, v, suppressions)

(* A message has the channels of its scene. *)
Accepted(message) ==
  /\ message.app \in DOMAIN config.apps
  /\ message.to \in DOMAIN RecipientDomain
  /\ \E scene \in FirstNamed(config.apps[message.app].scenes, message.scene) :
       message.channels = SelectRoute(scene, message.to)

(* Messages are there only while the process is up. *)
Messages ==
  /\ messages # {} => stage = "up"
  /\ \A message \in messages : Accepted(message)

(* Every entry of the suppression file has its place in a list. *)
Ordered ==
  \A entry \in suppressions : IsAddress(entry.email) => Lower[entry.email] \in Range(RecipientOrder)

(* The inductive invariant. *)
IInv == Loaded /\ Valid /\ Messages /\ Ordered /\ StartsAgain

-----------------------------------------------------------------------------
(* The numbers of a list. *)

(* What Place counts. *)
LEMMA PlaceCounts ==
  ASSUME NEW S, IsFiniteSet(S), S \subseteq Int, NEW k \in S
  PROVE  /\ Place(S, k) \in 1..Cardinality(S)
         /\ \A l \in S : Place(S, l) = Place(S, k) => k <= l
<1> DEFINE UpTo(l) == {j \in S : j <= l}
<1>1. \A l : Place(S, l) = Cardinality(UpTo(l)) /\ UpTo(l) \in SUBSET S
  BY DEF Place
<1>2. k \in UpTo(k)
  OBVIOUS
<1>3. ASSUME NEW l \in S, l < k PROVE UpTo(l) \in SUBSET UpTo(k) /\ k \notin UpTo(l)
  <2>1. k \in Int /\ l \in Int /\ \A j \in S : j \in Int
    OBVIOUS
  <2>2. \A j \in S : j <= l => j <= k
    BY <1>3, <2>1
  <2>3. ~(k <= l)
    BY <1>3, <2>1
  <2> QED
    BY <2>2, <2>3
<1> HIDE DEF UpTo
<1>4. IsFiniteSet(UpTo(k)) /\ Cardinality(UpTo(k)) <= Cardinality(S)
  BY <1>1, FS_Subset
<1>5. Cardinality(UpTo(k)) \in Nat /\ Cardinality(UpTo(k)) # 0 /\ Cardinality(S) \in Nat
  BY <1>2, <1>4, FS_CardinalityType, FS_EmptySet
<1>6. \A l \in S : l < k => Cardinality(UpTo(l)) # Cardinality(UpTo(k))
  BY <1>2, <1>3, <1>4, FS_Subset
<1> QED
  BY <1>1, <1>4, <1>5, <1>6

(* Of finitely many numbers, each is found in its place.                   *)
LEMMA NthFound ==
  ASSUME NEW S, IsFiniteSet(S), S \subseteq Int, NEW i \in S
  PROVE  Place(S, i) \in 1..Cardinality(S) /\ Nth(S, Place(S, i)) = i
<1>1. ASSUME NEW k \in S, Place(S, k) = Place(S, i) PROVE k = i
  <2>1. k <= i /\ i <= k
    BY <1>1, PlaceCounts
  <2>2. k \in Int /\ i \in Int
    OBVIOUS
  <2> QED
    BY <2>1, <2>2
<1> QED
  BY <1>1, PlaceCounts DEF Nth

(* Of 1 to m they are the numbers themselves. *)
LEMMA NthOfAll == ASSUME NEW m \in Nat, NEW n \in 1..m PROVE Nth(1..m, n) = n
<1>1. IsFiniteSet(1..m)
  BY FS_Interval
<1>2. {j \in 1..m : j <= n} = 1..n
  OBVIOUS
<1>3. Place(1..m, n) = n
  <2>1. Cardinality(1..n) = n
    BY FS_Interval
  <2> QED
    BY <1>2, <2>1 DEF Place
<1> QED
  BY <1>1, <1>3, NthFound

(* One entry has a code, whichever way the list is read. *)
LEMMA OneNamed ==
  ASSUME NEW list, UniqueCodes(list), NEW code
  PROVE  /\ FirstNamed(list, code) = LastNamed(list, code)
         /\ \A one, other \in FirstNamed(list, code) : one = other
  BY DEF UniqueCodes, FirstNamed, LastNamed, Named

-----------------------------------------------------------------------------
(* The start. *)

(* Defaults keep the shape of a file, and what is not a setting. *)
LEMMA DefaultsShape ==
  ASSUME NEW c, IsConfiguration(c)
  PROVE  /\ IsConfiguration(WithDefaults(c))
         /\ WithDefaults(c).apps = c.apps
         /\ WithDefaults(c).trustedProxies = c.trustedProxies
<1> DEFINE d == WithDefaults(c)
<1>1. /\ d.settings = [s \in Settings |-> IF c.settings[s] = 0 THEN DefaultSetting ELSE c.settings[s]]
      /\ d.attempts = (IF c.attempts = 0 THEN maxMVPAttemptsPerMessage ELSE c.attempts)
      /\ d.backoff = (IF c.backoff # << >> THEN c.backoff
                      ELSE IF d.attempts \in 1..Len(DefaultBackoff)
                           THEN SubSeq(DefaultBackoff, 1, d.attempts) ELSE DefaultBackoff)
      /\ d.apps = c.apps /\ d.trustedProxies = c.trustedProxies
      /\ DOMAIN d = DOMAIN c
  BY DEF WithDefaults, IsConfiguration
<1> HIDE DEF d
<1>2. d.settings \in [Settings -> Int]
  BY <1>1 DEF IsConfiguration, DefaultSetting
<1>3. d.attempts \in Int
  BY <1>1 DEF IsConfiguration, maxMVPAttemptsPerMessage
<1>4. d.backoff \in Seq(Int)
  <2>1. DefaultBackoff \in Seq(Int)
    BY DEF DefaultBackoff
  <2>2. d.attempts \in 1..Len(DefaultBackoff) => SubSeq(DefaultBackoff, 1, d.attempts) \in Seq(Int)
    BY <1>3, <2>1, SubSeqProperties
  <2>3. c.backoff \in Seq(Int)
    BY DEF IsConfiguration
  <2> QED
    BY <1>1, <2>1, <2>2, <2>3
<1>5. IsConfiguration(d)
  BY <1>1, <1>2, <1>3, <1>4 DEF IsConfiguration
<1> QED
  BY <1>1, <1>5 DEF d

(* The authenticator finds the keys that validation asks for. *)
LEMMA AuthenticatorIsBuilt ==
  ASSUME Validate(config, vault, suppressions) PROVE AuthenticatorBuilds
  BY DEF Validate, ValidateApps, ValidateAPIKeys, AuthenticatorBuilds

(* The stores find positive settings, unless one overflows. *)
LEMMA StoresAreBuilt ==
  ASSUME IsConfiguration(config), Validate(config, vault, suppressions),
         \A s \in Settings : InUnits(s) = config.settings[s] * Units[s]
  PROVE  StoresBuild
<1>1. \A m, n \in Nat \ {0} : m * n > 0
  OBVIOUS
<1>2. ASSUME NEW s \in Settings PROVE InUnits(s) > 0
  <2>1. config.settings[s] \in Nat \ {0} /\ Units[s] \in Nat \ {0}
    <3>1. config.settings[s] \in Int
      BY DEF IsConfiguration
    <3>2. config.settings[s] > 0
      BY DEF Validate, ValidateDefaults
    <3> QED
      BY <3>1, <3>2, UnitsAssumption
  <2>2. InUnits(s) = config.settings[s] * Units[s]
    OBVIOUS
  <2> QED
    BY ONLY <1>1, <2>1, <2>2
<1>3. config.stats \in {"off", "file"}
  BY DEF Validate, ValidateRuntime
<1>4. config.attempts > 0
  <2>1. config.attempts \in 1..maxMVPAttemptsPerMessage
    BY DEF Validate, ValidateDefaults
  <2> QED
    BY <2>1 DEF maxMVPAttemptsPerMessage
<1> QED
  BY <1>2, <1>3, <1>4 DEF StoresBuild

(* The suppression store takes a file that validation takes. *)
LEMMA SuppressionStoreLoads ==
  ASSUME Validate(config, vault, suppressions) PROVE LoadSuppressionStore
<1>1. \A a \in DOMAIN config.apps : config.apps[a].code # ""
  BY DEF Validate, ValidateApps, UniqueCodes
<1> QED
  BY <1>1 DEF Validate, ValidateSuppressionFile, LoadSuppressionStore

(* A proxy is parsed if validation takes it. *)
LEMMA ProxiesParse ==
  ASSUME IsConfiguration(config), Validate(config, vault, suppressions)
  PROVE  \A proxy \in config.trustedProxies : ProxyParses(proxy)
<1> SUFFICES ASSUME NEW proxy \in config.trustedProxies PROVE ProxyParses(proxy)
  OBVIOUS
<1>1. proxy.bits \in Int /\ IsValidTrustedProxy(proxy)
  BY DEF IsConfiguration, Validate, ValidateServer
<1> QED
  BY <1>1 DEF IsValidTrustedProxy, ProxyParses

(* The webhooks find their secrets. *)
LEMMA WebhooksAreBuilt ==
  ASSUME Validate(config, vault, suppressions) PROVE WebhooksBuild
<1>1. ValidateWebhooks(config, vault)
  BY DEF Validate
<1>2. \A value : Visible(value) => value # Unreadable
  BY DEF Visible, KeyValues, Unreadable
<1> QED
  BY <1>1, <1>2 DEF ValidateWebhooks, WebhooksBuild

(* Every channel has an adapter. *)
LEMMA ResolverIsBuilt ==
  ASSUME Validate(config, vault, suppressions) PROVE ResolverBuilds
<1>1. UniqueCodes(config.accounts)
  BY DEF Validate, ValidateProviderAccounts
<1>2. ASSUME NEW i \in DOMAIN config.channels
      PROVE  \E account \in LastNamed(config.accounts, config.channels[i].account) :
               Adapter(account.provider, config.channels[i].transport) # "not wired"
  <2>1. PICK account \in FirstNamed(config.accounts, config.channels[i].account) :
          SupportsTransport(account.provider, config.channels[i].transport)
    BY DEF Validate, ValidateProviderChannels
  <2>2. Adapter(account.provider, config.channels[i].transport) # "not wired"
    BY <2>1 DEF SupportsTransport, Adapter, Providers
  <2> QED
    BY <1>1, <2>2, OneNamed
<1> QED
  BY <1>2 DEF ResolverBuilds

-----------------------------------------------------------------------------
(* The invariant. *)

(* It holds at first. *)
LEMMA InitInv == Init => IInv
<1> SUFFICES ASSUME Init PROVE IInv
  OBVIOUS
<1>1. Loaded
  BY DEF Init, Loaded
<1>2. Valid /\ Messages /\ StartsAgain
  BY DEF Init, Valid, Messages, StartsAgain, Started
<1>3. Ordered
  BY FilesAssumption DEF Init, Ordered
<1> QED
  BY <1>1, <1>2, <1>3 DEF IInv

(* The loaded configuration has the shape of a file. *)
LEMMA Shape ==
  ASSUME Loaded
  PROVE  /\ IsConfiguration(config)
         /\ \A proxy \in config.trustedProxies : NoAddress.host \notin proxy.hosts
<1>1. PICK c \in Configurations : config = WithDefaults(c)
  BY DEF Loaded
<1> QED
  BY <1>1, FilesAssumption, DefaultsShape

(* Validation passes or refuses. *)
LEMMA CheckInv == ASSUME IInv, Check \/ Reject PROVE IInv'
<1>1. Loaded /\ Valid /\ Messages /\ Ordered /\ StartsAgain /\ stage = "down"
      /\ UNCHANGED <<config, vault, suppressions, keys, messages>>
  BY DEF IInv, Check, Reject
<1>2. messages = {}
  BY <1>1 DEF Messages
<1>3. CASE Check
  <2>1. /\ Validate(config, vault, suppressions) /\ stage' = "validated"
        /\ trusted' = IF trusted = "ran" THEN "ran" ELSE "validated"
    BY <1>3 DEF Check
  <2>2. Loaded'
    BY <1>1, <2>1 DEF Loaded, Started
  <2>3. Valid'
    BY <1>1, <2>1 DEF Loaded, Valid
  <2>4. Messages' /\ Ordered' /\ StartsAgain'
    BY <1>1, <1>2, <2>1 DEF Messages, Ordered, StartsAgain
  <2> QED
    BY <2>2, <2>3, <2>4 DEF IInv
<1>4. CASE Reject
  <2>1. ~Validate(config, vault, suppressions) /\ stage' = "rejected" /\ trusted' = trusted
    BY <1>4 DEF Reject
  <2>2. trusted = "nothing"
    BY <1>1, <2>1 DEF Valid
  <2>3. Loaded' /\ Valid'
    BY <1>1, <2>1 DEF Loaded, Valid, Started
  <2>4. Messages' /\ Ordered' /\ StartsAgain'
    BY <1>1, <1>2, <2>1, <2>2 DEF Messages, Ordered, StartsAgain
  <2> QED
    BY <2>3, <2>4 DEF IInv
<1> QED
  BY <1>3, <1>4

(* The authenticator is built, or cannot be. *)
LEMMA AuthenticatorInv == ASSUME IInv, NewAuthenticator PROVE IInv'
<1>1. Loaded /\ Valid /\ Messages /\ Ordered /\ StartsAgain /\ stage = "validated"
      /\ UNCHANGED <<config, vault, suppressions, messages, trusted>>
  BY DEF IInv, NewAuthenticator
<1>2. messages = {}
  BY <1>1 DEF Messages
<1>3. \/ /\ stage' = "authenticator"
         /\ \A key \in keys' : key.app \in DOMAIN config.apps
      \/ stage' = "failed" /\ trusted = "nothing" /\ keys' = keys
  <2>1. CASE AuthenticatorBuilds
    <3>1. \A key \in APIKeys(config) : key[1] \in DOMAIN config.apps
      BY DEF APIKeys
    <3> QED
      BY <2>1, <3>1 DEF NewAuthenticator
  <2>2. CASE ~AuthenticatorBuilds
    <3>1. trusted = "nothing"
      BY <1>1, <2>2, AuthenticatorIsBuilt DEF Valid
    <3> QED
      BY <2>2, <3>1 DEF NewAuthenticator
  <2> QED
    BY <2>1, <2>2
<1>4. Loaded'
  BY <1>1, <1>3 DEF Loaded, Started
<1>5. Valid'
  BY <1>1, <1>3 DEF Valid, Started
<1>6. Messages' /\ Ordered'
  BY <1>1, <1>2 DEF Messages, Ordered
<1>7. StartsAgain'
  BY <1>1, <1>3 DEF StartsAgain
<1> QED
  BY <1>4, <1>5, <1>6, <1>7 DEF IInv

(* The rest is built, or cannot be. *)
LEMMA RuntimeInv == ASSUME IInv, NewRuntime PROVE IInv'
<1>1. Loaded /\ Valid /\ Messages /\ Ordered /\ StartsAgain /\ stage = "authenticator"
      /\ UNCHANGED <<config, vault, suppressions, keys, messages>>
  BY DEF IInv, NewRuntime
<1>2. messages = {}
  BY <1>1 DEF Messages
<1>3. \/ stage' = "up" /\ trusted' = IF trusted = "nothing" THEN "nothing" ELSE "ran"
      \/ /\ stage' = "failed" /\ trusted' = trusted
         /\ ~(/\ StoresBuild /\ LoadSuppressionStore
              /\ \A proxy \in config.trustedProxies : ProxyParses(proxy)
              /\ WebhooksBuild /\ ResolverBuilds)
  BY DEF NewRuntime
<1>4. Loaded'
  BY <1>1, <1>3 DEF Loaded, Started
<1>5. Valid'
  BY <1>1, <1>3 DEF Valid, Started
<1>6. Messages' /\ Ordered'
  BY <1>1, <1>2 DEF Messages, Ordered
<1>7. StartsAgain'
  <2>1. \A s : InUnits(s)' = InUnits(s)
    BY <1>1 DEF InUnits
  <2>2. CASE stage' = "up"
    BY <2>2 DEF StartsAgain
  <2>3. CASE stage' = "failed"
    <3>1. trusted' = "nothing" \/ \E s \in Settings : InUnits(s) # config.settings[s] * Units[s]
      <4> SUFFICES ASSUME trusted # "nothing",
                          \A s \in Settings : InUnits(s) = config.settings[s] * Units[s]
                   PROVE  FALSE
        BY <1>3, <2>3
      <4>1. IsConfiguration(config) /\ Validate(config, vault, suppressions)
        BY <1>1, Shape DEF Valid
      <4> QED
        BY <1>3, <2>3, <4>1, StoresAreBuilt, SuppressionStoreLoads, ProxiesParse, WebhooksAreBuilt,
           ResolverIsBuilt
    <3> QED
      BY <1>1, <2>1, <2>3, <3>1 DEF StartsAgain
  <2> QED
    BY <1>3, <2>2, <2>3
<1> QED
  BY <1>4, <1>5, <1>6, <1>7 DEF IInv

(* The process ends. *)
LEMMA StopInv == ASSUME IInv, Stop PROVE IInv'
<1>1. Loaded /\ Valid /\ Ordered /\ stage' = "down" /\ keys' = {} /\ messages' = {}
      /\ UNCHANGED <<config, vault, suppressions, trusted>>
  BY DEF IInv, Stop
<1>2. Loaded' /\ Valid'
  BY <1>1 DEF Loaded, Valid, Started
<1>3. Messages' /\ Ordered' /\ StartsAgain'
  BY <1>1 DEF Messages, Ordered, StartsAgain
<1> QED
  BY <1>2, <1>3 DEF IInv

(* A secret is replaced. *)
LEMMA ReplaceInv == ASSUME IInv, ReplaceSecret PROVE IInv'
<1>1. Loaded /\ Valid /\ Messages /\ Ordered /\ vault' \in Vaults /\ trusted' = "nothing"
      /\ UNCHANGED <<config, suppressions, stage, keys, messages>>
  BY DEF IInv, ReplaceSecret
<1>2. Loaded' /\ Valid'
  BY <1>1 DEF Loaded, Valid, Started
<1>3. Messages'
  BY <1>1 DEF Messages, Accepted, SelectRoute
<1>4. Ordered' /\ StartsAgain'
  BY <1>1 DEF Ordered, StartsAgain
<1> QED
  BY <1>2, <1>3, <1>4 DEF IInv

(* A request is accepted. *)
LEMMA SendInv == ASSUME IInv, NEW request \in Requests, Send(request) PROVE IInv'
<1>1. Loaded /\ Valid /\ Ordered /\ StartsAgain /\ stage = "up"
      /\ UNCHANGED <<config, vault, suppressions, stage, keys, trusted>>
  BY DEF IInv, Send
<1>2. Loaded' /\ Valid' /\ Ordered'
  BY <1>1 DEF Loaded, Valid, Ordered
<1>3. StartsAgain'
  BY <1>1 DEF StartsAgain
<1>4. Messages'
  <2>1. PICK key \in KeysOf(request) :
          \E scene \in FirstNamed(config.apps[key.app].scenes, request.scene) :
            messages' = {[app |-> key.app, scene |-> request.scene, to |-> request.to,
                          channels |-> SelectRoute(scene, request.to)]}
    BY DEF Send
  <2>2. PICK scene \in FirstNamed(config.apps[key.app].scenes, request.scene) :
          messages' = {[app |-> key.app, scene |-> request.scene, to |-> request.to,
                        channels |-> SelectRoute(scene, request.to)]}
    BY <2>1
  <2>3. key.app \in DOMAIN config.apps /\ request.to \in DOMAIN RecipientDomain
    BY <1>1, RecipientsAssumption DEF Loaded, KeysOf
  <2>4. \E message : messages' = {message} /\ Accepted(message)'
    <3>1. PICK message :
            message = [app |-> key.app, scene |-> request.scene, to |-> request.to,
                       channels |-> SelectRoute(scene, request.to)]
      OBVIOUS
    <3>2. /\ message.app = key.app /\ message.scene = request.scene /\ message.to = request.to
          /\ message.channels = SelectRoute(scene, request.to)
      BY <3>1
    <3>3. Accepted(message)
      BY <2>3, <3>2 DEF Accepted
    <3>4. Accepted(message)'
      BY <1>1, <3>3 DEF Accepted, SelectRoute
    <3> QED
      BY <2>2, <3>1, <3>4
  <2> QED
    BY <1>1, <2>4 DEF Messages
<1> QED
  BY <1>2, <1>3, <1>4 DEF IInv

(* A webhook's entry is valid, whatever it replaces. *)
LEMMA SuppressKeepsFile ==
  ASSUME NEW v, Validate(config, v, suppressions),
         NEW message, Accepted(message), NEW email \in DOMAIN RecipientDomain,
         NEW reason \in {"hard_bounce", "complaint"}, Suppress(message, email, reason)
  PROVE  Validate(config, v, suppressions')
<1> DEFINE app   == config.apps[message.app].code
           known == {entry \in suppressions : SameRecipient(entry, app, email)}
           new   == [app |-> app, email |-> email, reason |-> reason]
<1>1. suppressions' = (suppressions \ known) \cup {new}
  BY DEF Suppress
<1>2. message.app \in DOMAIN config.apps
  BY DEF Accepted
<1>3. ValidateSuppressionFile(config, suppressions)
  BY DEF Validate
<1>4. \A entry \in suppressions' :
        /\ \E a \in DOMAIN config.apps : config.apps[a].code = entry.app
        /\ IsAddress(entry.email)
        /\ entry.reason \in SuppressionReason
  BY <1>1, <1>2, <1>3, RecipientsAssumption DEF ValidateSuppressionFile, SuppressionReason
<1>5. \A entry, other \in suppressions' :
        entry.app = other.app /\ Lower[entry.email] = Lower[other.email] => entry = other
  BY <1>1, <1>3 DEF ValidateSuppressionFile, SameRecipient
<1>6. ValidateSuppressionFile(config, suppressions')
  BY <1>4, <1>5 DEF ValidateSuppressionFile
<1> QED
  BY <1>6 DEF Validate

(* A webhook suppresses the recipient. *)
LEMMA SuppressInv ==
  ASSUME IInv, NEW message \in messages, NEW email \in DOMAIN RecipientDomain,
         NEW reason \in {"hard_bounce", "complaint"}, Suppress(message, email, reason)
  PROVE  IInv'
<1>1. Loaded /\ Valid /\ Messages /\ Ordered /\ StartsAgain
      /\ UNCHANGED <<config, vault, stage, keys, messages, trusted>>
  BY DEF IInv, Suppress
<1>2. Accepted(message)
  BY <1>1 DEF Messages
<1>3. Loaded'
  BY <1>1 DEF Loaded
<1>4. \A v : Validate(config, v, suppressions) => Validate(config, v, suppressions')
  BY <1>2, SuppressKeepsFile
<1>5. Valid'
  BY <1>1, <1>4 DEF Valid
<1>6. Messages'
  BY <1>1 DEF Messages, Accepted, SelectRoute
<1>7. Ordered'
  BY <1>1, RecipientsAssumption DEF Ordered, Suppress
<1>8. StartsAgain'
  BY <1>1 DEF StartsAgain, InUnits
<1> QED
  BY <1>3, <1>5, <1>6, <1>7, <1>8 DEF IInv

(* Nothing more comes of the message, or nothing happens. *)
LEMMA DeliverInv == ASSUME IInv, Deliver \/ UNCHANGED vars PROVE IInv'
<1>1. Loaded /\ Valid /\ Messages /\ Ordered /\ StartsAgain /\ messages' \in {{}, messages}
      /\ UNCHANGED <<config, vault, suppressions, stage, keys, trusted>>
  BY DEF IInv, Deliver, vars
<1>2. Loaded' /\ Valid' /\ Ordered'
  BY <1>1 DEF Loaded, Valid, Ordered
<1>3. Messages'
  BY <1>1 DEF Messages, Accepted, SelectRoute
<1>4. StartsAgain'
  BY <1>1 DEF StartsAgain, InUnits
<1> QED
  BY <1>2, <1>3, <1>4 DEF IInv

(* Every step keeps it. *)
LEMMA StepInv == IInv /\ [Next]_vars => IInv'
<1> SUFFICES ASSUME IInv, [Next]_vars PROVE IInv'
  OBVIOUS
<1>1. CASE Check \/ Reject
  BY <1>1, CheckInv
<1>2. CASE NewAuthenticator
  BY <1>2, AuthenticatorInv
<1>3. CASE NewRuntime
  BY <1>3, RuntimeInv
<1>4. CASE Stop
  BY <1>4, StopInv
<1>5. CASE ReplaceSecret
  BY <1>5, ReplaceInv
<1>6. ASSUME NEW request \in Requests, Send(request) PROVE IInv'
  BY <1>6, SendInv
<1>7. ASSUME NEW message \in messages, NEW email \in DOMAIN RecipientDomain,
             NEW reason \in {"hard_bounce", "complaint"}, Suppress(message, email, reason)
      PROVE  IInv'
  BY <1>7, SuppressInv
<1>8. CASE Deliver \/ UNCHANGED vars
  BY <1>8, DeliverInv
<1> QED
  BY <1>1, <1>2, <1>3, <1>4, <1>5, <1>6, <1>7, <1>8 DEF Next

(* It holds always. *)
LEMMA Invariant == Spec => []IInv
  BY InitInv, StepInv, PTL DEF Spec

(* A configuration that validates starts, and starts again after whatever  *)
(* the running process wrote, unless a secret was replaced or a setting    *)
(* overflows.                                                              *)
THEOREM StartSafe == Spec => []StartsAgain
<1>1. IInv => StartsAgain
  BY DEF IInv
<1> QED
  BY <1>1, Invariant, PTL

-----------------------------------------------------------------------------
(* Callers. *)

(* Nothing is parsed of what is no address, and a header's first entry is  *)
(* what counts.                                                            *)
LEMMA NotParsed ==
  /\ ParseIPFromAddress(NoAddress) = {}
  /\ \A first, rest : FirstHeaderIP(<<first, rest>>) = ParseIPFromAddress(first)
<1>1. ParseIPFromAddress(NoAddress) = {}
  BY DEF ParseIPFromAddress
<1>2. ASSUME NEW first, NEW rest PROVE FirstHeaderIP(<<first, rest>>) = ParseIPFromAddress(first)
  <2>1. {1} \cap DOMAIN <<first, rest>> = {1} /\ <<first, rest>>[1] = first
    OBVIOUS
  <2> QED
    BY <2>1 DEF FirstHeaderIP
<1> QED
  BY <1>1, <1>2

(* An address is parsed to what it is without the mapping. *)
LEMMA Parsed ==
  ASSUME NEW a \in [host : STRING, mapped : BOOLEAN]
  PROVE  /\ ParseIPFromAddress(a) = IF a = NoAddress THEN {} ELSE {NormalizeAddr(a)}
         /\ NormalizeAddr(a) = [host |-> a.host, mapped |-> FALSE]
         /\ NormalizeAddr(NormalizeAddr(a)) = NormalizeAddr(a)
<1> DEFINE Spelled == [host : STRING, mapped : BOOLEAN]
<1>1. \A x \in Spelled : x = [host |-> x.host, mapped |-> x.mapped]
  OBVIOUS
<1>2. \A x \in Spelled : /\ NormalizeAddr(x) \in Spelled /\ NormalizeAddr(x).host = x.host
                         /\ NormalizeAddr(x).mapped = FALSE
  BY DEF NormalizeAddr
<1>3. \A x \in Spelled : NormalizeAddr(x) = [host |-> x.host, mapped |-> FALSE]
  BY ONLY <1>1, <1>2, Zenon
<1>4. NormalizeAddr(a) \in Spelled /\ NormalizeAddr(a) = [host |-> a.host, mapped |-> FALSE]
  BY ONLY <1>2, <1>3, a \in Spelled, Zenon
<1>5. NormalizeAddr(NormalizeAddr(a)) = NormalizeAddr(a)
  <2>1. NormalizeAddr(NormalizeAddr(a)) = [host |-> NormalizeAddr(a).host, mapped |-> FALSE]
    BY ONLY <1>3, <1>4, Zenon
  <2>2. NormalizeAddr(a).host = a.host
    BY ONLY <1>2, a \in Spelled, Zenon
  <2> QED
    BY ONLY <1>4, <2>1, <2>2, Zenon
<1>6. ParseIPFromAddress(a) = IF a = NoAddress THEN {} ELSE {NormalizeAddr(a)}
  BY DEF ParseIPFromAddress
<1> QED
  BY <1>4, <1>5, <1>6

(* Whether a peer is a proxy is a question of its host. *)
LEMMA Trusted ==
  ASSUME NEW proxies, NEW a \in [host : STRING, mapped : BOOLEAN]
  PROVE  Trusts(proxies, NormalizeAddr(a)) <=> \E proxy \in proxies : a.host \in proxy.hosts
<1>1. NormalizeAddr(a) = [host |-> a.host, mapped |-> FALSE]
      /\ NormalizeAddr(NormalizeAddr(a)) = NormalizeAddr(a)
  BY Parsed
<1>2. NormalizeAddr(a).host = a.host /\ ~NormalizeAddr(a).mapped
  BY <1>1
<1> QED
  BY <1>1, <1>2 DEF Trusts

(* A peer that is no proxy, or that sends no headers, counts as itself. *)
LEMMA CallsItself ==
  ASSUME NEW proxies, NEW a \in [host : STRING, mapped : BOOLEAN], NEW headers,
         \/ a # NoAddress /\ \A proxy \in proxies : a.host \notin proxy.hosts
         \/ a = NoAddress
         \/ FirstHeaderIP(headers.forwarded) = {} /\ ParseIPFromAddress(headers.real) = {}
  PROVE  CallerIP(proxies, a, headers) = NormalizeAddr(a)
<1> DEFINE remote    == ParseIPFromAddress(a)
           trusted_  == \E r \in remote : Trusts(proxies, r)
           forwarded == FirstHeaderIP(headers.forwarded)
           real      == ParseIPFromAddress(headers.real)
           one       == CASE trusted_ /\ forwarded # {}               -> forwarded
                          [] trusted_ /\ forwarded = {} /\ real # {} -> real
                          [] ~trusted_ \/ forwarded \cup real = {}   ->
                               remote \cup {b \in {a} : remote = {}}
<1>1. CallerIP(proxies, a, headers) = CHOOSE r \in one : TRUE
  BY DEF CallerIP
<1>2. ~trusted_ \/ (forwarded = {} /\ real = {})
  <2>1. CASE a # NoAddress /\ \A proxy \in proxies : a.host \notin proxy.hosts
    <3>1. remote = {NormalizeAddr(a)} /\ ~Trusts(proxies, NormalizeAddr(a))
      BY <2>1, Parsed, Trusted
    <3> QED
      BY <3>1
  <2>2. CASE a = NoAddress
    <3>1. remote = {}
      BY <2>2, Parsed
    <3> QED
      BY <3>1
  <2> QED
    BY <2>1, <2>2
<1>3. remote \cup {b \in {a} : remote = {}} = {NormalizeAddr(a)}
  <2>1. CASE a = NoAddress
    <3>1. remote = {} /\ NormalizeAddr(a) = [host |-> a.host, mapped |-> FALSE]
      BY <2>1, Parsed
    <3>2. a = [host |-> "no address", mapped |-> FALSE]
      BY <2>1 DEF NoAddress
    <3>3. NormalizeAddr(a) = a
      BY <3>1, <3>2
    <3> HIDE DEF remote
    <3> QED
      BY <3>1, <3>3
  <2>2. CASE a # NoAddress
    <3>1. remote = {NormalizeAddr(a)}
      BY <2>2, Parsed
    <3> HIDE DEF remote
    <3> QED
      BY <3>1
  <2> QED
    BY <2>1, <2>2
<1>4. one = {NormalizeAddr(a)}
  <2> HIDE DEF trusted_, forwarded, real, remote
  <2> QED
    BY <1>2, <1>3
<1> HIDE DEF one
<1> QED
  BY <1>1, <1>4

(* A proxy's address. *)
IsProxy(proxies, peer) ==
  /\ peer \in [host : STRING, mapped : BOOLEAN] /\ peer # NoAddress
  /\ \E proxy \in proxies : peer.host \in proxy.hosts

(* A proxy names the caller, in the first header or else in the second. *)
LEMMA CallsForAnother ==
  ASSUME NEW proxies, NEW peer, IsProxy(proxies, peer),
         NEW headers, NEW caller,
         \/ FirstHeaderIP(headers.forwarded) = {caller}
         \/ FirstHeaderIP(headers.forwarded) = {} /\ ParseIPFromAddress(headers.real) = {caller}
  PROVE  CallerIP(proxies, peer, headers) = caller
<1> DEFINE remote    == ParseIPFromAddress(peer)
           trusted_  == \E r \in remote : Trusts(proxies, r)
           forwarded == FirstHeaderIP(headers.forwarded)
           real      == ParseIPFromAddress(headers.real)
           one       == CASE trusted_ /\ forwarded # {}               -> forwarded
                          [] trusted_ /\ forwarded = {} /\ real # {} -> real
                          [] ~trusted_ \/ forwarded \cup real = {}   ->
                               remote \cup {b \in {peer} : remote = {}}
<1>1. CallerIP(proxies, peer, headers) = CHOOSE r \in one : TRUE
  BY DEF CallerIP
<1>2. trusted_
  <2>1. remote = {NormalizeAddr(peer)} /\ Trusts(proxies, NormalizeAddr(peer))
    BY Parsed, Trusted DEF IsProxy
  <2> QED
    BY <2>1
<1>3. one = {caller}
  <2> HIDE DEF trusted_, remote
  <2>1. forwarded = {caller} \/ (forwarded = {} /\ real = {caller})
    OBVIOUS
  <2> HIDE DEF forwarded, real
  <2> QED
    BY <1>2, <2>1
<1> HIDE DEF one
<1> QED
  BY <1>1, <1>3

(* A caller is one however it connects, and only a proxy can name another. *)
THEOREM CallerSafe == Spec => []OneCaller
<1>1. IInv => OneCaller
  <2> SUFFICES ASSUME IInv, stage = "up" PROVE OneCaller
    BY DEF OneCaller
  <2> DEFINE Caller(peer, forwarded, real) ==
               CallerIP(config.trustedProxies, peer, [forwarded |-> forwarded, real |-> real])
             Own(peer) == Caller(peer, << >>, NoAddress)
             proxies   == {a \in Addresses : \E proxy \in config.trustedProxies : a.host \in proxy.hosts}
             others    == Addresses \ (proxies \cup {NoAddress})
  <2>1. \A a \in Addresses : Own(a) = NormalizeAddr(a)
    <3> SUFFICES ASSUME NEW a \in Addresses PROVE Own(a) = NormalizeAddr(a)
      OBVIOUS
    <3>1. a \in [host : STRING, mapped : BOOLEAN]
      BY AddressesAssumption
    <3>2. FirstHeaderIP(<< >>) = {}
      BY DEF FirstHeaderIP
    <3> DEFINE headers == [forwarded |-> << >>, real |-> NoAddress]
    <3>3. FirstHeaderIP(headers.forwarded) = {} /\ ParseIPFromAddress(headers.real) = {}
      BY <3>2, NotParsed
    <3> HIDE DEF headers
    <3>4. CallerIP(config.trustedProxies, a, headers) = NormalizeAddr(a)
      BY ONLY <3>1, <3>3, CallsItself
    <3> QED
      BY <3>4 DEF headers
  <2>2. ASSUME NEW a \in Addresses, NEW b \in Addresses PROVE Own(a) = Own(b) <=> a.host = b.host
    <3>1. Own(a) = [host |-> a.host, mapped |-> FALSE] /\ Own(b) = [host |-> b.host, mapped |-> FALSE]
      <4>1. a \in [host : STRING, mapped : BOOLEAN] /\ b \in [host : STRING, mapped : BOOLEAN]
        BY AddressesAssumption
      <4> QED
        BY <2>1, <4>1, Parsed
    <3>2. [host |-> a.host, mapped |-> FALSE] = [host |-> b.host, mapped |-> FALSE] <=> a.host = b.host
      OBVIOUS
    <3> HIDE DEF Own
    <3> QED
      BY <3>1, <3>2
  <2>3. ASSUME NEW a \in others, NEW claimed \in Addresses
        PROVE  Caller(a, <<claimed, a>>, claimed) = Own(a)
    <3>1. a \in [host : STRING, mapped : BOOLEAN] /\ a # NoAddress
          /\ \A proxy \in config.trustedProxies : a.host \notin proxy.hosts
      BY AddressesAssumption
    <3> QED
      BY <2>1, <3>1, CallsItself
  <2>4. ASSUME NEW proxy \in proxies, NEW a \in others, NEW other \in Addresses
        PROVE  /\ Caller(proxy, <<a, other>>, other) = Own(a)
               /\ Caller(proxy, <<NoAddress, other>>, a) = Own(a)
    <3>1. proxy \in [host : STRING, mapped : BOOLEAN]
          /\ \E trusted_ \in config.trustedProxies : proxy.host \in trusted_.hosts
      BY AddressesAssumption
    <3>2. proxy # NoAddress
      BY <3>1, Shape DEF IInv
    <3>3. a \in [host : STRING, mapped : BOOLEAN] /\ a # NoAddress /\ Own(a) = NormalizeAddr(a)
      BY <2>1, AddressesAssumption
    <3>4. /\ FirstHeaderIP(<<a, other>>) = {NormalizeAddr(a)}
          /\ FirstHeaderIP(<<NoAddress, other>>) = {} /\ ParseIPFromAddress(a) = {NormalizeAddr(a)}
      BY <3>3, Parsed, NotParsed
    <3> DEFINE first  == [forwarded |-> <<a, other>>, real |-> other]
               second == [forwarded |-> <<NoAddress, other>>, real |-> a]
    <3>5. /\ first.forwarded = <<a, other>>
          /\ second.forwarded = <<NoAddress, other>> /\ second.real = a
      OBVIOUS
    <3> HIDE DEF Own, proxies, others, first, second
    <3>6. /\ FirstHeaderIP(first.forwarded) = {NormalizeAddr(a)}
          /\ FirstHeaderIP(second.forwarded) = {} /\ ParseIPFromAddress(second.real) = {NormalizeAddr(a)}
      BY <3>4, <3>5
    <3>7. /\ CallerIP(config.trustedProxies, proxy, first) = NormalizeAddr(a)
          /\ CallerIP(config.trustedProxies, proxy, second) = NormalizeAddr(a)
      <4>1. IsProxy(config.trustedProxies, proxy)
        BY <3>1, <3>2 DEF IsProxy
      <4> QED
        BY ONLY <3>6, <4>1, CallsForAnother
    <3> QED
      BY <3>3, <3>7 DEF first, second
  <2> QED
    BY <2>2, <2>3, <2>4 DEF OneCaller
<1> QED
  BY <1>1, Invariant, PTL

-----------------------------------------------------------------------------
(* Routes and channels. *)

(* What validation lets a route be, and the part of it that a message gets. *)
IsRoute(list) ==
  /\ list \in Seq(STRING) /\ list # << >> /\ IsInjective(list)
  /\ \A i \in DOMAIN list : Routable(config, list[i])

Chosen(list) == SubSeq(list, 1, IF Len(list) < config.attempts THEN Len(list) ELSE config.attempts)

(* Where a recipient's domain is looked up. *)
RouteKey(routes, to) == IF RecipientDomain[to] \in DOMAIN routes THEN RecipientDomain[to] ELSE Wildcard

(* Numbers of a valid configuration. *)
LEMMA Numbers ==
  ASSUME IsConfiguration(config), NEW v, Validate(config, v, suppressions)
  PROVE  /\ config.attempts \in Nat \ {0} /\ Len(config.backoff) = config.attempts
         /\ config.backoff[1] = 0
<1>1. ValidateDefaults(config) /\ config.backoff \in Seq(Int)
  BY DEF Validate, IsConfiguration
<1>2. config.attempts \in 1..3 /\ Len(config.backoff) = config.attempts
  BY <1>1 DEF ValidateDefaults, maxMVPAttemptsPerMessage
<1>3. 1 \in DOMAIN config.backoff
  BY <1>1, <1>2
<1> QED
  BY <1>1, <1>2, <1>3 DEF ValidateDefaults

(* A valid scene has routes, one of them for everybody. *)
LEMMA RoutesValid ==
  ASSUME IsConfiguration(config), NEW v, Validate(config, v, suppressions),
         NEW a \in DOMAIN config.apps, NEW s \in DOMAIN config.apps[a].scenes
  PROVE  LET routes == config.apps[a].scenes[s].routes
         IN /\ Wildcard \in DOMAIN routes
            /\ \A key \in DOMAIN routes :
                 IsRoute(routes[key]) /\ (key = Wildcard \/ Lower[key] = key)
<1> DEFINE routes == config.apps[a].scenes[s].routes
<1>1. ValidateRoutePolicy(config, routes)
  BY DEF Validate, ValidateApps, ValidateScenes
<1>2. \A key \in DOMAIN routes : routes[key] \in Seq(STRING)
  BY DEF IsConfiguration
<1> HIDE DEF routes
<1>3. \A key \in DOMAIN routes : IsRoute(routes[key]) /\ (key = Wildcard \/ Lower[key] = key)
  BY <1>1, <1>2 DEF ValidateRoutePolicy, IsRoute, IsValidRouteDomain, IsInjective
<1> QED
  BY <1>1, <1>3 DEF ValidateRoutePolicy, routes

(* Nothing is skipped of such a route; it is only cut off. *)
LEMMA ChosenRoute ==
  ASSUME config.attempts \in Nat \ {0}, UniqueCodes(config.channels), NEW list, IsRoute(list)
  PROVE  /\ UniqueAndTruncate(list, config.attempts) = Chosen(list)
         /\ Chosen(list) # << >> /\ Len(Chosen(list)) <= config.attempts
         /\ DOMAIN Chosen(list) \subseteq DOMAIN list
         /\ \A i \in DOMAIN Chosen(list) : Chosen(list)[i] = list[i]
<1> DEFINE firsts == {i \in DOMAIN list : list[i] # "" /\ \A j \in 1..i - 1 : list[j] # list[i]}
           n == IF Len(list) < config.attempts THEN Len(list) ELSE config.attempts
           taken == [i \in 1..n |-> list[Nth(1..Len(list), i)]]
<1>1. list \in Seq(STRING) /\ Len(list) \in Nat \ {0} /\ DOMAIN list = 1..Len(list)
  BY DEF IsRoute
<1>2. \A i \in DOMAIN list : list[i] # ""
  <2>1. \A code : \A channel \in FirstNamed(config.channels, code) : channel.code = code /\ channel.code # ""
    BY DEF FirstNamed, Named, UniqueCodes
  <2> QED
    BY <2>1 DEF IsRoute, Routable
<1>3. firsts = 1..Len(list)
  <2>1. ASSUME NEW i \in DOMAIN list, NEW j \in 1..i - 1 PROVE list[j] # list[i]
    <3>1. i \in Int /\ j \in Int /\ j \in DOMAIN list /\ j # i
      BY <1>1
    <3> QED
      BY <3>1 DEF IsRoute, IsInjective
  <2> QED
    BY <1>1, <1>2, <2>1
<1>4. Cardinality(1..Len(list)) = Len(list)
  BY <1>1, FS_Interval
<1>5. UniqueAndTruncate(list, config.attempts) = taken
  <2>1. UniqueAndTruncate(list, config.attempts) =
          [i \in 1..(IF Cardinality(firsts) < config.attempts
                     THEN Cardinality(firsts) ELSE config.attempts) |-> list[Nth(firsts, i)]]
    BY DEF UniqueAndTruncate
  <2> HIDE DEF firsts
  <2> QED
    BY <1>3, <1>4, <2>1
<1>6. n \in Nat \ {0} /\ n <= config.attempts /\ \A i \in 1..n : i \in 1..Len(list)
  BY <1>1
<1> HIDE DEF n
<1>7. taken = [i \in 1..n |-> list[i]]
  BY <1>1, <1>6, NthOfAll
<1>8. Chosen(list) = SubSeq(list, 1, n)
  BY DEF Chosen, n
<1>9. SubSeq(list, 1, n) = [i \in 1..n |-> list[i]]
  <2>1. \A i \in 1..n : list[i] \in STRING
    BY <1>1, <1>6
  <2>2. /\ SubSeq(list, 1, n) \in Seq(STRING) /\ Len(SubSeq(list, 1, n)) = n
        /\ \A i \in 1..n : SubSeq(list, 1, n)[i] = list[i]
    <3>1. 1 \in Int /\ n \in Int /\ 1 <= n /\ n - 1 + 1 = n /\ \A i \in 1..n : 1 + i - 1 = i
      BY <1>6
    <3> QED
      BY <2>1, <3>1, SubSeqProperties
  <2> QED
    BY <2>2
<1> QED
  BY <1>1, <1>5, <1>6, <1>7, <1>8, <1>9

(* The channels of a scene for a recipient. *)
LEMMA SelectedRoute ==
  ASSUME IsConfiguration(config), NEW v, Validate(config, v, suppressions),
         NEW a \in DOMAIN config.apps, NEW s \in DOMAIN config.apps[a].scenes, NEW to
  PROVE  LET scene == config.apps[a].scenes[s]
             list  == scene.routes[RouteKey(scene.routes, to)]
         IN /\ RouteKey(scene.routes, to) \in DOMAIN scene.routes
            /\ IsRoute(list) /\ SelectRoute(scene, to) = Chosen(list)
<1> DEFINE scene == config.apps[a].scenes[s]
           key   == RouteKey(scene.routes, to)
<1>1. key \in DOMAIN scene.routes /\ IsRoute(scene.routes[key])
  BY RoutesValid DEF RouteKey
<1>2. config.attempts \in Nat \ {0} /\ UniqueCodes(config.channels)
  BY Numbers DEF Validate, ValidateProviderChannels
<1>3. SelectRoute(scene, to) = UniqueAndTruncate(scene.routes[key], config.attempts)
  BY <1>1 DEF SelectRoute, RouteKey
<1> QED
  BY <1>1, <1>2, <1>3, ChosenRoute

(* A route's channel is found, complete, and its provider can be called. *)
LEMMA Reaches ==
  ASSUME Validate(config, vault, suppressions), NEW code, Routable(config, code)
  PROVE  ReachesProvider(code)
<1>1. /\ ValidateProviderAccounts(config, vault) /\ ValidateProviderChannels(config, vault)
      /\ UniqueCodes(config.accounts) /\ UniqueCodes(config.channels)
  BY DEF Validate, ValidateProviderAccounts, ValidateProviderChannels
<1>2. PICK channel \in FirstNamed(config.channels, code) :
        /\ channel.enabled
        /\ \E account \in FirstNamed(config.accounts, channel.account) : account.enabled
  BY DEF Routable
<1>3. PICK i \in DOMAIN config.channels : channel = config.channels[i]
  BY DEF FirstNamed, Named
<1>4. PICK account \in FirstNamed(config.accounts, channel.account) :
        /\ channel.from = "in sender domain" /\ channel.fromName # "control characters"
        /\ SupportsTransport(account.provider, channel.transport)
        /\ channel.transport = "api" /\ UsesHTTPHeader(account.provider) => account.apiKey # NoRef
        /\ ValidateSMTP(channel, account, vault)
  BY <1>1, <1>3 DEF ValidateProviderChannels
<1>5. account.enabled /\ account.code = channel.account /\ account.code # ""
  <2>1. account.code = channel.account
    BY DEF FirstNamed, Named
  <2>2. \A j \in DOMAIN config.accounts : config.accounts[j].code # ""
    BY <1>1 DEF UniqueCodes
  <2>3. account.code # ""
    BY <2>2 DEF FirstNamed, Named
  <2>4. account.enabled
    BY <1>1, <1>2, OneNamed
  <2> QED
    BY <2>1, <2>3, <2>4
<1>6. PICK j \in DOMAIN config.accounts : account = config.accounts[j]
  BY DEF FirstNamed, Named
<1>7. /\ account.provider \in Providers
      /\ account.apiKey # NoRef =>
           /\ ResolvesSecret(vault, account.apiKey)
           /\ UsesHTTPHeader(account.provider) => Visible(Resolve(vault, account.apiKey))
  BY <1>1, <1>6 DEF ValidateProviderAccounts
<1>8. AdapterReady(channel, account)
  <2>1. EnvelopeReady(channel)
    BY <1>4 DEF EnvelopeReady
  <2>2. CASE channel.transport = "api"
    <3>1. account.provider \in {"resend", "brevo"} => Visible(Resolve(vault, account.apiKey))
      BY <1>4, <1>7, <2>2 DEF UsesHTTPHeader
    <3>2. Adapter(account.provider, channel.transport) = account.provider
      BY <1>7, <2>2 DEF Adapter, Providers
    <3> QED
      BY <1>7, <2>1, <3>1, <3>2 DEF AdapterReady, ResendReady, BrevoReady, Providers
  <2>3. CASE channel.transport = "smtp"
    <3>1. Adapter(account.provider, channel.transport) = "smtp"
      BY <1>4, <2>3 DEF Adapter, SupportsTransport, Providers
    <3>2. SMTPReady(channel, account)
      <4> ValidateSMTP(channel, account, vault)
        BY <1>4
      <4>1. PICK smtp \in channel.smtp : TRUE
        <5>1. channel.smtp # {}
          BY ONLY ValidateSMTP(channel, account, vault), <2>3, Zenon DEF ValidateSMTP
        <5> QED
          BY ONLY <5>1, Zenon
      <4>2. /\ smtp.host # "" /\ smtp.port = 587 /\ smtp.username # ""
            /\ IF smtp.password = NoRef THEN account.apiKey # NoRef
               ELSE ResolvesSecret(vault, smtp.password)
        BY ONLY ValidateSMTP(channel, account, vault), <4>1 DEF ValidateSMTP
      <4>3. ResolvesSecret(vault, IF smtp.password = NoRef THEN account.apiKey ELSE smtp.password)
        BY <1>7, <4>2
      <4> QED
        BY ONLY <4>1, <4>2, <4>3 DEF SMTPReady, ResolvesSecret
    <3> QED
      BY <2>1, <3>1, <3>2 DEF AdapterReady
  <2> QED
    BY <1>4, <2>2, <2>3 DEF SupportsTransport
<1>9. [channel |-> channel, account |-> account] \in Runtimes(code)
  <2>1. /\ LastNamed(config.channels, code) = {channel}
        /\ LastNamed(config.accounts, channel.account) = {account}
    <3>1. LastNamed(config.channels, code) = {channel}
      BY <1>1, OneNamed
    <3>2. LastNamed(config.accounts, channel.account) = {account}
      BY <1>1, OneNamed
    <3> QED
      BY <3>1, <3>2
  <2>2. UNION {LastNamed(config.accounts, ch.account) : ch \in {channel}} = {account}
    BY ONLY <2>1
  <2>3. Runtimes(code) = {[channel |-> ch, account |-> acc] : ch \in {channel}, acc \in {account}}
    BY ONLY <2>1, <2>2 DEF Runtimes
  <2> QED
    BY ONLY <2>3
<1>10. channel.transport \in Transports
  BY <1>4 DEF SupportsTransport, Transports
<1>11. code # ""
  BY <1>1, <1>3 DEF FirstNamed, Named, UniqueCodes
<1> QED
  BY <1>2, <1>5, <1>7, <1>8, <1>9, <1>10, <1>11 DEF ReachesProvider

(* Every channel that a message was given leads to a call of a provider,   *)
(* for any valid configuration, as long as no secret was replaced.         *)
THEOREM ChannelsUsable == Spec => []AttemptsReachProvider
<1>1. IInv => AttemptsReachProvider
  <2> SUFFICES ASSUME IInv, NEW message \in messages, trusted = "ran",
                      NEW i \in DOMAIN message.channels
               PROVE  ReachesProvider(message.channels[i])
    BY DEF AttemptsReachProvider
  <2>1. IsConfiguration(config) /\ Validate(config, vault, suppressions)
    BY Shape DEF IInv, Valid
  <2>2. PICK a \in DOMAIN config.apps : a = message.app
    BY DEF IInv, Messages, Accepted
  <2>3. PICK scene \in FirstNamed(config.apps[a].scenes, message.scene) :
          message.channels = SelectRoute(scene, message.to)
    BY <2>2 DEF IInv, Messages, Accepted
  <2>4. UniqueCodes(config.channels)
    BY <2>1 DEF Validate, ValidateProviderChannels
  <2>5. PICK s \in DOMAIN config.apps[a].scenes : scene = config.apps[a].scenes[s]
    BY DEF FirstNamed, Named
  <2>6. PICK list : IsRoute(list) /\ message.channels = Chosen(list)
    BY <2>1, <2>3, <2>5, SelectedRoute
  <2>7. i \in DOMAIN list /\ message.channels[i] = list[i]
    BY <2>1, <2>4, <2>6, Numbers, ChosenRoute
  <2> QED
    BY <2>1, <2>6, <2>7, Reaches DEF IsRoute
<1> QED
  BY <1>1, Invariant, PTL

(* The key that a recipient's domain is looked up by is the key that the   *)
(* operator wrote for it.                                                  *)
LEMMA ExactRoute ==
  ASSUME NEW routes, \A key \in DOMAIN routes : key = Wildcard \/ Lower[key] = key, NEW to
  PROVE  LET exact == {key \in DOMAIN routes : Lower[key] = RecipientDomain[to]}
         IN (CHOOSE key \in IF exact = {} THEN {Wildcard} ELSE exact : TRUE) = RouteKey(routes, to)
<1> DEFINE exact == {key \in DOMAIN routes : Lower[key] = RecipientDomain[to]}
<1>1. \A key \in DOMAIN routes : Lower[key] = key
  BY LowerAssumption DEF Wildcard
<1>2. exact = {key \in DOMAIN routes : key = RecipientDomain[to]}
  BY <1>1
<1>3. CASE RecipientDomain[to] \in DOMAIN routes
  <2>1. exact = {RecipientDomain[to]}
    BY <1>2, <1>3
  <2> HIDE DEF exact
  <2> QED
    BY <1>3, <2>1 DEF RouteKey
<1>4. CASE RecipientDomain[to] \notin DOMAIN routes
  <2>1. exact = {}
    BY <1>2, <1>4
  <2> HIDE DEF exact
  <2> QED
    BY <1>4, <2>1 DEF RouteKey
<1> QED
  BY <1>3, <1>4

(* What the summary shows of a channel is what an attempt at it uses.      *)
ShownIn(summary, code) ==
  \E shown \in summary.channels, account \in summary.accounts :
    /\ shown.code = code /\ account.code = shown.account /\ account.enabled
    /\ \A runtime \in Runtimes(shown.code) :
         /\ runtime.account.code = account.code /\ runtime.account.provider = shown.provider
         /\ runtime.channel.transport = shown.transport

(* A channel that can be reached is shown to the app that routes to it. *)
LEMMA ChannelShown ==
  ASSUME UniqueCodes(config.accounts), UniqueCodes(config.channels),
         NEW app, NEW code \in AppRouteChannels(app), Routable(config, code)
  PROVE  ShownIn(ProcessAdminConfigSummary(config, app), code)
<1> DEFINE visible == {channel \in Range(config.channels) : channel.code \in AppRouteChannels(app)}
           Provider(name) ==
             IF LastNamed(config.accounts, name) = {} THEN ""
             ELSE (CHOOSE a \in LastNamed(config.accounts, name) : TRUE).provider
           Channel(channel) ==
             [code |-> channel.code, account |-> channel.account, provider |-> Provider(channel.account),
              transport |-> channel.transport, enabled |-> channel.enabled]
           Account(account) ==
             [code |-> account.code, provider |-> account.provider, enabled |-> account.enabled]
           summary == ProcessAdminConfigSummary(config, app)
<1>1. PICK channel \in FirstNamed(config.channels, code) :
        \E account \in FirstNamed(config.accounts, channel.account) : account.enabled
  BY DEF Routable
<1>2. PICK account \in FirstNamed(config.accounts, channel.account) : account.enabled
  BY <1>1
<1>3. channel.code = code /\ channel \in Range(config.channels)
  BY DEF FirstNamed, Named, Range
<1>4. account.code = channel.account /\ account \in Range(config.accounts)
  BY DEF FirstNamed, Named, Range
<1>5. /\ LastNamed(config.channels, code) = {channel}
      /\ LastNamed(config.accounts, channel.account) = {account}
  <2>1. LastNamed(config.channels, code) = {channel}
    BY OneNamed
  <2>2. LastNamed(config.accounts, channel.account) = {account}
    BY OneNamed
  <2> QED
    BY <2>1, <2>2
<1>6. Provider(channel.account) = account.provider
  BY <1>5
<1>7. channel \in visible
  BY <1>3
<1>8. /\ summary.channels = {Channel(ch) : ch \in visible}
      /\ summary.accounts = {Account(acc) : acc \in {a \in Range(config.accounts) :
                                                       \E ch \in visible : ch.account = a.code}}
  BY DEF ProcessAdminConfigSummary
<1> HIDE DEF visible, summary, Provider
<1>9. Channel(channel) \in summary.channels /\ Account(account) \in summary.accounts
  BY <1>4, <1>7, <1>8
<1>10. \A runtime \in Runtimes(code) : runtime.channel = channel /\ runtime.account = account
  <2>1. Runtimes(code) = {[channel |-> ch, account |-> acc] : ch \in {channel}, acc \in {account}}
    <3>1. UNION {LastNamed(config.accounts, ch.account) : ch \in {channel}} = {account}
      BY <1>5
    <3> QED
      BY <1>5, <3>1 DEF Runtimes
  <2> QED
    BY <2>1
<1> QED
  <2>1. /\ Channel(channel).code = channel.code /\ Channel(channel).account = Account(account).code
        /\ Channel(channel).provider = account.provider
        /\ Channel(channel).transport = channel.transport
        /\ Account(account).code = account.code /\ Account(account).enabled
    BY <1>2, <1>3, <1>4, <1>6
  <2> HIDE DEF Channel, Account
  <2>2. \A runtime \in Runtimes(Channel(channel).code) :
          /\ runtime.account.code = Account(account).code
          /\ runtime.account.provider = Channel(channel).provider
          /\ runtime.channel.transport = Channel(channel).transport
    BY <1>3, <1>10, <2>1
  <2>3. Channel(channel).code = code
    BY <1>3, <2>1
  <2> SUFFICES \E shown \in summary.channels, acc \in summary.accounts :
                 /\ shown.code = code /\ acc.code = shown.account /\ acc.enabled
                 /\ \A runtime \in Runtimes(shown.code) :
                      /\ runtime.account.code = acc.code /\ runtime.account.provider = shown.provider
                      /\ runtime.channel.transport = shown.transport
    BY DEF ShownIn, summary
  <2> QED
    BY ONLY <1>9, <2>1, <2>2, <2>3, Zenon

(* A message has the channels that the operator wrote for its recipient,   *)
(* none twice, with a delay for each attempt, and the summary of the       *)
(* configuration shows what its attempts use.                              *)
THEOREM RouteSafe == Spec => []RouteHonoured
<1>1. IInv => RouteHonoured
  <2> SUFFICES ASSUME IInv, NEW message \in messages
               PROVE  LET app    == config.apps[message.app]
                          routes == (CHOOSE s \in FirstNamed(app.scenes, message.scene) : TRUE).routes
                          exact  == {key \in DOMAIN routes : Lower[key] = RecipientDomain[message.to]}
                          list   == routes[CHOOSE key \in IF exact = {} THEN {Wildcard} ELSE exact : TRUE]
                      IN /\ message.channels = Chosen(list)
                         /\ IsInjective(message.channels)
                         /\ Len(message.channels) <= Len(config.backoff) /\ config.backoff[1] = 0
                         /\ \A i \in DOMAIN message.channels :
                              ShownIn(ProcessAdminConfigSummary(config, app), message.channels[i])
    BY DEF RouteHonoured, Chosen, ShownIn
  <2>1. PICK v : IsConfiguration(config) /\ Validate(config, v, suppressions)
    BY Shape DEF IInv, Messages, Valid, Started
  <2> DEFINE a     == message.app
             scene == CHOOSE one \in FirstNamed(config.apps[a].scenes, message.scene) : TRUE
             exact == {key \in DOMAIN scene.routes : Lower[key] = RecipientDomain[message.to]}
             key   == CHOOSE key \in IF exact = {} THEN {Wildcard} ELSE exact : TRUE
             list  == scene.routes[key]
  <2>2. a \in DOMAIN config.apps
    BY DEF IInv, Messages, Accepted
  <2>3. PICK picked \in FirstNamed(config.apps[a].scenes, message.scene) :
          message.channels = SelectRoute(picked, message.to)
    BY DEF IInv, Messages, Accepted
  <2>4. /\ UniqueCodes(config.apps[a].scenes)
        /\ UniqueCodes(config.channels) /\ UniqueCodes(config.accounts)
    BY <2>1, <2>2
    DEF Validate, ValidateApps, ValidateScenes, ValidateProviderChannels, ValidateProviderAccounts
  <2>5. PICK s \in DOMAIN config.apps[a].scenes : picked = config.apps[a].scenes[s]
    BY DEF FirstNamed, Named
  <2>6. scene = picked
    <3>1. \A one \in FirstNamed(config.apps[a].scenes, message.scene) : one = picked
      BY <2>4, OneNamed
    <3> QED
      BY <2>3, <3>1
  <2> HIDE DEF scene
  <2>7. key = RouteKey(scene.routes, message.to)
    BY <2>1, <2>2, <2>5, <2>6, RoutesValid, ExactRoute
  <2> HIDE DEF key
  <2>8. /\ key \in DOMAIN scene.routes /\ IsRoute(list)
        /\ message.channels = Chosen(list)
    <3>1. LET routes == config.apps[a].scenes[s].routes
              chosen == routes[RouteKey(routes, message.to)]
          IN /\ RouteKey(routes, message.to) \in DOMAIN routes /\ IsRoute(chosen)
             /\ SelectRoute(config.apps[a].scenes[s], message.to) = Chosen(chosen)
      BY <2>1, <2>2, SelectedRoute
    <3> QED
      BY <2>3, <2>5, <2>6, <2>7, <3>1
  <2>9. /\ config.attempts \in Nat \ {0} /\ Len(config.backoff) = config.attempts
        /\ config.backoff[1] = 0
    BY <2>1, Numbers
  <2>10. /\ Len(message.channels) <= config.attempts
         /\ DOMAIN message.channels \subseteq DOMAIN list
         /\ \A i \in DOMAIN message.channels : message.channels[i] = list[i]
    BY <2>4, <2>8, <2>9, ChosenRoute
  <2>11. IsInjective(message.channels)
    BY <2>8, <2>10 DEF IsInjective, IsRoute
  <2>12. ASSUME NEW i \in DOMAIN message.channels
         PROVE  ShownIn(ProcessAdminConfigSummary(config, config.apps[a]), message.channels[i])
    <3>1. Routable(config, list[i]) /\ list[i] # ""
      <4>1. Routable(config, list[i])
        BY <2>8, <2>10 DEF IsRoute
      <4>2. \A channel \in FirstNamed(config.channels, list[i]) : channel.code = list[i] /\ channel.code # ""
        BY ONLY <2>4, Zenon DEF FirstNamed, Named, UniqueCodes
      <4> QED
        BY ONLY <4>1, <4>2 DEF Routable
    <3>2. list[i] \in AppRouteChannels(config.apps[a])
      <4>1. scene \in Range(config.apps[a].scenes)
        BY <2>5, <2>6 DEF Range
      <4>2. list[i] \in Range(scene.routes[key])
        BY <2>10 DEF Range
      <4> DEFINE Routed(one) == UNION {Range(one.routes[k]) : k \in DOMAIN one.routes}
      <4>3. list[i] \in Routed(scene)
        BY <2>8, <4>2
      <4>4. AppRouteChannels(config.apps[a]) =
              (UNION {Routed(one) : one \in Range(config.apps[a].scenes)}) \ {""}
        BY DEF AppRouteChannels
      <4> HIDE DEF list, Routed
      <4>5. list[i] \in UNION {Routed(one) : one \in Range(config.apps[a].scenes)}
        BY ONLY <4>1, <4>3
      <4> QED
        BY ONLY <3>1, <4>4, <4>5
    <3> HIDE DEF list
    <3> QED
      BY <2>4, <2>10, <3>1, <3>2, ChannelShown
  <2> QED
    BY <2>8, <2>9, <2>10, <2>11, <2>12 DEF key, scene
<1> QED
  BY <1>1, Invariant, PTL

-----------------------------------------------------------------------------
(* Answers. *)

(* Every scene's mail can be rendered in the language everybody falls back *)
(* to, and its templates parse.                                            *)
LEMMA TemplateServed ==
  ASSUME NEW v, Validate(config, v, suppressions),
         NEW a \in DOMAIN config.apps, NEW s \in DOMAIN config.apps[a].scenes, NEW locale
  PROVE  LET app   == config.apps[a]
             found == ResolveTemplate(app, app.scenes[s], locale)
         IN found # {} /\ \A i \in found : Parses(app.templates[i])
<1> DEFINE app == config.apps[a]
           scene == app.scenes[s]
           found == ResolveTemplate(app, scene, locale)
<1>1. ValidateScenes(config, app) /\ ValidateTemplates(app)
  BY DEF Validate, ValidateApps
<1>2. EnabledTemplates(app, scene.template, app.defaultLocale) # {}
  <2>1. PICK t \in DOMAIN app.templates :
          /\ app.templates[t].code = scene.template
          /\ app.templates[t].locale = app.defaultLocale
          /\ app.templates[t].enabled
    BY <1>1 DEF ValidateScenes
  <2> QED
    BY <2>1 DEF EnabledTemplates
<1>3. found # {} /\ found \subseteq DOMAIN app.templates
  BY <1>2 DEF ResolveTemplate, EnabledTemplates
<1>4. \A i \in DOMAIN app.templates : Parses(app.templates[i])
  BY <1>1 DEF ValidateTemplates, Parses
<1> QED
  BY <1>3, <1>4

(* A query, the list that answers it, and the entries that it is about. *)
Query(n, reason, email) == [limit |-> n, reason |-> reason, email |-> email]

ListOf(app, filter) == ListSuppressions(suppressions, app, filter)

Passes(filter, entry) ==
  /\ entry \in suppressions
  /\ filter.reason \in {"", entry.reason}
  /\ filter.email = "" \/ Lower[filter.email] = Lower[entry.email]

(* An entry that a filter lets through is in the list, if the list is long *)
(* enough; alone, if the filter names its address.                         *)
LEMMA Listed ==
  ASSUME ValidateSuppressionFile(config, suppressions), Ordered,
         NEW filter, filter.limit \in Nat,
         NEW entry, Passes(filter, entry)
  PROVE  LET list == ListOf(entry.app, filter)
         IN /\ Len(list) < filter.limit => Contains(list, entry)
            /\ filter.email # "" /\ filter.limit # 0 => Len(list) = 1 /\ list[1] = entry
<1> DEFINE listed == {e \in suppressions : /\ e.app = entry.app
                                           /\ filter.reason \in {"", e.reason}
                                           /\ filter.email = "" \/ Lower[filter.email] = Lower[e.email]}
           Has(e, i) == Lower[e.email] = RecipientOrder[i]
           places == {i \in DOMAIN RecipientOrder : \E e \in listed : Has(e, i)}
           found  == Cardinality(places)
           shown  == IF found < filter.limit THEN found ELSE filter.limit
           list   == ListOf(entry.app, filter)
<1>1. list = [n \in 1..shown |-> CHOOSE e \in listed : Has(e, Nth(places, n))]
  BY DEF ListOf, ListSuppressions
<1>2. entry \in listed
  BY DEF Passes
<1> HIDE DEF list
<1>3. PICK i \in DOMAIN RecipientOrder : Has(entry, i)
  BY DEF Ordered, ValidateSuppressionFile, Range, Passes
<1>4. i \in places
  BY <1>2, <1>3
<1>5. DOMAIN RecipientOrder = 1..Len(RecipientOrder) /\ Len(RecipientOrder) \in Nat
  BY ONLY OrderAssumption
<1>6. IsFiniteSet(places) /\ places \subseteq Int
  <2>1. places \subseteq 1..Len(RecipientOrder)
    BY ONLY <1>5
  <2>2. IsFiniteSet(1..Len(RecipientOrder))
    BY ONLY <1>5, FS_Interval
  <2>3. 1..Len(RecipientOrder) \subseteq Int
    BY ONLY <1>5
  <2> HIDE DEF places
  <2>4. places \in SUBSET (1..Len(RecipientOrder))
    BY <2>1
  <2>5. IsFiniteSet(places)
    BY ONLY <2>2, <2>4, FS_Subset
  <2> QED
    BY ONLY <2>3, <2>4, <2>5
<1>7. \A e \in listed : Has(e, i) => e = entry
  BY <1>3 DEF ValidateSuppressionFile, Passes
<1> DEFINE k == Place(places, i)
<1>8. k \in 1..found /\ Nth(places, k) = i /\ found \in Nat
  <2> HIDE DEF places
  <2> QED
    BY <1>4, <1>6, NthFound, FS_CardinalityType
<1>9. (CHOOSE e \in listed : Has(e, Nth(places, k))) = entry
  <2>1. \A e \in listed : Has(e, Nth(places, k)) <=> e = entry
    BY <1>3, <1>7, <1>8
  <2> HIDE DEF listed, Has, k, places
  <2> QED
    BY <1>2, <2>1
<1>10. filter.email # "" => places = {i}
  <2>1. ASSUME filter.email # "", NEW j \in places PROVE j = i
    <3>1. RecipientOrder[j] = Lower[entry.email]
      BY <2>1 DEF Passes
    <3>2. RecipientOrder[j] = RecipientOrder[i] /\ j \in DOMAIN RecipientOrder
      BY <1>3, <3>1
    <3> QED
      BY <3>2, OrderAssumption DEF IsInjective
  <2> QED
    BY <1>4, <2>1
<1>11. filter.email # "" => found = 1
  <2> HIDE DEF places
  <2> QED
    BY <1>10, FS_Singleton
<1> HIDE DEF found, places, listed, k, Has
<1>12. Len(list) = shown /\ shown \in Nat
  BY ONLY <1>1, <1>8, filter.limit \in Nat
<1>13. k \in 1..shown => list[k] = entry
  BY <1>1, <1>9
<1>14. Len(list) < filter.limit => Contains(list, entry)
  <2>1. Len(list) < filter.limit => k \in 1..Len(list)
    BY ONLY <1>8, <1>12, filter.limit \in Nat
  <2> QED
    BY ONLY <1>12, <1>13, <2>1 DEF Contains
<1>15. filter.email # "" /\ filter.limit # 0 => Len(list) = 1 /\ list[1] = entry
  <2> SUFFICES ASSUME filter.email # "", filter.limit # 0 PROVE Len(list) = 1 /\ list[1] = entry
    OBVIOUS
  <2>1. found = 1 /\ k = 1
    <3>1. found = 1
      BY <1>11, Zenon
    <3> QED
      BY ONLY <1>8, <3>1
  <2>2. shown = 1
    BY ONLY <2>1, filter.limit \in Nat, filter.limit # 0
  <2> QED
    BY ONLY <1>12, <1>13, <2>1, <2>2
<1> QED
  BY <1>14, <1>15 DEF list

(* The limits of a list are in the limits. *)
LEMMA ListLimits ==
  /\ 1 \in 0..ListedAtMost /\ 0 \in 0..ListedAtMost /\ ListedByDefault \in 0..ListedAtMost
  /\ 1 = IF 1 = 0 THEN ListedByDefault ELSE 1
  /\ ListedByDefault = IF 0 = 0 THEN ListedByDefault ELSE 0
  /\ ListedByDefault = IF ListedByDefault = 0 THEN ListedByDefault ELSE ListedByDefault
  /\ ListedByDefault \in Nat /\ 1 \in Nat /\ 1 # 0
  BY OrderAssumption

(* What answers a query. *)
ListFor(app, n, reason, email) == ProcessSuppressionList(suppressions, app, Query(n, reason, email))

(* A query in the limits; m is the limit that it gets. *)
InLimits(n, reason, email, m) ==
  /\ n \in 0..ListedAtMost /\ m = IF n = 0 THEN ListedByDefault ELSE n
  /\ reason \in SuppressionReason \cup {""}
  /\ email = "" \/ IsAddress(email)

(* Such a query is answered by the list of its filter. *)
Answered(app, n, reason, email, m) ==
  ListFor(app, n, reason, email) = {ListOf(app, Query(m, reason, email))}

LEMMA QueryTaken ==
  ASSUME NEW app, NEW n, NEW reason, NEW email, NEW m, InLimits(n, reason, email, m)
  PROVE  Answered(app, n, reason, email, m)
<1> DEFINE query  == Query(n, reason, email)
           filter == Query(m, reason, email)
<1>1. query.limit = n /\ query.reason = reason /\ query.email = email
  BY DEF Query
<1>2. filter = [limit |-> IF query.limit = 0 THEN ListedByDefault ELSE query.limit,
                reason |-> query.reason, email |-> query.email]
  BY <1>1 DEF Query, InLimits
<1> HIDE DEF query, filter
<1>3. IsSuppressionQuery(query)
  BY <1>1 DEF IsSuppressionQuery, InLimits
<1>4. ParseSuppressionListFilter(query) = {filter}
  BY <1>2, <1>3 DEF ParseSuppressionListFilter
<1>5. ProcessSuppressionList(suppressions, app, query) = {ListSuppressions(suppressions, app, filter)}
  BY <1>4 DEF ProcessSuppressionList
<1> QED
  BY <1>5 DEF query, filter, ListOf, ListFor, Answered

(* What an entry that refuses a recipient looks like in the app's lists. *)
Found(app, to) ==
  \E list \in ListFor(app, 1, "", to) :
    /\ Len(list) = 1 /\ Lower[list[1].email] = Lower[to]
    /\ \A all \in ListFor(app, ListedByDefault, "", "") \cup ListFor(app, 0, list[1].reason, "") :
         Len(all) < ListedByDefault => Contains(all, list[1])

(* A recipient that is suppressed is found so. *)
LEMMA SuppressedIsListed ==
  ASSUME ValidateSuppressionFile(config, suppressions), Ordered,
         NEW entry \in suppressions,
         NEW to, IsAddress(to), to # "", Lower[entry.email] = Lower[to]
  PROVE  Found(entry.app, to)
<1>1. entry.reason \in SuppressionReason \cup {""}
  BY DEF ValidateSuppressionFile
<1>2. /\ Answered(entry.app, 1, "", to, 1)
      /\ Answered(entry.app, ListedByDefault, "", "", ListedByDefault)
      /\ Answered(entry.app, 0, entry.reason, "", ListedByDefault)
  <2>1. InLimits(1, "", to, 1)
    BY ONLY ListLimits, IsAddress(to) DEF InLimits
  <2>2. InLimits(ListedByDefault, "", "", ListedByDefault)
    BY ONLY ListLimits DEF InLimits
  <2>3. InLimits(0, entry.reason, "", ListedByDefault)
    BY ONLY ListLimits, <1>1 DEF InLimits
  <2> QED
    BY <2>1, <2>2, <2>3, QueryTaken, Zenon
<1> DEFINE mine == ListOf(entry.app, Query(1, "", to))
           All(reason) == ListOf(entry.app, Query(ListedByDefault, reason, ""))
<1>3. Len(mine) = 1 /\ mine[1] = entry
  <2> DEFINE filter == Query(1, "", to)
  <2>1. filter.limit = 1 /\ filter.reason = "" /\ filter.email = to
    BY DEF Query
  <2> HIDE DEF filter
  <2>2. Passes(filter, entry) /\ filter.email # ""
    BY <2>1 DEF Passes
  <2>3. filter.limit \in Nat /\ filter.limit # 0
    BY <2>1, ListLimits, Zenon
  <2>4. Len(ListOf(entry.app, filter)) = 1 /\ ListOf(entry.app, filter)[1] = entry
    BY <2>2, <2>3, Listed, Zenon
  <2> QED
    BY <2>4 DEF filter
<1>4. ASSUME NEW reason \in {"", entry.reason}
      PROVE  Len(All(reason)) < ListedByDefault => Contains(All(reason), entry)
  <2> DEFINE filter == Query(ListedByDefault, reason, "")
  <2>1. filter.limit = ListedByDefault /\ filter.reason = reason /\ filter.email = ""
    BY DEF Query
  <2> HIDE DEF filter
  <2>2. Passes(filter, entry)
    BY <2>1 DEF Passes
  <2>3. filter.limit \in Nat
    BY <2>1, ListLimits, Zenon
  <2>4. Len(ListOf(entry.app, filter)) < filter.limit => Contains(ListOf(entry.app, filter), entry)
    BY <2>2, <2>3, Listed, Zenon
  <2> QED
    BY <2>1, <2>4 DEF filter
<1> HIDE DEF mine, All
<1>5. \A all \in {All("")} \cup {All(entry.reason)} : Len(all) < ListedByDefault => Contains(all, entry)
  BY <1>4
<1>6. /\ ListFor(entry.app, 1, "", to) = {mine}
      /\ ListFor(entry.app, ListedByDefault, "", "") = {All("")}
      /\ ListFor(entry.app, 0, entry.reason, "") = {All(entry.reason)}
  BY <1>2 DEF mine, All, Answered
<1> QED
  BY <1>3, <1>5, <1>6, Zenon DEF Found

(* A template of the request's parses, but is not rendered. *)
Unrendered(app, request) ==
  \E scene \in FirstNamed(app.scenes, request.scene) :
    \E i \in ResolveTemplate(app, scene, request.locale) :
      Parses(app.templates[i]) /\ ~Renders(app.templates[i])

(* No request fails for a template or a route that the configuration ought *)
(* to have, or for one that does not parse.                                *)
LEMMA NeverUnserved ==
  ASSUME IsConfiguration(config), NEW v, Validate(config, v, suppressions),
         NEW key, key.app \in DOMAIN config.apps, NEW request
  PROVE  /\ Answer(key, request) \notin {"template_locale_not_found", "route_not_found"}
         /\ Answer(key, request) = "template_render_failed" =>
              Unrendered(config.apps[key.app], request)
         /\ Answer(key, request) = "suppressed_recipient" =>
              Suppressed(config.apps[key.app], request.to)
<1> DEFINE app    == config.apps[key.app]
           scenes == FirstNamed(app.scenes, request.scene)
           scene  == CHOOSE s \in scenes : TRUE
           found  == ResolveTemplate(app, scene, request.locale)
<1>1. \/ scenes = {}
      \/ found # {} /\ (\A i \in found : Parses(app.templates[i])) /\ SelectRoute(scene, request.to) # << >>
  <2> SUFFICES ASSUME scenes # {}
               PROVE  /\ found # {} /\ \A i \in found : Parses(app.templates[i])
                      /\ SelectRoute(scene, request.to) # << >>
    OBVIOUS
  <2>1. scene \in scenes
    OBVIOUS
  <2>2. PICK s \in DOMAIN app.scenes : scene = app.scenes[s]
    BY <2>1 DEF FirstNamed, Named
  <2>3. found # {} /\ \A i \in found : Parses(app.templates[i])
    BY <2>2, TemplateServed
  <2>4. PICK list : IsRoute(list) /\ SelectRoute(app.scenes[s], request.to) = Chosen(list)
    BY SelectedRoute
  <2>5. config.attempts \in Nat \ {0} /\ UniqueCodes(config.channels)
    BY Numbers DEF Validate, ValidateProviderChannels
  <2>6. Chosen(list) # << >>
    BY <2>4, <2>5, ChosenRoute
  <2> QED
    BY <2>2, <2>3, <2>4, <2>6
<1> DEFINE answer ==
      IF ~key.enabled THEN "unauthorized"
      ELSE IF ~app.enabled THEN "app_disabled"
      ELSE IF scenes = {} THEN "scene_not_found"
      ELSE IF ~scene.enabled THEN "scene_disabled"
      ELSE IF request.locale \notin app.locales \cup {""} THEN "invalid_locale"
      ELSE IF found = {} THEN "template_locale_not_found"
      ELSE IF \E i \in found : ~Renders(app.templates[i]) THEN "template_render_failed"
      ELSE IF Suppressed(app, request.to) THEN "suppressed_recipient"
      ELSE IF SelectRoute(scene, request.to) = << >> THEN "route_not_found"
      ELSE "accepted"
<1>2. Answer(key, request) = answer
  BY DEF Answer
<1> HIDE DEF scenes, scene, found, app
<1>3. /\ answer \notin {"template_locale_not_found", "route_not_found"}
      /\ answer = "template_render_failed" =>
           scenes # {} /\ \E i \in found : Parses(app.templates[i]) /\ ~Renders(app.templates[i])
      /\ answer = "suppressed_recipient" => Suppressed(app, request.to)
  BY ONLY <1>1
<1>4. answer = "template_render_failed" => Unrendered(app, request)
  BY ONLY <1>3 DEF Unrendered, scene, scenes, found
<1> QED
  BY ONLY <1>2, <1>3, <1>4 DEF app

(* No request is answered that a template or a route is missing, none is   *)
(* refused for a template that does not parse, and a recipient is refused  *)
(* as suppressed only for an entry that the app finds in its lists, for    *)
(* any valid configuration and suppression file.                           *)
THEOREM RequestsServed == Spec => []ServesEveryRequest
<1>1. IInv => ServesEveryRequest
  <2> SUFFICES ASSUME IInv, stage = "up",
                      NEW request \in Requests, NEW key \in KeysOf(request)
               PROVE  /\ Answer(key, request) \notin {"template_locale_not_found", "route_not_found"}
                      /\ Answer(key, request) = "template_render_failed" =>
                           Unrendered(config.apps[key.app], request)
                      /\ Answer(key, request) = "suppressed_recipient" =>
                           Found(config.apps[key.app].code, request.to)
    BY DEF ServesEveryRequest, Found, ListFor, Query, Unrendered
  <2>1. PICK v : IsConfiguration(config) /\ Validate(config, v, suppressions)
    BY Shape DEF IInv, Valid, Started
  <2>2. key.app \in DOMAIN config.apps
    BY DEF IInv, Loaded, KeysOf
  <2>3. ValidateSuppressionFile(config, suppressions) /\ Ordered
    BY <2>1 DEF IInv, Validate
  <2>4. ASSUME Suppressed(config.apps[key.app], request.to)
        PROVE  Found(config.apps[key.app].code, request.to)
    <3>1. PICK entry \in suppressions :
            entry.app = config.apps[key.app].code /\ Lower[entry.email] = Lower[request.to]
      BY <2>4 DEF Suppressed
    <3>2. request.to \in DOMAIN RecipientDomain /\ IsAddress(request.to)
      BY RecipientsAssumption
    <3>3. request.to # ""
      BY <3>2, NamedAssumption
    <3> QED
      BY <2>3, <3>1, <3>2, <3>3, SuppressedIsListed
  <2> QED
    BY <2>1, <2>2, <2>4, NeverUnserved, Zenon
<1> QED
  BY <1>1, Invariant, PTL

-----------------------------------------------------------------------------
(* Numbers as they are written. *)

(* A number as what its digit is at each power of ten. *)
Number == [Int -> 0..9]

(* The number that digits are of which the last is at power e. *)
Value(d, e) == [p \in Int |-> IF p \in e..e + Len(d) - 1 THEN d[e + Len(d) - p] ELSE 0]

(* The digits of a number from one power down to another. *)
Digits(v, high, low) == [i \in 1..high - low + 1 |-> v[high + 1 - i]]

(* All that there is of a number is at the powers from high to low. *)
Within(v, high, low) == \A p \in Int : p \notin low..high => v[p] = 0

LEMMA ValueType ==
  ASSUME NEW d \in Seq(0..9), NEW e \in Int
  PROVE  /\ Value(d, e) \in Number
         /\ Within(Value(d, e), e + Len(d) - 1, e)
<1>1. \A p \in e..e + Len(d) - 1 : e + Len(d) - p \in 1..Len(d)
  OBVIOUS
<1>2. \A p \in e..e + Len(d) - 1 : d[e + Len(d) - p] \in 0..9
  BY <1>1
<1> QED
  BY <1>2 DEF Value, Number, Within

LEMMA DigitsType ==
  ASSUME NEW v \in Number, NEW high \in Int, NEW low \in Int, high >= low - 1
  PROVE  /\ Digits(v, high, low) \in Seq(0..9)
         /\ Len(Digits(v, high, low)) = high - low + 1
         /\ \A i \in 1..high - low + 1 : Digits(v, high, low)[i] = v[high + 1 - i]
<1> DEFINE n == high - low + 1
<1>1. n \in Nat /\ \A i \in 1..n : high + 1 - i \in Int
  OBVIOUS
<1> HIDE DEF n
<1>2. Digits(v, high, low) = [i \in 1..n |-> v[high + 1 - i]]
  BY DEF Digits, n
<1>3. \A i \in 1..n : v[high + 1 - i] \in 0..9
  BY <1>1 DEF Number
<1> QED
  BY <1>1, <1>2, <1>3 DEF n

LEMMA DigitsOfValue ==
  ASSUME NEW d \in Seq(0..9), NEW e \in Int
  PROVE  Digits(Value(d, e), e + Len(d) - 1, e) = d
<1> DEFINE n == Len(d)
<1>1. n \in Nat /\ d = [i \in 1..n |-> d[i]]
  OBVIOUS
<1> HIDE DEF n
<1>2. \A i \in 1..n : e + n - 1 + 1 - i \in e..e + n - 1 /\ e + n - (e + n - 1 + 1 - i) = i
  BY <1>1
<1>3. \A i \in 1..n : Value(d, e)[e + n - 1 + 1 - i] = d[i]
  <2>1. \A p \in e..e + n - 1 : Value(d, e)[p] = d[e + n - p]
    BY DEF Value, n
  <2> TAKE i \in 1..n
  <2> DEFINE p == e + n - 1 + 1 - i
  <2>2. p \in e..e + n - 1 /\ e + n - p = i
    BY <1>2
  <2> HIDE DEF p
  <2>3. Value(d, e)[p] = d[i]
    BY <2>1, <2>2
  <2> QED
    BY <2>3 DEF p
<1>4. Digits(Value(d, e), e + n - 1, e) = [i \in 1..n |-> d[i]]
  <2> DEFINE high == e + n - 1
  <2>1. high - e + 1 = n /\ \A i \in 1..n : Value(d, e)[high + 1 - i] = d[i]
    BY <1>1, <1>3
  <2>2. high \in Int /\ high >= e - 1 /\ Value(d, e) \in Number
    BY <1>1, ValueType
  <2> HIDE DEF high
  <2>3. /\ Digits(Value(d, e), high, e) \in Seq(0..9) /\ Len(Digits(Value(d, e), high, e)) = n
        /\ \A i \in 1..n : Digits(Value(d, e), high, e)[i] = d[i]
    BY <2>1, <2>2, DigitsType
  <2> QED
    BY <2>3 DEF high
<1> QED
  BY <1>1, <1>4 DEF n

LEMMA ValueOfDigits ==
  ASSUME NEW v \in Number, NEW high \in Int, NEW low \in Int, high >= low - 1, Within(v, high, low)
  PROVE  Value(Digits(v, high, low), low) = v
<1> DEFINE d == Digits(v, high, low)
<1>1. Len(d) = high - low + 1 /\ \A i \in 1..high - low + 1 : d[i] = v[high + 1 - i]
  BY DigitsType
<1> HIDE DEF d
<1>2. \A p \in Int : Value(d, low)[p] = v[p]
  <2> TAKE p \in Int
  <2>1. Value(d, low)[p] = IF p \in low..high THEN d[high + 1 - p] ELSE 0
    <3>1. low + (high - low + 1) - 1 = high /\ low + (high - low + 1) - p = high + 1 - p
      OBVIOUS
    <3> QED
      BY <1>1, <3>1 DEF Value
  <2>2. p \in low..high => d[high + 1 - p] = v[p]
    <3>1. p \in low..high => high + 1 - p \in 1..high - low + 1 /\ high + 1 - (high + 1 - p) = p
      OBVIOUS
    <3> QED
      BY <1>1, <3>1
  <2> QED
    BY <2>1, <2>2 DEF Within
<1> QED
  BY <1>2 DEF Number, Value, d

LEMMA SubDigits ==
  ASSUME NEW v \in Number, NEW high \in Int, NEW low \in Int, NEW h \in Int, NEW l \in Int,
         h <= high, low <= l, h >= l - 1,
         NEW a \in Int, NEW b \in Int, a = high - h + 1, b = high - l + 1
  PROVE  SubSeq(Digits(v, high, low), a, b) = Digits(v, h, l)
<1> DEFINE d == Digits(v, high, low)
<1>1. /\ d \in Seq(0..9) /\ Len(d) = high - low + 1
      /\ \A i \in 1..high - low + 1 : d[i] = v[high + 1 - i]
  BY DigitsType
<1> HIDE DEF d
<1>2. \A i \in 1..b - a + 1 : a + i - 1 \in 1..high - low + 1 /\ high + 1 - (a + i - 1) = h + 1 - i
  OBVIOUS
<1>3. SubSeq(d, a, b) = [i \in 1..b - a + 1 |-> d[a + i - 1]]
  BY <1>1, <1>2
<1>4. h - l + 1 = b - a + 1
  OBVIOUS
<1>5. \A i \in 1..b - a + 1 : d[a + i - 1] = v[h + 1 - i]
  BY <1>1, <1>2
<1> QED
  BY <1>3, <1>4, <1>5 DEF Digits, d

LEMMA JoinDigits ==
  ASSUME NEW v \in Number, NEW high \in Int, NEW mid \in Int, NEW low \in Int,
         high >= mid - 1, mid >= low
  PROVE  Digits(v, high, mid) \o Digits(v, mid - 1, low) = Digits(v, high, low)
<1> DEFINE d == Digits(v, high, mid)
           f == Digits(v, mid - 1, low)
           w == Digits(v, high, low)
<1>1. /\ d \in Seq(0..9) /\ Len(d) = high - mid + 1
      /\ \A i \in 1..high - mid + 1 : d[i] = v[high + 1 - i]
  BY DigitsType
<1>2. /\ f \in Seq(0..9) /\ Len(f) = mid - low
      /\ \A i \in 1..mid - low : f[i] = v[mid - i]
  <2>1. mid - 1 \in Int /\ mid - 1 >= low - 1 /\ mid - 1 - low + 1 = mid - low
        /\ \A i \in 1..mid - low : mid - 1 + 1 - i = mid - i
    OBVIOUS
  <2> QED
    BY <2>1, DigitsType
<1>3. /\ w \in Seq(0..9) /\ Len(w) = high - low + 1
      /\ \A i \in 1..high - low + 1 : w[i] = v[high + 1 - i]
  BY DigitsType
<1> HIDE DEF d, f, w
<1>4. /\ d \o f \in Seq(0..9) /\ Len(d \o f) = Len(w)
      /\ \A i \in 1..Len(w) : (d \o f)[i] = IF i <= Len(d) THEN d[i] ELSE f[i - Len(d)]
  BY <1>1, <1>2, <1>3
<1>5. \A i \in 1..Len(w) : (d \o f)[i] = w[i]
  <2> TAKE i \in 1..Len(w)
  <2>1. CASE i <= Len(d)
    BY <1>1, <1>3, <1>4, <2>1
  <2>2. CASE ~(i <= Len(d))
    <3>1. i - Len(d) \in 1..mid - low /\ mid - (i - Len(d)) = high + 1 - i
      BY <1>1, <1>3, <2>2
    <3> QED
      BY <1>2, <1>3, <1>4, <2>2, <3>1
  <2> QED
    BY <2>1, <2>2
<1> QED
  BY <1>3, <1>4, <1>5, SeqEqual DEF d, f, w

LEMMA ShiftDigits ==
  ASSUME NEW v \in Number, NEW high \in Int, NEW n \in Nat,
         \A p \in high - n + 1..high : v[p] = 0
  PROVE  Digits(v, high, high - n + 1) = Zeros(n)
<1>1. high - (high - n + 1) + 1 = n /\ \A i \in 1..n : high + 1 - i \in high - n + 1..high
  OBVIOUS
<1>2. Digits(v, high, high - n + 1) = [i \in 1..n |-> v[high + 1 - i]]
  BY <1>1 DEF Digits
<1> QED
  BY <1>1, <1>2 DEF Zeros

-----------------------------------------------------------------------------
(* The places of the digits but zero say which number it is. *)
Shown(v) == {<<p, v[p]>> : p \in {q \in Int : v[q] # 0}}

LEMMA ShownAll == ASSUME NEW v \in Number, NEW w \in Number, Shown(v) = Shown(w) PROVE v = w
<1>1. ASSUME NEW p \in Int PROVE v[p] = w[p]
  <2>1. ASSUME NEW x \in Number, NEW y \in Number, Shown(x) = Shown(y), x[p] # 0 PROVE y[p] = x[p]
    <3>1. <<p, x[p]>> \in Shown(x)
      BY <2>1 DEF Shown
    <3>2. PICK q \in Int : <<p, x[p]>> = <<q, y[q]>>
      BY <2>1, <3>1 DEF Shown
    <3> QED
      BY <3>2
  <2>2. v[p] # 0 => w[p] = v[p]
    BY <2>1
  <2>3. w[p] # 0 => v[p] = w[p]
    BY <2>1
  <2> QED
    BY <2>2, <2>3
<1> QED
  BY <1>1 DEF Number

LEMMA ShownValue ==
  ASSUME NEW d \in Seq(0..9), NEW e \in Int
  PROVE  Shown(Value(d, e)) = {<<e + Len(d) - i, d[i]>> : i \in {j \in DOMAIN d : d[j] # 0}}
<1> DEFINE n == Len(d)
           v == Value(d, e)
           right == {<<e + n - i, d[i]>> : i \in {j \in 1..n : d[j] # 0}}
<1>1. n \in Nat /\ DOMAIN d = 1..n
  OBVIOUS
<1>2. \A p \in Int : v[p] = IF p \in e..e + n - 1 THEN d[e + n - p] ELSE 0
  BY DEF Value
<1> HIDE DEF n, v
<1>3. ASSUME NEW p \in Int, v[p] # 0 PROVE <<p, v[p]>> \in right
  <2>1. p \in e..e + n - 1 /\ v[p] = d[e + n - p]
    BY <1>2, <1>3
  <2> DEFINE i == e + n - p
  <2>2. i \in 1..n /\ e + n - i = p
    BY <1>1, <2>1
  <2>3. d[i] = v[p]
    BY <2>1
  <2> HIDE DEF i
  <2> QED
    BY <1>3, <2>2, <2>3
<1>4. ASSUME NEW i \in 1..n, d[i] # 0 PROVE <<e + n - i, d[i]>> \in Shown(v)
  <2> DEFINE p == e + n - i
  <2>1. p \in e..e + n - 1 /\ p \in Int /\ e + n - p = i
    BY <1>1
  <2> HIDE DEF p
  <2>2. v[p] = d[i]
    BY <1>2, <2>1
  <2>3. <<p, d[i]>> \in Shown(v)
    BY <1>4, <2>1, <2>2 DEF Shown
  <2> QED
    BY <2>3 DEF p
<1>5. Shown(v) \subseteq right
  BY <1>3 DEF Shown
<1>6. right \subseteq Shown(v)
  BY <1>4
<1>7. Shown(v) = right
  BY <1>5, <1>6
<1> QED
  BY <1>1, <1>7 DEF n, v
-----------------------------------------------------------------------------
LEMMA NthIn ==
  ASSUME NEW S, IsFiniteSet(S), S \subseteq Int, NEW n \in 1..Cardinality(S)
  PROVE  Nth(S, n) \in S /\ Place(S, Nth(S, n)) = n
<1> DEFINE m == Cardinality(S)
           f == [k \in S |-> Place(S, k)]
<1>1. m \in Nat /\ IsFiniteSet(1..m) /\ Cardinality(1..m) = m
  <2>1. m \in Nat
    BY FS_CardinalityType
  <2> HIDE DEF m
  <2> QED
    BY <2>1, FS_Interval
<1>2. f \in Injection(S, 1..m)
  <2>1. \A k \in S : Place(S, k) \in 1..m
    BY PlaceCounts
  <2>2. ASSUME NEW k \in S, NEW l \in S, f[k] = f[l] PROVE k = l
    <3>1. k <= l /\ l <= k
      BY <2>2, PlaceCounts
    <3>2. k \in Int /\ l \in Int
      OBVIOUS
    <3> QED
      BY <3>1, <3>2
  <2> QED
    BY <2>1, <2>2 DEF Injection, IsInjective
<1>3. f \in Surjection(S, 1..m)
  BY <1>1, <1>2, FS_Injection
<1>4. PICK i \in S : Place(S, i) = n
  <2>1. \A t \in 1..m : \E s \in S : f[s] = t
    BY <1>3 DEF Surjection
  <2>2. \E s \in S : f[s] = n
    BY <2>1
  <2> QED
    BY <2>2
<1> QED
  BY <1>4 DEF Nth

LEMMA Extremes ==
  ASSUME NEW S, IsFiniteSet(S), S \subseteq Int, S # {}
  PROVE  /\ Min(S) \in S /\ \A i \in S : Min(S) <= i
         /\ Max(S) \in S /\ \A i \in S : i <= Max(S)
<1>1. Cardinality(S) \in Nat /\ Cardinality(S) # 0
  BY FS_CardinalityType, FS_EmptySet
<1> DEFINE UpTo(i) == {j \in S : j <= i}
<1>2. \A i : UpTo(i) \in SUBSET S /\ Place(S, i) = Cardinality(UpTo(i))
  BY DEF Place
<1>3. \E i \in S : \A j \in S : i <= j
  <2> DEFINE one == 1
  <2>0. one \in 1..Cardinality(S)
    BY <1>1
  <2> HIDE DEF one
  <2>1. PICK i \in S : Place(S, i) = one
    BY <2>0, NthIn
  <2>2. IsFiniteSet(UpTo(i)) /\ Cardinality(UpTo(i)) = 1
    BY <1>2, <2>1, FS_Subset DEF one
  <2>3. PICK x : UpTo(i) = {x}
    <3> HIDE DEF UpTo
    <3> QED
      BY <2>2, FS_Singleton
  <2>4. \A j \in S : j <= i => j = i
    <3>1. i \in UpTo(i)
      OBVIOUS
    <3> QED
      BY <2>3, <3>1
  <2> QED
    BY <2>4
<1>4. \E i \in S : \A j \in S : j <= i
  <2>0. Cardinality(S) \in 1..Cardinality(S)
    BY <1>1
  <2>1. PICK i \in S : Place(S, i) = Cardinality(S)
    BY <2>0, NthIn
  <2>2. UpTo(i) = S
    <3> HIDE DEF UpTo
    <3> QED
      BY <1>2, <2>1, FS_Subset
  <2> QED
    BY <2>2
<1> QED
  BY <1>3, <1>4 DEF Min, Max

LEMMA MinOfTwo == ASSUME NEW a \in Int, NEW b \in Int PROVE Min({a, b}) = IF a <= b THEN a ELSE b
<1>1. \A x \in {a, b} : (\A y \in {a, b} : x <= y) <=> x = IF a <= b THEN a ELSE b
  OBVIOUS
<1> QED
  BY <1>1 DEF Min

LEMMA MaxOfTwo == ASSUME NEW a \in Int, NEW b \in Int PROVE Max({a, b}) = IF a >= b THEN a ELSE b
<1>1. \A x \in {a, b} : (\A y \in {a, b} : x >= y) <=> x = IF a >= b THEN a ELSE b
  OBVIOUS
<1> QED
  BY <1>1 DEF Max

LEMMA Selected ==
  ASSUME NEW d \in Seq(0..9), NEW i \in 1..Len(d), d[i] # 0
  PROVE  /\ (\A j \in 1..i - 1 : d[j] = 0) => SelectInSeq(d, LAMBDA x : x # 0) = i
         /\ (\A j \in i + 1..Len(d) : d[j] = 0) => SelectLastInSeq(d, LAMBDA x : x # 0) = i
<1> DEFINE I == {j \in 1..Len(d) : d[j] # 0}
<1>1. i \in I /\ I \subseteq Int /\ Len(d) \in Nat
  OBVIOUS
<1>2. /\ SelectInSeq(d, LAMBDA x : x # 0) = IF I # {} THEN Min(I) ELSE 0
      /\ SelectLastInSeq(d, LAMBDA x : x # 0) = IF I # {} THEN Max(I) ELSE 0
  BY DEF SelectInSeq, SelectLastInSeq
<1>3. ASSUME \A j \in 1..i - 1 : d[j] = 0 PROVE Min(I) = i
  <2>1. \A j \in I : i <= j
    BY <1>3
  <2>2. \A j \in I : (\A k \in I : j <= k) <=> j = i
    BY <1>1, <2>1
  <2> HIDE DEF I
  <2> QED
    BY <1>1, <2>2 DEF Min
<1>4. ASSUME \A j \in i + 1..Len(d) : d[j] = 0 PROVE Max(I) = i
  <2>1. \A j \in I : j <= i
    BY <1>4
  <2>2. \A j \in I : (\A k \in I : j >= k) <=> j = i
    BY <1>1, <2>1
  <2> HIDE DEF I
  <2> QED
    BY <1>1, <2>2 DEF Max
<1> QED
  BY <1>1, <1>2, <1>3, <1>4

LEMMA NoneSelected ==
  ASSUME NEW d \in Seq(0..9), \A j \in 1..Len(d) : d[j] = 0
  PROVE  SelectInSeq(d, LAMBDA x : x # 0) = 0 /\ SelectLastInSeq(d, LAMBDA x : x # 0) = 0
<1>1. {j \in 1..Len(d) : d[j] # 0} = {}
  OBVIOUS
<1> QED
  BY <1>1 DEF SelectInSeq, SelectLastInSeq

-----------------------------------------------------------------------------
(* The first and the last power at which a number has a digit but zero. *)
Ends(v, high, low) ==
  high \in Int /\ low \in Int /\ low <= high /\ v[high] # 0 /\ v[low] # 0 /\ Within(v, high, low)

LEMMA SameEnds ==
  ASSUME NEW v, NEW h, NEW l, NEW high, NEW low, Ends(v, h, l), Ends(v, high, low)
  PROVE  h = high /\ l = low
<1>1. h \in low..high /\ l \in low..high /\ high \in l..h /\ low \in l..h
  BY DEF Ends, Within
<1> QED
  BY <1>1 DEF Ends

(* How a number is written, by where it ends. *)
Written(negative, v, high, low) ==
  IF low >= 0
  THEN IF low <= PlainPlaces THEN Text(negative, Digits(v, high, 0), << >>, 0)
       ELSE Text(negative, Digits(v, high, low), << >>, low)
  ELSE IF high >= 0 THEN Text(negative, Digits(v, high, 0), Digits(v, 0 - 1, low), 0)
  ELSE IF -high <= PlainPlaces + 1 THEN Text(negative, <<0>>, Digits(v, 0 - 1, low), 0)
  ELSE Text(negative, Digits(v, high, low), << >>, low)

(* The number that a text is. *)
Meant(text) == Value(text.integer \o text.fraction, text.exponent - Len(text.fraction))

(* A text of the digits in a range that the number is within is that number. *)
LEMMA TextMeans ==
  ASSUME NEW v \in Number, NEW h \in Int, NEW l \in Int, h >= l - 1, Within(v, h, l),
         NEW text, text.integer \o text.fraction = Digits(v, h, l),
         text.exponent - Len(text.fraction) = l
  PROVE  Meant(text) = v
  BY ValueOfDigits DEF Meant

LEMMA WiderWithin ==
  ASSUME NEW v \in Number, NEW high, NEW low, Ends(v, high, low),
         NEW h \in Int, NEW l \in Int, high <= h, l <= low
  PROVE  Within(v, h, l) /\ h >= l - 1
<1>1. \A p \in Int : p \notin l..h => p \notin low..high
  BY DEF Ends
<1> QED
  BY <1>1 DEF Within, Ends

LEMMA WholeMeans ==
  ASSUME NEW negative, NEW v \in Number, NEW high, NEW low, Ends(v, high, low),
         NEW h \in Int, NEW l \in Int, high <= h, l <= low
  PROVE  Meant(Text(negative, Digits(v, h, l), << >>, l)) = v
<1> DEFINE text == Text(negative, Digits(v, h, l), << >>, l)
<1>1. Within(v, h, l) /\ h >= l - 1
  BY WiderWithin
<1>2. Digits(v, h, l) \in Seq(0..9)
  BY <1>1, DigitsType
<1>3. text.integer \o text.fraction = Digits(v, h, l) /\ text.exponent - Len(text.fraction) = l
  BY <1>2 DEF Text
<1> HIDE DEF text
<1> QED
  BY <1>1, <1>3, TextMeans DEF text

LEMMA SplitMeans ==
  ASSUME NEW negative, NEW v \in Number, NEW high, NEW low, Ends(v, high, low),
         NEW h \in Int, high <= h, 0 <= h, low < 0
  PROVE  Meant(Text(negative, Digits(v, h, 0), Digits(v, 0 - 1, low), 0)) = v
<1> DEFINE text == Text(negative, Digits(v, h, 0), Digits(v, 0 - 1, low), 0)
<1>1. low \in Int
  BY DEF Ends
<1>2. Within(v, h, low) /\ h >= low - 1
  BY <1>1, WiderWithin
<1>3. Digits(v, h, 0) \o Digits(v, 0 - 1, low) = Digits(v, h, low)
  BY <1>1, JoinDigits
<1>4. Len(Digits(v, 0 - 1, low)) = 0 - 1 - low + 1
  <2> DEFINE last == 0 - 1
  <2>1. last \in Int /\ last >= low - 1
    BY <1>1
  <2> HIDE DEF last
  <2>2. Len(Digits(v, last, low)) = last - low + 1
    BY <1>1, <2>1, DigitsType
  <2> QED
    BY <2>2 DEF last
<1>5. text.integer \o text.fraction = Digits(v, h, low) /\ text.exponent - Len(text.fraction) = low
  BY <1>1, <1>3, <1>4 DEF Text
<1> HIDE DEF text
<1> QED
  BY <1>1, <1>2, <1>5, TextMeans DEF text

LEMMA WrittenMeans ==
  ASSUME NEW negative, NEW v \in Number, NEW high, NEW low, Ends(v, high, low)
  PROVE  /\ Meant(Written(negative, v, high, low)) = v
         /\ Written(negative, v, high, low).negative = negative
<1>1. high \in Int /\ low \in Int /\ low <= high /\ Within(v, high, low)
  BY DEF Ends
<1> DEFINE zero == 0
<1>2. zero \in Int /\ PlainPlaces \in Int
  BY LiteralsAssumption
<1>3. Written(negative, v, high, low).negative = negative
  BY DEF Written, Text
<1>4. CASE low >= 0 /\ low <= PlainPlaces
  <2>1. Written(negative, v, high, low) = Text(negative, Digits(v, high, zero), << >>, zero)
    BY <1>1, <1>2, <1>4 DEF Written
  <2>2. zero <= low
    BY <1>4
  <2> HIDE DEF zero
  <2>3. Meant(Text(negative, Digits(v, high, zero), << >>, zero)) = v
    BY <1>1, <1>2, <2>2, WholeMeans
  <2> QED
    BY <1>3, <2>1, <2>3
<1>5. CASE (low >= 0 /\ ~(low <= PlainPlaces)) \/ (low < 0 /\ high < 0 /\ ~(-high <= PlainPlaces + 1))
  <2>1. Written(negative, v, high, low) = Text(negative, Digits(v, high, low), << >>, low)
    BY <1>1, <1>2, <1>5 DEF Written
  <2>2. Meant(Text(negative, Digits(v, high, low), << >>, low)) = v
    BY <1>1, WholeMeans
  <2> QED
    BY <1>3, <2>1, <2>2
<1>6. CASE low < 0 /\ high >= 0
  <2>1. Written(negative, v, high, low) = Text(negative, Digits(v, high, 0), Digits(v, 0 - 1, low), 0)
    BY <1>1, <1>6 DEF Written
  <2>2. Meant(Text(negative, Digits(v, high, 0), Digits(v, 0 - 1, low), 0)) = v
    BY <1>1, <1>6, SplitMeans
  <2> QED
    BY <1>3, <2>1, <2>2
<1>7. CASE low < 0 /\ high < 0 /\ -high <= PlainPlaces + 1
  <2>1. Written(negative, v, high, low) = Text(negative, <<0>>, Digits(v, 0 - 1, low), 0)
    BY <1>1, <1>2, <1>7 DEF Written
  <2>2. Digits(v, zero, zero) = <<0>>
    <3>1. v[zero] = 0
      BY <1>1, <1>7 DEF Within
    <3>2. 1..zero - zero + 1 = {1} /\ \A i \in {1} : zero + 1 - i = zero
      OBVIOUS
    <3> HIDE DEF zero
    <3>3. Digits(v, zero, zero) = [i \in {1} |-> 0]
      BY <3>1, <3>2 DEF Digits
    <3> QED
      BY <3>3
  <2>3. high <= zero /\ 0 <= zero
    BY <1>1, <1>7
  <2> HIDE DEF zero
  <2>4. Meant(Text(negative, Digits(v, zero, 0), Digits(v, 0 - 1, low), 0)) = v
    BY <1>1, <1>2, <1>7, <2>3, SplitMeans
  <2> QED
    BY <1>3, <2>1, <2>2, <2>4 DEF zero
<1> QED
  BY <1>1, <1>2, <1>4, <1>5, <1>6, <1>7
-----------------------------------------------------------------------------
LEMMA TrimmedLeft ==
  ASSUME NEW d \in Seq(0..9), NEW e \in Int, NEW i \in 1..Len(d), d[i] # 0
  PROVE  \E high, low : /\ Ends(Value(d, e), high, low)
                        /\ high <= e + Len(d) - 1 /\ e <= low
                        /\ TrimLeft(d) = Digits(Value(d, e), high, e)
<1> DEFINE n == Len(d)
           v == Value(d, e)
           I == {j \in 1..n : d[j] # 0}
           first == Min(I)
           last  == Max(I)
           high  == e + n - first
           low   == e + n - last
<1>1. n \in Nat /\ v \in Number /\ \A p \in Int : v[p] = IF p \in e..e + n - 1 THEN d[e + n - p] ELSE 0
  <2>1. n \in Nat
    OBVIOUS
  <2>2. v \in Number
    BY ValueType
  <2>3. \A p \in Int : v[p] = IF p \in e..e + n - 1 THEN d[e + n - p] ELSE 0
    BY DEF Value
  <2> QED
    BY <2>1, <2>2, <2>3
<1>2. IsFiniteSet(I) /\ I \subseteq Int /\ I # {}
  <2>1. IsFiniteSet(1..n)
    <3> HIDE DEF n
    <3> QED
      BY <1>1, FS_Interval
  <2>2. I \in SUBSET (1..n)
    OBVIOUS
  <2> HIDE DEF I
  <2>3. IsFiniteSet(I)
    BY <2>1, <2>2, FS_Subset
  <2> QED
    BY <2>2, <2>3 DEF I
<1>3. first \in I /\ last \in I /\ \A j \in I : first <= j /\ j <= last
  <2> HIDE DEF I
  <2> QED
    BY <1>2, Extremes
<1> HIDE DEF first, last, v
<1>4. /\ first \in 1..n /\ last \in 1..n /\ first <= last /\ d[first] # 0 /\ d[last] # 0
      /\ \A j \in 1..n : j < first \/ last < j => d[j] = 0
  BY <1>3
<1>5. TrimLeft(d) = SubSeq(d, first, n)
  <2>1. SelectInSeq(d, LAMBDA x : x # 0) = first
    BY <1>4, Selected
  <2> QED
    BY <1>4, <2>1 DEF TrimLeft
<1>6. SubSeq(d, first, n) = Digits(v, high, e)
  <2> DEFINE top == e + n - 1
  <2>1. /\ top \in Int /\ high \in Int /\ high <= top /\ e <= e /\ high >= e - 1
        /\ first \in Int /\ n \in Int /\ first = top - high + 1 /\ n = top - e + 1
    BY <1>1, <1>4
  <2>2. d = Digits(v, top, e)
    BY DigitsOfValue DEF v
  <2> HIDE DEF top, high, n
  <2>3. SubSeq(Digits(v, top, e), first, n) = Digits(v, high, e)
    BY <1>1, <2>1, SubDigits
  <2> QED
    BY <2>2, <2>3
<1>7. Ends(v, high, low)
  <2>1. /\ high \in e..e + n - 1 /\ low \in e..e + n - 1 /\ low <= high
        /\ e + n - high = first /\ e + n - low = last
    BY <1>1, <1>4
  <2>2. ASSUME NEW p \in Int, p \notin low..high PROVE v[p] = 0
    <3>1. p \in e..e + n - 1 => e + n - p \in 1..n /\ (e + n - p < first \/ last < e + n - p)
      BY <1>1, <1>4, <2>2
    <3> QED
      BY <1>1, <1>4, <3>1
  <2> HIDE DEF high, low
  <2>3. v[high] # 0 /\ v[low] # 0
    <3>1. high \in Int /\ low \in Int
      BY <1>1, <2>1
    <3>2. v[high] = d[e + n - high] /\ v[low] = d[e + n - low]
      BY <1>1, <2>1, <3>1
    <3> QED
      BY <1>4, <2>1, <3>2
  <2> QED
    BY <2>1, <2>2, <2>3 DEF Ends, Within
<1>8. high <= e + n - 1 /\ e <= low
  BY <1>1, <1>4
<1> QED
  BY <1>5, <1>6, <1>7, <1>8 DEF v

LEMMA ZerosAtTheEnd ==
  ASSUME NEW v \in Number, NEW high, NEW low, Ends(v, high, low), NEW e \in Int, e <= low
  PROVE  TrailingZeros(Digits(v, high, e)) = low - e
<1> DEFINE d == Digits(v, high, e)
           n == high - e + 1
           i == high + 1 - low
<1>1. high \in Int /\ low \in Int /\ low <= high /\ v[low] # 0 /\ Within(v, high, low)
  BY DEF Ends
<1>2. d \in Seq(0..9) /\ Len(d) = n /\ \A j \in 1..n : d[j] = v[high + 1 - j]
  BY <1>1, DigitsType
<1>3. n \in Nat /\ i \in 1..n /\ high + 1 - i = low /\ n - i = low - e
  BY <1>1
<1>4. \A j \in i + 1..n : j \in 1..n /\ high + 1 - j \in Int /\ high + 1 - j \notin low..high
  BY <1>1
<1> HIDE DEF d, n, i
<1>5. d[i] # 0 /\ \A j \in i + 1..n : d[j] = 0
  BY <1>1, <1>2, <1>3, <1>4 DEF Within
<1>6. SelectLastInSeq(d, LAMBDA x : x # 0) = i
  BY <1>2, <1>3, <1>5, Selected
<1> QED
  BY <1>2, <1>3, <1>6 DEF TrailingZeros, d

LEMMA ScientificWritten ==
  ASSUME NEW negative, NEW v \in Number, NEW high, NEW low, Ends(v, high, low), NEW e \in Int, e <= low
  PROVE  Scientific(negative, Digits(v, high, e), e) = Text(negative, Digits(v, high, low), << >>, low)
<1> DEFINE d == Digits(v, high, e)
           one == 1
           b == Len(d) - (low - e)
<1>1. high \in Int /\ low \in Int /\ low <= high
  BY DEF Ends
<1>2. Len(d) = high - e + 1
  BY <1>1, DigitsType
<1>3. TrailingZeros(d) = low - e
  BY ZerosAtTheEnd
<1> HIDE DEF d
<1>4. /\ one \in Int /\ b \in Int /\ one = high - high + 1 /\ b = high - low + 1
      /\ high <= high /\ high >= low - 1 /\ e + (low - e) = low
  BY <1>1, <1>2
<1>5. Scientific(negative, d, e) = Text(negative, SubSeq(d, one, b), << >>, low)
  BY <1>3, <1>4 DEF Scientific
<1> HIDE DEF one, b
<1>6. SubSeq(Digits(v, high, e), one, b) = Digits(v, high, low)
  BY <1>1, <1>4, SubDigits
<1> QED
  BY <1>5, <1>6 DEF d

LEMMA CanonicalWritten ==
  ASSUME NEW negative, NEW v \in Number, NEW high, NEW low, Ends(v, high, low),
         NEW e \in Int, e <= low, e < 0 => e = low, high - e <= PlainPlaces
  PROVE  CanonicalNumber(negative, Digits(v, high, e), e) = Written(negative, v, high, low)
<1> DEFINE d == Digits(v, high, e)
           n == high - e + 1
<1>1. /\ high \in Int /\ low \in Int /\ low <= high /\ PlainPlaces \in Nat
      /\ \A p \in Int : p < low \/ high < p => v[p] = 0
  BY LiteralsAssumption DEF Ends, Within
<1>2. d \in Seq(0..9) /\ Len(d) = n /\ n \in Nat \ {0} /\ d # << >>
  <2>1. d \in Seq(0..9) /\ Len(d) = n
    BY <1>1, DigitsType
  <2> HIDE DEF d
  <2> QED
    BY <1>1, <2>1
<1>3. TrailingZeros(d) = low - e
  BY ZerosAtTheEnd
<1>4. Scientific(negative, d, e) = Text(negative, Digits(v, high, low), << >>, low)
  BY ScientificWritten
<1> HIDE DEF d
<1>5. CASE e >= 0 /\ low <= PlainPlaces
  <2>1. CanonicalNumber(negative, d, e) = Text(negative, d \o Zeros(e), << >>, 0)
    BY <1>1, <1>2, <1>3, <1>5 DEF CanonicalNumber, PadsPlainly
  <2>2. Zeros(e) = Digits(v, e - 1, 0)
    <3> DEFINE top == e - 1
    <3>1. top \in Int /\ top - e + 1 = 0 /\ e \in Nat /\ \A p \in top - e + 1..top : v[p] = 0
      BY <1>1, <1>5
    <3> HIDE DEF top
    <3>2. Digits(v, top, top - e + 1) = Zeros(e)
      BY <3>1, ShiftDigits
    <3> QED
      BY <3>1, <3>2 DEF top
  <2>3. Digits(v, high, e) \o Digits(v, e - 1, 0) = Digits(v, high, 0)
    <3> DEFINE zero == 0
    <3>1. zero \in Int /\ high >= e - 1 /\ e >= zero
      BY <1>1, <1>5
    <3> HIDE DEF zero
    <3>2. Digits(v, high, e) \o Digits(v, e - 1, zero) = Digits(v, high, zero)
      BY <1>1, <3>1, JoinDigits
    <3> QED
      BY <3>2 DEF zero
  <2>4. Written(negative, v, high, low) = Text(negative, Digits(v, high, 0), << >>, 0)
    BY <1>1, <1>5 DEF Written
  <2> QED
    BY <2>1, <2>2, <2>3, <2>4 DEF d
<1>6. CASE e >= 0 /\ ~(low <= PlainPlaces)
  <2>1. CanonicalNumber(negative, d, e) = Scientific(negative, d, e)
    BY <1>1, <1>2, <1>3, <1>6 DEF CanonicalNumber, PadsPlainly
  <2>2. Written(negative, v, high, low) = Text(negative, Digits(v, high, low), << >>, low)
    BY <1>1, <1>6 DEF Written
  <2> QED
    BY <1>4, <2>1, <2>2 DEF d
<1>7. CASE e < 0 /\ high >= 0
  <2> DEFINE one == 1
             zero == 0
             last == 0 - 1
             cut == n - (-e)
             next == n - (-e) + 1
  <2>1. CanonicalNumber(negative, d, e) = Text(negative, SubSeq(d, one, cut), SubSeq(d, next, n), 0)
    BY <1>1, <1>2, <1>7 DEF CanonicalNumber
  <2>2. /\ one \in Int /\ cut \in Int /\ one = high - high + 1 /\ cut = high - zero + 1
        /\ next \in Int /\ n \in Int /\ next = high - last + 1 /\ n = high - e + 1
        /\ zero \in Int /\ high <= high /\ e <= zero /\ high >= zero - 1
        /\ last \in Int /\ last <= high /\ e <= e /\ last >= e - 1
    BY <1>1, <1>7
  <2> HIDE DEF one, cut, next, n, zero, last
  <2>3. SubSeq(Digits(v, high, e), one, cut) = Digits(v, high, zero)
    BY <1>1, <2>2, SubDigits
  <2>4. SubSeq(Digits(v, high, e), next, n) = Digits(v, last, e)
    BY <1>1, <2>2, SubDigits
  <2>5. Written(negative, v, high, low) = Text(negative, Digits(v, high, zero), Digits(v, last, e), 0)
    BY <1>1, <1>7 DEF Written, zero, last
  <2> QED
    BY <2>1, <2>3, <2>4, <2>5 DEF d
<1>8. CASE e < 0 /\ high < 0 /\ -high <= PlainPlaces + 1
  <2> DEFINE m == 0 - 1 - high
             top == 0 - 1
             next == high + 1
  <2>1. CanonicalNumber(negative, d, e) = Text(negative, <<0>>, Zeros(m) \o d, 0)
    <3>1. -e - n = m
      BY <1>1
    <3> HIDE DEF m
    <3> QED
      BY <1>1, <1>2, <1>8, <3>1 DEF CanonicalNumber
  <2>2. /\ m \in Nat /\ top \in Int /\ top - m + 1 = next /\ next - 1 = high
        /\ next \in Int /\ top >= next - 1 /\ next >= e
        /\ \A p \in top - m + 1..top : v[p] = 0
    BY <1>1, <1>8
  <2>3. Written(negative, v, high, low) = Text(negative, <<0>>, Digits(v, top, e), 0)
    BY <1>1, <1>8 DEF Written
  <2> HIDE DEF m, top, next
  <2>4. Digits(v, top, top - m + 1) = Zeros(m)
    BY <2>2, ShiftDigits
  <2>5. Digits(v, top, next) \o Digits(v, next - 1, e) = Digits(v, top, e)
    BY <2>2, JoinDigits
  <2> QED
    BY <2>1, <2>2, <2>3, <2>4, <2>5 DEF d
<1>9. CASE e < 0 /\ high < 0 /\ ~(-high <= PlainPlaces + 1)
  <2>1. CanonicalNumber(negative, d, e) = Scientific(negative, d, e)
    BY <1>1, <1>2, <1>9 DEF CanonicalNumber
  <2>2. Written(negative, v, high, low) = Text(negative, Digits(v, high, low), << >>, low)
    BY <1>1, <1>9 DEF Written
  <2> QED
    BY <1>4, <2>1, <2>2 DEF d
<1> QED
  BY <1>1, <1>5, <1>6, <1>7, <1>8, <1>9 DEF d
-----------------------------------------------------------------------------
(* The number that a literal is. *)
ValueOf(literal) == Value(literal.integer \o literal.fraction, literal.exponent - Len(literal.fraction))

Zero == Text(FALSE, <<0>>, << >>, 0)

LEMMA LiteralType ==
  ASSUME NEW l \in Literals
  PROVE  /\ l.negative \in BOOLEAN
         /\ l.integer \o l.fraction \in Seq(0..9)
         /\ Len(l.integer \o l.fraction) <= PlainPlaces + 1
         /\ l.exponent - Len(l.fraction) \in Int
         /\ PlainPlaces \in Nat
<1>1. /\ l.negative \in BOOLEAN /\ l.exponent \in Int /\ PlainPlaces \in Nat
      /\ l.integer \in Seq(0..9) /\ l.fraction \in Seq(0..9)
  BY LiteralsAssumption
<1>2. Len(l.integer) + Len(l.fraction) <= PlainPlaces + 1
  BY LiteralsFit
<1>3. ASSUME NEW d \in Seq(0..9), NEW f \in Seq(0..9), Len(d) + Len(f) <= PlainPlaces + 1, NEW e \in Int
      PROVE  d \o f \in Seq(0..9) /\ Len(d \o f) <= PlainPlaces + 1 /\ e - Len(f) \in Int
  BY <1>3
<1> QED
  BY <1>1, <1>2, <1>3

LEMMA NumberShown ==
  ASSUME NEW l \in Literals
  PROVE  /\ ValueOf(l) \in Number
         /\ NumberOf(l).places = Shown(ValueOf(l))
         /\ NumberOf(l).negative = (l.negative /\ Shown(ValueOf(l)) # {})
         /\ NumberOf(l) = [negative |-> NumberOf(l).negative, places |-> NumberOf(l).places]
<1> DEFINE d == l.integer \o l.fraction
           e == l.exponent - Len(l.fraction)
<1>1. d \in Seq(0..9) /\ e \in Int
  BY LiteralType
<1>2. NumberOf(l).places = {<<e + Len(d) - i, d[i]>> : i \in {j \in DOMAIN d : d[j] # 0}}
  BY DEF NumberOf
<1>3. NumberOf(l).negative = (l.negative /\ NumberOf(l).places # {})
  BY DEF NumberOf
<1>4. NumberOf(l) = [negative |-> NumberOf(l).negative, places |-> NumberOf(l).places]
  BY DEF NumberOf
<1>5. ValueOf(l) = Value(d, e)
  BY DEF ValueOf
<1> HIDE DEF d, e
<1>6. Value(d, e) \in Number
  BY <1>1, ValueType
<1>7. Shown(Value(d, e)) = {<<e + Len(d) - i, d[i]>> : i \in {j \in DOMAIN d : d[j] # 0}}
  BY <1>1, ShownValue
<1> QED
  BY <1>2, <1>3, <1>4, <1>5, <1>6, <1>7

(* A literal is written as a zero or by where its number ends. *)
LEMMA LiteralWritten ==
  ASSUME NEW l \in Literals
  PROVE  \/ Shown(ValueOf(l)) = {} /\ CanonicalJSONNumber(l) = Zero
         \/ \E high, low : /\ Ends(ValueOf(l), high, low)
                           /\ CanonicalJSONNumber(l) = Written(l.negative, ValueOf(l), high, low)
<1> DEFINE d      == l.integer \o l.fraction
           e      == l.exponent - Len(l.fraction)
           digits == TrimLeft(d)
           zeros  == TrailingZeros(digits)
           most   == Max({0, -e})
           shed   == Min({zeros, most})
<1>1. d \in Seq(0..9) /\ Len(d) <= PlainPlaces + 1 /\ e \in Int /\ PlainPlaces \in Nat
  BY LiteralType
<1>2. CanonicalJSONNumber(l) = CanonicalNumber(l.negative, SubSeq(digits, 1, Len(digits) - shed), e + shed)
  BY DEF CanonicalJSONNumber
<1>3. ValueOf(l) = Value(d, e)
  BY DEF ValueOf
<1> HIDE DEF d, e
<1>4. most \in Nat /\ most >= -e
  <2> DEFINE zero == 0
             minus == -e
  <2>1. zero \in Int /\ minus \in Int
    BY <1>1
  <2> HIDE DEF zero, minus
  <2>2. Max({zero, minus}) = IF zero >= minus THEN zero ELSE minus
    BY <2>1, MaxOfTwo
  <2>3. most = IF zero >= minus THEN zero ELSE minus
    BY <2>2 DEF zero, minus
  <2> QED
    BY <1>1, <2>3 DEF zero, minus
<1> HIDE DEF most
<1>5. ASSUME zeros \in Int PROVE shed = IF zeros <= most THEN zeros ELSE most
  <2> HIDE DEF zeros
  <2>1. zeros \in Int /\ most \in Int
    BY <1>4, <1>5
  <2> QED
    BY <2>1, MinOfTwo
<1>6. CASE \A i \in 1..Len(d) : d[i] = 0
  <2>1. digits = << >>
    <3>1. SelectInSeq(d, LAMBDA x : x # 0) = 0
      BY <1>1, <1>6, NoneSelected
    <3> QED
      BY <3>1 DEF TrimLeft
  <2>2. zeros = 0
    <3>1. << >> \in Seq(0..9) /\ Len(<< >>) = 0 /\ \A i \in 1..Len(<< >>) : << >>[i] = 0
      OBVIOUS
    <3>2. SelectLastInSeq(<< >>, LAMBDA x : x # 0) = 0
      BY <3>1, NoneSelected
    <3> QED
      BY <2>1, <3>2 DEF TrailingZeros
  <2>3. shed = 0
    BY <1>4, <1>5, <2>2
  <2>4. SubSeq(digits, 1, Len(digits) - shed) = << >>
    <3> HIDE DEF digits, shed
    <3> QED
      BY <2>1, <2>3
  <2>5. CanonicalJSONNumber(l) = Zero
    BY <1>2, <2>4 DEF CanonicalNumber, Zero
  <2>6. Shown(ValueOf(l)) = {}
    <3>1. Shown(Value(d, e)) = {<<e + Len(d) - i, d[i]>> : i \in {j \in DOMAIN d : d[j] # 0}}
      BY <1>1, ShownValue
    <3>2. {j \in DOMAIN d : d[j] # 0} = {}
      BY <1>1, <1>6
    <3> QED
      BY <1>3, <3>1, <3>2
  <2> QED
    BY <2>5, <2>6
<1>7. CASE \E i \in 1..Len(d) : d[i] # 0
  <2> DEFINE v == ValueOf(l)
  <2>1. PICK high, low : /\ Ends(v, high, low) /\ high <= e + Len(d) - 1 /\ e <= low
                         /\ digits = Digits(v, high, e)
    <3> HIDE DEF digits
    <3> QED
      BY <1>1, <1>3, <1>7, TrimmedLeft DEF digits
  <2>2. v \in Number /\ high \in Int /\ low \in Int /\ low <= high
    BY <2>1, NumberShown DEF Ends
  <2>3. zeros = low - e
    BY <1>1, <2>1, <2>2, ZerosAtTheEnd
  <2>4. Len(digits) = high - e + 1
    BY <1>1, <2>1, <2>2, DigitsType
  <2>5. shed = IF zeros <= most THEN zeros ELSE most
    BY <1>1, <1>5, <2>2, <2>3
  <2> DEFINE one  == 1
             b    == Len(digits) - shed
             left == e + shed
  <2> HIDE DEF zeros, shed, digits, v
  <2>6. /\ left \in Int /\ left <= low /\ (left < 0 => left = low) /\ high - left <= PlainPlaces
        /\ one \in Int /\ b \in Int /\ one = high - high + 1 /\ b = high - left + 1
        /\ high <= high /\ e <= left /\ high >= left - 1
    <3>1. Len(d) \in Nat
      BY <1>1
    <3>2. e <= low
      BY <2>1
    <3>3. high <= e + Len(d) - 1
      BY <2>1
    <3>4. zeros \in Nat /\ shed \in Nat /\ shed <= zeros /\ e + zeros = low
      BY <1>1, <1>4, <2>2, <2>3, <2>5, <3>2
    <3>5. left < 0 => left = low
      BY <1>1, <1>4, <2>2, <2>3, <2>5, <3>4
    <3> QED
      BY <1>1, <2>2, <2>4, <3>1, <3>3, <3>4, <3>5
  <2>7. CanonicalJSONNumber(l) = CanonicalNumber(l.negative, SubSeq(digits, one, b), left)
    BY <1>2 DEF digits, shed, zeros
  <2> HIDE DEF one, b, left
  <2>8. SubSeq(Digits(v, high, e), one, b) = Digits(v, high, left)
    <3>1. v \in Number /\ high \in Int /\ e \in Int /\ left \in Int /\ one \in Int /\ b \in Int
      BY <1>1, <2>2, <2>6
    <3>2. high <= high /\ e <= left /\ high >= left - 1 /\ one = high - high + 1 /\ b = high - left + 1
      BY <2>6
    <3> QED
      BY ONLY <3>1, <3>2, SubDigits
  <2>9. CanonicalNumber(l.negative, Digits(v, high, left), left) = Written(l.negative, v, high, low)
    BY <2>1, <2>2, <2>6, CanonicalWritten
  <2> QED
    BY <2>1, <2>7, <2>8, <2>9 DEF v
<1> QED
  BY <1>6, <1>7

(* Two literals are written alike exactly if they are one number: what     *)
(* canonicalJSONNumber makes of a number keeps what it is and forgets how  *)
(* it was spelled.                                                         *)
THEOREM NumbersToldApart ==
  ASSUME NEW l \in Literals, NEW m \in Literals
  PROVE  CanonicalJSONNumber(l) = CanonicalJSONNumber(m) <=> NumberOf(l) = NumberOf(m)
<1> DEFINE v == ValueOf(l)
           w == ValueOf(m)
           IsZero(k) == Shown(ValueOf(k)) = {} /\ CanonicalJSONNumber(k) = Zero
           IsWritten(k) == \E high, low : /\ Ends(ValueOf(k), high, low)
                                          /\ CanonicalJSONNumber(k) = Written(k.negative, ValueOf(k), high, low)
<1>1. v \in Number /\ w \in Number /\ l.negative \in BOOLEAN /\ m.negative \in BOOLEAN
  BY LiteralType, NumberShown
<1>2. ASSUME NEW k \in Literals PROVE IsZero(k) \/ IsWritten(k)
  BY LiteralWritten
<1>3. ASSUME NEW k \in Literals, IsWritten(k)
      PROVE  /\ Shown(ValueOf(k)) # {} /\ CanonicalJSONNumber(k) # Zero
             /\ Meant(CanonicalJSONNumber(k)) = ValueOf(k) /\ CanonicalJSONNumber(k).negative = k.negative
  <2>1. PICK high, low : /\ Ends(ValueOf(k), high, low)
                         /\ CanonicalJSONNumber(k) = Written(k.negative, ValueOf(k), high, low)
    BY <1>3
  <2>2. ValueOf(k) \in Number /\ high \in Int /\ ValueOf(k)[high] # 0
    BY <2>1, NumberShown DEF Ends
  <2>3. Meant(CanonicalJSONNumber(k)) = ValueOf(k) /\ CanonicalJSONNumber(k).negative = k.negative
    BY <2>1, <2>2, WrittenMeans
  <2>4. Shown(ValueOf(k)) # {}
    BY <2>2 DEF Shown
  <2>5. Meant(Zero)[high] = 0
    <3> DEFINE zero == 0
    <3>1. zero \in Int /\ <<0>> \in Seq(0..9) /\ Len(<<0>>) = 1 /\ <<0>>[1] = 0
          /\ Zero.integer \o Zero.fraction = <<0>> /\ Zero.exponent - Len(Zero.fraction) = zero
      BY DEF Zero, Text
    <3> HIDE DEF zero
    <3>2. Meant(Zero) = Value(<<0>>, zero)
      BY <3>1 DEF Meant
    <3>3. Value(<<0>>, zero)[high] = IF high \in zero..zero + 1 - 1 THEN <<0>>[zero + 1 - high] ELSE 0
      BY <2>2, <3>1 DEF Value
    <3>4. high \in zero..zero + 1 - 1 => zero + 1 - high = 1
      BY <2>2, <3>1
    <3> QED
      BY <3>1, <3>2, <3>3, <3>4
  <2> QED
    BY <2>2, <2>3, <2>4, <2>5
<1>4. ASSUME IsZero(l), IsZero(m) PROVE CanonicalJSONNumber(l) = CanonicalJSONNumber(m) /\ NumberOf(l) = NumberOf(m)
  BY <1>4, NumberShown
<1>5. ASSUME NEW j \in Literals, NEW k \in Literals, IsZero(j), IsWritten(k)
      PROVE  CanonicalJSONNumber(j) # CanonicalJSONNumber(k) /\ NumberOf(j) # NumberOf(k)
  <2>1. CanonicalJSONNumber(j) # CanonicalJSONNumber(k) /\ Shown(ValueOf(j)) # Shown(ValueOf(k))
    BY <1>3, <1>5
  <2> QED
    BY <2>1, NumberShown
<1>6. ASSUME IsWritten(l), IsWritten(m), CanonicalJSONNumber(l) = CanonicalJSONNumber(m)
      PROVE  NumberOf(l) = NumberOf(m)
  <2>1. v = w /\ l.negative = m.negative
    BY <1>3, <1>6
  <2> QED
    BY <2>1, NumberShown
<1>7. ASSUME IsWritten(l), IsWritten(m), NumberOf(l) = NumberOf(m)
      PROVE  CanonicalJSONNumber(l) = CanonicalJSONNumber(m)
  <2>1. Shown(v) = Shown(w) /\ Shown(v) # {}
    BY <1>3, <1>7, NumberShown
  <2>2. v = w
    BY <1>1, <2>1, ShownAll
  <2>3. l.negative = m.negative
    BY <1>1, <1>7, <2>1, NumberShown
  <2>4. PICK h, n : Ends(v, h, n) /\ CanonicalJSONNumber(l) = Written(l.negative, v, h, n)
    BY <1>7
  <2>5. PICK high, low : Ends(w, high, low) /\ CanonicalJSONNumber(m) = Written(m.negative, w, high, low)
    BY <1>7
  <2>6. h = high /\ n = low
    BY <2>2, <2>4, <2>5, SameEnds
  <2> QED
    BY <2>2, <2>3, <2>4, <2>5, <2>6
<1> HIDE DEF IsZero, IsWritten
<1> QED
  BY <1>2, <1>4, <1>5, <1>6, <1>7
-----------------------------------------------------------------------------
(* If two functions tell the same members of a finite set apart, they have *)
(* as many values as pairs of values.                                      *)
AsMany(S, f, g) ==
  /\ Cardinality({f[x] : x \in S}) = Cardinality({<<f[x], g[x]>> : x \in S})
  /\ Cardinality({g[x] : x \in S}) = Cardinality({<<f[x], g[x]>> : x \in S})

LEMMA AsManyValues ==
  ASSUME NEW S, IsFiniteSet(S), NEW f, NEW g, \A x, y \in S : f[x] = f[y] <=> g[x] = g[y]
  PROVE  AsMany(S, f, g)
<1> DEFINE P == {<<f[x], g[x]>> : x \in S}
           A == {f[x] : x \in S}
           B == {g[x] : x \in S}
           h == [x \in S |-> <<f[x], g[x]>>]
           a == [p \in P |-> p[1]]
           b == [p \in P |-> p[2]]
<1>1. IsFiniteSet(P)
  <2>1. h \in Surjection(S, P)
    BY DEF Surjection
  <2> QED
    BY <2>1, FS_Surjection DEF ExistsSurjection
<1>2. \A p \in P : \E x \in S : p = <<f[x], g[x]>>
  OBVIOUS
<1>3. \A p, q \in P : (p[1] = q[1] => p = q) /\ (p[2] = q[2] => p = q)
  BY <1>2
<1>4. a \in Bijection(P, A)
  <2>1. a \in [P -> A]
    BY <1>2
  <2>2. \A p, q \in P : a[p] = a[q] => p = q
    BY <1>3
  <2>3. \A y \in A : \E p \in P : a[p] = y
    <3> TAKE y \in A
    <3>1. PICK x \in S : y = f[x]
      OBVIOUS
    <3>2. <<f[x], g[x]>> \in P /\ a[<<f[x], g[x]>>] = y
      BY <3>1
    <3> QED
      BY <3>2
  <2> HIDE DEF a, A, P
  <2> QED
    BY <2>1, <2>2, <2>3 DEF Bijection, Injection, IsInjective, Surjection
<1>5. b \in Bijection(P, B)
  <2>1. b \in [P -> B]
    BY <1>2
  <2>2. \A p, q \in P : b[p] = b[q] => p = q
    BY <1>3
  <2>3. \A y \in B : \E p \in P : b[p] = y
    <3> TAKE y \in B
    <3>1. PICK x \in S : y = g[x]
      OBVIOUS
    <3>2. <<f[x], g[x]>> \in P /\ b[<<f[x], g[x]>>] = y
      BY <3>1
    <3> QED
      BY <3>2
  <2> HIDE DEF b, B, P
  <2> QED
    BY <2>1, <2>2, <2>3 DEF Bijection, Injection, IsInjective, Surjection
<1> HIDE DEF P, A, B, a, b
<1>6. Cardinality(A) = Cardinality(P) /\ Cardinality(B) = Cardinality(P)
  BY <1>1, <1>4, <1>5, FS_Bijection DEF ExistsBijection
<1> QED
  BY <1>6 DEF P, A, B, AsMany

-----------------------------------------------------------------------------
(* Variables as they can be decoded: of names that there are, and numbers  *)
(* that a caller writes.                                                   *)
AreDecoded(fields) ==
  /\ DOMAIN fields \subseteq Range(VarNames)
  /\ \A name \in DOMAIN fields : fields[name][1] = "number" => fields[name][2] \in Literals

Meaning(value) == IF value[1] = "number" THEN <<"number", NumberOf(value[2])>> ELSE value

LEMMA ValuesToldApart ==
  ASSUME NEW x, NEW y, x[1] = "number" => x[2] \in Literals, y[1] = "number" => y[2] \in Literals
  PROVE  CanonicalValue(x) = CanonicalValue(y) <=> Meaning(x) = Meaning(y)
<1>1. CASE x[1] = "number" /\ y[1] = "number"
  <2>1. CanonicalJSONNumber(x[2]) = CanonicalJSONNumber(y[2]) <=> NumberOf(x[2]) = NumberOf(y[2])
    BY <1>1, NumbersToldApart
  <2> QED
    BY <1>1, <2>1 DEF CanonicalValue, Meaning
<1>2. CASE ~(x[1] = "number" /\ y[1] = "number")
  BY <1>2 DEF CanonicalValue, Meaning
<1> QED
  BY <1>1, <1>2

(* The canonical variables list the names that are set, and only those. *)
LEMMA NamesListed ==
  ASSUME NEW f, DOMAIN f \subseteq Range(VarNames)
  PROVE  /\ \A name \in DOMAIN f : \E n \in DOMAIN CanonicalVars(f) :
              CanonicalVars(f)[n] = <<name, CanonicalValue(f[name])>>
         /\ \A n \in DOMAIN CanonicalVars(f) : \E name \in DOMAIN f :
              CanonicalVars(f)[n] = <<name, CanonicalValue(f[name])>>
<1> DEFINE named == {i \in DOMAIN VarNames : VarNames[i] \in DOMAIN f}
           Name(n) == VarNames[Nth(named, n)]
<1>1. IsFiniteSet(named) /\ named \subseteq Int
  <2>1. DOMAIN VarNames = 1..Len(VarNames) /\ Len(VarNames) \in Nat
    BY ObjectsAssumption
  <2>2. IsFiniteSet(1..Len(VarNames))
    <3> DEFINE m == Len(VarNames)
    <3>1. m \in Nat
      BY <2>1
    <3> HIDE DEF m
    <3>2. IsFiniteSet(1..m)
      BY <3>1, FS_Interval
    <3> QED
      BY <3>2 DEF m
  <2>3. named \in SUBSET (1..Len(VarNames))
    BY <2>1
  <2>4. \A i \in 1..Len(VarNames) : i \in Int
    OBVIOUS
  <2> HIDE DEF named
  <2> QED
    BY <2>2, <2>3, <2>4, FS_Subset
<1>2. CanonicalVars(f) = [n \in 1..Cardinality(named) |-> <<Name(n), CanonicalValue(f[Name(n)])>>]
  BY DEF CanonicalVars
<1>3. ASSUME NEW name \in DOMAIN f
      PROVE  \E n \in DOMAIN CanonicalVars(f) : CanonicalVars(f)[n] = <<name, CanonicalValue(f[name])>>
  <2>1. PICK i \in DOMAIN VarNames : VarNames[i] = name
    BY DEF Range
  <2>2. i \in named
    BY <2>1
  <2> HIDE DEF named
  <2>3. Place(named, i) \in 1..Cardinality(named) /\ Nth(named, Place(named, i)) = i
    BY <1>1, <2>2, NthFound
  <2>4. Name(Place(named, i)) = name
    BY <2>1, <2>3
  <2> HIDE DEF Name
  <2> QED
    BY <1>2, <2>3, <2>4
<1>4. ASSUME NEW n \in DOMAIN CanonicalVars(f)
      PROVE  \E name \in DOMAIN f : CanonicalVars(f)[n] = <<name, CanonicalValue(f[name])>>
  <2>1. n \in 1..Cardinality(named)
    BY <1>2
  <2>2. Nth(named, n) \in named
    <3> HIDE DEF named
    <3> QED
      BY <1>1, <2>1, NthIn
  <2>3. Name(n) \in DOMAIN f
    BY <2>2
  <2> HIDE DEF Name, named
  <2> QED
    BY <1>2, <2>1, <2>3
<1> QED
  BY <1>3, <1>4

(* Variables are written alike exactly if they mean the same. *)
LEMMA VarsToldApart ==
  ASSUME NEW f, NEW g, AreDecoded(f), AreDecoded(g)
  PROVE  CanonicalVars(f) = CanonicalVars(g) <=> MeaningOfVars(f) = MeaningOfVars(g)
<1> DEFINE Covers(x, y) == \A name \in DOMAIN x : name \in DOMAIN y /\ CanonicalValue(x[name]) = CanonicalValue(y[name])
<1>1. \A x : MeaningOfVars(x) = {<<name, Meaning(x[name])>> : name \in DOMAIN x}
  BY DEF MeaningOfVars, Meaning
<1>2. ASSUME NEW x, NEW y, AreDecoded(x), AreDecoded(y), CanonicalVars(x) = CanonicalVars(y)
      PROVE  Covers(x, y)
  <2>1. DOMAIN x \subseteq Range(VarNames) /\ DOMAIN y \subseteq Range(VarNames)
    BY <1>2 DEF AreDecoded
  <2> TAKE name \in DOMAIN x
  <2>2. PICK n \in DOMAIN CanonicalVars(x) : CanonicalVars(x)[n] = <<name, CanonicalValue(x[name])>>
    BY <2>1, NamesListed
  <2>3. PICK other \in DOMAIN y : CanonicalVars(y)[n] = <<other, CanonicalValue(y[other])>>
    BY <1>2, <2>1, <2>2, NamesListed
  <2>4. <<name, CanonicalValue(x[name])>> = <<other, CanonicalValue(y[other])>>
    BY <1>2, <2>2, <2>3
  <2> QED
    BY <2>4
<1>3. ASSUME NEW x, NEW y, AreDecoded(x), AreDecoded(y), MeaningOfVars(x) = MeaningOfVars(y)
      PROVE  Covers(x, y)
  <2> TAKE name \in DOMAIN x
  <2>1. <<name, Meaning(x[name])>> \in MeaningOfVars(y)
    BY <1>1, <1>3
  <2>2. PICK other \in DOMAIN y : <<name, Meaning(x[name])>> = <<other, Meaning(y[other])>>
    BY <1>1, <2>1
  <2>3. name \in DOMAIN y /\ Meaning(x[name]) = Meaning(y[name])
    BY <2>2
  <2>4. CanonicalValue(x[name]) = CanonicalValue(y[name])
    BY <1>3, <2>3, ValuesToldApart DEF AreDecoded
  <2> QED
    BY <2>3, <2>4
<1>4. ASSUME NEW x, NEW y, AreDecoded(x), AreDecoded(y), Covers(x, y), Covers(y, x)
      PROVE  CanonicalVars(x) = CanonicalVars(y) /\ MeaningOfVars(x) = MeaningOfVars(y)
  <2>1. DOMAIN x = DOMAIN y /\ \A name \in DOMAIN x : CanonicalValue(x[name]) = CanonicalValue(y[name])
    BY <1>4
  <2>2. \A name \in DOMAIN x : Meaning(x[name]) = Meaning(y[name])
    BY <1>4, <2>1, ValuesToldApart DEF AreDecoded
  <2>3. MeaningOfVars(x) = MeaningOfVars(y)
    <3>1. {<<name, Meaning(x[name])>> : name \in DOMAIN x} = {<<name, Meaning(y[name])>> : name \in DOMAIN x}
      BY <2>2
    <3> QED
      BY <1>1, <2>1, <3>1
  <2> DEFINE named(z) == {i \in DOMAIN VarNames : VarNames[i] \in DOMAIN z}
             Name(n) == VarNames[Nth(named(x), n)]
  <2>4. named(x) = named(y)
    BY <2>1
  <2>5. /\ CanonicalVars(x) = [n \in 1..Cardinality(named(x)) |-> <<Name(n), CanonicalValue(x[Name(n)])>>]
        /\ CanonicalVars(y) = [n \in 1..Cardinality(named(x)) |-> <<Name(n), CanonicalValue(y[Name(n)])>>]
    BY <2>4 DEF CanonicalVars
  <2>6. \A n \in 1..Cardinality(named(x)) : Name(n) \in DOMAIN x
    <3> TAKE n \in 1..Cardinality(named(x))
    <3>1. n \in DOMAIN CanonicalVars(x) /\ CanonicalVars(x)[n][1] = Name(n)
      BY <2>5
    <3>2. DOMAIN x \subseteq Range(VarNames)
      BY <1>4 DEF AreDecoded
    <3>3. PICK name \in DOMAIN x : CanonicalVars(x)[n] = <<name, CanonicalValue(x[name])>>
      BY <3>1, <3>2, NamesListed
    <3> HIDE DEF Name
    <3> QED
      BY <3>1, <3>3
  <2> HIDE DEF Name, named
  <2>7. CanonicalVars(x) = CanonicalVars(y)
    BY <2>1, <2>5, <2>6
  <2> QED
    BY <2>3, <2>7
<1> QED
  BY <1>2, <1>3, <1>4

-----------------------------------------------------------------------------
(* The last of the fields with one name is found. *)
LEMMA LastFound ==
  ASSUME NEW raw \in RawRequests, NEW name \in DOMAIN Decoded(raw.vars.fields)
  PROVE  \E i \in DOMAIN raw.vars.fields : Decoded(raw.vars.fields)[name] = raw.vars.fields[i][2]
<1> DEFINE fields == raw.vars.fields
           I == {i \in DOMAIN fields : fields[i][1] = name}
           n == Len(fields)
<1>1. n \in Nat /\ DOMAIN fields = 1..n
  BY ObjectsAssumption
<1>2. name \in {fields[i][1] : i \in DOMAIN fields}
  BY DEF Decoded
<1>3. Decoded(fields)[name] =
        fields[CHOOSE i \in DOMAIN fields : fields[i][1] = name /\ \A j \in i + 1..n : fields[j][1] # name][2]
  BY <1>2 DEF Decoded
<1> HIDE DEF fields, n
<1>4. IsFiniteSet(I) /\ I \subseteq Int /\ I # {}
  <2>1. I \in SUBSET (1..n) /\ I # {}
    BY <1>1, <1>2
  <2>2. IsFiniteSet(1..n)
    BY <1>1, FS_Interval
  <2>3. \A i \in 1..n : i \in Int
    OBVIOUS
  <2> HIDE DEF I
  <2> QED
    BY <2>1, <2>2, <2>3, FS_Subset
<1> DEFINE last == Max(I)
<1>5. last \in I /\ \A i \in I : i <= last
  <2> HIDE DEF I
  <2> QED
    BY <1>4, Extremes
<1> HIDE DEF last
<1>6. ASSUME NEW j \in last + 1..n PROVE fields[j][1] # name
  <2>1. last \in 1..n
    BY <1>1, <1>5
  <2>2. j \in 1..n /\ ~(j <= last)
    BY <1>1, <2>1
  <2> QED
    BY <1>1, <1>5, <2>2
<1>7. \E i \in DOMAIN fields : fields[i][1] = name /\ \A j \in i + 1..n : fields[j][1] # name
  BY <1>5, <1>6
<1> QED
  BY <1>3, <1>7 DEF fields

(* A valid request passes every check. *)
LEMMA ValidPasses ==
  ASSUME NEW raw, NEW locales, ValidateSendRequest(raw, locales) = "valid"
  PROVE  raw.vars.kind = Missing \/ AreVars(raw.vars)
<1> DEFINE checks == Checks(raw, locales)
           I == {i \in 1..Len(checks) : ~checks[i].holds}
           failed == SelectInSeq(checks, LAMBDA check : ~check.holds)
<1>1. failed = IF I # {} THEN Min(I) ELSE 0
  BY DEF SelectInSeq
<1>2. Len(checks) = 11 /\ \A i \in 1..11 : checks[i].code # "valid"
  BY DEF Checks
<1>3. checks[10].holds = (raw.vars.kind = Missing \/ AreVars(raw.vars))
  BY DEF Checks
<1>4. failed = 0 \/ checks[failed].code = "valid"
  BY DEF ValidateSendRequest
<1> HIDE DEF checks, failed
<1>5. ASSUME I # {} PROVE FALSE
  <2> DEFINE n == 11
  <2>1. n \in Nat /\ I \in SUBSET (1..n)
    BY <1>2
  <2> HIDE DEF n, I
  <2>2. IsFiniteSet(I) /\ I \subseteq Int
    <3>1. IsFiniteSet(1..n)
      BY <2>1, FS_Interval
    <3>2. \A i \in 1..n : i \in Int
      OBVIOUS
    <3> QED
      BY <2>1, <3>1, <3>2, FS_Subset
  <2>3. failed \in I
    BY <1>1, <1>5, <2>2, Extremes
  <2>4. failed \in 1..11
    BY <2>1, <2>3 DEF n
  <2> QED
    BY <1>2, <1>4, <2>4
<1>6. 10 \in 1..Len(checks)
  BY <1>2
<1>7. checks[10].holds
  BY <1>5, <1>6
<1> QED
  BY <1>3, <1>7

LEMMA VarsDecoded ==
  ASSUME NEW raw \in RawRequests, ValidateSendRequest(raw, Locales) = "valid"
  PROVE  AreDecoded(VarsOf(raw))
<1>1. CASE raw.vars.kind = Missing
  <2>1. VarsOf(raw) = << >> /\ DOMAIN << >> = {}
    BY <1>1 DEF VarsOf
  <2> QED
    BY <2>1 DEF AreDecoded
<1>2. CASE raw.vars.kind # Missing
  <2>1. VarsOf(raw) = Decoded(raw.vars.fields)
    BY <1>2 DEF VarsOf
  <2>2. DOMAIN Decoded(raw.vars.fields) \subseteq Range(VarNames)
    BY <1>2, ValidPasses DEF AreVars
  <2>3. ASSUME NEW name \in DOMAIN Decoded(raw.vars.fields), Decoded(raw.vars.fields)[name][1] = "number"
        PROVE  Decoded(raw.vars.fields)[name][2] \in Literals
    <3>1. PICK i \in DOMAIN raw.vars.fields : Decoded(raw.vars.fields)[name] = raw.vars.fields[i][2]
      BY LastFound
    <3> QED
      BY <2>3, <3>1, ObjectsAssumption
  <2> QED
    BY <2>1, <2>2, <2>3 DEF AreDecoded
<1> QED
  BY <1>1, <1>2

(* Fingerprints tell the same requests and numbers apart. *)
LEMMA ToldApart == FingerprintsTellSameApart
<1> DEFINE valid == {raw \in RawRequests : ValidateSendRequest(raw, Locales) = "valid"}
           S == valid \X Locales
<1>1. TellSameApart(CanonicalJSONNumber, NumberOf, Literals)
  <2> DEFINE f == [l \in Literals |-> CanonicalJSONNumber(l)]
             g == [l \in Literals |-> NumberOf(l)]
  <2>1. IsFiniteSet(Literals) /\ \A x, y \in Literals : f[x] = f[y] <=> g[x] = g[y]
    BY LiteralsAssumption, NumbersToldApart
  <2>2. /\ {CanonicalJSONNumber(x) : x \in Literals} = {f[x] : x \in Literals}
        /\ {NumberOf(x) : x \in Literals} = {g[x] : x \in Literals}
        /\ {<<CanonicalJSONNumber(x), NumberOf(x)>> : x \in Literals} = {<<f[x], g[x]>> : x \in Literals}
    OBVIOUS
  <2> HIDE DEF f, g
  <2>3. AsMany(Literals, f, g)
    BY <2>1, AsManyValues
  <2> QED
    BY <2>2, <2>3 DEF AsMany, TellSameApart
<1>2. IsFiniteSet(S)
  <2>1. valid \in SUBSET RawRequests
    OBVIOUS
  <2>2. IsFiniteSet(valid) /\ IsFiniteSet(Locales)
    <3> HIDE DEF valid
    <3> QED
      BY <2>1, ObjectsAssumption, FS_Subset
  <2> HIDE DEF valid
  <2> QED
    BY <2>2, FS_Product
<1>3. TellSameApart(LAMBDA r : Fingerprint(ToOf(r[1]), r[2], VarsOf(r[1])), LAMBDA r : MeaningOf(r[1], r[2]), S)
  <2> DEFINE f == [r \in S |-> Fingerprint(ToOf(r[1]), r[2], VarsOf(r[1]))]
             g == [r \in S |-> MeaningOf(r[1], r[2])]
  <2>1. ASSUME NEW q \in S, NEW r \in S PROVE f[q] = f[r] <=> g[q] = g[r]
    <3>1. AreDecoded(VarsOf(q[1])) /\ AreDecoded(VarsOf(r[1]))
      BY VarsDecoded
    <3>2. CanonicalVars(VarsOf(q[1])) = CanonicalVars(VarsOf(r[1]))
            <=> MeaningOfVars(VarsOf(q[1])) = MeaningOfVars(VarsOf(r[1]))
      BY <3>1, VarsToldApart
    <3> QED
      BY <3>2 DEF Fingerprint, MeaningOf
  <2>2. /\ {Fingerprint(ToOf(r[1]), r[2], VarsOf(r[1])) : r \in S} = {f[r] : r \in S}
        /\ {MeaningOf(r[1], r[2]) : r \in S} = {g[r] : r \in S}
        /\ {<<Fingerprint(ToOf(r[1]), r[2], VarsOf(r[1])), MeaningOf(r[1], r[2])>> : r \in S}
             = {<<f[r], g[r]>> : r \in S}
    OBVIOUS
  <2> HIDE DEF f, g, S
  <2>3. AsMany(S, f, g)
    BY <1>2, <2>1, AsManyValues
  <2> QED
    BY <2>2, <2>3 DEF AsMany, TellSameApart
<1> QED
  BY <1>1, <1>3 DEF FingerprintsTellSameApart
-----------------------------------------------------------------------------
(* Languages. *)

(* A mail is rendered in the language of its template. *)
LEMMA TemplateOfLocale ==
  ASSUME NEW app, NEW scene, NEW locale
  PROVE  ResolveTemplate(app, scene, locale) =
           EnabledTemplates(app, scene.template, RenderedLocale(app, scene, locale))
<1> DEFINE wanted == IF locale = "" THEN app.defaultLocale ELSE locale
<1>1. CASE EnabledTemplates(app, scene.template, wanted) # {}
  BY <1>1 DEF ResolveTemplate, RenderedLocale
<1>2. CASE EnabledTemplates(app, scene.template, wanted) = {}
  BY <1>2 DEF ResolveTemplate, RenderedLocale
<1> QED
  BY <1>1, <1>2

(* Two requests are one to the idempotency cache exactly if they mean the  *)
(* same and are rendered alike, for any requests that can be decoded, any  *)
(* numbers that fit the variables' limit and any valid configuration.      *)
THEOREM FingerprintSafe == Spec => []FingerprintFaithful
<1>1. IInv => FingerprintFaithful
  <2> SUFFICES ASSUME IInv, stage = "up",
                      NEW a \in DOMAIN config.apps, NEW s \in DOMAIN config.apps[a].scenes,
                      NEW one, NEW other
               PROVE  LET app   == config.apps[a]
                          scene == app.scenes[s]
                      IN RenderedLocale(app, scene, one) = RenderedLocale(app, scene, other)
                           <=> ResolveTemplate(app, scene, one) = ResolveTemplate(app, scene, other)
    BY ToldApart DEF FingerprintFaithful
  <2> DEFINE app   == config.apps[a]
             scene == app.scenes[s]
             mine  == RenderedLocale(app, scene, one)
             yours == RenderedLocale(app, scene, other)
  <2>1. PICK v : Validate(config, v, suppressions)
    BY DEF IInv, Valid, Started
  <2>2. /\ ResolveTemplate(app, scene, one) = EnabledTemplates(app, scene.template, mine)
        /\ ResolveTemplate(app, scene, other) = EnabledTemplates(app, scene.template, yours)
    BY TemplateOfLocale
  <2>3. ResolveTemplate(app, scene, one) # {}
    BY <2>1, TemplateServed
  <2> HIDE DEF mine, yours
  <2>4. ASSUME ResolveTemplate(app, scene, one) = ResolveTemplate(app, scene, other)
        PROVE  mine = yours
    BY <2>2, <2>3, <2>4 DEF EnabledTemplates
  <2> QED
    BY <2>2, <2>4 DEF mine, yours
<1> QED
  BY <1>1, Invariant, PTL
=============================================================================
