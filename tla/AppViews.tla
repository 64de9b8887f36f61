------------------------------ MODULE AppViews ------------------------------
(***************************************************************************)
(* What an app's API key lets it see of the suppressions                   *)
(* (api/suppression_list.go, SuppressionStore.List) and of the             *)
(* configuration (api/admin_config_summary.go).                            *)
(*                                                                         *)
(* Handlers answer a set of at most one: it is empty if they refuse.  What *)
(* a summary copies of the app itself, of the settings and of names, and   *)
(* the order of its lists, is left out.                                    *)
(***************************************************************************)
EXTENDS Configuration, Orders, SequencesExt

CONSTANTS
  RecipientOrder,  \* addresses in small letters, as sort.Strings orders them
  ListedByDefault, ListedAtMost  \* the limits of a list: 50 and 200

(* No address comes twice, and the default is in the limit. *)
ASSUME OrderAssumption ==
  /\ RecipientOrder \in Seq(STRING) /\ IsInjective(RecipientOrder)
  /\ ListedAtMost \in Nat /\ ListedByDefault \in 1..ListedAtMost

(* A query has a limit, a reason and an email; 0 and "" are not given. *)
IsSuppressionQuery(query) ==
  /\ query.limit \in 0..ListedAtMost
  /\ query.reason \in SuppressionReason \cup {""}
  /\ query.email = "" \/ IsAddress(query.email)

ParseSuppressionListFilter(query) ==
  IF IsSuppressionQuery(query)
  THEN {[limit  |-> IF query.limit = 0 THEN ListedByDefault ELSE query.limit,
         reason |-> query.reason, email |-> query.email]}
  ELSE {}

(* SuppressionStore.List, by address; the store has one entry for each. *)
ListSuppressions(entries, app, filter) ==
  LET listed == {entry \in entries : /\ entry.app = app
                                     /\ filter.reason \in {"", entry.reason}
                                     /\ filter.email = "" \/ Lower[filter.email] = Lower[entry.email]}
      Has(entry, i) == Lower[entry.email] = RecipientOrder[i]
      places == {i \in DOMAIN RecipientOrder : \E entry \in listed : Has(entry, i)}
      found  == Cardinality(places)
  IN [n \in 1..(IF found < filter.limit THEN found ELSE filter.limit) |->
        CHOOSE entry \in listed : Has(entry, Nth(places, n))]

ProcessSuppressionList(entries, app, query) ==
  {ListSuppressions(entries, app, filter) : filter \in ParseSuppressionListFilter(query)}

-----------------------------------------------------------------------------
(* appRouteChannels, over all scenes, enabled or not. *)
AppRouteChannels(app) ==
  (UNION {UNION {Range(scene.routes[key]) : key \in DOMAIN scene.routes} : scene \in Range(app.scenes)}) \ {""}

(* A channel's provider is that of the last account of its name, "" if     *)
(* there is none.                                                          *)
ProcessAdminConfigSummary(c, app) ==
  LET visible == {channel \in Range(c.channels) : channel.code \in AppRouteChannels(app)}
      Provider(code) ==
        IF LastNamed(c.accounts, code) = {} THEN "" ELSE (CHOOSE a \in LastNamed(c.accounts, code) : TRUE).provider
  IN [channels |-> {[code |-> channel.code, account |-> channel.account, provider |-> Provider(channel.account),
                     transport |-> channel.transport, enabled |-> channel.enabled] : channel \in visible},
      accounts |-> {[code |-> account.code, provider |-> account.provider, enabled |-> account.enabled] :
                      account \in {a \in Range(c.accounts) : \E channel \in visible : channel.account = a.code}}]
=============================================================================
