---------------------------- MODULE MessageQueries ----------------------------
(***************************************************************************)
(* The queries of internal/lite/message_log.go over a log as the writer    *)
(* leaves it, and the handlers that answer with them: the status of a      *)
(* message, its attempts and its events, the lists of messages, of failed  *)
(* messages and of recent events.  A query holds the writer's mutex, so it *)
(* runs between two appends.                                               *)
(*                                                                         *)
(* Message numbers stand for message IDs, whose order decides between      *)
(* records of the same time.  A handler's answer is a record of a code and *)
(* what it found.                                                          *)
(***************************************************************************)
EXTENDS JsonlLog

CONSTANTS
  Apps,          \* those whose API keys are used
  DefaultLimit,  \* defaultMessageListLimit and its like: 50
  MaxLimit,      \* maxMessageListLimit and its like: 200
  MessageQuerySet, EventQuerySet  \* the queries that are asked

(* Message IDs are compared, limits are numbers and every parameter is     *)
(* there, if empty.                                                        *)
ASSUME IDsAssumption ==
  \A l \in Logs : l.name = "messages" => \A r \in l.records : r.message \in Int

ASSUME QueriesAssumption ==
  /\ DefaultLimit \in Nat \ {0} /\ MaxLimit \in Nat
  /\ MessageQuerySet \subseteq [limit : Int, status : STRING, scene : STRING]
  /\ EventQuerySet \subseteq [limit : Int, provider : STRING, type : STRING]

Statuses   == {"queued", "sending", "sent", "retrying", "failed", "delivered", "bounced", "complained"}
EventTypes == {"delivered", "bounced", "complained"}
Sources    == {"mock", "resend", "brevo"}

Refused(code) == [code |-> code, found |-> << >>]
Found(seq)    == [code |-> "ok", found |-> seq]

(* What a log that cannot be read answers: an internal error. *)
Unless(damaged, answer) == IF damaged THEN Refused("internal_error") ELSE answer

-----------------------------------------------------------------------------
(* One message. *)

OfMessage(l, app, message) == l.about.app = app /\ l.about.message = message

(* The last line that matches, file after file; an empty sequence if none. *)
FindLatestMessage(app, message) ==
  LET lines == Lines
      last  == SelectLastInSeq(lines, LAMBDA l : OfMessage(l, app, message))
  IN IF last = 0 THEN << >> ELSE <<lines[last]>>

MessageStatus(app, message) ==
  LET latest == FindLatestMessage(app, message)
  IN Unless(Damaged, IF latest = << >> THEN Refused("message_not_found") ELSE Found(latest))

(* ListAttempts and ListProviderEvents: every line that matches. *)
ListOfMessage(app, message) ==
  LET lines    == Lines
      matching == InOrder({k \in DOMAIN lines : OfMessage(lines[k], app, message)}, LAMBDA j, k : j < k)
  IN [n \in DOMAIN matching |-> lines[matching[n]]]

(* The attempts or the events of a message, of which the message log has   *)
(* answered status.                                                        *)
MessageDetails(status, app, message) ==
  IF status.code = "ok" THEN Unless(Damaged, Found(ListOfMessage(app, message))) ELSE status

-----------------------------------------------------------------------------
(* The lists, newest first. *)

Truncated(seq, limit) == SubSeq(seq, 1, IF limit > 0 /\ Len(seq) > limit THEN limit ELSE Len(seq))

Passes(filter, value) == filter = "" \/ filter = value

PassesFilter(l, filter) == Passes(filter.status, l.about.status) /\ Passes(filter.scene, l.about.scene)

NewerMessage(l, m) == l.at > m.at \/ (l.at = m.at /\ l.about.message > m.about.message)

(* Seeded fault: records that do not pass the filter are skipped at once. *)
LatestFiltered(app, filter) ==
  LET lines == Lines
      Passing(k) == lines[k].about.app = app /\ PassesFilter(lines[k], filter)
  IN {lines[k] : k \in {k \in DOMAIN lines : Passing(k) /\ \A j \in DOMAIN lines :
                          Passing(j) /\ lines[j].about.message = lines[k].about.message => j <= k}}

(* collectLatestMessagesInPath over the files: the last record of each of  *)
(* the app's messages; of these the filter then takes some.                *)
LatestPassing(app, filter) ==
  LET lines  == Lines
      latest == {k \in DOMAIN lines :
                   /\ lines[k].about.app = app
                   /\ \A j \in DOMAIN lines : OfMessage(lines[j], app, lines[k].about.message) => j <= k}
  IN {l \in {lines[k] : k \in latest} : PassesFilter(l, filter)}

ListLatestMessages(app, filter) ==
  Truncated(InOrder(LatestPassing(app, filter), NewerMessage), filter.limit)

(* The order of a list of events, by time, message and the provider's ID,  *)
(* which two events of a message may share.                                *)
NewerEvent(l, m) ==
  \/ l.at > m.at
  \/ l.at = m.at /\ l.about.message > m.about.message
  \/ l.at = m.at /\ l.about.message = m.about.message /\ l.about.id > m.about.id

EventsPassing(app, filter) ==
  {l \in Range(Lines) : l.about.app = app /\ Passes(filter.provider, l.about.provider) /\ Passes(filter.type, l.about.type)}

(* sort.Slice is not stable: equals may come in any order. *)
ListsOfRecentEvents(app, filter) ==
  {Truncated(seq, filter.limit) : seq \in
     {seq \in SetToSeqs(EventsPassing(app, filter)) :
        \A i, j \in DOMAIN seq : i < j => ~NewerEvent(seq[j], seq[i])}}

-----------------------------------------------------------------------------
(* The handlers: parsing of the parameters, where "" is an absent one and  *)
(* limit 0 an absent limit; a limit below one is refused like one above.   *)

ParseLimit(limit) == IF limit = 0 THEN {DefaultLimit} ELSE {limit} \cap 1..MaxLimit

ParseMessageListFilter(query) ==
  {[limit |-> limit, status |-> query.status, scene |-> query.scene] :
     limit \in IF query.status \in Statuses \cup {""} THEN ParseLimit(query.limit) ELSE {}}

ParseProviderEventListFilter(query) ==
  {[limit |-> limit, provider |-> query.provider, type |-> query.type] :
     limit \in IF query.provider \in Sources \cup {""} /\ query.type \in EventTypes \cup {""}
               THEN ParseLimit(query.limit) ELSE {}}

MessageList(app, query) ==
  LET filters == ParseMessageListFilter(query)
  IN IF filters = {} THEN Refused("invalid_query")
     ELSE Unless(Damaged, Found(ListLatestMessages(app, CHOOSE f \in filters : TRUE)))

FailedMessageList(app, query) ==
  LET filters == {[f EXCEPT !.status = "failed"] : f \in ParseMessageListFilter(query)}
  IN IF query.status # "" \/ filters = {} THEN Refused("invalid_query")
     ELSE Unless(Damaged, Found(ListLatestMessages(app, CHOOSE f \in filters : TRUE)))

ProviderEventLists(app, query) ==
  LET filters == ParseProviderEventListFilter(query)
  IN IF filters = {} THEN {Refused("invalid_query")}
     ELSE IF Damaged THEN {Refused("internal_error")}
     ELSE {Found(list) : list \in ListsOfRecentEvents(app, CHOOSE f \in filters : TRUE)}

-----------------------------------------------------------------------------
(* An answer, if it is one, lists some of what passes, none twice and the  *)
(* newest first; what is missing is no newer than what is there, and only  *)
(* missing because the list is full.                                       *)
ListsNewest(answer, passing, limits, Newer(_, _)) ==
  LET list == answer.found IN answer.code = "ok" =>
    /\ Range(list) \subseteq passing /\ IsInjective(list)
    /\ \A i, j \in DOMAIN list : i < j => ~Newer(list[j], list[i])
    /\ \A l \in passing \ Range(list) : Len(list) \in limits /\ \A i \in DOMAIN list : ~Newer(l, list[i])

MessageNumbers == {l.about.message : l \in Range(Lines)}

MessageListsAgree(app) ==
  LET shown == UNION {Range(MessageStatus(app, m).found) : m \in MessageNumbers}
      Passing(query) == {l \in shown : PassesFilter(l, query)}
  IN /\ \A l \in shown : l.about.app = app
     /\ \A l \in Range(Lines) : l.about.app = app =>
          \E latest \in shown : OfMessage(latest, app, l.about.message) /\ latest.seq >= l.seq
     /\ \A query \in MessageQuerySet :
          /\ ListsNewest(MessageList(app, query), Passing(query), ParseLimit(query.limit), NewerMessage)
          /\ ListsNewest(FailedMessageList(app, query), Passing([query EXCEPT !.status = "failed"]),
                         ParseLimit(query.limit), NewerMessage)

EventListsAgree(app) ==
  LET shown == UNION {Range(MessageDetails(Found(<< >>), app, m).found) : m \in MessageNumbers}
      Passing(query) == {l \in shown : Passes(query.provider, l.about.provider) /\ Passes(query.type, l.about.type)}
  IN \A query \in EventQuerySet : \A answer \in ProviderEventLists(app, query) :
       ListsNewest(answer, Passing(query), ParseLimit(query.limit), NewerEvent)

(* What a list shows of a message is what asking for its status shows, its *)
(* last record, though times are read before the log is locked and may be  *)
(* out of order; a message whose last record passes the filter is shown    *)
(* unless the list is full of ones as new; and the recent events are those *)
(* of the app's messages, the newest again.  No app sees another's.        *)
ListsAgree ==
  pc = "idle" /\ ~Damaged => \A app \in Apps :
    /\ log.name = "messages" => MessageListsAgree(app)
    /\ log.name = "events"   => EventListsAgree(app)
    /\ log.name = "attempts" => \A m \in MessageNumbers :
         LET list == MessageDetails(Found(<< >>), app, m).found
         IN /\ \A i, j \in DOMAIN list : i < j => list[i].seq < list[j].seq
            /\ Range(list) = {l \in Range(Lines) : OfMessage(l, app, m)}
=============================================================================
