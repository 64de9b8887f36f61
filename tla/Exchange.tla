------------------------------ MODULE Exchange ------------------------------
(* One message and its providers: the answers it gets on the channels of   *)
(* its route, the records that are kept of them, and the notifications     *)
(* that refer to those records later.                                      *)
(*                                                                         *)
(* Delivery has the interleaving of these steps, and leaves open what is   *)
(* in answers, records and notifications.  Here those have their contents  *)
(* and the steps are coarse: a worker's records before and after a call    *)
(* are written at once, and so is all that a notification leads to.        *)
(*                                                                         *)
(* The providers are external.  Each refuses for a cause of its own, that  *)
(* the adapter has to guess from the answer, and reports on mail that it   *)
(* accepted in the terms it found in the mail.                             *)
EXTENDS FailureClasses, WebhookMapping, FiniteSets

CONSTANTS
  App, Message,  \* the message's app and id
  Recipient,     \* its recipient, normalized
  Spellings,     \* the spellings of the recipient that occur
  Routes,        \* the routes it may have: sequences of channels
  Ids,           \* the id that the provider gives the mail of each attempt
  MaxAttempts,   \* WorkerConfig.MaxAttemptsPerMessage
  Headers,       \* the Retry-After headers that occur
  Instants,      \* the times of which notifications tell
  Offsets,       \* the offsets they are written with
  MaxEvents      \* bound on the provider event log

(* SupportsTransport, which the configuration's validation asks for. *)
SupportsTransport(provider, transport) == provider = "mock" => transport = "api"

(* The channels of a valid configuration; of one that the resolver does    *)
(* not find, nothing but the code counts.                                  *)
Channels ==
  {channel \in [code : Identifiers, account : Identifiers,
                provider : {"mock", "resend", "brevo"}, transport : {"api", "smtp"},
                found : BOOLEAN, enabled : BOOLEAN] :
     SupportsTransport(channel.provider, channel.transport)}

ASSUME RoutesAssumption  ==
  Routes \subseteq Seq(Channels) \ {<< >>} /\ MaxAttempts \in Nat \ {0}
ASSUME IdsAssumption     == \A n \in 1..MaxAttempts : n \in DOMAIN Ids /\ Ids[n] # ""
ASSUME MessageAssumption ==
  /\ App \in Identifiers /\ Message \in MessageIDs
  /\ \A s \in Spellings : s \in DOMAIN Normal /\ Normal[s] = Recipient
ASSUME TimesAssumption   == Instants \subseteq Int /\ Offsets \subseteq Int

VARIABLES
  route,     \* Message.ProviderChannels, with what the resolver finds
  pc,        \* "ready", "calling" or "done": the worker
  status,    \* the latest message record
  attempts,  \* the attempt log
  tried,     \* history: how each finished attempt went
  mails,     \* the mails that providers accepted
  events,    \* the provider event log
  suppressed \* the reason for which the recipient is suppressed

workerVars == <<route, pc, attempts, tried, mails>>
hookVars   == <<events, suppressed>>
vars == <<workerVars, status, hookVars>>

Init ==
  /\ route \in Routes
  /\ pc = "ready"
  /\ status = "queued"
  /\ attempts = << >>
  /\ tried = << >>
  /\ mails = {}
  /\ events = << >>
  /\ suppressed = "none"

-----------------------------------------------------------------------------
(* The providers' answers, by the form they have and the cause behind them. *)

NoError  == [name |-> "other", words |-> {}]
NoHeader == [form |-> "none", value |-> 0]

ASSUME HeadersAssumption ==
  Headers \subseteq {NoHeader} \cup [form : {"seconds", "date"}, value : Int]

Words    == {"sender", "domain", "unverified", "not allowed"}

AnyError     == [name : {"channel", "other"}, words : SUBSET Words]
ChannelError == [name : {"channel"}, words : SUBSET Words]

SenderError(form) ==
  [name : {"other"}, words : {{"sender"}, {"domain", "unverified"}} \cup
                             (IF form = "brevo" THEN {{"domain", "not allowed"}} ELSE {})]

Refusal(form, cause, statuses, errors) ==
  [form : {form}, cause : {cause}, status : statuses, error : errors, retryAfter : Headers, id : {""}]

(* Whoever blames the message, its recipient or its text, may do so in any  *)
(* words.                                                                   *)
HTTPRefusals(form) ==
  UNION {
    Refusal(form, "busy", {429, 500} \cup (IF form = "brevo" THEN {408} ELSE {}), AnyError),
    Refusal(form, "account", {401, 403} \cup (IF form = "brevo" THEN {402} ELSE {}), AnyError),
    Refusal(form, "account", {400, 422}, ChannelError),
    Refusal(form, "sender", {403}, AnyError),
    Refusal(form, "sender", {400, 422}, SenderError(form)),
    Refusal(form, "message", {400, 422}, AnyError),
    Refusal(form, "other", {404}, {NoError}) }

SMTPReplies(cause, stages, codes) ==
  [form : {"smtp"}, cause : {cause}, stage : stages, code : codes, retryAfter : {NoHeader}]

(* An SMTP server refuses the sender with MAIL, the recipient with RCPT or *)
(* after the text.                                                         *)
SMTPAnswers ==
  UNION {
    SMTPReplies("accepted", {"quit"}, {0}),
    SMTPReplies("busy", {"connect", "starttls", "auth", "mail_from", "rcpt_to", "data"}, {0, 450}),
    SMTPReplies("account", {"connect", "starttls", "auth"}, {550}),
    SMTPReplies("sender", {"mail_from"}, {550}),
    SMTPReplies("message", {"rcpt_to", "data"}, {550}) }

(* The body of an acceptance may be cut off or lack the id. *)
HTTPAcceptances(form, id) ==
  [form : {form}, cause : {"accepted"}, status : {200}, error : {NoError}, retryAfter : {NoHeader}, id : {"", id}]

(* No answer: the secret is missing, the provider cannot be reached, or    *)
(* the connection is lost when it has accepted the mail.                   *)
Silences == [form : {"none"}, cause : {"account", "busy", "lost"}, retryAfter : {NoHeader}]

Answers(channel, id) ==
  CASE channel.provider = "mock" ->
         {[form |-> "mock", cause |-> "accepted", retryAfter |-> NoHeader, id |-> id]}
    [] channel.transport = "smtp" -> SMTPAnswers \cup Silences
    [] OTHER ->
         HTTPAcceptances(channel.provider, id) \cup HTTPRefusals(channel.provider) \cup Silences

-----------------------------------------------------------------------------
(* The worker. *)

AttemptNo == Len(tried) + 1

(* attemptBase and attemptWithStatus: of a channel that the resolver does  *)
(* not find, nothing but the code is known.                                *)
Record(newStatus, class, id) ==
  LET channel == route[AttemptNo]
      found   == channel.found
  IN  [no |-> AttemptNo, channel |-> channel.code,
       provider  |-> IF found THEN channel.provider  ELSE "",
       account   |-> IF found THEN channel.account   ELSE "",
       transport |-> IF found THEN channel.transport ELSE "",
       status |-> newStatus, class |-> class, id |-> id]

(* ProcessTask up to the call. *)
BeginAttempt ==
  /\ pc = "ready"
  /\ pc' = "calling"
  /\ status' = "sending"
  /\ attempts' = IF route[AttemptNo].found
                 THEN Append(attempts, Record("sending", "", "")) ELSE attempts
  /\ UNCHANGED <<route, tried, mails, hookVars>>

(* sendThroughProvider on a channel that is not found or not enabled, which *)
(* no route of a valid configuration names.                                *)
Unusable == Failed(Channel)

(* hasProviderChannelForAttempt, of the next attempt. *)
HasNextChannel == AttemptNo < MaxAttempts /\ AttemptNo < Len(route)

(* The seconds that a header asks for, whatever is made of them. *)
Asked(header) ==
  IF header.form = "date" THEN AtLeast(0, (header.value + Second - 1) \div Second) ELSE AtLeast(0, header.value)

Tried(cause, result, header) ==
  [cause |-> cause, class |-> result.class, asked |-> Asked(header),
   wait |-> RetryDelay(AttemptNo + 1, result.retryAfter)]

(* ProcessTask from the result on: the attempt's record, and the message   *)
(* sent, failed, or put back with a delay.                                 *)
EndAttempt(result, cause, header) ==
  LET retried == ~IsAccepted(result) /\ result.class # Permanent /\ HasNextChannel IN
  /\ pc = "calling"
  /\ attempts' = Append(attempts,
       Record(IF IsAccepted(result) THEN "sent" ELSE "failed", result.class, result.id))
  /\ status' = IF IsAccepted(result) THEN "sent" ELSE IF retried THEN "retrying" ELSE "failed"
  /\ pc' = IF retried THEN "ready" ELSE "done"
  /\ tried' = Append(tried, Tried(cause, result, header))
  /\ UNCHANGED <<route, hookVars>>

CallProvider ==
  /\ pc = "calling"
  /\ route[AttemptNo].found /\ route[AttemptNo].enabled
  /\ \E answer \in Answers(route[AttemptNo], Ids[AttemptNo]) :
       /\ EndAttempt(Result(answer), answer.cause, answer.retryAfter)
       /\ mails' = mails \cup
            (IF answer.cause \in {"accepted", "lost"}
             THEN {[attempt |-> AttemptNo, id |-> Ids[AttemptNo]]} ELSE {})

SkipChannel ==
  /\ pc = "calling"
  /\ ~(route[AttemptNo].found /\ route[AttemptNo].enabled)
  /\ EndAttempt(Unusable, "account", NoHeader)
  /\ UNCHANGED mails

-----------------------------------------------------------------------------
(* The records, read back. *)

(* decodeAttemptSnapshot, isValidAttemptProviderMetadata *)
AttemptDecodes(record) ==
  \/ /\ record.provider \in {"mock", "resend", "brevo"}
     /\ record.account # "" /\ record.channel # "" /\ record.transport \in {"api", "smtp"}
  \/ /\ record.provider = "" /\ record.account = "" /\ record.channel # "" /\ record.transport = ""
     /\ record.status = "failed" /\ record.class = Channel

(* decodeProviderEventSnapshot, validateProviderEventLogFields *)
EventDecodes(event) ==
  /\ event.message # "" /\ event.app # "" /\ event.account # "" /\ event.channel # "" /\ event.id # ""
  /\ event.provider \in {"mock", "resend", "brevo"} /\ event.type \in EventType
  /\ Parses(event.at)

(* sameProviderEventIdentity: all but the recipient, which is not logged. *)
Identity(event) == [field \in DOMAIN event \ {"recipient"} |-> event[field]]

(* ListAttempts and latestAttemptsByNumber *)
LatestAttempts ==
  {attempts[i] : i \in {j \in DOMAIN attempts :
     \A k \in DOMAIN attempts : k > j => attempts[k].no # attempts[j].no}}

(* validateProviderEventAttempt: an attempt that was accepted without an   *)
(* id fits any id.                                                         *)
MatchesSentAttempt(event) ==
  /\ \A i \in DOMAIN attempts : AttemptDecodes(attempts[i])
  /\ \E record \in LatestAttempts :
       /\ record.status = "sent"
       /\ record.provider = event.provider
       /\ record.account = event.account /\ record.channel = event.channel
       /\ record.id \in {event.id, ""}

(* validateProviderEventRecipientMatchesMessage *)
MatchesRecipient(event) ==
  event.type \in {"bounced", "complained"} => Normal[event.recipient] = Recipient

(* AppendProviderEventOnce looks for the identity from the oldest record   *)
(* on; a record that does not decode ends the search with an error.        *)
Recorded(event) == \E i \in DOMAIN events : events[i] = Identity(event)

Searchable(event) ==
  \A i \in DOMAIN events :
    ~EventDecodes(events[i]) => \E j \in 1..(i - 1) : events[j] = Identity(event)

-----------------------------------------------------------------------------
(* The webhooks. *)

(* The provider reports mail that it accepted, with the tags that the      *)
(* adapter gave it: Resend and Brevo, of mail sent through their APIs.     *)
(* Mail sent by SMTP has no tags, and cannot be told apart.                *)
Reports(mail) ==
  LET channel == route[mail.attempt]
      time    == Instants \cap 1..Calendar
  IN CASE channel.provider = "resend" /\ channel.transport = "api" ->
            [hook : {"resend"}, age : {-Tolerance, Tolerance},
             tokens : {<<"v1", "right">>, <<"v1", "wrong", "v1", "right">>},
             type : DOMAIN ResendType,
             tags : {ResendTags(App, Message, channel.account, channel.code)},
             id : {mail.id}, to : {<<s>> : s \in Spellings}, at : {At(t, 0) : t \in time}]
       [] channel.provider = "brevo" /\ channel.transport = "api" ->
            [hook : {"brevo"}, token : {"right"}, type : DOMAIN BrevoType,
             tag : {<< >>, BrevoTags(App, Message, channel.account, channel.code)},
             tags : {BrevoTags(App, Message, channel.account, channel.code)},
             id : {mail.id}, email : Spellings, ts_event : time]
       [] OTHER -> {}

(* Others report in MuxMail's own format what they know of an attempt, and *)
(* write its time as they like.                                            *)
GenericReports(mail) ==
  LET channel == route[mail.attempt] IN
  [hook : {"generic"}, token : {"right", "wrong"},
   event : [app : {App}, message : {Message}, provider : {channel.provider},
            account : {channel.account}, channel : {channel.code}, id : {mail.id},
            recipient : Spellings, type : EventType, at : {At(t, o) : t \in Instants, o \in Offsets}]]

(* applyProviderEvent, of one notification to one of the endpoints.  What  *)
(* is answered with an error changes nothing.                              *)
Takes(note) ==
  /\ Authentic(note)
  /\ \E event \in EventOf(note) :
       /\ event.app = App /\ event.message = Message
       /\ MatchesSentAttempt(event)
       /\ MatchesRecipient(event)
       /\ Searchable(event)

Notify(note) ==
  /\ Takes(note)
  /\ \E event \in EventOf(note) :
       /\ Recorded(event) \/ Len(events) < MaxEvents  \* the model's bound
       /\ events' = IF Recorded(event) THEN events ELSE Append(events, Identity(event))
       /\ suppressed' = Suppression(suppressed, event.type)
       /\ status' = NextStatus(status, event.type)
  /\ UNCHANGED workerVars

Next ==
  \/ BeginAttempt
  \/ CallProvider
  \/ SkipChannel
  \/ \E mail \in mails : \E note \in Reports(mail) \cup GenericReports(mail) : Notify(note)

Spec == Init /\ [][Next]_vars

-----------------------------------------------------------------------------
(* Every record that a worker writes can be read back; one that could not  *)
(* would end every later query of any message's attempts with an error.    *)
(* The same holds of events, unless their instant is outside the calendar  *)
(* in UTC.  An attempt is logged sent only if its provider has accepted    *)
(* the mail, and an event only if it is about such an attempt.             *)
RecordsReadBack ==
  /\ \A i \in DOMAIN attempts :
       /\ AttemptDecodes(attempts[i])
       /\ attempts[i].status = "sent" => \E mail \in mails : mail.attempt = attempts[i].no
  /\ \A i \in DOMAIN events :
       /\ events[i].at.local \in 0..Calendar => EventDecodes(events[i])
       /\ \E mail \in mails : events[i].id = mail.id /\ events[i].channel = route[mail.attempt].code

(* What a provider says of mail that was logged sent is taken, whichever   *)
(* endpoint, spelling of the recipient or writing of the time it uses,     *)
(* unless the event log holds a record that cannot be read; and what is    *)
(* said twice, in two writings, is recorded once.                          *)
NotificationsTakeEffect ==
  /\ (\A i \in DOMAIN events : EventDecodes(events[i])) =>
       \A mail \in mails :
         (\E record \in LatestAttempts : record.no = mail.attempt /\ record.status = "sent") =>
           \A note \in Reports(mail) : Takes(note)
  /\ \A i, j \in DOMAIN events :
       /\ \A field \in DOMAIN events[i] \ {"at"} : events[i][field] = events[j][field]
       /\ Instant(events[i].at) = Instant(events[j].at)
       => i = j

(* The classes of the design document, end to end: with a channel left,    *)
(* the worker gives up only if the provider blamed the message, never      *)
(* goes on once it was told that the mail is accepted, and waits as long   *)
(* as it was asked to, up to the cap, unless a Duration cannot hold it     *)
(* once it is rounded up to full seconds.                                  *)
FallsBackAsTold ==
  /\ \A i \in DOMAIN tried :
       LET retried == i < Len(tried) \/ pc # "done" IN
       /\ ~retried /\ i < AtMost(MaxAttempts, Len(route)) => tried[i].cause \in {"accepted", "message"}
       /\ retried => tried[i].cause # "accepted"
       /\ retried /\ tried[i].asked * Second + Second - 1 <= MaxDuration =>
            tried[i].wait >= AtMost(tried[i].asked, MaxRetryAfter)
=============================================================================
