--------------------------- MODULE WebhookMapping ---------------------------
(* How the three webhook endpoints (internal/api) turn a notification into *)
(* a provider event, or refuse it: MuxMail's own format, Resend's, Brevo's.*)
(*                                                                         *)
(* An instant is written as an RFC 3339 text: a local time, in units       *)
(* within the calendar that four digits of year can write, and an offset.  *)
(* A text outside the calendar, or none at all, does not parse.            *)
EXTENDS DeliveryRules, Sequences

CONSTANTS
  Identifiers, \* what isValidIdentifierFilter accepts, as config does for codes
  MessageIDs,  \* what isValidMessageIDValue accepts
  Normal,      \* NormalizeAddrSpecEmail, on the valid addresses
  Calendar,    \* the last time of year 9999; the first of year 0 is 0
  Tolerance    \* resendWebhookTolerance

ASSUME CalendarAssumption == Calendar \in Nat /\ Tolerance \in Nat
ASSUME NamesAssumption    == "" \notin Identifiers \cup MessageIDs

At(instant, offset) == [local |-> instant + offset, offset |-> offset]
NoTime  == [local |-> -1, offset |-> 0]

Parses(text)  == text.local \in 0..Calendar
Instant(text) == text.local - text.offset

(* Seeded fault: the text is kept as it came. *)
NormalizedAsWritten(text) == text

(* normalizeProviderEventOccurredAt: the same instant, written in UTC. *)
Normalized(text) == At(Instant(text), 0)

-----------------------------------------------------------------------------
(* Authentication. *)

(* svixV1SignatureValues: the tokens that follow a version "v1". *)
SignatureValues(tokens) ==
  {tokens[i + 1] : i \in {j \in 1..(Len(tokens) - 1) : tokens[j] = "v1"}}

(* resendWebhookVerifier.verify: signed at most Tolerance ago or ahead,    *)
(* with one of the signatures that the header lists.                       *)
ResendVerified(note) ==
  /\ note.age \in (-Tolerance)..Tolerance
  /\ "right" \in SignatureValues(note.tokens)

(* The other two ask for a bearer token. *)
Authentic(note) ==
  IF note.hook = "resend" THEN ResendVerified(note) ELSE note.token = "right"

-----------------------------------------------------------------------------
(* The mapping. *)

(* validateProviderEventIdentity, validateProviderEventRecipientEmail *)
Complete(event) ==
  /\ event.app \in Identifiers /\ event.message \in MessageIDs
  /\ event.account \in Identifiers /\ event.channel \in Identifiers
  /\ event.id # ""
  /\ Parses(event.at)
  /\ event.type \in {"bounced", "complained"} => event.recipient \in DOMAIN Normal

(* The event of a complete notification, its time in UTC. *)
Validated(event) ==
  IF Complete(event) THEN {[event EXCEPT !.at = Normalized(@)]} ELSE {}

ResendType ==
  [type \in {"email.delivered", "email.bounced", "email.complained"} |->
     CASE type = "email.delivered"  -> "delivered"
       [] type = "email.bounced"    -> "bounced"
       [] type = "email.complained" -> "complained"]

BrevoType ==
  [type \in {"delivered", "hardBounce", "hard_bounce", "invalid_email", "spam"} |->
     CASE type = "delivered"                                      -> "delivered"
       [] type \in {"hardBounce", "hard_bounce", "invalid_email"} -> "bounced"
       [] type = "spam"                                           -> "complained"]

(* firstNonEmptyString *)
FirstOf(values) ==
  LET named == {i \in DOMAIN values : values[i] # ""}
  IN IF named = {} THEN "" ELSE values[CHOOSE i \in named : \A j \in named : i <= j]

(* decodeResendWebhookEvent.  Tags are a record. *)
ResendEvent(note) ==
  IF note.type \notin DOMAIN ResendType THEN {}
  ELSE Validated(
    [app |-> note.tags.app, message |-> note.tags.message_id, provider |-> "resend",
     account |-> note.tags.provider_account, channel |-> note.tags.provider_channel,
     id |-> note.id, recipient |-> FirstOf(note.to), type |-> ResendType[note.type], at |-> note.at])

(* parseBrevoMetadataTags: the first value given for a name. *)
TagValue(tags, name) == FirstOf([i \in DOMAIN tags |-> IF tags[i].name = name THEN tags[i].value ELSE ""])

(* formatBrevoEventTimestamp *)
BrevoTime(seconds) == IF seconds > 0 THEN At(seconds, 0) ELSE NoTime

(* decodeBrevoWebhookEvent.  Tags are "name:value" texts, those under      *)
(* "tag" before those under "tags".                                        *)
BrevoEvent(note) ==
  LET Tag(name) == TagValue(note.tag \o note.tags, name) IN
  IF note.type \notin DOMAIN BrevoType THEN {}
  ELSE Validated(
    [app |-> Tag("app"), message |-> Tag("message_id"), provider |-> "brevo",
     account |-> Tag("provider_account"), channel |-> Tag("provider_channel"),
     id |-> note.id, recipient |-> note.email, type |-> BrevoType[note.type], at |-> BrevoTime(note.ts_event)])

(* decodeProviderEventRequest *)
GenericEvent(note) ==
  IF note.event.provider \in {"mock", "resend", "brevo"} /\ note.event.type \in EventType
  THEN Validated(note.event) ELSE {}

(* The event a notification is about; none if it is malformed. *)
EventOf(note) ==
  CASE note.hook = "resend"  -> ResendEvent(note)
    [] note.hook = "brevo"   -> BrevoEvent(note)
    [] note.hook = "generic" -> GenericEvent(note)

-----------------------------------------------------------------------------
(* What an adapter writes into the mail for the webhook to read back. *)

(* buildResendPayload *)
ResendTags(app, message, account, channel) ==
  [app |-> app, message_id |-> message, provider_account |-> account, provider_channel |-> channel]

(* buildBrevoPayload *)
BrevoTags(app, message, account, channel) ==
  << [name |-> "app", value |-> app], [name |-> "message_id", value |-> message],
     [name |-> "provider_account", value |-> account], [name |-> "provider_channel", value |-> channel] >>
=============================================================================
