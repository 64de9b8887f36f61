---------------------------- MODULE ExchangeProofs ----------------------------
(***************************************************************************)
(* Proofs about Exchange, for any routes, headers and notifications, any   *)
(* size of the calendar and any width of a Duration.                       *)
(***************************************************************************)
EXTENDS Exchange, SequenceTheorems, TLAPS

Slots     == 1..MaxAttempts
Classes   == {"", Temporary, Channel, Permanent}
Providers == {"mock", "resend", "brevo"}

(* What is written to the attempt log, and to the event log.               *)
AnyRecord ==
  [no : Slots, channel : Identifiers, provider : Providers \cup {""},
   account : Identifiers \cup {""}, transport : {"api", "smtp", ""},
   status : {"sending", "sent", "failed"}, class : Classes,
   id : {""} \cup {Ids[n] : n \in Slots}]

AnyEvent ==
  [app : {App}, message : {Message}, provider : Providers, account : Identifiers,
   channel : Identifiers, id : {Ids[n] : n \in Slots}, type : EventType,
   at : [local : Int, offset : {0}]]

Causes == {"accepted", "busy", "account", "sender", "message", "other", "lost"}

(* What is kept of a mail is what was sent.                                *)
MailKept(mail) ==
  /\ mail.attempt \in Slots \cap 1..Len(route)
  /\ mail.id = Ids[mail.attempt]
  /\ route[mail.attempt].found

(* A record tells the channel of its attempt, as far as it was found, and  *)
(* is sent only if the provider has the mail.                              *)
RecordKept(record) ==
  LET channel == route[record.no] IN
  /\ record.no \in 1..Len(route)
  /\ record.channel = channel.code
  /\ IF channel.found
     THEN /\ record.provider = channel.provider /\ record.account = channel.account
          /\ record.transport = channel.transport
     ELSE /\ record.provider = "" /\ record.account = "" /\ record.transport = ""
          /\ record.status = "failed" /\ record.class = Channel
  /\ record.status = "sent" =>
       /\ channel.found
       /\ record.id \in {"", Ids[record.no]}
       /\ \E mail \in mails : mail.attempt = record.no

(* The types; a worker that is not done has a channel and an attempt     *)
(* left.                                                                 *)
Types ==
  /\ route \in Routes
  /\ pc \in {"ready", "calling", "done"}
  /\ tried \in Seq([cause : Causes, class : Classes, asked : Int, wait : Int])
  /\ pc # "done" => Len(tried) < Len(route) /\ Len(tried) < MaxAttempts
  /\ attempts \in Seq(AnyRecord)
  /\ mails \subseteq [attempt : Slots, id : {Ids[n] : n \in Slots}]
  /\ events \in Seq(AnyEvent)

Records == {attempts[i] : i \in DOMAIN attempts}

Kept ==
  /\ \A mail \in mails : MailKept(mail)
  /\ \A record \in Records : RecordKept(record)

(* The event log. *)
EventsKept ==
  /\ \A i \in DOMAIN events : \E mail \in mails :
       events[i].id = mail.id /\ events[i].channel = route[mail.attempt].code
  /\ \A i, j \in DOMAIN events : events[i] = events[j] => i = j

(* The inductive invariant. *)
IInv == Types /\ Kept /\ EventsKept /\ FallsBackAsTold

-----------------------------------------------------------------------------
(* The route and what its channels have. *)
LEMMA RouteShape ==
  ASSUME Types
  PROVE  /\ Len(route) \in Nat \ {0} /\ MaxAttempts \in Nat \ {0}
         /\ \A n \in 1..Len(route) : route[n] \in Channels
  BY RoutesAssumption DEF Types

(* A record that was kept reads back. *)
LEMMA RecordReads ==
  ASSUME Types, NEW record \in AnyRecord, RecordKept(record)
  PROVE  AttemptDecodes(record)
<1>1. PICK channel \in Channels : channel = route[record.no]
  BY RouteShape DEF RecordKept
<1>2. /\ channel.provider \in {"mock", "resend", "brevo"} /\ channel.account # ""
      /\ channel.code # "" /\ channel.transport \in {"api", "smtp"}
  BY NamesAssumption DEF Channels
<1>3. record.channel = channel.code
  BY <1>1 DEF RecordKept
<1>4. CASE channel.found
  <2>1. /\ record.provider = channel.provider /\ record.account = channel.account
        /\ record.transport = channel.transport
    BY <1>1, <1>4 DEF RecordKept
  <2> QED
    BY <1>2, <1>3, <2>1 DEF AttemptDecodes
<1>5. CASE ~channel.found
  BY <1>1, <1>2, <1>3, <1>5 DEF RecordKept, AttemptDecodes
<1> QED
  BY <1>4, <1>5

(* An event that was kept reads back if its time is in the calendar. *)
LEMMA EventReads ==
  ASSUME NEW event \in AnyEvent
  PROVE  EventDecodes(event) <=> event.at.local \in 0..Calendar
  BY NamesAssumption, IdsAssumption, MessageAssumption
  DEF AnyEvent, EventDecodes, Parses, EventType, Providers, Slots

-----------------------------------------------------------------------------
(* The notifications. *)

(* Two numbers that are no larger than each other. *)
LEMMA Antisymmetric == \A a, b \in Nat : a <= b /\ b <= a => a = b
  OBVIOUS

(* The first value that is not empty. *)
LEMMA FirstNamed ==
  ASSUME NEW values, DOMAIN values \subseteq Nat, NEW n \in DOMAIN values, values[n] # "",
         \A i \in DOMAIN values : values[i] # "" => n <= i
  PROVE  FirstOf(values) = values[n]
<1> DEFINE named == {i \in DOMAIN values : values[i] # ""}
<1>1. FirstOf(values) =
        IF named = {} THEN "" ELSE values[CHOOSE i \in named : \A j \in named : i <= j]
  BY DEF FirstOf
<1>2. n \in named /\ named \subseteq Nat /\ \A j \in named : n <= j
  OBVIOUS
<1> HIDE DEF named
<1>3. ASSUME NEW i \in named PROVE (\A j \in named : i <= j) <=> i = n
  <2>1. i \in Nat /\ n \in Nat /\ n <= i /\ n \in named
    BY <1>2
  <2>2. (\A j \in named : i <= j) => i <= n
    BY <2>1
  <2>3. i <= n => i = n
    BY <2>1, Antisymmetric
  <2> QED
    BY <1>2, <2>2, <2>3
<1>4. (CHOOSE i \in named : \A j \in named : i <= j) = n
  BY <1>2, <1>3
<1> QED
  BY <1>1, <1>2, <1>4

(* What the webhook reads in tags. *)
ReadBack(tags, account, channel) ==
  /\ TagValue(tags, "app") = App
  /\ TagValue(tags, "message_id") = Message
  /\ TagValue(tags, "provider_account") = account
  /\ TagValue(tags, "provider_channel") = channel

(* The tags that an adapter writes are the ones that the webhook reads,    *)
(* whether Brevo sends them once or twice.                                 *)
LEMMA TagsReadBack ==
  ASSUME NEW account \in Identifiers, NEW channel \in Identifiers,
         NEW first, first = << >> \/ first = BrevoTags(App, Message, account, channel),
         NEW tags, tags = first \o BrevoTags(App, Message, account, channel)
  PROVE  ReadBack(tags, account, channel)
<1> DEFINE written == BrevoTags(App, Message, account, channel)
<1>1. /\ Len(written) = 4 /\ DOMAIN written = 1..4
      /\ written[1] = [name |-> "app", value |-> App]
      /\ written[2] = [name |-> "message_id", value |-> Message]
      /\ written[3] = [name |-> "provider_account", value |-> account]
      /\ written[4] = [name |-> "provider_channel", value |-> channel]
  BY DEF BrevoTags
<1>2. PICK S : written[1] \in S /\ written[2] \in S /\ written[3] \in S /\ written[4] \in S
                /\ written \in Seq(S)
  <2>1. PICK S : S = {written[1], written[2], written[3], written[4]}
    OBVIOUS
  <2>2. \A a, b, c, d \in S : <<a, b, c, d>> \in Seq(S)
    OBVIOUS
  <2>3. written = <<written[1], written[2], written[3], written[4]>>
    BY DEF BrevoTags
  <2> QED
    BY <2>1, <2>2, <2>3
<1>3. tags = first \o written
  OBVIOUS
<1>4. first = << >> \/ first = written
  OBVIOUS
<1> HIDE DEF written
<1>5. /\ DOMAIN tags = 1..4 \/ DOMAIN tags = 1..8
      /\ \A i \in 1..4 : tags[i] = written[i]
      /\ \A i \in DOMAIN tags : i \in 1..4 \/ (i - 4 \in 1..4 /\ tags[i] = written[i - 4])
  <2>1. CASE first = << >>
    BY <1>1, <1>2, <1>3, <2>1
  <2>2. CASE first = written
    <3>1. tags = written \o written
      BY <1>3, <2>2
    <3>2. Len(written) = 4 /\ written \in Seq(S)
      BY <1>1, <1>2
    <3>3. /\ tags \in Seq(S) /\ Len(tags) = 8
          /\ \A i \in 1..8 : tags[i] = IF i <= 4 THEN written[i] ELSE written[i - 4]
      <4>1. PICK both : both = written \o written
        OBVIOUS
      <4>2. /\ both \in Seq(S) /\ Len(both) = Len(written) + Len(written)
            /\ \A i \in 1..(Len(written) + Len(written)) :
                 both[i] = IF i <= Len(written) THEN written[i] ELSE written[i - Len(written)]
        BY <3>2, <4>1, ConcatProperties
      <4> QED
        BY <3>1, <3>2, <4>1, <4>2
    <3>4. DOMAIN tags = 1..8
      BY <3>3
    <3>5. \A i \in 1..4 : i \in 1..8 /\ i <= 4
      OBVIOUS
    <3>6. \A i \in 1..8 : IF i <= 4 THEN i \in 1..4 ELSE i - 4 \in 1..4
      OBVIOUS
    <3> QED
      BY <3>3, <3>4, <3>5, <3>6
  <2> QED
    BY <1>4, <2>1, <2>2
<1>6. \A i \in 1..4 : i = 1 \/ i = 2 \/ i = 3 \/ i = 4
  OBVIOUS
<1>7. ASSUME NEW n \in 1..4 PROVE TagValue(tags, written[n].name) = written[n].value
  <2>1. PICK name : name = written[n].name
    OBVIOUS
  <2>2. PICK values :
          values = [i \in DOMAIN tags |-> IF tags[i].name = name THEN tags[i].value ELSE ""]
    OBVIOUS
  <2>3. \A i \in 1..4 : written[i].name = name => i = n
    BY <1>1, <1>6, <2>1
  <2>4. written[n].value # ""
    <3>1. App # "" /\ Message # "" /\ account # "" /\ channel # ""
      BY MessageAssumption, NamesAssumption
    <3>2. /\ written[1].value = App /\ written[2].value = Message
          /\ written[3].value = account /\ written[4].value = channel
      BY <1>1
    <3> QED
      BY <1>6, <3>1, <3>2
  <2>5. n \in DOMAIN tags /\ DOMAIN values = DOMAIN tags /\ values[n] = written[n].value
    <3>1. n \in DOMAIN tags /\ tags[n] = written[n]
      BY <1>5
    <3> QED
      BY <2>1, <2>2, <3>1
  <2>6. ASSUME NEW i \in DOMAIN values, values[i] # "" PROVE n <= i
    <3>1. i \in DOMAIN tags /\ tags[i].name = name
      BY <2>2, <2>6
    <3>2. CASE i \in 1..4
      <4>1. tags[i] = written[i]
        BY <1>5, <3>2
      <4>2. i = n
        BY <2>3, <3>1, <3>2, <4>1
      <4>3. \A a \in 1..4 : a <= a
        OBVIOUS
      <4> QED
        BY <4>2, <4>3
    <3>3. CASE i - 4 \in 1..4
      <4>1. \A a \in Int, b \in 1..4 : a - 4 \in 1..4 => b <= a
        OBVIOUS
      <4>2. i \in Int
        BY <1>5, <3>1
      <4> QED
        BY <3>3, <4>1, <4>2
    <3> QED
      BY <1>5, <3>1, <3>2, <3>3
  <2>7. DOMAIN values \subseteq Nat
    BY <1>5, <2>5
  <2>8. FirstOf(values) = written[n].value
    BY <2>4, <2>5, <2>6, <2>7, FirstNamed
  <2> QED
    BY <2>1, <2>2, <2>8 DEF TagValue
<1> QED
  <2>1. \A n \in 1..4 : TagValue(tags, written[n].name) = written[n].value
    BY <1>7
  <2>2. 1 \in 1..4 /\ 2 \in 1..4 /\ 3 \in 1..4 /\ 4 \in 1..4
    OBVIOUS
  <2>3. /\ written[1].name = "app" /\ written[2].name = "message_id"
        /\ written[3].name = "provider_account" /\ written[4].name = "provider_channel"
        /\ written[1].value = App /\ written[2].value = Message
        /\ written[3].value = account /\ written[4].value = channel
    BY <1>1
  <2> QED
    BY <2>1, <2>2, <2>3 DEF ReadBack

(* What the channels of mails are like. *)
LEMMA MailShape ==
  ASSUME Types, NEW mail \in mails, MailKept(mail)
  PROVE  /\ mail.attempt \in Slots /\ mail.id = Ids[mail.attempt] /\ mail.id # ""
         /\ mail.attempt \in 1..Len(route)
         /\ route[mail.attempt] \in Channels
  BY RouteShape, IdsAssumption DEF MailKept, Slots

(* What is validated is complete, and is what was sent with its time in    *)
(* UTC.                                                                    *)
Sent(mail) ==
  LET channel == route[mail.attempt] IN
  [app : {App}, message : {Message}, provider : {channel.provider}, account : {channel.account},
   channel : {channel.code}, id : {mail.id}, recipient : Spellings, type : EventType,
   at : [local : Int, offset : Int]]

(* An event that passes validation is what was sent, its time in UTC. *)
LEMMA ValidatedEvents ==
  ASSUME Types, NEW mail \in mails, MailKept(mail), NEW sent \in Sent(mail),
         NEW event \in Validated(sent)
  PROVE  /\ event \in Sent(mail)
         /\ event.at \in [local : Int, offset : {0}]
<1>1. event = [sent EXCEPT !.at = Normalized(@)]
  BY DEF Validated
<1>2. sent.at \in [local : Int, offset : Int]
  BY DEF Sent
<1>3. Normalized(sent.at) \in [local : Int, offset : {0}]
  BY <1>2 DEF Normalized, At, Instant
<1> QED
  BY <1>1, <1>3 DEF Sent

(* One whose time is in the calendar passes. *)
LEMMA CompleteEvents ==
  ASSUME Types, NEW mail \in mails, MailKept(mail), NEW sent \in Sent(mail),
         sent.at.local \in 0..Calendar
  PROVE  Validated(sent) # {}
<1>1. Complete(sent)
  BY MailShape, MessageAssumption DEF Sent, Complete, Parses, Channels
<1> QED
  BY <1>1 DEF Validated

(* One recipient in a list, and a good signature among others.             *)
LEMMA OneRecipient == ASSUME NEW s PROVE FirstOf(<<s>>) = s
<1>1. PICK values : values = <<s>>
  OBVIOUS
<1>2. DOMAIN values = {1} /\ values[1] = s
  BY <1>1
<1>3. CASE s = ""
  <2>1. {i \in DOMAIN values : values[i] # ""} = {}
    BY <1>2, <1>3
  <2> QED
    BY <1>1, <1>3, <2>1 DEF FirstOf
<1>4. CASE s # ""
  <2>1. /\ DOMAIN values \subseteq Nat /\ 1 \in DOMAIN values /\ values[1] # ""
    <3>1. {1} \subseteq Nat /\ 1 \in {1}
      OBVIOUS
    <3> QED
      BY <1>2, <1>4, <3>1
  <2> HIDE DEF FirstOf
  <2>2. \A i \in DOMAIN values : values[i] # "" => 1 <= i
    <3>1. \A i \in {1} : 1 <= i
      OBVIOUS
    <3> QED
      BY <1>2, <3>1
  <2>3. FirstOf(values) = values[1]
    BY <2>1, <2>2, FirstNamed
  <2> QED
    BY <1>1, <1>2, <2>3
<1> QED
  BY <1>3, <1>4

(* Of two signatures, one right one suffices. *)
LEMMA GoodSignature ==
  ASSUME NEW tokens \in {<<"v1", "right">>, <<"v1", "wrong", "v1", "right">>}
  PROVE  "right" \in SignatureValues(tokens)
<1>1. CASE tokens = <<"v1", "right">>
  BY <1>1 DEF SignatureValues
<1>2. CASE tokens = <<"v1", "wrong", "v1", "right">>
  <2>1. 3 \in {j \in 1..(Len(tokens) - 1) : tokens[j] = "v1"} /\ tokens[3 + 1] = "right"
    BY <1>2
  <2> QED
    BY <2>1 DEF SignatureValues
<1> QED
  BY <1>1, <1>2

(* The event of any notification about a mail is what was sent, and is     *)
(* refused only for its time, if the provider itself reports it.           *)
LEMMA ReportedEvents ==
  ASSUME Types, NEW mail \in mails, MailKept(mail), NEW note \in Reports(mail)
  PROVE  /\ Authentic(note)
         /\ \E sent \in Sent(mail) :
              EventOf(note) = Validated(sent) /\ sent.at.local \in 0..Calendar
<1> DEFINE channel == route[mail.attempt]
<1>1. channel \in Channels /\ channel.account \in Identifiers /\ channel.code \in Identifiers
  BY MailShape DEF Channels
<1>2. CASE channel.provider = "resend" /\ channel.transport = "api"
  <2>1. /\ note.hook = "resend" /\ note.age \in {-Tolerance, Tolerance}
        /\ note.tokens \in {<<"v1", "right">>, <<"v1", "wrong", "v1", "right">>}
        /\ note.type \in DOMAIN ResendType
        /\ note.tags = ResendTags(App, Message, channel.account, channel.code)
        /\ note.id = mail.id /\ note.to \in {<<s>> : s \in Spellings}
        /\ note.at \in {At(t, 0) : t \in Instants \cap 1..Calendar}
    BY <1>2 DEF Reports
  <2>2. PICK s \in Spellings : note.to = <<s>>
    BY <2>1
  <2>3. PICK t \in Instants \cap 1..Calendar : note.at = At(t, 0)
    BY <2>1
  <2>4. ResendType[note.type] \in EventType
    BY <2>1 DEF ResendType, EventType
  <2>5. PICK sent :
          sent = [app |-> App, message |-> Message, provider |-> "resend",
                  account |-> channel.account, channel |-> channel.code, id |-> mail.id,
                  recipient |-> s, type |-> ResendType[note.type], at |-> note.at]
    OBVIOUS
  <2>6. note.at \in [local : Int, offset : Int] /\ note.at.local \in 0..Calendar
    BY <2>3, TimesAssumption, CalendarAssumption DEF At
  <2>7. sent \in Sent(mail) /\ sent.at.local \in 0..Calendar
    BY <1>2, <2>4, <2>5, <2>6 DEF Sent
  <2>8. EventOf(note) = Validated(sent)
    BY <2>1, <2>2, <2>5, OneRecipient DEF EventOf, ResendEvent, ResendTags
  <2>9. Authentic(note)
    BY <2>1, GoodSignature, CalendarAssumption DEF Authentic, ResendVerified
  <2> QED
    BY <2>7, <2>8, <2>9
<1>3. CASE channel.provider = "brevo" /\ channel.transport = "api"
  <2>1. PICK written : written = BrevoTags(App, Message, channel.account, channel.code)
    OBVIOUS
  <2>2. /\ note.hook = "brevo" /\ note.token = "right"
        /\ note.type \in DOMAIN BrevoType
        /\ note.tag \in {<< >>, written} /\ note.tags = written
        /\ note.id = mail.id /\ note.email \in Spellings
        /\ note.ts_event \in Instants \cap 1..Calendar
    BY <1>3, <2>1 DEF Reports
  <2>3. /\ TagValue(note.tag \o note.tags, "app") = App
        /\ TagValue(note.tag \o note.tags, "message_id") = Message
        /\ TagValue(note.tag \o note.tags, "provider_account") = channel.account
        /\ TagValue(note.tag \o note.tags, "provider_channel") = channel.code
    <3>1. note.tag \in {<< >>, BrevoTags(App, Message, channel.account, channel.code)}
      BY <2>1, <2>2
    <3>2. note.tag \o note.tags =
            note.tag \o BrevoTags(App, Message, channel.account, channel.code)
      BY <2>1, <2>2
    <3>3. PICK account, code : account = channel.account /\ code = channel.code
      OBVIOUS
    <3>4. PICK tags : tags = note.tag \o note.tags
      OBVIOUS
    <3>5. /\ account \in Identifiers /\ code \in Identifiers
          /\ note.tag = << >> \/ note.tag = BrevoTags(App, Message, account, code)
          /\ tags = note.tag \o BrevoTags(App, Message, account, code)
      BY <1>1, <3>1, <3>2, <3>3, <3>4
    <3>6. /\ TagValue(tags, "app") = App /\ TagValue(tags, "message_id") = Message
          /\ TagValue(tags, "provider_account") = account
          /\ TagValue(tags, "provider_channel") = code
      <4>1. ReadBack(tags, account, code)
        BY <3>5, TagsReadBack
      <4> QED
        BY <4>1 DEF ReadBack
    <3> QED
      BY <3>3, <3>4, <3>6
  <2>4. BrevoType[note.type] \in EventType
    BY <2>2 DEF BrevoType, EventType
  <2>5. /\ BrevoTime(note.ts_event) \in [local : Int, offset : Int]
        /\ BrevoTime(note.ts_event).local \in 0..Calendar
    BY <2>2, CalendarAssumption DEF BrevoTime, At
  <2>6. PICK sent :
          sent = [app |-> App, message |-> Message, provider |-> "brevo",
                  account |-> channel.account, channel |-> channel.code, id |-> mail.id,
                  recipient |-> note.email, type |-> BrevoType[note.type],
                  at |-> BrevoTime(note.ts_event)]
    OBVIOUS
  <2>7. sent \in Sent(mail) /\ sent.at.local \in 0..Calendar
    BY <1>3, <2>2, <2>4, <2>5, <2>6 DEF Sent
  <2>8. EventOf(note) = Validated(sent)
    BY <2>2, <2>3, <2>6 DEF EventOf, BrevoEvent
  <2> QED
    BY <2>2, <2>7, <2>8 DEF Authentic
<1> QED
  BY <1>2, <1>3 DEF Reports

(* The same of MuxMail's own format. *)
LEMMA GenericEvents ==
  ASSUME Types, NEW mail \in mails, MailKept(mail), NEW note \in GenericReports(mail),
         NEW event \in EventOf(note)
  PROVE  \E sent \in Sent(mail) : event \in Validated(sent)
<1>1. note.hook = "generic" /\ note.event \in Sent(mail)
  <2>1. {At(t, o) : t \in Instants, o \in Offsets} \subseteq [local : Int, offset : Int]
    BY TimesAssumption DEF At
  <2> QED
    BY <2>1 DEF GenericReports, Sent
<1>2. event \in Validated(note.event)
  BY <1>1 DEF EventOf, GenericEvent
<1> QED
  BY <1>1, <1>2

-----------------------------------------------------------------------------
(* The answers. *)

(* Division rounds down. *)
LEMMA Division ==
  ASSUME NEW a \in Int, NEW b \in Nat \ {0}
  PROVE  /\ a \div b \in Int
         /\ (a \div b) * b <= a
         /\ a < (a \div b) * b + b
  OBVIOUS

(* A time that a Duration can hold is read as it is asked for.             *)
LEMMA AskedIsRead ==
  ASSUME NEW header \in {NoHeader} \cup Headers
  PROVE  /\ Asked(header) \in Nat /\ RetryAfterSeconds(header) \in Int
         /\ Asked(header) * Second + Second - 1 <= MaxDuration =>
              RetryAfterSeconds(header) = Asked(header)
<1>1. /\ Second \in Nat \ {0} /\ MaxDuration \in Nat /\ MaxInt \in Nat
      /\ MaxDuration <= MaxInt
  BY DurationAssumption
<1>2. CASE header = NoHeader
  BY <1>2 DEF NoHeader, Asked, RetryAfterSeconds, AtLeast
<1>3. CASE header \in [form : {"seconds"}, value : Int]
  <2>1. header.form = "seconds" /\ header.value \in Int
    BY <1>3
  <2>2. PICK v \in Int : v = header.value
    BY <2>1
  <2>3. /\ Asked(header) = IF 0 > v THEN 0 ELSE v
        /\ RetryAfterSeconds(header) = IF v \in 1..MaxInt THEN v ELSE 0
    BY <2>1, <2>2 DEF Asked, RetryAfterSeconds, AtLeast
  <2>4. \A n \in Nat : n <= n * Second
    BY <1>1
  <2>5. \A n \in Nat : n * Second \in Nat
    BY <1>1
  <2>6. \A n \in Nat : n * Second + Second - 1 <= MaxDuration => n <= MaxInt
    BY <1>1, <2>4, <2>5
  <2> QED
    BY <1>1, <2>3, <2>6
<1>4. CASE header \in [form : {"date"}, value : Int]
  <2>1. header.form = "date" /\ header.value \in Int
    BY <1>4
  <2>2. PICK v \in Int : v = header.value
    BY <2>1
  <2>3. v + Second - 1 \in Int
    BY <1>1
  <2>4. PICK q \in Int : q = (v + Second - 1) \div Second
    BY <1>1, <2>3, Division
  <2>5. q * Second \in Int /\ q * Second <= v + Second - 1
        /\ v + Second - 1 < q * Second + Second
    BY <1>1, <2>3, <2>4, Division
  <2>6. Asked(header) = IF 0 > q THEN 0 ELSE q
    BY <2>1, <2>2, <2>4 DEF Asked, AtLeast
  <2>7. RetryAfterSeconds(header) = SecondsUntil(v)
    BY <2>1, <2>2 DEF RetryAfterSeconds
  <2>8. SecondsUntil(v) \in Int
    <3>1. \A d \in Int : Wrap(d) \in Int
      BY <1>1 DEF Wrap
    <3>2. PICK d \in Int : d = IF v > MaxDuration THEN MaxDuration ELSE v
      BY <1>1
    <3>3. d + Second - 1 \in Int
      BY <1>1
    <3>4. Wrap(d + Second - 1) \div Second \in Int
      BY <1>1, <3>1, <3>3, Division
    <3> QED
      BY <3>2, <3>4 DEF SecondsUntil
  <2>9. CASE v <= 0
    <3>1. q <= 0
      <4>1. q >= 1 => q * Second >= Second
        BY <1>1
      <4> QED
        BY <1>1, <2>5, <2>9, <4>1
    <3>2. SecondsUntil(v) = 0
      BY <1>1, <2>9 DEF SecondsUntil
    <3> QED
      BY <2>6, <2>7, <2>8, <3>1, <3>2
  <2>10. CASE v > 0
    <3>1. q >= 0
      <4>1. q < 0 => q * Second <= 0 - Second
        BY <1>1
      <4> QED
        BY <1>1, <2>5, <2>10, <4>1
    <3>2. Asked(header) = q
      BY <2>6, <3>1
    <3>3. ASSUME q * Second + Second - 1 <= MaxDuration PROVE SecondsUntil(v) = q
      <4>1. v + Second - 1 <= MaxDuration /\ v <= MaxDuration /\ v + Second - 1 >= 0
        BY <1>1, <2>5, <2>10, <3>3
      <4>2. Wrap(v + Second - 1) = v + Second - 1
        BY <1>1, <4>1 DEF Wrap
      <4> QED
        BY <1>1, <2>4, <2>10, <4>1, <4>2 DEF SecondsUntil
    <3> QED
      BY <2>7, <2>8, <3>1, <3>2, <3>3
  <2> QED
    BY <2>9, <2>10
<1> QED
  BY <1>2, <1>3, <1>4, HeadersAssumption

(* A wait is never shorter than what was read, up to the cap.              *)
LEMMA WaitIsLongEnough ==
  ASSUME NEW n \in Nat, NEW seconds \in Int
  PROVE  /\ RetryDelay(n, seconds) \in Int
         /\ RetryDelay(n, seconds) >= AtMost(seconds, MaxRetryAfter)
<1>1. MaxRetryAfter \in Nat /\ BackoffBefore(n) \in Nat
  BY RetryAssumption DEF BackoffBefore
<1> QED
  BY <1>1 DEF RetryDelay, AtMost, AtLeast

(* What the worker makes of an answer, and of one that names the id.       *)
Answered(result, cause, header) ==
  /\ cause \in Causes /\ header \in {NoHeader} \cup Headers
  /\ result.class \in Classes
  /\ result.class = "" <=> cause = "accepted"
  /\ result.class = Permanent => cause = "message"
  /\ result.retryAfter = RetryAfterSeconds(header)

ToldBy(answer, id) ==
  /\ Answered(Result(answer), answer.cause, answer.retryAfter)
  /\ Result(answer).id \in {"", id}

(* A result tells of an answer what the worker has to know of it. *)
LEMMA ResultTold ==
  ASSUME NEW id, NEW answer, NEW class \in Classes, NEW given \in {"", id},
         Result(answer) = [class |-> class, id |-> given,
                           retryAfter |-> RetryAfterSeconds(answer.retryAfter)],
         answer.cause \in Causes, answer.retryAfter \in {NoHeader} \cup Headers,
         class = "" <=> answer.cause = "accepted",
         class = Permanent => answer.cause = "message"
  PROVE  ToldBy(answer, id)
<1>1. PICK seconds : seconds = RetryAfterSeconds(answer.retryAfter)
  OBVIOUS
<1>2. PICK result : result = Result(answer)
  OBVIOUS
<1>3. result = [class |-> class, id |-> given, retryAfter |-> seconds]
  BY <1>1, <1>2
<1>4. result.class = class /\ result.id = given /\ result.retryAfter = seconds
  BY <1>3
<1> QED
  BY <1>1, <1>2, <1>4 DEF ToldBy, Answered

(* A silence, and an SMTP dialogue.                                        *)
LEMMA SilenceTold ==
  ASSUME NEW id, NEW answer \in Silences
  PROVE  ToldBy(answer, id)
<1>1. RetryAfterSeconds(NoHeader) = 0
  BY DEF RetryAfterSeconds, NoHeader
<1>2. answer.form = "none" /\ answer.retryAfter = NoHeader
  BY DEF Silences
<1>3. Result(answer) = Failed(IF answer.cause = "account" THEN Channel ELSE Temporary)
  BY <1>2 DEF Result
<1>4. /\ answer.cause \in {"account", "busy", "lost"}
      /\ answer.cause \in Causes /\ answer.cause # "accepted"
  BY DEF Silences, Causes
<1>5. PICK class \in {Channel, Temporary} : Result(answer) = Failed(class)
  BY <1>3
<1>6. class \in Classes /\ class # "" /\ class # Permanent
  BY DEF Classes, Channel, Temporary, Permanent
<1> QED
  BY <1>1, <1>2, <1>4, <1>5, <1>6, ResultTold DEF Failed

(* The replies of an SMTP server. *)
LEMMA SMTPTold ==
  ASSUME NEW id, NEW answer \in SMTPAnswers
  PROVE  ToldBy(answer, id)
<1>1. RetryAfterSeconds(NoHeader) = 0
  BY DEF RetryAfterSeconds, NoHeader
<1>2. answer.form = "smtp" /\ answer.retryAfter = NoHeader
  BY DEF SMTPAnswers, SMTPReplies
<1>3. Result(answer) = SMTPResult(answer)
  BY <1>2 DEF Result
<1>4. CASE answer \in SMTPReplies("accepted", {"quit"}, {0})
  <2>1. answer.stage = "quit" /\ answer.cause = "accepted"
    BY <1>4 DEF SMTPReplies
  <2>2. Result(answer) = Accepted("")
    BY <1>3, <2>1 DEF SMTPResult
  <2>3. "" \in Classes /\ "" # Permanent /\ answer.cause \in Causes
    BY <2>1 DEF Classes, Permanent, Causes
  <2> QED
    BY <1>1, <1>2, <2>1, <2>2, <2>3, ResultTold DEF Accepted
<1>5. ASSUME answer \notin SMTPReplies("accepted", {"quit"}, {0})
      PROVE  /\ answer.stage # "quit" /\ answer.cause \in Causes /\ answer.cause # "accepted"
             /\ SMTPClass(answer.stage, answer.code) \in {Temporary, Channel, Permanent}
             /\ SMTPClass(answer.stage, answer.code) = Permanent => answer.cause = "message"
  <2>1. CASE answer.code \in {0, 450}
    BY <1>5, <2>1
    DEF SMTPAnswers, SMTPReplies, SMTPClass, Temporary, Channel, Permanent, Causes
  <2>2. CASE answer.code = 550
    BY <1>5, <2>2
    DEF SMTPAnswers, SMTPReplies, SMTPClass, Temporary, Channel, Permanent, Causes
  <2> QED
    BY <2>1, <2>2 DEF SMTPAnswers, SMTPReplies
<1>6. CASE answer \notin SMTPReplies("accepted", {"quit"}, {0})
  <2>1. SMTPResult(answer) = Failed(SMTPClass(answer.stage, answer.code))
    BY <1>5, <1>6 DEF SMTPResult
  <2>2. PICK class \in {Temporary, Channel, Permanent} :
          class = SMTPClass(answer.stage, answer.code)
    BY <1>5, <1>6
  <2>3. class \in Classes /\ class # ""
    BY DEF Classes, Temporary, Channel, Permanent
  <2>4. Result(answer) = [class |-> class, id |-> "", retryAfter |-> 0]
    BY <1>3, <2>1, <2>2 DEF Failed
  <2> QED
    BY <1>1, <1>2, <1>5, <1>6, <2>2, <2>3, <2>4, ResultTold
<1> QED
  BY <1>4, <1>6

(* An HTTP answer: whatever is refused with 400 or 422 and not blamed on   *)
(* the message has the words or the name that blame the channel.           *)
LEMMA RefusalTold ==
  ASSUME NEW form \in {"resend", "brevo"}, NEW answer \in HTTPRefusals(form)
  PROVE  LET busy  == IF form = "resend" THEN ResendBusy(answer.status)
                      ELSE BrevoBusy(answer.status)
             fault == IF form = "resend" THEN ResendChannelFault(answer.status, answer.error)
                      ELSE BrevoChannelFault(answer.status, answer.error)
             class == HTTPClass(busy, fault, Rejected(answer.status))
         IN  /\ answer.form = form /\ answer.status \notin 200..299
             /\ answer.cause \in Causes \ {"accepted"} /\ answer.retryAfter \in Headers
             /\ class \in {Temporary, Channel, Permanent}
             /\ class = Permanent => answer.cause = "message"
<1> DEFINE busy  == IF form = "resend" THEN ResendBusy(answer.status)
                    ELSE BrevoBusy(answer.status)
           fault == IF form = "resend" THEN ResendChannelFault(answer.status, answer.error)
                    ELSE BrevoChannelFault(answer.status, answer.error)
           class == HTTPClass(busy, fault, Rejected(answer.status))
<1>1. /\ answer.form = form /\ answer.status \notin 200..299
      /\ answer.cause \in Causes \ {"accepted"} /\ answer.retryAfter \in Headers
  <2>1. PICK cause, statuses, errors :
          /\ answer \in Refusal(form, cause, statuses, errors)
          /\ cause \in Causes \ {"accepted"} /\ 200..299 \cap statuses = {}
    BY DEF HTTPRefusals, Causes
  <2> QED
    BY <2>1 DEF Refusal
<1>2. /\ class \in {Temporary, Channel, Permanent}
      /\ class = Permanent => ~busy /\ ~fault /\ Rejected(answer.status)
  BY DEF HTTPClass, Temporary, Channel, Permanent
<1>3. ASSUME Rejected(answer.status), answer.cause # "message" PROVE fault
  <2>1. \/ answer \in Refusal(form, "account", {400, 422}, ChannelError)
        \/ answer \in Refusal(form, "sender", {400, 422}, SenderError(form))
    <3>1. \A cause, statuses, errors :
            answer \in Refusal(form, cause, statuses, errors) =>
              answer.cause = cause /\ answer.status \in statuses
      BY DEF Refusal
    <3>2. answer.status \in {400, 422}
      BY <1>3 DEF Rejected
    <3>3. /\ {400, 422} \cap ({429, 500} \cup (IF form = "brevo" THEN {408} ELSE {})) = {}
          /\ {400, 422} \cap ({401, 403} \cup (IF form = "brevo" THEN {402} ELSE {})) = {}
          /\ {400, 422} \cap {403} = {} /\ {400, 422} \cap {404} = {}
      OBVIOUS
    <3> QED
      BY <1>3, <3>1, <3>2, <3>3 DEF HTTPRefusals
  <2>2. CASE answer.error \in ChannelError
    BY <2>2 DEF ChannelError, ResendChannelFault, BrevoChannelFault
  <2>3. CASE answer.error \in SenderError(form)
    <3>1. CASE answer.error.words = {"sender"}
      BY <3>1 DEF ResendChannelFault, BrevoChannelFault, SenderHint
    <3>2. CASE answer.error.words = {"domain", "unverified"}
      BY <3>2
      DEF ResendChannelFault, BrevoChannelFault, UnverifiedHint, BrevoDomainHint
    <3>3. CASE form = "brevo" /\ answer.error.words = {"domain", "not allowed"}
      <4>1. BrevoDomainHint(answer.error)
        BY <3>3 DEF BrevoDomainHint
      <4> QED
        BY <3>3, <4>1 DEF BrevoChannelFault
    <3> QED
      BY <2>3, <3>1, <3>2, <3>3 DEF SenderError
  <2> QED
    BY <2>1, <2>2, <2>3 DEF Refusal
<1> HIDE DEF busy, fault, class
<1>4. class = Permanent => answer.cause = "message"
  BY <1>2, <1>3
<1> QED
  BY <1>1, <1>2, <1>4 DEF busy, fault, class

(* Every answer that a channel can give.                                   *)
LEMMA AnswerTold ==
  ASSUME NEW channel \in Channels, NEW id, NEW answer \in Answers(channel, id)
  PROVE  ToldBy(answer, id)
<1>1. RetryAfterSeconds(NoHeader) = 0
  BY DEF RetryAfterSeconds, NoHeader
<1>2. CASE channel.provider = "mock" /\ channel.transport # "smtp"
  <2>1. answer = [form |-> "mock", cause |-> "accepted", retryAfter |-> NoHeader, id |-> id]
    <3>1. PICK mail : mail = [form |-> "mock", cause |-> "accepted",
                              retryAfter |-> NoHeader, id |-> id]
      OBVIOUS
    <3>2. Answers(channel, id) = {mail}
      BY <1>2, <3>1 DEF Answers
    <3> QED
      BY <3>1, <3>2
  <2>2. Result(answer) = [class |-> "", id |-> id, retryAfter |-> 0]
    BY <2>1 DEF Result, Accepted
  <2>3. "" \in Classes /\ "" # Permanent /\ answer.cause \in Causes
    BY <2>1 DEF Classes, Permanent, Causes
  <2> QED
    BY <1>1, <2>1, <2>2, <2>3, ResultTold
<1>3. CASE channel.provider # "mock" /\ channel.transport = "smtp"
  BY <1>3, SMTPTold, SilenceTold DEF Answers
<1>4. CASE channel.provider # "mock" /\ channel.transport # "smtp"
  <2>1. PICK form \in {"resend", "brevo"} : form = channel.provider
    BY <1>4 DEF Channels
  <2>2. answer \in HTTPAcceptances(form, id) \cup HTTPRefusals(form) \cup Silences
    BY <1>4, <2>1 DEF Answers
  <2>3. CASE answer \in HTTPAcceptances(form, id)
    <3>1. /\ answer.form \in {"resend", "brevo"} /\ answer.cause = "accepted"
          /\ answer.status \in 200..299 /\ answer.retryAfter = NoHeader
             /\ answer.id \in {"", id}
      <4>1. 200 \in 200..299
        OBVIOUS
      <4> QED
        BY <2>3, <4>1 DEF HTTPAcceptances
    <3>2. Result(answer) = Accepted(answer.id)
      BY <3>1 DEF Result, ResendResult, BrevoResult
    <3>3. "" \in Classes /\ "" # Permanent /\ answer.cause \in Causes
      BY <3>1 DEF Classes, Permanent, Causes
    <3> QED
      BY <1>1, <3>1, <3>2, <3>3, ResultTold DEF Accepted
  <2>4. CASE answer \in HTTPRefusals(form)
    <3>1. PICK class \in {Temporary, Channel, Permanent} :
            /\ class = Permanent => answer.cause = "message"
            /\ Result(answer) = HTTPFailed(class, answer)
            /\ answer.cause \in Causes \ {"accepted"} /\ answer.retryAfter \in Headers
      <4>1. CASE form = "resend"
        BY <2>4, <4>1, RefusalTold DEF Result, ResendResult
      <4>2. CASE form = "brevo"
        BY <2>4, <4>2, RefusalTold DEF Result, BrevoResult
      <4> QED
        BY <2>1, <4>1, <4>2
    <3>2. class \in Classes /\ class # ""
      BY DEF Classes, Temporary, Channel, Permanent
    <3>3. Result(answer) = [class |-> class, id |-> "",
                            retryAfter |-> RetryAfterSeconds(answer.retryAfter)]
      BY <3>1 DEF HTTPFailed, Failed
    <3> QED
      BY <3>1, <3>2, <3>3, ResultTold
  <2> QED
    BY <2>2, <2>3, <2>4, SilenceTold
<1> QED
  BY <1>2, <1>3, <1>4 DEF Channels, SupportsTransport

-----------------------------------------------------------------------------
(* The invariant. *)

(* Nothing was tried, recorded or reported yet. *)
LEMMA InitInv == Init => IInv
<1> SUFFICES ASSUME Init PROVE IInv
  OBVIOUS
<1>1. Len(route) \in Nat \ {0} /\ route \in Routes
  BY RoutesAssumption DEF Init
<1>2. MaxAttempts \in Nat \ {0}
  BY RoutesAssumption
<1>3. Types
  BY <1>1, <1>2 DEF Init, Types
<1>4. Kept /\ EventsKept
  BY DEF Init, Kept, Records, EventsKept
<1>5. FallsBackAsTold
  BY DEF Init, FallsBackAsTold
<1> QED
  BY <1>3, <1>4, <1>5 DEF IInv

(* There is room for one more. *)
LEMMA OneMore == \A n, m \in Nat : n < m => n + 1 \in 1..m
  OBVIOUS

(* The attempt that is next. *)
LEMMA NextSlot ==
  ASSUME Types, pc # "done"
  PROVE  AttemptNo \in Slots \cap 1..Len(route) /\ AttemptNo = Len(tried) + 1
<1>1. /\ Len(tried) < Len(route) /\ Len(tried) < MaxAttempts
      /\ \E S : tried \in Seq(S)
  BY DEF Types
<1>2. Len(tried) \in Nat /\ Len(route) \in Nat /\ MaxAttempts \in Nat
  BY <1>1, RouteShape, LenProperties
<1>3. PICK n \in Nat, m \in Nat : n = Len(tried) /\ m = Len(route)
  BY <1>2
<1>4. n < m /\ n < MaxAttempts
  BY <1>1, <1>3
<1>5. n + 1 \in 1..m /\ n + 1 \in 1..MaxAttempts
  BY <1>2, <1>4, OneMore
<1> QED
  BY <1>3, <1>5 DEF AttemptNo, Slots

(* The attempt that is next has a channel, and a record of it is one.      *)
RecordOfChannel(newStatus, class, id) ==
  \E n \in Slots \cap 1..Len(route), channel \in Channels, record \in AnyRecord :
    /\ n = AttemptNo /\ n = Len(tried) + 1 /\ channel = route[n]
    /\ record = Record(newStatus, class, id)
    /\ record.no = n /\ record.channel = channel.code
    /\ record.provider = (IF channel.found THEN channel.provider ELSE "")
    /\ record.account = (IF channel.found THEN channel.account ELSE "")
    /\ record.transport = (IF channel.found THEN channel.transport ELSE "")
    /\ record.status = newStatus /\ record.class = class /\ record.id = id

(* A record that the worker writes next tells the channel of its attempt. *)
LEMMA Attempted ==
  ASSUME Types, pc # "done",
         NEW newStatus \in {"sending", "sent", "failed"}, NEW class \in Classes,
         NEW id \in {"", Ids[AttemptNo]}
  PROVE  RecordOfChannel(newStatus, class, id)
<1>1. PICK n \in Slots \cap 1..Len(route) : n = AttemptNo /\ n = Len(tried) + 1
  BY NextSlot
<1>2. PICK channel \in Channels : channel = route[n]
  BY RouteShape
<1>3. id \in {""} \cup {Ids[m] : m \in Slots}
  BY <1>1
<1>4. PICK code \in Identifiers, provider \in Providers \cup {""},
            account \in Identifiers \cup {""}, transport \in {"api", "smtp", ""} :
        /\ code = channel.code
        /\ provider = IF channel.found THEN channel.provider ELSE ""
        /\ account = IF channel.found THEN channel.account ELSE ""
        /\ transport = IF channel.found THEN channel.transport ELSE ""
  BY DEF Channels, Providers
<1>5. PICK record :
        record = [no |-> n, channel |-> code, provider |-> provider, account |-> account,
                  transport |-> transport, status |-> newStatus, class |-> class, id |-> id]
  OBVIOUS
<1>6. record = Record(newStatus, class, id)
  BY <1>1, <1>2, <1>4, <1>5 DEF Record
<1>7. record \in AnyRecord
  BY <1>3, <1>5 DEF AnyRecord
<1>8. /\ record.no = n /\ record.channel = code /\ record.provider = provider
       /\ record.account = account /\ record.transport = transport
       /\ record.status = newStatus /\ record.class = class /\ record.id = id
  BY <1>5
<1> QED
  BY <1>1, <1>2, <1>4, <1>6, <1>7, <1>8 DEF RecordOfChannel

(* It tells the attempt's channel, and that it was sent only if it was.    *)
LEMMA AttemptRecordKept ==
  ASSUME Types, pc # "done", route' = route,
         NEW newStatus \in {"sending", "sent", "failed"}, NEW class \in Classes,
         NEW id \in {"", Ids[AttemptNo]},
         route[AttemptNo].found \/ (newStatus = "failed" /\ class = Channel),
         newStatus = "sent" => \E mail \in mails' : mail.attempt = AttemptNo
  PROVE  \E record \in AnyRecord : record = Record(newStatus, class, id) /\ RecordKept(record)'
<1>0. RecordOfChannel(newStatus, class, id)
  BY Attempted
<1>1. PICK n \in Slots \cap 1..Len(route), channel \in Channels, made \in AnyRecord :
        /\ n = AttemptNo /\ n = Len(tried) + 1 /\ channel = route[n]
        /\ made = Record(newStatus, class, id)
        /\ made.no = n /\ made.channel = channel.code
        /\ made.provider = (IF channel.found THEN channel.provider ELSE "")
        /\ made.account = (IF channel.found THEN channel.account ELSE "")
        /\ made.transport = (IF channel.found THEN channel.transport ELSE "")
        /\ made.status = newStatus /\ made.class = class /\ made.id = id
  BY <1>0 DEF RecordOfChannel
<1>2. channel.found \/ (newStatus = "failed" /\ class = Channel)
  BY <1>1
<1>3. newStatus = "sent" =>
        channel.found /\ id \in {"", Ids[n]} /\ \E mail \in mails' : mail.attempt = n
  BY <1>1, <1>2
<1>4. RecordKept(made)'
  BY <1>1, <1>2, <1>3 DEF RecordKept
<1> QED
  BY <1>1, <1>4

(* What was kept stays so.                                                 *)
LEMMA KeepsRecords ==
  ASSUME Types, Kept, route' = route, mails \subseteq mails',
         \A mail \in mails' \ mails : MailKept(mail),
         \/ attempts' = attempts
         \/ \E record \in AnyRecord : attempts' = Append(attempts, record)
              /\ RecordKept(record)'
  PROVE  attempts' \in Seq(AnyRecord) /\ Kept'
<1>1. attempts \in Seq(AnyRecord)
  BY DEF Types
<1>2. \A mail \in mails' : MailKept(mail)'
  BY DEF Kept, MailKept
<1>3. \A record \in Records : RecordKept(record)'
  BY DEF Kept, RecordKept
<1>4. CASE attempts' = attempts
  BY <1>1, <1>2, <1>3, <1>4 DEF Kept, Records
<1>5. ASSUME NEW record \in AnyRecord, attempts' = Append(attempts, record), RecordKept(record)'
      PROVE  attempts' \in Seq(AnyRecord) /\ Kept'
  <2>1. /\ attempts' \in Seq(AnyRecord) /\ DOMAIN attempts' = 1..(Len(attempts) + 1)
        /\ \A i \in 1..Len(attempts) : attempts'[i] = attempts[i]
        /\ attempts'[Len(attempts) + 1] = record
    BY <1>1, <1>5
  <2>2. /\ DOMAIN attempts = 1..Len(attempts)
        /\ \A i \in 1..(Len(attempts) + 1) : i \in 1..Len(attempts) \/ i = Len(attempts) + 1
    BY <1>1, LenProperties
  <2>3. Records' \subseteq Records \cup {record}
    BY <2>1, <2>2 DEF Records
  <2> QED
    BY <1>2, <1>3, <1>5, <2>1, <2>3 DEF Kept
<1> QED
  BY <1>4, <1>5

(* What a finished attempt says of an answer.                              *)
FitsAnswer(attempt, n, retried) ==
  /\ ~retried /\ n < AtMost(MaxAttempts, Len(route)) =>
       attempt.cause \in {"accepted", "message"}
  /\ retried => attempt.cause # "accepted"
  /\ retried /\ attempt.asked * Second + Second - 1 <= MaxDuration =>
       attempt.wait >= AtMost(attempt.asked, MaxRetryAfter)

(* Whether there is another attempt. *)
Retries(result) == ~IsAccepted(result) /\ result.class # Permanent /\ HasNextChannel

TriedRecord == [cause : Causes, class : Classes, asked : Int, wait : Int]

(* What becomes of the message is told by the answer.                      *)
LEMMA AttemptFits ==
  ASSUME Types, pc # "done", NEW result, NEW cause, NEW header, Answered(result, cause, header)
  PROVE  \E attempt \in TriedRecord :
           /\ attempt = Tried(cause, result, header)
           /\ FitsAnswer(attempt, AttemptNo, Retries(result))
<1>1. /\ Asked(header) \in Int /\ RetryAfterSeconds(header) \in Int
      /\ Asked(header) * Second + Second - 1 <= MaxDuration =>
           RetryAfterSeconds(header) = Asked(header)
  <2>1. PICK h \in {NoHeader} \cup Headers : h = header
    BY DEF Answered
  <2>2. /\ Asked(h) \in Int /\ RetryAfterSeconds(h) \in Int
        /\ Asked(h) * Second + Second - 1 <= MaxDuration => RetryAfterSeconds(h) = Asked(h)
    BY AskedIsRead
  <2> QED
    BY <2>1, <2>2
<1>2. PICK asked \in Int, seconds \in Int :
        asked = Asked(header) /\ seconds = RetryAfterSeconds(header)
  BY <1>1
<1>3. AttemptNo \in Nat /\ Len(route) \in Nat /\ MaxAttempts \in Nat
  BY NextSlot, RouteShape DEF Slots
<1>4. PICK n \in Nat : n = AttemptNo
  BY <1>3
<1>5. PICK wait \in Int :
        wait = RetryDelay(n + 1, seconds) /\ wait >= AtMost(seconds, MaxRetryAfter)
  <2>1. n + 1 \in Nat
    OBVIOUS
  <2> QED
    BY <2>1, WaitIsLongEnough
<1>6. PICK class \in Classes, known \in Causes : class = result.class /\ known = cause
  BY DEF Answered
<1>7. PICK attempt :
        attempt = [cause |-> known, class |-> class, asked |-> asked, wait |-> wait]
  OBVIOUS
<1>8. attempt = Tried(cause, result, header)
  BY <1>2, <1>4, <1>5, <1>6, <1>7 DEF Tried, Answered
<1>9. /\ attempt \in TriedRecord
      /\ attempt.cause = known /\ attempt.asked = asked /\ attempt.wait = wait
  BY <1>7 DEF TriedRecord
<1>10. ~Retries(result) /\ n < AtMost(MaxAttempts, Len(route)) =>
         known \in {"accepted", "message"}
  <2>1. n < AtMost(MaxAttempts, Len(route)) => HasNextChannel
    <3>1. \A a, b, c \in Nat : a < AtMost(b, c) => a < b /\ a < c
      BY DEF AtMost
    <3> QED
      BY <1>3, <1>4, <3>1 DEF HasNextChannel
  <2> QED
    BY <1>6, <2>1 DEF Retries, Answered, IsAccepted
<1>11. Retries(result) => known # "accepted"
  BY <1>6 DEF Retries, Answered, IsAccepted
<1>12. asked * Second + Second - 1 <= MaxDuration => wait >= AtMost(asked, MaxRetryAfter)
  BY <1>1, <1>2, <1>5
<1>13. FitsAnswer(attempt, n, Retries(result))
  BY <1>9, <1>10, <1>11, <1>12 DEF FitsAnswer
<1> QED
  BY <1>4, <1>8, <1>9, <1>13

(* An attempt that ends falls back as it is told, and a retry has a     *)
(* channel and an attempt left.                                         *)
LEMMA AttemptEnds ==
  ASSUME Types, FallsBackAsTold, NEW result, NEW cause, NEW header,
         Answered(result, cause, header), EndAttempt(result, cause, header)
  PROVE  /\ FallsBackAsTold'
         /\ tried' \in Seq(TriedRecord) /\ pc' \in {"ready", "calling", "done"}
         /\ pc' # "done" => Len(tried') < Len(route') /\ Len(tried') < MaxAttempts
<1>1. /\ pc = "calling" /\ pc' = (IF Retries(result) THEN "ready" ELSE "done")
      /\ route' = route /\ tried' = Append(tried, Tried(cause, result, header))
  BY DEF EndAttempt, Retries
<1>2. PICK attempt \in TriedRecord :
        /\ attempt = Tried(cause, result, header)
        /\ FitsAnswer(attempt, AttemptNo, Retries(result))
  BY <1>1, AttemptFits
<1>3. tried \in Seq(TriedRecord)
  BY DEF Types, TriedRecord
<1>4. PICK n \in Nat : n = Len(tried) /\ DOMAIN tried = 1..n
  BY <1>3, LenProperties
<1>5. tried' = Append(tried, attempt)
  BY <1>1, <1>2
<1>6. /\ tried' \in Seq(TriedRecord)
      /\ Len(tried') = n + 1 /\ DOMAIN tried' = 1..(n + 1) /\ tried'[n + 1] = attempt
      /\ \A i \in 1..n : tried'[i] = tried[i]
  BY <1>3, <1>4, <1>5, AppendProperties
<1>7. AttemptNo = n + 1
  BY <1>4 DEF AttemptNo
<1>8. pc' # "done" => Len(tried') < Len(route') /\ Len(tried') < MaxAttempts
  BY <1>1, <1>6, <1>7 DEF HasNextChannel, Retries
<1>9. \A i \in DOMAIN tried : FitsAnswer(tried[i], i, TRUE)
  BY <1>1 DEF FallsBackAsTold, FitsAnswer
<1>10. \A i \in 1..(n + 1) : i = n + 1 \/ (i \in 1..n /\ i < n + 1)
  OBVIOUS
<1>11. Retries(result) \in BOOLEAN /\ (pc' # "done" <=> Retries(result))
  BY <1>1 DEF Retries, HasNextChannel
<1>12. ASSUME NEW i \in DOMAIN tried', NEW one, one = tried'[i]
       PROVE  FitsAnswer(one, i, i < n + 1 \/ pc' # "done")
  <2>1. CASE i \in 1..n /\ i < n + 1
    <3>1. FitsAnswer(one, i, TRUE)
      BY <1>4, <1>6, <1>9, <1>12, <2>1
    <3> QED
      BY <2>1, <3>1 DEF FitsAnswer
  <2>2. CASE i = n + 1
    <3>1. FitsAnswer(one, i, Retries(result)) /\ ~(i < n + 1)
      BY <1>2, <1>6, <1>7, <1>12, <2>2
    <3> QED
      BY <1>11, <3>1 DEF FitsAnswer
  <2> QED
    BY <1>6, <1>10, <2>1, <2>2
<1>13. FallsBackAsTold'
  BY <1>1, <1>6, <1>12 DEF FallsBackAsTold, FitsAnswer
<1> QED
  BY <1>1, <1>6, <1>8, <1>13

(* The events stay, and what they are about.                               *)
LEMMA KeepsEvents ==
  ASSUME EventsKept, route' = route, mails \subseteq mails', events' = events
  PROVE  EventsKept'
BY DEF EventsKept

(* Steps that change none of these variables, stuttering included. *)
LEMMA SameInv ==
  ASSUME IInv, UNCHANGED <<route, pc, attempts, tried, mails, events>>
  PROVE  IInv'
<1>1. Types /\ Kept /\ EventsKept /\ FallsBackAsTold
  BY DEF IInv
<1>2. Kept'
  BY <1>1, KeepsRecords
<1>3. EventsKept'
  BY <1>1, KeepsEvents
<1>4. Types' /\ FallsBackAsTold'
  BY <1>1 DEF Types, FallsBackAsTold
<1> QED
  BY <1>2, <1>3, <1>4 DEF IInv

(* A worker begins an attempt. *)
LEMMA BeginInv == ASSUME IInv, BeginAttempt PROVE IInv'
<1>1. /\ Types /\ Kept /\ EventsKept /\ FallsBackAsTold
      /\ pc = "ready" /\ pc' = "calling"
      /\ UNCHANGED <<route, tried, mails, events>>
  BY DEF IInv, BeginAttempt, hookVars
<1>2. \/ attempts' = attempts
      \/ \E record \in AnyRecord : attempts' = Append(attempts, record) /\ RecordKept(record)'
  <2>1. CASE route[AttemptNo].found
    <3>1. "" \in Classes /\ "sending" \in {"sending", "sent", "failed"}
      BY DEF Classes
    <3>2. PICK record \in AnyRecord : record = Record("sending", "", "") /\ RecordKept(record)'
      BY <1>1, <2>1, <3>1, AttemptRecordKept
    <3> QED
      BY <2>1, <3>2 DEF BeginAttempt
  <2>2. CASE ~route[AttemptNo].found
    BY <2>2 DEF BeginAttempt
  <2> QED
    BY <2>1, <2>2
<1>3. attempts' \in Seq(AnyRecord) /\ Kept'
  BY <1>1, <1>2, KeepsRecords
<1>4. Types'
  BY <1>1, <1>3 DEF Types
<1>5. FallsBackAsTold'
  BY <1>1 DEF FallsBackAsTold
<1>6. EventsKept'
  BY <1>1, KeepsEvents
<1> QED
  BY <1>3, <1>4, <1>5, <1>6 DEF IInv

(* Both ways in which an attempt ends.                                     *)
LEMMA EndInv ==
  ASSUME IInv, NEW result, NEW cause, NEW header,
         Answered(result, cause, header), EndAttempt(result, cause, header),
         result.id \in {"", Ids[AttemptNo]},
         route[AttemptNo].found \/ (~IsAccepted(result) /\ result.class = Channel),
         mails \subseteq mails',
         mails' \subseteq [attempt : Slots, id : {Ids[n] : n \in Slots}],
         \A mail \in mails' \ mails : MailKept(mail),
         IsAccepted(result) => \E mail \in mails' : mail.attempt = AttemptNo
  PROVE  IInv'
<1>1. /\ Types /\ Kept /\ EventsKept /\ FallsBackAsTold
      /\ pc = "calling" /\ route' = route /\ events' = events
  BY DEF IInv, EndAttempt, hookVars
<1>2. /\ FallsBackAsTold'
      /\ tried' \in Seq(TriedRecord) /\ pc' \in {"ready", "calling", "done"}
      /\ pc' # "done" => Len(tried') < Len(route') /\ Len(tried') < MaxAttempts
  BY <1>1, AttemptEnds
<1>3. \E record \in AnyRecord : attempts' = Append(attempts, record) /\ RecordKept(record)'
  <2>1. PICK newStatus \in {"sending", "sent", "failed"}, class \in Classes,
             id \in {"", Ids[AttemptNo]} :
          /\ newStatus = (IF IsAccepted(result) THEN "sent" ELSE "failed")
          /\ class = result.class /\ id = result.id
    BY DEF Answered
  <2>2. PICK record \in AnyRecord : record = Record(newStatus, class, id) /\ RecordKept(record)'
    BY <1>1, <2>1, AttemptRecordKept
  <2> QED
    BY <2>1, <2>2 DEF EndAttempt
<1>4. attempts' \in Seq(AnyRecord) /\ Kept'
  BY <1>1, <1>3, KeepsRecords
<1>5. Types'
  BY <1>1, <1>2, <1>4 DEF Types, TriedRecord
<1>6. EventsKept'
  BY <1>1, KeepsEvents
<1> QED
  BY <1>2, <1>4, <1>5, <1>6 DEF IInv

(* It finds no such channel. *)
LEMMA SkipInv == ASSUME IInv, SkipChannel PROVE IInv'
<1>1. /\ EndAttempt(Unusable, "account", NoHeader) /\ mails' = mails /\ Types
  BY DEF IInv, SkipChannel
<1>2. Unusable = [class |-> Channel, id |-> "", retryAfter |-> 0]
  BY DEF Unusable, Failed
<1>3. RetryAfterSeconds(NoHeader) = 0
  BY DEF RetryAfterSeconds, NoHeader
<1>4. Answered(Unusable, "account", NoHeader)
  BY <1>2, <1>3 DEF Answered, Causes, Classes, Channel, Permanent
<1>5. ~IsAccepted(Unusable) /\ Unusable.class = Channel /\ Unusable.id = ""
  BY <1>2 DEF IsAccepted, Channel
<1>6. mails' \subseteq [attempt : Slots, id : {Ids[n] : n \in Slots}]
  BY <1>1 DEF Types
<1> QED
  BY <1>1, <1>4, <1>5, <1>6, EndInv

(* It gets an answer. *)
LEMMA CallInv == ASSUME IInv, CallProvider PROVE IInv'
<1>1. /\ Types /\ pc = "calling" /\ route[AttemptNo].found
  BY DEF IInv, CallProvider
<1>2. PICK answer \in Answers(route[AttemptNo], Ids[AttemptNo]) :
        /\ EndAttempt(Result(answer), answer.cause, answer.retryAfter)
        /\ mails' = mails \cup
             (IF answer.cause \in {"accepted", "lost"}
              THEN {[attempt |-> AttemptNo, id |-> Ids[AttemptNo]]} ELSE {})
  BY DEF CallProvider
<1>3. PICK n \in Slots \cap 1..Len(route) : n = AttemptNo /\ route[n] \in Channels
  BY <1>1, NextSlot, RouteShape
<1>4. ToldBy(answer, Ids[n])
  BY <1>2, <1>3, AnswerTold
<1>5. /\ Answered(Result(answer), answer.cause, answer.retryAfter)
      /\ Result(answer).id \in {"", Ids[AttemptNo]}
  BY <1>3, <1>4 DEF ToldBy
<1>6. PICK mail : mail = [attempt |-> n, id |-> Ids[n]]
  OBVIOUS
<1>7. /\ mail \in [attempt : Slots, id : {Ids[m] : m \in Slots}]
      /\ mail.attempt = n /\ mail.id = Ids[n]
  BY <1>6
<1>8. MailKept(mail)
  BY <1>1, <1>3, <1>7 DEF MailKept
<1>9. /\ mails \subseteq mails' /\ mails' \subseteq mails \cup {mail}
      /\ answer.cause = "accepted" => mail \in mails'
  BY <1>2, <1>3, <1>6
<1>10. mails' \subseteq [attempt : Slots, id : {Ids[m] : m \in Slots}]
  BY <1>1, <1>7, <1>9 DEF Types
<1>11. IsAccepted(Result(answer)) => \E m \in mails' : m.attempt = AttemptNo
  BY <1>3, <1>5, <1>7, <1>9 DEF Answered, IsAccepted
<1>12. \A m \in mails' \ mails : MailKept(m)
  BY <1>8, <1>9
<1> QED
  BY <1>1, <1>2, <1>5, <1>9, <1>10, <1>11, <1>12, EndInv

(* What is logged of an event.                                             *)
LEMMA Logged ==
  ASSUME Types, NEW mail \in mails, MailKept(mail), NEW event \in Sent(mail),
         event.at \in [local : Int, offset : {0}]
  PROVE  \E logged \in AnyEvent :
           /\ logged = Identity(event)
           /\ logged.id = mail.id /\ logged.channel = route[mail.attempt].code
<1>1. PICK n \in Slots : n = mail.attempt /\ mail.id = Ids[n]
  BY DEF MailKept
<1>2. PICK channel \in Channels : channel = route[n]
  BY <1>1, MailShape
<1>3. PICK provider \in Providers, account \in Identifiers, code \in Identifiers :
        provider = channel.provider /\ account = channel.account /\ code = channel.code
  BY DEF Channels, Providers
<1>4. PICK type \in EventType, at \in [local : Int, offset : {0}], recipient \in Spellings :
        event = [app |-> App, message |-> Message, provider |-> provider, account |-> account,
                 channel |-> code, id |-> Ids[n], recipient |-> recipient, type |-> type,
                 at |-> at]
  BY <1>1, <1>2, <1>3 DEF Sent
<1>5. PICK logged :
        logged = [app |-> App, message |-> Message, provider |-> provider, account |-> account,
                  channel |-> code, id |-> Ids[n], type |-> type, at |-> at]
  OBVIOUS
<1>6. logged = Identity(event)
  BY <1>4, <1>5 DEF Identity
<1>7. logged \in AnyEvent /\ logged.id = Ids[n] /\ logged.channel = code
  BY <1>5 DEF AnyEvent
<1> QED
  BY <1>1, <1>2, <1>3, <1>6, <1>7

(* A notification is taken or refused. *)
LEMMA NotifyInv ==
  ASSUME IInv, NEW mail \in mails, NEW note \in Reports(mail) \cup GenericReports(mail),
         Notify(note)
  PROVE  IInv'
<1>1. /\ Types /\ Kept /\ EventsKept /\ FallsBackAsTold /\ MailKept(mail)
      /\ UNCHANGED <<route, pc, attempts, tried, mails>>
  BY DEF IInv, Kept, Notify, workerVars
<1>2. PICK event \in EventOf(note) :
        events' = IF Recorded(event) THEN events ELSE Append(events, Identity(event))
  BY DEF Notify
<1>3. PICK sent \in Sent(mail) : event \in Validated(sent)
  BY <1>1, ReportedEvents, GenericEvents
<1>4. event \in Sent(mail) /\ event.at \in [local : Int, offset : {0}]
  BY <1>1, <1>3, ValidatedEvents
<1>5. PICK logged \in AnyEvent :
        /\ logged = Identity(event)
        /\ logged.id = mail.id /\ logged.channel = route[mail.attempt].code
  BY <1>1, <1>4, Logged
<1>6. events \in Seq(AnyEvent)
  BY <1>1 DEF Types
<1>7. CASE events' = events
  BY <1>1, <1>7, SameInv
<1>8. CASE ~Recorded(event) /\ events' = Append(events, logged)
  <2>1. PICK n \in Nat : n = Len(events) /\ DOMAIN events = 1..n
    BY <1>6, LenProperties
  <2>2. /\ events' \in Seq(AnyEvent) /\ DOMAIN events' = 1..(n + 1)
        /\ events'[n + 1] = logged /\ \A i \in 1..n : events'[i] = events[i]
    BY <1>6, <1>8, <2>1, AppendProperties
  <2>3. \A i \in 1..(n + 1) : i \in 1..n \/ i = n + 1
    OBVIOUS
  <2>4. \A i \in 1..n : events[i] # logged
    BY <1>5, <1>8, <2>1 DEF Recorded
  <2>5. \A i, j \in DOMAIN events' : events'[i] = events'[j] => i = j
    BY <1>1, <2>1, <2>2, <2>3, <2>4 DEF EventsKept
  <2>6. \A i \in DOMAIN events' : \E m \in mails :
          events'[i].id = m.id /\ events'[i].channel = route[m.attempt].code
    BY <1>1, <1>5, <2>1, <2>2, <2>3 DEF EventsKept
  <2>7. EventsKept'
    BY <1>1, <2>5, <2>6 DEF EventsKept
  <2>8. Types'
    BY <1>1, <2>2 DEF Types
  <2>9. Kept'
    BY <1>1, KeepsRecords
  <2>10. FallsBackAsTold'
    BY <1>1 DEF FallsBackAsTold
  <2> QED
    BY <2>7, <2>8, <2>9, <2>10 DEF IInv
<1> QED
  BY <1>2, <1>5, <1>7, <1>8

(* Each step keeps the invariant. *)
LEMMA StepInv == IInv /\ [Next]_vars => IInv'
<1> SUFFICES ASSUME IInv, [Next]_vars PROVE IInv'
  OBVIOUS
<1>1. CASE BeginAttempt
  BY <1>1, BeginInv
<1>2. CASE CallProvider
  BY <1>2, CallInv
<1>3. CASE SkipChannel
  BY <1>3, SkipInv
<1>4. ASSUME NEW mail \in mails,
             NEW note \in Reports(mail) \cup GenericReports(mail), Notify(note)
      PROVE  IInv'
  BY <1>4, NotifyInv
<1>5. CASE UNCHANGED vars
  BY <1>5, SameInv DEF vars, workerVars, hookVars
<1> QED
  BY <1>1, <1>2, <1>3, <1>4, <1>5 DEF Next

(* Hence every reachable state has it. *)
LEMMA Invariant == Spec => []IInv
  BY InitInv, StepInv, PTL DEF Spec

-----------------------------------------------------------------------------
(* The theorems. *)

(* Whatever the routes, the providers' answers and the notifications, the  *)
(* records that a worker writes can be read back, so that no message's     *)
(* attempts become unreadable, and so can the events, up to those whose    *)
(* instant falls outside the calendar; an attempt is logged sent only if   *)
(* its provider has the mail, and an event only of such mail.              *)
THEOREM RecordsRead == Spec => []RecordsReadBack
<1>1. IInv => RecordsReadBack
  <2> SUFFICES ASSUME IInv PROVE RecordsReadBack
    OBVIOUS
  <2>1. Types /\ Kept /\ EventsKept
    BY DEF IInv
  <2>2. ASSUME NEW i \in DOMAIN attempts
        PROVE  /\ AttemptDecodes(attempts[i])
               /\ attempts[i].status = "sent" =>
                    \E mail \in mails : mail.attempt = attempts[i].no
    <3>1. PICK record \in AnyRecord : record = attempts[i]
      BY <2>1 DEF Types
    <3>2. RecordKept(record)
      BY <2>1, <3>1 DEF Kept, Records
    <3>3. AttemptDecodes(record)
      BY <2>1, <3>2, RecordReads
    <3>4. record.status = "sent" => \E mail \in mails : mail.attempt = record.no
      BY <3>2 DEF RecordKept
    <3> QED
      BY <3>1, <3>3, <3>4
  <2>3. ASSUME NEW i \in DOMAIN events
        PROVE  /\ events[i].at.local \in 0..Calendar => EventDecodes(events[i])
               /\ \E mail \in mails :
                    events[i].id = mail.id /\ events[i].channel = route[mail.attempt].code
    <3>1. PICK event \in AnyEvent : event = events[i]
      BY <2>1 DEF Types
    <3> QED
      BY <2>1, <3>1, EventReads DEF EventsKept
  <2> QED
    BY <2>2, <2>3 DEF RecordsReadBack
<1> QED
  BY <1>1, Invariant, PTL

(* What a provider reports of mail that was logged sent is taken, and what *)
(* is told twice is recorded once: an event log that can be read holds     *)
(* nothing that turns away a later notification.                           *)
THEOREM NotificationsTaken == Spec => []NotificationsTakeEffect
<1>1. IInv => NotificationsTakeEffect
  <2> SUFFICES ASSUME IInv PROVE NotificationsTakeEffect
    OBVIOUS
  <2>1. Types /\ Kept /\ EventsKept
    BY DEF IInv
  <2>2. ASSUME \A i \in DOMAIN events : EventDecodes(events[i]), NEW mail \in mails,
               NEW record \in LatestAttempts, record.no = mail.attempt, record.status = "sent",
               NEW note \in Reports(mail)
        PROVE  Takes(note)
    <3>1. MailKept(mail) /\ record \in Records
      BY <2>1 DEF Kept, LatestAttempts, Records
    <3>2. PICK sent \in Sent(mail) :
            EventOf(note) = Validated(sent) /\ sent.at.local \in 0..Calendar
      BY <2>1, <3>1, ReportedEvents
    <3>3. PICK event \in EventOf(note) : event \in Sent(mail)
      BY <2>1, <3>1, <3>2, CompleteEvents, ValidatedEvents
    <3>4. /\ event.app = App /\ event.message = Message /\ event.id = mail.id
          /\ event.provider = route[mail.attempt].provider
          /\ event.account = route[mail.attempt].account
          /\ event.channel = route[mail.attempt].code
          /\ event.recipient \in Spellings
      BY <3>3 DEF Sent
    <3>5. \A i \in DOMAIN attempts : AttemptDecodes(attempts[i])
      <4> SUFFICES ASSUME NEW i \in DOMAIN attempts PROVE AttemptDecodes(attempts[i])
        OBVIOUS
      <4>1. PICK one \in AnyRecord : one = attempts[i]
        BY <2>1 DEF Types
      <4>2. RecordKept(one)
        BY <2>1, <4>1 DEF Kept, Records
      <4> QED
        BY <2>1, <4>1, <4>2, RecordReads
    <3>6. RecordKept(record)
      BY <2>1, <3>1 DEF Kept
    <3>7. /\ record.provider = event.provider /\ record.account = event.account
          /\ record.channel = event.channel /\ record.id \in {event.id, ""}
      BY <2>2, <3>1, <3>4, <3>6 DEF RecordKept, MailKept
    <3>8. MatchesSentAttempt(event)
      BY <2>2, <3>5, <3>7 DEF MatchesSentAttempt
    <3>9. MatchesRecipient(event)
      BY <3>4, MessageAssumption DEF MatchesRecipient
    <3>10. Searchable(event)
      BY <2>2 DEF Searchable
    <3>11. Authentic(note)
      BY <2>1, <3>1, ReportedEvents
    <3> QED
      BY <3>3, <3>4, <3>8, <3>9, <3>10, <3>11 DEF Takes
  <2>3. ASSUME NEW i \in DOMAIN events, NEW j \in DOMAIN events,
               \A field \in DOMAIN events[i] \ {"at"} : events[i][field] = events[j][field],
               Instant(events[i].at) = Instant(events[j].at)
        PROVE  i = j
    <3>1. PICK one \in AnyEvent, other \in AnyEvent : one = events[i] /\ other = events[j]
      BY <2>1 DEF Types
    <3>2. one.at = other.at
      <4>1. PICK a \in [local : Int, offset : {0}], b \in [local : Int, offset : {0}] :
              a = one.at /\ b = other.at
        BY DEF AnyEvent
      <4>2. Instant(a) = Instant(b)
        BY <2>3, <3>1, <4>1
      <4>3. a.local = b.local /\ a.offset = b.offset
        BY <4>2 DEF Instant
      <4> QED
        BY <4>1, <4>3
    <3>3. /\ one.app = other.app /\ one.message = other.message
          /\ one.provider = other.provider /\ one.account = other.account
          /\ one.channel = other.channel /\ one.id = other.id /\ one.type = other.type
      <4>1. DOMAIN one = {"app", "message", "provider", "account", "channel", "id", "type", "at"}
        BY DEF AnyEvent
      <4>2. \A field \in DOMAIN one \ {"at"} : one[field] = other[field]
        BY <2>3, <3>1
      <4> QED
        BY <4>1, <4>2
    <3>4. one = other
      BY <3>2, <3>3 DEF AnyEvent
    <3> QED
      BY <2>1, <3>1, <3>4 DEF EventsKept
  <2> QED
    BY <2>2, <2>3 DEF NotificationsTakeEffect
<1> QED
  BY <1>1, Invariant, PTL

(* The classes of the design document hold end to end, for any answers     *)
(* that the providers may give and any header that asks for a wait: the    *)
(* worker tries another channel unless the mail was accepted or the        *)
(* message is to blame, never after an acceptance, and never sooner than   *)
(* it was told.                                                            *)
THEOREM FallbackSafe == Spec => []FallsBackAsTold
<1>1. IInv => FallsBackAsTold
  BY DEF IInv
<1> QED
  BY <1>1, Invariant, PTL
=============================================================================
