--------------------------- MODULE FailureClasses ---------------------------
(* What the adapters (internal/provider) make of a provider's answer: the  *)
(* mail is accepted, or it is refused with a class that tells the worker   *)
(* whether another channel may help, and perhaps with a time to wait.      *)
(*                                                                         *)
(* An answer of an HTTP API has a status, an error and a Retry-After       *)
(* header.  Of the error's name or code counts whether it is one of those  *)
(* that stand for the channel, of its wording which of the features occur  *)
(* that the adapters look for.  One of an SMTP server has the stage at which *)
(* the dialogue ended and the reply's code, 0 for an error without a reply *)
(* such as a failed dial or handshake.                                     *)
EXTENDS Integers

CONSTANTS
  Second,      \* in units of the clock (the code's unit is the nanosecond)
  MaxDuration, \* the largest time.Duration, in units: 2^63 - 1 in the code
  MaxInt       \* the largest int

(* A Duration and an int are of the same width. *)
ASSUME DurationAssumption ==
  Second \in Nat \ {0} /\ MaxDuration \in Nat /\ MaxInt \in Nat /\ MaxDuration <= MaxInt

Temporary == "temporary_failure"
Channel   == "channel_failure"
Permanent == "message_permanent_failure"

Accepted(id)  == [class |-> "", id |-> id, retryAfter |-> 0]
Failed(class) == [class |-> class, id |-> "", retryAfter |-> 0]

IsAccepted(result) == result.class = ""

-----------------------------------------------------------------------------
(* Retry-After: seconds, or an HTTP date, given by its distance from now.  *)

(* Integers of the width of a Duration. *)
Wrap(n) == IF n > MaxDuration THEN n - 2 * (MaxDuration + 1) ELSE n

(* retryAfterSecondsUntil: Time.Sub stops at the largest Duration, the sum *)
(* that rounds up to full seconds does not.  A negative sum gives no wait. *)
SecondsUntil(distance) ==
  LET duration == IF distance > MaxDuration THEN MaxDuration ELSE distance
      rounded  == Wrap(duration + Second - 1)
  IN  IF duration <= 0 \/ rounded < 0 THEN 0 ELSE rounded \div Second

(* parseRetryAfterSeconds, 0 for none *)
RetryAfterSeconds(header) ==
  CASE header.form = "seconds" /\ header.value \in 1..MaxInt -> header.value
    [] header.form = "date"                                  -> SecondsUntil(header.value)
    [] OTHER                                                 -> 0

-----------------------------------------------------------------------------
(* The HTTP APIs. *)

SenderHint(error)     == "sender" \in error.words
UnverifiedHint(error) == {"domain", "unverified"} \subseteq error.words

(* containsBrevoDomainFailure *)
BrevoDomainHint(error) ==
  /\ error.words \cap {"domain", "sender"} # {}
  /\ error.words \cap {"unverified", "not allowed"} # {}

ResendBusy(status) == status = 429 \/ status >= 500

ResendChannelFault(status, error) ==
  \/ status \in {401, 403}
  \/ error.name = "channel"
  \/ SenderHint(error) \/ UnverifiedHint(error)

BrevoBusy(status) == status \in {408, 429} \/ status >= 500

BrevoChannelFault(status, error) ==
  \/ status \in {401, 402, 403}
  \/ error.name = "channel"
  \/ SenderHint(error) \/ BrevoDomainHint(error)

Rejected(status) == status \in {400, 422}

(* Seeded fault: the status is looked at before the wording. *)
HTTPClassByStatus(busy, channelFault, rejected) ==
  CASE busy                      -> Temporary
    [] ~busy /\ rejected         -> Permanent
    [] ~busy /\ ~rejected /\ channelFault -> Channel
    [] OTHER                     -> Temporary

(* The order of the cases in classifyResendHTTPFailure and in              *)
(* classifyBrevoHTTPFailure: what passes, what another channel may do      *)
(* better, what no channel will.                                           *)
HTTPClass(busy, channelFault, rejected) ==
  CASE busy                               -> Temporary
    [] ~busy /\ channelFault              -> Channel
    [] ~busy /\ ~channelFault /\ rejected -> Permanent
    [] OTHER                              -> Temporary

HTTPFailed(class, answer) ==
  [Failed(class) EXCEPT !.retryAfter = RetryAfterSeconds(answer.retryAfter)]

(* Any 2xx is an acceptance, whether or not the body can be read and names *)
(* an id.                                                                  *)
ResendResult(answer) ==
  IF answer.status \in 200..299
  THEN Accepted(answer.id)
  ELSE HTTPFailed(HTTPClass(ResendBusy(answer.status),
                            ResendChannelFault(answer.status, answer.error),
                            Rejected(answer.status)), answer)

BrevoResult(answer) ==
  IF answer.status \in 200..299
  THEN Accepted(answer.id)
  ELSE HTTPFailed(HTTPClass(BrevoBusy(answer.status),
                            BrevoChannelFault(answer.status, answer.error),
                            Rejected(answer.status)), answer)

-----------------------------------------------------------------------------
(* SMTP. *)

(* classifySMTPError *)
SMTPClass(stage, code) ==
  CASE code \in 500..599 /\ stage \in {"connect", "starttls", "auth", "mail_from"} -> Channel
    [] code \in 500..599 /\ stage \in {"rcpt_to", "data"}                          -> Permanent
    [] OTHER                                                                       -> Temporary

(* Seeded fault: the answer to the text is dropped as that to QUIT is. *)
SMTPResultWritten(answer) ==
  IF answer.stage \in {"data", "quit"} THEN Accepted("") ELSE Failed(SMTPClass(answer.stage, answer.code))

(* SMTPTransport.Send: once the text is taken the mail is accepted, without *)
(* an id, whatever becomes of QUIT.                                         *)
SMTPResult(answer) ==
  IF answer.stage = "quit" THEN Accepted("") ELSE Failed(SMTPClass(answer.stage, answer.code))

-----------------------------------------------------------------------------
(* What an adapter and the worker make of an answer on a channel, in the   *)
(* end.  There is none (form "none") when the secret cannot be resolved,   *)
(* which blames the channel, and when the request breaks off or times out, *)
(* which is temporary.                                                     *)
Result(answer) ==
  CASE answer.form = "none"   -> Failed(IF answer.cause = "account" THEN Channel ELSE Temporary)
    [] answer.form = "mock"   -> Accepted(answer.id)
    [] answer.form = "smtp"   -> SMTPResult(answer)
    [] answer.form = "resend" -> ResendResult(answer)
    [] answer.form = "brevo"  -> BrevoResult(answer)
=============================================================================
