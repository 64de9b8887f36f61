# MuxMail: TLA+ specifications

MuxMail is a mail centre in one Go process: applications post messages to an HTTP API, workers
send them through provider channels with fallback, and providers report back through webhooks.
What it remembers is a set of JSONL files; the queue, the idempotency cache and the rate limiter
live in memory. This directory models the parts of it that decide what happens to a message, checks
them with TLC and proves with TLAPS the safety of most: the queue, the cache, the send handler over them, the
delivery by workers and webhooks, the log, the exchange with the providers, and the order of the shutdown.

`PROJECT.json` maps every definition to the lines it models, every property to a mutation of the
code that breaks it, every hazard to the properties that watch it, and lists the theorems.
To check a configuration: `tlc -config MCDelivery.cfg MCDelivery`; to check the proofs:
`tlapm MemoryQueueProofs.tla`.

## The system

| Component | State | Operations | Runs on |
|---|---|---|---|
| Delivery queue, `lite/memory_queue.go` | ready list, heap of delayed tasks, counter of admissions, notify channel, closed | Reserve, Commit, CommitDelayed, Release, Dequeue, Close | handlers and workers, under a mutex; workers sleep outside it on a timer, the channel and their context |
| Idempotency cache, `lite/idempotency_cache.go` | one entry for each app, scene and hashed key: pending or queued, fingerprint, message, expiry; a list in order of age | Reserve, CompleteQueued, Release | handlers, under a mutex |
| Rate limiter, `lite/rate_limiter.go` | a counter for each rule, subject and window | Allow, Rollback | handlers, under a mutex |
| Send handler, `api/send.go` | none of its own; composes the three above and the message log | processSend with two deferred functions | one goroutine for each request |
| Delivery workers, `worker/worker.go` | the task in hand | ProcessTask, retry through the queue | a fixed number of goroutines |
| Provider events, `api/provider_event.go` | none of its own | applyProviderEvent | webhook handlers, one at a time under `eventMu`, which workers do not take |
| JSONL writer, `lite/jsonl.go` | open file, its size, backups | append with rotation, Close | whoever appends, under the writer's mutex |
| Message log, `lite/message_log.go` | four such logs: messages, attempts, events, audit | appends, AppendProviderEventOnce, FindLatestMessage, list queries | all of the above |
| Suppression store, `lite/suppression.go` | entries by app and email, and their file | Add, Contains, List, loading at start | webhook handlers, under an RW mutex |
| Statistics, `lite/stats.go` | a JSONL log | record, summaries | handlers, workers |
| Lifecycle, `cmd/muxmail/main.go`, `api/runtime.go` | contexts, the listener | runServe, Serve, Close | the main goroutine |
| Configuration, `config/*.go` | none once read | defaults, validation, resolving of secrets | start |
| Routing, rendering, validation, `domain`, `template` | none | SelectRoute, Render, ValidateSendRequest, RequestFingerprint | handlers |
| Resolver and adapters, `worker/provider_resolver.go`, `provider/*.go` | none | Resolve, Send | workers |
| Webhooks, `api/resend_webhook.go`, `brevo_webhook.go`, `webhook_auth.go` | none | verify, decode to a provider event | webhook handlers |
| Authentication and caller address, `api/auth.go`, `caller_ip.go` | table of API keys, trusted proxies | AuthenticateHeader, resolve | handlers |
| Read APIs, `api/message_*.go`, `*_list.go`, `stats_summary.go`, `admin_config_summary.go` | none | one query each | handlers |
| Command line, admin console | none | | the main goroutine, the browser |

### How they interact

A handler takes a reservation in the cache, then a slot in the queue, then quota in the limiter;
it appends the queued record, commits the slot, and completes the cache entry. Each is a critical
section of another mutex, so another handler, a worker, Close or the clock may come between any
two, and each failure has to give back exactly what was taken so far. The commit hands the message
to a worker, which may log `sending` before the handler has answered. The worker logs an attempt
and a message record around each provider call and, when another channel is left, puts the message
back into the queue, which may by then be full or closed. Webhooks read those same records, decide
the next status and append to the logs and to the suppression store, concurrently with the worker
that writes about the same message. A signal ends the context of all of them while they are at any
of these steps, and `runServe` then closes the queue and the logs under whoever still uses them. What
the next process knows of it is what is in the files.

### What is hard, and what makes it right

* **Queue.** Lost wakeups between a timer, a channel of one slot and a context; a counter that has to
  count reservations and tasks alike; a delayed task that must not start early, or twice. Right: the
  counter is exact, nothing committed is lost or handed out twice, no worker sleeps past a task, and
  callers can think of it as the atomic `DelayQueue`.
* **Cache.** Expiry and eviction run inside other requests' calls. Right: a reservation keeps its
  entry, no pending entry is orphaned, an accepted key is replayed as long as it lives, and eviction
  takes the oldest.
* **Send handler.** Every failure path of eight steps. Right: slots, quota and reservations balance, a
  key is accepted once, an accepted message is queued and was logged before, and a refused one is not
  queued, nor logged as queued but for one whose append failed when all but its newline was written.
* **Workers and events.** At-least-once provider calls, events out of order, repeated, early, and for
  attempts whose answer was lost. Right: attempts go in order, an accepted message is not sent again
  by a later attempt, an event is counted once, and what was acknowledged is not lost.
* **Logs.** Rotation is a chain of renames, a failure or a restart may come between any two. Right:
  queries read the latest records, in order and without a gap. On top of them, lists merge records of
  one message across files, filter, sort by times that are not in the order of the log, and truncate;
  summaries add up windows of time. Right: a list shows what the status query shows, and windows that
  follow each other share out what was recorded.
* **Lifecycle.** Two ways out that close things in different orders. Right: logs outlive those who write to
  them, a graceful exit leaves an outcome for every attempt, and exit is reached.
* **Providers.** Each words its refusals in its own way, and reports in its own format what it finds in
  the mail. Right: the worker gives up only when the message is to blame, every record that is
  written can be read back, and what a provider says of its mail is taken, once.
* **Configuration.** Validation is apart from the code that later relies on it. Right: what it
  accepts, the runtime, the handlers and the workers can use; and what the process writes, it can read.
* **Requests.** A repeated request may be spelled otherwise and reach the process another way. Right: its
  fingerprint is the same exactly if it means the same mail, and its caller the same caller.

## The modules

| Module | Models | Correspondence |
|---|---|---|
| `MemoryQueue` | memory_queue.go | One action for each critical section of `q.mu` and for each case of Dequeue's `select`. `pending`, `nextSeq`, `ready`, `delayed` and `closed` are the struct's fields, the heap a set; `pc`, `signalled` (the captured channel was closed) and `deadline` (of the timer) are a worker's place in Dequeue. |
| `DelayQueue` | what the queue promises | A set of tasks with due times, and claims; an open queue hands out any due task. No wakeups, timers or heap. |
| `MemoryQueueProofs` | | The inductive invariant, the order of handing out, and the refinement. |
| `IdempotencyCache` | idempotency_cache.go | Reserve, CompleteQueued and Release, each with its expiry and eviction, and the requests that hold reservations. Keys are numbers, so that the order of entries can be stated. |
| `IdempotencyCacheProofs` | | The inductive invariant and two action properties. |
| `RateLimiter` | rate_limiter.go | `Allow` and `Rollback` as operators on a set of counters, `SendPipeline` holds the variable. |
| `SendPipeline` | send.go from the reservation on | `pc[h]` is a handler's place in processSend; one action for each call into the cache, limiter, queue or log, one for each deferred function. `stuck` is the log writer once it has failed or is closed, since it keeps its first error; an append that fails may have written the record. The cache and limiter are instances of the modules above, the queue is `DelayQueue`. |
| `SendPipelineProofs` | | The inductive invariant over the cache's, and the two refinements. |
| `Delivery` | worker.go, provider_event.go, the logs they share, suppression.go's Add | `pc[w]` is a worker's place in ProcessTask, `hook` the place of the one handler that holds `eventMu`. `status` and `attempt` are what the queries on the logs return. The provider is external: it accepts, refuses, or accepts and loses the answer, and then reports anything in `Reports` about what it accepted, at any time and repeatedly. |
| `DeliveryProofs` | | The inductive invariant and two action properties. |
| `DeliveryRules` | the status rules of provider_event.go, suppression.go's choice, worker.go's delay | Operators that `Delivery` and `Exchange` share. |
| `FailureClasses` | provider/*.go: what an adapter makes of an answer | Operators: the class of an HTTP status, error and wording, of an SMTP reply at its stage, and Retry-After in integers of a Duration's width. |
| `WebhookMapping` | resend_webhook.go, brevo_webhook.go, webhook_auth.go, decoding in provider_event.go, tags written by the adapters | Operators from a notification to the set of its event, empty if it is refused. A time is a local time and an offset, in a calendar that ends. |
| `Exchange` | one message, its providers and the records about it, end to end | Coarse steps, with the contents that `Delivery` leaves open: `BeginAttempt`, `CallProvider` and `SkipChannel` are ProcessTask, `Notify` is a webhook. The answers are external and carry their cause, which the adapter does not see and the properties do. |
| `ExchangeProofs` | | The inductive invariant, and lemmas on each form of answer and notification. |
| `Lifecycle` | main.go, runtime.go | `main` is the place in runServe and Runtime.Close; handlers and workers are the same steps as above with everything left out that shutdown cannot tell apart. |
| `LifecycleProofs` | | The inductive invariant of the shutdown. |
| `JsonlLog` | jsonl.go, and how message_log.go and stats.go read | `files` are the file and its backups, one action for each system call of an append and a rotation, each of which may fail; `Restart` may come between any two. A behaviour is of one of the `Logs`, which say what the records are about. |
| `JsonlLogProofs` | | The inductive invariants of rotation, failures and restarts, and what the queries and summaries make of the files. |
| `MessageQueries` | the queries of message_log.go, and the handlers of messages, attempts, events and their lists | Operators over the lines of `JsonlLog`: a scan that keeps the last record of each message is the set of those that no later one follows, and a sort puts a set in order. A handler answers a code and what it found. |
| `StatsSummary` | stats.go, stats_summary.go | Operators over the same lines: which records are valid, and the sums of a window, which are how many units its records have together. |
| `Configuration` | config/*.go | Operators: defaults, each validation rule, secrets. A configuration is a record in the shape of the YAML file. |
| `RequestFingerprint` | request_validation.go, the fingerprint in helpers.go | The checks of a request as a sequence of codes and conditions; numbers as their digits and exponent, and the text that is hashed for the hash. |
| `CallerAddress` | caller_ip.go | The address that a request counts under, as an operator on a peer and its headers. An address is a host and whether it is written IPv4-mapped. |
| `Orders` | the order in lists and hashes | The n-th of a set of numbers, and any finite set as the sequence that a sort makes of it, for what is filtered, cut off or sorted in the modules that use it. |
| `AppViews` | suppression_list.go with `List`, admin_config_summary.go | What the app of an API key is shown, as operators on entries and a configuration. |
| `Admission` | api/runtime.go, route.go, render.go, provider_resolver.go, auth.go, the adapters' checks, the suppression file | The start of the process and what it builds from the configuration, requests up to the idempotency reservation, webhooks that suppress, secrets that are replaced, restarts. It composes the three modules above. |
| `AdmissionProofs` | | What validation promises the rest, as an invariant of starts, secrets, requests and webhooks. |

`MC*` modules give the constants values. Definitions under the comment "Seeded fault" are mutations
that `PROJECT.json` uses to test the properties; no specification uses them.

## The runs

All check safety and action properties, except `delivery_live`, which checks liveness;
`memory_queue` and `lifecycle` check both. Three runs are expected to find a violation: each
states what a document of the repository says and the code does otherwise (see Findings).

| Run | Instance | What it shows |
|---|---|---|
| `memory_queue` | capacity 2, 3 callers, 2 workers, delays 0 to 2, at most 3 commits, clock to 3 | `PendingExact`: the counter is reservations plus tasks. `NothingLostOrDuplicated`: every commit is in exactly one of ready, heap, taken. `NoLostWakeup`: no worker sleeps past a task. `HandedOutInOrder`: what a step may take. `ImplementsDelayQueue`: the refinement. `EventuallyTaken`, `CloseStopsWorkers`: every task of a queue left open is taken in the end, Close and cancellation stop every worker. |
| `idempotency` | 3 keys, 2 fingerprints, 3 requests, 2 entries, lifetime 2, clock to 3 | `PendingIffHeld`: reservations and pending entries are one to one. `ReplayedWhileLive`: an accepted key answers with its message until it expires or is pushed out. `OldestEvictedFirst`. |
| `send_pipeline` | 2 handlers, 4 requests under 3 keys, 3 rate rules, queue of 1, cache of 2, 3 messages, clock to 2 | `NothingLeaked`, `QuotaExact`: idle handlers hold nothing and counters equal what was accepted, rollbacks across the end of a window included. `AcceptedOncePerKey`, `CompletionCannotFail`, `LogAgreesWithQueue`: the last step cannot fail after the commit, every task was logged queued before, and while the queue is open no message is logged queued without a task or a request that will commit one, but the one whose append failed first. |
| `delivery` | 2 messages to one recipient, one with 2 channels, 2 workers, queue of 1, 1 restart | `NoDuplicateSend`: no attempt follows one whose acceptance the worker saw. `AttemptsInOrder`: the log's order. `OutcomesOnlyAdvance`: a failure is final and an event never takes a status back. `EventCountedOnce`, `AckedEventTakesEffect`: redelivered, repeated and early events, and failures of the suppression file. |
| `delivery_live` | the same messages without reports, delays 0 and 1, Retry-After 0 and 2 capped at 1, clock to 2 | `EveryMessageSettles`: every accepted message is sent or fails, unless the process dies. |
| `lifecycle` | 2 messages, 2 workers, 2 attempts | `LogOutlivesWork`, `GracefulExitIsClean`, `ShutdownCompletes`, on every way out. |
| `jsonl_log` | five logs: a plain one with files of 2 records, 3 backups, 11 appends and 2 restarts; messages, events, attempts and statistics with 4 appends and 1 restart | `QueriesSeeLatest`: what a query reads is the latest records, in order, without a gap, and rotation loses no more than the oldest file. `RecordedOnce`. `ListsAgree`: lists show each message once, in the state that the status query shows, newest first, filtered and then truncated. `SummaryExact`: every record is in one of two consecutive windows, and an unfinished line costs its own records only. |
| `exchange` | 6 routes over Resend and Brevo by API and SMTP, mock, a disabled and an unknown channel; 3 attempts, 2 events | `RecordsReadBack`: what the worker and the webhooks write, the readers of the logs accept, and only mail that its provider has is logged sent. `NotificationsTakeEffect`: what Resend and Brevo say of mail that was logged sent is taken, and once. `FallsBackAsTold`: from the provider's cause to the worker's next step and its delay. |
| `admission` | a valid configuration of 2 apps and 3 channels, over 500 edits of it, 4 sets of secrets, 6 suppression files; requests and numbers in several spellings, 6 addresses | `StartsAgain`: a configuration that validation accepts starts, and starts again after what the process wrote. `ServesEveryRequest`, `AttemptsReachProvider`, `RouteHonoured`: handlers and workers find everything that they look up, a mail that cannot be rendered is the fault of a template that parses but does not execute, the channels of a message are those its route names, and an app is shown the suppressions and channels that its messages meet. `FingerprintFaithful`: equal requests have one fingerprint, others never. `OneCaller`: headers of others than trusted proxies do not matter, and an address is one caller however it is written. Behind a trusted proxy the first entry of X-Forwarded-For counts (`caller_ip.go:126`), which the client chooses if that proxy appends instead of replacing. |
| `status_regression`, `shutdown_calls`, `shutdown_tasks` | as `delivery` and `lifecycle` | the findings below. |

### Bounds, and why they are enough

Every bound is a constant with `Max` in its name, and restricts only how long a behaviour goes on:
commits, clock, appends, restarts, suppressions. The instances are chosen for the interesting cases:

* Three callers and two slots make a reservation fail while another is held and a third is released;
  two workers make one worker's wakeup the other's loss; delays 0 to 2 make timers fire in another
  order than that of commits. A third worker brings no new interaction, since workers interact only
  through the mutex and one channel. The proofs do not have these bounds.
* Two cache entries and three keys force eviction while a reservation is pending, lifetime 2 forces expiry
  between Reserve and CompleteQueued.
* Two handlers, one queue slot and rate limits of one put every failure of one handler between any
  two steps of the other; windows that end at 1 and 2 end in mid-request.
* Two messages to the same recipient share a suppression entry; one of them has a second channel,
  so that lost answers lead to a fallback, events on the first attempt arrive during the second, and
  the retry finds the queue full with the other message.
* Eleven appends fill four files of two records and rotate beyond the oldest, and two restarts leave
  two unfinished rotations in the same chain. The logs with contents have files of one record (two for the
  statistics, so that a record can be glued to an unfinished one), so that four appends rotate the oldest out of the
  logs of messages and events, and times that are up to two steps out of order. The statistics' oldest file is not reached;
  that rotating it out costs a summary no more than that file is left to `SummariesRight`.
* Numbers have up to four digits and exponents from -9 to 7 where the plain form ends at three zeros
  (`PlainPlaces`, 8192 in the code), so that every case of the canonical form and both its bounds are reached.
* In `exchange` a second has two units, a Duration holds seven and a half seconds and the calendar ends at 9,
  so that rounding, overflow and times on both sides of the calendar's end occur; every combination of
  status, error and the words that the adapters look for is an answer. Two events suffice for one
  that is repeated and one that follows an unreadable one.
* Edits of a valid configuration, and pairs of them in accounts, channels and routes, reach every
  rule of validation from its accepted side, which enumerating all configurations would not.
  Integers overflow at 8 bits there, against settings scaled down likewise; the code's are 64 bits.

`delivery` leaves the clock at zero and `delivery_live` has no reports: delays do not interact with
events other than by order, which the interleaving already gives.

Deadlock is checked in `admission`, where something can always happen. The other
configurations say `CHECK_DEADLOCK FALSE`, because the system stops in them: the process
exits, or the bound on commits, appends or the clock is reached.

### Fairness

* Weak fairness of `Tick` where there is a clock: time passes.
* Weak fairness of each worker's step: a runnable goroutine is scheduled in the end, a mutex is
  released after a bounded number of instructions, and a provider call ends by its timeout
  (`worker.go:258`). No worker waits for another.
* In `Lifecycle`, weak fairness of the main goroutine and of workers, and none of handlers: `main.go`
  and `runtime.go` bound the wait for those by the shutdown timeout, and so does the model.
* None of callers, webhooks, Close, signals or the provider: nobody has to send a request.

## Proofs

TLAPS proves what follows for every value of the constants, under the assumptions that the modules
name. Each component has one inductive invariant `IInv`, a lemma for each action that the action keeps
it, and theorems that are consequences of it. TLC checks each `IInv` on the run's instance as well: that is
how its parts were found.

**Queue** (`MemoryQueueProofs`), assuming a positive capacity, finite sets of callers and workers,
and delays that are natural numbers. The invariants that the run checks are not inductive one by
one: that the counter is exact needs that a committed task is in one place only, and that no wakeup
is lost needs that whatever is in the ready list is due and that a closed queue is empty. `IInv` is
their conjunction: the type, the exact counter, the capacity, the emptiness of a closed queue, the
due times of ready tasks, conservation of tasks, and no lost wakeup. `Ordered` adds what the order of
handing out needs: the ready list is in order kind by kind, and its delayed tasks were due before
those of the heap. `Refinement` then maps every step to a step of `DelayQueue` or to a stutter under
`IInv`; this is what entitles `SendPipeline` and `Delivery` to put `DelayQueue` in the queue's place.
Theorems: `TypeCorrect`, `CounterExact`, `CapacitySafe`, `TasksConserved`, `WakeupSafe`, `OrderSafe`,
`Refinement`.

**Cache** (`IdempotencyCacheProofs`), assuming keys that are natural numbers, a positive size and
lifetime, and message numbers other than the one for "none". `IInv`: the type; the size; every held
reservation has a pending entry and every pending entry is held; queued entries carry the message
recorded for them; a message is completed once; and a live, unevicted acceptance is in its entry. That a message
is completed at most once is what the last of them needs: without it, evicting the entry of one acceptance
could excuse the loss of another. Theorems: `TypeCorrect`, `SizeSafe`, `ReservationSafe`, `ReplaySafe`,
and `EvictionSafe`, an action property.

**Send handler** (`SendPipelineProofs`), assuming finitely many handlers, numbered keys, rules with limits and
windows, and the cache's assumptions. The steps of handlers are steps of the cache and of
`DelayQueue` (`CacheRefined`, `QueueRefined`), so the cache's `IInv` holds of the cache in the pipeline and
is a part of the pipeline's, instantiated from `IdempotencyCacheProofs` and not proved again. The
others say what the cache cannot: what a handler holds at each step (`Locals`); that message numbers
are handed out in order and a handler's message is its own, logged, and queued exactly from the commit on
(`Journal`); that all that was accepted under a key that is reserved has expired or was evicted, and is older
(`Answers`); and that a running counter is the requests in flight plus those accepted in its window, which
never exceed the limit (`Quota`). A failed append may leave its record behind; that at most one message is stranded so
needs that the writer keeps its error (`QueuedLogged`, of an append that wrote the record, whether it failed or not).
`Answers` is why a key is accepted once, and needs the cache's
reservations to be exclusive; `CompletionCannotFail` follows from those and from `Locals`.
The limit is stated of windows that have ended as well: a request that took its
quota in time may be accepted or rolled back when its counter is gone already. Theorems: `CompletionSafe`, `LeakFree`, `QuotaSafe`,
`AcceptedOnce`, `LogAgrees`, `CacheRefined`, `QueueRefined`.

**Workers and events** (`DeliveryProofs`), assuming messages with at least one channel and workers that are not
messages. That no attempt follows one whose acceptance the worker saw needs three facts of different
actors: a message is in one place, be it a slot, a task of the queue or a worker's hands (`OneTask`); of a message
without a record nothing was tried (`Untouched`), which is what a slot turns into a first task; and of the message
of a task, attempts before its own failed, without an acceptance that was seen, and those after it were not
tried (`InOrder`, with `Tried` for each place in ProcessTask). The webhook decides on a status it has read
before: `Snapshot` bounds how far the latest may have moved since, and says what is done by each stage; `Outcomes`, that an
event has moved a status only where an attempt was recorded as sent, is what keeps a worker and a webhook
from both deciding, but for the one race of the first finding, which `overtaken` records. Theorems:
`TypeCorrect`, `SentOnce`, `CountedOnce`, `EventsTakeEffect`, and the action properties `AttemptsOrdered`
and `OutcomesAdvance`.

**Log** (`JsonlLogProofs`), assuming that a file has room for a line and that there is a backup. `IInv`: the type;
where a rotation is (`Staged`); the order of records across files (`Ordered`); no gap but at a damaged line
(`NoGap`); one record for an event (`Once`); and, as long as no write was cut short, `Retained`. The first four need
no more than that the target of each rename is free, however often rotation fails or is cut off by a
restart. That no more is lost than the oldest file needs a count: backups are full (`Full`), their
records successive (`Numbered`), and backup i begins no later than i files back, less one for each restart
and each rotation under way, since those leave a hole in the chain (`Aged`); hence what was appended that
late can be read (`Kept`).

What the queries show of the lines is the work of lemmas. A finite set that is strictly ordered is listed by `InOrder`
completely and in order (`Ranked`, `Listed`), which makes the lines those of the files in the order of their appends
(`Reading`), and each list a cut of what passes its filter (`Cut`, `FirstOf`). It takes a second invariant: every record
says what one of its log may, and its time is out of order by no more than the skew (`Contents`). When nothing
is damaged the status of a message is then its last line (`StatusShows`), and the lists hold the first of these
(`NewestMessages`, `NewestEvents`). It is assumed that limits are numbers and that message ids can be compared.

A summary skips what it cannot decode, so it also answers of a log that was damaged, where `Retained` says nothing. Its
lower bound takes a third invariant (`LossInv`), which counts instead of naming what is kept: the files up to the i-th hold
all that was appended, or as many records as that many full files have, less one file for each restart and rotation under
way, but for a loss of at most two records for each restart (`Lost`). Two, because the record that a write leaves
unfinished is lost and so is the one that is glued to it; for each restart, because the writer refuses
appends after a failure until it is opened again; and a `usable` writer whose last line is unclosed has one such pair still to
come. `Sized` says how the size that the writer goes by, which a failed write leaves behind, differs from the lines there are.
From it the records that can be read are as many as `SummaryExact` asks for (`KeptHeld`, `RecordsBounded`), and a summary of all
times counts each of them once (`SummaryStandsFor`, `AllCounted`), since the records of a kind are as many as
the places in the sum (`Grouped`); sums of disjoint sets add up (`SumOfParts`), which is what consecutive windows are
(`WindowsRight`). It is assumed that the sink writes valid records, of value one but for durations. Theorems: `LatestSeen`,
`EventsOnce`, `ListsRight`, `SummariesRight`.

**Exchange** (`ExchangeProofs`), assuming routes of channels as a valid configuration has them (`Channels`), provider
ids that are not empty, spellings that normalise to the recipient, a Duration no wider than an int, and any headers,
instants and offsets. Most of the work is in lemmas about operators, for every value they may get: what the worker
is told of an answer (`AnswerTold`, over every form of answer), that a Retry-After is read without loss as long as a
Duration holds it (`AskedIsRead`, on top of division), that a tag that an adapter wrote is read back from any position
(`TagsReadBack`), that whatever is reported leads to an event about the mail (`ReportedEvents`, `GenericEvents`), and that
such events and the records of attempts pass the decoders (`EventReads`, `RecordReads`). `IInv` is the type, which says that
a worker that is not done has a channel and an attempt left; that a record tells the channel of its attempt, and says
`sent` only if the provider has the mail (`Kept`); that events are about mails and differ (`EventsKept`); and
`FallsBackAsTold`, which needs the type only. The proofs found two things that the instance had not: the condition of
`FallsBackAsTold` was wrong for the code's own constants, since a wait just below what a Duration holds overflows
when it is rounded up; and that a mock channel is never reached by SMTP, which the answers rely on, is a rule of
validation (`SupportsTransport`). Theorems: `RecordsRead`, `NotificationsTaken`, `FallbackSafe`.

**Admission** (`AdmissionProofs`), for any configurations, secrets, suppression files, requests and addresses. It
assumes what decoders and parsers establish: the shape of a decoded file (`IsConfiguration`), units that are
positive, `*` the same in small letters, no proxy that covers what is no address, recipients that are addresses
other than "", and `RecipientOrder` with every address once, as a sort has them. None of that is checked by
validation, and nothing that validation checks is assumed. `IInv`: what is loaded and which keys are known
of it (`Loaded`); what validation says holds with the secrets of the moment until one is replaced, and with some secrets,
hence in all that secrets have no part in, from the check until the process ends (`Valid`); messages have the channels of
a scene of their app (`Messages`); and every entry of the suppression file has its place in a list (`Ordered`). The
one step that could break `Valid` is a webhook's rewriting of the suppression file: `SuppressKeepsFile` is that the
file still validates. `StartsAgain` then needs one lemma for each constructor, that it accepts whatever validates
(`AuthenticatorIsBuilt`, `StoresAreBuilt`, ..., `ResolverIsBuilt`). The other theorems follow from `IInv` and lemmas
about operators: nothing is skipped of a valid route, only cut off (`ChosenRoute`); its channels are found,
complete and can be called (`Reaches`), and are the ones that the app is shown (`ChannelShown`); a template can always be
found and parses (`TemplateServed`), which `RequestsServed` says of every request that is refused for its template
as well, since validation promises no more than that; a list that is not full has every entry that the filter lets through (`Listed`); and what the
headers of a request may do to its caller (`CallsItself`, `CallsForAnother`). `FingerprintFaithful` is the work of
lemmas too, assuming what decoding leaves: finitely many requests, languages and numbers, the latter with any digits and
exponent, of which there may be no more digits than `LiteralsFit` says. A number is a function from powers of ten to digits (`Value`);
canonicalJSONNumber writes one by where its digits other than zero begin and end, and by nothing else of the
literal (`CanonicalWritten`, `LiteralWritten`), and what is written is that number again (`WrittenMeans`); so
two literals are written alike exactly if they are one number (`NumbersToldApart`). Names are listed
completely (`NamesListed`), the variables of a request that passes every check have names that are in the order
(`VarsDecoded`), and a template is of one language (`TemplateOfLocale`). Theorems: `StartSafe`, `CallerSafe`,
`ChannelsUsable`, `RouteSafe`, `RequestsServed`, `NumbersToldApart`, `FingerprintSafe`.

**Lifecycle** (`LifecycleProofs`), assuming a positive number of attempts. Neither property is inductive:
that no record meets a closed log needs that the queue is open as long as handlers and workers run and
that both are done before it is closed (`CloseOrder`); that the exit finds the outcome on record needs
that whoever logged `sending` has the task still (`OutcomesLogged`), and, since another worker's record
of the same message would overwrite it, that a message is in one task of the queue or with one worker
(`OneTask`). `IInv` is their conjunction with the type, which says that a worker about to retry has an
attempt left; one lemma for each action. Theorems: `TypeCorrect`, `LogSafe`, `GracefulExit`.

**Only model-checked**: liveness (`EventuallyTaken`, `CloseStopsWorkers`, `EveryMessageSettles`,
`ShutdownCompletes`), which is out of this prover's reach. Every invariant and action property that a passing run checks
is a theorem.

## Findings

1. **A worker's record takes a status back** (`status_regression`). ProcessTask logs the sent attempt
   (`worker.go:189`) and then the sent message (`worker.go:191`). A webhook in between is valid, is
   answered 202 and advances the message to delivered, bounced or complained; the worker's record then makes `sent` the
   latest for good. `docs/mail-center-design.md:1727` says that a status only goes forward.
2. **The signal cuts off provider calls** (`shutdown_calls`). `docs/mail-center-design.md:714` says that
   started calls are waited for, up to their timeout; their context is a child of the signal's
   (`worker.go:258`, `main.go:115`), so an HTTP call ends with the signal and is logged as a temporary failure
   although the provider may have accepted the message.
3. **Unstarted tasks are started** (`shutdown_tasks`). `docs/mail-center-design.md:715` says they are discarded;
   Dequeue returns a ready task before it looks at its context (`memory_queue.go:190`), so after the
   signal the workers run the ready tasks through to failed attempts without a call.

## Abstractions, and what is not modelled

* The clock never goes back and is the same for all. The code does not ensure that: `now().UTC()`
  (`memory_queue.go:135` and `188`, `idempotency_cache.go:122` and `234`, `rate_limiter.go:83`) has no monotonic reading, so the
  clock of the machine can be set back. A delayed task then waits longer, a cached answer lives longer, and a window
  that had ended is counted anew. What is shown of due times, lifetimes and quotas is shown of a clock that goes forward.
* `Delivery` has no failures of the log: ProcessTask reports those and goes on, and what the next
  actor then reads is the state before. `Lifecycle` has the closed log, `JsonlLog` the failing one.
* `Delivery` starts with no manual suppression of a recipient whose message was already accepted.
* `Exchange` writes a worker's records before and after a call at once, and all that a notification leads to;
  `Delivery` has the steps in between. Its providers report mail sent through their APIs, with the tags the
  adapter gave; mail sent by SMTP has no tags, so only MuxMail's own format can report it. It also takes channels
  that are not found or are disabled, since ProcessTask has code for them; no message of a validated configuration
  has one (`AttemptsReachProvider`).
* Two properties of `Exchange` name a case in which the code does not keep them. An `occurred_at` near the
  ends of the calendar parses, but its form in UTC does not; it is logged all the same, and every later event
  is refused until rotation drops the record (`RecordsReadBack`, `NotificationsTakeEffect`). A Retry-After date
  centuries ahead overflows when it is rounded up to seconds and gives no wait (`FallsBackAsTold`).
* `Lifecycle` has no queue limit and no attempt log. An SMTP call looks at its deadline only once it has
  dialled, an HTTP call is cut off at any time; `CallCutOff` is the latter, `CallEnds` covers both.
* `JsonlLog` has records of one size, takes an error of the buffered writer, which sticks, for "closed
  until the restart", and leaves out a machine that loses power. A failed write may leave all of a record but
  its newline: that line is read, and then the next record is glued to it. The contents of the logs are
  any records in any order, more than the program writes. The two queries that read the message log first and
  then another take the first answer as a parameter, since the two logs are read under different mutexes.
* `RequestFingerprint` assumes (`LiteralsFit`) that a number has no more digits than the plain form may have
  zeros. The default of `max_template_var_bytes` gives that; with a larger setting, one number written with
  8193 zeros and with an exponent has two fingerprints, and the same request under the same key is refused.
* `IdempotencyCache` leaves out Check and MarkQueued, which only tests call, and evictOverflow, which
  nothing calls.
* `Admission` takes the suppression store and its file for one set, leaves out what template engines make
  of the caller's variables, and keeps the configuration of a behaviour fixed, so that a file that still names a
  removed app does not occur. A template source is one of five kinds: absent, broken, failing when it is executed,
  empty when it is rendered, or good; validation tells the first two from the others, and `Renders` all of them.
* Wording, HTTP encoding, logging, and the metrics' format are left out everywhere, as are flags of the command
  line and the browser application: none of them has a state that another part reads.
* Handlers' steps before the idempotency reservation change no state: `SendPipeline` starts after
  them, `Admission` has those that depend on the configuration and `RequestFingerprint` those that do not.

The `not_modelled` and `partly` rows of `PROJECT.json` give the reason for each part.

## Plan

Done, in this order: the queue and its proofs; the cache and its proofs; the send handler over both;
delivery; lifecycle and its proofs; the log; configuration and admission; the providers' answers and webhooks (`Exchange`);
the queries and summaries over the log; validation and fingerprints of requests; the caller's address; what apps are shown.

Proofs done: the queue with its refinement and order; the cache; the lifecycle; the log; the send handler over the
cache's invariant; delivery; the exchange; admission; the queries and summaries over the log.

Every safety property is a theorem. What is left is liveness, which the prover cannot state, and the parts that
`PROJECT.json` lists as `partly`.
