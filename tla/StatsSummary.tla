----------------------------- MODULE StatsSummary -----------------------------
(***************************************************************************)
(* The statistics sink (internal/lite/stats.go) over a log as the writer   *)
(* leaves it, and the handler that answers with a summary of one of three  *)
(* windows of time.  Other than the queries of the message log, a summary  *)
(* skips the lines that it cannot decode.                                  *)
(*                                                                         *)
(* Values are natural numbers.  The average of a channel's durations is    *)
(* its total by its count, and is left out.                                *)
(***************************************************************************)
EXTENDS JsonlLog

CONSTANTS
  StatsApps,  \* those whose API keys are used
  Hours       \* how long an hour is, in steps of the clock

ASSUME HoursAssumption == Hours \in Nat

AttemptMetrics == {"attempts_sent", "attempts_failed", "provider_duration_ms"}

KnownMetrics ==
  AttemptMetrics \cup
    {"messages_queued", "messages_sent", "messages_failed", "requests_rate_limited", "requests_queue_full",
     "requests_idempotent_replay", "provider_events_delivered", "provider_events_bounced",
     "provider_events_complained"}

(* validateStatsRecord, before a record is written and after it is read:   *)
(* only the metrics of attempts have a channel and a transport.            *)
IsValidStatsRecord(r) ==
  /\ r.app # "" /\ r.metric \in KnownMetrics /\ r.value >= 0
  /\ IF r.metric \in AttemptMetrics
     THEN r.channel # "" /\ r.transport \in {"api", "smtp"}
     ELSE r.channel = "" /\ r.transport = ""

(* Record writes what is valid; the apps are those that send; and what is  *)
(* recorded is one of something, or how long an attempt took.              *)
ASSUME RecordsAssumption ==
  \A l \in Logs : l.name = "stats" => \A r \in l.records :
    /\ IsValidStatsRecord(r) /\ r.app \in StatsApps /\ r.value \in Nat
    /\ r.metric # "provider_duration_ms" => r.value = 1

-----------------------------------------------------------------------------
(* aggregateStatsPath over the files. *)

(* Seeded fault: a record of the moment the window ends is counted too. *)
InWindowToTheEnd(at, since, until) == since <= at /\ at <= until

InWindow(at, since, until) == since <= at /\ at < until

(* The lines of one app and window that are records and count. *)
Aggregated(lines, app, since, until) ==
  {k \in DOMAIN lines : /\ Decodes(lines[k]) /\ IsValidStatsRecord(lines[k].about)
                        /\ lines[k].about.app = app /\ InWindow(lines[k].at, since, until)}

(* The values of some of the lines added up, which is how many units they  *)
(* have together.                                                          *)
SumOf(lines, some) == Cardinality(UNION {{k} \X (1..lines[k].about.value) : k \in some})

MetricsOf(lines, some) ==
  [metric \in {lines[k].about.metric : k \in some} |-> SumOf(lines, {k \in some : lines[k].about.metric = metric})]

(* accumulateProviderDuration: the transport is the last record's. *)
DurationsOf(lines, some) ==
  [channel \in {lines[k].about.channel : k \in some} |->
     LET its == {k \in some : lines[k].about.channel = channel}
     IN [transport |-> lines[Max(its)].about.transport, count |-> Cardinality(its), total |-> SumOf(lines, its)]]

Summary(app, since, until) ==
  LET lines     == Lines
      all       == Aggregated(lines, app, since, until)
      durations == {k \in all : lines[k].about.metric = "provider_duration_ms"}
  IN [metrics |-> MetricsOf(lines, all \ durations), durations |-> DurationsOf(lines, durations)]

(* parseStatsWindow, and the window of processStatsSummary, which ends now. *)
Windows ==
  [window \in {"", "1h", "24h", "7d"} |->
     Hours * (IF window = "1h" THEN 1 ELSE IF window = "7d" THEN 7 * 24 ELSE 24)]

ProcessStatsSummary(app, window, now) ==
  IF window \in DOMAIN Windows
  THEN [code |-> "ok", summary |-> Summary(app, now - Windows[window], now)]
  ELSE [code |-> "invalid_query"]

-----------------------------------------------------------------------------
Value(s, metric) == IF metric \in DOMAIN s.metrics THEN s.metrics[metric] ELSE 0
Count(s, channel) == IF channel \in DOMAIN s.durations THEN s.durations[channel].count ELSE 0
Total(s, channel) == IF channel \in DOMAIN s.durations THEN s.durations[channel].total ELSE 0

(* s is what was recorded in the times of both a and b, which do not       *)
(* overlap, and no more.                                                   *)
IsSumOf(s, a, b) ==
  /\ \A metric \in DOMAIN s.metrics \cup DOMAIN a.metrics \cup DOMAIN b.metrics :
       Value(s, metric) = Value(a, metric) + Value(b, metric)
  /\ \A channel \in DOMAIN s.durations \cup DOMAIN a.durations \cup DOMAIN b.durations :
       /\ Count(s, channel) = Count(a, channel) + Count(b, channel)
       /\ Total(s, channel) = Total(a, channel) + Total(b, channel)

(* A window and all that was before it make up what was recorded until     *)
(* now, so no record is in two consecutive windows or in neither.          *)
WindowsAddUp ==
  \A app \in StatsApps, window \in DOMAIN Windows, now \in {appended, appended + 1} :
    LET past == -log.skew IN
    IsSumOf(Summary(app, past, now), Summary(app, past, now - Windows[window]),
            ProcessStatsSummary(app, window, now).summary)

(* What a summary stands for, a member for each record: all but those of   *)
(* durations have the value one.                                           *)
RecordsIn(s) ==
  (UNION {{<<"metric", metric>>} \X (1..s.metrics[metric]) : metric \in DOMAIN s.metrics})
    \cup (UNION {{<<"duration", channel>>} \X (1..s.durations[channel].count) : channel \in DOMAIN s.durations})

(* What a failed write costs is the records on the line it left            *)
(* unfinished, never the others, which a summary counts for one app or the *)
(* other as long as the files keep them.                                   *)
RecordsSurvive ==
  LET all     == [app \in StatsApps |-> Summary(app, -log.skew, appended + 2)]
      counted == Cardinality(UNION {{app} \X RecordsIn(all[app]) : app \in StatsApps})
      kept    == (log.backups - restarts) * log.lines
  IN /\ counted <= appended
     /\ counted >= (IF appended < kept THEN appended ELSE kept) - (IF torn THEN 2 * restarts ELSE 0)

(* Summaries count every record that is kept, and count it once. *)
SummaryExact == pc = "idle" /\ log.name = "stats" => WindowsAddUp /\ RecordsSurvive
=============================================================================
