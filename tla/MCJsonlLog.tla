----------------------------- MODULE MCJsonlLog -----------------------------
(***************************************************************************)
(* Five logs.  The plain one is deep: files of two records and three       *)
(* backups, so that every backup is renamed and the oldest is dropped, and *)
(* two restarts.  Those with contents are shorter, with one restart: the   *)
(* messages and the statistics with times out of order, the events, whose  *)
(* time is read under the mutex, with equal ones.                          *)
(***************************************************************************)
EXTENDS MessageQueries, StatsSummary

Limits(name, records, once, skew, lines, backups, appends, restartsOf) ==
  [name |-> name, records |-> records, once |-> once, skew |-> skew, lines |-> lines,
   backups |-> backups, appends |-> appends, restarts |-> restartsOf]

(* The records a message may be given in any order, a wider choice than    *)
(* the program makes.                                                      *)
Messages ==
  {[app |-> "shop", message |-> 1, status |-> "sent", scene |-> "login"],
   [app |-> "shop", message |-> 1, status |-> "failed", scene |-> "login"],
   [app |-> "shop", message |-> 2, status |-> "failed", scene |-> "news"],
   [app |-> "blog", message |-> 3, status |-> "sent", scene |-> "login"]}

Events ==
  {[app |-> "shop", message |-> 1, provider |-> "resend", type |-> "delivered", id |-> 1],
   [app |-> "shop", message |-> 1, provider |-> "resend", type |-> "bounced", id |-> 1],
   [app |-> "shop", message |-> 2, provider |-> "brevo", type |-> "bounced", id |-> 2],
   [app |-> "shop", message |-> 1, provider |-> "brevo", type |-> "bounced", id |-> 3],
   [app |-> "blog", message |-> 3, provider |-> "resend", type |-> "delivered", id |-> 4]}

Attempts ==
  {[app |-> "shop", message |-> 1, no |-> 1], [app |-> "shop", message |-> 1, no |-> 2],
   [app |-> "blog", message |-> 2, no |-> 1]}

StatsRecords ==
  {r \in [app : {"", "shop"}, metric : {"messages_sent", "provider_duration_ms", "unknown"},
          channel : {"", "web"}, transport : {"", "api"}, value : {-1, 1, 2}] \cup
         [app : {"blog"}, metric : {"messages_sent"}, channel : {""}, transport : {"", "api"}, value : {1}] :
     IsValidStatsRecord(r) /\ r.value = IF r.metric = "provider_duration_ms" THEN 2 ELSE 1}

MCLogs ==
  {Limits("plain", {None}, FALSE, 0, 2, 3, 11, 2),
   Limits("messages", Messages, FALSE, 2, 1, 2, 4, 1),
   Limits("events", Events, TRUE, 1, 1, 2, 4, 1),
   Limits("attempts", Attempts, FALSE, 0, 1, 2, 4, 1),
   Limits("stats", StatsRecords, FALSE, 2, 2, 3, 4, 1)}

MCApps == {"shop", "blog"}

(* 0 is no limit given; -1 and 4 are out of range. *)
MCMessageQueries ==
  {[limit |-> n, status |-> s, scene |-> ""] : n \in {0, 1, 3}, s \in {"", "failed"}}
    \cup {[limit |-> 1, status |-> s, scene |-> "login"] : s \in {"", "sent"}}
    \cup {[limit |-> -1, status |-> "", scene |-> ""], [limit |-> 4, status |-> "", scene |-> ""],
          [limit |-> 1, status |-> "lost", scene |-> ""]}

MCEventQueries ==
  {[limit |-> n, provider |-> p, type |-> t] : n \in {0, 1}, p \in {"", "brevo"}, t \in {"", "bounced"}}
    \cup {[limit |-> 3, provider |-> "", type |-> ""], [limit |-> -1, provider |-> "", type |-> ""],
          [limit |-> 1, provider |-> "ses", type |-> ""], [limit |-> 1, provider |-> "", type |-> "opened"]}
=============================================================================
