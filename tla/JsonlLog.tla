------------------------------- MODULE JsonlLog -------------------------------
(***************************************************************************)
(* One rotated log (internal/lite/jsonl.go) and the queries that read it   *)
(* (internal/lite/message_log.go).  An append that would exceed the size   *)
(* limit first shifts the backups, one rename after the other, with the    *)
(* file closed; a step that fails leaves the writer closed until the       *)
(* process is restarted, and the process may die between any two steps.    *)
(* Appends and queries hold the writer's mutex, so only a restart sees a   *)
(* rotation half done.                                                     *)
(*                                                                         *)
(* Every record is one unit long, and has a time that is read before the   *)
(* mutex is taken or, in AppendProviderEventOnce, after it.  What the      *)
(* operating system has written it keeps: a machine that loses power is    *)
(* left out.                                                               *)
(***************************************************************************)
EXTENDS Integers, Orders, SequencesExt

CONSTANTS
  Logs,   \* the logs: what each is called, holds and may grow to
  None    \* what a line that is no record is about

(* Of a log: its name; records, what its records may be about; once,       *)
(* whether they are appended by AppendProviderEventOnce; skew, how far     *)
(* their times may be out of order; lines and backups, the settings; and   *)
(* the bounds on appends and restarts.                                     *)
ASSUME SizeAssumption ==
  \A l \in Logs : l.lines \in Nat \ {0} /\ l.backups \in Nat \ {0} /\ l.skew \in Nat

VARIABLES
  log,       \* the log of this behaviour
  files,     \* the lines of each file there is: 0 is path, i is path.i
  size,      \* jsonlWriter.currentSize
  usable,    \* jsonlWriter.file is not nil and its buffer has seen no error
  pc,        \* where the append is
  index,     \* the backup rotateLocked renames next
  line,      \* the record being appended
  appended,  \* history: how many records were appended
  torn,      \* history: a write left part of a line behind
  restarts   \* history: how often the process was restarted

vars == <<log, files, size, usable, pc, index, line, appended, torn, restarts>>

(* A line holds a record, open if its newline is missing, or part of one,  *)
(* or a record glued to something.                                         *)
LineOf(kind, seq, at, about) == [kind |-> kind, seq |-> seq, at |-> at, about |-> about]
Torn    == LineOf("torn", 0, 0, None)
Garbled == LineOf("garbled", 0, 0, None)
NoLine  == LineOf("none", 0, 0, None)

Unfinished(l) == l.kind \in {"open", "torn"}
Decodes(l)    == l.kind \in {"whole", "open"}

Init ==
  /\ log \in Logs
  /\ files = [i \in {0} |-> << >>]
  /\ size = 0
  /\ usable = TRUE
  /\ pc = "idle" /\ index = 0 /\ line = NoLine
  /\ appended = 0 /\ torn = FALSE /\ restarts = 0

-----------------------------------------------------------------------------
(* The queries. *)

LinesOf(i) == IF i \in DOMAIN files THEN files[i] ELSE << >>

(* The places of the lines, each a file and a position in it, and the      *)
(* order in which they are read: the last backup first.                    *)
Places           == UNION {{i} \X DOMAIN files[i] : i \in DOMAIN files}
LineAt(p)        == files[p[1]][p[2]]
ReadBefore(p, q) == p[1] > q[1] \/ (p[1] = q[1] /\ p[2] < q[2])

Lines == LET read == InOrder(Places, ReadBefore) IN [k \in DOMAIN read |-> LineAt(read[k])]

(* A line that cannot be decoded fails every query but those of the stats. *)
Damaged == \E p \in Places : ~Decodes(LineAt(p))

(* Seeded fault: the duplicate is looked for in the current file only. *)
RecordedLately(about) == \E k \in DOMAIN LinesOf(0) : LinesOf(0)[k].about = about

(* providerEventExistsInPath, over every file *)
Recorded(about) == \E p \in Places : LineAt(p).about = about

-----------------------------------------------------------------------------
(* appendLine. *)

Goto(from, to) == pc = from /\ pc' = to

NeedsRotation == size > 0 /\ size + 1 > log.lines

(* AppendProviderEventOnce looks for the identity first and fails if it    *)
(* cannot read the log.                                                    *)
BeginAppend(about, at) ==
  /\ usable
  /\ appended < log.appends     \* the model's bound
  /\ log.once => ~Damaged /\ ~Recorded(about)
  /\ Goto("idle", IF NeedsRotation THEN "remove" ELSE "write")
  /\ line' = LineOf("whole", appended + 1, at, about)
  /\ UNCHANGED <<log, files, size, usable, index, appended, torn, restarts>>

(* After a line without a newline what is written ends up on that line. *)
WithLine(lines, new, glued) ==
  IF lines # << >> /\ Unfinished(Last(lines)) THEN Front(lines) \o <<glued>> ELSE Append(lines, new)

Write ==
  /\ Goto("write", "idle")
  /\ files' = [files EXCEPT ![0] = WithLine(@, line, Garbled)]
  /\ size' = size + 1
  /\ appended' = appended + 1
  /\ line' = NoLine
  /\ UNCHANGED <<log, usable, index, torn, restarts>>

(* The write fails: at once, half way, or with all but the newline         *)
(* written.  The buffer keeps the error: no later append gets through, and *)
(* a rotation fails to flush and closes.                                   *)
WriteFails ==
  /\ Goto("write", "idle")
  /\ \/ UNCHANGED <<files, appended, torn>>
     \/ /\ files' = [files EXCEPT ![0] = WithLine(@, Torn, Torn)]
        /\ torn' = TRUE
        /\ UNCHANGED appended
     \/ /\ files' = [files EXCEPT ![0] = WithLine(@, [line EXCEPT !.kind = "open"], Torn)]
        /\ torn' = TRUE
        /\ appended' = appended + 1
  /\ usable' = FALSE
  /\ line' = NoLine
  /\ UNCHANGED <<log, size, index, restarts>>

-----------------------------------------------------------------------------
(* rotateLocked. *)

(* os.Rename, which replaces its target; a missing source is no error. *)
Renamed(from, to) ==
  IF from \notin DOMAIN files THEN files
  ELSE [i \in (DOMAIN files \ {from}) \cup {to} |-> IF i = to THEN files[from] ELSE files[i]]

(* Seeded fault: the last backup but one is not moved out of the way. *)
FirstShiftedLate == log.backups - 2

FirstShifted == log.backups - 1

(* The oldest backup is removed. *)
RemoveOldest ==
  /\ Goto("remove", IF FirstShifted < 1 THEN "move" ELSE "shift")
  /\ files' = [i \in DOMAIN files \ {log.backups} |-> files[i]]
  /\ index' = FirstShifted
  /\ UNCHANGED <<log, size, usable, line, appended, torn, restarts>>

Shifted == Renamed(index, index + 1)

ShiftBackup ==
  /\ Goto("shift", IF index = 1 THEN "move" ELSE "shift")
  /\ files' = Shifted
  /\ index' = index - 1
  /\ UNCHANGED <<log, size, usable, line, appended, torn, restarts>>

MoveCurrent ==
  /\ Goto("move", "open")
  /\ files' = Renamed(0, 1)
  /\ UNCHANGED <<log, size, usable, index, line, appended, torn, restarts>>

(* O_CREATE and O_APPEND: what is there stays, and counts. *)
Opened ==
  /\ files' = [i \in DOMAIN files \cup {0} |-> LinesOf(i)]
  /\ size' = Len(LinesOf(0))

Reopen ==
  /\ Goto("open", "write")
  /\ Opened
  /\ UNCHANGED <<log, usable, index, line, appended, torn, restarts>>

(* A step of the rotation fails: the file stays closed. *)
RotationFails ==
  /\ pc \in {"remove", "shift", "move", "open"}
  /\ pc' = "idle"
  /\ usable' = FALSE
  /\ line' = NoLine
  /\ index' = 0
  /\ UNCHANGED <<log, files, size, appended, torn, restarts>>

-----------------------------------------------------------------------------
(* The process ends, wherever the append is, and is started again. *)
Restart ==
  /\ restarts < log.restarts   \* the model's bound
  /\ restarts' = restarts + 1
  /\ pc' = "idle" /\ line' = NoLine /\ index' = 0
  /\ usable' = TRUE
  /\ Opened
  /\ UNCHANGED <<log, appended, torn>>

Next ==
  \/ \E about \in log.records, late \in 0..log.skew : BeginAppend(about, appended + 1 - late)
  \/ Write \/ WriteFails
  \/ RemoveOldest \/ ShiftBackup \/ MoveCurrent \/ Reopen \/ RotationFails
  \/ Restart

Spec == Init /\ [][Next]_vars

-----------------------------------------------------------------------------
(* A query that succeeds reads the latest records in the order they were   *)
(* appended, without a gap: only the oldest are ever lost, wherever a      *)
(* rotation failed or the process died.  As many full backups of them are  *)
(* kept as configured, less one for each restart, whose unfinished         *)
(* rotation is begun anew.                                                 *)
QueriesSeeLatest ==
  LET kept == (log.backups - restarts) * log.lines IN
  /\ ~Damaged =>
       /\ \A p, q \in Places : ReadBefore(p, q) => LineAt(p).seq < LineAt(q).seq
       /\ \A p \in Places :
            /\ LineAt(p).seq <= appended
            /\ \A n \in LineAt(p).seq..appended : \E q \in Places : LineAt(q).seq = n
  /\ ~torn => \A n \in 1..appended : n > appended - kept => \E p \in Places : LineAt(p).seq = n

(* However often an event is delivered, no two records of it can be read.  *)
RecordedOnce ==
  log.once => \A p, q \in Places :
    Decodes(LineAt(p)) /\ Decodes(LineAt(q)) /\ LineAt(p).about = LineAt(q).about => p = q
=============================================================================
