---------------------------- MODULE JsonlLogProofs ----------------------------
(***************************************************************************)
(* Proofs about JsonlLog, for logs of any size and any number of backups,  *)
(* appends, failures and restarts: what the files hold, what the queries   *)
(* of MessageQueries show of it, and what the summaries of StatsSummary    *)
(* count of it.                                                            *)
(***************************************************************************)
EXTENDS MessageQueries, StatsSummary, FiniteSetTheorems, SequenceTheorems, WellFoundedInduction, TLAPS

AnyLine ==
  [kind : {"whole", "open", "torn", "garbled", "none"}, seq : Nat, at : Int,
   about : (UNION {l.records : l \in Logs}) \cup {None}]

(* The shape of the state. *)
Types ==
  /\ log \in Logs
  /\ DOMAIN files \subseteq 0..log.backups
  /\ \A i \in DOMAIN files : files[i] \in Seq(AnyLine)
  /\ size \in Nat /\ appended \in Nat /\ restarts \in Nat
  /\ usable \in BOOLEAN /\ torn \in BOOLEAN
  /\ pc \in {"idle", "remove", "shift", "move", "open", "write"}

(* Where an append is in its rotation: the target of the next rename is    *)
(* free, and the current file is there but between two of the steps.       *)
Staged ==
  /\ pc = "shift" => index \in 1..(log.backups - 1) /\ index + 1 \notin DOMAIN files
  /\ pc = "move" => 1 \notin DOMAIN files
  /\ pc = "open" => 0 \notin DOMAIN files
  /\ pc # "open" /\ usable => 0 \in DOMAIN files
  /\ pc # "idle" => usable /\ line \in AnyLine /\ line.kind = "whole" /\ line.seq = appended + 1

HasLine(i, k)      == i \in DOMAIN files /\ k \in DOMAIN files[i]
HasRecord(i, k)    == HasLine(i, k) /\ Decodes(files[i][k])
Before(i, k, j, m) == i > j \/ (i = j /\ k < m)

(* A record read before another was appended before it. *)
Ordered ==
  \A i, j, k, m : HasRecord(i, k) /\ HasRecord(j, m) /\ Before(i, k, j, m) =>
    files[i][k].seq < files[j][m].seq

(* What was appended after a record can be read too, unless a line read    *)
(* after it is damaged.                                                    *)
NoGap ==
  \A i, k : HasRecord(i, k) =>
    /\ files[i][k].seq <= appended
    /\ \A n \in (files[i][k].seq + 1)..appended :
         \/ \E j, m : HasRecord(j, m) /\ files[j][m].seq = n
         \/ \E j, m : HasLine(j, m) /\ ~Decodes(files[j][m]) /\ Before(i, k, j, m)

(* No two records are of one event, and none is of the one being appended. *)
Once ==
  log.once =>
    /\ \A i, j, k, m : HasRecord(i, k) /\ HasRecord(j, m)
         /\ files[i][k].about = files[j][m].about => i = j /\ k = m
    /\ pc # "idle" => \A i, k : HasRecord(i, k) => files[i][k].about # line.about

(* The rest is about a log in which no write was cut short.                *)
Len0    == Len(LinesOf(0))
Backups == DOMAIN files \ {0}

(* Every backup is full, and the current file has room when it is written  *)
(* and none when it is rotated.                                            *)
Full ==
  /\ \A i \in Backups : Len(files[i]) = log.lines
  /\ Len0 <= log.lines
  /\ usable /\ pc # "open" => size = Len0
  /\ pc = "write" => Len0 < log.lines
  /\ pc \in {"remove", "shift", "move"} => Len0 = log.lines

(* The lines of a file are successive records, of the current one the last. *)
Numbered ==
  /\ \A i \in DOMAIN files : \A k \in 1..Len(files[i]) : files[i][k].kind = "whole"
  /\ \A i \in Backups : \A k \in 1..Len(files[i]) : files[i][k].seq = files[i][1].seq + k - 1
  /\ \A k \in 1..Len0 : files[0][k].seq = appended - Len0 + k

(* How many backups fewer than i there may be up to i: the one that is     *)
(* being renamed, and one for each rotation that was not finished.         *)
Unfilled(i) ==
  IF (pc = "shift" /\ index + 1 <= i) \/ (pc = "move" /\ 1 <= i) THEN 1 ELSE 0

Missing(i) ==
  restarts + Unfilled(i) + (IF ~usable /\ Len0 = log.lines THEN 1 ELSE 0)

(* The first record of what i - Missing(i) full backups would hold.        *)
Reach(i) == appended - Len0 - log.lines * (i - Missing(i)) + 1

(* A backup is as old as its number says.                                  *)
Aged == \A i \in Backups : files[i][1].seq <= Reach(i)

(* What the backups hold can be read.                                      *)
Kept == \A n \in 1..appended : n >= Reach(log.backups) =>
  \E i, k : HasLine(i, k) /\ files[i][k].seq = n

Retained == ~torn => Full /\ Numbered /\ Aged /\ Kept

IInv == Types /\ Staged /\ Ordered /\ NoGap /\ Once /\ Retained

-----------------------------------------------------------------------------
(* The numbers of a log. *)
LEMMA Sizes ==
  ASSUME Types
  PROVE  log.lines \in Nat \ {0} /\ log.backups \in Nat \ {0}
  BY SizeAssumption DEF Types

(* What WithLine returns: a line more, or the last one glued. *)
OneMore(lines, new, now) ==
  /\ Len(now) = Len(lines) + 1 /\ now[Len(now)] = new
  /\ \A k \in 1..Len(lines) : now[k] = lines[k]

LastGlued(lines, glued, now) ==
  /\ Len(now) = Len(lines) /\ Len(lines) > 0 /\ now[Len(now)] = glued
  /\ \A k \in 1..Len(lines) : k # Len(now) => now[k] = lines[k]

LEMMA AllButTheLast ==
  ASSUME NEW lines \in Seq(AnyLine), Len(lines) > 0
  PROVE  /\ Front(lines) \in Seq(AnyLine) /\ Len(Front(lines)) = Len(lines) - 1
         /\ \A k \in 1..(Len(lines) - 1) : Front(lines)[k] = lines[k]
<1>1. \A k \in 1..(Len(lines) - 1) : lines[k] \in AnyLine
  BY ElementOfSeq
<1>2. SubSeq(lines, 1, Len(lines) - 1) \in Seq(AnyLine)
      /\ Len(SubSeq(lines, 1, Len(lines) - 1)) = Len(lines) - 1
      /\ \A k \in 1..(Len(lines) - 1) : SubSeq(lines, 1, Len(lines) - 1)[k] = lines[k]
  <2>1. (Len(lines) - 1) - 1 + 1 = Len(lines) - 1 /\ Len(lines) - 1 \in Nat
    OBVIOUS
  <2>2. \A k \in 1..(Len(lines) - 1) : 1 + k - 1 = k
    OBVIOUS
  <2> QED
    BY <1>1, <2>1, <2>2, SubSeqProperties
<1> QED
  BY <1>2 DEF Front

(* A write adds a line, or is glued to the unfinished one.                 *)
LEMMA LineAdded ==
  ASSUME NEW lines \in Seq(AnyLine), NEW new \in AnyLine, NEW glued \in AnyLine,
         NEW now, now = WithLine(lines, new, glued)
  PROVE  /\ now \in Seq(AnyLine)
         /\ OneMore(lines, new, now) \/ LastGlued(lines, glued, now)
<1>1. CASE lines # << >> /\ Unfinished(Last(lines))
  <2>1. Len(lines) \in Nat /\ Len(lines) > 0 /\ Last(lines) = lines[Len(lines)]
    BY <1>1 DEF Last
  <2>2. Front(lines) \in Seq(AnyLine) /\ Len(Front(lines)) = Len(lines) - 1
        /\ \A k \in 1..(Len(lines) - 1) : Front(lines)[k] = lines[k]
    BY <2>1, AllButTheLast
  <2>3. now = Append(Front(lines), glued)
    BY <1>1, <2>2, AppendIsConcat DEF WithLine
  <2>4. now \in Seq(AnyLine) /\ Len(now) = Len(lines) /\ now[Len(lines)] = glued
        /\ \A k \in 1..(Len(lines) - 1) : now[k] = lines[k]
    BY <2>1, <2>2, <2>3
  <2> QED
    BY <2>1, <2>4 DEF LastGlued
<1>2. CASE ~(lines # << >> /\ Unfinished(Last(lines)))
  <2>1. now = Append(lines, new)
    BY <1>2 DEF WithLine
  <2> QED
    BY <2>1 DEF OneMore
<1> QED
  BY <1>1, <1>2

(* The steps that move whole files keep what is said of their lines: from  *)
(* maps each file to what it was called, in order, with no file left out   *)
(* below one that is kept.                                                 *)
LEMMA FilesMoved ==
  ASSUME Types, Ordered, NoGap, Once,
         NEW from \in [DOMAIN files' -> DOMAIN files],
         DOMAIN files' \subseteq 0..log.backups, log' = log, appended' = appended,
         pc' # "idle" => pc # "idle" /\ line' = line,
         \A i \in DOMAIN files' : files'[i] = files[from[i]],
         \A i, j \in DOMAIN files' : i > j => from[i] > from[j],
         \A i \in DOMAIN files', j \in DOMAIN files : j < from[i] =>
           \E h \in DOMAIN files' : from[h] = j
  PROVE  Ordered' /\ NoGap' /\ Once'
<1>1. \A i, k : HasLine(i, k)' =>
        HasLine(from[i], k) /\ files'[i][k] = files[from[i]][k] /\ from[i] \in Int /\ i \in Int
  BY DEF HasLine, Types
<1>2. \A i, k : HasRecord(i, k)' => HasRecord(from[i], k) /\ files'[i][k] = files[from[i]][k]
  BY <1>1 DEF HasRecord, Decodes
<1>3. \A i, j, k, m : HasLine(i, k)' /\ HasLine(j, m)' =>
        (Before(i, k, j, m) => Before(from[i], k, from[j], m))
  BY <1>1 DEF Before, HasLine
<1>4. Ordered'
  BY <1>2, <1>3 DEF Ordered, HasRecord, Before
<1>5. ASSUME NEW i, NEW k, HasRecord(i, k)'
      PROVE  (/\ files[i][k].seq <= appended
              /\ \A n \in (files[i][k].seq + 1)..appended :
                   \/ \E j, m : HasRecord(j, m) /\ files[j][m].seq = n
                   \/ \E j, m : HasLine(j, m) /\ ~Decodes(files[j][m]) /\ Before(i, k, j, m))'
  <2>1. HasRecord(from[i], k) /\ files'[i][k] = files[from[i]][k] /\ i \in DOMAIN files'
        /\ from[i] \in DOMAIN files
        /\ k \in 1..Len(files[from[i]])
    BY <1>2, <1>5 DEF HasRecord, HasLine, Types
  <2>2. files[from[i]][k].seq \in Nat
    <3>1. files[from[i]] \in Seq(AnyLine)
      BY <2>1 DEF Types
    <3>2. files[from[i]][k] \in AnyLine
      BY <2>1, <3>1, ElementOfSeq
    <3> QED
      BY <3>2 DEF AnyLine
  <2>3. ASSUME NEW j, NEW m, HasLine(j, m), Before(from[i], k, j, m)
        PROVE  \E h \in DOMAIN files' : from[h] = j /\ HasLine(h, m)'
                 /\ files'[h][m] = files[j][m]
                 /\ Before(i, k, h, m)
    <3>1. PICK h \in DOMAIN files' : from[h] = j
      BY <2>1, <2>3 DEF Before, HasLine
    <3>2. HasLine(h, m)' /\ files'[h][m] = files[j][m]
      BY <2>3, <3>1 DEF HasLine
    <3>3. h \in Int /\ i \in Int /\ from[h] \in Int /\ from[i] \in Int
      BY <2>1 DEF Types
    <3>4. Before(i, k, h, m)
      BY <2>1, <2>3, <3>1, <3>3 DEF Before
    <3> QED
      BY <3>1, <3>2, <3>4
  <2>4. ASSUME NEW n \in (files[from[i]][k].seq + 1)..appended
        PROVE  (\/ \E j, m : HasRecord(j, m) /\ files[j][m].seq = n
                \/ \E j, m : HasLine(j, m) /\ ~Decodes(files[j][m]) /\ Before(i, k, j, m))'
    <3>1. CASE \E j, m : HasRecord(j, m) /\ files[j][m].seq = n
      <4>1. PICK j, m : HasRecord(j, m) /\ files[j][m].seq = n
        BY <3>1
      <4>2. Before(from[i], k, j, m)
        <5>1. ~(files[j][m].seq < files[from[i]][k].seq)
          BY <2>2, <2>4, <4>1
        <5>2. ~Before(j, m, from[i], k) /\ ~(j = from[i] /\ m = k)
          BY <2>1, <2>2, <2>4, <4>1, <5>1 DEF Ordered
        <5>3. j \in Int /\ m \in Int /\ from[i] \in Int /\ k \in Int
          BY <2>1, <4>1 DEF HasRecord, HasLine, Types
        <5> QED
          BY <5>2, <5>3 DEF Before
      <4>3. PICK h \in DOMAIN files' : HasLine(h, m)' /\ files'[h][m] = files[j][m]
        BY <2>3, <4>1, <4>2 DEF HasRecord
      <4>4. HasRecord(h, m)' /\ files'[h][m].seq = n
        BY <4>1, <4>3 DEF HasRecord, Decodes
      <4> QED
        BY <4>4
    <3>2. CASE \E j, m : HasLine(j, m) /\ ~Decodes(files[j][m]) /\ Before(from[i], k, j, m)
      <4>1. PICK j, m : HasLine(j, m) /\ ~Decodes(files[j][m]) /\ Before(from[i], k, j, m)
        BY <3>2
      <4>2. PICK h \in DOMAIN files' : HasLine(h, m)' /\ files'[h][m] = files[j][m]
                 /\ Before(i, k, h, m)
        BY <2>3, <4>1
      <4> QED
        BY <4>1, <4>2 DEF Decodes, Before
    <3> QED
      BY <2>1, <2>4, <3>1, <3>2 DEF NoGap
  <2> QED
    BY <2>1, <2>4 DEF NoGap
<1>6. NoGap'
  BY <1>5 DEF NoGap
<1>7. Once'
  <2>1. \A i, j \in DOMAIN files' : from[i] = from[j] => i = j
    BY DEF Types
  <2> QED
    BY <1>2, <2>1 DEF Once, HasRecord, HasLine
<1> QED
  BY <1>4, <1>6, <1>7

(* The steps that keep every line where it is, if a file is created at most. *)
LEMMA LinesSame ==
  ASSUME Types, Ordered, NoGap, log' = log, appended' = appended,
         DOMAIN files \subseteq DOMAIN files', DOMAIN files' \subseteq DOMAIN files \cup {0},
         \A i \in DOMAIN files' : files'[i] = LinesOf(i)
  PROVE  /\ DOMAIN files' \subseteq 0..log'.backups
         /\ \A i \in DOMAIN files' : files'[i] \in Seq(AnyLine)
         /\ Ordered' /\ NoGap'
         /\ Once /\ (pc' # "idle" => pc # "idle" /\ line' = line) => Once'
<1>1. /\ \A i, k : HasLine(i, k)' <=> HasLine(i, k)
      /\ \A i, k : HasLine(i, k) => files'[i][k] = files[i][k]
  BY DEF HasLine, LinesOf
<1>2. DOMAIN files' \subseteq 0..log'.backups
      /\ \A i \in DOMAIN files' : files'[i] \in Seq(AnyLine)
  <2>1. 0 \in 0..log.backups
    BY Sizes
  <2>2. \A i \in DOMAIN files' : files'[i] = << >>
          \/ (i \in DOMAIN files /\ files'[i] = files[i])
    BY DEF LinesOf
  <2>3. DOMAIN files' \subseteq 0..log.backups
    BY <2>1 DEF Types
  <2>4. \A i \in DOMAIN files' : files'[i] \in Seq(AnyLine)
    BY <2>2, EmptySeq DEF Types
  <2> QED
    BY <2>3, <2>4
<1>3. \A i, k : HasRecord(i, k)' <=> HasRecord(i, k)
  BY <1>1 DEF HasRecord, Decodes
<1>4. Ordered'
  BY <1>1, <1>3 DEF Ordered, HasRecord, Before
<1>5. NoGap'
  <2>1. SUFFICES ASSUME NEW i, NEW k, HasRecord(i, k)
        PROVE  /\ files[i][k].seq <= appended
               /\ \A n \in (files[i][k].seq + 1)..appended :
                    \/ \E j, m : HasRecord(j, m)' /\ files'[j][m].seq = n
                    \/ \E j, m : HasLine(j, m)' /\ ~Decodes(files'[j][m]) /\ Before(i, k, j, m)
    BY <1>1, <1>3 DEF NoGap, HasRecord, Decodes, Before
  <2>2. \A n \in (files[i][k].seq + 1)..appended :
          \/ \E j, m : HasRecord(j, m) /\ files[j][m].seq = n
          \/ \E j, m : HasLine(j, m) /\ ~Decodes(files[j][m]) /\ Before(i, k, j, m)
    BY <2>1 DEF NoGap
  <2> QED
    BY <1>1, <1>3, <2>1, <2>2 DEF NoGap, HasRecord
<1>6. Once /\ (pc' # "idle" => pc # "idle" /\ line' = line) => Once'
  BY <1>1, <1>3 DEF Once, HasRecord
<1> QED
  BY <1>2, <1>4, <1>5, <1>6

(* The steps that write to the current file keep what is said of its       *)
(* lines: a record written is the next, and of an event of its own.        *)
LEMMA LineWritten ==
  ASSUME Types, Ordered, NoGap, Once, 0 \in DOMAIN files, log' = log,
         NEW new \in AnyLine, NEW glued \in AnyLine, ~Decodes(glued),
         files' = [files EXCEPT ![0] = WithLine(@, new, glued)],
         Decodes(new) => appended' = appended + 1 /\ new.seq = appended + 1,
         ~Decodes(new) => appended' = appended,
         log.once /\ Decodes(new) => \A i, k : HasRecord(i, k) => files[i][k].about # new.about,
         pc' = "idle"
  PROVE  /\ DOMAIN files' = DOMAIN files /\ \A i \in DOMAIN files' : files'[i] \in Seq(AnyLine)
         /\ Ordered' /\ NoGap' /\ Once'
<1>1. PICK old \in Seq(AnyLine) : old = files[0]
  BY DEF Types
<1>2. PICK now : now = files'[0]
  OBVIOUS
<1>3. DOMAIN files' = DOMAIN files /\ DOMAIN files \subseteq Nat
      /\ now = WithLine(old, new, glued)
      /\ \A i \in DOMAIN files : i # 0 => files'[i] = files[i]
  BY <1>1, <1>2, Sizes DEF Types
<1>4. now \in Seq(AnyLine)
  BY <1>3, LineAdded
<1>5. PICK last \in Nat : last = Len(now)
  BY <1>4
<1>6. \/ /\ last = Len(old) + 1 /\ now[last] = new
         /\ \A k \in 1..Len(old) : now[k] = old[k]
      \/ /\ last = Len(old) /\ Len(old) > 0 /\ now[last] = glued
         /\ \A k \in 1..Len(old) : k # last => now[k] = old[k]
  <2>1. OneMore(old, new, now) \/ LastGlued(old, glued, now)
    BY <1>3, LineAdded
  <2> QED
    BY <1>5, <2>1 DEF OneMore, LastGlued
<1>7. Len(old) \in Nat /\ last \in Nat /\ DOMAIN old = 1..Len(old) /\ DOMAIN now = 1..last
      /\ last >= 1
  BY <1>3, <1>4, <1>5, <1>6
<1>8. HasLine(0, last)' /\ (now[last] = new \/ now[last] = glued)
  BY <1>1, <1>2, <1>3, <1>6, <1>7 DEF HasLine
<1>9. \A i, k : HasLine(i, k)' /\ ~(i = 0 /\ k = last) =>
        HasLine(i, k) /\ files'[i][k] = files[i][k] /\ Before(i, k, 0, last)
  BY <1>1, <1>2, <1>3, <1>6, <1>7 DEF HasLine, Before
<1>10. \A i, k : HasLine(i, k) =>
         HasLine(i, k)'
         /\ (files'[i][k] = files[i][k] \/ (i = 0 /\ k = last /\ now[last] = glued))
  BY <1>1, <1>2, <1>3, <1>6, <1>7 DEF HasLine
<1>11. \A i, k : HasRecord(i, k)' /\ ~(i = 0 /\ k = last) =>
         HasRecord(i, k) /\ files'[i][k] = files[i][k]
  BY <1>9 DEF HasRecord, Decodes
<1>12. HasRecord(0, last)' => now[last] = new /\ Decodes(new)
  BY <1>2, <1>8 DEF HasRecord, Decodes
<1>13. \A i, k : HasLine(i, k) => files[i][k].seq \in Nat
  <2> SUFFICES ASSUME NEW i, NEW k, HasLine(i, k) PROVE files[i][k].seq \in Nat
    OBVIOUS
  <2>1. files[i] \in Seq(AnyLine) /\ k \in 1..Len(files[i])
    BY DEF Types, HasLine
  <2>2. files[i][k] \in AnyLine
    BY <2>1, ElementOfSeq
  <2> QED
    BY <2>2 DEF AnyLine
<1>14. \A i, k : ~(HasLine(i, k)' /\ Before(0, last, i, k))
  BY <1>3, <1>7 DEF HasLine, Before
<1>15. Ordered'
  <2>1. SUFFICES ASSUME NEW i, NEW j, NEW k,
                        NEW m, HasRecord(i, k)', HasRecord(j, m)', Before(i, k, j, m)
        PROVE  files'[i][k].seq < files'[j][m].seq
    BY DEF Ordered, Before
  <2>2. ~(i = 0 /\ k = last)
    BY <1>14, <2>1 DEF HasRecord
  <2>3. HasRecord(i, k) /\ files'[i][k] = files[i][k]
    BY <1>11, <2>1, <2>2
  <2>4. CASE j = 0 /\ m = last
    <3>1. files'[j][m].seq = appended + 1
      BY <1>2, <1>12, <2>1, <2>4
    <3>2. files[i][k].seq <= appended /\ files[i][k].seq \in Nat
      BY <1>13, <2>3 DEF NoGap, HasRecord
    <3> QED
      BY <2>3, <3>1, <3>2 DEF Types
  <2>5. CASE ~(j = 0 /\ m = last)
    BY <1>11, <2>1, <2>3, <2>5 DEF Ordered
  <2> QED
    BY <2>4, <2>5
<1>16. NoGap'
  <2>1. SUFFICES ASSUME NEW i, NEW k, HasRecord(i, k)'
        PROVE  /\ files'[i][k].seq <= appended'
               /\ \A n \in (files'[i][k].seq + 1)..appended' :
                    \/ \E j, m : HasRecord(j, m)' /\ files'[j][m].seq = n
                    \/ \E j, m : HasLine(j, m)' /\ ~Decodes(files'[j][m]) /\ Before(i, k, j, m)
    BY DEF NoGap, HasRecord, Decodes, Before
  <2>2. CASE i = 0 /\ k = last
    BY <1>2, <1>12, <2>1, <2>2 DEF Types
  <2>3. CASE ~(i = 0 /\ k = last)
    <3>1. HasRecord(i, k) /\ files'[i][k] = files[i][k] /\ files[i][k].seq \in Nat
          /\ Before(i, k, 0, last)
      BY <1>9, <1>11, <1>13, <2>1, <2>3 DEF HasRecord
    <3>2. files[i][k].seq <= appended /\ appended' \in {appended, appended + 1}
          /\ appended \in Nat
      BY <3>1 DEF NoGap, Types
    <3>3. ASSUME NEW n \in (files[i][k].seq + 1)..appended'
          PROVE  \/ \E j, m : HasRecord(j, m)' /\ files'[j][m].seq = n
                 \/ \E j, m : HasLine(j, m)' /\ ~Decodes(files'[j][m]) /\ Before(i, k, j, m)
      <4>1. CASE now[last] = glued
        BY <1>2, <1>8, <3>1, <4>1
      <4>2. CASE now[last] = new /\ n = appended + 1
        <5>1. Decodes(new) /\ new.seq = n
          BY <3>2, <3>3, <4>2
        <5> QED
          BY <1>2, <1>8, <4>2, <5>1 DEF HasRecord, Decodes
      <4>3. CASE now[last] # glued /\ n # appended + 1
        <5>1. n \in (files[i][k].seq + 1)..appended
          BY <3>1, <3>2, <3>3, <4>3
        <5>2. \A j, m : HasLine(j, m) => HasLine(j, m)' /\ files'[j][m] = files[j][m]
          BY <1>10, <4>3
        <5>3. CASE \E j, m : HasRecord(j, m) /\ files[j][m].seq = n
          BY <5>2, <5>3 DEF HasRecord, Decodes
        <5>4. CASE \E j, m : HasLine(j, m) /\ ~Decodes(files[j][m]) /\ Before(i, k, j, m)
          BY <5>2, <5>4
        <5> QED
          BY <3>1, <5>1, <5>3, <5>4 DEF NoGap
      <4> QED
        BY <1>8, <4>1, <4>2, <4>3
    <3> QED
      BY <3>1, <3>2, <3>3
  <2> QED
    BY <2>2, <2>3
<1>17. Once'
  BY <1>2, <1>11, <1>12 DEF Once
<1> QED
  BY <1>2, <1>3, <1>4, <1>15, <1>16, <1>17 DEF Types

(* Products with the size of a file. *)
LEMMA Products ==
  ASSUME NEW l \in Nat, NEW x \in Int
  PROVE  /\ l * x \in Int /\ l * (x + 1) = l * x + l /\ l * (x - 1) = l * x - l
         /\ \A y \in Int : x <= y => l * x <= l * y
<1>1. l * x \in Int /\ l * (x + 1) = l * x + l /\ l * (x - 1) = l * x - l
  OBVIOUS
<1>2. ASSUME NEW y \in Int, x <= y PROVE l * x <= l * y
  <2>1. y - x \in Nat /\ l * (y - x) \in Nat
    BY <1>2
  <2>2. l * y = l * x + l * (y - x)
    OBVIOUS
  <2> QED
    BY <2>1, <2>2
<1> QED
  BY <1>1, <1>2

(* The numbers that Reach is made of. *)
LEMMA Numbers ==
  ASSUME Types
  PROVE  /\ Len0 \in Nat
         /\ \A i \in Int : Missing(i) \in Nat /\ Reach(i) \in Int
         /\ \A i \in Backups : i \in 1..log.backups
         /\ \A i, k : HasLine(i, k) =>
              files[i][k] \in AnyLine /\ i \in 0..log.backups /\ k \in 1..Len(files[i])
         /\ \A i \in DOMAIN files : Len(files[i]) \in Nat /\ DOMAIN files[i] = 1..Len(files[i])
<1>1. Len0 \in Nat
  BY Sizes DEF Types, Len0, LinesOf
<1>2. \A i \in Int : Unfilled(i) \in {0, 1}
  BY DEF Unfilled
<1>3. \A i \in Int : Missing(i) \in Nat
  BY <1>2 DEF Missing, Types
<1>4. ASSUME NEW i \in Int PROVE Reach(i) \in Int
  <2>1. log.lines * (i - Missing(i)) \in Int
    BY <1>3, Sizes
  <2> QED
    BY <1>1, <2>1 DEF Reach, Types
<1>5. \A i \in Backups : i \in 1..log.backups
  BY Sizes DEF Types, Backups
<1>6. \A i, k : HasLine(i, k) =>
        files[i][k] \in AnyLine /\ i \in 0..log.backups /\ k \in 1..Len(files[i])
  <2>1. SUFFICES ASSUME NEW i, NEW k, HasLine(i, k)
        PROVE files[i][k] \in AnyLine /\ i \in 0..log.backups /\ k \in 1..Len(files[i])
    OBVIOUS
  <2>2. files[i] \in Seq(AnyLine) /\ k \in 1..Len(files[i]) /\ i \in 0..log.backups
    BY <2>1 DEF Types, HasLine
  <2> QED
    BY <2>2, ElementOfSeq
<1>7. \A i \in DOMAIN files : Len(files[i]) \in Nat /\ DOMAIN files[i] = 1..Len(files[i])
  BY DEF Types
<1> QED
  BY <1>1, <1>3, <1>4, <1>5, <1>6, <1>7

(* What was kept is kept by a step that moves no line. *)
LEMMA RetainedSame ==
  ASSUME Types, Types', Retained, ~torn => Full', torn' = torn, log' = log,
         appended' = appended,
         DOMAIN files \subseteq DOMAIN files', DOMAIN files' \subseteq DOMAIN files \cup {0},
         \A i \in DOMAIN files' : files'[i] = LinesOf(i),
         \A i \in 0..log.backups : Missing(i) <= Missing(i)'
  PROVE  Retained'
<1> SUFFICES ASSUME ~torn PROVE Numbered' /\ Aged' /\ Kept'
  BY DEF Retained
<1>1. Full /\ Numbered /\ Aged /\ Kept
  BY DEF Retained
<1>2. Backups' = Backups /\ Len0' = Len0 /\ \A i \in Backups : files'[i] = files[i]
  BY DEF Backups, Len0, LinesOf
<1>3. \A i, k : HasLine(i, k) => HasLine(i, k)' /\ files'[i][k] = files[i][k]
  BY DEF HasLine, LinesOf
<1>4. \A i \in Int : Missing(i)' \in Nat /\ Reach(i)' \in Int
  <2>1. SUFFICES ASSUME NEW i \in Int PROVE Missing(i)' \in Nat /\ Reach(i)' \in Int
    OBVIOUS
  <2>2. Unfilled(i)' \in {0, 1}
    BY DEF Unfilled
  <2>3. Missing(i)' \in Nat
    BY <2>2 DEF Missing, Types
  <2>4. log.lines * (i - Missing(i)') \in Int
    BY <2>3, Sizes
  <2> QED
    <3>1. Reach(i)' = appended - Len0 - log.lines * (i - Missing(i)') + 1
      BY <1>2 DEF Reach
    <3>2. Len0 \in Nat /\ appended \in Nat
      BY Numbers DEF Types
    <3> QED
      BY <2>3, <2>4, <3>1, <3>2
<1>5. \A i \in Int : Reach(i) \in Int
  BY Numbers
<1>6. ASSUME NEW i \in 0..log.backups PROVE Reach(i) <= Reach(i)'
  <2>1. Missing(i) \in Nat /\ Missing(i)' \in Nat /\ i \in Int /\ Len0 \in Nat
    <3>1. i \in Int
      BY Sizes
    <3> QED
      BY <1>4, <3>1, Numbers
  <2>2. i - Missing(i)' <= i - Missing(i) /\ log.lines \in Nat
    BY <2>1, Sizes
  <2>3. log.lines * (i - Missing(i)') <= log.lines * (i - Missing(i))
        /\ log.lines * (i - Missing(i)') \in Int /\ log.lines * (i - Missing(i)) \in Int
    BY <2>1, <2>2, Products
  <2> QED
    BY <1>2, <2>1, <2>3 DEF Reach, Types
<1>7. Numbered'
  <2>1. 0 \in DOMAIN files' /\ 0 \notin DOMAIN files => files'[0] = << >>
    BY DEF LinesOf
  <2>2. \A i \in DOMAIN files' : i \in DOMAIN files => files'[i] = files[i]
    BY DEF LinesOf
  <2>3. \A i \in DOMAIN files' : \A k \in 1..Len(files'[i]) : i \in DOMAIN files
    BY <2>1
  <2>4. \A k \in 1..Len0 : 0 \in DOMAIN files
    BY DEF Len0, LinesOf
  <2> QED
    BY <1>1, <1>2, <2>2, <2>3, <2>4 DEF Numbered
<1>8. Aged'
  <2>1. SUFFICES ASSUME NEW i \in Backups PROVE files[i][1].seq <= Reach(i)'
    BY <1>2 DEF Aged
  <2>2. files[i][1].seq \in Nat /\ i \in 0..log.backups
    <3>1. Len(files[i]) = log.lines /\ log.lines \in Nat \ {0}
      BY <1>1, Sizes DEF Full
    <3>2. HasLine(i, 1)
      <4>1. i \in DOMAIN files /\ DOMAIN files[i] = 1..Len(files[i])
        BY Numbers DEF Backups
      <4> QED
        BY <3>1, <4>1 DEF HasLine
    <3> QED
      BY <3>2, Numbers DEF AnyLine
  <2>3. files[i][1].seq <= Reach(i) /\ Reach(i) \in Int /\ Reach(i)' \in Int
    BY <1>1, <1>4, <1>5, <2>2 DEF Aged
  <2> QED
    BY <1>6, <2>2, <2>3
<1>9. Kept'
  <2>1. SUFFICES ASSUME NEW n \in 1..appended, n >= Reach(log.backups)'
        PROVE  \E i, k : HasLine(i, k)' /\ files'[i][k].seq = n
    BY DEF Kept, HasLine
  <2>2. n >= Reach(log.backups)
    <3>1. log.backups \in 0..log.backups /\ log.backups \in Int
      BY Sizes
    <3>2. Reach(log.backups) <= Reach(log.backups)' /\ Reach(log.backups) \in Int
          /\ Reach(log.backups)' \in Int
      BY <1>4, <1>5, <1>6, <3>1
    <3>3. n \in Int
      BY <2>1 DEF Types
    <3> QED
      BY <2>1, <3>2, <3>3
  <2>3. PICK i, k : HasLine(i, k) /\ files[i][k].seq = n
    BY <1>1, <2>2 DEF Kept
  <2> QED
    BY <1>3, <2>3
<1> QED
  BY <1>7, <1>8, <1>9

(* A new log is empty. *)
LEMMA InitHolds == Init => IInv
<1> SUFFICES ASSUME Init PROVE IInv
  OBVIOUS
<1> USE DEF Init
<1>1. log.lines \in Nat \ {0} /\ log.backups \in Nat \ {0}
  BY SizeAssumption
<1>2. files[0] = << >> /\ DOMAIN files = {0} /\ Len0 = 0 /\ Backups = {} /\ DOMAIN files[0] = {}
  BY DEF Len0, LinesOf, Backups
<1>3. Types
  BY <1>1, <1>2, EmptySeq DEF Types
<1>4. Staged
  BY <1>2 DEF Staged
<1>5. \A i, k : ~HasLine(i, k)
  BY <1>2 DEF HasLine
<1>6. Ordered /\ NoGap /\ Once
  BY <1>5 DEF Ordered, NoGap, Once, HasRecord
<1>7. Full
  BY <1>1, <1>2 DEF Full
<1>8. Numbered /\ Aged /\ Kept
  BY <1>1, <1>2 DEF Numbered, Aged, Kept
<1> QED
  BY <1>3, <1>4, <1>6, <1>7, <1>8 DEF IInv, Retained

(* AppendProviderEventOnce has read every file, or fails. *)
LEMMA BeginAppendKeeps ==
  ASSUME IInv, NEW about \in log.records, NEW late \in 0..log.skew,
         BeginAppend(about, appended + 1 - late)
  PROVE  IInv'
<1> USE DEF IInv
<1>1. /\ usable /\ pc = "idle" /\ pc' \in {"remove", "write"}
      /\ UNCHANGED <<log, files, size, usable, index, appended, torn, restarts>>
  BY DEF BeginAppend, Goto
<1>2. Types'
  BY <1>1 DEF Types
<1>3. line' \in AnyLine /\ line'.kind = "whole" /\ line'.seq = appended + 1
      /\ line'.about = about
  <2>1. appended + 1 - late \in Int /\ appended + 1 \in Nat
    BY DEF Types
  <2>2. about \in (UNION {l.records : l \in Logs}) \cup {None}
    BY DEF Types
  <2>3. line' = [kind |-> "whole", seq |-> appended + 1, at |-> appended + 1 - late, about |-> about]
    BY DEF BeginAppend, LineOf
  <2> QED
    BY <2>1, <2>2, <2>3 DEF AnyLine
<1>4. Staged'
  BY <1>1, <1>3 DEF Staged
<1>5. \A i \in DOMAIN files' : files'[i] = LinesOf(i)
  BY <1>1 DEF LinesOf
<1>6. Ordered' /\ NoGap'
  BY <1>1, <1>5, LinesSame
<1>7. Once'
  <2>1. SUFFICES ASSUME log.once, NEW i, NEW k, HasRecord(i, k)
                 PROVE files[i][k].about # line'.about
    BY <1>1 DEF Once, HasRecord, HasLine, Decodes
  <2>2. ~Recorded(about)
    BY <2>1 DEF BeginAppend
  <2>3. <<i, k>> \in Places /\ LineAt(<<i, k>>) = files[i][k]
    BY <2>1 DEF Places, LineAt, HasRecord, HasLine
  <2> QED
    BY <1>3, <2>2, <2>3 DEF Recorded
<1>8. ~torn => Full'
  <2>1. SUFFICES ASSUME ~torn, Full PROVE Full'
    BY DEF Retained
  <2>2. Len0' = Len0 /\ Backups' = Backups /\ size = Len0 /\ Len0 \in Nat
        /\ log.lines \in Nat \ {0} /\ Len0 <= log.lines
    BY <1>1, <2>1, Numbers, Sizes DEF Len0, LinesOf, Backups, Full
  <2>3. IF NeedsRotation THEN pc' = "remove" /\ Len0 = log.lines ELSE pc' = "write"
        /\ Len0 < log.lines
    BY <1>1, <2>2 DEF BeginAppend, Goto, NeedsRotation
  <2> QED
    BY <1>1, <2>1, <2>2, <2>3 DEF Full
<1>9. \A i \in 0..log.backups : Missing(i) <= Missing(i)'
  <2>1. \A i : Missing(i)' = Missing(i)
    BY <1>1 DEF Missing, Unfilled, Len0, LinesOf
  <2>2. \A i \in 0..log.backups : i \in Int
    BY Sizes
  <2> QED
    BY <2>1, <2>2, Numbers
<1>10. Retained'
  BY <1>1, <1>2, <1>5, <1>8, <1>9, RetainedSame
<1> QED
  BY <1>2, <1>4, <1>6, <1>7, <1>10

(* A rotation that fails leaves one number free at most, until the next. *)
LEMMA RotationFailsKeeps ==
  ASSUME IInv, RotationFails
  PROVE  IInv'
<1> USE DEF IInv
<1>1. /\ pc \in {"remove", "shift", "move", "open"} /\ pc' = "idle" /\ usable' = FALSE
      /\ UNCHANGED <<log, files, size, appended, torn, restarts>>
  BY DEF RotationFails
<1>2. Types'
  BY <1>1 DEF Types
<1>3. Staged'
  BY <1>1 DEF Staged
<1>4. \A i \in DOMAIN files' : files'[i] = LinesOf(i)
  BY <1>1 DEF LinesOf
<1>5. Ordered' /\ NoGap' /\ Once'
  BY <1>1, <1>4, LinesSame
<1>6. Len0' = Len0 /\ Backups' = Backups
  BY <1>1 DEF Len0, LinesOf, Backups
<1>7. ~torn => Full'
  BY <1>1, <1>6 DEF Full, Retained
<1>8. ~torn => \A i \in 0..log.backups : Missing(i) <= Missing(i)'
  <2>1. SUFFICES ASSUME ~torn, NEW i \in 0..log.backups PROVE Missing(i) <= Missing(i)'
    OBVIOUS
  <2>2. usable /\ restarts \in Nat /\ Full
    BY <1>1, <2>1 DEF Staged, Types, Retained
  <2>3. CASE pc = "open"
    BY <1>1, <1>6, <2>2, <2>3 DEF Missing, Unfilled
  <2>4. CASE pc # "open"
    <3>1. Len0 = log.lines
      BY <1>1, <2>2, <2>4 DEF Full
    <3>2. Unfilled(i) \in {0, 1} /\ Unfilled(i)' = 0
      BY <1>1 DEF Unfilled
    <3> QED
      BY <1>1, <1>6, <2>2, <3>1, <3>2 DEF Missing
  <2> QED
    BY <2>3, <2>4
<1>9. Retained'
  <2>1. CASE torn
    BY <1>1, <2>1 DEF Retained
  <2>2. CASE ~torn
    BY <1>1, <1>2, <1>4, <1>7, <1>8, <2>2, RetainedSame
  <2> QED
    BY <2>1, <2>2
<1> QED
  BY <1>2, <1>3, <1>5, <1>9

(* So does a restart, which opens the current file or creates it. *)
LEMMA RestartKeeps ==
  ASSUME IInv, Restart
  PROVE  IInv'
<1> USE DEF IInv
<1>1. /\ pc' = "idle" /\ usable' = TRUE /\ restarts' = restarts + 1
      /\ files' = [i \in DOMAIN files \cup {0} |-> LinesOf(i)] /\ size' = Len0
      /\ UNCHANGED <<log, appended, torn>>
  BY DEF Restart, Opened, Len0
<1>2. /\ DOMAIN files' = DOMAIN files \cup {0}
      /\ \A i \in DOMAIN files' : files'[i] = LinesOf(i)
  BY <1>1
<1>3. /\ DOMAIN files' \subseteq 0..log.backups
         /\ \A i \in DOMAIN files' : files'[i] \in Seq(AnyLine)
      /\ Ordered' /\ NoGap' /\ Once'
  BY <1>1, <1>2, LinesSame
<1>4. Types'
  <2>1. Len0 \in Nat
    BY Numbers
  <2> QED
    BY <1>1, <1>3, <2>1 DEF Types
<1>5. Staged'
  BY <1>1, <1>2 DEF Staged
<1>6. Len0' = Len0 /\ Backups' = Backups /\ \A i \in Backups : files'[i] = files[i]
  BY <1>2 DEF Len0, LinesOf, Backups
<1>7. ~torn => Full'
  BY <1>1, <1>6 DEF Full, Retained
<1>8. \A i \in 0..log.backups : Missing(i) <= Missing(i)'
  <2>1. SUFFICES ASSUME NEW i \in 0..log.backups PROVE Missing(i) <= Missing(i)'
    OBVIOUS
  <2>2. Unfilled(i) \in {0, 1} /\ Unfilled(i)' = 0 /\ (~usable => Unfilled(i) = 0)
        /\ restarts \in Nat
    BY <1>1 DEF Unfilled, Staged, Types
  <2> QED
    BY <1>1, <2>2 DEF Missing
<1>9. Retained'
  BY <1>1, <1>2, <1>4, <1>7, <1>8, RetainedSame
<1> QED
  BY <1>3, <1>4, <1>5, <1>9

(* The last step of a rotation creates the current file. *)
LEMMA ReopenKeeps ==
  ASSUME IInv, Reopen
  PROVE  IInv'
<1> USE DEF IInv
<1>1. /\ pc = "open" /\ pc' = "write" /\ usable
      /\ files' = [i \in DOMAIN files \cup {0} |-> LinesOf(i)] /\ size' = Len0
      /\ UNCHANGED <<log, usable, index, line, appended, torn, restarts>>
  BY DEF Reopen, Opened, Len0, Goto, Staged
<1>2. /\ DOMAIN files' = DOMAIN files \cup {0}
      /\ \A i \in DOMAIN files' : files'[i] = LinesOf(i)
  BY <1>1
<1>3. /\ DOMAIN files' \subseteq 0..log.backups
         /\ \A i \in DOMAIN files' : files'[i] \in Seq(AnyLine)
      /\ Ordered' /\ NoGap' /\ Once'
  BY <1>1, <1>2, LinesSame
<1>4. Types'
  <2>1. Len0 \in Nat
    BY Numbers
  <2> QED
    BY <1>1, <1>3, <2>1 DEF Types
<1>5. Staged'
  BY <1>1, <1>2 DEF Staged
<1>6. Len0' = Len0 /\ Backups' = Backups /\ Len0 = 0 /\ \A i \in Backups : files'[i] = files[i]
  BY <1>1, <1>2 DEF Len0, LinesOf, Backups, Staged
<1>7. ~torn => Full'
  <2>1. log.lines \in Nat \ {0}
    BY Sizes
  <2> QED
    BY <1>1, <1>6, <2>1 DEF Full, Retained
<1>8. \A i \in 0..log.backups : Missing(i) <= Missing(i)'
  <2>1. \A i : Missing(i)' = Missing(i)
    BY <1>1, <1>6 DEF Missing, Unfilled
  <2>2. \A i \in 0..log.backups : i \in Int
    BY Sizes
  <2> QED
    BY <2>1, <2>2, Numbers
<1>9. Retained'
  BY <1>1, <1>2, <1>4, <1>7, <1>8, RetainedSame
<1> QED
  BY <1>3, <1>4, <1>5, <1>9

(* A step of something else. *)
LEMMA StutterKeeps ==
  ASSUME IInv, UNCHANGED vars
  PROVE  IInv'
<1>1. Types' /\ Staged' /\ Ordered' /\ NoGap' /\ Once'
  BY DEF IInv, vars, Types, Staged, Ordered, NoGap, Once, HasRecord, HasLine, Decodes, Before
<1>2. Full' = Full /\ Numbered' = Numbered /\ Aged' = Aged /\ Kept' = Kept
  BY DEF vars, Full, Numbered, Aged, Kept, Reach, Missing, Unfilled, Len0, LinesOf, Backups,
     HasLine
<1> QED
  BY <1>1, <1>2 DEF IInv, Retained, vars

(* A write that is not cut short: the current file has one record more. *)
LEMMA WriteKeeps ==
  ASSUME IInv, Write
  PROVE  IInv'
<1> USE DEF IInv
<1>1. /\ pc = "write" /\ pc' = "idle" /\ usable /\ 0 \in DOMAIN files /\ line \in AnyLine
      /\ line.kind = "whole" /\ line.seq = appended + 1
      /\ files' = [files EXCEPT ![0] = WithLine(@, line, Garbled)]
      /\ size' = size + 1 /\ appended' = appended + 1
      /\ UNCHANGED <<log, usable, index, torn, restarts>>
  BY DEF Write, Goto, Staged
<1>2. Garbled \in AnyLine /\ ~Decodes(Garbled) /\ Decodes(line)
  BY <1>1 DEF Garbled, LineOf, AnyLine, Decodes
<1>3. /\ DOMAIN files' = DOMAIN files /\ \A i \in DOMAIN files' : files'[i] \in Seq(AnyLine)
      /\ Ordered' /\ NoGap' /\ Once'
  <2>1. log.once /\ Decodes(line) => \A i, k : HasRecord(i, k) => files[i][k].about # line.about
    BY <1>1 DEF Once
  <2> QED
    BY <1>1, <1>2, <2>1, LineWritten
<1>4. Types'
  BY <1>1, <1>3 DEF Types
<1>5. Staged'
  BY <1>1, <1>3 DEF Staged
<1>6. Retained'
  <2> SUFFICES ASSUME ~torn PROVE Full' /\ Numbered' /\ Aged' /\ Kept'
    BY <1>1 DEF Retained
  <2>1. Full /\ Numbered /\ Aged /\ Kept
    BY DEF Retained
  <2>2. PICK old \in Seq(AnyLine) : old = files[0]
    BY <1>1 DEF Types
  <2>3. Len(old) \in Nat /\ Len0 = Len(old) /\ DOMAIN old = 1..Len(old)
    BY <1>1, <2>2 DEF Len0, LinesOf
  <2>4. files'[0] = Append(old, line)
    <3>1. files'[0] = WithLine(old, line, Garbled)
      BY <1>1, <2>2
    <3>2. old # << >> => ~Unfinished(Last(old))
      <4>1. SUFFICES ASSUME old # << >> PROVE ~Unfinished(Last(old))
        OBVIOUS
      <4>2. Len(old) \in 1..Len(old) /\ Last(old) = old[Len(old)]
        BY <2>3, <4>1 DEF Last
      <4>3. Last(old).kind = "whole"
        BY <1>1, <2>1, <2>2, <4>2 DEF Numbered
      <4> QED
        BY <4>3 DEF Unfinished
    <3> QED
      BY <3>1, <3>2 DEF WithLine
  <2>5. /\ Len(files'[0]) = Len(old) + 1 /\ files'[0][Len(old) + 1] = line
        /\ \A k \in 1..Len(old) : files'[0][k] = old[k]
    BY <1>1, <2>4, AppendProperties
  <2>6. Len0' = Len0 + 1 /\ Backups' = Backups /\ \A i \in Backups : files'[i] = files[i]
    BY <1>1, <1>3, <2>3, <2>5 DEF Len0, LinesOf, Backups
  <2>7. Full'
    BY <1>1, <2>1, <2>3, <2>6, Sizes DEF Full, Types
  <2>8. Numbered'
    <3>1. \A i \in DOMAIN files' : \A k \in 1..Len(files'[i]) : files'[i][k].kind = "whole"
      <4>1. SUFFICES ASSUME NEW i \in DOMAIN files', NEW k \in 1..Len(files'[i])
                     PROVE files'[i][k].kind = "whole"
        OBVIOUS
      <4>2. CASE i = 0
        BY <1>1, <2>1, <2>2, <2>3, <2>5, <4>1, <4>2 DEF Numbered
      <4>3. CASE i # 0
        BY <1>3, <2>1, <2>6, <4>3 DEF Numbered, Backups
      <4> QED
        BY <4>2, <4>3
    <3>2. \A k \in 1..Len0' : files'[0][k].seq = appended' - Len0' + k
      <4>1. SUFFICES ASSUME NEW k \in 1..Len0' PROVE files'[0][k].seq = appended' - Len0' + k
        OBVIOUS
      <4>2. k \in Int /\ appended \in Nat /\ appended' - Len0' = appended - Len0
        BY <1>1, <2>3, <2>6 DEF Types
      <4>3. CASE k = Len(old) + 1
        BY <1>1, <2>3, <2>5, <2>6, <4>2, <4>3
      <4>4. CASE k # Len(old) + 1
        <5>1. k \in 1..Len0
          BY <2>3, <2>6, <4>4
        <5> QED
          BY <2>1, <2>2, <2>3, <2>5, <4>2, <5>1 DEF Numbered
      <4> QED
        BY <4>3, <4>4
    <3> QED
      BY <2>1, <2>6, <3>1, <3>2 DEF Numbered
  <2>9. \A i : Reach(i)' = Reach(i)
    <3>1. SUFFICES ASSUME NEW i PROVE Reach(i)' = Reach(i)
      OBVIOUS
    <3>2. Missing(i)' = Missing(i)
      BY <1>1 DEF Missing, Unfilled
    <3>3. appended' - Len0' = appended - Len0
      BY <1>1, <2>3, <2>6 DEF Types
    <3> QED
      BY <1>1, <3>2, <3>3 DEF Reach
  <2>10. Aged'
    BY <2>1, <2>6, <2>9 DEF Aged
  <2>11. Kept'
    <3>1. SUFFICES ASSUME NEW n \in 1..(appended + 1), n >= Reach(log.backups)
          PROVE  \E i, k : HasLine(i, k)' /\ files'[i][k].seq = n
      BY <1>1, <2>9 DEF Kept, HasLine
    <3>2. CASE n = appended + 1
      <4>1. HasLine(0, Len(old) + 1)'
        <5>1. files'[0] \in Seq(AnyLine) /\ 0 \in DOMAIN files' /\ Len(files'[0]) = Len(old) + 1
          BY <1>1, <1>3, <2>5
        <5>2. Len(old) + 1 \in DOMAIN files'[0]
          BY <2>3, <5>1
        <5> QED
          BY <2>2, <5>1, <5>2 DEF HasLine
      <4> QED
        BY <1>1, <2>5, <3>2, <4>1
    <3>3. CASE n # appended + 1
      <4>1. n \in 1..appended
        BY <3>3 DEF Types
      <4>2. PICK i, k : HasLine(i, k) /\ files[i][k].seq = n
        BY <2>1, <3>1, <4>1 DEF Kept
      <4>3. HasLine(i, k)' /\ files'[i][k] = files[i][k]
        <5>1. CASE i = 0
          <6>1. k \in 1..Len(old)
            BY <2>2, <2>3, <4>2, <5>1 DEF HasLine
          <6>2. k \in DOMAIN files'[0] /\ 0 \in DOMAIN files'
            BY <1>1, <1>3, <2>3, <2>5, <6>1
          <6> QED
            BY <2>2, <2>5, <5>1, <6>1, <6>2 DEF HasLine
        <5>2. CASE i # 0
          BY <1>3, <2>6, <4>2, <5>2 DEF HasLine, Backups
        <5> QED
          BY <5>1, <5>2
      <4> QED
        BY <4>2, <4>3
    <3> QED
      BY <3>2, <3>3
  <2> QED
    BY <2>7, <2>8, <2>10, <2>11
<1> QED
  BY <1>3, <1>4, <1>5, <1>6

(* A write that fails adds nothing, part of a line, or a record without its newline. *)
LEMMA WriteFailsKeeps ==
  ASSUME IInv, WriteFails
  PROVE  IInv'
<1> USE DEF IInv
<1>1. /\ pc = "write" /\ pc' = "idle" /\ usable /\ usable' = FALSE
      /\ 0 \in DOMAIN files /\ line \in AnyLine /\ line.seq = appended + 1
      /\ UNCHANGED <<log, size, index, restarts>>
  BY DEF WriteFails, Goto, Staged
<1>2. CASE UNCHANGED <<files, appended, torn>>
  <2>1. Types' /\ Staged'
    BY <1>1, <1>2 DEF Types, Staged
  <2>2. \A i \in DOMAIN files' : files'[i] = LinesOf(i)
    BY <1>2 DEF LinesOf
  <2>3. Ordered' /\ NoGap' /\ Once'
    BY <1>1, <1>2, <2>2, LinesSame
  <2>4. Len0' = Len0 /\ Backups' = Backups
    BY <1>2 DEF Len0, LinesOf, Backups
  <2>5. Retained'
    <3>1. CASE torn
      BY <1>2, <3>1 DEF Retained
    <3>2. CASE ~torn
      <4>1. Full /\ Len0 < log.lines
        BY <1>1, <3>2 DEF Full, Retained
      <4>2. Full'
        BY <1>1, <1>2, <2>4, <4>1 DEF Full
      <4>3. \A i \in 0..log.backups : Missing(i) <= Missing(i)'
        <5>1. Len0 # log.lines
          <6>1. Len0 \in Nat /\ log.lines \in Nat
            BY Numbers, Sizes
          <6> QED
            BY <4>1, <6>1
        <5>2. \A i : Missing(i)' = Missing(i)
          BY <1>1, <2>4, <5>1 DEF Missing, Unfilled
        <5>3. \A i \in 0..log.backups : i \in Int
          BY Sizes
        <5> QED
          BY <5>2, <5>3, Numbers
      <4> QED
        BY <1>1, <1>2, <2>1, <2>2, <4>2, <4>3, RetainedSame
    <3> QED
      BY <3>1, <3>2
  <2> QED
    BY <2>1, <2>3, <2>5
<1>3. ASSUME NEW new \in AnyLine, torn' = TRUE,
             files' = [files EXCEPT ![0] = WithLine(@, new, Torn)],
             Decodes(new) =>
               appended' = appended + 1 /\ new.seq = appended + 1 /\ new.about = line.about,
             ~Decodes(new) => appended' = appended
      PROVE  IInv'
  <2>1. Torn \in AnyLine /\ ~Decodes(Torn)
    BY DEF Torn, LineOf, AnyLine, Decodes
  <2>2. log.once /\ Decodes(new) => \A i, k : HasRecord(i, k) => files[i][k].about # new.about
    BY <1>1, <1>3 DEF Once
  <2>3. /\ DOMAIN files' = DOMAIN files /\ \A i \in DOMAIN files' : files'[i] \in Seq(AnyLine)
        /\ Ordered' /\ NoGap' /\ Once'
    BY <1>1, <1>3, <2>1, <2>2, LineWritten
  <2>4. Types'
    <3>1. appended' \in {appended, appended + 1}
      BY <1>3
    <3>2. appended' \in Nat
      BY <3>1 DEF Types
    <3> QED
      BY <1>1, <1>3, <2>3, <3>2 DEF Types
  <2>5. Staged'
    BY <1>1, <2>3 DEF Staged
  <2> QED
    BY <1>3, <2>3, <2>4, <2>5 DEF Retained
<1>4. CASE /\ files' = [files EXCEPT ![0] = WithLine(@, Torn, Torn)]
           /\ torn' = TRUE /\ appended' = appended
  <2>1. Torn \in AnyLine /\ ~Decodes(Torn)
    BY DEF Torn, LineOf, AnyLine, Decodes
  <2> QED
    BY <1>3, <1>4, <2>1
<1>5. CASE /\ files' = [files EXCEPT ![0] = WithLine(@, [line EXCEPT !.kind = "open"], Torn)]
           /\ torn' = TRUE /\ appended' = appended + 1
  <2> DEFINE new == [line EXCEPT !.kind = "open"]
  <2>1. new \in AnyLine /\ Decodes(new) /\ new.seq = appended + 1 /\ new.about = line.about
    BY <1>1 DEF AnyLine, Decodes
  <2> HIDE DEF new
  <2>2. files' = [files EXCEPT ![0] = WithLine(@, new, Torn)]
    BY <1>5 DEF new
  <2> QED
    BY <1>3, <1>5, <2>1, <2>2
<1> QED
  BY <1>2, <1>4, <1>5 DEF WriteFails

(* The oldest backup is given up only when a full log of younger ones is there. *)
LEMMA RemoveOldestKeeps ==
  ASSUME IInv, RemoveOldest
  PROVE  IInv'
<1> USE DEF IInv
<1>1. /\ pc = "remove" /\ usable /\ index' = log.backups - 1
      /\ pc' = (IF log.backups - 1 < 1 THEN "move" ELSE "shift")
      /\ files' = [i \in DOMAIN files \ {log.backups} |-> files[i]]
      /\ UNCHANGED <<log, size, usable, line, appended, torn, restarts>>
  BY DEF RemoveOldest, Goto, Staged, FirstShifted
<1>2. log.backups \in Nat \ {0} /\ log.lines \in Nat \ {0}
  BY Sizes
<1>3. /\ DOMAIN files' = DOMAIN files \ {log.backups}
         /\ \A i \in DOMAIN files' : files'[i] = files[i]
      /\ DOMAIN files \subseteq 0..log.backups
  BY <1>1 DEF Types
<1>4. Types'
  BY <1>1, <1>3 DEF Types
<1>5. Staged'
  BY <1>1, <1>2, <1>3 DEF Staged
<1>6. Ordered' /\ NoGap' /\ Once'
  <2>1. PICK from : from = [i \in DOMAIN files' |-> i]
    OBVIOUS
  <2>2. from \in [DOMAIN files' -> DOMAIN files] /\ \A i \in DOMAIN files' : from[i] = i
    BY <1>3, <2>1
  <2>3. \A i \in DOMAIN files', j \in DOMAIN files : j < from[i] =>
          \E h \in DOMAIN files' : from[h] = j
    <3>1. SUFFICES ASSUME NEW i \in DOMAIN files', NEW j \in DOMAIN files, j < i
                   PROVE j \in DOMAIN files'
      BY <2>2
    <3>2. i \in 0..log.backups /\ j \in 0..log.backups
      BY <1>3, <3>1
    <3>3. j # log.backups
      BY <1>2, <3>1, <3>2
    <3> QED
      BY <1>3, <3>3
  <2>4. \A i, j \in DOMAIN files' : i > j => from[i] > from[j]
    BY <2>2
  <2> QED
    BY <1>1, <1>3, <2>2, <2>3, <2>4, FilesMoved DEF Types
<1>7. Retained'
  <2> SUFFICES ASSUME ~torn PROVE Full' /\ Numbered' /\ Aged' /\ Kept'
    BY <1>1 DEF Retained
  <2>1. Full /\ Numbered /\ Aged /\ Kept
    BY DEF Retained
  <2>2. /\ Backups' = Backups \ {log.backups} /\ Len0' = Len0 /\ Len0 = log.lines
        /\ \A i \in Backups' : files'[i] = files[i]
    BY <1>1, <1>2, <1>3, <2>1 DEF Full, Backups, Len0, LinesOf
  <2>3. Full'
    BY <1>1, <2>1, <2>2 DEF Full
  <2>4. Numbered'
    <3>1. 0 \in DOMAIN files /\ files'[0] = files[0]
      BY <1>1, <1>2, <1>3 DEF Staged
    <3> QED
      BY <1>1, <1>3, <2>1, <2>2, <3>1 DEF Numbered, Backups
  <2>5. Aged'
    <3>1. SUFFICES ASSUME NEW i \in Backups \ {log.backups} PROVE Reach(i)' = Reach(i)
      BY <2>1, <2>2 DEF Aged
    <3>2. i \in 1..log.backups /\ i # log.backups
      BY <3>1, Numbers
    <3>3. Unfilled(i)' = Unfilled(i)
      BY <1>1, <1>2, <3>2 DEF Unfilled
    <3> QED
      BY <1>1, <2>2, <3>3 DEF Reach, Missing
  <2>6. Reach(log.backups)' = Reach(log.backups) + log.lines
    <3>1. Unfilled(log.backups) = 0 /\ Unfilled(log.backups)' = 1
      BY <1>1, <1>2 DEF Unfilled
    <3>2. Missing(log.backups)' = Missing(log.backups) + 1 /\ Missing(log.backups) \in Nat
      BY <1>1, <2>2, <3>1 DEF Missing, Types
    <3>3. PICK x \in Int : x = log.backups - Missing(log.backups)
      BY <1>2, <3>2
    <3>4. log.backups - Missing(log.backups)' = x - 1
      BY <1>2, <3>2, <3>3
    <3>5. log.lines * (x - 1) = log.lines * x - log.lines /\ log.lines * x \in Int
      BY <1>2, Products
    <3>6. Reach(log.backups) = appended - Len0 - log.lines * x + 1
          /\ Reach(log.backups)' = appended - Len0 - log.lines * (x - 1) + 1
      BY <1>1, <2>2, <3>3, <3>4 DEF Reach
    <3>7. appended \in Int /\ Len0 \in Int
      BY Numbers DEF Types
    <3> QED
      BY <1>2, <3>5, <3>6, <3>7
  <2>7. Kept'
    <3>1. SUFFICES ASSUME NEW n \in 1..appended, n >= Reach(log.backups) + log.lines
          PROVE  \E i, k : HasLine(i, k)' /\ files'[i][k].seq = n
      BY <1>1, <2>6 DEF Kept, HasLine
    <3>2. Reach(log.backups) \in Int /\ n \in Int
      <4>1. log.backups \in Int
        BY <1>2
      <4>2. Reach(log.backups) \in Int
        BY <4>1, Numbers
      <4>3. n \in Int
        BY <3>1 DEF Types
      <4> QED
        BY <4>2, <4>3
    <3>3. PICK i, k : HasLine(i, k) /\ files[i][k].seq = n
      BY <1>2, <2>1, <3>1, <3>2 DEF Kept
    <3>4. i # log.backups
      <4>1. SUFFICES ASSUME i = log.backups PROVE FALSE
        OBVIOUS
      <4>2. i \in Backups /\ k \in 1..log.lines
        BY <1>2, <2>1, <3>3, <4>1, Numbers DEF HasLine, Backups, Full
      <4>3. files[i][1].seq \in Nat
        <5>1. Len(files[i]) = log.lines /\ DOMAIN files[i] = 1..Len(files[i])
          BY <2>1, <4>2, Numbers DEF Full, Backups
        <5>2. HasLine(i, 1)
          BY <1>2, <4>2, <5>1 DEF HasLine, Backups
        <5> QED
          BY <5>2, Numbers DEF AnyLine
      <4>4. n = files[i][1].seq + k - 1
        BY <2>1, <3>3, <4>2 DEF Numbered, Full
      <4>5. files[i][1].seq <= Reach(log.backups)
        BY <2>1, <4>1, <4>2 DEF Aged
      <4> QED
        BY <1>2, <3>1, <3>2, <4>2, <4>3, <4>4, <4>5
    <3> QED
      BY <1>3, <3>3, <3>4 DEF HasLine
  <2> QED
    BY <2>3, <2>4, <2>5, <2>7
<1> QED
  BY <1>4, <1>5, <1>6, <1>7

(* A rename to a free number moves one backup, or none. *)
LEMMA ShiftBackupKeeps ==
  ASSUME IInv, ShiftBackup
  PROVE  IInv'
<1> USE DEF IInv
<1>1. /\ pc = "shift" /\ usable /\ index' = index - 1
      /\ pc' = (IF index = 1 THEN "move" ELSE "shift")
      /\ files' = Renamed(index, index + 1)
      /\ UNCHANGED <<log, size, usable, line, appended, torn, restarts>>
  BY DEF ShiftBackup, Goto, Staged, Shifted
<1>2. /\ log.backups \in Nat \ {0} /\ log.lines \in Nat \ {0}
      /\ index \in 1..(log.backups - 1) /\ index + 1 \notin DOMAIN files
      /\ DOMAIN files \subseteq 0..log.backups
  BY <1>1, Sizes DEF Staged, Types
<1>3. PICK from :
        /\ from \in [DOMAIN files' -> DOMAIN files]
        /\ \A i \in DOMAIN files' : from[i] = (IF i = index + 1 THEN index ELSE i)
             /\ files'[i] = files[from[i]]
        /\ DOMAIN files' =
             {i \in 0..log.backups : (IF i = index + 1 THEN index ELSE i) \in DOMAIN files /\ i # index}
  <2>1. CASE index \in DOMAIN files
    <3>1. DOMAIN files' = (DOMAIN files \ {index}) \cup {index + 1}
          /\ \A i \in DOMAIN files' : files'[i] = files[IF i = index + 1 THEN index ELSE i]
      BY <1>1, <2>1 DEF Renamed
    <3>2. WITNESS [i \in DOMAIN files' |-> IF i = index + 1 THEN index ELSE i]
    <3> QED
      BY <1>2, <2>1, <3>1
  <2>2. CASE index \notin DOMAIN files
    <3>1. files' = files
      BY <1>1, <2>2 DEF Renamed
    <3>2. WITNESS [i \in DOMAIN files' |-> IF i = index + 1 THEN index ELSE i]
    <3> QED
      BY <1>2, <2>2, <3>1
  <2> QED
    BY <2>1, <2>2
<1>4. Types'
  BY <1>1, <1>3 DEF Types
<1>5. Staged'
  BY <1>1, <1>2, <1>3 DEF Staged
<1>6. \A j \in DOMAIN files : \E h \in DOMAIN files' : from[h] = j
  <2>1. SUFFICES ASSUME NEW j \in DOMAIN files PROVE \E h \in DOMAIN files' : from[h] = j
    OBVIOUS
  <2>2. CASE j = index
    <3>1. index + 1 \in DOMAIN files'
      BY <1>2, <1>3, <2>1, <2>2
    <3> QED
      BY <1>3, <2>2, <3>1
  <2>3. CASE j # index
    <3>1. j \in DOMAIN files' /\ j # index + 1
      BY <1>2, <1>3, <2>1, <2>3
    <3> QED
      BY <1>3, <3>1
  <2> QED
    BY <2>2, <2>3
<1>7. Ordered' /\ NoGap' /\ Once'
  <2>1. \A i, j \in DOMAIN files' : i > j => from[i] > from[j]
    <3>1. SUFFICES ASSUME NEW i \in DOMAIN files', NEW j \in DOMAIN files', i > j
                   PROVE from[i] > from[j]
      OBVIOUS
    <3>2. i \in Int /\ j \in Int /\ index \in Int /\ i # index /\ j # index
      BY <1>2, <1>3
    <3> QED
      BY <1>3, <3>1, <3>2
  <2>2. DOMAIN files' \subseteq 0..log.backups
        /\ \A i \in DOMAIN files' : files'[i] = files[from[i]]
    BY <1>3
  <2> QED
    BY <1>1, <1>3, <1>6, <2>1, <2>2, FilesMoved
<1>8. Retained'
  <2> SUFFICES ASSUME ~torn PROVE Full' /\ Numbered' /\ Aged' /\ Kept'
    BY <1>1 DEF Retained
  <2>1. Full /\ Numbered /\ Aged /\ Kept
    BY DEF Retained
  <2>2. 0 \in DOMAIN files /\ 0 \in DOMAIN files' /\ files'[0] = files[0] /\ Len0' = Len0
        /\ Len0 = log.lines
    <3>1. 0 \in DOMAIN files /\ Len0 = log.lines
      BY <1>1, <2>1 DEF Staged, Full
    <3>2. 0 \in DOMAIN files' /\ from[0] = 0
      BY <1>2, <1>3, <3>1
    <3> QED
      BY <1>3, <3>1, <3>2 DEF Len0, LinesOf
  <2>3. \A i \in Backups' : from[i] \in Backups /\ files'[i] = files[from[i]]
    BY <1>2, <1>3 DEF Backups
  <2>4. Full'
    BY <1>1, <2>1, <2>2, <2>3 DEF Full
  <2>5. Numbered'
    BY <1>1, <1>3, <2>1, <2>2, <2>3 DEF Numbered
  <2>6. Aged'
    <3>1. SUFFICES ASSUME NEW i \in Backups' PROVE Reach(i)' = Reach(from[i])
      BY <2>1, <2>3 DEF Aged
    <3>2. i \in Int /\ i # 0 /\ i # index /\ i >= 1
          /\ from[i] = (IF i = index + 1 THEN index ELSE i) /\ index \in Int
      BY <1>2, <1>3, <3>1 DEF Backups
    <3>3. Unfilled(i)' = Unfilled(from[i]) + (i - from[i])
      BY <1>1, <1>2, <3>2 DEF Unfilled
    <3>4. i - Missing(i)' = from[i] - Missing(from[i])
      <4>1. Missing(i)' = Missing(from[i]) + (i - from[i])
        BY <1>1, <2>2, <3>2, <3>3 DEF Missing, Types, Unfilled
      <4>2. from[i] \in Int /\ Missing(from[i]) \in Nat
        BY <3>2, Numbers
      <4> QED
        BY <3>2, <4>1, <4>2
    <3> QED
      BY <1>1, <2>2, <3>4 DEF Reach
  <2>7. Kept'
    <3>1. Unfilled(log.backups)' = 1 /\ Unfilled(log.backups) = 1
      BY <1>1, <1>2 DEF Unfilled
    <3>2. Reach(log.backups)' = Reach(log.backups)
      BY <1>1, <2>2, <3>1 DEF Reach, Missing
    <3>3. SUFFICES ASSUME NEW n \in 1..appended, n >= Reach(log.backups)
          PROVE  \E i, k : HasLine(i, k)' /\ files'[i][k].seq = n
      BY <1>1, <3>2 DEF Kept, HasLine
    <3>4. PICK i, k : HasLine(i, k) /\ files[i][k].seq = n
      BY <2>1, <3>3 DEF Kept
    <3>5. PICK h \in DOMAIN files' : from[h] = i
      BY <1>6, <3>4 DEF HasLine
    <3> QED
      BY <1>3, <3>4, <3>5 DEF HasLine
  <2> QED
    BY <2>4, <2>5, <2>6, <2>7
<1> QED
  BY <1>4, <1>5, <1>7, <1>8

(* The current file, which is full, becomes the first backup. *)
LEMMA MoveCurrentKeeps ==
  ASSUME IInv, MoveCurrent
  PROVE  IInv'
<1> USE DEF IInv
<1>1. /\ pc = "move" /\ usable /\ pc' = "open" /\ 0 \in DOMAIN files
      /\ files' = Renamed(0, 1)
      /\ UNCHANGED <<log, size, usable, index, line, appended, torn, restarts>>
  BY DEF MoveCurrent, Goto, Staged
<1>2. /\ log.backups \in Nat \ {0} /\ log.lines \in Nat \ {0}
      /\ 1 \notin DOMAIN files /\ DOMAIN files \subseteq 0..log.backups
  BY <1>1, Sizes DEF Staged, Types
<1>3. /\ DOMAIN files' = (DOMAIN files \ {0}) \cup {1} /\ files'[1] = files[0]
      /\ \A i \in Backups : i \in DOMAIN files' /\ i # 1 /\ files'[i] = files[i]
  BY <1>1, <1>2 DEF Renamed, Backups
<1>4. Types'
  BY <1>1, <1>2, <1>3 DEF Types, Backups
<1>5. Staged'
  BY <1>1, <1>2, <1>3 DEF Staged
<1>6. PICK from :
        /\ from \in [DOMAIN files' -> DOMAIN files]
        /\ \A i \in DOMAIN files' : from[i] = (IF i = 1 THEN 0 ELSE i)
             /\ files'[i] = files[from[i]]
  <2>1. WITNESS [i \in DOMAIN files' |-> IF i = 1 THEN 0 ELSE i]
  <2> QED
    BY <1>1, <1>2, <1>3 DEF Backups
<1>7. \A j \in DOMAIN files : \E h \in DOMAIN files' : from[h] = j
  BY <1>2, <1>3, <1>6
<1>8. Ordered' /\ NoGap' /\ Once'
  <2>1. \A i, j \in DOMAIN files' : i > j => from[i] > from[j]
    <3>1. SUFFICES ASSUME NEW i \in DOMAIN files', NEW j \in DOMAIN files', i > j
                   PROVE from[i] > from[j]
      OBVIOUS
    <3>2. i \in 1..log.backups /\ j \in 1..log.backups
      BY <1>2, <1>3
    <3> QED
      BY <1>2, <1>6, <3>1, <3>2
  <2>2. DOMAIN files' \subseteq 0..log.backups
    BY <1>2, <1>3
  <2> QED
    BY <1>1, <1>6, <1>7, <2>1, <2>2, FilesMoved
<1>9. Retained'
  <2> SUFFICES ASSUME ~torn PROVE Full' /\ Numbered' /\ Aged' /\ Kept'
    BY <1>1 DEF Retained
  <2>1. Full /\ Numbered /\ Aged /\ Kept
    BY DEF Retained
  <2>2. Len0 = log.lines /\ Len(files[0]) = log.lines /\ Len0' = 0
        /\ Backups' = Backups \cup {1}
    BY <1>1, <1>2, <1>3, <2>1 DEF Full, Len0, LinesOf, Backups
  <2>3. Full'
    BY <1>1, <1>2, <1>3, <2>1, <2>2 DEF Full
  <2>4. \A k \in 1..log.lines : files[0][k].kind = "whole"
          /\ files[0][k].seq = appended - log.lines + k
    BY <1>1, <2>1, <2>2 DEF Numbered
  <2>5. Numbered'
    <3>1. \A i \in DOMAIN files' : i \in Backups \/ i = 1
      BY <1>3 DEF Backups
    <3>2. \A k \in 1..log.lines : files[0][k].seq = files[0][1].seq + k - 1
      BY <1>2, <2>4 DEF Types
    <3>3. \A i \in DOMAIN files' : \A k \in 1..Len(files'[i]) : files'[i][k].kind = "whole"
      BY <1>3, <2>1, <2>2, <2>4, <3>1 DEF Numbered, Backups
    <3>4. \A i \in Backups' : \A k \in 1..Len(files'[i]) : files'[i][k].seq = files'[i][1].seq + k - 1
      BY <1>3, <2>1, <2>2, <3>2 DEF Numbered
    <3> QED
      BY <2>2, <3>3, <3>4 DEF Numbered
  <2>6. \A i \in 1..log.backups : Reach(i)' = Reach(i)
    <3>1. SUFFICES ASSUME NEW i \in 1..log.backups PROVE Reach(i)' = Reach(i)
      OBVIOUS
    <3>2. Unfilled(i) = 1 /\ Unfilled(i)' = 0 /\ i \in Int
      BY <1>1, <1>2 DEF Unfilled
    <3>3. Missing(i) = Missing(i)' + 1 /\ Missing(i)' \in Nat
      BY <1>1, <3>2 DEF Missing, Types
    <3>4. PICK x \in Int : x = i - Missing(i)'
      BY <3>2, <3>3
    <3>5. i - Missing(i) = x - 1
      BY <3>2, <3>3, <3>4
    <3>6. log.lines * (x - 1) = log.lines * x - log.lines /\ log.lines * x \in Int
      BY <1>2, Products
    <3>7. Reach(i) = appended - log.lines - log.lines * (x - 1) + 1
          /\ Reach(i)' = appended - 0 - log.lines * x + 1
      BY <1>1, <2>2, <3>4, <3>5 DEF Reach
    <3>8. appended \in Int
      BY DEF Types
    <3> QED
      BY <1>2, <3>6, <3>7, <3>8
  <2>7. Aged'
    <3>1. \A i \in Backups : files'[i][1].seq <= Reach(i)'
      BY <1>3, <2>1, <2>6, Numbers DEF Aged
    <3>2. files'[1][1].seq <= Reach(1)'
      <4>1. files'[1][1].seq = appended - log.lines + 1
        BY <1>2, <1>3, <2>4 DEF Types
      <4>2. PICK m \in Nat : m = Missing(1)'
        BY <1>1 DEF Missing, Unfilled, Types
      <4>3. log.lines * (1 - m) \in Int /\ log.lines * (1 - m) <= log.lines * 1
        <5>1. 1 - m \in Int /\ 1 - m <= 1
          BY <4>2
        <5> QED
          BY <1>2, <5>1, Products
      <4>4. Reach(1)' = appended - 0 - log.lines * (1 - m) + 1
        BY <1>1, <2>2, <4>2 DEF Reach
      <4>5. appended \in Int /\ log.lines * 1 = log.lines
        BY <1>2 DEF Types
      <4> QED
        BY <1>2, <4>1, <4>3, <4>4, <4>5
    <3> QED
      BY <2>2, <3>1, <3>2 DEF Aged
  <2>8. Kept'
    <3>1. Reach(log.backups)' = Reach(log.backups)
      <4>1. log.backups \in 1..log.backups
        BY <1>2
      <4> QED
        BY <1>1, <2>6, <4>1
    <3>2. SUFFICES ASSUME NEW n \in 1..appended, n >= Reach(log.backups)
          PROVE  \E i, k : HasLine(i, k)' /\ files'[i][k].seq = n
      BY <1>1, <3>1 DEF Kept, HasLine
    <3>3. PICK i, k : HasLine(i, k) /\ files[i][k].seq = n
      BY <2>1, <3>2 DEF Kept
    <3>4. PICK h \in DOMAIN files' : from[h] = i
      BY <1>7, <3>3 DEF HasLine
    <3> QED
      BY <1>6, <3>3, <3>4 DEF HasLine
  <2> QED
    BY <2>3, <2>5, <2>7, <2>8
<1> QED
  BY <1>4, <1>5, <1>8, <1>9

(* Every step keeps the invariant. *)
LEMMA StepKeeps == IInv /\ [Next]_vars => IInv'
<1> SUFFICES ASSUME IInv, [Next]_vars PROVE IInv'
  OBVIOUS
<1>1. ASSUME NEW about \in log.records,
             NEW late \in 0..log.skew, BeginAppend(about, appended + 1 - late)
      PROVE  IInv'
  BY <1>1, BeginAppendKeeps
<1>2. CASE Write
  BY <1>2, WriteKeeps
<1>3. CASE WriteFails
  BY <1>3, WriteFailsKeeps
<1>4. CASE RemoveOldest
  BY <1>4, RemoveOldestKeeps
<1>5. CASE ShiftBackup
  BY <1>5, ShiftBackupKeeps
<1>6. CASE MoveCurrent
  BY <1>6, MoveCurrentKeeps
<1>7. CASE Reopen
  BY <1>7, ReopenKeeps
<1>8. CASE RotationFails
  BY <1>8, RotationFailsKeeps
<1>9. CASE Restart
  BY <1>9, RestartKeeps
<1>10. CASE UNCHANGED vars
  BY <1>10, StutterKeeps
<1> QED
  BY <1>1, <1>2, <1>3, <1>4, <1>5, <1>6, <1>7, <1>8, <1>9, <1>10 DEF Next

(* The invariant holds in every reachable state. *)
LEMMA Invariance == Spec => []IInv
  BY InitHolds, StepKeeps, PTL DEF Spec

(* What the queries see follows: nothing is damaged, so no record after    *)
(* the first that is read is missing; and what is missing otherwise is     *)
(* older than the backups that there must be.                              *)
LEMMA LatestFollows == IInv => QueriesSeeLatest
<1> SUFFICES ASSUME IInv PROVE QueriesSeeLatest
  OBVIOUS
<1> USE DEF IInv
<1>1. \A p \in Places : HasLine(p[1], p[2]) /\ LineAt(p) = files[p[1]][p[2]]
  BY DEF Places, LineAt, HasLine
<1>2. \A i, k : HasLine(i, k) => <<i, k>> \in Places /\ LineAt(<<i, k>>) = files[i][k]
  BY DEF Places, LineAt, HasLine
<1>3. ASSUME ~Damaged
      PROVE  /\ \A p, q \in Places : ReadBefore(p, q) => LineAt(p).seq < LineAt(q).seq
             /\ \A p \in Places :
                  /\ LineAt(p).seq <= appended
                  /\ \A n \in LineAt(p).seq..appended : \E q \in Places : LineAt(q).seq = n
  <2>1. \A i, k : HasLine(i, k) => Decodes(files[i][k]) /\ HasRecord(i, k)
    BY <1>2, <1>3 DEF Damaged, HasRecord
  <2>2. \A p, q \in Places : ReadBefore(p, q) => LineAt(p).seq < LineAt(q).seq
    BY <1>1, <2>1 DEF Ordered, ReadBefore, Before
  <2>3. ASSUME NEW p \in Places
        PROVE  /\ LineAt(p).seq <= appended
               /\ \A n \in LineAt(p).seq..appended : \E q \in Places : LineAt(q).seq = n
    <3>1. HasRecord(p[1], p[2]) /\ LineAt(p) = files[p[1]][p[2]]
      BY <1>1, <2>1
    <3>2. LineAt(p).seq <= appended /\ LineAt(p).seq \in Nat
      BY <3>1, Numbers DEF NoGap, HasRecord, AnyLine
    <3>3. ASSUME NEW n \in LineAt(p).seq..appended PROVE \E q \in Places : LineAt(q).seq = n
      <4>1. CASE n = LineAt(p).seq
        BY <4>1
      <4>2. CASE n # LineAt(p).seq
        <5>1. n \in (files[p[1]][p[2]].seq + 1)..appended
          BY <3>1, <3>2, <3>3, <4>2
        <5>2. PICK j, m : HasRecord(j, m) /\ files[j][m].seq = n
          BY <2>1, <3>1, <5>1 DEF NoGap
        <5> QED
          BY <1>2, <5>2 DEF HasRecord
      <4> QED
        BY <4>1, <4>2
    <3> QED
      BY <3>2, <3>3
  <2> QED
    BY <2>2, <2>3
<1>4. ASSUME ~torn, NEW n \in 1..appended, n > appended - (log.backups - restarts) * log.lines
      PROVE  \E p \in Places : LineAt(p).seq = n
  <2> DEFINE b == log.backups
  <2>1. b \in Nat \ {0} /\ log.lines \in Nat \ {0} /\ Len0 \in Nat /\ restarts \in Nat
        /\ appended \in Nat /\ Full
    BY <1>4, Sizes, Numbers DEF Types, Retained
  <2>2. PICK x \in Int : x = b - restarts
    BY <2>1
  <2>3. (log.backups - restarts) * log.lines = log.lines * x /\ log.lines * x \in Int
        /\ log.lines * (x - 1) = log.lines * x - log.lines
    BY <2>1, <2>2, Products
  <2>4. Unfilled(b) \in {0, 1} /\ (Unfilled(b) = 1 => usable /\ Len0 = log.lines)
    BY <2>1 DEF Unfilled, Full, Staged
  <2>5. n >= Reach(log.backups) => \E p \in Places : LineAt(p).seq = n
    <3>1. SUFFICES ASSUME n >= Reach(log.backups) PROVE \E p \in Places : LineAt(p).seq = n
      OBVIOUS
    <3>2. Kept
      BY <1>4 DEF Retained
    <3>3. PICK i, k : HasLine(i, k) /\ files[i][k].seq = n
      BY <1>4, <3>1, <3>2 DEF Kept
    <3>4. <<i, k>> \in Places /\ LineAt(<<i, k>>).seq = n
      BY <1>2, <3>3
    <3> QED
      BY <3>4
  <2>6. CASE Missing(b) = restarts
    <3>1. Reach(b) = appended - Len0 - log.lines * x + 1
      BY <2>2, <2>6 DEF Reach
    <3>2. n >= Reach(log.backups)
      BY <1>4, <2>1, <2>3, <3>1
    <3> QED
      BY <2>5, <3>2
  <2>7. CASE Missing(b) # restarts
    <3>1. Missing(b) = restarts + 1 /\ Len0 = log.lines
      BY <2>1, <2>4, <2>7 DEF Missing
    <3>2. b - Missing(b) = x - 1
      BY <2>1, <2>2, <3>1
    <3>3. Reach(b) = appended - log.lines - log.lines * (x - 1) + 1
      BY <3>1, <3>2 DEF Reach
    <3>4. n >= Reach(log.backups)
      BY <1>4, <2>1, <2>3, <3>3
    <3> QED
      BY <2>5, <3>4
  <2> QED
    BY <2>6, <2>7
<1> QED
  BY <1>3, <1>4 DEF QueriesSeeLatest

(* A query that succeeds reads the latest records in the order they were   *)
(* appended, without a gap, and only the oldest are ever lost.             *)
THEOREM LatestSeen == Spec => []QueriesSeeLatest
  BY Invariance, LatestFollows, PTL

(* No two records of one event can be read, however often it is delivered. *)
THEOREM EventsOnce == Spec => []RecordedOnce
<1>1. IInv => RecordedOnce
  <2>1. SUFFICES ASSUME Once, log.once, NEW p \in Places, NEW q \in Places,
                        Decodes(LineAt(p)), Decodes(LineAt(q)), LineAt(p).about = LineAt(q).about
        PROVE  p = q
    BY DEF IInv, RecordedOnce
  <2>2. HasRecord(p[1], p[2]) /\ HasRecord(q[1], q[2]) /\ p = <<p[1], p[2]>>
        /\ q = <<q[1], q[2]>>
    BY <2>1 DEF Places, LineAt, HasRecord, HasLine
  <2> QED
    BY <2>1, <2>2 DEF Once, LineAt
<1> QED
  BY <1>1, Invariance, PTL

-----------------------------------------------------------------------------
(* Lists in order. *)

(* A strict order of all of S: which members come before each. *)
IsOrder(S, before) ==
  /\ before \in [S -> SUBSET S]
  /\ \A x \in S : x \notin before[x]
  /\ \A x, y \in S : x \in before[y] => before[x] \subseteq before[y]
  /\ \A x, y \in S : x # y => x \in before[y] \/ y \in before[x]

(* f lists S in that order. *)
IsListing(f, S, before) ==
  /\ Cardinality(S) \in Nat
  /\ f \in [1..Cardinality(S) -> S]
  /\ \A x \in S : \E n \in 1..Cardinality(S) : f[n] = x
  /\ \A m, n \in 1..Cardinality(S) : m < n => f[m] \in before[f[n]]

(* How many members come before one says where it is in the list. *)
LEMMA Ranked ==
  ASSUME NEW S, IsFiniteSet(S), NEW before, IsOrder(S, before)
  PROVE  /\ Cardinality(S) \in Nat
         /\ \A x \in S : Cardinality(before[x]) \in 0..(Cardinality(S) - 1)
         /\ \A x, y \in S : x \in before[y] => Cardinality(before[x]) < Cardinality(before[y])
         /\ \A x, y \in S : Cardinality(before[x]) = Cardinality(before[y]) => x = y
         /\ \A n \in 1..Cardinality(S) : \E x \in S : Cardinality(before[x]) = n - 1
<1> DEFINE m == Cardinality(S)
           rank == [x \in S |-> Cardinality(before[x]) + 1]
<1>1. m \in Nat
  BY FS_CardinalityType
<1>2. \A x \in S : before[x] \in SUBSET S /\ x \notin before[x]
  BY DEF IsOrder
<1>3. \A x \in S : IsFiniteSet(before[x]) /\ Cardinality(before[x]) \in 0..(m - 1)
  <2> SUFFICES ASSUME NEW x \in S
      PROVE  IsFiniteSet(before[x]) /\ Cardinality(before[x]) \in 0..(m - 1)
    OBVIOUS
  <2>1. IsFiniteSet(before[x]) /\ Cardinality(before[x]) <= m /\ Cardinality(before[x]) # m
    BY <1>2, FS_Subset
  <2> QED
    BY <1>1, <2>1, FS_CardinalityType
<1>4. ASSUME NEW x \in S, NEW y \in S, x \in before[y]
      PROVE  Cardinality(before[x]) < Cardinality(before[y])
  <2>1. before[x] \in SUBSET before[y] /\ x \notin before[x]
    BY <1>4 DEF IsOrder
  <2>2. /\ Cardinality(before[x]) <= Cardinality(before[y])
        /\ Cardinality(before[x]) # Cardinality(before[y])
    BY <1>3, <1>4, <2>1, FS_Subset
  <2>3. Cardinality(before[x]) \in Int /\ Cardinality(before[y]) \in Int
    BY <1>3
  <2> QED
    BY <2>2, <2>3
<1>5. ASSUME NEW x \in S, NEW y \in S, Cardinality(before[x]) = Cardinality(before[y]) PROVE x = y
  <2>1. ~(x \in before[y]) /\ ~(y \in before[x])
    <3>1. Cardinality(before[x]) \in Int /\ Cardinality(before[y]) \in Int
      BY <1>3
    <3> QED
      BY <1>4, <1>5, <3>1
  <2> QED
    BY <2>1 DEF IsOrder
<1>6. rank \in Injection(S, 1..m)
  <2>1. \A x \in S : rank[x] \in 1..m
    BY <1>1, <1>3
  <2>2. ASSUME NEW x \in S, NEW y \in S, rank[x] = rank[y] PROVE x = y
    <3>1. Cardinality(before[x]) \in Int /\ Cardinality(before[y]) \in Int
      BY <1>3
    <3>2. Cardinality(before[x]) = Cardinality(before[y])
      BY <2>2, <3>1
    <3> QED
      BY <1>5, <3>2
  <2> QED
    BY <2>1, <2>2 DEF Injection, IsInjective
<1>7. rank \in Surjection(S, 1..m)
  <2>1. IsFiniteSet(1..m) /\ Cardinality(1..m) = m
    <3> HIDE DEF m
    <3> QED
      BY <1>1, FS_Interval
  <2> QED
    BY <1>6, <2>1, FS_Injection
<1>8. ASSUME NEW n \in 1..m PROVE \E x \in S : Cardinality(before[x]) = n - 1
  <2>1. PICK x \in S : rank[x] = n
    BY <1>7 DEF Surjection
  <2>2. Cardinality(before[x]) \in Int /\ n \in Int
    BY <1>1, <1>3
  <2> QED
    BY <2>1, <2>2
<1> QED
  BY <1>1, <1>3, <1>4, <1>5, <1>8

(* f has the n-th where n - 1 come before it. *)
IsRanking(f, S, before) ==
  /\ f \in [1..Cardinality(S) -> S]
  /\ \A n \in 1..Cardinality(S) : Cardinality(before[f[n]]) = n - 1

LEMMA Listed ==
  ASSUME NEW S, IsFiniteSet(S), NEW before, IsOrder(S, before), NEW f, IsRanking(f, S, before)
  PROVE  IsListing(f, S, before)
<1>1. /\ Cardinality(S) \in Nat
      /\ \A x \in S : Cardinality(before[x]) \in 0..(Cardinality(S) - 1)
      /\ \A x, y \in S : x \in before[y] => Cardinality(before[x]) < Cardinality(before[y])
      /\ \A x, y \in S : Cardinality(before[x]) = Cardinality(before[y]) => x = y
  BY Ranked
<1>2. f \in [1..Cardinality(S) -> S] /\ \A n \in 1..Cardinality(S) : Cardinality(before[f[n]]) = n - 1
  BY DEF IsRanking
<1>3. ASSUME NEW x \in S PROVE \E n \in 1..Cardinality(S) : f[n] = x
  <2> DEFINE n == Cardinality(before[x]) + 1
  <2>1. n \in 1..Cardinality(S) /\ n - 1 = Cardinality(before[x])
    BY <1>1
  <2>2. f[n] \in S /\ Cardinality(before[f[n]]) = Cardinality(before[x])
    BY <1>2, <2>1
  <2>3. f[n] = x
    BY <1>1, <2>2
  <2> QED
    BY <2>1, <2>3
<1>4. ASSUME NEW m \in 1..Cardinality(S), NEW n \in 1..Cardinality(S), m < n
      PROVE  f[m] \in before[f[n]]
  <2>1. f[m] \in S /\ f[n] \in S /\ Cardinality(before[f[m]]) = m - 1
        /\ Cardinality(before[f[n]]) = n - 1 /\ m \in Int /\ n \in Int
    BY <1>1, <1>2
  <2>2. f[m] # f[n] /\ ~(f[n] \in before[f[m]])
    BY <1>1, <1>4, <2>1
  <2> QED
    BY <2>1, <2>2 DEF IsOrder
<1> QED
  BY <1>1, <1>2, <1>3, <1>4 DEF IsListing

-----------------------------------------------------------------------------
(* The lines as they are read. *)

ReadFirst == [p \in Places |-> {q \in Places : ReadBefore(q, p)}]

LEMMA PlacesOrdered ==
  ASSUME Types
  PROVE  /\ IsFiniteSet(Places) /\ IsOrder(Places, ReadFirst)
         /\ \A p \in Places : HasLine(p[1], p[2])
         /\ \A i, k : HasLine(i, k) => <<i, k>> \in Places
<1>1. /\ \A p \in Places : HasLine(p[1], p[2]) /\ p = <<p[1], p[2]>>
      /\ \A i, k : HasLine(i, k) => <<i, k>> \in Places
  BY DEF Places, HasLine
<1>2. \A i, k : HasLine(i, k) => i \in Nat /\ k \in Nat
  BY Sizes DEF Types, HasLine
<1>3. IsFiniteSet(Places)
  <2>1. log.backups \in Nat
    BY Sizes
  <2>2. IsFiniteSet(0..log.backups)
    <3> DEFINE zero == 0
    <3>1. zero \in Int /\ log.backups \in Int
      BY <2>1
    <3> HIDE DEF zero
    <3>2. IsFiniteSet(zero..log.backups)
      BY <3>1, FS_Interval
    <3> QED
      BY <3>2 DEF zero
  <2>3. IsFiniteSet(DOMAIN files)
    BY <2>2, FS_Subset DEF Types
  <2> DEFINE Of(i) == {i} \X DOMAIN files[i]
  <2>4. \A i \in DOMAIN files : IsFiniteSet(Of(i))
    <3> SUFFICES ASSUME NEW i \in DOMAIN files PROVE IsFiniteSet(Of(i))
      OBVIOUS
    <3>1. DOMAIN files[i] = 1..Len(files[i]) /\ Len(files[i]) \in Nat
      BY DEF Types
    <3>2. IsFiniteSet(1..Len(files[i]))
      <4> DEFINE one == 1
      <4>1. one \in Int /\ Len(files[i]) \in Int
        BY <3>1
      <4> HIDE DEF one
      <4>2. IsFiniteSet(one..Len(files[i]))
        BY <4>1, FS_Interval
      <4> QED
        BY <4>2 DEF one
    <3>3. IsFiniteSet({i})
      BY FS_Singleton
    <3> QED
      BY <3>1, <3>2, <3>3, FS_Product
  <2> DEFINE all == {Of(i) : i \in DOMAIN files}
  <2>5. IsFiniteSet(all)
    <3> DEFINE f == [i \in DOMAIN files |-> Of(i)]
    <3>1. f \in Surjection(DOMAIN files, all)
      <4> HIDE DEF Of
      <4> QED
        BY DEF Surjection
    <3> HIDE DEF f, all
    <3> QED
      BY <2>3, <3>1, FS_Surjection
  <2>6. \A T \in all : IsFiniteSet(T)
    BY <2>4
  <2>7. Places = UNION all
    BY DEF Places
  <2> HIDE DEF all
  <2> QED
    BY <2>5, <2>6, <2>7, FS_UNION
<1>4. \A p, q \in Places : p # q => ReadBefore(p, q) \/ ReadBefore(q, p)
  BY <1>1, <1>2 DEF ReadBefore
<1>5. \A p \in Places : ~ReadBefore(p, p)
  BY <1>1, <1>2 DEF ReadBefore
<1>6. \A p, q, r \in Places : ReadBefore(p, q) /\ ReadBefore(q, r) => ReadBefore(p, r)
  BY <1>1, <1>2 DEF ReadBefore
<1>7. IsOrder(Places, ReadFirst)
  BY <1>4, <1>5, <1>6 DEF IsOrder, ReadFirst
<1> QED
  BY <1>1, <1>3, <1>7

LEMMA Reading ==
  ASSUME Types, Ordered
  PROVE  /\ Lines \in Seq(AnyLine)
         /\ \A n \in DOMAIN Lines : \E i, k : HasLine(i, k) /\ Lines[n] = files[i][k]
         /\ \A i, k : HasLine(i, k) => \E n \in DOMAIN Lines : Lines[n] = files[i][k]
         /\ \A m, n \in DOMAIN Lines : m < n /\ Decodes(Lines[m]) /\ Decodes(Lines[n]) =>
              Lines[m].seq < Lines[n].seq
<1> DEFINE count == Cardinality(Places)
           read == InOrder(Places, ReadBefore)
<1>1. /\ IsFiniteSet(Places) /\ IsOrder(Places, ReadFirst)
      /\ \A p \in Places : HasLine(p[1], p[2])
      /\ \A i, k : HasLine(i, k) => <<i, k>> \in Places
  BY PlacesOrdered
<1>2. \A p \in Places : {q \in Places : ReadBefore(q, p)} = ReadFirst[p]
  BY DEF ReadFirst
<1>3. count \in Nat /\ \A n \in 1..count : \E p \in Places : Cardinality(ReadFirst[p]) = n - 1
  BY <1>1, Ranked
<1>4. DOMAIN read = 1..count
  BY DEF InOrder
<1>5. ASSUME NEW n \in 1..count
      PROVE  read[n] \in Places /\ Cardinality(ReadFirst[read[n]]) = n - 1
  <2>1. \E p \in Places : Cardinality({q \in Places : ReadBefore(q, p)}) = n - 1
    BY <1>2, <1>3
  <2>2. read[n] = CHOOSE p \in Places : Cardinality({q \in Places : ReadBefore(q, p)}) = n - 1
    BY DEF InOrder
  <2>3. read[n] \in Places /\ Cardinality({q \in Places : ReadBefore(q, read[n])}) = n - 1
    BY <2>1, <2>2
  <2> QED
    BY <1>2, <2>3
<1>6. read = [n \in 1..count |-> read[n]]
  <2> DEFINE place(n) == CHOOSE p \in Places : Cardinality({q \in Places : ReadBefore(q, p)}) = n - 1
  <2>1. read = [n \in 1..count |-> place(n)]
    BY Zenon DEF InOrder
  <2> HIDE DEF place, read, count
  <2> QED
    BY <2>1
<1>7. Lines = [n \in 1..count |-> LineAt(read[n])]
  BY <1>4 DEF Lines
<1> HIDE DEF read
<1>8. IsListing(read, Places, ReadFirst)
  <2>1. IsRanking(read, Places, ReadFirst)
    BY <1>5, <1>6 DEF IsRanking
  <2> QED
    BY <1>1, <2>1, Listed
<1>9. \A i, k : HasLine(i, k) => files[i][k] \in AnyLine
  <2> SUFFICES ASSUME NEW i, NEW k, HasLine(i, k) PROVE files[i][k] \in AnyLine
    OBVIOUS
  <2>1. files[i] \in Seq(AnyLine) /\ k \in 1..Len(files[i])
    BY DEF Types, HasLine
  <2> QED
    BY <2>1, ElementOfSeq
<1>10. \A n \in 1..count : Lines[n] = files[read[n][1]][read[n][2]] /\ HasLine(read[n][1], read[n][2])
  BY <1>1, <1>5, <1>7 DEF LineAt
<1>11. Lines \in Seq(AnyLine) /\ DOMAIN Lines = 1..count
  <2>1. \A n \in 1..count : LineAt(read[n]) \in AnyLine
    BY <1>1, <1>5, <1>9 DEF LineAt
  <2>2. Lines \in [1..count -> AnyLine]
    BY <1>7, <2>1
  <2> HIDE DEF count
  <2> QED
    BY <1>3, <2>2, SeqDef
<1>12. ASSUME NEW i, NEW k, HasLine(i, k) PROVE \E n \in 1..count : Lines[n] = files[i][k]
  <2>1. PICK n \in 1..count : read[n] = <<i, k>>
    BY <1>1, <1>8, <1>12 DEF IsListing
  <2> QED
    BY <1>10, <2>1
<1>13. ASSUME NEW m \in 1..count, NEW n \in 1..count, m < n, Decodes(Lines[m]), Decodes(Lines[n])
       PROVE  Lines[m].seq < Lines[n].seq
  <2>1. read[m] \in ReadFirst[read[n]] /\ read[n] \in Places
    BY <1>5, <1>8, <1>13 DEF IsListing
  <2>2. ReadBefore(read[m], read[n])
    BY <2>1 DEF ReadFirst
  <2>3. HasRecord(read[m][1], read[m][2]) /\ HasRecord(read[n][1], read[n][2])
    BY <1>10, <1>13 DEF HasRecord
  <2> QED
    BY <1>10, <2>2, <2>3 DEF Ordered, Before, ReadBefore
<1> QED
  BY <1>10, <1>11, <1>12, <1>13

-----------------------------------------------------------------------------
(* What records are about, and when. *)

Content(l) == l.about \in log.records /\ l.at \in (l.seq - log.skew)..l.seq /\ l.seq >= 1

(* A record says what one of this log may, and its time is out of order by *)
(* no more than the skew.                                                  *)
Contents ==
  /\ \A i, k : HasRecord(i, k) => Content(files[i][k])
  /\ pc # "idle" => Content(line)

(* Steps that write nothing keep it. *)
LEMMA ContentsMoved ==
  ASSUME Contents, log' = log,
         \A i \in DOMAIN files' : files'[i] = << >> \/ \E j \in DOMAIN files : files'[i] = files[j],
         pc' # "idle" => (pc # "idle" /\ line' = line) \/ Content(line')
  PROVE  Contents'
<1>1. ASSUME NEW i, NEW k, HasRecord(i, k)' PROVE Content(files[i][k])'
  <2>1. i \in DOMAIN files' /\ k \in DOMAIN files'[i] /\ files'[i] # << >>
    BY <1>1 DEF HasRecord, HasLine
  <2>2. PICK j \in DOMAIN files : files'[i] = files[j]
    BY <2>1
  <2>3. HasRecord(j, k) /\ files'[i][k] = files[j][k]
    BY <1>1, <2>1, <2>2 DEF HasRecord, HasLine, Decodes
  <2> QED
    BY <2>3 DEF Contents, Content
<1> QED
  BY <1>1 DEF Contents, Content

(* Of the lines after a write only the last may be new. *)
LEMMA LinesAfterWrite ==
  ASSUME Types, 0 \in DOMAIN files, NEW new \in AnyLine, NEW glued \in AnyLine,
         files' = [files EXCEPT ![0] = WithLine(@, new, glued)]
  PROVE  \A i, k : HasLine(i, k)' =>
           (HasLine(i, k) /\ files'[i][k] = files[i][k]) \/ files'[i][k] = new \/ files'[i][k] = glued
<1> SUFFICES ASSUME NEW i, NEW k, HasLine(i, k)'
    PROVE  (HasLine(i, k) /\ files'[i][k] = files[i][k]) \/ files'[i][k] = new \/ files'[i][k] = glued
  OBVIOUS
<1>1. i \in DOMAIN files /\ k \in DOMAIN files'[i]
  BY DEF HasLine
<1>2. CASE i # 0
  BY <1>1, <1>2 DEF HasLine
<1>3. CASE i = 0
  <2>1. files[0] \in Seq(AnyLine) /\ files'[0] = WithLine(files[0], new, glued)
    BY DEF Types
  <2>2. files'[0] \in Seq(AnyLine) /\ (OneMore(files[0], new, files'[0]) \/ LastGlued(files[0], glued, files'[0]))
    BY <2>1, LineAdded
  <2>3. /\ k \in 1..Len(files'[0]) /\ Len(files'[0]) \in Nat /\ Len(files[0]) \in Nat
        /\ DOMAIN files[0] = 1..Len(files[0])
    BY <1>1, <1>3, <2>1, <2>2
  <2> QED
    BY <1>1, <1>3, <2>2, <2>3 DEF OneMore, LastGlued, HasLine
<1> QED
  BY <1>2, <1>3

LEMMA LineTypes == Torn \in AnyLine /\ Garbled \in AnyLine /\ ~Decodes(Torn) /\ ~Decodes(Garbled)
  BY DEF Torn, Garbled, LineOf, AnyLine, Decodes

LEMMA ContentsKept ==
  ASSUME IInv, Contents, [Next]_vars
  PROVE  Contents'
<1>1. Types /\ Staged
  BY DEF IInv
<1>2. SizeAssumption /\ log \in Logs /\ log.skew \in Nat /\ appended \in Nat
  BY <1>1, SizeAssumption DEF Types
<1>3. ASSUME NEW about \in log.records, NEW late \in 0..log.skew, BeginAppend(about, appended + 1 - late)
      PROVE  Contents'
  <2>1. Content(line')
    BY <1>2, <1>3 DEF BeginAppend, LineOf, Content
  <2> QED
    BY <1>3, <2>1, ContentsMoved DEF BeginAppend
<1>4. ASSUME Write \/ WriteFails PROVE Contents'
  <2>1. /\ pc = "write" /\ pc' = "idle" /\ log' = log /\ Content(line) /\ 0 \in DOMAIN files
        /\ line \in AnyLine /\ line.kind = "whole"
    BY <1>1, <1>4 DEF Write, WriteFails, Goto, Contents, Staged
  <2> DEFINE open == [line EXCEPT !.kind = "open"]
  <2>2. open \in AnyLine /\ Content(open)
    BY <2>1 DEF AnyLine, Content
  <2>3. ASSUME NEW i, NEW k, HasRecord(i, k)' PROVE Content(files'[i][k])
    <3> HIDE DEF open
    <3>1. HasLine(i, k)' /\ Decodes(files'[i][k])
      BY <2>3 DEF HasRecord, Decodes
    <3>2. HasLine(i, k) /\ files'[i][k] = files[i][k] => Content(files'[i][k])
      BY <3>1 DEF HasRecord, Contents
    <3>3. CASE files' = files
      BY <3>1, <3>2, <3>3 DEF HasLine
    <3>4. CASE files' = [files EXCEPT ![0] = WithLine(@, line, Garbled)]
      <4>1. line \in AnyLine /\ Garbled \in AnyLine
        BY <2>1, LineTypes
      <4>2. \A m, n : HasLine(m, n)' =>
              (HasLine(m, n) /\ files'[m][n] = files[m][n]) \/ files'[m][n] = line \/ files'[m][n] = Garbled
        BY <1>1, <2>1, <3>4, <4>1, LinesAfterWrite
      <4> QED
        BY <2>1, <3>1, <3>2, <4>2 DEF Decodes, Content, Torn, Garbled, LineOf
    <3>5. CASE files' = [files EXCEPT ![0] = WithLine(@, Torn, Torn)]
      <4>1. Torn \in AnyLine /\ Torn \in AnyLine
        BY <2>1, LineTypes
      <4>2. \A m, n : HasLine(m, n)' =>
              (HasLine(m, n) /\ files'[m][n] = files[m][n]) \/ files'[m][n] = Torn \/ files'[m][n] = Torn
        BY <1>1, <2>1, <3>5, <4>1, LinesAfterWrite
      <4> QED
        BY <2>1, <3>1, <3>2, <4>2 DEF Decodes, Content, Torn, Garbled, LineOf
    <3>6. CASE files' = [files EXCEPT ![0] = WithLine(@, open, Torn)]
      <4>1. open \in AnyLine /\ Torn \in AnyLine
        BY <2>1, <2>2, LineTypes
      <4>2. \A m, n : HasLine(m, n)' =>
              (HasLine(m, n) /\ files'[m][n] = files[m][n]) \/ files'[m][n] = open \/ files'[m][n] = Torn
        BY <1>1, <2>1, <3>6, <4>1, LinesAfterWrite
      <4> QED
        BY <2>1, <2>2, <3>1, <3>2, <4>2 DEF Decodes, Content, Torn, Garbled, LineOf
    <3> QED
      BY <1>4, <3>3, <3>4, <3>5, <3>6 DEF Write, WriteFails, open
  <2> QED
    BY <2>1, <2>3 DEF Contents, Content
<1>5. CASE RemoveOldest
  BY <1>5, ContentsMoved DEF RemoveOldest, Goto
<1>6. CASE ShiftBackup
  BY <1>6, ContentsMoved DEF ShiftBackup, Goto, Shifted, Renamed
<1>7. CASE MoveCurrent
  BY <1>7, ContentsMoved DEF MoveCurrent, Goto, Renamed
<1>8. CASE Reopen
  <2>1. \A i \in DOMAIN files' : files'[i] = << >> \/ \E j \in DOMAIN files : files'[i] = files[j]
    BY <1>8 DEF Reopen, Opened, LinesOf
  <2> QED
    BY <1>8, <2>1, ContentsMoved DEF Reopen, Goto
<1>9. CASE RotationFails
  BY <1>9, ContentsMoved DEF RotationFails
<1>10. CASE Restart
  <2>1. \A i \in DOMAIN files' : files'[i] = << >> \/ \E j \in DOMAIN files : files'[i] = files[j]
    BY <1>10 DEF Restart, Opened, LinesOf
  <2> QED
    BY <1>10, <2>1, ContentsMoved DEF Restart
<1>11. CASE UNCHANGED vars
  BY <1>11, ContentsMoved DEF vars
<1> QED
  BY <1>3, <1>4, <1>5, <1>6, <1>7, <1>8, <1>9, <1>10, <1>11 DEF Next

LEMMA ContentsAlways == Spec => [](IInv /\ Contents)
<1>1. Init => Contents
  BY DEF Init, Contents, HasRecord, HasLine
<1> QED
  BY <1>1, Invariance, ContentsKept, PTL DEF Spec

-----------------------------------------------------------------------------
(* What the lists show. *)

(* One of a set comes last. *)
LEMMA LastOne ==
  ASSUME NEW S, IsFiniteSet(S), S # {}, NEW before, IsOrder(S, before)
  PROVE  \E x \in S : before[x] = S \ {x}
<1>1. PICK m \in Nat : m = Cardinality(S) /\ m # 0
  BY FS_CardinalityType, FS_EmptySet
<1>2. \A n \in 1..m : \E x \in S : Cardinality(before[x]) = n - 1
  BY <1>1, Ranked
<1>3. PICK x \in S : Cardinality(before[x]) = m - 1
  BY <1>1, <1>2
<1>4. before[x] \in SUBSET (S \ {x})
  BY DEF IsOrder
<1>5. IsFiniteSet(S \ {x}) /\ Cardinality(S \ {x}) = m - 1
  BY <1>1, FS_RemoveElement
<1> QED
  BY <1>3, <1>4, <1>5, FS_Subset

(* The largest of some numbers is one of them. *)
LEMMA Largest ==
  ASSUME NEW S, IsFiniteSet(S), S \subseteq Int, S # {}
  PROVE  Max(S) \in S /\ \A i \in S : i <= Max(S)
<1>1. PICK before : before = [x \in S |-> {y \in S : y < x}]
  OBVIOUS
<1>2. /\ before \in [S -> SUBSET S]
      /\ \A x, y \in S : y \in before[x] <=> y < x
  BY <1>1
<1>3. IsOrder(S, before)
  <2>1. \A x, y, z \in S : /\ ~(x < x) /\ (x # y => x < y \/ y < x)
                           /\ (x < y /\ y < z => x < z)
    OBVIOUS
  <2>2. \A x, y \in S : x \in before[y] => before[x] \subseteq before[y]
    BY <1>2, <2>1
  <2> QED
    BY <1>2, <2>1, <2>2 DEF IsOrder
<1>4. PICK x \in S : before[x] = S \ {x}
  BY <1>3, LastOne
<1>5. \A i \in S : x >= i
  BY <1>2, <1>4
<1>6. \E y \in S : \A i \in S : y >= i
  BY <1>5
<1>7. Max(S) \in S /\ \A i \in S : Max(S) >= i
  BY <1>6 DEF Max
<1> QED
  BY <1>7

(* The list holds the first n of the m that f lists, and all unless there *)
(* are more than the limit.                                                *)
IsCut(list, n, f, m, S, limit) ==
  /\ n \in 0..m /\ list \in Seq(S) /\ Len(list) = n
  /\ \A i \in 1..n : list[i] = f[i]
  /\ n # m => n = limit

(* A list that is cut off, or not. *)
LEMMA Cut ==
  ASSUME NEW S, NEW m \in Nat, NEW f \in [1..m -> S], NEW limit \in Nat \ {0}
  PROVE  \E n \in Nat : IsCut(Truncated(f, limit), n, f, m, S, limit)
<1> DEFINE n == IF m > limit THEN limit ELSE m
<1>1. n \in 0..m /\ n \in Nat /\ (n # m => n = limit)
  OBVIOUS
<1>2. f \in Seq(S) /\ Len(f) = m
  BY SeqDef
<1>3. Truncated(f, limit) = SubSeq(f, 1, n)
  BY <1>2 DEF Truncated
<1>4. PICK list : list = Truncated(f, limit)
  OBVIOUS
<1>5. list \in Seq(S) /\ Len(list) = n /\ \A i \in 1..n : list[i] = f[i]
  <2> DEFINE one == 1
  <2>1. one \in 1..(Len(f) + 1) /\ n \in (one - 1)..Len(f) /\ n - one + 1 = n
        /\ \A i \in 1..n : one + i - 1 = i
    BY <1>1, <1>2
  <2>2. list = SubSeq(f, one, n)
    BY <1>3, <1>4
  <2> HIDE DEF one, n
  <2> QED
    BY <1>2, <2>1, <2>2, SubSeqProperties
<1>6. IsCut(list, n, f, m, S, limit)
  BY <1>1, <1>5 DEF IsCut
<1> HIDE DEF n
<1> QED
  BY <1>1, <1>4, <1>6

(* The list holds the first of S, and all unless it is full. *)
HoldsFirst(list, S, before, limit) ==
  /\ Range(list) \subseteq S /\ IsInjective(list)
  /\ \A i, j \in DOMAIN list : i < j => list[i] \in before[list[j]]
  /\ \A l \in S \ Range(list) : Len(list) = limit /\ \A i \in DOMAIN list : list[i] \in before[l]

LEMMA FirstOf ==
  ASSUME NEW S, IsFiniteSet(S), NEW before, IsOrder(S, before),
         NEW f, IsRanking(f, S, before), NEW limit \in Nat \ {0}
  PROVE  HoldsFirst(Truncated(f, limit), S, before, limit)
<1> DEFINE list == Truncated(f, limit)
<1> HIDE DEF list
<1>1. IsListing(f, S, before)
  BY Listed DEF IsRanking
<1>2. PICK m \in Nat : m = Cardinality(S)
  BY <1>1 DEF IsListing
<1>3. /\ f \in [1..m -> S]
      /\ \A x \in S : \E n \in 1..m : f[n] = x
      /\ \A i, j \in 1..m : i < j => f[i] \in before[f[j]]
  BY <1>1, <1>2 DEF IsListing
<1>4. ASSUME NEW i \in 1..m, NEW j \in 1..m, f[i] = f[j] PROVE i = j
  <2>1. i - 1 = j - 1 /\ i \in Int /\ j \in Int
    BY <1>2, <1>4 DEF IsRanking
  <2> QED
    BY <2>1
<1>5. PICK n \in Nat : IsCut(list, n, f, m, S, limit)
  BY <1>2, <1>3, Cut DEF list
<1>6. /\ n \in 0..m /\ list \in Seq(S) /\ Len(list) = n
      /\ \A i \in 1..n : list[i] = f[i]
      /\ n # m => n = limit
  BY <1>5 DEF IsCut
<1>7. DOMAIN list = 1..n /\ n \in Nat
  BY <1>2, <1>6
<1>8. \A i \in DOMAIN list : list[i] = f[i] /\ i \in 1..m /\ i \in Int
  BY <1>2, <1>6, <1>7
<1>9. Range(list) \subseteq S /\ IsInjective(list)
  <2>1. \A i, j \in DOMAIN list : list[i] = list[j] => i = j
    <3> SUFFICES ASSUME NEW i \in DOMAIN list, NEW j \in DOMAIN list, list[i] = list[j] PROVE i = j
      OBVIOUS
    <3>1. i \in 1..m /\ j \in 1..m /\ f[i] = f[j]
      BY <1>8
    <3> QED
      BY <1>4, <3>1
  <2>2. \A i \in DOMAIN list : list[i] \in S
    BY <1>3, <1>8
  <2> QED
    BY <2>1, <2>2 DEF Range, IsInjective
<1>10. \A i, j \in DOMAIN list : i < j => list[i] \in before[list[j]]
  <2> SUFFICES ASSUME NEW i \in DOMAIN list, NEW j \in DOMAIN list, i < j
      PROVE  list[i] \in before[list[j]]
    OBVIOUS
  <2>1. i \in 1..m /\ j \in 1..m /\ list[i] = f[i] /\ list[j] = f[j]
    BY <1>8
  <2> QED
    BY <1>3, <2>1
<1>11. ASSUME NEW l \in S \ Range(list) PROVE Len(list) = limit /\ \A i \in DOMAIN list : list[i] \in before[l]
  <2>1. PICK j \in (n + 1)..m : f[j] = l
    <3>1. PICK j \in 1..m : f[j] = l
      BY <1>3
    <3>2. j \notin 1..n
      BY <1>6, <1>7, <3>1 DEF Range
    <3> QED
      BY <1>2, <1>7, <3>1, <3>2
  <2>2. ASSUME NEW i \in DOMAIN list PROVE list[i] \in before[l]
    <3>1. i \in 1..m /\ j \in 1..m /\ i < j /\ list[i] = f[i]
      BY <1>2, <1>6, <1>7, <2>1
    <3> QED
      BY <1>3, <2>1, <3>1
  <2>3. n = limit
    BY <1>2, <1>6, <1>7, <2>1
  <2> QED
    BY <1>6, <2>2, <2>3
<1> QED
  BY <1>9, <1>10, <1>11 DEF HoldsFirst, list

(* When nothing is damaged, the lines are records of this log in the order *)
(* they were appended.                                                     *)
Sound(n) ==
  /\ n \in Nat /\ Len(Lines) = n /\ DOMAIN Lines = 1..n
  /\ \A k \in 1..n : /\ Lines[k].about \in log.records
                     /\ Lines[k].seq \in Nat /\ Lines[k].at \in Int
  /\ \A j, k \in 1..n : j < k => Lines[j].seq < Lines[k].seq

LEMMA Undamaged ==
  ASSUME Types, Ordered, Contents, ~Damaged
  PROVE  \E n : Sound(n)
<1>1. /\ Lines \in Seq(AnyLine)
      /\ \A n \in DOMAIN Lines : \E i, k : HasLine(i, k) /\ Lines[n] = files[i][k]
      /\ \A m, n \in DOMAIN Lines : m < n /\ Decodes(Lines[m]) /\ Decodes(Lines[n]) =>
           Lines[m].seq < Lines[n].seq
  BY Reading
<1>2. PICK n \in Nat : Len(Lines) = n /\ DOMAIN Lines = 1..n
  BY <1>1
<1>3. ASSUME NEW m \in 1..n
      PROVE  Decodes(Lines[m]) /\ Lines[m].about \in log.records /\ Lines[m].seq \in Nat /\ Lines[m].at \in Int
  <2>1. PICK i, k : HasLine(i, k) /\ Lines[m] = files[i][k]
    BY <1>1, <1>2
  <2>2. <<i, k>> \in Places
    BY <2>1, PlacesOrdered
  <2>3. Decodes(files[i][k])
    BY <2>2 DEF Damaged, LineAt
  <2>4. files[i][k].about \in log.records
    BY <2>1, <2>3 DEF Contents, Content, HasRecord
  <2>5. Lines[m] \in AnyLine
    BY <1>1, <1>2, ElementOfSeq
  <2> QED
    BY <2>1, <2>3, <2>4, <2>5 DEF AnyLine
<1>4. Sound(n)
  BY <1>1, <1>2, <1>3 DEF Sound
<1> QED
  BY <1>4

(* The last lines of an app's messages, which are what their statuses show. *)
LatestOf(app) ==
  {k \in DOMAIN Lines : /\ Lines[k].about.app = app
                        /\ \A j \in DOMAIN Lines : OfMessage(Lines[j], app, Lines[k].about.message) => j <= k}

Latest(app) == {Lines[k] : k \in LatestOf(app)}

(* The status of a message shows its last line. *)
LEMMA StatusShows ==
  ASSUME ~Damaged, NEW n, Sound(n), NEW app, NEW m
  PROVE  \/ /\ Range(MessageStatus(app, m).found) = {}
            /\ \A k \in 1..n : ~OfMessage(Lines[k], app, m)
         \/ \E k \in 1..n :
              /\ Range(MessageStatus(app, m).found) = {Lines[k]}
              /\ OfMessage(Lines[k], app, m)
              /\ \A j \in 1..n : OfMessage(Lines[j], app, m) => j <= k
<1> DEFINE matching == {k \in 1..n : OfMessage(Lines[k], app, m)}
           last == SelectLastInSeq(Lines, LAMBDA l : OfMessage(l, app, m))
<1>1. last = IF matching # {} THEN Max(matching) ELSE 0
  BY DEF SelectLastInSeq, Sound
<1>2. MessageStatus(app, m).found = IF last = 0 THEN << >> ELSE <<Lines[last]>>
  <2>1. FindLatestMessage(app, m) = IF last = 0 THEN << >> ELSE <<Lines[last]>>
    BY DEF FindLatestMessage
  <2> HIDE DEF last
  <2>2. last # 0 => FindLatestMessage(app, m) # << >>
    BY <2>1
  <2> QED
    BY <2>1, <2>2 DEF MessageStatus, Unless, Found, Refused
<1>3. IsFiniteSet(matching) /\ matching \subseteq 1..n
  <2> DEFINE one == 1
  <2>1. one \in Int /\ n \in Int
    BY DEF Sound
  <2> HIDE DEF one
  <2>2. IsFiniteSet(one..n)
    BY <2>1, FS_Interval
  <2>3. matching \in SUBSET (one..n)
    BY DEF one
  <2> HIDE DEF matching
  <2> QED
    BY <2>2, <2>3, FS_Subset DEF one
<1> HIDE DEF last
<1>4. CASE matching = {}
  <2>1. MessageStatus(app, m).found = << >>
    BY <1>1, <1>2, <1>4
  <2>2. Range(MessageStatus(app, m).found) = {}
    BY <2>1 DEF Range
  <2> QED
    BY <1>4, <2>2
<1>5. CASE matching # {}
  <2>1. Max(matching) \in matching /\ \A i \in matching : i <= Max(matching)
    <3>1. matching \subseteq Int
      BY DEF Sound
    <3> HIDE DEF matching
    <3> QED
      BY <1>3, <1>5, <3>1, Largest
  <2>2. last \in matching /\ \A i \in matching : i <= last
    BY <1>1, <1>5, <2>1
  <2>3. last # 0
    BY <2>2 DEF Sound
  <2>4. Range(MessageStatus(app, m).found) = {Lines[last]}
    BY <1>2, <2>3 DEF Range
  <2> QED
    BY <2>2, <2>4
<1> QED
  BY <1>4, <1>5

LEMMA StatusesShow ==
  ASSUME ~Damaged, NEW n, Sound(n), NEW app
  PROVE  UNION {Range(MessageStatus(app, m).found) : m \in MessageNumbers} = Latest(app)
<1> DEFINE shown == UNION {Range(MessageStatus(app, m).found) : m \in MessageNumbers}
<1>1. MessageNumbers = {Lines[k].about.message : k \in 1..n}
  BY DEF MessageNumbers, Range, Sound
<1>2. ASSUME NEW l \in shown PROVE l \in Latest(app)
  <2>1. PICK m \in MessageNumbers : l \in Range(MessageStatus(app, m).found)
    OBVIOUS
  <2>2. PICK k \in 1..n :
          /\ Range(MessageStatus(app, m).found) = {Lines[k]}
          /\ OfMessage(Lines[k], app, m)
          /\ \A j \in 1..n : OfMessage(Lines[j], app, m) => j <= k
    BY <2>1, StatusShows
  <2>3. l = Lines[k] /\ k \in LatestOf(app)
    BY <2>1, <2>2 DEF LatestOf, OfMessage, Sound
  <2> QED
    BY <2>3 DEF Latest
<1>3. ASSUME NEW k \in LatestOf(app) PROVE Lines[k] \in shown
  <2> DEFINE m == Lines[k].about.message
  <2>1. k \in 1..n /\ OfMessage(Lines[k], app, m) /\ m \in MessageNumbers
        /\ \A j \in 1..n : OfMessage(Lines[j], app, m) => j <= k
    BY <1>1, <1>3 DEF LatestOf, OfMessage, Sound
  <2> HIDE DEF m
  <2>2. PICK i \in 1..n :
          /\ Range(MessageStatus(app, m).found) = {Lines[i]}
          /\ OfMessage(Lines[i], app, m)
          /\ \A j \in 1..n : OfMessage(Lines[j], app, m) => j <= i
    BY <2>1, StatusShows
  <2>3. i <= k /\ k <= i /\ i \in Int /\ k \in Int
    BY <2>1, <2>2 DEF Sound
  <2>4. i = k
    BY <2>3
  <2> QED
    BY <2>1, <2>2, <2>4
<1> HIDE DEF shown
<1>4. shown = Latest(app)
  BY <1>2, <1>3 DEF Latest
<1> QED
  BY <1>4 DEF shown

IsPassing(passing, app, filter) == passing = {l \in Latest(app) : PassesFilter(l, filter)}

(* The lists of messages are the first of the latest that pass, newest     *)
(* first.                                                                  *)
LEMMA NewestMessages ==
  ASSUME NEW n, Sound(n), log \in Logs, log.name = "messages", NEW app,
         NEW filter, filter.limit \in Nat \ {0},
         NEW list, list = ListLatestMessages(app, filter),
         NEW passing, IsPassing(passing, app, filter)
  PROVE  /\ Range(list) \subseteq passing /\ IsInjective(list)
         /\ \A i, j \in DOMAIN list : i < j => ~NewerMessage(list[j], list[i])
         /\ \A l \in passing \ Range(list) :
              Len(list) = filter.limit /\ \A i \in DOMAIN list : ~NewerMessage(l, list[i])
<1>1. passing = LatestPassing(app, filter)
  BY DEF IsPassing, LatestPassing, Latest, LatestOf
<1>2. \A l \in passing : l.at \in Int /\ l.about.message \in Int
  <2>1. \A k \in 1..n : Lines[k].at \in Int /\ Lines[k].about.message \in Int
    BY IDsAssumption DEF Sound
  <2> QED
    BY <2>1 DEF IsPassing, Latest, LatestOf, Sound
<1>3. \A l, m \in passing : l # m => l.about.message # m.about.message
  <2> SUFFICES ASSUME NEW j \in LatestOf(app), NEW k \in LatestOf(app),
                      Lines[j].about.message = Lines[k].about.message
      PROVE  j = k
    BY DEF IsPassing, Latest
  <2>1. j <= k /\ k <= j /\ j \in Int /\ k \in Int
    BY DEF LatestOf, OfMessage, Sound
  <2> QED
    BY <2>1
<1>4. IsFiniteSet(passing)
  <2> DEFINE one == 1
  <2>1. one \in Int /\ n \in Int /\ one..n = DOMAIN Lines
    BY DEF Sound
  <2> HIDE DEF one
  <2>2. IsFiniteSet(DOMAIN Lines)
    BY <2>1, FS_Interval
  <2>3. [k \in DOMAIN Lines |-> Lines[k]] \in Surjection(DOMAIN Lines, Range(Lines))
    BY DEF Surjection, Range
  <2>4. IsFiniteSet(Range(Lines))
    BY <2>2, <2>3, FS_Surjection
  <2>5. passing \in SUBSET Range(Lines)
    BY DEF IsPassing, Latest, LatestOf, Range
  <2> QED
    BY <2>4, <2>5, FS_Subset
<1>5. PICK before : before = [l \in passing |-> {m \in passing : NewerMessage(m, l)}]
  OBVIOUS
<1>6. IsOrder(passing, before)
  <2>1. \A l, m, o \in passing :
          /\ ~NewerMessage(l, l)
          /\ l # m => NewerMessage(l, m) \/ NewerMessage(m, l)
          /\ NewerMessage(l, m) /\ NewerMessage(m, o) => NewerMessage(l, o)
    BY <1>2, <1>3 DEF NewerMessage
  <2>2. /\ before \in [passing -> SUBSET passing]
        /\ \A l, m \in passing : m \in before[l] <=> NewerMessage(m, l)
    BY <1>5
  <2>3. \A l, m \in passing : l \in before[m] => before[l] \subseteq before[m]
    BY <2>1, <2>2
  <2> QED
    BY <2>1, <2>2, <2>3 DEF IsOrder
<1> DEFINE sorted == InOrder(passing, NewerMessage)
           count == Cardinality(passing)
<1>7. \A p \in passing : {q \in passing : NewerMessage(q, p)} = before[p]
  BY <1>5
<1>8. count \in Nat /\ \A k \in 1..count : \E p \in passing : Cardinality(before[p]) = k - 1
  BY ONLY <1>4, <1>6, Ranked
<1>9. ASSUME NEW k \in 1..count
      PROVE  sorted[k] \in passing /\ Cardinality(before[sorted[k]]) = k - 1
  <2>1. \E p \in passing : Cardinality({q \in passing : NewerMessage(q, p)}) = k - 1
    BY <1>7, <1>8
  <2>2. sorted[k] = CHOOSE p \in passing : Cardinality({q \in passing : NewerMessage(q, p)}) = k - 1
    BY DEF InOrder
  <2>3. sorted[k] \in passing /\ Cardinality({q \in passing : NewerMessage(q, sorted[k])}) = k - 1
    BY <2>1, <2>2
  <2> QED
    BY <1>7, <2>3
<1>10. sorted = [k \in 1..count |-> sorted[k]]
  BY DEF InOrder
<1>11. list = Truncated(sorted, filter.limit)
  BY <1>1 DEF ListLatestMessages
<1> HIDE DEF sorted
<1>12. sorted \in [1..count -> passing]
  BY <1>9, <1>10
<1>13. PICK limit \in Nat \ {0} : limit = filter.limit
  OBVIOUS
<1>14. HoldsFirst(list, passing, before, limit)
  <2>1. IsRanking(sorted, passing, before)
    BY <1>9, <1>12 DEF IsRanking
  <2>2. list = Truncated(sorted, limit)
    BY <1>11, <1>13
  <2>3. HoldsFirst(Truncated(sorted, limit), passing, before, limit)
    BY ONLY <1>4, <1>6, <2>1, limit \in Nat \ {0}, FirstOf
  <2> QED
    BY <2>2, <2>3
<1>15. \A l, m \in passing : l \in before[m] => ~NewerMessage(m, l)
  <2>1. \A l, m \in passing : NewerMessage(l, m) => ~NewerMessage(m, l)
    BY <1>2 DEF NewerMessage
  <2> QED
    BY <1>5, <2>1
<1>16. \A i \in DOMAIN list : list[i] \in passing
  BY <1>14 DEF HoldsFirst, Range
<1> QED
  BY <1>13, <1>14, <1>15, <1>16 DEF HoldsFirst

(* What a filter lets through does not depend on its limit. *)
LEMMA AnswersNewest ==
  ASSUME ~Damaged, NEW n, Sound(n), log \in Logs, log.name = "messages", NEW app, NEW limits,
         NEW filter, filter.limit \in Nat \ {0}, filter.limit \in limits,
         NEW answer, answer = Unless(Damaged, Found(ListLatestMessages(app, filter))),
         NEW query, query.status = filter.status, query.scene = filter.scene
  PROVE  ListsNewest(answer, {l \in Latest(app) : PassesFilter(l, query)}, limits, NewerMessage)
<1>1. PICK passing : passing = {l \in Latest(app) : PassesFilter(l, query)}
  OBVIOUS
<1>2. PICK list : list = ListLatestMessages(app, filter)
  OBVIOUS
<1>3. answer.found = list
  BY <1>2 DEF Unless, Found
<1>4. IsPassing(passing, app, filter)
  BY <1>1 DEF IsPassing, PassesFilter
<1>5. /\ Range(list) \subseteq passing /\ IsInjective(list)
      /\ \A i, j \in DOMAIN list : i < j => ~NewerMessage(list[j], list[i])
      /\ \A l \in passing \ Range(list) :
           Len(list) = filter.limit /\ \A i \in DOMAIN list : ~NewerMessage(l, list[i])
  BY <1>2, <1>4, NewestMessages
<1>6. ListsNewest(answer, passing, limits, NewerMessage)
  BY <1>3, <1>5 DEF ListsNewest
<1> QED
  BY <1>1, <1>6

LEMMA LimitsParsed ==
  ASSUME NEW limit
  PROVE  \A k \in ParseLimit(limit) : k \in Nat \ {0}
BY QueriesAssumption DEF ParseLimit

LEMMA FiltersParsed ==
  ASSUME NEW query, NEW filter \in ParseMessageListFilter(query)
  PROVE  \E limit \in ParseLimit(query.limit) :
           filter = [limit |-> limit, status |-> query.status, scene |-> query.scene]
<1> DEFINE limits == IF query.status \in Statuses \cup {""} THEN ParseLimit(query.limit) ELSE {}
<1>1. ParseMessageListFilter(query) =
        {[limit |-> limit, status |-> query.status, scene |-> query.scene] : limit \in limits}
  BY Zenon DEF ParseMessageListFilter
<1>2. limits \subseteq ParseLimit(query.limit)
  <2> DEFINE known == query.status \in Statuses \cup {""}
  <2> HIDE DEF known
  <2>1. limits = IF known THEN ParseLimit(query.limit) ELSE {}
    BY Zenon DEF known
  <2> HIDE DEF limits
  <2> QED
    BY <2>1
<1> HIDE DEF limits
<1> QED
  BY <1>1, <1>2

LEMMA MessagesRight ==
  ASSUME ~Damaged, NEW n, Sound(n), log \in Logs, log.name = "messages", NEW app
  PROVE  MessageListsAgree(app)
<1> DEFINE shown == UNION {Range(MessageStatus(app, m).found) : m \in MessageNumbers}
           Passing(query) == {l \in shown : PassesFilter(l, query)}
<1>1. shown = Latest(app)
  BY StatusesShow
<1> HIDE DEF shown
<1>2. \A l \in shown : l.about.app = app
  BY <1>1 DEF Latest, LatestOf
<1>3. ASSUME NEW l \in Range(Lines), l.about.app = app
      PROVE  \E latest \in shown : OfMessage(latest, app, l.about.message) /\ latest.seq >= l.seq
  <2>1. PICK j \in 1..n : l = Lines[j]
    BY DEF Sound, Range
  <2>2. PICK m : m = l.about.message
    OBVIOUS
  <2>3. OfMessage(Lines[j], app, m)
    BY <1>3, <2>1, <2>2 DEF OfMessage
  <2>4. PICK k \in 1..n : /\ OfMessage(Lines[k], app, m)
                          /\ \A i \in 1..n : OfMessage(Lines[i], app, m) => i <= k
    BY <2>3, StatusShows
  <2>5. Lines[k] \in Latest(app)
    BY <2>4 DEF Latest, LatestOf, OfMessage, Sound
  <2>6. j <= k /\ j \in Int /\ k \in Int /\ Lines[j].seq \in Int /\ Lines[k].seq \in Int
    BY <2>3, <2>4 DEF Sound
  <2>7. Lines[k].seq >= Lines[j].seq
    <3>1. j < k => Lines[j].seq < Lines[k].seq
      BY DEF Sound
    <3> QED
      BY <2>6, <3>1
  <2> QED
    BY <1>1, <2>1, <2>2, <2>4, <2>5, <2>7
<1>4. ASSUME NEW query \in MessageQuerySet
      PROVE  ListsNewest(MessageList(app, query), Passing(query), ParseLimit(query.limit), NewerMessage)
  <2>1. CASE ParseMessageListFilter(query) = {}
    BY <2>1 DEF MessageList, Refused, ListsNewest
  <2>2. CASE ParseMessageListFilter(query) # {}
    <3>1. PICK filter \in ParseMessageListFilter(query) :
            filter = CHOOSE f \in ParseMessageListFilter(query) : TRUE
      BY <2>2
    <3>2. /\ filter.limit \in ParseLimit(query.limit)
          /\ query.status = filter.status /\ query.scene = filter.scene
      BY FiltersParsed
    <3>3. filter.limit \in Nat \ {0}
      BY <3>2, LimitsParsed
    <3>4. MessageList(app, query) = Unless(Damaged, Found(ListLatestMessages(app, filter)))
      BY <2>2, <3>1 DEF MessageList
    <3>5. ListsNewest(MessageList(app, query), {l \in Latest(app) : PassesFilter(l, query)},
                      ParseLimit(query.limit), NewerMessage)
      BY <3>2, <3>3, <3>4, AnswersNewest
    <3> QED
      BY <1>1, <3>5
  <2> QED
    BY <2>1, <2>2
<1>5. ASSUME NEW query \in MessageQuerySet
      PROVE  ListsNewest(FailedMessageList(app, query), Passing([query EXCEPT !.status = "failed"]),
                         ParseLimit(query.limit), NewerMessage)
  <2> DEFINE filters == {[f EXCEPT !.status = "failed"] : f \in ParseMessageListFilter(query)}
         given == query.status # ""
  <2>1. FailedMessageList(app, query) =
          IF given \/ filters = {} THEN Refused("invalid_query")
          ELSE Unless(Damaged, Found(ListLatestMessages(app, CHOOSE f \in filters : TRUE)))
    BY DEF FailedMessageList
  <2>2. \A filter \in filters : /\ filter.limit \in ParseLimit(query.limit)
                               /\ filter.status = "failed" /\ filter.scene = query.scene
    <3> SUFFICES ASSUME NEW f \in ParseMessageListFilter(query), NEW filter,
                        filter = [f EXCEPT !.status = "failed"]
        PROVE  /\ filter.limit \in ParseLimit(query.limit)
               /\ filter.status = "failed" /\ filter.scene = query.scene
      OBVIOUS
    <3>1. PICK limit \in ParseLimit(query.limit) :
            f = [limit |-> limit, status |-> query.status, scene |-> query.scene]
      BY FiltersParsed
    <3> QED
      BY <3>1
  <2> HIDE DEF filters, given
  <2>3. CASE given \/ filters = {}
    <3>1. FailedMessageList(app, query).code = "invalid_query"
      BY <2>1, <2>3 DEF Refused
    <3> QED
      BY <3>1 DEF ListsNewest
  <2>4. CASE ~(given \/ filters = {})
    <3>1. PICK filter \in filters : filter = CHOOSE f \in filters : TRUE
      BY <2>4
    <3>2. PICK failed : failed = [query EXCEPT !.status = "failed"]
      OBVIOUS
    <3>3. failed.status = "failed" /\ failed.scene = query.scene
      <4>1. query \in [limit : Int, status : STRING, scene : STRING]
        BY QueriesAssumption
      <4> QED
        BY <3>2, <4>1
    <3>4. filter.limit \in Nat \ {0}
      BY <2>2, LimitsParsed
    <3>5. FailedMessageList(app, query) = Unless(Damaged, Found(ListLatestMessages(app, filter)))
      BY <2>1, <2>4, <3>1
    <3>6. ListsNewest(FailedMessageList(app, query), {l \in Latest(app) : PassesFilter(l, failed)},
                      ParseLimit(query.limit), NewerMessage)
      BY <2>2, <3>3, <3>4, <3>5, AnswersNewest
    <3> QED
      BY <1>1, <3>2, <3>6
  <2> QED
    BY <2>3, <2>4
<1> QED
  BY <1>2, <1>3, <1>4, <1>5 DEF MessageListsAgree, shown

(* The attempts and the events of a message, in the order of the log. *)
LEMMA AllOfMessage ==
  ASSUME NEW n, Sound(n), NEW app, NEW m
  PROVE  LET list == ListOfMessage(app, m)
         IN /\ Range(list) = {l \in Range(Lines) : OfMessage(l, app, m)}
            /\ \A i, j \in DOMAIN list : i < j => list[i].seq < list[j].seq
<1>1. PICK S : S = {k \in DOMAIN Lines : OfMessage(Lines[k], app, m)}
  OBVIOUS
<1>2. PICK before : before = [k \in S |-> {j \in S : j < k}]
  OBVIOUS
<1>3. \A k \in S : k \in Int /\ k \in 1..n /\ OfMessage(Lines[k], app, m)
  BY <1>1 DEF Sound
<1>4. IsFiniteSet(S)
  <2> DEFINE one == 1
  <2>1. one \in Int /\ n \in Int /\ one..n = DOMAIN Lines
    BY DEF Sound
  <2> HIDE DEF one
  <2>2. IsFiniteSet(DOMAIN Lines)
    BY <2>1, FS_Interval
  <2>3. S \in SUBSET (DOMAIN Lines)
    BY <1>1
  <2> QED
    BY <2>2, <2>3, FS_Subset
<1>5. /\ before \in [S -> SUBSET S]
      /\ \A j, k \in S : j \in before[k] <=> j < k
  BY <1>2
<1>6. IsOrder(S, before)
  <2>1. \A i, j, k \in S : /\ ~(i < i) /\ (i # j => i < j \/ j < i)
                           /\ (i < j /\ j < k => i < k)
    BY <1>3
  <2>2. \A j, k \in S : j \in before[k] => before[j] \subseteq before[k]
    BY <1>5, <2>1
  <2> QED
    BY <1>5, <2>1, <2>2 DEF IsOrder
<1> DEFINE matching == InOrder(S, LAMBDA j, k : j < k)
           count == Cardinality(S)
<1>7. count \in Nat /\ \A i \in 1..count : \E k \in S : Cardinality(before[k]) = i - 1
  BY ONLY <1>4, <1>6, Ranked
<1>8. \A k \in S : {j \in S : j < k} = before[k]
  BY <1>2
<1>9. ASSUME NEW i \in 1..count
      PROVE  matching[i] \in S /\ Cardinality(before[matching[i]]) = i - 1
  <2>1. PICK r : r = i - 1
    OBVIOUS
  <2>2. \E k \in S : Cardinality({j \in S : j < k}) = r
    BY <1>7, <1>8, <2>1
  <2>3. matching[i] = CHOOSE k \in S : Cardinality({j \in S : j < k}) = r
    BY <2>1 DEF InOrder
  <2> HIDE DEF matching
  <2>4. matching[i] \in S /\ Cardinality({j \in S : j < matching[i]}) = r
    BY Zenon, <2>2, <2>3
  <2> QED
    BY <1>8, <2>1, <2>4
<1>10. matching = [i \in 1..count |-> CHOOSE k \in S : Cardinality({j \in S : j < k}) = i - 1]
  BY DEF InOrder
<1>11. PICK list : list = ListOfMessage(app, m)
  OBVIOUS
<1>12. list = [i \in DOMAIN matching |-> Lines[matching[i]]]
  BY <1>1, <1>11 DEF ListOfMessage, InOrder
<1> HIDE DEF matching
<1>13. matching \in [1..count -> S]
  BY <1>9, <1>10
<1>14. IsListing(matching, S, before)
  <2>1. IsRanking(matching, S, before)
    BY <1>9, <1>13 DEF IsRanking
  <2> QED
    BY ONLY <1>4, <1>6, <2>1, Listed
<1>15. /\ \A k \in S : \E i \in 1..count : matching[i] = k
       /\ \A i, j \in 1..count : i < j => matching[i] \in before[matching[j]]
  BY <1>14 DEF IsListing
<1>16. Range(list) = {l \in Range(Lines) : OfMessage(l, app, m)}
  <2>1. \A i \in 1..count : list[i] = Lines[matching[i]]
    BY <1>10, <1>12
  <2>2. DOMAIN list = 1..count
    BY <1>10, <1>12
  <2>3. Range(list) = {Lines[k] : k \in S}
    BY <1>9, <1>15, <2>1, <2>2 DEF Range
  <2>4. {Lines[k] : k \in S} = {l \in Range(Lines) : OfMessage(l, app, m)}
    BY <1>1 DEF Range
  <2> QED
    BY <2>3, <2>4
<1>17. ASSUME NEW i \in DOMAIN list, NEW j \in DOMAIN list, i < j PROVE list[i].seq < list[j].seq
  <2>1. i \in 1..count /\ j \in 1..count /\ list[i] = Lines[matching[i]] /\ list[j] = Lines[matching[j]]
    BY <1>10, <1>12
  <2>2. matching[i] < matching[j] /\ matching[i] \in 1..n /\ matching[j] \in 1..n
    BY <1>3, <1>5, <1>9, <1>15, <1>17, <2>1
  <2> QED
    BY <2>1, <2>2 DEF Sound
<1> QED
  BY <1>11, <1>16, <1>17

(* The lists of events, with all of the app's that pass. *)
LEMMA NewestEvents ==
  ASSUME NEW S, IsFiniteSet(S), NEW limit \in Nat \ {0}, NEW seq \in SetToSeqs(S),
         \A i, j \in DOMAIN seq : i < j => ~NewerEvent(seq[j], seq[i]),
         NEW list, list = Truncated(seq, limit)
  PROVE  /\ Range(list) \subseteq S /\ IsInjective(list)
         /\ \A i, j \in DOMAIN list : i < j => ~NewerEvent(list[j], list[i])
         /\ \A l \in S \ Range(list) :
              Len(list) = limit /\ \A i \in DOMAIN list : ~NewerEvent(l, list[i])
<1>1. PICK m \in Nat : m = Cardinality(S)
  BY FS_CardinalityType
<1>2. seq \in [1..m -> S] /\ IsInjective(seq)
  <2>1. seq \in {f \in [1..m -> S] : \A i, j \in 1..m : i # j => f[i] # f[j]}
    BY <1>1 DEF SetToSeqs
  <2> QED
    BY <2>1 DEF IsInjective
<1>3. \A x \in S : \E n \in 1..m : seq[n] = x
  <2> DEFINE one == 1
  <2>1. one \in Int /\ m \in Int
    OBVIOUS
  <2> HIDE DEF one
  <2>2. IsFiniteSet(one..m) /\ Cardinality(one..m) = IF one > m THEN 0 ELSE m - one + 1
    BY <2>1, FS_Interval
  <2>3. IsFiniteSet(1..m) /\ Cardinality(1..m) = m
    BY <2>2 DEF one
  <2>4. seq \in Injection(1..m, S)
    BY <1>2 DEF Injection, IsInjective
  <2>5. seq \in Surjection(1..m, S)
    BY <1>1, <2>3, <2>4, FS_Injection
  <2> QED
    BY <2>5 DEF Surjection
<1>4. \A i, j \in 1..m : seq[i] = seq[j] => i = j
  BY <1>2 DEF IsInjective
<1>5. \A i, j \in 1..m : i < j => ~NewerEvent(seq[j], seq[i])
  BY <1>2
<1>6. PICK n \in Nat : IsCut(list, n, seq, m, S, limit)
  <2>1. \E n \in Nat : IsCut(Truncated(seq, limit), n, seq, m, S, limit)
    BY ONLY <1>1, <1>2, limit \in Nat \ {0}, Cut
  <2> QED
    BY <2>1
<1>7. /\ n \in 0..m /\ list \in Seq(S) /\ Len(list) = n
      /\ \A i \in 1..n : list[i] = seq[i]
      /\ n # m => n = limit
  BY <1>6 DEF IsCut
<1>8. DOMAIN list = 1..n
  BY <1>7
<1>9. \A i \in DOMAIN list : list[i] = seq[i] /\ i \in 1..m /\ i \in 1..n /\ list[i] \in S
  BY <1>1, <1>2, <1>7, <1>8
<1>10. Range(list) \subseteq S /\ IsInjective(list)
  <2>1. ASSUME NEW i \in DOMAIN list, NEW j \in DOMAIN list, list[i] = list[j] PROVE i = j
    BY <1>4, <1>9, <2>1
  <2> QED
    BY <1>9, <2>1 DEF Range, IsInjective
<1>11. ASSUME NEW i \in DOMAIN list, NEW j \in DOMAIN list, i < j PROVE ~NewerEvent(list[j], list[i])
  BY <1>5, <1>9, <1>11
<1>12. ASSUME NEW l \in S \ Range(list)
       PROVE  Len(list) = limit /\ \A i \in DOMAIN list : ~NewerEvent(l, list[i])
  <2>1. PICK j \in 1..m : seq[j] = l
    BY <1>3
  <2>2. j \notin 1..n
    BY <1>7, <1>8, <2>1 DEF Range
  <2>3. n < j /\ n # m
    BY <1>1, <1>7, <2>2
  <2>4. ASSUME NEW i \in DOMAIN list PROVE ~NewerEvent(l, list[i])
    <3>1. i \in 1..m /\ i < j /\ list[i] = seq[i]
      BY <1>9, <2>3
    <3> QED
      BY <1>5, <2>1, <3>1
  <2> QED
    BY <1>7, <2>3, <2>4
<1> QED
  BY <1>10, <1>11, <1>12

LEMMA EventFiltersParsed ==
  ASSUME NEW query, NEW filter \in ParseProviderEventListFilter(query)
  PROVE  \E limit \in ParseLimit(query.limit) :
           filter = [limit |-> limit, provider |-> query.provider, type |-> query.type]
<1> DEFINE known == query.provider \in Sources \cup {""} /\ query.type \in EventTypes \cup {""}
           limits == IF known THEN ParseLimit(query.limit) ELSE {}
<1>1. ParseProviderEventListFilter(query) =
        {[limit |-> limit, provider |-> query.provider, type |-> query.type] : limit \in limits}
  BY Zenon DEF ParseProviderEventListFilter
<1> HIDE DEF known
<1>2. limits \subseteq ParseLimit(query.limit)
  OBVIOUS
<1> HIDE DEF limits
<1> QED
  BY <1>1, <1>2

LEMMA EventsRight ==
  ASSUME ~Damaged, NEW n, Sound(n), NEW app
  PROVE  EventListsAgree(app)
<1> DEFINE shown == UNION {Range(MessageDetails(Found(<< >>), app, m).found) : m \in MessageNumbers}
           Passing(query) ==
             {l \in shown : Passes(query.provider, l.about.provider) /\ Passes(query.type, l.about.type)}
<1>1. shown = {l \in Range(Lines) : l.about.app = app}
  <2>1. \A m : MessageDetails(Found(<< >>), app, m).found = ListOfMessage(app, m)
    BY DEF MessageDetails, Found, Unless
  <2>2. \A m : Range(ListOfMessage(app, m)) = {l \in Range(Lines) : OfMessage(l, app, m)}
    BY AllOfMessage
  <2>3. \A m : Range(MessageDetails(Found(<< >>), app, m).found) = {l \in Range(Lines) : OfMessage(l, app, m)}
    BY <2>1, <2>2
  <2>4. ASSUME NEW l \in shown PROVE l \in Range(Lines) /\ l.about.app = app
    BY <2>3 DEF OfMessage
  <2>5. ASSUME NEW l \in Range(Lines), l.about.app = app PROVE l \in shown
    <3>1. l.about.message \in MessageNumbers /\ OfMessage(l, app, l.about.message)
      BY <2>5 DEF MessageNumbers, OfMessage
    <3> QED
      BY <2>3, <3>1
  <2> HIDE DEF shown
  <2> QED
    BY <2>4, <2>5
<1> HIDE DEF shown
<1>2. IsFiniteSet(Range(Lines))
  <2> DEFINE one == 1
  <2>1. one \in Int /\ n \in Int /\ one..n = DOMAIN Lines
    BY DEF Sound
  <2> HIDE DEF one
  <2>2. IsFiniteSet(DOMAIN Lines)
    BY <2>1, FS_Interval
  <2>3. [k \in DOMAIN Lines |-> Lines[k]] \in Surjection(DOMAIN Lines, Range(Lines))
    BY DEF Surjection, Range
  <2> QED
    BY <2>2, <2>3, FS_Surjection
<1>3. ASSUME NEW query \in EventQuerySet, NEW answer \in ProviderEventLists(app, query)
      PROVE  ListsNewest(answer, Passing(query), ParseLimit(query.limit), NewerEvent)
  <2>1. CASE ParseProviderEventListFilter(query) = {}
    BY <1>3, <2>1 DEF ProviderEventLists, Refused, ListsNewest
  <2>2. CASE ParseProviderEventListFilter(query) # {}
    <3>1. PICK filter \in ParseProviderEventListFilter(query) :
            filter = CHOOSE f \in ParseProviderEventListFilter(query) : TRUE
      BY <2>2
    <3>2. /\ filter.limit \in ParseLimit(query.limit)
          /\ query.provider = filter.provider /\ query.type = filter.type
      BY EventFiltersParsed
    <3>3. PICK limit \in Nat \ {0} : limit = filter.limit
      BY <3>2, LimitsParsed
    <3>4. PICK list \in ListsOfRecentEvents(app, filter) : answer = Found(list)
      BY <1>3, <2>2, <3>1 DEF ProviderEventLists
    <3>5. PICK S : S = Passing(query)
      OBVIOUS
    <3>6. EventsPassing(app, filter) = S
      BY <1>1, <3>2, <3>5 DEF EventsPassing
    <3>7. PICK seq \in SetToSeqs(S) : /\ list = Truncated(seq, limit)
                                     /\ \A i, j \in DOMAIN seq : i < j => ~NewerEvent(seq[j], seq[i])
      BY <3>3, <3>4, <3>6 DEF ListsOfRecentEvents
    <3>8. IsFiniteSet(S)
      BY <1>1, <1>2, <3>5, FS_Subset
    <3>9. /\ Range(list) \subseteq S /\ IsInjective(list)
          /\ \A i, j \in DOMAIN list : i < j => ~NewerEvent(list[j], list[i])
          /\ \A l \in S \ Range(list) :
               Len(list) = limit /\ \A i \in DOMAIN list : ~NewerEvent(l, list[i])
      BY ONLY <3>7, <3>8, limit \in Nat \ {0}, seq \in SetToSeqs(S), NewestEvents
    <3>10. answer.found = list /\ limit \in ParseLimit(query.limit)
      BY <3>2, <3>3, <3>4 DEF Found
    <3>11. ListsNewest(answer, S, ParseLimit(query.limit), NewerEvent)
      BY <3>9, <3>10 DEF ListsNewest
    <3> QED
      BY <3>5, <3>11
  <2> QED
    BY <2>1, <2>2
<1> QED
  BY <1>3 DEF EventListsAgree, shown

(* What a list shows of a message is what asking for its status shows, its *)
(* last record, and a list leaves out only what is no newer, and only when *)
(* it is full.                                                             *)
THEOREM ListsRight == Spec => []ListsAgree
<1>1. IInv /\ Contents => ListsAgree
  <2> SUFFICES ASSUME IInv, Contents, pc = "idle", ~Damaged, NEW app \in Apps
      PROVE  /\ log.name = "messages" => MessageListsAgree(app)
             /\ log.name = "events"   => EventListsAgree(app)
             /\ log.name = "attempts" => \A m \in MessageNumbers :
                  LET list == MessageDetails(Found(<< >>), app, m).found
                  IN /\ \A i, j \in DOMAIN list : i < j => list[i].seq < list[j].seq
                     /\ Range(list) = {l \in Range(Lines) : OfMessage(l, app, m)}
    BY DEF ListsAgree
  <2>1. Types /\ Ordered /\ log \in Logs
    BY DEF IInv, Types
  <2>2. PICK n : Sound(n)
    BY <2>1, Undamaged
  <2>3. ASSUME NEW m
        PROVE  LET list == MessageDetails(Found(<< >>), app, m).found
               IN /\ \A i, j \in DOMAIN list : i < j => list[i].seq < list[j].seq
                  /\ Range(list) = {l \in Range(Lines) : OfMessage(l, app, m)}
    <3>1. MessageDetails(Found(<< >>), app, m).found = ListOfMessage(app, m)
      BY DEF MessageDetails, Found, Unless
    <3> QED
      BY <2>2, <3>1, AllOfMessage
  <2> QED
    BY <2>1, <2>2, <2>3, MessagesRight, EventsRight
<1> QED
  BY <1>1, ContentsAlways, PTL

-----------------------------------------------------------------------------
(* What a log has lost when writes were cut short. *)

(* The records in the files up to the i-th. *)
Seqs(i) == {n \in 1..appended : \E j, k : j <= i /\ HasRecord(j, k) /\ files[j][k].seq = n}

(* What was written to the current file, by its size; how many backups     *)
(* fewer than i there may be, as in Missing; and what the files up to the  *)
(* i-th would then hold.                                                   *)
Written  == IF 0 \in DOMAIN files THEN size ELSE 0
Short(i) == restarts + Unfilled(i) + (IF ~usable /\ Written >= log.lines THEN 1 ELSE 0)
Due(i)   == Written + log.lines * (i - Short(i))

(* Only so many of these are not there. *)
Enough(i, loss) ==
  LET held == Cardinality(Seqs(i)) + loss IN held >= appended \/ held >= Due(i)

(* The current file ends in a line without a newline. *)
Unclosed == 0 \in DOMAIN files /\ files[0] # << >> /\ Unfinished(Last(files[0]))

(* The size of the current file is what there is, but for a failed write. *)
Sized ==
  /\ 0 \in DOMAIN files => \/ Len(files[0]) <= size
                           \/ ~usable /\ size < log.lines /\ Len(files[0]) <= size + 1
  /\ pc \in {"remove", "shift", "move"} => size >= log.lines
  /\ pc = "write" => size < log.lines

(* Every failed write may cost the record it was of and the one that is    *)
(* glued to it, and there is one of them between two restarts.             *)
Lost(loss) ==
  /\ loss <= 2 * restarts
  /\ usable /\ Unclosed => loss <= 2 * restarts - 2
  /\ ~torn => loss = 0
  /\ \A i \in 0..log.backups : Enough(i, loss)

LossInv == Sized /\ \E loss \in Nat : Lost(loss)

LEMMA SeqsFinite == Types => \A i : IsFiniteSet(Seqs(i)) /\ Cardinality(Seqs(i)) \in Nat
<1> SUFFICES ASSUME Types, NEW i PROVE IsFiniteSet(Seqs(i)) /\ Cardinality(Seqs(i)) \in Nat
  OBVIOUS
<1> DEFINE one == 1
<1>1. one \in Int /\ appended \in Int
  BY DEF Types
<1>2. Seqs(i) \in SUBSET (one..appended)
  BY DEF Seqs
<1> HIDE DEF one
<1>3. IsFiniteSet(one..appended)
  BY <1>1, FS_Interval
<1> QED
  BY <1>2, <1>3, FS_Subset, FS_CardinalityType

LEMMA DueTypes ==
  Types => \A i \in Int :
    /\ Unfilled(i) \in {0, 1} /\ Short(i) \in Nat /\ Written \in Nat /\ Due(i) \in Int
<1> SUFFICES ASSUME Types, NEW i \in Int
    PROVE  /\ Unfilled(i) \in {0, 1} /\ Short(i) \in Nat /\ Written \in Nat /\ Due(i) \in Int
  OBVIOUS
<1>1. Unfilled(i) \in {0, 1}
  BY DEF Unfilled
<1>2. Written \in Nat
  BY DEF Written, Types
<1>3. Short(i) \in Nat
  BY <1>1 DEF Short, Types
<1>4. log.lines \in Nat /\ i - Short(i) \in Int
  BY <1>3, Sizes
<1>5. log.lines * (i - Short(i)) \in Int
  BY <1>4
<1> QED
  BY <1>1, <1>2, <1>3, <1>5 DEF Due

(* Files that are moved hold what they held. *)
LEMMA SeqsMoved ==
  ASSUME appended' = appended, NEW i, NEW j,
         \A h \in DOMAIN files : h <= j /\ files[h] # << >> =>
           \E g \in DOMAIN files' : g <= i /\ files'[g] = files[h]
  PROVE  Seqs(j) \subseteq Seqs(i)'
<1> SUFFICES ASSUME NEW n \in Seqs(j) PROVE n \in Seqs(i)'
  OBVIOUS
<1>1. PICK h, k : h <= j /\ HasRecord(h, k) /\ files[h][k].seq = n
  BY DEF Seqs
<1>2. h \in DOMAIN files /\ k \in DOMAIN files[h] /\ Decodes(files[h][k]) /\ files[h] # << >>
  BY <1>1 DEF HasRecord, HasLine
<1>3. PICK g \in DOMAIN files' : g <= i /\ files'[g] = files[h]
  BY <1>1, <1>2
<1>4. HasRecord(g, k)' /\ files'[g][k].seq = n
  BY <1>1, <1>2, <1>3 DEF HasRecord, HasLine, Decodes
<1>5. n \in 1..appended'
  BY DEF Seqs
<1> QED
  BY <1>3, <1>4, <1>5 DEF Seqs

LEMMA Measures ==
  /\ Types => /\ \A i : IsFiniteSet(Seqs(i)) /\ Cardinality(Seqs(i)) \in Nat
              /\ \A i \in Int : /\ Unfilled(i) \in {0, 1} /\ Short(i) \in Nat
                               /\ Written \in Nat /\ Due(i) \in Int
  /\ (Types => /\ \A i : IsFiniteSet(Seqs(i)) /\ Cardinality(Seqs(i)) \in Nat
               /\ \A i \in Int : /\ Unfilled(i) \in {0, 1} /\ Short(i) \in Nat
                                /\ Written \in Nat /\ Due(i) \in Int)'
<1>1. Types => /\ \A i : IsFiniteSet(Seqs(i)) /\ Cardinality(Seqs(i)) \in Nat
               /\ \A i \in Int : /\ Unfilled(i) \in {0, 1} /\ Short(i) \in Nat
                                /\ Written \in Nat /\ Due(i) \in Int
  BY SeqsFinite, DueTypes
<1> QED
  BY <1>1, PTL

LEMMA EnoughKept ==
  ASSUME Types, Types', appended' = appended, NEW loss \in Nat, NEW i \in Int, NEW j \in Int, Enough(j, loss),
         Seqs(j) \subseteq Seqs(i)', Due(i)' <= Due(j)
  PROVE  Enough(i, loss)'
<1>1. Due(i)' \in Int /\ Due(j) \in Int
  BY Measures
<1>2. /\ IsFiniteSet(Seqs(j)) /\ Cardinality(Seqs(j)) \in Nat
      /\ IsFiniteSet(Seqs(i)') /\ Cardinality(Seqs(i)') \in Nat
  BY Measures
<1>3. Cardinality(Seqs(j)) <= Cardinality(Seqs(i)')
  BY <1>2, FS_Subset
<1>4. appended \in Int
  BY DEF Types
<1> QED
  BY <1>1, <1>2, <1>3, <1>4 DEF Enough

LEMMA Twice ==
  ASSUME NEW loss \in Nat, NEW r \in Nat, NEW q \in Nat, loss <= 2 * r, q = r \/ q = r + 1
  PROVE  /\ loss <= 2 * q
         /\ q = r + 1 => loss <= 2 * q - 2
         /\ loss <= 2 * r - 2 => loss <= 2 * q - 2
OBVIOUS

(* Steps that write nothing lose nothing. *)
LEMMA LostMoved ==
  ASSUME Types, Types', log' = log, appended' = appended, torn' = torn, restarts' \in {restarts, restarts + 1},
         NEW loss \in Nat, Lost(loss),
         usable' /\ Unclosed' => (usable /\ Unclosed) \/ restarts' = restarts + 1,
         \A i \in 0..log.backups : Due(i)' <= 0 \/ \E j \in 0..log.backups :
           /\ \A h \in DOMAIN files : h <= j /\ files[h] # << >> =>
                \E g \in DOMAIN files' : g <= i /\ files'[g] = files[h]
           /\ Due(i)' <= Due(j)
  PROVE  Lost(loss)'
<1>1. restarts \in Nat /\ log.backups \in Nat
  BY Sizes DEF Types
<1>2. loss <= 2 * restarts /\ (usable /\ Unclosed => loss <= 2 * restarts - 2) /\ (~torn => loss = 0)
  BY DEF Lost
<1>3. ASSUME NEW i \in 0..log.backups PROVE Enough(i, loss)'
  <2>1. CASE Due(i)' <= 0
    <3>1. i \in Int
      BY <1>1
    <3>2. Cardinality(Seqs(i)') \in Nat /\ Due(i)' \in Int
      BY <3>1, Measures
    <3> QED
      BY <2>1, <3>2 DEF Enough
  <2>2. CASE ~(Due(i)' <= 0)
    <3>1. PICK j \in 0..log.backups :
             /\ \A h \in DOMAIN files : h <= j /\ files[h] # << >> =>
                  \E g \in DOMAIN files' : g <= i /\ files'[g] = files[h]
             /\ Due(i)' <= Due(j)
      BY <2>2
    <3>2. Seqs(j) \subseteq Seqs(i)'
      BY <3>1, SeqsMoved
    <3>3. Enough(j, loss) /\ i \in Int /\ j \in Int
      BY <1>1 DEF Lost
    <3> QED
      BY <3>1, <3>2, <3>3, EnoughKept
  <2> QED
    BY <2>1, <2>2
<1>4. loss <= 2 * restarts' /\ (usable' /\ Unclosed' => loss <= 2 * restarts' - 2) /\ (~torn' => loss = 0)
  <2>1. restarts' \in Nat /\ (restarts' = restarts \/ restarts' = restarts + 1)
    BY <1>1
  <2>2. /\ loss <= 2 * restarts'
        /\ restarts' = restarts + 1 => loss <= 2 * restarts' - 2
        /\ loss <= 2 * restarts - 2 => loss <= 2 * restarts' - 2
    BY ONLY <1>1, <1>2, <2>1, loss \in Nat, Twice
  <2>3. usable' /\ Unclosed' => loss <= 2 * restarts' - 2
    BY <1>2, <2>2
  <2>4. ~torn' => loss = 0
    BY <1>2
  <2> QED
    BY <2>2, <2>3, <2>4
<1> QED
  BY <1>3, <1>4 DEF Lost

LEMMA BeginAppendLoses ==
  ASSUME IInv, IInv', LossInv, NEW about, NEW at, BeginAppend(about, at)
  PROVE  LossInv'
<1>1. Types /\ Types' /\ Staged /\ Sized
  BY DEF IInv, LossInv
<1>2. PICK loss \in Nat : Lost(loss)
  BY DEF LossInv
<1>3. /\ pc = "idle" /\ pc' \in {"remove", "write"} /\ usable
      /\ UNCHANGED <<log, files, size, usable, appended, torn, restarts>>
      /\ pc' = "remove" => size >= log.lines
      /\ pc' = "write" => size < log.lines
  BY <1>1, Sizes DEF BeginAppend, Goto, NeedsRotation, Types
<1>4. Sized'
  BY <1>1, <1>3 DEF Sized
<1>5. \A i \in Int : Due(i)' = Due(i)
  <2>1. \A i : Unfilled(i) = 0 /\ Unfilled(i)' = 0
    BY <1>3 DEF Unfilled
  <2>2. Written' = Written
    BY <1>3 DEF Written
  <2> QED
    BY <1>3, <2>1, <2>2 DEF Due, Short
<1>6. \A i \in Int : Due(i) \in Int /\ i <= i
  BY <1>1, Measures
<1>7. Lost(loss)'
  <2>1. \A i \in 0..log.backups :
           /\ \A h \in DOMAIN files : h <= i /\ files[h] # << >> =>
                \E g \in DOMAIN files' : g <= i /\ files'[g] = files[h]
           /\ Due(i)' <= Due(i)
    BY <1>1, <1>3, <1>5, <1>6, Sizes
  <2>2. Unclosed' = Unclosed
    BY <1>3 DEF Unclosed
  <2> QED
    BY <1>1, <1>2, <1>3, <2>1, <2>2, LostMoved
<1> QED
  BY <1>4, <1>7 DEF LossInv

LEMMA RotationFailsLoses ==
  ASSUME IInv, IInv', LossInv, RotationFails
  PROVE  LossInv'
<1>1. Types /\ Types' /\ Staged /\ Sized
  BY DEF IInv, LossInv
<1>2. PICK loss \in Nat : Lost(loss)
  BY DEF LossInv
<1>3. /\ pc \in {"remove", "shift", "move", "open"} /\ pc' = "idle" /\ usable /\ usable' = FALSE
      /\ UNCHANGED <<log, files, size, appended, torn, restarts>>
      /\ pc # "open" => 0 \in DOMAIN files /\ size >= log.lines
      /\ pc = "open" => 0 \notin DOMAIN files
  BY <1>1 DEF RotationFails, Staged, Sized
<1>4. Sized'
  BY <1>1, <1>3 DEF Sized
<1>5. ASSUME NEW i \in Int PROVE Due(i)' <= Due(i)
  <2>1. Unfilled(i) \in {0, 1} /\ Written \in Nat /\ restarts \in Nat /\ (pc = "open" => Unfilled(i) = 0)
    BY <1>1, Measures DEF Unfilled, Types
  <2>2. Written' = Written /\ Unfilled(i)' = 0 /\ restarts' = restarts
    BY <1>3 DEF Written, Unfilled
  <2>3. (pc # "open" => Written >= log.lines) /\ (pc = "open" => Written = 0) /\ log.lines \in Nat \ {0}
    BY <1>1, <1>3, Sizes DEF Written
  <2>4. Short(i) = restarts + Unfilled(i)
    BY <1>3, <2>1 DEF Short
  <2>5. Short(i)' = restarts + IF Written >= log.lines THEN 1 ELSE 0
    BY <1>3, <2>1, <2>2 DEF Short
  <2>6. i - Short(i)' <= i - Short(i) /\ i - Short(i)' \in Int /\ i - Short(i) \in Int
    BY <2>1, <2>3, <2>4, <2>5
  <2>7. log.lines * (i - Short(i)') <= log.lines * (i - Short(i))
    BY <2>3, <2>6, Products
  <2>8. Due(i)' = Written + log.lines * (i - Short(i)')
    BY <1>3, <2>2 DEF Due
  <2>9. log.lines * (i - Short(i)') \in Int /\ log.lines * (i - Short(i)) \in Int
    BY <2>3, <2>6, Products
  <2> QED
    BY <2>1, <2>7, <2>8, <2>9 DEF Due
<1>6. Lost(loss)'
  <2>1. \A i \in 0..log.backups :
           /\ \A h \in DOMAIN files : h <= i /\ files[h] # << >> =>
                \E g \in DOMAIN files' : g <= i /\ files'[g] = files[h]
           /\ Due(i)' <= Due(i)
    BY <1>1, <1>3, <1>5, Sizes
  <2> QED
    BY <1>1, <1>2, <1>3, <2>1, LostMoved
<1> QED
  BY <1>4, <1>6 DEF LossInv

(* The process that starts begins a rotation anew, and what it appends    *)
(* does not end up on an unfinished line more than once.                   *)
LEMMA RestartLoses ==
  ASSUME IInv, IInv', LossInv, Restart
  PROVE  LossInv'
<1>1. Types /\ Types' /\ Staged /\ Sized
  BY DEF IInv, LossInv
<1>2. PICK loss \in Nat : Lost(loss)
  BY DEF LossInv
<1>3. /\ restarts' = restarts + 1 /\ pc' = "idle" /\ usable' /\ UNCHANGED <<log, appended, torn>>
      /\ files' = [i \in DOMAIN files \cup {0} |-> LinesOf(i)] /\ size' = Len(LinesOf(0))
  BY DEF Restart, Opened
<1>4. /\ \A i \in DOMAIN files : i \in DOMAIN files' /\ files'[i] = files[i]
      /\ 0 \in DOMAIN files' /\ files'[0] = LinesOf(0) /\ Len(LinesOf(0)) \in Nat
  BY <1>1, <1>3 DEF LinesOf, Types
<1>5. Sized'
  BY <1>3, <1>4 DEF Sized
<1>6. ASSUME NEW i \in Int PROVE Due(i)' <= Due(i)
  <2>1. Unfilled(i) \in {0, 1} /\ Written \in Nat /\ restarts \in Nat /\ Due(i) \in Int
    BY <1>1, Measures DEF Types
  <2>2. PICK cut \in {0, 1} : cut = IF ~usable /\ Written >= log.lines THEN 1 ELSE 0
    OBVIOUS
  <2>3. PICK left \in Nat : left = Len(LinesOf(0))
    BY <1>4
  <2>4. Written' = left /\ Unfilled(i)' = 0 /\ Short(i)' = restarts + 1
    BY <1>3, <1>4, <2>1, <2>3 DEF Written, Unfilled, Short
  <2>5. log.lines \in Nat \ {0} /\ size \in Nat
    BY <1>1, Sizes DEF Types
  <2>6. Short(i) = restarts + Unfilled(i) + cut
    BY <2>2 DEF Short
  <2>7. left <= Written \/ (cut = 0 /\ Unfilled(i) = 0 /\ left <= Written + log.lines)
    <3>1. CASE 0 \notin DOMAIN files
      BY <2>1, <2>3, <3>1 DEF LinesOf
    <3>2. CASE 0 \in DOMAIN files /\ left <= size
      BY <3>2 DEF Written
    <3>3. CASE 0 \in DOMAIN files /\ ~(left <= size)
      <4>1. ~usable /\ size < log.lines /\ left <= size + 1 /\ Written = size
        BY <1>1, <2>3, <3>3 DEF Sized, LinesOf, Written
      <4>2. pc = "idle"
        BY <1>1, <4>1 DEF Staged
      <4>3. Unfilled(i) = 0
        BY <4>2 DEF Unfilled
      <4>4. cut = 0
        BY <2>2, <2>5, <4>1
      <4> QED
        BY <2>3, <2>5, <4>1, <4>3, <4>4
    <3> QED
      BY <3>1, <3>2, <3>3
  <2>8. Unfilled(i) = 0 \/ cut = 0
    <3>1. ~usable => pc = "idle"
      BY <1>1 DEF Staged
    <3>2. ~usable => Unfilled(i) = 0
      BY <3>1 DEF Unfilled
    <3>3. usable => cut = 0
      BY <2>2
    <3> QED
      BY <3>2, <3>3
  <2>9. PICK x \in Int : x = i - Short(i)'
    BY <2>1, <2>4
  <2>10. i - Short(i) = x \/ (i - Short(i) = x + 1 /\ cut = 0 /\ Unfilled(i) = 0)
    BY <2>1, <2>2, <2>4, <2>6, <2>8, <2>9
  <2>11. (cut = 0 /\ Unfilled(i) = 0) => i - Short(i) = x + 1
    BY <2>1, <2>4, <2>6, <2>9
  <2>12. log.lines * x \in Int /\ log.lines * (x + 1) = log.lines * x + log.lines
    BY <2>5, Products
  <2>13. Due(i)' = left + log.lines * x
    BY <1>3, <2>4, <2>9 DEF Due
  <2>14. Due(i) = Written + log.lines * (i - Short(i))
    BY DEF Due
  <2>15. Due(i) = Written + log.lines * x \/ Due(i) = Written + (log.lines * x + log.lines)
    BY <2>10, <2>12, <2>14
  <2>16. cut = 0 /\ Unfilled(i) = 0 => Due(i) = Written + (log.lines * x + log.lines)
    BY <2>11, <2>12, <2>14
  <2>17. PICK lx \in Int, now \in Int, due \in Int, written \in Nat :
           lx = log.lines * x /\ now = Due(i)' /\ due = Due(i) /\ written = Written
    BY <2>1, <2>3, <2>12, <2>13
  <2>18. now = left + lx /\ (due = written + lx \/ due = written + (lx + log.lines))
    BY <2>13, <2>15, <2>17
  <2>19. cut = 0 /\ Unfilled(i) = 0 => due = written + (lx + log.lines)
    BY <2>16, <2>17
  <2>20. left <= written \/ (due = written + (lx + log.lines) /\ left <= written + log.lines)
    BY <2>7, <2>17, <2>19
  <2>21. now <= due
    BY <2>5, <2>17, <2>18, <2>20
  <2> QED
    BY <2>17, <2>21
<1>7. Lost(loss)'
  <2>1. \A i \in 0..log.backups :
           /\ \A h \in DOMAIN files : h <= i /\ files[h] # << >> =>
                \E g \in DOMAIN files' : g <= i /\ files'[g] = files[h]
           /\ Due(i)' <= Due(i)
    BY <1>1, <1>4, <1>6, Sizes
  <2> QED
    BY <1>1, <1>2, <1>3, <2>1, LostMoved
<1> QED
  BY <1>5, <1>7 DEF LossInv

LEMMA ReopenLoses ==
  ASSUME IInv, IInv', LossInv, Reopen
  PROVE  LossInv'
<1>1. Types /\ Types' /\ Staged /\ Sized
  BY DEF IInv, LossInv
<1>2. PICK loss \in Nat : Lost(loss)
  BY DEF LossInv
<1>3. /\ pc = "open" /\ pc' = "write" /\ usable /\ UNCHANGED <<log, usable, appended, torn, restarts>>
      /\ 0 \notin DOMAIN files /\ LinesOf(0) = << >>
      /\ files' = [i \in DOMAIN files \cup {0} |-> LinesOf(i)] /\ size' = 0
  BY <1>1 DEF Reopen, Goto, Opened, LinesOf, Staged
<1>4. /\ \A i \in DOMAIN files : i \in DOMAIN files' /\ files'[i] = files[i]
      /\ 0 \in DOMAIN files' /\ files'[0] = << >>
  BY <1>1, <1>3 DEF LinesOf
<1>5. Sized'
  BY <1>1, <1>3, <1>4, Sizes DEF Sized
<1>6. ~Unclosed'
  BY <1>4 DEF Unclosed
<1>7. ASSUME NEW i \in Int PROVE Due(i)' <= Due(i)
  <2>1. Written = 0 /\ Written' = 0 /\ Unfilled(i) = 0 /\ Unfilled(i)' = 0
    BY <1>3, <1>4 DEF Written, Unfilled
  <2>2. Due(i)' = Due(i) /\ Due(i) \in Int
    BY <1>1, <1>3, <2>1, Measures DEF Due, Short
  <2> QED
    BY <2>2
<1>8. Lost(loss)'
  <2>1. \A i \in 0..log.backups :
           /\ \A h \in DOMAIN files : h <= i /\ files[h] # << >> =>
                \E g \in DOMAIN files' : g <= i /\ files'[g] = files[h]
           /\ Due(i)' <= Due(i)
    BY <1>1, <1>4, <1>7, Sizes
  <2> QED
    BY <1>1, <1>2, <1>3, <1>6, <2>1, LostMoved
<1> QED
  BY <1>5, <1>8 DEF LossInv

LEMMA StutterLoses ==
  ASSUME IInv, IInv', LossInv, UNCHANGED vars
  PROVE  LossInv'
<1>1. Types /\ Types' /\ Staged /\ Sized
  BY DEF IInv, LossInv
<1>2. PICK loss \in Nat : Lost(loss)
  BY DEF LossInv
<1>3. UNCHANGED <<log, files, size, usable, pc, index, appended, torn, restarts>>
  BY DEF vars
<1>4. Sized' /\ Unclosed' = Unclosed
  BY <1>1, <1>3 DEF Sized, Unclosed
<1>5. ASSUME NEW i \in Int PROVE Due(i)' <= Due(i)
  <2>1. Due(i)' = Due(i) /\ Due(i) \in Int
    BY <1>1, <1>3, Measures DEF Due, Short, Unfilled, Written
  <2> QED
    BY <2>1
<1>6. Lost(loss)'
  <2>1. \A i \in 0..log.backups :
           /\ \A h \in DOMAIN files : h <= i /\ files[h] # << >> =>
                \E g \in DOMAIN files' : g <= i /\ files'[g] = files[h]
           /\ Due(i)' <= Due(i)
    BY <1>1, <1>3, <1>5, Sizes
  <2> QED
    BY <1>1, <1>2, <1>3, <1>4, <2>1, LostMoved
<1> QED
  BY <1>4, <1>6 DEF LossInv

(* Where the oldest backup was there is one fewer. *)
LEMMA RemoveOldestLoses ==
  ASSUME IInv, IInv', LossInv, RemoveOldest
  PROVE  LossInv'
<1>1. /\ Types /\ Types' /\ Staged /\ Sized
      /\ log.backups \in Nat \ {0} /\ log.lines \in Nat \ {0} /\ restarts \in Nat
  BY Sizes DEF IInv, LossInv, Types
<1>2. PICK loss \in Nat : Lost(loss)
  BY DEF LossInv
<1>3. /\ pc = "remove" /\ usable /\ UNCHANGED <<log, size, usable, appended, torn, restarts>>
      /\ files' = [i \in DOMAIN files \ {log.backups} |-> files[i]]
      /\ index' = log.backups - 1 /\ size >= log.lines
      /\ pc' = IF log.backups - 1 < 1 THEN "move" ELSE "shift"
  BY <1>1 DEF RemoveOldest, Goto, FirstShifted, Staged, Sized
<1>4. /\ \A i \in DOMAIN files : i # log.backups => i \in DOMAIN files' /\ files'[i] = files[i]
      /\ 0 \in DOMAIN files' <=> 0 \in DOMAIN files
      /\ 0 \in DOMAIN files => files'[0] = files[0]
  BY <1>1, <1>3
<1>5. Sized' /\ Unclosed' = Unclosed
  BY <1>1, <1>3, <1>4 DEF Sized, Unclosed
<1>6. Written' = Written
  BY <1>3, <1>4 DEF Written
<1>7. ASSUME NEW i \in 0..log.backups
      PROVE  Short(i) = restarts /\ Short(i)' = restarts + IF i = log.backups THEN 1 ELSE 0
  <2>1. Unfilled(i) = 0
    BY <1>3 DEF Unfilled
  <2>2. Unfilled(i)' = IF i = log.backups THEN 1 ELSE 0
    BY <1>1, <1>3 DEF Unfilled
  <2> QED
    BY <1>1, <1>3, <1>6, <2>1, <2>2 DEF Short
<1>8. ASSUME NEW i \in 0..log.backups
      PROVE  \E j \in 0..log.backups :
               /\ \A h \in DOMAIN files : h <= j /\ files[h] # << >> =>
                    \E g \in DOMAIN files' : g <= i /\ files'[g] = files[h]
               /\ Due(i)' <= Due(j)
  <2>1. \A j \in 0..log.backups : Due(j) \in Int /\ Due(j) = Written + log.lines * (j - restarts)
    BY <1>1, <1>7, Measures DEF Due
  <2>2. CASE i = log.backups
    <3>1. PICK j \in 0..log.backups : j = i - 1 /\ j < log.backups
      BY <1>1, <2>2
    <3>2. i - Short(i)' = j - restarts
      BY <1>1, <1>7, <2>2, <3>1
    <3>3. Due(i)' = Written + log.lines * (j - restarts)
      BY <1>3, <1>6, <3>2 DEF Due
    <3>4. Due(i)' <= Due(j)
      BY <2>1, <3>3
    <3>5. \A h \in DOMAIN files : h <= j => h # log.backups /\ h <= i
      BY <1>1, <2>2, <3>1 DEF Types
    <3> QED
      BY <1>4, <3>4, <3>5
  <2>3. CASE i # log.backups
    <3>1. Due(i)' = Written + log.lines * (i - restarts)
      BY <1>1, <1>3, <1>6, <1>7, <2>3 DEF Due
    <3>2. Due(i)' <= Due(i)
      BY <2>1, <3>1
    <3>3. \A h \in DOMAIN files : h <= i => h # log.backups
      BY <1>1, <2>3 DEF Types
    <3> QED
      BY <1>4, <3>2, <3>3
  <2> QED
    BY <2>2, <2>3
<1>9. Lost(loss)'
  BY <1>1, <1>2, <1>3, <1>5, <1>8, LostMoved
<1> QED
  BY <1>5, <1>9 DEF LossInv

LEMMA ShiftBackupLoses ==
  ASSUME IInv, IInv', LossInv, ShiftBackup
  PROVE  LossInv'
<1>1. /\ Types /\ Types' /\ Staged /\ Sized
      /\ log.backups \in Nat \ {0} /\ log.lines \in Nat \ {0} /\ restarts \in Nat
  BY Sizes DEF IInv, LossInv, Types
<1>2. PICK loss \in Nat : Lost(loss)
  BY DEF LossInv
<1>3. /\ pc = "shift" /\ usable /\ UNCHANGED <<log, size, usable, appended, torn, restarts>>
      /\ index \in 1..(log.backups - 1) /\ index + 1 \notin DOMAIN files /\ size >= log.lines
      /\ index' = index - 1 /\ pc' = IF index = 1 THEN "move" ELSE "shift"
      /\ files' = Renamed(index, index + 1)
  BY <1>1 DEF ShiftBackup, Goto, Staged, Sized, Shifted
<1>4. /\ \A h \in DOMAIN files : h # index => h \in DOMAIN files' /\ files'[h] = files[h]
      /\ index \in DOMAIN files => index + 1 \in DOMAIN files' /\ files'[index + 1] = files[index]
      /\ 0 \in DOMAIN files' <=> 0 \in DOMAIN files
      /\ 0 \in DOMAIN files => files'[0] = files[0]
  <2>1. CASE index \notin DOMAIN files
    BY <1>1, <1>3, <2>1 DEF Renamed
  <2>2. CASE index \in DOMAIN files
    <3>1. files' = [i \in (DOMAIN files \ {index}) \cup {index + 1} |->
                      IF i = index + 1 THEN files[index] ELSE files[i]]
      BY <1>3, <2>2 DEF Renamed
    <3>2. 0 # index /\ 0 # index + 1
      BY <1>1, <1>3
    <3> QED
      BY <1>3, <3>1, <3>2
  <2> QED
    BY <2>1, <2>2
<1>5. Sized' /\ Unclosed' = Unclosed
  BY <1>1, <1>3, <1>4 DEF Sized, Unclosed
<1>6. Written' = Written
  BY <1>3, <1>4 DEF Written
<1>7. ASSUME NEW i \in 0..log.backups
      PROVE  /\ Short(i) = restarts + IF i > index THEN 1 ELSE 0
             /\ Short(i)' = restarts + IF i >= index THEN 1 ELSE 0
  <2>1. Unfilled(i) = IF i > index THEN 1 ELSE 0
    BY <1>1, <1>3 DEF Unfilled
  <2>2. Unfilled(i)' = IF i >= index THEN 1 ELSE 0
    BY <1>1, <1>3 DEF Unfilled
  <2> QED
    BY <1>1, <1>3, <1>6, <2>1, <2>2 DEF Short
<1>8. ASSUME NEW i \in 0..log.backups
      PROVE  \E j \in 0..log.backups :
               /\ \A h \in DOMAIN files : h <= j /\ files[h] # << >> =>
                    \E g \in DOMAIN files' : g <= i /\ files'[g] = files[h]
               /\ Due(i)' <= Due(j)
  <2>1. \A j \in 0..log.backups : Due(j) \in Int /\ Due(j) = Written + log.lines * (j - Short(j))
    BY <1>1, Measures DEF Due
  <2>2. CASE i = index
    <3>1. PICK j \in 0..log.backups : j = i - 1 /\ j < index
      BY <1>1, <1>3, <2>2
    <3>2. i - Short(i)' = j - Short(j)
      <4>1. Short(i)' = restarts + 1
        BY <1>1, <1>3, <1>7, <2>2
      <4>2. Short(j) = restarts
        BY <1>1, <1>3, <1>7, <3>1
      <4> QED
        BY <1>1, <3>1, <4>1, <4>2
    <3>3. Due(i)' = Written + log.lines * (j - Short(j))
      BY <1>3, <1>6, <3>2 DEF Due
    <3>4. Due(i)' <= Due(j)
      BY <2>1, <3>3
    <3>5. \A h \in DOMAIN files : h <= j => h # index /\ h <= i
      BY <1>1, <1>3, <2>2, <3>1 DEF Types
    <3> QED
      BY <1>4, <3>4, <3>5
  <2>3. CASE i # index
    <3>1. Short(i)' = Short(i)
      BY <1>1, <1>3, <1>7, <2>3
    <3>2. Due(i)' = Due(i)
      BY <1>3, <1>6, <3>1 DEF Due
    <3>3. Due(i)' <= Due(i)
      BY <2>1, <3>2
    <3>4. \A h \in DOMAIN files : h <= i /\ h = index => index + 1 <= i
      BY <1>1, <1>3, <2>3 DEF Types
    <3> QED
      BY <1>4, <3>3, <3>4
  <2> QED
    BY <2>2, <2>3
<1>9. Lost(loss)'
  BY <1>1, <1>2, <1>3, <1>5, <1>8, LostMoved
<1> QED
  BY <1>5, <1>9 DEF LossInv

(* The current file, which is full, becomes a backup. *)
LEMMA MoveCurrentLoses ==
  ASSUME IInv, IInv', LossInv, MoveCurrent
  PROVE  LossInv'
<1>1. /\ Types /\ Types' /\ Staged /\ Sized
      /\ log.backups \in Nat \ {0} /\ log.lines \in Nat \ {0} /\ restarts \in Nat
  BY Sizes DEF IInv, LossInv, Types
<1>2. PICK loss \in Nat : Lost(loss)
  BY DEF LossInv
<1>3. /\ pc = "move" /\ pc' = "open" /\ usable /\ UNCHANGED <<log, size, usable, appended, torn, restarts>>
      /\ 0 \in DOMAIN files /\ 1 \notin DOMAIN files /\ size >= log.lines /\ size \in Nat
      /\ files' = Renamed(0, 1)
  BY <1>1 DEF MoveCurrent, Goto, Staged, Sized, Types
<1>4. /\ \A h \in DOMAIN files : h # 0 => h \in DOMAIN files' /\ files'[h] = files[h]
      /\ 1 \in DOMAIN files' /\ files'[1] = files[0] /\ 0 \notin DOMAIN files'
  <2>1. files' = [i \in (DOMAIN files \ {0}) \cup {1} |-> IF i = 1 THEN files[0] ELSE files[i]]
    BY <1>3 DEF Renamed
  <2> QED
    BY <1>3, <2>1
<1>5. Sized' /\ ~Unclosed'
  BY <1>3, <1>4 DEF Sized, Unclosed
<1>6. Written = size /\ Written' = 0
  BY <1>3, <1>4 DEF Written
<1>7. ASSUME NEW i \in 0..log.backups
      PROVE  Short(i) = restarts + (IF i >= 1 THEN 1 ELSE 0) /\ Short(i)' = restarts
  <2>1. Unfilled(i) = (IF i >= 1 THEN 1 ELSE 0) /\ Unfilled(i)' = 0
    BY <1>1, <1>3 DEF Unfilled
  <2> QED
    BY <1>1, <1>3, <2>1 DEF Short
<1>8. ASSUME NEW i \in 0..log.backups
      PROVE  Due(i)' <= 0 \/ \E j \in 0..log.backups :
               /\ \A h \in DOMAIN files : h <= j /\ files[h] # << >> =>
                    \E g \in DOMAIN files' : g <= i /\ files'[g] = files[h]
               /\ Due(i)' <= Due(j)
  <2>1. PICK x \in Int : x = i - restarts
    BY <1>1
  <2>2. log.lines * x \in Int /\ log.lines * (x - 1) = log.lines * x - log.lines
    BY <1>1, Products
  <2>3. Due(i)' = log.lines * x
    BY <1>3, <1>6, <1>7, <2>1, <2>2 DEF Due
  <2>4. CASE i = 0
    <3>1. x <= 0
      BY <1>1, <2>1, <2>4
    <3>2. log.lines * x <= log.lines * 0
      BY <1>1, <3>1, Products
    <3> QED
      BY <1>1, <2>3, <3>2
  <2>5. CASE i # 0
    <3>1. i - Short(i) = x - 1
      BY <1>1, <1>7, <2>1, <2>5
    <3>2. Due(i) = size + (log.lines * x - log.lines)
      BY <1>6, <2>2, <3>1 DEF Due
    <3>3. PICK lx \in Int : lx = log.lines * x
      BY <2>2
    <3>4. Due(i)' <= Due(i)
      <4>1. lx <= size + (lx - log.lines)
        BY <1>1, <1>3
      <4> QED
        BY <2>3, <3>2, <3>3, <4>1
    <3>5. \A h \in DOMAIN files : h <= i /\ h = 0 => 1 <= i
      BY <1>1, <2>5 DEF Types
    <3> QED
      BY <1>4, <3>4, <3>5
  <2> QED
    BY <2>4, <2>5
<1>9. Lost(loss)'
  BY <1>1, <1>2, <1>3, <1>5, <1>8, LostMoved
<1> QED
  BY <1>5, <1>9 DEF LossInv

(* A line that is written follows the last, or is glued to it. *)
LEMMA LineFollows ==
  ASSUME Types, 0 \in DOMAIN files, ~Unclosed, NEW new \in AnyLine, NEW glued \in AnyLine,
         files' = [files EXCEPT ![0] = WithLine(@, new, glued)]
  PROVE  /\ Len(files[0]) \in Nat
         /\ DOMAIN files' = DOMAIN files /\ DOMAIN files'[0] = 1..(Len(files[0]) + 1)
         /\ Len(files'[0]) = Len(files[0]) + 1 /\ files'[0][Len(files[0]) + 1] = new
         /\ \A i, k : HasRecord(i, k) => HasRecord(i, k)' /\ files'[i][k] = files[i][k]
<1>1. PICK old \in Seq(AnyLine) : old = files[0]
  BY DEF Types
<1>2. files'[0] = Append(old, new) /\ DOMAIN files' = DOMAIN files
      /\ \A i \in DOMAIN files : i # 0 => files'[i] = files[i]
  BY <1>1 DEF WithLine, Unclosed
<1>3. /\ Len(old) \in Nat /\ DOMAIN old = 1..Len(old)
      /\ DOMAIN files'[0] = 1..(Len(old) + 1)
      /\ Len(files'[0]) = Len(old) + 1 /\ files'[0][Len(old) + 1] = new
      /\ \A k \in 1..Len(old) : files'[0][k] = old[k]
  BY <1>1, <1>2, AppendProperties
<1>4. ASSUME NEW i, NEW k, HasRecord(i, k) PROVE HasRecord(i, k)' /\ files'[i][k] = files[i][k]
  <2>1. i \in DOMAIN files /\ k \in DOMAIN files[i] /\ Decodes(files[i][k])
    BY <1>4 DEF HasRecord, HasLine
  <2>2. files'[i][k] = files[i][k] /\ k \in DOMAIN files'[i]
    BY <1>1, <1>2, <1>3, <2>1
  <2> QED
    BY <1>2, <2>1, <2>2 DEF HasRecord, HasLine, Decodes
<1> QED
  BY <1>1, <1>2, <1>3, <1>4

LEMMA LineGlued ==
  ASSUME Types, Unclosed, NEW new \in AnyLine, NEW glued \in AnyLine,
         files' = [files EXCEPT ![0] = WithLine(@, new, glued)]
  PROVE  /\ Len(files[0]) \in Nat /\ Len(files'[0]) = Len(files[0]) /\ DOMAIN files' = DOMAIN files
         /\ Last(files'[0]) = glued
         /\ \A i, k : HasRecord(i, k) /\ ~(i = 0 /\ k = Len(files[0])) =>
              HasRecord(i, k)' /\ files'[i][k] = files[i][k]
<1>1. PICK old \in Seq(AnyLine) : old = files[0] /\ old # << >>
  BY DEF Types, Unclosed
<1>2. files'[0] = Front(old) \o <<glued>> /\ DOMAIN files' = DOMAIN files
      /\ \A i \in DOMAIN files : i # 0 => files'[i] = files[i]
  BY <1>1 DEF WithLine, Unclosed
<1>3. files'[0] = WithLine(old, new, glued)
  BY <1>1 DEF Unclosed
<1>4. Len(old) \in Nat /\ Len(old) > 0
  BY <1>1
<1>5. /\ files'[0] \in Seq(AnyLine) /\ Len(files'[0]) = Len(old) /\ files'[0][Len(old)] = glued
      /\ DOMAIN files'[0] = 1..Len(old) /\ DOMAIN old = 1..Len(old)
      /\ \A k \in 1..(Len(old) - 1) : files'[0][k] = old[k]
  <2>1. PICK n \in Nat : n = Len(old) /\ n > 0
    BY <1>4
  <2>2. /\ Front(old) \in Seq(AnyLine) /\ Len(Front(old)) = Len(old) - 1
        /\ \A k \in 1..(Len(old) - 1) : Front(old)[k] = old[k]
    BY ONLY old \in Seq(AnyLine), <1>4, AllButTheLast, Zenon
  <2>3. PICK front \in Seq(AnyLine) :
          front = Front(old) /\ Len(front) = n - 1 /\ \A k \in 1..(n - 1) : front[k] = old[k]
    BY ONLY <2>1, <2>2
  <2>4. files'[0] = Append(front, glued)
    BY <1>2, <2>3, AppendIsConcat
  <2>5. /\ Append(front, glued) \in Seq(AnyLine) /\ Len(Append(front, glued)) = Len(front) + 1
        /\ Append(front, glued)[Len(front) + 1] = glued
        /\ DOMAIN Append(front, glued) = 1..(Len(front) + 1)
        /\ \A k \in 1..Len(front) : Append(front, glued)[k] = front[k]
    BY ONLY front \in Seq(AnyLine), glued \in AnyLine, AppendProperties
  <2>6. Len(front) + 1 = n
    BY <2>1, <2>3
  <2>7. DOMAIN old = 1..n
    BY <2>1
  <2> QED
    BY <2>1, <2>3, <2>4, <2>5, <2>6, <2>7
<1>6. Last(files'[0]) = glued
  BY <1>5 DEF Last
<1>7. ASSUME NEW i, NEW k, HasRecord(i, k), ~(i = 0 /\ k = Len(old))
      PROVE  HasRecord(i, k)' /\ files'[i][k] = files[i][k]
  <2>1. i \in DOMAIN files /\ k \in DOMAIN files[i] /\ Decodes(files[i][k])
    BY <1>7 DEF HasRecord, HasLine
  <2>2. files'[i][k] = files[i][k] /\ k \in DOMAIN files'[i]
    BY <1>1, <1>2, <1>4, <1>5, <1>7, <2>1
  <2> QED
    BY <1>2, <2>1, <2>2 DEF HasRecord, HasLine, Decodes
<1> QED
  BY <1>1, <1>2, <1>4, <1>5, <1>6, <1>7

(* A record that follows is one more; one that is glued costs the other. *)
LEMMA OneMoreHeld ==
  ASSUME Types, Types', NoGap, 0 \in DOMAIN files, ~Unclosed, NEW new \in AnyLine, NEW glued \in AnyLine,
         files' = [files EXCEPT ![0] = WithLine(@, new, glued)],
         appended' = appended \/ (appended' = appended + 1 /\ Decodes(new) /\ new.seq = appended + 1),
         NEW i \in Nat
  PROVE  Cardinality(Seqs(i)') >= Cardinality(Seqs(i)) + (appended' - appended)
<1>1. /\ Len(files[0]) \in Nat
      /\ DOMAIN files' = DOMAIN files /\ DOMAIN files'[0] = 1..(Len(files[0]) + 1)
      /\ files'[0][Len(files[0]) + 1] = new
      /\ \A j, k : HasRecord(j, k) => HasRecord(j, k)' /\ files'[j][k] = files[j][k]
  BY LineFollows
<1>2. appended \in Nat
  BY DEF Types
<1>3. /\ IsFiniteSet(Seqs(i)) /\ Cardinality(Seqs(i)) \in Nat
      /\ IsFiniteSet(Seqs(i)') /\ Cardinality(Seqs(i)') \in Nat
  BY Measures
<1>4. Seqs(i) \in SUBSET Seqs(i)'
  <2> SUFFICES ASSUME NEW n \in Seqs(i) PROVE n \in Seqs(i)'
    OBVIOUS
  <2>1. PICK j, k : j <= i /\ HasRecord(j, k) /\ files[j][k].seq = n
    BY DEF Seqs
  <2>2. HasRecord(j, k)' /\ files'[j][k].seq = n
    BY <1>1, <2>1
  <2>3. n \in 1..appended'
    BY <1>2 DEF Seqs
  <2> QED
    BY <2>1, <2>2, <2>3 DEF Seqs
<1>5. CASE appended' = appended
  <2>1. Cardinality(Seqs(i)) <= Cardinality(Seqs(i)')
    BY <1>3, <1>4, FS_Subset
  <2> QED
    BY <1>2, <1>3, <1>5, <2>1
<1>6. CASE appended' = appended + 1 /\ Decodes(new) /\ new.seq = appended + 1
  <2>1. PICK n \in Nat : n = appended + 1
    BY <1>2
  <2>2. n \notin Seqs(i)
    BY <1>2, <2>1 DEF Seqs
  <2>3. n \in Seqs(i)'
    <3>1. PICK k \in Nat : k = Len(files[0]) + 1
      BY <1>1
    <3>2. HasRecord(0, k)' /\ files'[0][k].seq = n
      BY <1>1, <1>6, <2>1, <3>1 DEF HasRecord, HasLine, Decodes
    <3>3. n \in 1..appended' /\ 0 <= i
      BY <1>2, <1>6, <2>1
    <3> QED
      BY <3>2, <3>3 DEF Seqs
  <2>4. IsFiniteSet(Seqs(i) \cup {n}) /\ Cardinality(Seqs(i) \cup {n}) = Cardinality(Seqs(i)) + 1
    BY <1>3, <2>2, FS_AddElement
  <2>5. Seqs(i) \cup {n} \in SUBSET Seqs(i)'
    BY <1>4, <2>3
  <2>6. Cardinality(Seqs(i) \cup {n}) <= Cardinality(Seqs(i)')
    BY <1>3, <2>5, FS_Subset
  <2> QED
    BY <1>2, <1>3, <1>6, <2>4, <2>6
<1> QED
  BY <1>5, <1>6

LEMMA OneLessHeld ==
  ASSUME Types, Types', Unclosed, NEW new \in AnyLine, NEW glued \in AnyLine,
         files' = [files EXCEPT ![0] = WithLine(@, new, glued)],
         appended' = appended \/ appended' = appended + 1, NEW i
  PROVE  Cardinality(Seqs(i)') + 1 >= Cardinality(Seqs(i))
<1>1. \A j, k : HasRecord(j, k) /\ ~(j = 0 /\ k = Len(files[0])) =>
        HasRecord(j, k)' /\ files'[j][k] = files[j][k]
  BY LineGlued
<1>2. appended \in Nat
  BY DEF Types
<1>3. /\ IsFiniteSet(Seqs(i)) /\ Cardinality(Seqs(i)) \in Nat
      /\ IsFiniteSet(Seqs(i)') /\ Cardinality(Seqs(i)') \in Nat
  BY Measures
<1>4. PICK last : last = files[0][Len(files[0])].seq
  OBVIOUS
<1>5. Seqs(i) \ {last} \in SUBSET Seqs(i)'
  <2> SUFFICES ASSUME NEW n \in Seqs(i), n # last PROVE n \in Seqs(i)'
    OBVIOUS
  <2>1. PICK j, k : j <= i /\ HasRecord(j, k) /\ files[j][k].seq = n
    BY DEF Seqs
  <2>2. HasRecord(j, k)' /\ files'[j][k].seq = n
    BY <1>1, <1>4, <2>1
  <2>3. n \in 1..appended'
    BY <1>2 DEF Seqs
  <2> QED
    BY <2>1, <2>2, <2>3 DEF Seqs
<1>6. Cardinality(Seqs(i) \ {last}) <= Cardinality(Seqs(i)')
  BY <1>3, <1>5, FS_Subset
<1>7. Cardinality(Seqs(i) \ {last}) \in {Cardinality(Seqs(i)), Cardinality(Seqs(i)) - 1}
  BY <1>3, FS_RemoveElement
<1> QED
  BY <1>3, <1>6, <1>7

LEMMA EnoughWritten ==
  ASSUME Types, Types', NEW loss \in Nat, NEW more \in Nat, NEW i \in Nat, Enough(i, loss),
         appended' = appended \/ appended' = appended + 1,
         Cardinality(Seqs(i)') + more >= Cardinality(Seqs(i)) + (appended' - appended),
         Due(i)' <= Due(i) + (appended' - appended)
  PROVE  Enough(i, loss + more)'
<1>1. PICK held \in Nat, now \in Nat : held = Cardinality(Seqs(i)) /\ now = Cardinality(Seqs(i)')
  BY Measures
<1>2. PICK due \in Int, owed \in Int : due = Due(i) /\ owed = Due(i)'
  BY Measures
<1>3. appended \in Nat
  BY DEF Types
<1>4. PICK new \in {0, 1} : appended' = appended + new /\ appended' - appended = new
  <2>1. appended + 0 = appended /\ appended - appended = 0 /\ (appended + 1) - appended = 1
    BY <1>3
  <2> QED
    BY <2>1
<1>5. now + more >= held + new /\ owed <= due + new /\ (held + loss >= appended \/ held + loss >= due)
  BY <1>1, <1>2, <1>4 DEF Enough
<1>6. now + (loss + more) >= appended + new \/ now + (loss + more) >= owed
  BY <1>3, <1>5
<1> QED
  BY <1>1, <1>2, <1>4, <1>6 DEF Enough

LEMMA LostWritten ==
  ASSUME Types, Types', NoGap, Retained, NEW was \in Nat, Lost(was), 0 \in DOMAIN files, usable,
         NEW new \in AnyLine, NEW glued \in AnyLine,
         files' = [files EXCEPT ![0] = WithLine(@, new, glued)],
         log' = log, restarts' = restarts, torn' = torn \/ torn' = TRUE, ~(usable' /\ Unclosed'),
         appended' = appended \/ (appended' = appended + 1 /\ Decodes(new) /\ new.seq = appended + 1),
         \A i \in Nat : Due(i)' <= Due(i) + (appended' - appended)
  PROVE  \E loss \in Nat : Lost(loss)'
<1>1. restarts \in Nat /\ log.backups \in Nat
  BY Sizes DEF Types
<1>2. was <= 2 * restarts /\ (Unclosed => was <= 2 * restarts - 2) /\ (~torn => was = 0)
  BY DEF Lost
<1>3. appended' = appended \/ appended' = appended + 1
  OBVIOUS
<1>4. \A i \in 0..log.backups : i \in Nat /\ Enough(i, was)
  BY <1>1 DEF Lost
<1>5. CASE ~Unclosed
  <2>1. ASSUME NEW i \in 0..log.backups PROVE Enough(i, was)'
    <3>1. Cardinality(Seqs(i)') >= Cardinality(Seqs(i)) + (appended' - appended)
      BY <1>4, <1>5, OneMoreHeld
    <3>2. Cardinality(Seqs(i)) \in Nat /\ Cardinality(Seqs(i)') \in Nat
      BY Measures
    <3>3. Cardinality(Seqs(i)') + 0 >= Cardinality(Seqs(i)) + (appended' - appended)
      BY <3>1, <3>2
    <3>4. Enough(i, was + 0)'
      BY <1>3, <1>4, <3>3, EnoughWritten
    <3>5. was + 0 = was
      OBVIOUS
    <3> QED
      BY <3>4, <3>5
  <2>2. was <= 2 * restarts' /\ (usable' /\ Unclosed' => was <= 2 * restarts' - 2) /\ (~torn' => was = 0)
    BY <1>2
  <2>3. Lost(was)'
    BY <2>1, <2>2 DEF Lost
  <2> QED
    BY <2>3
<1>6. CASE Unclosed
  <2>1. torn
    <3> SUFFICES ASSUME ~torn PROVE FALSE
      OBVIOUS
    <3>1. Numbered
      BY DEF Retained
    <3>2. files[0] \in Seq(AnyLine) /\ files[0] # << >> /\ Unfinished(Last(files[0]))
      BY <1>6 DEF Types, Unclosed
    <3>3. Len(files[0]) \in 1..Len(files[0]) /\ Last(files[0]) = files[0][Len(files[0])]
      BY <3>2 DEF Last
    <3>4. Last(files[0]).kind = "whole"
      BY <3>1, <3>3 DEF Numbered
    <3> QED
      BY <3>2, <3>4 DEF Unfinished
  <2>2. PICK loss \in Nat : loss = was + 2
    OBVIOUS
  <2>3. ASSUME NEW i \in 0..log.backups PROVE Enough(i, loss)'
    <3>1. Cardinality(Seqs(i)') + 1 >= Cardinality(Seqs(i))
      BY <1>3, <1>6, OneLessHeld
    <3>2. Cardinality(Seqs(i)) \in Nat /\ Cardinality(Seqs(i)') \in Nat /\ appended \in Nat
      BY Measures DEF Types
    <3>3. Cardinality(Seqs(i)') + 2 >= Cardinality(Seqs(i)) + (appended' - appended)
      BY <1>3, <3>1, <3>2
    <3>4. Enough(i, was + 2)'
      BY <1>3, <1>4, <3>3, EnoughWritten
    <3> QED
      BY <2>2, <3>4
  <2>4. loss <= 2 * restarts'
    <3>1. PICK r \in Nat : r = 2 * restarts
      BY <1>1
    <3> QED
      BY <1>2, <1>6, <2>2, <3>1
  <2>5. torn'
    BY <2>1
  <2>6. Lost(loss)'
    BY <2>3, <2>4, <2>5 DEF Lost
  <2> QED
    BY <2>6
<1> QED
  BY <1>5, <1>6

LEMMA WriteLoses ==
  ASSUME IInv, IInv', LossInv, Write
  PROVE  LossInv'
<1>1. /\ Types /\ Types' /\ Staged /\ NoGap /\ Retained /\ Sized
      /\ restarts \in Nat /\ size \in Nat /\ appended \in Nat
  BY DEF IInv, LossInv, Types
<1>2. PICK was \in Nat : Lost(was)
  BY DEF LossInv
<1>3. /\ pc = "write" /\ pc' = "idle" /\ usable /\ usable' /\ 0 \in DOMAIN files /\ line \in AnyLine
      /\ Decodes(line) /\ line.kind = "whole" /\ line.seq = appended + 1
      /\ files' = [files EXCEPT ![0] = WithLine(@, line, Garbled)]
      /\ size' = size + 1 /\ appended' = appended + 1
      /\ UNCHANGED <<log, usable, torn, restarts>>
  BY <1>1 DEF Write, Goto, Staged, Decodes
<1>4. Garbled \in AnyLine
  BY LineTypes
<1>5. /\ Len(files[0]) \in Nat /\ DOMAIN files' = DOMAIN files /\ Len(files'[0]) <= Len(files[0]) + 1
      /\ Last(files'[0]) = line \/ Last(files'[0]) = Garbled
  <2>1. CASE ~Unclosed
    <3>1. /\ Len(files[0]) \in Nat /\ DOMAIN files' = DOMAIN files /\ Len(files'[0]) = Len(files[0]) + 1
          /\ files'[0][Len(files[0]) + 1] = line
      BY <1>1, <1>3, <1>4, <2>1, LineFollows
    <3> QED
      BY <3>1 DEF Last
  <2>2. CASE Unclosed
    <3>1. /\ Len(files[0]) \in Nat /\ DOMAIN files' = DOMAIN files /\ Len(files'[0]) = Len(files[0])
          /\ Last(files'[0]) = Garbled
      BY <1>1, <1>3, <1>4, <2>2, LineGlued
    <3> QED
      BY <3>1
  <2> QED
    BY <2>1, <2>2
<1>6. ~Unclosed'
  BY <1>3, <1>5 DEF Unclosed, Unfinished, Garbled, LineOf
<1>7. Sized'
  BY <1>1, <1>3, <1>5 DEF Sized
<1>8. ASSUME NEW i \in Nat PROVE Due(i)' <= Due(i) + (appended' - appended)
  <2>1. Unfilled(i) = 0 /\ Unfilled(i)' = 0
    BY <1>3 DEF Unfilled
  <2>2. Written' = Written + 1 /\ Written \in Nat
    BY <1>1, <1>3, <1>5 DEF Written
  <2>3. Short(i)' = Short(i)
    BY <1>3, <2>1 DEF Short
  <2>4. PICK x \in Int : x = log.lines * (i - Short(i))
    BY <1>1, Sizes, Measures
  <2>5. Due(i) = Written + x /\ Due(i)' = (Written + 1) + x
    BY <1>3, <2>2, <2>3, <2>4 DEF Due
  <2> QED
    BY <1>1, <1>3, <2>2, <2>5
<1>9. \E loss \in Nat : Lost(loss)'
  BY <1>1, <1>2, <1>3, <1>4, <1>6, <1>8, LostWritten
<1> QED
  BY <1>7, <1>9 DEF LossInv

LEMMA WriteFailsLoses ==
  ASSUME IInv, IInv', LossInv, WriteFails
  PROVE  LossInv'
<1>1. /\ Types /\ Types' /\ Staged /\ NoGap /\ Retained /\ Sized
      /\ restarts \in Nat /\ size \in Nat /\ appended \in Nat
  BY DEF IInv, LossInv, Types
<1>2. PICK was \in Nat : Lost(was)
  BY DEF LossInv
<1>3. /\ pc = "write" /\ pc' = "idle" /\ usable /\ usable' = FALSE /\ 0 \in DOMAIN files /\ line \in AnyLine
      /\ line.kind = "whole" /\ line.seq = appended + 1
      /\ UNCHANGED <<log, size, restarts>> /\ size < log.lines
  BY <1>1 DEF WriteFails, Goto, Staged, Sized
<1> DEFINE open == [line EXCEPT !.kind = "open"]
<1>4. open \in AnyLine /\ Decodes(open) /\ open.seq = appended + 1 /\ Torn \in AnyLine
  BY <1>3, LineTypes DEF AnyLine, Decodes
<1>5. /\ UNCHANGED <<files, appended, torn>>
      \/ /\ files' = [files EXCEPT ![0] = WithLine(@, Torn, Torn)]
         /\ torn' = TRUE /\ appended' = appended
      \/ /\ files' = [files EXCEPT ![0] = WithLine(@, open, Torn)]
         /\ torn' = TRUE /\ appended' = appended + 1
  BY DEF WriteFails
<1> HIDE DEF open
<1>6. ASSUME NEW i \in Nat, DOMAIN files' = DOMAIN files PROVE Due(i)' = Due(i) /\ Due(i) \in Int
  <2>1. Unfilled(i) = 0 /\ Unfilled(i)' = 0
    BY <1>3 DEF Unfilled
  <2>2. Written' = Written /\ Written < log.lines
    BY <1>1, <1>3, <1>6, Sizes DEF Written
  <2>3. Short(i)' = Short(i)
    <3>1. ~(Written >= log.lines)
      BY <1>1, <2>2, Sizes, Measures
    <3> QED
      BY <1>3, <2>1, <2>2, <3>1 DEF Short
  <2> QED
    BY <1>1, <1>3, <2>2, <2>3, Measures DEF Due
<1>7. CASE UNCHANGED <<files, appended, torn>>
  <2>1. Sized'
    BY <1>1, <1>3, <1>7 DEF Sized
  <2>2. \A i \in 0..log.backups :
           /\ \A h \in DOMAIN files : h <= i /\ files[h] # << >> =>
                \E g \in DOMAIN files' : g <= i /\ files'[g] = files[h]
           /\ Due(i)' <= Due(i)
    BY <1>1, <1>6, <1>7, Sizes
  <2>3. Lost(was)'
    BY <1>1, <1>2, <1>3, <1>7, <2>2, LostMoved
  <2> QED
    BY <2>1, <2>3 DEF LossInv
<1>8. ASSUME NEW new \in AnyLine, torn' = TRUE,
             files' = [files EXCEPT ![0] = WithLine(@, new, Torn)],
             appended' = appended \/ (appended' = appended + 1 /\ Decodes(new) /\ new.seq = appended + 1)
      PROVE  LossInv'
  <2>1. /\ Len(files[0]) \in Nat /\ DOMAIN files' = DOMAIN files /\ Len(files'[0]) <= Len(files[0]) + 1
    <3>1. CASE ~Unclosed
      <4>1. /\ Len(files[0]) \in Nat /\ DOMAIN files' = DOMAIN files /\ Len(files'[0]) = Len(files[0]) + 1
        BY <1>1, <1>3, <1>4, <1>8, <3>1, LineFollows
      <4> QED
        BY <4>1
    <3>2. CASE Unclosed
      <4>1. /\ Len(files[0]) \in Nat /\ DOMAIN files' = DOMAIN files /\ Len(files'[0]) = Len(files[0])
        BY <1>1, <1>3, <1>4, <1>8, <3>2, LineGlued
      <4> QED
        BY <4>1
    <3> QED
      BY <3>1, <3>2
  <2>2. Sized'
    BY <1>1, <1>3, <2>1 DEF Sized
  <2>3. \A i \in Nat : Due(i)' <= Due(i) + (appended' - appended)
    <3>1. appended' - appended \in {0, 1}
      BY <1>1, <1>8
    <3> QED
      BY <1>6, <2>1, <3>1
  <2>4. \E loss \in Nat : Lost(loss)'
    BY <1>1, <1>2, <1>3, <1>4, <1>8, <2>3, LostWritten
  <2> QED
    BY <2>2, <2>4 DEF LossInv
<1> QED
  BY <1>4, <1>5, <1>7, <1>8

LEMMA LossAlways == Spec => [](IInv /\ Contents /\ LossInv)
<1>1. Init => LossInv
  <2> SUFFICES ASSUME Init PROVE LossInv
    OBVIOUS
  <2>1. Types
    BY InitHolds DEF IInv
  <2>2. /\ pc = "idle" /\ usable /\ files = [i \in {0} |-> << >>] /\ size = 0
        /\ appended = 0 /\ restarts = 0
    BY DEF Init
  <2>3. Sized
    BY <2>2 DEF Sized
  <2>4. ~Unclosed
    BY <2>2 DEF Unclosed
  <2>5. \A i \in 0..log.backups : Enough(i, 0)
    BY <2>1, <2>2, Measures DEF Enough
  <2>6. Lost(0)
    BY <2>2, <2>4, <2>5 DEF Lost
  <2> QED
    BY <2>3, <2>6 DEF LossInv
<1>2. IInv /\ IInv' /\ LossInv /\ [Next]_vars => LossInv'
  <2> SUFFICES ASSUME IInv, IInv', LossInv, [Next]_vars PROVE LossInv'
    OBVIOUS
  <2>1. ASSUME NEW about \in log.records,
               NEW late \in 0..log.skew, BeginAppend(about, appended + 1 - late)
        PROVE  LossInv'
    BY <2>1, BeginAppendLoses
  <2> QED
    BY <2>1, WriteLoses, WriteFailsLoses, RemoveOldestLoses, ShiftBackupLoses, MoveCurrentLoses,
       ReopenLoses, RotationFailsLoses, RestartLoses, StutterLoses DEF Next
<1> QED
  BY <1>1, <1>2, ContentsAlways, PTL DEF Spec

-----------------------------------------------------------------------------
(* What the summaries count. *)

(* The lines that are records. *)
Recs == {k \in DOMAIN Lines : Decodes(Lines[k])}

IsDuration(k) == Lines[k].about.metric = "provider_duration_ms"

(* The lines are finitely many, the records among them valid and in the    *)
(* order they were appended.                                               *)
Counts ==
  /\ IsFiniteSet(DOMAIN Lines)
  /\ \A k \in Recs : /\ k \in Int /\ IsValidStatsRecord(Lines[k].about)
                     /\ Lines[k].about.app \in StatsApps /\ Lines[k].about.value \in Nat
                     /\ ~IsDuration(k) => Lines[k].about.value = 1
                     /\ Lines[k].at \in (1 - log.skew)..appended /\ Lines[k].seq \in 1..appended
  /\ \A j, k \in Recs : j < k => Lines[j].seq < Lines[k].seq
  /\ \A i : \A n \in Seqs(i) : \E k \in Recs : Lines[k].seq = n

LEMMA StatsCount ==
  ASSUME IInv, Contents, log.name = "stats"
  PROVE  Counts
<1>1. Types /\ Ordered /\ NoGap /\ log \in Logs /\ appended \in Nat /\ log.skew \in Nat
  BY SizeAssumption DEF IInv, Types
<1>2. /\ Lines \in Seq(AnyLine)
      /\ \A n \in DOMAIN Lines : \E i, k : HasLine(i, k) /\ Lines[n] = files[i][k]
      /\ \A i, k : HasLine(i, k) => \E n \in DOMAIN Lines : Lines[n] = files[i][k]
      /\ \A m, n \in DOMAIN Lines : m < n /\ Decodes(Lines[m]) /\ Decodes(Lines[n]) =>
           Lines[m].seq < Lines[n].seq
  BY <1>1, Reading
<1>3. PICK n \in Nat : Len(Lines) = n /\ DOMAIN Lines = 1..n
  BY <1>2
<1>4. IsFiniteSet(DOMAIN Lines)
  <2> DEFINE one == 1
  <2>1. one \in Int /\ n \in Int /\ one..n = DOMAIN Lines
    BY <1>3
  <2> HIDE DEF one
  <2> QED
    BY <2>1, FS_Interval
<1>5. ASSUME NEW k \in Recs
      PROVE  /\ k \in Int /\ IsValidStatsRecord(Lines[k].about)
             /\ Lines[k].about.app \in StatsApps /\ Lines[k].about.value \in Nat
             /\ ~IsDuration(k) => Lines[k].about.value = 1
             /\ Lines[k].at \in (1 - log.skew)..appended /\ Lines[k].seq \in 1..appended
  <2>1. PICK i, j : HasLine(i, j) /\ Lines[k] = files[i][j]
    BY <1>2 DEF Recs
  <2>2. HasRecord(i, j)
    BY <2>1 DEF HasRecord, Recs
  <2>3. /\ Lines[k].about \in log.records /\ Lines[k].at \in (Lines[k].seq - log.skew)..Lines[k].seq
        /\ Lines[k].seq >= 1 /\ Lines[k].seq <= appended
    BY <1>1, <2>1, <2>2 DEF Contents, Content, NoGap
  <2>4. Lines[k] \in AnyLine /\ k \in Int
    BY <1>2, <1>3, ElementOfSeq DEF Recs
  <2>5. Lines[k].seq \in Nat /\ Lines[k].at \in Int
    BY <2>4 DEF AnyLine
  <2>6. Lines[k].seq \in 1..appended /\ Lines[k].at \in (1 - log.skew)..appended
    BY <1>1, <2>3, <2>5
  <2>7. /\ IsValidStatsRecord(Lines[k].about)
        /\ Lines[k].about.app \in StatsApps /\ Lines[k].about.value \in Nat
        /\ ~IsDuration(k) => Lines[k].about.value = 1
    BY <1>1, <2>3, RecordsAssumption DEF IsDuration
  <2> QED
    BY <2>4, <2>6, <2>7
<1>6. \A j, k \in Recs : j < k => Lines[j].seq < Lines[k].seq
  BY <1>2 DEF Recs
<1>7. ASSUME NEW i, NEW m \in Seqs(i) PROVE \E k \in Recs : Lines[k].seq = m
  <2>1. PICK j, k : HasRecord(j, k) /\ files[j][k].seq = m
    BY DEF Seqs
  <2>2. PICK l \in DOMAIN Lines : Lines[l] = files[j][k]
    BY <1>2, <2>1 DEF HasRecord
  <2> QED
    BY <2>1, <2>2 DEF HasRecord, Recs
<1> QED
  BY <1>4, <1>5, <1>6, <1>7 DEF Counts

(* As many members as there are in all the groups. *)
LEMMA Grouped ==
  ASSUME NEW D, IsFiniteSet(D), NEW key, NEW U,
         \A k \in D : key[k] = <<key[k][1], key[k][2]>>,
         \A u : u \in U <=> \E k \in D : \E r \in 1..Cardinality({j \in D : key[j] = key[k]}) :
                              u = <<key[k][1], <<key[k][2], r>>>>
  PROVE  IsFiniteSet(U) /\ Cardinality(U) = Cardinality(D)
<1> DEFINE Group(c) == {j \in D : key[j] = c}
           Listing(c) == CHOOSE b : b \in Bijection(1..Cardinality(Group(c)), Group(c))
           f == [u \in U |-> Listing(<<u[1], u[2][1]>>)[u[2][2]]]
<1>1. ASSUME NEW c PROVE Listing(c) \in Bijection(1..Cardinality(Group(c)), Group(c))
  <2>1. IsFiniteSet(Group(c))
    BY FS_Subset
  <2> HIDE DEF Group
  <2>2. \E b : b \in Bijection(1..Cardinality(Group(c)), Group(c))
    BY <2>1, FS_CardinalityType DEF ExistsBijection
  <2> QED
    BY <2>2
<1> HIDE DEF Listing
<1>2. ASSUME NEW u \in U
      PROVE  LET c == <<u[1], u[2][1]>>
             IN /\ u = <<c[1], <<c[2], u[2][2]>>>> /\ f[u] = Listing(c)[u[2][2]]
                /\ u[2][2] \in 1..Cardinality(Group(c))
  <2>1. PICK k \in D :
          \E r \in 1..Cardinality({j \in D : key[j] = key[k]}) : u = <<key[k][1], <<key[k][2], r>>>>
    OBVIOUS
  <2>2. PICK r \in 1..Cardinality({j \in D : key[j] = key[k]}) : u = <<key[k][1], <<key[k][2], r>>>>
    BY <2>1
  <2>3. <<u[1], u[2][1]>> = key[k] /\ u[2][2] = r
    BY <2>2
  <2> QED
    BY <2>2, <2>3
<1> HIDE DEF f
<1>3. ASSUME NEW u \in U PROVE f[u] \in D /\ key[f[u]] = <<u[1], u[2][1]>>
  <2>1. PICK c : c = <<u[1], u[2][1]>>
    OBVIOUS
  <2>2. f[u] \in Group(c)
    <3>1. Listing(c) \in [1..Cardinality(Group(c)) -> Group(c)]
      BY <1>1 DEF Bijection, Injection
    <3> HIDE DEF Group
    <3> QED
      BY <1>2, <2>1, <3>1
  <2> QED
    BY <2>1, <2>2
<1>4. f \in Injection(U, D)
  <2>1. ASSUME NEW u \in U, NEW v \in U, f[u] = f[v] PROVE u = v
    <3>1. PICK c : c = <<u[1], u[2][1]>>
      OBVIOUS
    <3>2. c = <<v[1], v[2][1]>>
      BY <1>3, <2>1, <3>1
    <3>3. /\ u = <<c[1], <<c[2], u[2][2]>>>> /\ f[u] = Listing(c)[u[2][2]]
          /\ u[2][2] \in 1..Cardinality(Group(c))
      BY <1>2, <3>1
    <3>4. /\ v = <<c[1], <<c[2], v[2][2]>>>> /\ f[v] = Listing(c)[v[2][2]]
          /\ v[2][2] \in 1..Cardinality(Group(c))
      BY <1>2, <3>2
    <3>5. \A a, b \in 1..Cardinality(Group(c)) : Listing(c)[a] = Listing(c)[b] => a = b
      <4> DEFINE members == 1..Cardinality(Group(c))
                 listing == Listing(c)
      <4>1. listing \in Bijection(members, Group(c))
        BY <1>1
      <4> HIDE DEF members, listing, Group
      <4>2. \A a, b \in members : listing[a] = listing[b] => a = b
        BY <4>1 DEF Bijection, Injection, IsInjective
      <4> QED
        BY <4>2 DEF members, listing
    <3>6. u[2][2] = v[2][2]
      BY <2>1, <3>3, <3>4, <3>5
    <3> QED
      BY <3>3, <3>4, <3>6
  <2>2. f \in [U -> D]
    BY <1>3 DEF f
  <2> QED
    BY <2>1, <2>2 DEF Injection, IsInjective
<1>5. f \in Surjection(U, D)
  <2>1. ASSUME NEW k \in D PROVE \E u \in U : f[u] = k
    <3>1. PICK c : c = key[k] /\ c = <<c[1], c[2]>>
      OBVIOUS
    <3>2. k \in Group(c)
      BY <3>1
    <3>3. PICK r \in 1..Cardinality(Group(c)) : Listing(c)[r] = k
      BY <1>1, <3>2 DEF Bijection, Surjection
    <3>4. PICK u : u = <<c[1], <<c[2], r>>>>
      OBVIOUS
    <3>5. u \in U
      BY <3>1, <3>3, <3>4
    <3>6. <<u[1], u[2][1]>> = c /\ u[2][2] = r
      BY <3>1, <3>4
    <3>7. f[u] = Listing(c)[r]
      BY <1>2, <3>5, <3>6
    <3> QED
      BY <3>3, <3>5, <3>7
  <2> QED
    BY <1>4, <2>1 DEF Injection, Surjection
<1> QED
  BY <1>4, <1>5, FS_Injection

(* What some records add up to. *)
Units(some) == UNION {{k} \X (1..Lines[k].about.value) : k \in some}

LEMMA SumIsNumber ==
  ASSUME Counts, NEW some \in SUBSET Recs
  PROVE  /\ IsFiniteSet(some) /\ IsFiniteSet(Units(some))
         /\ SumOf(Lines, some) = Cardinality(Units(some)) /\ SumOf(Lines, some) \in Nat
<1>1. IsFiniteSet(some)
  <2>1. some \in SUBSET DOMAIN Lines
    BY DEF Recs
  <2> QED
    BY <2>1, FS_Subset DEF Counts
<1> DEFINE Of(k) == {k} \X (1..Lines[k].about.value)
           all == {Of(k) : k \in some}
<1>2. \A k \in some : IsFiniteSet(Of(k))
  <2> SUFFICES ASSUME NEW k \in some PROVE IsFiniteSet(Of(k))
    OBVIOUS
  <2>1. Lines[k].about.value \in Int
    BY DEF Counts
  <2>2. IsFiniteSet(1..Lines[k].about.value)
    <3> DEFINE one == 1
    <3>1. one \in Int
      OBVIOUS
    <3> HIDE DEF one
    <3>2. IsFiniteSet(one..Lines[k].about.value)
      BY <2>1, <3>1, FS_Interval
    <3> QED
      BY <3>2 DEF one
  <2>3. IsFiniteSet({k})
    BY FS_Singleton
  <2> QED
    BY <2>2, <2>3, FS_Product
<1>3. IsFiniteSet(all)
  <2> DEFINE f == [k \in some |-> Of(k)]
  <2>1. f \in Surjection(some, all)
    <3> HIDE DEF Of
    <3> QED
      BY DEF Surjection
  <2> HIDE DEF f, all
  <2> QED
    BY <1>1, <2>1, FS_Surjection
<1>4. \A T \in all : IsFiniteSet(T)
  BY <1>2
<1>5. Units(some) = UNION all
  BY DEF Units
<1> HIDE DEF all
<1>6. IsFiniteSet(Units(some))
  BY <1>3, <1>4, <1>5, FS_UNION
<1>7. SumOf(Lines, some) = Cardinality(Units(some))
  BY DEF SumOf, Units
<1> QED
  BY <1>1, <1>6, <1>7, FS_CardinalityType

LEMMA SumOfParts ==
  ASSUME Counts, NEW S \in SUBSET Recs, NEW T \in SUBSET Recs, S \cap T = {}
  PROVE  /\ SumOf(Lines, S \cup T) = SumOf(Lines, S) + SumOf(Lines, T)
         /\ Cardinality(S \cup T) = Cardinality(S) + Cardinality(T)
<1>1. Units(S \cup T) = Units(S) \cup Units(T)
  BY DEF Units
<1>2. Units(S) \cap Units(T) = {}
  <2>1. \A u \in Units(S) : u[1] \in S
    BY DEF Units
  <2>2. \A u \in Units(T) : u[1] \in T
    BY DEF Units
  <2> QED
    BY <2>1, <2>2
<1>3. IsFiniteSet(Units(S)) /\ IsFiniteSet(Units(T)) /\ IsFiniteSet(S) /\ IsFiniteSet(T)
  BY SumIsNumber
<1>4. /\ Cardinality(Units(S)) \in Nat /\ Cardinality(Units(T)) \in Nat
      /\ Cardinality(S) \in Nat /\ Cardinality(T) \in Nat
  BY <1>3, FS_CardinalityType
<1>5. Cardinality(Units(S) \cup Units(T)) = Cardinality(Units(S)) + Cardinality(Units(T))
  BY <1>2, <1>3, <1>4, FS_Union, FS_EmptySet
<1>6. Cardinality(S \cup T) = Cardinality(S) + Cardinality(T)
  <2>1. Cardinality(S \cup T) = Cardinality(S) + Cardinality(T) - Cardinality(S \cap T)
    BY ONLY <1>3, FS_Union
  <2>2. Cardinality(S \cap T) = 0
    BY FS_EmptySet
  <2> QED
    BY <1>4, <2>1, <2>2
<1>7. S \cup T \in SUBSET Recs
  OBVIOUS
<1> QED
  BY <1>1, <1>5, <1>6, <1>7, SumIsNumber

LEMMA SumOfOnes ==
  ASSUME Counts, NEW some \in SUBSET Recs, \A k \in some : Lines[k].about.value = 1
  PROVE  SumOf(Lines, some) = Cardinality(some)
<1>1. Units(some) = some \X {1}
  <2>1. \A k \in some : {k} \X (1..Lines[k].about.value) = {k} \X {1}
    <3>1. 1..1 = {1}
      OBVIOUS
    <3> QED
      BY <3>1
  <2> QED
    BY <2>1 DEF Units
<1>2. IsFiniteSet(some) /\ IsFiniteSet(Units(some)) /\ SumOf(Lines, some) = Cardinality(Units(some))
  BY SumIsNumber
<1>3. IsFiniteSet({1}) /\ Cardinality({1}) = 1
  BY FS_Singleton
<1>4. Cardinality(some \X {1}) = Cardinality(some) * Cardinality({1})
  BY <1>2, <1>3, FS_Product
<1>5. Cardinality(some) \in Nat
  BY <1>2, FS_CardinalityType
<1> QED
  BY <1>1, <1>2, <1>3, <1>4, <1>5

(* The records of an app and a window, and what a summary says of them. *)
AllOf(app, since, until) == {k \in Recs : Lines[k].about.app = app /\ InWindow(Lines[k].at, since, until)}

OfMetric(some, metric)   == {k \in some : ~IsDuration(k) /\ Lines[k].about.metric = metric}
OfChannel(some, channel) == {k \in some : IsDuration(k) /\ Lines[k].about.channel = channel}

Says(s, some) ==
  /\ \A metric : /\ metric \in DOMAIN s.metrics <=> OfMetric(some, metric) # {}
                 /\ Value(s, metric) = SumOf(Lines, OfMetric(some, metric))
  /\ \A channel : /\ channel \in DOMAIN s.durations <=> OfChannel(some, channel) # {}
                  /\ Count(s, channel) = Cardinality(OfChannel(some, channel))
                  /\ Total(s, channel) = SumOf(Lines, OfChannel(some, channel))

LEMMA SummarySays ==
  ASSUME Counts, NEW app, NEW since, NEW until
  PROVE  Says(Summary(app, since, until), AllOf(app, since, until))
<1> DEFINE s == Summary(app, since, until)
<1>1. PICK all : all = AllOf(app, since, until)
  OBVIOUS
<1>2. Aggregated(Lines, app, since, until) = all
  BY <1>1 DEF Aggregated, AllOf, Counts, Recs
<1>3. PICK durations : durations = {k \in all : IsDuration(k)}
  OBVIOUS
<1>4. PICK rest : rest = all \ durations
  BY Zenon
<1>5. s.metrics = MetricsOf(Lines, rest) /\ s.durations = DurationsOf(Lines, durations)
  <2>1. {k \in all : Lines[k].about.metric = "provider_duration_ms"} = durations
    BY <1>3 DEF IsDuration
  <2> QED
    BY <1>2, <1>4, <2>1 DEF Summary
<1> HIDE DEF s
<1>6. SumOf(Lines, {}) = 0 /\ Cardinality({}) = 0
  <2>1. Cardinality({}) = 0
    BY FS_EmptySet
  <2>2. SumOf(Lines, {}) = Cardinality({})
    <3>1. UNION {{k} \X (1..Lines[k].about.value) : k \in {}} = {}
      OBVIOUS
    <3> QED
      BY <3>1 DEF SumOf
  <2> QED
    BY <2>1, <2>2
<1>7. ASSUME NEW metric
      PROVE  /\ metric \in DOMAIN s.metrics <=> OfMetric(all, metric) # {}
             /\ Value(s, metric) = SumOf(Lines, OfMetric(all, metric))
  <2>1. PICK its : its = OfMetric(all, metric)
    OBVIOUS
  <2>2. its = {k \in rest : Lines[k].about.metric = metric}
    BY <1>3, <1>4, <2>1 DEF OfMetric
  <2>3. metric \in DOMAIN s.metrics <=> its # {}
    BY <1>5, <2>2 DEF MetricsOf
  <2>4. metric \in DOMAIN s.metrics => s.metrics[metric] = SumOf(Lines, its)
    BY <1>5, <2>2 DEF MetricsOf
  <2> QED
    BY <1>6, <2>1, <2>3, <2>4 DEF Value
<1>8. ASSUME NEW channel
      PROVE  /\ channel \in DOMAIN s.durations <=> OfChannel(all, channel) # {}
             /\ Count(s, channel) = Cardinality(OfChannel(all, channel))
             /\ Total(s, channel) = SumOf(Lines, OfChannel(all, channel))
  <2>1. PICK its : its = OfChannel(all, channel)
    OBVIOUS
  <2>2. its = {k \in durations : Lines[k].about.channel = channel}
    BY <1>3, <2>1 DEF OfChannel
  <2>3. channel \in DOMAIN s.durations <=> its # {}
    BY <1>5, <2>2 DEF DurationsOf
  <2>4. channel \in DOMAIN s.durations =>
          s.durations[channel].count = Cardinality(its) /\ s.durations[channel].total = SumOf(Lines, its)
    <3> SUFFICES ASSUME channel \in DOMAIN s.durations
        PROVE  s.durations[channel].count = Cardinality(its) /\ s.durations[channel].total = SumOf(Lines, its)
      OBVIOUS
    <3>1. channel \in {Lines[k].about.channel : k \in durations}
      BY <1>5 DEF DurationsOf
    <3>2. s.durations[channel] =
            [transport |-> Lines[Max(its)].about.transport,
             count |-> Cardinality(its), total |-> SumOf(Lines, its)]
      BY <1>5, <2>2, <3>1 DEF DurationsOf
    <3> QED
      BY <3>2
  <2> QED
    BY <1>6, <2>1, <2>3, <2>4 DEF Count, Total
<1> QED
  BY <1>1, <1>7, <1>8 DEF Says, s

LEMMA WindowNumbers == \A window \in DOMAIN Windows : Windows[window] \in Nat
<1> DEFINE windows == {"", "1h", "24h", "7d"}
<1>1. Windows = [window \in windows |->
                   Hours * (IF window = "1h" THEN 1 ELSE IF window = "7d" THEN 7 * 24 ELSE 24)]
  BY Zenon DEF Windows
<1> HIDE DEF windows
<1> QED
  BY <1>1, HoursAssumption

LEMMA WindowsRight ==
  ASSUME Counts, log.skew \in Nat, appended \in Nat
  PROVE  WindowsAddUp
<1> SUFFICES ASSUME NEW app \in StatsApps, NEW window \in DOMAIN Windows, NEW now \in {appended, appended + 1}
    PROVE  LET past == -log.skew IN
             IsSumOf(Summary(app, past, now), Summary(app, past, now - Windows[window]),
                     ProcessStatsSummary(app, window, now).summary)
  BY DEF WindowsAddUp
<1>1. PICK past \in Int, end \in Int, since \in Int :
        past = -log.skew /\ end = now /\ since = now - Windows[window] /\ since <= end
  BY WindowNumbers
<1>2. PICK s, a, b :
        s = Summary(app, past, end) /\ a = Summary(app, past, since) /\ b = Summary(app, since, end)
  OBVIOUS
<1>3. ProcessStatsSummary(app, window, now).summary = b
  BY <1>1, <1>2 DEF ProcessStatsSummary
<1>4. PICK S, A, B : S = AllOf(app, past, end) /\ A = AllOf(app, past, since) /\ B = AllOf(app, since, end)
  OBVIOUS
<1>5. Says(s, S) /\ Says(a, A) /\ Says(b, B)
  BY <1>2, <1>4, SummarySays
<1>6. /\ \A k \in S : k \in A \/ k \in B
      /\ \A k \in A : k \in S /\ k \notin B
      /\ \A k \in B : k \in S
  <2>1. \A k \in Recs : Lines[k].at \in Int /\ past <= Lines[k].at
    BY <1>1 DEF Counts
  <2>2. \A k \in Recs : /\ k \in S <=> Lines[k].about.app = app /\ past <= Lines[k].at /\ Lines[k].at < end
                        /\ k \in A <=> Lines[k].about.app = app /\ past <= Lines[k].at /\ Lines[k].at < since
                        /\ k \in B <=> Lines[k].about.app = app /\ since <= Lines[k].at /\ Lines[k].at < end
    BY <1>4 DEF AllOf, InWindow
  <2>3. S \subseteq Recs /\ A \subseteq Recs /\ B \subseteq Recs
    BY <1>4 DEF AllOf
  <2>4. ASSUME NEW k \in Recs
        PROVE  (k \in S => k \in A \/ k \in B) /\ (k \in A => k \in S /\ k \notin B) /\ (k \in B => k \in S)
    <3>1. PICK at \in Int : at = Lines[k].at /\ past <= at
      BY <2>1
    <3> QED
      BY <1>1, <2>2, <3>1
  <2> QED
    BY <2>3, <2>4
<1>7. A \in SUBSET Recs /\ B \in SUBSET Recs
  BY <1>4 DEF AllOf
<1>8. ASSUME NEW metric PROVE Value(s, metric) = Value(a, metric) + Value(b, metric)
  <2>1. OfMetric(S, metric) = OfMetric(A, metric) \cup OfMetric(B, metric)
        /\ OfMetric(A, metric) \cap OfMetric(B, metric) = {}
    BY <1>6 DEF OfMetric
  <2>2. OfMetric(A, metric) \in SUBSET Recs /\ OfMetric(B, metric) \in SUBSET Recs
    BY <1>7 DEF OfMetric
  <2>3. SumOf(Lines, OfMetric(S, metric)) =
          SumOf(Lines, OfMetric(A, metric)) + SumOf(Lines, OfMetric(B, metric))
    BY <2>1, <2>2, SumOfParts
  <2> QED
    BY <1>5, <2>3 DEF Says
<1>9. ASSUME NEW channel
      PROVE  /\ Count(s, channel) = Count(a, channel) + Count(b, channel)
             /\ Total(s, channel) = Total(a, channel) + Total(b, channel)
  <2>1. OfChannel(S, channel) = OfChannel(A, channel) \cup OfChannel(B, channel)
        /\ OfChannel(A, channel) \cap OfChannel(B, channel) = {}
    BY <1>6 DEF OfChannel
  <2>2. OfChannel(A, channel) \in SUBSET Recs /\ OfChannel(B, channel) \in SUBSET Recs
    BY <1>7 DEF OfChannel
  <2>3. /\ SumOf(Lines, OfChannel(S, channel)) =
             SumOf(Lines, OfChannel(A, channel)) + SumOf(Lines, OfChannel(B, channel))
        /\ Cardinality(OfChannel(S, channel)) =
             Cardinality(OfChannel(A, channel)) + Cardinality(OfChannel(B, channel))
    BY <2>1, <2>2, SumOfParts
  <2> QED
    BY <1>5, <2>3 DEF Says
<1>10. IsSumOf(s, a, b)
  BY <1>8, <1>9 DEF IsSumOf
<1> QED
  BY <1>1, <1>2, <1>3, <1>10

(* The kind of record that a summary counts a record under. *)
Kind(k) ==
  IF IsDuration(k) THEN <<"duration", Lines[k].about.channel>> ELSE <<"metric", Lines[k].about.metric>>
Key(k)  == <<Lines[k].about.app, Kind(k)>>
Like(k) == {j \in Recs : Key(j) = Key(k)}

(* A summary of all times stands for the records of its app, each of them  *)
(* once.                                                                   *)
LEMMA SummaryStandsFor ==
  ASSUME Counts, log.skew \in Nat, appended \in Nat, NEW app,
         NEW s, s = Summary(app, -log.skew, appended + 2), NEW x
  PROVE  x \in RecordsIn(s) <=>
           \E k \in Recs : Lines[k].about.app = app /\ \E r \in 1..Cardinality(Like(k)) : x = <<Kind(k), r>>
<1>1. PICK all : all = AllOf(app, -log.skew, appended + 2)
  OBVIOUS
<1>2. all = {k \in Recs : Lines[k].about.app = app}
  <2>1. ASSUME NEW k \in Recs PROVE InWindow(Lines[k].at, -log.skew, appended + 2)
    BY DEF Counts, InWindow
  <2> QED
    BY <1>1, <2>1 DEF AllOf
<1>3. Says(s, all)
  BY <1>1, SummarySays
<1>4. ASSUME NEW k \in all, ~IsDuration(k)
      PROVE  /\ Lines[k].about.metric \in DOMAIN s.metrics
             /\ s.metrics[Lines[k].about.metric] = Cardinality(Like(k))
  <2>1. PICK its : its = OfMetric(all, Lines[k].about.metric)
    OBVIOUS
  <2>2. its = Like(k)
    BY <1>2, <1>4, <2>1 DEF OfMetric, Like, Key, Kind
  <2>3. k \in its /\ its \in SUBSET Recs /\ \A j \in its : ~IsDuration(j)
    BY <1>2, <1>4, <2>1 DEF OfMetric
  <2>4. SumOf(Lines, its) = Cardinality(its)
    <3>1. \A j \in its : Lines[j].about.value = 1
      BY <2>3 DEF Counts
    <3> QED
      BY <2>3, <3>1, SumOfOnes
  <2>5. Lines[k].about.metric \in DOMAIN s.metrics /\ Value(s, Lines[k].about.metric) = Cardinality(its)
    BY <1>3, <2>1, <2>3, <2>4 DEF Says
  <2> QED
    BY <2>2, <2>5 DEF Value
<1>5. ASSUME NEW k \in all, IsDuration(k)
      PROVE  /\ Lines[k].about.channel \in DOMAIN s.durations
             /\ s.durations[Lines[k].about.channel].count = Cardinality(Like(k))
  <2>1. PICK its : its = OfChannel(all, Lines[k].about.channel)
    OBVIOUS
  <2>2. its = Like(k)
    BY <1>2, <1>5, <2>1 DEF OfChannel, Like, Key, Kind
  <2>3. k \in its
    BY <1>2, <1>5, <2>1 DEF OfChannel
  <2>4. Lines[k].about.channel \in DOMAIN s.durations /\ Count(s, Lines[k].about.channel) = Cardinality(its)
    BY <1>3, <2>1, <2>3 DEF Says
  <2> QED
    BY <2>2, <2>4 DEF Count
<1>6. \A metric \in DOMAIN s.metrics : \E k \in all : ~IsDuration(k) /\ Lines[k].about.metric = metric
  BY <1>3 DEF Says, OfMetric
<1>7. \A channel \in DOMAIN s.durations : \E k \in all : IsDuration(k) /\ Lines[k].about.channel = channel
  BY <1>3 DEF Says, OfChannel
<1>8. x \in RecordsIn(s) <=>
        \/ \E metric \in DOMAIN s.metrics : \E r \in 1..s.metrics[metric] : x = <<<<"metric", metric>>, r>>
        \/ \E channel \in DOMAIN s.durations : \E r \in 1..s.durations[channel].count :
             x = <<<<"duration", channel>>, r>>
  <2> DEFINE Metric(metric)    == {<<"metric", metric>>} \X (1..s.metrics[metric])
             Duration(channel) == {<<"duration", channel>>} \X (1..s.durations[channel].count)
             metrics  == DOMAIN s.metrics
             channels == DOMAIN s.durations
  <2>1. \A a, R : x \in {a} \X R <=> \E r \in R : x = <<a, r>>
    OBVIOUS
  <2>2. RecordsIn(s) =
          (UNION {Metric(metric) : metric \in metrics}) \cup (UNION {Duration(channel) : channel \in channels})
    BY DEF RecordsIn
  <2>3. \A metric \in metrics :
          x \in Metric(metric) <=> \E r \in 1..s.metrics[metric] : x = <<<<"metric", metric>>, r>>
    BY <2>1
  <2>4. \A channel \in channels :
          x \in Duration(channel) <=> \E r \in 1..s.durations[channel].count : x = <<<<"duration", channel>>, r>>
    BY <2>1
  <2> HIDE DEF Metric, Duration
  <2>5. x \in RecordsIn(s) <=> (\E metric \in metrics : x \in Metric(metric))
                              \/ (\E channel \in channels : x \in Duration(channel))
    <3> HIDE DEF metrics, channels
    <3> QED
      BY ONLY <2>2
  <2> QED
    BY <2>3, <2>4, <2>5
<1>9. ASSUME x \in RecordsIn(s)
      PROVE  \E k \in all : \E r \in 1..Cardinality(Like(k)) : x = <<Kind(k), r>>
  <2>1. CASE \E metric \in DOMAIN s.metrics : \E r \in 1..s.metrics[metric] : x = <<<<"metric", metric>>, r>>
    BY <1>4, <1>6, <2>1 DEF Kind
  <2>2. CASE \E channel \in DOMAIN s.durations : \E r \in 1..s.durations[channel].count :
               x = <<<<"duration", channel>>, r>>
    BY <1>5, <1>7, <2>2 DEF Kind
  <2> QED
    BY <1>8, <1>9, <2>1, <2>2
<1>10. ASSUME NEW k \in all, NEW r \in 1..Cardinality(Like(k)), x = <<Kind(k), r>>
       PROVE  x \in RecordsIn(s)
  <2>1. CASE IsDuration(k)
    BY <1>5, <1>8, <1>10, <2>1 DEF Kind
  <2>2. CASE ~IsDuration(k)
    BY <1>4, <1>8, <1>10, <2>2 DEF Kind
  <2> QED
    BY <2>1, <2>2
<1> QED
  BY <1>2, <1>9, <1>10

(* So many are counted for one app or the other as there are records. *)
LEMMA AllCounted ==
  ASSUME Counts, log.skew \in Nat, appended \in Nat,
         NEW all, all = [app \in StatsApps |-> Summary(app, -log.skew, appended + 2)]
  PROVE  Cardinality(UNION {{app} \X RecordsIn(all[app]) : app \in StatsApps}) = Cardinality(Recs)
<1>1. PICK U : U = UNION {{app} \X RecordsIn(all[app]) : app \in StatsApps}
  OBVIOUS
<1>2. PICK key : key = [k \in Recs |-> Key(k)]
  OBVIOUS
<1>3. \A k \in Recs : /\ {j \in Recs : key[j] = key[k]} = Like(k)
                      /\ key[k][1] = Lines[k].about.app /\ key[k][2] = Kind(k)
                      /\ key[k] = <<key[k][1], key[k][2]>>
  BY <1>2 DEF Like, Key
<1>4. ASSUME NEW app \in StatsApps, NEW x
      PROVE  x \in RecordsIn(all[app]) <=>
               \E k \in Recs : Lines[k].about.app = app /\ \E r \in 1..Cardinality(Like(k)) : x = <<Kind(k), r>>
  <2>1. all[app] = Summary(app, -log.skew, appended + 2)
    OBVIOUS
  <2>2. PICK s : s = all[app]
    OBVIOUS
  <2> QED
    BY <2>1, <2>2, SummaryStandsFor
<1>5. \A k \in Recs : Lines[k].about.app \in StatsApps
  BY DEF Counts
<1>6. \A u : u \in U <=> \E app \in StatsApps : \E x \in RecordsIn(all[app]) : u = <<app, x>>
  BY <1>1
<1>7. \A u : u \in U <=> \E k \in Recs : \E r \in 1..Cardinality({j \in Recs : key[j] = key[k]}) :
                           u = <<key[k][1], <<key[k][2], r>>>>
  <2>1. \A u : u \in U <=> \E k \in Recs : \E r \in 1..Cardinality(Like(k)) :
                             u = <<Lines[k].about.app, <<Kind(k), r>>>>
    BY <1>4, <1>5, <1>6
  <2>2. ASSUME NEW k \in Recs
        PROVE  /\ {j \in Recs : key[j] = key[k]} = Like(k)
               /\ key[k][1] = Lines[k].about.app /\ key[k][2] = Kind(k)
    BY <1>3
  <2>3. ASSUME NEW u, NEW k \in Recs
        PROVE  (\E r \in 1..Cardinality(Like(k)) : u = <<Lines[k].about.app, <<Kind(k), r>>>>) <=>
               (\E r \in 1..Cardinality({j \in Recs : key[j] = key[k]}) : u = <<key[k][1], <<key[k][2], r>>>>)
    BY <2>2, Zenon
  <2> DEFINE Given(u, k) == \E r \in 1..Cardinality(Like(k)) : u = <<Lines[k].about.app, <<Kind(k), r>>>>
             Asked(u, k) ==
               \E r \in 1..Cardinality({j \in Recs : key[j] = key[k]}) : u = <<key[k][1], <<key[k][2], r>>>>
  <2>4. /\ \A u : u \in U <=> \E k \in Recs : Given(u, k)
        /\ \A u : \A k \in Recs : Given(u, k) <=> Asked(u, k)
    BY <2>1, <2>3
  <2> HIDE DEF Given, Asked
  <2>5. \A u : u \in U <=> \E k \in Recs : Asked(u, k)
    BY <2>4
  <2> QED
    BY <2>5 DEF Asked
<1>8. IsFiniteSet(Recs)
  BY FS_Subset DEF Recs, Counts
<1>9. Cardinality(U) = Cardinality(Recs)
  <2>1. \A k \in Recs : key[k] = <<key[k][1], key[k][2]>>
    BY <1>3
  <2> QED
    BY ONLY <1>7, <1>8, <2>1, Grouped, Zenon
<1> QED
  BY <1>1, <1>9

(* There are no more records than were appended, and all that the files    *)
(* hold.                                                                   *)
LEMMA RecordsBounded ==
  ASSUME Counts, appended \in Nat
  PROVE  /\ Cardinality(Recs) \in Nat /\ Cardinality(Recs) <= appended
         /\ \A i : Cardinality(Seqs(i)) \in Nat /\ Cardinality(Seqs(i)) <= Cardinality(Recs)
<1> DEFINE one == 1
           number == [k \in Recs |-> Lines[k].seq]
<1>1. IsFiniteSet(Recs)
  BY FS_Subset DEF Recs, Counts
<1>2. \A k \in Recs : k \in Int /\ Lines[k].seq \in one..appended
  BY DEF Counts
<1>3. IsFiniteSet(one..appended) /\ Cardinality(one..appended) = appended
  <2>1. one \in Int /\ appended \in Int /\ one <= appended + 1
    OBVIOUS
  <2>2. one > appended => appended = 0
    OBVIOUS
  <2>3. appended - one + one = appended
    OBVIOUS
  <2>4. IsFiniteSet(one..appended)
        /\ Cardinality(one..appended) = IF one > appended THEN 0 ELSE appended - one + 1
    <3> HIDE DEF one
    <3> QED
      BY <2>1, FS_Interval
  <2> QED
    BY <2>2, <2>3, <2>4
<1> HIDE DEF one
<1>4. number \in Injection(Recs, one..appended)
  <2>1. \A j, k \in Recs : Lines[j].seq = Lines[k].seq => j = k
    <3> SUFFICES ASSUME NEW j \in Recs, NEW k \in Recs, Lines[j].seq = Lines[k].seq, j # k PROVE FALSE
      OBVIOUS
    <3>1. j \in Int /\ k \in Int /\ Lines[j].seq \in Int
      BY DEF Counts
    <3>2. j < k \/ k < j
      BY <3>1
    <3>3. Lines[j].seq < Lines[k].seq \/ Lines[k].seq < Lines[j].seq
      BY <3>2 DEF Counts
    <3> QED
      BY <3>1, <3>3
  <2> QED
    BY <1>2, <2>1 DEF Injection, IsInjective
<1>5. Cardinality(Recs) <= appended
  BY <1>1, <1>3, <1>4, FS_Injection
<1>6. ASSUME NEW i PROVE Cardinality(Seqs(i)) \in Nat /\ Cardinality(Seqs(i)) <= Cardinality(Recs)
  <2>1. PICK some : some = {k \in Recs : number[k] \in Seqs(i)}
    OBVIOUS
  <2>2. IsFiniteSet(some) /\ Cardinality(some) <= Cardinality(Recs) /\ Cardinality(some) \in Nat
    BY <1>1, <2>1, FS_Subset, FS_CardinalityType
  <2>3. [k \in some |-> number[k]] \in Surjection(some, Seqs(i))
    BY <2>1 DEF Surjection, Counts
  <2>4. IsFiniteSet(Seqs(i)) /\ Cardinality(Seqs(i)) <= Cardinality(some)
    BY <2>2, <2>3, FS_Surjection
  <2> QED
    BY <1>1, <2>2, <2>4, FS_CardinalityType
<1> QED
  BY <1>1, <1>5, <1>6, FS_CardinalityType

(* The files hold all but what the lost records are. *)
LEMMA KeptHeld ==
  ASSUME IInv, pc = "idle", NEW loss \in Nat, Lost(loss),
         NEW kept \in Int, kept = (log.backups - restarts) * log.lines
  PROVE  LET held == Cardinality(Seqs(log.backups)) + loss IN held >= appended \/ held >= kept
<1>1. Types /\ log.backups \in Nat /\ log.lines \in Int /\ restarts \in Int
  BY Sizes DEF IInv, Types
<1>2. Unfilled(log.backups) = 0
  BY DEF Unfilled
<1>3. Written \in Nat /\ Due(log.backups) \in Int /\ Cardinality(Seqs(log.backups)) \in Nat
  BY <1>1, Measures
<1>4. Enough(log.backups, loss)
  BY <1>1 DEF Lost
<1>5. PICK b \in Int : b = log.backups - restarts
  BY <1>1
<1>6. kept = log.lines * b
  BY <1>1, <1>5
<1>7. Due(log.backups) >= kept
  <2>1. CASE ~usable /\ Written >= log.lines
    <3>1. log.backups - Short(log.backups) = b - 1
      BY <1>1, <1>2, <1>5, <2>1 DEF Short
    <3>2. log.lines * (b - 1) = log.lines * b - log.lines
      BY <1>1, <1>5
    <3> QED
      BY <1>1, <1>3, <1>6, <2>1, <3>1, <3>2 DEF Due
  <2>2. CASE ~(~usable /\ Written >= log.lines)
    <3>1. log.backups - Short(log.backups) = b
      BY <1>1, <1>2, <1>5, <2>2 DEF Short
    <3> QED
      BY <1>3, <1>6, <3>1 DEF Due
  <2> QED
    BY <2>1, <2>2
<1>8. appended \in Int
  BY <1>1 DEF Types
<1> QED
  BY <1>3, <1>4, <1>7, <1>8 DEF Enough

LEMMA SurvivorsCounted ==
  ASSUME IInv, Contents, LossInv, pc = "idle", log.name = "stats"
  PROVE  RecordsSurvive
<1>1. Counts
  BY StatsCount
<1>2. appended \in Nat /\ log.skew \in Nat /\ restarts \in Nat /\ log.backups \in Nat /\ log.lines \in Int
  BY Sizes, SizeAssumption DEF IInv, Types
<1>3. PICK loss \in Nat : Lost(loss)
  BY DEF LossInv
<1>4. PICK kept \in Int : kept = (log.backups - restarts) * log.lines
  BY <1>2
<1>5. PICK held \in Nat, counted \in Nat :
        /\ held = Cardinality(Seqs(log.backups)) /\ counted = Cardinality(Recs)
        /\ held <= counted /\ counted <= appended
  BY <1>1, <1>2, RecordsBounded
<1>6. held + loss >= appended \/ held + loss >= kept
  BY <1>3, <1>4, <1>5, KeptHeld
<1>7. loss <= 2 * restarts /\ (~torn => loss = 0)
  BY <1>3 DEF Lost
<1>8. counted >= (IF appended < kept THEN appended ELSE kept) - (IF torn THEN 2 * restarts ELSE 0)
  BY <1>2, <1>5, <1>6, <1>7
<1>9. PICK all : all = [app \in StatsApps |-> Summary(app, -log.skew, appended + 2)]
  OBVIOUS
<1>10. Cardinality(UNION {{app} \X RecordsIn(all[app]) : app \in StatsApps}) = counted
  BY <1>1, <1>2, <1>5, <1>9, AllCounted
<1> QED
  BY <1>4, <1>5, <1>8, <1>9, <1>10 DEF RecordsSurvive

(* SummaryExact of the run: whatever the windows and wherever the writer   *)
(* was cut short, a record that the files keep is counted once, for its    *)
(* app, and in one of two consecutive windows.                             *)
THEOREM SummariesRight == Spec => []SummaryExact
<1>1. IInv /\ Contents /\ LossInv => SummaryExact
  <2> SUFFICES ASSUME IInv, Contents, LossInv, pc = "idle", log.name = "stats"
      PROVE  WindowsAddUp /\ RecordsSurvive
    BY DEF SummaryExact
  <2>1. Counts /\ appended \in Nat /\ log.skew \in Nat
    BY StatsCount, SizeAssumption DEF IInv, Types
  <2> QED
    BY <2>1, WindowsRight, SurvivorsCounted
<1> QED
  BY <1>1, LossAlways, PTL
=============================================================================
