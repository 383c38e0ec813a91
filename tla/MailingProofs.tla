--------------------------- MODULE MailingProofs ---------------------------
(***************************************************************************)
(* For any number of jobs under way, of recipients and of rows of the log: *)
(* the log, the reports on batches and the notifications of announcements  *)
(* say what has happened.                                                  *)
(*                                                                         *)
(* The argument follows each mail.  What the rows and the history hold of  *)
(* it is what its step in the job implies, for as long as the job goes on; *)
(* a mark that waits in a job for the next flush is one that was earned;   *)
(* and a job that has ended adds nothing to what was reported of it.       *)
(***************************************************************************)
EXTENDS Mailing, SequenceTheorems, FiniteSetTheorems, TLAPS

Kind == {"idle", "single", "batch", "announcement", "ended"}

Stage == {"ask", "render", "log", "deliver", "mark", "ok", "skipped", "failed"}

Letter == SingleMails \cup {ManualTemplate, sendAnnouncementEmail}

MailRow == [pc : Stage, log : Nat, sent : BOOLEAN]

JobRow ==
  [kind : Kind, mail : Letter, to : Seq(Recipients), mails : Seq(MailRow),
   dirty : SUBSET (Nat \X {"sent", "failed"}), inApp : BOOLEAN]

LogRow == [mail : Jobs \X Nat, status : {"pending", "sent", "failed"}]

Report == [job : Jobs, requested : Nat, sent : Nat]

Types ==
  /\ logs \in Seq(LogRow)
  /\ activities \subseteq Report
  /\ jobs \in [Jobs -> JobRow]
  /\ inbox \subseteq Jobs \X Nat
  /\ accepted \subseteq Jobs \X Nat
  /\ refused \subseteq Jobs \X Nat

-----------------------------------------------------------------------------
\* The step that a mail of a job has come to.
PcOf(job, i) == IF i \in DOMAIN job.mails THEN job.mails[i].pc ELSE "none"

\* What rows and history hold of the mails of a job that goes on.
Traces(j) ==
  jobs[j].kind # "ended" =>
    \A i \in Nat :
      /\ <<j, i>> \in accepted => PcOf(jobs[j], i) \in {"mark", "ok", "failed"}
      /\ <<j, i>> \in refused <=> PcOf(jobs[j], i) = "skipped"
      /\ \A l \in 1..Len(logs) :
           logs[l].mail = <<j, i>> => PcOf(jobs[j], i) \in {"deliver", "mark", "ok", "failed"}

\* What a job knows of its mails.
MailsSound(j) ==
  \A i \in DOMAIN jobs[j].mails :
    LET m == jobs[j].mails[i]
    IN  /\ m.log # 0 => m.log \in 1..Len(logs) /\ logs[m.log].mail = <<j, i>>
        /\ m.sent => <<j, i>> \in accepted
        /\ m.pc = "ok" => m.sent

\* Marks that the next flush will write are true.
Earned(marks) ==
  \A m \in marks : m[1] \in 1..Len(logs) /\ (m[2] = "sent" => logs[m[1]].mail \in accepted)

\* Notifications are stored at once, and once.
NoticesSound(j) ==
  /\ jobs[j].kind = "idle" \/ jobs[j].inApp => \A i \in Nat : <<j, i>> \notin inbox
  /\ jobs[j].kind = "announcement" =>
       {i \in DOMAIN jobs[j].to : <<j, i>> \in inbox} \in {{}, DOMAIN jobs[j].to}

JobShape(j) ==
  /\ jobs[j].kind \in {"idle", "ended"} => jobs[j].mails = <<>>
  /\ jobs[j].kind = "batch" => DOMAIN jobs[j].mails = DOMAIN jobs[j].to
  /\ jobs[j].inApp => jobs[j].kind = "announcement"

JobSound(j) ==
  Traces(j) /\ MailsSound(j) /\ Earned(jobs[j].dirty) /\ NoticesSound(j) /\ JobShape(j)

Of(j, S) == Cardinality({m \in S : m[1] = j})

\* What a batch reported was so when it ended.
ReportSound(a) ==
  /\ jobs[a.job].kind = "ended"
  /\ a.sent = Of(a.job, accepted)
  /\ a.requested - a.sent = Of(a.job, refused)

IInv ==
  /\ Types
  /\ LogsFit
  /\ \A j \in Jobs : JobSound(j)
  /\ \A a \in activities : ReportSound(a)

LEMMA Records == IInv => MailRecordsHold
<1>. SUFFICES ASSUME IInv PROVE MailRecordsHold
  OBVIOUS
<1>1. LogsFit
  BY DEF IInv
<1>2. ReportsFit
  BY DEF IInv, ReportSound, ReportsFit, Of
<1>3. NoticesTogether
  BY DEF IInv, JobSound, NoticesSound, NoticesTogether
<1>. QED
  BY <1>1, <1>2, <1>3 DEF MailRecordsHold

-----------------------------------------------------------------------------
(***************************************************************************)
(* Rows.                                                                   *)
(***************************************************************************)
LEMMA IdleShape ==
  /\ Idle \in JobRow /\ Idle.kind = "idle" /\ Idle.mails = <<>> /\ Idle.dirty = {} /\ ~Idle.inApp
  /\ Ended \in JobRow /\ Ended.kind = "ended" /\ Ended.mails = <<>> /\ Ended.dirty = {} /\ ~Ended.inApp
  /\ DOMAIN <<>> = {}
<1>1. <<>> \in Seq(Recipients) /\ <<>> \in Seq(MailRow)
  BY EmptySeq
<1>2. ManualTemplate \in Letter
  BY DEF Letter
<1>3. Idle \in JobRow
  BY <1>1, <1>2 DEF Idle, JobRow, Kind
<1>4. Idle.kind = "idle" /\ Idle.mails = <<>> /\ Idle.dirty = {} /\ ~Idle.inApp
  BY DEF Idle
<1>5. Ended \in JobRow
  BY <1>3 DEF Ended, JobRow, Kind
<1>6. Ended.kind = "ended" /\ Ended.mails = <<>> /\ Ended.dirty = {} /\ ~Ended.inApp
  BY <1>3, <1>4 DEF Ended, JobRow
<1>7. DOMAIN <<>> = {}
  BY EmptySeq
<1>. QED
  BY <1>3, <1>4, <1>5, <1>6, <1>7

\* The rows of the log stay, and those that say sent are right.
Relabelled ==
  /\ logs' \in Seq(LogRow)
  /\ Len(logs') = Len(logs)
  /\ \A l \in 1..Len(logs) :
       /\ logs'[l].mail = logs[l].mail
       /\ logs'[l].status = "sent" => logs[l].mail \in accepted

LEMMA LogDomain ==
  ASSUME NEW table \in Seq(LogRow)
  PROVE  /\ DOMAIN table = 1..Len(table) /\ Len(table) \in Nat
         /\ \A l \in 1..Len(table) : table[l] \in LogRow
  BY LenProperties, ElementOfSeq

LEMMA LogStays ==
  ASSUME IInv, UNCHANGED logs
  PROVE  Relabelled
  BY LogDomain DEF IInv, Types, LogsFit, Relabelled

LEMMA MarkedIs ==
  ASSUME IInv, NEW marks \in SUBSET (Nat \X {"sent", "failed"}), Earned(marks),
         NEW table, table = Marked(logs, marks)
  PROVE  /\ table \in Seq(LogRow)
         /\ Len(table) = Len(logs)
         /\ \A l \in 1..Len(logs) :
              /\ table[l].mail = logs[l].mail
              /\ table[l].status = "sent" => logs[l].mail \in accepted
<1>1. /\ DOMAIN logs = 1..Len(logs) /\ Len(logs) \in Nat
      /\ \A l \in 1..Len(logs) : logs[l] \in LogRow
      /\ \A l \in 1..Len(logs) : logs[l].status = "sent" => logs[l].mail \in accepted
  BY LogDomain DEF IInv, Types, LogsFit
<1>2. ASSUME NEW l \in 1..Len(logs)
      PROVE  /\ table[l] \in LogRow /\ table[l].mail = logs[l].mail
             /\ table[l].status = "sent" => logs[l].mail \in accepted
  <2>1. CASE \E m \in marks : m[1] = l
    <3>. DEFINE d == CHOOSE m \in marks : m[1] = l
    <3>1. d \in marks /\ d[1] = l
      BY <2>1
    <3>2. table[l] = [logs[l] EXCEPT !.status = d[2]]
      BY <1>1, <2>1 DEF Marked
    <3>. HIDE DEF d
    <3>3. d[2] \in {"sent", "failed"} /\ (d[2] = "sent" => logs[l].mail \in accepted)
      BY <3>1 DEF Earned
    <3>. QED
      BY <1>1, <3>2, <3>3 DEF LogRow
  <2>2. CASE ~\E m \in marks : m[1] = l
    <3>1. table[l] = logs[l]
      BY <1>1, <2>2 DEF Marked
    <3>. QED
      BY <1>1, <3>1
  <2>. QED
    BY <2>1, <2>2
<1>3. table = [l \in 1..Len(logs) |-> table[l]]
  BY <1>1 DEF Marked
<1>4. table \in [1..Len(logs) -> LogRow]
  BY <1>2, <1>3
<1>5. table \in Seq(LogRow)
  BY <1>1, <1>4, SeqDef
<1>6. Len(table) = Len(logs)
  BY <1>1, <1>4, <1>5, LenProperties
<1>. QED
  BY <1>2, <1>5, <1>6

LEMMA LogMarked ==
  ASSUME IInv, NEW marks \in SUBSET (Nat \X {"sent", "failed"}), Earned(marks),
         logs' = Marked(logs, marks)
  PROVE  Relabelled
  BY MarkedIs DEF Relabelled

-----------------------------------------------------------------------------
(***************************************************************************)
(* A step of one job.                                                      *)
(***************************************************************************)
\* What a step of the job j leaves alone.
Only(j) ==
  /\ jobs' \in [Jobs -> JobRow]
  /\ \A k \in Jobs \ {j} : jobs'[k] = jobs[k]
  /\ logs' \in Seq(LogRow)
  /\ Len(logs) <= Len(logs')
  /\ \A l \in 1..Len(logs) : logs'[l].mail = logs[l].mail
  /\ \A l \in 1..Len(logs') : l > Len(logs) => logs'[l].mail[1] = j
  /\ inbox \subseteq inbox' /\ \A m \in inbox' \ inbox : m[1] = j
  /\ accepted \subseteq accepted' /\ \A m \in accepted' \ accepted : m[1] = j
  /\ refused \subseteq refused' /\ \A m \in refused' \ refused : m[1] = j

LEMMA OthersSound ==
  ASSUME IInv, NEW j \in Jobs, Only(j), NEW k \in Jobs, k # j
  PROVE  JobSound(k)'
<1>1. JobSound(k) /\ jobs'[k] = jobs[k]
  BY DEF IInv, Only
<1>2. Len(logs) \in Nat /\ Len(logs') \in Nat /\ Len(logs) <= Len(logs')
  BY LogDomain DEF IInv, Types, Only
<1>3. \A i \in Nat :
        /\ <<k, i>> \in inbox' <=> <<k, i>> \in inbox
        /\ <<k, i>> \in accepted' <=> <<k, i>> \in accepted
        /\ <<k, i>> \in refused' <=> <<k, i>> \in refused
  BY DEF Only
<1>4. \A l \in 1..Len(logs') : \A i \in Nat :
        logs'[l].mail = <<k, i>> => l \in 1..Len(logs) /\ logs[l].mail = <<k, i>>
  <2>. SUFFICES ASSUME NEW l \in 1..Len(logs'), NEW i \in Nat, logs'[l].mail = <<k, i>>
                PROVE  l \in 1..Len(logs) /\ logs[l].mail = <<k, i>>
    OBVIOUS
  <2>1. logs'[l].mail[1] = k
    OBVIOUS
  <2>2. ~(l > Len(logs))
    BY <2>1 DEF Only
  <2>3. l \in 1..Len(logs)
    BY <1>2, <2>2
  <2>. QED
    BY <2>3 DEF Only
<1>5. \A l \in 1..Len(logs) : l \in 1..Len(logs') /\ logs'[l].mail = logs[l].mail
  BY <1>2 DEF Only
<1>6. Traces(k)'
  <2>1. Traces(k)
    BY <1>1 DEF JobSound
  <2>. QED
    BY <1>1, <1>3, <1>4, <2>1 DEF Traces
<1>7. MailsSound(k)'
  <2>1. MailsSound(k) /\ accepted \subseteq accepted'
    BY <1>1 DEF JobSound, Only
  <2>. QED
    BY <1>1, <1>5, <2>1 DEF MailsSound
<1>8. Earned(jobs[k].dirty)'
  <2>1. Earned(jobs[k].dirty) /\ accepted \subseteq accepted'
    BY <1>1 DEF JobSound, Only
  <2>. QED
    BY <1>1, <1>5, <2>1 DEF Earned
<1>9. NoticesSound(k)'
  <2>1. NoticesSound(k)
    BY <1>1 DEF JobSound
  <2>2. DOMAIN jobs[k].to \subseteq Nat
    <3>1. jobs[k].to \in Seq(Recipients)
      BY DEF IInv, Types, JobRow
    <3>. QED
      BY <3>1, LenProperties
  <2>3. {i \in DOMAIN jobs'[k].to : <<k, i>> \in inbox'} = {i \in DOMAIN jobs[k].to : <<k, i>> \in inbox}
    BY <1>1, <1>3, <2>2
  <2>. QED
    BY <1>1, <1>3, <2>1, <2>3 DEF NoticesSound
<1>10. JobShape(k)'
  BY <1>1 DEF JobSound, JobShape
<1>. QED
  BY <1>6, <1>7, <1>8, <1>9, <1>10 DEF JobSound

LEMMA ReportsStay ==
  ASSUME IInv, NEW j \in Jobs, Only(j), jobs[j].kind # "ended", NEW a \in activities
  PROVE  ReportSound(a)'
<1>1. a.job \in Jobs /\ jobs[a.job].kind = "ended" /\ ReportSound(a)
  BY DEF IInv, ReportSound, Types, Report
<1>2. a.job # j
  BY <1>1
<1>3. jobs'[a.job] = jobs[a.job]
  BY <1>1, <1>2 DEF Only
<1>4. /\ {m \in accepted' : m[1] = a.job} = {m \in accepted : m[1] = a.job}
      /\ {m \in refused' : m[1] = a.job} = {m \in refused : m[1] = a.job}
  BY <1>2 DEF Only
<1>. QED
  BY <1>1, <1>3, <1>4 DEF ReportSound, Of

\* All but what the step makes of its own job and of the log.
LEMMA StepSound ==
  ASSUME IInv, NEW j \in Jobs, Only(j), jobs[j].kind # "ended", Types', LogsFit', JobSound(j)',
         \A a \in activities' \ activities : ReportSound(a)'
  PROVE  IInv'
  BY OthersSound, ReportsStay DEF IInv

-----------------------------------------------------------------------------
(***************************************************************************)
(* A step of one mail.                                                     *)
(***************************************************************************)
\* Where a mail may have a row in the log, and where the provider may have it.
Logged == {"deliver", "mark", "ok", "failed"}

Taken == {"mark", "ok", "failed"}

LEMMA JobFacts ==
  ASSUME IInv, NEW j \in Jobs
  PROVE  /\ jobs[j] \in JobRow /\ JobSound(j)
         /\ DOMAIN jobs[j].mails \subseteq Nat /\ DOMAIN jobs[j].to \subseteq Nat
         /\ \A i \in DOMAIN jobs[j].mails : jobs[j].mails[i] \in MailRow /\ jobs[j].kind # "ended"
<1>1. jobs[j] \in JobRow /\ JobSound(j)
  BY DEF IInv, Types
<1>2. jobs[j].mails \in Seq(MailRow) /\ jobs[j].to \in Seq(Recipients)
  BY <1>1 DEF JobRow
<1>3. DOMAIN jobs[j].mails \subseteq Nat /\ DOMAIN jobs[j].to \subseteq Nat
  BY <1>2, LenProperties
<1>4. \A i \in DOMAIN jobs[j].mails : jobs[j].mails[i] \in MailRow
  BY <1>2, LenProperties, ElementOfSeq
<1>5. jobs[j].kind = "ended" => DOMAIN jobs[j].mails = {}
  BY <1>1, IdleShape DEF JobSound, JobShape
<1>. QED
  BY <1>1, <1>3, <1>4, <1>5

\* One mail of the job has come to m, and the job holds the marks D.
Moved(j, i, m, D) ==
  jobs' = [jobs EXCEPT ![j] = [jobs[j] EXCEPT !.mails = [jobs[j].mails EXCEPT ![i] = m],
                                              !.dirty = D]]

LEMMA MovedIs ==
  ASSUME IInv, NEW j \in Jobs, NEW i \in DOMAIN jobs[j].mails, NEW m \in MailRow,
         NEW D \in SUBSET (Nat \X {"sent", "failed"}), Moved(j, i, m, D)
  PROVE  /\ jobs' \in [Jobs -> JobRow]
         /\ \A k \in Jobs \ {j} : jobs'[k] = jobs[k]
         /\ jobs'[j].kind = jobs[j].kind /\ jobs'[j].to = jobs[j].to
         /\ jobs'[j].inApp = jobs[j].inApp /\ jobs'[j].dirty = D
         /\ DOMAIN jobs'[j].mails = DOMAIN jobs[j].mails
         /\ jobs'[j].mails[i] = m
         /\ \A n \in DOMAIN jobs[j].mails \ {i} : jobs'[j].mails[n] = jobs[j].mails[n]
<1>. PICK row : row = [jobs[j] EXCEPT !.mails = [jobs[j].mails EXCEPT ![i] = m], !.dirty = D]
  OBVIOUS
<1>1. jobs \in [Jobs -> JobRow] /\ jobs[j] \in JobRow
  BY DEF IInv, Types
<1>2. jobs[j].mails \in Seq(MailRow)
  BY <1>1 DEF JobRow
<1>3. i \in 1..Len(jobs[j].mails)
  BY <1>2, LenProperties
<1>4. [jobs[j].mails EXCEPT ![i] = m] \in Seq(MailRow)
  BY <1>2, <1>3, ExceptSeq
<1>5. /\ row \in JobRow /\ row.kind = jobs[j].kind /\ row.to = jobs[j].to
      /\ row.inApp = jobs[j].inApp /\ row.dirty = D
      /\ row.mails = [jobs[j].mails EXCEPT ![i] = m]
  BY <1>1, <1>4 DEF JobRow
<1>6. jobs' = [jobs EXCEPT ![j] = row]
  BY DEF Moved
<1>7. jobs'[j] = row
  BY <1>1, <1>6
<1>. QED
  BY <1>1, <1>5, <1>6, <1>7

LEMMA MailSound ==
  ASSUME IInv, NEW j \in Jobs, NEW i \in DOMAIN jobs[j].mails, NEW m \in MailRow,
         NEW D \in SUBSET (Nat \X {"sent", "failed"}), Moved(j, i, m, D),
         Only(j), UNCHANGED inbox,
         accepted' \in {accepted, accepted \cup {<<j, i>>}},
         refused' \in {refused, refused \cup {<<j, i>>}},
         \A l \in 1..Len(logs') : l > Len(logs) => logs'[l].mail = <<j, i>>,
         <<j, i>> \in accepted' => m.pc \in Taken,
         <<j, i>> \in refused' <=> m.pc = "skipped",
         \A l \in 1..Len(logs') : logs'[l].mail = <<j, i>> => m.pc \in Logged,
         m.log # 0 => m.log \in 1..Len(logs') /\ logs'[m.log].mail = <<j, i>>,
         m.sent => <<j, i>> \in accepted', m.pc = "ok" => m.sent,
         Earned(D)'
  PROVE  JobSound(j)'
<1>1. /\ jobs'[j].kind = jobs[j].kind /\ jobs'[j].to = jobs[j].to
      /\ jobs'[j].inApp = jobs[j].inApp /\ jobs'[j].dirty = D
      /\ DOMAIN jobs'[j].mails = DOMAIN jobs[j].mails
      /\ jobs'[j].mails[i] = m
      /\ \A n \in DOMAIN jobs[j].mails \ {i} : jobs'[j].mails[n] = jobs[j].mails[n]
  BY MovedIs
<1>2. /\ JobSound(j) /\ jobs[j].kind # "ended"
      /\ DOMAIN jobs[j].mails \subseteq Nat
  BY JobFacts
<1>3. Len(logs) \in Nat /\ Len(logs') \in Nat /\ Len(logs) <= Len(logs')
  BY LogDomain DEF IInv, Types, Only
<1>4. \A n \in Nat : n # i => PcOf(jobs[j], n)' = PcOf(jobs[j], n)
  BY <1>1 DEF PcOf
<1>5. PcOf(jobs[j], i)' = m.pc
  BY <1>1 DEF PcOf
<1>6. \A n \in Nat \ {i} :
        /\ <<j, n>> \in accepted' <=> <<j, n>> \in accepted
        /\ <<j, n>> \in refused' <=> <<j, n>> \in refused
        /\ \A l \in 1..Len(logs') :
             logs'[l].mail = <<j, n>> => l \in 1..Len(logs) /\ logs[l].mail = <<j, n>>
  <2>. SUFFICES ASSUME NEW n \in Nat \ {i}
                PROVE  /\ <<j, n>> \in accepted' <=> <<j, n>> \in accepted
                       /\ <<j, n>> \in refused' <=> <<j, n>> \in refused
                       /\ \A l \in 1..Len(logs') :
                            logs'[l].mail = <<j, n>> => l \in 1..Len(logs) /\ logs[l].mail = <<j, n>>
    OBVIOUS
  <2>1. <<j, n>> # <<j, i>>
    OBVIOUS
  <2>2. ASSUME NEW l \in 1..Len(logs'), logs'[l].mail = <<j, n>>
        PROVE  l \in 1..Len(logs) /\ logs[l].mail = <<j, n>>
    <3>1. ~(l > Len(logs))
      BY <2>1, <2>2
    <3>2. l \in 1..Len(logs)
      BY <1>3, <3>1
    <3>. QED
      BY <2>2, <3>2 DEF Only
  <2>. QED
    BY <2>1, <2>2
<1>7. Traces(j)'
  <2>. SUFFICES ASSUME NEW n \in Nat
                PROVE  /\ <<j, n>> \in accepted' => PcOf(jobs[j], n)' \in Taken
                       /\ <<j, n>> \in refused' <=> PcOf(jobs[j], n)' = "skipped"
                       /\ \A l \in 1..Len(logs') :
                            logs'[l].mail = <<j, n>> => PcOf(jobs[j], n)' \in Logged
    BY DEF Traces, Taken, Logged, PcOf
  <2>1. CASE n = i
    BY <1>5, <2>1
  <2>2. CASE n # i
    BY <1>2, <1>4, <1>6, <2>2 DEF JobSound, Traces, Taken, Logged
  <2>. QED
    BY <2>1, <2>2
<1>8. \A l \in 1..Len(logs) : l \in 1..Len(logs') /\ logs'[l].mail = logs[l].mail
  BY <1>3 DEF Only
<1>9. MailsSound(j)'
  <2>. SUFFICES ASSUME NEW n \in DOMAIN jobs[j].mails, NEW q, q = jobs'[j].mails[n]
                PROVE  /\ q.log # 0 => q.log \in 1..Len(logs') /\ logs'[q.log].mail = <<j, n>>
                       /\ q.sent => <<j, n>> \in accepted'
                       /\ q.pc = "ok" => q.sent
    BY <1>1 DEF MailsSound
  <2>1. CASE n = i
    BY <1>1, <2>1
  <2>2. CASE n # i
    <3>1. MailsSound(j) /\ accepted \subseteq accepted' /\ q = jobs[j].mails[n]
      BY <1>1, <1>2, <2>2 DEF JobSound, Only
    <3>. QED
      BY <3>1, <1>8 DEF MailsSound
  <2>. QED
    BY <2>1, <2>2
<1>10. Earned(jobs[j].dirty)'
  BY <1>1 DEF Earned
<1>11. NoticesSound(j)'
  BY <1>1, <1>2 DEF JobSound, NoticesSound
<1>12. JobShape(j)'
  <2>1. jobs[j].kind \notin {"idle", "ended"}
    BY <1>2, IdleShape DEF JobSound, JobShape
  <2>. QED
    BY <1>1, <1>2, <2>1 DEF JobSound, JobShape
<1>. QED
  BY <1>7, <1>9, <1>10, <1>11, <1>12 DEF JobSound

\* The log has the rows it had.
LEMMA MailStep ==
  ASSUME IInv, NEW j \in Jobs, NEW i \in DOMAIN jobs[j].mails, NEW m \in MailRow,
         NEW D \in SUBSET (Nat \X {"sent", "failed"}), Moved(j, i, m, D),
         Relabelled, UNCHANGED <<inbox, activities>>,
         accepted' \in {accepted, accepted \cup {<<j, i>>}},
         refused' \in {refused, refused \cup {<<j, i>>}},
         <<j, i>> \in accepted' => m.pc \in Taken,
         <<j, i>> \in refused' <=> m.pc = "skipped",
         jobs[j].mails[i].pc \in Logged => m.pc \in Logged,
         m.log = jobs[j].mails[i].log,
         m.sent => <<j, i>> \in accepted', m.pc = "ok" => m.sent,
         Earned(D)
  PROVE  IInv'
<1>1. /\ JobSound(j) /\ jobs[j].kind # "ended"
      /\ i \in Nat
  BY JobFacts
<1>2. /\ logs \in Seq(LogRow) /\ accepted \subseteq Jobs \X Nat /\ refused \subseteq Jobs \X Nat
      /\ inbox \subseteq Jobs \X Nat /\ activities \subseteq Report
  BY DEF IInv, Types
<1>3. /\ logs' \in Seq(LogRow) /\ Len(logs') = Len(logs) /\ Len(logs) \in Nat
      /\ \A l \in 1..Len(logs) : logs'[l].mail = logs[l].mail
  BY <1>2, LogDomain DEF Relabelled
<1>4. Only(j)
  BY <1>3, MovedIs DEF Only
<1>5. Types'
  BY <1>1, <1>2, <1>3, MovedIs DEF Types
<1>6. LogsFit'
  BY <1>2, <1>3, LogDomain DEF Relabelled, LogsFit, IInv
<1>7. JobSound(j)'
  <2>1. \A l \in 1..Len(logs') : logs'[l].mail = <<j, i>> => m.pc \in Logged
    BY <1>1, <1>3 DEF JobSound, Traces, PcOf, Logged
  <2>2. m.log # 0 => m.log \in 1..Len(logs') /\ logs'[m.log].mail = <<j, i>>
    BY <1>1, <1>3 DEF JobSound, MailsSound
  <2>3. Earned(D)'
    BY <1>3 DEF Earned
  <2>4. \A l \in 1..Len(logs') : l > Len(logs) => logs'[l].mail = <<j, i>>
    BY <1>3
  <2>. QED
    BY <1>4, <2>1, <2>2, <2>3, <2>4, MailSound
<1>. QED
  BY <1>1, <1>4, <1>5, <1>6, <1>7, StepSound

\* Where the mail of a job stands, and what is known of it.
LEMMA MailFacts ==
  ASSUME IInv, NEW j \in Jobs, NEW i \in DOMAIN jobs[j].mails, NEW m, m = jobs[j].mails[i]
  PROVE  /\ m \in MailRow /\ i \in Nat
         /\ <<j, i>> \in accepted => m.pc \in Taken
         /\ <<j, i>> \in refused <=> m.pc = "skipped"
         /\ \A l \in 1..Len(logs) : logs[l].mail = <<j, i>> => m.pc \in Logged
         /\ m.log # 0 => m.log \in 1..Len(logs) /\ logs[m.log].mail = <<j, i>>
         /\ m.sent => <<j, i>> \in accepted
         /\ m.pc = "ok" => m.sent
         /\ jobs[j].dirty \in SUBSET (Nat \X {"sent", "failed"}) /\ Earned(jobs[j].dirty)
<1>1. /\ jobs[j] \in JobRow /\ JobSound(j) /\ i \in Nat
      /\ jobs[j].mails[i] \in MailRow /\ jobs[j].kind # "ended"
  BY JobFacts
<1>. QED
  BY <1>1 DEF JobSound, Traces, MailsSound, PcOf, Logged, Taken, JobRow

LEMMA GoesIs ==
  ASSUME IInv, NEW j \in Jobs, NEW i \in DOMAIN jobs[j].mails, NEW pc \in Stage, Goes(j, i, pc)
  PROVE  /\ [jobs[j].mails[i] EXCEPT !.pc = pc] \in MailRow
         /\ Moved(j, i, [jobs[j].mails[i] EXCEPT !.pc = pc], jobs[j].dirty)
<1>1. jobs[j] \in JobRow /\ jobs[j].mails[i] \in MailRow
  BY JobFacts
<1>2. jobs' = [jobs EXCEPT ![j] =
                 [jobs[j] EXCEPT !.mails = [jobs[j].mails EXCEPT ![i] =
                                              [jobs[j].mails[i] EXCEPT !.pc = pc]]]]
  BY DEF Goes
<1>3. [jobs[j].mails[i] EXCEPT !.pc = pc] \in MailRow
  BY <1>1 DEF MailRow
<1>4. ASSUME NEW f
      PROVE  [jobs[j] EXCEPT !.mails = f] = [jobs[j] EXCEPT !.mails = f, !.dirty = jobs[j].dirty]
  BY <1>1 DEF JobRow
<1>. QED
  BY <1>2, <1>3, <1>4 DEF Moved

LEMMA AskSound ==
  ASSUME IInv, NEW j \in Jobs, NEW i \in DOMAIN jobs[j].mails, AskPreference(j, i)
  PROVE  IInv'
<1>. PICK old : old = jobs[j].mails[i]
  OBVIOUS
<1>1. old.pc = "ask" /\ UNCHANGED <<logs, activities, inbox, accepted>>
  BY DEF AskPreference, At, rows
<1>2. PICK pc \in {"skipped", "render"} :
        /\ Goes(j, i, pc)
        /\ refused' = IF pc = "skipped" THEN refused \cup {<<j, i>>} ELSE refused
  BY DEF AskPreference
<1>3. PICK m : m = [old EXCEPT !.pc = pc]
  OBVIOUS
<1>4. m \in MailRow /\ Moved(j, i, m, jobs[j].dirty)
  BY <1>2, <1>3, GoesIs DEF Stage
<1>0. old \in MailRow
  BY MailFacts
<1>5. m.pc = pc /\ m.log = old.log /\ m.sent = old.sent
  BY <1>0, <1>3 DEF MailRow
<1>6. /\ <<j, i>> \notin accepted /\ <<j, i>> \notin refused
      /\ old.sent => <<j, i>> \in accepted
      /\ jobs[j].dirty \in SUBSET (Nat \X {"sent", "failed"}) /\ Earned(jobs[j].dirty)
  BY <1>1, MailFacts DEF Taken
<1>7. Relabelled
  BY <1>1, LogStays
<1>8. old.pc \notin Logged
  BY <1>1 DEF Logged
<1>9. /\ <<j, i>> \in accepted' => m.pc \in Taken
      /\ <<j, i>> \in refused' <=> m.pc = "skipped"
      /\ refused' \in {refused, refused \cup {<<j, i>>}}
      /\ m.sent => <<j, i>> \in accepted'
      /\ m.pc = "ok" => m.sent
  BY <1>1, <1>2, <1>5, <1>6
<1>. QED
  BY <1>1, <1>4, <1>5, <1>6, <1>7, <1>8, <1>9, MailStep

LEMMA RenderSound ==
  ASSUME IInv, NEW j \in Jobs, NEW i \in DOMAIN jobs[j].mails, RenderTemplate(j, i)
  PROVE  IInv'
<1>. PICK old : old = jobs[j].mails[i]
  OBVIOUS
<1>1. old.pc = "render" /\ UNCHANGED <<logs, activities, inbox, accepted, refused>>
  BY DEF RenderTemplate, At, rows
<1>2. PICK pc \in {"log", "failed"} : Goes(j, i, pc)
  BY DEF RenderTemplate
<1>3. PICK m : m = [old EXCEPT !.pc = pc]
  OBVIOUS
<1>4. m \in MailRow /\ Moved(j, i, m, jobs[j].dirty)
  BY <1>2, <1>3, GoesIs DEF Stage
<1>0. old \in MailRow
  BY MailFacts
<1>5. m.pc = pc /\ m.log = old.log /\ m.sent = old.sent
  BY <1>0, <1>3 DEF MailRow
<1>6. /\ <<j, i>> \notin accepted /\ <<j, i>> \notin refused
      /\ old.sent => <<j, i>> \in accepted
      /\ jobs[j].dirty \in SUBSET (Nat \X {"sent", "failed"}) /\ Earned(jobs[j].dirty)
  BY <1>1, MailFacts DEF Taken
<1>7. Relabelled
  BY <1>1, LogStays
<1>8. old.pc \notin Logged
  BY <1>1 DEF Logged
<1>9. /\ <<j, i>> \in accepted' => m.pc \in Taken
      /\ <<j, i>> \in refused' <=> m.pc = "skipped"
      /\ m.sent => <<j, i>> \in accepted'
      /\ m.pc = "ok" => m.sent
  BY <1>1, <1>2, <1>5, <1>6
<1>. QED
  BY <1>1, <1>4, <1>5, <1>6, <1>7, <1>8, <1>9, MailStep

LEMMA DeliverSound ==
  ASSUME IInv, NEW j \in Jobs, NEW i \in DOMAIN jobs[j].mails, DeliverMail(j, i)
  PROVE  IInv'
<1>. PICK old : old = jobs[j].mails[i]
  OBVIOUS
<1>0. old \in MailRow /\ jobs[j] \in JobRow
  BY MailFacts, JobFacts
<1>1. old.pc = "deliver" /\ UNCHANGED <<logs, activities, inbox, refused>>
  BY DEF DeliverMail, At, rows
<1>2. accepted' \in {accepted, accepted \cup {<<j, i>>}}
  BY DEF DeliverMail
<1>3. PICK m : /\ m \in {[old EXCEPT !.pc = "mark", !.sent = TRUE], [old EXCEPT !.pc = "mark"]}
               /\ Moved(j, i, m, jobs[j].dirty)
               /\ m.sent => <<j, i>> \in accepted'
  <2>1. CASE Goes(j, i, "mark")
    <3>1. Moved(j, i, [old EXCEPT !.pc = "mark"], jobs[j].dirty)
      BY <2>1, GoesIs DEF Stage
    <3>2. [old EXCEPT !.pc = "mark"].sent = old.sent
      BY <1>0 DEF MailRow
    <3>. QED
      BY <1>2, <3>1, <3>2, MailFacts
  <2>2. CASE /\ jobs' = [jobs EXCEPT ![j].mails[i] = [@ EXCEPT !.pc = "mark", !.sent = TRUE]]
             /\ accepted' = accepted \cup {<<j, i>>}
    <3>1. PICK m : m = [old EXCEPT !.pc = "mark", !.sent = TRUE]
      OBVIOUS
    <3>2. jobs' = [jobs EXCEPT ![j] = [jobs[j] EXCEPT !.mails = [jobs[j].mails EXCEPT ![i] = m]]]
      BY <2>2, <3>1
    <3>3. ASSUME NEW f
          PROVE  [jobs[j] EXCEPT !.mails = f] = [jobs[j] EXCEPT !.mails = f, !.dirty = jobs[j].dirty]
      BY <1>0 DEF JobRow
    <3>4. Moved(j, i, m, jobs[j].dirty)
      BY <3>2, <3>3 DEF Moved
    <3>. QED
      BY <2>2, <3>1, <3>4
  <2>. QED
    BY <2>1, <2>2 DEF DeliverMail
<1>4. m \in MailRow /\ m.pc = "mark" /\ m.log = old.log
  BY <1>0, <1>3 DEF MailRow, Stage
<1>5. /\ <<j, i>> \notin refused
      /\ jobs[j].dirty \in SUBSET (Nat \X {"sent", "failed"}) /\ Earned(jobs[j].dirty)
  BY <1>1, MailFacts
<1>6. m.pc \in Taken /\ m.pc \in Logged /\ Relabelled
  BY <1>1, <1>4, LogStays DEF Taken, Logged
<1>. QED
  BY <1>1, <1>2, <1>3, <1>4, <1>5, <1>6, MailStep

LEMMA MarkSound ==
  ASSUME IInv, NEW j \in Jobs, NEW i \in DOMAIN jobs[j].mails, MarkEmailLog(j, i)
  PROVE  IInv'
<1>. PICK old : old = jobs[j].mails[i]
  OBVIOUS
<1>. PICK marks : marks = jobs[j].dirty \cup (IF old.log = 0 THEN {} ELSE {<<old.log, StatusOf(old)>>})
  OBVIOUS
<1>. PICK m : m = [old EXCEPT !.pc = IF old.sent THEN "ok" ELSE "failed"]
  OBVIOUS
<1>0. old \in MailRow /\ jobs[j] \in JobRow
  BY MailFacts, JobFacts
<1>1. old.pc = "mark" /\ UNCHANGED <<activities, inbox, accepted, refused>>
  BY DEF MarkEmailLog, At
<1>2. marks \in SUBSET (Nat \X {"sent", "failed"}) /\ Earned(marks)
  <2>1. StatusOf(old) \in {"sent", "failed"} /\ (StatusOf(old) = "sent" => old.sent)
    BY <1>0 DEF StatusOf, MailRow
  <2>2. old.log \in Nat
    BY <1>0 DEF MailRow
  <2>3. old.log # 0 => old.log \in 1..Len(logs) /\ (old.sent => logs[old.log].mail \in accepted)
    BY MailFacts
  <2>4. jobs[j].dirty \in SUBSET (Nat \X {"sent", "failed"}) /\ Earned(jobs[j].dirty)
    BY MailFacts
  <2>5. marks \in SUBSET (Nat \X {"sent", "failed"})
    BY <2>1, <2>2, <2>4
  <2>6. ASSUME NEW d \in marks
        PROVE  d[1] \in 1..Len(logs) /\ (d[2] = "sent" => logs[d[1]].mail \in accepted)
    <3>1. CASE d \in jobs[j].dirty
      BY <3>1, <2>4 DEF Earned
    <3>2. CASE old.log # 0 /\ d = <<old.log, StatusOf(old)>>
      <4>1. d[1] = old.log /\ d[2] = StatusOf(old)
        BY <3>2
      <4>. QED
        BY <3>2, <4>1, <2>1, <2>3
    <3>. QED
      BY <3>1, <3>2
  <2>. QED
    BY <2>5, <2>6 DEF Earned
<1>3. PICK D : /\ D \in SUBSET (Nat \X {"sent", "failed"}) /\ Earned(D)
               /\ Moved(j, i, m, D) /\ Relabelled
  <2>1. ASSUME NEW D, jobs' = [jobs EXCEPT ![j].mails[i].pc = IF old.sent THEN "ok" ELSE "failed",
                                           ![j].dirty = D]
        PROVE  Moved(j, i, m, D)
    <3>1. jobs' = [jobs EXCEPT ![j] = [jobs[j] EXCEPT !.mails = [jobs[j].mails EXCEPT ![i] = m],
                                                      !.dirty = D]]
      BY <1>0, <2>1 DEF IInv, Types, JobRow
    <3>. QED
      BY <3>1 DEF Moved
  <2>2. CASE /\ logs' = Marked(logs, marks)
             /\ jobs' = [jobs EXCEPT ![j].mails[i].pc = IF old.sent THEN "ok" ELSE "failed",
                                     ![j].dirty = {}]
    <3>1. {} \in SUBSET (Nat \X {"sent", "failed"}) /\ Earned({})
      BY DEF Earned
    <3>2. Relabelled
      BY <1>2, <2>2, LogMarked
    <3>3. Moved(j, i, m, {})
      BY <2>1, <2>2
    <3>. QED
      BY <3>1, <3>2, <3>3
  <2>3. CASE /\ UNCHANGED logs
             /\ jobs' = [jobs EXCEPT ![j].mails[i].pc = IF old.sent THEN "ok" ELSE "failed",
                                     ![j].dirty = marks]
    BY <1>2, <2>1, <2>3, LogStays
  <2>. QED
    BY <2>2, <2>3 DEF MarkEmailLog
<1>4. /\ m \in MailRow /\ m.pc = (IF old.sent THEN "ok" ELSE "failed")
      /\ m.log = old.log /\ m.sent = old.sent
  BY <1>0 DEF MailRow, Stage
<1>5. /\ <<j, i>> \notin refused
      /\ old.sent => <<j, i>> \in accepted
  BY <1>1, MailFacts
<1>6. m.pc \in Taken /\ m.pc \in Logged
  BY <1>4 DEF Taken, Logged
<1>7. /\ <<j, i>> \in refused' <=> m.pc = "skipped"
      /\ m.sent => <<j, i>> \in accepted'
      /\ m.pc = "ok" => m.sent
  BY <1>0, <1>1, <1>4, <1>5
<1>. QED
  BY <1>1, <1>3, <1>4, <1>6, <1>7, MailStep

\* A row of its own, when it had none.
LEMMA CreateSound ==
  ASSUME IInv, NEW j \in Jobs, NEW i \in DOMAIN jobs[j].mails, CreateEmailLog(j, i)
  PROVE  IInv'
<1>. PICK old : old = jobs[j].mails[i]
  OBVIOUS
<1>0. old \in MailRow /\ jobs[j] \in JobRow /\ JobSound(j) /\ i \in Nat /\ jobs[j].kind # "ended"
  BY MailFacts, JobFacts
<1>1. old.pc = "log" /\ UNCHANGED <<activities, inbox, accepted, refused>>
  BY DEF CreateEmailLog, At
<1>2. /\ <<j, i>> \notin accepted /\ <<j, i>> \notin refused /\ ~old.sent
      /\ \A l \in 1..Len(logs) : logs[l].mail # <<j, i>>
      /\ jobs[j].dirty \in SUBSET (Nat \X {"sent", "failed"}) /\ Earned(jobs[j].dirty)
  BY <1>0, <1>1, MailFacts DEF Taken, Logged
<1>3. CASE Goes(j, i, "deliver") /\ UNCHANGED logs
  <2>1. PICK m : m = [old EXCEPT !.pc = "deliver"]
    OBVIOUS
  <2>2. m \in MailRow /\ Moved(j, i, m, jobs[j].dirty)
    BY <1>3, <2>1, GoesIs DEF Stage
  <2>3. m.pc = "deliver" /\ m.log = old.log /\ m.sent = old.sent
    BY <1>0, <2>1 DEF MailRow
  <2>4. m.pc \in Logged /\ Relabelled
    BY <1>3, <2>3, LogStays DEF Logged
  <2>. QED
    BY <1>1, <1>2, <2>2, <2>3, <2>4, MailStep
<1>4. CASE /\ logs' = Append(Marked(logs, jobs[j].dirty), [mail |-> <<j, i>>, status |-> "pending"])
           /\ jobs' = [jobs EXCEPT ![j].mails[i] = [@ EXCEPT !.pc = "deliver", !.log = Len(logs')],
                                   ![j].dirty = {}]
  <2>1. PICK table : table = Marked(logs, jobs[j].dirty)
    OBVIOUS
  <2>2. PICK row : row = [mail |-> <<j, i>>, status |-> "pending"]
    OBVIOUS
  <2>3. /\ logs \in Seq(LogRow) /\ Len(logs) \in Nat /\ DOMAIN logs = 1..Len(logs)
        /\ table \in Seq(LogRow) /\ Len(table) = Len(logs)
        /\ \A l \in 1..Len(logs) :
             /\ table[l].mail = logs[l].mail
             /\ table[l].status = "sent" => logs[l].mail \in accepted
    BY <1>2, <2>1, MarkedIs, LogDomain DEF IInv, Types
  <2>4. row \in LogRow /\ row.mail = <<j, i>> /\ row.status = "pending"
    BY <1>0, <2>2 DEF LogRow
  <2>5. logs' = Append(table, row)
    BY <1>4, <2>1, <2>2
  <2>6. /\ logs' \in Seq(LogRow) /\ Len(logs') = Len(logs) + 1
        /\ DOMAIN logs' = 1..(Len(logs) + 1)
        /\ logs'[Len(logs) + 1] = row
        /\ \A l \in 1..Len(logs) : logs'[l] = table[l]
    BY <2>3, <2>4, <2>5, AppendProperties, LogDomain
  <2>7. PICK m : m = [old EXCEPT !.pc = "deliver", !.log = Len(logs')]
    OBVIOUS
  <2>8. m \in MailRow /\ m.pc = "deliver" /\ m.log = Len(logs) + 1 /\ ~m.sent
    <3>1. Len(logs') \in Nat /\ Len(logs') = Len(logs) + 1
      BY <2>3, <2>6
    <3>2. m \in MailRow /\ m.pc = "deliver" /\ m.log = Len(logs') /\ m.sent = old.sent
      BY <1>0, <2>7, <3>1 DEF MailRow, Stage
    <3>. QED
      BY <1>2, <3>1, <3>2
  <2>9. Moved(j, i, m, {})
    <3>1. jobs' = [jobs EXCEPT ![j] = [jobs[j] EXCEPT !.mails = [jobs[j].mails EXCEPT ![i] = m],
                                                      !.dirty = {}]]
      BY <1>0, <1>4, <2>7 DEF IInv, Types, JobRow
    <3>. QED
      BY <3>1 DEF Moved
  <2>10. /\ {} \in SUBSET (Nat \X {"sent", "failed"}) /\ Earned({})'
         /\ jobs' \in [Jobs -> JobRow]
         /\ \A k \in Jobs \ {j} : jobs'[k] = jobs[k]
    BY <2>8, <2>9, MovedIs DEF Earned
  <2>11. \A l \in 1..Len(logs') : l \in 1..Len(logs) \/ l = Len(logs) + 1
    BY <2>3, <2>6
  <2>12. Only(j)
    <3>1. Len(logs) <= Len(logs')
      BY <2>3, <2>6
    <3>2. \A l \in 1..Len(logs') : l > Len(logs) => logs'[l].mail[1] = j
      BY <2>3, <2>4, <2>6, <2>11
    <3>. QED
      BY <1>1, <2>3, <2>6, <2>10, <3>1, <3>2 DEF Only
  <2>13. Types'
    BY <1>1, <2>6, <2>10 DEF IInv, Types
  <2>14. LogsFit'
    <3>1. ASSUME NEW l \in DOMAIN logs', logs'[l].status = "sent" PROVE logs'[l].mail \in accepted
      BY <2>3, <2>4, <2>6, <2>11, <3>1
    <3>2. ASSUME NEW k \in DOMAIN logs', NEW l \in DOMAIN logs', logs'[k].mail = logs'[l].mail
          PROVE  k = l
      <4>1. \A n \in 1..Len(logs) : logs'[n].mail = logs[n].mail
        BY <2>3, <2>6
      <4>2. CASE k \in 1..Len(logs) /\ l \in 1..Len(logs)
        BY <2>3, <3>2, <4>1, <4>2 DEF IInv, LogsFit
      <4>3. CASE k = Len(logs) + 1 \/ l = Len(logs) + 1
        BY <1>2, <2>4, <2>6, <2>11, <3>2, <4>1, <4>3
      <4>. QED
        BY <2>6, <2>11, <4>2, <4>3
    <3>. QED
      BY <1>1, <3>1, <3>2 DEF LogsFit
  <2>15. JobSound(j)'
    <3>1. /\ \A l \in 1..Len(logs') : l > Len(logs) => logs'[l].mail = <<j, i>>
          /\ m.log \in 1..Len(logs') /\ logs'[m.log].mail = <<j, i>>
      BY <2>3, <2>4, <2>6, <2>8, <2>11
    <3>2. m.pc \in Logged
      BY <2>8 DEF Logged
    <3>. QED
      BY <1>1, <1>2, <2>8, <2>9, <2>10, <2>12, <3>1, <3>2, MailSound
  <2>. QED
    BY <1>0, <1>1, <2>12, <2>13, <2>14, <2>15, StepSound
<1>. QED
  BY <1>3, <1>4 DEF CreateEmailLog

-----------------------------------------------------------------------------
(***************************************************************************)
(* Jobs begin and end.                                                     *)
(***************************************************************************)
LEMMA StartSound ==
  ASSUME IInv, NEW j \in Jobs, jobs[j] = Idle, NEW row \in JobRow,
         row.kind \in {"single", "batch", "announcement"},
         \A i \in DOMAIN row.mails : row.mails[i] = NewMail,
         row.dirty = {}, row.inApp => row.kind = "announcement",
         row.kind = "batch" => DOMAIN row.mails = DOMAIN row.to,
         jobs' = [jobs EXCEPT ![j] = row],
         UNCHANGED <<rows, accepted, refused>>
  PROVE  IInv'
<1>1. /\ UNCHANGED <<logs, activities, inbox, accepted, refused>>
      /\ jobs' \in [Jobs -> JobRow] /\ jobs'[j] = row
      /\ \A k \in Jobs \ {j} : jobs'[k] = jobs[k]
  BY DEF IInv, Types, rows
<1>2. Only(j) /\ Types'
  BY <1>1, LogDomain DEF IInv, Types, Only
<1>3. LogsFit'
  BY <1>1 DEF IInv, LogsFit
<1>4. JobSound(j) /\ jobs[j].kind = "idle" /\ DOMAIN jobs[j].mails = {}
  BY IdleShape DEF IInv
<1>5. /\ row \in JobRow /\ row.to \in Seq(Recipients) /\ DOMAIN row.to \subseteq Nat
  BY LenProperties DEF JobRow
<1>6. Traces(j)'
  <2>1. \A i \in Nat :
          /\ <<j, i>> \notin accepted /\ <<j, i>> \notin refused
          /\ \A l \in 1..Len(logs) : logs[l].mail # <<j, i>>
    BY <1>4 DEF JobSound, Traces, PcOf
  <2>2. \A i \in Nat : PcOf(jobs[j], i)' # "skipped"
    BY <1>1 DEF PcOf, NewMail
  <2>. QED
    BY <1>1, <2>1, <2>2 DEF Traces, PcOf
<1>7. MailsSound(j)'
  BY <1>1 DEF MailsSound, NewMail
<1>8. Earned(jobs[j].dirty)'
  BY <1>1 DEF Earned
<1>9. NoticesSound(j)'
  BY <1>1, <1>4, <1>5 DEF JobSound, NoticesSound
<1>10. JobShape(j)'
  BY <1>1 DEF JobShape
<1>11. JobSound(j)'
  BY <1>6, <1>7, <1>8, <1>9, <1>10 DEF JobSound
<1>. QED
  BY <1>1, <1>2, <1>3, <1>4, <1>11, StepSound

\* What Started makes of an idle job.
Begun(row, kind, mail, to, mails) ==
  row = [Idle EXCEPT !.kind = kind, !.mail = mail, !.to = to, !.mails = mails,
                     !.inApp = (kind = "announcement")]

LEMMA StartedIs ==
  ASSUME NEW n \in Nat, NEW to \in [1..n -> Recipients], NEW kind \in Kind, NEW mail \in Letter,
         NEW mails \in [1..n -> {NewMail}],
         NEW row, Begun(row, kind, mail, to, mails)
  PROVE  /\ row \in JobRow /\ [row EXCEPT !.mails = <<>>] \in JobRow
         /\ row.kind = kind /\ row.dirty = {} /\ row.to = to /\ row.mails = mails
         /\ row.inApp => kind = "announcement"
<1>1. to \in Seq(Recipients) /\ DOMAIN to = 1..n
  BY SeqDef
<1>2. mails \in Seq(MailRow)
  <2>1. NewMail \in MailRow
    BY DEF NewMail, MailRow, Stage
  <2>2. mails \in [1..n -> MailRow]
    BY <1>1, <2>1
  <2>. QED
    BY <2>2, SeqDef
<1>3. <<>> \in Seq(MailRow)
  BY EmptySeq
<1>4. Idle \in JobRow /\ Idle.dirty = {}
  BY IdleShape
<1>5. /\ row \in JobRow /\ row.kind = kind /\ row.dirty = {} /\ row.to = to
      /\ row.mails = mails /\ (row.inApp => kind = "announcement")
  BY <1>1, <1>2, <1>4 DEF JobRow, Begun
<1>. QED
  BY <1>3, <1>5 DEF JobRow

LEMMA RequestSound ==
  ASSUME IInv, NEW j \in Jobs, Request(j)
  PROVE  IInv'
<1>1. ASSUME NEW n \in Nat, NEW to \in [1..n -> Recipients], NEW mail \in Letter,
             NEW kind \in {"single", "batch", "announcement"}, jobs[j] = Idle,
             jobs' = Started(j, kind, mail, to), UNCHANGED <<rows, accepted, refused>>
      PROVE  IInv'
  <2>0. PICK mails \in [1..n -> {NewMail}] : mails = [i \in DOMAIN to |-> NewMail]
    OBVIOUS
  <2>1. PICK row : Begun(row, kind, mail, to, mails)
    BY DEF Begun
  <2>2. /\ row \in JobRow /\ row.kind = kind /\ row.dirty = {} /\ row.to = to
        /\ row.mails = mails /\ (row.inApp => kind = "announcement")
    <3>1. kind \in Kind
      BY DEF Kind
    <3>2. row \in JobRow
      BY <2>1, <3>1, StartedIs
    <3>3. Idle \in JobRow /\ Idle.dirty = {}
      BY IdleShape
    <3>. QED
      BY <2>1, <3>2, <3>3 DEF Begun, JobRow
  <2>3. jobs' = [jobs EXCEPT ![j] = row]
    BY <1>1, <2>0, <2>1 DEF Started, Begun
  <2>4. DOMAIN row.mails = DOMAIN row.to /\ \A i \in DOMAIN row.mails : row.mails[i] = NewMail
    BY <2>0, <2>2
  <2>. QED
    BY <1>1, <2>2, <2>3, <2>4, StartSound
<1>2. ASSUME NEW to \in Lists PROVE \E n \in Nat : to \in [1..n -> Recipients]
  <2>1. PICK n \in 1..3 : to \in [1..n -> Recipients]
    BY Zenon DEF Lists
  <2>2. n \in Nat
    OBVIOUS
  <2>. QED
    BY <2>1, <2>2
<1>3. CASE \E mail \in SingleMails, a \in Recipients : SendMail(j, mail, a)
  <2>1. PICK mail \in SingleMails, a \in Recipients : SendMail(j, mail, a)
    BY <1>3
  <2>2. mail \in Letter /\ <<a>> \in [1..1 -> Recipients]
    BY DEF Letter
  <2>. QED
    BY <1>1, <2>1, <2>2 DEF SendMail, Start
<1>4. CASE \E to \in Lists : SendManualTemplate(j, to)
  <2>1. ManualTemplate \in Letter
    BY DEF Letter
  <2>. QED
    BY <1>1, <1>2, <1>4, <2>1 DEF SendManualTemplate, Start
<1>5. CASE \E to \in Lists : CreateAnnouncement(j, to)
  <2>1. sendAnnouncementEmail \in Letter
    BY DEF Letter
  <2>2. PICK to \in Lists : CreateAnnouncement(j, to)
    BY <1>5
  <2>. PICK n \in Nat : to \in [1..n -> Recipients]
    BY <1>2
  <2>3. CASE Start(j, "announcement", sendAnnouncementEmail, to)
    BY <1>1, <2>1, <2>2, <2>3 DEF Start
  <2>4. CASE /\ jobs[j] = Idle
             /\ jobs' = [Started(j, "announcement", sendAnnouncementEmail, to)
                           EXCEPT ![j].mails = <<>>]
             /\ UNCHANGED <<wants, rows, accepted, refused>>
    <3>0. PICK mails \in [1..n -> {NewMail}] : mails = [i \in DOMAIN to |-> NewMail]
      OBVIOUS
    <3>1. PICK whole : Begun(whole, "announcement", sendAnnouncementEmail, to, mails)
      BY DEF Begun
    <3>2. PICK row : row = [whole EXCEPT !.mails = <<>>]
      OBVIOUS
    <3>3. /\ whole \in JobRow /\ row \in JobRow /\ whole.kind = "announcement"
          /\ whole.dirty = {}
      <4>1. "announcement" \in Kind
        BY DEF Kind
      <4>. QED
        BY <2>1, <3>1, <3>2, <4>1, StartedIs
    <3>4. row.kind = "announcement" /\ row.dirty = {} /\ row.mails = <<>>
      BY <3>2, <3>3 DEF JobRow
    <3>5. jobs' = [jobs EXCEPT ![j] = row]
      BY <2>4, <3>0, <3>1, <3>2 DEF Started, Begun, IInv, Types
    <3>6. \A i \in DOMAIN row.mails : row.mails[i] = NewMail
      BY <3>4, IdleShape
    <3>. QED
      BY <2>4, <3>3, <3>4, <3>5, <3>6, StartSound
  <2>. QED
    BY <2>2, <2>3, <2>4 DEF CreateAnnouncement
<1>. QED
  BY <1>3, <1>4, <1>5 DEF Request

\* A job that has ended holds nothing that could still be wrong.
LEMMA EndedSound ==
  ASSUME NEW j \in Jobs, jobs'[j] = Ended
  PROVE  JobSound(j)'
<1>1. /\ jobs'[j].kind = "ended" /\ jobs'[j].mails = <<>> /\ DOMAIN jobs'[j].mails = {}
      /\ jobs'[j].dirty = {} /\ ~jobs'[j].inApp
  BY IdleShape
<1>. QED
  BY <1>1 DEF JobSound, Traces, MailsSound, Earned, NoticesSound, JobShape

\* What the end of a job leaves alone.
LEMMA EndIs ==
  ASSUME IInv, NEW j \in Jobs, Relabelled, jobs' = [jobs EXCEPT ![j] = Ended],
         UNCHANGED <<inbox, accepted, refused>>
  PROVE  /\ Only(j) /\ JobSound(j)' /\ LogsFit'
         /\ jobs' \in [Jobs -> JobRow] /\ jobs'[j] = Ended /\ logs' \in Seq(LogRow)
<1>1. /\ jobs' \in [Jobs -> JobRow] /\ jobs'[j] = Ended
      /\ \A k \in Jobs \ {j} : jobs'[k] = jobs[k]
  BY IdleShape DEF IInv, Types
<1>2. /\ logs \in Seq(LogRow) /\ Len(logs) \in Nat /\ DOMAIN logs = 1..Len(logs)
      /\ logs' \in Seq(LogRow) /\ Len(logs') = Len(logs) /\ DOMAIN logs' = 1..Len(logs)
      /\ \A l \in 1..Len(logs) : logs'[l].mail = logs[l].mail
      /\ \A l \in 1..Len(logs) : logs'[l].status = "sent" => logs[l].mail \in accepted
  BY LogDomain DEF IInv, Types, Relabelled
<1>3. Only(j)
  BY <1>1, <1>2 DEF Only
<1>4. LogsFit'
  BY <1>2 DEF LogsFit, IInv
<1>. QED
  BY <1>1, <1>2, <1>3, <1>4, EndedSound

LEMMA EndSound ==
  ASSUME IInv, NEW j \in Jobs, EndJob(j)
  PROVE  IInv'
<1>1. /\ jobs[j].kind # "ended" /\ jobs' = [jobs EXCEPT ![j] = Ended]
      /\ UNCHANGED <<logs, activities, inbox, accepted, refused>>
  BY DEF EndJob, rows
<1>2. Relabelled
  BY <1>1, LogStays
<1>3. /\ Only(j) /\ JobSound(j)' /\ LogsFit'
      /\ jobs' \in [Jobs -> JobRow] /\ logs' \in Seq(LogRow)
  BY <1>1, <1>2, EndIs
<1>4. Types'
  BY <1>1, <1>3 DEF IInv, Types
<1>. QED
  BY <1>1, <1>3, <1>4, StepSound

-----------------------------------------------------------------------------
(***************************************************************************)
(* The report on a batch.                                                  *)
(***************************************************************************)
\* As many mails of a job as places.
MailsAt(j, I) == {<<j, i>> : i \in I}

LEMMA PairCount ==
  ASSUME NEW j, NEW I, IsFiniteSet(I)
  PROVE  Cardinality(MailsAt(j, I)) = Cardinality(I)
<1>. PICK S : S = {<<j, i>> : i \in I}
  OBVIOUS
<1>. PICK f : f = [i \in I |-> <<j, i>>]
  OBVIOUS
<1>1. f \in [I -> S]
  OBVIOUS
<1>2. \A a, b \in I : f[a] = f[b] => a = b
  OBVIOUS
<1>3. \A s \in S : \E i \in I : f[i] = s
  OBVIOUS
<1>4. f \in Bijection(I, S)
  BY <1>1, <1>2, <1>3, Zenon DEF Bijection, Injection, Surjection, IsInjective
<1>5. ExistsBijection(I, S)
  BY <1>4 DEF ExistsBijection
<1>. QED
  BY <1>5, FS_Bijection DEF MailsAt

\* A number of places and the rest of them.
LEMMA SplitCount ==
  ASSUME NEW n \in Nat, NEW I \in SUBSET (1..n)
  PROVE  /\ IsFiniteSet(I) /\ IsFiniteSet((1..n) \ I)
         /\ Cardinality(I) \in Nat /\ n - Cardinality(I) = Cardinality((1..n) \ I)
<1>1. IsFiniteSet(1..n) /\ Cardinality(1..n) = n
  BY FS_Interval
<1>2. IsFiniteSet(I) /\ Cardinality(I) \in Nat
  BY <1>1, FS_Subset, FS_CardinalityType
<1>3. /\ IsFiniteSet((1..n) \ I)
      /\ Cardinality((1..n) \ I) = Cardinality(1..n) - Cardinality((1..n) \cap I)
  BY <1>1, FS_Difference
<1>4. (1..n) \cap I = I
  OBVIOUS
<1>. QED
  BY <1>1, <1>2, <1>3, <1>4

\* When a batch has gone through, its history is in its mails.
LEMMA BatchCount ==
  ASSUME IInv, NEW j \in Jobs, jobs[j].kind = "batch", AllSent(j),
         NEW I, I = {i \in DOMAIN jobs[j].mails : jobs[j].mails[i].pc = "ok"}
  PROVE  /\ Len(jobs[j].to) \in Nat /\ Cardinality(I) \in Nat
         /\ Cardinality(I) = Of(j, accepted)
         /\ Len(jobs[j].to) - Cardinality(I) = Of(j, refused)
<1>. PICK n : n = Len(jobs[j].to)
  OBVIOUS
<1>1. /\ jobs[j] \in JobRow /\ JobSound(j)
      /\ accepted \subseteq Jobs \X Nat /\ refused \subseteq Jobs \X Nat
  BY DEF IInv, Types
<1>2. n \in Nat /\ DOMAIN jobs[j].mails = 1..n
  <2>1. jobs[j].to \in Seq(Recipients)
    BY <1>1 DEF JobRow
  <2>2. DOMAIN jobs[j].mails = DOMAIN jobs[j].to
    BY <1>1 DEF JobSound, JobShape
  <2>. QED
    BY <2>1, <2>2, LenProperties
<1>3. I \in SUBSET (1..n)
  BY <1>2
<1>4. \A i \in 1..n : i \in Nat /\ jobs[j].mails[i].pc \in {"ok", "skipped"}
  BY <1>2 DEF AllSent
<1>5. \A i \in Nat : <<j, i>> \in accepted <=> i \in I
  <2>1. ASSUME NEW i \in Nat, <<j, i>> \in accepted PROVE i \in I
    <3>1. PcOf(jobs[j], i) \in {"mark", "ok", "failed"}
      BY <1>1, <2>1 DEF JobSound, Traces
    <3>2. i \in 1..n /\ jobs[j].mails[i].pc \in {"mark", "ok", "failed"}
      BY <1>2, <3>1 DEF PcOf
    <3>. QED
      BY <1>2, <1>4, <3>2
  <2>2. ASSUME NEW i \in I PROVE <<j, i>> \in accepted
    BY <1>1, <2>2 DEF JobSound, MailsSound
  <2>. QED
    BY <2>1, <2>2
<1>6. \A i \in Nat : <<j, i>> \in refused <=> i \in (1..n) \ I
  <2>1. \A i \in Nat : <<j, i>> \in refused <=> PcOf(jobs[j], i) = "skipped"
    BY <1>1 DEF JobSound, Traces
  <2>2. \A i \in Nat : PcOf(jobs[j], i) = "skipped" <=> i \in (1..n) \ I
    BY <1>2, <1>4 DEF PcOf
  <2>. QED
    BY <2>1, <2>2
<1>7. {m \in accepted : m[1] = j} = MailsAt(j, I)
  BY <1>1, <1>3, <1>4, <1>5 DEF MailsAt
<1>8. {m \in refused : m[1] = j} = MailsAt(j, (1..n) \ I)
  BY <1>1, <1>4, <1>6 DEF MailsAt
<1>9. /\ IsFiniteSet(I) /\ IsFiniteSet((1..n) \ I)
      /\ Cardinality(I) \in Nat /\ n - Cardinality(I) = Cardinality((1..n) \ I)
  BY <1>2, <1>3, SplitCount
<1>10. Of(j, accepted) = Cardinality(I)
  <2>1. Cardinality(MailsAt(j, I)) = Cardinality(I)
    BY <1>9, PairCount
  <2>. QED
    BY <1>7, <2>1, Zenon DEF Of
<1>11. Of(j, refused) = Cardinality((1..n) \ I)
  <2>1. Cardinality(MailsAt(j, (1..n) \ I)) = Cardinality((1..n) \ I)
    BY <1>9, PairCount
  <2>. QED
    BY <1>8, <2>1, Zenon DEF Of
<1>. QED
  BY <1>2, <1>9, <1>10, <1>11

LEMMA RecordSound ==
  ASSUME IInv, NEW j \in Jobs, RecordActivity(j)
  PROVE  IInv'
<1>. PICK I : I = {i \in DOMAIN jobs[j].mails : jobs[j].mails[i].pc = "ok"}
  OBVIOUS
<1>. PICK a : a = [job |-> j, requested |-> Len(jobs[j].to), sent |-> Cardinality(I)]
  OBVIOUS
<1>1. /\ jobs[j].kind = "batch" /\ AllSent(j) /\ activities' = activities \cup {a}
      /\ logs' = Marked(logs, jobs[j].dirty) /\ jobs' = [jobs EXCEPT ![j] = Ended]
      /\ UNCHANGED <<inbox, accepted, refused>>
  BY DEF RecordActivity
<1>2. jobs[j].dirty \in SUBSET (Nat \X {"sent", "failed"}) /\ Earned(jobs[j].dirty)
  BY DEF IInv, Types, JobRow, JobSound
<1>3. Relabelled
  BY <1>1, <1>2, LogMarked
<1>4. /\ Only(j) /\ JobSound(j)' /\ LogsFit'
      /\ jobs' \in [Jobs -> JobRow] /\ jobs'[j] = Ended /\ logs' \in Seq(LogRow)
  BY <1>1, <1>3, EndIs
<1>5. /\ Len(jobs[j].to) \in Nat /\ Cardinality(I) \in Nat
      /\ Cardinality(I) = Of(j, accepted)
      /\ Len(jobs[j].to) - Cardinality(I) = Of(j, refused)
  BY <1>1, BatchCount
<1>6. a \in Report
  BY <1>5 DEF Report
<1>7. Types'
  BY <1>1, <1>4, <1>6 DEF IInv, Types
<1>8. ReportSound(a)'
  <2>1. jobs'[a.job].kind = "ended"
    BY <1>4, IdleShape
  <2>. QED
    BY <1>1, <1>5, <2>1 DEF ReportSound, Of
<1>9. \A b \in activities' \ activities : ReportSound(b)'
  BY <1>1, <1>8
<1>. QED
  BY <1>1, <1>4, <1>7, <1>9, StepSound

-----------------------------------------------------------------------------
(***************************************************************************)
(* Notifications, preferences and crashes.                                 *)
(***************************************************************************)
LEMMA NotifySound ==
  ASSUME IInv, NEW j \in Jobs, NotifyInApp(j)
  PROVE  IInv'
<1>. PICK all : all = {<<j, i>> : i \in DOMAIN jobs[j].to}
  OBVIOUS
<1>. PICK D : D = IF inbox' = inbox THEN jobs[j].dirty ELSE {}
  OBVIOUS
<1>. PICK row : row = [jobs[j] EXCEPT !.inApp = FALSE, !.dirty = D]
  OBVIOUS
<1>0. /\ jobs[j] \in JobRow /\ JobSound(j) /\ DOMAIN jobs[j].to \subseteq Nat
      /\ jobs \in [Jobs -> JobRow]
  BY JobFacts DEF IInv, Types
<1>1. /\ jobs[j].inApp /\ inbox' \in {inbox, inbox \cup all}
      /\ logs' = IF inbox' = inbox THEN logs ELSE Marked(logs, jobs[j].dirty)
      /\ UNCHANGED <<activities, accepted, refused>>
  BY DEF NotifyInApp
<1>2. /\ jobs[j].dirty \in SUBSET (Nat \X {"sent", "failed"}) /\ Earned(jobs[j].dirty)
      /\ D \in SUBSET (Nat \X {"sent", "failed"}) /\ Earned(D)
  BY <1>0 DEF JobRow, JobSound, Earned
<1>3. Relabelled
  <2>1. CASE inbox' = inbox
    BY <1>1, <2>1, LogStays
  <2>2. CASE inbox' # inbox
    BY <1>1, <1>2, <2>2, LogMarked
  <2>. QED
    BY <2>1, <2>2
<1>4. jobs' = [jobs EXCEPT ![j] = row]
  <2>1. CASE inbox' = inbox
    <3>1. jobs' = [jobs EXCEPT ![j] = [jobs[j] EXCEPT !.inApp = FALSE, !.dirty = @]]
      BY <1>0, <2>1 DEF NotifyInApp, JobRow
    <3>. QED
      BY <2>1, <3>1
  <2>2. CASE inbox' # inbox
    BY <1>0, <2>2 DEF NotifyInApp, JobRow
  <2>. QED
    BY <2>1, <2>2
<1>5. /\ row \in JobRow /\ row.kind = jobs[j].kind /\ row.to = jobs[j].to
      /\ row.mails = jobs[j].mails /\ row.dirty = D /\ ~row.inApp
  BY <1>0, <1>2 DEF JobRow
<1>6. /\ jobs' \in [Jobs -> JobRow] /\ jobs'[j] = row
      /\ \A k \in Jobs \ {j} : jobs'[k] = jobs[k]
  BY <1>0, <1>4, <1>5
<1>7. /\ logs \in Seq(LogRow) /\ Len(logs) \in Nat /\ DOMAIN logs = 1..Len(logs)
      /\ logs' \in Seq(LogRow) /\ Len(logs') = Len(logs) /\ DOMAIN logs' = 1..Len(logs)
      /\ \A l \in 1..Len(logs) : logs'[l].mail = logs[l].mail
      /\ \A l \in 1..Len(logs) : logs'[l].status = "sent" => logs[l].mail \in accepted
  BY <1>3, LogDomain DEF IInv, Types, Relabelled
<1>8. /\ inbox \subseteq inbox' /\ \A m \in inbox' \ inbox : m[1] = j
      /\ inbox' \subseteq Jobs \X Nat
  BY <1>0, <1>1 DEF IInv, Types
<1>9. Only(j)
  BY <1>1, <1>6, <1>7, <1>8 DEF Only
<1>10. Types'
  BY <1>1, <1>6, <1>7, <1>8 DEF IInv, Types
<1>11. LogsFit'
  BY <1>1, <1>7 DEF IInv, LogsFit
<1>12. Traces(j)'
  BY <1>0, <1>1, <1>5, <1>6, <1>7 DEF JobSound, Traces, PcOf
<1>13. MailsSound(j)'
  BY <1>0, <1>1, <1>5, <1>6, <1>7 DEF JobSound, MailsSound
<1>14. Earned(jobs[j].dirty)'
  BY <1>1, <1>2, <1>5, <1>6, <1>7 DEF Earned
<1>15. jobs[j].kind = "announcement"
  BY <1>0, <1>1 DEF JobSound, JobShape
<1>16. NoticesSound(j)'
  <2>1. \A i \in Nat : <<j, i>> \notin inbox
    BY <1>0, <1>1 DEF JobSound, NoticesSound
  <2>2. {i \in DOMAIN jobs[j].to : <<j, i>> \in inbox'} \in {{}, DOMAIN jobs[j].to}
    BY <1>0, <1>1, <2>1
  <2>. QED
    BY <1>5, <1>6, <1>15, <2>2 DEF NoticesSound
<1>17. JobShape(j)'
  BY <1>0, <1>5, <1>6 DEF JobSound, JobShape
<1>18. JobSound(j)'
  BY <1>12, <1>13, <1>14, <1>16, <1>17 DEF JobSound
<1>. QED
  BY <1>1, <1>9, <1>10, <1>11, <1>15, <1>18, StepSound

LEMMA StepOfJob ==
  ASSUME IInv, NEW j \in Jobs, Step(j)
  PROVE  IInv'
  BY AskSound, RenderSound, CreateSound, DeliverSound, MarkSound, RecordSound, NotifySound,
     EndSound
  DEF Step

LEMMA SameSound ==
  ASSUME IInv, UNCHANGED <<rows, jobs, accepted, refused>>
  PROVE  IInv'
<1>1. UNCHANGED <<logs, activities, inbox, jobs, accepted, refused>>
  BY DEF rows
<1>2. Types' /\ LogsFit'
  BY <1>1 DEF IInv, Types, LogsFit
<1>3. ASSUME NEW j \in Jobs PROVE JobSound(j)'
  BY <1>1 DEF IInv, JobSound, Traces, PcOf, MailsSound, Earned, NoticesSound, JobShape
<1>4. \A a \in activities' : ReportSound(a)'
  BY <1>1 DEF IInv, ReportSound, Of
<1>. QED
  BY <1>2, <1>3, <1>4 DEF IInv

LEMMA CrashSound ==
  ASSUME IInv, Crash
  PROVE  IInv'
<1>1. /\ jobs' = [j \in Jobs |-> IF jobs[j] = Idle THEN Idle ELSE Ended]
      /\ UNCHANGED <<logs, activities, inbox, accepted, refused>>
  BY DEF Crash, rows
<1>2. \A j \in Jobs : jobs'[j] = (IF jobs[j] = Idle THEN Idle ELSE Ended)
  BY <1>1
<1>3. Types'
  <2>1. jobs' \in [Jobs -> JobRow]
    BY <1>1, IdleShape
  <2>. QED
    BY <1>1, <2>1 DEF IInv, Types
<1>4. LogsFit'
  BY <1>1 DEF IInv, LogsFit
<1>5. ASSUME NEW j \in Jobs PROVE JobSound(j)'
  <2>1. CASE jobs[j] = Idle
    <3>1. jobs'[j] = jobs[j] /\ JobSound(j)
      BY <1>2, <2>1 DEF IInv
    <3>. QED
      BY <1>1, <3>1 DEF JobSound, Traces, PcOf, MailsSound, Earned, NoticesSound, JobShape
  <2>2. CASE jobs[j] # Idle
    BY <1>2, <2>2, EndedSound
  <2>. QED
    BY <2>1, <2>2
<1>6. ASSUME NEW a \in activities PROVE ReportSound(a)'
  <2>1. a.job \in Jobs /\ ReportSound(a)
    BY DEF IInv, Types, Report
  <2>2. jobs[a.job] # Idle
    BY <2>1, IdleShape DEF ReportSound
  <2>3. jobs'[a.job].kind = "ended"
    BY <1>2, <2>1, <2>2, IdleShape
  <2>. QED
    BY <1>1, <2>1, <2>3 DEF ReportSound, Of
<1>. QED
  BY <1>1, <1>3, <1>4, <1>5, <1>6 DEF IInv

-----------------------------------------------------------------------------
LEMMA InitSound == Init => IInv
<1>. SUFFICES ASSUME Init PROVE IInv
  OBVIOUS
<1>1. /\ logs = <<>> /\ activities = {} /\ inbox = {} /\ accepted = {} /\ refused = {}
      /\ jobs = [j \in Jobs |-> Idle]
  BY DEF Init
<1>2. logs \in Seq(LogRow) /\ Len(logs) = 0 /\ DOMAIN logs = {}
  BY <1>1, EmptySeq
<1>3. Types
  BY <1>1, <1>2, IdleShape DEF Types
<1>4. LogsFit
  BY <1>2 DEF LogsFit
<1>5. ASSUME NEW j \in Jobs PROVE JobSound(j)
  <2>1. jobs[j].kind = "idle" /\ jobs[j].mails = <<>> /\ jobs[j].dirty = {} /\ ~jobs[j].inApp
    BY <1>1, IdleShape
  <2>2. \A i \in Nat : PcOf(jobs[j], i) = "none"
    BY <2>1, IdleShape DEF PcOf
  <2>. QED
    BY <1>1, <1>2, <2>1, <2>2, IdleShape
    DEF JobSound, Traces, MailsSound, Earned, NoticesSound, JobShape
<1>. QED
  BY <1>1, <1>3, <1>4, <1>5 DEF IInv

LEMMA NextSound == IInv /\ [Next]_vars => IInv'
<1>. SUFFICES ASSUME IInv, [Next]_vars PROVE IInv'
  OBVIOUS
<1>1. ASSUME NEW j \in Jobs, Request(j) PROVE IInv'
  BY <1>1, RequestSound
<1>2. ASSUME NEW j \in Jobs, Step(j) PROVE IInv'
  BY <1>2, StepOfJob
<1>3. ASSUME NEW a \in Recipients, UpdateNotificationPreferences(a) PROVE IInv'
  BY <1>3, SameSound DEF UpdateNotificationPreferences
<1>4. CASE Crash
  BY <1>4, CrashSound
<1>5. CASE UNCHANGED vars
  BY <1>5, SameSound DEF vars
<1>. QED
  BY <1>1, <1>2, <1>3, <1>4, <1>5 DEF Next, Event

\* Whatever jobs run beside each other and however they are cut short: the log
\* calls no mail sent that the provider has not taken, and has a row for a mail
\* once (markEmailLogSent and its flushes); what is reported of a batch counts
\* the mails that were taken and the recipients who wanted none; and an
\* announcement is in the lists of all its recipients or of none.
THEOREM MailRecordsAlwaysHold == Spec => []MailRecordsHold
<1>1. Init => IInv
  BY InitSound
<1>2. IInv /\ [Next]_vars => IInv'
  BY NextSound
<1>3. IInv => MailRecordsHold
  BY Records
<1>. QED
  BY <1>1, <1>2, <1>3, PTL DEF Spec
=============================================================================
