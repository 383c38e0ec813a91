----------------------------- MODULE MailRecords -----------------------------
(***************************************************************************)
(* What the records about mail promise: the log, the reports on batches    *)
(* and the in-app lists, beside what the provider has taken.  Mailing is   *)
(* how they are kept.                                                      *)
(***************************************************************************)
EXTENDS Integers, Sequences, FiniteSets

CONSTANT Jobs  \* calls of a sender

VARIABLES
  logs,        \* rows of email_logs
  activities,  \* rows of admin_activity_logs for SEND_MANUAL_EMAIL
  inbox,       \* rows of account_notifications made for announcements
  jobs,
  accepted,    \* history: mails that the provider has taken
  refused      \* history: recipients that a batch found to want no mail

\* The log never calls a mail sent that the provider has not taken, and holds
\* one row per mail: neither failed flushes, nor marks that a later flush
\* writes, nor the mails that share an EntityManager change that.
LogsFit ==
  \A k, l \in DOMAIN logs :
    /\ logs[l].status = "sent" => logs[l].mail \in accepted
    /\ logs[k].mail = logs[l].mail => k = l

\* What an admin reads of a batch is what happened: as many mails as it says
\* were taken, and whoever got none wanted none.
ReportsFit ==
  \A a \in activities :
    LET Of(S) == Cardinality({m \in S : m[1] = a.job})
    IN  a.sent = Of(accepted) /\ a.requested - a.sent = Of(refused)

\* An announcement reaches the in-app list of all its recipients or of none.
NoticesTogether ==
  \A j \in Jobs : jobs[j].kind = "announcement" =>
    {i \in DOMAIN jobs[j].to : <<j, i>> \in inbox} \in {{}, DOMAIN jobs[j].to}

\* The mail log, the reports on batches and the notifications of an announcement
\* say what has happened.
MailRecordsHold == LogsFit /\ ReportsFit /\ NoticesTogether
=============================================================================
