------------------------------- MODULE Mailing -------------------------------
(***************************************************************************)
(* Mail and in-app notifications: what is sent, what the log says of it,   *)
(* and the two senders with many recipients, which are the batches of      *)
(* manual mail and the announcements.  A job is one call of a sender, with *)
(* its own EntityManager.                                                  *)
(***************************************************************************)
EXTENDS MailRecords

CONSTANTS
  Recipients,   \* addresses, with an account or without
  MaxLogs       \* bound on rows of email_logs

VARIABLE wants  \* accounts' emailNotificationsEnabled; an address without an account wants mail

rows == <<logs, activities, inbox>>
vars == <<wants, rows, jobs, accepted, refused>>

-----------------------------------------------------------------------------
(***************************************************************************)
(* What MailService sends: whether it asks for the recipient's preference, *)
(* and whether the body is rendered from a template ("template"), from a   *)
(* template or else from a text in the code ("either"), or written in the  *)
(* code ("code").                                                          *)
(***************************************************************************)
Mail(asks, body) == [asks |-> asks, body |-> body]

sendEmailVerification == Mail(TRUE, "template")
sendPasswordReset == Mail(TRUE, "either")
sendWelcomeEmail == Mail(TRUE, "either")
sendPasswordChangedEmail == Mail(TRUE, "either")
sendBankAccountRemovalEmail == Mail(TRUE, "either")
sendAdminInvite == Mail(FALSE, "either")
sendAnnouncementEmail == Mail(TRUE, "code")
sendRequestForInformationEmail == Mail(TRUE, "either")
sendTooManyPodsWarningEmail == Mail(TRUE, "either")
sendMissedContributionEmail == Mail(TRUE, "either")
sendPaymentSuccessEmail == Mail(TRUE, "either")
sendCustomPodInvitation == Mail(TRUE, "either")
sendPodJoinConfirmationEmail == Mail(TRUE, "either")
sendAccountInactivityReminder == Mail(TRUE, "either")
sendAccountClosureNotice == Mail(TRUE, "either")
ManualTemplate == Mail(TRUE, "template")

\* Those that are sent one at a time, at the end of some request.
SingleMails ==
  {sendEmailVerification, sendPasswordReset, sendWelcomeEmail, sendPasswordChangedEmail,
   sendBankAccountRemovalEmail, sendAdminInvite, sendRequestForInformationEmail,
   sendTooManyPodsWarningEmail, sendMissedContributionEmail, sendPaymentSuccessEmail,
   sendCustomPodInvitation, sendPodJoinConfirmationEmail, sendAccountInactivityReminder,
   sendAccountClosureNotice}

-----------------------------------------------------------------------------
\* The mails of a job, by the place of the recipient in it.
NewMail == [pc |-> "ask", log |-> 0, sent |-> FALSE]

Idle ==
  [kind |-> "idle", mail |-> ManualTemplate, to |-> <<>>, mails |-> <<>>, dirty |-> {},
   inApp |-> FALSE]

Init ==
  /\ wants \in [Recipients -> BOOLEAN]
  /\ logs = <<>>
  /\ activities = {}
  /\ inbox = {}
  /\ jobs = [j \in Jobs |-> Idle]
  /\ accepted = {}
  /\ refused = {}

Started(j, kind, mail, to) ==
  [jobs EXCEPT ![j] = [Idle EXCEPT !.kind = kind, !.mail = mail, !.to = to,
                                   !.mails = [i \in DOMAIN to |-> NewMail],
                                   !.inApp = (kind = "announcement")]]

\* Each job is started once, so that it can name its mails in the history.
Start(j, kind, mail, to) ==
  /\ jobs[j] = Idle
  /\ jobs' = Started(j, kind, mail, to)
  /\ UNCHANGED <<wants, rows, accepted, refused>>

SendMail(j, mail, to) == Start(j, "single", mail, <<to>>)

\* The template is known and every recipient has the variables it requires,
\* otherwise nothing is sent at all.
SendManualTemplate(j, to) == Start(j, "batch", ManualTemplate, to)

\* The announcement and its recipients, each once, are committed; the mails, if
\* its channel is mail, and the notifications follow when the answer is sent.
CreateAnnouncement(j, to) ==
  /\ Cardinality({to[i] : i \in DOMAIN to}) = Len(to)
  /\ \/ Start(j, "announcement", sendAnnouncementEmail, to)
     \/ /\ jobs[j] = Idle
        /\ jobs' = [Started(j, "announcement", sendAnnouncementEmail, to)
                      EXCEPT ![j].mails = <<>>]
        /\ UNCHANGED <<wants, rows, accepted, refused>>

Finished == {"ok", "skipped", "failed"}

\* A batch goes from one recipient to the next and stops at a failure; the mails
\* of an announcement are on their way all at once.
Turn(j, i) ==
  jobs[j].kind = "batch" =>
    \A k \in DOMAIN jobs[j].mails : k < i => jobs[j].mails[k].pc \in {"ok", "skipped"}

At(j, i, pc) ==
  i \in DOMAIN jobs[j].mails /\ jobs[j].mails[i].pc = pc /\ Turn(j, i)

Goes(j, i, pc) == jobs' = [jobs EXCEPT ![j].mails[i].pc = pc]

-----------------------------------------------------------------------------
(***************************************************************************)
(* One mail.                                                               *)
(***************************************************************************)
\* shouldSendEmail: a preference that cannot be read counts as wanting mail.
AskPreference(j, i) ==
  /\ At(j, i, "ask")
  /\ \/ /\ jobs[j].mail.asks /\ ~wants[jobs[j].to[i]]
        /\ Goes(j, i, "skipped")
        /\ refused' = refused \cup {<<j, i>>}
     \/ Goes(j, i, "render") /\ UNCHANGED refused
  /\ UNCHANGED <<wants, rows, accepted>>

RenderTemplate(j, i) ==
  /\ At(j, i, "render")
  /\ \/ Goes(j, i, "log")
     \/ jobs[j].mail.body = "template" /\ Goes(j, i, "failed")
  /\ UNCHANGED <<wants, rows, accepted, refused>>

\* A flush writes all that the job's EntityManager holds, earlier marks included.
Marked(table, marks) ==
  [l \in DOMAIN table |->
     IF \E m \in marks : m[1] = l
     THEN [table[l] EXCEPT !.status = (CHOOSE m \in marks : m[1] = l)[2]]
     ELSE table[l]]

\* Without a log the mail is sent all the same.
CreateEmailLog(j, i) ==
  /\ At(j, i, "log")
  /\ \/ /\ Len(logs) < MaxLogs
        /\ logs' = Append(Marked(logs, jobs[j].dirty), [mail |-> <<j, i>>, status |-> "pending"])
        /\ jobs' = [jobs EXCEPT ![j].mails[i] = [@ EXCEPT !.pc = "deliver", !.log = Len(logs')],
                                ![j].dirty = {}]
     \/ Goes(j, i, "deliver") /\ UNCHANGED logs
  /\ UNCHANGED <<wants, activities, inbox, accepted, refused>>

\* Attachments that cannot be loaded are left out.  The answer may be lost after
\* the provider has taken the mail.
DeliverMail(j, i) ==
  /\ At(j, i, "deliver")
  /\ \/ /\ jobs' = [jobs EXCEPT ![j].mails[i] = [@ EXCEPT !.pc = "mark", !.sent = TRUE]]
        /\ accepted' = accepted \cup {<<j, i>>}
     \/ /\ Goes(j, i, "mark")
        /\ accepted' \in {accepted, accepted \cup {<<j, i>>}}
  /\ UNCHANGED <<wants, rows, refused>>

\* Mutant: a mail is marked as sent before anything is known of it.
MutStatusOf(m) == "sent"

StatusOf(m) == IF m.sent THEN "sent" ELSE "failed"

\* markEmailLogSent and markEmailLogFailed: a flush that fails is only logged,
\* and the mark stays with the job.
MarkEmailLog(j, i) ==
  LET m == jobs[j].mails[i]
      marks == jobs[j].dirty \cup (IF m.log = 0 THEN {} ELSE {<<m.log, StatusOf(m)>>})
      Answered(dirty) ==
        [jobs EXCEPT ![j].mails[i].pc = IF m.sent THEN "ok" ELSE "failed", ![j].dirty = dirty]
  IN  /\ At(j, i, "mark")
      /\ \/ logs' = Marked(logs, marks) /\ jobs' = Answered({})
         \/ UNCHANGED logs /\ jobs' = Answered(marks)
      /\ UNCHANGED <<wants, activities, inbox, accepted, refused>>

-----------------------------------------------------------------------------
(***************************************************************************)
(* What the senders with many recipients store.                            *)
(***************************************************************************)
Ended == [Idle EXCEPT !.kind = "ended"]

AllSent(j) == \A i \in DOMAIN jobs[j].mails : jobs[j].mails[i].pc \in {"ok", "skipped"}

\* Only a batch that went through is recorded.
RecordActivity(j) ==
  /\ jobs[j].kind = "batch" /\ AllSent(j)
  /\ activities' = activities \cup
       {[job |-> j, requested |-> Len(jobs[j].to),
         sent |-> Cardinality({i \in DOMAIN jobs[j].mails : jobs[j].mails[i].pc = "ok"})]}
  /\ logs' = Marked(logs, jobs[j].dirty)
  /\ jobs' = [jobs EXCEPT ![j] = Ended]
  /\ UNCHANGED <<wants, inbox, accepted, refused>>

\* createMany stores the notifications of all recipients in one flush, or none.
NotifyInApp(j) ==
  LET all == {<<j, i>> : i \in DOMAIN jobs[j].to}
  IN  /\ jobs[j].inApp
      /\ inbox' \in {inbox, inbox \cup all}
      /\ logs' = IF inbox' = inbox THEN logs ELSE Marked(logs, jobs[j].dirty)
      /\ jobs' = [jobs EXCEPT ![j].inApp = FALSE,
                              ![j].dirty = IF inbox' = inbox THEN @ ELSE {}]
      /\ UNCHANGED <<wants, activities, accepted, refused>>

\* The sender is answered, or the failures are logged.
EndJob(j) ==
  /\ \/ jobs[j].kind \in {"single", "announcement"} /\ ~jobs[j].inApp
          /\ \A i \in DOMAIN jobs[j].mails : jobs[j].mails[i].pc \in Finished
     \/ jobs[j].kind = "batch" /\ \E i \in DOMAIN jobs[j].mails : jobs[j].mails[i].pc = "failed"
  /\ jobs' = [jobs EXCEPT ![j] = Ended]
  /\ UNCHANGED <<wants, rows, accepted, refused>>

UpdateNotificationPreferences(a) ==
  /\ wants' = [wants EXCEPT ![a] = ~@]
  /\ UNCHANGED <<rows, jobs, accepted, refused>>

\* What has been committed stays, the rest of an announcement is forgotten.
Crash ==
  /\ \E j \in Jobs : jobs[j].kind \notin {"idle", "ended"}
  /\ jobs' = [j \in Jobs |-> IF jobs[j] = Idle THEN Idle ELSE Ended]
  /\ UNCHANGED <<wants, rows, accepted, refused>>

-----------------------------------------------------------------------------
\* A batch may name an address twice.
Lists == UNION {[1..n -> Recipients] : n \in 1..3}

Request(j) ==
  \/ \E mail \in SingleMails, a \in Recipients : SendMail(j, mail, a)
  \/ \E to \in Lists : SendManualTemplate(j, to) \/ CreateAnnouncement(j, to)

Step(j) ==
  \/ \E i \in DOMAIN jobs[j].mails :
       \/ AskPreference(j, i) \/ RenderTemplate(j, i) \/ CreateEmailLog(j, i)
       \/ DeliverMail(j, i) \/ MarkEmailLog(j, i)
  \/ RecordActivity(j) \/ NotifyInApp(j) \/ EndJob(j)

Event == (\E a \in Recipients : UpdateNotificationPreferences(a)) \/ Crash

Next == (\E j \in Jobs : Request(j) \/ Step(j)) \/ Event

Spec == Init /\ [][Next]_vars
=============================================================================
