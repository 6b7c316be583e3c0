------------------------------ MODULE LinkedIn ------------------------------
(***************************************************************************)
(* The LinkedIn sequence of one outreach record, which people carry out    *)
(* by hand and record in the outreach workbench: the state of the record,  *)
(* its ChannelAction rows, Pulse's checks, and whatever pauses or ends the *)
(* rows in between (edits, reviews, Echo, a suspension, a reply by email,  *)
(* Sentinel's opt-out, a meeting).                                         *)
(*                                                                         *)
(* Each request is one transaction that locks the record, and may come     *)
(* from a page of any age.  What other records of the company decide is a  *)
(* free choice.  The contact has a profile and every version has all its   *)
(* texts.  Left out: the rows of the email sequence, and the row Echo      *)
(* inserts for the first message, which nothing here reads.                *)
(***************************************************************************)
EXTENDS Integers, FiniteSets

CONSTANTS LinkedInPolicies \* the outreach policies to choose from

ASSUME LinkedInAssumption ==
    LinkedInPolicies \subseteq
        [review : BOOLEAN, stopOnReply : BOOLEAN, stopOnOptOut : BOOLEAN, stopOnMeeting : BOOLEAN]

VARIABLES rules,     \* OutreachPolicy
          linkedin,  \* OutreachRecord.linkedinStatus
          email,     \* OutreachRecord.emailStatus
          approval,  \* OutreachRecord.approvalStatus
          due,       \* OutreachRecord.nextFollowUpAt is set
          person,    \* Contact.status
          barred,    \* a SuppressionEntry matches the contact
          meets,     \* a Meeting with the contact lies ahead
          row,       \* status of the ChannelAction rows
          dated,     \* the messages' rows whose completedAt is set
          sent,      \* history: messages a person recorded as sent
          interrupted, \* history: a check was paused, or a meeting cleared the date
          ended      \* history: a meeting ended a pending row

linkedinRecord == <<linkedin, email, approval, due>>
linkedinContact == <<person, barred, meets>>
linkedinRows == <<row, dated>>
linkedinHistory == <<sent, interrupted, ended>>
linkedinVars == <<rules, linkedinRecord, linkedinContact, linkedinRows, linkedinHistory>>

\* The workbench's rows, one for each message, and Pulse's.
MessageRows == {"CONNECTION", "FOLLOW_UP_1"}
Checks == {"PULSE_CONNECTION_CHECK", "PULSE_REPLY_CHECK"}
RowNames == MessageRows \cup Checks

\* Rows that still stand to be handled.
Pending == {"NOT_STARTED", "READY", "QUEUED", "FOLLOW_UP_DUE"}
PendingRows == {n \in RowNames : row[n] \in Pending}

\* Every pending row gets a status, with or without a date of completion.
Settle(status) == row' = [n \in RowNames |-> IF n \in PendingRows THEN status ELSE row[n]]
Dated == dated' = dated \cup (PendingRows \cap MessageRows)

LinkedInInit ==
    /\ rules \in LinkedInPolicies
    /\ linkedin = "NOT_STARTED" /\ email = "NOT_STARTED"
    /\ approval = IF rules.review THEN "PENDING_REVIEW" ELSE "APPROVED"
    /\ due = FALSE
    /\ person = "NOT_CONTACTED" /\ barred = FALSE /\ meets = FALSE
    /\ row = [n \in RowNames |-> "NONE"] /\ dated = {}
    /\ sent = {} /\ interrupted = FALSE /\ ended = FALSE

-----------------------------------------------------------------------------
(* The workbench.                                                           *)

Actions == {"CONNECTION_SENT", "ACCEPTED", "FOLLOW_UP_SENT", "REPLIED", "NO_RESPONSE",
            "PAUSED", "RESUMED", "NOT_INTERESTED"}

\* What may be recorded in each state.
AllowedTransitions(state) ==
    CASE state = "NOT_STARTED" -> {"CONNECTION_SENT", "PAUSED"}
      [] state = "CONNECTION_SENT" -> {"ACCEPTED", "REPLIED", "NO_RESPONSE", "PAUSED", "NOT_INTERESTED"}
      [] state = "ACCEPTED" -> {"FOLLOW_UP_SENT", "REPLIED", "PAUSED", "NOT_INTERESTED"}
      [] state = "FOLLOW_UP_SENT" -> {"REPLIED", "NO_RESPONSE", "PAUSED", "NOT_INTERESTED"}
      [] state = "PAUSED" -> {"RESUMED", "NOT_INTERESTED"}
      [] OTHER -> {}

\* Mutant of ResumedState: only the connection request is looked at.
ResumedFromConnection ==
    IF row["CONNECTION"] = "ACCEPTED" THEN "ACCEPTED"
    ELSE IF "CONNECTION" \in dated \/ row["CONNECTION"] = "SENT" THEN "CONNECTION_SENT"
    ELSE "NOT_STARTED"

ResumedState ==
    IF "FOLLOW_UP_1" \in dated \/ row["FOLLOW_UP_1"] = "SENT" THEN "FOLLOW_UP_SENT"
    ELSE IF row["CONNECTION"] = "ACCEPTED" THEN "ACCEPTED"
    ELSE IF "CONNECTION" \in dated \/ row["CONNECTION"] = "SENT" THEN "CONNECTION_SENT"
    ELSE "NOT_STARTED"

Target(a) == IF a = "RESUMED" THEN ResumedState ELSE a

Progressed == person \in {"REPLIED", "ACTIVE_CONVERSATION", "MEETING_SCHEDULED"}

\* What a message and a resumption ask for; colleagues: the limit of the company is reached.
MayActivate(colleagues) == approval = "APPROVED" /\ ~Progressed /\ ~barred /\ ~colleagues

\* The email sequence stops with this one.
StopsEmail(a) ==
    \/ a = "REPLIED" /\ rules.stopOnReply
    \/ a = "NOT_INTERESTED" /\ rules.stopOnOptOut
    \/ a = "PAUSED"

EmailAfter(a) ==
    IF a = "NOT_INTERESTED" /\ rules.stopOnOptOut THEN "SUPPRESSED"
    ELSE IF StopsEmail(a) /\ email \notin {"REPLIED", "SUPPRESSED", "BOUNCED"} THEN "PAUSED"
    ELSE email

\* A message dates its row; an acceptance makes the follow-up due.
RowsAfter(a) ==
    CASE a = "CONNECTION_SENT" -> /\ row' = [row EXCEPT !["CONNECTION"] = "SENT"]
                                  /\ dated' = dated \cup {"CONNECTION"}
      [] a = "ACCEPTED" -> /\ row' = [row EXCEPT !["CONNECTION"] = "ACCEPTED", !["FOLLOW_UP_1"] = "FOLLOW_UP_DUE"]
                           /\ dated' = IF row["CONNECTION"] = "NONE" THEN dated \cup {"CONNECTION"} ELSE dated
      [] a = "FOLLOW_UP_SENT" -> /\ row' = [row EXCEPT !["FOLLOW_UP_1"] = "SENT"]
                                 /\ dated' = dated \cup {"FOLLOW_UP_1"}
      [] a = "RESUMED" -> /\ row' = [n \in RowNames |->
                                        IF n \in MessageRows \ dated /\ row[n] = "PAUSED"
                                        THEN IF n = "CONNECTION" THEN "READY" ELSE "FOLLOW_UP_DUE"
                                        ELSE row[n]]
                          /\ UNCHANGED dated
      [] a = "PAUSED" -> Settle(a) /\ UNCHANGED dated
      [] OTHER -> Settle(a) /\ Dated

PersonAfter(a) ==
    CASE a = "CONNECTION_SENT" /\ person = "NOT_CONTACTED" -> "CONTACTED"
      [] a = "REPLIED" -> "REPLIED"
      [] a = "NOT_INTERESTED" -> "UNRESPONSIVE"
      [] OTHER -> person

\* linkedinAction; what already stands is not recorded again.
RecordLinkedIn(a) ==
    /\ Target(a) # linkedin
    /\ a \in AllowedTransitions(linkedin)
    /\ a \in {"CONNECTION_SENT", "FOLLOW_UP_SENT", "RESUMED"} => \E c \in BOOLEAN : MayActivate(c)
    /\ linkedin' = Target(a)
    /\ email' = EmailAfter(a)
    /\ due' = (a \in {"CONNECTION_SENT", "FOLLOW_UP_SENT", "ACCEPTED"} \/ (due /\ a \in {"PAUSED", "RESUMED"}))
    /\ RowsAfter(a)
    /\ person' = PersonAfter(a)
    /\ barred' = (barred \/ (a = "NOT_INTERESTED" /\ rules.stopOnOptOut))
    /\ sent' = sent \cup ({a} \cap {"CONNECTION_SENT", "FOLLOW_UP_SENT"})
    /\ interrupted' = (interrupted \/ (a = "PAUSED" /\ Checks \cap PendingRows # {}))
    /\ UNCHANGED <<rules, approval, meets, ended>>

\* Mutant of Offered: the page leaves the approval to the server.
OfferedUnapproved == IF ~barred /\ ~Progressed THEN AllowedTransitions(linkedin) ELSE {}

\* detail, and the buttons of the workbench: none while something blocks the sequence.
Offered == IF approval = "APPROVED" /\ ~barred /\ ~Progressed THEN AllowedTransitions(linkedin) ELSE {}

\* The page's other buttons.
LinkedInButtons == Offered
ApproveButton == approval # "APPROVED"
NeedsChangesButton == approval # "NEEDS_CHANGES"

\* Rows are paused in mid-air.
Pause ==
    /\ Settle("PAUSED")
    /\ interrupted' = (interrupted \/ Checks \cap PendingRows # {})

\* The editor: a new version needs approval again, and pauses what is pending.
SaveVersion ==
    /\ approval' = "PENDING_REVIEW"
    /\ Pause
    /\ UNCHANGED <<rules, linkedin, email, due, linkedinContact, dated, sent, ended>>

\* Approval readies the connection request unless it went out, or ended in an answer.
ApproveVersion ==
    /\ approval # "APPROVED"
    /\ approval' = "APPROVED"
    /\ row' = IF barred \/ row["CONNECTION"] \in {"SENT", "ACCEPTED", "REPLIED", "NOT_INTERESTED"}
              THEN row ELSE [row EXCEPT !["CONNECTION"] = "READY"]
    /\ UNCHANGED <<rules, linkedin, email, due, linkedinContact, dated, linkedinHistory>>

RefuseVersion ==
    /\ approval # "NEEDS_CHANGES"
    /\ approval' = "NEEDS_CHANGES"
    /\ Pause
    /\ UNCHANGED <<rules, linkedin, email, due, linkedinContact, dated, sent, ended>>

-----------------------------------------------------------------------------
(* What happens to the record elsewhere.                                    *)

\* applyEcho on a record that exists.
EchoRedrafts ==
    /\ approval' = IF rules.review THEN "PENDING_REVIEW" ELSE "APPROVED"
    /\ UNCHANGED <<rules, linkedin, email, due, linkedinContact, linkedinRows, linkedinHistory>>

\* A reply or a bounce by email, or a suppression by a user.
MailAnswers(status) ==
    /\ email' = status
    /\ person' = IF status = "REPLIED" THEN "REPLIED" ELSE person
    /\ barred' = (barred \/ status # "REPLIED")
    /\ UNCHANGED <<rules, linkedin, approval, due, meets, linkedinRows, linkedinHistory>>

\* Sentinel takes a reply for an opt-out.
SentinelOptsOut ==
    /\ person = "REPLIED"
    /\ linkedin' = "NOT_INTERESTED" /\ email' = "SUPPRESSED" /\ due' = FALSE
    /\ barred' = TRUE
    /\ Settle("SUPPRESSED") /\ Dated
    /\ UNCHANGED <<rules, approval, person, meets, linkedinHistory>>

\* Nova's approved answer makes it a conversation.
ConversationStarts ==
    /\ person = "REPLIED"
    /\ person' = "ACTIVE_CONVERSATION"
    /\ UNCHANGED <<rules, linkedinRecord, barred, meets, linkedinRows, linkedinHistory>>

\* stopOrganisation, as far as the rows are concerned.
OrganisationStops ==
    /\ Pause
    /\ UNCHANGED <<rules, linkedinRecord, linkedinContact, dated, sent, ended>>

\* A meeting is booked, or its time comes.
MeetingAhead ==
    /\ meets' = ~meets
    /\ UNCHANGED <<rules, linkedinRecord, person, barred, linkedinRows, linkedinHistory>>

-----------------------------------------------------------------------------
(* Pulse (reconcile).                                                       *)

Answered == email = "REPLIED" \/ linkedin = "REPLIED" \/ person \in {"REPLIED", "ACTIVE_CONVERSATION"}

MeetingStops == rules.stopOnMeeting /\ (meets \/ person = "MEETING_SCHEDULED")

\* stopUnsafeActions: what an answer, a suppression or a meeting makes of a pending row.
Unsafe(status) ==
    IF status \notin Pending THEN status
    ELSE IF Answered THEN "REPLIED"
    ELSE IF linkedin = "NOT_INTERESTED" \/ barred THEN "NOT_INTERESTED"
    ELSE IF MeetingStops THEN "PAUSED"
    ELSE status

WaitingFor(check) == linkedin = IF check = "PULSE_CONNECTION_CHECK" THEN "CONNECTION_SENT" ELSE "FOLLOW_UP_SENT"

\* closeObsoleteLinkedinChecks: the status of a check whose state has passed.
ClosedCheck(check) ==
    CASE linkedin \in {"REPLIED", "NOT_INTERESTED", "NO_RESPONSE", "PAUSED"} -> linkedin
      [] linkedin \in {"ACCEPTED", "FOLLOW_UP_SENT"} /\ check = "PULSE_CONNECTION_CHECK" -> "ACCEPTED"
      [] OTHER -> "PAUSED"

\* planLinkedinChecks: a record that waits for an answer, and may.
MayCheck == approval = "APPROVED" /\ ~Progressed /\ ~barred /\ ~(rules.stopOnMeeting /\ meets)

\* Mutant of Planned: the check of the follow-up is forgotten.
PlannedOnce(check) == check = "PULSE_CONNECTION_CHECK" /\ WaitingFor(check) /\ MayCheck /\ due

Planned(check) == WaitingFor(check) /\ MayCheck /\ due

PulseReconciles ==
    LET clears == \/ email \in {"REPLIED", "BOUNCED", "SUPPRESSED"}
                  \/ linkedin \in {"REPLIED", "NOT_INTERESTED"}
                  \/ Progressed \/ meets
        check(n) == LET status == Unsafe(row[n])
                    IN IF status \in Pending /\ ~WaitingFor(n) THEN ClosedCheck(n)
                       ELSE IF Planned(n) /\ ~clears /\ status \in Pending \cup {"NONE"} THEN "FOLLOW_UP_DUE"
                       ELSE status
    IN /\ due' = (due /\ ~clears)
       /\ row' = [n \in RowNames |-> IF n \in Checks THEN check(n) ELSE Unsafe(row[n])]
       /\ dated' = dated \cup {n \in MessageRows : row'[n] # row[n]}
       /\ ended' = (ended \/ (dated' # dated /\ ~Answered /\ ~barred /\ linkedin # "NOT_INTERESTED"))
       /\ interrupted' = (interrupted \/ (meets /\ due))
       /\ UNCHANGED <<rules, linkedin, email, approval, linkedinContact, sent>>

LinkedInNext ==
    \/ \E a \in Actions : RecordLinkedIn(a)
    \/ SaveVersion
    \/ ApproveVersion
    \/ RefuseVersion
    \/ EchoRedrafts
    \/ \E status \in {"REPLIED", "BOUNCED", "SUPPRESSED"} : MailAnswers(status)
    \/ SentinelOptsOut
    \/ ConversationStarts
    \/ OrganisationStops
    \/ MeetingAhead
    \/ PulseReconciles

LinkedInSpec == LinkedInInit /\ [][LinkedInNext]_linkedinVars

-----------------------------------------------------------------------------
(* Properties.                                                              *)

\* What the state of the record says was sent on LinkedIn is what people
\* recorded, no more and no less, through pauses and resumptions, edits,
\* reviews, suspensions, replies by email and Pulse: a resumption neither
\* forgets a message, to be sent twice, nor invents one.  A meeting is the
\* exception: Pulse dates the pending rows it ends for it, and a resumption
\* takes the date for that of a message.
SaysWhatWasSent ==
    ~ended =>
        /\ linkedin = "NOT_STARTED" => sent = {}
        /\ linkedin \in {"CONNECTION_SENT", "ACCEPTED"} => sent = {"CONNECTION_SENT"}
        /\ linkedin = "FOLLOW_UP_SENT" => sent = {"CONNECTION_SENT", "FOLLOW_UP_SENT"}

\* Every button of the workbench, for what happened on LinkedIn or for the
\* version of the message, is one the server takes, as long as the page is fresh.
OffersAreRecorded ==
    /\ \A a \in LinkedInButtons : ENABLED RecordLinkedIn(a)
    /\ ApproveButton => ENABLED ApproveVersion
    /\ NeedsChangesButton => ENABLED RefuseVersion
    /\ ENABLED SaveVersion /\ ENABLED MailAnswers("SUPPRESSED")

\* operations: the rows listed as due.
Listed(n) == row[n] \in {"READY", "FOLLOW_UP_DUE"}

Waiting == due /\ \E check \in Checks : WaitingFor(check)

\* A record that waits for an answer, and on which nothing was ever
\* interrupted, does not fall silent: every turn of Pulse leaves a check for
\* it on the list of what is due.  (A check that was paused is never due again.)
PulseSurfacesWaiting ==
    [][PulseReconciles /\ (Waiting /\ MayCheck /\ ~interrupted)'
         => \E check \in Checks : (WaitingFor(check) /\ Listed(check))']_linkedinVars

=============================================================================
