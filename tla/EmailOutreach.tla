---------------------------- MODULE EmailOutreach ---------------------------
(***************************************************************************)
(* The email sequence of one outreach record: Echo's drafts, edits and     *)
(* approvals, the ChannelAction rows (one for each step of the sequence),  *)
(* the worker that claims queued rows, the Gmail requests of the API, the  *)
(* synchronisation of the mailbox, Pulse, and Sentinel's opt-out.          *)
(*                                                                         *)
(* A worker and an API request are read, judge, call Gmail, write; each    *)
(* part is a step, for nothing holds the rows in between.  What other      *)
(* records decide (an active colleague, the daily limit) and the clock     *)
(* (the sending window) are free choices.  The contact has an address and  *)
(* every version has all its texts.                                        *)
(***************************************************************************)
EXTENDS Integers, FiniteSets, SequencesExt

CONSTANTS Workers,       \* worker processes
          Apis,          \* Gmail requests of the API
          Steps,         \* the steps of the sequence that are used
          Policies,      \* the outreach policies to choose from
          Decisions,     \* what a reviewer may decide
          Meetings,      \* meetings with the contact may be booked
          MaxVersion,    \* bound: versions of the message
          RequestBound,  \* bound: Gmail requests
          RecoveryBound  \* bound: recoveries

AllSteps == {"INITIAL", "FOLLOW_UP_1", "FOLLOW_UP_2"}

ASSUME OutreachAssumption ==
    /\ IsFiniteSet(Workers)
    /\ Workers \cap Apis = {}
    /\ Steps \subseteq AllSteps
    /\ "INITIAL" \in Steps
    /\ IsFiniteSet(Steps)
    /\ Policies \subseteq [mode : {"MANUAL", "DRAFT_ONLY", "APPROVED_AUTOMATIC", "FULL_AUTOMATION"},
                           approvalMode : {"EVERY_MESSAGE", "INITIAL_ONLY", "HIGH_VALUE_ONLY", "NONE"},
                           linkedinFirst : BOOLEAN, highValue : BOOLEAN, followUps : 0..2,
                           stopOnReply : BOOLEAN, stopOnOptOut : BOOLEAN, stopOnMeeting : BOOLEAN]
    /\ Decisions \subseteq {"APPROVED", "REJECTED", "NEEDS_CHANGES"}
    /\ Meetings \in BOOLEAN
    /\ MaxVersion \in Nat
    /\ RequestBound \in Nat
    /\ RecoveryBound \in Nat

VARIABLES policy,      \* OutreachPolicy, with the value of the opportunity
          version,     \* OutreachRecord.currentVersionId; 0: no record yet
          approval,    \* OutreachRecord.approvalStatus
          emailStatus, \* OutreachRecord.emailStatus
          contact,     \* Contact.status
          suppressed,  \* a SuppressionEntry matches the contact
          meeting,     \* a Meeting with the contact lies ahead
          action,      \* the ChannelAction row of each step
          completed,   \* steps in the order of completedAt
          emails,      \* status of the newest EmailMessage of a step and kind
          newest,      \* the newest outbound EmailMessage
          mem,         \* what a worker or request has read and decided
          drafts,      \* Gmail: steps of which a draft lies there
          unseen,      \* Gmail: messages added since the last synchronisation
          left,        \* Gmail: steps of which an email has left
          approved,    \* history: versions that a reviewer approved
          mandate,     \* history: times a step was queued minus the worker's calls
          recovered,   \* history: recoveries of a step
          requests     \* history: Gmail requests made

recordVars == <<version, approval, emailStatus, contact, suppressed, meeting>>
rowVars == <<action, completed>>
mailVars == <<emails, newest>>
gmailVars == <<drafts, unseen, left>>
history == <<mandate, recovered, requests>>
vars == <<policy, recordVars, rowVars, mailVars, gmailVars, mem, approved, history>>

Processes == Workers \cup Apis

\* A message is a draft or an email of a step, made through the API of Gmail,
\* or a draft that somebody sent from the mailbox.
Messages == Steps \X {"draft", "sent"}
MailboxMessages == Steps \X {"draft", "sent", "hand"}
NoMessage == <<>>

Idle == [at |-> "idle"]
NoRow == [status |-> "NONE", version |-> 0, draft |-> FALSE, message |-> "none", rank |-> 0]

\* Rows that still stand to be handled.
Live == {"NOT_STARTED", "READY", "QUEUED"}

Statuses == Live \cup {"NONE", "SENT", "REPLIED", "PAUSED", "FAILED", "BOUNCED", "SUPPRESSED"}

OutreachTypeOK ==
    /\ policy \in Policies
    /\ version \in 0..MaxVersion
    /\ approval \in {"PENDING_REVIEW", "APPROVED", "REJECTED", "NEEDS_CHANGES"}
    /\ emailStatus \in {"NOT_STARTED", "DRAFT_CREATED", "QUEUED", "SENT", "REPLIED",
                        "FAILED", "BOUNCED", "SUPPRESSED"}
    /\ contact \in {"NOT_CONTACTED", "CONTACTED", "REPLIED"}
    /\ suppressed \in BOOLEAN
    /\ meeting \in BOOLEAN
    /\ action \in [Steps -> [status : Statuses, version : 0..MaxVersion, draft : BOOLEAN,
                             message : {"none", "draft", "sent", "hand"}, rank : 0..Cardinality(Steps)]]
    /\ completed \in Seq(Steps)
    /\ emails \in [Messages -> {"NONE", "DRAFT_CREATED", "SENT"}]
    /\ newest \in Messages \cup {NoMessage}
    /\ mem \in [Processes -> {Idle}
                 \cup [at : {"claimed", "loaded", "judged", "called"},
                       op : {"WORK", "QUEUE", "CREATE_DRAFT", "SEND_NOW"}, step : Steps,
                       version : 0..MaxVersion, draft : BOOLEAN, approved : BOOLEAN,
                       replied : BOOLEAN, late : BOOLEAN,
                       verdict : {"none", "BLOCK", "WAIT", "MANUAL", "CREATE_DRAFT", "SEND"}]]
    /\ drafts \subseteq Steps
    /\ unseen \subseteq MailboxMessages
    /\ left \subseteq Steps
    /\ approved \subseteq 1..MaxVersion
    /\ mandate \in [Steps -> Int]
    /\ recovered \in [Steps -> 0..RecoveryBound]
    /\ requests \in 0..RequestBound

OutreachInit ==
    /\ policy \in Policies
    /\ version = 0
    /\ approval = "PENDING_REVIEW"
    /\ emailStatus = "NOT_STARTED"
    /\ contact = "NOT_CONTACTED"
    /\ suppressed = FALSE
    /\ meeting = FALSE
    /\ action = [s \in Steps |-> NoRow]
    /\ completed = <<>>
    /\ emails = [m \in Messages |-> "NONE"]
    /\ newest = NoMessage
    /\ mem = [p \in Processes |-> Idle]
    /\ drafts = {} /\ unseen = {} /\ left = {}
    /\ approved = {}
    /\ mandate = [s \in Steps |-> 0]
    /\ recovered = [s \in Steps |-> 0]
    /\ requests = 0

-----------------------------------------------------------------------------
(* Rows.                                                                    *)

\* The rank of a row that is inserted now: rows are ordered by createdAt.
NextRank == 1 + Cardinality({s \in Steps : action[s].status # "NONE"})

NewRow(status, v, draft) ==
    [status |-> status, version |-> v, draft |-> draft, message |-> "none", rank |-> NextRank]

\* The rows with one of the statuses `from`, moved to the status `to`.
Moved(rows, from, to) ==
    [s \in Steps |-> IF rows[s].status \in from THEN [rows[s] EXCEPT !.status = to] ELSE rows[s]]

\* Somebody, or a rule of the system, puts the step in the queue.
Ask(s) == mandate' = [mandate EXCEPT ![s] = @ + 1]

\* The steps that are completed, without s.
Others(s) == SelectSeq(completed, LAMBDA t : t # s)

Contacted == IF contact = "NOT_CONTACTED" THEN "CONTACTED" ELSE contact

\* applyEcho makes a new version current; the row of the first step is
\* inserted, or pointed at the new version and given the same status again.
EchoDrafts ==
    LET automatic == ~policy.linkedinFirst /\ policy.mode = "FULL_AUTOMATION" /\ policy.approvalMode = "NONE"
        status == IF automatic THEN "QUEUED"
                  ELSE IF policy.approvalMode = "NONE" THEN "READY" ELSE "NOT_STARTED"
    IN /\ version < MaxVersion
       /\ version' = version + 1
       /\ approval' = IF policy.approvalMode = "NONE" THEN "APPROVED" ELSE "PENDING_REVIEW"
       /\ action' = [action EXCEPT !["INITIAL"] =
                        IF @.status = "NONE" THEN NewRow(status, version + 1, FALSE)
                        ELSE [@ EXCEPT !.status = status, !.version = version + 1]]
       /\ IF automatic THEN Ask("INITIAL") ELSE UNCHANGED mandate
       /\ UNCHANGED <<policy, emailStatus, contact, suppressed, meeting, completed, mailVars,
                      gmailVars, mem, approved, recovered, requests>>

\* updateVersion: an edited message is a new version that needs review; every
\* row that stands to be handled is paused.
EditVersion ==
    /\ version \in 1..MaxVersion - 1
    /\ version' = version + 1
    /\ approval' = "PENDING_REVIEW"
    /\ action' = Moved(action, Live, "PAUSED")
    /\ UNCHANGED <<policy, emailStatus, contact, suppressed, meeting, completed, mailVars,
                   gmailVars, mem, approved, history>>

\* decision: approving touches no email row; anything else pauses them.
Review(d) ==
    /\ version > 0
    /\ approval # d
    /\ approval' = d
    /\ action' = IF d = "APPROVED" THEN action ELSE Moved(action, Live, "PAUSED")
    /\ approved' = IF d = "APPROVED" THEN approved \cup {version} ELSE approved
    /\ UNCHANGED <<policy, version, emailStatus, contact, suppressed, meeting, completed, mailVars,
                   gmailVars, mem, history>>

-----------------------------------------------------------------------------
(* The policy.                                                              *)

ApprovalRequired(s) ==
    CASE policy.approvalMode = "NONE" -> FALSE
      [] policy.approvalMode = "EVERY_MESSAGE" -> TRUE
      [] policy.approvalMode = "INITIAL_ONLY" -> s = "INITIAL"
      [] policy.approvalMode = "HIGH_VALUE_ONLY" -> policy.highValue

\* Mutant of HasReply: only the record is asked, not the contact.
HasReplyOnRecord == emailStatus = "REPLIED"

HasReply == emailStatus = "REPLIED" \/ contact = "REPLIED"

Stopped == contact = "REPLIED" \/ suppressed

\* decideEmailAction on what process p has loaded and what it reads now.
Decision(m, colleague, limit, window) ==
    IF \/ (suppressed /\ policy.stopOnOptOut)
       \/ (m.replied /\ policy.stopOnReply)
       \/ (meeting /\ policy.stopOnMeeting)
       \/ colleague                                    THEN "BLOCK"
    ELSE IF limit                                      THEN "WAIT"
    ELSE IF ApprovalRequired(m.step) /\ ~m.approved    THEN "WAIT"
    ELSE IF policy.linkedinFirst                       THEN "CREATE_DRAFT"
    ELSE IF policy.mode = "MANUAL"                     THEN "MANUAL"
    ELSE IF policy.mode = "DRAFT_ONLY"                 THEN "CREATE_DRAFT"
    ELSE IF ~window                                    THEN "WAIT"
    ELSE "SEND"

Verdicts(m) == {Decision(m, c, l, w) : c, l, w \in BOOLEAN}

\* What was loaded is no longer needed once it has been judged.
Judged(m, v) == [m EXCEPT !.at = "judged", !.verdict = v, !.approved = FALSE, !.replied = FALSE]

-----------------------------------------------------------------------------
(* Results of Gmail, written by workers (saveResult) and requests           *)
(* (recordEmailResult).                                                     *)

WillSend(m) == m.op # "CREATE_DRAFT" /\ ~m.draft /\ m.verdict \in {"SEND", "MANUAL"}

\* Mutant of RowStatus: the row gets the status of the record.
RowAsRecord(sent) == IF sent THEN "SENT" ELSE "DRAFT_CREATED"

RowStatus(sent) == IF sent THEN "SENT" ELSE "READY"

MessageOf(m) == <<m.step, IF WillSend(m) THEN "sent" ELSE "draft">>

\* The row gets its result; a request inserts it if the step has none yet.
WriteResult(m) ==
    LET sent == WillSend(m)
        s == m.step
        row == IF action[s].status = "NONE" THEN NewRow("NONE", m.version, FALSE) ELSE action[s]
        email == MessageOf(m)
        status == IF sent THEN "SENT" ELSE "DRAFT_CREATED"
    IN /\ action' = [action EXCEPT ![s] = [row EXCEPT !.status = RowStatus(sent), !.message = email[2]]]
       /\ completed' = IF sent THEN Append(Others(s), s) ELSE Others(s)
       /\ emails' = [emails EXCEPT ![email] = status]
       /\ newest' = email
       /\ emailStatus' = status
       /\ contact' = IF sent THEN Contacted ELSE contact

\* Gmail accepts the message: it leaves, or lies among the drafts.
GmailAccepts(p) ==
    /\ mem' = [mem EXCEPT ![p].at = "called"]
    /\ IF WillSend(mem[p]) THEN /\ left' = left \cup {mem[p].step}
                                /\ UNCHANGED drafts
       ELSE /\ drafts' = drafts \cup {mem[p].step}
            /\ UNCHANGED left
    /\ unseen' = unseen \cup {MessageOf(mem[p])}

-----------------------------------------------------------------------------
(* The worker.                                                              *)

\* Mutant of Claimed: the claimed row is left in the queue.
ClaimedInPlace(s) == action

Claimed(s) == [action EXCEPT ![s].status = "READY"]

Claim(w, s) ==
    /\ mem[w] = Idle
    /\ action[s].status = "QUEUED"
    /\ action' = Claimed(s)
    /\ mem' = [mem EXCEPT ![w] = [at |-> "claimed", op |-> "WORK", step |-> s, version |-> 0,
                                  draft |-> FALSE, approved |-> FALSE, replied |-> FALSE,
                                  late |-> FALSE, verdict |-> "none"]]
    /\ UNCHANGED <<policy, recordVars, completed, mailVars, gmailVars, approved, history>>

Load(w) ==
    /\ mem[w].at = "claimed"
    /\ mem' = [mem EXCEPT ![w].at = "loaded",
                          ![w].version = action[mem[w].step].version,
                          ![w].draft = action[mem[w].step].draft,
                          ![w].approved = (approval = "APPROVED"),
                          ![w].replied = HasReply,
                          ![w].late = Stopped]
    /\ UNCHANGED <<policy, recordVars, rowVars, mailVars, gmailVars, approved, history>>

Judge(w) ==
    /\ mem[w].at = "loaded"
    /\ \E v \in Verdicts(mem[w]) : mem' = [mem EXCEPT ![w] = Judged(@, v)]
    /\ UNCHANGED <<policy, recordVars, rowVars, mailVars, gmailVars, approved, history>>

\* A refusal pauses the row, a delay puts it back in the queue, whatever the
\* row has become in the meantime.
Defer(w) ==
    /\ mem[w].at = "judged"
    /\ mem[w].verdict \in {"BLOCK", "WAIT"}
    /\ action' = [action EXCEPT ![mem[w].step].status =
                     IF mem[w].verdict = "BLOCK" THEN "PAUSED" ELSE "QUEUED"]
    /\ mem' = [mem EXCEPT ![w] = Idle]
    /\ UNCHANGED <<policy, recordVars, completed, mailVars, gmailVars, approved, history>>

\* Automated sending in manual mode is an error; a draft is not.
WorkerCalls(w) ==
    /\ mem[w].at = "judged"
    /\ mem[w].verdict \in {"CREATE_DRAFT", "SEND"} \cup (IF mem[w].draft THEN {"MANUAL"} ELSE {})
    /\ GmailAccepts(w)
    /\ mandate' = [mandate EXCEPT ![mem[w].step] = @ - 1]
    /\ UNCHANGED <<policy, recordVars, rowVars, mailVars, approved, recovered, requests>>

WorkerSaves(w) ==
    /\ mem[w].at = "called"
    /\ WriteResult(mem[w])
    /\ mem' = [mem EXCEPT ![w] = Idle]
    /\ UNCHANGED <<policy, version, approval, suppressed, meeting, gmailVars, approved, history>>

\* Whatever is thrown, before or after Gmail accepted the message, ends here.
WorkerFails(w) ==
    /\ mem[w] # Idle
    /\ action' = [action EXCEPT ![mem[w].step].status = "FAILED"]
    /\ emailStatus' = "FAILED"
    /\ mem' = [mem EXCEPT ![w] = Idle]
    /\ UNCHANGED <<policy, version, approval, contact, suppressed, meeting, completed, mailVars,
                   gmailVars, approved, history>>

\* A call whose result is lost does not count against the mandate.
WorkerDies(w) ==
    /\ mem[w] # Idle
    /\ mem' = [mem EXCEPT ![w] = Idle]
    /\ IF mem[w].at = "called" THEN Ask(mem[w].step) ELSE UNCHANGED mandate
    /\ UNCHANGED <<policy, recordVars, rowVars, mailVars, gmailVars, approved, recovered, requests>>

\* recoverStale requeues the READY rows that nobody touched for ten minutes;
\* a worker that lives is done with its row by then.
RecoverStale ==
    \E stale \in SUBSET {s \in Steps : /\ action[s].status = "READY"
                                       /\ \A w \in Workers : mem[w] = Idle \/ mem[w].step # s} :
        /\ stale # {}
        /\ Cardinality(stale) + FoldFunction(+, 0, recovered) <= RecoveryBound
        /\ action' = [s \in Steps |->
                         IF s \in stale THEN [action[s] EXCEPT !.status = "QUEUED"] ELSE action[s]]
        /\ recovered' = [s \in Steps |-> recovered[s] + (IF s \in stale THEN 1 ELSE 0)]
        /\ UNCHANGED <<policy, recordVars, completed, mailVars, gmailVars, mem, approved,
                       mandate, requests>>

-----------------------------------------------------------------------------
(* Gmail requests of the API (emailAction).                                 *)

Request(a, op, s) ==
    /\ mem[a] = Idle
    /\ version > 0
    /\ requests < RequestBound
    /\ requests' = requests + 1
    /\ mem' = [mem EXCEPT ![a] = [at |-> "loaded", op |-> op, step |-> s, version |-> version,
                                  draft |-> FALSE, approved |-> (approval = "APPROVED"),
                                  replied |-> HasReply, late |-> Stopped, verdict |-> "none"]]
    /\ UNCHANGED <<policy, recordVars, rowVars, mailVars, gmailVars, approved, mandate, recovered>>

\* The verdicts with which a request goes on; any other refuses it.
Permits(op) ==
    CASE op = "QUEUE" -> {"WAIT", "CREATE_DRAFT", "SEND"}
      [] op = "SEND_NOW" -> {"SEND", "MANUAL"}
      [] op = "CREATE_DRAFT" -> {"WAIT", "MANUAL", "CREATE_DRAFT", "SEND"}

\* Mutant of RequestJudged: whether the version is approved is left to the policy.
RequestJudgedByPolicy(a) ==
    /\ mem[a].at = "loaded"
    /\ \E v \in Verdicts(mem[a]) :
          mem' = [mem EXCEPT ![a] = IF v \in Permits(@.op) THEN Judged(@, v) ELSE Idle]
    /\ UNCHANGED <<policy, recordVars, rowVars, mailVars, gmailVars, approved, history>>

RequestJudged(a) ==
    /\ mem[a].at = "loaded"
    /\ \E v \in Verdicts(mem[a]) :
          mem' = [mem EXCEPT ![a] = IF @.approved /\ v \in Permits(@.op) THEN Judged(@, v) ELSE Idle]
    /\ UNCHANGED <<policy, recordVars, rowVars, mailVars, gmailVars, approved, history>>

\* queueEmailAction: a row that exists keeps its version and its draft mark;
\* a row that is over keeps its status.
RequestQueues(a) ==
    LET s == mem[a].step
        over == action[s].status \in {"SENT", "REPLIED", "BOUNCED", "SUPPRESSED"}
    IN /\ mem[a].at = "judged"
       /\ mem[a].op = "QUEUE"
       /\ action' = [action EXCEPT ![s] =
                        IF @.status = "NONE"
                        THEN NewRow("QUEUED", mem[a].version, mem[a].verdict = "CREATE_DRAFT")
                        ELSE IF over THEN @ ELSE [@ EXCEPT !.status = "QUEUED"]]
       /\ emailStatus' = "QUEUED"
       /\ IF over THEN UNCHANGED mandate ELSE Ask(s)
       /\ mem' = [mem EXCEPT ![a] = Idle]
       /\ UNCHANGED <<policy, version, approval, contact, suppressed, meeting, completed, mailVars,
                      gmailVars, approved, recovered, requests>>

RequestCalls(a) ==
    /\ mem[a].at = "judged"
    /\ mem[a].op # "QUEUE"
    /\ GmailAccepts(a)
    /\ UNCHANGED <<policy, recordVars, rowVars, mailVars, approved, history>>

RequestRecords(a) ==
    /\ mem[a].at = "called"
    /\ WriteResult(mem[a])
    /\ mem' = [mem EXCEPT ![a] = Idle]
    /\ UNCHANGED <<policy, version, approval, suppressed, meeting, gmailVars, approved, history>>

\* A request that throws, or whose process dies, writes nothing more.
RequestEnds(a) ==
    /\ mem[a] # Idle
    /\ mem' = [mem EXCEPT ![a] = Idle]
    /\ UNCHANGED <<policy, recordVars, rowVars, mailVars, gmailVars, approved, history>>

\* suppress, on behalf of a user.
Suppress ==
    /\ version > 0
    /\ suppressed' = TRUE
    /\ emailStatus' = "SUPPRESSED"
    /\ action' = Moved(action, {"READY", "QUEUED"}, "SUPPRESSED")
    /\ UNCHANGED <<policy, version, approval, contact, meeting, completed, mailVars, gmailVars, mem,
                   approved, history>>

-----------------------------------------------------------------------------
(* The mailbox and its synchronisation (ingestGmailMessage, ingest).        *)

\* Somebody sends a draft from the mailbox; it leaves as another message.
HandSend(s) ==
    /\ s \in drafts
    /\ drafts' = drafts \ {s}
    /\ left' = left \cup {s}
    /\ unseen' = (unseen \ {<<s, "draft">>}) \cup {<<s, "hand">>}
    /\ UNCHANGED <<policy, recordVars, rowVars, mailVars, mem, approved, history>>

\* A reply stops the record, the contact and the rows; a bounce suppresses.
IngestReply ==
    /\ version > 0
    /\ emailStatus' = "REPLIED"
    /\ contact' = "REPLIED"
    /\ action' = Moved(action, {"READY", "QUEUED"}, "REPLIED")
    /\ UNCHANGED <<policy, version, approval, suppressed, meeting, completed, mailVars, gmailVars, mem,
                   approved, history>>

IngestBounce ==
    /\ left # {}
    /\ emailStatus' = "BOUNCED"
    /\ suppressed' = TRUE
    /\ action' = Moved(action, {"READY", "QUEUED"}, "BOUNCED")
    /\ UNCHANGED <<policy, version, approval, contact, meeting, completed, mailVars, gmailVars, mem,
                   approved, history>>

\* The recorded email a message of our own is taken for: itself, or else the
\* newest of the thread.
Matched(m) == IF m \in Messages /\ emails[m] # "NONE" THEN m ELSE newest

Newer(S) == CHOOSE s \in S : \A t \in S : action[t].rank <= action[s].rank

\* The row that is taken to be completed by message m: its own, a row of the
\* thread, or a READY one; the newest of those that qualify.
RowsFor(m) ==
    LET own == {s \in Steps : <<s, action[s].message>> = m}
        thread == {s \in Steps : action[s].message # "none"}
    IN IF own # {} THEN own
       ELSE IF thread # {} THEN thread
       ELSE {s \in Steps : action[s].status = "READY"}

\* A message of our own whose email is not SENT yet counts as sent.  The
\* completion of its row is dated by the message, not by the synchronisation.
IngestOwn(m) ==
    /\ m \in unseen
    /\ unseen' = unseen \ {m}
    /\ IF newest = NoMessage \/ emails[Matched(m)] = "SENT"
       THEN UNCHANGED <<action, completed, emails, emailStatus, contact>>
       ELSE /\ emails' = [emails EXCEPT ![Matched(m)] = "SENT"]
            /\ emailStatus' = "SENT"
            /\ contact' = Contacted
            /\ IF RowsFor(m) = {} THEN UNCHANGED rowVars
               ELSE LET s == Newer(RowsFor(m))
                    IN /\ action' = [action EXCEPT ![s] = [@ EXCEPT !.status = "SENT", !.draft = FALSE,
                                                                    !.message = m[2]]]
                       /\ \E i \in 1..Len(Others(s)) + 1 : completed' = InsertAt(Others(s), i, s)
    /\ UNCHANGED <<policy, version, approval, suppressed, meeting, newest, drafts, left, mem, approved,
                   history>>

-----------------------------------------------------------------------------
(* Sentinel, the console, meetings, Pulse.                                  *)

\* applyOptOut, for a reply that Sentinel takes for one.
OptOut ==
    /\ contact = "REPLIED"
    /\ suppressed' = TRUE
    /\ emailStatus' = "SUPPRESSED"
    /\ action' = Moved(action, Live, "SUPPRESSED")
    /\ UNCHANGED <<policy, version, approval, contact, meeting, completed, mailVars, gmailVars, mem,
                   approved, history>>

\* stopOrganisation, as far as the rows are concerned.
AccessStops ==
    /\ action' = Moved(action, Live, "PAUSED")
    /\ UNCHANGED <<policy, recordVars, completed, mailVars, gmailVars, mem, approved, history>>

MeetingChanges ==
    /\ Meetings
    /\ meeting' = ~meeting
    /\ UNCHANGED <<policy, version, approval, emailStatus, contact, suppressed, rowVars, mailVars,
                   gmailVars, mem, approved, history>>

\* Mutant of Stoppable: rows that were never started are forgotten.
StoppableOnceStarted == {"READY", "QUEUED"}

\* The statuses that stopUnsafeActions ends.
Stoppable == Live

\* What stopUnsafeActions makes of the rows.
StoppedByPulse ==
    IF HasReply THEN Moved(action, Stoppable, "REPLIED")
    ELSE IF emailStatus = "BOUNCED" THEN Moved(action, Stoppable, "BOUNCED")
    ELSE IF emailStatus = "SUPPRESSED" \/ suppressed THEN Moved(action, Stoppable, "SUPPRESSED")
    ELSE IF policy.stopOnMeeting /\ meeting THEN Moved(action, Stoppable, "PAUSED")
    ELSE action

\* The step after the one that was sent last, if the policy has it.
NextStep ==
    LET sent == SelectSeq(completed, LAMBDA s : action[s].status = "SENT")
    IN IF sent = <<>> THEN "none"
       ELSE IF Last(sent) = "INITIAL" /\ policy.followUps >= 1 THEN "FOLLOW_UP_1"
       ELSE IF Last(sent) = "FOLLOW_UP_1" /\ policy.followUps >= 2 THEN "FOLLOW_UP_2"
       ELSE "none"

MayFollowUp ==
    /\ approval = "APPROVED"
    /\ emailStatus \notin {"REPLIED", "BOUNCED", "SUPPRESSED"}
    /\ contact # "REPLIED"
    /\ ~suppressed
    /\ ~(policy.stopOnMeeting /\ meeting)

\* reconcile: stop what must not go on, then plan the next step once.
Pulse ==
    LET s == NextStep
        plans == MayFollowUp /\ s \in Steps /\ action[s].status = "NONE"
        draft == policy.linkedinFirst \/ policy.mode \in {"MANUAL", "DRAFT_ONLY"}
    IN /\ IF plans
          THEN /\ action' = [StoppedByPulse EXCEPT ![s] = NewRow("QUEUED", version, draft)]
               /\ emailStatus' = "QUEUED"
               /\ Ask(s)
          ELSE /\ action' = StoppedByPulse
               /\ UNCHANGED <<emailStatus, mandate>>
       /\ UNCHANGED <<policy, version, approval, contact, suppressed, meeting, completed, mailVars,
                      gmailVars, mem, approved, recovered, requests>>

Worker(w) ==
    \/ \E s \in Steps : Claim(w, s)
    \/ Load(w)
    \/ Judge(w)
    \/ Defer(w)
    \/ WorkerCalls(w)
    \/ WorkerSaves(w)
    \/ WorkerFails(w)
    \/ WorkerDies(w)

Api(a) ==
    \/ \E op \in {"QUEUE", "CREATE_DRAFT", "SEND_NOW"}, s \in Steps : Request(a, op, s)
    \/ RequestJudged(a)
    \/ RequestQueues(a)
    \/ RequestCalls(a)
    \/ RequestRecords(a)
    \/ RequestEnds(a)

People ==
    \/ EchoDrafts
    \/ EditVersion
    \/ \E d \in Decisions : Review(d)
    \/ Suppress
    \/ \E s \in Steps : HandSend(s)
    \/ AccessStops
    \/ MeetingChanges

Mailbox ==
    \/ IngestReply
    \/ IngestBounce
    \/ \E m \in unseen : IngestOwn(m)
    \/ OptOut

OutreachNext ==
    \/ \E w \in Workers : Worker(w)
    \/ \E a \in Apis : Api(a)
    \/ RecoverStale
    \/ People
    \/ Mailbox
    \/ Pulse

OutreachSpec == OutreachInit /\ [][OutreachNext]_vars

\* The worker process calls Pulse in every turn of its loop.
FairOutreachSpec == OutreachSpec /\ WF_vars(Pulse)

-----------------------------------------------------------------------------
(* Properties.                                                              *)

Calling(p) == mem[p].at \in {"judged", "called"}

\* A process that reads its row after the contact replied, or was suppressed,
\* never talks to Gmail about it when the policy stops on replies and
\* opt-outs: the record's status may have been overwritten since (a result
\* saved late, another request), the contact and the suppression stand.
StoppedStaysSilent ==
    \A p \in Processes :
        Calling(p) /\ mem[p].late /\ policy.stopOnReply /\ policy.stopOnOptOut => mem[p].verdict = "BLOCK"

Held(s) == {w \in Workers : mem[w].at \in {"claimed", "loaded", "judged"} /\ mem[w].step = s}

\* Whatever workers, requests, Echo, Pulse and the recovery do at once, the
\* worker calls Gmail at most once for each time a step was put in the queue
\* or recovered: no row is claimed twice and no verdict is used twice.
EveryCallMandated ==
    \A s \in Steps :
        mandate[s] + recovered[s] >= Cardinality(Held(s)) + (IF action[s].status = "QUEUED" THEN 1 ELSE 0)

\* With approval of every message, no email leaves, nor does a draft lie in
\* the mailbox, before a reviewer has approved some version of the message,
\* by whichever way it goes: worker, request, recovery or by hand.
NothingLeavesUnapproved ==
    policy.approvalMode = "EVERY_MESSAGE" /\ approved = {} => left = {} /\ drafts = {}

\* Once the contact has replied or is suppressed, all rows of the sequence
\* come to an end and none comes back for good: what was in flight, deferred
\* or drafted again is stopped by Pulse.
SequenceStops == Stopped ~> [](\A s \in Steps : action[s].status \notin Live)

\* Stated by docs/MILESTONE6_OUTREACH_OPERATIONS.md ("message approval" is
\* rechecked) and by emailAction ("Approve the current outreach version"): what
\* the worker may send was approved, if every message needs approval.
SentVersionWasApproved ==
    \A w \in Workers :
        Calling(w) /\ mem[w].verdict = "SEND" /\ policy.approvalMode = "EVERY_MESSAGE"
            => mem[w].version \in approved

=============================================================================
