----------------------------- MODULE MeetingDesk -----------------------------
(***************************************************************************)
(* One meeting and the people who look at it: the Meetings page, where it  *)
(* is scheduled, cancelled or marked a no-show (meetings-client.tsx), and  *)
(* Orbit's cockpit, where its preparation and its debrief are asked for    *)
(* and decided (orbit-cockpit.tsx).  A page offers what its last load      *)
(* showed; what it posts meets the meeting as it has become.               *)
(*                                                                         *)
(* A request for a debrief takes two steps: the status of the debrief is   *)
(* read with the snapshot of its first SELECT, the row of the meeting is   *)
(* locked afterwards.  Every other request is one transaction behind that  *)
(* lock.  The workers of DraftQueue are here what they do to one run: it   *)
(* is claimed, drafted from notes one of its claims has read, or returned. *)
(*                                                                         *)
(* Left out: what a draft says (an edit may make it say anything), the     *)
(* opportunity an approval may move, stops of the organisation, and PATCH  *)
(* requests for times and notes, which no page sends.                      *)
(***************************************************************************)
EXTENDS Naturals

CONSTANTS
    Pages,      \* the open pages of the organisation's members
    NoteLimit,  \* bound: different notes
    RunLimit    \* bound: runs of each stage

ASSUME NotesAreNumbered == NoteLimit \in Nat

VARIABLES
    appointment,  \* the meeting: its status, its time, its notes (0: none), whether a debrief was applied
    work,         \* the two stages of its OrbitWorkspace, each with its current run
    page,         \* what each page shows: the page that is open and the rows it was loaded with
    asking,       \* the debrief request under way from a page: the status it read and its notes
    overruled     \* history: a meeting completed by a debrief was resolved from a Meetings page

meetingDeskVars == <<appointment, work, page, asking, overruled>>

Stages == {"PREP", "DEBRIEF"}
InHand == {"QUEUED", "PROCESSING"}
Kept == InHand \cup {"READY"}

NoWork == [status |-> "NOT_STARTED", no |-> 0, read |-> {}, from |-> 0, plain |-> FALSE, crossed |-> FALSE]
NoPage == [open |-> "none"]
NotAsking == [status |-> "none", notes |-> 0]

MeetingDeskInit ==
    /\ appointment = [status |-> "NONE", started |-> FALSE, notes |-> 0, acted |-> FALSE]
    /\ work = [s \in Stages |-> NoWork]
    /\ page = [u \in Pages |-> NoPage]
    /\ asking = [u \in Pages |-> NotAsking]
    /\ overruled = FALSE

-----------------------------------------------------------------------------
(* The pages.                                                              *)

\* The list of the Meetings page that has the meeting.
Listed ==
    IF appointment.status = "NONE" THEN "unscheduled"
    ELSE IF appointment.status # "SCHEDULED" THEN "history"
    ELSE IF appointment.started THEN "awaiting debrief" ELSE "upcoming"

\* A card of the cockpit: the stages, the draft of one that is to be decided, and the time.
Card == [started |-> appointment.started,
         status |-> [s \in Stages |-> work[s].status],
         draft |-> [s \in Stages |-> IF work[s].status = "READY" THEN work[s].no ELSE 0]]

\* Loading a page, again or after another; the cockpit does so by itself while a draft is made.
LoadPage(u, which) ==
    /\ page' = [page EXCEPT ![u] = IF which = "meetings" THEN [open |-> which, list |-> Listed]
                                    ELSE [open |-> which, card |-> Card]]
    /\ UNCHANGED <<appointment, work, asking, overruled>>

Lists(u, list) == page[u].open = "meetings" /\ page[u].list = list
Shows(u, stage, status) == page[u].open = "orbit" /\ page[u].card.status[stage] = status

-----------------------------------------------------------------------------
(* Requests from the Meetings page.                                        *)

NewRun(s) == [NoWork EXCEPT !.status = "QUEUED", !.no = work[s].no + 1]

\* A meeting to come has its preparation queued with it.
ScheduleMeeting(u) ==
    /\ Lists(u, "unscheduled") /\ appointment.status = "NONE"
    /\ \E started \in BOOLEAN :
         /\ appointment' = [appointment EXCEPT !.status = "SCHEDULED", !.started = started]
         /\ work' = IF started THEN work ELSE [work EXCEPT !["PREP"] = NewRun("PREP")]
    /\ UNCHANGED <<page, asking, overruled>>

MeetingStarts ==
    /\ appointment.status # "NONE" /\ ~appointment.started
    /\ appointment' = [appointment EXCEPT !.started = TRUE]
    /\ UNCHANGED <<work, page, asking, overruled>>

\* Offered for a meeting the page shows as scheduled: to cancel it before its time, to mark it a
\* no-show after.  With a reason the server moves any status to any other.
ResolveMeeting(u) ==
    /\ \/ Lists(u, "upcoming") /\ appointment' = [appointment EXCEPT !.status = "CANCELLED"]
       \/ Lists(u, "awaiting debrief") /\ appointment' = [appointment EXCEPT !.status = "NO_SHOW"]
    /\ overruled' = (overruled \/ appointment.status = "COMPLETED")
    /\ UNCHANGED <<work, page, asking>>

-----------------------------------------------------------------------------
(* Requests from the cockpit.                                              *)

\* Mutant of Redoable: a reviewed stage may be asked for again.
RedoableWhenDecided == {"NOT_STARTED", "FAILED", "REJECTED", "REVIEWED"}

Redoable == {"NOT_STARTED", "FAILED", "REJECTED"}

\* What is in hand or to be decided is kept, and what was reviewed refuses the request.
AskPreparation(u) ==
    /\ Shows(u, "PREP", "NOT_STARTED") /\ ~page[u].card.started
    /\ ~appointment.started /\ work["PREP"].status \in Redoable /\ work["PREP"].no < RunLimit["PREP"]
    /\ work' = [work EXCEPT !["PREP"] = NewRun("PREP")]
    /\ UNCHANGED <<appointment, page, asking, overruled>>

\* The form for notes; the request takes its snapshot and waits for the row of the meeting.
AskDebrief(u, notes) ==
    /\ Shows(u, "DEBRIEF", "NOT_STARTED") /\ page[u].card.started
    /\ appointment.started /\ asking[u] = NotAsking
    /\ asking' = [asking EXCEPT ![u] = [status |-> work["DEBRIEF"].status, notes |-> notes]]
    /\ UNCHANGED <<appointment, work, page, overruled>>

\* Mutant of KeepsNotes: notes are compared once there is a draft.
KeepsNotesOfDrafts(request) ==
    request.status \in {"READY", "REVIEWED"} => request.notes = appointment.notes

\* Other notes than the meeting's are refused where a debrief was seen that is or was made of them.
KeepsNotes(request) ==
    request.status \in Kept \cup {"REVIEWED"} => request.notes = appointment.notes

Answered(u) == asking[u] # NotAsking /\ asking' = [asking EXCEPT ![u] = NotAsking]

\* The notes are written, and a new run is queued or the debrief of the moment kept.
TakeDebrief(u) ==
    LET notes == asking[u].notes
        d == work["DEBRIEF"]
    IN
    /\ Answered(u) /\ KeepsNotes(asking[u])
    /\ appointment' = [appointment EXCEPT !.notes = notes]
    /\ \/ /\ d.status \in Redoable /\ d.no < RunLimit["DEBRIEF"]
          /\ work' = [work EXCEPT !["DEBRIEF"] = NewRun("DEBRIEF")]
       \/ /\ d.status \in Kept
          /\ work' = [work EXCEPT !["DEBRIEF"].crossed = @ \/ (notes # appointment.notes /\ asking[u].status \in Redoable)]
    /\ UNCHANGED <<page, overruled>>

\* Refused: other notes, or a debrief that has been reviewed, which rolls the notes back.
RefuseDebrief(u) ==
    /\ Answered(u)
    /\ ~KeepsNotes(asking[u]) \/ work["DEBRIEF"].status \notin Redoable \cup Kept
    /\ UNCHANGED <<appointment, work, page, overruled>>

RetryWork(u, s) ==
    /\ Shows(u, s, "FAILED") /\ work[s].status = "FAILED"
    /\ work' = [work EXCEPT ![s].status = "QUEUED"]
    /\ UNCHANGED <<appointment, page, asking, overruled>>

\* A decision on a stage that another page has decided is answered as if it had been taken.
Deciding(u, s) == Shows(u, s, "READY") /\ work[s].status = "READY" /\ UNCHANGED <<page, asking, overruled>>

RejectWork(u, s) ==
    /\ Deciding(u, s)
    /\ work' = [work EXCEPT ![s].status = "REJECTED"]
    /\ UNCHANGED appointment

\* Mutant of Completed: what was cancelled stays so.
CompletedIfScheduled == IF appointment.status = "SCHEDULED" THEN "COMPLETED" ELSE appointment.status

\* The status an approved debrief gives the meeting.
Completed == "COMPLETED"

Accept(s, plain) ==
    /\ work' = [work EXCEPT ![s].status = "REVIEWED", ![s].plain = plain]
    /\ appointment' = IF s = "PREP" THEN appointment
                      ELSE [appointment EXCEPT !.status = Completed, !.acted = TRUE]

\* Mutant of SameDraft: the draft that is stored is approved.
AnyDraft(u, s) == TRUE

\* Approving posts the draft on the page, which must be the one that is stored.
SameDraft(u, s) == page[u].card.draft[s] = work[s].no

ApproveWork(u, s) == Deciding(u, s) /\ SameDraft(u, s) /\ Accept(s, TRUE)

ApproveEdits(u, s) == Deciding(u, s) /\ Accept(s, FALSE)

-----------------------------------------------------------------------------
(* The workers.                                                            *)

\* A debrief is drafted once the meeting has started and has notes; a claim reads them.
ClaimWork(s) ==
    /\ work[s].status = "QUEUED" /\ (s = "DEBRIEF" => appointment.started /\ appointment.notes # 0)
    /\ work' = [work EXCEPT ![s].status = "PROCESSING", ![s].read = @ \cup {appointment.notes}]
    /\ UNCHANGED <<appointment, page, asking, overruled>>

\* A draft that two workers were at comes from either.
DraftWork(s) ==
    /\ work[s].status = "PROCESSING"
    /\ \E notes \in work[s].read : work' = [work EXCEPT ![s].status = "READY", ![s].from = notes]
    /\ UNCHANGED <<appointment, page, asking, overruled>>

\* The call failed, for the last time or not, or took so long that it was recovered.
ReturnWork(s) ==
    /\ work[s].status = "PROCESSING"
    /\ \E status \in {"QUEUED", "FAILED"} : work' = [work EXCEPT ![s].status = status]
    /\ UNCHANGED <<appointment, page, asking, overruled>>

-----------------------------------------------------------------------------
CockpitStep(u) ==
    \/ AskPreparation(u)
    \/ \E notes \in 1..NoteLimit : AskDebrief(u, notes)
    \/ TakeDebrief(u) \/ RefuseDebrief(u)
    \/ \E s \in Stages : RetryWork(u, s) \/ RejectWork(u, s) \/ ApproveWork(u, s) \/ ApproveEdits(u, s)

MeetingDeskNext ==
    \/ \E u \in Pages :
         \/ \E which \in {"meetings", "orbit"} : LoadPage(u, which)
         \/ ScheduleMeeting(u) \/ ResolveMeeting(u) \/ CockpitStep(u)
    \/ MeetingStarts
    \/ \E s \in Stages : ClaimWork(s) \/ DraftWork(s) \/ ReturnWork(s)

MeetingDeskSpec == MeetingDeskInit /\ [][MeetingDeskNext]_meetingDeskVars

-----------------------------------------------------------------------------
(* Properties.                                                             *)

\* A debrief that waits for its approval, or was approved as it was, was drafted from the notes the
\* meeting has, and one that is in hand has notes to be drafted from; except where two requests with
\* different notes crossed (orbit.service.ts queueDebrief reads the status of the debrief before it
\* has the lock).
DebriefFollowsNotes ==
    LET d == work["DEBRIEF"] IN
    d.crossed \/ /\ d.status \in InHand => appointment.notes # 0
                 /\ d.status = "READY" \/ (d.status = "REVIEWED" /\ d.plain) => d.from = appointment.notes

\* Whatever pages people act from, a rejected debrief has changed nothing, and an approved one has
\* completed its meeting, until somebody overrules that from a Meetings page loaded before
\* (orbit.service.ts reviewDebrief, queueInside; orbit-cockpit.tsx:228).
DecisionHasItsOutcome ==
    /\ work["DEBRIEF"].status = "REJECTED" => ~appointment.acted
    /\ work["DEBRIEF"].status = "REVIEWED" =>
          appointment.acted /\ (appointment.status = "COMPLETED" \/ overruled)

\* What the desk makes of a meeting is what its notes and its decisions say.
MeetingsEndAsDecided == DebriefFollowsNotes /\ DecisionHasItsOutcome

=============================================================================
