----------------------------- MODULE DeskProofs -----------------------------
(***************************************************************************)
(* Proofs about what people decide at a desk, for any people and pages and *)
(* any bounds: a meeting ends as its notes and its decisions say, a        *)
(* strategy is approved as its reader saw it, and automation acts on the   *)
(* consent it was given.                                                   *)
(***************************************************************************)
EXTENDS MeetingDesk, ReviewForms, Automation, DraftDesk, FiniteSetTheorems, TLAPS

-----------------------------------------------------------------------------
(***************************************************************************)
(* A meeting.  A debrief that is in hand, or has failed and may be retried, *)
(* has read no notes but those of the meeting, unless requests crossed;    *)
(* and a request under way has seen a status a debrief can have.           *)
(***************************************************************************)

Statuses == Redoable \cup Kept \cup {"REVIEWED"}
RunFields == {"status", "no", "read", "from", "plain", "crossed"}

Asked(request) ==
    request = NotAsking \/ (request.status \in Statuses /\ request.notes \in 1..NoteLimit)

MeetingShape ==
    /\ DOMAIN appointment = {"status", "started", "notes", "acted"}
    /\ DOMAIN work = Stages
    /\ \A s \in Stages : DOMAIN work[s] = RunFields /\ work[s].status \in Statuses
    /\ DOMAIN asking = Pages
    /\ \A u \in Pages : Asked(asking[u])

\* What is known of the notes of a debrief d of the meeting a.
NotesRead(d, a) ==
    d.crossed \/
        /\ d.status \in Kept \cup {"FAILED"} => a.notes # 0 /\ d.read \subseteq {a.notes}
        /\ d.status = "READY" \/ (d.status = "REVIEWED" /\ d.plain) => d.from = a.notes

\* What its decision has done.
DecisionTaken(d, a, over) ==
    /\ a.acted => d.status = "REVIEWED"
    /\ d.status = "REVIEWED" => a.acted /\ (a.status = "COMPLETED" \/ over)

MeetingInv ==
    /\ MeetingShape
    /\ NotesRead(work["DEBRIEF"], appointment)
    /\ DecisionTaken(work["DEBRIEF"], appointment, overruled)

LEMMA MeetingStarted == MeetingDeskInit => MeetingInv
<1> SUFFICES ASSUME MeetingDeskInit PROVE MeetingInv
  OBVIOUS
<1>1. MeetingShape
  BY DEF MeetingDeskInit, MeetingShape, NoWork, RunFields, Statuses, Redoable, Asked
<1>2. NotesRead(work["DEBRIEF"], appointment)
  BY DEF MeetingDeskInit, Stages, NoWork, NotesRead, Kept, InHand
<1>3. DecisionTaken(work["DEBRIEF"], appointment, overruled)
  BY DEF MeetingDeskInit, Stages, NoWork, DecisionTaken
<1> QED  BY <1>1, <1>2, <1>3 DEF MeetingInv

LEMMA MeetingImplies == MeetingInv => MeetingsEndAsDecided
BY DEF MeetingInv, MeetingShape, NotesRead, DecisionTaken, MeetingsEndAsDecided, DebriefFollowsNotes,
       DecisionHasItsOutcome, Kept

\* One stage of the work becomes another run.
LEMMA WorkReplaced ==
    ASSUME MeetingInv, NEW s \in Stages, NEW redone,
           work' = [work EXCEPT ![s] = redone],
           DOMAIN redone = RunFields, redone.status \in Statuses,
           DOMAIN appointment' = DOMAIN appointment,
           DOMAIN asking' = Pages, \A u \in Pages : Asked(asking'[u]),
           s = "DEBRIEF" => NotesRead(redone, appointment') /\ DecisionTaken(redone, appointment', overruled'),
           s = "PREP" => appointment'.notes = appointment.notes /\ appointment'.acted = appointment.acted
                         /\ appointment'.status = appointment.status /\ overruled' = overruled
    PROVE  MeetingInv'
<1>1. DOMAIN work = Stages
  BY DEF MeetingInv, MeetingShape
<1>2. work'[s] = redone /\ \A t \in Stages \ {s} : work'[t] = work[t]
  BY <1>1
<1>3. MeetingShape'
  BY <1>1, <1>2 DEF MeetingInv, MeetingShape, Asked, NotAsking
<1>4. CASE s = "DEBRIEF"
  BY <1>2, <1>3, <1>4 DEF MeetingInv
<1>5. CASE s = "PREP"
  <2>1. work'["DEBRIEF"] = work["DEBRIEF"]
    BY <1>2, <1>5 DEF Stages
  <2>2. NotesRead(work["DEBRIEF"], appointment') /\ DecisionTaken(work["DEBRIEF"], appointment', overruled')
    BY <1>5 DEF MeetingInv, NotesRead, DecisionTaken
  <2> QED  BY <1>3, <2>1, <2>2 DEF MeetingInv
<1> QED  BY <1>4, <1>5 DEF Stages

\* Steps that move neither the work nor the requests.
LEMMA WorkUntouched ==
    ASSUME MeetingInv, UNCHANGED <<work, asking>>, DOMAIN appointment' = DOMAIN appointment,
           appointment'.notes = appointment.notes, appointment'.acted = appointment.acted,
           overruled => overruled',
           appointment.status = "COMPLETED" => appointment'.status = "COMPLETED" \/ overruled'
    PROVE  MeetingInv'
<1>1. MeetingShape'
  BY DEF MeetingInv, MeetingShape, Asked, NotAsking
<1>2. NotesRead(work["DEBRIEF"], appointment)'
  BY DEF MeetingInv, NotesRead
<1>3. DecisionTaken(work["DEBRIEF"], appointment, overruled)'
  BY DEF MeetingInv, DecisionTaken
<1> QED  BY <1>1, <1>2, <1>3 DEF MeetingInv

\* A request for a debrief has seen a status it can have.
LEMMA RequestTyped == ASSUME MeetingInv, NEW u \in Pages, asking[u] # NotAsking
                      PROVE  asking[u].status \in Statuses /\ asking[u].notes \in 1..NoteLimit
BY DEF MeetingInv, MeetingShape, Asked

\* The requests of a cockpit that a debrief is asked by, and what is left of them.
LEMMA DebriefAsked ==
    ASSUME MeetingInv, NEW u \in Pages, NEW notes \in 1..NoteLimit, AskDebrief(u, notes)
    PROVE  MeetingInv'
<1>1. work["DEBRIEF"].status \in Statuses
  BY DEF MeetingInv, MeetingShape, Stages
<1>2. UNCHANGED <<appointment, work, overruled>> /\ DOMAIN asking' = DOMAIN asking
  BY DEF AskDebrief
<1>3. \A v \in Pages : Asked(asking'[v])
  BY <1>1 DEF AskDebrief, MeetingInv, MeetingShape, Asked
<1> QED  BY <1>2, <1>3 DEF MeetingInv, MeetingShape, NotesRead, DecisionTaken

LEMMA RequestAnswered ==
    ASSUME MeetingInv, NEW u \in Pages, Answered(u)
    PROVE  DOMAIN asking' = Pages /\ \A v \in Pages : Asked(asking'[v])
BY DEF Answered, MeetingInv, MeetingShape, Asked

LEMMA FreshRun ==
    ASSUME NEW s \in Stages
    PROVE  /\ DOMAIN NewRun(s) = RunFields
           /\ NewRun(s).status = "QUEUED" /\ NewRun(s).read = {} /\ ~NewRun(s).crossed
BY DEF NewRun, NoWork, RunFields

LEMMA DebriefTaken ==
    ASSUME MeetingInv, NEW u \in Pages, TakeDebrief(u)
    PROVE  MeetingInv'
<1> DEFINE notes == asking[u].notes
           d == work["DEBRIEF"]
<1>1. notes \in 1..NoteLimit /\ asking[u].status \in Statuses
  BY RequestTyped DEF TakeDebrief, Answered
<1>2. DOMAIN asking' = Pages /\ \A v \in Pages : Asked(asking'[v])
  BY RequestAnswered DEF TakeDebrief
<1>3. /\ DOMAIN appointment' = DOMAIN appointment
      /\ appointment'.notes = notes /\ appointment'.acted = appointment.acted
      /\ appointment'.status = appointment.status /\ overruled' = overruled
  BY DEF TakeDebrief, MeetingInv, MeetingShape
<1>4. "DEBRIEF" \in Stages /\ notes # 0
  BY <1>1, NotesAreNumbered DEF Stages
<1>5. CASE d.status \in Redoable /\ work' = [work EXCEPT !["DEBRIEF"] = NewRun("DEBRIEF")]
  <2> DEFINE redone == NewRun("DEBRIEF")
  <2>1. DOMAIN redone = RunFields /\ redone.status = "QUEUED" /\ redone.read = {} /\ ~redone.crossed
    BY <1>4, FreshRun
  <2>2. NotesRead(redone, appointment')
    BY <1>3, <1>4, <2>1 DEF NotesRead
  <2>3. DecisionTaken(redone, appointment', overruled')
    BY <1>3, <1>5, <2>1 DEF MeetingInv, DecisionTaken, Redoable
  <2>4. redone.status \in Statuses
    BY <2>1 DEF Statuses, Kept, InHand
  <2>5. work' = [work EXCEPT !["DEBRIEF"] = redone]
    BY <1>5
  <2> HIDE DEF redone
  <2> QED  BY <1>2, <1>3, <1>4, <2>1, <2>2, <2>3, <2>4, <2>5, WorkReplaced
<1>6. CASE /\ d.status \in Kept
           /\ work' = [work EXCEPT !["DEBRIEF"].crossed =
                          @ \/ (notes # appointment.notes /\ asking[u].status \in Redoable)]
  <2> DEFINE redone == [d EXCEPT !.crossed =
                       @ \/ (notes # appointment.notes /\ asking[u].status \in Redoable)]
  <2>1. DOMAIN d = RunFields /\ d.status \in Statuses
    BY <1>4 DEF MeetingInv, MeetingShape
  <2>2. /\ DOMAIN redone = RunFields
        /\ redone.status = d.status /\ redone.read = d.read /\ redone.from = d.from /\ redone.plain = d.plain
        /\ redone.crossed = (d.crossed \/ (notes # appointment.notes /\ asking[u].status \in Redoable))
    BY <2>1 DEF RunFields
  <2>3. work' = [work EXCEPT !["DEBRIEF"] = redone]
    BY <1>6 DEF MeetingInv, MeetingShape
  <2>4. asking[u].status \notin Redoable => notes = appointment.notes
    BY <1>1 DEF TakeDebrief, KeepsNotes, Statuses
  <2>5. NotesRead(redone, appointment')
    BY <1>3, <2>2, <2>4 DEF MeetingInv, NotesRead
  <2>6. DecisionTaken(redone, appointment', overruled')
    BY <1>3, <2>2 DEF MeetingInv, DecisionTaken
  <2> HIDE DEF redone
  <2> QED  BY <1>2, <1>3, <1>4, <2>1, <2>2, <2>3, <2>5, <2>6, WorkReplaced
<1> QED  BY <1>5, <1>6 DEF TakeDebrief

LEMMA DebriefRefused ==
    ASSUME MeetingInv, NEW u \in Pages, RefuseDebrief(u)
    PROVE  MeetingInv'
<1>1. DOMAIN asking' = Pages /\ \A v \in Pages : Asked(asking'[v])
  BY RequestAnswered DEF RefuseDebrief
<1> QED  BY <1>1 DEF RefuseDebrief, MeetingInv, MeetingShape, NotesRead, DecisionTaken

\* Steps that change the run of a stage and nothing else: what they may do to it.
LEMMA RunMoves ==
    ASSUME MeetingInv, NEW s \in Stages, NEW redone,
           work' = [work EXCEPT ![s] = redone], UNCHANGED <<appointment, asking, overruled>>,
           DOMAIN redone = RunFields, redone.status \in Statuses,
           s = "DEBRIEF" => NotesRead(redone, appointment),
           redone.status # "REVIEWED", work[s].status # "REVIEWED"
    PROVE  MeetingInv'
<1>1. s = "DEBRIEF" => DecisionTaken(redone, appointment, overruled)
  BY DEF MeetingInv, DecisionTaken
<1>2. DOMAIN asking = Pages /\ \A u \in Pages : Asked(asking[u])
  BY DEF MeetingInv, MeetingShape
<1> QED  BY <1>1, <1>2, WorkReplaced DEF Asked, NotAsking

LEMMA MeetingScheduled ==
    ASSUME MeetingInv, NEW u \in Pages, ScheduleMeeting(u)
    PROVE  MeetingInv'
<1>1. PICK started \in BOOLEAN :
        /\ appointment' = [appointment EXCEPT !.status = "SCHEDULED", !.started = started]
        /\ work' = IF started THEN work ELSE [work EXCEPT !["PREP"] = NewRun("PREP")]
  BY DEF ScheduleMeeting
<1>2. /\ UNCHANGED <<asking, overruled>> /\ appointment.status = "NONE"
      /\ DOMAIN appointment' = DOMAIN appointment
      /\ appointment'.notes = appointment.notes /\ appointment'.acted = appointment.acted
  BY <1>1 DEF ScheduleMeeting, MeetingInv, MeetingShape
<1>3. CASE started
  BY <1>1, <1>2, <1>3, WorkUntouched
<1>4. CASE ~started
  <2> DEFINE redone == NewRun("PREP")
  <2>1. DOMAIN redone = RunFields /\ redone.status = "QUEUED"
    BY FreshRun DEF Stages
  <2>2. redone.status \in Statuses /\ "PREP" \in Stages /\ work' = [work EXCEPT !["PREP"] = redone]
    BY <1>1, <1>4, <2>1 DEF Statuses, Kept, InHand, Stages
  <2> HIDE DEF redone
  <2>3. MeetingShape'
    BY <1>2, <2>1, <2>2 DEF MeetingInv, MeetingShape, Asked, NotAsking
  <2>4. work'["DEBRIEF"] = work["DEBRIEF"]
    BY <2>2 DEF MeetingInv, MeetingShape, Stages
  <2>5. NotesRead(work["DEBRIEF"], appointment)' /\ DecisionTaken(work["DEBRIEF"], appointment, overruled)'
    BY <1>2, <2>4 DEF MeetingInv, NotesRead, DecisionTaken
  <2> QED  BY <2>3, <2>5 DEF MeetingInv
<1> QED  BY <1>3, <1>4

LEMMA MeetingResolved ==
    ASSUME MeetingInv, NEW u \in Pages, ResolveMeeting(u)
    PROVE  MeetingInv'
<1>1. /\ UNCHANGED <<work, asking>> /\ DOMAIN appointment' = DOMAIN appointment
      /\ appointment'.notes = appointment.notes /\ appointment'.acted = appointment.acted
  BY DEF ResolveMeeting, MeetingInv, MeetingShape
<1>2. overruled' = (overruled \/ appointment.status = "COMPLETED")
  BY DEF ResolveMeeting
<1> QED  BY <1>1, <1>2, WorkUntouched

\* Requests that move one stage towards its decision, or back.
LEMMA StageMoves ==
    ASSUME MeetingInv, NEW u \in Pages, NEW s \in Stages,
           AskPreparation(u) \/ RetryWork(u, s) \/ RejectWork(u, s)
    PROVE  MeetingInv'
<1>1. DOMAIN work = Stages /\ DOMAIN work[s] = RunFields /\ work[s].status \in Statuses
  BY DEF MeetingInv, MeetingShape
<1>2. s = "DEBRIEF" => NotesRead(work[s], appointment)
  BY DEF MeetingInv
<1>3. CASE AskPreparation(u)
  <2> DEFINE redone == NewRun("PREP")
  <2>1. "PREP" \in Stages /\ DOMAIN redone = RunFields /\ redone.status = "QUEUED"
    BY FreshRun DEF Stages
  <2>2. work["PREP"].status # "REVIEWED"
    BY <1>3 DEF AskPreparation, Redoable
  <2>3. redone.status \in Statuses
    BY <2>1 DEF Statuses, Kept, InHand
  <2>4. work' = [work EXCEPT !["PREP"] = redone] /\ UNCHANGED <<appointment, asking, overruled>>
    BY <1>3 DEF AskPreparation
  <2> HIDE DEF redone
  <2> QED  BY <2>1, <2>2, <2>3, <2>4, RunMoves
<1>4. CASE RetryWork(u, s)
  <2> DEFINE redone == [work[s] EXCEPT !.status = "QUEUED"]
  <2>1. DOMAIN redone = RunFields /\ redone.status = "QUEUED" /\ redone.read = work[s].read /\ redone.crossed = work[s].crossed
    BY <1>1 DEF RunFields
  <2>2. work' = [work EXCEPT ![s] = redone] /\ UNCHANGED <<appointment, asking, overruled>> /\ work[s].status = "FAILED"
    BY <1>1, <1>4 DEF RetryWork
  <2> HIDE DEF redone
  <2>3. s = "DEBRIEF" => NotesRead(redone, appointment)
    BY <1>2, <2>1, <2>2 DEF NotesRead
  <2>4. redone.status \in Statuses /\ redone.status # "REVIEWED" /\ work[s].status # "REVIEWED"
    BY <2>1, <2>2 DEF Statuses, Kept, InHand
  <2> QED  BY <2>1, <2>2, <2>3, <2>4, RunMoves
<1>5. CASE RejectWork(u, s)
  <2> DEFINE redone == [work[s] EXCEPT !.status = "REJECTED"]
  <2>1. DOMAIN redone = RunFields /\ redone.status = "REJECTED"
    BY <1>1 DEF RunFields
  <2>2. work' = [work EXCEPT ![s] = redone] /\ UNCHANGED <<appointment, asking, overruled>> /\ work[s].status = "READY"
    BY <1>1, <1>5 DEF RejectWork, Deciding
  <2> HIDE DEF redone
  <2>3. s = "DEBRIEF" => NotesRead(redone, appointment)
    BY <2>1 DEF NotesRead, Kept, InHand
  <2>4. redone.status \in Statuses /\ redone.status # "REVIEWED" /\ work[s].status # "REVIEWED"
    BY <2>1, <2>2 DEF Statuses, Redoable
  <2> QED  BY <2>1, <2>2, <2>3, <2>4, RunMoves
<1> QED  BY <1>3, <1>4, <1>5

LEMMA WorkerMoves ==
    ASSUME MeetingInv, NEW s \in Stages, ClaimWork(s) \/ DraftWork(s) \/ ReturnWork(s)
    PROVE  MeetingInv'
<1>1. DOMAIN work = Stages /\ DOMAIN work[s] = RunFields /\ work[s].status \in Statuses
  BY DEF MeetingInv, MeetingShape
<1>2. s = "DEBRIEF" => NotesRead(work[s], appointment)
  BY DEF MeetingInv
<1>3. CASE ClaimWork(s)
  <2> DEFINE redone == [work[s] EXCEPT !.status = "PROCESSING", !.read = @ \cup {appointment.notes}]
  <2>1. /\ DOMAIN redone = RunFields /\ redone.status = "PROCESSING"
        /\ redone.read = work[s].read \cup {appointment.notes} /\ redone.crossed = work[s].crossed
    BY <1>1 DEF RunFields
  <2>2. work' = [work EXCEPT ![s] = redone] /\ UNCHANGED <<appointment, asking, overruled>> /\ work[s].status = "QUEUED"
    BY <1>1, <1>3 DEF ClaimWork
  <2> HIDE DEF redone
  <2>3. s = "DEBRIEF" => NotesRead(redone, appointment)
    BY <1>2, <2>1, <2>2 DEF NotesRead, Kept, InHand
  <2>4. redone.status \in Statuses /\ redone.status # "REVIEWED" /\ work[s].status # "REVIEWED"
    BY <2>1, <2>2 DEF Statuses, Kept, InHand
  <2> QED  BY <2>1, <2>2, <2>3, <2>4, RunMoves
<1>4. CASE DraftWork(s)
  <2>0. PICK notes \in work[s].read : work' = [work EXCEPT ![s].status = "READY", ![s].from = notes]
    BY <1>4 DEF DraftWork
  <2> DEFINE redone == [work[s] EXCEPT !.status = "READY", !.from = notes]
  <2>1. /\ DOMAIN redone = RunFields /\ redone.status = "READY" /\ redone.from = notes
        /\ redone.read = work[s].read /\ redone.crossed = work[s].crossed
    BY <1>1 DEF RunFields
  <2>2. work' = [work EXCEPT ![s] = redone] /\ UNCHANGED <<appointment, asking, overruled>> /\ work[s].status = "PROCESSING"
    BY <1>1, <1>4, <2>0 DEF DraftWork
  <2> HIDE DEF redone
  <2>3. s = "DEBRIEF" => NotesRead(redone, appointment)
    BY <1>2, <2>0, <2>1, <2>2 DEF NotesRead, Kept, InHand
  <2>4. redone.status \in Statuses /\ redone.status # "REVIEWED" /\ work[s].status # "REVIEWED"
    BY <2>1, <2>2 DEF Statuses, Kept, InHand
  <2> QED  BY <2>1, <2>2, <2>3, <2>4, RunMoves
<1>5. CASE ReturnWork(s)
  <2>0. PICK end \in {"QUEUED", "FAILED"} : work' = [work EXCEPT ![s].status = end]
    BY <1>5 DEF ReturnWork
  <2> DEFINE redone == [work[s] EXCEPT !.status = end]
  <2>1. /\ DOMAIN redone = RunFields /\ redone.status = end
        /\ redone.read = work[s].read /\ redone.crossed = work[s].crossed
    BY <1>1 DEF RunFields
  <2>2. work' = [work EXCEPT ![s] = redone] /\ UNCHANGED <<appointment, asking, overruled>> /\ work[s].status = "PROCESSING"
    BY <1>1, <1>5, <2>0 DEF ReturnWork
  <2> HIDE DEF redone
  <2>3. s = "DEBRIEF" => NotesRead(redone, appointment)
    BY <1>2, <2>0, <2>1, <2>2 DEF NotesRead, Kept, InHand
  <2>4. redone.status \in Statuses /\ redone.status # "REVIEWED" /\ work[s].status # "REVIEWED"
    BY <2>0, <2>1, <2>2 DEF Statuses, Kept, InHand, Redoable
  <2> QED  BY <2>1, <2>2, <2>3, <2>4, RunMoves
<1> QED  BY <1>3, <1>4, <1>5

LEMMA WorkAccepted ==
    ASSUME MeetingInv, NEW u \in Pages, NEW s \in Stages, ApproveWork(u, s) \/ ApproveEdits(u, s)
    PROVE  MeetingInv'
<1>0. PICK plain \in BOOLEAN : Accept(s, plain)
  BY DEF ApproveWork, ApproveEdits
<1> DEFINE redone == [work[s] EXCEPT !.status = "REVIEWED", !.plain = plain]
<1>1. DOMAIN work = Stages /\ DOMAIN work[s] = RunFields /\ work[s].status = "READY" /\ UNCHANGED <<asking, overruled>>
  BY DEF ApproveWork, ApproveEdits, Deciding, MeetingInv, MeetingShape
<1>2. /\ DOMAIN redone = RunFields /\ redone.status = "REVIEWED"
      /\ redone.from = work[s].from /\ redone.crossed = work[s].crossed
  BY <1>1 DEF RunFields
<1>3. work' = [work EXCEPT ![s] = redone]
  BY <1>0, <1>1 DEF Accept
<1> HIDE DEF redone
<1>4. DOMAIN appointment' = DOMAIN appointment /\ appointment'.notes = appointment.notes
  BY <1>0 DEF Accept, MeetingInv, MeetingShape
<1>5. s = "DEBRIEF" => NotesRead(redone, appointment')
  BY <1>1, <1>2, <1>4 DEF MeetingInv, NotesRead, Kept, InHand
<1>6. s = "DEBRIEF" => DecisionTaken(redone, appointment', overruled')
  BY <1>0, <1>2 DEF Accept, Completed, MeetingInv, MeetingShape, DecisionTaken
<1>7. redone.status \in Statuses
  BY <1>2 DEF Statuses
<1>8. DOMAIN asking' = Pages /\ \A v \in Pages : Asked(asking'[v])
  BY <1>1 DEF MeetingInv, MeetingShape
<1>9. s = "PREP" => UNCHANGED appointment
  BY <1>0 DEF Accept
<1> QED  BY <1>1, <1>2, <1>3, <1>4, <1>5, <1>6, <1>7, <1>8, <1>9, WorkReplaced

LEMMA MeetingSteps == MeetingInv /\ [MeetingDeskNext]_meetingDeskVars => MeetingInv'
<1> SUFFICES ASSUME MeetingInv, [MeetingDeskNext]_meetingDeskVars PROVE MeetingInv'
  OBVIOUS
<1>1. CASE UNCHANGED meetingDeskVars
  BY <1>1, WorkUntouched DEF meetingDeskVars
<1>2. ASSUME NEW u \in Pages, NEW which \in {"meetings", "orbit"}, LoadPage(u, which) PROVE MeetingInv'
  BY <1>2, WorkUntouched DEF LoadPage
<1>3. ASSUME NEW u \in Pages, ScheduleMeeting(u) \/ ResolveMeeting(u) PROVE MeetingInv'
  BY <1>3, MeetingScheduled, MeetingResolved
<1>4. ASSUME NEW u \in Pages, CockpitStep(u) PROVE MeetingInv'
  <2>1. "PREP" \in Stages
    BY DEF Stages
  <2>2. CASE AskPreparation(u)
    BY <2>1, <2>2, StageMoves
  <2>3. CASE \E notes \in 1..NoteLimit : AskDebrief(u, notes)
    BY <2>3, DebriefAsked
  <2>4. CASE TakeDebrief(u) \/ RefuseDebrief(u)
    BY <2>4, DebriefTaken, DebriefRefused
  <2>5. ASSUME NEW s \in Stages, RetryWork(u, s) \/ RejectWork(u, s) PROVE MeetingInv'
    BY <2>5, StageMoves
  <2>6. ASSUME NEW s \in Stages, ApproveWork(u, s) \/ ApproveEdits(u, s) PROVE MeetingInv'
    BY <2>6, WorkAccepted
  <2> QED  BY <1>4, <2>2, <2>3, <2>4, <2>5, <2>6 DEF CockpitStep
<1>5. CASE MeetingStarts
  <2>1. /\ UNCHANGED <<work, asking, overruled>> /\ DOMAIN appointment' = DOMAIN appointment
        /\ appointment'.notes = appointment.notes /\ appointment'.acted = appointment.acted
        /\ appointment'.status = appointment.status
    BY <1>5 DEF MeetingStarts, MeetingInv, MeetingShape
  <2> QED  BY <2>1, WorkUntouched
<1>6. ASSUME NEW s \in Stages, ClaimWork(s) \/ DraftWork(s) \/ ReturnWork(s) PROVE MeetingInv'
  BY <1>6, WorkerMoves
<1> QED  BY <1>1, <1>2, <1>3, <1>4, <1>5, <1>6 DEF MeetingDeskNext

\* Whatever pages people act from and however often workers return what they claimed, a debrief
\* follows the notes of its meeting and its decision has its outcome (orbit.service.ts queueInside,
\* queueDebrief, reviewDebrief).
THEOREM MeetingsAlwaysEndAsDecided == MeetingDeskSpec => []MeetingsEndAsDecided
<1>1. MeetingDeskInit => MeetingInv
  BY MeetingStarted
<1>2. MeetingInv /\ [MeetingDeskNext]_meetingDeskVars => MeetingInv'
  BY MeetingSteps
<1>3. MeetingInv => MeetingsEndAsDecided
  BY MeetingImplies
<1> QED  BY <1>1, <1>2, <1>3, PTL DEF MeetingDeskSpec

-----------------------------------------------------------------------------
(***************************************************************************)
(* A strategy.  Nothing is asked of Nova before the classification has     *)
(* been reviewed, and what an approval made is there only while the        *)
(* strategy reads approved, or since it was reopened.                      *)
(***************************************************************************)

ReplyFields == {"sentinel", "intent", "nova", "plan", "linked", "task"}

FormInv ==
    /\ DOMAIN reply = ReplyFields
    /\ reply.sentinel # "REVIEWED" => reply.nova = "NOT_REQUIRED"
    /\ reply.linked \/ reply.task => reopened \/ reply.nova = "REVIEWED"
    /\ reply.nova = "REVIEWED" => reply.plan = shown /\ Fits(reply.plan, reply.intent)

LEMMA FormStarted == FormsInit => FormInv
BY DEF FormsInit, FormInv, ReplyFields, NoPlan

LEMMA FormImplies == FormInv => DecidedAsShown
BY DEF FormInv, DecidedAsShown

\* Steps after which the strategy does not read approved and nothing was made.
LEMMA NothingMade ==
    ASSUME FormInv, DOMAIN reply' = ReplyFields,
           reply'.linked = reply.linked, reply'.task = reply.task,
           reply'.nova # "REVIEWED",
           reply.nova = "REVIEWED" => reopened' \/ ~(reply.linked \/ reply.task),
           reopened => reopened',
           reply'.sentinel # "REVIEWED" => reply'.nova = "NOT_REQUIRED"
    PROVE  FormInv'
BY DEF FormInv

LEMMA FormUntouched ==
    ASSUME FormInv, UNCHANGED <<reply, shown, reopened>>
    PROVE  FormInv'
BY DEF FormInv, Fits

LEMMA StrategyMoves ==
    ASSUME FormInv, NEW t \in Tabs, RetrySentinel(t) \/ Reject(t) \/ RetryNova(t)
    PROVE  FormInv'
<1>1. DOMAIN reply' = ReplyFields /\ reply'.linked = reply.linked /\ reply'.task = reply.task /\ reopened' = reopened
  BY DEF FormInv, ReplyFields, RetrySentinel, Reject, RetryNova
<1>2. reply'.nova # "REVIEWED" /\ reply.nova # "REVIEWED"
  BY DEF FormInv, ReplyFields, RetrySentinel, Reject, RetryNova, Decidable
<1>3. reply'.sentinel # "REVIEWED" => reply'.nova = "NOT_REQUIRED"
  BY DEF FormInv, ReplyFields, RetrySentinel, Reject, RetryNova, Decidable
<1> QED  BY <1>1, <1>2, <1>3, NothingMade

LEMMA ClassificationReviewed ==
    ASSUME FormInv, NEW t \in Tabs, NEW intent, ReviewClassification(t, intent)
    PROVE  FormInv'
<1>1. /\ DOMAIN reply' = ReplyFields /\ reply'.linked = reply.linked /\ reply'.task = reply.task
      /\ reply'.sentinel = "REVIEWED" /\ reply'.nova \in {"QUEUED", "NOT_REQUIRED"}
  BY DEF FormInv, ReplyFields, ReviewClassification
<1>2. reopened' = (reopened \/ reply.linked \/ reply.task)
  BY DEF ReviewClassification
<1> QED  BY <1>1, <1>2, NothingMade

LEMMA StrategyApproved ==
    ASSUME FormInv, NEW t \in Tabs, Approve(t)
    PROVE  FormInv'
<1> DEFINE form == Form(t)
           plan == [opportunity |-> form.opportunity, meeting |-> form.meeting]
<1>1. /\ DOMAIN reply' = ReplyFields /\ reply'.nova = "REVIEWED" /\ reply'.plan = plan
      /\ reply'.intent = reply.intent /\ reply'.sentinel = reply.sentinel
  BY DEF FormInv, ReplyFields, Approve, Posted
<1>2. shown' = plan
  BY DEF Approve
<1>3. Fits(form, reply.intent)
  BY DEF Approve, Posted, Acceptable
<1>4. Fits(plan, reply.intent)
  BY <1>3 DEF Fits
<1>5. reply.sentinel = "REVIEWED"
  BY DEF Approve, Decidable, FormInv
<1> HIDE DEF plan
<1>6. Fits(reply'.plan, reply'.intent)
  BY <1>1, <1>4
<1> QED  BY <1>1, <1>2, <1>5, <1>6 DEF FormInv, Fits

LEMMA FormSteps == FormInv /\ [FormsNext]_formVars => FormInv'
<1> SUFFICES ASSUME FormInv, [FormsNext]_formVars PROVE FormInv'
  OBVIOUS
<1>1. CASE UNCHANGED formVars
  BY <1>1, FormUntouched DEF formVars
<1>2. CASE Classify \/ DraftStrategy
  <2>1. DOMAIN reply' = ReplyFields /\ reply'.linked = reply.linked /\ reply'.task = reply.task /\ reopened' = reopened
    BY <1>2 DEF FormInv, ReplyFields, Classify, DraftStrategy
  <2>2. reply'.nova # "REVIEWED" /\ reply.nova # "REVIEWED"
    BY <1>2 DEF FormInv, ReplyFields, Classify, DraftStrategy
  <2>3. reply'.sentinel # "REVIEWED" => reply'.nova = "NOT_REQUIRED"
    BY <1>2 DEF FormInv, ReplyFields, Classify, DraftStrategy
  <2> QED  BY <2>1, <2>2, <2>3, NothingMade
<1>3. ASSUME NEW t \in Tabs, TabStep(t) PROVE FormInv'
  <2>1. CASE LoadInbox(t) \/ LoadDesk(t) \/ \E field \in {"opportunity", "meeting", "task"} : Change(t, field)
    BY <2>1, FormUntouched DEF LoadInbox, LoadDesk, Change
  <2>2. CASE AcceptClassification(t) \/ \E intent \in Intents : CorrectClassification(t, intent)
    BY <2>2, ClassificationReviewed DEF AcceptClassification, CorrectClassification
  <2>3. CASE Approve(t)
    BY <2>3, StrategyApproved
  <2>4. CASE RetrySentinel(t) \/ Reject(t) \/ RetryNova(t)
    BY <2>4, StrategyMoves
  <2> QED  BY <1>3, <2>1, <2>2, <2>3, <2>4 DEF TabStep
<1> QED  BY <1>1, <1>2, <1>3 DEF FormsNext

\* Whatever tabs a reply is reviewed from, what reads approved is what its reader saw and fits the
\* reply, and what reads rejected has made nothing unless it was reopened (nova.service.ts review,
\* merge, assertSafe; sentinel.service.ts review).
THEOREM AlwaysDecidedAsShown == FormsSpec => []DecidedAsShown
<1>1. FormsInit => FormInv
  BY FormStarted
<1>2. FormInv /\ [FormsNext]_formVars => FormInv'
  BY FormSteps
<1>3. FormInv => DecidedAsShown
  BY FormImplies
<1> QED  BY <1>1, <1>2, <1>3, PTL DEF FormsSpec

-----------------------------------------------------------------------------
(***************************************************************************)
(* Automation.  A request is about a question that has been asked, and     *)
(* once it has recorded its answer the question is no longer open: so what *)
(* is carried out was answered before, whoever else answers meanwhile.     *)
(***************************************************************************)

RequestFields == {"at", "key", "choice"}
Answering == {"EXECUTE", "EXECUTED", "FAILED"}

\* What a request under way has seen to of its question, where d are the statuses of the questions
\* and c those carried out.
RequestStands(request, d, c) ==
    \/ request = Free
    \/ /\ DOMAIN request = RequestFields
       /\ request.key \in DecisionKeys /\ request.at \in Answering \cup {"WRITE"}
       /\ d[request.key] # "NONE"
       /\ request.at \in Answering => d[request.key] # "PENDING"
       /\ request.at = "EXECUTED" => request.key \in c

QuestionStands(k, d, c) ==
    /\ d[k] \in {"NONE", "PENDING"} => k \notin c
    /\ d[k] = "EXECUTED" => k \in c

\* A failed run is the subject of one pending question.
OneRetryAsked == \A j, k \in Inbox \cap RetryKeys : j = k

AutomationShape == DOMAIN decision = DecisionKeys /\ DOMAIN deciding = Deciders

ConsentInv ==
    /\ AutomationShape
    /\ \A p \in Deciders : RequestStands(deciding[p], decision, carried)
    /\ \A k \in DecisionKeys : QuestionStands(k, decision, carried)
    /\ OneRetryAsked

LEMMA ConsentStarted == AutomationInit => ConsentInv
BY DEF AutomationInit, ConsentInv, AutomationShape, RequestStands, QuestionStands, OneRetryAsked, Inbox

LEMMA ConsentImplies == ConsentInv => ActsOnConsent
<1> SUFFICES ASSUME ConsentInv PROVE ActsOnConsent
  OBVIOUS
<1> DEFINE S == Inbox \cap RetryKeys
<1>1. Cardinality(S) <= 1
  <2>1. CASE S = {}
    BY <2>1, FS_EmptySet
  <2>2. CASE S # {}
    <3>1. PICK k \in S : TRUE
      BY <2>2
    <3>2. S = {k}
      BY <3>1 DEF ConsentInv, OneRetryAsked
    <3>3. Cardinality(S) = 1
      BY <3>2, FS_Singleton
    <3> HIDE DEF S
    <3> QED  BY <3>3
  <2> QED  BY <2>1, <2>2
<1>2. \A k \in DecisionKeys : QuestionStands(k, decision, carried)
  BY DEF ConsentInv
<1> QED  BY <1>1, <1>2 DEF ActsOnConsent, QuestionStands

\* Steps outside the questions and the requests about them.
LEMMA ConsentUntouched ==
    ASSUME ConsentInv, UNCHANGED <<decision, deciding, carried>>
    PROVE  ConsentInv'
BY DEF ConsentInv, AutomationShape, RequestStands, QuestionStands, OneRetryAsked, Inbox

\* A pass asks what was never asked, and of a failed run only with no question of it pending.
LEMMA PassAsks ==
    ASSUME ConsentInv, NEW p, NEW affordable \in BOOLEAN, NEW due \in BOOLEAN, Reconcile(p, affordable, due),
           UNCHANGED <<deciding, carried>>
    PROVE  ConsentInv'
<1> DEFINE acts == policy.mode = "CONTROLLED" /\ affordable
           startDue == policy.discovery /\ due /\ ~chain
           retries == IF RetryCandidate /\ ~acts THEN {<<"retry", failing.retryCount>>} ELSE {}
           starts == IF startDue /\ ~acts THEN {<<"discovery", hour>>} ELSE {}
           raised == Suggested \cup retries \cup starts
<1>1. decision' = [k \in DecisionKeys |->
                     IF k \in raised /\ decision[k] = "NONE" THEN "PENDING" ELSE decision[k]]
  BY DEF Reconcile
<1>2. raised \cap RetryKeys \subseteq retries
  <2>1. Suggested \cap RetryKeys = {}
    BY DEF Suggested, OpenKeys, RetryKeys
  <2>2. starts \cap RetryKeys = {}
    BY DEF RetryKeys
  <2> QED  BY <2>1, <2>2
<1> HIDE DEF raised
<1>3. \A k \in DecisionKeys : decision'[k] = decision[k] \/ (k \in raised /\ decision[k] = "NONE" /\ decision'[k] = "PENDING")
  BY <1>1
<1>4. AutomationShape'
  BY <1>1 DEF ConsentInv, AutomationShape
<1>5. \A k \in DecisionKeys : QuestionStands(k, decision, carried)'
  BY <1>3 DEF ConsentInv, QuestionStands
<1>6. \A q \in Deciders : RequestStands(deciding[q], decision, carried)'
  BY <1>3 DEF ConsentInv, RequestStands
<1>7. OneRetryAsked'
  <2> SUFFICES ASSUME NEW j \in RetryKeys, NEW k \in RetryKeys, j \in Inbox', k \in Inbox'
               PROVE  j = k
    BY DEF OneRetryAsked, RetryKeys
  <2>1. /\ j \in DecisionKeys /\ decision'[j] = "PENDING"
        /\ k \in DecisionKeys /\ decision'[k] = "PENDING"
    BY DEF Inbox, DecisionKeys
  <2>2. CASE decision[j] = "PENDING" /\ decision[k] = "PENDING"
    BY <2>1, <2>2 DEF ConsentInv, OneRetryAsked, Inbox
  <2>3. CASE decision[j] # "PENDING" \/ decision[k] # "PENDING"
    <3>1. (j \in retries /\ decision[j] = "NONE") \/ (k \in retries /\ decision[k] = "NONE")
      BY <1>2, <1>3, <2>1, <2>3
    <3>2. \A l \in RetryKeys : decision[l] # "PENDING"
      BY <3>1 DEF RetryCandidate
    <3> QED  BY <1>2, <1>3, <2>1, <3>2
  <2> QED  BY <2>2, <2>3
<1> QED  BY <1>4, <1>5, <1>6, <1>7 DEF ConsentInv

\* An answer is written or finished: the question leaves what is pending for good.
LEMMA Settled ==
    ASSUME ConsentInv, NEW p \in Deciders, NEW k \in DecisionKeys, NEW answer, NEW request,
           answer \notin {"NONE", "PENDING"}, answer = "EXECUTED" => k \in carried,
           decision' = [decision EXCEPT ![k] = answer],
           deciding' = [deciding EXCEPT ![p] = request], carried' = carried,
           RequestStands(request, decision', carried)
    PROVE  ConsentInv'
<1>1. \A j \in DecisionKeys : decision'[j] = IF j = k THEN answer ELSE decision[j]
  BY DEF ConsentInv, AutomationShape
<1>2. AutomationShape'
  BY DEF ConsentInv, AutomationShape
<1>3. \A j \in DecisionKeys : QuestionStands(j, decision, carried)'
  BY <1>1 DEF ConsentInv, QuestionStands
<1>4. \A q \in Deciders : RequestStands(deciding[q], decision, carried)'
  <2> SUFFICES ASSUME NEW q \in Deciders PROVE RequestStands(deciding'[q], decision', carried)
    OBVIOUS
  <2>1. deciding'[q] = IF q = p THEN request ELSE deciding[q]
    BY DEF ConsentInv, AutomationShape
  <2>2. RequestStands(deciding[q], decision, carried)
    BY DEF ConsentInv
  <2>3. RequestStands(deciding[q], decision', carried)
    BY <1>1, <2>2 DEF RequestStands
  <2> QED  BY <2>1, <2>3
<1>5. OneRetryAsked'
  BY <1>1 DEF ConsentInv, OneRetryAsked, Inbox
<1> QED  BY <1>2, <1>3, <1>4, <1>5 DEF ConsentInv

\* A request goes on, or ends, and what it carries out is no longer open.
LEMMA RequestMoves ==
    ASSUME ConsentInv, NEW p \in Deciders, NEW request, UNCHANGED decision,
           deciding' = [deciding EXCEPT ![p] = request], carried \subseteq carried',
           \A k \in DecisionKeys : k \in carried' \ carried => decision[k] \notin {"NONE", "PENDING"},
           RequestStands(request, decision, carried')
    PROVE  ConsentInv'
<1>1. AutomationShape' /\ OneRetryAsked'
  BY DEF ConsentInv, AutomationShape, OneRetryAsked, Inbox
<1>2. \A j \in DecisionKeys : QuestionStands(j, decision, carried)'
  BY DEF ConsentInv, QuestionStands
<1>3. \A q \in Deciders : RequestStands(deciding[q], decision, carried)'
  <2> SUFFICES ASSUME NEW q \in Deciders PROVE RequestStands(deciding'[q], decision', carried')
    OBVIOUS
  <2>1. deciding'[q] = IF q = p THEN request ELSE deciding[q]
    BY DEF ConsentInv, AutomationShape
  <2>2. RequestStands(deciding[q], decision, carried)
    BY DEF ConsentInv
  <2>3. RequestStands(deciding[q], decision, carried')
    BY <2>2 DEF RequestStands
  <2> QED  BY <2>1, <2>3
<1> QED  BY <1>1, <1>2, <1>3 DEF ConsentInv

LEMMA QuestionDecided ==
    ASSUME ConsentInv, NEW p \in Deciders, NEW k \in DecisionKeys, NEW choice, Decide(p, k, choice)
    PROVE  ConsentInv'
<1> DEFINE request == [at |-> "WRITE", key |-> k, choice |-> choice]
<1>1. RequestStands(request, decision, carried')
  BY DEF Decide, Inbox, RequestStands, RequestFields, Answering
<1>2. deciding' = [deciding EXCEPT ![p] = request] /\ UNCHANGED <<decision, carried>>
  BY DEF Decide
<1> HIDE DEF request
<1> QED  BY <1>1, <1>2, RequestMoves

LEMMA RequestSteps ==
    ASSUME ConsentInv, NEW p \in Deciders, RequestStepOf(p) \/ RequestDies(p)
    PROVE  ConsentInv'
<1> DEFINE r == deciding[p]
<1>1. DOMAIN deciding = Deciders /\ DOMAIN decision = DecisionKeys /\ RequestStands(r, decision, carried)
  BY DEF ConsentInv, AutomationShape
<1>2. CASE WriteDecision(p)
  <2>1. r # Free /\ r.key \in DecisionKeys /\ DOMAIN r = RequestFields /\ carried' = carried
    BY <1>1, <1>2 DEF WriteDecision, RequestStands, Free
  <2>2. CASE r.choice = "REJECT"
    <3>1. decision' = [decision EXCEPT ![r.key] = "REJECTED"] /\ deciding' = [deciding EXCEPT ![p] = Free]
      BY <1>2, <2>2 DEF WriteDecision
    <3>2. RequestStands(Free, decision', carried)
      BY DEF RequestStands
    <3>3. "REJECTED" \notin {"NONE", "PENDING", "EXECUTED"}
      OBVIOUS
    <3> QED  BY <2>1, <3>1, <3>2, <3>3, Settled
  <2>3. CASE r.choice # "REJECT"
    <3> DEFINE request == [r EXCEPT !.at = "EXECUTE"]
    <3>1. decision' = [decision EXCEPT ![r.key] = "APPROVED"] /\ deciding' = [deciding EXCEPT ![p] = request]
      BY <1>1, <1>2, <2>3 DEF WriteDecision
    <3>2. DOMAIN request = RequestFields /\ request.at = "EXECUTE" /\ request.key = r.key
      BY <2>1 DEF RequestFields
    <3> HIDE DEF request
    <3>3. RequestStands(request, decision', carried)
      BY <1>1, <2>1, <3>1, <3>2 DEF RequestStands, Answering
    <3>4. "APPROVED" \notin {"NONE", "PENDING", "EXECUTED"}
      OBVIOUS
    <3> QED  BY <2>1, <3>1, <3>3, <3>4, Settled
  <2> QED  BY <2>2, <2>3
<1>3. CASE Execute(p)
  <2>1. /\ r.key \in DecisionKeys /\ DOMAIN r = RequestFields /\ decision' = decision
        /\ decision[r.key] \notin {"NONE", "PENDING"}
    BY <1>1, <1>3 DEF Execute, RequestStands, Free, Answering
  <2>2. PICK at \in {"EXECUTED", "FAILED"} :
          /\ deciding' = [deciding EXCEPT ![p].at = at]
          /\ carried' = IF at = "EXECUTED" THEN carried \cup {r.key} ELSE carried
    BY <1>3 DEF Execute, CarryOut
  <2> DEFINE request == [r EXCEPT !.at = at]
  <2>3. DOMAIN request = RequestFields /\ request.at = at /\ request.key = r.key
    BY <2>1 DEF RequestFields
  <2>4. deciding' = [deciding EXCEPT ![p] = request]
    BY <1>1, <2>2
  <2> HIDE DEF request
  <2>5. RequestStands(request, decision, carried')
    BY <2>1, <2>2, <2>3 DEF RequestStands, Answering
  <2> QED  BY <2>1, <2>2, <2>4, <2>5, RequestMoves
<1>4. CASE FinishDecision(p)
  <2>1. r.key \in DecisionKeys /\ carried' = carried /\ (r.at = "EXECUTED" => r.key \in carried)
    BY <1>1, <1>4 DEF FinishDecision, RequestStands, Free
  <2>2. /\ decision' = [decision EXCEPT ![r.key] = r.at] /\ deciding' = [deciding EXCEPT ![p] = Free]
        /\ r.at \notin {"NONE", "PENDING"}
    BY <1>4 DEF FinishDecision
  <2>3. RequestStands(Free, decision', carried)
    BY DEF RequestStands
  <2> QED  BY <2>1, <2>2, <2>3, Settled
<1>5. CASE RequestDies(p)
  <2>1. deciding' = [deciding EXCEPT ![p] = Free] /\ UNCHANGED <<decision, carried>>
    BY <1>5 DEF RequestDies
  <2>2. RequestStands(Free, decision, carried')
    BY DEF RequestStands
  <2> QED  BY <2>1, <2>2, RequestMoves
<1> QED  BY <1>2, <1>3, <1>4, <1>5 DEF RequestStepOf

LEMMA ConsentSteps == ConsentInv /\ [AutomationNext]_automationVars => ConsentInv'
<1> SUFFICES ASSUME ConsentInv, [AutomationNext]_automationVars PROVE ConsentInv'
  OBVIOUS
<1>1. CASE UNCHANGED automationVars
  BY <1>1, ConsentUntouched DEF automationVars, decisionVars
<1>2. ASSUME NEW p \in {"worker", "person"}, PassStep(p) PROVE ConsentInv'
  <2>1. ASSUME NEW affordable \in BOOLEAN, NEW due \in BOOLEAN, Pass(p, affordable, due) PROVE ConsentInv'
    <3>1. UNCHANGED <<deciding, carried>>
      BY <2>1 DEF Pass
    <3>2. Reconcile(p, affordable, due) \/ UNCHANGED decision
      BY <2>1 DEF Pass
    <3> QED  BY <3>1, <3>2, PassAsks, ConsentUntouched
  <2>2. CASE StartStagedRetry(p) \/ StartStagedDiscovery(p)
    BY <2>2, ConsentUntouched DEF StartStagedRetry, StartStagedDiscovery, decisionVars
  <2> QED  BY <1>2, <2>1, <2>2 DEF PassStep
<1>3. ASSUME NEW p \in {"worker", "person"}, PassDies(p) PROVE ConsentInv'
  BY <1>3, ConsentUntouched DEF PassDies, decisionVars
<1>4. ASSUME NEW p \in Deciders, RequestStepOf(p) \/ RequestDies(p) PROVE ConsentInv'
  BY <1>4, RequestSteps
<1>5. ASSUME NEW p \in Deciders, NEW k \in DecisionKeys, NEW choice \in {"APPROVE", "REJECT"}, Decide(p, k, choice)
      PROVE  ConsentInv'
  BY <1>5, QuestionDecided
<1>6. CASE UpdatePolicy \/ Resume \/ TimePasses \/ ChainEnds \/ RetriedByHand
  BY <1>6, ConsentUntouched DEF UpdatePolicy, Resume, TimePasses, ChainEnds, RetriedByHand, decisionVars
<1>7. ASSUME NEW i \in Issues, IssueOpens(i) \/ IssueCloses(i) PROVE ConsentInv'
  BY <1>7, ConsentUntouched DEF IssueOpens, IssueCloses, decisionVars
<1>8. ASSUME NEW answer \in {"SUCCEEDED", "FAILED"}, RunEnds(answer) PROVE ConsentInv'
  BY <1>8, ConsentUntouched DEF RunEnds, decisionVars
<1> QED  BY <1>1, <1>2, <1>3, <1>4, <1>5, <1>6, <1>7, <1>8 DEF AutomationNext

\* However the requests of people interleave, whatever the policy is and whoever dies, nothing that is
\* still open was carried out, what reads executed was, and a failed run is asked about once at a time
\* (automation.service.ts decision, finishDecision; automation.ts retry candidates).
THEOREM AlwaysActsOnConsent == AutomationSpec => []ActsOnConsent
<1>1. AutomationInit => ConsentInv
  BY ConsentStarted
<1>2. ConsentInv /\ [AutomationNext]_automationVars => ConsentInv'
  BY ConsentSteps
<1>3. ConsentInv => ActsOnConsent
  BY ConsentImplies
<1> QED  BY <1>1, <1>2, <1>3, PTL DEF AutomationSpec

-----------------------------------------------------------------------------
(***************************************************************************)
(* The drafts of Forge and Orbit.  A worker that comes back late finds the *)
(* draft processed for another run, or decided, and leaves it; a meeting   *)
(* that is not there yet has no preparation, so that creating it asks for  *)
(* the first one.                                                          *)
(***************************************************************************)

DraftStatuses == {"NONE", "READY", "FAILED", "APPROVED", "REVIEWED", "REJECTED", "SENT"} \cup Working

DraftShape ==
    /\ status \in [Drafts -> DraftStatuses]
    /\ DOMAIN asked = Drafts
    /\ DOMAIN job = Workers
    /\ \A w \in Workers : job[w] # Idle => job[w].draft \in Drafts
    /\ DOMAIN meeting = Meetings
    /\ \A m \in Meetings : DOMAIN meeting[m] = {"exists", "started", "notes"}

DraftInv ==
    /\ DraftShape
    /\ \A m \in Meetings : meeting[m] = NoMeeting => status[Prep(m)] = "NONE"

LEMMA DraftsStarted == DraftDeskInit => DraftInv
BY DraftDeskConstants
   DEF DraftDeskInit, QueueInit, OrbitInit, DraftInv, DraftShape, DraftStatuses, Prep, Briefings, NoMeeting

\* The queue's own steps, of workers and of a stop.
LEMMA QueueKeepsShape ==
    ASSUME DraftInv, QueueStep, UNCHANGED meeting
    PROVE  DraftInv'
<1> USE DraftDeskConstants DEF DraftInv, DraftShape, DraftStatuses, Working, Prep, Briefings
<1>1. ASSUME NEW w \in Workers, Succeed(w) PROVE DraftInv'
  BY <1>1 DEF Succeed, Current
<1>2. ASSUME NEW w \in Workers, Fail(w) PROVE DraftInv'
  BY <1>2 DEF Fail, Current, RunAfter
<1>3. ASSUME NEW w \in Workers, WorkerDies(w) PROVE DraftInv'
  BY <1>3 DEF WorkerDies
<1>4. ASSUME NEW d \in Drafts, RecoverStale(d) PROVE DraftInv'
  BY <1>4 DEF RecoverStale
<1>5. CASE StopOrganisation \/ ResumeOrganisation
  BY <1>5 DEF StopOrganisation, ResumeOrganisation
<1> QED
  BY <1>1, <1>2, <1>3, <1>4, <1>5 DEF QueueStep, WorkerStep

LEMMA DraftsKeepShape == DraftInv /\ [DraftDeskNext]_draftVars => DraftInv'
<1> SUFFICES ASSUME DraftInv, [DraftDeskNext]_draftVars PROVE DraftInv'
  OBVIOUS
<1> USE DraftDeskConstants DEF DraftInv, DraftShape, DraftStatuses, Working, Prep, Debrief, Briefings,
                               forgeVars, orbitVars, queueVars
<1>1. ASSUME NEW p \in Proposals, QueueProposal(p) \/ Revise(p) \/ RetryProposal(p), UNCHANGED meeting PROVE DraftInv'
  BY <1>1 DEF QueueProposal, Revise, RetryProposal, QueueRun
<1>2. ASSUME NEW p \in Proposals, NEW choice \in {"APPROVED", "REJECTED"}, ReviewProposal(p, choice), UNCHANGED meeting
      PROVE  DraftInv'
  BY <1>2 DEF ReviewProposal, Settle
<1>3. ASSUME NEW p \in Proposals, NEW update \in BOOLEAN, MarkSent(p, update), UNCHANGED meeting PROVE DraftInv'
  BY <1>3 DEF MarkSent, Settle
<1>4. ASSUME NEW w \in Workers, NEW d \in Drafts, Claim(w, d), UNCHANGED meeting PROVE DraftInv'
  BY <1>4 DEF Claim
<1>5. ASSUME NEW o \in Opportunities, OpportunityMoves(o), UNCHANGED meeting PROVE DraftInv'
  BY <1>5 DEF OpportunityMoves
<1>6. ASSUME NEW m \in Meetings, CreateMeeting(m) PROVE DraftInv'
  <2>1. PICK started \in BOOLEAN, n \in 0..NoteBound :
          /\ meeting' = [meeting EXCEPT ![m] = [exists |-> TRUE, started |-> started, notes |-> n]]
          /\ IF started THEN UNCHANGED queueVars ELSE QueueRun(Prep(m), 1)
    BY <1>6 DEF CreateMeeting
  <2>2. /\ DOMAIN meeting' = Meetings /\ meeting'[m].exists
        /\ \A k \in Meetings : DOMAIN meeting'[k] = {"exists", "started", "notes"}
        /\ \A k \in Meetings : k # m => meeting'[k] = meeting[k]
    BY <2>1
  <2>3. /\ status' \in [Drafts -> DraftStatuses] /\ DOMAIN asked' = Drafts /\ UNCHANGED job
        /\ \A k \in Meetings : k # m => status'[Prep(k)] = status[Prep(k)]
    BY <2>1 DEF QueueRun
  <2>4. ~NoMeeting.exists
    BY DEF NoMeeting
  <2> QED  BY <2>2, <2>3, <2>4
<1>7. ASSUME NEW m \in Meetings, TimeComes(m) \/ UpdateMeeting(m) PROVE DraftInv'
  <2>1. PICK row : /\ meeting' = [meeting EXCEPT ![m] = row] /\ UNCHANGED queueVars
                   /\ DOMAIN row = {"exists", "started", "notes"} /\ row.exists
    <3>1. CASE TimeComes(m)
      <4>1. meeting' = [meeting EXCEPT ![m] = [meeting[m] EXCEPT !.started = TRUE]] /\ meeting[m].exists /\ UNCHANGED queueVars
        BY <3>1 DEF TimeComes
      <4> DEFINE row == [meeting[m] EXCEPT !.started = TRUE]
      <4>2. DOMAIN row = {"exists", "started", "notes"} /\ row.exists
        BY <4>1
      <4> QED  BY <4>1, <4>2
    <3>2. CASE UpdateMeeting(m)
      <4>1. PICK started \in BOOLEAN, n \in 0..NoteBound :
              meeting' = [meeting EXCEPT ![m].started = started, ![m].notes = n]
        BY <3>2 DEF UpdateMeeting
      <4>2. meeting' = [meeting EXCEPT ![m] = [meeting[m] EXCEPT !.started = started, !.notes = n]]
        BY <4>1
      <4> QED  BY <3>2, <4>2 DEF UpdateMeeting
    <3> QED  BY <1>7, <3>1, <3>2
  <2>2. ~NoMeeting.exists
    BY DEF NoMeeting
  <2> QED  BY <2>1, <2>2
<1>8. ASSUME NEW m \in Meetings, QueuePreparation(m) PROVE DraftInv'
  BY <1>8 DEF QueuePreparation, QueueRun, NoMeeting
<1>9. ASSUME NEW m \in Meetings, NEW n \in 1..NoteBound, QueueDebrief(m, n) PROVE DraftInv'
  BY <1>9 DEF QueueDebrief, QueueRun, NoMeeting
<1>10. ASSUME NEW b \in Briefings, RetryBriefing(b) PROVE DraftInv'
  BY <1>10 DEF RetryBriefing, QueueRun
<1>11. ASSUME NEW b \in Briefings, NEW choice \in {"REVIEWED", "REJECTED"}, ReviewBriefing(b, choice) PROVE DraftInv'
  BY <1>11 DEF ReviewBriefing, Settle
<1>12. ASSUME NEW w \in Workers, NEW b \in Briefings, ClaimBriefing(w, b) PROVE DraftInv'
  BY <1>4, <1>12 DEF ClaimBriefing
<1>13. CASE QueueStep /\ UNCHANGED meeting
  BY <1>13, QueueKeepsShape
<1>14. CASE UNCHANGED draftVars
  BY <1>14 DEF draftVars
<1> QED
  BY <1>1, <1>2, <1>3, <1>4, <1>5, <1>6, <1>7, <1>8, <1>9, <1>10, <1>11, <1>12, <1>13, <1>14
     DEF DraftDeskNext, ForgeNext, OrbitNext

-----------------------------------------------------------------------------
\* What a step of the rows is for who reads the draft.
LEMMA DraftChanges ==
    ASSUME DraftInv, NEW d \in Drafts, NEW to, status' = [status EXCEPT ![d] = to]
    PROVE  PolicyState[d] = StateOf(status[d]) /\ PolicyState' = [PolicyState EXCEPT ![d] = StateOf(to)]
<1>1. PolicyState = [e \in Drafts |-> StateOf(status[e])]
  BY DEF PolicyState
<1>2. PolicyState' = [e \in Drafts |-> StateOf(status'[e])]
  BY DEF PolicyState, StateOf
<1>3. \A e \in Drafts : status'[e] = IF e = d THEN to ELSE status[e]
  BY DEF DraftInv, DraftShape
<1> QED  BY <1>1, <1>2, <1>3

LEMMA DraftStays ==
    ASSUME \A d \in Drafts : StateOf(status'[d]) = StateOf(status[d]), UNCHANGED asked
    PROVE  UNCHANGED Policy!policyVars
<1>1. PolicyState' = [d \in Drafts |-> StateOf(status'[d])]
  BY DEF PolicyState, StateOf
<1> QED  BY <1>1 DEF PolicyState, Policy!policyVars

\* A request for a draft that may be redone.
LEMMA DraftAskedFor ==
    ASSUME DraftInv, NEW d \in Drafts, NEW no, QueueRun(d, no),
           status[d] \notin Working, d \in Briefings => status[d] \notin {"APPROVED", "REVIEWED"}
    PROVE  Policy!Ask(d)
<1>1. StateOf(status[d]) # "working" /\ (d \in Briefings => StateOf(status[d]) # "accepted")
  BY DEF StateOf, DraftInv, DraftShape, DraftStatuses, Working
<1>2. StateOf("QUEUED") = "working"
  BY DEF StateOf, Working
<1>3. status' = [status EXCEPT ![d] = "QUEUED"] /\ asked' = [asked EXCEPT ![d] = @ + 1]
  BY DEF QueueRun
<1> QED  BY <1>1, <1>2, <1>3, DraftChanges DEF Policy!Ask

\* A person's decision.
LEMMA DraftDecided ==
    ASSUME DraftInv, NEW d \in Drafts, NEW choice \in {"APPROVED", "REVIEWED", "REJECTED"}, Settle(d, "READY", choice)
    PROVE  Policy!Decide(d)
<1>1. StateOf("READY") = "proposed" /\ StateOf(choice) \in {"accepted", "refused"}
  BY DEF StateOf, Working
<1>2. status[d] = "READY" /\ status' = [status EXCEPT ![d] = choice] /\ UNCHANGED asked
  BY DEF Settle
<1>3. PolicyState[d] = "proposed" /\ PolicyState' = [PolicyState EXCEPT ![d] = StateOf(choice)]
  BY <1>1, <1>2, DraftChanges
<1> QED  BY <1>1, <1>2, <1>3 DEF Policy!Decide, Policy!From

\* The end of a worker's turn: what it made is proposed, or its failure is shown, only while the draft
\* is worked on.
LEMMA DraftWorked ==
    ASSUME DraftInv, NEW d \in Drafts, NEW to \in {"READY", "FAILED"}, status[d] \in Working,
           status' = [status EXCEPT ![d] = to], UNCHANGED asked
    PROVE  Policy!Work(d)
<1>1. StateOf(status[d]) = "working" /\ StateOf("READY") = "proposed" /\ StateOf("FAILED") = "failed"
  BY DEF StateOf, Working
<1>2. PolicyState[d] = "working" /\ PolicyState' = [PolicyState EXCEPT ![d] = StateOf(to)]
  BY <1>1, DraftChanges
<1> QED  BY <1>1, <1>2 DEF Policy!Work, Policy!From

LEMMA QueueStepsAreWork ==
    ASSUME DraftInv, QueueStep
    PROVE  (\E d \in Drafts : Policy!Work(d)) \/ UNCHANGED Policy!policyVars
<1>1. ASSUME NEW d \in Drafts, NEW to \in Working, status[d] \in Working, status' = [status EXCEPT ![d] = to], UNCHANGED asked
      PROVE  UNCHANGED Policy!policyVars
  BY <1>1, DraftStays DEF DraftInv, DraftShape, StateOf, Working
<1>2. ASSUME UNCHANGED <<status, asked>>
      PROVE  UNCHANGED Policy!policyVars
  BY <1>2, DraftStays
<1>3. ASSUME NEW w \in Workers, Succeed(w) PROVE \E d \in Drafts : Policy!Work(d)
  <2>1. job[w].draft \in Drafts /\ status[job[w].draft] \in Working
    BY <1>3 DEF Succeed, Current, DraftInv, DraftShape, Working
  <2>2. status' = [status EXCEPT ![job[w].draft] = "READY"] /\ UNCHANGED asked
    BY <1>3 DEF Succeed
  <2> QED  BY <2>1, <2>2, DraftWorked
<1>4. ASSUME NEW w \in Workers, Fail(w)
      PROVE  (\E d \in Drafts : Policy!Work(d)) \/ UNCHANGED Policy!policyVars
  <2> DEFINE d == job[w].draft
             to == RunAfter(job[w])
  <2>1. d \in Drafts /\ to \in {"QUEUED", "FAILED"} /\ UNCHANGED asked
    BY <1>4 DEF Fail, RunAfter, DraftInv, DraftShape
  <2>2. CASE Current(job[w])
    <3>1. status[d] \in Working /\ status' = [status EXCEPT ![d] = to]
      BY <1>4, <2>2 DEF Fail, Current, Working
    <3> HIDE DEF d, to
    <3>2. CASE to = "QUEUED"
      BY <1>1, <2>1, <3>1, <3>2 DEF Working
    <3>3. CASE to = "FAILED"
      BY <2>1, <3>1, <3>3, DraftWorked
    <3> QED  BY <2>1, <3>2, <3>3
  <2>3. CASE ~Current(job[w])
    BY <1>2, <1>4, <2>3 DEF Fail
  <2> QED  BY <2>2, <2>3
<1>5. ASSUME NEW w \in Workers, WorkerDies(w) PROVE UNCHANGED Policy!policyVars
  BY <1>2, <1>5 DEF WorkerDies
<1>6. ASSUME NEW d \in Drafts, RecoverStale(d) PROVE UNCHANGED Policy!policyVars
  BY <1>1, <1>6 DEF RecoverStale, Working
<1>7. CASE StopOrganisation \/ ResumeOrganisation
  BY <1>2, <1>7 DEF StopOrganisation, ResumeOrganisation
<1> QED
  BY <1>3, <1>4, <1>5, <1>6, <1>7 DEF QueueStep, WorkerStep

LEMMA DraftStepsArePolicySteps ==
    DraftInv /\ [DraftDeskNext]_draftVars => [Policy!PolicyNext]_Policy!policyVars
<1> SUFFICES ASSUME DraftInv, [DraftDeskNext]_draftVars PROVE [Policy!PolicyNext]_Policy!policyVars
  OBVIOUS
<1> DEFINE Allowed == (\E d \in Drafts : Policy!Ask(d) \/ Policy!Work(d) \/ Policy!Decide(d) \/ Policy!Deliver(d))
                      \/ UNCHANGED Policy!policyVars
<1>1. Proposals \subseteq Drafts /\ Briefings \subseteq Drafts /\ Proposals \cap Briefings = {}
  BY DraftDeskConstants
<1>2. \A m \in Meetings : Prep(m) \in Briefings /\ Debrief(m) \in Briefings
  BY DEF Prep, Debrief, Briefings
<1>3. ASSUME UNCHANGED <<status, asked>> PROVE Allowed
  BY <1>3, DraftStays
<1>4. ASSUME NEW w \in Workers, NEW d \in Drafts, Claim(w, d) PROVE Allowed
  BY <1>4, DraftStays DEF Claim, DraftInv, DraftShape, StateOf, Working
<1>5. ASSUME NEW p \in Proposals, QueueProposal(p) \/ Revise(p) \/ RetryProposal(p) PROVE Allowed
  <2>1. status[p] \notin Working /\ QueueRun(p, 1)
    BY <1>5 DEF QueueProposal, Revise, RetryProposal, Working
  <2> QED  BY <1>1, <2>1, DraftAskedFor
<1>6. ASSUME NEW p \in Proposals, NEW choice \in {"APPROVED", "REJECTED"}, ReviewProposal(p, choice) PROVE Allowed
  BY <1>1, <1>6, DraftDecided DEF ReviewProposal
<1>7. ASSUME NEW p \in Proposals, NEW update \in BOOLEAN, MarkSent(p, update) PROVE Allowed
  <2>1. status[p] = "APPROVED" /\ status' = [status EXCEPT ![p] = "SENT"] /\ UNCHANGED asked
    BY <1>7 DEF MarkSent, Settle
  <2>2. StateOf("APPROVED") = "accepted" /\ StateOf("SENT") = "used"
    BY DEF StateOf, Working
  <2> QED  BY <1>1, <2>1, <2>2, DraftChanges DEF Policy!Deliver, Policy!From
<1>8. ASSUME NEW o \in Opportunities, OpportunityMoves(o) PROVE Allowed
  BY <1>3, <1>8 DEF OpportunityMoves, queueVars
<1>9. ASSUME NEW m \in Meetings, CreateMeeting(m) PROVE Allowed
  <2>1. CASE QueueRun(Prep(m), 1)
    <3>1. status[Prep(m)] = "NONE"
      BY <1>9 DEF CreateMeeting, DraftInv
    <3> QED  BY <1>1, <1>2, <2>1, <3>1, DraftAskedFor DEF Working
  <2>2. CASE UNCHANGED queueVars
    BY <1>3, <2>2 DEF queueVars
  <2> QED  BY <1>9, <2>1, <2>2 DEF CreateMeeting
<1>10. ASSUME NEW m \in Meetings, TimeComes(m) \/ UpdateMeeting(m) PROVE Allowed
  BY <1>3, <1>10 DEF TimeComes, UpdateMeeting, queueVars
<1>11. ASSUME NEW b \in Briefings, status[b] \in Requestable, QueueRun(b, 1) PROVE Allowed
  BY <1>1, <1>11, DraftAskedFor DEF Requestable, Working
<1>12. ASSUME NEW b \in Briefings, RetryBriefing(b) PROVE Allowed
  BY <1>1, <1>12, DraftAskedFor DEF RetryBriefing, Working
<1>13. ASSUME NEW b \in Briefings, NEW choice \in {"REVIEWED", "REJECTED"}, ReviewBriefing(b, choice) PROVE Allowed
  BY <1>1, <1>13, DraftDecided DEF ReviewBriefing
<1>14. ASSUME QueueStep PROVE Allowed
  BY <1>14, QueueStepsAreWork
<1>15. ASSUME UNCHANGED draftVars PROVE Allowed
  BY <1>3, <1>15 DEF draftVars, queueVars
<1>16. Allowed
  <2> HIDE DEF Allowed
  <2>1. CASE ForgeNext
    BY <1>1, <1>4, <1>5, <1>6, <1>7, <1>8, <1>14, <2>1 DEF ForgeNext
  <2>2. CASE OrbitNext
    BY <1>1, <1>2, <1>4, <1>9, <1>10, <1>11, <1>12, <1>13, <1>14, <2>2
       DEF OrbitNext, ClaimBriefing, QueuePreparation, QueueDebrief
  <2> QED  BY <1>15, <2>1, <2>2 DEF DraftDeskNext
<1> QED  BY <1>16 DEF Policy!PolicyNext

\* Of proposals and briefings, a model proposes and a person decides: Forge and Orbit, on the queue
\* they share with workers that come back late or were recovered while they worked, implement
\* DraftPolicy (forge.ts, orbit.ts, forge.service.ts, orbit.service.ts).
THEOREM DraftsImplementPolicy == DraftDeskSpec => PeopleDecideDrafts
<1>1. DraftDeskInit => Policy!PolicyInit
  <2>1. StateOf("NONE") = "none"
    BY DEF StateOf, Working
  <2> QED  BY <2>1 DEF DraftDeskInit, QueueInit, PolicyState, Policy!PolicyInit
<1>2. DraftDeskSpec => []DraftInv
  BY DraftsStarted, DraftsKeepShape, PTL DEF DraftDeskSpec
<1> QED
  BY <1>1, <1>2, DraftStepsArePolicySteps, PTL DEF DraftDeskSpec, PeopleDecideDrafts, Policy!PolicySpec

=============================================================================
