-------------------------------- MODULE Orbit --------------------------------
(***************************************************************************)
(* Orbit: the preparation of a meeting and the debrief of what was noted   *)
(* in it (orbit.service.ts), drafted by the worker (DraftQueue), and the   *)
(* meeting they are for (meetings.service.ts).                             *)
(*                                                                         *)
(* Left out: titles, agendas, links and tasks; the status and outcome of   *)
(* the meeting, which no request for a briefing reads; the opportunity     *)
(* stage an approved debrief may set (Contracts has it).                   *)
(***************************************************************************)
EXTENDS DraftQueue

CONSTANTS Meetings, NoteBound   \* bound: different notes of a meeting

VARIABLE meeting   \* whether it exists, whether its time has come, which notes it has (0: none)

orbitVars == <<meeting>>

Briefings == Meetings \X {"PREP", "DEBRIEF"}
Prep(m) == <<m, "PREP">>
Debrief(m) == <<m, "DEBRIEF">>

NoMeeting == [exists |-> FALSE, started |-> FALSE, notes |-> 0]

OrbitInit == meeting = [m \in Meetings |-> NoMeeting]

\* A meeting to come has its preparation queued with it.
CreateMeeting(m) ==
    /\ active /\ meeting[m] = NoMeeting
    /\ \E started \in BOOLEAN, n \in 0..NoteBound :
         /\ meeting' = [meeting EXCEPT ![m] = [exists |-> TRUE, started |-> started, notes |-> n]]
         /\ IF started THEN UNCHANGED queueVars ELSE QueueRun(Prep(m), 1)

TimeComes(m) ==
    /\ meeting[m].exists /\ ~meeting[m].started
    /\ meeting' = [meeting EXCEPT ![m].started = TRUE]
    /\ UNCHANGED queueVars

\* The time and the notes may be changed, whatever the debrief.
UpdateMeeting(m) ==
    /\ active /\ meeting[m].exists
    /\ \E started \in BOOLEAN, n \in 0..NoteBound :
         meeting' = [meeting EXCEPT ![m].started = started, ![m].notes = n]
    /\ UNCHANGED queueVars

Requestable == {"NONE", "FAILED", "REJECTED"}

QueuePreparation(m) ==
    /\ meeting[m].exists /\ ~meeting[m].started /\ status[Prep(m)] \in Requestable
    /\ QueueRun(Prep(m), 1)
    /\ UNCHANGED orbitVars

\* The request carries the notes, and replaces those of the meeting.
QueueDebrief(m, n) ==
    /\ meeting[m].started /\ status[Debrief(m)] \in Requestable
    /\ meeting' = [meeting EXCEPT ![m].notes = n]
    /\ QueueRun(Debrief(m), 1)

\* A failed briefing is tried again with the run it has.
RetryBriefing(b) == status[b] = "FAILED" /\ QueueRun(b, 0) /\ UNCHANGED orbitVars

ReviewBriefing(b, decision) == Settle(b, "READY", decision) /\ UNCHANGED orbitVars

\* A debrief is drafted from notes, once the meeting has started.
Draftable(b) == b[2] = "PREP" \/ (meeting[b[1]].started /\ meeting[b[1]].notes # 0)

ClaimBriefing(w, b) == Draftable(b) /\ Claim(w, b) /\ UNCHANGED orbitVars

OrbitNext ==
    \/ \E m \in Meetings :
         \/ CreateMeeting(m) \/ TimeComes(m) \/ UpdateMeeting(m) \/ QueuePreparation(m)
         \/ \E n \in 1..NoteBound : QueueDebrief(m, n)
    \/ \E b \in Briefings :
         \/ RetryBriefing(b)
         \/ \E decision \in {"REVIEWED", "REJECTED"} : ReviewBriefing(b, decision)
         \/ \E w \in Workers : ClaimBriefing(w, b)
    \/ QueueStep /\ UNCHANGED orbitVars

=============================================================================
