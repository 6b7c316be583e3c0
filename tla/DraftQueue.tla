----------------------------- MODULE DraftQueue -----------------------------
(***************************************************************************)
(* The queue behind Forge and Orbit: a draft and the AgentRun that makes   *)
(* it, the worker processes that claim, finish, fail and recover them      *)
(* (worker forge.ts and orbit.ts, two copies of one protocol), and the     *)
(* stop of an organisation, which ends the runs but not the drafts.        *)
(*                                                                         *)
(* A transaction is one step.  Left out: the runs a draft has replaced     *)
(* (nothing reads them again), the text and its safety checks (a refused   *)
(* text is a failure), usage and audit rows.                               *)
(***************************************************************************)
EXTENDS Naturals, FiniteSets

CONSTANTS
    Drafts, Workers, Idle,
    RetryLimit,     \* three in the code
    AskBound,       \* bound: how often people ask for one draft
    TroubleBound,   \* bound: workers that die or are taken for dead while they work
    StopBound       \* bound: stops of the organisation

VARIABLES
    status,   \* of the draft
    run,      \* its current AgentRun: number, status, retryCount
    job,      \* what a worker process holds in memory: the draft and the number of its run
    active,   \* the organisation's access and entitlement are active
    asked, troubles, stops   \* bounds, and a history for DraftPolicy

queueVars == <<status, run, job, active, asked, troubles, stops>>

QueueInit ==
    /\ status = [d \in Drafts |-> "NONE"]
    /\ run = [d \in Drafts |-> [no |-> 0, status |-> "NONE", retryCount |-> 0]]
    /\ job = [w \in Workers |-> Idle]
    /\ active = TRUE
    /\ asked = [d \in Drafts |-> 0]
    /\ troubles = 0 /\ stops = 0

Working == {"QUEUED", "PROCESSING"}
Unfinished == {"QUEUED", "RUNNING"}

\* A request for a draft, with a new run (no = 1) or the one it has (no = 0).
QueueRun(d, no) ==
    /\ active /\ asked[d] < AskBound
    /\ asked' = [asked EXCEPT ![d] = @ + 1]
    /\ status' = [status EXCEPT ![d] = "QUEUED"]
    /\ run' = [run EXCEPT ![d] = [no |-> @.no + no, status |-> "QUEUED", retryCount |-> 0]]
    /\ UNCHANGED <<job, active, troubles, stops>>

\* A decision on a draft.
Settle(d, from, to) ==
    /\ active /\ status[d] = from
    /\ status' = [status EXCEPT ![d] = to]
    /\ UNCHANGED <<run, job, active, asked, troubles, stops>>

Claim(w, d) ==
    /\ active /\ job[w] = Idle /\ status[d] = "QUEUED" /\ run[d].status = "QUEUED"
    /\ status' = [status EXCEPT ![d] = "PROCESSING"]
    /\ run' = [run EXCEPT ![d].status = "RUNNING"]
    /\ job' = [job EXCEPT ![w] = [draft |-> d, no |-> run[d].no]]
    /\ UNCHANGED <<active, asked, troubles, stops>>

\* Mutant of Current: the run is compared, the status of the draft is not.
OfThisRun(j) == run[j.draft].no = j.no

\* A worker's result counts while the draft is being processed for the run it claimed.
Current(j) == run[j.draft].no = j.no /\ status[j.draft] = "PROCESSING"

Succeed(w) ==
    LET j == job[w] IN
    /\ j # Idle /\ active /\ Current(j)
    /\ status' = [status EXCEPT ![j.draft] = "READY"]
    /\ run' = [run EXCEPT ![j.draft].status = "SUCCEEDED"]
    /\ job' = [job EXCEPT ![w] = Idle]
    /\ UNCHANGED <<active, asked, troubles, stops>>

\* An attempt at a run that is still open is counted; for any other run the limit is taken as reached.
Open(j) == run[j.draft].no = j.no /\ run[j.draft].status \in Unfinished
Count(j) == IF Open(j) THEN run[j.draft].retryCount + 1 ELSE RetryLimit
RunAfter(j) == IF Count(j) >= RetryLimit THEN "FAILED" ELSE "QUEUED"

\* The model failed or its result is refused.
Fail(w) ==
    LET j == job[w] IN
    /\ j # Idle
    /\ run' = IF Open(j) THEN [run EXCEPT ![j.draft].status = RunAfter(j), ![j.draft].retryCount = Count(j)] ELSE run
    /\ status' = IF Current(j) THEN [status EXCEPT ![j.draft] = RunAfter(j)] ELSE status
    /\ job' = [job EXCEPT ![w] = Idle]
    /\ UNCHANGED <<active, asked, troubles, stops>>

Trouble == troubles < TroubleBound /\ troubles' = troubles + 1

WorkerDies(w) ==
    /\ job[w] # Idle /\ Trouble
    /\ job' = [job EXCEPT ![w] = Idle]
    /\ UNCHANGED <<status, run, active, asked, stops>>

\* Mutant of Requeued: the run is left as it was.
DraftRequeued(d) == run[d]

Requeued(d) == IF run[d].status = "RUNNING" THEN [run[d] EXCEPT !.status = "QUEUED"] ELSE run[d]

Held(d) == \E w \in Workers : job[w] # Idle /\ job[w].draft = d

\* A draft that has been processed for ten minutes is queued again; its worker may still be at it.
RecoverStale(d) ==
    /\ status[d] = "PROCESSING"
    /\ IF Held(d) THEN Trouble ELSE UNCHANGED troubles
    /\ status' = [status EXCEPT ![d] = "QUEUED"]
    /\ run' = [run EXCEPT ![d] = Requeued(d)]
    /\ UNCHANGED <<job, active, asked, stops>>

\* The runs are cancelled; the drafts keep their status.
StopOrganisation ==
    /\ active /\ active' = FALSE
    /\ stops < StopBound /\ stops' = stops + 1
    /\ run' = [d \in Drafts |->
                  IF run[d].status \in Unfinished THEN [run[d] EXCEPT !.status = "CANCELLED"] ELSE run[d]]
    /\ UNCHANGED <<status, job, asked, troubles>>

ResumeOrganisation ==
    /\ ~active /\ active' = TRUE
    /\ UNCHANGED <<status, run, job, asked, troubles, stops>>

WorkerStep(w) == Succeed(w) \/ Fail(w) \/ WorkerDies(w)
QueueStep ==
    \/ \E w \in Workers : WorkerStep(w)
    \/ \E d \in Drafts : RecoverStale(d)
    \/ StopOrganisation \/ ResumeOrganisation

-----------------------------------------------------------------------------
\* A draft of which the run is over before the draft is: a stop cancelled it, or a worker that was
\* taken for dead has counted the last attempt.
Stranded(d) == run[d].status \in {"CANCELLED", "FAILED"}

=============================================================================
