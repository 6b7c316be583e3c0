---------------------------- MODULE AgentEngine ----------------------------
(***************************************************************************)
(* The durable execution of agent runs: API requests that enqueue, retry   *)
(* and dismiss runs, worker processes that claim jobs, call the model and  *)
(* write the outcome, the sweep that recovers jobs whose heartbeat has     *)
(* expired, worker crashes, and the access decisions that stop an          *)
(* organisation while all of this is going on.                             *)
(*                                                                         *)
(* A step is one database transaction, cut where it reads without a lock   *)
(* what it acts on later: the tenant's own rows are read with plain        *)
(* SELECTs under READ COMMITTED, so an enqueue, a retry and a sweep each   *)
(* have a reading and a writing step.  Several workers exist whenever a    *)
(* deployment overlaps its predecessor.                                    *)
(***************************************************************************)
EXTENDS ResearchCredits

CONSTANTS Workers,            \* worker processes
          Clients,            \* API requests in flight at once
          Targets,            \* one per agent and record it works on
          AgentOf,            \* the agent of a target
          RecordOf,           \* the brief, company or contact of a target
          TargetOf,           \* the target of a run
          MaxAttempts,        \* AutomationJob.maxAttempts
          AttemptBound,       \* bound on manual retries: none from here on
          ReliableHeartbeat   \* a live worker's heartbeat never expires

ASSUME EngineAssumption ==
    /\ AgentOf \in [Targets -> {"ATLAS", "SAGE", "RELAY", "ECHO"}]
    /\ TargetOf \in [Runs -> Targets]
    /\ MaxAttempts \in Nat \ {0}
    /\ AttemptBound \in Nat
    /\ ReliableHeartbeat \in BOOLEAN

VARIABLES run,        \* AgentRun.status
          job,        \* AutomationJob.status
          attempts,   \* AutomationJob.attempts
          outbox,     \* JobOutbox.status
          expired,    \* heartbeatAt is older than the stale threshold
          target,     \* processing state of the brief, company or contact
          usageRows,  \* UsageLedger rows written for the run
          doing,      \* what each worker process is in the middle of
          claim,      \* the run a worker has claimed and the attempt it holds
          seen,       \* stale jobs a sweep has selected, with their attempts
          request     \* API request that has read but not yet written

jobVars == <<run, job, attempts, outbox, expired, target, usageRows>>
workerVars == <<doing, claim, seen>>
engineVars == <<jobVars, workerVars, request>>
vars == <<creditVars, engineVars>>

Active == {"QUEUED", "RUNNING"}

Idle == [op |-> "none"]
NoClaim == [attempt |-> 0]

Research(r) == AgentOf[TargetOf[r]] # "ECHO"

EngineTypeOK ==
    /\ run \in [Runs -> {"NONE", "QUEUED", "RUNNING", "SUCCEEDED", "FAILED", "CANCELLED"}]
    /\ job \in [Runs -> {"NONE", "QUEUED", "RUNNING", "SUCCEEDED", "DEAD_LETTER", "CANCELLED"}]
    /\ attempts \in [Runs -> Nat]
    /\ outbox \in [Runs -> {"NONE", "QUEUED", "DISPATCHED", "SUCCEEDED", "DEAD_LETTER", "CANCELLED"}]
    /\ expired \in [Runs -> BOOLEAN]
    /\ target \in [Targets -> {"IDLE", "BUSY", "DONE", "FAILED"}]
    /\ usageRows \in [Runs -> Nat]
    /\ doing \in [Workers -> {"idle", "generating", "sweeping"}]
    /\ claim \in [Workers -> [run : Runs, attempt : Nat] \cup {NoClaim}]
    /\ \A w \in Workers : doing[w] = "generating" => claim[w] # NoClaim
    /\ seen \in [Workers -> SUBSET (Runs \X Nat)]
    /\ request \in [Clients -> [op : {"enqueue", "retry"}, run : Runs] \cup {Idle}]

TypeOK == CreditTypeOK /\ EngineTypeOK

EngineInit ==
    /\ run = [r \in Runs |-> "NONE"]
    /\ job = [r \in Runs |-> "NONE"]
    /\ attempts = [r \in Runs |-> 0]
    /\ outbox = [r \in Runs |-> "NONE"]
    /\ expired = [r \in Runs |-> FALSE]
    /\ target = [t \in Targets |-> "IDLE"]
    /\ usageRows = [r \in Runs |-> 0]
    /\ doing = [w \in Workers |-> "idle"]
    /\ claim = [w \in Workers |-> NoClaim]
    /\ seen = [w \in Workers |-> {}]
    /\ request = [c \in Clients |-> Idle]

Init == CreditInit /\ EngineInit

-----------------------------------------------------------------------------
(***************************************************************************)
(* Requests.                                                               *)
(***************************************************************************)

\* Mutant of Eligible: contacts are looked for whatever is known of the company.
EligibleUnresearched(t) == target[t] # "BUSY" /\ (AgentOf[t] = "SAGE" => target[t] # "DONE")

\* assertDependency: Sage wants a company nobody researches or has researched,
\* Relay a researched company; any agent wants a target that is not in hand.
Eligible(t) ==
    /\ target[t] # "BUSY"
    /\ AgentOf[t] = "SAGE" => target[t] # "DONE"
    /\ AgentOf[t] = "RELAY" => \A u \in Targets :
          AgentOf[u] = "SAGE" /\ RecordOf[u] = RecordOf[t] => target[u] = "DONE"

\* The engine tries a job again by itself after n attempts.
AttemptsLeft(n) == n < MaxAttempts

Unused(r) == run[r] = "NONE" /\ \A c \in Clients : request[c] # Idle => request[c].run # r

ActiveOn(t) == {r \in Runs : TargetOf[r] = t /\ run[r] \in Active}

\* The checks of enqueue.  A run that is already active for the target is
\* returned and nothing is written.
EnqueueBegin(c, r) ==
    /\ request[c] = Idle
    /\ Unused(r)
    /\ access = "ACTIVE"
    /\ Eligible(TargetOf[r])
    /\ ActiveOn(TargetOf[r]) = {}
    /\ request' = [request EXCEPT ![c] = [op |-> "enqueue", run |-> r]]
    /\ UNCHANGED <<creditVars, jobVars, workerVars>>

\* Either request, inside reserveResearchCredit, counts the day's credits.
CountToday(c) ==
    /\ request[c] # Idle
    /\ Research(request[c].run)
    /\ BeginReserve(request[c].run)
    /\ UNCHANGED engineVars

\* The rows of the run, its job and its outbox entry, with markQueuedState.
InsertRun(r) ==
    /\ IF Research(r) THEN Reserve(r) ELSE UNCHANGED creditVars
    /\ run' = [run EXCEPT ![r] = "QUEUED"]
    /\ job' = [job EXCEPT ![r] = "QUEUED"]
    /\ outbox' = [outbox EXCEPT ![r] = "QUEUED"]
    /\ target' = [target EXCEPT ![TargetOf[r]] = "BUSY"]
    /\ UNCHANGED <<attempts, expired, usageRows>>

EnqueueCommit(c) ==
    /\ request[c].op = "enqueue"
    /\ InsertRun(request[c].run)
    /\ request' = [request EXCEPT ![c] = Idle]
    /\ UNCHANGED workerVars

\* Mutant of RetryBegin: any run may be retried.
RetryAnything(c, r) ==
    /\ request[c] = Idle
    /\ run[r] # "NONE"
    /\ attempts[r] < AttemptBound
    /\ access = "ACTIVE"
    /\ request' = [request EXCEPT ![c] = [op |-> "retry", run |-> r]]
    /\ UNCHANGED <<creditVars, jobVars, workerVars>>

\* retryRun reads the run's status without a lock.
RetryBegin(c, r) ==
    /\ request[c] = Idle
    /\ run[r] = "FAILED"
    /\ attempts[r] < AttemptBound
    /\ access = "ACTIVE"
    /\ request' = [request EXCEPT ![c] = [op |-> "retry", run |-> r]]
    /\ UNCHANGED <<creditVars, jobVars, workerVars>>

\* Mutant of ReserveAgain: the retry runs on the refunded reservation.
ReserveNothing(r) == r \in Runs /\ UNCHANGED creditVars

\* A retry needs a new credit unless it still holds, or has consumed, one.
ReserveAgain(r) ==
    IF Research(r) /\ reservation[r] \notin Charging THEN Reserve(r) ELSE UNCHANGED creditVars

\* Its writes do not look at the status again, and leave attempts as it is.
RetryCommit(c) ==
    /\ request[c].op = "retry"
    /\ LET r == request[c].run
       IN /\ ReserveAgain(r)
          /\ run' = [run EXCEPT ![r] = "QUEUED"]
          /\ job' = [job EXCEPT ![r] = "QUEUED"]
          /\ outbox' = [outbox EXCEPT ![r] = "QUEUED"]
    /\ request' = [request EXCEPT ![c] = Idle]
    /\ UNCHANGED <<attempts, expired, target, usageRows, workerVars>>

\* An open transaction is rolled back.
RollBack(c) ==
    /\ IF request[c] # Idle
       THEN IF snapshot[request[c].run] # NotCounted
            THEN AbandonReserve(request[c].run)
            ELSE UNCHANGED creditVars
       ELSE UNCHANGED creditVars
    /\ request' = [request EXCEPT ![c] = Idle]

\* The request throws, or its connection is lost, before it has written.
RequestFails(c) ==
    /\ request[c] # Idle
    /\ RollBack(c)
    /\ UNCHANGED <<jobVars, workerVars>>

\* resolveFailedRun: every UPDATE repeats the status it relies on.
Dismiss(r) ==
    /\ run[r] = "FAILED"
    /\ run' = [run EXCEPT ![r] = "CANCELLED"]
    /\ job' = [job EXCEPT ![r] = IF @ = "DEAD_LETTER" THEN "CANCELLED" ELSE @]
    /\ outbox' = [outbox EXCEPT ![r] = IF @ = "DEAD_LETTER" THEN "CANCELLED" ELSE @]
    /\ UNCHANGED <<creditVars, attempts, expired, target, usageRows, workerVars, request>>

-----------------------------------------------------------------------------
(***************************************************************************)
(* Workers.                                                                *)
(***************************************************************************)

\* Mutant of NextAttempt: the claim does not count.
SameAttempt(r) == attempts[r]

NextAttempt(r) == attempts[r] + 1

\* claimNextJob.  Which queued job is the oldest due one depends on the retry
\* delays, so any of them may be.
Claim(w) ==
    /\ doing[w] = "idle"
    /\ \E r \in Runs :
          /\ job[r] = "QUEUED"
          /\ job' = [job EXCEPT ![r] = "RUNNING"]
          /\ run' = [run EXCEPT ![r] = "RUNNING"]
          /\ attempts' = [attempts EXCEPT ![r] = NextAttempt(r)]
          /\ outbox' = [outbox EXCEPT ![r] = "DISPATCHED"]
          /\ expired' = [expired EXCEPT ![r] = FALSE]
          /\ claim' = [claim EXCEPT ![w] = [run |-> r, attempt |-> NextAttempt(r)]]
    /\ doing' = [doing EXCEPT ![w] = "generating"]
    /\ UNCHANGED <<creditVars, target, usageRows, seen, request>>

\* What the worker turns to next; it forgets the job once it is done with it.
TurnTo(w, after) ==
    /\ doing' = [doing EXCEPT ![w] = after]
    /\ claim' = IF after = "idle" THEN [claim EXCEPT ![w] = NoClaim] ELSE claim

Generating(w, r) == doing[w] = "generating" /\ claim[w].run = r

\* The ten-second heartbeat only touches a job that is RUNNING, whoever runs it.
Beat(w) ==
    /\ doing[w] = "generating"
    /\ job[claim[w].run] = "RUNNING"
    /\ expired' = [expired EXCEPT ![claim[w].run] = FALSE]
    /\ UNCHANGED <<creditVars, run, job, attempts, outbox, target, usageRows,
                   workerVars, request>>

\* No heartbeat reached the database for AGENT_STALE_AFTER_MINUTES.  Failed
\* heartbeats are swallowed, so a live worker's can expire too.
BeatExpires(r) ==
    /\ job[r] = "RUNNING"
    /\ ~expired[r]
    /\ ReliableHeartbeat => \A w \in Workers : ~Generating(w, r)
    /\ expired' = [expired EXCEPT ![r] = TRUE]
    /\ UNCHANGED <<creditVars, run, job, attempts, outbox, target, usageRows,
                   workerVars, request>>

\* applySage also restarts the company's contact discovery.
Restarts(t) ==
    {u \in Targets : AgentOf[t] = "SAGE" /\ AgentOf[u] = "RELAY" /\ RecordOf[u] = RecordOf[t]}

\* The success transaction of processClaimedJob.  Apart from the access check it
\* asks nothing about the job it claimed; what the worker does next is "after".
Complete(w, after) ==
    /\ doing[w] = "generating"
    /\ access = "ACTIVE"
    /\ LET r == claim[w].run
       IN /\ IF Research(r) THEN Consume(r) ELSE UNCHANGED creditVars
          /\ run' = [run EXCEPT ![r] = "SUCCEEDED"]
          /\ job' = [job EXCEPT ![r] = "SUCCEEDED"]
          /\ outbox' = [outbox EXCEPT ![r] = "SUCCEEDED"]
          /\ expired' = [expired EXCEPT ![r] = FALSE]
          /\ usageRows' = [usageRows EXCEPT ![r] = @ + 1]
          /\ target' = [t \in Targets |->
                IF t = TargetOf[r] THEN "DONE"
                ELSE IF t \in Restarts(TargetOf[r]) THEN "IDLE" ELSE target[t]]
    /\ TurnTo(w, after)
    /\ UNCHANGED <<attempts, seen, request>>

Succeed(w) == Complete(w, "idle")

\* Mutant of RetryLater: the job is scheduled again, the run is forgotten.
RetryJobOnly(r) ==
    /\ job' = [job EXCEPT ![r] = "QUEUED"]
    /\ outbox' = [outbox EXCEPT ![r] = "QUEUED"]
    /\ UNCHANGED <<creditVars, run>>

RetryLater(r) ==
    /\ run' = [run EXCEPT ![r] = "QUEUED"]
    /\ job' = [job EXCEPT ![r] = "QUEUED"]
    /\ outbox' = [outbox EXCEPT ![r] = "QUEUED"]
    /\ UNCHANGED creditVars

Ended(r) ==
    /\ run' = [run EXCEPT ![r] = "FAILED"]
    /\ job' = [job EXCEPT ![r] = "DEAD_LETTER"]
    /\ outbox' = [outbox EXCEPT ![r] = "DEAD_LETTER"]

\* Mutant of GiveUp: the final failure keeps the credit.
GiveUpKeepsCredit(r) == Ended(r) /\ UNCHANGED creditVars

\* Mutant of GiveUp: the final failure is charged like a success.
GiveUpCharges(r) == Ended(r) /\ (IF Research(r) THEN Consume(r) ELSE UNCHANGED creditVars)

\* Mutant of GiveUp: the reservation is refunded, its bucket and counter are not.
GiveUpForgetsBucket(r) ==
    /\ Ended(r)
    /\ reservation' = [reservation EXCEPT ![r] = IF @ = "RESERVED" THEN "REFUNDED" ELSE @]
    /\ UNCHANGED <<access, window, reserved, used, granted, creditsUsed, allocation,
                   today, snapshot>>

GiveUp(r) == Ended(r) /\ (IF Research(r) THEN Refund({r}) ELSE UNCHANGED creditVars)

\* The failure transaction: the model call, the quality gate, applyOutput or the
\* access check threw.  The attempt that decides is the one the worker holds.
FailThen(w, after) ==
    /\ doing[w] = "generating"
    /\ LET r == claim[w].run
       IN /\ \/ AttemptsLeft(claim[w].attempt) /\ RetryLater(r)
             \/ ~AttemptsLeft(claim[w].attempt) /\ GiveUp(r)
          /\ expired' = [expired EXCEPT ![r] = FALSE]
          /\ target' = [target EXCEPT ![TargetOf[r]] = "FAILED"]
    /\ TurnTo(w, after)
    /\ UNCHANGED <<attempts, usageRows, seen, request>>

Fail(w) == FailThen(w, "idle")

\* recoverStaleJobs selects the stale jobs, then updates them one by one.
SweepRead(w) ==
    /\ doing[w] = "idle"
    /\ LET stale == {r \in Runs : job[r] = "RUNNING" /\ expired[r]}
       IN /\ stale # {}
          /\ seen' = [seen EXCEPT ![w] = {<<r, attempts[r]>> : r \in stale}]
    /\ doing' = [doing EXCEPT ![w] = "sweeping"]
    /\ UNCHANGED <<creditVars, jobVars, claim, request>>

Requeued(w) == {s[1] : s \in {x \in seen[w] : AttemptsLeft(x[2])}}

Exhausted(w) == {s[1] : s \in {x \in seen[w] : ~AttemptsLeft(x[2])}}

\* The job and run updates repeat the RUNNING status, not the expired heartbeat.
Swept(w, status, r, final) ==
    IF status # "RUNNING" THEN status
    ELSE IF r \in Requeued(w) THEN "QUEUED"
    ELSE IF r \in Exhausted(w) THEN final ELSE status

\* The outbox, the target and the refund follow what was selected.
SweepWrite(w) ==
    /\ doing[w] = "sweeping"
    /\ job' = [r \in Runs |-> Swept(w, job[r], r, "DEAD_LETTER")]
    /\ run' = [r \in Runs |-> Swept(w, run[r], r, "FAILED")]
    /\ outbox' = [r \in Runs |->
          IF r \in Requeued(w) THEN "QUEUED"
          ELSE IF r \in Exhausted(w) THEN "DEAD_LETTER" ELSE outbox[r]]
    /\ expired' = [r \in Runs |-> expired[r] /\ r \notin Requeued(w) \cup Exhausted(w)]
    /\ target' = [t \in Targets |->
          IF \E r \in Exhausted(w) : TargetOf[r] = t THEN "FAILED" ELSE target[t]]
    /\ Refund({r \in Exhausted(w) : Research(r)})
    /\ doing' = [doing EXCEPT ![w] = "idle"]
    /\ seen' = [seen EXCEPT ![w] = {}]
    /\ UNCHANGED <<attempts, usageRows, claim, request>>

\* The process dies; what it had not committed is lost and it starts again.
Dies(w) ==
    /\ doing[w] # "idle"
    /\ TurnTo(w, "idle")
    /\ seen' = [seen EXCEPT ![w] = {}]
    /\ UNCHANGED jobVars

Crash(w) == Dies(w) /\ UNCHANGED <<creditVars, request>>

-----------------------------------------------------------------------------
(***************************************************************************)
(* Everyone else.                                                          *)
(***************************************************************************)

\* Workers that come back to a run that is over and would give it back.
Overdue ==
    {w \in Workers : /\ doing[w] = "generating"
                     /\ run[claim[w].run] \notin Active
                     /\ AttemptsLeft(claim[w].attempt)}

\* The second and third UPDATE, on the rows as they are by then.
CancelJobs(back) ==
    /\ job' = [r \in Runs |-> IF r \in back \/ job[r] \in Active THEN "CANCELLED" ELSE job[r]]
    /\ outbox' = [r \in Runs |->
          IF r \in back \/ outbox[r] \in {"QUEUED", "DISPATCHED"} THEN "CANCELLED" ELSE outbox[r]]

\* Runs, jobs and outbox are updated by three statements of one transaction.  It has
\* locked the organisation's row, which whoever inserts a row of the tenant or
\* succeeds has to share, and then the rows of the active runs.  What can still
\* commit between the statements on runs and on jobs is the failure of a worker whose
\* run was over by then ("late"), which gives the run back and loses its job to the
\* second statement; of these workers "kept" have more to do for the run.
StopOrganisation(d, late, kept) ==
    /\ late \subseteq Overdue
    /\ Stop(d)
    /\ LET back == {claim[w].run : w \in late}
       IN /\ run' = [r \in Runs |->
                IF r \in back THEN "QUEUED" ELSE IF run[r] \in Active THEN "CANCELLED" ELSE run[r]]
          /\ CancelJobs(back)
          /\ expired' = [r \in Runs |-> expired[r] /\ r \notin back]
          /\ target' = [t \in Targets |->
                IF \E r \in back : TargetOf[r] = t THEN "FAILED" ELSE target[t]]
    /\ doing' = [w \in Workers |->
          IF w \in kept THEN "reporting" ELSE IF w \in late THEN "idle" ELSE doing[w]]
    /\ claim' = [w \in Workers |-> IF w \in late \ kept THEN NoClaim ELSE claim[w]]
    /\ UNCHANGED <<attempts, usageRows, seen, request>>

Surroundings ==
    /\ \/ Approve
       \/ \E b \in Buckets : Fulfil(b) \/ WindowMoves(b)
       \/ \E r \in Runs : DayPasses(r)
    /\ UNCHANGED engineVars

Next ==
    \/ \E c \in Clients : \E r \in Runs : EnqueueBegin(c, r) \/ RetryBegin(c, r)
    \/ \E c \in Clients : CountToday(c) \/ EnqueueCommit(c) \/ RetryCommit(c) \/ RequestFails(c)
    \/ \E r \in Runs : Dismiss(r) \/ BeatExpires(r)
    \/ \E w \in Workers : \/ Claim(w) \/ Beat(w) \/ Succeed(w) \/ Fail(w)
                          \/ SweepRead(w) \/ SweepWrite(w) \/ Crash(w)
    \/ \E d \in Decisions : \E late \in SUBSET Overdue : StopOrganisation(d, late, {})
    \/ Surroundings

Spec == Init /\ [][Next]_vars

(***************************************************************************)
(* A worker that runs finishes its model call (the provider request has a  *)
(* timeout), keeps polling, and is not killed in the middle of every       *)
(* single sweep; a heartbeat nobody renews expires.  Requests, decisions   *)
(* and crashes are not required to happen.                                 *)
(***************************************************************************)
WorkerFairness ==
    /\ \A w \in Workers : /\ WF_vars(Claim(w))
                          /\ WF_vars(Succeed(w) \/ Fail(w))
                          /\ WF_vars(SweepRead(w))
                          /\ SF_vars(SweepWrite(w))
    /\ \A r \in Runs : WF_vars(BeatExpires(r))

FairSpec == Spec /\ WorkerFairness

-----------------------------------------------------------------------------
(***************************************************************************)
(* Properties under every fault: overlapping workers, heartbeats that      *)
(* expire under a live worker, crashes, concurrent requests, suspensions.  *)
(***************************************************************************)
AgreeingJob(status) == IF status = "FAILED" THEN "DEAD_LETTER" ELSE status

\* The run waits in the queue, and no job of it does.
Stranded(r) == run[r] = "QUEUED" /\ job[r] = "CANCELLED"

\* A run and its job tell different stories in one way only: the engine, the sweep,
\* the requests and the platform console each update the two tables separately and
\* with different guards, and the cockpit shows one while workers claim the other.
RunJobAgree == \A r \in Runs : job[r] = AgreeingJob(run[r]) \/ Stranded(r)

\* The organisation is stopped while a late worker gives the run back.
StopOvertaken(r) ==
    access' # "ACTIVE" /\ \E w \in Overdue : claim[w].run = r /\ doing'[w] # "generating"

\* And a run is stranded only by a stop that the failure of a late worker overtook.
OnlyStopsStrand == [][\A r \in Runs : Stranded(r)' => Stranded(r) \/ StopOvertaken(r)]_vars

\* No credit stays reserved for a run that is over: whatever ended it consumed
\* the reservation or refunded it, so the bucket's balance comes back.
NoOrphanHold == \A r \in Runs : reservation[r] = "RESERVED" => run[r] \in Active

\* A result of the target was stored at some time.
Delivered(t) == \E r \in Runs : TargetOf[r] = t /\ usageRows[r] > 0

\* The research of the company that contacts are looked for at has delivered.
Researched(t) ==
    \A u \in Targets : AgentOf[u] = "SAGE" /\ RecordOf[u] = RecordOf[t] => Delivered(u)

\* The fixed order of the agents: nobody looks for contacts of a company whose research
\* never delivered.  The check is made once, by the request; the state it reads is
\* overwritten by later attempts, and retries and sweeps bring runs back without it.
RelayAfterSage ==
    \A r \in Runs : AgentOf[TargetOf[r]] = "RELAY" /\ run[r] \in Active => Researched(TargetOf[r])

\* A consumed credit always bought a stored result.
ChargeImpliesResult == \A r \in Runs : reservation[r] = "CONSUMED" => usageRows[r] > 0

(***************************************************************************)
(* Properties of one worker whose heartbeats arrive, one request at a      *)
(* time and an organisation that is not stopped; the worker may crash.     *)
(***************************************************************************)

\* The worker that is generating a run is the one the run belongs to: a crash,
\* a sweep and a retry in between never leave two generations of one run.
SoleOwner ==
    \A w \in Workers : \A r \in Runs :
        Generating(w, r) => run[r] = "RUNNING" /\ attempts[r] = claim[w].attempt

\* Credits follow the run: held while it is active, consumed exactly by its
\* success, given back by its final failure and again reserved by its retry.
CreditFollowsRun ==
    \A r \in Runs : Research(r) =>
        /\ run[r] \in Active => reservation[r] = "RESERVED"
        /\ run[r] = "SUCCEEDED" <=> reservation[r] = "CONSUMED"
        /\ run[r] = "FAILED" => reservation[r] = "REFUNDED"

\* A run's result is applied to its record, and metered, at most once, and is
\* never taken back.
AppliedOnce == \A r \in Runs : usageRows[r] = (IF run[r] = "SUCCEEDED" THEN 1 ELSE 0)

\* Every run that was accepted reaches an end, although its worker may crash at
\* any point of it: the sweep gives it back until its attempts are used up.
EveryRunSettles == \A r \in Runs : run[r] \in Active ~> run[r] \notin Active

=============================================================================
