---------------------------- MODULE PipelineRuns ----------------------------
(***************************************************************************)
(* The automatic pipeline Atlas -> Sage -> Relay -> Echo on top of the     *)
(* agent engine.  startPipeline is three transactions of an API request;   *)
(* after a run of a pipeline the worker that executed it looks for the     *)
(* records it produced, enqueues the next agent for each, and recomputes   *)
(* the status of the pipeline; an error in the handoff fails the pipeline. *)
(*                                                                         *)
(* enqueue is the engine's own, whoever calls it: API requests and workers *)
(* are both Clients of it.  Database statements succeed or the process     *)
(* that issues them dies; what the code itself throws is modelled.         *)
(***************************************************************************)
EXTENDS AgentEngine

CONSTANTS Apis,         \* API requests, which may start, retry and dismiss
          Pipes,        \* PipelineRun rows
          NoPipe,       \* the pipeline of a run that was enqueued on its own
          PipeOf,       \* AgentRun.pipelineRunId
          BriefOf,      \* PipelineRun.discoveryBriefId
          ProcessesDie, \* API and worker processes may die at any point
          PromptStart   \* a started request ends before a model call returns

ASSUME PipelineAssumption ==
    /\ Clients = Apis \cup Workers
    /\ Apis \cap Workers = {}
    /\ NoPipe \notin Pipes
    /\ PipeOf \in [Runs -> Pipes \cup {NoPipe}]
    /\ ProcessesDie \in BOOLEAN
    /\ PromptStart \in BOOLEAN

VARIABLES pipe,      \* PipelineRun.status
          starting,  \* where an API request is in startPipeline
          todo,      \* records a worker still has to hand to the next agent
          verdict    \* the status a worker has computed but not yet written

pipeVars == <<pipe, starting, todo, verdict>>
allVars == <<vars, pipeVars>>

Live == {"QUEUED", "RUNNING"}

NotStarting == [step |-> "none"]

RunsOf(p) == {r \in Runs : PipeOf[r] = p /\ run[r] # "NONE"}

\* The partial unique index: one pipeline per brief is queued or running.
Competes(p) == \E q \in Pipes \ {p} : BriefOf[q] = BriefOf[p] /\ pipe[q] \in Live

PipeInit ==
    /\ Init
    /\ pipe = [p \in Pipes |-> "NONE"]
    /\ starting = [c \in Apis |-> NotStarting]
    /\ todo = [w \in Workers |-> {}]
    /\ verdict = [w \in Workers |-> "none"]

\* Mutant of FailPipeline: the jobs of the cancelled runs stay in the queue.
FailRunsOnly(p) ==
    /\ run' = [r \in Runs |-> IF PipeOf[r] = p /\ run[r] = "QUEUED" THEN "CANCELLED" ELSE run[r]]
    /\ pipe' = [pipe EXCEPT ![p] = "FAILED"]
    /\ UNCHANGED <<creditVars, job, outbox, attempts, expired, target, usageRows, seen>>

\* failPipeline cancels the queued runs of the pipeline, with their jobs and
\* outbox entries.  It touches neither reservations nor records.
FailPipeline(p) ==
    LET queued == {r \in RunsOf(p) : run[r] = "QUEUED"}
        Cancelled(status, r) ==
            IF r \in queued /\ status = "QUEUED" THEN "CANCELLED" ELSE status
    IN /\ run' = [r \in Runs |-> Cancelled(run[r], r)]
       /\ job' = [r \in Runs |-> Cancelled(job[r], r)]
       /\ outbox' = [r \in Runs |-> Cancelled(outbox[r], r)]
       /\ pipe' = [pipe EXCEPT ![p] = "FAILED"]
       /\ UNCHANGED <<creditVars, attempts, expired, target, usageRows, seen>>

-----------------------------------------------------------------------------
(***************************************************************************)
(* startPipeline.                                                          *)
(***************************************************************************)
Free(c) == c \in Apis /\ request[c] = Idle /\ starting[c] = NotStarting

\* The first transaction inserts the pipeline, unless one is live for the brief.
StartPipeline(c, p) ==
    /\ Free(c)
    /\ access = "ACTIVE"
    /\ pipe[p] = "NONE"
    /\ ~Competes(p)
    /\ pipe' = [pipe EXCEPT ![p] = "QUEUED"]
    /\ starting' = [starting EXCEPT ![c] = [step |-> "inserted", pipe |-> p]]
    /\ UNCHANGED <<vars, todo, verdict>>

Step(c, s) == starting' = [starting EXCEPT ![c].step = s]

\* The second is the enqueue of Atlas with its own checks.
StartEnqueues(c, r) ==
    /\ starting[c].step = "inserted"
    /\ PipeOf[r] = starting[c].pipe
    /\ AgentOf[TargetOf[r]] = "ATLAS"
    /\ pipe[PipeOf[r]] \in Live
    /\ EnqueueBegin(c, r)
    /\ UNCHANGED pipeVars

\* Atlas already works on the brief for someone else: that run is returned.
StartReuses(c) ==
    /\ starting[c].step = "inserted"
    /\ request[c] = Idle
    /\ access = "ACTIVE"
    /\ pipe[starting[c].pipe] \in Live
    /\ \E t \in Targets : /\ AgentOf[t] = "ATLAS"
                          /\ RecordOf[t] = BriefOf[starting[c].pipe]
                          /\ Eligible(t)
                          /\ ActiveOn(t) # {}
    /\ Step(c, "enqueued")
    /\ UNCHANGED <<vars, pipe, todo, verdict>>

StartThrows(c) ==
    /\ starting[c].step = "inserted"
    /\ RollBack(c)
    /\ Step(c, "failing")
    /\ UNCHANGED <<jobVars, workerVars, pipe, todo, verdict>>

\* The third sets RUNNING whatever the pipeline has become in between; only the
\* unique index can refuse it.
StartRuns(c) ==
    /\ starting[c].step = "enqueued"
    /\ IF Competes(starting[c].pipe)
       THEN Step(c, "failing") /\ UNCHANGED pipe
       ELSE /\ pipe' = [pipe EXCEPT ![starting[c].pipe] = "RUNNING"]
            /\ starting' = [starting EXCEPT ![c] = NotStarting]
    /\ UNCHANGED <<vars, todo, verdict>>

StartFails(c) ==
    /\ starting[c].step = "failing"
    /\ FailPipeline(starting[c].pipe)
    /\ starting' = [starting EXCEPT ![c] = NotStarting]
    /\ UNCHANGED <<doing, claim, request, todo, verdict>>

-----------------------------------------------------------------------------
(***************************************************************************)
(* Requests about single runs, and the commit both kinds of enqueue share. *)
(***************************************************************************)
EnqueueAlone(c, r) ==
    /\ Free(c)
    /\ PipeOf[r] = NoPipe
    /\ EnqueueBegin(c, r)
    /\ UNCHANGED pipeVars

Count(c) == CountToday(c) /\ UNCHANGED pipeVars

Commit(c) ==
    /\ EnqueueCommit(c)
    /\ IF c \in Workers
       THEN todo' = [todo EXCEPT ![c] = @ \ {request[c].run}] /\ UNCHANGED starting
       ELSE /\ IF starting[c] = NotStarting THEN UNCHANGED starting ELSE Step(c, "enqueued")
            /\ UNCHANGED todo
    /\ UNCHANGED <<pipe, verdict>>

RetryRead(c, r) ==
    /\ Free(c)
    /\ RetryBegin(c, r)
    /\ UNCHANGED pipeVars

\* A retry reopens the pipeline of its run unless a newer one is live.
RetryRun(c) ==
    /\ RetryCommit(c)
    /\ LET p == PipeOf[request[c].run]
       IN IF p = NoPipe
          THEN UNCHANGED pipe
          ELSE ~Competes(p) /\ pipe' = [pipe EXCEPT ![p] = "RUNNING"]
    /\ UNCHANGED <<starting, todo, verdict>>

RequestThrows(c) ==
    /\ c \in Apis
    /\ starting[c] = NotStarting
    /\ RequestFails(c)
    /\ UNCHANGED pipeVars

\* The API process dies between the transactions of startPipeline.
ApiDies(c) ==
    /\ ProcessesDie
    /\ starting[c] # NotStarting
    /\ RollBack(c)
    /\ starting' = [starting EXCEPT ![c] = NotStarting]
    /\ UNCHANGED <<jobVars, workerVars, pipe, todo, verdict>>

-----------------------------------------------------------------------------
(***************************************************************************)
(* Workers.                                                                *)
(***************************************************************************)
Work(w) == (Claim(w) \/ Beat(w) \/ SweepRead(w) \/ SweepWrite(w)) /\ UNCHANGED pipeVars

PipeOfClaim(w) == PipeOf[claim[w].run]

Starting(p) == \E c \in Apis : starting[c] # NotStarting /\ starting[c].pipe = p

SucceedInPipe(w) ==
    /\ doing[w] = "generating"
    /\ PromptStart => ~Starting(PipeOfClaim(w))
    /\ Complete(w, IF PipeOfClaim(w) = NoPipe THEN "idle" ELSE "advancing")
    /\ UNCHANGED pipeVars

\* Mutant of FailInPipe: a failed run does not refresh its pipeline.
FailUnreported(w) ==
    /\ doing[w] = "generating"
    /\ PromptStart => ~Starting(PipeOfClaim(w))
    /\ FailThen(w, "idle")
    /\ UNCHANGED pipeVars

FailInPipe(w) ==
    /\ doing[w] = "generating"
    /\ PromptStart => ~Starting(PipeOfClaim(w))
    /\ FailThen(w, IF PipeOfClaim(w) = NoPipe THEN "idle" ELSE "reporting")
    /\ UNCHANGED pipeVars

\* What the query of advancePipeline may return: records in a state the next
\* agent can start from.  Which of them the agent found, with what priority, is
\* up to its output.
Found(w) ==
    LET r == claim[w].run
        agent == AgentOf[TargetOf[r]]
        record == RecordOf[TargetOf[r]]
        Follows(t) ==
            CASE agent = "ATLAS" -> AgentOf[t] = "SAGE" /\ target[t] \in {"IDLE", "FAILED"}
              [] agent = "SAGE"  -> AgentOf[t] = "RELAY" /\ RecordOf[t] = record
                                    /\ target[t] = "IDLE" /\ target[TargetOf[r]] = "DONE"
              [] agent = "RELAY" -> AgentOf[t] = "ECHO" /\ target[t] \in {"IDLE", "FAILED"}
              [] OTHER -> FALSE
    IN {q \in Runs : PipeOf[q] = PipeOf[r] /\ Unused(q) /\ Follows(TargetOf[q])}

Advance(w) ==
    /\ doing[w] = "advancing"
    /\ todo' \in {[todo EXCEPT ![w] = S] : S \in SUBSET Found(w)}
    /\ doing' = [doing EXCEPT ![w] = "handing"]
    /\ UNCHANGED <<creditVars, jobVars, claim, seen, request, pipe, starting, verdict>>

HandBegins(w, r) ==
    /\ doing[w] = "handing"
    /\ r \in todo[w]
    /\ pipe[PipeOf[r]] \in Live
    /\ EnqueueBegin(w, r)
    /\ UNCHANGED pipeVars

HandReuses(w, r) ==
    /\ doing[w] = "handing"
    /\ r \in todo[w]
    /\ request[w] = Idle
    /\ access = "ACTIVE"
    /\ pipe[PipeOf[r]] \in Live
    /\ Eligible(TargetOf[r])
    /\ ActiveOn(TargetOf[r]) # {}
    /\ todo' = [todo EXCEPT ![w] = @ \ {r}]
    /\ UNCHANGED <<vars, pipe, starting, verdict>>

\* The enqueue of a record throws: access, the state of the pipeline or of the
\* record, or reserveResearchCredit.
Refused(w) ==
    IF request[w] = Idle
    THEN \/ access # "ACTIVE"
         \/ pipe[PipeOfClaim(w)] \notin Live
         \/ \E r \in todo[w] : ~Eligible(TargetOf[r])
    ELSE LET r == request[w].run
         IN snapshot[r] # NotCounted /\
               \/ snapshot[r] >= DailyLimit
               \/ access # "ACTIVE"
               \/ ~Unlimited /\ Spendable = {}

HandThrows(w) ==
    /\ doing[w] = "handing"
    /\ todo[w] # {}
    /\ Refused(w)
    /\ RollBack(w)
    /\ todo' = [todo EXCEPT ![w] = {}]
    /\ doing' = [doing EXCEPT ![w] = "failing"]
    /\ UNCHANGED <<jobVars, claim, seen, pipe, starting, verdict>>

HandsOver(w) ==
    /\ doing[w] = "handing"
    /\ todo[w] = {}
    /\ doing' = [doing EXCEPT ![w] = "refreshing"]
    /\ UNCHANGED <<creditVars, jobVars, claim, seen, request, pipeVars>>

\* Mutant of StatusOf: only running runs count as active.
StatusWithoutQueue(p) ==
    LET now == {run[r] : r \in RunsOf(p)}
    IN IF "RUNNING" \in now THEN "RUNNING"
       ELSE IF "FAILED" \in now THEN "PARTIAL"
       ELSE IF now # {} THEN "SUCCEEDED" ELSE "FAILED"

\* refreshPipelineStatus counts the runs, then writes what the counts mean.
StatusOf(p) ==
    LET now == {run[r] : r \in RunsOf(p)}
    IN IF now \cap Active # {} THEN "RUNNING"
       ELSE IF "FAILED" \in now THEN IF "SUCCEEDED" \in now THEN "PARTIAL" ELSE "FAILED"
       ELSE IF now # {} THEN "SUCCEEDED" ELSE "FAILED"

RefreshRead(w) ==
    /\ \/ doing[w] = "refreshing" /\ doing' = [doing EXCEPT ![w] = "writing"]
       \/ doing[w] = "reporting" /\ doing' = [doing EXCEPT ![w] = "closing"]
    /\ verdict' = [verdict EXCEPT ![w] = StatusOf(PipeOfClaim(w))]
    /\ UNCHANGED <<creditVars, jobVars, claim, seen, request, pipe, starting, todo>>

\* The unique index refuses to bring a pipeline back beside a live one: after a
\* success that fails the pipeline, after a failure it only ends the iteration.
RefreshWrite(w) ==
    LET p == PipeOfClaim(w)
        clash == verdict[w] = "RUNNING" /\ pipe[p] # "CANCELLED" /\ Competes(p)
    IN /\ doing[w] \in {"writing", "closing"}
       /\ pipe' = IF pipe[p] = "CANCELLED" \/ clash THEN pipe
                  ELSE [pipe EXCEPT ![p] = verdict[w]]
       /\ IF clash /\ doing[w] = "writing"
          THEN doing' = [doing EXCEPT ![w] = "failing"] /\ UNCHANGED claim
          ELSE TurnTo(w, "idle")
       /\ verdict' = [verdict EXCEPT ![w] = "none"]
       /\ UNCHANGED <<creditVars, jobVars, seen, request, starting, todo>>

HandoffFails(w) ==
    /\ doing[w] = "failing"
    /\ FailPipeline(PipeOfClaim(w))
    /\ TurnTo(w, "idle")
    /\ UNCHANGED <<request, starting, todo, verdict>>

WorkerDies(w) ==
    /\ ProcessesDie
    /\ Dies(w)
    /\ RollBack(w)
    /\ todo' = [todo EXCEPT ![w] = {}]
    /\ verdict' = [verdict EXCEPT ![w] = "none"]
    /\ UNCHANGED <<pipe, starting>>

-----------------------------------------------------------------------------
\* stopOrganisation cancels the live pipelines as well.
StopPipelines(d, late) ==
    /\ PromptStart => \A w \in late : ~Starting(PipeOfClaim(w))
    /\ StopOrganisation(d, late, {w \in late : PipeOfClaim(w) # NoPipe})
    /\ pipe' = [p \in Pipes |-> IF pipe[p] \in Live THEN "CANCELLED" ELSE pipe[p]]
    /\ UNCHANGED <<starting, todo, verdict>>

Others ==
    /\ \/ \E r \in Runs : Dismiss(r) \/ BeatExpires(r)
       \/ Surroundings
    /\ UNCHANGED pipeVars

PipeNext ==
    \/ \E c \in Apis : \/ \E p \in Pipes : StartPipeline(c, p)
                       \/ \E r \in Runs : \/ StartEnqueues(c, r)
                                          \/ EnqueueAlone(c, r) \/ RetryRead(c, r)
                       \/ StartReuses(c) \/ StartThrows(c) \/ StartRuns(c) \/ StartFails(c)
                       \/ RetryRun(c) \/ RequestThrows(c) \/ ApiDies(c)
    \/ \E c \in Clients : Count(c) \/ Commit(c)
    \/ \E w \in Workers : \/ Work(w) \/ SucceedInPipe(w) \/ FailInPipe(w)
                          \/ Advance(w) \/ HandThrows(w) \/ HandsOver(w)
                          \/ \E r \in Runs : HandBegins(w, r) \/ HandReuses(w, r)
                          \/ RefreshRead(w) \/ RefreshWrite(w) \/ HandoffFails(w)
                          \/ WorkerDies(w)
    \/ \E d \in Decisions : \E late \in SUBSET Overdue : StopPipelines(d, late)
    \/ Others

PipeSpec == PipeInit /\ [][PipeNext]_allVars

(***************************************************************************)
(* A process that lives finishes what it has begun: an API request its     *)
(* transactions, a worker the handoff and the refresh that follow a run.   *)
(***************************************************************************)
PipeFairness ==
    /\ \A c \in Apis :
          WF_allVars(\/ StartReuses(c) \/ StartThrows(c) \/ StartRuns(c) \/ StartFails(c))
    /\ \A w \in Workers :
          /\ WF_allVars(Claim(w) /\ UNCHANGED pipeVars)
          /\ WF_allVars(SucceedInPipe(w) \/ FailInPipe(w))
          /\ WF_allVars(\/ Advance(w) \/ Count(w) \/ Commit(w) \/ HandThrows(w) \/ HandsOver(w)
                        \/ \E r \in Runs : HandBegins(w, r) \/ HandReuses(w, r))
          /\ WF_allVars(RefreshRead(w) \/ RefreshWrite(w) \/ HandoffFails(w))

-----------------------------------------------------------------------------
(***************************************************************************)
(* Properties.                                                             *)
(***************************************************************************)

\* A pipeline that is over has no work left in the queue, and one that reports
\* success lost none of its runs on the way.  Where it failed over a handoff, nothing
\* begins that had not begun; a run whose process died is left to the sweep.
VerdictMatches ==
    \A p \in Pipes :
        /\ pipe[p] \in {"SUCCEEDED", "PARTIAL"} => \A r \in RunsOf(p) : run[r] \notin Active
        /\ pipe[p] = "SUCCEEDED" => \A r \in RunsOf(p) : run[r] \in {"SUCCEEDED", "CANCELLED"}
        /\ pipe[p] = "FAILED" => \A r \in RunsOf(p) : run[r] \in Active => attempts[r] > 0

\* The same at rest, when requests retried runs while a worker was computing the
\* status: the last refresh has the last word.
VerdictAtRest ==
    \A p \in Pipes :
        /\ RunsOf(p) # {}
        /\ \A r \in RunsOf(p) : run[r] \notin Active
        /\ \A w \in Workers : doing[w] = "idle"
        /\ ~Starting(p)
        => /\ pipe[p] \notin Live
           /\ pipe[p] = "SUCCEEDED" => \A r \in RunsOf(p) : run[r] # "FAILED"
           /\ pipe[p] = "PARTIAL" => \E r \in RunsOf(p) : run[r] = "SUCCEEDED"

\* A pipeline that is under way comes to an end.
PipelineSettles == \A p \in Pipes : pipe[p] = "RUNNING" ~> pipe[p] \notin Live

=============================================================================
