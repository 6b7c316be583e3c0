---------------------------- MODULE Automation ----------------------------
(***************************************************************************)
(* The automation cockpit of one workspace.  A pass of the worker, or a    *)
(* person's "run now" (packages/engine/src/automation.ts), looks for deals, *)
(* data, integrations, contracts and deliveries that need attention, for a *)
(* failed agent run and for a discovery that is due.  The policy says      *)
(* whether it acts or asks; what it asks people decide                     *)
(* (apps/api/src/automation/automation.service.ts).                        *)
(*                                                                         *)
(* The transaction of a pass holds the policy's row; the retry and the     *)
(* pipeline it stages start after it, in transactions of their own.  A     *)
(* decision is read without a lock, marked, executed and finished: the     *)
(* steps of two people interleave, and a process may die between them.     *)
(*                                                                         *)
(* Left out: the clock (quiet hours and due hours are choices), the sums a *)
(* budget compares, the six detections (an issue is its automation key,    *)
(* and a detection reads all there are, not the first forty), the weekly   *)
(* brief and the events.  The statuses a pass gives to deliveries are      *)
(* Delivery's; the engine's own races are AgentEngine's.                   *)
(***************************************************************************)
EXTENDS Naturals, FiniteSets

CONSTANTS
    Issues,         \* automation keys of what a pass can detect
    Deciders,       \* requests of people in flight at once
    Hours,          \* discoveryBucket: how many scheduled discoveries are told apart
    RetryCap,       \* retryCount from which a run is no longer taken up (3 in the code)
    PolicyBound, DeathBound, IssueBound, AskedBound  \* bounds on what people and the world do

ASSUME AutomationConstants ==
    /\ {Hours, RetryCap} \subseteq Nat \ {0}
    /\ {PolicyBound, DeathBound, IssueBound, AskedBound} \subseteq Nat

VARIABLES
    policy,         \* AutomationControlPolicy
    openIssues,     \* what needs attention
    tasks,          \* Task.automationKey
    decision,       \* AutomationDecision.status by idempotency key
    failing,        \* an agent run: status and retryCount
    chain,          \* a pipeline of the active brief is QUEUED or RUNNING
    hour,           \* the bucket of the discovery's schedule
    staged,         \* what each pass has yet to start
    deciding,       \* what each person's request is in the middle of
    carried,        \* history: the decisions that were carried out
    spent           \* counters of the bounds

passVars == <<policy, staged>>
worldVars == <<openIssues, failing, chain, hour>>
decisionVars == <<tasks, decision, deciding, carried>>
automationVars == <<passVars, worldVars, decisionVars, spent>>

Modes == {"GUIDED", "ASSISTED", "CONTROLLED"}
TaskKeys == {<<"issue", i>> : i \in Issues}
RetryKeys == {<<"retry", c>> : c \in 0 .. RetryCap - 1}
StartKeys == {<<"discovery", h>> : h \in 1 .. Hours}
DecisionKeys == TaskKeys \cup RetryKeys \cup StartKeys
Nothing == [retry |-> FALSE, start |-> FALSE]
Free == [at |-> "FREE"]

Spend(b) == spent[b] > 0 /\ spent' = [spent EXCEPT ![b] = @ - 1]

AutomationInit ==
    /\ policy = [mode |-> "GUIDED", pause |-> "NO",
                 tasks |-> TRUE, retries |-> TRUE, discovery |-> FALSE]
    /\ openIssues = {} /\ tasks = {}
    /\ decision = [k \in DecisionKeys |-> "NONE"]
    /\ failing = [status |-> "RUNNING", retryCount |-> 0]
    /\ chain = FALSE /\ hour = 1
    /\ staged = [p \in {"worker", "person"} |-> Nothing]
    /\ deciding = [p \in Deciders |-> Free]
    /\ carried = {}
    /\ spent = [policy |-> PolicyBound, death |-> DeathBound,
                issue |-> IssueBound, asked |-> AskedBound]

-----------------------------------------------------------------------------
(* The pass.                                                               *)

\* suggestOrCreateTask: an internal task, or the question whether to make one.
TasksByItself == policy.mode # "GUIDED" /\ policy.tasks
OpenKeys == {<<"issue", i>> : i \in openIssues}
Suggested == IF TasksByItself THEN {} ELSE OpenKeys

AskedAtEachCount == policy.retries /\ failing.status = "FAILED" /\ failing.retryCount < RetryCap
\* A failed run no person has been asked about, or whose question came to nothing.
RetryCandidate ==
    /\ policy.retries /\ failing.status = "FAILED" /\ failing.retryCount < RetryCap
    /\ \A k \in RetryKeys : decision[k] \notin {"PENDING", "APPROVED", "EXECUTED"}

\* A pass ends a pause that is over.
AsPaused == policy
Resumed == [policy EXCEPT !.pause = IF @ = "DUE" THEN "NO" ELSE @]

\* affordable: the budgets leave room and there is an owner to act for.
Reconcile(p, affordable, due) ==
    LET acts == policy.mode = "CONTROLLED" /\ affordable
        startDue == policy.discovery /\ due /\ ~chain
        asked == Suggested
                 \cup (IF RetryCandidate /\ ~acts THEN {<<"retry", failing.retryCount>>} ELSE {})
                 \cup (IF startDue /\ ~acts THEN {<<"discovery", hour>>} ELSE {})
    IN /\ tasks' = tasks \cup (IF TasksByItself THEN OpenKeys ELSE {})
       /\ decision' = [k \in DecisionKeys |->
                         IF k \in asked /\ decision[k] = "NONE" THEN "PENDING" ELSE decision[k]]
       /\ staged' = [staged EXCEPT ![p] =
                        [retry |-> acts /\ RetryCandidate, start |-> acts /\ startDue]]

\* Budgets bind what CONTROLLED starts by itself, and only there are they a choice.
Pass(p, affordable, due) ==
    /\ staged[p] = Nothing
    /\ affordable => policy.mode = "CONTROLLED"
    /\ due => policy.discovery
    /\ policy' = Resumed
    /\ IF Resumed.pause = "NO"
       THEN Reconcile(p, affordable, due)
       ELSE UNCHANGED <<tasks, decision, staged>>
    /\ UNCHANGED <<worldVars, deciding, carried, spent>>

\* A pause that is over ends with the next pass of the worker, in quiet hours too, and when
\* the cockpit is opened.
Resume ==
    /\ policy.pause = "DUE"
    /\ policy' = Resumed
    /\ UNCHANGED <<staged, worldVars, decisionVars, spent>>

\* AgentEngine.retryRun and startPipeline; either may refuse, for want of credit or of access.
CanRequeue == failing.status = "FAILED"
Requeue == failing' = [status |-> "QUEUED", retryCount |-> failing.retryCount + 1]
StartChain == chain' = TRUE

StartStagedRetry(p) ==
    /\ staged[p].retry
    /\ staged' = [staged EXCEPT ![p].retry = FALSE]
    /\ IF CanRequeue THEN Requeue \/ UNCHANGED failing ELSE UNCHANGED failing
    /\ UNCHANGED <<policy, openIssues, chain, hour, decisionVars, spent>>

StartStagedDiscovery(p) ==
    /\ ~staged[p].retry /\ staged[p].start
    /\ staged' = [staged EXCEPT ![p] = Nothing]
    /\ StartChain \/ UNCHANGED chain
    /\ UNCHANGED <<policy, openIssues, failing, hour, decisionVars, spent>>

PassDies(p) ==
    /\ staged[p] # Nothing
    /\ Spend("death")
    /\ staged' = [staged EXCEPT ![p] = Nothing]
    /\ UNCHANGED <<policy, worldVars, decisionVars>>

-----------------------------------------------------------------------------
(* What people decide.                                                     *)

\* The inbox offers what is pending.  A batch decides its internal tasks one by one, as single
\* decisions of one person.
Inbox == {k \in DecisionKeys : decision[k] = "PENDING"}

\* The request reads the decision, pending as it was shown, and will write it next.
Decide(p, k, choice) ==
    /\ deciding[p] = Free
    /\ k \in Inbox
    /\ Spend("asked")
    /\ deciding' = [deciding EXCEPT ![p] = [at |-> "WRITE", key |-> k, choice |-> choice]]
    /\ UNCHANGED <<passVars, worldVars, tasks, decision, carried>>

WriteDecision(p) ==
    /\ deciding[p].at = "WRITE"
    /\ LET d == deciding[p] IN
         IF d.choice = "REJECT"
         THEN /\ decision' = [decision EXCEPT ![d.key] = "REJECTED"]
              /\ deciding' = [deciding EXCEPT ![p] = Free]
         ELSE /\ decision' = [decision EXCEPT ![d.key] = "APPROVED"]
              /\ deciding' = [deciding EXCEPT ![p].at = "EXECUTE"]
    /\ UNCHANGED <<passVars, worldVars, tasks, carried, spent>>

CarryOut(k) ==
    /\ carried' = carried \cup {k}
    /\ \/ /\ k \in TaskKeys
          /\ tasks' = tasks \cup {<<"decision", k>>}
          /\ UNCHANGED <<failing, chain>>
       \/ k \in RetryKeys /\ CanRequeue /\ Requeue /\ UNCHANGED <<tasks, chain>>
       \/ k \in StartKeys /\ StartChain /\ UNCHANGED <<tasks, failing>>

Execute(p) ==
    /\ deciding[p].at = "EXECUTE"
    /\ \/ /\ CarryOut(deciding[p].key)
          /\ deciding' = [deciding EXCEPT ![p].at = "EXECUTED"]
       \/ /\ deciding[p].key \notin TaskKeys
          /\ deciding' = [deciding EXCEPT ![p].at = "FAILED"]
          /\ UNCHANGED <<tasks, failing, chain, carried>>
    /\ UNCHANGED <<passVars, openIssues, hour, decision, spent>>

FinishDecision(p) ==
    /\ deciding[p].at \in {"EXECUTED", "FAILED"}
    /\ LET d == deciding[p] IN
         /\ decision' = [decision EXCEPT ![d.key] = d.at]
         /\ deciding' = [deciding EXCEPT ![p] = Free]
    /\ UNCHANGED <<passVars, worldVars, tasks, carried, spent>>

RequestDies(p) ==
    /\ deciding[p] # Free
    /\ Spend("death")
    /\ deciding' = [deciding EXCEPT ![p] = Free]
    /\ UNCHANGED <<passVars, worldVars, tasks, decision, carried>>

\* The hero's button resumes or opens the panel of the away mode, which needs an end; a pause
\* without one is the API's alone.
HeroButton == policy' = [policy EXCEPT !.pause = "NO"]
AwayPanel == policy' = [policy EXCEPT !.pause = "TIMED"]

\* The form saves the policy as its page has loaded it: whatever mode and switches were current
\* then, field by field here.
PolicyForm ==
    \/ \E mode \in Modes : policy' = [policy EXCEPT !.mode = mode]
    \/ \E switch \in {"tasks", "retries", "discovery"} : policy' = [policy EXCEPT ![switch] = ~@]

UpdatePolicy ==
    /\ Spend("policy")
    /\ HeroButton \/ AwayPanel \/ PolicyForm \/ policy' = [policy EXCEPT !.pause = "OPEN"]
    /\ UNCHANGED <<staged, worldVars, decisionVars>>

-----------------------------------------------------------------------------
(* The world.                                                              *)

IssueOpens(i) ==
    /\ i \notin openIssues
    /\ Spend("issue")
    /\ openIssues' = openIssues \cup {i}
    /\ UNCHANGED <<passVars, failing, chain, hour, decisionVars>>

IssueCloses(i) ==
    /\ i \in openIssues
    /\ openIssues' = openIssues \ {i}
    /\ UNCHANGED <<passVars, failing, chain, hour, decisionVars, spent>>

RunEnds(status) ==
    /\ failing.status \in {"QUEUED", "RUNNING"}
    /\ failing' = [failing EXCEPT !.status = status]
    /\ UNCHANGED <<passVars, openIssues, chain, hour, decisionVars, spent>>

\* The retry of the page of agent runs asks nobody.
RetriedByHand ==
    /\ CanRequeue /\ failing.retryCount < RetryCap
    /\ Requeue
    /\ UNCHANGED <<passVars, openIssues, chain, hour, decisionVars, spent>>

TimePasses ==
    \/ /\ policy.pause = "TIMED"
       /\ policy' = [policy EXCEPT !.pause = "DUE"]
       /\ UNCHANGED <<staged, worldVars, decisionVars, spent>>
    \/ /\ policy.discovery /\ hour < Hours  \* the buckets count while the schedule is on
       /\ hour' = hour + 1
       /\ UNCHANGED <<passVars, openIssues, failing, chain, decisionVars, spent>>

ChainEnds ==
    /\ chain
    /\ chain' = FALSE
    /\ UNCHANGED <<passVars, openIssues, failing, hour, decisionVars, spent>>

PassStep(p) ==
    \/ \E affordable, due \in BOOLEAN : Pass(p, affordable, due)
    \/ StartStagedRetry(p) \/ StartStagedDiscovery(p)

RequestStepOf(p) == WriteDecision(p) \/ Execute(p) \/ FinishDecision(p)

AutomationNext ==
    \/ \E p \in {"worker", "person"} : PassStep(p) \/ PassDies(p)
    \/ \E p \in Deciders : RequestStepOf(p) \/ RequestDies(p)
    \/ \E p \in Deciders, k \in DecisionKeys, choice \in {"APPROVE", "REJECT"} :
          Decide(p, k, choice)
    \/ UpdatePolicy \/ Resume \/ TimePasses \/ ChainEnds \/ RetriedByHand
    \/ \E i \in Issues : IssueOpens(i) \/ IssueCloses(i)
    \/ \E status \in {"SUCCEEDED", "FAILED"} : RunEnds(status)

AutomationSpec == AutomationInit /\ [][AutomationNext]_automationVars

\* The worker passes every few minutes and quiet hours end each day.
AutomationFairness ==
    /\ WF_automationVars(\E affordable, due \in BOOLEAN : Pass("worker", affordable, due))
    /\ WF_automationVars(StartStagedRetry("worker") \/ StartStagedDiscovery("worker"))

-----------------------------------------------------------------------------
(* Properties.                                                             *)

\* A question is one thing to the person who answers it: while it is pending nothing of it has
\* been done, when it reads executed it has been done, and a failed run is the subject of one
\* pending question at most (automation.ts retry candidates, automation.service.ts decision and
\* finishDecision).
ActsOnConsent ==
    /\ \A k \in DecisionKeys :
         /\ decision[k] \in {"NONE", "PENDING"} => k \notin carried
         /\ decision[k] = "EXECUTED" => k \in carried
    /\ Cardinality(Inbox \cap RetryKeys) <= 1

Live == policy.pause \in {"NO", "DUE"}

\* An issue that stays open becomes a task or a question, and so does
\* a failed run that is not retried, whoever changed the policy or died before
\* (automation.ts suggestOrCreateTask and the retry loop).
IssuesSurface ==
    /\ \A i \in Issues :
         <>[](Live /\ i \in openIssues)
             => <>(<<"issue", i>> \in tasks \/ decision[<<"issue", i>>] # "NONE")
    /\ <>[](Live /\ policy.retries /\ policy.mode # "CONTROLLED"
            /\ failing.status = "FAILED" /\ failing.retryCount < RetryCap)
         => <>(\E k \in RetryKeys : decision[k] # "NONE")
=============================================================================
