------------------------- MODULE AgentEngineProofs -------------------------
(***************************************************************************)
(* Proofs about the agent engine under every fault it is modelled with,    *)
(* for any number of workers, requests, runs and targets: it implements    *)
(* the credit ledger, its runs and jobs agree, and no credit stays held    *)
(* for a run that is over.  Where one worker lives long enough to keep its *)
(* heartbeat, no two attempts of a run overlap: credits then follow runs,  *)
(* and each result is applied once.                                        *)
(***************************************************************************)
EXTENDS AgentEngine, ResearchCreditsProofs

\* A request under way is about a run.
LEMMA RequestedRun ==
    ASSUME EngineTypeOK, NEW c \in Clients, request[c] # Idle
    PROVE  request[c].run \in Runs
BY DEF EngineTypeOK, Idle

\* A worker that is generating holds a run and an attempt.
LEMMA ClaimedRun ==
    ASSUME EngineTypeOK, NEW w \in Workers, doing[w] = "generating"
    PROVE  claim[w].run \in Runs /\ claim[w].attempt \in Nat
BY DEF EngineTypeOK, NoClaim

\* A sweep is about runs.
LEMMA SweptRuns ==
    ASSUME EngineTypeOK, NEW w \in Workers
    PROVE  Requeued(w) \in SUBSET Runs /\ Exhausted(w) \in SUBSET Runs
BY DEF EngineTypeOK, Requeued, Exhausted

-----------------------------------------------------------------------------
(***************************************************************************)
(* The engine implements the ledger.                                       *)
(***************************************************************************)

\* What one step of the engine does to the ledger is a step of the ledger.
LEMMA StepImplements ==
    ASSUME EngineTypeOK, [Next]_vars
    PROVE  [CreditNext]_creditVars
<1>1. ASSUME NEW c \in Clients, NEW r \in Runs, EnqueueBegin(c, r) \/ RetryBegin(c, r)
      PROVE  UNCHANGED creditVars
  BY <1>1 DEF EnqueueBegin, RetryBegin
<1>2. ASSUME NEW c \in Clients, CountToday(c) PROVE CreditNext
  <2>1. request[c].run \in Runs
    BY <1>2, RequestedRun DEF CountToday
  <2> QED  BY <1>2, <2>1 DEF CountToday, CreditNext
<1>3. ASSUME NEW c \in Clients, EnqueueCommit(c) PROVE [CreditNext]_creditVars
  <2>1. request[c].run \in Runs
    BY <1>3, RequestedRun DEF EnqueueCommit, Idle
  <2> QED  BY <1>3, <2>1 DEF EnqueueCommit, InsertRun, CreditNext
<1>4. ASSUME NEW c \in Clients, RetryCommit(c) PROVE [CreditNext]_creditVars
  <2>1. request[c].run \in Runs
    BY <1>4, RequestedRun DEF RetryCommit, Idle
  <2> QED  BY <1>4, <2>1 DEF RetryCommit, ReserveAgain, CreditNext
<1>5. ASSUME NEW c \in Clients, RequestFails(c) PROVE [CreditNext]_creditVars
  <2>1. request[c].run \in Runs
    BY <1>5, RequestedRun DEF RequestFails
  <2> QED  BY <1>5, <2>1 DEF RequestFails, RollBack, CreditNext
<1>6. ASSUME NEW r \in Runs, Dismiss(r) \/ BeatExpires(r) PROVE UNCHANGED creditVars
  BY <1>6 DEF Dismiss, BeatExpires
<1>7. ASSUME NEW w \in Workers, Claim(w) \/ Beat(w) \/ SweepRead(w) \/ Crash(w)
      PROVE  UNCHANGED creditVars
  BY <1>7 DEF Claim, Beat, SweepRead, Crash
<1>8. ASSUME NEW w \in Workers, Succeed(w) PROVE [CreditNext]_creditVars
  <2>1. claim[w].run \in Runs
    BY <1>8, ClaimedRun DEF Succeed, Complete
  <2> QED  BY <1>8, <2>1 DEF Succeed, Complete, CreditNext
<1>9. ASSUME NEW w \in Workers, Fail(w) PROVE [CreditNext]_creditVars
  <2>1. claim[w].run \in Runs
    BY <1>9, ClaimedRun DEF Fail, FailThen
  <2>2. RetryLater(claim[w].run) \/ GiveUp(claim[w].run)
    BY <1>9 DEF Fail, FailThen
  <2>3. CASE RetryLater(claim[w].run)
    BY <2>3 DEF RetryLater
  <2>4. CASE GiveUp(claim[w].run)
    <3>1. {claim[w].run} \in SUBSET Runs
      BY <2>1
    <3> QED  BY <2>4, <3>1 DEF GiveUp, CreditNext
  <2> QED  BY <2>2, <2>3, <2>4
<1>10. ASSUME NEW w \in Workers, SweepWrite(w) PROVE [CreditNext]_creditVars
  <2>1. {r \in Exhausted(w) : Research(r)} \in SUBSET Runs
    BY SweptRuns
  <2> QED  BY <1>10, <2>1 DEF SweepWrite, CreditNext
<1>11. ASSUME NEW d \in Decisions, NEW late \in SUBSET Overdue, StopOrganisation(d, late, {})
      PROVE  CreditNext
  BY <1>11 DEF StopOrganisation, CreditNext
<1>12. ASSUME Surroundings PROVE CreditNext
  BY <1>12 DEF Surroundings, CreditNext
<1>13. CASE UNCHANGED vars
  BY <1>13 DEF vars
<1>14. CASE Next
  BY <1>1, <1>2, <1>3, <1>4, <1>5, <1>6, <1>7, <1>8, <1>9, <1>10, <1>11, <1>12, <1>14
     DEF Next
<1> QED  BY <1>13, <1>14

-----------------------------------------------------------------------------
(***************************************************************************)
(* Type correctness.                                                       *)
(***************************************************************************)
LEMMA EngineTypeInit == Init => TypeOK
<1>1. Init => CreditTypeOK
  BY TypeInit DEF Init
<1>2. Init => EngineTypeOK
  BY DEF Init, EngineInit, EngineTypeOK
<1> QED  BY <1>1, <1>2 DEF TypeOK

\* Every step keeps the engine's state in its types.
LEMMA EngineTypeStep ==
    ASSUME TypeOK, [Next]_vars
    PROVE  TypeOK'
<1>0. CreditTypeOK'
  BY StepImplements, TypeStep DEF TypeOK
<1> SUFFICES EngineTypeOK'
  BY <1>0 DEF TypeOK
<1> USE DEF TypeOK, EngineTypeOK, jobVars, workerVars
<1>1. ASSUME NEW c \in Clients, NEW r \in Runs, EnqueueBegin(c, r) \/ RetryBegin(c, r)
      PROVE  EngineTypeOK'
  BY <1>1 DEF EnqueueBegin, RetryBegin
<1>2. ASSUME NEW c \in Clients, CountToday(c) PROVE EngineTypeOK'
  BY <1>2 DEF CountToday, engineVars
<1>3. ASSUME NEW c \in Clients, EnqueueCommit(c) PROVE EngineTypeOK'
  BY <1>3 DEF EnqueueCommit, InsertRun
<1>4. ASSUME NEW c \in Clients, RetryCommit(c) PROVE EngineTypeOK'
  BY <1>4 DEF RetryCommit
<1>5. ASSUME NEW c \in Clients, RequestFails(c) PROVE EngineTypeOK'
  BY <1>5 DEF RequestFails, RollBack
<1>6. ASSUME NEW r \in Runs, Dismiss(r) \/ BeatExpires(r) PROVE EngineTypeOK'
  BY <1>6 DEF Dismiss, BeatExpires
<1>7. ASSUME NEW w \in Workers, Claim(w) PROVE EngineTypeOK'
  BY <1>7 DEF Claim, NextAttempt, NoClaim
<1>8. ASSUME NEW w \in Workers, Beat(w) PROVE EngineTypeOK'
  BY <1>8 DEF Beat
<1>9. ASSUME NEW w \in Workers, SweepRead(w) PROVE EngineTypeOK'
  BY <1>9 DEF SweepRead
<1>10. ASSUME NEW w \in Workers, Crash(w) PROVE EngineTypeOK'
  BY <1>10 DEF Crash, Dies, TurnTo
<1>11. ASSUME NEW w \in Workers, Succeed(w) PROVE EngineTypeOK'
  BY <1>11 DEF Succeed, Complete, TurnTo
<1>12. ASSUME NEW w \in Workers, Fail(w) PROVE EngineTypeOK'
  <2>1. claim[w].run \in Runs
    BY <1>12, ClaimedRun DEF Fail, FailThen
  <2>2. CASE RetryLater(claim[w].run)
    BY <1>12, <2>1, <2>2 DEF Fail, FailThen, TurnTo, RetryLater
  <2>3. CASE GiveUp(claim[w].run)
    BY <1>12, <2>1, <2>3 DEF Fail, FailThen, TurnTo, GiveUp, Ended
  <2> QED  BY <1>12, <2>2, <2>3 DEF Fail, FailThen
<1>13. ASSUME NEW w \in Workers, SweepWrite(w) PROVE EngineTypeOK'
  BY <1>13 DEF SweepWrite, Swept
<1>14. ASSUME NEW d \in Decisions, NEW late \in SUBSET Overdue, StopOrganisation(d, late, {})
      PROVE  EngineTypeOK'
  BY <1>14 DEF StopOrganisation, CancelJobs
<1>15. ASSUME Surroundings PROVE EngineTypeOK'
  BY <1>15 DEF Surroundings, engineVars
<1>16. ASSUME UNCHANGED vars PROVE EngineTypeOK'
  BY <1>16 DEF vars, engineVars
<1> QED
  BY <1>1, <1>2, <1>3, <1>4, <1>5, <1>6, <1>7, <1>8, <1>9, <1>10, <1>11, <1>12, <1>13,
     <1>14, <1>15, <1>16 DEF Next

\* The engine's state is always well typed.
THEOREM EngineTypeCorrect == Spec => []TypeOK
<1>1. TypeOK /\ [Next]_vars => TypeOK'
  BY EngineTypeStep
<1> QED  BY <1>1, EngineTypeInit, PTL DEF Spec

\* Seen through its credits, the engine is the ledger.
THEOREM EngineImplementsLedger == Spec => CreditSpec
<1>1. Init => CreditInit
  BY DEF Init
<1>2. TypeOK /\ [Next]_vars => [CreditNext]_creditVars
  BY StepImplements DEF TypeOK
<1> QED  BY <1>1, <1>2, EngineTypeCorrect, PTL DEF Spec, CreditSpec

\* So its buckets' counters are exact under every fault.
COROLLARY EngineKeepsCounters == Spec => []CountersMatchAllocations
<1> QED  BY EngineImplementsLedger, CountersAlwaysMatch

-----------------------------------------------------------------------------
(***************************************************************************)
(* Runs and jobs agree.                                                    *)
(***************************************************************************)

\* Every step that changes a run or a job leaves the two in agreement.
LEMMA AgreementStep ==
    ASSUME EngineTypeOK, RunJobAgree, [Next]_vars
    PROVE  RunJobAgree'
<1> USE DEF EngineTypeOK, RunJobAgree, AgreeingJob, Stranded, jobVars
<1>1. ASSUME NEW c \in Clients, NEW r \in Runs, EnqueueBegin(c, r) \/ RetryBegin(c, r)
      PROVE  RunJobAgree'
  BY <1>1 DEF EnqueueBegin, RetryBegin
<1>2. ASSUME NEW c \in Clients, CountToday(c) \/ RequestFails(c) PROVE RunJobAgree'
  BY <1>2 DEF CountToday, RequestFails, engineVars
<1>3. ASSUME NEW c \in Clients, EnqueueCommit(c) PROVE RunJobAgree'
  BY <1>3 DEF EnqueueCommit, InsertRun
<1>4. ASSUME NEW c \in Clients, RetryCommit(c) PROVE RunJobAgree'
  BY <1>4 DEF RetryCommit
<1>5. ASSUME NEW r \in Runs, Dismiss(r) \/ BeatExpires(r) PROVE RunJobAgree'
  BY <1>5 DEF Dismiss, BeatExpires
<1>6. ASSUME NEW w \in Workers, Claim(w) PROVE RunJobAgree'
  BY <1>6 DEF Claim
<1>7. ASSUME NEW w \in Workers, Beat(w) \/ SweepRead(w) \/ Crash(w) PROVE RunJobAgree'
  BY <1>7 DEF Beat, SweepRead, Crash, Dies
<1>8. ASSUME NEW w \in Workers, Succeed(w) PROVE RunJobAgree'
  BY <1>8 DEF Succeed, Complete
<1>9. ASSUME NEW w \in Workers, Fail(w) PROVE RunJobAgree'
  <2>1. CASE RetryLater(claim[w].run)
    BY <2>1 DEF RetryLater
  <2>2. CASE GiveUp(claim[w].run)
    BY <2>2 DEF GiveUp, Ended
  <2> QED  BY <1>9, <2>1, <2>2 DEF Fail, FailThen
<1>10. ASSUME NEW w \in Workers, SweepWrite(w) PROVE RunJobAgree'
  BY <1>10 DEF SweepWrite, Swept
<1>11. ASSUME NEW d \in Decisions, NEW late \in SUBSET Overdue, StopOrganisation(d, late, {})
      PROVE  RunJobAgree'
  BY <1>11 DEF StopOrganisation, CancelJobs, Active
<1>12. CASE Surroundings \/ UNCHANGED vars
  BY <1>12 DEF Surroundings, vars, engineVars
<1> QED
  BY <1>1, <1>2, <1>3, <1>4, <1>5, <1>6, <1>7, <1>8, <1>9, <1>10, <1>11, <1>12 DEF Next

\* Whatever the workers, the sweeps, the requests and the platform console do at the
\* same time, a run and its job tell the same story, or the run waits without a job.
THEOREM RunsAndJobsAgree == Spec => []RunJobAgree
<1>1. Init => RunJobAgree
  BY DEF Init, EngineInit, RunJobAgree, AgreeingJob
<1>2. TypeOK /\ RunJobAgree /\ [Next]_vars => RunJobAgree'
  BY AgreementStep DEF TypeOK
<1> QED  BY <1>1, <1>2, EngineTypeCorrect, PTL DEF Spec

\* A step that strands a run is such a stop.
LEMMA StrandStep ==
    ASSUME TypeOK, RunJobAgree, [Next]_vars, NEW q \in Runs, Stranded(q)'
    PROVE  Stranded(q) \/ StopOvertaken(q)
<1> USE DEF TypeOK, EngineTypeOK, RunJobAgree, AgreeingJob, Stranded, StopOvertaken, jobVars
<1>1. ASSUME NEW c \in Clients, NEW r \in Runs, EnqueueBegin(c, r) \/ RetryBegin(c, r)
      PROVE  Stranded(q) \/ StopOvertaken(q)
  BY <1>1 DEF EnqueueBegin, RetryBegin
<1>2. ASSUME NEW c \in Clients, CountToday(c) \/ RequestFails(c) PROVE Stranded(q) \/ StopOvertaken(q)
  BY <1>2 DEF CountToday, RequestFails, engineVars
<1>3. ASSUME NEW c \in Clients, EnqueueCommit(c) \/ RetryCommit(c) PROVE Stranded(q) \/ StopOvertaken(q)
  BY <1>3 DEF EnqueueCommit, InsertRun, RetryCommit
<1>4. ASSUME NEW r \in Runs, Dismiss(r) \/ BeatExpires(r) PROVE Stranded(q) \/ StopOvertaken(q)
  BY <1>4 DEF Dismiss, BeatExpires
<1>5. ASSUME NEW w \in Workers, Claim(w) PROVE Stranded(q) \/ StopOvertaken(q)
  BY <1>5 DEF Claim
<1>6. ASSUME NEW w \in Workers, Beat(w) \/ SweepRead(w) \/ Crash(w) PROVE Stranded(q) \/ StopOvertaken(q)
  BY <1>6 DEF Beat, SweepRead, Crash, Dies
<1>7. ASSUME NEW w \in Workers, Succeed(w) PROVE Stranded(q) \/ StopOvertaken(q)
  BY <1>7 DEF Succeed, Complete
<1>8. ASSUME NEW w \in Workers, Fail(w) PROVE Stranded(q) \/ StopOvertaken(q)
  BY <1>8 DEF Fail, FailThen, RetryLater, GiveUp, Ended
<1>9. ASSUME NEW w \in Workers, SweepWrite(w) PROVE Stranded(q) \/ StopOvertaken(q)
  BY <1>9 DEF SweepWrite, Swept
<1>10. ASSUME NEW d \in Decisions, NEW late \in SUBSET Overdue, StopOrganisation(d, late, {})
       PROVE  Stranded(q) \/ StopOvertaken(q)
  <2>1. access' # "ACTIVE"
    BY <1>10, CreditAssumption DEF StopOrganisation, Stop, AccessAfter
  <2>2. \A w \in late : w \in Overdue /\ w \in Workers /\ doing'[w] = "idle"
    BY <1>10 DEF StopOrganisation, Overdue
  <2>3. run'[q] = "QUEUED" => \E w \in late : claim[w].run = q
    BY <1>10 DEF StopOrganisation, Active
  <2> QED  BY <2>1, <2>2, <2>3
<1>11. CASE Surroundings \/ UNCHANGED vars
  BY <1>11 DEF Surroundings, vars, engineVars
<1> QED
  BY <1>1, <1>2, <1>3, <1>4, <1>5, <1>6, <1>7, <1>8, <1>9, <1>10, <1>11 DEF Next

\* The run that waits without a job is one that a late worker gave back while the
\* organisation was being stopped.
THEOREM OnlyAStopStrands == Spec => OnlyStopsStrand
<1>1. TypeOK /\ RunJobAgree /\ [Next]_vars => [\A r \in Runs : Stranded(r)' => Stranded(r) \/ StopOvertaken(r)]_vars
  BY StrandStep
<1> QED  BY <1>1, EngineTypeCorrect, RunsAndJobsAgree, PTL DEF Spec, OnlyStopsStrand

-----------------------------------------------------------------------------
(***************************************************************************)
(* No run that is over holds a credit.  The property is inductive together *)
(* with the fact that an Echo run, whose end does not touch the ledger,    *)
(* never has a reservation to leave behind.                                *)
(***************************************************************************)
EchoIsFree == \A r \in Runs : ~Research(r) => reservation[r] = "NONE"

HoldInv == NoOrphanHold /\ EchoIsFree

\* What a refund of the runs in S does to the reservations.
LEMMA RefundedReservations ==
    ASSUME NEW S \in SUBSET Runs, CreditTypeOK, ReturnCredits(S), NEW r \in Runs
    PROVE  /\ r \in S => reservation'[r] # "RESERVED"
           /\ r \notin S => reservation'[r] = reservation[r]
           /\ reservation'[r] \in {reservation[r], "REFUNDED"}
           /\ reservation[r] # "RESERVED" => reservation'[r] = reservation[r]
BY DEF CreditTypeOK, ReturnCredits, Held

\* What reserving a credit for a run does to the reservations.
LEMMA ReservedReservations ==
    ASSUME NEW r \in Runs, CreditTypeOK, Reserve(r)
    PROVE  reservation' = [reservation EXCEPT ![r] = "RESERVED"]
BY DEF Reserve

\* Every step that ends a run also ends its hold.
LEMMA HoldStep ==
    ASSUME TypeOK, HoldInv, [Next]_vars
    PROVE  HoldInv'
<1> USE DEF TypeOK, HoldInv, NoOrphanHold, EchoIsFree, Active, jobVars
<1>0. \A r \in Runs : reservation[r] \in {"NONE", "RESERVED", "CONSUMED", "REFUNDED"}
  BY DEF CreditTypeOK
<1>t. run \in [Runs -> {"NONE", "QUEUED", "RUNNING", "SUCCEEDED", "FAILED", "CANCELLED"}]
  BY DEF EngineTypeOK
<1>v. reservation \in [Runs -> {"NONE", "RESERVED", "CONSUMED", "REFUNDED"}]
  BY DEF CreditTypeOK
<1>e. \A r \in Runs : Research(r)' = Research(r)
  BY DEF Research
<1>1. ASSUME NEW c \in Clients, NEW r \in Runs, EnqueueBegin(c, r) \/ RetryBegin(c, r)
      PROVE  HoldInv'
  BY <1>1, <1>e DEF EnqueueBegin, RetryBegin, creditVars
<1>2. ASSUME NEW c \in Clients, CountToday(c) PROVE HoldInv'
  BY <1>2, <1>e DEF CountToday, engineVars, BeginReserve, ledger
<1>3. ASSUME NEW c \in Clients, RequestFails(c) PROVE HoldInv'
  BY <1>3, <1>e DEF RequestFails, RollBack, AbandonReserve, ledger, creditVars
<1>4. ASSUME NEW c \in Clients, EnqueueCommit(c) PROVE HoldInv'
  <2>1. request[c].run \in Runs
    BY <1>4, RequestedRun DEF EnqueueCommit, Idle
  <2>2. CASE Research(request[c].run)
    <3>1. reservation' = [reservation EXCEPT ![request[c].run] = "RESERVED"]
      BY <1>4, <2>1, <2>2, ReservedReservations DEF EnqueueCommit, InsertRun
    <3> QED  BY <1>4, <1>e, <1>t, <1>v, <2>1, <2>2, <3>1 DEF EnqueueCommit, InsertRun
  <2>3. CASE ~Research(request[c].run)
    BY <1>4, <1>e, <1>t, <2>1, <2>3 DEF EnqueueCommit, InsertRun, creditVars
  <2> QED  BY <2>2, <2>3
<1>5. ASSUME NEW c \in Clients, RetryCommit(c) PROVE HoldInv'
  <2>1. request[c].run \in Runs
    BY <1>5, RequestedRun DEF RetryCommit, Idle
  <2>2. CASE Research(request[c].run) /\ Reserve(request[c].run)
    <3>1. reservation' = [reservation EXCEPT ![request[c].run] = "RESERVED"]
      BY <2>1, <2>2, ReservedReservations
    <3> QED  BY <1>5, <1>e, <1>t, <1>v, <2>1, <2>2, <3>1 DEF RetryCommit
  <2>3. CASE UNCHANGED creditVars
    BY <1>5, <1>e, <1>t, <2>1, <2>3 DEF RetryCommit, creditVars
  <2> QED  BY <1>5, <2>2, <2>3 DEF RetryCommit, ReserveAgain
<1>6. ASSUME NEW r \in Runs, Dismiss(r) \/ BeatExpires(r) PROVE HoldInv'
  BY <1>6, <1>e, <1>t DEF Dismiss, BeatExpires, creditVars
<1>7. ASSUME NEW w \in Workers, Claim(w) PROVE HoldInv'
  BY <1>7, <1>e, <1>t DEF Claim, creditVars
<1>8. ASSUME NEW w \in Workers, Beat(w) \/ SweepRead(w) \/ Crash(w) PROVE HoldInv'
  BY <1>8, <1>e DEF Beat, SweepRead, Crash, Dies, creditVars
<1>9. ASSUME NEW w \in Workers, Succeed(w) PROVE HoldInv'
  <2>1. claim[w].run \in Runs
    BY <1>9, ClaimedRun DEF Succeed, Complete
  <2>2. CASE Research(claim[w].run)
    BY <1>9, <1>e, <1>t, <1>v, <2>1, <2>2 DEF Succeed, Complete, Consume
  <2>3. CASE ~Research(claim[w].run)
    BY <1>9, <1>e, <1>t, <2>1, <2>3 DEF Succeed, Complete, creditVars
  <2> QED  BY <2>2, <2>3
<1>10. ASSUME NEW w \in Workers, Fail(w) PROVE HoldInv'
  <2>1. claim[w].run \in Runs
    BY <1>10, ClaimedRun DEF Fail, FailThen
  <2>2. CASE RetryLater(claim[w].run)
    BY <1>e, <1>t, <2>1, <2>2 DEF RetryLater, creditVars
  <2>3. CASE GiveUp(claim[w].run) /\ Research(claim[w].run)
    <3>1. ReturnCredits({claim[w].run})
      BY <2>3 DEF GiveUp, Refund
    <3>2. {claim[w].run} \in SUBSET Runs
      BY <2>1
    <3>3. \A r \in Runs : /\ r = claim[w].run => reservation'[r] # "RESERVED"
                          /\ r # claim[w].run => reservation'[r] = reservation[r]
                          /\ reservation[r] # "RESERVED" => reservation'[r] = reservation[r]
      BY <3>1, <3>2, RefundedReservations
    <3> QED  BY <1>e, <1>t, <2>1, <2>3, <3>3 DEF GiveUp, Ended
  <2>4. CASE GiveUp(claim[w].run) /\ ~Research(claim[w].run)
    BY <1>e, <1>t, <2>1, <2>4 DEF GiveUp, Ended, creditVars
  <2> QED  BY <1>10, <2>2, <2>3, <2>4 DEF Fail, FailThen
<1>11. ASSUME NEW w \in Workers, SweepWrite(w) PROVE HoldInv'
  <2> DEFINE S == {r \in Exhausted(w) : Research(r)}
  <2>1. S \in SUBSET Runs
    BY SweptRuns
  <2>2. ReturnCredits(S)
    BY <1>11 DEF SweepWrite, Refund
  <2>3. \A r \in Runs : /\ r \in S => reservation'[r] # "RESERVED"
                        /\ r \notin S => reservation'[r] = reservation[r]
                        /\ reservation[r] # "RESERVED" => reservation'[r] = reservation[r]
    BY <2>1, <2>2, RefundedReservations
  <2>4. \A r \in Runs : r \notin Exhausted(w) /\ run[r] \in Active => run'[r] \in Active
    BY <1>11, <1>t DEF SweepWrite, Swept
  <2> QED  BY <1>e, <1>0, <2>3, <2>4
<1>12. ASSUME NEW d \in Decisions, NEW late \in SUBSET Overdue, StopOrganisation(d, late, {})
      PROVE  HoldInv'
  <2>1. ReturnCredits(Runs)
    BY <1>12 DEF StopOrganisation, Stop
  <2>2. \A r \in Runs : /\ reservation'[r] # "RESERVED"
                        /\ reservation[r] # "RESERVED" => reservation'[r] = reservation[r]
    BY <2>1, RefundedReservations
  <2> QED  BY <1>e, <2>2
<1>13. CASE Surroundings
  BY <1>13, <1>e DEF Surroundings, engineVars, Approve, Fulfil, WindowMoves, DayPasses, ledger
<1>14. CASE UNCHANGED vars
  BY <1>14, <1>e DEF vars, engineVars, creditVars
<1> QED
  BY <1>1, <1>2, <1>3, <1>4, <1>5, <1>6, <1>7, <1>8, <1>9, <1>10, <1>11, <1>12, <1>13,
     <1>14 DEF Next

\* Whatever ends a run gives its credit back or consumes it.
THEOREM NoHoldOutlivesItsRun == Spec => []NoOrphanHold
<1>1. Init => HoldInv
  BY DEF Init, CreditInit, HoldInv, NoOrphanHold, EchoIsFree
<1>2. TypeOK /\ HoldInv /\ [Next]_vars => HoldInv'
  BY HoldStep
<1>3. HoldInv => NoOrphanHold
  BY DEF HoldInv
<1> QED  BY <1>1, <1>2, <1>3, EngineTypeCorrect, PTL DEF Spec

-----------------------------------------------------------------------------
(***************************************************************************)
(* A consumed credit bought a result.                                      *)
(***************************************************************************)

\* Only the success of a run consumes its credit, and it meters its result.
LEMMA ChargeStep ==
    ASSUME TypeOK, ChargeImpliesResult, [Next]_vars
    PROVE  ChargeImpliesResult'
<1> USE DEF ChargeImpliesResult, jobVars
<1>u. usageRows \in [Runs -> Nat]
  BY DEF TypeOK, EngineTypeOK
<1>v. reservation \in [Runs -> {"NONE", "RESERVED", "CONSUMED", "REFUNDED"}]
  BY DEF TypeOK, CreditTypeOK
<1>c. \A r \in Runs, S \in SUBSET Runs :
         ReturnCredits(S) /\ reservation'[r] = "CONSUMED" => reservation[r] = "CONSUMED"
  BY RefundedReservations DEF TypeOK
<1>1. ASSUME NEW w \in Workers, Succeed(w) PROVE ChargeImpliesResult'
  <2>1. claim[w].run \in Runs
    BY <1>1, ClaimedRun DEF TypeOK, Succeed, Complete
  <2>2. \A r \in Runs : r # claim[w].run => reservation'[r] = reservation[r]
    BY <1>1, <1>v, <2>1 DEF Succeed, Complete, Consume, creditVars
  <2> QED  BY <1>1, <1>u, <2>1, <2>2 DEF Succeed, Complete
<1>2. ASSUME UNCHANGED usageRows,
             \A r \in Runs : reservation'[r] = "CONSUMED" => reservation[r] = "CONSUMED"
      PROVE  ChargeImpliesResult'
  BY <1>2
<1>3. ASSUME NEW r \in Runs, Reserve(r), UNCHANGED usageRows PROVE ChargeImpliesResult'
  BY <1>2, <1>3, <1>v, ReservedReservations DEF TypeOK
<1>4. ASSUME NEW c \in Clients, CountToday(c) \/ RequestFails(c) PROVE ChargeImpliesResult'
  BY <1>2, <1>4 DEF CountToday, BeginReserve, engineVars, RequestFails, RollBack,
     AbandonReserve, ledger, creditVars
<1>5. ASSUME NEW c \in Clients, EnqueueCommit(c) PROVE ChargeImpliesResult'
  BY <1>2, <1>3, <1>5, RequestedRun DEF TypeOK, EnqueueCommit, InsertRun, creditVars, Idle
<1>6. ASSUME NEW c \in Clients, RetryCommit(c) PROVE ChargeImpliesResult'
  BY <1>2, <1>3, <1>6, RequestedRun DEF TypeOK, RetryCommit, ReserveAgain, creditVars, Idle
<1>7. ASSUME NEW w \in Workers, Fail(w) PROVE ChargeImpliesResult'
  <2>1. {claim[w].run} \in SUBSET Runs
    BY <1>7, ClaimedRun DEF TypeOK, Fail, FailThen
  <2>2. UNCHANGED usageRows
    BY <1>7 DEF Fail, FailThen
  <2>3. UNCHANGED creditVars \/ ReturnCredits({claim[w].run})
    BY <1>7 DEF Fail, FailThen, RetryLater, GiveUp, Refund
  <2> QED  BY <1>2, <1>c, <2>1, <2>2, <2>3 DEF creditVars
<1>8. ASSUME NEW w \in Workers, SweepWrite(w) PROVE ChargeImpliesResult'
  <2>1. {r \in Exhausted(w) : Research(r)} \in SUBSET Runs
    BY SweptRuns DEF TypeOK
  <2> QED  BY <1>2, <1>8, <1>c, <2>1 DEF SweepWrite, Refund
<1>9. ASSUME NEW d \in Decisions, NEW late \in SUBSET Overdue, StopOrganisation(d, late, {})
      PROVE  ChargeImpliesResult'
  BY <1>2, <1>9, <1>c DEF StopOrganisation, Stop
<1>10. CASE Surroundings
  BY <1>2, <1>10 DEF Surroundings, engineVars, Approve, Fulfil, WindowMoves, DayPasses, ledger
<1>11. ASSUME NEW c \in Clients, NEW r \in Runs, EnqueueBegin(c, r) \/ RetryBegin(c, r)
       PROVE  ChargeImpliesResult'
  BY <1>2, <1>11 DEF EnqueueBegin, RetryBegin, creditVars
<1>12. ASSUME NEW r \in Runs, Dismiss(r) \/ BeatExpires(r) PROVE ChargeImpliesResult'
  BY <1>2, <1>12 DEF Dismiss, BeatExpires, creditVars
<1>13. ASSUME NEW w \in Workers, Claim(w) \/ Beat(w) \/ SweepRead(w) \/ Crash(w)
       PROVE  ChargeImpliesResult'
  BY <1>2, <1>13 DEF Claim, Beat, SweepRead, Crash, Dies, creditVars
<1>14. CASE UNCHANGED vars
  BY <1>2, <1>14 DEF vars, engineVars, creditVars
<1> QED
  BY <1>1, <1>4, <1>5, <1>6, <1>7, <1>8, <1>9, <1>10, <1>11, <1>12, <1>13, <1>14 DEF Next

\* No run is charged for without a metered result.
THEOREM ChargesBuyResults == Spec => []ChargeImpliesResult
<1>1. Init => ChargeImpliesResult
  BY DEF Init, CreditInit, ChargeImpliesResult
<1>2. TypeOK /\ ChargeImpliesResult /\ [Next]_vars => ChargeImpliesResult'
  BY ChargeStep
<1> QED  BY <1>1, <1>2, EngineTypeCorrect, PTL DEF Spec

-----------------------------------------------------------------------------
(***************************************************************************)
(* One worker whose heartbeats arrive, one request at a time, and an       *)
(* organisation that is not stopped: what the deployment is meant to be.   *)
(* The worker may crash, runs may be retried and dismissed at any point.   *)
(* The invariant gives each status of a run its status of the credit, and  *)
(* says that what a sweep and a request have read still holds.             *)
(***************************************************************************)
Alone ==
    /\ \A v, w \in Workers : v = w
    /\ \A c, d \in Clients : c = d
    /\ Decisions \subseteq {"APPROVE"}
    /\ ReliableHeartbeat

CreditOf(status) ==
    CASE status = "NONE" -> "NONE"
      [] status \in Active -> "RESERVED"
      [] status = "SUCCEEDED" -> "CONSUMED"
      [] OTHER -> "REFUNDED"

CreditsAgree == \A r \in Runs : Research(r) => reservation[r] = CreditOf(run[r])

SweepsAgree ==
    \A w \in Workers : doing[w] = "sweeping" =>
        \A s \in seen[w] : run[s[1]] = "RUNNING" /\ attempts[s[1]] = s[2]

RequestsAgree ==
    \A c \in Clients :
        /\ request[c].op = "enqueue" => run[request[c].run] = "NONE"
        /\ request[c].op = "retry" => run[request[c].run] \in {"FAILED", "CANCELLED"}

AloneInv == CreditsAgree /\ AppliedOnce /\ SoleOwner /\ SweepsAgree /\ RequestsAgree

\* A step that changes neither credits nor runs nor what a worker holds.
LEMMA AloneUnchanged ==
    ASSUME AloneInv, UNCHANGED <<reservation, run, attempts, usageRows, workerVars, request>>
    PROVE  AloneInv'
BY DEF AloneInv, CreditsAgree, AppliedOnce, SoleOwner, SweepsAgree, RequestsAgree, Research, CreditOf,
       Active, Generating, workerVars

\* The credit of a run and its status change together.
LEMMA AloneCredits ==
    ASSUME TypeOK, CreditsAgree, NEW r \in Runs, NEW status,
           run' = [run EXCEPT ![r] = status],
           Research(r) => reservation' = [reservation EXCEPT ![r] = CreditOf(status)],
           ~Research(r) => UNCHANGED reservation
    PROVE  CreditsAgree'
<1>1. ASSUME NEW q \in Runs, Research(q)
      PROVE  reservation'[q] = CreditOf(run'[q])
  <2>1. CASE q = r
    BY <1>1, <2>1 DEF TypeOK, CreditTypeOK, EngineTypeOK
  <2>2. CASE q # r
    <3>1. run'[q] = run[q] /\ reservation'[q] = reservation[q]
      BY <2>2 DEF TypeOK, CreditTypeOK, EngineTypeOK
    <3> QED  BY <1>1, <3>1 DEF CreditsAgree
  <2> QED  BY <2>1, <2>2
<1> QED  BY <1>1 DEF CreditsAgree, Research, CreditOf, Active

\* What a request writes.
LEMMA AloneRequest ==
    ASSUME TypeOK, AloneInv, Alone, NEW c \in Clients, EnqueueCommit(c) \/ RetryCommit(c)
    PROVE  AloneInv'
<1> DEFINE r == request[c].run
<1>1. r \in Runs
  BY RequestedRun DEF TypeOK, EnqueueCommit, RetryCommit, Idle
<1>2. run[r] \in {"NONE", "FAILED", "CANCELLED"}
  BY DEF AloneInv, RequestsAgree, EnqueueCommit, RetryCommit
<1>3. /\ run' = [run EXCEPT ![r] = "QUEUED"] /\ request' = [request EXCEPT ![c] = Idle]
      /\ UNCHANGED <<attempts, usageRows, doing, claim, seen>>
  BY DEF EnqueueCommit, InsertRun, RetryCommit, workerVars
<1>4. CreditOf("QUEUED") = "RESERVED" /\ CreditOf(run[r]) \in {"NONE", "REFUNDED"}
  BY <1>2 DEF CreditOf, Active
<1>5. /\ Research(r) => reservation' = [reservation EXCEPT ![r] = "RESERVED"]
      /\ ~Research(r) => UNCHANGED reservation
  <2>1. CASE EnqueueCommit(c)
    BY <2>1, <1>1, ReservedReservations DEF TypeOK, EnqueueCommit, InsertRun, creditVars
  <2>2. CASE RetryCommit(c)
    <3>1. Research(r) => reservation[r] \notin Charging
      BY <1>1, <1>4 DEF AloneInv, CreditsAgree, Charging
    <3> QED  BY <2>2, <1>1, <3>1, ReservedReservations DEF TypeOK, RetryCommit, ReserveAgain, creditVars
  <2> QED  BY <2>1, <2>2
<1> HIDE DEF r
<1>6. CreditsAgree'
  BY <1>1, <1>3, <1>4, <1>5, AloneCredits DEF AloneInv
<1>7. run \in [Runs -> {"NONE", "QUEUED", "RUNNING", "SUCCEEDED", "FAILED", "CANCELLED"}]
  BY DEF TypeOK, EngineTypeOK
<1>8. AppliedOnce'
  BY <1>1, <1>2, <1>3, <1>7 DEF AloneInv, AppliedOnce
<1>9. SoleOwner' /\ SweepsAgree'
  BY <1>1, <1>2, <1>3, <1>7 DEF AloneInv, SoleOwner, SweepsAgree, Generating
<1>10. RequestsAgree'
  BY <1>3 DEF TypeOK, EngineTypeOK, RequestsAgree, Alone, Idle
<1> QED  BY <1>6, <1>8, <1>9, <1>10 DEF AloneInv

\* A worker's own run, at the end of its generation.
LEMMA AloneOutcome ==
    ASSUME TypeOK, AloneInv, Alone, NEW w \in Workers, doing[w] = "generating", TurnTo(w, "idle"),
           NEW status \in {"QUEUED", "SUCCEEDED", "FAILED"},
           run' = [run EXCEPT ![claim[w].run] = status],
           usageRows' = IF status = "SUCCEEDED" THEN [usageRows EXCEPT ![claim[w].run] = @ + 1] ELSE usageRows,
           Research(claim[w].run) => reservation' = [reservation EXCEPT ![claim[w].run] = CreditOf(status)],
           ~Research(claim[w].run) => UNCHANGED reservation,
           UNCHANGED <<attempts, request, seen>>
    PROVE  AloneInv'
<1> DEFINE r == claim[w].run
<1>1. r \in Runs
  BY ClaimedRun DEF TypeOK
<1>2. run[r] = "RUNNING"
  BY <1>1 DEF AloneInv, SoleOwner, Generating
<1>3. CreditsAgree'
  BY <1>1, AloneCredits DEF AloneInv
<1>4. run \in [Runs -> {"NONE", "QUEUED", "RUNNING", "SUCCEEDED", "FAILED", "CANCELLED"}] /\ usageRows \in [Runs -> Nat]
  BY DEF TypeOK, EngineTypeOK
<1>5. AppliedOnce'
  BY <1>1, <1>2, <1>4 DEF AloneInv, AppliedOnce
<1>6. \A v \in Workers : doing'[v] = "idle"
  BY DEF TurnTo, Alone, TypeOK, EngineTypeOK
<1>7. SoleOwner' /\ SweepsAgree'
  BY <1>6 DEF SoleOwner, SweepsAgree, Generating
<1>8. RequestsAgree'
  BY <1>1, <1>2, <1>4 DEF AloneInv, RequestsAgree
<1> QED  BY <1>3, <1>5, <1>7, <1>8 DEF AloneInv

LEMMA AloneSweep ==
    ASSUME TypeOK, AloneInv, Alone, EchoIsFree, NEW w \in Workers, SweepWrite(w)
    PROVE  AloneInv'
<1>0. run \in [Runs -> {"NONE", "QUEUED", "RUNNING", "SUCCEEDED", "FAILED", "CANCELLED"}]
  BY DEF TypeOK, EngineTypeOK
<1>1. Requeued(w) \in SUBSET Runs /\ Exhausted(w) \in SUBSET Runs
  BY SweptRuns DEF TypeOK
<1>2. doing[w] = "sweeping" /\ UNCHANGED <<attempts, usageRows, claim, request>>
  BY DEF SweepWrite
<1>3. \A r \in Requeued(w) \cup Exhausted(w) : run[r] = "RUNNING"
  BY <1>2 DEF AloneInv, SweepsAgree, Requeued, Exhausted
<1>4. Requeued(w) \cap Exhausted(w) = {}
  <2>1. \A r \in Requeued(w) : AttemptsLeft(attempts[r])
    BY <1>2 DEF AloneInv, SweepsAgree, Requeued
  <2>2. \A r \in Exhausted(w) : ~AttemptsLeft(attempts[r])
    BY <1>2 DEF AloneInv, SweepsAgree, Exhausted
  <2> QED  BY <2>1, <2>2
<1>5. /\ DOMAIN run' = Runs
      /\ \A r \in Requeued(w) : run'[r] = "QUEUED"
      /\ \A r \in Exhausted(w) : run'[r] = "FAILED"
      /\ \A r \in Runs \ (Requeued(w) \cup Exhausted(w)) : run'[r] = run[r]
  BY <1>1, <1>3, <1>4 DEF SweepWrite, Swept
<1>6. \A r \in Runs : Research(r) =>
         /\ r \in Exhausted(w) => reservation[r] = "RESERVED" /\ reservation'[r] = "REFUNDED"
         /\ r \notin Exhausted(w) => reservation'[r] = reservation[r]
  <2> DEFINE S == {r \in Exhausted(w) : Research(r)}
  <2>1. S \in SUBSET Runs /\ ReturnCredits(S)
    BY <1>1 DEF SweepWrite, Refund
  <2>2. \A r \in Runs : /\ r \in S => reservation'[r] # "RESERVED"
                        /\ r \notin S => reservation'[r] = reservation[r]
                        /\ reservation'[r] \in {reservation[r], "REFUNDED"}
    BY <2>1, RefundedReservations DEF TypeOK
  <2>3. \A r \in S : reservation[r] = "RESERVED"
    BY <1>1, <1>3 DEF AloneInv, CreditsAgree, CreditOf, Active
  <2> QED  BY <2>2, <2>3
<1>7. CreditsAgree'
  <2>1. \A r \in Runs : Research(r) => reservation'[r] = CreditOf(run'[r])
    BY <1>1, <1>3, <1>5, <1>6 DEF AloneInv, CreditsAgree, CreditOf, Active
  <2> QED  BY <2>1 DEF CreditsAgree, Research, CreditOf, Active
<1>8. AppliedOnce'
  BY <1>1, <1>2, <1>3, <1>5 DEF AloneInv, AppliedOnce
<1>9. \A v \in Workers : doing'[v] = "idle"
  BY DEF SweepWrite, Alone, TypeOK, EngineTypeOK
<1>10. SoleOwner' /\ SweepsAgree'
  BY <1>9 DEF SoleOwner, SweepsAgree, Generating
<1>11. RequestsAgree'
  <2>1. ASSUME NEW c \in Clients, request[c].op \in {"enqueue", "retry"}
        PROVE  run'[request[c].run] = run[request[c].run]
    <3>1. request[c].run \in Runs
      BY <2>1, RequestedRun DEF TypeOK, Idle
    <3>2. run[request[c].run] # "RUNNING"
      BY <2>1 DEF AloneInv, RequestsAgree
    <3> QED  BY <1>3, <1>5, <3>1, <3>2
  <2> QED  BY <1>2, <2>1 DEF AloneInv, RequestsAgree
<1> QED  BY <1>7, <1>8, <1>10, <1>11 DEF AloneInv

LEMMA AloneStep ==
    ASSUME TypeOK, RunJobAgree, EchoIsFree, AloneInv, Alone, [Next]_vars
    PROVE  AloneInv'
<1>t. /\ run \in [Runs -> {"NONE", "QUEUED", "RUNNING", "SUCCEEDED", "FAILED", "CANCELLED"}]
      /\ attempts \in [Runs -> Nat] /\ usageRows \in [Runs -> Nat]
      /\ reservation \in [Runs -> {"NONE", "RESERVED", "CONSUMED", "REFUNDED"}]
      /\ DOMAIN request = Clients /\ DOMAIN doing = Workers /\ DOMAIN claim = Workers /\ DOMAIN seen = Workers
  BY DEF TypeOK, EngineTypeOK, CreditTypeOK
<1>1. ASSUME NEW c \in Clients, NEW r \in Runs, EnqueueBegin(c, r) \/ RetryBegin(c, r)
      PROVE  AloneInv'
  <2>1. /\ UNCHANGED <<reservation, run, attempts, usageRows, doing, claim, seen>>
        /\ \/ run[r] = "NONE" /\ request' = [request EXCEPT ![c] = [op |-> "enqueue", run |-> r]]
           \/ run[r] = "FAILED" /\ request' = [request EXCEPT ![c] = [op |-> "retry", run |-> r]]
    BY <1>1 DEF EnqueueBegin, RetryBegin, Unused, creditVars, jobVars, workerVars
  <2>2. RequestsAgree'
    BY <1>t, <2>1 DEF AloneInv, RequestsAgree
  <2> QED
    BY <2>1, <2>2 DEF AloneInv, CreditsAgree, AppliedOnce, SoleOwner, SweepsAgree, Research, CreditOf, Active,
                      Generating
<1>2. ASSUME NEW c \in Clients, CountToday(c) PROVE AloneInv'
  BY <1>2, AloneUnchanged DEF CountToday, BeginReserve, ledger, engineVars, jobVars
<1>3. ASSUME NEW c \in Clients, RequestFails(c) PROVE AloneInv'
  <2>1. /\ UNCHANGED <<reservation, run, attempts, usageRows, doing, claim, seen>>
        /\ request' = [request EXCEPT ![c] = Idle]
    BY <1>3 DEF RequestFails, RollBack, AbandonReserve, ledger, creditVars, jobVars, workerVars
  <2>2. RequestsAgree'
    BY <1>t, <2>1 DEF AloneInv, RequestsAgree, Idle
  <2> QED
    BY <2>1, <2>2 DEF AloneInv, CreditsAgree, AppliedOnce, SoleOwner, SweepsAgree, Research, CreditOf, Active,
                      Generating
<1>4. ASSUME NEW c \in Clients, EnqueueCommit(c) \/ RetryCommit(c) PROVE AloneInv'
  BY <1>4, AloneRequest
<1>5. ASSUME NEW r \in Runs, Dismiss(r) PROVE AloneInv'
  <2>1. /\ run[r] = "FAILED" /\ run' = [run EXCEPT ![r] = "CANCELLED"]
        /\ UNCHANGED <<reservation, attempts, usageRows, doing, claim, seen, request>>
    BY <1>5 DEF Dismiss, creditVars, workerVars
  <2>2. CreditsAgree'
    BY <1>t, <2>1 DEF AloneInv, CreditsAgree, Research, CreditOf, Active
  <2>3. AppliedOnce'
    BY <1>t, <2>1 DEF AloneInv, AppliedOnce
  <2>4. SoleOwner' /\ SweepsAgree'
    BY <1>t, <2>1 DEF AloneInv, SoleOwner, SweepsAgree, Generating
  <2>5. RequestsAgree'
    BY <1>t, <2>1 DEF AloneInv, RequestsAgree
  <2> QED  BY <2>2, <2>3, <2>4, <2>5 DEF AloneInv
<1>6. ASSUME NEW r \in Runs, BeatExpires(r) PROVE AloneInv'
  BY <1>6, AloneUnchanged DEF BeatExpires, creditVars
<1>7. ASSUME NEW w \in Workers, Claim(w) PROVE AloneInv'
  <2>1. PICK r \in Runs :
          /\ job[r] = "QUEUED" /\ run' = [run EXCEPT ![r] = "RUNNING"]
          /\ attempts' = [attempts EXCEPT ![r] = attempts[r] + 1]
          /\ claim' = [claim EXCEPT ![w] = [run |-> r, attempt |-> attempts[r] + 1]]
    BY <1>7 DEF Claim, NextAttempt
  <2>2. /\ doing' = [doing EXCEPT ![w] = "generating"]
        /\ UNCHANGED <<reservation, usageRows, seen, request>>
    BY <1>7 DEF Claim, creditVars
  <2>3. run[r] = "QUEUED"
    BY <1>t, <2>1 DEF RunJobAgree, AgreeingJob, Stranded
  <2>4. CreditsAgree'
    BY <1>t, <2>1, <2>2, <2>3 DEF AloneInv, CreditsAgree, Research, CreditOf, Active
  <2>5. AppliedOnce'
    BY <1>t, <2>1, <2>2, <2>3 DEF AloneInv, AppliedOnce
  <2>6. SoleOwner' /\ SweepsAgree'
    BY <1>t, <2>1, <2>2 DEF SoleOwner, SweepsAgree, Generating, Alone
  <2>7. RequestsAgree'
    BY <1>t, <2>1, <2>2, <2>3 DEF AloneInv, RequestsAgree
  <2> QED  BY <2>4, <2>5, <2>6, <2>7 DEF AloneInv
<1>8. ASSUME NEW w \in Workers, Beat(w) PROVE AloneInv'
  BY <1>8, AloneUnchanged DEF Beat, creditVars
<1>9. ASSUME NEW w \in Workers, SweepRead(w) PROVE AloneInv'
  <2> DEFINE stale == {r \in Runs : job[r] = "RUNNING" /\ expired[r]}
  <2>1. /\ UNCHANGED <<reservation, run, attempts, usageRows, claim, request>>
        /\ doing' = [doing EXCEPT ![w] = "sweeping"]
        /\ seen' = [seen EXCEPT ![w] = {<<r, attempts[r]>> : r \in stale}]
    BY <1>9 DEF SweepRead, creditVars, jobVars
  <2>2. \A r \in stale : run[r] = "RUNNING"
    BY <1>t DEF RunJobAgree, AgreeingJob, Stranded
  <2>3. SoleOwner' /\ SweepsAgree'
    BY <1>t, <2>1, <2>2 DEF SoleOwner, SweepsAgree, Generating, Alone
  <2> QED
    BY <2>1, <2>3 DEF AloneInv, CreditsAgree, AppliedOnce, RequestsAgree, Research, CreditOf, Active
<1>10. ASSUME NEW w \in Workers, Crash(w) PROVE AloneInv'
  <2>1. /\ UNCHANGED <<reservation, run, attempts, usageRows, request>>
        /\ doing' = [doing EXCEPT ![w] = "idle"]
    BY <1>10 DEF Crash, Dies, TurnTo, creditVars, jobVars
  <2>2. SoleOwner' /\ SweepsAgree'
    BY <1>t, <2>1 DEF SoleOwner, SweepsAgree, Generating, Alone
  <2> QED
    BY <2>1, <2>2 DEF AloneInv, CreditsAgree, AppliedOnce, RequestsAgree, Research, CreditOf, Active
<1>11. ASSUME NEW w \in Workers, Succeed(w) PROVE AloneInv'
  <2> DEFINE r == claim[w].run
  <2>1. r \in Runs /\ run[r] = "RUNNING"
    BY <1>11, ClaimedRun DEF TypeOK, Succeed, Complete, AloneInv, SoleOwner, Generating
  <2>2. Research(r) => reservation[r] = "RESERVED"
    BY <2>1 DEF AloneInv, CreditsAgree, CreditOf, Active
  <2>3. /\ Research(r) => reservation' = [reservation EXCEPT ![r] = "CONSUMED"]
        /\ ~Research(r) => UNCHANGED reservation
    BY <1>11, <1>t, <2>1, <2>2 DEF Succeed, Complete, Consume, creditVars
  <2>4. CreditOf("SUCCEEDED") = "CONSUMED"
    BY DEF CreditOf, Active
  <2> QED  BY <1>11, <2>3, <2>4, AloneOutcome DEF Succeed, Complete
<1>12. ASSUME NEW w \in Workers, Fail(w) PROVE AloneInv'
  <2> DEFINE r == claim[w].run
  <2>1. r \in Runs /\ run[r] = "RUNNING"
    BY <1>12, ClaimedRun DEF TypeOK, Fail, FailThen, AloneInv, SoleOwner, Generating
  <2>2. Research(r) => reservation[r] = "RESERVED"
    BY <2>1 DEF AloneInv, CreditsAgree, CreditOf, Active
  <2>3. CreditOf("QUEUED") = "RESERVED" /\ CreditOf("FAILED") = "REFUNDED"
    BY DEF CreditOf, Active
  <2>4. /\ doing[w] = "generating" /\ TurnTo(w, "idle") /\ (RetryLater(r) \/ GiveUp(r))
        /\ UNCHANGED <<attempts, usageRows, seen, request>>
    BY <1>12 DEF Fail, FailThen
  <2>5. CASE RetryLater(r)
    <3>1. run' = [run EXCEPT ![r] = "QUEUED"] /\ UNCHANGED reservation
      BY <2>5 DEF RetryLater, creditVars
    <3>2. Research(r) => reservation' = [reservation EXCEPT ![r] = "RESERVED"]
      BY <1>t, <2>1, <2>2, <3>1
    <3> QED  BY <2>3, <2>4, <3>1, <3>2, AloneOutcome
  <2>6. CASE GiveUp(r)
    <3>1. run' = [run EXCEPT ![r] = "FAILED"] /\ (~Research(r) => UNCHANGED reservation)
      BY <2>6 DEF GiveUp, Ended, creditVars
    <3>2. Research(r) => reservation' = [reservation EXCEPT ![r] = "REFUNDED"]
      BY <1>t, <2>1, <2>2, <2>6 DEF GiveUp, Refund, ReturnCredits, Held
    <3> QED  BY <2>3, <2>4, <3>1, <3>2, AloneOutcome
  <2> QED  BY <2>4, <2>5, <2>6
<1>13. ASSUME NEW w \in Workers, SweepWrite(w) PROVE AloneInv'
  BY <1>13, AloneSweep
<1>14. ASSUME NEW d \in Decisions, NEW late \in SUBSET Overdue, StopOrganisation(d, late, {})
      PROVE  FALSE
  BY <1>14 DEF StopOrganisation, Stop, Alone
<1>15. CASE Surroundings
  BY <1>15, AloneUnchanged DEF Surroundings, engineVars, jobVars, Approve, Fulfil, WindowMoves, DayPasses, ledger
<1>16. CASE UNCHANGED vars
  BY <1>16, AloneUnchanged DEF vars, engineVars, jobVars, creditVars
<1> QED
  BY <1>1, <1>2, <1>3, <1>4, <1>5, <1>6, <1>7, <1>8, <1>9, <1>10, <1>11, <1>12, <1>13, <1>14, <1>15, <1>16
     DEF Next

LEMMA AloneInvariant ==
    ASSUME Alone
    PROVE  Spec => []AloneInv
<1>1. Init => AloneInv
  BY DEF Init, CreditInit, EngineInit, AloneInv, CreditsAgree, CreditOf, AppliedOnce, SoleOwner, Generating,
         SweepsAgree, RequestsAgree, Idle, Active
<1>2. Init => HoldInv
  BY DEF Init, CreditInit, HoldInv, NoOrphanHold, EchoIsFree
<1>3. TypeOK /\ HoldInv /\ [Next]_vars => HoldInv'
  BY HoldStep
<1>4. TypeOK /\ RunJobAgree /\ HoldInv /\ AloneInv /\ [Next]_vars => AloneInv'
  BY AloneStep DEF HoldInv
<1> QED  BY <1>1, <1>2, <1>3, <1>4, EngineTypeCorrect, RunsAndJobsAgree, PTL DEF Spec

\* With one worker and one request at a time, credits follow the run through crashes,
\* sweeps, retries and dismissals.
THEOREM CreditsFollowRuns ==
    ASSUME Alone
    PROVE  Spec => []CreditFollowsRun
<1>1. TypeOK /\ AloneInv => CreditFollowsRun
  BY DEF TypeOK, EngineTypeOK, AloneInv, CreditsAgree, CreditFollowsRun, CreditOf, Active
<1> QED  BY <1>1, AloneInvariant, EngineTypeCorrect, PTL

\* And a result is applied and metered exactly once, for a run that succeeded.
THEOREM ResultsAreAppliedOnce ==
    ASSUME Alone
    PROVE  Spec => []AppliedOnce
<1>1. AloneInv => AppliedOnce
  BY DEF AloneInv
<1> QED  BY <1>1, AloneInvariant, PTL

-----------------------------------------------------------------------------
(***************************************************************************)
(* The order of the agents, under every fault.  The check of enqueue reads *)
(* the state of the company; what is kept of it afterwards is that each    *)
(* Relay run, and each request for one, rests on a result that was stored. *)
(***************************************************************************)
Relays(r) == AgentOf[TargetOf[r]] = "RELAY"

ResearchInv ==
    /\ \A t \in Targets : target[t] = "DONE" => Delivered(t)
    /\ \A r \in Runs : Relays(r) /\ run[r] # "NONE" => Researched(TargetOf[r])
    /\ \A c \in Clients, r \in Runs :
          request[c] # Idle /\ request[c].run = r /\ Relays(r) => Researched(TargetOf[r])
    /\ \A w \in Workers : doing[w] = "generating" => run[claim[w].run] # "NONE"

\* Stored results stay: a company that was researched remains so.
LEMMA ResearchedStays ==
    ASSUME TypeOK, usageRows' \in [Runs -> Nat],
           \A r \in Runs : usageRows'[r] >= usageRows[r]
    PROVE  /\ \A t \in Targets : Delivered(t) => Delivered(t)'
           /\ \A t \in Targets : Researched(t) => Researched(t)'
<1>1. \A t \in Targets : Delivered(t) => Delivered(t)'
  BY DEF Delivered, TypeOK, EngineTypeOK
<1> QED  BY <1>1 DEF Researched

\* What a step has to respect: a target is done by a result, a run or a request
\* that is new was checked, and a worker only generates what was queued.
LEMMA ResearchFrame ==
    ASSUME TypeOK, ResearchInv, usageRows' \in [Runs -> Nat],
           \A r \in Runs : usageRows'[r] >= usageRows[r],
           \A t \in Targets : target'[t] = "DONE" => target[t] = "DONE" \/ Delivered(t)',
           \A r \in Runs : run'[r] # "NONE" =>
               run[r] # "NONE" \/ (Relays(r) => Researched(TargetOf[r])),
           \A r \in Runs : run[r] # "NONE" => run'[r] # "NONE",
           \A c \in Clients : request'[c] # Idle =>
               \/ request'[c] = request[c]
               \/ request'[c].run \in Runs
                  /\ (Relays(request'[c].run) => Researched(TargetOf[request'[c].run])),
           \A w \in Workers : doing'[w] = "generating" =>
               \/ doing[w] = "generating" /\ claim'[w] = claim[w]
               \/ run'[claim'[w].run] # "NONE"
    PROVE  ResearchInv'
<1>1. /\ \A t \in Targets : Delivered(t) => Delivered(t)'
      /\ \A t \in Targets : Researched(t) => Researched(t)'
  BY ResearchedStays
<1>2. \A r \in Runs : TargetOf[r] \in Targets
  BY EngineAssumption
<1>3. \A t \in Targets : target'[t] = "DONE" => Delivered(t)'
  BY <1>1 DEF ResearchInv
<1>4. \A r \in Runs : Relays(r) /\ run'[r] # "NONE" => Researched(TargetOf[r])'
  BY <1>1, <1>2 DEF ResearchInv
<1>5. \A c \in Clients, r \in Runs :
          request'[c] # Idle /\ request'[c].run = r /\ Relays(r) => Researched(TargetOf[r])'
  <2> SUFFICES ASSUME NEW c \in Clients, NEW r \in Runs,
                      request'[c] # Idle, request'[c].run = r, Relays(r)
               PROVE  Researched(TargetOf[r])
    BY <1>1, <1>2
  <2> QED  BY DEF ResearchInv
<1>6. \A w \in Workers : doing'[w] = "generating" => run'[claim'[w].run] # "NONE"
  BY ClaimedRun DEF TypeOK, ResearchInv
<1> QED  BY <1>3, <1>4, <1>5, <1>6 DEF ResearchInv, Relays

\* Who is eligible for Relay has been researched.
LEMMA EligibleResearched ==
    ASSUME ResearchInv, NEW t \in Targets, Eligible(t), AgentOf[t] = "RELAY"
    PROVE  Researched(t)
BY DEF ResearchInv, Eligible, Researched

\* Every step respects it.
LEMMA ResearchStep ==
    ASSUME TypeOK, RunJobAgree, ResearchInv, [Next]_vars
    PROVE  ResearchInv'
<1> TypeOK'
  BY EngineTypeStep
<1> USE DEF TypeOK, EngineTypeOK, jobVars, workerVars
<1>e. \A r \in Runs : TargetOf[r] \in Targets
  BY EngineAssumption
<1>1. ASSUME NEW c \in Clients, NEW r \in Runs, EnqueueBegin(c, r) PROVE ResearchInv'
  <2>1. Relays(r) => Researched(TargetOf[r])
    BY <1>1, <1>e, EligibleResearched DEF EnqueueBegin, Relays
  <2> QED  BY <1>1, <2>1, ResearchFrame DEF EnqueueBegin
<1>2. ASSUME NEW c \in Clients, NEW r \in Runs, RetryBegin(c, r) PROVE ResearchInv'
  <2>1. Relays(r) => Researched(TargetOf[r])
    BY <1>2 DEF RetryBegin, ResearchInv
  <2> QED  BY <1>2, <2>1, ResearchFrame DEF RetryBegin
<1>3. ASSUME NEW c \in Clients, CountToday(c) PROVE ResearchInv'
  BY <1>3, ResearchFrame DEF CountToday, engineVars
<1>4. ASSUME NEW c \in Clients, RequestFails(c) PROVE ResearchInv'
  BY <1>4, ResearchFrame DEF RequestFails, RollBack
<1>5. ASSUME NEW c \in Clients, EnqueueCommit(c) PROVE ResearchInv'
  <2>1. /\ request[c].run \in Runs
        /\ Relays(request[c].run) => Researched(TargetOf[request[c].run])
    BY <1>5, RequestedRun DEF EnqueueCommit, Idle, ResearchInv
  <2> QED  BY <1>5, <2>1, ResearchFrame DEF EnqueueCommit, InsertRun
<1>6. ASSUME NEW c \in Clients, RetryCommit(c) PROVE ResearchInv'
  <2>1. /\ request[c].run \in Runs
        /\ Relays(request[c].run) => Researched(TargetOf[request[c].run])
    BY <1>6, RequestedRun DEF RetryCommit, Idle, ResearchInv
  <2> QED  BY <1>6, <2>1, ResearchFrame DEF RetryCommit
<1>7. ASSUME NEW r \in Runs, Dismiss(r) \/ BeatExpires(r) PROVE ResearchInv'
  BY <1>7, ResearchFrame DEF Dismiss, BeatExpires
<1>8. ASSUME NEW w \in Workers, Claim(w) PROVE ResearchInv'
  <2>1. PICK r \in Runs :
          /\ job[r] = "QUEUED"
          /\ run' = [run EXCEPT ![r] = "RUNNING"]
          /\ claim' = [claim EXCEPT ![w] = [run |-> r, attempt |-> NextAttempt(r)]]
    BY <1>8 DEF Claim
  <2>2. run[r] # "NONE"
    BY <2>1 DEF RunJobAgree, AgreeingJob, Stranded
  <2> QED  BY <1>8, <2>1, <2>2, ResearchFrame DEF Claim
<1>9. ASSUME NEW w \in Workers, Beat(w) \/ SweepRead(w) PROVE ResearchInv'
  BY <1>9, ResearchFrame DEF Beat, SweepRead
<1>10. ASSUME NEW w \in Workers, Crash(w) PROVE ResearchInv'
  BY <1>10, ResearchFrame DEF Crash, Dies, TurnTo
<1>11. ASSUME NEW w \in Workers, Succeed(w) PROVE ResearchInv'
  <2> DEFINE r == claim[w].run
  <2>1. r \in Runs /\ run[r] # "NONE" /\ usageRows[r] \in Nat
    BY <1>11, ClaimedRun DEF Succeed, Complete, ResearchInv
  <2>2. usageRows' = [usageRows EXCEPT ![r] = @ + 1] /\ usageRows'[r] > 0
    BY <1>11, <2>1 DEF Succeed, Complete
  <2>3. \A t \in Targets : target'[t] = "DONE" => target[t] = "DONE" \/ t = TargetOf[r]
    BY <1>11 DEF Succeed, Complete
  <2>4. \A t \in Targets : target'[t] = "DONE" => target[t] = "DONE" \/ Delivered(t)'
    BY <2>1, <2>2, <2>3 DEF Delivered
  <2> QED  BY <1>11, <2>1, <2>2, <2>4, ResearchFrame DEF Succeed, Complete, TurnTo
<1>12. ASSUME NEW w \in Workers, Fail(w) PROVE ResearchInv'
  <2> DEFINE r == claim[w].run
  <2>1. r \in Runs /\ run[r] # "NONE"
    BY <1>12, ClaimedRun DEF Fail, FailThen, ResearchInv
  <2>2. \A s \in Runs : run'[s] # "NONE" <=> run[s] # "NONE"
    BY <1>12, <2>1 DEF Fail, FailThen, RetryLater, GiveUp, Ended
  <2> QED  BY <1>12, <2>1, <2>2, ResearchFrame DEF Fail, FailThen, TurnTo
<1>13. ASSUME NEW w \in Workers, SweepWrite(w) PROVE ResearchInv'
  <2>1. \A s \in Runs : run'[s] # "NONE" <=> run[s] # "NONE"
    BY <1>13 DEF SweepWrite, Swept
  <2> QED  BY <1>13, <2>1, ResearchFrame DEF SweepWrite
<1>14. ASSUME NEW d \in Decisions, NEW late \in SUBSET Overdue, StopOrganisation(d, late, {})
      PROVE  ResearchInv'
  <2>1. \A w \in late : doing[w] = "generating" /\ claim[w].run \in Runs /\ run[claim[w].run] # "NONE"
    BY <1>14, ClaimedRun DEF Overdue, ResearchInv
  <2>2. \A s \in Runs : run'[s] # "NONE" <=> run[s] # "NONE"
    BY <1>14, <2>1 DEF StopOrganisation, Active
  <2>3. \A w \in Workers : doing'[w] = "generating" => doing[w] = "generating" /\ claim'[w] = claim[w]
    BY <1>14 DEF StopOrganisation
  <2> QED  BY <1>14, <2>2, <2>3, ResearchFrame DEF StopOrganisation
<1>15. CASE Surroundings \/ UNCHANGED vars
  BY <1>15, ResearchFrame DEF Surroundings, vars, engineVars
<1> QED
  BY <1>1, <1>2, <1>3, <1>4, <1>5, <1>6, <1>7, <1>8, <1>9, <1>10, <1>11, <1>12, <1>13,
     <1>14, <1>15 DEF Next

\* Nobody looks for contacts of a company whose research never delivered, whatever
\* requests, retries, sweeps, workers and suspensions come between the check and the run.
THEOREM RelayFollowsResearch == Spec => []RelayAfterSage
<1>1. Init => ResearchInv
  BY DEF Init, EngineInit, ResearchInv, Idle
<1>2. TypeOK /\ RunJobAgree /\ ResearchInv /\ [Next]_vars => ResearchInv'
  BY ResearchStep
<1>3. ResearchInv => RelayAfterSage
  BY DEF ResearchInv, RelayAfterSage, Relays, Active
<1> QED  BY <1>1, <1>2, <1>3, EngineTypeCorrect, RunsAndJobsAgree, PTL DEF Spec

=============================================================================
