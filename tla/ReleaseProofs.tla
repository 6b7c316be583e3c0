---------------------------- MODULE ReleaseProofs ----------------------------
(***************************************************************************)
(* Proofs about what the run of the pipelines and of a release explores,   *)
(* for any runs, pipelines and requests, any journeys, commits and owners, *)
(* and any bounds: a pipeline that is over has no work left, a frozen      *)
(* cycle meets its gate, and what is accepted is accepted for the commit   *)
(* it names.                                                               *)
(***************************************************************************)
EXTENDS PipelineRuns, AcceptanceLab, LaunchControl, TLAPS

-----------------------------------------------------------------------------
(***************************************************************************)
(* The acceptance lab.  As long as nothing overlapped, the verdict on a    *)
(* journey that passed rests on its steps; a commit that opens a frozen    *)
(* cycle or finds it open disturbs nothing the freeze relied on.           *)
(***************************************************************************)

JourneyShape ==
    /\ DOMAIN journey = Journeys
    /\ \A j \in Journeys : DOMAIN journey[j] = {"status", "step"}

\* A journey that passed has passed in all of its steps.
PassedInAll(row) == row.status = "PASSED" => \A s \in Steps : row.step[s] = "PASS"

LabInv ==
    /\ JourneyShape
    /\ ~overlapped => \A j \in Journeys : PassedInAll(journey[j])
    /\ FrozenMeetsGate

\* Steps that move neither journeys nor findings, and do not freeze.
LEMMA LabElsewhere ==
    ASSUME LabInv, UNCHANGED <<journey, finding, overlapped>>, frozen' => frozen
    PROVE  LabInv'
<1>1. UNCHANGED <<Passed, TestsReady>>
  BY DEF Passed, TestsReady, Among
<1>2. JourneyShape' /\ (~overlapped => \A j \in Journeys : PassedInAll(journey[j]))'
  BY DEF LabInv, JourneyShape, PassedInAll
<1>3. FrozenMeetsGate'
  BY <1>1 DEF LabInv, FrozenMeetsGate
<1> QED  BY <1>2, <1>3 DEF LabInv

\* What a commit writes: the steps it wrote are those it counted, unless it missed something.
LEMMA CommitCounts ==
    ASSUME LabInv, NEW x, ~Misses(x), ~overlapped, NEW j \in Journeys
    PROVE  PassedInAll(Written(x)[j])
<1> DEFINE own == {p \in x.steps : p[1] = j}
<1>1. CASE own = {}
  <2>1. Written(x)[j] = journey[j]
    BY <1>1 DEF Written
  <2> QED  BY <2>1 DEF LabInv
<1>2. CASE own # {}
  <2> DEFINE p == CHOOSE p \in own : TRUE
  <2>1. p \in own
    BY <1>2
  <2>2. Written(x)[j] = [status |-> Verdict(x.seen[p]), step |-> Seen(p, x.to)]
    BY <1>2 DEF Written
  <2> HIDE DEF p
  <2>3. x.seen[p] = Seen(p, x.to)
    BY <2>1 DEF Misses
  <2>4. Verdict(Seen(p, x.to)) = "PASSED" => \A s \in Steps : Seen(p, x.to)[s] = "PASS"
    BY DEF Verdict
  <2> QED  BY <2>2, <2>3, <2>4 DEF PassedInAll
<1> QED  BY <1>1, <1>2

\* A commit keeps the invariant: it leaves the cycle open, or has missed something.
LEMMA CommitKeepsLab ==
    ASSUME LabInv, NEW e \in Editors, CommitEdit(e)
    PROVE  LabInv'
<1> DEFINE x == editing[e]
<1>1. /\ journey' = Written(x)
      /\ frozen' = (frozen /\ ~x.reopens)
      /\ overlapped' = (overlapped \/ Misses(x))
  BY DEF CommitEdit
<1>2. JourneyShape'
  BY <1>1 DEF JourneyShape, Written, LabInv
<1>3. (~overlapped => \A j \in Journeys : PassedInAll(journey[j]))'
  BY <1>1, CommitCounts
<1>4. FrozenMeetsGate'
  BY <1>1 DEF FrozenMeetsGate, Misses
<1> QED  BY <1>2, <1>3, <1>4 DEF LabInv

\* Every step of the lab keeps the invariant.
LEMMA LabStep ==
    ASSUME LabInv, [LabNext]_labVars
    PROVE  LabInv'
<1>1. CASE UNCHANGED labVars
  BY <1>1, LabElsewhere DEF labVars
<1>2. ASSUME NEW j \in Journeys, CreateJourney(j) PROVE LabInv'
  <2>1. /\ journey' = [journey EXCEPT ![j].status = "IN_PROGRESS"]
        /\ frozen' = FALSE /\ overlapped' = overlapped
    BY <1>2 DEF CreateJourney
  <2>2. JourneyShape'
    BY <2>1 DEF LabInv, JourneyShape
  <2>3. ASSUME ~overlapped, NEW i \in Journeys PROVE PassedInAll(journey'[i])
    <3>1. CASE i = j
      <4>1. journey'[i].status = "IN_PROGRESS"
        BY <2>1, <3>1 DEF LabInv, JourneyShape
      <4> QED  BY <4>1 DEF PassedInAll
    <3>2. CASE i # j
      <4>1. journey'[i] = journey[i]
        BY <2>1, <3>2 DEF LabInv, JourneyShape
      <4> QED  BY <2>3, <4>1 DEF LabInv
    <3> QED  BY <3>1, <3>2
  <2>4. (~overlapped => \A i \in Journeys : PassedInAll(journey[i]))'
    BY <2>1, <2>3
  <2>5. FrozenMeetsGate'
    BY <2>1 DEF FrozenMeetsGate
  <2> QED  BY <2>2, <2>4, <2>5 DEF LabInv
<1>3. ASSUME NEW e \in Editors, NEW steps, NEW to, NEW found, Edit(e, steps, to, found)
      PROVE  LabInv'
  BY <1>3, LabElsewhere DEF Edit
<1>4. ASSUME NEW e \in Editors, CommitEdit(e) PROVE LabInv'
  BY <1>4, CommitKeepsLab
<1>5. CASE Freeze
  <2>1. UNCHANGED <<journey, finding, overlapped>> /\ TestsReady
    BY <1>5 DEF Freeze, Gate
  <2>2. UNCHANGED <<Passed, TestsReady>>
    BY <2>1 DEF Passed, TestsReady, Among
  <2>3. JourneyShape' /\ (~overlapped => \A j \in Journeys : PassedInAll(journey[j]))'
    BY <2>1 DEF LabInv, JourneyShape, PassedInAll
  <2>4. FrozenMeetsGate'
    BY <2>1, <2>2 DEF LabInv, FrozenMeetsGate, PassedInAll, Passed
  <2> QED  BY <2>3, <2>4 DEF LabInv
<1>6. CASE StartValidation \/ ReconcileValidation \/ ApproveValidation
  BY <1>6, LabElsewhere DEF StartValidation, ReconcileValidation, ApproveValidation, EconomicsStep
<1> QED
  BY <1>1, <1>2, <1>3, <1>4, <1>5, <1>6 DEF LabNext, UpdateStep, CreateFinding, UpdateFinding

\* Whatever is edited by however many requests at once, a frozen cycle meets the gate it was
\* frozen by, as long as no change was committed that another, or the freeze, did not see
\* (recomputeJourney, reopenIfFrozen, freeze).
THEOREM FrozenAlwaysMeetsGate == LabSpec => []FrozenMeetsGate
<1>1. LabInit => LabInv
  <2> SUFFICES ASSUME LabInit PROVE LabInv
    OBVIOUS
  <2>1. JourneyShape /\ \A j \in Journeys : PassedInAll(journey[j])
    BY DEF LabInit, JourneyShape, PassedInAll
  <2>2. FrozenMeetsGate
    BY DEF LabInit, FrozenMeetsGate
  <2> QED  BY <2>1, <2>2 DEF LabInv
<1>2. LabInv /\ [LabNext]_labVars => LabInv'
  BY LabStep
<1>3. LabInv => FrozenMeetsGate
  BY DEF LabInv
<1> QED  BY <1>1, <1>2, <1>3, PTL DEF LabSpec

-----------------------------------------------------------------------------
(***************************************************************************)
(* Launch Control.  A record that shows its automated conditions passed    *)
(* shows those of the commit it names: they are evaluated in the same      *)
(* transaction in which the record takes the commit.                       *)
(***************************************************************************)

\* A release record.
Record(r) ==
    /\ DOMAIN r = {"commit", "status", "check"}
    /\ DOMAIN r.check = Checks
    /\ r.check["automated"] \in {"PENDING", "PASS", "BLOCKED"}

\* The automated result of the record is that of its commit.
OfItsCommit(r) ==
    /\ r.check["automated"] = "PASS" => r.commit \in everFit
    /\ r.status \in {"READY", "APPROVED", "RELEASED"} => r.commit \in everFit

\* What people gave was given for the commit the record names.
Earned(r, e) ==
    /\ \A k \in Manual : r.check[k] \in {"PASS", "WAIVED"} => e[k] = r.commit
    /\ r.status \in {"APPROVED", "RELEASED"} => e["approval"] = r.commit

Sound(r, e) == Record(r) /\ OfItsCommit(r) /\ Earned(r, e)

LaunchInv ==
    /\ fit \subseteq everFit
    /\ DOMAIN earned = Manual \cup {"approval"}
    /\ Sound(release, earned)
    /\ release.status = "NONE" => \A k \in Checks : release.check[k] = "PENDING"

LEMMA TheChecks == Checks = {"automated", "live", "signoff"} /\ Manual = {"live", "signoff"}
BY DEF Checks, Manual

\* The record after it has followed an instance to its commit, which was evaluated.
LEMMA FollowsCommit ==
    ASSUME LaunchInv, NEW c
    PROVE  Sound(Evaluated(Current(release, c), c), earned)
<1> DEFINE r == Current(release, c)
<1>1. Sound(release, earned) /\ fit \subseteq everFit
  BY DEF LaunchInv
<1>2. /\ DOMAIN r = {"commit", "status", "check"} /\ DOMAIN r.check = Checks
      /\ r.commit = c
      /\ r.status \in {"READY", "APPROVED", "RELEASED"} => r = release
      /\ Earned(r, earned)
  <2>1. CASE release.commit = c
    BY <1>1, <2>1 DEF Current, Sound, Record
  <2>2. CASE release.commit # c
    <3>1. r = [commit |-> c, status |-> "DRAFT",
               check |-> [k \in Checks |-> IF k \in Manual THEN "PENDING" ELSE release.check[k]]]
      BY <2>2 DEF Current
    <3> HIDE DEF r
    <3>2. \A k \in Manual : r.check[k] = "PENDING"
      BY <3>1, TheChecks
    <3> QED  BY <3>1, <3>2 DEF Earned
  <2> QED  BY <2>1, <2>2
<1> HIDE DEF r
<1>3. \E result : /\ Evaluated(r, c) = [r EXCEPT !.check["automated"] = result]
                  /\ result \in {"PASS", "BLOCKED"}
                  /\ result = "PASS" => c \in everFit
  BY <1>1 DEF Evaluated
<1>4. PICK result : /\ Evaluated(r, c) = [r EXCEPT !.check["automated"] = result]
                    /\ result \in {"PASS", "BLOCKED"}
                    /\ result = "PASS" => c \in everFit
  BY <1>3
<1> DEFINE n == Evaluated(r, c)
<1>5. /\ DOMAIN n = {"commit", "status", "check"} /\ DOMAIN n.check = Checks
      /\ n.commit = c /\ n.status = r.status
      /\ n.check["automated"] = result
      /\ \A k \in Manual : n.check[k] = r.check[k]
  BY <1>2, <1>4, TheChecks
<1> HIDE DEF n
<1>6. Record(n)
  BY <1>4, <1>5 DEF Record
<1>7. OfItsCommit(n)
  BY <1>1, <1>2, <1>4, <1>5 DEF OfItsCommit, Sound
<1>8. Earned(n, earned)
  BY <1>2, <1>5 DEF Earned
<1> QED  BY <1>6, <1>7, <1>8 DEF n, r, Sound

\* A record whose status or one manual result is written, the rest left alone.
LEMMA StatusWritten ==
    ASSUME NEW r, NEW e, Sound(r, e), NEW s,
           s \in {"READY", "APPROVED", "RELEASED"} => r.commit \in everFit,
           s \in {"APPROVED", "RELEASED"} => e["approval"] = r.commit
    PROVE  Sound([r EXCEPT !.status = s], e)
<1> DEFINE n == [r EXCEPT !.status = s]
<1>1. /\ DOMAIN n = {"commit", "status", "check"} /\ n.status = s
      /\ n.commit = r.commit /\ n.check = r.check
  BY DEF Sound, Record
<1> HIDE DEF n
<1>2. Sound(n, e)
  BY <1>1 DEF Sound, Record, OfItsCommit, Earned
<1> QED  BY <1>2 DEF n

LEMMA ResultWritten ==
    ASSUME NEW r, NEW e, NEW f, Sound(r, e), NEW k \in Manual, NEW to,
           to \in {"PASS", "WAIVED"} => f[k] = r.commit,
           \A o \in (Manual \cup {"approval"}) \ {k} : f[o] = e[o]
    PROVE  Sound([r EXCEPT !.check[k] = to], f)
<1> DEFINE n == [r EXCEPT !.check[k] = to]
<1>1. /\ DOMAIN n = {"commit", "status", "check"} /\ DOMAIN n.check = Checks
      /\ n.status = r.status /\ n.commit = r.commit
      /\ \A o \in Checks : n.check[o] = IF o = k THEN to ELSE r.check[o]
  BY TheChecks DEF Sound, Record
<1>2. k # "automated" /\ k # "approval" /\ "automated" \in Checks /\ Manual \subseteq Checks
  BY TheChecks
<1> HIDE DEF n
<1>3. Record(n) /\ OfItsCommit(n)
  BY <1>1, <1>2 DEF Sound, Record, OfItsCommit
<1>4. Earned(n, f)
  BY <1>1, <1>2 DEF Sound, Earned
<1> QED  BY <1>3, <1>4 DEF n, Sound

\* A result that is looked at again, and the status that follows from the results.
LEMMA RevalidatedSound ==
    ASSUME NEW r, Sound(r, earned)
    PROVE  Sound(Revalidated(r), earned)
<1>1. "live" \in Manual
  BY TheChecks
<1>2. Sound([r EXCEPT !.check["live"] = "BLOCKED"], earned)
  BY <1>1, ResultWritten
<1> QED  BY <1>2 DEF Revalidated

LEMMA RefreshedSound ==
    ASSUME NEW r, NEW e, Sound(r, e)
    PROVE  /\ Sound(Refreshed(r), e)
           /\ Refreshed(r).status # "NONE"
           /\ Refreshed(r).commit = r.commit
           /\ Refreshed(r).status = "READY" => r.commit \in everFit
<1>1. AllComplete(r) => r.commit \in everFit
  <2>1. "automated" \in Checks
    BY TheChecks
  <2> QED  BY <2>1 DEF AllComplete, Sound, Record, OfItsCommit
<1>2. CASE Refreshed(r) = r /\ (r.status = "RELEASED" \/ (r.status = "APPROVED" /\ AllComplete(r)))
  BY <1>2
<1>3. CASE ~(r.status = "RELEASED" \/ (r.status = "APPROVED" /\ AllComplete(r)))
  <2> DEFINE s == IF AllComplete(r) THEN "READY"
                  ELSE IF "BLOCKED" \in {r.check[k] : k \in Checks} THEN "BLOCKED"
                  ELSE "IN_PROGRESS"
  <2>1. Refreshed(r) = [r EXCEPT !.status = s]
    BY <1>3 DEF Refreshed
  <2>2. /\ s \in {"READY", "APPROVED", "RELEASED"} => r.commit \in everFit
        /\ s \notin {"APPROVED", "RELEASED", "NONE"}
    BY <1>1
  <2> HIDE DEF s
  <2>3. Sound([r EXCEPT !.status = s], e)
    BY <2>2, StatusWritten
  <2>4. [r EXCEPT !.status = s].status = s /\ [r EXCEPT !.status = s].commit = r.commit
    BY DEF Sound, Record
  <2> QED  BY <2>1, <2>2, <2>3, <2>4
<1> QED  BY <1>2, <1>3 DEF Refreshed

\* A step that writes a sound record.
LEMMA SoundWrite ==
    ASSUME LaunchInv, NEW r, Sound(r, earned'), r.status # "NONE", Write(r), UNCHANGED <<fit, everFit>>,
           DOMAIN earned' = DOMAIN earned
    PROVE  LaunchInv'
BY DEF LaunchInv, Write, Sound, Record, OfItsCommit, Earned

\* Steps that leave the record alone.
LEMMA LaunchElsewhere ==
    ASSUME LaunchInv, UNCHANGED <<release, earned>>, everFit \subseteq everFit', fit' \subseteq everFit'
    PROVE  LaunchInv'
BY DEF LaunchInv, Sound, Record, OfItsCommit, Earned

\* Every step of Launch Control keeps the invariant.
LEMMA LaunchStep ==
    ASSUME LaunchInv, [LaunchNext]_launchVars
    PROVE  LaunchInv'
<1>1. Sound(release, earned) /\ fit \subseteq everFit /\ DOMAIN earned = Manual \cup {"approval"}
  BY DEF LaunchInv
<1>2. ASSUME NEW c PROVE Sound(Refresh(c), earned) /\ Refresh(c).status # "NONE"
  <2>1. Sound(Revalidated(Evaluated(Current(release, c), c)), earned)
    BY FollowsCommit, RevalidatedSound
  <2> QED  BY <2>1, RefreshedSound DEF Refresh
<1>3. CASE UNCHANGED launchVars
  BY <1>1, <1>3, LaunchElsewhere DEF launchVars
<1>4. ASSUME NEW c \in Commits, Overview(c) PROVE LaunchInv'
  <2>1. Write(Refresh(c)) /\ UNCHANGED <<fit, everFit, earned>>
    BY <1>4 DEF Overview, environment
  <2> QED  BY <1>2, <2>1, SoundWrite
<1>5. ASSUME NEW c \in Commits, Create(c) PROVE LaunchInv'
  <2> DEFINE r == [release EXCEPT !.commit = c, !.status = "DRAFT"]
  <2>1. /\ Write(r) /\ UNCHANGED <<fit, everFit, earned>>
        /\ \A k \in Checks : release.check[k] = "PENDING"
    BY <1>5 DEF Create, environment, LaunchInv
  <2>2. /\ DOMAIN r = {"commit", "status", "check"} /\ r.status = "DRAFT"
        /\ r.check = release.check /\ DOMAIN r.check = Checks
    BY <1>1 DEF Sound, Record
  <2> HIDE DEF r
  <2>3. Sound(r, earned)
    BY <2>1, <2>2, TheChecks DEF Sound, Record, OfItsCommit, Earned
  <2> QED  BY <2>1, <2>2, <2>3, SoundWrite
<1>6. ASSUME NEW k \in Manual, NEW to \in {"PASS", "BLOCKED", "WAIVED"}, UpdateCheck(k, to)
      PROVE  LaunchInv'
  <2> DEFINE r == [release EXCEPT !.check[k] = to]
  <2>1. Write(Refreshed(r)) /\ UNCHANGED <<fit, everFit>>
    BY <1>6 DEF UpdateCheck, environment
  <2>2. /\ earned' = [earned EXCEPT ![k] = release.commit]
        /\ DOMAIN earned' = DOMAIN earned
        /\ earned'[k] = release.commit
        /\ \A o \in (Manual \cup {"approval"}) \ {k} : earned'[o] = earned[o]
    BY <1>1, <1>6 DEF UpdateCheck
  <2> DEFINE f == earned'
  <2>3. /\ to \in {"PASS", "WAIVED"} => f[k] = release.commit
        /\ \A o \in (Manual \cup {"approval"}) \ {k} : f[o] = earned[o]
    BY <2>2
  <2> HIDE DEF f
  <2>4. Sound([release EXCEPT !.check[k] = to], f)
    BY <1>1, <2>3, ResultWritten
  <2>5. Sound(r, earned')
    BY <2>4 DEF f
  <2> HIDE DEF r
  <2>6. Sound(Refreshed(r), earned') /\ Refreshed(r).status # "NONE"
    BY <2>5, RefreshedSound
  <2> QED  BY <2>1, <2>2, <2>6, SoundWrite
<1>7. ASSUME NEW p \in Owners, NEW c \in Commits, NEW b \in {"APPROVE", "RELEASE"}, Press(p, c, b)
      PROVE  LaunchInv'
  <2>1. Write(Refresh(c)) /\ UNCHANGED <<fit, everFit, earned>>
    BY <1>7 DEF Press, environment
  <2> QED  BY <1>2, <2>1, SoundWrite
<1>8. ASSUME NEW p \in Owners, ApproveRelease(p) PROVE LaunchInv'
  <2> DEFINE r == Refreshed(release)
             n == [r EXCEPT !.status = "APPROVED"]
  <2>1. UNCHANGED <<fit, everFit>>
    BY <1>8 DEF ApproveRelease, environment
  <2>2. CASE r.status = "READY"
    <3>1. Write(n) /\ earned' = [earned EXCEPT !["approval"] = r.commit]
      BY <1>8, <2>2 DEF ApproveRelease
    <3>2. /\ earned'["approval"] = r.commit /\ DOMAIN earned' = DOMAIN earned
          /\ \A k \in Manual : earned'[k] = earned[k]
      BY <1>1, <3>1, TheChecks
    <3>3. Sound(r, earned) /\ r.commit \in everFit
      BY <1>1, <2>2, RefreshedSound
    <3> HIDE DEF r
    <3>4. Sound(r, earned')
      BY <2>2, <3>2, <3>3 DEF Sound, Earned
    <3>5. Sound(n, earned')
      BY <3>2, <3>3, <3>4, StatusWritten
    <3>6. n.status # "NONE"
      BY <3>3 DEF Sound, Record
    <3> QED  BY <2>1, <3>1, <3>2, <3>5, <3>6, SoundWrite
  <2>3. CASE r.status # "READY"
    <3>1. UNCHANGED <<release, earned>>
      BY <1>8, <2>3 DEF ApproveRelease
    <3> QED  BY <1>1, <2>1, <3>1, LaunchElsewhere
  <2> QED  BY <2>2, <2>3
<1>9. ASSUME NEW p \in Owners, MarkReleased(p) PROVE LaunchInv'
  <2> DEFINE n == [release EXCEPT !.status = "RELEASED"]
  <2>1. UNCHANGED <<fit, everFit, earned>>
    BY <1>9 DEF MarkReleased, environment
  <2>2. CASE release.status = "APPROVED" /\ AllComplete(release)
    <3>1. Write(n)
      BY <1>9, <2>2 DEF MarkReleased
    <3>2. release.commit \in everFit /\ earned["approval"] = release.commit
      BY <1>1, <2>2 DEF Sound, OfItsCommit, Earned
    <3>3. Sound(n, earned)
      BY <1>1, <3>2, StatusWritten
    <3>4. n.status # "NONE"
      BY <1>1 DEF Sound, Record
    <3> QED  BY <2>1, <3>1, <3>3, <3>4, SoundWrite
  <2>3. CASE ~(release.status = "APPROVED" /\ AllComplete(release))
    <3>1. UNCHANGED release
      BY <1>9, <2>3 DEF MarkReleased
    <3> QED  BY <1>1, <2>1, <3>1, LaunchElsewhere
  <2> QED  BY <2>2, <2>3
<1>10. ASSUME NEW c \in Commits, Deploy(c) \/ Retire(c) \/ LosesFitness(c) PROVE LaunchInv'
  BY <1>1, <1>10, LaunchElsewhere DEF Deploy, Retire, LosesFitness
<1>11. ASSUME NEW c \in Commits, BecomesFit(c) PROVE LaunchInv'
  BY <1>1, <1>11, LaunchElsewhere DEF BecomesFit
<1>12. ASSUME NEW to, RunMoves(to) \/ MailboxMoves(to) PROVE LaunchInv'
  BY <1>1, <1>12, LaunchElsewhere DEF RunMoves, MailboxMoves, environment
<1> QED
  BY <1>3, <1>4, <1>5, <1>6, <1>7, <1>8, <1>9, <1>10, <1>11, <1>12 DEF LaunchNext

\* However instances of two commits take turns, and whatever their owners press in between, a
\* manual result, an approval and a release are those of the commit the record names, and a
\* record that is ready, approved or released names a commit whose automated conditions have
\* held (ensureCurrentRelease, evaluateAutomatedChecks, refreshReleaseStatus, approve,
\* markReleased).
THEOREM AlwaysAcceptedForItsCommit == LaunchSpec => []AcceptedForItsCommit
<1>1. LaunchInit => LaunchInv
  <2> SUFFICES ASSUME LaunchInit PROVE LaunchInv
    OBVIOUS
  <2>1. /\ release = [commit |-> "none", status |-> "NONE", check |-> [k \in Checks |-> "PENDING"]]
        /\ fit = {} /\ DOMAIN earned = Manual \cup {"approval"}
    BY DEF LaunchInit
  <2>2. Record(release) /\ release.status = "NONE" /\ \A k \in Checks : release.check[k] = "PENDING"
    BY <2>1, TheChecks DEF Record
  <2>3. OfItsCommit(release) /\ Earned(release, earned)
    BY <2>2, TheChecks DEF OfItsCommit, Earned
  <2> QED  BY <2>1, <2>2, <2>3 DEF LaunchInv, Sound
<1>2. LaunchInv /\ [LaunchNext]_launchVars => LaunchInv'
  BY LaunchStep
<1>3. LaunchInv => AcceptedForItsCommit
  BY DEF LaunchInv, Sound, OfItsCommit, Earned, AcceptedForItsCommit
<1> QED  BY <1>1, <1>2, <1>3, PTL DEF LaunchSpec

-----------------------------------------------------------------------------
(***************************************************************************)
(* Pipelines.  What holds as long as there is one worker and a started     *)
(* request ends before a model call returns, with retries, suspensions and *)
(* deaths: until its first run is queued a pipeline has one owner, the     *)
(* request that starts it; afterwards, the worker.                         *)
(***************************************************************************)
OneAtATime ==
    /\ \A v, w \in Workers : v = w
    /\ PromptStart

After == {"advancing", "handing", "refreshing", "writing", "closing", "reporting", "failing"}

PipeShape ==
    /\ run \in [Runs -> {"NONE", "QUEUED", "RUNNING", "SUCCEEDED", "FAILED", "CANCELLED"}]
    /\ DOMAIN job = Runs
    /\ attempts \in [Runs -> Nat]
    /\ pipe \in [Pipes -> {"NONE", "QUEUED", "RUNNING", "SUCCEEDED", "PARTIAL", "FAILED", "CANCELLED"}]
    /\ doing \in [Workers -> {"idle", "generating", "sweeping"} \cup After]
    /\ claim \in [Workers -> [run : Runs, attempt : Nat] \cup {NoClaim}]
    /\ todo \in [Workers -> SUBSET Runs]
    /\ verdict \in [Workers -> {"none", "RUNNING", "SUCCEEDED", "PARTIAL", "FAILED"}]
    /\ request \in [Clients -> [op : {"enqueue", "retry"}, run : Runs] \cup {Idle}]
    /\ starting \in [Apis -> [step : {"inserted", "enqueued", "failing"}, pipe : Pipes] \cup {NotStarting}]

\* A run agrees with its job as far as the engine lets it, and has a pipeline that was started.
RunsBelong ==
    \A r \in Runs :
        /\ job[r] = AgreeingJob(run[r]) \/ Stranded(r)
        /\ PipeOf[r] \in Pipes /\ run[r] # "NONE" => pipe[PipeOf[r]] # "NONE"

\* The worker after a run of a pipeline, which no request is starting any more.
Follows(w) ==
    /\ doing[w] \in {"generating"} \cup After => claim[w] # NoClaim /\ run[claim[w].run] # "NONE"
    /\ doing[w] \in After => PipeOfClaim(w) \in Pipes /\ ~Starting(PipeOfClaim(w))
    /\ doing[w] \in {"writing", "closing"} => verdict[w] # "none"
    /\ doing[w] = "handing" => \A r \in todo[w] : PipeOf[r] = PipeOfClaim(w)
    /\ request[w] # Idle =>
          /\ doing[w] = "handing"
          /\ request[w].op = "enqueue"
          /\ request[w].run \in todo[w]

\* A request starts a pipeline alone, and until it has queued Atlas there is no run of it.
Starts(c) ==
    /\ starting[c] # NotStarting =>
          /\ pipe[starting[c].pipe] # "NONE"
          /\ \A d \in Apis : starting[d] # NotStarting /\ starting[d].pipe = starting[c].pipe => d = c
    /\ starting[c].step = "inserted" => RunsOf(starting[c].pipe) = {}
    /\ request[c].op = "retry" => starting[c] = NotStarting /\ run[request[c].run] # "NONE"
    /\ request[c].op = "enqueue" =>
          \/ starting[c] = NotStarting /\ PipeOf[request[c].run] \notin Pipes
          \/ starting[c].step = "inserted" /\ starting[c].pipe = PipeOf[request[c].run]

PipeInv ==
    /\ PipeShape
    /\ RunsBelong
    /\ \A w \in Workers : Follows(w)
    /\ \A c \in Apis : Starts(c)

LEMMA PipeStart == PipeInit => PipeInv
<1> SUFFICES ASSUME PipeInit PROVE PipeInv
  OBVIOUS
<1> USE PipelineAssumption DEF PipeInit, Init, EngineInit, NotStarting, Idle, NoClaim, After
<1>1. PipeShape /\ RunsBelong
  BY DEF PipeShape, RunsBelong, AgreeingJob
<1>2. \A w \in Workers : Follows(w)
  BY DEF Follows
<1>3. \A c \in Apis : Starts(c)
  BY DEF Starts
<1> QED  BY <1>1, <1>2, <1>3 DEF PipeInv

\* Every step keeps to it.
LEMMA PipeStep ==
    ASSUME OneAtATime, PipeInv, [PipeNext]_allVars
    PROVE  PipeInv'
<1> USE PipelineAssumption DEF PipeInv, OneAtATime, PipeShape, RunsBelong, Follows, Starts, After, RunsOf,
        AgreeingJob, Stranded, Starting, PipeOfClaim, Idle, NoClaim, NotStarting, jobVars, workerVars, pipeVars
<1>1. ASSUME NEW c \in Apis, NEW p \in Pipes, StartPipeline(c, p) PROVE PipeInv'
  BY <1>1 DEF StartPipeline, Free, vars, engineVars
<1>2. ASSUME NEW c \in Apis, NEW r \in Runs, StartEnqueues(c, r) PROVE PipeInv'
  BY <1>2 DEF StartEnqueues, EnqueueBegin, Unused
<1>3. ASSUME NEW c \in Apis, StartReuses(c) PROVE PipeInv'
  BY <1>3 DEF StartReuses, Step, vars, engineVars
<1>4. ASSUME NEW c \in Apis, StartThrows(c) PROVE PipeInv'
  BY <1>4 DEF StartThrows, RollBack, Step
<1>5. ASSUME NEW c \in Apis, StartRuns(c) PROVE PipeInv'
  <2>1. starting[c] = [step |-> "enqueued", pipe |-> starting[c].pipe] /\ starting[c].pipe \in Pipes
    BY <1>5 DEF StartRuns
  <2>2. CASE Competes(starting[c].pipe)
    <3>1. /\ starting' = [starting EXCEPT ![c] = [step |-> "failing", pipe |-> starting[c].pipe]]
          /\ UNCHANGED <<vars, todo, verdict, pipe>>
      BY <1>5, <2>1, <2>2 DEF StartRuns, Step
    <3> QED  BY <2>1, <3>1 DEF vars, engineVars
  <2>3. CASE ~Competes(starting[c].pipe)
    <3>1. /\ starting' = [starting EXCEPT ![c] = NotStarting]
          /\ pipe' = [pipe EXCEPT ![starting[c].pipe] = "RUNNING"] /\ UNCHANGED <<vars, todo, verdict>>
      BY <1>5, <2>3 DEF StartRuns
    <3> QED  BY <2>1, <3>1 DEF vars, engineVars
  <2> QED  BY <2>2, <2>3
<1>6. ASSUME NEW c \in Apis, StartFails(c) PROVE PipeInv'
  BY <1>6 DEF StartFails, FailPipeline
<1>7. ASSUME NEW c \in Apis, NEW r \in Runs, EnqueueAlone(c, r) PROVE PipeInv'
  BY <1>7 DEF EnqueueAlone, EnqueueBegin, Unused, Free
<1>8. ASSUME NEW c \in Clients, Count(c) PROVE PipeInv'
  BY <1>8 DEF Count, CountToday, engineVars
<1>9. ASSUME NEW c \in Clients, Commit(c) PROVE PipeInv'
  <2>1. PipeShape'
    BY <1>9, SMTT(30) DEF Commit, EnqueueCommit, InsertRun, Step
  <2>2. RunsBelong'
    BY <1>9 DEF Commit, EnqueueCommit, InsertRun, Step
  <2>3. \A v \in Workers : Follows(v)'
    BY <1>9 DEF Commit, EnqueueCommit, InsertRun, Step
  <2>4. \A a \in Apis : Starts(a)'
    <3>1. /\ request[c].run \in Runs /\ request[c].op = "enqueue" /\ c \in Apis \cup Workers
          /\ run' = [run EXCEPT ![request[c].run] = "QUEUED"]
          /\ request' = [request EXCEPT ![c] = Idle] /\ UNCHANGED pipe
      BY <1>9 DEF Commit, EnqueueCommit, InsertRun
    <3>2. CASE c \in Workers
      <4>1. /\ doing[c] \in After /\ PipeOf[request[c].run] = PipeOfClaim(c) /\ ~Starting(PipeOfClaim(c))
            /\ UNCHANGED starting
        BY <1>9, <3>1, <3>2 DEF Commit
      <4>2. \A a \in Apis : request'[a] = request[a]
        BY <3>1, <3>2
      <4>3. \A a \in Apis : starting[a].step = "inserted" => PipeOf[request[c].run] # starting[a].pipe
        BY <4>1
      <4> QED  BY <3>1, <4>1, <4>2, <4>3
    <3>3. CASE c \in Apis /\ starting[c] = NotStarting
      <4>1. UNCHANGED starting /\ PipeOf[request[c].run] \notin Pipes
        BY <1>9, <3>1, <3>3 DEF Commit
      <4> QED  BY <3>1, <3>3, <4>1
    <3>4. CASE c \in Apis /\ starting[c] # NotStarting
      <4>1. /\ starting[c] = [step |-> "inserted", pipe |-> PipeOf[request[c].run]]
            /\ PipeOf[request[c].run] \in Pipes
        BY <3>1, <3>4
      <4>2. starting' = [starting EXCEPT ![c] = [step |-> "enqueued", pipe |-> PipeOf[request[c].run]]]
        BY <1>9, <3>4, <4>1 DEF Commit, Step
      <4> QED  BY <3>1, <3>4, <4>1, <4>2
    <3> QED  BY <3>1, <3>2, <3>3, <3>4
  <2> QED  BY <2>1, <2>2, <2>3, <2>4
<1>10. ASSUME NEW c \in Apis, NEW r \in Runs, RetryRead(c, r) PROVE PipeInv'
  BY <1>10 DEF RetryRead, RetryBegin, Free
<1>11. ASSUME NEW c \in Apis, RetryRun(c) PROVE PipeInv'
  BY <1>11, SMTT(30) DEF RetryRun, RetryCommit
<1>12. ASSUME NEW c \in Apis, RequestThrows(c) PROVE PipeInv'
  BY <1>12 DEF RequestThrows, RequestFails, RollBack
<1>13. ASSUME NEW c \in Apis, ApiDies(c) PROVE PipeInv'
  BY <1>13 DEF ApiDies, RollBack
<1>14. ASSUME NEW w \in Workers, Claim(w) /\ UNCHANGED pipeVars PROVE PipeInv'
  BY <1>14 DEF Claim, NextAttempt
<1>15. ASSUME NEW w \in Workers, Beat(w) /\ UNCHANGED pipeVars PROVE PipeInv'
  BY <1>15 DEF Beat
<1>16. ASSUME NEW w \in Workers, SweepRead(w) /\ UNCHANGED pipeVars PROVE PipeInv'
  BY <1>16 DEF SweepRead
<1>17. ASSUME NEW w \in Workers, SweepWrite(w) /\ UNCHANGED pipeVars PROVE PipeInv'
  BY <1>17 DEF SweepWrite, Swept
<1>18. ASSUME NEW w \in Workers, SucceedInPipe(w) PROVE PipeInv'
  BY <1>18 DEF SucceedInPipe, Complete, TurnTo
<1>19. ASSUME NEW w \in Workers, FailInPipe(w) PROVE PipeInv'
  <2> DEFINE r == claim[w].run
  <2>1. doing[w] = "generating" /\ r \in Runs /\ run[r] # "NONE" /\ ~Starting(PipeOfClaim(w))
    BY <1>19 DEF FailInPipe, FailThen
  <2>2. \/ run' = [run EXCEPT ![r] = "QUEUED"] /\ job' = [job EXCEPT ![r] = "QUEUED"]
        \/ run' = [run EXCEPT ![r] = "FAILED"] /\ job' = [job EXCEPT ![r] = "DEAD_LETTER"]
    BY <1>19 DEF FailInPipe, FailThen, RetryLater, GiveUp, Ended
  <2>3. /\ UNCHANGED <<attempts, request, pipe, starting, todo, verdict>>
        /\ TurnTo(w, IF PipeOfClaim(w) = NoPipe THEN "idle" ELSE "reporting")
    BY <1>19 DEF FailInPipe, FailThen
  <2> QED  BY <2>1, <2>2, <2>3 DEF TurnTo
<1>20. ASSUME NEW w \in Workers, Advance(w) PROVE PipeInv'
  BY <1>20 DEF Advance, Found
<1>21. ASSUME NEW w \in Workers, NEW r \in Runs, HandBegins(w, r) PROVE PipeInv'
  BY <1>21 DEF HandBegins, EnqueueBegin, Unused
<1>22. ASSUME NEW w \in Workers, NEW r \in Runs, HandReuses(w, r) PROVE PipeInv'
  BY <1>22 DEF HandReuses, vars, engineVars
<1>23. ASSUME NEW w \in Workers, HandThrows(w) PROVE PipeInv'
  BY <1>23 DEF HandThrows, RollBack
<1>24. ASSUME NEW w \in Workers, HandsOver(w) PROVE PipeInv'
  BY <1>24 DEF HandsOver
<1>25. ASSUME NEW w \in Workers, RefreshRead(w) PROVE PipeInv'
  BY <1>25 DEF RefreshRead, StatusOf
<1>26. ASSUME NEW w \in Workers, RefreshWrite(w) PROVE PipeInv'
  BY <1>26 DEF RefreshWrite, TurnTo
<1>27. ASSUME NEW w \in Workers, HandoffFails(w) PROVE PipeInv'
  BY <1>27 DEF HandoffFails, FailPipeline, TurnTo
<1>28. ASSUME NEW w \in Workers, WorkerDies(w) PROVE PipeInv'
  BY <1>28 DEF WorkerDies, Dies, RollBack, TurnTo
<1>29. ASSUME NEW d \in Decisions, NEW late \in SUBSET Overdue, StopPipelines(d, late)
       PROVE  PipeInv'
  <2>1. \A w \in late : /\ doing[w] = "generating" /\ claim[w].run \in Runs
                         /\ claim[w] # NoClaim /\ run[claim[w].run] # "NONE"
    BY <1>29 DEF Overdue
  <2>2. \A w \in late : ~Starting(PipeOfClaim(w))
    BY <1>29 DEF StopPipelines
  <2>3. /\ DOMAIN run' = Runs /\ \A s \in Runs : run'[s] # "NONE" <=> run[s] # "NONE"
        /\ \A p \in Pipes : pipe'[p] # "NONE" <=> pipe[p] # "NONE"
        /\ UNCHANGED <<request, starting, todo, verdict>>
    BY <1>29, <2>1 DEF StopPipelines, StopOrganisation, Live, Active
  <2>4. PipeShape'
    BY <1>29, <2>1 DEF StopPipelines, StopOrganisation, CancelJobs, Live, Active
  <2>5. RunsBelong'
    BY <1>29, <2>3 DEF StopPipelines, StopOrganisation, CancelJobs, Active
  <2>6. \A w \in Workers : Follows(w)'
    <3>1. \A w \in Workers :
             \/ doing'[w] = doing[w] /\ claim'[w] = claim[w]
             \/ doing'[w] = "idle" /\ w \in late
             \/ doing'[w] = "reporting" /\ claim'[w] = claim[w] /\ w \in late /\ PipeOfClaim(w) \in Pipes
      BY <1>29, <2>1 DEF StopPipelines, StopOrganisation
    <3> QED  BY <2>1, <2>2, <2>3, <3>1
  <2>7. \A c \in Apis : Starts(c)'
    BY <2>3
  <2> QED  BY <2>4, <2>5, <2>6, <2>7
<1>30. ASSUME NEW r \in Runs, Dismiss(r) /\ UNCHANGED pipeVars PROVE PipeInv'
  BY <1>30 DEF Dismiss
<1>31. ASSUME NEW r \in Runs, BeatExpires(r) /\ UNCHANGED pipeVars PROVE PipeInv'
  BY <1>31 DEF BeatExpires
<1>32. ASSUME Surroundings /\ UNCHANGED pipeVars PROVE PipeInv'
  BY <1>32 DEF Surroundings, engineVars
<1>33. ASSUME UNCHANGED allVars PROVE PipeInv'
  BY <1>33 DEF allVars, vars, engineVars
<1>34. ASSUME NEW w \in Workers, Work(w) PROVE PipeInv'
  BY <1>14, <1>15, <1>16, <1>17, <1>34 DEF Work
<1>35. ASSUME Others PROVE PipeInv'
  BY <1>30, <1>31, <1>32, <1>35 DEF Others
<1> HIDE PipelineAssumption DEF PipeInv, OneAtATime, pipeVars
<1> QED
  BY <1>1, <1>2, <1>3, <1>4, <1>5, <1>6, <1>7, <1>8, <1>9, <1>10, <1>11, <1>12, <1>13, <1>18, <1>19,
     <1>20, <1>21, <1>22, <1>23, <1>24, <1>25, <1>26, <1>27, <1>28, <1>29, <1>33, <1>34, <1>35
     DEF PipeNext

-----------------------------------------------------------------------------
(***************************************************************************)
(* Without manual retries: the status a worker computes in one step and    *)
(* writes in another is true all the time, since nobody brings back the    *)
(* runs it counted.                                                        *)
(***************************************************************************)
Orderly == OneAtATime /\ AttemptBound = 0

\* What a status says of the runs, computed or written.
Says(p, status) ==
    /\ status \in {"SUCCEEDED", "PARTIAL"} => \A r \in RunsOf(p) : run[r] \notin Active
    /\ status = "SUCCEEDED" => \A r \in RunsOf(p) : run[r] \in {"SUCCEEDED", "CANCELLED"}
    /\ status = "FAILED" => \A r \in RunsOf(p) : run[r] \in Active => attempts[r] > 0

Begun(r) == attempts[r] > 0

\* Who may still queue or end a run of the pipeline finds it open.
OpenFor(w) ==
    /\ doing[w] \in {"generating"} \cup After => Begun(claim[w].run)
    /\ doing[w] = "generating" /\ PipeOfClaim(w) \in Pipes =>
          pipe[PipeOfClaim(w)] \notin {"SUCCEEDED", "PARTIAL"}
    /\ request[w] # Idle => pipe[PipeOfClaim(w)] \in Live \cup {"CANCELLED"}
    /\ doing[w] \in {"writing", "closing"} => Says(PipeOfClaim(w), verdict[w])

VerdictInv ==
    /\ \A c \in Clients : request[c].op # "retry"
    /\ \A r \in Runs : run[r] = "RUNNING" => Begun(r)
    /\ \A p \in Pipes : Says(p, pipe[p])
    /\ \A w \in Workers : OpenFor(w)
    /\ \A c \in Apis : starting[c].step = "inserted" => pipe[starting[c].pipe] \in Live \cup {"CANCELLED"}

\* Every step keeps the verdicts true.
LEMMA VerdictStep ==
    ASSUME Orderly, PipeInv, VerdictInv, [PipeNext]_allVars
    PROVE  VerdictInv'
<1>a. OneAtATime /\ PipeInv'
  BY PipeStep DEF Orderly
<1>j. \A r \in Runs : /\ job[r] \in {"QUEUED", "RUNNING"} => run[r] = job[r]
                      /\ PipeOf[r] \in Pipes /\ run[r] # "NONE" => pipe[PipeOf[r]] # "NONE"
  BY DEF PipeInv, PipeShape, RunsBelong, AgreeingJob, Stranded
<1>s. PipeShape
  BY DEF PipeInv
<1> USE <1>a, <1>j, PipelineAssumption DEF PipeInv, VerdictInv, OneAtATime, PipeShape, Follows, Starts,
        OpenFor, Says, Begun, Active, Live, After, RunsOf, Starting, PipeOfClaim, Idle, NoClaim,
        NotStarting, jobVars, workerVars, pipeVars
<1>1. ASSUME NEW c \in Apis, NEW p \in Pipes, StartPipeline(c, p) PROVE VerdictInv'
  BY <1>1 DEF StartPipeline, Free, vars, engineVars
<1>2. ASSUME NEW c \in Apis, NEW r \in Runs, StartEnqueues(c, r) PROVE VerdictInv'
  BY <1>2 DEF StartEnqueues, EnqueueBegin, Unused
<1>3. ASSUME NEW c \in Apis, StartReuses(c) PROVE VerdictInv'
  BY <1>3 DEF StartReuses, Step, vars, engineVars
<1>4. ASSUME NEW c \in Apis, StartThrows(c) PROVE VerdictInv'
  BY <1>4 DEF StartThrows, RollBack, Step
<1>5. ASSUME NEW c \in Apis, StartRuns(c) PROVE VerdictInv'
  <2>1. /\ UNCHANGED <<run, attempts, doing, claim, request, verdict>>
        /\ \A q \in Pipes : pipe'[q] \in {pipe[q], "RUNNING"}
        /\ \A a \in Apis : starting'[a].step = "inserted" => starting'[a] = starting[a]
    BY <1>5 DEF StartRuns, Step, vars, engineVars
  <2>2. (\A q \in Pipes : Says(q, pipe[q]))'
    BY <2>1
  <2>3. (\A w \in Workers : OpenFor(w))'
    <3>1. \A w \in Workers : doing[w] \in After => PipeOfClaim(w) \in Pipes
      OBVIOUS
    <3>2. \A w \in Workers : request[w] # Idle => doing[w] \in After
      OBVIOUS
    <3> QED  BY <2>1, <3>1, <3>2
  <2>4. (\A a \in Apis : starting[a].step = "inserted" => pipe[starting[a].pipe] \in Live \cup {"CANCELLED"})'
    BY <2>1
  <2> QED  BY <2>1, <2>2, <2>3, <2>4
<1>6. ASSUME NEW c \in Apis, StartFails(c) PROVE VerdictInv'
  BY <1>6 DEF StartFails, FailPipeline
<1>7. ASSUME NEW c \in Apis, NEW r \in Runs, EnqueueAlone(c, r) PROVE VerdictInv'
  BY <1>7 DEF EnqueueAlone, EnqueueBegin, Unused, Free
<1>8. ASSUME NEW c \in Clients, Count(c) PROVE VerdictInv'
  BY <1>8 DEF Count, CountToday, engineVars
<1>9. ASSUME NEW c \in Clients, Commit(c) PROVE VerdictInv'
  <2>1. \A a \in Clients : request'[a].op # "retry"
    BY <1>9 DEF Commit, EnqueueCommit, InsertRun, Step
  <2>2. \A s \in Runs : run'[s] = "RUNNING" => Begun(s)'
    BY <1>9 DEF Commit, EnqueueCommit, InsertRun, Step
  <2>3. (\A q \in Pipes : Says(q, pipe[q]))'
    <3>1. /\ request[c].run \in Runs /\ request[c].op = "enqueue" /\ c \in Apis \cup Workers
          /\ run' = [run EXCEPT ![request[c].run] = "QUEUED"] /\ UNCHANGED <<pipe, attempts>>
      BY <1>9 DEF Commit, EnqueueCommit, InsertRun
    <3>2. PipeOf[request[c].run] \in Pipes => pipe[PipeOf[request[c].run]] \in Live \cup {"CANCELLED"}
      <4>1. CASE c \in Workers
        BY <3>1, <4>1
      <4>2. CASE c \in Apis
        BY <3>1, <4>2
      <4> QED  BY <3>1, <4>1, <4>2
    <3> QED  BY <3>1, <3>2
  <2>4. \A v \in Workers : OpenFor(v)'
    BY <1>9 DEF Commit, EnqueueCommit, InsertRun, Step
  <2>5. \A a \in Apis : starting'[a].step = "inserted" => pipe'[starting'[a].pipe] \in Live \cup {"CANCELLED"}
    BY <1>9, SMTT(30) DEF Commit, EnqueueCommit, InsertRun, Step
  <2> QED  BY <2>1, <2>2, <2>3, <2>4, <2>5
<1>10. ASSUME NEW c \in Apis, NEW r \in Runs, RetryRead(c, r) PROVE VerdictInv'
  BY <1>10 DEF RetryRead, RetryBegin, Free, Orderly
<1>11. ASSUME NEW c \in Apis, RetryRun(c) PROVE VerdictInv'
  BY <1>11 DEF RetryRun, RetryCommit
<1>12. ASSUME NEW c \in Apis, RequestThrows(c) PROVE VerdictInv'
  BY <1>12 DEF RequestThrows, RequestFails, RollBack
<1>13. ASSUME NEW c \in Apis, ApiDies(c) PROVE VerdictInv'
  BY <1>13 DEF ApiDies, RollBack
<1>14. ASSUME NEW w \in Workers, Claim(w) /\ UNCHANGED pipeVars PROVE VerdictInv'
  <2>0. PICK r \in Runs :
           /\ job[r] = "QUEUED" /\ run' = [run EXCEPT ![r] = "RUNNING"]
           /\ attempts' = [attempts EXCEPT ![r] = NextAttempt(r)]
           /\ claim' = [claim EXCEPT ![w] = [run |-> r, attempt |-> NextAttempt(r)]]
    BY ONLY <1>14, Zenon DEF Claim
  <2>1. \A a \in Clients : request'[a].op # "retry"
    BY <1>14 DEF Claim, NextAttempt
  <2>2. \A s \in Runs : run'[s] = "RUNNING" => Begun(s)'
    BY <1>14 DEF Claim, NextAttempt
  <2>5. /\ run[r] = "QUEUED" /\ attempts'[r] > 0 /\ UNCHANGED pipe
        /\ \A s \in Runs : s # r => run'[s] = run[s] /\ attempts'[s] = attempts[s]
        /\ run'[r] = "RUNNING"
    <3>0. /\ r \in Runs /\ job[r] = "QUEUED" /\ run' = [run EXCEPT ![r] = "RUNNING"]
          /\ attempts' = [attempts EXCEPT ![r] = NextAttempt(r)]
      BY <2>0
    <3>1. DOMAIN run = Runs /\ attempts \in [Runs -> Nat]
      BY ONLY <1>s DEF PipeShape
    <3>3. run[r] = "QUEUED"
      BY ONLY <3>0, <1>j
    <3>2. UNCHANGED pipe
      BY ONLY <1>14 DEF pipeVars
    <3> QED  BY ONLY <3>0, <3>1, <3>2, <3>3 DEF NextAttempt
  <2>6. \A q \in Pipes : Says(q, pipe[q])
    OBVIOUS
  <2>7. \A q : RunsOf(q)' = RunsOf(q)
    BY ONLY <2>5 DEF RunsOf
  <2>3. (\A q \in Pipes : Says(q, pipe[q]))'
    <3>1. ASSUME NEW q \in Pipes PROVE Says(q, pipe[q])'
      <4>1. Says(q, pipe[q]) /\ RunsOf(q)' = RunsOf(q) /\ \A s \in RunsOf(q) : s \in Runs
        BY ONLY <2>6, <2>7, <3>1 DEF RunsOf
      <4> QED  BY ONLY <2>5, <4>1 DEF Says, Active
    <3> QED  BY ONLY <3>1
  <2>4. \A v \in Workers : OpenFor(v)'
    <3>2. \A v \in Workers : v = w /\ doing'[v] = "generating" /\ request'[v] = Idle /\ UNCHANGED pipe
      BY <1>14 DEF Claim
    <3>3. claim'[w].run = r /\ attempts'[r] > 0
      BY <2>0 DEF NextAttempt
    <3>5. PipeOf[r] \in Pipes => pipe[PipeOf[r]] \notin {"SUCCEEDED", "PARTIAL"}
      BY ONLY <2>5, <2>6 DEF Says, RunsOf, Active
    <3> QED  BY <3>2, <3>3, <3>5
  <2>8. \A a \in Apis : starting'[a].step = "inserted" => pipe'[starting'[a].pipe] \in Live \cup {"CANCELLED"}
    BY <1>14 DEF Claim
  <2> QED  BY ONLY <2>1, <2>2, <2>3, <2>4, <2>8
<1>15. ASSUME NEW w \in Workers, Beat(w) /\ UNCHANGED pipeVars PROVE VerdictInv'
  BY <1>15 DEF Beat
<1>16. ASSUME NEW w \in Workers, SweepRead(w) /\ UNCHANGED pipeVars PROVE VerdictInv'
  BY <1>16 DEF SweepRead
<1>17. ASSUME NEW w \in Workers, SweepWrite(w) /\ UNCHANGED pipeVars PROVE VerdictInv'
  BY <1>17 DEF SweepWrite, Swept
<1>18. ASSUME NEW w \in Workers, SucceedInPipe(w) PROVE VerdictInv'
  BY <1>18 DEF SucceedInPipe, Complete, TurnTo
<1>19. ASSUME NEW w \in Workers, FailInPipe(w) PROVE VerdictInv'
  <2>1. \A a \in Clients : request'[a].op # "retry"
    BY <1>19 DEF FailInPipe, FailThen, TurnTo, RetryLater, GiveUp, Ended
  <2>2. \A s \in Runs : run'[s] = "RUNNING" => Begun(s)'
    BY <1>19 DEF FailInPipe, FailThen, TurnTo, RetryLater, GiveUp, Ended
  <2>3. (\A q \in Pipes : Says(q, pipe[q]))'
    <3>1. /\ claim[w].run \in Runs /\ doing[w] = "generating" /\ UNCHANGED <<pipe, attempts>>
          /\ RetryLater(claim[w].run) \/ GiveUp(claim[w].run)
      BY <1>19 DEF FailInPipe, FailThen
    <3>2. \A r \in Runs : run'[r] # run[r] => r = claim[w].run /\ run'[r] \in {"QUEUED", "FAILED"}
      BY <3>1 DEF RetryLater, GiveUp, Ended
    <3>3. /\ run[claim[w].run] # "NONE" /\ attempts[claim[w].run] > 0
          /\ \A q \in Pipes : pipe[q] \in {"SUCCEEDED", "PARTIAL"} => PipeOfClaim(w) # q
      BY <3>1
    <3> SUFFICES ASSUME NEW q \in Pipes PROVE Says(q, pipe[q])'
      OBVIOUS
    <3>4. pipe[q] \in {"SUCCEEDED", "PARTIAL"} => \A r \in RunsOf(q) : run'[r] = run[r]
      BY <3>2, <3>3
    <3>5. pipe[q] = "FAILED" => \A r \in RunsOf(q) : run'[r] \in Active => attempts[r] > 0
      BY <3>2, <3>3
    <3>6. Says(q, pipe[q])
      OBVIOUS
    <3>7. RunsOf(q)' = RunsOf(q)
      <4>1. \A r \in Runs : run'[r] = "NONE" <=> run[r] = "NONE"
        BY ONLY <3>2, <3>3
      <4> QED  BY ONLY <4>1 DEF RunsOf
    <3> QED
      BY ONLY <3>1, <3>4, <3>5, <3>6, <3>7 DEF Says
  <2>4. \A v \in Workers : OpenFor(v)'
    BY <1>19 DEF FailInPipe, FailThen, TurnTo, RetryLater, GiveUp, Ended
  <2>5. \A a \in Apis : starting'[a].step = "inserted" => pipe'[starting'[a].pipe] \in Live \cup {"CANCELLED"}
    BY <1>19 DEF FailInPipe, FailThen, TurnTo, RetryLater, GiveUp, Ended
  <2> QED  BY <2>1, <2>2, <2>3, <2>4, <2>5
<1>20. ASSUME NEW w \in Workers, Advance(w) PROVE VerdictInv'
  BY <1>20 DEF Advance, Found
<1>21. ASSUME NEW w \in Workers, NEW r \in Runs, HandBegins(w, r) PROVE VerdictInv'
  BY <1>21 DEF HandBegins, EnqueueBegin, Unused
<1>22. ASSUME NEW w \in Workers, NEW r \in Runs, HandReuses(w, r) PROVE VerdictInv'
  BY <1>22 DEF HandReuses, vars, engineVars
<1>23. ASSUME NEW w \in Workers, HandThrows(w) PROVE VerdictInv'
  BY <1>23 DEF HandThrows, RollBack
<1>24. ASSUME NEW w \in Workers, HandsOver(w) PROVE VerdictInv'
  BY <1>24 DEF HandsOver
<1>25. ASSUME NEW w \in Workers, RefreshRead(w) PROVE VerdictInv'
  <2>1. \A a \in Clients : request'[a].op # "retry"
    BY <1>25 DEF RefreshRead, StatusOf
  <2>2. \A s \in Runs : run'[s] = "RUNNING" => Begun(s)'
    BY <1>25 DEF RefreshRead, StatusOf
  <2>3. (\A q \in Pipes : Says(q, pipe[q]))'
    BY <1>25 DEF RefreshRead, StatusOf
  <2>4. \A v \in Workers : OpenFor(v)'
    <3> DEFINE p == PipeOfClaim(w)
               now == {run[r] : r \in RunsOf(p)}
    <3>1. /\ \A v \in Workers : v = w
          /\ verdict'[w] = StatusOf(p)
          /\ doing'[w] \in {"writing", "closing"} /\ doing[w] \in {"refreshing", "reporting"}
          /\ UNCHANGED <<run, attempts, claim, request, pipe, starting, todo>>
      BY <1>25 DEF RefreshRead
    <3>2. StatusOf(p) # "RUNNING" => now \cap Active = {}
      BY DEF StatusOf
    <3>3. StatusOf(p) = "SUCCEEDED" => "FAILED" \notin now
      BY DEF StatusOf
    <3>6. StatusOf(p) \in {"RUNNING", "SUCCEEDED", "PARTIAL", "FAILED"}
      BY DEF StatusOf
    <3>4. Says(p, StatusOf(p))
      <4>1. \A r \in RunsOf(p) : run[r] \in now
        OBVIOUS
      <4> HIDE DEF now
      <4>2. StatusOf(p) # "RUNNING" => \A r \in RunsOf(p) : run[r] \notin Active
        BY <3>2, <4>1
      <4>3. StatusOf(p) = "SUCCEEDED" => \A r \in RunsOf(p) : run[r] # "FAILED"
        BY <3>3, <4>1
      <4> QED  BY <4>2, <4>3, <3>6
    <3>5. Says(PipeOfClaim(w), verdict[w])'
      BY <3>1, <3>4
    <3> QED  BY <3>1, <3>5
  <2>5. \A a \in Apis : starting'[a].step = "inserted" => pipe'[starting'[a].pipe] \in Live \cup {"CANCELLED"}
    BY <1>25 DEF RefreshRead, StatusOf
  <2> QED  BY <2>1, <2>2, <2>3, <2>4, <2>5
<1>26. ASSUME NEW w \in Workers, RefreshWrite(w) PROVE VerdictInv'
  BY <1>26 DEF RefreshWrite, TurnTo
<1>27. ASSUME NEW w \in Workers, HandoffFails(w) PROVE VerdictInv'
  BY <1>27 DEF HandoffFails, FailPipeline, TurnTo
<1>28. ASSUME NEW w \in Workers, WorkerDies(w) PROVE VerdictInv'
  BY <1>28 DEF WorkerDies, Dies, RollBack, TurnTo
<1>29. ASSUME NEW d \in Decisions, NEW late \in SUBSET Overdue, StopPipelines(d, late)
       PROVE  VerdictInv'
  <2> DEFINE back == {claim[w].run : w \in late}
  <2>1. \A w \in late : /\ w \in Workers /\ doing[w] = "generating" /\ claim[w].run \in Runs
                         /\ Begun(claim[w].run) /\ claim[w] # NoClaim
    BY <1>29 DEF Overdue
  <2>2. /\ \A s \in Runs : run'[s] = IF s \in back THEN "QUEUED"
                                    ELSE IF run[s] \in Active THEN "CANCELLED" ELSE run[s]
        /\ \A p \in Pipes : pipe'[p] = IF pipe[p] \in Live THEN "CANCELLED" ELSE pipe[p]
        /\ UNCHANGED <<attempts, request, starting, todo, verdict>>
    BY <1>29 DEF StopPipelines, StopOrganisation
  <2>3. \A w \in Workers :
             \/ doing'[w] = doing[w] /\ claim'[w] = claim[w]
             \/ doing'[w] = "idle" /\ w \in late
             \/ doing'[w] = "reporting" /\ claim'[w] = claim[w] /\ w \in late
    BY <1>29, <2>1 DEF StopPipelines, StopOrganisation
  <2>4. \A s \in back : /\ Begun(s)
                        /\ PipeOf[s] \in Pipes => pipe[PipeOf[s]] \notin {"SUCCEEDED", "PARTIAL"}
                        /\ \E w \in Workers : doing[w] = "generating"
    BY <2>1
  <2> HIDE DEF back
  <2>5. \A s \in Runs : run'[s] = "RUNNING" => Begun(s)'
    BY <2>2
  <2>6. (\A p \in Pipes : Says(p, pipe[p]))'
    <3>1. \A s \in Runs : run'[s] \in Active => s \in back
      BY <2>2
    <3>2. ASSUME NEW p \in Pipes PROVE Says(p, pipe[p])'
      <4>1. pipe'[p] \in {"SUCCEEDED", "PARTIAL", "FAILED"} => pipe[p] = pipe'[p]
        BY <2>2
      <4>2. \A s \in RunsOf(p)' : s \in Runs /\ PipeOf[s] = p
        OBVIOUS
      <4>3. \A s \in RunsOf(p)' : s \notin back => s \in RunsOf(p) /\ run'[s] \in {run[s], "CANCELLED"}
        BY <2>2
      <4> QED  BY <2>2, <2>4, <3>1, <4>1, <4>2, <4>3
    <3> QED  BY <3>2
  <2>7. \A w \in Workers : doing[w] \in {"writing", "closing"} => \A s : s \notin back
    BY <2>4
  <2>8. \A w \in Workers : OpenFor(w)'
    <3>1. ASSUME NEW w \in Workers PROVE OpenFor(w)'
      <4>1. CASE doing'[w] = doing[w] /\ claim'[w] = claim[w]
        <5>1. ASSUME doing[w] \in {"writing", "closing"} PROVE Says(PipeOfClaim(w), verdict[w])'
          <6>1. \A s \in Runs : run'[s] = (IF run[s] \in Active THEN "CANCELLED" ELSE run[s])
            BY <2>2, <2>7, <5>1
          <6>2. PipeOfClaim(w)' = PipeOfClaim(w) /\ verdict'[w] = verdict[w] /\ Says(PipeOfClaim(w), verdict[w])
            BY <2>2, <4>1, <5>1
          <6> QED  BY <2>2, <6>1, <6>2
        <5> QED  BY <2>2, <4>1, <5>1
      <4>2. CASE doing'[w] # doing[w]
        BY <2>1, <2>2, <2>3, <4>2
      <4> QED  BY <2>1, <2>3, <4>1, <4>2
    <3> QED  BY <3>1
  <2>9. \A c \in Apis : starting'[c].step = "inserted" => pipe'[starting'[c].pipe] \in Live \cup {"CANCELLED"}
    BY <2>2
  <2>10. \A c \in Clients : request'[c].op # "retry"
    BY <2>2
  <2> QED  BY <2>5, <2>6, <2>8, <2>9, <2>10
<1>30. ASSUME NEW r \in Runs, Dismiss(r) /\ UNCHANGED pipeVars PROVE VerdictInv'
  BY <1>30 DEF Dismiss
<1>31. ASSUME NEW r \in Runs, BeatExpires(r) /\ UNCHANGED pipeVars PROVE VerdictInv'
  BY <1>31 DEF BeatExpires
<1>32. ASSUME Surroundings /\ UNCHANGED pipeVars PROVE VerdictInv'
  BY <1>32 DEF Surroundings, engineVars
<1>33. ASSUME UNCHANGED allVars PROVE VerdictInv'
  BY <1>33 DEF allVars, vars, engineVars
<1>34. ASSUME NEW w \in Workers, Work(w) PROVE VerdictInv'
  BY <1>14, <1>15, <1>16, <1>17, <1>34 DEF Work
<1>35. ASSUME Others PROVE VerdictInv'
  BY <1>30, <1>31, <1>32, <1>35 DEF Others
<1> HIDE PipelineAssumption DEF VerdictInv, OneAtATime, pipeVars
<1> QED
  BY <1>1, <1>2, <1>3, <1>4, <1>5, <1>6, <1>7, <1>8, <1>9, <1>10, <1>11, <1>12, <1>13, <1>18, <1>19,
     <1>20, <1>21, <1>22, <1>23, <1>24, <1>25, <1>26, <1>27, <1>28, <1>29, <1>33, <1>34, <1>35
     DEF PipeNext

\* A pipeline that is over stays without work, and its verdict true, through the deaths of
\* workers and requests, sweeps, handoffs that fail, dismissals and suspensions.
THEOREM PipelinesEndAsReported ==
    ASSUME Orderly
    PROVE  PipeSpec => []VerdictMatches
<1>1. PipeInit => PipeInv /\ VerdictInv
  <2> SUFFICES ASSUME PipeInit PROVE PipeInv /\ VerdictInv
    OBVIOUS
  <2>1. PipeInv
    BY PipeStart
  <2>2. VerdictInv
    <3>1. \A p \in Pipes : Says(p, pipe[p])
      BY DEF PipeInit, Says
    <3>2. \A w \in Workers : OpenFor(w)
      BY PipelineAssumption DEF PipeInit, Init, EngineInit, Idle, After, OpenFor
    <3> QED  BY <3>1, <3>2 DEF PipeInit, Init, EngineInit, NotStarting, Idle, VerdictInv
  <2> QED  BY <2>1, <2>2
<1>2. PipeInv /\ VerdictInv /\ [PipeNext]_allVars => PipeInv' /\ VerdictInv'
  BY PipeStep, VerdictStep DEF Orderly
<1>3. VerdictInv => VerdictMatches
  BY DEF VerdictInv, Says, Begun, VerdictMatches
<1> QED  BY <1>1, <1>2, <1>3, PTL DEF PipeSpec

-----------------------------------------------------------------------------
(***************************************************************************)
(* With manual retries, and processes that live: a status may be overtaken *)
(* by a retry, but then a run is active, and whoever ends it refreshes the *)
(* pipeline again.                                                         *)
(***************************************************************************)
Steady ==
    /\ OneAtATime
    /\ ~ProcessesDie
    /\ Decisions \subseteq {"APPROVE"}

Busy(p) == \E r \in RunsOf(p) : run[r] \in Active

\* What a status says of a pipeline none of whose runs is active.
Reports(p, status) ==
    ~Busy(p) => /\ status \notin Live
                /\ status = "SUCCEEDED" => \A r \in RunsOf(p) : run[r] # "FAILED"
                /\ status = "PARTIAL" => \E r \in RunsOf(p) : run[r] = "SUCCEEDED"

\* A worker's run is active (a racing retry may have queued it again) until it ends it,
\* and the status it has computed is still true when it writes it.
Minds(w) ==
    /\ doing[w] = "generating" => run[claim[w].run] \in (IF Starting(PipeOfClaim(w)) THEN {"RUNNING"} ELSE Active)
    /\ doing[w] \in {"writing", "closing"} => Reports(PipeOfClaim(w), verdict[w])

\* A pipeline that no request starts and no worker is about to refresh.
Rests(p) ==
    RunsOf(p) # {} /\ ~Starting(p) /\ (\A w \in Workers : doing[w] \in After => PipeOfClaim(w) # p)
        => Reports(p, pipe[p])

\* Nothing of a pipeline that is being started has ended, so nothing is retried.
Fresh(p) ==
    Starting(p) => /\ \A r \in RunsOf(p) : run[r] \in Active
                   /\ \A c \in Clients : request[c].op = "retry" => PipeOf[request[c].run] # p

\* Nobody but a worker runs an agent, and a pipeline at rest has been reported.
RestInv ==
    /\ \A r \in Runs : run[r] = "RUNNING" => \E w \in Workers : Generating(w, r)
    /\ \A w \in Workers : Minds(w)
    /\ \A p \in Pipes : Fresh(p)
    /\ \A p \in Pipes : Rests(p)

\* A run that a request is about to insert is not there yet, and no other request is about it.
AsksInv ==
    \A c \in Clients : request[c].op = "enqueue" =>
        /\ run[request[c].run] = "NONE"
        /\ \A b \in Clients \ {c} : request[b] # Idle => request[b].run # request[c].run

\* It stays so.
LEMMA AsksStep ==
    ASSUME PipeInv, AsksInv, [PipeNext]_allVars
    PROVE  AsksInv'
<1> USE PipelineAssumption DEF PipeInv, AsksInv, OneAtATime, PipeShape, RunsBelong, Follows, Starts, After, RunsOf,
        Active, AgreeingJob, Stranded, Starting, PipeOfClaim, Idle, NoClaim, NotStarting, jobVars, workerVars, pipeVars
<1>1. ASSUME NEW c \in Apis, NEW p \in Pipes, StartPipeline(c, p) PROVE AsksInv'
  BY <1>1 DEF StartPipeline, Free, vars, engineVars
<1>2. ASSUME NEW c \in Apis, NEW r \in Runs, StartEnqueues(c, r) PROVE AsksInv'
  BY <1>2 DEF StartEnqueues, EnqueueBegin, Unused
<1>3. ASSUME NEW c \in Apis, StartReuses(c) PROVE AsksInv'
  BY <1>3 DEF StartReuses, Step, vars, engineVars
<1>4. ASSUME NEW c \in Apis, StartThrows(c) PROVE AsksInv'
  BY <1>4 DEF StartThrows, RollBack, Step
<1>5. ASSUME NEW c \in Apis, StartRuns(c) PROVE AsksInv'
  BY <1>5 DEF StartRuns, Step, vars, engineVars
<1>6. ASSUME NEW c \in Apis, StartFails(c) PROVE AsksInv'
  BY <1>6 DEF StartFails, FailPipeline
<1>7. ASSUME NEW c \in Apis, NEW r \in Runs, EnqueueAlone(c, r) PROVE AsksInv'
  BY <1>7 DEF EnqueueAlone, EnqueueBegin, Unused, Free
<1>8. ASSUME NEW c \in Clients, Count(c) PROVE AsksInv'
  BY <1>8 DEF Count, CountToday, engineVars
<1>9. ASSUME NEW c \in Clients, Commit(c) PROVE AsksInv'
  BY <1>9 DEF Commit, EnqueueCommit, InsertRun, Step
<1>10. ASSUME NEW c \in Apis, NEW r \in Runs, RetryRead(c, r) PROVE AsksInv'
  BY <1>10 DEF RetryRead, RetryBegin, Free
<1>11. ASSUME NEW c \in Apis, RetryRun(c) PROVE AsksInv'
  BY <1>11 DEF RetryRun, RetryCommit
<1>12. ASSUME NEW c \in Apis, RequestThrows(c) PROVE AsksInv'
  BY <1>12 DEF RequestThrows, RequestFails, RollBack
<1>13. ASSUME NEW c \in Apis, ApiDies(c) PROVE AsksInv'
  BY <1>13 DEF ApiDies, RollBack
<1>14. ASSUME NEW w \in Workers, Claim(w) /\ UNCHANGED pipeVars PROVE AsksInv'
  BY <1>14 DEF Claim, NextAttempt
<1>15. ASSUME NEW w \in Workers, Beat(w) /\ UNCHANGED pipeVars PROVE AsksInv'
  BY <1>15 DEF Beat
<1>16. ASSUME NEW w \in Workers, SweepRead(w) /\ UNCHANGED pipeVars PROVE AsksInv'
  BY <1>16 DEF SweepRead
<1>17. ASSUME NEW w \in Workers, SweepWrite(w) /\ UNCHANGED pipeVars PROVE AsksInv'
  BY <1>17 DEF SweepWrite, Swept
<1>18. ASSUME NEW w \in Workers, SucceedInPipe(w) PROVE AsksInv'
  BY <1>18 DEF SucceedInPipe, Complete, TurnTo
<1>19. ASSUME NEW w \in Workers, FailInPipe(w) PROVE AsksInv'
  BY <1>19 DEF FailInPipe, FailThen, TurnTo, RetryLater, GiveUp, Ended
<1>20. ASSUME NEW w \in Workers, Advance(w) PROVE AsksInv'
  BY <1>20 DEF Advance, Found
<1>21. ASSUME NEW w \in Workers, NEW r \in Runs, HandBegins(w, r) PROVE AsksInv'
  BY <1>21 DEF HandBegins, EnqueueBegin, Unused
<1>22. ASSUME NEW w \in Workers, NEW r \in Runs, HandReuses(w, r) PROVE AsksInv'
  BY <1>22 DEF HandReuses, vars, engineVars
<1>23. ASSUME NEW w \in Workers, HandThrows(w) PROVE AsksInv'
  BY <1>23 DEF HandThrows, RollBack
<1>24. ASSUME NEW w \in Workers, HandsOver(w) PROVE AsksInv'
  BY <1>24 DEF HandsOver
<1>25. ASSUME NEW w \in Workers, RefreshRead(w) PROVE AsksInv'
  BY <1>25 DEF RefreshRead, StatusOf
<1>26. ASSUME NEW w \in Workers, RefreshWrite(w) PROVE AsksInv'
  BY <1>26 DEF RefreshWrite, TurnTo
<1>27. ASSUME NEW w \in Workers, HandoffFails(w) PROVE AsksInv'
  BY <1>27 DEF HandoffFails, FailPipeline, TurnTo
<1>28. ASSUME NEW w \in Workers, WorkerDies(w) PROVE AsksInv'
  BY <1>28 DEF WorkerDies, Dies, RollBack, TurnTo
<1>29. ASSUME NEW d \in Decisions, NEW late \in SUBSET Overdue, StopPipelines(d, late)
       PROVE  AsksInv'
  <2>1. \A w \in late : claim[w].run \in Runs /\ run[claim[w].run] # "NONE"
    BY <1>29 DEF Overdue
  <2>2. UNCHANGED request /\ \A s \in Runs : run[s] = "NONE" => run'[s] = "NONE"
    BY <1>29, <2>1 DEF StopPipelines, StopOrganisation
  <2> QED  BY <2>2
<1>30. ASSUME NEW r \in Runs, Dismiss(r) /\ UNCHANGED pipeVars PROVE AsksInv'
  BY <1>30 DEF Dismiss
<1>31. ASSUME NEW r \in Runs, BeatExpires(r) /\ UNCHANGED pipeVars PROVE AsksInv'
  BY <1>31 DEF BeatExpires
<1>32. ASSUME Surroundings /\ UNCHANGED pipeVars PROVE AsksInv'
  BY <1>32 DEF Surroundings, engineVars
<1>33. ASSUME UNCHANGED allVars PROVE AsksInv'
  BY <1>33 DEF allVars, vars, engineVars
<1>34. ASSUME NEW w \in Workers, Work(w) PROVE AsksInv'
  BY <1>14, <1>15, <1>16, <1>17, <1>34 DEF Work
<1>35. ASSUME Others PROVE AsksInv'
  BY <1>30, <1>31, <1>32, <1>35 DEF Others
<1> HIDE PipelineAssumption DEF AsksInv, OneAtATime, pipeVars
<1> QED
  BY <1>1, <1>2, <1>3, <1>4, <1>5, <1>6, <1>7, <1>8, <1>9, <1>10, <1>11, <1>12, <1>13, <1>18, <1>19,
     <1>20, <1>21, <1>22, <1>23, <1>24, <1>25, <1>26, <1>27, <1>28, <1>29, <1>33, <1>34, <1>35
     DEF PipeNext

\* A step leaves the runs of a pipeline alone.
Spares(p) == \A r \in Runs : PipeOf[r] = p => run'[r] = run[r]

\* failPipeline touches the queued runs of its pipeline only.
CancelsQueued(p) ==
    \A r \in Runs : run'[r] # run[r] => PipeOf[r] = p /\ run[r] = "QUEUED" /\ run'[r] = "CANCELLED"

LEMMA FailedPipeline ==
    ASSUME NEW p, FailPipeline(p)
    PROVE  pipe' = [pipe EXCEPT ![p] = "FAILED"] /\ CancelsQueued(p)
BY DEF FailPipeline, CancelsQueued, RunsOf

\* A step that touches neither runs nor workers nor pipelines.
LEMMA RestFrame ==
    ASSUME RestInv, UNCHANGED <<run, doing, claim, verdict, pipe, starting>>,
           \A c \in Clients : request'[c].op = "retry" =>
                 (request'[c] # request[c] => request'[c].run \in Runs /\ run[request'[c].run] = "FAILED")
    PROVE  RestInv'
<1>1. \A p \in Pipes : Fresh(p)'
  BY DEF RestInv, Fresh, RunsOf, Starting, Active
<1> QED
  BY <1>1 DEF RestInv, Minds, Rests, Reports, Busy, RunsOf, Starting, Generating, PipeOfClaim

\* A run that ends leaves its worker on the way to a refresh; one that begins makes its pipeline busy.
LEMMA RestStep ==
    ASSUME Steady, PipeInv, AsksInv, RestInv, [PipeNext]_allVars
    PROVE  RestInv'
<1>a. PipeInv' /\ PromptStart
  BY PipeStep DEF Steady, OneAtATime
<1>b. /\ \A v \in Workers : Minds(v)
      /\ \A q \in Pipes : Rests(q) /\ Fresh(q)
  BY DEF RestInv
<1>j. \A r \in Runs : /\ job[r] \in {"QUEUED", "RUNNING"} => run[r] = job[r]
                      /\ PipeOf[r] \in Pipes /\ run[r] # "NONE" => pipe[PipeOf[r]] # "NONE"
  BY DEF PipeInv, PipeShape, RunsBelong, AgreeingJob, Stranded
<1>f. \A v \in Workers : doing[v] \in After => PipeOfClaim(v) \in Pipes /\ ~Starting(PipeOfClaim(v))
  BY DEF PipeInv, Follows
<1>g. \A r \in Runs : run[r] = "RUNNING" => \E v \in Workers : Generating(v, r)
  BY DEF RestInv
<1> USE <1>a, <1>j, PipelineAssumption DEF Steady, PipeInv, RestInv, Minds, Rests, Fresh, OneAtATime, PipeShape, Follows, Starts,
        Reports, Busy, Generating, Active, Live, After, RunsOf, Starting, PipeOfClaim, Idle, NoClaim,
        NotStarting, jobVars, workerVars, pipeVars
<1>1. ASSUME NEW c \in Apis, NEW p \in Pipes, StartPipeline(c, p) PROVE RestInv'
  <2>1. (\A r \in Runs : run[r] = "RUNNING" => \E v \in Workers : Generating(v, r))'
    BY <1>1 DEF StartPipeline, Free, vars, engineVars
  <2>2. (\A v \in Workers : Minds(v))'
    BY <1>1 DEF StartPipeline, Free, vars, engineVars
  <2>3. (\A q \in Pipes : Fresh(q))'
    BY <1>1 DEF StartPipeline, Free, vars, engineVars
  <2>4. (\A q \in Pipes : Rests(q))'
    BY <1>1 DEF StartPipeline, Free, vars, engineVars
  <2> QED  BY ONLY <2>1, <2>2, <2>3, <2>4
<1>2. ASSUME NEW c \in Apis, NEW r \in Runs, StartEnqueues(c, r) PROVE RestInv'
  <2>1. \A b \in Clients : request'[b].op = "retry" => request'[b] = request[b]
    BY <1>2 DEF StartEnqueues, EnqueueBegin
  <2>2. UNCHANGED <<run, doing, claim, verdict, pipe, starting>>
    BY <1>2 DEF StartEnqueues, EnqueueBegin
  <2> QED  BY ONLY <2>1, <2>2, RestFrame, RestInv
<1>3. ASSUME NEW c \in Apis, StartReuses(c) PROVE RestInv'
  <2>1. (\A r \in Runs : run[r] = "RUNNING" => \E v \in Workers : Generating(v, r))'
    BY <1>3 DEF StartReuses, Step, vars, engineVars
  <2>2. (\A v \in Workers : Minds(v))'
    BY <1>3 DEF StartReuses, Step, vars, engineVars
  <2>3. (\A q \in Pipes : Fresh(q))'
    <3>1. UNCHANGED <<run, request>> /\ \A q \in Pipes : Starting(q)' => Starting(q)
      BY <1>3 DEF StartReuses, Step, vars, engineVars
    <3> QED  BY ONLY <1>b, <3>1 DEF Fresh, RunsOf
  <2>4. (\A q \in Pipes : Rests(q))'
    BY <1>3 DEF StartReuses, Step, vars, engineVars
  <2> QED  BY ONLY <2>1, <2>2, <2>3, <2>4
<1>4. ASSUME NEW c \in Apis, StartThrows(c) PROVE RestInv'
  <2>1. (\A r \in Runs : run[r] = "RUNNING" => \E v \in Workers : Generating(v, r))'
    BY <1>4 DEF StartThrows, RollBack, Step
  <2>2. (\A v \in Workers : Minds(v))'
    BY <1>4 DEF StartThrows, RollBack, Step
  <2>3. (\A q \in Pipes : Fresh(q))'
    <3>1. UNCHANGED run /\ \A b \in Clients : request'[b].op = "retry" => request'[b] = request[b]
      BY <1>4 DEF StartThrows, RollBack
    <3>2. \A q \in Pipes : Starting(q)' => Starting(q)
      BY <1>4 DEF StartThrows, Step
    <3> QED  BY ONLY <1>b, <3>1, <3>2 DEF Fresh, RunsOf
  <2>4. (\A q \in Pipes : Rests(q))'
    BY <1>4 DEF StartThrows, RollBack, Step
  <2> QED  BY ONLY <2>1, <2>2, <2>3, <2>4
<1>5. ASSUME NEW c \in Apis, StartRuns(c) PROVE RestInv'
  <2>1. (\A r \in Runs : run[r] = "RUNNING" => \E v \in Workers : Generating(v, r))'
    BY <1>5 DEF StartRuns, Step, vars, engineVars
  <2>2. (\A v \in Workers : Minds(v))'
    <3>1. /\ UNCHANGED <<run, request, doing, claim, verdict>>
          /\ \A q : Starting(q)' => Starting(q)
      BY <1>5 DEF StartRuns, Step, vars, engineVars
    <3> QED  BY ONLY <1>b, <3>1 DEF Minds, PipeOfClaim, Reports, Busy, RunsOf, Active, Live
  <2>3. (\A q \in Pipes : Fresh(q))'
    <3>1. UNCHANGED <<run, request>> /\ \A q \in Pipes : Starting(q)' => Starting(q)
      BY <1>5 DEF StartRuns, Step, vars, engineVars
    <3> QED  BY ONLY <1>b, <3>1 DEF Fresh, RunsOf
  <2>4. (\A q \in Pipes : Rests(q))'
    BY <1>5 DEF StartRuns, Step, vars, engineVars
  <2> QED  BY ONLY <2>1, <2>2, <2>3, <2>4
<1>6. ASSUME NEW c \in Apis, StartFails(c) PROVE RestInv'
  <2> DEFINE p == starting[c].pipe
  <2>1. /\ p \in Pipes /\ Starting(p) /\ UNCHANGED <<doing, claim, request, verdict>>
        /\ pipe' = [pipe EXCEPT ![p] = "FAILED"]
        /\ CancelsQueued(p)
    BY <1>6, FailedPipeline DEF StartFails
  <2>2. \A q : Starting(q)' <=> Starting(q) /\ q # p
    BY <1>6, <2>1 DEF StartFails
  <2>3. \A q \in Pipes : /\ q # p => Spares(q) /\ pipe'[q] = pipe[q]
                         /\ q = p => pipe'[q] = "FAILED"
    BY <2>1 DEF Spares, CancelsQueued
  <2>4. \A v \in Workers : doing[v] \in After => PipeOfClaim(v) \in Pipes \ {p}
    BY ONLY <1>f, <2>1
  <2>5. (\A r \in Runs : run[r] = "RUNNING" => \E v \in Workers : Generating(v, r))'
    BY ONLY <1>g, <2>1 DEF CancelsQueued, Generating
  <2>6. (\A v \in Workers : Minds(v))'
    <3>1. \A v \in Workers : doing[v] = "generating" => claim[v].run \in Runs
      OBVIOUS
    <3>2. \A v \in Workers : doing[v] = "generating" => run'[claim[v].run] = run[claim[v].run]
      BY ONLY <1>b, <2>1, <3>1 DEF CancelsQueued, Minds, PipeOfClaim
    <3>5. \A v \in Workers : Starting(PipeOfClaim(v))' => Starting(PipeOfClaim(v))
      BY ONLY <2>1, <2>2 DEF PipeOfClaim, Starting
    <3>3. \A v \in Workers : doing[v] \in {"writing", "closing"} => Reports(PipeOfClaim(v), verdict[v])'
      BY ONLY <1>b, <2>1, <2>3, <2>4 DEF Minds, Reports, Busy, RunsOf, Spares, After, PipeOfClaim, Active
    <3>4. \A v \in Workers : /\ doing'[v] = doing[v] /\ claim'[v] = claim[v]
                             /\ verdict'[v] = verdict[v] /\ Minds(v)
      BY ONLY <1>b, <2>1
    <3> QED  BY ONLY <3>2, <3>3, <3>4, <3>5 DEF Minds, Active
  <2>7. (\A q \in Pipes : Fresh(q))'
    <3>1. \A q \in Pipes : Starting(q)' => Starting(q) /\ Spares(q)
      BY ONLY <2>2, <2>3
    <3> QED  BY ONLY <1>b, <2>1, <3>1 DEF Fresh, RunsOf, Spares
  <2>8. (\A q \in Pipes : Rests(q))'
    BY ONLY <1>b, <2>1, <2>2, <2>3 DEF Rests, Reports, Busy, RunsOf, Spares, PipeOfClaim, Active, Live
  <2> QED  BY <2>5, <2>6, <2>7, <2>8
<1>7. ASSUME NEW c \in Apis, NEW r \in Runs, EnqueueAlone(c, r) PROVE RestInv'
  <2>1. \A b \in Clients : request'[b].op = "retry" => request'[b] = request[b]
    BY <1>7 DEF EnqueueAlone, EnqueueBegin
  <2>2. UNCHANGED <<run, doing, claim, verdict, pipe, starting>>
    BY <1>7 DEF EnqueueAlone, EnqueueBegin
  <2> QED  BY ONLY <2>1, <2>2, RestFrame, RestInv
<1>8. ASSUME NEW c \in Clients, Count(c) PROVE RestInv'
  BY <1>8, RestFrame DEF Count, CountToday, engineVars
<1>9. ASSUME NEW c \in Clients, Commit(c) PROVE RestInv'
  <2> DEFINE r == request[c].run
  <2>1. /\ r \in Runs /\ run' = [run EXCEPT ![r] = "QUEUED"]
        /\ UNCHANGED <<doing, claim, verdict, pipe>>
    BY <1>9 DEF Commit, EnqueueCommit, InsertRun
  <2>a. run[r] = "NONE"
    BY <1>9 DEF AsksInv, Commit, EnqueueCommit
  <2>2. \A q : Starting(q)' <=> Starting(q)
    <3>1. starting' # starting => c \in Apis /\ starting[c] # NotStarting /\ Step(c, "enqueued")
      BY <1>9 DEF Commit
    <3>2. DOMAIN starting = Apis
      OBVIOUS
    <3>3. c \in Apis /\ starting[c] # NotStarting => \E s, q : starting[c] = [step |-> s, pipe |-> q]
      OBVIOUS
    <3> HIDE DEF NotStarting
    <3>4. starting' # starting =>
              \E q : /\ starting[c].pipe = q /\ starting[c] # NotStarting /\ c \in Apis
                    /\ starting' = [starting EXCEPT ![c] = [step |-> "enqueued", pipe |-> q]]
      BY ONLY <3>1, <3>3 DEF Step
    <3> QED  BY ONLY <3>2, <3>4 DEF Starting, NotStarting
  <2>3. \A q \in Pipes : PipeOf[r] # q => Spares(q)
    BY <2>1 DEF Spares
  <2>4. \A q \in Pipes : PipeOf[r] = q => Busy(q)'
    BY <2>1
  <2>5. (\A s \in Runs : run[s] = "RUNNING" => \E v \in Workers : Generating(v, s))'
    BY <2>1, <2>a
  <2>6. (\A v \in Workers : Minds(v))'
    <3>1. \A v \in Workers : /\ doing[v] = "generating" => claim[v].run \in Runs
                             /\ doing[v] \in After => PipeOfClaim(v) \in Pipes
      OBVIOUS
    <3>2. \A v \in Workers : doing[v] = "generating" => claim[v].run # r
      BY ONLY <1>b, <2>a DEF Minds, Active
    <3>3. \A v \in Workers : doing[v] \in After => PipeOf[r] = PipeOfClaim(v) \/ Spares(PipeOfClaim(v))
      BY ONLY <2>3, <3>1
    <3>4. \A v \in Workers : doing[v] = "generating" => run'[claim[v].run] = run[claim[v].run]
      BY ONLY <2>1, <3>1, <3>2
    <3>5. \A v \in Workers : doing[v] \in {"writing", "closing"} => Reports(PipeOfClaim(v), verdict[v])'
      BY ONLY <1>b, <2>1, <2>4, <3>3 DEF Minds, Reports, Busy, RunsOf, Spares, After, PipeOfClaim, Active
    <3>6. \A v \in Workers : Starting(PipeOfClaim(v))' <=> Starting(PipeOfClaim(v))
      BY ONLY <2>1, <2>2 DEF Starting, PipeOfClaim
    <3>7. \A v \in Workers : /\ doing'[v] = doing[v] /\ claim'[v] = claim[v]
                             /\ verdict'[v] = verdict[v] /\ Minds(v)
      BY ONLY <1>b, <2>1
    <3> QED  BY ONLY <3>4, <3>5, <3>6, <3>7 DEF Minds
  <2>7. (\A q \in Pipes : Fresh(q))'
    <3>1. \A b \in Clients : request'[b].op = "retry" => request'[b] = request[b]
      BY <1>9 DEF Commit, EnqueueCommit
    <3>2. \A q \in Pipes : Fresh(q)
      BY ONLY <1>b
    <3>3. \A q \in Pipes : Starting(q)' => Starting(q)
      BY ONLY <2>2
    <3> QED  BY ONLY <2>1, <3>1, <3>2, <3>3 DEF Fresh, RunsOf, Active
  <2>8. (\A q \in Pipes : Rests(q))'
    BY ONLY <1>b, <2>1, <2>2, <2>3, <2>4 DEF Rests, Reports, Busy, RunsOf, Spares, PipeOfClaim, Active, Live
  <2> QED  BY <2>5, <2>6, <2>7, <2>8
<1>10. ASSUME NEW c \in Apis, NEW r \in Runs, RetryRead(c, r) PROVE RestInv'
  <2>1. \A b \in Clients : request'[b] # request[b] => request'[b].run \in Runs /\ run[request'[b].run] = "FAILED"
    BY <1>10 DEF RetryRead, RetryBegin
  <2>2. UNCHANGED <<run, doing, claim, verdict, pipe, starting>>
    BY <1>10 DEF RetryRead, RetryBegin
  <2> QED  BY ONLY <2>1, <2>2, RestFrame, RestInv
<1>11. ASSUME NEW c \in Apis, RetryRun(c) PROVE RestInv'
  <2>1. (\A r \in Runs : run[r] = "RUNNING" => \E v \in Workers : Generating(v, r))'
    BY <1>11 DEF RetryRun, RetryCommit
  <2>2. (\A v \in Workers : Minds(v))'
    BY <1>11 DEF RetryRun, RetryCommit
  <2>3. (\A q \in Pipes : Fresh(q))'
    BY <1>11 DEF RetryRun, RetryCommit
  <2>4. (\A q \in Pipes : Rests(q))'
    BY <1>11 DEF RetryRun, RetryCommit
  <2> QED  BY ONLY <2>1, <2>2, <2>3, <2>4
<1>12. ASSUME NEW c \in Apis, RequestThrows(c) PROVE RestInv'
  BY <1>12, RestFrame DEF RequestThrows, RequestFails, RollBack
<1>13. ASSUME NEW c \in Apis, ApiDies(c) PROVE RestInv'
  BY <1>13 DEF ApiDies
<1>14. ASSUME NEW w \in Workers, Claim(w) /\ UNCHANGED pipeVars PROVE RestInv'
  <2>1. (\A r \in Runs : run[r] = "RUNNING" => \E v \in Workers : Generating(v, r))'
    BY <1>14 DEF Claim, NextAttempt
  <2>2. (\A v \in Workers : Minds(v))'
    BY <1>14 DEF Claim, NextAttempt
  <2>3. (\A q \in Pipes : Fresh(q))'
    BY <1>14 DEF Claim, NextAttempt
  <2>4. (\A q \in Pipes : Rests(q))'
    BY <1>14 DEF Claim, NextAttempt
  <2> QED  BY ONLY <2>1, <2>2, <2>3, <2>4
<1>15. ASSUME NEW w \in Workers, Beat(w) /\ UNCHANGED pipeVars PROVE RestInv'
  BY <1>15, RestFrame DEF Beat
<1>16. ASSUME NEW w \in Workers, SweepRead(w) /\ UNCHANGED pipeVars PROVE RestInv'
  <2>1. (\A r \in Runs : run[r] = "RUNNING" => \E v \in Workers : Generating(v, r))'
    BY <1>16 DEF SweepRead
  <2>2. (\A v \in Workers : Minds(v))'
    BY <1>16 DEF SweepRead
  <2>3. (\A q \in Pipes : Fresh(q))'
    BY <1>16 DEF SweepRead
  <2>4. (\A q \in Pipes : Rests(q))'
    BY <1>16 DEF SweepRead
  <2> QED  BY ONLY <2>1, <2>2, <2>3, <2>4
<1>17. ASSUME NEW w \in Workers, SweepWrite(w) /\ UNCHANGED pipeVars PROVE RestInv'
  <2>1. \A r \in Runs : run[r] # "RUNNING"
    BY <1>17 DEF SweepWrite
  <2>2. /\ \A r \in Runs : run'[r] = run[r]
        /\ \A v \in Workers : v = w /\ doing[v] = "sweeping" /\ doing'[v] = "idle"
        /\ UNCHANGED <<pipe, starting, request>>
    BY <1>17, <2>1 DEF SweepWrite, Swept
  <2>3. \A q \in Pipes : Spares(q)
    BY <2>2 DEF Spares
  <2>4. (\A r \in Runs : run[r] = "RUNNING" => \E v \in Workers : Generating(v, r))'
    BY <2>1, <2>2
  <2>5. (\A v \in Workers : Minds(v))'
    BY ONLY <2>2 DEF Minds
  <2>6. (\A q \in Pipes : Fresh(q))'
    BY ONLY <1>b, <2>2, <2>3 DEF Fresh, Starting, RunsOf, Spares
  <2>7. (\A q \in Pipes : Rests(q))'
    BY ONLY <1>b, <2>2, <2>3 DEF Rests, Starting, Reports, Busy, RunsOf, Spares, After, Active, Live
  <2> QED  BY ONLY <2>4, <2>5, <2>6, <2>7
<1>18. ASSUME NEW w \in Workers, SucceedInPipe(w) PROVE RestInv'
  <2> DEFINE r == claim[w].run
  <2>1. /\ r \in Runs /\ run'[r] = "SUCCEEDED"
        /\ \A s \in Runs : s # r => run'[s] = run[s] /\ run[s] # "RUNNING"
        /\ UNCHANGED <<pipe, starting, request>>
    BY <1>18 DEF SucceedInPipe, Complete, TurnTo
  <2>2. /\ \A v \in Workers : v = w /\ doing[v] = "generating" /\ doing'[v] \in {"idle", "advancing", "reporting"}
        /\ PipeOf[r] \in Pipes => doing'[w] \in After /\ claim'[w].run = r
        /\ PipeOf[r] \in Pipes => ~Starting(PipeOf[r]) \/ ~PromptStart
    BY <1>18, <2>1 DEF SucceedInPipe, Complete, TurnTo
  <2>3. \A q \in Pipes : PipeOf[r] # q => Spares(q)
    BY <2>1 DEF Spares
  <2>4. (\A s \in Runs : run[s] = "RUNNING" => \E v \in Workers : Generating(v, s))'
    BY ONLY <2>1
  <2>5. (\A v \in Workers : Minds(v))'
    BY ONLY <2>2 DEF Minds
  <2>6. (\A q \in Pipes : Fresh(q))'
    <3>1. PromptStart
      BY <1>a
    <3> QED  BY ONLY <1>b, <2>1, <2>2, <2>3, <3>1 DEF Fresh, Starting, RunsOf, Spares
  <2>7. (\A q \in Pipes : Rests(q))'
    BY ONLY <1>b, <2>1, <2>2, <2>3 DEF Rests, Starting, Reports, Busy, RunsOf, Spares, PipeOfClaim, After, Active, Live
  <2> QED  BY ONLY <2>4, <2>5, <2>6, <2>7
<1>19. ASSUME NEW w \in Workers, FailInPipe(w) PROVE RestInv'
  <2> DEFINE r == claim[w].run
  <2>1. /\ r \in Runs /\ run'[r] \in {"QUEUED", "FAILED"}
        /\ \A s \in Runs : s # r => run'[s] = run[s] /\ run[s] # "RUNNING"
        /\ UNCHANGED <<pipe, starting, request>>
    BY <1>19 DEF FailInPipe, FailThen, TurnTo, RetryLater, GiveUp, Ended
  <2>2. /\ \A v \in Workers : v = w /\ doing[v] = "generating" /\ doing'[v] \in {"idle", "advancing", "reporting"}
        /\ PipeOf[r] \in Pipes => doing'[w] \in After /\ claim'[w].run = r
        /\ PipeOf[r] \in Pipes => ~Starting(PipeOf[r]) \/ ~PromptStart
    BY <1>19, <2>1 DEF FailInPipe, FailThen, TurnTo, RetryLater, GiveUp, Ended
  <2>3. \A q \in Pipes : PipeOf[r] # q => Spares(q)
    BY <2>1 DEF Spares
  <2>4. (\A s \in Runs : run[s] = "RUNNING" => \E v \in Workers : Generating(v, s))'
    BY ONLY <2>1
  <2>5. (\A v \in Workers : Minds(v))'
    BY ONLY <2>2 DEF Minds
  <2>6. (\A q \in Pipes : Fresh(q))'
    <3>1. ASSUME NEW q \in Pipes, Starting(q)' PROVE Fresh(q)'
      <4>1. Starting(q)
        BY ONLY <2>1, <3>1 DEF Starting
      <4>2. PipeOf[r] # q
        BY ONLY <1>a, <2>2, <4>1, <3>1
      <4>3. \A a \in Runs : PipeOf[a] = q => run'[a] = run[a]
        BY ONLY <2>3, <4>2, <3>1 DEF Spares
      <4>4. Fresh(q)
        BY ONLY <1>b, <3>1
      <4> QED  BY ONLY <2>1, <4>1, <4>3, <4>4 DEF Fresh, RunsOf
    <3> QED  BY ONLY <3>1 DEF Fresh
  <2>7. (\A q \in Pipes : Rests(q))'
    BY ONLY <1>b, <2>1, <2>2, <2>3 DEF Rests, Starting, Reports, Busy, RunsOf, Spares, PipeOfClaim, After, Active, Live
  <2> QED  BY ONLY <2>4, <2>5, <2>6, <2>7
<1>20. ASSUME NEW w \in Workers, Advance(w) PROVE RestInv'
  <2>1. (\A r \in Runs : run[r] = "RUNNING" => \E v \in Workers : Generating(v, r))'
    BY <1>20 DEF Advance, Found
  <2>2. (\A v \in Workers : Minds(v))'
    BY <1>20 DEF Advance, Found
  <2>3. (\A q \in Pipes : Fresh(q))'
    BY <1>20 DEF Advance, Found
  <2>4. (\A q \in Pipes : Rests(q))'
    BY <1>20 DEF Advance, Found
  <2> QED  BY ONLY <2>1, <2>2, <2>3, <2>4
<1>21. ASSUME NEW w \in Workers, NEW r \in Runs, HandBegins(w, r) PROVE RestInv'
  <2>1. \A b \in Clients : request'[b].op = "retry" => request'[b] = request[b]
    BY <1>21 DEF HandBegins, EnqueueBegin
  <2>2. UNCHANGED <<run, doing, claim, verdict, pipe, starting>>
    BY <1>21 DEF HandBegins, EnqueueBegin
  <2> QED  BY ONLY <2>1, <2>2, RestFrame, RestInv
<1>22. ASSUME NEW w \in Workers, NEW r \in Runs, HandReuses(w, r) PROVE RestInv'
  BY <1>22, RestFrame DEF HandReuses, vars, engineVars
<1>23. ASSUME NEW w \in Workers, HandThrows(w) PROVE RestInv'
  <2>1. (\A r \in Runs : run[r] = "RUNNING" => \E v \in Workers : Generating(v, r))'
    BY <1>23 DEF HandThrows, RollBack
  <2>2. (\A v \in Workers : Minds(v))'
    BY <1>23 DEF HandThrows, RollBack
  <2>3. (\A q \in Pipes : Fresh(q))'
    BY <1>23 DEF HandThrows, RollBack
  <2>4. (\A q \in Pipes : Rests(q))'
    BY <1>23 DEF HandThrows, RollBack
  <2> QED  BY ONLY <2>1, <2>2, <2>3, <2>4
<1>24. ASSUME NEW w \in Workers, HandsOver(w) PROVE RestInv'
  <2>1. (\A r \in Runs : run[r] = "RUNNING" => \E v \in Workers : Generating(v, r))'
    BY <1>24 DEF HandsOver
  <2>2. (\A v \in Workers : Minds(v))'
    BY <1>24 DEF HandsOver
  <2>3. (\A q \in Pipes : Fresh(q))'
    BY <1>24 DEF HandsOver
  <2>4. (\A q \in Pipes : Rests(q))'
    BY <1>24 DEF HandsOver
  <2> QED  BY ONLY <2>1, <2>2, <2>3, <2>4
<1>25. ASSUME NEW w \in Workers, RefreshRead(w) PROVE RestInv'
  <2>1. (\A r \in Runs : run[r] = "RUNNING" => \E v \in Workers : Generating(v, r))'
    BY <1>25 DEF RefreshRead, StatusOf
  <2>2. (\A v \in Workers : Minds(v))'
    BY <1>25 DEF RefreshRead, StatusOf
  <2>3. (\A q \in Pipes : Fresh(q))'
    BY <1>25 DEF RefreshRead, StatusOf
  <2>4. (\A q \in Pipes : Rests(q))'
    BY <1>25 DEF RefreshRead, StatusOf
  <2> QED  BY ONLY <2>1, <2>2, <2>3, <2>4
<1>26. ASSUME NEW w \in Workers, RefreshWrite(w) PROVE RestInv'
  <2>1. (\A r \in Runs : run[r] = "RUNNING" => \E v \in Workers : Generating(v, r))'
    BY <1>26 DEF RefreshWrite, TurnTo
  <2>2. (\A v \in Workers : Minds(v))'
    BY <1>26 DEF RefreshWrite, TurnTo
  <2>3. (\A q \in Pipes : Fresh(q))'
    BY <1>26 DEF RefreshWrite, TurnTo
  <2>4. (\A q \in Pipes : Rests(q))'
    BY <1>26 DEF RefreshWrite, TurnTo
  <2> QED  BY ONLY <2>1, <2>2, <2>3, <2>4
<1>27. ASSUME NEW w \in Workers, HandoffFails(w) PROVE RestInv'
  <2> DEFINE p == PipeOfClaim(w)
  <2>1. /\ p \in Pipes /\ ~Starting(p) /\ UNCHANGED <<starting, request, verdict>>
        /\ pipe' = [pipe EXCEPT ![p] = "FAILED"]
        /\ CancelsQueued(p)
    BY <1>27, FailedPipeline DEF HandoffFails
  <2>2. \A v \in Workers : v = w /\ doing[v] = "failing" /\ doing'[v] = "idle"
    BY <1>27 DEF HandoffFails, TurnTo
  <2>3. \A q \in Pipes : /\ q # p => Spares(q) /\ pipe'[q] = pipe[q]
                         /\ q = p => pipe'[q] = "FAILED"
    BY <2>1 DEF Spares, CancelsQueued
  <2>4. (\A r \in Runs : run[r] = "RUNNING" => \E v \in Workers : Generating(v, r))'
    BY <2>1, <2>2 DEF CancelsQueued
  <2>5. (\A v \in Workers : Minds(v))'
    BY ONLY <2>2 DEF Minds
  <2>6. (\A q \in Pipes : Fresh(q))'
    BY ONLY <1>b, <2>1, <2>3 DEF Fresh, Starting, RunsOf, Spares
  <2>7. (\A q \in Pipes : Rests(q))'
    BY ONLY <1>b, <2>1, <2>2, <2>3 DEF Rests, Starting, Reports, Busy, RunsOf, Spares, Active, Live
  <2> QED  BY ONLY <2>4, <2>5, <2>6, <2>7
<1>28. ASSUME NEW w \in Workers, WorkerDies(w) PROVE RestInv'
  BY <1>28 DEF WorkerDies
<1>29. ASSUME NEW d \in Decisions, NEW late \in SUBSET Overdue, StopPipelines(d, late)
       PROVE  RestInv'
  BY <1>29 DEF StopPipelines, StopOrganisation, Stop
<1>30. ASSUME NEW r \in Runs, Dismiss(r) /\ UNCHANGED pipeVars PROVE RestInv'
  <2>1. (\A s \in Runs : run[s] = "RUNNING" => \E v \in Workers : Generating(v, s))'
    BY <1>30 DEF Dismiss
  <2>2. (\A v \in Workers : Minds(v))'
    BY <1>30 DEF Dismiss
  <2>3. (\A q \in Pipes : Fresh(q))'
    BY <1>30 DEF Dismiss
  <2>4. (\A q \in Pipes : Rests(q))'
    BY <1>30 DEF Dismiss
  <2> QED  BY ONLY <2>1, <2>2, <2>3, <2>4
<1>31. ASSUME NEW r \in Runs, BeatExpires(r) /\ UNCHANGED pipeVars PROVE RestInv'
  BY <1>31, RestFrame DEF BeatExpires
<1>32. ASSUME Surroundings /\ UNCHANGED pipeVars PROVE RestInv'
  BY <1>32, RestFrame DEF Surroundings, engineVars
<1>33. ASSUME UNCHANGED allVars PROVE RestInv'
  BY <1>33, RestFrame DEF allVars, vars, engineVars
<1>34. ASSUME NEW w \in Workers, Work(w) PROVE RestInv'
  BY <1>14, <1>15, <1>16, <1>17, <1>34 DEF Work
<1>35. ASSUME Others PROVE RestInv'
  BY <1>30, <1>31, <1>32, <1>35 DEF Others
<1> HIDE PipelineAssumption DEF RestInv, OneAtATime, pipeVars
<1> QED
  BY <1>1, <1>2, <1>3, <1>4, <1>5, <1>6, <1>7, <1>8, <1>9, <1>10, <1>11, <1>12, <1>13, <1>18, <1>19,
     <1>20, <1>21, <1>22, <1>23, <1>24, <1>25, <1>26, <1>27, <1>28, <1>29, <1>33, <1>34, <1>35
     DEF PipeNext

\* Once a pipeline has come to rest its status tells what became of its runs, whatever
\* requests retried runs while a worker was computing it.
THEOREM PipelinesRestAsReported ==
    ASSUME Steady
    PROVE  PipeSpec => []VerdictAtRest
<1>1. PipeInit => PipeInv /\ AsksInv /\ RestInv
  <2> SUFFICES ASSUME PipeInit PROVE PipeInv /\ AsksInv /\ RestInv
    OBVIOUS
  <2>1. PipeInv
    BY PipeStart
  <2>2. RestInv
    BY PipelineAssumption DEF PipeInit, Init, EngineInit, NotStarting, Idle, RestInv, Minds, Rests, Fresh, RunsOf, Starting
  <2>3. AsksInv
    BY DEF PipeInit, Init, EngineInit, Idle, AsksInv
  <2> QED  BY <2>1, <2>2, <2>3
<1>2. PipeInv /\ AsksInv /\ RestInv /\ [PipeNext]_allVars => PipeInv' /\ AsksInv' /\ RestInv'
  BY PipeStep, AsksStep, RestStep DEF Steady
<1>3. RestInv => VerdictAtRest
  BY DEF RestInv, Rests, Reports, Busy, After, VerdictAtRest
<1> QED  BY <1>1, <1>2, <1>3, PTL DEF PipeSpec

=============================================================================
