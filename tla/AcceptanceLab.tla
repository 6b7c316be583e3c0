--------------------------- MODULE AcceptanceLab ---------------------------
(***************************************************************************)
(* The product acceptance lab (apps/api/src/acceptance-lab): the cycle of  *)
(* one release commit with its test journeys, their steps and a finding,   *)
(* frozen when the gate is ready and open again with the next change; and  *)
(* the validation of the research economics the gate asks for              *)
(* (platform.service.ts).  Each commit has a cycle of its own.             *)
(*                                                                         *)
(* A change writes, counts the steps of its journey, and as its last       *)
(* statement reopens the cycle if it reads frozen; Edit is the change up   *)
(* to there and CommitEdit its commit.  Creating a journey begins with an  *)
(* upsert of the cycle's row and so waits for a freeze, and a freeze for   *)
(* it: one step.                                                           *)
(*                                                                         *)
(* Left out: notes, evidence references and browsers, the type of a        *)
(* finding, organisations that are stopped, journeys ABANDONED (no code    *)
(* writes it).  BLOCKED steps read as FAIL, NOT_APPLICABLE ones as PASS,   *)
(* IN_PROGRESS findings as OPEN, DEFERRED ones as RESOLVED.                *)
(***************************************************************************)
EXTENDS Naturals, FiniteSets

CONSTANTS
    Journeys,           \* journeys people may create
    KindOf,             \* Journeys -> [organisation, persona, device]
    Steps,              \* ACCEPTANCE_STEPS
    MinimumJourneys,    \* ProductAcceptanceCycle.minimumJourneys
    Editors,            \* platform administrators' requests in flight
    RegressionBound,    \* bound: steps failed or reset and findings opened
    ValidationBound     \* bound: economics validations that are started

ASSUME LabConstants ==
    /\ DOMAIN KindOf = Journeys
    /\ {MinimumJourneys, RegressionBound, ValidationBound} \subseteq Nat

VARIABLES
    journey,            \* ProductAcceptanceJourney with its steps
    finding,            \* ProductAcceptanceFinding: NONE, OPEN or RESOLVED
    frozen,             \* the cycle's status is FROZEN
    editing,            \* the change each request is about to commit
    economics,          \* the newest ResearchEconomicsValidation
    overlapped,         \* history: a change was committed that another one, or a freeze, did not see
    regressions,        \* the counter of RegressionBound
    validations         \* the counter of ValidationBound

labVars == <<journey, finding, frozen, editing, economics, overlapped, regressions, validations>>

NoEdit == [change |-> "none"]

LabInit ==
    /\ journey = [j \in Journeys |-> [status |-> "NONE", step |-> [s \in Steps |-> "PENDING"]]]
    /\ finding = "NONE"
    /\ frozen = FALSE
    /\ editing = [e \in Editors |-> NoEdit]
    /\ economics = "NONE"
    /\ overlapped = FALSE
    /\ regressions = 0
    /\ validations = 0

-----------------------------------------------------------------------------
\* recomputeJourney: the verdict on the steps a request sees.
Verdict(steps) ==
    CASE \E s \in Steps : steps[s] = "FAIL" -> "BLOCKED"
      [] \A s \in Steps : steps[s] = "PASS" -> "PASSED"
      [] OTHER -> "IN_PROGRESS"

Passed == {j \in Journeys : journey[j].status = "PASSED"}
Among(field) == {KindOf[j][field] : j \in Passed}

\* The part of the gate a change can take away.
TestsReady ==
    /\ Cardinality(Passed) >= MinimumJourneys
    /\ Cardinality(Among("organisation")) >= 2
    /\ {"NEW_CORE_DRIVER", "ULTRA_RENEWAL"} \subseteq Among("persona")
    /\ {"DESKTOP", "MOBILE"} \subseteq Among("device")
    /\ finding # "OPEN"

Gate == TestsReady /\ economics = "APPROVED"

CreateJourney(j) ==
    /\ journey[j].status = "NONE"
    /\ \A e \in Editors : editing[e] # NoEdit => ~editing[e].reopens
    /\ journey' = [journey EXCEPT ![j].status = "IN_PROGRESS"]
    /\ frozen' = FALSE
    /\ UNCHANGED <<finding, editing, economics, overlapped, regressions, validations>>

-----------------------------------------------------------------------------
(* Changes of steps and findings.                                          *)

\* The steps of a journey as a request sees them that has written one of them.
Seen(p, to) == [journey[p[1]].step EXCEPT ![p[2]] = to]

\* The transaction of request e, up to its last statement: it writes the steps in `steps` (one
\* or none), and a finding unless `found` is SAME.
Edit(e, steps, to, found) ==
    /\ editing[e] = NoEdit
    /\ \A other \in Editors \ {e} :         \* the rows it writes are locked
         editing[other] # NoEdit => /\ steps \cap editing[other].steps = {}
                                  /\ "SAME" \in {found, editing[other].finding}
    /\ editing' = [editing EXCEPT ![e] =
                     [change |-> "edit", steps |-> steps, to |-> to, finding |-> found,
                      seen |-> [p \in steps |-> Seen(p, to)], reopens |-> frozen]]
    /\ UNCHANGED <<journey, finding, frozen, economics, overlapped, validations>>

Regress == regressions < RegressionBound /\ regressions' = regressions + 1

\* StepRow offers every result, and the reset of one.
UpdateStep(e, j, s, to) ==
    /\ journey[j].status # "NONE"
    /\ to = "PENDING" => journey[j].step[s] # "PENDING"
    /\ Edit(e, {<<j, s>>}, to, "SAME")
    /\ IF to = "PASS" THEN UNCHANGED regressions ELSE Regress

\* A severe finding fails the step it is about.  One finding is open at a time.
CreateFinding(e, j, s, severe) ==
    /\ journey[j].status # "NONE" /\ finding # "OPEN"
    /\ Edit(e, IF severe THEN {<<j, s>>} ELSE {}, "FAIL", "OPEN")
    /\ Regress

UpdateFinding(e, to) ==
    /\ finding # "NONE"
    /\ Edit(e, {}, "SAME", to)
    /\ IF to = "OPEN" /\ finding # "OPEN" THEN Regress ELSE UNCHANGED regressions

\* A commit that a freeze, or a count of the same journey, has missed.
Misses(x) ==
    \/ frozen /\ ~x.reopens
    \/ \E p \in x.steps : x.seen[p] # Seen(p, x.to)

\* What the commit of x does to the steps, the verdict as it was counted.
Written(x) ==
    [j \in Journeys |->
       LET own == {p \in x.steps : p[1] = j} IN
       IF own = {} THEN journey[j]
       ELSE LET p == CHOOSE p \in own : TRUE
            IN [status |-> Verdict(x.seen[p]), step |-> Seen(p, x.to)]]

\* Another request that waits to reopen the same cycle finds it open.
Released(e) ==
    [o \in Editors |->
       IF o = e THEN NoEdit
       ELSE IF editing[o] # NoEdit /\ editing[e].reopens THEN [editing[o] EXCEPT !.reopens = FALSE]
       ELSE editing[o]]

\* Mutant of CommitEdit: changes leave the freeze as it is.
CommitFrozen(e) ==
    LET x == editing[e] IN
    /\ x # NoEdit
    /\ journey' = Written(x)
    /\ finding' = IF x.finding = "SAME" THEN finding ELSE x.finding
    /\ overlapped' = (overlapped \/ Misses(x))
    /\ editing' = Released(e)
    /\ UNCHANGED <<frozen, economics, regressions, validations>>

CommitEdit(e) ==
    LET x == editing[e] IN
    /\ x # NoEdit
    /\ journey' = Written(x)
    /\ finding' = IF x.finding = "SAME" THEN finding ELSE x.finding
    /\ frozen' = (frozen /\ ~x.reopens)
    /\ overlapped' = (overlapped \/ Misses(x))
    /\ editing' = Released(e)
    /\ UNCHANGED <<economics, regressions, validations>>

\* The page offers it while the cycle is open; the cycle's row is locked, the rest is what is
\* committed.
Freeze ==
    /\ ~frozen /\ Gate
    /\ frozen' = TRUE
    /\ UNCHANGED <<journey, finding, editing, economics, overlapped, regressions, validations>>

-----------------------------------------------------------------------------
(* The validation of the research economics.                               *)

EconomicsStep(from, to) ==
    /\ economics \in from
    /\ economics' = to
    /\ UNCHANGED <<journey, finding, frozen, editing, overlapped, regressions>>

\* A new window supersedes the approved one.
StartValidation ==
    /\ validations < ValidationBound
    /\ EconomicsStep({"NONE", "APPROVED"}, "COLLECTING")
    /\ validations' = validations + 1

\* Costs may be saved again until the approval.
ReconcileValidation == EconomicsStep({"COLLECTING", "RECONCILED"}, "RECONCILED") /\ UNCHANGED validations
ApproveValidation == EconomicsStep({"RECONCILED"}, "APPROVED") /\ UNCHANGED validations

-----------------------------------------------------------------------------
LabNext ==
    \/ \E j \in Journeys : CreateJourney(j)
    \/ \E e \in Editors, j \in Journeys, s \in Steps, to \in {"PENDING", "PASS", "FAIL"} :
         UpdateStep(e, j, s, to)
    \/ \E e \in Editors, j \in Journeys, s \in Steps, severe \in BOOLEAN :
         CreateFinding(e, j, s, severe)
    \/ \E e \in Editors, to \in {"OPEN", "RESOLVED"} : UpdateFinding(e, to)
    \/ \E e \in Editors : CommitEdit(e)
    \/ Freeze
    \/ StartValidation
    \/ ReconcileValidation
    \/ ApproveValidation

LabSpec == LabInit /\ [][LabNext]_labVars

-----------------------------------------------------------------------------
\* A frozen cycle meets the gate it was frozen by, step by step: each journey that counts has
\* all of its steps passed and no finding is open, whatever was changed since.  The exception
\* are changes that overlap the freeze or one another, which the code does not keep apart;
\* the approval of the economics may be withdrawn without opening the cycle.
FrozenMeetsGate ==
    frozen /\ ~overlapped =>
        TestsReady /\ \A j \in Passed, s \in Steps : journey[j].step[s] = "PASS"

=============================================================================
