--------------------------- MODULE LaunchControl ---------------------------
(***************************************************************************)
(* Launch Control (apps/api/src/release-acceptance): the acceptance record *)
(* of the release version, which follows the commit of whichever API       *)
(* instance shows it, its checks, the owner's approval and the release.    *)
(*                                                                         *)
(* The checks are three: `automated` stands for those GridFlow evaluates   *)
(* itself (the feature freeze of AcceptanceLab, the economics, signed      *)
(* proofs of operation, queues and configuration), `live` for those with   *)
(* an evidence rule, `signoff` for a manual one that cannot be waived.     *)
(*                                                                         *)
(* Each transaction is one step; the statements of two of them that        *)
(* overlap are not kept apart by the code and not modelled.  Left out:     *)
(* notes, scores, snapshots and the audit; FAIL reads as BLOCKED.          *)
(***************************************************************************)
EXTENDS Naturals, FiniteSets

CONSTANTS
    Commits,            \* commits of the one release version that may be deployed
    Owners,             \* owners' requests to approve or release
    DeployBound,        \* bound: instances started
    FitBound            \* bound: how often a commit's automated conditions come to hold

ASSUME LaunchConstants == {DeployBound, FitBound} \subseteq Nat

VARIABLES
    running,            \* the commits of the API instances that serve requests
    fit,                \* the commits whose automated conditions all hold
    release,            \* ReleaseAcceptance of the version and its checks
    newestRun,          \* the newest agent run of the acceptance window
    mailbox,            \* what the window shows of the controlled mailbox
    deciding,           \* what each owner's request has left to do
    everFit,            \* history: the commits whose automated conditions have all held
    earned,             \* history: the commit a check's result, or the approval, was given for
    starts, fits        \* the counters of the bounds

launchVars == <<running, fit, release, newestRun, mailbox, deciding, everFit, earned, starts, fits>>

Checks == {"automated", "live", "signoff"}
Manual == Checks \ {"automated"}
NonWaivable == {"signoff"}

Nothing == [step |-> "none"]

LaunchInit ==
    /\ \E c \in Commits : running = {c}
    /\ fit = {}
    /\ release = [commit |-> "none", status |-> "NONE", check |-> [k \in Checks |-> "PENDING"]]
    /\ newestRun = "NONE"
    /\ mailbox = {}
    /\ deciding = [p \in Owners |-> Nothing]
    /\ everFit = {}
    /\ earned = [k \in Manual \cup {"approval"} |-> "none"]
    /\ starts = 0
    /\ fits = 0

-----------------------------------------------------------------------------
(* The steps of a transaction, as functions of the record.                 *)

\* Mutant of Current: the record follows the commit and keeps what was accepted for the last.
Renamed(r, c) == [r EXCEPT !.commit = c, !.status = IF @ = "NONE" THEN "DRAFT" ELSE @]

\* ensureCurrentRelease: another commit starts over; automated results stay until evaluated.
Current(r, c) ==
    IF r.commit = c THEN r
    ELSE [commit |-> c, status |-> "DRAFT",
          check |-> [k \in Checks |-> IF k \in Manual THEN "PENDING" ELSE r.check[k]]]

\* evaluateAutomatedChecks, by the instance of commit c
Evaluated(r, c) ==
    [r EXCEPT !.check["automated"] = IF c \in fit THEN "PASS" ELSE "BLOCKED"]

AgentEvidence(newest) == newest = "ACCEPTED"
MailboxEvidence(seen) == seen = {"connected", "chain"}

\* collectLiveEvidence for a record whose window began with its commit
LiveEvidence(r) == r.commit = release.commit /\ AgentEvidence(newestRun) /\ MailboxEvidence(mailbox)

\* revalidateEvidenceChecks: only what passed is looked at again, not what was waived.
Revalidated(r) ==
    IF r.check["live"] = "PASS" /\ ~LiveEvidence(r) THEN [r EXCEPT !.check["live"] = "BLOCKED"] ELSE r

AllComplete(r) == \A k \in Checks : r.check[k] \in {"PASS", "WAIVED"}

\* refreshReleaseStatus: what was released stays so.
Refreshed(r) ==
    IF r.status = "RELEASED" \/ (r.status = "APPROVED" /\ AllComplete(r)) THEN r
    ELSE [r EXCEPT !.status = IF AllComplete(r) THEN "READY"
                              ELSE IF "BLOCKED" \in {r.check[k] : k \in Checks} THEN "BLOCKED"
                              ELSE "IN_PROGRESS"]

\* overview, served by an instance of commit c
Refresh(c) == Refreshed(Revalidated(Evaluated(Current(release, c), c)))

\* A new acceptance window shows none of the runs and messages of the last.
Write(r) ==
    /\ release' = r
    /\ newestRun' = IF r.commit = release.commit THEN newestRun ELSE "NONE"
    /\ mailbox' = IF r.commit = release.commit THEN mailbox ELSE mailbox \ {"chain"}

-----------------------------------------------------------------------------
(* Requests.                                                               *)

environment == <<running, fit, everFit, starts, fits>>

Overview(c) ==
    /\ c \in running
    /\ Write(Refresh(c))
    /\ UNCHANGED <<environment, deciding, earned>>

\* create: the current version by hand, with any commit
Create(c) ==
    /\ release.status = "NONE"
    /\ Write([release EXCEPT !.commit = c, !.status = "DRAFT"])
    /\ UNCHANGED <<environment, deciding, earned>>

\* A result is recorded whichever commit the page of its check was showing.
UpdateCheck(k, to) ==
    /\ release.status # "NONE"
    /\ to = "WAIVED" => k \notin NonWaivable
    /\ to = "PASS" /\ k = "live" => LiveEvidence(release)
    /\ Write(Refreshed([release EXCEPT !.check[k] = to]))
    /\ earned' = [earned EXCEPT ![k] = release.commit]
    /\ UNCHANGED <<environment, deciding>>

\* approve and markReleased show the release in a transaction of its own first.
Press(p, c, button) ==
    /\ c \in running /\ deciding[p] = Nothing
    /\ release.status = CASE button = "APPROVE" -> "READY" [] button = "RELEASE" -> "APPROVED"
    /\ Write(Refresh(c))
    /\ deciding' = [deciding EXCEPT ![p] = [step |-> button]]
    /\ UNCHANGED <<environment, earned>>

\* A refusal rolls the refresh back.
ApproveRelease(p) ==
    LET r == Refreshed(release) IN
    /\ deciding[p].step = "APPROVE"
    /\ deciding' = [deciding EXCEPT ![p] = Nothing]
    /\ IF r.status = "READY"
       THEN /\ Write([r EXCEPT !.status = "APPROVED"])
            /\ earned' = [earned EXCEPT !["approval"] = r.commit]
       ELSE UNCHANGED <<release, newestRun, mailbox, earned>>
    /\ UNCHANGED environment

MarkReleased(p) ==
    /\ deciding[p].step = "RELEASE"
    /\ deciding' = [deciding EXCEPT ![p] = Nothing]
    /\ IF release.status = "APPROVED" /\ AllComplete(release)
       THEN Write([release EXCEPT !.status = "RELEASED"])
       ELSE UNCHANGED <<release, newestRun, mailbox>>
    /\ UNCHANGED <<environment, earned>>

-----------------------------------------------------------------------------
(* What goes on around the release.                                        *)

\* A rolling deployment serves two commits for a while.
Deploy(c) ==
    /\ c \notin running /\ starts < DeployBound
    /\ running' = running \cup {c}
    /\ starts' = starts + 1
    /\ UNCHANGED <<fit, release, newestRun, mailbox, deciding, everFit, earned, fits>>

Retire(c) ==
    /\ c \in running /\ running # {c}
    /\ running' = running \ {c}
    /\ UNCHANGED <<fit, release, newestRun, mailbox, deciding, everFit, earned, starts, fits>>

\* Freezes, approvals of the economics, heartbeats for a commit, failures that are resolved.
BecomesFit(c) ==
    /\ c \notin fit /\ fits < FitBound
    /\ fit' = fit \cup {c}
    /\ everFit' = everFit \cup {c}
    /\ fits' = fits + 1
    /\ UNCHANGED <<running, release, newestRun, mailbox, deciding, earned, starts>>

\* A freeze is opened, a proof gets old, a job is dead.
LosesFitness(c) ==
    /\ c \in fit
    /\ fit' = fit \ {c}
    /\ UNCHANGED <<running, release, newestRun, mailbox, deciding, everFit, earned, starts, fits>>

\* Agents run, fail and are reviewed; a newer run takes the place of an accepted one.
RunMoves(to) ==
    /\ release.status # "NONE"
    /\ to \in (CASE newestRun = "RUNNING" -> {"UNREVIEWED", "FAILED"}
                 [] newestRun = "UNREVIEWED" -> {"ACCEPTED", "REJECTED", "RUNNING"}
                 [] OTHER -> {"RUNNING"})
    /\ newestRun' = to
    /\ UNCHANGED <<environment, release, mailbox, deciding, earned>>

\* The account is connected or revoked; drafts, replies, bounces and opt-outs come in.
MailboxMoves(to) ==
    /\ release.status # "NONE"
    /\ to # mailbox /\ "chain" \in mailbox => "chain" \in to
    /\ mailbox' = to
    /\ UNCHANGED <<environment, release, newestRun, deciding, earned>>

LaunchNext ==
    \/ \E c \in Commits : Overview(c)
    \/ \E c \in Commits : Create(c)
    \/ \E k \in Manual, to \in {"PASS", "BLOCKED", "WAIVED"} : UpdateCheck(k, to)
    \/ \E p \in Owners, c \in Commits, b \in {"APPROVE", "RELEASE"} : Press(p, c, b)
    \/ \E p \in Owners : ApproveRelease(p)
    \/ \E p \in Owners : MarkReleased(p)
    \/ \E c \in Commits : Deploy(c)
    \/ \E c \in Commits : Retire(c)
    \/ \E c \in Commits : BecomesFit(c)
    \/ \E c \in Commits : LosesFitness(c)
    \/ \E to \in {"RUNNING", "UNREVIEWED", "FAILED", "ACCEPTED", "REJECTED"} : RunMoves(to)
    \/ \E to \in SUBSET {"connected", "chain"} : MailboxMoves(to)

LaunchSpec == LaunchInit /\ [][LaunchNext]_launchVars

-----------------------------------------------------------------------------
\* What is accepted is accepted for the commit it names: each manual result was given, and the
\* approval and the release rest on one, while the record named that commit, and whatever is
\* ready, approved or released has met its automated conditions, the feature freeze of exactly
\* that commit among them; however instances of two commits take turns.
AcceptedForItsCommit ==
    /\ \A k \in Manual : release.check[k] \in {"PASS", "WAIVED"} => earned[k] = release.commit
    /\ release.status \in {"READY", "APPROVED", "RELEASED"} => release.commit \in everFit
    /\ release.status \in {"APPROVED", "RELEASED"} => earned["approval"] = release.commit

=============================================================================
