----------------------------- MODULE DraftDesk -----------------------------
(***************************************************************************)
(* Forge and Orbit on one queue: the workers take drafts of both, in any   *)
(* order of the requests, and what they do is what DraftPolicy allows.     *)
(***************************************************************************)
EXTENDS Forge, Orbit

\* A sponsor proposal is not a briefing (two tables).
ASSUME DraftDeskConstants ==
    Drafts = Proposals \cup Briefings /\ Proposals \cap Briefings = {}

draftVars == <<queueVars, forgeVars, orbitVars>>

DraftDeskInit == QueueInit /\ ForgeInit /\ OrbitInit

DraftDeskNext ==
    \/ ForgeNext /\ UNCHANGED orbitVars
    \/ OrbitNext /\ UNCHANGED forgeVars

DraftDeskSpec == DraftDeskInit /\ [][DraftDeskNext]_draftVars

-----------------------------------------------------------------------------
(* Properties.                                                             *)

\* A draft as its reader sees it.
StateOf(drafted) ==
    CASE drafted = "NONE" -> "none"
      [] drafted \in Working -> "working"
      [] drafted = "READY" -> "proposed"
      [] drafted = "FAILED" -> "failed"
      [] drafted \in {"APPROVED", "REVIEWED"} -> "accepted"
      [] drafted = "REJECTED" -> "refused"
      [] drafted = "SENT" -> "used"

PolicyState == [d \in Drafts |-> StateOf(status[d])]

Policy == INSTANCE DraftPolicy WITH state <- PolicyState, ForGood <- Briefings

\* Whatever worker comes back late, was recovered while it worked, or fails after its run was
\* replaced: work begins when a person asks, a model only proposes, and what a person has decided
\* stays (forge.ts and orbit.ts processNext, fail, recoverStale).
PeopleDecideDrafts == Policy!PolicySpec

=============================================================================
