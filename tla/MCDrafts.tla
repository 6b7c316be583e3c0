------------------------------ MODULE MCDrafts ------------------------------
(***************************************************************************)
(* Forge and Orbit on one queue.  They share nothing but the workers and   *)
(* the organisation: each is explored with the other at rest.              *)
(***************************************************************************)
EXTENDS DraftDesk, TLC

CONSTANTS p1, m1, o1, w1, w2

MCDraftSet == {p1, <<m1, "PREP">>, <<m1, "DEBRIEF">>}
MCOpportunity(p) == o1

ForgeAtRest == ForgeInit /\ \A p \in Proposals : asked[p] = 0
OrbitAtRest == OrbitInit /\ \A b \in Briefings : asked[b] = 0

MCNext ==
    \/ OrbitAtRest /\ ForgeNext /\ UNCHANGED orbitVars
    \/ ForgeAtRest /\ OrbitNext /\ UNCHANGED forgeVars

\* A worker looks for work again and again, ends what it claimed unless it dies, and sweeps for what
\* was left by workers that did.
ClaimAny(w) ==
    \/ \E p \in Proposals : Claim(w, p) /\ UNCHANGED <<forgeVars, orbitVars>>
    \/ \E b \in Briefings : ClaimBriefing(w, b) /\ UNCHANGED forgeVars

DraftFairness ==
    /\ \A w \in Workers : WF_draftVars(ClaimAny(w))
    /\ \A w \in Workers : WF_draftVars((Succeed(w) \/ Fail(w)) /\ UNCHANGED <<forgeVars, orbitVars>>)
    /\ \A d \in Drafts : WF_draftVars(RecoverStale(d) /\ ~Held(d) /\ UNCHANGED <<forgeVars, orbitVars>>)

MCSpec == DraftDeskInit /\ [][MCNext]_draftVars /\ DraftFairness

\* A draft that was asked for is drafted or reported as failed, through worker deaths and late
\* answers, unless its run is cancelled by a stop or used up by a worker taken for dead, or what it
\* is drafted from is gone (forge.ts, orbit.ts).
DraftsSettle ==
    \A d \in Drafts :
        status[d] \in Working ~>
            status[d] \notin Working \/ Stranded(d) \/ (d \in Briefings /\ ~Draftable(d))

=============================================================================
