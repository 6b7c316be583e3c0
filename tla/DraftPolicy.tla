---------------------------- MODULE DraftPolicy ----------------------------
(***************************************************************************)
(* What GridFlow promises about the documents its models draft (sponsor    *)
(* proposals, meeting briefings and debriefs): work begins only when a     *)
(* person asks for it, a model at most proposes, and a person decides.     *)
(* What a person has decided stays until a person asks again; a decision   *)
(* on a debrief or a preparation is for good.                              *)
(***************************************************************************)
EXTENDS Naturals

CONSTANTS Drafts, ForGood   \* ForGood: drafts that are not redone once they are accepted

VARIABLES state,  \* "none", "working", "failed", "proposed", "accepted", "refused" or "used"
          asked   \* how often a person has asked for the draft

policyVars == <<state, asked>>

PolicyInit ==
    /\ state = [d \in Drafts |-> "none"]
    /\ asked = [d \in Drafts |-> 0]

Ask(d) ==
    /\ state[d] # "working" /\ ~(d \in ForGood /\ state[d] = "accepted")
    /\ state' = [state EXCEPT ![d] = "working"]
    /\ asked' = [asked EXCEPT ![d] = @ + 1]

From(d, before, after) ==
    /\ state[d] = before
    /\ state' = [state EXCEPT ![d] = after]
    /\ UNCHANGED asked

Work(d) == From(d, "working", "proposed") \/ From(d, "working", "failed")
Decide(d) == From(d, "proposed", "accepted") \/ From(d, "proposed", "refused")
Deliver(d) == d \notin ForGood /\ From(d, "accepted", "used")

PolicyNext == \E d \in Drafts : Ask(d) \/ Work(d) \/ Decide(d) \/ Deliver(d)

PolicySpec == PolicyInit /\ [][PolicyNext]_policyVars

=============================================================================
