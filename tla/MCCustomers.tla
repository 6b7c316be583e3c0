---------------------------- MODULE MCCustomers ----------------------------
(***************************************************************************)
(* What lets a customer in, what it has bought, and what it uses of that:  *)
(* sign-ins, purchases, and the ledger of research credits.  A purchase    *)
(* ends in a bucket and a decision on access in the sessions and credits   *)
(* of the customer, which the other two have as inputs of their own: each  *)
(* is explored with the others at rest.                                    *)
(*                                                                         *)
(* In the ledger the starter bucket can run out, and the Ultra bucket,     *)
(* spent first, can expire while it holds a reservation.                   *)
(***************************************************************************)
EXTENDS ResearchCredits, Accounts, Commerce, TLC

CONSTANTS core, ultra, b1, b2, d1, d2, d3, c1, m1, m2, p1, p2, g1

MCCapacity == core :> 1 @@ ultra :> 2
MCRank == ultra :> 0 @@ core :> 1

MCInit == CreditInit /\ AccountsInit /\ CommerceInit

\* At rest: the initial predicate still holds of the other components.
MCNext ==
    \/ AccountsInit /\ CommerceInit /\ CreditNext /\ UNCHANGED <<accountVars, commerceVars>>
    \/ CreditInit /\ CommerceInit /\ AccountsNext /\ UNCHANGED <<creditVars, commerceVars>>
    \/ CreditInit /\ AccountsInit /\ CommerceNext /\ UNCHANGED <<creditVars, accountVars>>

MCSpec == MCInit /\ [][MCNext]_<<creditVars, accountVars, commerceVars>> /\ CommerceFairness

=============================================================================
