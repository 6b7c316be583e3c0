----------------------------- MODULE MCClients -----------------------------
(***************************************************************************)
(* The agreement and its delivery on a small instance.  The delivery is    *)
(* checked from one negotiated history (a contract activated at its first  *)
(* version, with nothing paid yet), since it depends on no other; its      *)
(* opportunity rests then, and that of its renewal is moved by updates and *)
(* debriefs.                                                               *)
(***************************************************************************)
EXTENDS ClientPages, TLC

CONSTANTS k1, k2, s1, s2, o1, o2, b1

Init == SealInit /\ DeliveryInit

\* Nothing of a delivery has happened.
Negotiating ==
    \A k \in Contracts :
        /\ programme[k].status \in {"NONE", "SETUP"} /\ report[k] = "NONE" /\ case[k] = NoCase
        /\ \A b \in Obligations :
               obligation[k][b].status \in {"NONE", "PLANNED"} /\ obligation[k][b].due = "none" /\ obligation[k][b].evidence = "none"

Origins == {contract[k].opportunity : k \in Contracts} \ {Nothing}

Renewals == {case[k].opportunity : k \in Contracts} \ {Nothing}

\* The history the delivery starts from; with a case open, obligations need proof and
\* are worked on but not rewritten, and with a renewal in the pipeline they rest.
Calm ==
    /\ \A o \in Opportunities : stage[o] \in IF o \in Origins THEN {"WON"} ELSE IF o \in Renewals THEN Stages ELSE {"NONE"}
    /\ \A o \in Origins : stage'[o] = "WON"
    /\ \A k \in Contracts :
        /\ contract[k].status = "ACTIVE" /\ contract[k].version = 1 /\ payment[k].status = "DUE"
        /\ case'[k] # NoCase => \A b \in Obligations :
               /\ obligation[k][b].status # "NONE" /\ obligation[k][b].proof /\ obligation'[k][b].proof
               /\ obligation'[k][b].due \in {obligation[k][b].due, "past"}
        /\ case[k].opportunity # Nothing => obligation'[k] = obligation[k] /\ report'[k] = report[k]

Next ==
    \/ AgreementNext /\ Negotiating
    \/ AgreementNext /\ Calm /\ \E o \in Renewals : stage'[o] # stage[o]
    \/ DeliveryNext /\ Calm

Spec == Init /\ [][Next]_clientVars

Symmetric == Permutations(Signers) \cup Permutations(Opportunities)

=============================================================================
