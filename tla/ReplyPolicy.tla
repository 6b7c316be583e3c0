---------------------------- MODULE ReplyPolicy ----------------------------
(***************************************************************************)
(* What GridFlow promises about an inbound reply, whoever works on it and  *)
(* in whatever order: a model may propose, a person decides.               *)
(*   - a verdict on a reply is proposed by Sentinel and decided by people; *)
(*   - an answer is prepared only for a reply that a person has looked at; *)
(*   - a person may have the answer prepared again;                        *)
(*   - an answer takes effect only when a person approves it, never for a  *)
(*     reply that opts out, and it makes at most one opportunity, from a   *)
(*     reply that shows interest.                                          *)
(* ReplyDesk, the code, is shown to implement this module.                 *)
(***************************************************************************)
EXTENDS Naturals

CONSTANTS Replies, Intents, Interested, OptOut, Unclassified

VARIABLES verdict,  \* the intent on the reply
          looked,   \* the replies a person has decided on at least once
          answer,   \* "none", "proposed", "applied" or "refused"
          deals     \* how many opportunities the reply has made

policyVars == <<verdict, looked, answer, deals>>

PolicyInit ==
    /\ verdict = [i \in Replies |-> Unclassified]
    /\ looked = {}
    /\ answer = [i \in Replies |-> "none"]
    /\ deals = [i \in Replies |-> 0]

\* A model classifies the reply, or a person sends it back to be classified again.
Classify(i) ==
    /\ \E v \in Intents \cup {Unclassified} : verdict' = [verdict EXCEPT ![i] = v]
    /\ UNCHANGED <<looked, answer, deals>>

\* A person decides what the reply means; an answer is prepared anew.
Decide(i) ==
    /\ \E v \in Intents : verdict' = [verdict EXCEPT ![i] = v]
    /\ looked' = looked \cup {i}
    /\ answer' = [answer EXCEPT ![i] = "none"]
    /\ UNCHANGED deals

\* A person has the answer prepared again, the old one withdrawn.
AskAgain(i) ==
    /\ i \in looked
    /\ answer' = [answer EXCEPT ![i] = "none"]
    /\ UNCHANGED <<verdict, looked, deals>>

Propose(i) ==
    /\ i \in looked
    /\ answer' = [answer EXCEPT ![i] = "proposed"]
    /\ UNCHANGED <<verdict, looked, deals>>

Apply(i) ==
    /\ answer[i] = "proposed"
    /\ verdict[i] \notin {OptOut, Unclassified}
    /\ answer' = [answer EXCEPT ![i] = "applied"]
    /\ \/ UNCHANGED deals
       \/ /\ verdict[i] \in Interested
          /\ deals[i] = 0
          /\ deals' = [deals EXCEPT ![i] = 1]
    /\ UNCHANGED <<verdict, looked>>

Refuse(i) ==
    /\ answer[i] = "proposed"
    /\ answer' = [answer EXCEPT ![i] = "refused"]
    /\ UNCHANGED <<verdict, looked, deals>>

PolicyNext ==
    \E i \in Replies : Classify(i) \/ Decide(i) \/ AskAgain(i) \/ Propose(i) \/ Apply(i) \/ Refuse(i)

PolicySpec == PolicyInit /\ [][PolicyNext]_policyVars

=============================================================================
