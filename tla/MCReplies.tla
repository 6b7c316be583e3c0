----------------------------- MODULE MCReplies -----------------------------
(***************************************************************************)
(* Replies in the mailbox and on the desk, and LinkedIn outreach.  The     *)
(* mailbox and the desk share only the row an ingested reply inserts,      *)
(* which Arrive stands for; LinkedIn takes of them that a reply came,      *)
(* which is an action of its own.  Each is explored with the others at     *)
(* rest.                                                                   *)
(***************************************************************************)
EXTENDS ReplyDesk, GmailInbox, LinkedIn, TLC

CONSTANTS r1, w1, w2, a1, a2, ana, o1

MCContactOf == [i \in Replies |-> ana]
MCOutreachOf == [i \in Replies |-> o1]

\* A policy that reviews every message, and one that reviews none.
MCLinkedInPolicies ==
    {[review |-> r, stopOnReply |-> TRUE, stopOnOptOut |-> r, stopOnMeeting |-> TRUE] : r \in BOOLEAN}

MCInit == DeskInit /\ InboxInit /\ LinkedInInit

\* At rest: every conjunct of the initial predicate still holds of the other components;
\* replies are explored once, not once for each LinkedIn policy.
MCNext ==
    \/ /\ LinkedInInit /\ rules.review /\ UNCHANGED linkedinVars
       /\ \/ InboxInit /\ DeskNext /\ UNCHANGED inboxVars
          \/ DeskInit /\ InboxNext /\ UNCHANGED deskVars
    \/ InboxInit /\ DeskInit /\ LinkedInNext /\ UNCHANGED <<inboxVars, deskVars>>

\* Nothing a component is fair to is enabled while it is at rest.
MCSpec ==
    /\ MCInit /\ [][MCNext]_<<deskVars, inboxVars, linkedinVars>>
    /\ DeskFairness /\ InboxFairness

\* Whatever is in hand with a reply comes to an end (RepliesSettle of ReplyDesk), a reply the
\* mailbox has received is recorded (AnswersAreSeen of GmailInbox), and what the outreach
\* workbench offers is taken (OffersAreRecorded of LinkedIn).
PeopleAreServed == RepliesSettle /\ AnswersAreSeen /\ []OffersAreRecorded

=============================================================================
