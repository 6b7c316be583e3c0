----------------------------- MODULE ReviewForms -----------------------------
(***************************************************************************)
(* One reply and the tabs it is reviewed from: Sentinel's inbox, where its *)
(* classification is accepted or corrected (reply-review-inbox.tsx), and   *)
(* Nova's desk, where the strategy is edited and decided                   *)
(* (nova-review-desk.tsx).  Both pages keep what was changed in them by    *)
(* reply, whatever they are refreshed with, and post it against the reply  *)
(* as it has become (sentinel.service.ts, nova.service.ts).                *)
(*                                                                         *)
(* Requests that overtake each other and workers that die are ReplyDesk's: *)
(* a request is one step here, and a worker's result another.  Left out:   *)
(* the wording of the response and the check on its channel, notes, and    *)
(* the follow-up task that goes with an opportunity.                       *)
(***************************************************************************)
EXTENDS Naturals

CONSTANTS
    Tabs, Intents,
    NoIntent,
    OpportunityIntents, MeetingIntents,   \* what a strategy may recommend for which replies
    ReviewBound     \* bound: reviews of the classification

ASSUME IntentSets ==
    /\ "UNSUBSCRIBE" \in Intents \ (OpportunityIntents \cup MeetingIntents)
    /\ OpportunityIntents \cup MeetingIntents \subseteq Intents /\ NoIntent \notin Intents

VARIABLES
    reply,    \* its two statuses, intent, strategy, and what approvals made: opportunity, scheduling task
    tab,      \* the page that is open in each tab, what it was loaded with, and what was changed in it
    shown,    \* history: the form of the last approval
    reopened, \* history: the classification was reviewed again after an approval
    reviews   \* counter of the bound

formVars == <<reply, tab, shown, reopened, reviews>>

Plans == [opportunity : BOOLEAN, meeting : BOOLEAN]
NoPlan == [opportunity |-> FALSE, meeting |-> FALSE]
Untouched == [untouched |-> TRUE]
Closed == [open |-> "none"]

FormsInit ==
    /\ reply = [sentinel |-> "QUEUED", intent |-> NoIntent, nova |-> "NOT_REQUIRED", plan |-> NoPlan,
                linked |-> FALSE, task |-> FALSE]
    /\ tab = [t \in Tabs |-> Closed]
    /\ shown = NoPlan
    /\ reopened = FALSE /\ reviews = 0

-----------------------------------------------------------------------------
(* The workers.                                                            *)

Classify ==
    /\ reply.sentinel = "QUEUED"
    /\ \/ \E intent \in Intents : reply' = [reply EXCEPT !.sentinel = "CLASSIFIED", !.intent = intent]
       \/ reply' = [reply EXCEPT !.sentinel = "FAILED"]
    /\ UNCHANGED <<tab, shown, reopened, reviews>>

\* What validateNovaSafety and assertSafe let a strategy recommend for an intent.
Fits(plan, intent) ==
    /\ intent \notin {NoIntent, "UNSUBSCRIBE"}
    /\ plan.opportunity => intent \in OpportunityIntents
    /\ plan.meeting => intent \in MeetingIntents

\* The strategy fits the intent that was read at the claim, which a review may have changed since.
DraftStrategy ==
    /\ reply.sentinel = "REVIEWED" /\ reply.nova = "QUEUED"
    /\ \/ \E plan \in Plans, intent \in Intents :
            /\ intent = reply.intent \/ reviews > 1
            /\ Fits(plan, intent)
            /\ reply' = [reply EXCEPT !.nova = "READY", !.plan = plan]
       \/ reply' = [reply EXCEPT !.nova = "FAILED"]
    /\ UNCHANGED <<tab, shown, reopened, reviews>>

-----------------------------------------------------------------------------
(* Sentinel's inbox.                                                       *)

LoadInbox(t) ==
    /\ tab' = [tab EXCEPT ![t] = [open |-> "inbox", sentinel |-> reply.sentinel]]
    /\ UNCHANGED <<reply, shown, reopened, reviews>>

InboxShows(t, status) == tab[t].open = "inbox" /\ tab[t].sentinel = status

\* A review queues Nova afresh, also of a reply that was reviewed and answered.
ReviewClassification(t, intent) ==
    /\ InboxShows(t, "CLASSIFIED")
    /\ reply.sentinel \in {"CLASSIFIED", "REVIEWED"} /\ intent # NoIntent
    /\ reply' = [reply EXCEPT !.sentinel = "REVIEWED", !.intent = intent,
                              !.nova = IF intent = "UNSUBSCRIBE" THEN "NOT_REQUIRED" ELSE "QUEUED"]
    /\ reopened' = (reopened \/ reply.linked \/ reply.task)
    /\ reviews < ReviewBound /\ reviews' = reviews + 1
    /\ UNCHANGED <<tab, shown>>

\* Accepting posts no intent: the reply keeps the one it has, which need not be the one on the page.
AcceptClassification(t) == ReviewClassification(t, reply.intent)

\* A correction posts what is chosen in the form, where a choice outlives every refresh.
CorrectClassification(t, intent) == ReviewClassification(t, intent)

RetrySentinel(t) ==
    /\ InboxShows(t, "FAILED") /\ reply.sentinel = "FAILED"
    /\ reply' = [reply EXCEPT !.sentinel = "QUEUED", !.intent = NoIntent]
    /\ UNCHANGED <<tab, shown, reopened, reviews>>

-----------------------------------------------------------------------------
(* Nova's desk.                                                            *)

LoadDesk(t) ==
    /\ reply.nova # "NOT_REQUIRED"
    /\ tab' = [tab EXCEPT ![t] = [open |-> "desk", nova |-> reply.nova, plan |-> reply.plan,
                                  form |-> IF @.open = "desk" THEN @.form ELSE Untouched]]
    /\ UNCHANGED <<reply, shown, reopened, reviews>>

DeskShows(t, status) == tab[t].open = "desk" /\ tab[t].nova = status

\* The form of a strategy nobody has touched in this tab; the scheduling task comes ticked.
Blank(plan) == [opportunity |-> plan.opportunity, meeting |-> plan.meeting, task |-> plan.meeting]

\* What the desk shows: an edit hides the strategy it was made on, and every later one.
Form(t) == IF tab[t].form = Untouched THEN Blank(tab[t].plan) ELSE tab[t].form

\* The scheduling task is offered with the recommendation of a meeting, and stays ticked without.
Change(t, field) ==
    /\ DeskShows(t, "READY") /\ (field = "task" => Form(t).meeting)
    /\ tab' = [tab EXCEPT ![t].form = [Form(t) EXCEPT ![field] = ~@]]
    /\ UNCHANGED <<reply, shown, reopened, reviews>>

\* Mutant of Posted: what was not touched is left for the server to fill in.
PostedIfTouched(t) == IF tab[t].form = Untouched THEN Blank(reply.plan) ELSE tab[t].form

\* The desk posts every field, and the server takes a field of the stored strategy only for one
\* that is missing.
Posted(t) == Form(t)

\* Mutant of Decidable: a decision may be changed.
DecidableAgain == reply.nova \in {"READY", "REVIEWED"}

\* A strategy that has been decided is answered as if this were the decision.
Decidable == reply.nova = "READY"

\* Mutant of Acceptable: the strategy was checked when it was drafted.
AcceptableAsDrafted(form) == form.task => form.meeting

Acceptable(form) == Fits(form, reply.intent) /\ (form.task => form.meeting)

\* Approving and saving edits do the same.
Approve(t) ==
    /\ DeskShows(t, "READY") /\ Decidable /\ Acceptable(Posted(t))
    /\ LET form == Posted(t) IN
         reply' = [reply EXCEPT !.nova = "REVIEWED",
                                !.plan = [opportunity |-> form.opportunity, meeting |-> form.meeting],
                                !.linked = @ \/ form.opportunity,
                                !.task = @ \/ form.task]
    /\ shown' = [opportunity |-> Form(t).opportunity, meeting |-> Form(t).meeting]
    /\ UNCHANGED <<tab, reopened, reviews>>

Reject(t) ==
    /\ DeskShows(t, "READY") /\ Decidable
    /\ reply' = [reply EXCEPT !.nova = "REJECTED"]
    /\ UNCHANGED <<tab, shown, reopened, reviews>>

RetryNova(t) ==
    /\ DeskShows(t, "FAILED") /\ reply.nova = "FAILED"
    /\ reply' = [reply EXCEPT !.nova = "QUEUED"]
    /\ UNCHANGED <<tab, shown, reopened, reviews>>

-----------------------------------------------------------------------------
TabStep(t) ==
    \/ LoadInbox(t) \/ LoadDesk(t)
    \/ AcceptClassification(t) \/ RetrySentinel(t)
    \/ \E intent \in Intents : CorrectClassification(t, intent)
    \/ \E field \in {"opportunity", "meeting", "task"} : Change(t, field)
    \/ Approve(t) \/ Reject(t) \/ RetryNova(t)

FormsNext == Classify \/ DraftStrategy \/ \E t \in Tabs : TabStep(t)

FormsSpec == FormsInit /\ [][FormsNext]_formVars

-----------------------------------------------------------------------------
(* Properties.                                                             *)

\* Whatever tabs people decide from, an approved strategy is the one its reader saw and fits what
\* the reply is taken to mean, and a rejected one has made nothing, unless the reply was approved
\* once and reviewed again (nova.service.ts review, merge, assertSafe; nova-review-desk.tsx:314).
DecidedAsShown ==
    /\ reply.nova = "REVIEWED" => reply.plan = shown /\ Fits(reply.plan, reply.intent)
    /\ reply.nova = "REJECTED" => reopened \/ ~(reply.linked \/ reply.task)

=============================================================================
