------------------------------ MODULE FirstRun ------------------------------
(***************************************************************************)
(* Setting up a workspace: the form that saves itself while a member fills *)
(* it in (onboarding/page.tsx, experience.service.ts), its completion,     *)
(* which writes the workspace's profile and recommends Discovery Briefs    *)
(* (onboarding.service.ts), and the first pipeline of a brief.             *)
(*                                                                         *)
(* The form's requests are separate messages: a save may be lost, or       *)
(* handled after a later one or after the completion, and the page may be  *)
(* closed before any answer.  What a form holds is a set of facts, one for *)
(* each edit; profile, policy, preference and markets come from one        *)
(* transaction and are one set.  Each member has one page open at a time.  *)
(*                                                                         *)
(* Left out: the step of the form, its checks beyond "something was        *)
(* entered", the Gemini key, the introduction before the form and the      *)
(* tutorial after it.                                                      *)
(***************************************************************************)
EXTENDS Naturals, Sequences, SequencesExt

CONSTANTS
    Members, NoWork,
    FactBound,        \* bound: facts entered
    CompletionBound,  \* bound: completions
    VisitBound,       \* bound: pages opened
    SaveBound,        \* bound: saves sent
    TroubleBound      \* bound: pages that could not load what was stored

ASSUME FirstRunConstants ==
    /\ FactBound \in Nat /\ CompletionBound \in Nat \ {0}
    /\ VisitBound \in Nat /\ SaveBound \in Nat /\ TroubleBound \in Nat
    /\ NoWork \notin [facts : SUBSET Nat, version : Nat, sound : BOOLEAN]

VARIABLES
    profile,    \* the workspace's profile; version 0 while there is none
    brief,      \* the brief recommended by each version of the profile
    pipeline,   \* its pipeline
    draft,      \* the stored draft of each member's form
    page,       \* what each member has open
    saves,      \* the saves under way, in the order they were sent
    post,       \* the completion under way
    kept,       \* the facts a member has entered and the server has taken (history)
    count       \* what the bounds limit

firstRunVars ==
    <<profile, brief, pipeline, draft, page, saves, post, kept, count>>

Versions == 1 .. CompletionBound

\* A form: its facts, the version of the profile it began with, and whether it holds everything
\* that the place it came from held (history).
Form(facts, version, sound) == [facts |-> facts, version |-> version, sound |-> sound]
Blank == Form({}, 0, TRUE)

Closed == [stage |-> "closed", form |-> Blank, unsaved |-> FALSE]

FirstRunInit ==
    /\ profile = Blank
    /\ brief = [v \in Versions |-> [life |-> "none", active |-> FALSE]]
    /\ pipeline = [v \in Versions |-> "none"]
    /\ draft = [u \in Members |-> NoWork]
    /\ page = [u \in Members |-> Closed]
    /\ saves = [u \in Members |-> <<>>]
    /\ post = [u \in Members |-> NoWork]
    /\ kept = [u \in Members |-> {}]
    /\ count = [facts |-> 0, visits |-> 0, saves |-> 0, troubles |-> 0]

Count(what, bound) == count[what] < bound /\ count' = [count EXCEPT ![what] = @ + 1]

workVars == <<brief, pipeline>>
storedVars == <<profile, draft, kept>>

-----------------------------------------------------------------------------
(* The form.                                                               *)

\* Mutant of StartingForm: the profile, once there is one, is shown before the draft.
ProfileFirst(u) == IF profile.version > 0 \/ draft[u] = NoWork THEN profile ELSE draft[u]

\* What the member's next visit begins with: the draft if one is stored, else the profile.
StartingForm(u) == IF draft[u] # NoWork THEN draft[u] ELSE profile

\* A form that is loaded while the former page's requests are under way may miss what they
\* bring.  As it has just been filled in, it will be saved.
Show(u, form, stage) ==
    /\ page[u].stage = "closed"
    /\ LET quiet == saves[u] = <<>> /\ post[u] = NoWork
       IN  page' = [page EXCEPT ![u] =
               [stage |-> stage, unsaved |-> TRUE, form |-> [form EXCEPT !.sound = @ /\ quiet]]]

LoadForm(u) ==
    /\ Show(u, StartingForm(u), "editing")
    /\ Count("visits", VisitBound)
    /\ UNCHANGED <<workVars, storedVars, saves, post>>

\* What is shown instead of the stored form may lack some of it.
InsteadOf(u, form) ==
    [form EXCEPT !.sound = @ /\ StartingForm(u).sound /\ StartingForm(u).facts \subseteq form.facts]

\* Refused drafts leave the profile, refused profiles a blank form; any other failure leaves a
\* blank form that cannot be completed, as the page has no word on the intelligence provider.
LoadFormInPart(u) ==
    /\ Count("troubles", TroubleBound)
    /\ \/ Show(u, InsteadOf(u, profile), "editing")
       \/ draft[u] = NoWork /\ Show(u, InsteadOf(u, Blank), "editing")
       \/ Show(u, InsteadOf(u, Blank), "unsure")
    /\ UNCHANGED <<workVars, storedVars, saves, post>>

\* Leaving the page drops the save that waits; what was sent is still handled.
Close(u) ==
    /\ page[u].stage # "closed"
    /\ page' = [page EXCEPT ![u] = Closed]
    /\ UNCHANGED <<workVars, storedVars, saves, post, count>>

Edit(u) ==
    /\ page[u].stage # "closed" /\ Count("facts", FactBound)
    /\ page' = [page EXCEPT ![u].form.facts = @ \cup {count'.facts}, ![u].unsaved = TRUE]
    /\ UNCHANGED <<workVars, storedVars, saves, post>>

\* Half a second after the last change the form is sent, also while it is being completed.
Autosave(u) ==
    /\ page[u].unsaved /\ Count("saves", SaveBound)
    /\ page' = [page EXCEPT ![u].unsaved = FALSE]
    /\ saves' = [saves EXCEPT ![u] = Append(@,
           [page[u].form EXCEPT !.sound = @ /\ page[u].stage \in {"editing", "unsure"}])]
    /\ UNCHANGED <<workVars, storedVars, post>>

Late(form) == [form EXCEPT !.sound = FALSE]

\* Those sent before the i-th are late once it has been handled.
After(queue, i) == [j \in 1 .. Len(queue) - 1 |-> IF j < i THEN Late(queue[j]) ELSE queue[j + 1]]

\* ExperienceService.update: whichever save is handled last is the draft.
StoreDraft(u, i) ==
    /\ i \in DOMAIN saves[u]
    /\ draft' = [draft EXCEPT ![u] = saves[u][i]]
    /\ kept' = [kept EXCEPT ![u] = @ \cup (IF saves[u][i].sound THEN saves[u][i].facts ELSE {})]
    /\ saves' = [saves EXCEPT ![u] = After(@, i)]
    /\ UNCHANGED <<workVars, profile, page, post, count>>

LoseSave(u, i) ==
    /\ i \in DOMAIN saves[u]
    /\ saves' = [saves EXCEPT ![u] = RemoveAt(@, i)]
    /\ UNCHANGED <<workVars, storedVars, page, post, count>>

-----------------------------------------------------------------------------
(* Completing it.                                                          *)

Finish(u) ==
    /\ page[u].stage = "editing" /\ page[u].form.facts # {} /\ post[u] = NoWork
    /\ post' = [post EXCEPT ![u] = page[u].form]
    /\ page' = [page EXCEPT ![u].stage = "posting"]
    /\ UNCHANGED <<workVars, storedVars, saves, count>>

Answered(u, stage) ==
    IF page[u].stage = "posting" THEN [page EXCEPT ![u].stage = stage] ELSE page

LosePost(u) ==
    /\ post[u] # NoWork
    /\ post' = [post EXCEPT ![u] = NoWork]
    /\ page' = Answered(u, "editing")
    /\ UNCHANGED <<workVars, storedVars, saves, count>>

\* Mutant of Superseded: only recommendations that nobody has activated are replaced.
SupersededUnlessActive(v) == brief[v].life = "new" /\ ~brief[v].active

\* A recommendation is replaced as long as it was never run, even if it is active.
Superseded(v) == brief[v].life = "new"

Recommend(version) ==
    brief' = [v \in Versions |->
        CASE v = version -> [life |-> "new", active |-> FALSE]
          [] v # version /\ Superseded(v) -> [life |-> "gone", active |-> FALSE]
          [] OTHER -> brief[v]]

\* OnboardingService.complete, and its answer if it arrives.  The profile is the posted form,
\* whatever another member has made of it since the form was loaded.
Complete(u) ==
    /\ post[u] # NoWork /\ profile.version < CompletionBound
    /\ profile' = Form(post[u].facts, profile.version + 1,
                       post[u].sound /\ post[u].version = profile.version)
    /\ Recommend(profile.version + 1)
    /\ draft' = [draft EXCEPT ![u] = NoWork]
    /\ kept' = [kept EXCEPT ![u] = @ \cup (IF post[u].sound THEN post[u].facts ELSE {})]
    /\ saves' = [saves EXCEPT ![u] = [i \in DOMAIN @ |-> Late(@[i])]]
    /\ post' = [post EXCEPT ![u] = NoWork]
    /\ page' \in {Answered(u, "clearing"), Answered(u, "editing")}
    /\ UNCHANGED <<pipeline, count>>

\* The page then clears the draft itself and moves on, unless the request does not get through.
ClearDraft(u) ==
    /\ page[u].stage = "clearing"
    /\ \/ draft' = [draft EXCEPT ![u] = NoWork] /\ page' = [page EXCEPT ![u] = Closed]
       \/ UNCHANGED draft /\ page' = [page EXCEPT ![u].stage = "editing"]
    /\ UNCHANGED <<workVars, profile, kept, saves, post, count>>

-----------------------------------------------------------------------------
(* The briefs and their first pipeline.                                    *)

Listed(v) == brief[v].life \notin {"none", "gone"}

SetActive(v) ==
    /\ Listed(v)
    /\ brief' = [brief EXCEPT ![v].active = ~@]
    /\ UNCHANGED <<pipeline, storedVars, page, saves, post, count>>

\* The first transaction of AgentEngine.startPipeline.
StartPipeline(v) ==
    /\ Listed(v) /\ brief[v].active /\ pipeline[v] \in {"none", "failed"}
    /\ pipeline' = [pipeline EXCEPT ![v] = "created"]
    /\ UNCHANGED <<brief, storedVars, page, saves, post, count>>

\* The second one needs the brief again.
QueueAtlas(v) ==
    /\ pipeline[v] = "created" /\ Listed(v) /\ brief[v].active /\ brief[v].life # "running"
    /\ pipeline' = [pipeline EXCEPT ![v] = "queued"]
    /\ brief' = [brief EXCEPT ![v].life = "running"]
    /\ UNCHANGED <<storedVars, page, saves, post, count>>

\* The brief is gone or idle, or the run was refused for another reason.
FailPipeline(v) ==
    /\ pipeline[v] = "created"
    /\ pipeline' = [pipeline EXCEPT ![v] = "failed"]
    /\ UNCHANGED <<brief, storedVars, page, saves, post, count>>

AtlasEnds(v) ==
    /\ brief[v].life = "running"
    /\ brief' = [brief EXCEPT ![v].life = "ran"]
    /\ UNCHANGED <<pipeline, storedVars, page, saves, post, count>>

-----------------------------------------------------------------------------
MemberStep(u) ==
    \/ LoadForm(u) \/ LoadFormInPart(u) \/ Close(u) \/ Edit(u) \/ Autosave(u)
    \/ \E i \in DOMAIN saves[u] : StoreDraft(u, i) \/ LoseSave(u, i)
    \/ Finish(u) \/ LosePost(u) \/ Complete(u) \/ ClearDraft(u)

FirstRunNext ==
    \/ \E u \in Members : MemberStep(u)
    \/ \E v \in Versions : SetActive(v) \/ StartPipeline(v) \/ QueueAtlas(v) \/ FailPipeline(v) \/ AtlasEnds(v)

FirstRunSpec == FirstRunInit /\ [][FirstRunNext]_firstRunVars

-----------------------------------------------------------------------------
(* Properties.                                                             *)

\* "Your progress saves automatically" (onboarding/page.tsx): the form that a member's next visit
\* begins with holds every fact the server has taken from them - unless a save overtook another
\* one, a completion or the loading of the next page, a page that could not load what was stored
\* saved what it had instead, or a completion replaced a profile its form had not seen.
WorkIsKept ==
    \A u \in Members : StartingForm(u).sound => kept[u] \subseteq StartingForm(u).facts

\* A recommendation of an earlier profile is there only if it was run, and research that was
\* queued has its brief, although its pipeline is started and queued in two transactions and a
\* completion may come between them (onboarding.service.ts complete, engine.ts startPipeline).
BriefsFollowProfile ==
    \A v \in Versions :
        /\ brief[v].life = "new" => v = profile.version
        /\ pipeline[v] = "queued" => Listed(v)

\* What a member entered is still there, and the briefs are those of the profile it became.
SetupIsKept == WorkIsKept /\ BriefsFollowProfile

=============================================================================
