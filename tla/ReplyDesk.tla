----------------------------- MODULE ReplyDesk -----------------------------
(***************************************************************************)
(* Inbound replies: Sentinel classifies them (apps/worker/src/sentinel.ts),*)
(* a person accepts or corrects the classification (sentinel.service.ts),  *)
(* Nova drafts a strategy (nova.ts) and a person approves, edits or        *)
(* rejects it (nova.service.ts).                                           *)
(*                                                                         *)
(* Workers claim a reply, call a model, and write the result in a second   *)
(* transaction.  A reply that stays in PROCESSING for ten minutes is       *)
(* queued again; the call of a managed model may take fifteen, so that a   *)
(* worker may write its result when the reply has moved on.  The people's  *)
(* requests read the reply and then write it, two steps here; only Nova's  *)
(* review locks it, and is one.                                            *)
(*                                                                         *)
(* Left out: the wording of drafts and the checks on their channel, and    *)
(* the tasks an approval makes for a person.                               *)
(***************************************************************************)
EXTENDS Naturals, FiniteSets

CONSTANTS
    Replies, Workers, Apis,
    ContactOf,      \* the contact of a reply, or Nobody
    OutreachOf,     \* the outreach record of a reply, or Nobody
    Nobody,
    Intents, Interested,
    RetryLimit,     \* failures after which a reply is given up (3 in the code)
    DecisionBound,  \* bound on the decisions of people on one reply
    TroubleBound,   \* bound on deaths of workers and recoveries that meet a living one, together
    StopBound       \* bound on the suspensions of the organisation

ASSUME DeskConstants ==
    /\ RetryLimit \in Nat \ {0} /\ DecisionBound \in Nat
    /\ TroubleBound \in Nat /\ StopBound \in Nat
    /\ "UNSUBSCRIBE" \in Intents
    /\ Interested \subseteq Intents
    /\ "UNSUBSCRIBE" \notin Interested
    /\ Nobody \notin Replies \cup Workers \cup Apis

VARIABLES
    sentinelStatus, novaStatus, replyIntent,
    linked,         \* replies that an approved strategy has linked to an opportunity
    made,           \* how many opportunities a reply has made
    runs,           \* the AgentRun of each agent and reply: status and retryCount
    worker,         \* what each worker is working on
    api,            \* the request each API process is answering
    suppressed,     \* contacts with a suppression entry
    stopped,        \* outreach records whose channel actions an opt-out has stopped
    optedOut,       \* replies on which UNSUBSCRIBE was recorded (history)
    reviewed,       \* replies whose review the audit log records
    active,         \* the organisation and its entitlement are ACTIVE
    decisions, troubles, stops   \* counters of the bounds

deskVars == <<sentinelStatus, novaStatus, replyIntent, linked, made,
              runs, worker, api, suppressed, stopped, optedOut, reviewed, active,
              decisions, troubles, stops>>
people == <<reviewed, decisions, api>>
deals == <<linked, made>>
consent == <<suppressed, stopped, optedOut>>
bounds == <<troubles, stops>>

Agents == {"SENTINEL", "NOVA"}
Unclassified == "UNCLASSIFIED"
Idle == [agent |-> "NONE", reply |-> Nobody]
NoRequest == [kind |-> "NONE", reply |-> Nobody, intent |-> Unclassified]

DeskInit ==
    /\ sentinelStatus = [i \in Replies |-> "NOT_REQUIRED"]
    /\ novaStatus = [i \in Replies |-> "NOT_REQUIRED"]
    /\ replyIntent = [i \in Replies |-> Unclassified]
    /\ linked = {}
    /\ made = [i \in Replies |-> 0]
    /\ runs = [a \in Agents |-> [i \in Replies |-> [status |-> "NONE", retryCount |-> 0]]]
    /\ worker = [w \in Workers |-> Idle]
    /\ api = [p \in Apis |-> NoRequest]
    /\ suppressed = {} /\ stopped = {} /\ optedOut = {} /\ reviewed = {}
    /\ active = TRUE
    /\ decisions = [i \in Replies |-> 0]
    /\ troubles = 0 /\ stops = 0

-----------------------------------------------------------------------------
(* The reply arrives: the mailbox, a LinkedIn action or a person records   *)
(* an inbound interaction with a text.                                     *)

Arrive(i) ==
    /\ sentinelStatus[i] = "NOT_REQUIRED"
    /\ sentinelStatus' = [sentinelStatus EXCEPT ![i] = "QUEUED"]
    /\ UNCHANGED <<novaStatus, replyIntent, runs, worker, active, people, deals, consent, bounds>>

-----------------------------------------------------------------------------
(* The two workers' jobs.                                                  *)

Claimable(a, i) ==
    /\ active
    /\ IF a = "SENTINEL" THEN sentinelStatus[i] = "QUEUED"
       ELSE sentinelStatus[i] = "REVIEWED" /\ novaStatus[i] = "QUEUED" /\ replyIntent[i] # "UNSUBSCRIBE"

\* The run of the reply is made on the first claim and reused afterwards, its retries with it.
StartRun(a, i) == runs' = [runs EXCEPT ![a][i].status = "RUNNING"]

Begin(w, a, i) ==
    /\ worker[w] = Idle /\ Claimable(a, i)
    /\ StartRun(a, i)
    /\ worker' = [worker EXCEPT ![w] = [agent |-> a, reply |-> i]]

ClaimSentinel(w, i) ==
    /\ Begin(w, "SENTINEL", i)
    /\ sentinelStatus' = [sentinelStatus EXCEPT ![i] = "PROCESSING"]
    /\ UNCHANGED <<novaStatus, replyIntent, active, people, deals, consent, bounds>>

ClaimNova(w, i) ==
    /\ Begin(w, "NOVA", i)
    /\ novaStatus' = [novaStatus EXCEPT ![i] = "PROCESSING"]
    /\ UNCHANGED <<sentinelStatus, replyIntent, active, people, deals, consent, bounds>>

Works(w, a, i) ==
    /\ worker[w].agent = a /\ worker[w].reply = i
    /\ worker' = [worker EXCEPT ![w] = Idle]

\* An opt-out that the model sees suppresses the contact of an outreach record and stops the record.
SentinelOptOut(i, intent) ==
    IF intent = "UNSUBSCRIBE" /\ ContactOf[i] # Nobody /\ OutreachOf[i] # Nobody
    THEN /\ suppressed' = suppressed \cup {ContactOf[i]}
         /\ stopped' = stopped \cup {OutreachOf[i]}
    ELSE UNCHANGED <<suppressed, stopped>>

\* Whatever the reply has become since the claim, the classification is written over it.
SentinelDone(w, i, intent) ==
    /\ Works(w, "SENTINEL", i) /\ active
    /\ sentinelStatus' = [sentinelStatus EXCEPT ![i] = "CLASSIFIED"]
    /\ replyIntent' = [replyIntent EXCEPT ![i] = intent]
    /\ runs' = [runs EXCEPT !["SENTINEL"][i].status = "SUCCEEDED"]
    /\ SentinelOptOut(i, intent)
    /\ optedOut' = IF intent = "UNSUBSCRIBE" THEN optedOut \cup {i} ELSE optedOut
    /\ UNCHANGED <<novaStatus, active, people, deals, bounds>>

\* validateNovaSafety has checked the draft against the intent that was read at the claim.
NovaDone(w, i) ==
    /\ Works(w, "NOVA", i) /\ active
    /\ novaStatus' = [novaStatus EXCEPT ![i] = "READY"]
    /\ runs' = [runs EXCEPT !["NOVA"][i].status = "SUCCEEDED"]
    /\ UNCHANGED <<sentinelStatus, replyIntent, active, people, deals, consent, bounds>>

\* Mutant of CountedRetries: the retries are read and not counted up.
RetriesRead(a, i) ==
    IF runs[a][i].status \in {"RUNNING", "QUEUED"} THEN runs[a][i].retryCount ELSE RetryLimit

\* The retries counted by a failure: those of a live run and one more; a run that is
\* finished or cancelled counts as exhausted.
CountedRetries(a, i) ==
    IF runs[a][i].status \in {"RUNNING", "QUEUED"} THEN runs[a][i].retryCount + 1 ELSE RetryLimit

AfterFailure(a, i) == IF CountedRetries(a, i) >= RetryLimit THEN "FAILED" ELSE "QUEUED"

\* The call failed, its output was refused, or the organisation was stopped meanwhile.
JobFailed(w, a, i) ==
    /\ Works(w, a, i)
    /\ runs' = IF runs[a][i].status \in {"RUNNING", "QUEUED"}
               THEN [runs EXCEPT ![a][i] = [status |-> AfterFailure(a, i), retryCount |-> CountedRetries(a, i)]]
               ELSE runs
    /\ UNCHANGED <<replyIntent, active, people, deals, consent, bounds>>

SentinelFailed(w, i) ==
    /\ JobFailed(w, "SENTINEL", i)
    /\ sentinelStatus' = IF sentinelStatus[i] = "PROCESSING"
                         THEN [sentinelStatus EXCEPT ![i] = AfterFailure("SENTINEL", i)] ELSE sentinelStatus
    /\ UNCHANGED novaStatus

NovaFailed(w, i) ==
    /\ JobFailed(w, "NOVA", i)
    /\ novaStatus' = IF novaStatus[i] = "PROCESSING"
                     THEN [novaStatus EXCEPT ![i] = AfterFailure("NOVA", i)] ELSE novaStatus
    /\ UNCHANGED sentinelStatus

WorkerDies(w) ==
    /\ worker[w] # Idle /\ troubles < TroubleBound
    /\ worker' = [worker EXCEPT ![w] = Idle]
    /\ troubles' = troubles + 1
    /\ UNCHANGED <<sentinelStatus, novaStatus, replyIntent, runs, active, people, deals,
                   consent, stops>>

Held(a, i) == \E w \in Workers : worker[w].agent = a /\ worker[w].reply = i

\* Ten minutes after the claim the reply is queued again.  TroubleBound caps how often that
\* meets a worker that is still at it; a reply whose worker died is always recovered.
RecoverStale(a, i, status) ==
    /\ status = "PROCESSING"
    /\ IF Held(a, i) THEN troubles < TroubleBound /\ troubles' = troubles + 1
       ELSE UNCHANGED troubles
    /\ UNCHANGED <<replyIntent, runs, worker, active, people, deals, consent, stops>>

RecoverSentinel(i) ==
    /\ RecoverStale("SENTINEL", i, sentinelStatus[i])
    /\ sentinelStatus' = [sentinelStatus EXCEPT ![i] = "QUEUED"]
    /\ UNCHANGED novaStatus

RecoverNova(i) ==
    /\ RecoverStale("NOVA", i, novaStatus[i])
    /\ novaStatus' = [novaStatus EXCEPT ![i] = "QUEUED"]
    /\ UNCHANGED sentinelStatus

-----------------------------------------------------------------------------
(* Requests of people.  Each reads the reply first.                        *)

Ask(p, kind, i) ==
    /\ api[p] = NoRequest /\ decisions[i] < DecisionBound
    /\ decisions' = [decisions EXCEPT ![i] = @ + 1]
    /\ api' = [api EXCEPT ![p] = [kind |-> kind, reply |-> i, intent |-> replyIntent[i]]]
    /\ UNCHANGED <<sentinelStatus, novaStatus, replyIntent, runs, worker, active, reviewed,
                   deals, consent, bounds>>

AskReview(p, i) ==
    /\ sentinelStatus[i] \in {"CLASSIFIED", "REVIEWED"} /\ replyIntent[i] # Unclassified
    /\ Ask(p, "REVIEW", i)

AskSentinelRetry(p, i) == sentinelStatus[i] = "FAILED" /\ Ask(p, "SENTINEL_RETRY", i)
AskNovaRetry(p, i) == novaStatus[i] = "FAILED" /\ Ask(p, "NOVA_RETRY", i)

Answering(p, kind, i) ==
    /\ api[p].kind = kind /\ api[p].reply = i
    /\ api' = [api EXCEPT ![p] = NoRequest]

\* Mutant of ReviewOptOut: a reply that Sentinel has classified is taken to be suppressed already.
ReviewOptOutOnce(i, intent, old) ==
    IF intent = "UNSUBSCRIBE" /\ old = Unclassified /\ ContactOf[i] # Nobody
    THEN /\ suppressed' = suppressed \cup {ContactOf[i]}
         /\ stopped' = stopped \cup ({OutreachOf[i]} \ {Nobody})
    ELSE UNCHANGED <<suppressed, stopped>>

\* A confirmed opt-out suppresses the contact, and the outreach record if there is one; it
\* does so only when the intent that was read was another one.
ReviewOptOut(i, intent, old) ==
    IF intent = "UNSUBSCRIBE" /\ old # "UNSUBSCRIBE" /\ ContactOf[i] # Nobody
    THEN /\ suppressed' = suppressed \cup {ContactOf[i]}
         /\ stopped' = stopped \cup ({OutreachOf[i]} \ {Nobody})
    ELSE UNCHANGED <<suppressed, stopped>>

\* ACCEPT keeps the intent that was read, CORRECT chooses another; both queue Nova afresh.
Review(p, i, intent) ==
    /\ Answering(p, "REVIEW", i)
    /\ sentinelStatus' = [sentinelStatus EXCEPT ![i] = "REVIEWED"]
    /\ replyIntent' = [replyIntent EXCEPT ![i] = intent]
    /\ novaStatus' = [novaStatus EXCEPT ![i] = IF intent = "UNSUBSCRIBE" THEN "NOT_REQUIRED" ELSE "QUEUED"]
    /\ ReviewOptOut(i, intent, api[p].intent)
    /\ optedOut' = IF intent = "UNSUBSCRIBE" THEN optedOut \cup {i} ELSE optedOut
    /\ reviewed' = reviewed \cup {i}
    /\ UNCHANGED <<runs, worker, active, decisions, deals, bounds>>

Requeue(a, i) ==
    /\ runs' = [runs EXCEPT ![a][i] = IF @.status = "NONE" THEN @ ELSE [status |-> "QUEUED", retryCount |-> 0]]
    /\ UNCHANGED <<worker, active, reviewed, decisions, deals, consent, bounds>>

SentinelRetry(p, i) ==
    /\ Answering(p, "SENTINEL_RETRY", i) /\ Requeue("SENTINEL", i)
    /\ sentinelStatus' = [sentinelStatus EXCEPT ![i] = "QUEUED"]
    /\ replyIntent' = [replyIntent EXCEPT ![i] = Unclassified]
    /\ UNCHANGED novaStatus

NovaRetry(p, i) ==
    /\ Answering(p, "NOVA_RETRY", i) /\ Requeue("NOVA", i)
    /\ novaStatus' = [novaStatus EXCEPT ![i] = "QUEUED"]
    /\ UNCHANGED <<sentinelStatus, replyIntent>>

\* Mutant of ApprovedSafely: the draft was checked when it was written.
ApprovedWhenDrafted(opportunity, intent) == opportunity => intent \in Interested

\* assertSafe, against the intent the reply has now; opportunity says whether the strategy,
\* as Nova drafted it or as the person edited it, makes one.
ApprovedSafely(opportunity, intent) ==
    /\ intent \notin {Unclassified, "UNSUBSCRIBE"}
    /\ opportunity => intent \in Interested

\* The row of the reply is locked from the first read to the commit.  The opportunity is the
\* one linked before, an open one of the company, or a new one.
ApproveStrategy(i, opportunity) ==
    /\ novaStatus[i] = "READY" /\ ApprovedSafely(opportunity, replyIntent[i])
    /\ novaStatus' = [novaStatus EXCEPT ![i] = "REVIEWED"]
    /\ linked' = IF opportunity THEN linked \cup {i} ELSE linked
    /\ made' \in IF opportunity /\ i \notin linked THEN {made, [made EXCEPT ![i] = @ + 1]} ELSE {made}
    /\ UNCHANGED <<sentinelStatus, replyIntent, runs, worker, active, people, consent, bounds>>

RejectStrategy(i) ==
    /\ novaStatus[i] = "READY"
    /\ novaStatus' = [novaStatus EXCEPT ![i] = "REJECTED"]
    /\ UNCHANGED <<sentinelStatus, replyIntent, runs, worker, active, people, deals, consent, bounds>>

-----------------------------------------------------------------------------
(* A platform decision stops the organisation and another lets it go on.   *)

StopOrganisation ==
    /\ active /\ stops < StopBound
    /\ active' = FALSE /\ stops' = stops + 1
    /\ runs' = [a \in Agents |-> [i \in Replies |->
                  IF runs[a][i].status \in {"QUEUED", "RUNNING"}
                  THEN [runs[a][i] EXCEPT !.status = "CANCELLED"] ELSE runs[a][i]]]
    /\ sentinelStatus' = [i \in Replies |->
                  IF sentinelStatus[i] \in {"QUEUED", "PROCESSING"} THEN "FAILED" ELSE sentinelStatus[i]]
    /\ novaStatus' = [i \in Replies |->
                  IF novaStatus[i] \in {"QUEUED", "PROCESSING"} THEN "FAILED" ELSE novaStatus[i]]
    /\ UNCHANGED <<replyIntent, worker, people, deals, consent, troubles>>

ResumeOrganisation ==
    /\ ~active /\ active' = TRUE
    /\ UNCHANGED <<sentinelStatus, novaStatus, replyIntent, runs, worker, people, deals,
                   consent, bounds>>

-----------------------------------------------------------------------------
WorkerStep(w, i) ==
    \/ ClaimSentinel(w, i) \/ ClaimNova(w, i)
    \/ \E intent \in Intents : SentinelDone(w, i, intent)
    \/ NovaDone(w, i) \/ SentinelFailed(w, i) \/ NovaFailed(w, i)

RequestStep(p, i) ==
    \/ AskReview(p, i) \/ AskSentinelRetry(p, i) \/ AskNovaRetry(p, i)
    \/ \E intent \in Intents : Review(p, i, intent)
    \/ SentinelRetry(p, i) \/ NovaRetry(p, i)

DeskNext ==
    \/ \E i \in Replies : Arrive(i) \/ RecoverSentinel(i) \/ RecoverNova(i) \/ RejectStrategy(i)
    \/ \E i \in Replies, opportunity \in BOOLEAN : ApproveStrategy(i, opportunity)
    \/ \E w \in Workers, i \in Replies : WorkerStep(w, i)
    \/ \E w \in Workers : WorkerDies(w)
    \/ \E p \in Apis, i \in Replies : RequestStep(p, i)
    \/ StopOrganisation \/ ResumeOrganisation

DeskSpec == DeskInit /\ [][DeskNext]_deskVars

\* Workers poll for ever, recovery runs every minute, and a request that was begun ends.
DeskFairness ==
    /\ \A w \in Workers : WF_deskVars(\E i \in Replies : WorkerStep(w, i))
    /\ \A i \in Replies : WF_deskVars(~Held("SENTINEL", i) /\ RecoverSentinel(i))
    /\ \A p \in Apis : WF_deskVars(\E i \in Replies : api[p] # NoRequest /\ RequestStep(p, i))

-----------------------------------------------------------------------------
(* Properties.                                                             *)

\* Whatever way UNSUBSCRIBE reaches a reply of an outreach record - Sentinel, a correction, a
\* correction that another request overtook - its contact is suppressed and its record stopped
\* (sentinel.ts applyOptOut, sentinel.service.ts applyOptOut).
OptOutHonoured ==
    \A i \in optedOut : ContactOf[i] # Nobody /\ OutreachOf[i] # Nobody
        => ContactOf[i] \in suppressed /\ OutreachOf[i] \in stopped

\* A reply in the queue of a running organisation is classified or given up, though workers
\* die, calls fail and outlast their claim (sentinel.ts recoverStale and the retry limit).
RepliesSettle ==
    \A i \in Replies : sentinelStatus[i] = "QUEUED" ~>
        sentinelStatus[i] \notin {"QUEUED", "PROCESSING"} \/ ~active

-----------------------------------------------------------------------------
(* The desk implements ReplyPolicy: what a reply means is its intent, a    *)
(* person has looked at it when the audit log says so, and the answer is   *)
(* what Nova's status says of the strategy.                                *)

Policy == INSTANCE ReplyPolicy WITH
    OptOut <- "UNSUBSCRIBE",
    verdict <- replyIntent,
    looked <- reviewed,
    answer <- [i \in Replies |-> CASE novaStatus[i] = "READY" -> "proposed"
                                  [] novaStatus[i] = "REVIEWED" -> "applied"
                                  [] novaStatus[i] = "REJECTED" -> "refused"
                                  [] OTHER -> "none"],
    deals <- made

\* A model proposes and a person decides: every step of the workers and of the requests is a
\* step that ReplyPolicy allows, or none.
PeopleDecide == Policy!PolicySpec

=============================================================================
