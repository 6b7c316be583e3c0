---------------------------- MODULE ReplyProofs ----------------------------
(***************************************************************************)
(* Proofs about the answers to an outreach, for any number of replies,     *)
(* processes, messages and decisions and for every policy: the desk where  *)
(* they are classified and answered, the mailbox they come from, and the   *)
(* LinkedIn sequence that people record.                                   *)
(***************************************************************************)
EXTENDS ReplyDesk, GmailInbox, LinkedIn, TLAPS

-----------------------------------------------------------------------------
(***************************************************************************)
(* ReplyDesk.  UNSUBSCRIBE on a reply, or in the hands of a request, has   *)
(* been recorded; Nova prepares answers for reviewed replies only; an      *)
(* opportunity that was made is linked.                                    *)
(***************************************************************************)
DeskShape ==
    /\ DOMAIN api = Apis /\ DOMAIN worker = Workers
    /\ DOMAIN replyIntent = Replies /\ DOMAIN novaStatus = Replies
    /\ made \in [Replies -> Nat]

OptOutsRecorded ==
    /\ \A i \in Replies : replyIntent[i] = "UNSUBSCRIBE" => i \in optedOut
    /\ \A p \in Apis : api[p].intent = "UNSUBSCRIBE" => api[p].reply \in optedOut

AnswersReviewed ==
    /\ \A i \in Replies : novaStatus[i] # "NOT_REQUIRED" => i \in reviewed
    /\ \A w \in Workers : worker[w].agent = "NOVA" => worker[w].reply \in reviewed
    /\ \A p \in Apis : api[p].kind = "NOVA_RETRY" => api[p].reply \in reviewed
    /\ \A i \in Replies : i \notin linked => made[i] = 0

DeskInv == DeskShape /\ OptOutsRecorded /\ OptOutHonoured /\ AnswersReviewed

\* The people's and the workers' steps, as far as consent is concerned.
LEMMA DeskKeeps ==
    ASSUME DeskInv, [DeskNext]_deskVars
    PROVE  DeskInv'
<1> USE DEF DeskInv, DeskShape
<1>1. ASSUME NEW i \in Replies, Arrive(i) \/ RejectStrategy(i) \/ \E o \in BOOLEAN : ApproveStrategy(i, o)
      PROVE  DeskInv'
  <2>1. /\ UNCHANGED <<replyIntent, api, worker, optedOut, suppressed, stopped, reviewed>>
        /\ DOMAIN novaStatus' = Replies
        /\ \A j \in Replies : novaStatus'[j] # novaStatus[j] => novaStatus[j] = "READY"
    BY <1>1 DEF Arrive, RejectStrategy, ApproveStrategy, people, deals, consent
  <2>2. OptOutHonoured' /\ OptOutsRecorded'
    BY <2>1 DEF OptOutHonoured, OptOutsRecorded
  <2>3. made' \in [Replies -> Nat] /\ \A j \in Replies : j \notin linked' => made'[j] = 0
    BY <1>1 DEF Arrive, RejectStrategy, ApproveStrategy, deals, AnswersReviewed
  <2> QED  BY <2>1, <2>2, <2>3 DEF AnswersReviewed
<1>2. ASSUME NEW i \in Replies, RecoverSentinel(i) \/ RecoverNova(i)
      PROVE  DeskInv'
  <2>1. /\ UNCHANGED <<replyIntent, api, worker, optedOut, suppressed, stopped, reviewed, linked, made>>
        /\ DOMAIN novaStatus' = Replies
        /\ \A j \in Replies : novaStatus'[j] # novaStatus[j] => novaStatus[j] = "PROCESSING"
    BY <1>2 DEF RecoverSentinel, RecoverNova, RecoverStale, people, deals, consent
  <2> QED  BY <2>1 DEF OptOutHonoured, OptOutsRecorded, AnswersReviewed
<1>3. ASSUME NEW w \in Workers, NEW i \in Replies, WorkerStep(w, i)
      PROVE  DeskInv'
  <2>1. CASE ClaimSentinel(w, i) \/ ClaimNova(w, i)
    <3>1. /\ UNCHANGED <<replyIntent, api, optedOut, suppressed, stopped, reviewed, linked, made>>
          /\ \E a \in {"SENTINEL", "NOVA"} : worker' = [worker EXCEPT ![w] = [agent |-> a, reply |-> i]]
                                             /\ (a = "NOVA" => novaStatus[i] = "QUEUED")
          /\ DOMAIN novaStatus' = Replies
          /\ \A j \in Replies : novaStatus'[j] # novaStatus[j] => novaStatus[j] = "QUEUED"
      BY <2>1 DEF ClaimSentinel, ClaimNova, Begin, Claimable, people, deals, consent
    <3> QED  BY <3>1 DEF OptOutHonoured, OptOutsRecorded, AnswersReviewed
  <2>2. ASSUME NEW intent \in Intents, SentinelDone(w, i, intent)
        PROVE  DeskInv'
    <3>1. /\ UNCHANGED <<novaStatus, api, reviewed, linked, made>>
          /\ worker' = [worker EXCEPT ![w] = Idle]
          /\ replyIntent' = [replyIntent EXCEPT ![i] = intent]
          /\ SentinelOptOut(i, intent)
          /\ optedOut' = IF intent = "UNSUBSCRIBE" THEN optedOut \cup {i} ELSE optedOut
      BY <2>2 DEF SentinelDone, Works, people, deals
    <3>2. OptOutHonoured'
      BY <3>1 DEF OptOutHonoured, SentinelOptOut
    <3> QED  BY <3>1, <3>2 DEF OptOutsRecorded, AnswersReviewed, Idle
  <2>3. CASE NovaDone(w, i)
    <3>1. /\ UNCHANGED <<replyIntent, api, optedOut, suppressed, stopped, reviewed, linked, made>>
          /\ worker[w].agent = "NOVA" /\ worker[w].reply = i
          /\ worker' = [worker EXCEPT ![w] = Idle]
          /\ novaStatus' = [novaStatus EXCEPT ![i] = "READY"]
      BY <2>3 DEF NovaDone, Works, people, deals, consent
    <3> QED  BY <3>1 DEF OptOutHonoured, OptOutsRecorded, AnswersReviewed, Idle
  <2>4. CASE SentinelFailed(w, i) \/ NovaFailed(w, i)
    <3>1. /\ UNCHANGED <<replyIntent, api, optedOut, suppressed, stopped, reviewed, linked, made>>
          /\ worker' = [worker EXCEPT ![w] = Idle]
          /\ DOMAIN novaStatus' = Replies
          /\ \A j \in Replies : novaStatus'[j] # novaStatus[j] => novaStatus[j] = "PROCESSING"
      BY <2>4 DEF SentinelFailed, NovaFailed, JobFailed, Works, people, deals, consent
    <3> QED  BY <3>1 DEF OptOutHonoured, OptOutsRecorded, AnswersReviewed, Idle
  <2> QED  BY <1>3, <2>1, <2>2, <2>3, <2>4 DEF WorkerStep
<1>4. ASSUME NEW w \in Workers, WorkerDies(w)
      PROVE  DeskInv'
  <2>1. /\ UNCHANGED <<novaStatus, replyIntent, api, optedOut, suppressed, stopped, reviewed, linked, made>>
        /\ worker' = [worker EXCEPT ![w] = Idle]
    BY <1>4 DEF WorkerDies, people, deals, consent
  <2> QED  BY <2>1 DEF OptOutHonoured, OptOutsRecorded, AnswersReviewed, Idle
<1>5. ASSUME NEW p \in Apis, NEW i \in Replies, RequestStep(p, i)
      PROVE  DeskInv'
  <2>1. ASSUME NEW kind, Ask(p, kind, i), kind = "NOVA_RETRY" => novaStatus[i] = "FAILED"
        PROVE  DeskInv'
    <3>1. /\ UNCHANGED <<novaStatus, replyIntent, worker, optedOut, suppressed, stopped, reviewed, linked, made>>
          /\ api' = [api EXCEPT ![p] = [kind |-> kind, reply |-> i, intent |-> replyIntent[i]]]
      BY <2>1 DEF Ask, deals, consent
    <3> QED  BY <2>1, <3>1 DEF OptOutHonoured, OptOutsRecorded, AnswersReviewed
  <2>2. ASSUME NEW intent \in Intents, Review(p, i, intent)
        PROVE  DeskInv'
    <3>1. /\ UNCHANGED <<worker, linked, made>>
          /\ api[p].reply = i /\ api' = [api EXCEPT ![p] = NoRequest]
          /\ replyIntent' = [replyIntent EXCEPT ![i] = intent]
          /\ DOMAIN novaStatus' = Replies /\ \A j \in Replies \ {i} : novaStatus'[j] = novaStatus[j]
          /\ ReviewOptOut(i, intent, api[p].intent)
          /\ optedOut' = IF intent = "UNSUBSCRIBE" THEN optedOut \cup {i} ELSE optedOut
          /\ reviewed' = reviewed \cup {i}
      BY <2>2 DEF Review, Answering, deals
    <3>2. api[p].intent = "UNSUBSCRIBE" => i \in optedOut
      BY <3>1 DEF OptOutsRecorded
    <3>3. OptOutHonoured'
      BY <3>1, <3>2 DEF OptOutHonoured, ReviewOptOut
    <3>4. OptOutsRecorded'
      BY <3>1 DEF OptOutsRecorded, NoRequest, Unclassified
    <3>5. AnswersReviewed'
      BY <3>1 DEF AnswersReviewed, NoRequest
    <3> QED  BY <3>1, <3>3, <3>4, <3>5
  <2>3. CASE SentinelRetry(p, i) \/ (NovaRetry(p, i) /\ i \in reviewed)
    <3>1. /\ UNCHANGED <<worker, optedOut, suppressed, stopped, reviewed, linked, made>>
          /\ api' = [api EXCEPT ![p] = NoRequest]
          /\ DOMAIN novaStatus' = Replies /\ DOMAIN replyIntent' = Replies
          /\ \A j \in Replies : novaStatus'[j] # novaStatus[j] => j \in reviewed
          /\ \A j \in Replies : replyIntent'[j] \in {replyIntent[j], Unclassified}
      BY <2>3 DEF SentinelRetry, NovaRetry, Requeue, Answering, deals, consent
    <3> QED  BY <3>1 DEF OptOutHonoured, OptOutsRecorded, AnswersReviewed, NoRequest, Unclassified
  <2>4. NovaRetry(p, i) => i \in reviewed
    BY DEF NovaRetry, Answering, AnswersReviewed
  <2> QED
    BY <1>5, <2>1, <2>2, <2>3, <2>4 DEF RequestStep, AskReview, AskSentinelRetry, AskNovaRetry
<1>6. CASE StopOrganisation \/ ResumeOrganisation
  <2>1. /\ UNCHANGED <<replyIntent, worker, api, optedOut, suppressed, stopped, reviewed, linked, made>>
        /\ DOMAIN novaStatus' = Replies
        /\ \A j \in Replies : novaStatus'[j] # novaStatus[j] => novaStatus[j] \in {"QUEUED", "PROCESSING"}
    BY <1>6 DEF StopOrganisation, ResumeOrganisation, people, deals, consent
  <2> QED  BY <2>1 DEF OptOutHonoured, OptOutsRecorded, AnswersReviewed
<1>7. CASE UNCHANGED deskVars
  BY <1>7 DEF deskVars, OptOutHonoured, OptOutsRecorded, AnswersReviewed
<1> QED  BY <1>1, <1>2, <1>3, <1>4, <1>5, <1>6, <1>7 DEF DeskNext

LEMMA DeskInvariant == DeskSpec => []DeskInv
<1>1. DeskInit => DeskInv
  BY DEF DeskInit, DeskInv, DeskShape, OptOutsRecorded, OptOutHonoured, AnswersReviewed, Idle, NoRequest,
         Unclassified
<1> QED  BY <1>1, DeskKeeps, PTL DEF DeskSpec

\* However workers and requests overlap, the contact of a reply on which UNSUBSCRIBE was
\* recorded is suppressed, and the outreach record is stopped.
THEOREM OptOutAlwaysHonoured == DeskSpec => []OptOutHonoured
<1>1. DeskInv => OptOutHonoured
  BY DEF DeskInv
<1> QED  BY <1>1, DeskInvariant, PTL

\* What ReplyPolicy calls the answer to a reply.
AnswerOf(status) ==
    CASE status = "READY" -> "proposed"
      [] status = "REVIEWED" -> "applied"
      [] status = "REJECTED" -> "refused"
      [] OTHER -> "none"
AnswerNow == [i \in Replies |-> AnswerOf(novaStatus[i])]

\* A status that changes the answer of one reply, or of none.
LEMMA AnswerChanges ==
    ASSUME NEW i \in Replies, NEW status, DOMAIN novaStatus = Replies,
           novaStatus' = [novaStatus EXCEPT ![i] = status]
    PROVE  AnswerNow' = [AnswerNow EXCEPT ![i] = AnswerOf(status)]
BY DEF AnswerNow

LEMMA AnswerStays ==
    ASSUME \A i \in Replies : AnswerOf(novaStatus'[i]) = AnswerOf(novaStatus[i])
    PROVE  AnswerNow' = AnswerNow
BY DEF AnswerNow

\* Every step of the desk is a step of ReplyPolicy or none.
LEMMA DeskStepsArePolicySteps ==
    ASSUME DeskInv, [DeskNext]_deskVars
    PROVE  [Policy!PolicyNext]_Policy!policyVars
<1> DEFINE Same == UNCHANGED <<replyIntent, reviewed, AnswerNow, made>>
<1> USE DEF DeskInv, DeskShape
<1>0. /\ Policy!policyVars = <<replyIntent, reviewed, AnswerNow, made>>
      /\ Policy!policyVars' = <<replyIntent, reviewed, AnswerNow, made>>'
  BY DEF Policy!policyVars, AnswerNow, AnswerOf
<1>1. ASSUME NEW i \in Replies
      PROVE  /\ Policy!Classify(i) <=> /\ \E v \in Intents \cup {Unclassified} : replyIntent' = [replyIntent EXCEPT ![i] = v]
                                       /\ UNCHANGED <<reviewed, AnswerNow, made>>
             /\ Policy!Decide(i) <=> /\ \E v \in Intents : replyIntent' = [replyIntent EXCEPT ![i] = v]
                                     /\ reviewed' = reviewed \cup {i}
                                     /\ AnswerNow' = [AnswerNow EXCEPT ![i] = "none"]
                                     /\ UNCHANGED made
             /\ Policy!AskAgain(i) <=> /\ i \in reviewed /\ AnswerNow' = [AnswerNow EXCEPT ![i] = "none"]
                                       /\ UNCHANGED <<replyIntent, reviewed, made>>
             /\ Policy!Propose(i) <=> /\ i \in reviewed /\ AnswerNow' = [AnswerNow EXCEPT ![i] = "proposed"]
                                      /\ UNCHANGED <<replyIntent, reviewed, made>>
             /\ Policy!Apply(i) <=> /\ AnswerNow[i] = "proposed" /\ replyIntent[i] \notin {"UNSUBSCRIBE", Unclassified}
                                    /\ AnswerNow' = [AnswerNow EXCEPT ![i] = "applied"]
                                    /\ \/ UNCHANGED made
                                       \/ /\ replyIntent[i] \in Interested /\ made[i] = 0
                                          /\ made' = [made EXCEPT ![i] = 1]
                                    /\ UNCHANGED <<replyIntent, reviewed>>
             /\ Policy!Refuse(i) <=> /\ AnswerNow[i] = "proposed"
                                     /\ AnswerNow' = [AnswerNow EXCEPT ![i] = "refused"]
                                     /\ UNCHANGED <<replyIntent, reviewed, made>>
  BY DEF Policy!Classify, Policy!Decide, Policy!AskAgain, Policy!Propose, Policy!Apply, Policy!Refuse,
         AnswerNow, AnswerOf
<1>2. Same => [Policy!PolicyNext]_Policy!policyVars
  BY <1>0
<1>3. ASSUME NEW i \in Replies,
             Policy!Classify(i) \/ Policy!Decide(i) \/ Policy!AskAgain(i) \/ Policy!Propose(i)
               \/ Policy!Apply(i) \/ Policy!Refuse(i)
      PROVE  [Policy!PolicyNext]_Policy!policyVars
  BY <1>3 DEF Policy!PolicyNext
<1>4. ASSUME UNCHANGED <<replyIntent, reviewed, made>>,
             \A j \in Replies : AnswerOf(novaStatus'[j]) = AnswerOf(novaStatus[j])
      PROVE  Same
  BY <1>4, AnswerStays
<1>5. ASSUME NEW i \in Replies, Arrive(i) \/ RecoverSentinel(i) \/ RecoverNova(i)
      PROVE  Same
  <2>1. /\ UNCHANGED <<replyIntent, reviewed, made>>
        /\ \A j \in Replies : novaStatus'[j] # novaStatus[j] => novaStatus[j] = "PROCESSING" /\ novaStatus'[j] = "QUEUED"
    BY <1>5 DEF Arrive, RecoverSentinel, RecoverNova, RecoverStale, people, deals
  <2> QED  BY <2>1, <1>4 DEF AnswerOf
<1>6. ASSUME NEW i \in Replies, NEW o \in BOOLEAN, ApproveStrategy(i, o)
      PROVE  Policy!Apply(i)
  <2>1. /\ novaStatus[i] = "READY" /\ novaStatus' = [novaStatus EXCEPT ![i] = "REVIEWED"]
        /\ replyIntent[i] \notin {"UNSUBSCRIBE", Unclassified} /\ UNCHANGED <<replyIntent, reviewed>>
    BY <1>6 DEF ApproveStrategy, ApprovedSafely, people
  <2>2. \/ UNCHANGED made
        \/ /\ replyIntent[i] \in Interested /\ made[i] = 0
           /\ made' = [made EXCEPT ![i] = 1]
    BY <1>6 DEF ApproveStrategy, ApprovedSafely, AnswersReviewed
  <2>3. AnswerNow[i] = "proposed" /\ AnswerNow' = [AnswerNow EXCEPT ![i] = "applied"]
    BY <2>1, AnswerChanges DEF AnswerNow, AnswerOf
  <2> QED  BY <1>1, <2>1, <2>2, <2>3
<1>7. ASSUME NEW i \in Replies, RejectStrategy(i)
      PROVE  Policy!Refuse(i)
  <2>1. /\ novaStatus[i] = "READY" /\ novaStatus' = [novaStatus EXCEPT ![i] = "REJECTED"]
        /\ UNCHANGED <<replyIntent, reviewed, made>>
    BY <1>7 DEF RejectStrategy, people, deals
  <2>2. AnswerNow[i] = "proposed" /\ AnswerNow' = [AnswerNow EXCEPT ![i] = "refused"]
    BY <2>1, AnswerChanges DEF AnswerNow, AnswerOf
  <2> QED  BY <1>1, <2>1, <2>2
<1>8. ASSUME NEW w \in Workers, NEW i \in Replies, WorkerStep(w, i)
      PROVE  Same \/ Policy!Classify(i) \/ Policy!Propose(i)
  <2>1. CASE ClaimSentinel(w, i) \/ ClaimNova(w, i) \/ SentinelFailed(w, i) \/ NovaFailed(w, i)
    <3>1. /\ UNCHANGED <<replyIntent, reviewed, made>>
          /\ \A j \in Replies : novaStatus'[j] # novaStatus[j] =>
                novaStatus[j] \in {"QUEUED", "PROCESSING"} /\ novaStatus'[j] \in {"QUEUED", "PROCESSING", "FAILED"}
      BY <2>1 DEF ClaimSentinel, ClaimNova, Begin, Claimable, SentinelFailed, NovaFailed, JobFailed,
                  AfterFailure, people, deals
    <3> QED  BY <3>1, <1>4 DEF AnswerOf
  <2>2. ASSUME NEW intent \in Intents, SentinelDone(w, i, intent)
        PROVE  Policy!Classify(i)
    <3>1. replyIntent' = [replyIntent EXCEPT ![i] = intent] /\ UNCHANGED <<reviewed, novaStatus, made>>
      BY <2>2 DEF SentinelDone, people, deals
    <3> QED  BY <1>1, <3>1, AnswerStays
  <2>3. CASE NovaDone(w, i)
    <3>1. /\ i \in reviewed /\ novaStatus' = [novaStatus EXCEPT ![i] = "READY"]
          /\ UNCHANGED <<replyIntent, reviewed, made>>
      BY <2>3 DEF NovaDone, Works, AnswersReviewed, people, deals
    <3>2. AnswerNow' = [AnswerNow EXCEPT ![i] = "proposed"]
      BY <3>1, AnswerChanges DEF AnswerOf
    <3> QED  BY <1>1, <3>1, <3>2
  <2> QED  BY <1>8, <2>1, <2>2, <2>3 DEF WorkerStep
<1>9. ASSUME NEW p \in Apis, NEW i \in Replies, RequestStep(p, i)
      PROVE  Same \/ Policy!Classify(i) \/ Policy!Decide(i) \/ Policy!AskAgain(i)
  <2>1. CASE AskReview(p, i) \/ AskSentinelRetry(p, i) \/ AskNovaRetry(p, i)
    <3>1. UNCHANGED <<replyIntent, reviewed, novaStatus, made>>
      BY <2>1 DEF AskReview, AskSentinelRetry, AskNovaRetry, Ask, deals
    <3> QED  BY <3>1, AnswerStays
  <2>2. ASSUME NEW intent \in Intents, Review(p, i, intent)
        PROVE  Policy!Decide(i)
    <3> DEFINE status == IF intent = "UNSUBSCRIBE" THEN "NOT_REQUIRED" ELSE "QUEUED"
    <3>1. /\ replyIntent' = [replyIntent EXCEPT ![i] = intent] /\ reviewed' = reviewed \cup {i}
          /\ novaStatus' = [novaStatus EXCEPT ![i] = status] /\ UNCHANGED made
      BY <2>2 DEF Review, deals
    <3>2. AnswerOf(status) = "none"
      BY DEF AnswerOf
    <3> HIDE DEF status
    <3>3. AnswerNow' = [AnswerNow EXCEPT ![i] = "none"]
      BY <3>1, <3>2, AnswerChanges
    <3> QED  BY <1>1, <3>1, <3>3
  <2>3. CASE SentinelRetry(p, i)
    <3>1. replyIntent' = [replyIntent EXCEPT ![i] = Unclassified] /\ UNCHANGED <<reviewed, novaStatus, made>>
      BY <2>3 DEF SentinelRetry, Requeue, deals
    <3> QED  BY <1>1, <3>1, AnswerStays
  <2>4. CASE NovaRetry(p, i)
    <3>1. /\ i \in reviewed /\ novaStatus' = [novaStatus EXCEPT ![i] = "QUEUED"]
          /\ UNCHANGED <<replyIntent, reviewed, made>>
      BY <2>4 DEF NovaRetry, Answering, AnswersReviewed, Requeue, deals
    <3>2. AnswerOf("QUEUED") = "none"
      BY DEF AnswerOf
    <3>3. AnswerNow' = [AnswerNow EXCEPT ![i] = "none"]
      BY <3>1, <3>2, AnswerChanges
    <3> QED  BY <1>1, <3>1, <3>3
  <2> QED  BY <1>9, <2>1, <2>2, <2>3, <2>4 DEF RequestStep
<1>10. CASE (\E w \in Workers : WorkerDies(w)) \/ StopOrganisation \/ ResumeOrganisation \/ UNCHANGED deskVars
  <2>1. /\ UNCHANGED <<replyIntent, reviewed, made>>
        /\ \A j \in Replies : novaStatus'[j] # novaStatus[j] =>
              novaStatus[j] \in {"QUEUED", "PROCESSING"} /\ novaStatus'[j] = "FAILED"
    BY <1>10 DEF WorkerDies, StopOrganisation, ResumeOrganisation, people, deals, deskVars
  <2>2. Same
    BY <2>1, <1>4 DEF AnswerOf
  <2> QED  BY <2>2, <1>2
<1> HIDE DEF Same
<1> QED
  BY <1>2, <1>3, <1>5, <1>6, <1>7, <1>8, <1>9, <1>10 DEF DeskNext

\* Of replies, a model proposes and a person decides: the desk implements ReplyPolicy.
THEOREM DeskImplementsPolicy == DeskSpec => PeopleDecide
<1>1. DeskInit => Policy!PolicyInit
  BY DEF DeskInit, Policy!PolicyInit
<1> QED
  BY <1>1, DeskInvariant, DeskStepsArePolicySteps, PTL DEF DeskSpec, PeopleDecide, Policy!PolicySpec

-----------------------------------------------------------------------------
(***************************************************************************)
(* GmailInbox.  A pass has in hand what it will have missed or stored when *)
(* the cursor moves: all that came up to the cursor it is about to write.  *)
(***************************************************************************)
InboxShape ==
    /\ arrived \in Nat
    /\ account \in [status : {"CONNECTED", "DISCONNECTED", "ERROR"}, token : BOOLEAN, cursor : Nat]
    /\ account.cursor <= arrived
    /\ pass \in [Synchronisers -> [stage : {"idle", "listed", "reading"}, todo : SUBSET Nat, latest : Nat]]

\* The messages a pass answers for: a listing, all that are there; a reading, those up to
\* its cursor.
Scope(p) == CASE pass[p].stage = "listed" -> 1..arrived
              [] pass[p].stage = "reading" -> 1..pass[p].latest
              [] OTHER -> {}

PassesAccount ==
    \A p \in Synchronisers :
        /\ pass[p].latest <= arrived
        /\ \A m \in Answers \cap Scope(p) : m \in stored \cup gone \cup passedOver \cup pass[p].todo

InboxInv == InboxShape /\ PassesAccount /\ MissedOnlyWhen

\* Numbers up to a bound, and those beyond it.
LEMMA UpTo ==
    ASSUME NEW a \in Nat, NEW b \in Nat, a <= b, NEW m \in 1..b
    PROVE  m \in Nat /\ (m \in 1..a \/ m \in (a + 1)..b)
OBVIOUS

\* A step of a process that leaves what the others answer for.
LEMMA PassKeeps ==
    ASSUME InboxInv, NEW p \in Synchronisers, NEW next,
           pass' = [pass EXCEPT ![p] = next],
           next \in [stage : {"idle", "listed", "reading"}, todo : SUBSET Nat, latest : Nat],
           UNCHANGED <<arrived, gone>>, stored \subseteq stored', passedOver \subseteq passedOver',
           next.latest <= arrived,
           \A m \in Answers \cap Scope(p)' : m \in stored' \cup gone \cup passedOver' \cup next.todo
    PROVE  PassesAccount' /\ pass' \in [Synchronisers -> [stage : {"idle", "listed", "reading"}, todo : SUBSET Nat, latest : Nat]]
<1> USE DEF InboxInv, InboxShape
<1>1. pass' \in [Synchronisers -> [stage : {"idle", "listed", "reading"}, todo : SUBSET Nat, latest : Nat]]
  OBVIOUS
<1>2. ASSUME NEW q \in Synchronisers
      PROVE  /\ pass'[q].latest <= arrived
             /\ \A m \in Answers \cap Scope(q)' : m \in stored' \cup gone \cup passedOver' \cup pass'[q].todo
  <2>1. CASE q = p
    BY <2>1
  <2>2. CASE q # p
    <3>1. pass'[q] = pass[q]
      BY <2>2
    <3>2. Scope(q)' = Scope(q)
      BY <3>1 DEF Scope
    <3> QED  BY <3>1, <3>2 DEF PassesAccount
  <2> QED  BY <2>1, <2>2
<1> QED  BY <1>1, <1>2 DEF PassesAccount

\* What happens to the mailbox and to the connection.
LEMMA MailboxKeeps ==
    ASSUME InboxInv, MailArrives \/ HistoryExpires \/ Connect \/ Disconnect \/ \E m \in 1..MailBound : MailDeleted(m)
    PROVE  InboxInv'
<1> USE DEF InboxInv, InboxShape
<1>1. CASE MailArrives
  <2>1. /\ arrived' = arrived + 1 /\ UNCHANGED <<gone, account, pass, stored>>
        /\ passedOver' = passedOver \/ passedOver' = passedOver \cup {arrived + 1}
        /\ \A p \in Synchronisers : pass[p].stage = "listed" => arrived + 1 \in passedOver'
    BY <1>1 DEF MailArrives
  <2>2. ASSUME NEW p \in Synchronisers, NEW m \in Answers \cap Scope(p)'
        PROVE  m \in stored \cup gone \cup passedOver' \cup pass[p].todo
    <3>1. m \in Scope(p) \/ (pass[p].stage = "listed" /\ m = arrived + 1)
      BY <2>1, <2>2 DEF Scope
    <3> QED  BY <2>1, <3>1 DEF PassesAccount
  <2>3. PassesAccount'
    BY <2>1, <2>2 DEF PassesAccount
  <2>4. MissedOnlyWhen'
    BY <2>1 DEF MissedOnlyWhen
  <2> QED  BY <2>1, <2>3, <2>4
<1>2. CASE HistoryExpires
  <2>1. UNCHANGED <<arrived, gone, account, pass, stored, passedOver>>
    BY <1>2 DEF HistoryExpires
  <2> QED  BY <2>1 DEF PassesAccount, Scope, MissedOnlyWhen
<1>3. CASE Connect
  <2>1. /\ UNCHANGED <<arrived, gone, pass, stored>>
        /\ account' = [status |-> "CONNECTED", token |-> TRUE, cursor |-> arrived]
        /\ passedOver' = passedOver \cup ((account.cursor + 1)..arrived)
    BY <1>3 DEF Connect
  <2>2. PassesAccount'
    BY <2>1 DEF PassesAccount, Scope
  <2>3. MissedOnlyWhen'
    BY <2>1, UpTo DEF MissedOnlyWhen
  <2> QED  BY <2>1, <2>2, <2>3
<1>4. CASE Disconnect
  <2>1. /\ UNCHANGED <<arrived, gone, pass, stored, passedOver>>
        /\ account' = [account EXCEPT !.status = "DISCONNECTED", !.token = FALSE]
    BY <1>4 DEF Disconnect
  <2>2. account'.cursor = account.cursor
    BY <2>1
  <2> QED  BY <2>1, <2>2 DEF PassesAccount, Scope, MissedOnlyWhen
<1>5. CASE \E m \in 1..MailBound : MailDeleted(m)
  <2>1. UNCHANGED <<arrived, account, pass, stored, passedOver>> /\ gone \subseteq gone'
    BY <1>5 DEF MailDeleted
  <2> QED  BY <2>1 DEF PassesAccount, Scope, MissedOnlyWhen
<1> QED  BY <1>1, <1>2, <1>3, <1>4, <1>5

\* The steps of a pass.
LEMMA PassStepKeeps ==
    ASSUME InboxInv, NEW p \in Synchronisers, PassStep(p) \/ CallFails(p) \/ ProcessDies(p)
    PROVE  InboxInv'
<1> USE DEF InboxInv, InboxShape
<1>1. CASE ReadHistory(p)
  <2> DEFINE next == [stage |-> "reading", todo |-> OldestOf(Added), latest |-> arrived]
  <2>1. /\ UNCHANGED <<arrived, gone, account, stored>>
        /\ pass' = [pass EXCEPT ![p] = next]
        /\ passedOver' = passedOver \cup (Added \ OldestOf(Added))
    BY <1>1 DEF ReadHistory
  <2>2. OldestOf(Added) \subseteq Added /\ Added = (account.cursor + 1)..arrived
    BY DEF OldestOf, Added
  <2>3. pass'[p] = next /\ Scope(p)' = 1..arrived
    BY <2>1 DEF Scope
  <2>4. ASSUME NEW m \in Answers, m \in 1..arrived
        PROVE  m \in stored \cup gone \cup passedOver' \cup OldestOf(Added)
    <3>1. m \in 1..account.cursor \/ m \in Added
      BY <2>2, <2>4, UpTo
    <3> QED  BY <2>1, <2>4, <3>1 DEF MissedOnlyWhen
  <2>5. next \in [stage : {"idle", "listed", "reading"}, todo : SUBSET Nat, latest : Nat] /\ next.latest <= arrived /\ next.todo = OldestOf(Added)
    BY <2>2
  <2> HIDE DEF next
  <2>6. \A m \in Answers \cap Scope(p)' : m \in stored' \cup gone \cup passedOver' \cup next.todo
    BY <2>1, <2>3, <2>4, <2>5
  <2>7. PassesAccount' /\ pass' \in [Synchronisers -> [stage : {"idle", "listed", "reading"}, todo : SUBSET Nat, latest : Nat]]
    BY <2>1, <2>5, <2>6, PassKeeps
  <2>8. MissedOnlyWhen'
    BY <2>1 DEF MissedOnlyWhen
  <2> QED  BY <2>1, <2>7, <2>8
<1>2. CASE ListMailbox(p)
  <2> DEFINE there == 1..arrived \ gone
             next == [stage |-> "listed", todo |-> NewestOf(there), latest |-> 0]
  <2>1. /\ UNCHANGED <<arrived, gone, account, stored>>
        /\ pass' = [pass EXCEPT ![p] = next]
        /\ passedOver' = passedOver \cup (there \ NewestOf(there))
    BY <1>2 DEF ListMailbox
  <2>2. NewestOf(there) \subseteq there
    BY DEF NewestOf
  <2>3. pass'[p] = next /\ Scope(p)' = 1..arrived
    BY <2>1 DEF Scope
  <2>4. next \in [stage : {"idle", "listed", "reading"}, todo : SUBSET Nat, latest : Nat] /\ next.latest <= arrived /\ next.todo = NewestOf(there)
    <3>1. there \subseteq Nat
      OBVIOUS
    <3> HIDE DEF there
    <3>2. NewestOf(there) \in SUBSET Nat
      BY <2>2, <3>1
    <3> QED  BY <3>2
  <2> HIDE DEF next
  <2>5. \A m \in 1..arrived : m \in gone \cup passedOver' \cup next.todo
    <3>1. \A m \in 1..arrived : m \in gone \/ m \in there
      OBVIOUS
    <3> HIDE DEF there
    <3> QED  BY <2>1, <2>4, <3>1
  <2>6. PassesAccount' /\ pass' \in [Synchronisers -> [stage : {"idle", "listed", "reading"}, todo : SUBSET Nat, latest : Nat]]
    BY <2>1, <2>3, <2>4, <2>5, PassKeeps
  <2>7. MissedOnlyWhen'
    BY <2>1 DEF MissedOnlyWhen
  <2> QED  BY <2>1, <2>6, <2>7
<1>3. CASE ReadProfile(p)
  <2> DEFINE next == [pass[p] EXCEPT !.stage = "reading", !.latest = arrived]
  <2>1. /\ UNCHANGED <<arrived, gone, account, stored, passedOver>> /\ pass[p].stage = "listed"
        /\ pass' = [pass EXCEPT ![p] = next]
    BY <1>3 DEF ReadProfile
  <2>2. /\ next \in [stage : {"idle", "listed", "reading"}, todo : SUBSET Nat, latest : Nat]
        /\ next.stage = "reading" /\ next.latest = arrived /\ next.todo = pass[p].todo
    OBVIOUS
  <2>3. pass'[p] = next
    BY <2>1
  <2> HIDE DEF next
  <2>4. Scope(p)' = 1..arrived /\ Scope(p) = 1..arrived
    BY <2>1, <2>2, <2>3 DEF Scope
  <2>5. \A m \in Answers \cap Scope(p)' : m \in stored' \cup gone \cup passedOver' \cup next.todo
    BY <2>1, <2>2, <2>4 DEF PassesAccount
  <2>6. next.latest <= arrived
    BY <2>2
  <2>7. PassesAccount' /\ pass' \in [Synchronisers -> [stage : {"idle", "listed", "reading"}, todo : SUBSET Nat, latest : Nat]]
    BY <2>1, <2>2, <2>5, <2>6, PassKeeps
  <2>8. MissedOnlyWhen'
    BY <2>1 DEF MissedOnlyWhen
  <2> QED  BY <2>1, <2>7, <2>8
<1>4. ASSUME NEW m \in 1..MailBound, Ingest(p, m)
      PROVE  InboxInv'
  <2> DEFINE next == [pass[p] EXCEPT !.todo = @ \ {m}]
  <2>1. /\ UNCHANGED <<arrived, gone, account, passedOver>>
        /\ pass[p].stage = "reading" /\ m \in pass[p].todo
        /\ pass' = [pass EXCEPT ![p] = next] /\ stored' = stored \cup ({m} \cap Answers)
    BY <1>4 DEF Ingest
  <2>2. /\ next \in [stage : {"idle", "listed", "reading"}, todo : SUBSET Nat, latest : Nat]
        /\ next.stage = "reading" /\ next.latest = pass[p].latest /\ next.todo = pass[p].todo \ {m}
    BY <2>1
  <2>3. pass'[p] = next
    BY <2>1
  <2> HIDE DEF next
  <2>4. Scope(p)' = Scope(p)
    BY <2>1, <2>2, <2>3 DEF Scope
  <2>5. \A k \in Answers \cap Scope(p)' : k \in stored' \cup gone \cup passedOver' \cup next.todo
    BY <2>1, <2>2, <2>4 DEF PassesAccount
  <2>6. next.latest <= arrived
    BY <2>2 DEF PassesAccount
  <2>7. PassesAccount' /\ pass' \in [Synchronisers -> [stage : {"idle", "listed", "reading"}, todo : SUBSET Nat, latest : Nat]]
    BY <2>1, <2>2, <2>5, <2>6, PassKeeps
  <2>8. MissedOnlyWhen'
    BY <2>1 DEF MissedOnlyWhen
  <2> QED  BY <2>1, <2>7, <2>8
<1>5. ASSUME pass' = [pass EXCEPT ![p] = NoPass], UNCHANGED <<arrived, gone, stored, passedOver>>
      PROVE  PassesAccount' /\ pass' \in [Synchronisers -> [stage : {"idle", "listed", "reading"}, todo : SUBSET Nat, latest : Nat]]
  <2>1. pass'[p].stage = "idle"
    BY <1>5 DEF NoPass
  <2>2. Scope(p)' = {}
    BY <2>1 DEF Scope
  <2>3. NoPass \in [stage : {"idle", "listed", "reading"}, todo : SUBSET Nat, latest : Nat] /\ NoPass.latest <= arrived
    BY DEF NoPass
  <2>4. \A m \in Answers \cap Scope(p)' : m \in stored' \cup gone \cup passedOver' \cup NoPass.todo
    BY <2>2
  <2> QED  BY <1>5, <2>3, <2>4, PassKeeps
<1>6. CASE FinishPass(p)
  <2>1. /\ UNCHANGED <<arrived, gone, stored, passedOver>>
        /\ pass[p].stage = "reading" /\ pass[p].todo = {}
        /\ pass' = [pass EXCEPT ![p] = NoPass]
        /\ account' = [account EXCEPT !.status = "CONNECTED", !.cursor = pass[p].latest]
    BY <1>6 DEF FinishPass, CursorAfter
  <2>2. /\ account' \in [status : {"CONNECTED", "DISCONNECTED", "ERROR"}, token : BOOLEAN, cursor : Nat]
        /\ account'.cursor = pass[p].latest
    BY <2>1
  <2>3. account'.cursor <= arrived
    BY <2>2 DEF PassesAccount
  <2>4. MissedOnlyWhen'
    BY <2>1, <2>2 DEF MissedOnlyWhen, PassesAccount, Scope
  <2> QED  BY <1>5, <2>1, <2>2, <2>3, <2>4
<1>7. CASE MessageMissing(p) \/ CallFails(p) \/ ProcessDies(p)
  <2>1. /\ UNCHANGED <<arrived, gone, stored, passedOver>>
        /\ pass' = [pass EXCEPT ![p] = NoPass]
        /\ account' = account \/ account' = [account EXCEPT !.status = "ERROR"]
    BY <1>7 DEF MessageMissing, CallFails, ProcessDies, Abandon
  <2>2. /\ account' \in [status : {"CONNECTED", "DISCONNECTED", "ERROR"}, token : BOOLEAN, cursor : Nat]
        /\ account'.cursor = account.cursor
    BY <2>1
  <2>3. MissedOnlyWhen'
    BY <2>1, <2>2 DEF MissedOnlyWhen
  <2> QED  BY <1>5, <2>1, <2>2, <2>3
<1> QED  BY <1>1, <1>2, <1>3, <1>4, <1>6, <1>7 DEF PassStep

LEMMA InboxInvariant == InboxSpec => []InboxInv
<1>1. InboxInit => InboxInv
  BY InboxConstants DEF InboxInit, InboxInv, InboxShape, PassesAccount, MissedOnlyWhen, Scope, NoPass
<1>2. InboxInv /\ [InboxNext]_inboxVars => InboxInv'
  <2>1. InboxInv /\ UNCHANGED inboxVars => InboxInv'
    BY DEF inboxVars, InboxInv, InboxShape, PassesAccount, MissedOnlyWhen, Scope
  <2> QED  BY <2>1, MailboxKeeps, PassStepKeeps DEF InboxNext
<1> QED  BY <1>1, <1>2, PTL DEF InboxSpec

\* However the passes of workers and users overlap, fail or die, no answer behind the cursor
\* was missed but for the stated reasons.
THEOREM MissedOnlyAsStated == InboxSpec => []MissedOnlyWhen
<1>1. InboxInv => MissedOnlyWhen
  BY DEF InboxInv
<1> QED  BY <1>1, InboxInvariant, PTL

-----------------------------------------------------------------------------
(***************************************************************************)
(* LinkedIn.  The states a record can be resumed in, the status of its     *)
(* message rows, and whether anybody has answered.                         *)
(***************************************************************************)
Ongoing == {"NOT_STARTED", "CONNECTION_SENT", "ACCEPTED", "FOLLOW_UP_SENT", "PAUSED"}
Silent == ~barred /\ ~Progressed

\* An answer by email is one of the contact, and a failure bars the contact.
MailAgrees ==
    /\ email = "REPLIED" => Progressed \/ linkedin = "NOT_INTERESTED"
    /\ email \in {"BOUNCED", "SUPPRESSED"} => barred

\* The follow-up has a row from the acceptance on, which the row of the connection keeps.
RowsAgree ==
    /\ DOMAIN row = RowNames
    /\ row["FOLLOW_UP_1"] # "NONE" \/ "FOLLOW_UP_1" \in dated => row["CONNECTION"] = "ACCEPTED"
    /\ linkedin \in {"NOT_STARTED", "CONNECTION_SENT"} => row["CONNECTION"] # "ACCEPTED"
    /\ linkedin \in {"ACCEPTED", "FOLLOW_UP_SENT"} => row["CONNECTION"] = "ACCEPTED"

\* As long as the contact is silent and no meeting interferes, the dates of the rows are
\* those of the messages: a resumption can rely on them.
DatesAgree ==
    /\ "CONNECTION" \in dated <=> "CONNECTION_SENT" \in sent
    /\ "FOLLOW_UP_1" \in dated <=> "FOLLOW_UP_SENT" \in sent
    /\ row["CONNECTION"] \in {"SENT", "ACCEPTED"} => "CONNECTION_SENT" \in sent
    /\ row["FOLLOW_UP_1"] = "SENT" => "FOLLOW_UP_SENT" \in sent
    /\ "FOLLOW_UP_SENT" \in sent => "CONNECTION_SENT" \in sent
    /\ sent \subseteq {"CONNECTION_SENT", "FOLLOW_UP_SENT"}

SentAgrees == ~ended /\ Silent /\ linkedin \in Ongoing => DatesAgree

\* A check that was never interrupted is open as long as its state lasts.
ChecksAgree ==
    ~interrupted /\ Silent /\ linkedin \in Ongoing =>
        /\ row["CONNECTION"] # "ACCEPTED" => row["PULSE_CONNECTION_CHECK"] \in Pending \cup {"NONE"}
        /\ row["PULSE_CONNECTION_CHECK"] \in Pending => linkedin \notin {"NOT_STARTED", "PAUSED"}
        /\ row["PULSE_REPLY_CHECK"] \in Pending \cup {"NONE"}
        /\ row["PULSE_REPLY_CHECK"] \in Pending => linkedin = "FOLLOW_UP_SENT"
        /\ \A check \in Checks : row[check] \in Pending => due

LinkedInInv == MailAgrees /\ RowsAgree /\ SaysWhatWasSent /\ SentAgrees /\ ChecksAgree

\* The rows are four.
LEMMA FourRows ==
    /\ "CONNECTION" \in RowNames /\ "FOLLOW_UP_1" \in RowNames
    /\ "PULSE_CONNECTION_CHECK" \in RowNames /\ "PULSE_REPLY_CHECK" \in RowNames
BY DEF RowNames, MessageRows, Checks

\* Settling the pending rows leaves the others.
LEMMA Settled ==
    ASSUME NEW status, Settle(status), DOMAIN row = RowNames
    PROVE  /\ DOMAIN row' = RowNames
           /\ \A n \in RowNames : row'[n] = IF row[n] \in Pending THEN status ELSE row[n]
BY DEF Settle, PendingRows

\* A pause of the pending rows, by whatever stops them.
LEMMA PauseKeeps ==
    ASSUME LinkedInInv, Pause, UNCHANGED <<rules, linkedin, email, due, person, barred, dated, sent, ended>>
    PROVE  LinkedInInv'
<1>1. /\ DOMAIN row' = RowNames
      /\ \A n \in RowNames : row'[n] = IF row[n] \in Pending THEN "PAUSED" ELSE row[n]
  BY Settled DEF Pause, LinkedInInv, RowsAgree
<1>2. MailAgrees' /\ SaysWhatWasSent'
  BY DEF LinkedInInv, MailAgrees, SaysWhatWasSent, Progressed
<1>3. RowsAgree'
  BY <1>1, FourRows DEF LinkedInInv, RowsAgree, Pending
<1>4. SentAgrees'
  BY <1>1, FourRows DEF LinkedInInv, SentAgrees, DatesAgree, Silent, Progressed, Pending
<1>5. ~interrupted' => ~interrupted /\ \A n \in Checks : row'[n] = row[n]
  BY <1>1 DEF Pause, PendingRows, Checks, RowNames
<1>6. ChecksAgree'
  BY <1>1, <1>5, FourRows DEF LinkedInInv, ChecksAgree, Silent, Progressed, Pending, Checks
<1> QED  BY <1>2, <1>3, <1>4, <1>6 DEF LinkedInInv

\* What a person records about LinkedIn.
LEMMA RecordKeeps ==
    ASSUME LinkedInInv, NEW a \in Actions, RecordLinkedIn(a)
    PROVE  LinkedInInv'
<1>1. /\ linkedin' = Target(a) /\ a \in AllowedTransitions(linkedin)
      /\ a \in {"CONNECTION_SENT", "FOLLOW_UP_SENT", "RESUMED"} => Silent
      /\ email' = EmailAfter(a) /\ person' = PersonAfter(a)
      /\ barred' = (barred \/ (a = "NOT_INTERESTED" /\ rules.stopOnOptOut))
      /\ sent' = sent \cup ({a} \cap {"CONNECTION_SENT", "FOLLOW_UP_SENT"})
      /\ interrupted' = (interrupted \/ (a = "PAUSED" /\ Checks \cap PendingRows # {}))
      /\ RowsAfter(a) /\ UNCHANGED <<rules, ended>>
      /\ due' = (a \in {"CONNECTION_SENT", "FOLLOW_UP_SENT", "ACCEPTED"} \/ (due /\ a \in {"PAUSED", "RESUMED"}))
  BY DEF RecordLinkedIn, MayActivate, Silent
<1>2. linkedin \in Ongoing
  BY <1>1 DEF AllowedTransitions, Ongoing
<1>3. /\ barred => barred'
      /\ a # "NOT_INTERESTED" => (barred' <=> barred)
      /\ Progressed /\ a # "NOT_INTERESTED" => Progressed'
      /\ a \notin {"NOT_INTERESTED", "REPLIED"} => (Progressed' <=> Progressed)
  BY <1>1 DEF Progressed, PersonAfter
<1>4. MailAgrees'
  <2>1. email' = "REPLIED" => email = "REPLIED"
    BY <1>1 DEF EmailAfter
  <2>2. email' \in {"BOUNCED", "SUPPRESSED"} => email' = email \/ (a = "NOT_INTERESTED" /\ rules.stopOnOptOut)
    BY <1>1 DEF EmailAfter
  <2>3. a = "NOT_INTERESTED" => linkedin' = "NOT_INTERESTED"
    BY <1>1 DEF Target
  <2>4. email = "REPLIED" => Progressed
    BY <1>2 DEF LinkedInInv, MailAgrees, Ongoing
  <2> QED  BY <1>1, <1>3, <2>1, <2>2, <2>3, <2>4 DEF LinkedInInv, MailAgrees
<1>5. CASE a \in {"REPLIED", "NO_RESPONSE", "NOT_INTERESTED"}
  <2>1. linkedin' = a /\ linkedin' \notin Ongoing
    BY <1>1, <1>5 DEF Target, Ongoing
  <2>2. Settle(a) /\ Dated
    BY <1>1, <1>5 DEF RowsAfter
  <2>3. /\ DOMAIN row' = RowNames
        /\ \A n \in RowNames : row'[n] = IF row[n] \in Pending THEN a ELSE row[n]
    BY <2>2, Settled DEF LinkedInInv, RowsAgree
  <2>4. "FOLLOW_UP_1" \in dated' => "FOLLOW_UP_1" \in dated \/ row["FOLLOW_UP_1"] \in Pending
    BY <2>2 DEF Dated, PendingRows
  <2>5. RowsAgree'
    BY <1>5, <2>1, <2>3, <2>4, FourRows DEF LinkedInInv, RowsAgree, Pending
  <2>6. SaysWhatWasSent' /\ SentAgrees' /\ ChecksAgree'
    BY <1>5, <2>1 DEF SaysWhatWasSent, SentAgrees, ChecksAgree, Ongoing
  <2> QED  BY <1>4, <2>5, <2>6 DEF LinkedInInv
<1>6. CASE a = "PAUSED"
  <2>1. linkedin' = "PAUSED" /\ Settle("PAUSED") /\ UNCHANGED dated /\ sent' = sent /\ (due' <=> due)
    BY <1>1, <1>6 DEF Target, RowsAfter
  <2>2. /\ DOMAIN row' = RowNames
        /\ \A n \in RowNames : row'[n] = IF row[n] \in Pending THEN "PAUSED" ELSE row[n]
    BY <2>1, Settled DEF LinkedInInv, RowsAgree
  <2>3. RowsAgree'
    BY <2>1, <2>2, FourRows DEF LinkedInInv, RowsAgree, Pending
  <2>4. SaysWhatWasSent'
    BY <2>1 DEF SaysWhatWasSent
  <2>5. SentAgrees'
    BY <1>1, <1>2, <1>3, <1>6, <2>1, <2>2, FourRows
       DEF LinkedInInv, SentAgrees, DatesAgree, Silent, Pending
  <2>6. ~interrupted' => ~interrupted /\ \A n \in Checks : row'[n] = row[n] /\ row[n] \notin Pending
    BY <1>1, <1>6, <2>2 DEF PendingRows, Checks, RowNames
  <2>7. ChecksAgree'
    BY <1>2, <1>3, <1>6, <2>1, <2>2, <2>6, FourRows DEF LinkedInInv, ChecksAgree, Silent, Pending, Checks
  <2> QED  BY <1>4, <2>3, <2>4, <2>5, <2>7 DEF LinkedInInv
<1>7. CASE a = "RESUMED"
  <2>1. /\ linkedin = "PAUSED" /\ linkedin' = ResumedState /\ sent' = sent /\ UNCHANGED dated
        /\ (due' <=> due) /\ (interrupted' <=> interrupted) /\ Silent
    BY <1>1, <1>7 DEF AllowedTransitions, Target, RowsAfter
  <2>2. /\ DOMAIN row' = RowNames
        /\ \A n \in RowNames : row'[n] # row[n] => row[n] = "PAUSED" /\ row'[n] \in {"READY", "FOLLOW_UP_DUE"}
        /\ \A n \in Checks : row'[n] = row[n]
    BY <1>1, <1>7 DEF RowsAfter, RowNames, MessageRows, Checks
  <2>3. /\ linkedin' \in {"NOT_STARTED", "CONNECTION_SENT", "ACCEPTED", "FOLLOW_UP_SENT"}
        /\ linkedin' = "FOLLOW_UP_SENT" <=> "FOLLOW_UP_1" \in dated \/ row["FOLLOW_UP_1"] = "SENT"
        /\ linkedin' \in {"NOT_STARTED", "CONNECTION_SENT"} => row["CONNECTION"] # "ACCEPTED"
        /\ linkedin' = "ACCEPTED" => row["CONNECTION"] = "ACCEPTED"
        /\ linkedin' = "NOT_STARTED" => "CONNECTION" \notin dated /\ row["CONNECTION"] # "SENT"
        /\ linkedin' = "CONNECTION_SENT" => "CONNECTION" \in dated \/ row["CONNECTION"] = "SENT"
    BY <2>1 DEF ResumedState
  <2>4. RowsAgree'
    BY <2>1, <2>2, <2>3, FourRows DEF LinkedInInv, RowsAgree
  <2>5. ~ended => DatesAgree
    BY <2>1 DEF LinkedInInv, SentAgrees, Ongoing
  <2>6. SaysWhatWasSent'
    BY <1>1, <2>1, <2>3, <2>5 DEF SaysWhatWasSent, DatesAgree
  <2>7. SentAgrees'
    BY <1>1, <2>1, <2>2, <2>5, FourRows DEF SentAgrees, DatesAgree
  <2>8. ChecksAgree'
    BY <1>2, <1>3, <1>7, <2>1, <2>2, <2>3, FourRows
       DEF LinkedInInv, ChecksAgree, Silent, Pending, Checks
  <2> QED  BY <1>4, <2>4, <2>6, <2>7, <2>8 DEF LinkedInInv
<1>8. CASE a = "CONNECTION_SENT"
  <2>1. /\ linkedin = "NOT_STARTED" /\ linkedin' = "CONNECTION_SENT" /\ sent' = sent \cup {"CONNECTION_SENT"}
        /\ row' = [row EXCEPT !["CONNECTION"] = "SENT"] /\ dated' = dated \cup {"CONNECTION"}
        /\ due' /\ (interrupted' <=> interrupted)
    <3>1. {a} \cap {"CONNECTION_SENT", "FOLLOW_UP_SENT"} = {"CONNECTION_SENT"}
      BY <1>8
    <3>2. due' /\ (interrupted' <=> interrupted)
      BY <1>1, <1>8
    <3> QED  BY <1>1, <1>8, <3>1, <3>2 DEF AllowedTransitions, Target, RowsAfter
  <2>2. /\ DOMAIN row' = RowNames /\ row'["CONNECTION"] = "SENT"
        /\ \A n \in RowNames \ {"CONNECTION"} : row'[n] = row[n]
    BY <2>1, FourRows DEF LinkedInInv, RowsAgree
  <2>3. RowsAgree'
    BY <2>1, <2>2, FourRows DEF LinkedInInv, RowsAgree
  <2>4. SaysWhatWasSent'
    BY <1>1, <2>1 DEF LinkedInInv, SaysWhatWasSent
  <2>5. SentAgrees'
    BY <1>1, <1>2, <1>3, <1>8, <2>1, <2>2, FourRows DEF LinkedInInv, SentAgrees, DatesAgree, Silent
  <2>6. ChecksAgree'
    BY <1>2, <1>3, <1>8, <2>1, <2>2, FourRows DEF LinkedInInv, RowsAgree, ChecksAgree, Silent, Pending, Checks
  <2> QED  BY <1>4, <2>3, <2>4, <2>5, <2>6 DEF LinkedInInv
<1>9. CASE a = "ACCEPTED"
  <2>1. /\ linkedin = "CONNECTION_SENT" /\ linkedin' = "ACCEPTED" /\ sent' = sent
        /\ row' = [row EXCEPT !["CONNECTION"] = "ACCEPTED", !["FOLLOW_UP_1"] = "FOLLOW_UP_DUE"]
        /\ dated' = dated \/ dated' = dated \cup {"CONNECTION"}
        /\ due' /\ (interrupted' <=> interrupted)
    BY <1>1, <1>9 DEF AllowedTransitions, Target, RowsAfter
  <2>2. /\ DOMAIN row' = RowNames /\ row'["CONNECTION"] = "ACCEPTED" /\ row'["FOLLOW_UP_1"] = "FOLLOW_UP_DUE"
        /\ \A n \in RowNames \ {"CONNECTION", "FOLLOW_UP_1"} : row'[n] = row[n]
    BY <2>1, FourRows DEF LinkedInInv, RowsAgree
  <2>3. RowsAgree'
    BY <2>1, <2>2, FourRows DEF LinkedInInv, RowsAgree
  <2>4. SaysWhatWasSent'
    BY <1>1, <2>1 DEF LinkedInInv, SaysWhatWasSent
  <2>5. SentAgrees'
    BY <1>1, <1>2, <1>3, <1>9, <2>1, <2>2, FourRows
       DEF LinkedInInv, SentAgrees, SaysWhatWasSent, DatesAgree, Silent
  <2>6. ChecksAgree'
    BY <1>2, <1>3, <1>9, <2>1, <2>2, FourRows DEF LinkedInInv, ChecksAgree, Silent, Pending, Checks
  <2> QED  BY <1>4, <2>3, <2>4, <2>5, <2>6 DEF LinkedInInv
<1>10. CASE a = "FOLLOW_UP_SENT"
  <2>1. /\ linkedin = "ACCEPTED" /\ linkedin' = "FOLLOW_UP_SENT" /\ sent' = sent \cup {"FOLLOW_UP_SENT"}
        /\ row' = [row EXCEPT !["FOLLOW_UP_1"] = "SENT"] /\ dated' = dated \cup {"FOLLOW_UP_1"}
        /\ due' /\ (interrupted' <=> interrupted)
    <3>1. {a} \cap {"CONNECTION_SENT", "FOLLOW_UP_SENT"} = {"FOLLOW_UP_SENT"}
      BY <1>10
    <3>2. due' /\ (interrupted' <=> interrupted)
      BY <1>1, <1>10
    <3> QED  BY <1>1, <1>10, <3>1, <3>2 DEF AllowedTransitions, Target, RowsAfter
  <2>2. /\ DOMAIN row' = RowNames /\ row'["FOLLOW_UP_1"] = "SENT"
        /\ \A n \in RowNames \ {"FOLLOW_UP_1"} : row'[n] = row[n]
    BY <2>1, FourRows DEF LinkedInInv, RowsAgree
  <2>3. RowsAgree'
    BY <2>1, <2>2, FourRows DEF LinkedInInv, RowsAgree
  <2>4. SaysWhatWasSent'
    BY <1>1, <2>1 DEF LinkedInInv, SaysWhatWasSent
  <2>5. SentAgrees'
    BY <1>1, <1>2, <1>3, <1>10, <2>1, <2>2, FourRows
       DEF LinkedInInv, SentAgrees, SaysWhatWasSent, DatesAgree, Silent
  <2>6. ChecksAgree'
    BY <1>2, <1>3, <1>10, <2>1, <2>2, FourRows DEF LinkedInInv, ChecksAgree, Silent, Pending, Checks
  <2> QED  BY <1>4, <2>3, <2>4, <2>5, <2>6 DEF LinkedInInv
<1> QED  BY <1>5, <1>6, <1>7, <1>8, <1>9, <1>10 DEF Actions

\* The versions of the message, and what happens to the record elsewhere.
LEMMA VersionKeeps ==
    ASSUME LinkedInInv, SaveVersion \/ ApproveVersion \/ RefuseVersion
    PROVE  LinkedInInv'
<1>1. CASE SaveVersion \/ RefuseVersion
  BY <1>1, PauseKeeps DEF SaveVersion, RefuseVersion, linkedinContact
<1>2. CASE ApproveVersion
  <2>1. /\ UNCHANGED <<rules, linkedin, email, due, person, barred, meets, dated, sent, interrupted, ended>>
        /\ DOMAIN row' = RowNames
        /\ \A n \in RowNames \ {"CONNECTION"} : row'[n] = row[n]
        /\ row'["CONNECTION"] # row["CONNECTION"] =>
              row'["CONNECTION"] = "READY" /\ row["CONNECTION"] \notin {"SENT", "ACCEPTED"}
    BY <1>2, FourRows DEF ApproveVersion, linkedinContact, linkedinHistory, LinkedInInv, RowsAgree
  <2>2. MailAgrees' /\ SaysWhatWasSent'
    BY <2>1 DEF LinkedInInv, MailAgrees, SaysWhatWasSent, Progressed
  <2>3. RowsAgree'
    BY <2>1, FourRows DEF LinkedInInv, RowsAgree
  <2>4. SentAgrees'
    BY <2>1, FourRows DEF LinkedInInv, SentAgrees, DatesAgree, Silent, Progressed
  <2>5. ChecksAgree'
    BY <2>1, FourRows DEF LinkedInInv, ChecksAgree, Silent, Progressed, Pending, Checks
  <2> QED  BY <2>2, <2>3, <2>4, <2>5 DEF LinkedInInv
<1> QED  BY <1>1, <1>2

LEMMA ElsewhereKeeps ==
    ASSUME LinkedInInv,
           \/ EchoRedrafts
           \/ \E status \in {"REPLIED", "BOUNCED", "SUPPRESSED"} : MailAnswers(status)
           \/ SentinelOptsOut
           \/ ConversationStarts
           \/ OrganisationStops
           \/ MeetingAhead
    PROVE  LinkedInInv'
<1>1. CASE EchoRedrafts \/ MeetingAhead
  <2>1. UNCHANGED <<linkedin, email, due, person, barred, row, dated, sent, interrupted, ended>>
    BY <1>1 DEF EchoRedrafts, MeetingAhead, linkedinRecord, linkedinContact, linkedinRows, linkedinHistory
  <2> QED
    BY <2>1 DEF LinkedInInv, MailAgrees, RowsAgree, SaysWhatWasSent, SentAgrees, DatesAgree,
                ChecksAgree, Silent, Progressed
<1>2. CASE ConversationStarts \/ \E status \in {"REPLIED", "BOUNCED", "SUPPRESSED"} : MailAnswers(status)
  <2>1. UNCHANGED <<linkedin, due, row, dated, sent, interrupted, ended>>
    BY <1>2 DEF ConversationStarts, MailAnswers, linkedinRecord, linkedinRows, linkedinHistory
  <2>2. MailAgrees' /\ ~Silent'
    <3>1. CASE ConversationStarts
      BY <3>1 DEF ConversationStarts, linkedinRecord, LinkedInInv, MailAgrees, Silent, Progressed
    <3>2. CASE \E status \in {"REPLIED", "BOUNCED", "SUPPRESSED"} : MailAnswers(status)
      BY <3>2 DEF MailAnswers, MailAgrees, Silent, Progressed
    <3> QED  BY <1>2, <3>1, <3>2
  <2> QED
    BY <2>1, <2>2 DEF LinkedInInv, RowsAgree, SaysWhatWasSent, SentAgrees, ChecksAgree
<1>3. CASE SentinelOptsOut
  <2>1. /\ linkedin' = "NOT_INTERESTED" /\ email' = "SUPPRESSED" /\ barred'
        /\ Settle("SUPPRESSED") /\ Dated
    BY <1>3 DEF SentinelOptsOut
  <2>2. /\ DOMAIN row' = RowNames
        /\ \A n \in RowNames : row'[n] = IF row[n] \in Pending THEN "SUPPRESSED" ELSE row[n]
    BY <2>1, Settled DEF LinkedInInv, RowsAgree
  <2>3. "FOLLOW_UP_1" \in dated' => "FOLLOW_UP_1" \in dated \/ row["FOLLOW_UP_1"] \in Pending
    BY <2>1 DEF Dated, PendingRows
  <2>4. RowsAgree'
    BY <2>1, <2>2, <2>3, FourRows DEF LinkedInInv, RowsAgree, Pending
  <2> QED
    BY <2>1, <2>4 DEF LinkedInInv, MailAgrees, SaysWhatWasSent, SentAgrees, ChecksAgree, Ongoing
<1>4. CASE OrganisationStops
  BY <1>4, PauseKeeps DEF OrganisationStops, linkedinRecord, linkedinContact
<1> QED  BY <1>1, <1>2, <1>3, <1>4

\* Nobody has answered a record that is silent and under way, whatever the channel.
LEMMA SilentUnanswered ==
    ASSUME LinkedInInv, Silent, linkedin \in Ongoing
    PROVE  /\ ~Answered /\ linkedin # "NOT_INTERESTED"
           /\ email \notin {"REPLIED", "BOUNCED", "SUPPRESSED"} /\ linkedin # "REPLIED"
BY DEF LinkedInInv, MailAgrees, Silent, Ongoing, Answered, Progressed

Clears ==
    \/ email \in {"REPLIED", "BOUNCED", "SUPPRESSED"}
    \/ linkedin \in {"REPLIED", "NOT_INTERESTED"}
    \/ Progressed \/ meets

CheckAfter(n) ==
    IF Unsafe(row[n]) \in Pending /\ ~WaitingFor(n) THEN ClosedCheck(n)
    ELSE IF Planned(n) /\ ~Clears /\ Unsafe(row[n]) \in Pending \cup {"NONE"} THEN "FOLLOW_UP_DUE"
    ELSE Unsafe(row[n])

\* What a turn of Pulse does, row by row.
LEMMA PulseStep ==
    ASSUME PulseReconciles
    PROVE  /\ UNCHANGED <<rules, linkedin, email, approval, person, barred, meets, sent>>
           /\ DOMAIN row' = RowNames
           /\ \A n \in MessageRows : row'[n] = Unsafe(row[n])
           /\ \A n \in Checks : row'[n] = CheckAfter(n)
           /\ dated' = dated \cup {n \in MessageRows : row'[n] # row[n]}
           /\ due' <=> due /\ ~Clears
           /\ ended' <=> ended \/ (dated' # dated /\ ~Answered /\ ~barred /\ linkedin # "NOT_INTERESTED")
           /\ interrupted' <=> interrupted \/ (meets /\ due)
<1>1. /\ UNCHANGED <<rules, linkedin, email, approval, person, barred, meets, sent>>
      /\ row' = [n \in RowNames |-> IF n \in Checks THEN CheckAfter(n) ELSE Unsafe(row[n])]
      /\ dated' = dated \cup {n \in MessageRows : row'[n] # row[n]}
      /\ due' <=> due /\ ~Clears
      /\ ended' <=> ended \/ (dated' # dated /\ ~Answered /\ ~barred /\ linkedin # "NOT_INTERESTED")
      /\ interrupted' <=> interrupted \/ (meets /\ due)
  BY Zenon DEF PulseReconciles, linkedinContact, CheckAfter, Clears
<1>2. /\ \A n \in MessageRows : n \in RowNames /\ n \notin Checks
      /\ \A n \in Checks : n \in RowNames
  BY DEF RowNames, MessageRows, Checks
<1> QED  BY <1>1, <1>2

\* A check that is still open when Pulse comes by is left, or closed because the
\* connection was accepted.
LEMMA CheckStep ==
    ASSUME LinkedInInv, PulseReconciles, Silent, linkedin \in Ongoing, ~interrupted, ~interrupted',
           NEW n \in Checks
    PROVE  /\ Unsafe(row[n]) = row[n]
           /\ row[n] \in Pending /\ ~WaitingFor(n) => row["CONNECTION"] = "ACCEPTED" /\ row'[n] = "ACCEPTED"
           /\ row[n] \in Pending /\ WaitingFor(n) => row'[n] \in {row[n], "FOLLOW_UP_DUE"}
           /\ row[n] \notin Pending =>
                 row'[n] = row[n] \/ (row[n] = "NONE" /\ row'[n] = "FOLLOW_UP_DUE" /\ WaitingFor(n) /\ due)
           /\ n = "PULSE_REPLY_CHECK" /\ row[n] \in Pending => WaitingFor(n)
<1>1. ~Answered /\ linkedin # "NOT_INTERESTED" /\ ~barred /\ ~Progressed
  BY SilentUnanswered DEF Silent
<1>2. row'[n] = CheckAfter(n) /\ ~(meets /\ due)
  BY PulseStep
<1>3. row[n] \in Pending => due
  BY DEF LinkedInInv, ChecksAgree
<1>4. row[n] \in Pending => ~MeetingStops
  BY <1>1, <1>2, <1>3 DEF MeetingStops, Progressed
<1>5. Unsafe(row[n]) = row[n]
  BY <1>1, <1>4 DEF Unsafe
<1>6. n \in {"PULSE_CONNECTION_CHECK", "PULSE_REPLY_CHECK"}
  BY DEF Checks
<1>7. n = "PULSE_REPLY_CHECK" /\ row[n] \in Pending => WaitingFor(n)
  BY DEF LinkedInInv, ChecksAgree, WaitingFor
<1>8. row[n] \in Pending /\ ~WaitingFor(n) => n = "PULSE_CONNECTION_CHECK" /\ linkedin \in {"ACCEPTED", "FOLLOW_UP_SENT"}
  BY <1>6, <1>7 DEF LinkedInInv, ChecksAgree, WaitingFor, Ongoing
<1>9. row[n] \in Pending /\ ~WaitingFor(n) => row["CONNECTION"] = "ACCEPTED" /\ ClosedCheck(n) = "ACCEPTED"
  BY <1>8 DEF LinkedInInv, RowsAgree, ClosedCheck
<1> QED  BY <1>2, <1>5, <1>7, <1>9 DEF CheckAfter, Planned, Pending

LEMMA PulseKeeps ==
    ASSUME LinkedInInv, PulseReconciles
    PROVE  LinkedInInv'
<1>1. /\ UNCHANGED <<rules, linkedin, email, approval, person, barred, meets, sent>>
      /\ DOMAIN row' = RowNames
      /\ \A n \in MessageRows : row'[n] = Unsafe(row[n])
      /\ dated' = dated \cup {n \in MessageRows : row'[n] # row[n]}
  BY PulseStep
<1>2. ended => ended'
  BY PulseStep
<1>3. MailAgrees' /\ SaysWhatWasSent'
  BY <1>1, <1>2 DEF LinkedInInv, MailAgrees, SaysWhatWasSent, Progressed
<1>4. \A n \in MessageRows : row'[n] # row[n] => row[n] \in Pending /\ row'[n] \in {"REPLIED", "NOT_INTERESTED", "PAUSED"}
  BY <1>1 DEF Unsafe
<1>5. "CONNECTION" \in MessageRows /\ "FOLLOW_UP_1" \in MessageRows
  BY DEF MessageRows
<1>6. RowsAgree'
  BY <1>1, <1>4, <1>5 DEF LinkedInInv, RowsAgree, Pending
<1>7. SentAgrees'
  <2> SUFFICES ASSUME ~ended', Silent', (linkedin \in Ongoing)'
               PROVE  DatesAgree'
    BY DEF SentAgrees
  <2>1. Silent /\ linkedin \in Ongoing /\ ~ended
    BY <1>1, <1>2 DEF Silent, Progressed, Ongoing
  <2>2. dated' = dated
    BY <2>1, SilentUnanswered, PulseStep DEF Silent
  <2>3. DatesAgree
    BY <2>1 DEF LinkedInInv, SentAgrees
  <2> QED  BY <1>1, <1>4, <1>5, <2>2, <2>3 DEF DatesAgree
<1>8. ChecksAgree'
  <2> SUFFICES ASSUME ~interrupted', Silent', (linkedin \in Ongoing)'
               PROVE  /\ row'["CONNECTION"] # "ACCEPTED" => row'["PULSE_CONNECTION_CHECK"] \in Pending \cup {"NONE"}
                      /\ row'["PULSE_CONNECTION_CHECK"] \in Pending => linkedin' \notin {"NOT_STARTED", "PAUSED"}
                      /\ row'["PULSE_REPLY_CHECK"] \in Pending \cup {"NONE"}
                      /\ row'["PULSE_REPLY_CHECK"] \in Pending => linkedin' = "FOLLOW_UP_SENT"
                      /\ \A check \in Checks : row'[check] \in Pending => due'
    BY DEF ChecksAgree, Pending, Checks
  <2>1. Silent /\ linkedin \in Ongoing /\ ~interrupted /\ ~(meets /\ due)
    BY <1>1, PulseStep DEF Silent, Progressed, Ongoing
  <2>2. /\ row["CONNECTION"] # "ACCEPTED" => row["PULSE_CONNECTION_CHECK"] \in Pending \cup {"NONE"}
        /\ row["PULSE_CONNECTION_CHECK"] \in Pending => linkedin \notin {"NOT_STARTED", "PAUSED"}
        /\ row["PULSE_REPLY_CHECK"] \in Pending \cup {"NONE"}
        /\ row["PULSE_REPLY_CHECK"] \in Pending => linkedin = "FOLLOW_UP_SENT"
        /\ \A check \in Checks : row[check] \in Pending => due
    BY <2>1 DEF LinkedInInv, ChecksAgree
  <2>3. \A check \in Checks :
          /\ row[check] \in Pending /\ ~WaitingFor(check) => row["CONNECTION"] = "ACCEPTED" /\ row'[check] = "ACCEPTED"
          /\ row[check] \in Pending /\ WaitingFor(check) => row'[check] \in {row[check], "FOLLOW_UP_DUE"}
          /\ row[check] \notin Pending =>
                row'[check] = row[check] \/ (row[check] = "NONE" /\ row'[check] = "FOLLOW_UP_DUE" /\ WaitingFor(check) /\ due)
          /\ check = "PULSE_REPLY_CHECK" /\ row[check] \in Pending => WaitingFor(check)
    BY <2>1, CheckStep
  <2>4. \A check \in Checks : row'[check] \in Pending => due'
    <3>1. due => due'
      BY <2>1, SilentUnanswered, PulseStep DEF Clears, Ongoing, Silent
    <3> QED  BY <2>2, <2>3, <3>1 DEF Pending
  <2>5. row'["CONNECTION"] = "ACCEPTED" <=> row["CONNECTION"] = "ACCEPTED"
    BY <1>4, <1>5 DEF Pending
  <2>6. "PULSE_CONNECTION_CHECK" \in Checks /\ "PULSE_REPLY_CHECK" \in Checks
    BY DEF Checks
  <2> QED  BY <1>1, <2>2, <2>3, <2>4, <2>5, <2>6 DEF Pending, WaitingFor
<1> QED  BY <1>3, <1>6, <1>7, <1>8 DEF LinkedInInv

LEMMA LinkedInInvariant == LinkedInSpec => []LinkedInInv
<1>1. LinkedInInit => LinkedInInv
  BY FourRows DEF LinkedInInit, LinkedInInv, MailAgrees, RowsAgree, SaysWhatWasSent, SentAgrees, DatesAgree,
                  ChecksAgree, Pending, Checks
<1>2. LinkedInInv /\ [LinkedInNext]_linkedinVars => LinkedInInv'
  <2> SUFFICES ASSUME LinkedInInv, [LinkedInNext]_linkedinVars
               PROVE  LinkedInInv'
    OBVIOUS
  <2>1. ASSUME NEW a \in Actions, RecordLinkedIn(a) PROVE LinkedInInv'
    BY <2>1, RecordKeeps
  <2>2. CASE SaveVersion \/ ApproveVersion \/ RefuseVersion
    BY <2>2, VersionKeeps
  <2>3. CASE \/ EchoRedrafts
             \/ \E status \in {"REPLIED", "BOUNCED", "SUPPRESSED"} : MailAnswers(status)
             \/ SentinelOptsOut
             \/ ConversationStarts
             \/ OrganisationStops
             \/ MeetingAhead
    BY <2>3, ElsewhereKeeps
  <2>4. CASE PulseReconciles
    BY <2>4, PulseKeeps
  <2>5. CASE UNCHANGED linkedinVars
    BY <2>5 DEF linkedinVars, linkedinRecord, linkedinContact, linkedinRows, linkedinHistory, LinkedInInv,
                MailAgrees, RowsAgree, SaysWhatWasSent, SentAgrees, DatesAgree, ChecksAgree, Silent, Progressed
  <2> QED  BY <2>1, <2>2, <2>3, <2>4, <2>5 DEF LinkedInNext
<1> QED  BY <1>1, <1>2, PTL DEF LinkedInSpec

\* Whatever the policy, the state of a LinkedIn record tells exactly what people
\* recorded as sent, through every pause and resumption, unless a meeting ended rows.
THEOREM AlwaysSaysWhatWasSent == LinkedInSpec => []SaysWhatWasSent
<1>1. LinkedInInv => SaysWhatWasSent
  BY DEF LinkedInInv
<1> QED  BY <1>1, LinkedInInvariant, PTL

\* Whatever the policy, a turn of Pulse leaves a due check for every record that waits
\* for an answer and was never interrupted.
THEOREM PulseAlwaysSurfaces == LinkedInSpec => PulseSurfacesWaiting
<1>1. ASSUME LinkedInInv, PulseReconciles, (Waiting /\ MayCheck /\ ~interrupted)'
      PROVE  \E check \in Checks : (WaitingFor(check) /\ Listed(check))'
  <2>1. /\ UNCHANGED <<rules, linkedin, email, approval, person, barred, meets>>
        /\ ~Clears /\ due /\ ~interrupted
    BY <1>1, PulseStep DEF Waiting
  <2>2. PICK check \in Checks : WaitingFor(check)
    BY <1>1, <2>1 DEF Waiting, WaitingFor
  <2>3. MayCheck /\ Silent /\ linkedin \in Ongoing
    BY <1>1, <2>1, <2>2 DEF MayCheck, Silent, Progressed, WaitingFor, Ongoing
  <2>4. Unsafe(row[check]) = row[check] /\ row'[check] = CheckAfter(check)
    BY <1>1, <2>1, <2>3, CheckStep, PulseStep
  <2>5. row[check] \in Pending \cup {"NONE"}
    BY <2>1, <2>2, <2>3, <1>1 DEF LinkedInInv, ChecksAgree, RowsAgree, WaitingFor, Checks
  <2>6. row'[check] = "FOLLOW_UP_DUE"
    BY <2>1, <2>2, <2>3, <2>4, <2>5 DEF CheckAfter, Planned
  <2> QED  BY <2>1, <2>2, <2>6 DEF WaitingFor, Listed
<1> QED  BY <1>1, LinkedInInvariant, PTL DEF LinkedInSpec, PulseSurfacesWaiting

=============================================================================
