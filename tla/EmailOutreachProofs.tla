------------------------ MODULE EmailOutreachProofs ------------------------
(***************************************************************************)
(* Proofs about the email sequence, for any number of workers and Gmail    *)
(* requests, any policies and any bounds: who has stopped is left alone,   *)
(* the worker calls Gmail only as often as it was asked to, and nothing    *)
(* leaves before a first approval.                                         *)
(***************************************************************************)
EXTENDS EmailOutreach, FiniteSetTheorems, TLAPS

JobFields == {"at", "op", "step", "version", "draft", "approved", "replied", "late", "verdict"}

\* A job about one of the steps.
Job(m) ==
    /\ DOMAIN m = JobFields
    /\ m.at \in {"claimed", "loaded", "judged", "called"}
    /\ m.op \in {"WORK", "QUEUE", "CREATE_DRAFT", "SEND_NOW"}
    /\ m.step \in Steps
    /\ m.replied \in BOOLEAN
    /\ m.late \in BOOLEAN

\* What a process has in memory.
MemOK ==
    /\ DOMAIN mem = Processes
    /\ \A p \in Processes : mem[p] = Idle \/ Job(mem[p])
    /\ suppressed \in BOOLEAN

\* A stop that was there when the row was read is known to the process, or
\* can still be read; after the judgement the verdict is a refusal.
Silent(m) ==
    /\ m.at = "loaded" /\ m.late => m.replied \/ suppressed
    /\ m.at \in {"judged", "called"} /\ m.late /\ policy.stopOnReply /\ policy.stopOnOptOut
          => m.verdict = "BLOCK"

SilentInv == MemOK /\ \A p \in Processes : Silent(mem[p])

-----------------------------------------------------------------------------
(***************************************************************************)
(* Who has stopped is left alone.                                          *)
(***************************************************************************)

\* Steps that leave every memory alone.
LEMMA SilentElsewhere ==
    ASSUME SilentInv, UNCHANGED <<policy, mem>>, suppressed' \in BOOLEAN, suppressed => suppressed'
    PROVE  SilentInv'
BY DEF SilentInv, MemOK, Silent

\* Steps of one process, which then has m in memory.
LEMMA SilentStep ==
    ASSUME SilentInv, UNCHANGED <<policy, suppressed>>, NEW p \in Processes, NEW m,
           mem' = [mem EXCEPT ![p] = m], m = Idle \/ Job(m), Silent(m)
    PROVE  SilentInv'
<1>1. DOMAIN mem' = Processes
  BY DEF SilentInv, MemOK
<1>2. ASSUME NEW q \in Processes
      PROVE  (mem[q] = Idle \/ Job(mem[q]))' /\ Silent(mem[q])'
  <2>1. mem'[q] = IF q = p THEN m ELSE mem[q]
    BY DEF SilentInv, MemOK
  <2>2. (mem[q] = Idle \/ Job(mem[q]))'
    BY <2>1 DEF SilentInv, MemOK, Job, Idle
  <2>3. Silent(mem[q])'
    BY <2>1 DEF SilentInv, Silent
  <2> QED  BY <2>2, <2>3
<1> QED  BY <1>1, <1>2 DEF SilentInv, MemOK

\* A process that is idle says nothing.
LEMMA SilentWhenIdle == Silent(Idle)
BY DEF Silent, Idle

\* A process that has something in memory has a job.
LEMMA BusyHasJob ==
    ASSUME SilentInv, NEW p \in Processes, mem[p] # Idle
    PROVE  Job(mem[p]) /\ Silent(mem[p])
BY DEF SilentInv, MemOK

\* The judgement refuses a contact who has stopped.
LEMMA JudgementRefuses ==
    ASSUME NEW m, Job(m), Silent(m), m.at = "loaded", NEW v \in Verdicts(m)
    PROVE  Job(Judged(m, v)) /\ Silent(Judged(m, v))
<1>1. PICK c \in BOOLEAN, l \in BOOLEAN, w \in BOOLEAN : v = Decision(m, c, l, w)
  BY DEF Verdicts
<1>2. m.late /\ policy.stopOnReply /\ policy.stopOnOptOut => v = "BLOCK"
  BY <1>1 DEF Decision, Silent
<1>3. Job(Judged(m, v)) /\ Judged(m, v).at = "judged" /\ Judged(m, v).late = m.late
      /\ Judged(m, v).verdict = v
  BY DEF Judged, Job, JobFields
<1> QED  BY <1>2, <1>3 DEF Silent

\* A step of the worker keeps the silence.
LEMMA WorkerSilent ==
    ASSUME SilentInv, NEW w \in Workers, Worker(w)
    PROVE  SilentInv'
<1> w \in Processes
  BY DEF Processes
<1>1. ASSUME NEW s \in Steps, Claim(w, s) PROVE SilentInv'
  <2> DEFINE m == [at |-> "claimed", op |-> "WORK", step |-> s, version |-> 0,
                   draft |-> FALSE, approved |-> FALSE, replied |-> FALSE,
                   late |-> FALSE, verdict |-> "none"]
  <2>1. Job(m) /\ Silent(m)
    BY DEF Job, JobFields, Silent
  <2>2. mem' = [mem EXCEPT ![w] = m] /\ UNCHANGED <<policy, suppressed>>
    BY <1>1 DEF Claim, recordVars
  <2> HIDE DEF m
  <2> QED  BY <2>1, <2>2, SilentStep
<1>2. CASE Load(w)
  <2> DEFINE m == [mem[w] EXCEPT !.at = "loaded", !.version = action[mem[w].step].version,
                                 !.draft = action[mem[w].step].draft,
                                 !.approved = (approval = "APPROVED"),
                                 !.replied = HasReply, !.late = Stopped]
  <2>1. Job(mem[w])
    BY <1>2, BusyHasJob DEF Load, Idle
  <2>2. DOMAIN m = JobFields /\ m.at = "loaded" /\ m.op = mem[w].op /\ m.step = mem[w].step
        /\ m.replied = HasReply /\ m.late = Stopped
    BY <2>1 DEF Job, JobFields
  <2>3. HasReply \in BOOLEAN /\ Stopped \in BOOLEAN /\ (Stopped => HasReply \/ suppressed)
    BY DEF SilentInv, MemOK, HasReply, Stopped
  <2>4. mem' = [mem EXCEPT ![w] = m] /\ UNCHANGED <<policy, suppressed>>
    BY <1>2, <2>1 DEF Load, recordVars, SilentInv, MemOK
  <2> HIDE DEF m
  <2>5. Job(m) /\ Silent(m)
    BY <2>1, <2>2, <2>3 DEF Job, Silent
  <2> QED  BY <2>4, <2>5, SilentStep
<1>3. CASE Judge(w)
  <2>1. Job(mem[w]) /\ Silent(mem[w]) /\ mem[w].at = "loaded"
    BY <1>3, BusyHasJob DEF Judge, Idle
  <2>2. PICK v \in Verdicts(mem[w]) : mem' = [mem EXCEPT ![w] = Judged(mem[w], v)]
    BY <1>3 DEF Judge, SilentInv, MemOK
  <2>3. Job(Judged(mem[w], v)) /\ Silent(Judged(mem[w], v))
    BY <2>1, JudgementRefuses
  <2>4. UNCHANGED <<policy, suppressed>>
    BY <1>3 DEF Judge, recordVars
  <2> QED  BY <2>2, <2>3, <2>4, SilentStep
<1>4. CASE WorkerCalls(w)
  <2>1. Job(mem[w]) /\ Silent(mem[w]) /\ mem[w].at = "judged"
    BY <1>4, BusyHasJob DEF WorkerCalls, Idle
  <2> DEFINE m == [mem[w] EXCEPT !.at = "called"]
  <2>2. Job(m) /\ Silent(m)
    BY <2>1 DEF Job, JobFields, Silent
  <2>3. mem' = [mem EXCEPT ![w] = m] /\ UNCHANGED <<policy, suppressed>>
    BY <1>4 DEF WorkerCalls, GmailAccepts, recordVars, SilentInv, MemOK
  <2> HIDE DEF m
  <2> QED  BY <2>2, <2>3, SilentStep
<1>5. CASE Defer(w) \/ WorkerSaves(w) \/ WorkerFails(w) \/ WorkerDies(w)
  <2>1. mem' = [mem EXCEPT ![w] = Idle] /\ UNCHANGED <<policy, suppressed>>
    BY <1>5 DEF Defer, WorkerSaves, WorkerFails, WorkerDies, recordVars
  <2> QED  BY <2>1, SilentWhenIdle, SilentStep
<1> QED  BY <1>1, <1>2, <1>3, <1>4, <1>5 DEF Worker

\* A step of a Gmail request keeps the silence.
LEMMA ApiSilent ==
    ASSUME SilentInv, NEW a \in Apis, Api(a)
    PROVE  SilentInv'
<1> a \in Processes
  BY DEF Processes
<1>1. ASSUME NEW op \in {"QUEUE", "CREATE_DRAFT", "SEND_NOW"}, NEW s \in Steps, Request(a, op, s)
      PROVE  SilentInv'
  <2> DEFINE m == [at |-> "loaded", op |-> op, step |-> s, version |-> version,
                   draft |-> FALSE, approved |-> (approval = "APPROVED"),
                   replied |-> HasReply, late |-> Stopped, verdict |-> "none"]
  <2>1. HasReply \in BOOLEAN /\ Stopped \in BOOLEAN /\ (Stopped => HasReply \/ suppressed)
    BY DEF SilentInv, MemOK, HasReply, Stopped
  <2>2. Job(m) /\ Silent(m)
    BY <2>1 DEF Job, JobFields, Silent
  <2>3. mem' = [mem EXCEPT ![a] = m] /\ UNCHANGED <<policy, suppressed>>
    BY <1>1 DEF Request, recordVars
  <2> HIDE DEF m
  <2> QED  BY <2>2, <2>3, SilentStep
<1>2. CASE RequestJudged(a)
  <2>1. Job(mem[a]) /\ Silent(mem[a]) /\ mem[a].at = "loaded"
    BY <1>2, BusyHasJob DEF RequestJudged, Idle
  <2>2. PICK v \in Verdicts(mem[a]) :
           \/ mem' = [mem EXCEPT ![a] = Judged(mem[a], v)]
           \/ mem' = [mem EXCEPT ![a] = Idle]
    BY <1>2 DEF RequestJudged, SilentInv, MemOK
  <2>3. Job(Judged(mem[a], v)) /\ Silent(Judged(mem[a], v))
    BY <2>1, JudgementRefuses
  <2>4. UNCHANGED <<policy, suppressed>>
    BY <1>2 DEF RequestJudged, recordVars
  <2> QED  BY <2>2, <2>3, <2>4, SilentWhenIdle, SilentStep
<1>3. CASE RequestCalls(a)
  <2>1. Job(mem[a]) /\ Silent(mem[a]) /\ mem[a].at = "judged"
    BY <1>3, BusyHasJob DEF RequestCalls, Idle
  <2> DEFINE m == [mem[a] EXCEPT !.at = "called"]
  <2>2. Job(m) /\ Silent(m)
    BY <2>1 DEF Job, JobFields, Silent
  <2>3. mem' = [mem EXCEPT ![a] = m] /\ UNCHANGED <<policy, suppressed>>
    BY <1>3 DEF RequestCalls, GmailAccepts, recordVars, SilentInv, MemOK
  <2> HIDE DEF m
  <2> QED  BY <2>2, <2>3, SilentStep
<1>4. CASE RequestQueues(a) \/ RequestRecords(a) \/ RequestEnds(a)
  <2>1. mem' = [mem EXCEPT ![a] = Idle] /\ UNCHANGED <<policy, suppressed>>
    BY <1>4 DEF RequestQueues, RequestRecords, RequestEnds, recordVars
  <2> QED  BY <2>1, SilentWhenIdle, SilentStep
<1> QED  BY <1>1, <1>2, <1>3, <1>4 DEF Api

\* Everything else leaves the memories alone and lifts no suppression.
LEMMA OthersSilent ==
    ASSUME SilentInv, RecoverStale \/ People \/ Mailbox \/ Pulse
    PROVE  SilentInv'
<1>1. UNCHANGED <<policy, mem>> /\ (suppressed' = suppressed \/ suppressed' = TRUE)
  <2>1. CASE RecoverStale
    BY <2>1 DEF RecoverStale, recordVars
  <2>2. CASE People
    BY <2>2 DEF People, EchoDrafts, EditVersion, Review, Suppress, HandSend, AccessStops,
                MeetingChanges, recordVars
  <2>3. CASE Mailbox
    BY <2>3 DEF Mailbox, IngestReply, IngestBounce, IngestOwn, OptOut
  <2>4. CASE Pulse
    BY <2>4 DEF Pulse
  <2> QED  BY <2>1, <2>2, <2>3, <2>4
<1>2. suppressed' \in BOOLEAN /\ (suppressed => suppressed')
  <2>1. suppressed \in BOOLEAN
    BY DEF SilentInv, MemOK
  <2>2. CASE suppressed' = suppressed
    BY <2>1, <2>2
  <2>3. CASE suppressed' = TRUE
    BY <2>3, Zenon
  <2> QED  BY <1>1, <2>2, <2>3
<1> QED  BY <1>1, <1>2, SilentElsewhere

\* Every step keeps the silence.
LEMMA SilentStays ==
    ASSUME SilentInv, [OutreachNext]_vars
    PROVE  SilentInv'
<1>1. CASE UNCHANGED vars
  <2>1. UNCHANGED <<policy, mem, suppressed>>
    BY <1>1 DEF vars, recordVars
  <2> QED  BY <2>1, SilentElsewhere DEF SilentInv, MemOK
<1> QED  BY <1>1, WorkerSilent, ApiSilent, OthersSilent DEF OutreachNext

\* Whatever the policies, and however many workers and requests there are, a
\* process that reads its row after the contact has stopped does not talk to
\* Gmail about it (decideEmailAction, safety, emailSafety).
THEOREM WhoStoppedIsLeftAlone == OutreachSpec => []StoppedStaysSilent
<1>1. OutreachInit => SilentInv
  BY SilentWhenIdle DEF OutreachInit, SilentInv, MemOK, Processes
<1>2. SilentInv /\ [OutreachNext]_vars => SilentInv'
  BY SilentStays
<1>3. SilentInv => StoppedStaysSilent
  BY DEF SilentInv, Silent, StoppedStaysSilent, Calling
<1> QED  BY <1>1, <1>2, <1>3, PTL DEF OutreachSpec

-----------------------------------------------------------------------------
(***************************************************************************)
(* The worker calls Gmail only as often as it was asked to.  The budget of *)
(* a step is what it may still be worked on; due is what is under way or   *)
(* waits for it.                                                           *)
(***************************************************************************)

Budget(s) == mandate[s] + recovered[s]
Waiting(s) == IF action[s].status = "QUEUED" THEN 1 ELSE 0

RowsShape(rows) == DOMAIN rows = Steps /\ \A s \in Steps : "status" \in DOMAIN rows[s]

CountsOK == mandate \in [Steps -> Int] /\ recovered \in [Steps -> Int]

MandateInv == SilentInv /\ RowsShape(action) /\ CountsOK /\ EveryCallMandated

\* Sizes of sets of workers.
LEMMA SomeWorkers ==
    ASSUME NEW S, S \subseteq Workers, NEW T, T \subseteq S
    PROVE  /\ Cardinality(S) \in Nat /\ Cardinality(T) \in Nat
           /\ Cardinality(T) <= Cardinality(S)
<1>1. IsFiniteSet(S)
  BY OutreachAssumption, FS_Subset
<1>2. IsFiniteSet(T) /\ Cardinality(T) <= Cardinality(S)
  BY <1>1, FS_Subset
<1> QED  BY <1>1, <1>2, FS_CardinalityType

\* One worker more, one worker less.
LEMMA OneWorkerMore ==
    ASSUME NEW S, S \subseteq Workers, NEW w \in Workers
    PROVE  Cardinality(S \cup {w}) <= Cardinality(S) + 1
<1>1. IsFiniteSet(S) /\ Cardinality(S) \in Nat
  BY OutreachAssumption, FS_Subset, FS_CardinalityType
<1>2. Cardinality(S \cup {w}) = IF w \in S THEN Cardinality(S) ELSE Cardinality(S) + 1
  BY <1>1, FS_AddElement
<1> QED  BY <1>1, <1>2

LEMMA OneWorkerLess ==
    ASSUME NEW S, S \subseteq Workers, NEW w \in S
    PROVE  Cardinality(S \ {w}) = Cardinality(S) - 1
<1>1. IsFiniteSet(S)
  BY OutreachAssumption, FS_Subset
<1> QED  BY <1>1, FS_RemoveElement

LEMMA HeldByWorkers ==
    ASSUME NEW s
    PROVE  Held(s) \subseteq Workers /\ Held(s)' \subseteq Workers
BY DEF Held

\* What a step of one process does to the workers that hold a row.
LEMMA HeldAfter ==
    ASSUME MemOK, NEW p \in Processes, NEW m, mem' = [mem EXCEPT ![p] = m], NEW s \in Steps
    PROVE  Held(s)' = IF p \in Workers /\ m.at \in {"claimed", "loaded", "judged"} /\ m.step = s
                      THEN Held(s) \cup {p} ELSE Held(s) \ {p}
<1>1. \A q \in Workers : mem'[q] = IF q = p THEN m ELSE mem[q]
  BY DEF MemOK, Processes
<1> QED  BY <1>1 DEF Held

\* Nobody takes a row, and the budget grows with what waits.
LEMMA NothingTaken ==
    ASSUME MandateInv, CountsOK', NEW s \in Steps, Held(s)' \subseteq Held(s),
           Budget(s)' >= Budget(s),
           Budget(s)' > Budget(s) \/ (action'[s].status = "QUEUED" => action[s].status = "QUEUED")
    PROVE  Budget(s)' >= Cardinality(Held(s)') + Waiting(s)'
<1>1. Budget(s) \in Int /\ Budget(s)' \in Int
  BY DEF MandateInv, CountsOK, Budget
<1>2. Budget(s) >= Cardinality(Held(s)) + Waiting(s)
  BY DEF MandateInv, EveryCallMandated, Budget, Waiting
<1>3. /\ Cardinality(Held(s)) \in Nat /\ Cardinality(Held(s)') \in Nat
      /\ Cardinality(Held(s)') <= Cardinality(Held(s))
  BY HeldByWorkers, SomeWorkers
<1> QED  BY <1>1, <1>2, <1>3 DEF Waiting

\* A worker lets go of a row: the budget may pay for it, or the row wait again.
LEMMA RowReleased ==
    ASSUME MandateInv, CountsOK', NEW s \in Steps, NEW w \in Held(s), Held(s)' = Held(s) \ {w},
           \/ Budget(s)' = Budget(s)
           \/ Budget(s)' = Budget(s) - 1 /\ action'[s].status = action[s].status
    PROVE  Budget(s)' >= Cardinality(Held(s)') + Waiting(s)'
<1>1. Budget(s) \in Int /\ Budget(s)' \in Int
  BY DEF MandateInv, CountsOK, Budget
<1>2. Budget(s) >= Cardinality(Held(s)) + Waiting(s)
  BY DEF MandateInv, EveryCallMandated, Budget, Waiting
<1>3. Cardinality(Held(s)) \in Nat
  BY HeldByWorkers, SomeWorkers
<1>4. Cardinality(Held(s)') = Cardinality(Held(s)) - 1
  BY HeldByWorkers, OneWorkerLess
<1> QED  BY <1>1, <1>2, <1>3, <1>4 DEF Waiting

\* The parts of the invariant together.
LEMMA MandateParts ==
    ASSUME SilentInv', RowsShape(action)', CountsOK',
           \A s \in Steps : Budget(s)' >= Cardinality(Held(s)') + Waiting(s)'
    PROVE  MandateInv'
BY DEF MandateInv, EveryCallMandated, Budget, Waiting

\* The rows of `new` wait only where those of `old` do.
Calmer(new, old) ==
    RowsShape(new) /\ \A s \in Steps : new[s].status = "QUEUED" => old[s].status = "QUEUED"

\* Rows that are moved out of the queue, or not at all.
LEMMA MovedCalmer ==
    ASSUME RowsShape(action), NEW from, NEW to, to # "QUEUED"
    PROVE  Calmer(Moved(action, from, to), action)
BY DEF RowsShape, Calmer, Moved

LEMMA StoppedCalmer ==
    ASSUME RowsShape(action)
    PROVE  Calmer(StoppedByPulse, action)
<1>1. Calmer(action, action)
  BY DEF Calmer
<1>2. /\ Calmer(Moved(action, Stoppable, "REPLIED"), action)
      /\ Calmer(Moved(action, Stoppable, "BOUNCED"), action)
      /\ Calmer(Moved(action, Stoppable, "SUPPRESSED"), action)
      /\ Calmer(Moved(action, Stoppable, "PAUSED"), action)
  BY MovedCalmer
<1> QED  BY <1>1, <1>2 DEF StoppedByPulse

\* A step that lets no row wait and leaves the counts alone.
LEMMA CalmStep ==
    ASSUME MandateInv, SilentInv', UNCHANGED <<mandate, recovered>>, Calmer(action', action),
           \A s \in Steps : Held(s)' \subseteq Held(s)
    PROVE  MandateInv'
<1>1. CountsOK' /\ RowsShape(action)'
  BY DEF MandateInv, CountsOK, Calmer
<1>2. ASSUME NEW s \in Steps
      PROVE  Budget(s)' >= Cardinality(Held(s)') + Waiting(s)'
  <2>1. Budget(s)' = Budget(s) /\ Budget(s) \in Int
    BY DEF Budget, MandateInv, CountsOK
  <2>2. action'[s].status = "QUEUED" => action[s].status = "QUEUED"
    BY DEF Calmer
  <2>3. Budget(s)' >= Budget(s)
    BY <2>1
  <2> QED  BY <1>1, <2>2, <2>3, NothingTaken
<1> QED  BY <1>1, <1>2, MandateParts

\* A step that puts step s in the queue on behalf of somebody.
LEMMA AskedStep ==
    ASSUME MandateInv, SilentInv', NEW s \in Steps, Ask(s), recovered' = recovered,
           RowsShape(action'),
           \A t \in Steps \ {s} : action'[t].status = "QUEUED" => action[t].status = "QUEUED",
           \A t \in Steps : Held(t)' \subseteq Held(t)
    PROVE  MandateInv'
<1>1. /\ CountsOK' /\ RowsShape(action)'
      /\ \A t \in Steps : mandate'[t] = IF t = s THEN mandate[t] + 1 ELSE mandate[t]
  BY DEF MandateInv, CountsOK, Ask
<1>2. ASSUME NEW t \in Steps
      PROVE  Budget(t)' >= Cardinality(Held(t)') + Waiting(t)'
  <2>1. Budget(t)' = (IF t = s THEN Budget(t) + 1 ELSE Budget(t)) /\ Budget(t) \in Int
    BY <1>1 DEF Budget, MandateInv, CountsOK
  <2>2. Budget(t)' >= Budget(t)
    BY <2>1
  <2>3. Budget(t)' > Budget(t) \/ (action'[t].status = "QUEUED" => action[t].status = "QUEUED")
    BY <2>1
  <2> QED  BY <1>1, <2>2, <2>3, NothingTaken
<1> QED  BY <1>1, <1>2, MandateParts

\* Steps that change no memory, or that of a request, take no row.
LEMMA HeldElsewhere ==
    ASSUME UNCHANGED mem, NEW s
    PROVE  Held(s)' = Held(s)
BY DEF Held

LEMMA HeldAfterApi ==
    ASSUME MemOK, NEW a \in Apis, NEW m, mem' = [mem EXCEPT ![a] = m], NEW s \in Steps
    PROVE  Held(s)' = Held(s)
<1>1. a \notin Workers /\ a \in Processes
  BY OutreachAssumption DEF Processes
<1>2. \A q \in Workers : mem'[q] = mem[q]
  BY <1>1 DEF MemOK, Processes
<1> QED  BY <1>2 DEF Held

\* The result of Gmail lets no row wait.
LEMMA ResultCalmer ==
    ASSUME RowsShape(action), NEW m, m.step \in Steps, WriteResult(m)
    PROVE  Calmer(action', action)
<1> DEFINE row == IF action[m.step].status = "NONE" THEN NewRow("NONE", m.version, FALSE)
                  ELSE action[m.step]
           new == [row EXCEPT !.status = RowStatus(WillSend(m)), !.message = MessageOf(m)[2]]
<1>1. "status" \in DOMAIN row
  BY DEF RowsShape, NewRow
<1>2. "status" \in DOMAIN new /\ new.status \in {"SENT", "READY"}
  <2> HIDE DEF row
  <2> QED  BY <1>1 DEF RowStatus
<1>3. action' = [action EXCEPT ![m.step] = new]
  BY DEF WriteResult
<1> HIDE DEF new
<1>4. /\ RowsShape(action')
      /\ \A t \in Steps : action'[t] = IF t = m.step THEN new ELSE action[t]
  BY <1>2, <1>3 DEF RowsShape
<1> QED  BY <1>2, <1>4 DEF Calmer

\* The counts and rows after a step of worker w, which lets go of a row that
\* it held: the call is paid for, or the row is somebody's no more.
LEMMA WorkerLetsGo ==
    ASSUME MandateInv, SilentInv', NEW w \in Workers, NEW m, mem' = [mem EXCEPT ![w] = m],
           m.at \in {"idle", "called"}, mem[w].at \in {"claimed", "loaded", "judged"},
           RowsShape(action'), UNCHANGED recovered,
           \A t \in Steps \ {mem[w].step} : action'[t].status = action[t].status,
           \/ UNCHANGED mandate
           \/ /\ mandate' = [mandate EXCEPT ![mem[w].step] = @ - 1]
              /\ action'[mem[w].step].status = action[mem[w].step].status
    PROVE  MandateInv'
<1>1. CountsOK' /\ MemOK /\ w \in Processes
  BY DEF MandateInv, CountsOK, SilentInv, Processes
<1>2. ASSUME NEW t \in Steps
      PROVE  Budget(t)' >= Cardinality(Held(t)') + Waiting(t)'
  <2>1. Held(t)' = Held(t) \ {w}
    BY <1>1, HeldAfter
  <2>2. Budget(t) \in Int
    BY DEF Budget, MandateInv, CountsOK
  <2>3. CASE t = mem[w].step
    <3>1. w \in Held(t)
      BY <2>3 DEF Held
    <3>2. \/ Budget(t)' = Budget(t)
          \/ Budget(t)' = Budget(t) - 1 /\ action'[t].status = action[t].status
      BY <2>3 DEF Budget, MandateInv, CountsOK
    <3> QED  BY <1>1, <2>1, <3>1, <3>2, RowReleased
  <2>4. CASE t # mem[w].step
    <3>1. Budget(t)' = Budget(t)
      BY <2>4 DEF Budget, MandateInv, CountsOK
    <3>2. Budget(t)' >= Budget(t) /\ Held(t)' \subseteq Held(t)
      BY <2>1, <2>2, <3>1
    <3> QED  BY <1>1, <2>4, <3>2, NothingTaken
  <2> QED  BY <2>3, <2>4
<1> QED  BY <1>1, <1>2, MandateParts

\* A row that is claimed waits no more and is held instead.
LEMMA ClaimMandated ==
    ASSUME MandateInv, SilentInv', NEW w \in Workers, NEW s \in Steps, Claim(w, s)
    PROVE  MandateInv'
<1>1. MemOK /\ w \in Processes
  BY DEF MandateInv, SilentInv, Processes
<1> DEFINE m == [at |-> "claimed", op |-> "WORK", step |-> s, version |-> 0,
                 draft |-> FALSE, approved |-> FALSE, replied |-> FALSE,
                 late |-> FALSE, verdict |-> "none"]
<1>2. mem' = [mem EXCEPT ![w] = m] /\ m.at = "claimed" /\ m.step = s
  BY DEF Claim
<1> HIDE DEF m
<1>3. UNCHANGED <<mandate, recovered>> /\ action[s].status = "QUEUED"
  BY DEF Claim, history
<1>4. /\ RowsShape(action')
      /\ \A t \in Steps : action'[t].status = IF t = s THEN "READY" ELSE action[t].status
  BY DEF Claim, Claimed, MandateInv, RowsShape
<1>5. CountsOK'
  BY <1>3 DEF MandateInv, CountsOK
<1>6. ASSUME NEW t \in Steps
      PROVE  Budget(t)' >= Cardinality(Held(t)') + Waiting(t)'
  <2>1. Held(t)' = IF t = s THEN Held(t) \cup {w} ELSE Held(t) \ {w}
    BY <1>1, <1>2, HeldAfter
  <2>2. Budget(t)' = Budget(t) /\ Budget(t) \in Int
    BY <1>3 DEF Budget, MandateInv, CountsOK
  <2>3. CASE t = s
    <3>1. Budget(t) >= Cardinality(Held(t)) + 1
      BY <1>3, <2>3 DEF MandateInv, EveryCallMandated, Budget
    <3>2. Cardinality(Held(t)) \in Nat /\ Cardinality(Held(t)') \in Nat
      BY HeldByWorkers, SomeWorkers
    <3>3. Cardinality(Held(t)') <= Cardinality(Held(t)) + 1
      BY <2>1, <2>3, HeldByWorkers, OneWorkerMore
    <3>4. Waiting(t)' = 0
      BY <1>4, <2>3 DEF Waiting
    <3> QED  BY <2>2, <3>1, <3>2, <3>3, <3>4
  <2>4. CASE t # s
    <3>1. /\ Held(t)' \subseteq Held(t) /\ Budget(t)' >= Budget(t)
          /\ action'[t].status = action[t].status
      BY <1>4, <2>1, <2>2, <2>4
    <3> QED  BY <1>5, <3>1, NothingTaken
  <2> QED  BY <2>3, <2>4
<1> QED  BY <1>4, <1>5, <1>6, MandateParts

\* A step of a worker that keeps its row, or that held none any more.
LEMMA WorkerHolds ==
    ASSUME MandateInv, SilentInv', NEW w \in Workers, NEW m, mem' = [mem EXCEPT ![w] = m],
           UNCHANGED <<mandate, recovered>>, Calmer(action', action),
           m.at \in {"idle", "called"} \/ (w \in Held(mem[w].step) /\ m.step = mem[w].step)
    PROVE  MandateInv'
<1>1. MemOK /\ w \in Processes
  BY DEF MandateInv, SilentInv, Processes
<1>2. ASSUME NEW t \in Steps PROVE Held(t)' \subseteq Held(t)
  <2>1. Held(t)' = IF m.at \in {"claimed", "loaded", "judged"} /\ m.step = t
                   THEN Held(t) \cup {w} ELSE Held(t) \ {w}
    BY <1>1, HeldAfter
  <2> QED  BY <2>1
<1> QED  BY <1>2, CalmStep

\* The worker's steps keep its mandate.
LEMMA WorkerMandated ==
    ASSUME MandateInv, SilentInv', NEW w \in Workers, Worker(w)
    PROVE  MandateInv'
<1>1. MemOK /\ w \in Processes /\ w \in DOMAIN mem /\ RowsShape(action)
  BY DEF MandateInv, SilentInv, MemOK, Processes
<1>2. ASSUME mem[w] # Idle
      PROVE  /\ Job(mem[w])
             /\ mem[w].at \in {"claimed", "loaded", "judged"} => w \in Held(mem[w].step)
  BY <1>1, <1>2 DEF MemOK, Held
<1>3. Calmer(action, action)
  BY <1>1 DEF Calmer
<1>4. ASSUME NEW s \in Steps, Claim(w, s) PROVE MandateInv'
  BY <1>4, ClaimMandated
<1>5. CASE Load(w)
  <2> DEFINE m == [mem[w] EXCEPT !.at = "loaded", !.version = action[mem[w].step].version,
                                 !.draft = action[mem[w].step].draft,
                                 !.approved = (approval = "APPROVED"),
                                 !.replied = HasReply, !.late = Stopped]
  <2>1. Job(mem[w]) /\ w \in Held(mem[w].step)
    BY <1>2, <1>5 DEF Load, Idle
  <2>2. m.step = mem[w].step
    BY <2>1 DEF Job, JobFields
  <2>3. mem' = [mem EXCEPT ![w] = m] /\ UNCHANGED <<action, mandate, recovered>>
    BY <1>1, <1>5 DEF Load, rowVars, history
  <2> HIDE DEF m
  <2> QED  BY <1>3, <2>1, <2>2, <2>3, WorkerHolds
<1>6. CASE Judge(w)
  <2>1. Job(mem[w]) /\ w \in Held(mem[w].step)
    BY <1>2, <1>6 DEF Judge, Idle
  <2>2. PICK v \in Verdicts(mem[w]) : mem' = [mem EXCEPT ![w] = Judged(mem[w], v)]
    BY <1>1, <1>6 DEF Judge
  <2>3. Judged(mem[w], v).step = mem[w].step
    BY <2>1 DEF Judged, Job, JobFields
  <2>4. UNCHANGED <<action, mandate, recovered>>
    BY <1>6 DEF Judge, rowVars, history
  <2> QED  BY <1>3, <2>1, <2>2, <2>3, <2>4, WorkerHolds
<1>7. CASE Defer(w)
  <2>1. Job(mem[w]) /\ mem[w].at = "judged"
    BY <1>2, <1>7 DEF Defer, Idle
  <2>2. mem' = [mem EXCEPT ![w] = Idle] /\ UNCHANGED <<mandate, recovered>> /\ Idle.at = "idle"
    BY <1>7 DEF Defer, history, Idle
  <2>3. /\ RowsShape(action')
        /\ \A t \in Steps \ {mem[w].step} : action'[t].status = action[t].status
    BY <1>1, <1>7 DEF Defer, RowsShape
  <2> QED  BY <2>1, <2>2, <2>3, WorkerLetsGo
<1>8. CASE WorkerCalls(w)
  <2>1. Job(mem[w]) /\ mem[w].at = "judged"
    BY <1>2, <1>8 DEF WorkerCalls, Idle
  <2> DEFINE m == [mem[w] EXCEPT !.at = "called"]
  <2>2. m.at = "called"
    BY <2>1 DEF Job, JobFields
  <2>3. mem' = [mem EXCEPT ![w] = m]
    BY <1>1, <1>8 DEF WorkerCalls, GmailAccepts
  <2>4. /\ mandate' = [mandate EXCEPT ![mem[w].step] = @ - 1]
        /\ UNCHANGED <<action, recovered>>
    BY <1>8 DEF WorkerCalls, rowVars
  <2> HIDE DEF m
  <2> QED  BY <1>1, <2>1, <2>2, <2>3, <2>4, WorkerLetsGo
<1>9. CASE WorkerSaves(w)
  <2>1. Job(mem[w])
    BY <1>2, <1>9 DEF WorkerSaves, Idle
  <2>2. Calmer(action', action)
    BY <1>1, <1>9, <2>1, ResultCalmer DEF WorkerSaves, Job
  <2>3. mem' = [mem EXCEPT ![w] = Idle] /\ UNCHANGED <<mandate, recovered>> /\ Idle.at = "idle"
    BY <1>9 DEF WorkerSaves, history, Idle
  <2> QED  BY <2>2, <2>3, WorkerHolds
<1>10. CASE WorkerFails(w)
  <2>1. Calmer(action', action)
    BY <1>1, <1>10 DEF WorkerFails, Calmer, RowsShape
  <2>2. mem' = [mem EXCEPT ![w] = Idle] /\ UNCHANGED <<mandate, recovered>> /\ Idle.at = "idle"
    BY <1>10 DEF WorkerFails, history, Idle
  <2> QED  BY <2>1, <2>2, WorkerHolds
<1>11. CASE WorkerDies(w)
  <2>1. Job(mem[w])
    BY <1>2, <1>11 DEF WorkerDies
  <2>2. mem' = [mem EXCEPT ![w] = Idle] /\ UNCHANGED <<action, recovered>> /\ Idle.at = "idle"
    BY <1>11 DEF WorkerDies, rowVars, Idle
  <2>3. CASE mem[w].at # "called"
    <3>1. UNCHANGED mandate
      BY <1>11, <2>3 DEF WorkerDies
    <3> QED  BY <1>3, <2>2, <3>1, WorkerHolds
  <2>4. CASE mem[w].at = "called"
    <3>1. Ask(mem[w].step)
      BY <1>11, <2>4 DEF WorkerDies
    <3>2. ASSUME NEW t \in Steps PROVE Held(t)' \subseteq Held(t)
      <4>1. Held(t)' = Held(t) \ {w}
        BY <1>1, <2>2, HeldAfter
      <4> QED  BY <4>1
    <3>3. mem[w].step \in Steps
      BY <2>1 DEF Job
    <3> QED  BY <1>1, <2>2, <3>1, <3>2, <3>3, AskedStep
  <2> QED  BY <2>3, <2>4
<1> QED  BY <1>4, <1>5, <1>6, <1>7, <1>8, <1>9, <1>10, <1>11 DEF Worker

\* A request takes no row, and what it queues it asks for.
LEMMA ApiMandated ==
    ASSUME MandateInv, SilentInv', NEW a \in Apis, Api(a)
    PROVE  MandateInv'
<1>1. MemOK /\ a \in DOMAIN mem /\ RowsShape(action) /\ Calmer(action, action)
  BY DEF MandateInv, SilentInv, MemOK, Processes, Calmer
<1>2. PICK m : mem' = [mem EXCEPT ![a] = m]
  <2>1. ASSUME NEW op \in {"QUEUE", "CREATE_DRAFT", "SEND_NOW"}, NEW s \in Steps, Request(a, op, s)
        PROVE  \E m : mem' = [mem EXCEPT ![a] = m]
    BY <2>1 DEF Request
  <2>2. CASE RequestJudged(a)
    BY <2>2 DEF RequestJudged
  <2>3. CASE RequestQueues(a) \/ RequestRecords(a) \/ RequestEnds(a)
    BY <2>3 DEF RequestQueues, RequestRecords, RequestEnds
  <2>4. CASE RequestCalls(a)
    BY <2>4 DEF RequestCalls, GmailAccepts
  <2> QED  BY <2>1, <2>2, <2>3, <2>4 DEF Api
<1>3. \A t \in Steps : Held(t)' \subseteq Held(t)
  BY <1>1, <1>2, HeldAfterApi
<1>4. ASSUME mem[a] # Idle PROVE mem[a].step \in Steps
  BY <1>1, <1>4 DEF MemOK, Job, Processes
<1>5. ASSUME NEW op \in {"QUEUE", "CREATE_DRAFT", "SEND_NOW"}, NEW s \in Steps, Request(a, op, s)
      PROVE  MandateInv'
  <2>1. UNCHANGED <<action, mandate, recovered>>
    BY <1>5 DEF Request, rowVars
  <2> QED  BY <1>1, <1>3, <2>1, CalmStep
<1>6. CASE RequestJudged(a) \/ RequestCalls(a) \/ RequestEnds(a)
  <2>1. UNCHANGED <<action, mandate, recovered>>
    BY <1>6 DEF RequestJudged, RequestCalls, RequestEnds, rowVars, history
  <2> QED  BY <1>1, <1>3, <2>1, CalmStep
<1>7. CASE RequestRecords(a)
  <2>1. mem[a].step \in Steps
    BY <1>4, <1>7 DEF RequestRecords, Idle
  <2>2. Calmer(action', action)
    BY <1>1, <1>7, <2>1, ResultCalmer DEF RequestRecords
  <2>3. UNCHANGED <<mandate, recovered>>
    BY <1>7 DEF RequestRecords, history
  <2> QED  BY <1>3, <2>2, <2>3, CalmStep
<1>8. CASE RequestQueues(a)
  <2> DEFINE s == mem[a].step
             over == action[s].status \in {"SENT", "REPLIED", "BOUNCED", "SUPPRESSED"}
  <2>1. s \in Steps
    BY <1>4, <1>8 DEF RequestQueues, Idle
  <2>2. UNCHANGED recovered
    BY <1>8 DEF RequestQueues
  <2>3. CASE over
    <3>1. UNCHANGED mandate
      BY <1>8, <2>3 DEF RequestQueues
    <3>2. RowsShape(action') /\ \A t \in Steps : action'[t].status = action[t].status
      BY <1>1, <1>8, <2>1, <2>3 DEF RequestQueues, RowsShape
    <3> QED  BY <1>3, <2>2, <3>1, <3>2, CalmStep DEF Calmer
  <2>4. CASE ~over
    <3>1. Ask(s)
      BY <1>8, <2>4 DEF RequestQueues
    <3>2. /\ RowsShape(action')
          /\ \A t \in Steps \ {s} : action'[t].status = action[t].status
      BY <1>1, <1>8, <2>1, <2>4 DEF RequestQueues, RowsShape, NewRow
    <3> QED  BY <1>3, <2>1, <2>2, <3>1, <3>2, AskedStep
  <2> QED  BY <2>3, <2>4
<1> QED  BY <1>5, <1>6, <1>7, <1>8 DEF Api

\* The recovery pays for what it puts in the queue.
LEMMA RecoveryMandated ==
    ASSUME MandateInv, SilentInv', RecoverStale
    PROVE  MandateInv'
<1>1. PICK stale \in SUBSET Steps :
         /\ action' = [s \in Steps |->
                          IF s \in stale THEN [action[s] EXCEPT !.status = "QUEUED"] ELSE action[s]]
         /\ recovered' = [s \in Steps |-> recovered[s] + (IF s \in stale THEN 1 ELSE 0)]
         /\ UNCHANGED <<mem, mandate>>
  BY DEF RecoverStale
<1>2. RowsShape(action') /\ CountsOK'
  BY <1>1 DEF MandateInv, RowsShape, CountsOK
<1>3. ASSUME NEW s \in Steps
      PROVE  Budget(s)' >= Cardinality(Held(s)') + Waiting(s)'
  <2>1. Held(s)' \subseteq Held(s)
    BY <1>1, HeldElsewhere
  <2>2. Budget(s)' = Budget(s) + (IF s \in stale THEN 1 ELSE 0) /\ Budget(s) \in Int
    BY <1>1 DEF Budget, MandateInv, CountsOK
  <2>3. /\ Budget(s)' >= Budget(s)
        /\ Budget(s)' > Budget(s) \/ action'[s].status = action[s].status
    BY <1>1, <2>2
  <2> QED  BY <1>2, <2>1, <2>3, NothingTaken
<1> QED  BY <1>2, <1>3, MandateParts

\* Pulse asks for the follow-up that it plans.
LEMMA PulseMandated ==
    ASSUME MandateInv, SilentInv', Pulse
    PROVE  MandateInv'
<1>1. RowsShape(action)
  BY DEF MandateInv
<1>2. Calmer(StoppedByPulse, action)
  BY <1>1, StoppedCalmer
<1>3. UNCHANGED <<mem, recovered>>
  BY DEF Pulse
<1>4. \A t \in Steps : Held(t)' \subseteq Held(t)
  BY <1>3, HeldElsewhere
<1>5. \/ action' = StoppedByPulse /\ UNCHANGED mandate
      \/ \E row : \E s \in Steps : /\ action' = [StoppedByPulse EXCEPT ![s] = row]
                                   /\ "status" \in DOMAIN row
                                   /\ Ask(s)
  <2> DEFINE draft == policy.linkedinFirst \/ policy.mode \in {"MANUAL", "DRAFT_ONLY"}
             row == NewRow("QUEUED", version, draft)
  <2>1. "status" \in DOMAIN row
    BY DEF NewRow
  <2>2. \/ action' = StoppedByPulse /\ UNCHANGED mandate
        \/ /\ NextStep \in Steps /\ Ask(NextStep)
           /\ action' = [StoppedByPulse EXCEPT ![NextStep] = row]
    BY DEF Pulse
  <2> HIDE DEF row
  <2> QED  BY <2>1, <2>2
<1>6. CASE action' = StoppedByPulse /\ UNCHANGED mandate
  BY <1>2, <1>3, <1>4, <1>6, CalmStep
<1>7. ASSUME NEW s \in Steps, NEW row, action' = [StoppedByPulse EXCEPT ![s] = row],
             "status" \in DOMAIN row, Ask(s)
      PROVE  MandateInv'
  <2>1. /\ RowsShape(action')
        /\ \A t \in Steps \ {s} : action'[t].status = "QUEUED" => action[t].status = "QUEUED"
    BY <1>2, <1>7 DEF Calmer, RowsShape
  <2> QED  BY <1>3, <1>4, <1>7, <2>1, AskedStep
<1> QED  BY <1>5, <1>6, <1>7

\* Echo asks for the message only where it sends by itself.
LEMMA EchoMandated ==
    ASSUME MandateInv, SilentInv', EchoDrafts
    PROVE  MandateInv'
<1> DEFINE automatic == /\ ~policy.linkedinFirst
                        /\ policy.mode = "FULL_AUTOMATION" /\ policy.approvalMode = "NONE"
           status == IF automatic THEN "QUEUED"
                     ELSE IF policy.approvalMode = "NONE" THEN "READY" ELSE "NOT_STARTED"
           row == IF action["INITIAL"].status = "NONE" THEN NewRow(status, version + 1, FALSE)
                  ELSE [action["INITIAL"] EXCEPT !.status = status, !.version = version + 1]
<1>1. "INITIAL" \in Steps /\ RowsShape(action)
  BY OutreachAssumption DEF MandateInv
<1>2. "status" \in DOMAIN row /\ row.status = status
  <2> HIDE DEF status
  <2> QED  BY <1>1 DEF RowsShape, NewRow
<1>3. action' = [action EXCEPT !["INITIAL"] = row] /\ UNCHANGED <<mem, recovered>>
  BY <1>1 DEF EchoDrafts, RowsShape
<1> HIDE DEF row
<1>4. /\ RowsShape(action')
      /\ \A t \in Steps : action'[t] = IF t = "INITIAL" THEN row ELSE action[t]
  BY <1>1, <1>2, <1>3 DEF RowsShape
<1>5. \A t \in Steps : Held(t)' \subseteq Held(t)
  BY <1>3, HeldElsewhere
<1>6. CASE automatic
  <2>1. Ask("INITIAL")
    BY <1>6 DEF EchoDrafts
  <2> QED  BY <1>1, <1>3, <1>4, <1>5, <2>1, AskedStep
<1>7. CASE ~automatic
  <2>1. UNCHANGED mandate
    BY <1>7 DEF EchoDrafts
  <2>2. Calmer(action', action)
    BY <1>2, <1>4, <1>7 DEF Calmer
  <2> QED  BY <1>3, <1>5, <2>1, <2>2, CalmStep
<1> QED  BY <1>6, <1>7

\* Nothing else that happens puts a row in the queue.
LEMMA OthersMandated ==
    ASSUME MandateInv, SilentInv', People \/ Mailbox, ~EchoDrafts
    PROVE  MandateInv'
<1>1. RowsShape(action) /\ Calmer(action, action)
  BY DEF MandateInv, Calmer
<1>2. UNCHANGED <<mem, mandate, recovered>>
  BY DEF People, EditVersion, Review, Suppress, HandSend, AccessStops, MeetingChanges,
         Mailbox, IngestReply, IngestBounce, IngestOwn, OptOut, history
<1>3. \A t \in Steps : Held(t)' \subseteq Held(t)
  BY <1>2, HeldElsewhere
<1>4. CASE \E from, to : to # "QUEUED" /\ action' = Moved(action, from, to)
  BY <1>1, <1>2, <1>3, <1>4, MovedCalmer, CalmStep
<1>5. CASE UNCHANGED action
  BY <1>1, <1>2, <1>3, <1>5, CalmStep
<1>6. ASSUME NEW m \in unseen, IngestOwn(m), action' # action PROVE MandateInv'
  <2>1. PICK s : action' = [action EXCEPT ![s] = [@ EXCEPT !.status = "SENT", !.draft = FALSE,
                                                          !.message = m[2]]]
    BY <1>6 DEF IngestOwn, rowVars
  <2>2. Calmer(action', action)
    BY <1>1, <2>1 DEF Calmer, RowsShape
  <2> QED  BY <1>2, <1>3, <2>2, CalmStep
<1>7. CASE EditVersion \/ Suppress \/ AccessStops \/ IngestReply \/ IngestBounce \/ OptOut
  BY <1>4, <1>7 DEF EditVersion, Suppress, AccessStops, IngestReply, IngestBounce, OptOut
<1>8. ASSUME NEW d \in Decisions, Review(d) PROVE MandateInv'
  <2>1. action' = action \/ action' = Moved(action, Live, "PAUSED")
    BY <1>8 DEF Review
  <2> QED  BY <1>4, <1>5, <2>1
<1>9. ASSUME NEW s \in Steps, HandSend(s) PROVE MandateInv'
  BY <1>5, <1>9 DEF HandSend, rowVars
<1>10. CASE MeetingChanges
  BY <1>5, <1>10 DEF MeetingChanges, rowVars
<1> QED  BY <1>5, <1>6, <1>7, <1>8, <1>9, <1>10 DEF People, Mailbox

\* However many workers, requests, recoveries and turns of Pulse there are at
\* once, the worker calls Gmail at most once for each time a step was put in
\* the queue or recovered (claim, queueEmailAction, recoverStale, reconcile).
THEOREM OnlyWhatWasAskedFor == OutreachSpec => []EveryCallMandated
<1>1. OutreachInit => MandateInv
  <2> SUFFICES ASSUME OutreachInit PROVE MandateInv
    OBVIOUS
  <2>1. SilentInv
    BY SilentWhenIdle DEF OutreachInit, SilentInv, MemOK, Processes
  <2>2. RowsShape(action) /\ CountsOK
    BY DEF OutreachInit, RowsShape, NoRow, CountsOK
  <2>3. ASSUME NEW s \in Steps PROVE Held(s) = {}
    BY DEF OutreachInit, Held, Idle, Processes
  <2>4. ASSUME NEW s \in Steps
        PROVE  mandate[s] = 0 /\ recovered[s] = 0 /\ action[s].status = "NONE"
    BY DEF OutreachInit, NoRow
  <2>5. Cardinality({}) = 0
    BY FS_EmptySet
  <2>6. ASSUME NEW s \in Steps
        PROVE  Budget(s) >= Cardinality(Held(s)) + Waiting(s)
    <3>1. Cardinality(Held(s)) = 0
      BY <2>3, <2>5, Zenon
    <3>2. Budget(s) = 0 /\ Waiting(s) = 0
      BY <2>4 DEF Budget, Waiting
    <3> QED  BY <3>1, <3>2
  <2>7. EveryCallMandated
    BY <2>6 DEF EveryCallMandated, Budget, Waiting
  <2> QED  BY <2>1, <2>2, <2>7 DEF MandateInv
<1>2. MandateInv /\ [OutreachNext]_vars => MandateInv'
  <2> SUFFICES ASSUME MandateInv, [OutreachNext]_vars PROVE MandateInv'
    OBVIOUS
  <2>1. SilentInv'
    BY SilentStays DEF MandateInv
  <2>2. CASE UNCHANGED vars
    <3>1. UNCHANGED <<mem, action, mandate, recovered>>
      BY <2>2 DEF vars, rowVars, history
    <3>2. Calmer(action', action)
      BY <3>1 DEF MandateInv, Calmer
    <3>3. \A t \in Steps : Held(t)' \subseteq Held(t)
      BY <3>1, HeldElsewhere
    <3> QED  BY <2>1, <3>1, <3>2, <3>3, CalmStep
  <2>3. CASE OutreachNext
    BY <2>1, <2>3, WorkerMandated, ApiMandated, RecoveryMandated, PulseMandated, EchoMandated,
       OthersMandated DEF OutreachNext
  <2> QED  BY <2>2, <2>3
<1>3. MandateInv => EveryCallMandated
  BY DEF MandateInv
<1> QED  BY <1>1, <1>2, <1>3, PTL DEF OutreachSpec

-----------------------------------------------------------------------------
(***************************************************************************)
(* Nothing leaves before a first approval.                                 *)
(***************************************************************************)

\* Every message needs an approval, and none was ever given.
Before == policy.approvalMode = "EVERY_MESSAGE" /\ approved = {}

\* A process that holds m in memory does not call Gmail: a request was not
\* permitted, a worker was told to wait.
Withheld(p, m) ==
    /\ m.at = "loaded" => m.approved = FALSE
    /\ m.at = "judged" => p \in Workers /\ m.verdict \in {"BLOCK", "WAIT"}
    /\ m.at # "called"

BeforeInv ==
    Before => /\ approval # "APPROVED"
              /\ left = {} /\ drafts = {}
              /\ \A p \in Processes : Withheld(p, mem[p])

UnapprovedInv == MemOK /\ BeforeInv

\* The approvals that were given stay, and the policy does.
LEMMA ApprovalsStay ==
    ASSUME [OutreachNext]_vars
    PROVE  policy' = policy /\ approved \subseteq approved'
<1>1. CASE UNCHANGED vars
  BY <1>1 DEF vars
<1>2. ASSUME NEW w \in Workers, Worker(w) PROVE UNCHANGED <<policy, approved>>
  BY <1>2 DEF Worker, Claim, Load, Judge, Defer, WorkerCalls, WorkerSaves, WorkerFails, WorkerDies
<1>3. ASSUME NEW a \in Apis, Api(a) PROVE UNCHANGED <<policy, approved>>
  BY <1>3 DEF Api, Request, RequestJudged, RequestQueues, RequestCalls, RequestRecords, RequestEnds
<1>4. ASSUME RecoverStale \/ Mailbox \/ Pulse PROVE UNCHANGED <<policy, approved>>
  BY <1>4 DEF RecoverStale, Mailbox, IngestReply, IngestBounce, IngestOwn, OptOut, Pulse
<1>5. ASSUME People PROVE policy' = policy /\ approved \subseteq approved'
  <2>1. ASSUME NEW d \in Decisions, Review(d) PROVE policy' = policy /\ approved \subseteq approved'
    BY <2>1 DEF Review
  <2>2. ASSUME People, \A d \in Decisions : ~Review(d) PROVE UNCHANGED <<policy, approved>>
    BY <2>2 DEF People, EchoDrafts, EditVersion, Suppress, HandSend, AccessStops, MeetingChanges
  <2> QED  BY <1>5, <2>1, <2>2
<1> QED  BY <1>1, <1>2, <1>3, <1>4, <1>5 DEF OutreachNext

\* A step of one process, which then has m in memory.
LEMMA WithheldStep ==
    ASSUME UnapprovedInv, MemOK', Before, UNCHANGED <<policy, approved, approval, left, drafts>>,
           NEW p \in Processes, NEW m, mem' = [mem EXCEPT ![p] = m], Withheld(p, m)
    PROVE  UnapprovedInv'
<1>1. ASSUME NEW q \in Processes PROVE Withheld(q, mem'[q])
  <2>1. mem'[q] = IF q = p THEN m ELSE mem[q]
    BY DEF UnapprovedInv, MemOK
  <2> QED  BY <2>1 DEF UnapprovedInv, BeforeInv
<1> QED  BY <1>1 DEF UnapprovedInv, BeforeInv, Before

\* Steps that leave every memory and the mailbox alone.
LEMMA WithheldElsewhere ==
    ASSUME UnapprovedInv, MemOK', Before, UNCHANGED <<policy, approved, mem, left, drafts>>,
           approval' # "APPROVED"
    PROVE  UnapprovedInv'
BY DEF UnapprovedInv, BeforeInv, Before

\* The judgement refuses, or has it wait, as long as nothing is approved.
LEMMA JudgementWaits ==
    ASSUME Before, NEW m, Job(m), m.approved = FALSE, NEW v \in Verdicts(m)
    PROVE  v \in {"BLOCK", "WAIT"} /\ Judged(m, v).at = "judged" /\ Judged(m, v).verdict = v
<1>1. PICK c \in BOOLEAN, l \in BOOLEAN, w \in BOOLEAN : v = Decision(m, c, l, w)
  BY DEF Verdicts
<1>2. ApprovalRequired(m.step) = TRUE
  BY DEF Before, ApprovalRequired
<1>3. v \in {"BLOCK", "WAIT"}
  BY <1>1, <1>2 DEF Decision
<1>4. Judged(m, v).at = "judged" /\ Judged(m, v).verdict = v
  BY DEF Judged, Job, JobFields
<1> QED  BY <1>3, <1>4

\* A step of the worker lets nothing out.
LEMMA WorkerWithholds ==
    ASSUME UnapprovedInv, MemOK', Before, NEW w \in Workers, Worker(w)
    PROVE  UnapprovedInv'
<1> w \in Processes
  BY DEF Processes
<1>1. /\ MemOK /\ w \in DOMAIN mem /\ Withheld(w, mem[w]) /\ approval # "APPROVED"
      /\ mem[w] # Idle => Job(mem[w])
  BY DEF UnapprovedInv, BeforeInv, MemOK
<1>2. Withheld(w, Idle)
  BY DEF Withheld, Idle
<1>3. ASSUME NEW s \in Steps, Claim(w, s) PROVE UnapprovedInv'
  <2> DEFINE m == [at |-> "claimed", op |-> "WORK", step |-> s, version |-> 0,
                   draft |-> FALSE, approved |-> FALSE, replied |-> FALSE,
                   late |-> FALSE, verdict |-> "none"]
  <2>1. Withheld(w, m)
    BY DEF Withheld
  <2>2. mem' = [mem EXCEPT ![w] = m] /\ UNCHANGED <<policy, approved, approval, left, drafts>>
    BY <1>3 DEF Claim, recordVars, gmailVars
  <2> HIDE DEF m
  <2> QED  BY <2>1, <2>2, WithheldStep
<1>4. CASE Load(w)
  <2> DEFINE m == [mem[w] EXCEPT !.at = "loaded", !.version = action[mem[w].step].version,
                                 !.draft = action[mem[w].step].draft,
                                 !.approved = (approval = "APPROVED"),
                                 !.replied = HasReply, !.late = Stopped]
  <2>1. Job(mem[w])
    BY <1>1, <1>4 DEF Load, Idle
  <2>2. m.at = "loaded" /\ m.approved = (approval = "APPROVED")
    BY <2>1 DEF Job, JobFields
  <2>3. mem' = [mem EXCEPT ![w] = m] /\ UNCHANGED <<policy, approved, approval, left, drafts>>
    BY <1>1, <1>4, <2>1 DEF Load, recordVars, gmailVars
  <2> HIDE DEF m
  <2>4. m.approved = FALSE
    BY <1>1, <2>2, Zenon
  <2>5. Withheld(w, m)
    BY <2>2, <2>4 DEF Withheld
  <2> QED  BY <2>3, <2>5, WithheldStep
<1>5. CASE Judge(w)
  <2>1. Job(mem[w]) /\ mem[w].at = "loaded" /\ mem[w].approved = FALSE
    BY <1>1, <1>5 DEF Judge, Idle, Withheld
  <2>2. PICK v \in Verdicts(mem[w]) : mem' = [mem EXCEPT ![w] = Judged(mem[w], v)]
    BY <1>1, <1>5 DEF Judge
  <2>3. v \in {"BLOCK", "WAIT"} /\ Judged(mem[w], v).at = "judged" /\ Judged(mem[w], v).verdict = v
    BY <2>1, JudgementWaits
  <2>4. Withheld(w, Judged(mem[w], v))
    BY <2>3 DEF Withheld
  <2>5. UNCHANGED <<policy, approved, approval, left, drafts>>
    BY <1>5 DEF Judge, recordVars, gmailVars
  <2> QED  BY <2>2, <2>4, <2>5, WithheldStep
<1>6. CASE WorkerCalls(w)
  <2>1. mem[w].verdict \in {"BLOCK", "WAIT"}
    BY <1>1, <1>6 DEF WorkerCalls, Withheld
  <2>2. mem[w].verdict \in {"CREATE_DRAFT", "SEND", "MANUAL"}
    BY <1>6 DEF WorkerCalls
  <2> QED  BY <2>1, <2>2
<1>7. CASE Defer(w) \/ WorkerSaves(w) \/ WorkerFails(w) \/ WorkerDies(w)
  <2>1. /\ mem' = [mem EXCEPT ![w] = Idle]
        /\ UNCHANGED <<policy, approved, approval, left, drafts>>
    BY <1>7 DEF Defer, WorkerSaves, WorkerFails, WorkerDies, recordVars, gmailVars
  <2> QED  BY <1>2, <2>1, WithheldStep
<1> QED  BY <1>3, <1>4, <1>5, <1>6, <1>7 DEF Worker

\* A request is not permitted as long as nothing is approved.
LEMMA ApiWithholds ==
    ASSUME UnapprovedInv, MemOK', Before, NEW a \in Apis, Api(a)
    PROVE  UnapprovedInv'
<1> a \in Processes /\ a \notin Workers
  BY OutreachAssumption DEF Processes
<1>1. /\ MemOK /\ a \in DOMAIN mem /\ Withheld(a, mem[a]) /\ approval # "APPROVED"
      /\ mem[a] # Idle => Job(mem[a])
  BY DEF UnapprovedInv, BeforeInv, MemOK
<1>2. Withheld(a, Idle)
  BY DEF Withheld, Idle
<1>3. ASSUME NEW op \in {"QUEUE", "CREATE_DRAFT", "SEND_NOW"}, NEW s \in Steps, Request(a, op, s)
      PROVE  UnapprovedInv'
  <2> DEFINE m == [at |-> "loaded", op |-> op, step |-> s, version |-> version,
                   draft |-> FALSE, approved |-> (approval = "APPROVED"),
                   replied |-> HasReply, late |-> Stopped, verdict |-> "none"]
  <2>1. mem' = [mem EXCEPT ![a] = m] /\ UNCHANGED <<policy, approved, approval, left, drafts>>
    BY <1>3 DEF Request, recordVars, gmailVars
  <2>2. m.at = "loaded" /\ m.approved = (approval = "APPROVED")
    OBVIOUS
  <2> HIDE DEF m
  <2>3. m.approved = FALSE
    BY <1>1, <2>2, Zenon
  <2>4. Withheld(a, m)
    BY <2>2, <2>3 DEF Withheld
  <2> QED  BY <2>1, <2>4, WithheldStep
<1>4. CASE RequestJudged(a)
  <2>1. mem[a].at = "loaded" /\ mem[a].approved = FALSE
    BY <1>1, <1>4 DEF RequestJudged, Withheld
  <2>2. mem' = [mem EXCEPT ![a] = Idle] /\ UNCHANGED <<policy, approved, approval, left, drafts>>
    BY <1>1, <1>4, <2>1 DEF RequestJudged, recordVars, gmailVars
  <2> QED  BY <1>2, <2>2, WithheldStep
<1>5. CASE RequestCalls(a)
  BY <1>1, <1>5 DEF RequestCalls, Withheld
<1>6. CASE RequestQueues(a) \/ RequestRecords(a) \/ RequestEnds(a)
  <2>1. /\ mem' = [mem EXCEPT ![a] = Idle]
        /\ UNCHANGED <<policy, approved, approval, left, drafts>>
    BY <1>6 DEF RequestQueues, RequestRecords, RequestEnds, recordVars, gmailVars
  <2> QED  BY <1>2, <2>1, WithheldStep
<1> QED  BY <1>3, <1>4, <1>5, <1>6 DEF Api

\* Nobody sends a draft by hand that does not lie there, and only a reviewer
\* approves.
LEMMA OthersWithhold ==
    ASSUME UnapprovedInv, MemOK', Before, Before', RecoverStale \/ People \/ Mailbox \/ Pulse
    PROVE  UnapprovedInv'
<1>1. approval # "APPROVED" /\ drafts = {} /\ policy.approvalMode = "EVERY_MESSAGE"
  BY DEF UnapprovedInv, BeforeInv, Before
<1>2. UNCHANGED <<policy, approved>>
  BY ApprovalsStay DEF Before, OutreachNext
<1>3. CASE RecoverStale \/ Mailbox \/ Pulse
  <2>1. UNCHANGED <<mem, approval, left, drafts>>
    BY <1>3 DEF RecoverStale, recordVars, gmailVars, Mailbox, IngestReply, IngestBounce, IngestOwn,
                OptOut, Pulse
  <2> QED  BY <1>1, <1>2, <2>1, WithheldElsewhere
<1>4. ASSUME NEW d \in Decisions, Review(d) PROVE UnapprovedInv'
  <2>1. d # "APPROVED"
    BY <1>2, <1>4 DEF Review, Before
  <2>2. UNCHANGED <<mem, left, drafts>> /\ approval' = d
    BY <1>4 DEF Review, gmailVars
  <2> QED  BY <1>2, <2>1, <2>2, WithheldElsewhere
<1>5. CASE EchoDrafts
  <2>1. UNCHANGED <<mem, left, drafts>> /\ approval' = "PENDING_REVIEW"
    BY <1>1, <1>5 DEF EchoDrafts, gmailVars
  <2> QED  BY <1>2, <2>1, WithheldElsewhere
<1>6. CASE EditVersion \/ Suppress \/ AccessStops \/ MeetingChanges
  <2>1. /\ UNCHANGED <<mem, left, drafts>>
        /\ approval' = approval \/ approval' = "PENDING_REVIEW"
    BY <1>6 DEF EditVersion, Suppress, AccessStops, MeetingChanges, gmailVars, recordVars
  <2> QED  BY <1>1, <1>2, <2>1, WithheldElsewhere
<1>7. ASSUME NEW s \in Steps, HandSend(s) PROVE UnapprovedInv'
  BY <1>1, <1>7 DEF HandSend
<1> QED  BY <1>3, <1>4, <1>5, <1>6, <1>7 DEF People

\* Where every message needs approval, no email leaves and no draft lies in
\* the mailbox before a reviewer has approved some version, whichever way it
\* would go (decideEmailAction, emailAction, applyEcho, decision).
THEOREM NothingEverLeavesUnapproved == OutreachSpec => []NothingLeavesUnapproved
<1>1. OutreachInit => UnapprovedInv /\ SilentInv
  <2> SUFFICES ASSUME OutreachInit PROVE UnapprovedInv /\ SilentInv
    OBVIOUS
  <2>1. SilentInv
    BY SilentWhenIdle DEF OutreachInit, SilentInv, MemOK
  <2>2. \A p \in Processes : Withheld(p, mem[p])
    BY DEF OutreachInit, Withheld, Idle
  <2>3. approval # "APPROVED" /\ left = {} /\ drafts = {}
    BY DEF OutreachInit
  <2> QED  BY <2>1, <2>2, <2>3 DEF UnapprovedInv, BeforeInv, SilentInv
<1>2. UnapprovedInv /\ SilentInv /\ [OutreachNext]_vars => UnapprovedInv' /\ SilentInv'
  <2> SUFFICES ASSUME UnapprovedInv, SilentInv, [OutreachNext]_vars
               PROVE  UnapprovedInv' /\ SilentInv'
    OBVIOUS
  <2>1. SilentInv' /\ MemOK'
    BY SilentStays DEF SilentInv
  <2>2. CASE ~Before'
    BY <2>1, <2>2 DEF UnapprovedInv, BeforeInv
  <2>3. CASE Before'
    <3>1. Before
      BY <2>3, ApprovalsStay DEF Before
    <3>2. CASE UNCHANGED vars
      <4>1. UNCHANGED <<policy, approved, mem, left, drafts, approval>>
        BY <3>2 DEF vars, recordVars, gmailVars
      <4> QED  BY <2>1, <4>1 DEF UnapprovedInv, BeforeInv, Before
    <3>3. CASE OutreachNext
      BY <2>1, <2>3, <3>1, <3>3, WorkerWithholds, ApiWithholds, OthersWithhold DEF OutreachNext
    <3> QED  BY <2>1, <3>2, <3>3
  <2> QED  BY <2>1, <2>2, <2>3
<1>3. UnapprovedInv => NothingLeavesUnapproved
  BY DEF UnapprovedInv, BeforeInv, Before, NothingLeavesUnapproved
<1> QED  BY <1>1, <1>2, <1>3, PTL DEF OutreachSpec

=============================================================================
