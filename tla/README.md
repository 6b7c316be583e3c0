# GridFlow: TLA+ models, checks and proofs

GridFlow is a multi-tenant workspace in which a chain of AI agents finds sponsors
for motorsport drivers: Atlas discovers companies for a brief, Sage researches
them, Relay looks for contacts, Echo drafts messages.  Around that chain lie a
commercial layer (activation grants, purchases, research credits), the outreach
that sends the drafts, the agents that follow a conversation (Sentinel, Nova,
Pulse) and a client (Forge, Orbit, Seal, delivery, renewals), and the consoles
that run the product.  An API process (`src/apps/api`), a worker process
(`src/apps/worker`) and the pages of `src/apps/web` share one Postgres database
through `src/packages/*`.

This directory holds TLA+ modules for the parts whose correctness depends on the
order in which those processes and people act, the TLC configurations that check
them on small instances, and proofs, checked by TLAPS, that most of what the
runs check holds for every value of the constants.  `PROJECT.json` maps every
definition to the lines it stands for.

## 1. Inventory

| component | state it keeps | what makes it hard |
|---|---|---|
| research-credit ledger (`engine.ts`, `platform.service.ts`, `commerce.service.ts`) | `ProductEntitlement` counters, buckets, reservations, allocations | four tables updated by separate statements from three services; retries that reserve from another bucket; `GREATEST(0, ...)` hides drift |
| agent engine (`engine.ts`) | `AgentRun`, `AutomationJob`, `JobOutbox`, `UsageLedger`, states of records | leases by heartbeat, sweeps, overlapping workers, manual and automatic retries, suspension in the middle of a generation, crashes |
| pipeline (`engine.ts`) | `PipelineRun` | the handoff is outside the transaction of the run it follows; counts are read in one statement and used in another |
| commerce and entitlements (`commerce.service.ts`, `commercial-lifecycle.ts`) | purchases, grants, Ultra periods, reminders | two administrators at one purchase; periods that are chained; a sweep that reads what it does not lock |
| authentication (`auth.service.ts`, `session.service.ts`) | password, second factor, challenges, devices, sessions | a sign-in is several transactions; resets and revocations come between |
| email outreach (`email-automation.ts`, `integrations.service.ts`, `outreach.service.ts`) | `OutreachRecord`, `ChannelAction`, `EmailMessage`, Gmail | a ten-minute lease around an external effect; approval and replies change under a send |
| LinkedIn outreach (`outreach.service.ts`, `pulse.ts`) | `linkedinStatus`, rows of the LinkedIn channel, checks | people record, pause and resume what edits, replies, meetings and Pulse change |
| mailbox (`gmail-sync.ts`) | history cursor, interactions | overlapping passes, caps, deleted messages, expired histories, reconnections |
| Sentinel and Nova (`sentinel.ts`, `nova.ts`, their services and pages) | classification, strategy, suppression | models that answer after their lease; reviews that overtake each other; pages older than the reply |
| Forge and Orbit (`forge.ts`, `orbit.ts`, their services) | proposals, preparations and debriefs of meetings | the same job protocol twice; runs that are replaced, stopped and recovered |
| meetings (`meetings.service.ts`, two pages) | status, notes, debrief | notes and decisions sent from pages of any age |
| Seal (`seal.service.ts`) | contract, signers, payment | versions, signatures taken back, rejection and revision after approval |
| delivery and renewals | obligations, evidence, reports, renewal cases | facts that move between approval and handoff; an outcome three services write |
| automation cockpit (`automation.ts`, `automation.service.ts`) | policy, decisions, staged actions | a pass acts after its transaction; decisions are three statements |
| release console (`acceptance-lab`, `release-acceptance`) | journeys, findings, freezes, release record | a freeze beside edits; instances of two commits on one record |
| migration (`airtable-importer.ts`, `migration.service.ts`) | review decisions, imported rows | rows without identifiers, imported again after edits |
| onboarding and team | drafts, profile, briefs, invitations, seats | autosave over slow requests; seats counted without a lock |
| web application | what a page offers | it shows the past and acts on the present |
| outbox of authentication mails, search, dashboard, companies, contacts, tasks, prompts, providers, domain calculations, row-level security | - | single-statement records, queries, pure functions, HTTP calls: see section 7 |

The components interact through the database and a few calls: the cockpit and the API
call the engine's `enqueue`, `retryRun` and `startPipeline`; the worker calls `enqueue`
for the next agent; the console's `stopOrganisation` cancels runs and jobs and refunds
credits; commerce inserts the buckets the engine spends; an activation makes the
programme that delivery works on; an approved reply makes the opportunity that Forge,
Orbit and Seal work on.

## 2. Modules

An action is a database transaction.  Postgres runs under READ COMMITTED, so where a
transaction reads without a lock what it acts on later it is two steps; a process may die
between two transactions, never inside one.  Prompts, outputs and texts are left out;
what a model answers is one of a few outcomes.  Every query of these components is
filtered by tenant, so one organisation stands for all.

| module | stands for | correspondence |
|---|---|---|
| `ResearchCredits` | the ledger of one organisation, as an abstract specification | `reserved`, `used`, `granted`, `creditsUsed` are the columns; `reservation` and `allocation` the status of the rows; `WindowMoves`, `DayPasses` the clock; `ReturnCredits` is what refunds and `stopOrganisation` share |
| `AgentEngine` | requests, workers, sweeps, crashes and access decisions that drive the ledger | `run`, `job`, `outbox`, `attempts` are columns; `doing`, `claim`, `seen` what a worker has in memory; `EnqueueBegin`/`EnqueueCommit`, `RetryBegin`/`RetryCommit`, `SweepRead`/`SweepWrite` where reads take no lock; `BeginReserve` is the statement that counts the day |
| `PipelineRuns` | the pipeline on top of the engine | `starting` is a request in the three transactions of `startPipeline`; `advancing`, `handing`, `refreshing`, `writing`, `failing`, `reporting`, `closing` the stages of a worker after a run |
| `Accounts` | a user's sign-ins, second factor, devices, sessions, reset | `signIn` is a request between two transactions, with what it rests on (`proof`); `challenge` and `limit` are the tokens the code keeps for later requests |
| `Commerce` | purchases, grants, registration, Ultra periods, the sweep | `fulfilling` is a request between payment and fulfilment, `sweep` what the sweep has locked or only read |
| `EmailOutreach` | the email sequence of one record | `action[s]` is the row of step `s`; `mem` what a worker or request has in memory: `Load`, `Judge` (`safety`), `WorkerCalls`, `WorkerSaves`, and the same for Gmail requests; `IngestOwn` is which recorded email a message of our own is taken for; `HandSend` is a person in Gmail |
| `LinkedIn` | the LinkedIn sequence of one record | `RecordLinkedIn` is the request of the workbench, `PulseReconciles` a turn of Pulse; `row` the four `ChannelAction` rows, `dated` their `completedAt` |
| `GmailInbox` | the synchronisation of one mailbox | messages are numbered; `pass` is a synchronisation between listing, reading and writing the cursor |
| `ReplyDesk`, `ReplyPolicy` | Sentinel, Nova and the people at one inbound reply; what GridFlow promises about it | `worker` and `api` are what a worker and a request hold between transactions; refinement in section 4 |
| `ReviewForms` | the tabs a reply is reviewed from | `tab` is what a page was loaded with and the edits it keeps |
| `DraftQueue`, `Forge`, `Orbit`, `DraftDesk`, `DraftPolicy` | the queue behind proposals and briefings, its two users, the two together, and the promise | `forge.ts` and `orbit.ts` are two copies of one protocol; `DraftDesk` has the workers of both and the refinement |
| `MeetingDesk` | one meeting and the two pages it is managed from | `asking` is a debrief request between its snapshot and its lock |
| `Contracts`, `Delivery`, `ClientPages` | Seal; obligations, evidence and renewals; what their pages offer | one action per request, as each locks its contract, programme or case, with what it asks of the records (`Can...`) as an operator that the pages are compared with |
| `Automation` | the cockpit | `Pass` is the transaction under the policy's lock, `staged` what it starts afterwards; `deciding` a person's request between reading, writing, executing and finishing |
| `AcceptanceLab`, `LaunchControl` | the feature freeze of a commit; the release record | `Edit`/`CommitEdit` are a change up to its last statement and its commit |
| `Migration` | audit, review and import of an Airtable export | `executeCoreImport` as a fold over the rows of an export, with the outcome of each |
| `FirstRun`, `Team` | the form that sets up a workspace; invitations and seats | `saves` and `post` are the form's requests under way, which may be lost or handled out of order; `joining` are the acceptances that hold their row's lock |
| `...Proofs` | theorems and proofs | the modules they extend |
| `MC...` | the instances that TLC checks | the modules they compose |

## 3. Runs

Several runs explore components that share no state beside each other, *at rest*: a
component moves only while the initial predicate of all the others holds.  The
states of the run are then the sum of their states, not the product, and every
behaviour of each component alone is explored.  What a component takes of the others
is an action of its own (a decision on access, a reply that arrives, a programme that was activated).

| run | components | what it shows |
|---|---|---|
| `customers` | `ResearchCredits`, `Accounts`, `Commerce` | counters equal the rows they count (`CountersMatchAllocations`); sessions run on trusted devices and the present password (`SessionsAreSound`); an add-on is given once and Ultra periods are chained (`PaidOnceAndInFull`); Ultra ends (`UltraLapses`) |
| `engine_faults` | `AgentEngine` with lost heartbeats, `Automation`, `MeetingDesk` | no credit stays held for a run that is over (`NoOrphanHold`), a charge bought a result (`ChargeImpliesResult`), the engine implements the ledger (`CreditSpec`); automation acts on the consent it has (`ActsOnConsent`); a meeting ends as its notes and decisions say (`MeetingsEndAsDecided`) |
| `engine_single` | `AgentEngine` with live heartbeats, `Automation` | credits follow runs (`CreditFollowsRun`), results are applied once (`AppliedOnce`), contacts follow research (`RelayAfterSage`), runs end and failures surface (`NothingStalls`) |
| `pipeline` | `PipelineRuns` with processes that die, `AcceptanceLab`, `LaunchControl`, `Migration` | a finished pipeline is finished (`VerdictMatches`); a frozen cycle meets its gate (`FrozenMeetsGate`); a release is accepted for the commit it names (`AcceptedForItsCommit`); an import adds what its receipt says, a repeated one nothing (`ReimportAddsNothing`) |
| `pipeline_live` | `PipelineRuns` with processes that live and manual retries | the last refresh has the last word (`VerdictAtRest`), pipelines end (`PipelineSettles`) |
| `outreach` | `EmailOutreach`, `ReviewForms` | who stopped is left alone (`StoppedStaysSilent`), each queueing pays for one call (`EveryCallMandated`), nothing leaves unapproved (`NothingLeavesUnapproved`); a strategy is approved as it was shown (`DecidedAsShown`) |
| `outreach_stops` | `EmailOutreach` with Pulse, `FirstRun`, `Team` | a sequence stops (`SequenceStops`); what a member entered is kept (`SetupIsKept`); seats and invitations (`TeamIsInvited`) |
| `replies` | `ReplyDesk`, `GmailInbox`, `LinkedIn` | opt-outs (`OptOutHonoured`), the cursor (`MissedOnlyWhen`), the policy (`PeopleDecide`), LinkedIn's claims and checks (`SaysWhatWasSent`, `PulseSurfacesWaiting`), and that people are served (`PeopleAreServed`) |
| `drafts` | `DraftDesk` (`Forge`, `Orbit`) | they implement the policy (`PeopleDecideDrafts`) and drafts settle (`DraftsSettle`) |
| `clients` | `Contracts`, `Delivery`, `ClientPages` | `ActiveIsExecuted`, `CompletedIsProven`, `HandedOverAsApproved`, `ProgrammeShowsOutcome`, `RecordedPaymentsStay`; every button is one the server takes (`OffersAreHonoured`) |
| `outreach_version` | `EmailOutreach` | violated: section 5 |
| `contracts_live` | `Contracts` with two contracts | violated: section 5 |

**Bounds**, and why they are enough for what the run is after.

* `customers`: three runs over a starter bucket of one credit and an Ultra bucket of two that
  is spent first and can expire with a reservation in it, so a bucket runs out, a retry
  moves to another one and a suspension refunds over both.  Two browsers, three
  devices, room for one trusted device: the device limit is met, two sign-ins race
  for it, and an offer made before a reset is taken for a device trusted after it; one reset, one change.  One customer, two administrators, two purchases,
  one grant; an Ultra period of 2 days in 4, two decisions: a second period is bought
  before, at and after the end of the first.
* `engine_faults`: two research runs of one company, two workers, two attempts.  Two
  workers are what it takes for a stale one to meet the one that replaced it.
  `Automation` has one issue, two people who decide twice between them (also the same question), one policy
  change, one death (a pass detects at most 40 quiet opportunities and the 10 failed runs that changed last, `automation.ts:203` and `:216`; that others wait for a later pass is left out);
  `MeetingDesk` two pages, two notes, one run of the preparation, two of the debrief, one stage at a time.
* `engine_single`: a chain of Sage, Relay and Echo, three attempts and one manual retry beyond; `Automation` with one
  decision.
* `pipeline`: Atlas, two Sages and a Relay beside a stand-alone Atlas run, two attempts, and a ceiling of three credits so
  that the handoff of a later company or of the contacts can be refused; the stand-alone run and the second company are taken in different
  behaviours (`Apart`).  No manual retries (see section 6).  Two journeys with two
  steps, two editors, one regression; two commits, one owner, one deployment, two changes of fitness; two
  exports of six rows with their flaws, three imports, and one edit, review and re-export between them, so that an edited workbook
  is imported over the first one.
* `pipeline_live`: all four agents beside a stand-alone Echo run that a handoff can find and
  take for its own; two attempts and a manual retry.  An organisation that is active stays so (`Undisturbed`).
* `outreach`: the initial email and one follow-up, two versions, two workers, one Gmail request
  and one recovery, each of which can overlap with them.  `outreach_stops`: one worker, one
  version, with meetings.  Two tabs, three intents, two reviews of the classification.  Two members, two facts, two
  completions, visits and saves, one failed load; the briefs are worked with only in set-ups
  without saves (`BriefsIdle`, `Plain`, `Few`).  Two invitees for two seats, three invitations.
* `replies`: one reply, two workers, two requests, two attempts, two decisions, one failure, one stop;
  two messages, a pass that reads one, one fault, two connections; two LinkedIn policies (the
  sixteen possible ones were checked as well).
* `drafts`: one proposal and one meeting, two workers, two attempts, two requests, one failure, one stop.
* `clients`: one contract with two signers, two opportunities, one obligation, two versions.  Negotiation and
  delivery are taken one after the other (`Negotiating`, `Calm`), the delivery from one
  activated contract, since it reads nothing else of its history; the renewal's opportunity is moved by updates
  and by debriefs, of which the activation of a second contract on it is a special case (from VERBAL_AGREEMENT to WON).

Symmetry is used where the properties are invariants or do not distinguish the set: the
workers of `outreach`, the workers, pages and deciders of `engine_faults`, the signers and opportunities of
`clients`.  Deadlock checking is off in runs whose instance has an end: all bounds spent and nothing
left to do is how the real system idles.  The two contract runs check it.

**Fairness.**  `WorkerFairness`: a worker that lives keeps polling (`main.ts` loops), a model call
ends (requests have a timeout and a throw is a failure), a sweep runs every poll and an
unrenewed heartbeat grows old; the write of a sweep is strongly fair, since a worker may
be killed in the middle of a sweep but not of every one.  `PipeFairness` adds that a
process that lives finishes the transactions it has begun.  `AutomationFairness`: the worker passes
and starts what it staged.  `DeskFairness`, `InboxFairness` and `DraftFairness` ask the
same of Sentinel, Nova, the synchronisation, Forge and Orbit; `InboxFairness` also that Gmail drops a history
in the end.  `CommerceFairness`: the sweep runs and commits.  `SequenceStops` needs one thing only, that `Pulse`
runs again and again (`main.ts` calls it every minute).  Requests, decisions, edits and crashes are never required.

**Constants that are assumptions.**  `ReliableHeartbeat` (a live worker's heartbeat does not expire) is
what `CreditFollowsRun` and `AppliedOnce` need; the code swallows failed heartbeats, so
`engine_faults` runs without it.  `PromptStart` (the three transactions of
`startPipeline` end before the model call of its first run returns) and `ProcessesDie` are discussed in section 6.

## 4. Specifications and what implements them

* `AgentEngine` implements `ResearchCredits` (`CreditSpec`): the engine calls the ledger's
  operations in whatever order its faults produce, and every invariant of the ledger holds of the engine.
* `ReplyDesk` implements `ReplyPolicy` (`PeopleDecide`): a model proposes, a person decides; an answer is
  prepared only for a reply a person has looked at; it takes effect only when approved, never for an opt-out,
  and makes at most one opportunity.
* `Forge` and `Orbit` together (`DraftDesk`) implement `DraftPolicy` (`PeopleDecideDrafts`): work begins when a person asks, what a person has
  decided stays until a person asks again.

## 5. Violations, and other places where code and documents part

Two runs end in a counterexample that a document or message of the repository excludes.

1. *Unapproved version* (`outreach_version`, `SentVersionWasApproved`): a row keeps the version it was inserted
   with when it is queued again (`integrations.service.ts:461`), while approval belongs to the record.  Echo writes
   version 1, a user edits it, version 2 is approved and queued, and the worker sends version 1.
2. *Two live contracts* (`contracts_live`, `OneLiveContract`): a rejected contract is taken back into review
   (`seal.service.ts:244`) without the check that `create` makes, after a second one was created.

Others were met while modelling.  The models have these behaviours; the properties either except them by a named
history variable or do not deny them.

*Engine and pipeline.*  The daily ceiling (`docs/PHASE_8B`, line 31) is passed by two reservations that count before either
commits.  A worker that is generating when its organisation is suspended puts the cancelled run back in the queue
(`docs/PHASE_4A`, line 20).  `stopOrganisation` updates runs, jobs and outbox by three statements
(`platform.service.ts:473-475`).  An enqueue, a retry or a success cannot commit between them: it shares the organisation's row, by the foreign key
of what it inserts or by `FOR SHARE`, and the stop has held that row since `updateAccess` (`:375`); claims, sweeps and heartbeats need the rows of
runs that the first statement has locked.  The failure of a worker whose run was already over needs neither: the run it gives
back then stays QUEUED with a CANCELLED job (`Stranded`), and nobody claims it, until it is stopped, fails with its pipeline, or a worker ends it.  (That a job given
back is claimed again before the second statement, 5 seconds later at least, is left out.)  `failPipeline` cancels queued runs without refunding them (`docs/PHASE_4A`, line 41).
A crash between the success transaction and the handoff leaves a pipeline RUNNING.  `startPipeline` may be handed a stand-alone Atlas
run that waits for its retry (`engine.ts:95`), which leaves a pipeline without runs.  The dependency of Relay on a researched
company is checked when it is queued only: a failed Sage run of the same company may be retried (`engine.ts:298`), and research anew,
while Relay works from what the earlier one stored.  A run orphaned by a dead worker outlives the handoff that fails beside it, in a FAILED pipeline, until it is swept.

*Outreach.*  Gmail lists a draft that GridFlow made as an added message of our own, and `IngestOwn` marks it SENT
(`docs/MILESTONE6`, line 54).  `recoverStale` takes every READY row for an interrupted one.  On LinkedIn: Pulse's meeting stop dates rows that were never
sent, so that RESUMED claims a message (`ended`); a check row that was paused is never due again,
against `outreach-editor.tsx:99` (`interrupted`); RESUMED leaves the email paused; an edit after ACCEPTED leaves its follow-up paused;
a decision carries no version; suppressing one contact suppresses its company.

*Replies and drafts.*  A stale inbox tab reviews a reply again whose strategy was approved: a later rejection shows "No external or commercial
action was taken" (`nova-review-desk.tsx:314`) although the opportunity exists (`reopened`).  The desk keeps edits by reply, so that a
redrafted strategy is hidden by an old edit; Sentinel's ACCEPT posts no intent.  A stop cancels the runs of Forge and Orbit and leaves their drafts
(`docs/PHASE_5_FORGE.md:42`; `Stranded`).  A full listing of the mailbox is read before its cursor is asked for; a deleted message fails
passes until the history expires.

*Meetings.*  After a rejection the cockpit offers nothing, though the server would take a request; the loser of a race of
decisions is told that its decision was saved, and a rejection that "0 tasks" were created; approving a debrief turns CANCELLED into COMPLETED; an old Meetings page turns COMPLETED into NO_SHOW
(`overruled`); two crossing requests replace the notes of a queued debrief (`crossed`).

*Clients.*  Terminating a contract leaves its programme active; after a revision in a mounted page the money panel refers to milestones that
are gone (`seal-workbench.tsx:774`); an obligation made to need proof after DELIVERED has no way on.  The outcome of a renewal is
synchronised by an update of its opportunity only: a contract activated on it (`seal.service.ts:361`) or a debrief (`orbit.service.ts:284`)
wins, loses or reopens it while case and programme stay as they were, against `docs/PHASE_7C_RENEWALS.md:32` (`unsynced`); an update that
closes or reopens it mends that.  The revision form sends the schedule it
was shown with the value that was typed, and the server refuses a value that the schedule does not add up to (`seal-workbench.tsx:213`).

*Cockpit.*  A change of mode gives an issue two tasks (`docs/PHASE_6_3`, line 29); a second approval of a retry overwrites EXECUTED by
FAILED, a rejection that comes second overwrites it by REJECTED, and a second approval that comes after the run has failed again retries it again; a crash after APPROVED leaves a decision there; staged retries run after a pause.

*Release and migration.*  A journey may change under the freeze (`docs/PHASE_8C`, line 30; `overlapped`); a newer agent run revokes accepted
evidence, RELEASED survives its loss.  A second import duplicates Discovery Briefs (and reports the second as UPDATED) and the sources
of evidence links (`airtable-importer.ts:325`), decisions are kept by row number across exports, and an import
overwrites the status of drafts.

*Accounts and set-up.*  A reset leaves the row of a device replacement (`auth.service.ts:571`), which `replaceDevice` takes for any
device trusted by then: one session may still stand on the former password (`overtaken`).  SUSPEND and APPROVE let a revoked organisation in again (`platform.service.ts:382`).  A page that fails to load one of its three requests
saves a blank draft over the stored one; saves may be reordered, or resurrect a draft after completion;
a completion by a stale form overwrites the profile of another member.  A pipeline started between the two transactions of
`startPipeline` and a completion loses its brief.  Expired invitations keep their seat; seats are counted without a lock.

## 6. What the properties leave out on purpose

* *Restarts of a pipeline.*  `PipelineSettles` is checked with processes that live; `PromptStart` excludes a third transaction of
  `startPipeline` that writes RUNNING over what a fast worker has made of the pipeline.  `VerdictMatches` is checked without manual retries, since one
  between the count and the write of a refresh closes a pipeline over a queued run; `VerdictAtRest` says what is left with them.
  It speaks of processes that live (a run that is swept after its worker died is not followed by a refresh) and of pipelines
  that have runs (one that was started on a stand-alone Atlas run has none).  Both speak of one worker: with two, one may count what
  the other is about to hand over.
* *Two runs for one target*: the check of an active run is not protected by an index; the model allows it.
* *A suspended run that succeeds* after a new approval is SUCCEEDED although its credit was refunded:
  `CreditFollowsRun` is stated for an organisation that is not stopped.
* *Failing statements*: a statement succeeds or its process dies.

## 7. Not modelled

The outbox of authentication mails, role changes and support access of the platform console, failure counts and verification of addresses, second evidence and reports of
a programme, privacy requests and AI settings, and the pages of search, dashboard, companies, contacts, tasks and the
platform console: their operations write one row by one statement, or only read.
Prompts, the quality gate and the providers are outcomes of a generation.  Scores and priorities are pure functions.
Row-level security is Postgres's.  Each component's entry in `PROJECT.json` names what it leaves out.


## 8. Proofs

TLC checks an instance; a theorem holds for every value of the constants that meets the
named assumptions of the modules (`CreditAssumption`, `EngineAssumption`, `OutreachAssumption`, `ContractConstants`,
`DeskConstants`, ...), which TLC evaluates in the runs.  Every leaf is checked by the SMT solver, Zenon or, where it is temporal,
LS4.  Each inductive invariant was first checked by TLC on the instance of its run.

| theorem (module) | states | rests on |
|---|---|---|
| `CreditTypeCorrect`, `CountersAlwaysMatch`, `NeverOvercommits`, `UsageCounterAlwaysExact`, `OneBucketAlways`, `ChargesAreFinal` (`ResearchCreditsProofs`) | counters are the number of the rows they count; a bucket never gives more than it was granted; a consumed credit stays consumed | `LedgerInv`: the counters of a bucket are the cardinalities of its held and spent allocations, and a run holds one bucket at most |
| `EngineTypeCorrect`, `EngineImplementsLedger`, `EngineKeepsCounters` (`AgentEngineProofs`) | every step of the engine is a step of the ledger or leaves it alone | one step per action; what is proved of the ledger is then proved of the engine |
| `RunsAndJobsAgree`, `OnlyAStopStrands`, `NoHoldOutlivesItsRun`, `ChargesBuyResults` | a finished run has no live job, no held credit; a run waits without a job only if a stop was overtaken by a late failure; a charge has its result | `RunJobAgree` is inductive: who changes one status has the other in the state that goes with it, or overwrites both, and a sweep that has read older ones checks again when it writes; `HoldInv` |
| `CreditsFollowRuns`, `ResultsAreAppliedOnce` | the credit of a run follows its status; a result is applied once | `AloneInv`, below |
| `WhoStoppedIsLeftAlone`, `OnlyWhatWasAskedFor`, `NothingEverLeavesUnapproved` (`EmailOutreachProofs`) | the three invariants of `outreach` | `SilentInv`: what a process has in memory of a record that was stopped will not be sent; `MandateInv`: calls counted against queueings; `UnapprovedInv`: before a first approval nothing has left and whatever a process has in memory will not pass its safety check |
| `ActiveIsAlwaysExecuted`, `PaymentsAreKept`, `CompletedIsAlwaysProven`, `AlwaysHandedOverAsApproved`, `ProgrammeAlwaysShowsOutcome`, `OffersAreAlwaysHonoured` (`ClientProofs`) | the invariants and the action property of `clients` | `ClientInv`: for each contract `Agreed` (once sent for signature it is not revised with signatures on it, and it counts as signed while all have signed), and `Proven` and `Renewed` for the programme (an open obligation has an open programme, a case a programme that was under way, and only a final case an opportunity), and `OutcomeInv`: a case that became an opportunity, and is not excepted, shows its stage |
| `OptOutAlwaysHonoured`, `DeskImplementsPolicy` (`ReplyProofs`) | no strategy or reply for who opted out; `ReplyDesk` implements `ReplyPolicy` | `DeskInv`: a model may answer long after its lease, but an answer meets a reply that was reviewed, and an opt-out once recorded stays |
| `MissedOnlyAsStated` | a message is missed only for the reasons `MissedOnlyWhen` names | `InboxInv`: what lies under the cursor was read, was unlisted for a stated reason, or a pass in progress answers for it |
| `AlwaysSaysWhatWasSent`, `PulseAlwaysSurfaces` | what the workbench claims was sent; a turn of Pulse leaves no due check unshown | `LinkedInInv`: status, dates and rows of the sequence agree |
| `RelayFollowsResearch` (`AgentEngineProofs`) | a Relay run is active only for a company whose research was stored | `ResearchInv`: a Relay run, or a request for one, exists only once the research was stored, and what is stored stays |
| `PipelinesEndAsReported` (`ReleaseProofs`) | `VerdictMatches` under `Orderly`, below | `PipeInv`: until its first run is queued a pipeline belongs to the request that starts it, then to the worker; `VerdictInv`: what the worker has counted is still so when it writes it |
| `PipelinesRestAsReported` | `VerdictAtRest` under `Steady`, below | `RestInv`: a pipeline that nobody starts or is about to refresh is busy or was reported |
| `FrozenAlwaysMeetsGate`, `AlwaysAcceptedForItsCommit` | the gate of a frozen cycle; the commit of an accepted release | `LabInv`: unless a freeze overlapped an edit, a PASSED journey has passed all its steps; `LaunchInv`: an automated PASS names a commit that was fit |
| `SessionsAreAlwaysSound`, `AlwaysPaidOnceAndInFull` (`CustomerProofs`) | sessions; purchases and periods | `AccountInv`, with `OfferIsGood`: what an offer to replace a device rests on was the present password when it was checked, and an offer that outlives a reset has opened no session yet; `CommerceInv`: buckets were given to fulfilled purchases, periods follow one another, and what the sweep holds is still so |
| `MeetingsAlwaysEndAsDecided`, `AlwaysDecidedAsShown`, `AlwaysActsOnConsent` (`DeskProofs`) | meetings; forms; consent of the cockpit | `MeetingInv`: a debrief in hand has read the meeting's notes, unless requests crossed; `FormInv`: nothing is asked of Nova before a review; `ConsentInv`: a request that recorded its answer leaves the question answered |
| `DraftsImplementPolicy` | `DraftDesk` implements `DraftPolicy` | `DraftInv`: the rows' statuses, and no preparation for a meeting that is not there; the step of a late worker is a stutter because its write asks for the run it was drafted for (`Current`) |
| `SetupIsAlwaysKept` (`CustomerProofs`) | what was entered is kept; queued research has its brief | `SetupInv` and `BriefsInv`, below |
| `TeamIsAlwaysInvited` | seats are kept; invitations end once | `TeamInv`: what a request has counted holds as long as nobody wrote since (`CountsHold`), and what is being accepted is pending |

**The argument.**  For each component there is an inductive invariant, a conjunction of named parts: the shape of
the rows, how they relate, and what a process between two transactions has in memory and
may still assume of what it read.  This last part is what the properties lack as they
stand: the property speaks of rows, the code acts on what it read.  Then `Init` implies the invariant, one step per
action shows that the action keeps each part it can disturb, and the invariant implies the property.  An action
property follows from the invariant and the step.

**`Alone`.**  `CreditFollowsRun` and `AppliedOnce` are false of the engine with lost heartbeats or
several workers on one job, as section 5 tells; the theorems have the premise `Alone`: one worker, one
client at a time, an organisation that is not suspended, and heartbeats that do not expire
under a live worker.  These are the constants of `engine_single`; runs, agents, buckets, attempts and retries are
arbitrary.  The proof is an account of what the worker, a sweep and a request have read
(`SoleOwner`, `SweepsAgree`, `RequestsAgree`).

**`Orderly` and `Steady`.**  Both ask for one worker and for the transactions of `startPipeline` to end before the model call of
its first run returns (`PromptStart`).  `Orderly` adds that nobody retries by hand, the premise of `pipeline`; workers and requests may die
anywhere, organisations be stopped and runs dismissed.  `Steady` has retries instead, of any number of requests at once, with processes that
live and an organisation that is not stopped, as `pipeline_live`.  There a second retry that read FAILED may put a run that a worker is generating
back to QUEUED: the invariant only says that such a run is active, except in a pipeline that is still being started, where nothing
has failed and so nothing is retried (`Fresh`).

**`SetupInv`.**  `SetupIsKept` compares two things only, the form the next visit begins with and the facts the
server has taken.  What keeps them together is an order among the forms that are under way: the draft, the saves in the order they were sent, the
completion, the open page.  Each of them, unless something was lost on its way (`sound`), holds what the server has taken and what
those before it hold (`SavesHold`, `PostHolds`, `PageHolds`); and a form that began with the profile as it is now holds that
profile (`Based`), which is what makes a completion safe for the *other* members.  `PageKnows` says which requests can be under way
at each stage of the page.  `BriefsInv` adds that queued research runs or ran.

**What the proofs found.**  Two properties were true of their instances only.  `RelayAfterSage` once said that the research of the company is
there while Relay is active: a retried Sage run takes it back (section 5), so it now says that it was stored.  `VerdictMatches` denied active runs to a
FAILED pipeline, which a dead worker's run refutes; it now denies that anything begins there.
`ReplyDesk` did not implement `ReplyPolicy` as it was first stated: a retry of Nova which was read
while a strategy was being written takes effect after it is READY, while a retry of Sentinel has made the intent UNCLASSIFIED.
The bound of two decisions hid it from TLC.  It is a person's request to prepare the answer again, and the policy has it
as `AskAgain`.

**Pages and guards.**  `OffersAreHonoured` compares two conditions that the code writes apart, the one under which a page shows a
button and the one under which the service takes its request.  An action is its guard `Can...` and an assignment to every variable, so
that the guard is when the request is taken, and the property is a statement about states rather than about ENABLED.  Where the two conditions differ in form it is the
invariant that closes the gap: the page of a contract that reads SIGNED does not count the signatures, the card of an obligation does not look at its
programme, the refresh of a case does not either, and the cards show a status that the date may have overtaken.

**Only model-checked.**  Liveness (`UltraLapses`, `NothingStalls`, `SequenceStops`, `PipelineSettles`, `DraftsSettle`,
`PeopleAreServed`), and with it `OffersAreRecorded`, the part of `PeopleAreServed` that is stated with ENABLED, are outside what the
prover does.  `ReimportAddsNothing` is an action property about a fold over the rows of an
export and needs induction over data.  Every invariant of a passing run has its theorem, and so has every other action property.

## 9. Plan

The modules of the plan are written and every safety property the prover can state is proved.  Next would be the outbox of authentication emails, one more
queue with claims and recovery (`auth-email.ts`), and second evidence and reports of a programme.
