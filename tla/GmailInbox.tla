----------------------------- MODULE GmailInbox ----------------------------
(***************************************************************************)
(* The synchronisation of one organisation's mailbox by the worker         *)
(* (apps/worker/src/gmail-sync.ts) and by a person's request               *)
(* (integrations.service.ts syncGmail), and the connection it runs on.     *)
(*                                                                         *)
(* Messages are numbered in the order of their arrival, and a history id   *)
(* is the number of the last message it covers.  A pass reads the cursor,  *)
(* lists what came after it, reads and stores message by message, each in  *)
(* a transaction of its own, and then writes the cursor; nothing keeps two *)
(* passes, or a pass and a new connection, apart.  When Gmail no longer    *)
(* keeps the history of the cursor the whole mailbox is listed, and the    *)
(* new cursor is asked for afterwards.                                     *)
(*                                                                         *)
(* Left out: the two minutes between passes, the refresh of access tokens, *)
(* mail older than the 14 days a full listing covers, and our own messages *)
(* (EmailOutreach).                                                        *)
(***************************************************************************)
EXTENDS Naturals, FiniteSets, FiniteSetsExt

CONSTANTS
    MailBound,     \* bound: messages that arrive
    Answers,       \* the messages that answer an outreach: replies and bounces
    SyncWorkers, SyncApis,   \* who synchronises
    PassCap,       \* messages read in one pass (500 in the code)
    FaultBound,    \* bound: passes that fail or die though every message is there
    ConnectBound   \* bound: connections made by people

ASSUME InboxConstants ==
    /\ MailBound \in Nat /\ PassCap \in Nat \ {0} /\ FaultBound \in Nat /\ ConnectBound \in Nat
    /\ Answers \subseteq 1..MailBound

VARIABLES
    arrived,      \* the messages 1..arrived have come
    gone,         \* those the user has deleted since
    oldest,       \* cursors below it are no longer known to Gmail
    account,      \* the IntegrationAccount row: status, refresh token, cursor
    pass,         \* what each synchronising process is at
    stored,       \* messages with an EmailMessage row
    passedOver,   \* history: messages a new connection set the cursor past, messages that came
                  \* between a full listing and its cursor, messages beyond the cap of a pass
    faults, connections   \* counters of the bounds

inboxVars == <<arrived, gone, oldest, account, pass, stored, passedOver, faults, connections>>

Synchronisers == SyncWorkers \cup SyncApis
NoPass == [stage |-> "idle", todo |-> {}, latest |-> 0]

InboxInit ==
    /\ arrived = 0 /\ gone = {} /\ oldest = 0
    /\ account = [status |-> "DISCONNECTED", token |-> FALSE, cursor |-> 0]
    /\ pass = [p \in Synchronisers |-> NoPass]
    /\ stored = {}
    /\ passedOver = {}
    /\ faults = 0 /\ connections = 0

-----------------------------------------------------------------------------
(* The mailbox and Gmail.                                                  *)

MailArrives ==
    /\ arrived < MailBound
    /\ arrived' = arrived + 1
    /\ passedOver' = IF \E p \in Synchronisers : pass[p].stage = "listed"
                     THEN passedOver \cup {arrived + 1} ELSE passedOver
    /\ UNCHANGED <<gone, oldest, account, pass, stored, faults, connections>>

MailDeleted(m) ==
    /\ m \in 1..arrived \ gone
    /\ gone' = gone \cup {m}
    /\ UNCHANGED <<arrived, oldest, account, pass, stored, passedOver, faults, connections>>

HistoryExpires ==
    /\ account.cursor < arrived /\ oldest <= account.cursor
    /\ oldest' = account.cursor + 1
    /\ UNCHANGED <<arrived, gone, account, pass, stored, passedOver, faults, connections>>

-----------------------------------------------------------------------------
(* The connection.                                                         *)

\* The callback of the consent page stores a token and the head of the mailbox, whether or not
\* an account was connected before.
Connect ==
    /\ connections < ConnectBound
    /\ connections' = connections + 1
    /\ account' = [status |-> "CONNECTED", token |-> TRUE, cursor |-> arrived]
    /\ passedOver' = passedOver \cup ((account.cursor + 1)..arrived)
    /\ UNCHANGED <<arrived, gone, oldest, pass, stored, faults>>

\* The cursor stays in the metadata.
Disconnect ==
    /\ account.token
    /\ account' = [account EXCEPT !.status = "DISCONNECTED", !.token = FALSE]
    /\ UNCHANGED <<arrived, gone, oldest, pass, stored, passedOver, faults, connections>>

-----------------------------------------------------------------------------
(* A pass.                                                                 *)

Added == (account.cursor + 1)..arrived

\* The first PassCap of a history, which lists the oldest first, and of a listing, which lists
\* the newest first.
OldestOf(ids) == {m \in ids : Cardinality({k \in ids : k < m}) < PassCap}
NewestOf(ids) == {m \in ids : Cardinality({k \in ids : k > m}) < PassCap}

\* Mutant of Eligible: an account whose last pass failed is passed over.
EligibleWhenConnected(p) == account.token /\ account.status = "CONNECTED"

Eligible(p) ==
    /\ account.token
    /\ account.status \in (IF p \in SyncWorkers THEN {"CONNECTED", "ERROR"} ELSE {"CONNECTED"})

\* A history names every message that was added, those deleted since too.
ReadHistory(p) ==
    /\ pass[p] = NoPass /\ Eligible(p) /\ account.cursor >= oldest
    /\ pass' = [pass EXCEPT ![p] = [stage |-> "reading", todo |-> OldestOf(Added), latest |-> arrived]]
    /\ passedOver' = passedOver \cup (Added \ OldestOf(Added))
    /\ UNCHANGED <<arrived, gone, oldest, account, stored, faults, connections>>

ListMailbox(p) ==
    /\ pass[p] = NoPass /\ Eligible(p) /\ account.cursor < oldest
    /\ LET there == 1..arrived \ gone IN
       /\ pass' = [pass EXCEPT ![p] = [stage |-> "listed", todo |-> NewestOf(there), latest |-> 0]]
       /\ passedOver' = passedOver \cup (there \ NewestOf(there))
    /\ UNCHANGED <<arrived, gone, oldest, account, stored, faults, connections>>

ReadProfile(p) ==
    /\ pass[p].stage = "listed"
    /\ pass' = [pass EXCEPT ![p].stage = "reading", ![p].latest = arrived]
    /\ UNCHANGED <<arrived, gone, oldest, account, stored, passedOver, faults, connections>>

\* A message that answers an outreach gets a row, at most one; EmailOutreach has what it does
\* to the outreach, and ReplyDesk what becomes of a reply.
Ingest(p, m) ==
    /\ pass[p].stage = "reading" /\ m \in pass[p].todo \ gone
    /\ pass' = [pass EXCEPT ![p].todo = @ \ {m}]
    /\ stored' = stored \cup ({m} \cap Answers)
    /\ UNCHANGED <<arrived, gone, oldest, account, passedOver, faults, connections>>

\* Mutant of CursorAfter: the cursor is moved to where the mailbox is now.
CursorNow(p) == arrived

CursorAfter(p) == pass[p].latest

\* The last write of a pass does not look at what the account has become.
FinishPass(p) ==
    /\ pass[p].stage = "reading" /\ pass[p].todo = {}
    /\ pass' = [pass EXCEPT ![p] = NoPass]
    /\ account' = [account EXCEPT !.status = "CONNECTED", !.cursor = CursorAfter(p)]
    /\ UNCHANGED <<arrived, gone, oldest, stored, passedOver, faults, connections>>

\* A pass that throws is abandoned where it is; the worker notes the error on the account.
Abandon(p) ==
    /\ pass' = [pass EXCEPT ![p] = NoPass]
    /\ account' = IF p \in SyncWorkers THEN [account EXCEPT !.status = "ERROR"] ELSE account
    /\ UNCHANGED <<arrived, gone, oldest, stored, passedOver, connections>>

\* A message that was deleted before it was read fails the whole pass.
MessageMissing(p) ==
    /\ pass[p].stage = "reading" /\ pass[p].todo \cap gone # {}
    /\ Abandon(p) /\ UNCHANGED faults

CallFails(p) ==
    /\ pass[p] # NoPass /\ faults < FaultBound
    /\ Abandon(p) /\ faults' = faults + 1

ProcessDies(p) ==
    /\ pass[p] # NoPass /\ faults < FaultBound
    /\ pass' = [pass EXCEPT ![p] = NoPass] /\ faults' = faults + 1
    /\ UNCHANGED <<arrived, gone, oldest, account, stored, passedOver, connections>>

PassStep(p) ==
    \/ ReadHistory(p) \/ ListMailbox(p) \/ ReadProfile(p) \/ FinishPass(p) \/ MessageMissing(p)
    \/ \E m \in 1..MailBound : Ingest(p, m)

InboxNext ==
    \/ MailArrives \/ HistoryExpires \/ Connect \/ Disconnect
    \/ \E m \in 1..MailBound : MailDeleted(m)
    \/ \E p \in Synchronisers : PassStep(p) \/ CallFails(p) \/ ProcessDies(p)

InboxSpec == InboxInit /\ [][InboxNext]_inboxVars

\* The worker keeps polling, and Gmail keeps a history for a while only.
InboxFairness ==
    /\ \A p \in SyncWorkers : WF_inboxVars(PassStep(p))
    /\ WF_inboxVars(HistoryExpires)

-----------------------------------------------------------------------------
(* Properties.                                                             *)

\* An answer behind the cursor was stored; the only ones missed are those deleted before they
\* were read, those a connection started after, those that came between a full listing and the
\* question for its cursor, and those beyond the cap of a pass (gmail-sync.ts syncNext).
MissedOnlyWhen ==
    \A m \in Answers \cap (1..account.cursor) :
        m \in stored \cup gone \cup passedOver

\* As long as the mailbox stays connected, an answer that is there is stored in the end, whatever
\* else was deleted from the mailbox: a pass that a deleted message fails is repeated until Gmail
\* drops the history and the listing leaves the message out (gmail-sync.ts syncNext).
AnswersAreSeen ==
    \A m \in Answers :
        (m <= arrived /\ account.token ~>
            m \in stored \cup gone \cup passedOver \/ ~account.token)

=============================================================================
