------------------------------ MODULE Commerce ------------------------------
(***************************************************************************)
(* What a customer has paid for and what GridFlow gives for it: purchases  *)
(* recorded against a bank transfer and fulfilled in a second transaction  *)
(* (commerce.service.ts), activation grants and the registration that      *)
(* redeems one (auth.service.ts register), decisions on access             *)
(* (platform.service.ts), and the sweep that ends Ultra periods and        *)
(* reminds of them (commercial-lifecycle.ts).                              *)
(*                                                                         *)
(* A customer is an email address and the one organisation it can          *)
(* register.  A transaction is one step, but for the sweep, which reads    *)
(* rows it does not lock before it writes what follows from them.          *)
(*                                                                         *)
(* Left out: amounts, references, receipts and mails, the credits in a     *)
(* bucket (ResearchCredits), and two grants issued to one address by two   *)
(* transactions at the same moment.                                        *)
(***************************************************************************)
EXTENDS Naturals, FiniteSets

CONSTANTS
    Customers, Admins, Purchases, Grants, None,
    Period,          \* length of an Ultra period (30 days)
    Lead, Final,     \* the reminders before its end (7 and 3 days)
    GrantLife,       \* how long a grant may be redeemed (7 days)
    Horizon,         \* bound on the time
    DecisionBound    \* bound on the decisions on one customer

ASSUME CommerceConstants ==
    /\ Period \in Nat \ {0} /\ Final \in Nat /\ Lead \in Nat /\ Final <= Lead /\ Lead < Period
    /\ GrantLife \in Nat \ {0} /\ Horizon \in Nat /\ DecisionBound \in Nat
    /\ None \notin Customers \cup Purchases \cup Grants

VARIABLES
    now,
    org,        \* access of the organisation, entitlement status, plan, Ultra status and expiry
    grant,      \* the ActivationGrant rows
    purchase,   \* the CommercialPurchase rows
    buckets,    \* the credit buckets that purchases brought, with the period they are for
    reminders,  \* the UltraRenewalReminder rows
    sweep,      \* the sweep's transaction: rows it has updated and reminders it will queue
    fulfilling, \* the purchase an administrator's request has recorded and not yet fulfilled
    decisions   \* decisions made on a customer (bound)

commerceVars == <<now, org, grant, purchase, buckets, reminders, sweep, fulfilling, decisions>>

Unregistered == [access |-> "NONE", entitlement |-> "NONE", plan |-> "CORE", ultra |-> "NONE", expires |-> 0]
NoGrant == [status |-> "NONE", customer |-> None, expires |-> 0]
NoPurchase == [status |-> "NONE", product |-> "NONE", customer |-> None]
NoSweep == [open |-> FALSE, rows |-> <<>>, due |-> {}]

CommerceInit ==
    /\ now = 1
    /\ org = [c \in Customers |-> Unregistered]
    /\ grant = [g \in Grants |-> NoGrant]
    /\ purchase = [p \in Purchases |-> NoPurchase]
    /\ buckets = {} /\ reminders = {}
    /\ sweep = NoSweep
    /\ fulfilling = [a \in Admins |-> None]
    /\ decisions = [c \in Customers |-> 0]

Tick ==
    /\ now < Horizon /\ now' = now + 1
    /\ UNCHANGED <<org, grant, purchase, buckets, reminders, sweep, fulfilling, decisions>>

Served(c) == org[c].access = "ACTIVE" /\ org[c].entitlement = "ACTIVE"

\* The sweep keeps the rows it has updated locked until it ends.
Unlocked(c) == c \notin DOMAIN sweep.rows

-----------------------------------------------------------------------------
(* Purchases.                                                              *)

Products == {"CORE_ONBOARDING", "ULTRA_PERIOD", "RESEARCH_PACK"}

\* confirmManualPurchase: the payment is recorded, to be fulfilled by the same request.
RecordPurchase(a, p, product, c) ==
    /\ fulfilling[a] = None /\ purchase[p] = NoPurchase
    /\ product # "CORE_ONBOARDING" => Served(c)
    /\ purchase' = [purchase EXCEPT ![p] = [status |-> "PAYMENT_CONFIRMED", product |-> product, customer |-> c]]
    /\ fulfilling' = [fulfilling EXCEPT ![a] = p]
    /\ UNCHANGED <<now, org, grant, buckets, reminders, sweep, decisions>>

\* resolvePurchase: an exception is confirmed again or marked as failed.
ResolvePurchase(a, p, confirm) ==
    /\ fulfilling[a] = None /\ purchase[p].status \in {"PAYMENT_CONFIRMED", "FAILED"}
    /\ purchase' = [purchase EXCEPT ![p].status = IF confirm THEN "PAYMENT_CONFIRMED" ELSE "FAILED"]
    /\ fulfilling' = IF confirm THEN [fulfilling EXCEPT ![a] = p] ELSE fulfilling
    /\ UNCHANGED <<now, org, grant, buckets, reminders, sweep, decisions>>

\* One ISSUED grant for an address: the earlier one is revoked.
Issue(g, c) ==
    /\ grant[g] = NoGrant
    /\ grant' = [h \in Grants |->
           IF h = g THEN [status |-> "ISSUED", customer |-> c, expires |-> now + GrantLife]
           ELSE IF grant[h].status = "ISSUED" /\ grant[h].customer = c
                THEN [grant[h] EXCEPT !.status = "REVOKED"] ELSE grant[h]]

\* Mutant of PeriodStart: the new period starts at once.
StartsNow(c) == now

\* A period that is bought early starts when the running one ends.
PeriodStart(c) == IF org[c].expires > now THEN org[c].expires ELSE now

Bucket(p, c, from, until) == [purchase |-> p, customer |-> c, from |-> from, until |-> until]

AddPeriod(p, c) ==
    /\ Served(c) /\ Unlocked(c)
    /\ buckets' = buckets \cup {Bucket(p, c, PeriodStart(c), PeriodStart(c) + Period)}
    /\ org' = [org EXCEPT ![c].plan = "ULTRA", ![c].ultra = "ACTIVE", ![c].expires = PeriodStart(c) + Period]
    /\ UNCHANGED grant

\* A pack does not expire.
AddPack(p, c) ==
    /\ Served(c) /\ Unlocked(c)
    /\ buckets' = buckets \cup {Bucket(p, c, now, 0)}
    /\ UNCHANGED <<org, grant>>

Fulfillable(p) == purchase[p].status = "PAYMENT_CONFIRMED"

\* fulfil: what was bought is given and the purchase is final, together.
FulfilPurchase(a) ==
    LET p == fulfilling[a]
        c == purchase[p].customer
    IN  /\ p # None /\ Fulfillable(p)
        /\ \/ /\ purchase[p].product = "CORE_ONBOARDING"
              /\ \E g \in Grants : Issue(g, c)
              /\ UNCHANGED <<org, buckets>>
           \/ purchase[p].product = "ULTRA_PERIOD" /\ AddPeriod(p, c)
           \/ purchase[p].product = "RESEARCH_PACK" /\ AddPack(p, c)
        /\ purchase' = [purchase EXCEPT ![p].status = "FULFILLED"]
        /\ fulfilling' = [fulfilling EXCEPT ![a] = None]
        /\ UNCHANGED <<now, reminders, sweep, decisions>>

\* The purchase is fulfilled or failed already, its customer is not served any more, or the
\* process ends: the row stays as it is.
FulfilmentEnds(a) ==
    /\ fulfilling[a] # None
    /\ fulfilling' = [fulfilling EXCEPT ![a] = None]
    /\ UNCHANGED <<now, org, grant, purchase, buckets, reminders, sweep, decisions>>

-----------------------------------------------------------------------------
(* Grants and access.                                                      *)

CreateGrant(g, c) ==
    /\ Issue(g, c)
    /\ UNCHANGED <<now, org, purchase, buckets, reminders, sweep, fulfilling, decisions>>

RevokeGrant(g) ==
    /\ grant[g].status = "ISSUED"
    /\ grant' = [grant EXCEPT ![g].status = "REVOKED"]
    /\ UNCHANGED <<now, org, purchase, buckets, reminders, sweep, fulfilling, decisions>>

\* An address that has an account cannot register again, whatever its grant.
Register(g) ==
    LET c == grant[g].customer IN
    /\ grant[g].status = "ISSUED" /\ grant[g].expires > now /\ org[c] = Unregistered
    /\ grant' = [grant EXCEPT ![g].status = "REDEEMED"]
    /\ org' = [org EXCEPT ![c].access = "PENDING_APPROVAL", ![c].entitlement = "PENDING"]
    /\ UNCHANGED <<now, purchase, buckets, reminders, sweep, fulfilling, decisions>>

AccessOf(action) ==
    CASE action = "APPROVE" -> [access |-> "ACTIVE", entitlement |-> "ACTIVE"]
      [] action = "SUSPEND" -> [access |-> "SUSPENDED", entitlement |-> "SUSPENDED"]
      [] action = "REJECT" -> [access |-> "REJECTED", entitlement |-> "REVOKED"]
      [] action = "REVOKE" -> [access |-> "REVOKED", entitlement |-> "REVOKED"]

Decide(c, action) ==
    /\ org[c] # Unregistered /\ Unlocked(c)
    /\ decisions[c] < DecisionBound /\ decisions' = [decisions EXCEPT ![c] = @ + 1]
    /\ ~(org[c].access = "REVOKED" /\ action = "APPROVE")
    /\ org' = [org EXCEPT ![c].access = AccessOf(action).access, ![c].entitlement = AccessOf(action).entitlement,
                          ![c].plan = IF org[c].expires > now THEN "ULTRA" ELSE "CORE"]
    /\ UNCHANGED <<now, grant, purchase, buckets, reminders, sweep, fulfilling>>

MarkUltraPaymentPending(c) ==
    /\ org[c].entitlement = "ACTIVE" /\ org[c].expires > now /\ Unlocked(c)
    /\ org' = [org EXCEPT ![c].ultra = "PAYMENT_PENDING"]
    /\ UNCHANGED <<now, grant, purchase, buckets, reminders, sweep, fulfilling, decisions>>

-----------------------------------------------------------------------------
(* The sweep.                                                              *)

\* Mutant of Lapsed: a period for which a payment is pending is left to run on.
LapsedUnlessPending(c) ==
    org[c].expires # 0 /\ org[c].expires <= now /\ org[c].ultra \notin {"EXPIRED", "PAYMENT_PENDING"}

Lapsed(c) == org[c].expires # 0 /\ org[c].expires <= now /\ org[c].ultra # "EXPIRED"
RenewalDue(c) == org[c].expires > now /\ org[c].expires <= now + Lead /\ org[c].ultra = "ACTIVE"

Swept(c) ==
    IF Lapsed(c) THEN [org[c] EXCEPT !.plan = "CORE", !.ultra = "EXPIRED"]
    ELSE IF RenewalDue(c) THEN [org[c] EXCEPT !.ultra = "RENEWAL_DUE"] ELSE org[c]

Stage(c) ==
    IF org[c].expires <= now THEN "EXPIRED"
    ELSE IF org[c].expires <= now + Final THEN "THREE_DAYS" ELSE "SEVEN_DAYS"

\* A payment that is pending silences the reminders before the end.
Candidate(c) ==
    /\ Served(c) /\ org[c].expires # 0 /\ org[c].expires <= now + Lead
    /\ Swept(c).ultra # "PAYMENT_PENDING" \/ Stage(c) = "EXPIRED"

SweepReads ==
    /\ ~sweep.open
    /\ sweep' = [open |-> TRUE,
                 rows |-> [c \in {x \in Customers : Swept(x) # org[x]} |-> Swept(c)],
                 due |-> {[customer |-> c, expiry |-> org[c].expires, stage |-> Stage(c)] :
                             c \in {x \in Customers : Candidate(x)}}]
    /\ UNCHANGED <<now, org, grant, purchase, buckets, reminders, fulfilling, decisions>>

\* A reminder that exists is not queued again.
SweepCommits ==
    /\ sweep.open /\ sweep' = NoSweep
    /\ org' = [c \in Customers |-> IF Unlocked(c) THEN org[c] ELSE sweep.rows[c]]
    /\ reminders' = reminders \cup sweep.due
    /\ UNCHANGED <<now, grant, purchase, buckets, fulfilling, decisions>>

-----------------------------------------------------------------------------
AdminStep(a) ==
    \/ \E p \in Purchases, product \in Products, c \in Customers : RecordPurchase(a, p, product, c)
    \/ \E p \in Purchases, confirm \in BOOLEAN : ResolvePurchase(a, p, confirm)
    \/ FulfilPurchase(a) \/ FulfilmentEnds(a)

CommerceNext ==
    \/ Tick
    \/ \E a \in Admins : AdminStep(a)
    \/ \E g \in Grants : RevokeGrant(g) \/ Register(g)
    \/ \E g \in Grants, c \in Customers : CreateGrant(g, c)
    \/ \E c \in Customers, action \in {"APPROVE", "SUSPEND", "REJECT", "REVOKE"} : Decide(c, action)
    \/ \E c \in Customers : MarkUltraPaymentPending(c)
    \/ SweepReads \/ SweepCommits

CommerceSpec == CommerceInit /\ [][CommerceNext]_commerceVars

\* The worker sweeps again and again; a sweep that fails has changed nothing, as if it had not begun.
CommerceFairness == WF_commerceVars(SweepReads) /\ WF_commerceVars(SweepCommits)

-----------------------------------------------------------------------------
(* Properties.                                                             *)

AddOns == {p \in Purchases : purchase[p].status = "FULFILLED" /\ purchase[p].product # "CORE_ONBOARDING"}
PeriodsOf(c) == {b \in buckets : b.customer = c /\ b.until # 0}

\* Whoever records, retries, fails or fulfils a payment, and in whatever order: a fulfilled add-on
\* has been given exactly once, Ultra periods never overlap, and Ultra lasts to the end of the last
\* one (commerce.service.ts fulfil).
PaidOnceAndInFull ==
    /\ \A p \in Purchases : Cardinality({b \in buckets : b.purchase = p}) = IF p \in AddOns THEN 1 ELSE 0
    /\ \A c \in Customers :
         /\ \A b, d \in PeriodsOf(c) : b = d \/ b.until <= d.from \/ d.until <= b.from
         /\ \A b \in PeriodsOf(c) : b.until = b.from + Period /\ b.until <= org[c].expires
         /\ org[c].expires # 0 => \E b \in PeriodsOf(c) : b.until = org[c].expires

\* When Ultra runs out the customer is returned to Core and told so, unless it is renewed or
\* the customer is stopped, whatever payment is pending (commercial-lifecycle.ts).
UltraLapses ==
    \A c \in Customers, e \in 1..Horizon :
        (org[c].expires = e /\ e <= now /\ Served(c)) ~>
            \/ /\ org[c].ultra = "EXPIRED" /\ org[c].plan = "CORE"
               /\ [customer |-> c, expiry |-> e, stage |-> "EXPIRED"] \in reminders
            \/ org[c].expires # e \/ ~Served(c)

=============================================================================
