-------------------------- MODULE ResearchCredits --------------------------
(***************************************************************************)
(* The research-credit ledger of one GridFlow organisation: the product    *)
(* entitlement and its two counters, the credit buckets, one reservation   *)
(* per agent run and the allocation of each reservation to a bucket.       *)
(*                                                                         *)
(* The ledger has no process of its own.  Its operations are called inside *)
(* the database transactions of the agent engine (enqueue, retry, success, *)
(* final failure, stale sweep), of the platform console (access decisions) *)
(* and of commerce (fulfilment).  Here they may be called in any order;    *)
(* AgentEngine says which orders the engine produces, and implements this  *)
(* module.                                                                 *)
(***************************************************************************)
EXTENDS Integers, FiniteSets

CONSTANTS Runs,        \* agent runs, each with at most one reservation row
          Buckets,     \* ResearchCreditBucket rows that may ever be created
          Starter,     \* the CORE_STARTER bucket inserted at registration
          Expiring,    \* the ULTRA_INCLUDED buckets, which have an expiresAt
          Capacity,    \* "granted" of each bucket, fixed when it is inserted
          Rank,        \* spending order: type, then expiry, then creation
          DailyLimit,  \* AutomationControlPolicy.dailyResearchCreditLimit
          Unlimited,   \* ProductEntitlement.researchCreditsUnlimited
          Decisions    \* the access decisions the platform owner may take

ASSUME CreditAssumption ==
    /\ IsFiniteSet(Runs)
    /\ IsFiniteSet(Buckets)
    /\ Starter \in Buckets
    /\ Expiring \subseteq Buckets
    /\ Capacity \in [Buckets -> Nat]
    /\ Rank \in [Buckets -> Nat]
    /\ \A a, b \in Buckets : Rank[a] = Rank[b] => a = b
    /\ DailyLimit \in Nat
    /\ Unlimited \in BOOLEAN
    /\ Decisions \subseteq {"APPROVE", "SUSPEND", "REJECT", "REVOKE"}

VARIABLES access,       \* accessStatus and entitlement status, which move together
          window,       \* where now lies in the bucket's availableFrom..expiresAt
          reserved,     \* ResearchCreditBucket.reserved
          used,         \* ResearchCreditBucket.used
          granted,      \* ProductEntitlement.researchCreditsGranted
          creditsUsed,  \* ProductEntitlement.researchCreditsUsed
          reservation,  \* ResearchCreditReservation.status, per run
          allocation,   \* ResearchCreditReservationAllocation.status, per run and bucket
          today,        \* reservedAt lies within the last 24 hours
          snapshot      \* the usedToday an open transaction has already read

ledger == <<reserved, used, creditsUsed, reservation, allocation, today>>

creditVars == <<access, window, reserved, used, granted, creditsUsed,
                reservation, allocation, today, snapshot>>

NotCounted == -1

Charging == {"RESERVED", "CONSUMED"}

Floor0(n) == IF n < 0 THEN 0 ELSE n

CreditTypeOK ==
    /\ access \in {"PENDING", "ACTIVE", "SUSPENDED", "REJECTED", "REVOKED"}
    /\ window \in [Buckets -> {"PLANNED", "UPCOMING", "OPEN", "EXPIRED"}]
    /\ reserved \in [Buckets -> Nat]
    /\ used \in [Buckets -> Nat]
    /\ granted \in Nat
    /\ creditsUsed \in Nat
    /\ reservation \in [Runs -> {"NONE", "RESERVED", "CONSUMED", "REFUNDED"}]
    /\ allocation \in [Runs -> [Buckets -> {"NONE", "RESERVED", "CONSUMED", "REFUNDED"}]]
    /\ today \in [Runs -> BOOLEAN]
    /\ snapshot \in [Runs -> Nat \cup {NotCounted}]

(***************************************************************************)
(* What the queries of the ledger's transactions return.                   *)
(***************************************************************************)
CountedToday == {r \in Runs : reservation[r] \in Charging /\ today[r]}

\* Mutant of Spendable: the balance of a bucket forgets what is only reserved.
SpendableUnlessUsed == {b \in Buckets : window[b] = "OPEN" /\ Capacity[b] > used[b]}

Spendable == {b \in Buckets : window[b] = "OPEN" /\ Capacity[b] > used[b] + reserved[b]}

FirstChoice(b) == b \in Spendable /\ \A c \in Spendable : Rank[b] <= Rank[c]

\* Mutant of Held: a refund that does not ask for the status of the reservation.
HeldOrUsed(S) == {r \in S : reservation[r] \in Charging}

Held(S) == {r \in S : reservation[r] = "RESERVED"}

HeldOn(b, S) == {r \in Held(S) : allocation[r][b] = "RESERVED"}

-----------------------------------------------------------------------------
\* Registration.  Only an activation grant comes with starter credits and waits for
\* approval; without one the workspace is an unmetered development workspace.
CreditInit ==
    /\ access = IF Unlimited THEN "ACTIVE" ELSE "PENDING"
    /\ window = [b \in Buckets |->
          IF b = Starter /\ ~Unlimited THEN "OPEN" ELSE "PLANNED"]
    /\ reserved = [b \in Buckets |-> 0]
    /\ used = [b \in Buckets |-> 0]
    /\ granted = IF Unlimited THEN 0 ELSE Capacity[Starter]
    /\ creditsUsed = 0
    /\ reservation = [r \in Runs |-> "NONE"]
    /\ allocation = [r \in Runs |-> [b \in Buckets |-> "NONE"]]
    /\ today = [r \in Runs |-> FALSE]
    /\ snapshot = [r \in Runs |-> NotCounted]

(***************************************************************************)
(* reserveResearchCredit is two steps.  The statement that counts the      *)
(* reservations of the last 24 hours also takes the policy row FOR UPDATE; *)
(* under READ COMMITTED the count comes from the snapshot taken when the   *)
(* statement starts, before it waits for that row, so reservations         *)
(* committed by the transactions it waits for are not in it.  Everything   *)
(* after the lock is one step.                                             *)
(***************************************************************************)
BeginReserve(r) ==
    /\ reservation[r] \notin Charging
    /\ snapshot[r] = NotCounted
    /\ snapshot' = [snapshot EXCEPT ![r] = Cardinality(CountedToday)]
    /\ UNCHANGED <<access, window, granted, ledger>>

\* Mutant of ReserveFrom: the allocation a retry finds is kept as it was refunded.
ReserveKeepsRow(r, b) ==
    /\ reserved' = [reserved EXCEPT ![b] = @ + 1]
    /\ creditsUsed' = creditsUsed + 1
    /\ allocation' = [allocation EXCEPT ![r][b] = IF @ = "NONE" THEN "RESERVED" ELSE @]

ReserveFrom(r, b) ==
    /\ reserved' = [reserved EXCEPT ![b] = @ + 1]
    /\ creditsUsed' = creditsUsed + 1
    /\ allocation' = [allocation EXCEPT ![r][b] = "RESERVED"]

Reserve(r) ==
    /\ snapshot[r] # NotCounted
    /\ snapshot[r] < DailyLimit
    /\ access = "ACTIVE"
    /\ \/ Unlimited /\ UNCHANGED <<reserved, creditsUsed, allocation>>
       \/ ~Unlimited /\ \E b \in Buckets : FirstChoice(b) /\ ReserveFrom(r, b)
    /\ reservation' = [reservation EXCEPT ![r] = "RESERVED"]
    /\ today' = [today EXCEPT ![r] = TRUE]
    /\ snapshot' = [snapshot EXCEPT ![r] = NotCounted]
    /\ UNCHANGED <<access, window, used, granted>>

\* The transaction throws (ceiling reached, no entitlement, no bucket, or any
\* later statement of it) and is rolled back.
AbandonReserve(r) ==
    /\ snapshot[r] # NotCounted
    /\ snapshot' = [snapshot EXCEPT ![r] = NotCounted]
    /\ UNCHANGED <<access, window, granted, ledger>>

\* The success transaction turns the run's reservation into usage.
Consume(r) ==
    /\ reserved' = [b \in Buckets |->
          IF allocation[r][b] = "RESERVED" THEN Floor0(reserved[b] - 1) ELSE reserved[b]]
    /\ used' = [b \in Buckets |->
          IF allocation[r][b] = "RESERVED" THEN used[b] + 1 ELSE used[b]]
    /\ allocation' = [allocation EXCEPT ![r] = [b \in Buckets |->
          IF @[b] = "RESERVED" THEN "CONSUMED" ELSE @[b]]]
    /\ reservation' = [reservation EXCEPT ![r] = IF @ = "RESERVED" THEN "CONSUMED" ELSE @]
    /\ UNCHANGED <<access, window, granted, creditsUsed, today, snapshot>>

\* Mutant of ReturnCredits: every run asked for is given a credit back.
ReturnUnchecked(S) ==
    /\ reserved' = [b \in Buckets |-> Floor0(reserved[b] - Cardinality(HeldOn(b, S)))]
    /\ allocation' = [r \in Runs |-> [b \in Buckets |->
          IF r \in HeldOn(b, S) THEN "REFUNDED" ELSE allocation[r][b]]]
    /\ creditsUsed' = creditsUsed - Cardinality(S)
    /\ reservation' = [r \in Runs |-> IF r \in Held(S) THEN "REFUNDED" ELSE reservation[r]]
    /\ UNCHANGED <<used, today>>

\* The part a refund of the runs in S has in common: one run for
\* refundResearchCredit, every run of the organisation for stopOrganisation.
ReturnCredits(S) ==
    /\ reserved' = [b \in Buckets |-> Floor0(reserved[b] - Cardinality(HeldOn(b, S)))]
    /\ allocation' = [r \in Runs |-> [b \in Buckets |->
          IF r \in HeldOn(b, S) THEN "REFUNDED" ELSE allocation[r][b]]]
    /\ creditsUsed' = IF Unlimited THEN creditsUsed
                      ELSE Floor0(creditsUsed - Cardinality(Held(S)))
    /\ reservation' = [r \in Runs |-> IF r \in Held(S) THEN "REFUNDED" ELSE reservation[r]]
    /\ UNCHANGED <<used, today>>

Refund(S) ==
    /\ ReturnCredits(S)
    /\ UNCHANGED <<access, window, granted, snapshot>>

-----------------------------------------------------------------------------
(***************************************************************************)
(* The platform owner's access decisions.  Only APPROVE keeps the          *)
(* reservations; every other decision stops the organisation.              *)
(***************************************************************************)
AccessAfter(d) ==
    CASE d = "APPROVE" -> "ACTIVE"
      [] d = "SUSPEND" -> "SUSPENDED"
      [] d = "REJECT"  -> "REJECTED"
      [] d = "REVOKE"  -> "REVOKED"

Approve ==
    /\ "APPROVE" \in Decisions
    /\ access # "REVOKED"
    /\ access' = AccessAfter("APPROVE")
    /\ UNCHANGED <<window, granted, ledger, snapshot>>

Stop(d) ==
    /\ d # "APPROVE"
    /\ access' = AccessAfter(d)
    /\ ReturnCredits(Runs)
    /\ UNCHANGED <<window, granted, snapshot>>

\* Fulfilling an add-on purchase inserts its bucket.  An Ultra period bought
\* before the current one ends starts when that one does.
Fulfil(b) ==
    /\ access = "ACTIVE"
    /\ b # Starter
    /\ window[b] = "PLANNED"
    /\ \E w \in {"OPEN"} \cup (IF b \in Expiring THEN {"UPCOMING"} ELSE {}) :
          window' = [window EXCEPT ![b] = w]
    /\ granted' = granted + Capacity[b]
    /\ UNCHANGED <<access, ledger, snapshot>>

\* Time reaches availableFrom or expiresAt of a bucket.
WindowMoves(b) ==
    /\ \/ window[b] = "UPCOMING" /\ window' = [window EXCEPT ![b] = "OPEN"]
       \/ window[b] = "OPEN" /\ b \in Expiring /\ window' = [window EXCEPT ![b] = "EXPIRED"]
    /\ UNCHANGED <<access, granted, ledger, snapshot>>

\* A reservation becomes older than 24 hours.
DayPasses(r) ==
    /\ today[r]
    /\ today' = [today EXCEPT ![r] = FALSE]
    /\ UNCHANGED <<access, window, reserved, used, granted, creditsUsed,
                   reservation, allocation, snapshot>>

CreditNext ==
    \/ \E r \in Runs : \/ BeginReserve(r) \/ Reserve(r) \/ AbandonReserve(r)
                       \/ Consume(r) \/ DayPasses(r)
    \/ \E S \in SUBSET Runs : Refund(S)
    \/ Approve
    \/ \E d \in Decisions : Stop(d)
    \/ \E b \in Buckets : Fulfil(b) \/ WindowMoves(b)

CreditSpec == CreditInit /\ [][CreditNext]_creditVars

-----------------------------------------------------------------------------
(***************************************************************************)
(* Properties.                                                             *)
(***************************************************************************)

Allocated(b, status) == {r \in Runs : allocation[r][b] = status}

Charged == {r \in Runs : reservation[r] \in Charging}

\* Each bucket's two counters are exactly the reservations allocated to it:
\* no path through reserve, consume, refund and stop counts a run twice or
\* loses one, although every one of them updates the counter and the rows
\* separately, and GREATEST(0, ...) would hide a counter that drifted.
CountersMatchAllocations ==
    \A b \in Buckets :
        /\ reserved[b] = Cardinality(Allocated(b, "RESERVED"))
        /\ used[b] = Cardinality(Allocated(b, "CONSUMED"))

\* A bucket never promises more than it was granted: the balance CHECK of the
\* table never fires, and a refund into a bucket always finds its credit there.
NeverOvercommitted ==
    \A b \in Buckets : reserved[b] + used[b] <= Capacity[b]

\* The entitlement's own counter, which the console shows, agrees with the
\* reservations: one unit for each run that holds or has consumed a credit.
UsageCounterExact ==
    ~Unlimited => creditsUsed = Cardinality(Charged)

\* A run's credit lies in at most one bucket at a time and a reservation and
\* its allocation change state together, through any number of refunds and
\* retries that move the run to another bucket.
OneBucketPerRun ==
    \A r \in Runs : \A b \in Buckets :
        allocation[r][b] \in Charging =>
            /\ reservation[r] = allocation[r][b]
            /\ \A c \in Buckets \ {b} : allocation[r][c] \notin Charging

\* A consumed credit is spent for good: no refund, stop or retry gives it back
\* and no later success of the same run takes a second one.
ChargeIsFinal ==
    [][\A r \in Runs : reservation[r] = "CONSUMED" =>
          reservation'[r] = "CONSUMED" /\ allocation'[r] = allocation[r]]_creditVars

=============================================================================
