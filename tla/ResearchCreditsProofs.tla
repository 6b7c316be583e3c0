----------------------- MODULE ResearchCreditsProofs -----------------------
(***************************************************************************)
(* Proofs about the credit ledger, for any number of runs and buckets, any *)
(* capacities and any daily limit.                                         *)
(*                                                                         *)
(* LedgerInv is the inductive invariant.  It joins the properties the runs *)
(* check, none of which is inductive alone, with the fact that a           *)
(* transaction between its count and its reservation is about a run that   *)
(* has no live reservation.                                                *)
(***************************************************************************)
EXTENDS ResearchCredits, FiniteSetTheorems, TLAPS

\* A run whose reservation is under way holds no credit yet.
SnapshotSane ==
    \A r \in Runs : snapshot[r] # NotCounted => reservation[r] \notin Charging

LedgerInv ==
    /\ CreditTypeOK
    /\ CountersMatchAllocations
    /\ NeverOvercommitted
    /\ UsageCounterExact
    /\ OneBucketPerRun
    /\ SnapshotSane

-----------------------------------------------------------------------------
(***************************************************************************)
(* Counting.                                                               *)
(***************************************************************************)

\* Every set of runs has a size.
LEMMA RunSets ==
    ASSUME NEW S \in SUBSET Runs
    PROVE  IsFiniteSet(S) /\ Cardinality(S) \in Nat
BY CreditAssumption, FS_Subset, FS_CardinalityType

\* One more run in a set counts for one.
LEMMA CountOneMore ==
    ASSUME NEW S \in SUBSET Runs, NEW r \in Runs, r \notin S
    PROVE  Cardinality(S \cup {r}) = Cardinality(S) + 1
BY RunSets, FS_AddElement

\* One run fewer in a set counts for one, and the set was not empty.
LEMMA CountOneLess ==
    ASSUME NEW S \in SUBSET Runs, NEW r \in S
    PROVE  Cardinality(S \ {r}) = Cardinality(S) - 1 /\ Cardinality(S) > 0
<1>1. Cardinality(S \ {r}) = Cardinality(S) - 1
  BY RunSets, FS_RemoveElement
<1>2. Cardinality(S) \in Nat /\ Cardinality(S \ {r}) \in Nat
  BY RunSets
<1> QED  BY <1>1, <1>2

\* Taking some of the runs of a set away leaves the difference.
LEMMA CountFewer ==
    ASSUME NEW S \in SUBSET Runs, NEW T \in SUBSET S
    PROVE  /\ Cardinality(S \ T) = Cardinality(S) - Cardinality(T)
           /\ Cardinality(T) <= Cardinality(S)
<1>1. S \cap T = T
  OBVIOUS
<1>2. Cardinality(S \ T) = Cardinality(S) - Cardinality(S \cap T)
  BY RunSets, FS_Difference
<1>3. Cardinality(T) <= Cardinality(S)
  BY RunSets, FS_Subset
<1> QED  BY <1>1, <1>2, <1>3

-----------------------------------------------------------------------------
(***************************************************************************)
(* Type correctness.                                                       *)
(***************************************************************************)

\* The ledger starts well typed.
LEMMA TypeInit == CreditInit => CreditTypeOK
BY CreditAssumption DEF CreditInit, CreditTypeOK, NotCounted

\* No transaction leaves the types; in particular no counter becomes negative.
LEMMA TypeStep == CreditTypeOK /\ [CreditNext]_creditVars => CreditTypeOK'
<1> SUFFICES ASSUME CreditTypeOK, [CreditNext]_creditVars
             PROVE  CreditTypeOK'
  OBVIOUS
<1> USE DEF CreditTypeOK, ledger
<1>1. ASSUME NEW r \in Runs, BeginReserve(r) PROVE CreditTypeOK'
  <2>1. Cardinality(CountedToday) \in Nat
    BY RunSets DEF CountedToday
  <2> QED  BY <1>1, <2>1 DEF BeginReserve
<1>2. ASSUME NEW r \in Runs, Reserve(r) PROVE CreditTypeOK'
  <2>1. CASE Unlimited /\ UNCHANGED <<reserved, creditsUsed, allocation>>
    BY <1>2, <2>1 DEF Reserve
  <2>2. ASSUME NEW b \in Buckets, ReserveFrom(r, b) PROVE CreditTypeOK'
    BY <1>2, <2>2 DEF Reserve, ReserveFrom
  <2> QED  BY <1>2, <2>1, <2>2 DEF Reserve
<1>3. ASSUME NEW r \in Runs, AbandonReserve(r) PROVE CreditTypeOK'
  BY <1>3 DEF AbandonReserve
<1>4. ASSUME NEW r \in Runs, Consume(r) PROVE CreditTypeOK'
  BY <1>4 DEF Consume, Floor0
<1>5. ASSUME NEW r \in Runs, DayPasses(r) PROVE CreditTypeOK'
  BY <1>5 DEF DayPasses
<1>6. ASSUME NEW S \in SUBSET Runs, ReturnCredits(S)
      PROVE  /\ reserved' \in [Buckets -> Nat]
             /\ creditsUsed' \in Nat
             /\ reservation' \in [Runs -> {"NONE", "RESERVED", "CONSUMED", "REFUNDED"}]
             /\ allocation' \in
                  [Runs -> [Buckets -> {"NONE", "RESERVED", "CONSUMED", "REFUNDED"}]]
             /\ UNCHANGED <<used, today>>
  <2>1. \A b \in Buckets : Cardinality(HeldOn(b, S)) \in Nat
    BY RunSets DEF HeldOn, Held
  <2>2. Cardinality(Held(S)) \in Nat
    BY RunSets DEF Held
  <2> QED  BY <1>6, <2>1, <2>2 DEF ReturnCredits, Floor0
<1>7. ASSUME NEW S \in SUBSET Runs, Refund(S) PROVE CreditTypeOK'
  BY <1>6, <1>7 DEF Refund
<1>8. ASSUME Approve PROVE CreditTypeOK'
  BY <1>8 DEF Approve, AccessAfter
<1>9. ASSUME NEW d \in Decisions, Stop(d) PROVE CreditTypeOK'
  <2>1. AccessAfter(d) \in {"ACTIVE", "SUSPENDED", "REJECTED", "REVOKED"}
    BY CreditAssumption DEF AccessAfter
  <2> QED  BY <1>6, <1>9, <2>1 DEF Stop
<1>10. ASSUME NEW b \in Buckets, Fulfil(b) PROVE CreditTypeOK'
  <2>1. granted + Capacity[b] \in Nat
    BY CreditAssumption
  <2>2. window' \in [Buckets -> {"PLANNED", "UPCOMING", "OPEN", "EXPIRED"}]
    BY <1>10 DEF Fulfil
  <2> QED  BY <1>10, <2>1, <2>2 DEF Fulfil
<1>11. ASSUME NEW b \in Buckets, WindowMoves(b) PROVE CreditTypeOK'
  BY <1>11 DEF WindowMoves
<1>12. CASE UNCHANGED creditVars
  BY <1>12 DEF creditVars
<1> QED
  BY <1>1, <1>2, <1>3, <1>4, <1>5, <1>7, <1>8, <1>9, <1>10, <1>11, <1>12 DEF CreditNext

\* The ledger is always well typed.
THEOREM CreditTypeCorrect == CreditSpec => []CreditTypeOK
<1> QED  BY TypeInit, TypeStep, PTL DEF CreditSpec

-----------------------------------------------------------------------------
(***************************************************************************)
(* The steps that write reservations.                                      *)
(***************************************************************************)
Counters ==
    /\ CountersMatchAllocations
    /\ NeverOvercommitted
    /\ UsageCounterExact
    /\ OneBucketPerRun
    /\ SnapshotSane

\* A run about to reserve has no allocation that counts, in any bucket.
LEMMA NothingHeldYet ==
    ASSUME LedgerInv, NEW r \in Runs, snapshot[r] # NotCounted
    PROVE  /\ reservation[r] \notin Charging
           /\ \A b \in Buckets : allocation[r][b] \notin Charging
<1>1. reservation[r] \notin Charging
  BY DEF LedgerInv, SnapshotSane
<1>2. ASSUME NEW b \in Buckets, allocation[r][b] \in Charging PROVE FALSE
  BY <1>1, <1>2 DEF LedgerInv, OneBucketPerRun
<1> QED  BY <1>1, <1>2

\* Reserving takes one unit of one bucket, or none when credits are unlimited.
LEMMA ReserveKeeps ==
    ASSUME LedgerInv, NEW r \in Runs, Reserve(r)
    PROVE  Counters'
<1> USE DEF LedgerInv, CreditTypeOK
<1>1. /\ snapshot[r] # NotCounted
      /\ reservation' = [reservation EXCEPT ![r] = "RESERVED"]
      /\ snapshot' = [snapshot EXCEPT ![r] = NotCounted]
      /\ used' = used
  BY DEF Reserve
<1>2. /\ reservation[r] \notin Charging
      /\ \A b \in Buckets : allocation[r][b] \notin Charging
  BY <1>1, NothingHeldYet
<1>3. SnapshotSane'
  BY <1>1 DEF SnapshotSane
<1>4. Cardinality(Charged') = Cardinality(Charged) + 1
  <2>1. r \notin Charged /\ Charged \in SUBSET Runs
    BY <1>2 DEF Charged
  <2>2. Charged' = Charged \cup {r}
    BY <1>1 DEF Charged, Charging
  <2> QED  BY <2>1, <2>2, CountOneMore
<1>5. CASE Unlimited /\ UNCHANGED <<reserved, creditsUsed, allocation>>
  <2>1. \A b \in Buckets : \A st : Allocated(b, st)' = Allocated(b, st)
    BY <1>5 DEF Allocated
  <2>2. CountersMatchAllocations' /\ NeverOvercommitted' /\ UsageCounterExact'
    BY <1>1, <1>5, <2>1 DEF CountersMatchAllocations, NeverOvercommitted, UsageCounterExact
  <2>3. OneBucketPerRun'
    BY <1>1, <1>2, <1>5 DEF OneBucketPerRun
  <2> QED  BY <1>3, <2>2, <2>3 DEF Counters
<1>6. ASSUME ~Unlimited, NEW b \in Buckets, FirstChoice(b), ReserveFrom(r, b) PROVE Counters'
  <2>1. /\ reserved' = [reserved EXCEPT ![b] = @ + 1]
        /\ creditsUsed' = creditsUsed + 1
        /\ allocation' = [allocation EXCEPT ![r][b] = "RESERVED"]
        /\ Capacity[b] > used[b] + reserved[b]
    BY <1>6 DEF ReserveFrom, FirstChoice, Spendable
  <2>2. Allocated(b, "RESERVED")' = Allocated(b, "RESERVED") \cup {r}
    BY <2>1 DEF Allocated
  <2>3. r \notin Allocated(b, "RESERVED")
    BY <1>2 DEF Allocated, Charging
  <2>4. Cardinality(Allocated(b, "RESERVED")') = Cardinality(Allocated(b, "RESERVED")) + 1
    BY <2>2, <2>3, CountOneMore DEF Allocated
  <2>5. Allocated(b, "CONSUMED")' = Allocated(b, "CONSUMED")
    BY <1>2, <2>1 DEF Allocated, Charging
  <2>6. ASSUME NEW c \in Buckets \ {b}, NEW st PROVE Allocated(c, st)' = Allocated(c, st)
    BY <2>1 DEF Allocated
  <2>7. CountersMatchAllocations'
    BY <1>1, <2>1, <2>4, <2>5, <2>6 DEF CountersMatchAllocations
  <2>8. NeverOvercommitted'
    <3> SUFFICES ASSUME NEW c \in Buckets PROVE reserved'[c] + used'[c] <= Capacity[c]
      BY DEF NeverOvercommitted
    <3>1. reserved[c] \in Nat /\ used[c] \in Nat /\ Capacity[c] \in Nat
      BY CreditAssumption
    <3>2. reserved[c] + used[c] <= Capacity[c]
      BY DEF NeverOvercommitted
    <3>3. CASE c = b
      <4>1. reserved'[c] = reserved[c] + 1 /\ used'[c] = used[c]
        BY <1>1, <2>1, <3>3
      <4> QED  BY <2>1, <3>1, <3>3, <4>1
    <3>4. CASE c # b
      BY <1>1, <2>1, <3>2, <3>4
    <3> QED  BY <3>3, <3>4
  <2>9. UsageCounterExact'
    BY <1>4, <1>6, <2>1 DEF UsageCounterExact
  <2>10. OneBucketPerRun'
    BY <1>1, <1>2, <2>1 DEF OneBucketPerRun, Charging
  <2> QED  BY <1>3, <2>7, <2>8, <2>9, <2>10 DEF Counters
<1> QED  BY <1>5, <1>6 DEF Reserve

\* Consuming moves the unit of the run from reserved to used.
LEMMA ConsumeKeeps ==
    ASSUME LedgerInv, NEW r \in Runs, Consume(r)
    PROVE  Counters'
<1> USE DEF LedgerInv, CreditTypeOK
<1>1. /\ reservation' = [reservation EXCEPT ![r] = IF @ = "RESERVED" THEN "CONSUMED" ELSE @]
      /\ allocation' = [allocation EXCEPT ![r] = [b \in Buckets |->
            IF @[b] = "RESERVED" THEN "CONSUMED" ELSE @[b]]]
      /\ UNCHANGED <<snapshot, creditsUsed>>
  BY DEF Consume
<1>2. SnapshotSane'
  BY <1>1 DEF SnapshotSane, Charging
<1>3. UsageCounterExact'
  <2>1. Charged' = Charged
    BY <1>1 DEF Charged, Charging
  <2> QED  BY <1>1, <2>1 DEF UsageCounterExact
<1>4. OneBucketPerRun'
  BY <1>1 DEF OneBucketPerRun, Charging
<1>5. ASSUME NEW b \in Buckets
      PROVE  /\ reserved'[b] = Cardinality(Allocated(b, "RESERVED"))'
             /\ used'[b] = Cardinality(Allocated(b, "CONSUMED"))'
             /\ reserved'[b] + used'[b] <= Capacity[b]
  <2>1. /\ reserved[b] = Cardinality(Allocated(b, "RESERVED"))
        /\ used[b] = Cardinality(Allocated(b, "CONSUMED"))
        /\ reserved[b] + used[b] <= Capacity[b]
    BY DEF CountersMatchAllocations, NeverOvercommitted
  <2>2. CASE allocation[r][b] = "RESERVED"
    <3>1. /\ reserved'[b] = Floor0(reserved[b] - 1)
          /\ used'[b] = used[b] + 1
      BY <2>2 DEF Consume
    <3>2. /\ Allocated(b, "RESERVED")' = Allocated(b, "RESERVED") \ {r}
          /\ r \in Allocated(b, "RESERVED")
      BY <1>1, <2>2 DEF Allocated
    <3>3. /\ Allocated(b, "CONSUMED")' = Allocated(b, "CONSUMED") \cup {r}
          /\ r \notin Allocated(b, "CONSUMED")
      BY <1>1, <2>2 DEF Allocated
    <3>4. /\ Cardinality(Allocated(b, "RESERVED")') = Cardinality(Allocated(b, "RESERVED")) - 1
          /\ Cardinality(Allocated(b, "RESERVED")) > 0
      BY <3>2, CountOneLess DEF Allocated
    <3>5. Cardinality(Allocated(b, "CONSUMED")') = Cardinality(Allocated(b, "CONSUMED")) + 1
      BY <3>3, CountOneMore DEF Allocated
    <3>6. reserved[b] \in Nat /\ used[b] \in Nat /\ Capacity[b] \in Nat
      BY CreditAssumption
    <3> QED  BY <2>1, <3>1, <3>4, <3>5, <3>6 DEF Floor0
  <2>3. CASE allocation[r][b] # "RESERVED"
    <3>1. reserved'[b] = reserved[b] /\ used'[b] = used[b]
      BY <2>3 DEF Consume
    <3>2. \A st : Allocated(b, st)' = Allocated(b, st)
      BY <1>1, <2>3 DEF Allocated
    <3> QED  BY <2>1, <3>1, <3>2
  <2> QED  BY <2>2, <2>3
<1> QED
  BY <1>2, <1>3, <1>4, <1>5 DEF Counters, CountersMatchAllocations, NeverOvercommitted

\* A refund, of one run or of all, gives each bucket back what it had reserved
\* for them; the floor at zero is never reached.
LEMMA ReturnKeeps ==
    ASSUME LedgerInv, NEW S \in SUBSET Runs, ReturnCredits(S), UNCHANGED snapshot
    PROVE  Counters'
<1> USE DEF LedgerInv, CreditTypeOK
<1>1. /\ reservation' = [r \in Runs |-> IF r \in Held(S) THEN "REFUNDED" ELSE reservation[r]]
      /\ allocation' = [r \in Runs |-> [b \in Buckets |->
            IF r \in HeldOn(b, S) THEN "REFUNDED" ELSE allocation[r][b]]]
      /\ reserved' = [b \in Buckets |-> Floor0(reserved[b] - Cardinality(HeldOn(b, S)))]
      /\ used' = used
  BY DEF ReturnCredits
<1>2. SnapshotSane'
  BY <1>1 DEF SnapshotSane, Charging
<1>3. UsageCounterExact'
  <2>1. Charged' = Charged \ Held(S) /\ Held(S) \in SUBSET Charged /\ Charged \in SUBSET Runs
    BY <1>1 DEF Charged, Charging, Held
  <2>2. /\ Cardinality(Charged') = Cardinality(Charged) - Cardinality(Held(S))
        /\ Cardinality(Held(S)) <= Cardinality(Charged)
    BY <2>1, CountFewer
  <2>3. Cardinality(Charged) \in Nat /\ Cardinality(Held(S)) \in Nat
    BY <2>1, RunSets DEF Held
  <2> QED  BY <2>2, <2>3 DEF UsageCounterExact, ReturnCredits, Floor0
<1>4. ASSUME NEW b \in Buckets
      PROVE  /\ reserved'[b] = Cardinality(Allocated(b, "RESERVED"))'
             /\ used'[b] = Cardinality(Allocated(b, "CONSUMED"))'
             /\ reserved'[b] + used'[b] <= Capacity[b]
  <2>1. /\ reserved[b] = Cardinality(Allocated(b, "RESERVED"))
        /\ used[b] = Cardinality(Allocated(b, "CONSUMED"))
        /\ reserved[b] + used[b] <= Capacity[b]
    BY DEF CountersMatchAllocations, NeverOvercommitted
  <2>2. /\ Allocated(b, "RESERVED")' = Allocated(b, "RESERVED") \ HeldOn(b, S)
        /\ HeldOn(b, S) \in SUBSET Allocated(b, "RESERVED")
        /\ Allocated(b, "RESERVED") \in SUBSET Runs
    BY <1>1 DEF Allocated, HeldOn, Held
  <2>3. Allocated(b, "CONSUMED")' = Allocated(b, "CONSUMED")
    BY <1>1 DEF Allocated, HeldOn, Held
  <2>4. /\ Cardinality(Allocated(b, "RESERVED")') =
             Cardinality(Allocated(b, "RESERVED")) - Cardinality(HeldOn(b, S))
        /\ Cardinality(HeldOn(b, S)) <= Cardinality(Allocated(b, "RESERVED"))
    BY <2>2, CountFewer
  <2>5. /\ reserved[b] \in Nat /\ used[b] \in Nat /\ Capacity[b] \in Nat
        /\ Cardinality(HeldOn(b, S)) \in Nat
    BY <2>2, RunSets, CreditAssumption
  <2>6. reserved'[b] = Floor0(reserved[b] - Cardinality(HeldOn(b, S)))
    BY <1>1
  <2>7. reserved'[b] = reserved[b] - Cardinality(HeldOn(b, S))
    BY <2>1, <2>4, <2>5, <2>6 DEF Floor0
  <2> QED  BY <1>1, <2>1, <2>3, <2>4, <2>5, <2>7
<1>5. OneBucketPerRun'
  <2> SUFFICES ASSUME NEW r \in Runs, NEW b \in Buckets, allocation'[r][b] \in Charging
               PROVE  /\ reservation'[r] = allocation'[r][b]
                      /\ \A c \in Buckets \ {b} : allocation'[r][c] \notin Charging
    BY DEF OneBucketPerRun
  <2>1. allocation'[r][b] = allocation[r][b] /\ r \notin HeldOn(b, S)
    BY <1>1 DEF Charging
  <2>2. /\ reservation[r] = allocation[r][b]
        /\ \A c \in Buckets \ {b} : allocation[r][c] \notin Charging
    BY <2>1 DEF OneBucketPerRun
  <2>3. r \notin Held(S)
    BY <2>1, <2>2 DEF Held, HeldOn
  <2> QED  BY <1>1, <2>1, <2>2, <2>3 DEF Charging
<1> QED
  BY <1>2, <1>3, <1>4, <1>5 DEF Counters, CountersMatchAllocations, NeverOvercommitted

-----------------------------------------------------------------------------
(***************************************************************************)
(* The invariant.                                                          *)
(***************************************************************************)

\* It holds of an organisation that has just registered.
LEMMA LedgerInit == CreditInit => LedgerInv
<1> SUFFICES ASSUME CreditInit PROVE LedgerInv
  OBVIOUS
<1>1. CreditTypeOK
  BY TypeInit
<1>2. ASSUME NEW b \in Buckets, NEW st \in Charging PROVE Allocated(b, st) = {}
  BY <1>2 DEF CreditInit, Allocated, Charging
<1>3. Charged = {}
  BY DEF CreditInit, Charged, Charging
<1>4. Cardinality({}) = 0
  BY FS_EmptySet
<1>5. CountersMatchAllocations /\ UsageCounterExact
  BY <1>2, <1>3, <1>4 DEF CreditInit, CountersMatchAllocations, UsageCounterExact, Charging
<1>6. NeverOvercommitted
  BY CreditAssumption DEF CreditInit, NeverOvercommitted
<1>7. OneBucketPerRun /\ SnapshotSane
  BY DEF CreditInit, OneBucketPerRun, SnapshotSane, Charging
<1> QED  BY <1>1, <1>5, <1>6, <1>7 DEF LedgerInv

\* Steps that leave reservations, allocations and counters alone keep it.
LEMMA CountersUntouched ==
    ASSUME LedgerInv,
           UNCHANGED <<reserved, used, creditsUsed, reservation, allocation>>,
           SnapshotSane'
    PROVE  Counters'
<1>1. Charged' = Charged /\ \A b \in Buckets : \A st : Allocated(b, st)' = Allocated(b, st)
  BY DEF Charged, Allocated
<1> QED
  BY <1>1 DEF LedgerInv, Counters, CountersMatchAllocations, NeverOvercommitted,
              UsageCounterExact, OneBucketPerRun

\* Every step of the ledger keeps it.
LEMMA LedgerStep == LedgerInv /\ [CreditNext]_creditVars => LedgerInv'
<1> SUFFICES ASSUME LedgerInv, [CreditNext]_creditVars PROVE LedgerInv'
  OBVIOUS
<1> USE DEF ledger
<1>0. CreditTypeOK'
  BY TypeStep DEF LedgerInv
<1>1. ASSUME NEW r \in Runs, BeginReserve(r) PROVE Counters'
  <2>1. SnapshotSane'
    BY <1>1 DEF BeginReserve, LedgerInv, SnapshotSane, CreditTypeOK
  <2> QED  BY <1>1, <2>1, CountersUntouched DEF BeginReserve
<1>2. ASSUME NEW r \in Runs, Reserve(r) PROVE Counters'
  BY <1>2, ReserveKeeps
<1>3. ASSUME NEW r \in Runs, AbandonReserve(r) PROVE Counters'
  <2>1. SnapshotSane'
    BY <1>3 DEF AbandonReserve, LedgerInv, SnapshotSane, CreditTypeOK
  <2> QED  BY <1>3, <2>1, CountersUntouched DEF AbandonReserve
<1>4. ASSUME NEW r \in Runs, Consume(r) PROVE Counters'
  BY <1>4, ConsumeKeeps
<1>5. ASSUME NEW S \in SUBSET Runs, Refund(S) PROVE Counters'
  BY <1>5, ReturnKeeps DEF Refund
<1>6. ASSUME NEW d \in Decisions, Stop(d) PROVE Counters'
  BY <1>6, ReturnKeeps DEF Stop
<1>7. ASSUME UNCHANGED <<reserved, used, creditsUsed, reservation, allocation, snapshot>>
      PROVE  Counters'
  <2>1. SnapshotSane'
    BY <1>7 DEF LedgerInv, SnapshotSane
  <2> QED  BY <1>7, <2>1, CountersUntouched
<1>8. ASSUME NEW r \in Runs, DayPasses(r) PROVE Counters'
  BY <1>7, <1>8 DEF DayPasses
<1>9. ASSUME Approve PROVE Counters'
  BY <1>7, <1>9 DEF Approve
<1>10. ASSUME NEW b \in Buckets, Fulfil(b) \/ WindowMoves(b) PROVE Counters'
  BY <1>7, <1>10 DEF Fulfil, WindowMoves
<1>11. ASSUME UNCHANGED creditVars PROVE Counters'
  BY <1>7, <1>11 DEF creditVars
<1>12. Counters'
  BY <1>1, <1>2, <1>3, <1>4, <1>5, <1>6, <1>8, <1>9, <1>10, <1>11 DEF CreditNext
<1> QED  BY <1>0, <1>12 DEF LedgerInv, Counters

LEMMA LedgerAlways == CreditSpec => []LedgerInv
<1> QED  BY LedgerInit, LedgerStep, PTL DEF CreditSpec

\* The counters of every bucket are exactly the reservations allocated to it.
THEOREM CountersAlwaysMatch == CreditSpec => []CountersMatchAllocations
<1>1. LedgerInv => CountersMatchAllocations
  BY DEF LedgerInv
<1> QED  BY <1>1, LedgerAlways, PTL

\* No bucket ever promises more than it was granted.
THEOREM NeverOvercommits == CreditSpec => []NeverOvercommitted
<1>1. LedgerInv => NeverOvercommitted
  BY DEF LedgerInv
<1> QED  BY <1>1, LedgerAlways, PTL

\* The entitlement's counter is the number of runs that hold or used a credit.
THEOREM UsageCounterAlwaysExact == CreditSpec => []UsageCounterExact
<1>1. LedgerInv => UsageCounterExact
  BY DEF LedgerInv
<1> QED  BY <1>1, LedgerAlways, PTL

\* A run's credit is in one bucket, and its reservation agrees with it.
THEOREM OneBucketAlways == CreditSpec => []OneBucketPerRun
<1>1. LedgerInv => OneBucketPerRun
  BY DEF LedgerInv
<1> QED  BY <1>1, LedgerAlways, PTL

-----------------------------------------------------------------------------
(***************************************************************************)
(* A consumed credit stays consumed.                                       *)
(***************************************************************************)

\* No step, from a state of the invariant, touches a consumed reservation.
LEMMA ConsumedStays ==
    ASSUME LedgerInv, [CreditNext]_creditVars,
           NEW r \in Runs, reservation[r] = "CONSUMED"
    PROVE  reservation'[r] = "CONSUMED" /\ allocation'[r] = allocation[r]
<1> USE DEF LedgerInv, CreditTypeOK
<1>1. snapshot[r] = NotCounted
  BY DEF SnapshotSane, Charging
<1>2. \A b \in Buckets : allocation[r][b] # "RESERVED"
  BY DEF OneBucketPerRun, Charging
<1>3. ASSUME NEW q \in Runs, Reserve(q)
      PROVE  reservation'[r] = "CONSUMED" /\ allocation'[r] = allocation[r]
  <2>1. q # r
    BY <1>1, <1>3 DEF Reserve
  <2> QED  BY <1>3, <2>1 DEF Reserve, ReserveFrom
<1>4. ASSUME NEW q \in Runs, Consume(q)
      PROVE  reservation'[r] = "CONSUMED" /\ allocation'[r] = allocation[r]
  <2>1. CASE q = r
    <3>1. allocation'[r] = [b \in Buckets |-> allocation[r][b]]
      BY <1>2, <1>4, <2>1 DEF Consume
    <3>2. reservation'[r] = reservation[r]
      BY <1>4, <2>1 DEF Consume
    <3> QED  BY <3>1, <3>2
  <2>2. CASE q # r
    BY <1>4, <2>2 DEF Consume
  <2> QED  BY <2>1, <2>2
<1>5. ASSUME NEW S \in SUBSET Runs, ReturnCredits(S)
      PROVE  reservation'[r] = "CONSUMED" /\ allocation'[r] = allocation[r]
  <2>1. r \notin Held(S) /\ \A b \in Buckets : r \notin HeldOn(b, S)
    BY DEF Held, HeldOn
  <2>2. allocation'[r] = [b \in Buckets |-> allocation[r][b]]
    BY <1>5, <2>1 DEF ReturnCredits
  <2>3. reservation'[r] = reservation[r]
    BY <1>5, <2>1 DEF ReturnCredits
  <2> QED  BY <2>2, <2>3
<1>6. ASSUME UNCHANGED <<reservation, allocation>>
      PROVE  reservation'[r] = "CONSUMED" /\ allocation'[r] = allocation[r]
  BY <1>6
<1>7. CASE UNCHANGED creditVars
  BY <1>6, <1>7 DEF creditVars
<1>8. CASE CreditNext
  <2>1. ASSUME NEW q \in Runs, BeginReserve(q) \/ AbandonReserve(q) \/ DayPasses(q)
        PROVE  UNCHANGED <<reservation, allocation>>
    BY <2>1 DEF BeginReserve, AbandonReserve, DayPasses, ledger
  <2>2. ASSUME NEW b \in Buckets, Fulfil(b) \/ WindowMoves(b)
        PROVE  UNCHANGED <<reservation, allocation>>
    BY <2>2 DEF Fulfil, WindowMoves, ledger
  <2>3. ASSUME Approve PROVE UNCHANGED <<reservation, allocation>>
    BY <2>3 DEF Approve, ledger
  <2>4. ASSUME NEW S \in SUBSET Runs, Refund(S) PROVE ReturnCredits(S)
    BY <2>4 DEF Refund
  <2>5. ASSUME NEW d \in Decisions, Stop(d) PROVE ReturnCredits(Runs)
    BY <2>5 DEF Stop
  <2> QED
    BY <1>3, <1>4, <1>5, <1>6, <1>8, <2>1, <2>2, <2>3, <2>4, <2>5 DEF CreditNext
<1> QED  BY <1>7, <1>8

\* No refund, stop, retry or late success changes a consumed reservation.
THEOREM ChargesAreFinal == CreditSpec => ChargeIsFinal
<1>1. LedgerInv /\ [CreditNext]_creditVars =>
        [\A r \in Runs : reservation[r] = "CONSUMED" =>
            reservation'[r] = "CONSUMED" /\ allocation'[r] = allocation[r]]_creditVars
  BY ConsumedStays
<1> QED  BY <1>1, LedgerAlways, PTL DEF CreditSpec, ChargeIsFinal

=============================================================================
