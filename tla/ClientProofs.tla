---------------------------- MODULE ClientProofs ----------------------------
(***************************************************************************)
(* Proofs about agreements, their delivery and their renewals, for any     *)
(* number of contracts, signers, obligations and opportunities, and with   *)
(* their requests in any order (ClientSpec; the runs take one contract at  *)
(* a time through its negotiation and then through its delivery).          *)
(***************************************************************************)
EXTENDS ClientPages, FiniteSetTheorems, TLAPS

\* The fields of the rows.
ContractFields == {"status", "opportunity", "version", "approved"}
ProgrammeFields == {"status", "version", "review", "renewal"}
ObligationFields == {"status", "due", "proof", "evidence"}
CaseFields == {"status", "intent", "snapshot", "approvedOn", "handedOn", "opportunity"}

\* Every table has a row for each contract, or for each obligation of one.
ClientRows ==
    /\ DOMAIN contract = Contracts /\ DOMAIN signer = Contracts /\ DOMAIN payment = Contracts
    /\ DOMAIN programme = Contracts /\ DOMAIN obligation = Contracts /\ DOMAIN case = Contracts
    /\ \A k \in Contracts :
         /\ DOMAIN contract[k] = ContractFields
         /\ DOMAIN payment[k] = {"status", "paid"}
         /\ DOMAIN programme[k] = ProgrammeFields
         /\ DOMAIN case[k] = CaseFields
         /\ DOMAIN obligation[k] = Obligations
         /\ \A b \in Obligations : DOMAIN obligation[k][b] = ObligationFields

-----------------------------------------------------------------------------
(***************************************************************************)
(* Agreements.  From its approval on, the current version of a contract is *)
(* the approved one, and once it was sent for signature it is never        *)
(* revised again.  It counts as signed while all of its signers have       *)
(* signed, and its programme exists from its activation on.                *)
(***************************************************************************)
Sent == {"SENT_FOR_SIGNATURE", "PARTIALLY_SIGNED", "SIGNED", "ACTIVE", "TERMINATED"}

Agreed(k) ==
    /\ contract[k].status \in Sent \cup {"APPROVED"} => contract[k].version = contract[k].approved
    /\ contract[k].status \in {"SIGNED", "ACTIVE"} => \A s \in Signers : signer[k][s] = "SIGNED"
    /\ contract[k].status = "ACTIVE" => programme[k].version = contract[k].version
    /\ payment[k].status \notin {"DRAFT", "DUE"} => contract[k].status \in Sent
    /\ programme[k].status # "NONE" => contract[k].status \in {"ACTIVE", "TERMINATED"}

-----------------------------------------------------------------------------
(***************************************************************************)
(* Delivery.  What is verified and needs a proof has one, whatever the     *)
(* state of its programme, since a closed obligation is never edited.  An  *)
(* obligation has a programme, which is open as long as the obligation is. *)
(***************************************************************************)
Proven(k) ==
    \A b \in Obligations :
        LET row == obligation[k][b] IN
        /\ row.status \in DOMAIN Transitions \cup {"NONE"}
        /\ row.status # "NONE" => programme[k].status \in {"SETUP", "ACTIVE", "AT_RISK", "COMPLETED"}
        /\ row.status = "VERIFIED" /\ row.proof => row.evidence = "verified"
        /\ programme[k].status = "COMPLETED" /\ row.status # "NONE" => row.status \in Closed

(***************************************************************************)
(* Renewals.  A case has an opportunity only when it is final, so nothing  *)
(* is prepared again behind what was handed over; and there is a case only *)
(* where a programme was under way, so an activation finds none.           *)
(***************************************************************************)
UnderWay == {"ACTIVE", "AT_RISK", "COMPLETED"}
CaseStatus == {"NONE", "DRAFT", "REVIEW_READY", "ON_HOLD", "APPROVED"} \cup Final

\* A case c and its programme p.
Agrees(c, p) ==
    /\ c.status \in CaseStatus
    /\ c.intent \in {"NONE", "RENEW", "HOLD", "EXIT"}
    /\ c.status = "REVIEW_READY" => c.intent # "NONE"
    /\ c.status # "NONE" => p.status \in UnderWay
    /\ c.opportunity # Nothing => c.status \in Final /\ c.handedOn = c.approvedOn
    /\ c.status = "APPROVED" => c.intent = "RENEW" /\ c.approvedOn = c.snapshot
    /\ p.renewal =
          CASE c.status = "NONE" -> "NOT_STARTED"
            [] c.status \in {"RENEWED", "DECLINED"} -> c.status
            [] OTHER -> "IN_PROGRESS"

Renewed(k) == Agrees(case[k], programme[k])

ClientInv == ClientRows /\ \A k \in Contracts : Agreed(k) /\ Proven(k) /\ Renewed(k)

-----------------------------------------------------------------------------
(***************************************************************************)
(* Steps of an agreement.                                                  *)
(***************************************************************************)

\* A step of the agreement that leaves its delivery alone.
LEMMA DeliveryRests ==
    ASSUME ClientInv, UNCHANGED <<programme, obligation, case>>, NEW m \in Contracts
    PROVE  Proven(m)' /\ Renewed(m)'
<1>1. Proven(m) /\ Renewed(m)
  BY DEF ClientInv
<1> QED  BY <1>1 DEF Proven, Renewed

\* A step that changes the contract row alone.
LEMMA ContractMoves ==
    ASSUME ClientInv, NEW k \in Contracts, NEW row,
           DOMAIN row = ContractFields,
           row.status \in Sent \cup {"APPROVED"} => row.version = row.approved,
           row.status # "ACTIVE",
           row.status = "SIGNED" => \A s \in Signers : signer'[k][s] = "SIGNED",
           payment[k].status \notin {"DRAFT", "DUE"} => row.status \in Sent,
           programme[k].status # "NONE" => row.status = "TERMINATED",
           contract' = [contract EXCEPT ![k] = row],
           DOMAIN signer' = Contracts,
           \A m \in Contracts \ {k} : signer'[m] = signer[m],
           UNCHANGED <<payment, programme, obligation, case>>
    PROVE  ClientInv'
<1>1. ClientRows'
  BY DEF ClientInv, ClientRows
<1>2. ASSUME NEW m \in Contracts PROVE Agreed(m)'
  <2>1. contract'[m] = IF m = k THEN row ELSE contract[m]
    BY DEF ClientInv, ClientRows
  <2>2. Agreed(m)
    BY DEF ClientInv
  <2> QED  BY <2>1, <2>2 DEF Agreed
<1> QED  BY <1>1, <1>2, DeliveryRests DEF ClientInv

\* A step that moves the status of a contract, and nothing else in its row.
LEMMA StatusMoves ==
    ASSUME ClientInv, NEW k \in Contracts, NEW to,
           to \in Sent => contract[k].status \in Sent \cup {"APPROVED"},
           to \notin {"ACTIVE", "APPROVED"},
           to = "SIGNED" => \A s \in Signers : signer'[k][s] = "SIGNED",
           contract[k].status \in Sent => to \in Sent,
           contract[k].status \in {"ACTIVE", "TERMINATED"} => to = "TERMINATED",
           contract' = [contract EXCEPT ![k].status = to],
           DOMAIN signer' = Contracts,
           \A m \in Contracts \ {k} : signer'[m] = signer[m],
           UNCHANGED <<payment, programme, obligation, case>>
    PROVE  ClientInv'
<1> DEFINE row == [contract[k] EXCEPT !.status = to]
<1>1. DOMAIN contract[k] = ContractFields
  BY DEF ClientInv, ClientRows
<1>2. DOMAIN row = ContractFields /\ row.status = to
      /\ row.version = contract[k].version /\ row.approved = contract[k].approved
  BY <1>1 DEF ContractFields
<1>3. contract' = [contract EXCEPT ![k] = row]
  BY DEF ClientInv, ClientRows
<1>4. Agreed(k)
  BY DEF ClientInv
<1> HIDE DEF row
<1>5. /\ row.status \in Sent \cup {"APPROVED"} => row.version = row.approved
      /\ row.status # "ACTIVE"
      /\ row.status = "SIGNED" => \A s \in Signers : signer'[k][s] = "SIGNED"
      /\ payment[k].status \notin {"DRAFT", "DUE"} => row.status \in Sent
      /\ programme[k].status # "NONE" => row.status = "TERMINATED"
  BY <1>2, <1>4 DEF Agreed
<1> QED  BY <1>2, <1>3, <1>5, ContractMoves

\* Each request about a contract keeps the invariant.
LEMMA SealKeeps ==
    ASSUME ClientInv, SealNext, UNCHANGED deliveryVars
    PROVE  ClientInv'
<1> USE DEF deliveryVars
<1>1. ASSUME NEW k \in Contracts, NEW to, Move(k, to), UNCHANGED signer,
             \/ CanSubmitReview(k) /\ to = "IN_REVIEW"
             \/ CanReview(k) /\ to = "REJECTED"
             \/ CanTerminate(k) /\ to = "TERMINATED"
      PROVE  ClientInv'
  <2>1. /\ contract' = [contract EXCEPT ![k].status = to]
        /\ UNCHANGED <<payment, programme, obligation, case>>
        /\ DOMAIN signer' = Contracts /\ \A m \in Contracts \ {k} : signer'[m] = signer[m]
    BY <1>1 DEF Move, ClientInv, ClientRows
  <2>2. /\ to \in Sent => contract[k].status \in Sent \cup {"APPROVED"}
        /\ to \notin {"ACTIVE", "APPROVED", "SIGNED"}
        /\ contract[k].status \in Sent => to \in Sent
        /\ contract[k].status \in {"ACTIVE", "TERMINATED"} => to = "TERMINATED"
    BY <1>1 DEF CanSubmitReview, CanReview, CanTerminate, Sent
  <2> QED  BY <2>1, <2>2, StatusMoves
<1>2. ASSUME NEW k \in Contracts, Approve(k) PROVE ClientInv'
  <2> DEFINE row == [contract[k] EXCEPT !.status = "APPROVED", !.approved = contract[k].version]
  <2>1. DOMAIN contract[k] = ContractFields /\ Agreed(k)
    BY DEF ClientInv, ClientRows
  <2>2. DOMAIN row = ContractFields /\ row.status = "APPROVED" /\ row.version = row.approved
    BY <2>1 DEF ContractFields
  <2>3. contract' = [contract EXCEPT ![k] = row] /\ contract[k].status = "IN_REVIEW"
    BY <1>2 DEF Approve, CanReview, ClientInv, ClientRows
  <2>4. UNCHANGED <<signer, payment, programme, obligation, case>>
    BY <1>2 DEF Approve
  <2> HIDE DEF row
  <2> QED  BY <2>1, <2>2, <2>3, <2>4, ContractMoves DEF Agreed, Sent, ClientInv, ClientRows
<1>3. ASSUME NEW k \in Contracts, MarkSent(k) PROVE ClientInv'
  <2>1. /\ contract[k].status = "APPROVED"
        /\ contract' = [contract EXCEPT ![k].status = "SENT_FOR_SIGNATURE"]
        /\ UNCHANGED <<payment, programme, obligation, case>>
    BY <1>3 DEF MarkSent, CanMarkSent, Move
  <2>2. DOMAIN signer' = Contracts /\ \A m \in Contracts \ {k} : signer'[m] = signer[m]
    BY <1>3 DEF MarkSent, ClientInv, ClientRows
  <2> DEFINE to == "SENT_FOR_SIGNATURE"
  <2>3. /\ contract' = [contract EXCEPT ![k].status = to]
        /\ to \notin {"ACTIVE", "APPROVED", "SIGNED"}
        /\ contract[k].status \in Sent => to \in Sent
        /\ contract[k].status \in {"ACTIVE", "TERMINATED"} => to = "TERMINATED"
        /\ to \in Sent => contract[k].status \in Sent \cup {"APPROVED"}
    BY <2>1 DEF Sent
  <2> HIDE DEF to
  <2> QED  BY <2>1, <2>2, <2>3, StatusMoves
<1>4. ASSUME NEW k \in Contracts, NEW s \in Signers, NEW status, UpdateSigner(k, s, status)
      PROVE  ClientInv'
  <2>1. PICK to \in {"SIGNED", "PARTIALLY_SIGNED", "SENT_FOR_SIGNATURE"} :
            /\ contract' = [contract EXCEPT ![k].status = to]
            /\ to = "SIGNED" => \A x \in Signers : signer'[k][x] = "SIGNED"
    <3> DEFINE now == [signer[k] EXCEPT ![s] = status]
    <3>1. signer'[k] = now
      BY <1>4 DEF UpdateSigner, ClientInv, ClientRows
    <3> QED  BY <1>4, <3>1 DEF UpdateSigner
  <2>2. DOMAIN signer' = Contracts /\ \A m \in Contracts \ {k} : signer'[m] = signer[m]
    BY <1>4 DEF UpdateSigner, ClientInv, ClientRows
  <2> QED  BY <1>4, <2>1, <2>2, StatusMoves DEF UpdateSigner, CanUpdateSigner, Sent
<1>5. ASSUME NEW k \in Contracts, NEW o \in Opportunities, CreateContract(k, o)
      PROVE  ClientInv'
  <2> DEFINE row == [status |-> "DRAFT", opportunity |-> o, version |-> 1, approved |-> 0]
  <2>1. DOMAIN row = ContractFields /\ row.status = "DRAFT"
    BY DEF ContractFields
  <2>2. contract' = [contract EXCEPT ![k] = row] /\ contract[k].status = "NONE"
    BY <1>5 DEF CreateContract, CanCreateContract, NoContract
  <2>3. UNCHANGED <<signer, payment, programme, obligation, case>>
    BY <1>5 DEF CreateContract
  <2>4. Agreed(k)
    BY DEF ClientInv
  <2> HIDE DEF row
  <2> QED  BY <2>1, <2>2, <2>3, <2>4, ContractMoves DEF Agreed, Sent, ClientInv, ClientRows
<1>6. ASSUME NEW k \in Contracts, Revise(k) PROVE ClientInv'
  <2>1. ASSUME NEW m \in Contracts PROVE Agreed(m)'
    <3>1. Agreed(m)
      BY DEF ClientInv
    <3> QED  BY <1>6, <3>1 DEF Revise, CanRevise, Agreed, Unpaid, Sent, ClientInv, ClientRows, ContractFields
  <2>2. ClientRows'
    BY <1>6 DEF Revise, Unpaid, ClientInv, ClientRows, ContractFields
  <2> QED  BY <1>6, <2>1, <2>2, DeliveryRests DEF Revise, ClientInv
<1>7. ASSUME NEW k \in Contracts, NEW status, NEW paid, RecordPayment(k, status, paid)
      PROVE  ClientInv'
  <2>1. ASSUME NEW m \in Contracts PROVE Agreed(m)'
    <3>1. Agreed(m)
      BY DEF ClientInv
    <3> QED  BY <1>7, <3>1 DEF RecordPayment, CanRecordPayment, Agreed, Sent, ClientInv, ClientRows
  <2>2. ClientRows'
    BY <1>7 DEF RecordPayment, ClientInv, ClientRows
  <2> QED  BY <1>7, <2>1, <2>2, DeliveryRests DEF RecordPayment, ClientInv
<1>8. ASSUME NEW k \in Contracts, NEW ds \in SUBSET Obligations, NEW won \in BOOLEAN,
             Activate(k, ds, won)
      PROVE  ClientInv'
  <2>1. contract[k].status = "SIGNED" /\ programme[k].status = "NONE" /\ case[k].status = "NONE"
    BY <1>8 DEF Activate, CanActivate, ClientInv, Agreed, Renewed, Agrees, UnderWay
  <2>2. ClientRows'
    BY <1>8 DEF Activate, NoProgramme, NoObligation, ClientInv, ClientRows, ContractFields,
                ProgrammeFields, ObligationFields
  <2>3. ASSUME NEW m \in Contracts PROVE Agreed(m)'
    <3>1. Agreed(m)
      BY DEF ClientInv
    <3> QED  BY <1>8, <2>1, <3>1 DEF Activate, CanActivate, Agreed, Sent, NoProgramme, ClientInv, ClientRows,
                                     ContractFields
  <2>4. ASSUME NEW m \in Contracts PROVE Proven(m)'
    <3>1. Proven(m)
      BY DEF ClientInv
    <3>2. CASE m # k
      BY <1>8, <3>1, <3>2 DEF Activate, Proven, ClientInv, ClientRows
    <3>3. CASE m = k
      <4>1. programme'[m].status = "SETUP"
        BY <1>8, <3>3 DEF Activate, NoProgramme, ClientInv, ClientRows
      <4>2. ASSUME NEW b \in Obligations PROVE obligation'[m][b].status \in {"PLANNED", "NONE"}
        BY <1>8, <3>3 DEF Activate, NoObligation, ClientInv, ClientRows
      <4> QED  BY <4>1, <4>2 DEF Proven, Transitions
    <3> QED  BY <3>2, <3>3
  <2>5. ASSUME NEW m \in Contracts PROVE Renewed(m)'
    <3>1. Renewed(m)
      BY DEF ClientInv
    <3>2. CASE m # k
      BY <1>8, <3>1, <3>2 DEF Activate, Renewed, ClientInv, ClientRows
    <3>3. CASE m = k
      BY <1>8, <2>1, <3>1, <3>3 DEF Activate, Renewed, Agrees, NoProgramme, ClientInv, ClientRows
    <3> QED  BY <3>2, <3>3
  <2> QED  BY <2>2, <2>3, <2>4, <2>5 DEF ClientInv
<1>9. ASSUME NEW o \in Opportunities, NEW s \in Stages, CreateOpportunity(o, s) \/ ApproveDebrief(o, s)
      PROVE  ClientInv'
  <2>1. UNCHANGED <<contract, signer, payment, programme, obligation, case>>
    BY <1>9 DEF CreateOpportunity, ApproveDebrief
  <2> QED  BY <2>1, DeliveryRests DEF ClientInv, ClientRows, Agreed
<1> QED  BY <1>1, <1>2, <1>3, <1>4, <1>5, <1>6, <1>7, <1>8, <1>9
        DEF SealNext, SubmitReview, Reject, Terminate

-----------------------------------------------------------------------------
(***************************************************************************)
(* Steps of a delivery.                                                    *)
(***************************************************************************)

\* One obligation of a contract changes.
LEMMA ObligationMoves ==
    ASSUME ClientInv, NEW k \in Contracts, NEW b \in Obligations, NEW row,
           DOMAIN row = ObligationFields,
           row.status = "VERIFIED" /\ row.proof => row.evidence = "verified",
           row.status \in DOMAIN Transitions \cup {"NONE"},
           row.status # "NONE" => programme[k].status \in {"SETUP", "ACTIVE", "AT_RISK", "COMPLETED"},
           programme[k].status = "COMPLETED" /\ row.status # "NONE" => row.status \in Closed,
           obligation' = [obligation EXCEPT ![k][b] = row],
           UNCHANGED <<contract, signer, payment, programme, case>>
    PROVE  ClientInv'
<1>1. ASSUME NEW m \in Contracts, NEW c \in Obligations
      PROVE  obligation'[m][c] = IF m = k /\ c = b THEN row ELSE obligation[m][c]
  BY DEF ClientInv, ClientRows
<1>2. ClientRows'
  <2>1. ASSUME NEW m \in Contracts, NEW c \in Obligations
        PROVE  DOMAIN obligation'[m] = Obligations /\ DOMAIN obligation'[m][c] = ObligationFields
    BY <1>1 DEF ClientInv, ClientRows
  <2>2. \A m \in Contracts : DOMAIN obligation'[m] = Obligations
    BY DEF ClientInv, ClientRows
  <2> QED  BY <2>1, <2>2 DEF ClientInv, ClientRows
<1>3. ASSUME NEW m \in Contracts PROVE Agreed(m)' /\ Proven(m)' /\ Renewed(m)'
  <2>1. Agreed(m) /\ Proven(m) /\ Renewed(m)
    BY DEF ClientInv
  <2>2. Agreed(m)' /\ Renewed(m)'
    BY <2>1 DEF Agreed, Renewed
  <2>3. Proven(m)'
    BY <1>1, <2>1 DEF Proven
  <2> QED  BY <2>2, <2>3
<1> QED  BY <1>2, <1>3 DEF ClientInv

\* A case and its programme change.
LEMMA CaseAndProgrammeMove ==
    ASSUME ClientInv, NEW k \in Contracts, NEW c, NEW p,
           DOMAIN c = CaseFields, DOMAIN p = ProgrammeFields,
           p.version = programme[k].version, p.status # "NONE" => programme[k].status # "NONE",
           Agrees(c, p),
           DOMAIN case' = Contracts, case'[k] = c,
           \A m \in Contracts \ {k} : case'[m] = case[m],
           DOMAIN programme' = Contracts, programme'[k] = p,
           \A m \in Contracts \ {k} : programme'[m] = programme[m],
           UNCHANGED <<contract, signer, payment>>,
           DOMAIN obligation' = Contracts,
           \A m \in Contracts :
               /\ DOMAIN obligation'[m] = Obligations
               /\ \A b \in Obligations : DOMAIN obligation'[m][b] = ObligationFields
               /\ Proven(m)'
    PROVE  ClientInv'
<1>1. ClientRows'
  BY DEF ClientInv, ClientRows
<1>2. ASSUME NEW m \in Contracts PROVE Agreed(m)' /\ Renewed(m)'
  <2>1. /\ case'[m] = IF m = k THEN c ELSE case[m]
        /\ programme'[m] = IF m = k THEN p ELSE programme[m]
    BY DEF ClientInv, ClientRows
  <2>2. Agreed(m) /\ Renewed(m)
    BY DEF ClientInv
  <2>3. Agreed(m)'
    BY <2>1, <2>2 DEF Agreed
  <2>4. Renewed(m)'
    BY <2>1, <2>2 DEF Renewed
  <2> QED  BY <2>3, <2>4
<1> QED  BY <1>1, <1>2 DEF ClientInv

\* The same, with the obligations and the state of the programme as they were.
LEMMA CaseMovesAlone ==
    ASSUME ClientInv, NEW k \in Contracts, NEW c, NEW p,
           DOMAIN c = CaseFields, DOMAIN p = ProgrammeFields,
           p.version = programme[k].version, p.status = programme[k].status,
           Agrees(c, p),
           DOMAIN case' = Contracts, case'[k] = c,
           \A m \in Contracts \ {k} : case'[m] = case[m],
           DOMAIN programme' = Contracts, programme'[k] = p,
           \A m \in Contracts \ {k} : programme'[m] = programme[m],
           UNCHANGED <<contract, signer, payment, obligation>>
    PROVE  ClientInv'
<1>1. ASSUME NEW m \in Contracts PROVE Proven(m)'
  <2>1. programme'[m].status = programme[m].status
    BY DEF ClientInv, ClientRows
  <2>2. Proven(m)
    BY DEF ClientInv
  <2> QED  BY <2>1, <2>2 DEF Proven
<1>2. DOMAIN obligation' = Contracts /\ \A m \in Contracts :
          DOMAIN obligation'[m] = Obligations /\ \A b \in Obligations : DOMAIN obligation'[m][b] = ObligationFields
  BY DEF ClientInv, ClientRows
<1> QED  BY <1>1, <1>2, CaseAndProgrammeMove

\* What prepareInTransaction makes of a case agrees with the programme it writes.
LEMMA PreparedAgrees ==
    ASSUME NEW c, NEW p, NEW q, NEW facts,
           DOMAIN c = CaseFields, c.status \notin Final, Agrees(c, p),
           DOMAIN q = ProgrammeFields, q.renewal = p.renewal, q.status \in UnderWay,
           NEW r, r = IF q.renewal = "NOT_STARTED" THEN [q EXCEPT !.renewal = "IN_PROGRESS"] ELSE q
    PROVE  /\ DOMAIN Prepared(c, facts) = CaseFields
           /\ DOMAIN r = ProgrammeFields /\ r.version = q.version /\ r.status = q.status
           /\ Agrees(Prepared(c, facts), r)
<1>1. /\ DOMAIN Prepared(c, facts) = CaseFields
      /\ Prepared(c, facts).status = "DRAFT" /\ Prepared(c, facts).intent = c.intent
      /\ Prepared(c, facts).opportunity = c.opportunity
  BY DEF Prepared, CaseFields
<1>2. /\ DOMAIN r = ProgrammeFields /\ r.version = q.version /\ r.status = q.status
      /\ r.renewal = IF q.renewal = "NOT_STARTED" THEN "IN_PROGRESS" ELSE q.renewal
  BY DEF ProgrammeFields
<1>3. c.opportunity = Nothing
  BY DEF Agrees
<1>4. p.renewal \in {"NOT_STARTED", "IN_PROGRESS"}
  BY DEF Agrees, Final
<1> QED  BY <1>1, <1>2, <1>3, <1>4 DEF Agrees, CaseStatus, Final

\* The requests about an obligation keep the invariant.
LEMMA ObligationKeeps ==
    ASSUME ClientInv, NEW k \in Contracts, NEW b \in Obligations,
           \/ \E due \in Dates, proof \in BOOLEAN :
                 CreateObligation(k, b, due, proof) \/ UpdateObligation(k, b, due, proof)
           \/ RecordEvidence(k, b) \/ VerifyEvidence(k, b) \/ DeadlinePasses(k, b)
           \/ \E to \in DOMAIN Transitions : Transition(k, b, to)
    PROVE  ClientInv'
<1> USE DEF deliveryVars, Kept
<1>1. /\ DOMAIN obligation[k][b] = ObligationFields /\ Proven(k)
      /\ DOMAIN obligation = Contracts /\ DOMAIN obligation[k] = Obligations
  BY DEF ClientInv, ClientRows
<1>2. ASSUME NEW row, IsOpen(k), Change(k, b, row), DOMAIN row = ObligationFields,
             row.status \in DOMAIN Transitions \cup {"NONE"},
             row.status = "VERIFIED" /\ row.proof => row.evidence = "verified"
      PROVE  ClientInv'
  BY <1>2, ObligationMoves DEF Change, IsOpen
<1>3. ASSUME NEW due, NEW proof, CreateObligation(k, b, due, proof) PROVE ClientInv'
  <2> DEFINE row == [NoObligation EXCEPT !.due = due, !.proof = proof,
                        !.status = IF programme[k].status = "SETUP" THEN "PLANNED" ELSE "READY"]
  <2>1. DOMAIN row = ObligationFields /\ row.status \in {"PLANNED", "READY"}
    BY DEF NoObligation, ObligationFields
  <2>2. IsOpen(k) /\ Change(k, b, row)
    BY <1>3 DEF CreateObligation, CanCreateObligation
  <2> HIDE DEF row
  <2> QED  BY <1>2, <2>1, <2>2 DEF Transitions
<1>4. ASSUME NEW due, NEW proof, UpdateObligation(k, b, due, proof) PROVE ClientInv'
  <2> DEFINE row == [obligation[k][b] EXCEPT !.due = due, !.proof = proof,
                        !.status = IF @ = "OVERDUE" /\ due # "past" THEN "READY" ELSE @]
  <2>1. IsOpen(k) /\ Editable(obligation[k][b]) /\ Change(k, b, row)
    BY <1>4 DEF UpdateObligation, CanUpdateObligation
  <2>2. /\ DOMAIN row = ObligationFields /\ row.status # "VERIFIED"
        /\ row.status \in {"READY", obligation[k][b].status}
    BY <1>1, <2>1 DEF ObligationFields, Editable, Closed
  <2> HIDE DEF row
  <2> QED  BY <1>1, <1>2, <2>1, <2>2 DEF Proven, Transitions
<1>5. ASSUME RecordEvidence(k, b) PROVE ClientInv'
  <2> DEFINE row == [obligation[k][b] EXCEPT !.evidence = "attached"]
  <2>1. IsOpen(k) /\ Editable(obligation[k][b]) /\ Change(k, b, row)
    BY <1>5 DEF RecordEvidence, CanRecordEvidence
  <2>2. DOMAIN row = ObligationFields /\ row.status # "VERIFIED" /\ row.status = obligation[k][b].status
    BY <1>1, <2>1 DEF ObligationFields, Editable, Closed
  <2> HIDE DEF row
  <2> QED  BY <1>1, <1>2, <2>1, <2>2 DEF Proven
<1>6. ASSUME VerifyEvidence(k, b) PROVE ClientInv'
  <2> DEFINE row == [obligation[k][b] EXCEPT !.evidence = "verified"]
  <2>1. DOMAIN row = ObligationFields /\ row.status = obligation[k][b].status /\ row.evidence = "verified"
    BY <1>1 DEF ObligationFields
  <2>2. obligation' = [obligation EXCEPT ![k][b] = row]
        /\ UNCHANGED <<contract, signer, payment, programme, case>>
    BY <1>1, <1>6 DEF VerifyEvidence, Change
  <2>3. /\ row.status \in DOMAIN Transitions \cup {"NONE"}
        /\ row.status # "NONE" => programme[k].status \in {"SETUP", "ACTIVE", "AT_RISK", "COMPLETED"}
        /\ programme[k].status = "COMPLETED" /\ row.status # "NONE" => row.status \in Closed
    BY <1>1, <2>1 DEF Proven
  <2> HIDE DEF row
  <2> QED  BY <2>1, <2>2, <2>3, ObligationMoves
<1>7. ASSUME DeadlinePasses(k, b) PROVE ClientInv'
  <2> DEFINE row == [obligation[k][b] EXCEPT !.due = "past"]
  <2>1. DOMAIN row = ObligationFields /\ row.status = obligation[k][b].status
        /\ row.proof = obligation[k][b].proof /\ row.evidence = obligation[k][b].evidence
    BY <1>1 DEF ObligationFields
  <2>2. obligation' = [obligation EXCEPT ![k][b] = row]
        /\ UNCHANGED <<contract, signer, payment, programme, case>>
    BY <1>1, <1>7 DEF DeadlinePasses, Change
  <2>3. /\ row.status \in DOMAIN Transitions \cup {"NONE"}
        /\ row.status # "NONE" => programme[k].status \in {"SETUP", "ACTIVE", "AT_RISK", "COMPLETED"}
        /\ programme[k].status = "COMPLETED" /\ row.status # "NONE" => row.status \in Closed
        /\ row.status = "VERIFIED" /\ row.proof => row.evidence = "verified"
    BY <1>1, <2>1 DEF Proven
  <2> HIDE DEF row
  <2> QED  BY <2>1, <2>2, <2>3, ObligationMoves
<1>8. ASSUME NEW to \in DOMAIN Transitions, Transition(k, b, to) PROVE ClientInv'
  <2> DEFINE row == [obligation[k][b] EXCEPT !.status = to]
  <2>1. DOMAIN row = ObligationFields /\ row.status = to
        /\ row.proof = obligation[k][b].proof /\ row.evidence = obligation[k][b].evidence
    BY <1>1 DEF ObligationFields
  <2>2. /\ IsOpen(k) /\ Change(k, b, row)
        /\ obligation[k][b].proof => (to = "VERIFIED" => obligation[k][b].evidence = "verified")
    BY <1>8 DEF Transition, CanTransition
  <2> HIDE DEF row
  <2> QED  BY <1>2, <1>8, <2>1, <2>2
<1> QED  BY <1>3, <1>4, <1>5, <1>6, <1>7, <1>8

\* The requests about a programme and its renewal keep the invariant.
LEMMA CaseKeeps ==
    ASSUME ClientInv, NEW k \in Contracts,
           \/ PrepareCase(k) \/ SubmitCase(k) \/ ApproveCase(k)
           \/ \E intent \in {"RENEW", "HOLD", "EXIT"} : UpdateCase(k, intent)
           \/ \E o \in Opportunities : Handoff(k, o)
    PROVE  ClientInv'
<1> USE DEF Kept
<1>1. /\ DOMAIN case = Contracts /\ DOMAIN case[k] = CaseFields
      /\ DOMAIN programme = Contracts /\ DOMAIN programme[k] = ProgrammeFields
      /\ Agrees(case[k], programme[k])
  BY DEF ClientInv, ClientRows, Renewed
<1>2. ASSUME NEW c, DOMAIN c = CaseFields, Agrees(c, programme[k]), CaseMoves(k, c)
      PROVE  ClientInv'
  <2> QED  BY <1>1, <1>2, CaseMovesAlone DEF CaseMoves
<1>3. CASE PrepareCase(k)
  <2> DEFINE c == Prepared(case[k], Facts(programme[k], obligation[k], report[k]))
             p == IF programme[k].renewal = "NOT_STARTED"
                  THEN [programme[k] EXCEPT !.renewal = "IN_PROGRESS"] ELSE programme[k]
  <2>1. /\ case[k].status \notin Final /\ programme[k].status \in UnderWay
        /\ case' = [case EXCEPT ![k] = c] /\ programme' = [programme EXCEPT ![k] = p]
        /\ UNCHANGED <<contract, signer, payment, obligation>>
    BY <1>1, <1>3 DEF PrepareCase, CanPrepare, Prepare, UnderWay
  <2>2. /\ DOMAIN c = CaseFields /\ DOMAIN p = ProgrammeFields
        /\ p.version = programme[k].version /\ p.status = programme[k].status /\ Agrees(c, p)
    BY <1>1, <2>1, PreparedAgrees
  <2> HIDE DEF c, p
  <2> QED  BY <1>1, <2>1, <2>2, CaseMovesAlone
<1>4. CASE SubmitCase(k)
  <2> DEFINE c == [case[k] EXCEPT !.status = "REVIEW_READY"]
  <2>1. DOMAIN c = CaseFields /\ Agrees(c, programme[k])
    BY <1>1, <1>4 DEF SubmitCase, CanSubmitCase, Agrees, CaseStatus, Final, CaseFields
  <2>2. CaseMoves(k, c)
    BY <1>4 DEF SubmitCase
  <2> HIDE DEF c
  <2> QED  BY <1>2, <2>1, <2>2
<1>5. CASE ApproveCase(k)
  <2> DEFINE c == [case[k] EXCEPT !.status = Decided(case[k].intent), !.approvedOn = CurrentFacts(k)]
             p == [programme[k] EXCEPT !.renewal = IF case[k].intent = "EXIT" THEN "DECLINED" ELSE "IN_PROGRESS"]
  <2>1. case[k].status = "REVIEW_READY" /\ case[k].snapshot = CurrentFacts(k)
    BY <1>5 DEF ApproveCase, CanApproveCase, Fresh
  <2>2. case' = [case EXCEPT ![k] = c]
    BY <1>1, <1>5 DEF ApproveCase
  <2>3. programme' = [programme EXCEPT ![k] = p] /\ UNCHANGED <<contract, signer, payment, obligation>>
    BY <1>1, <1>5 DEF ApproveCase
  <2>4. /\ DOMAIN c = CaseFields /\ c.status = Decided(case[k].intent) /\ c.intent = case[k].intent
        /\ c.approvedOn = CurrentFacts(k) /\ c.snapshot = case[k].snapshot
        /\ c.opportunity = case[k].opportunity
    BY <1>1 DEF CaseFields
  <2>5. /\ DOMAIN p = ProgrammeFields /\ p.version = programme[k].version /\ p.status = programme[k].status
        /\ p.renewal = IF case[k].intent = "EXIT" THEN "DECLINED" ELSE "IN_PROGRESS"
    BY <1>1 DEF ProgrammeFields
  <2> HIDE DEF c, p
  <2>6. Agrees(c, p)
    BY <1>1, <2>1, <2>4, <2>5 DEF Agrees, Decided, CaseStatus, Final
  <2> QED  BY <1>1, <2>2, <2>3, <2>4, <2>5, <2>6, CaseMovesAlone
<1>6. ASSUME NEW intent \in {"RENEW", "HOLD", "EXIT"}, UpdateCase(k, intent) PROVE ClientInv'
  <2> DEFINE c == [case[k] EXCEPT !.status = "DRAFT", !.intent = intent, !.approvedOn = NoFacts]
  <2>1. DOMAIN c = CaseFields /\ Agrees(c, programme[k])
    BY <1>1, <1>6 DEF UpdateCase, CanUpdateCase, Agrees, CaseStatus, Final, CaseFields
  <2>2. CaseMoves(k, c)
    BY <1>6 DEF UpdateCase
  <2> HIDE DEF c
  <2> QED  BY <1>2, <2>1, <2>2
<1>7. ASSUME NEW o \in Opportunities, Handoff(k, o) PROVE ClientInv'
  <2> DEFINE c == [case[k] EXCEPT !.status = "HANDED_OFF", !.opportunity = o, !.handedOn = CurrentFacts(k)]
  <2>1. case[k].status = "APPROVED" /\ case[k].snapshot = CurrentFacts(k)
    BY <1>7 DEF Handoff, CanHandoff, Fresh
  <2>2. /\ DOMAIN c = CaseFields /\ c.status = "HANDED_OFF" /\ c.intent = case[k].intent
        /\ c.handedOn = CurrentFacts(k) /\ c.approvedOn = case[k].approvedOn
    BY <1>1 DEF CaseFields
  <2>3. /\ case' = [case EXCEPT ![k] = c] /\ programme' = programme
        /\ UNCHANGED <<contract, signer, payment, obligation>>
    BY <1>1, <1>7 DEF Handoff
  <2> HIDE DEF c
  <2>4. Agrees(c, programme[k])
    BY <1>1, <2>1, <2>2 DEF Agrees, CaseStatus, Final
  <2> QED  BY <1>1, <2>2, <2>3, <2>4, CaseMovesAlone
<1> QED  BY <1>3, <1>4, <1>5, <1>6, <1>7

\* The requests about a whole programme, the opportunities and the guard keep the invariant.
LEMMA ProgrammeKeeps ==
    ASSUME ClientInv,
           \/ \E k \in Contracts : CompleteProgramme(k) \/ Report(k)
           \/ \E k \in Contracts, review \in BOOLEAN : Configure(k, review)
           \/ \E o \in Opportunities, s \in Stages : UpdateOpportunity(o, s)
           \/ Reconcile
    PROVE  ClientInv'
<1> USE DEF Kept
<1>1. ASSUME NEW k \in Contracts
      PROVE  /\ DOMAIN case[k] = CaseFields /\ DOMAIN programme[k] = ProgrammeFields
             /\ DOMAIN obligation[k] = Obligations
             /\ \A b \in Obligations : DOMAIN obligation[k][b] = ObligationFields
             /\ Agreed(k) /\ Proven(k) /\ Renewed(k) /\ Agrees(case[k], programme[k])
  BY DEF ClientInv, ClientRows, Renewed
<1>2. /\ DOMAIN case = Contracts /\ DOMAIN programme = Contracts /\ DOMAIN obligation = Contracts
  BY DEF ClientInv, ClientRows
<1>3. ASSUME NEW k \in Contracts, CompleteProgramme(k) PROVE ClientInv'
  <2> DEFINE p == [programme[k] EXCEPT !.status = "COMPLETED"]
  <2>1. /\ DOMAIN p = ProgrammeFields /\ p.status = "COMPLETED"
        /\ p.version = programme[k].version /\ p.renewal = programme[k].renewal
    BY <1>1 DEF ProgrammeFields
  <2>2. /\ programme' = [programme EXCEPT ![k] = p]
        /\ programme[k].status \in {"ACTIVE", "AT_RISK"}
        /\ UNCHANGED <<contract, signer, payment, obligation, case>>
    BY <1>2, <1>3 DEF CompleteProgramme, CanComplete, deliveryVars
  <2> HIDE DEF p
  <2>3. ASSUME NEW m \in Contracts
        PROVE  /\ DOMAIN obligation'[m] = Obligations
               /\ \A b \in Obligations : DOMAIN obligation'[m][b] = ObligationFields
               /\ Proven(m)'
    <3>1. CASE m = k
      BY <1>1, <1>2, <1>3, <2>1, <2>2, <3>1 DEF CompleteProgramme, CanComplete, Rows, Proven, UnderWay
    <3>2. CASE m # k
      BY <1>1, <1>2, <2>2, <3>2 DEF Proven
    <3> QED  BY <1>1, <2>2, <3>1, <3>2
  <2>4. Agrees(case[k], p)
    BY <1>1, <2>1 DEF Agrees, UnderWay
  <2>5. /\ DOMAIN case' = Contracts /\ case'[k] = case[k]
        /\ \A m \in Contracts \ {k} : case'[m] = case[m]
    BY <1>2, <2>2
  <2> QED  BY <1>1, <1>2, <2>1, <2>2, <2>3, <2>4, <2>5, CaseAndProgrammeMove
<1>4. ASSUME NEW k \in Contracts, Report(k) PROVE ClientInv'
  <2>1. UNCHANGED <<contract, signer, payment, programme, obligation, case>>
    BY <1>4 DEF Report
  <2> QED  BY <2>1, DeliveryRests DEF ClientInv, ClientRows, Agreed
<1>5. ASSUME NEW k \in Contracts, NEW review \in BOOLEAN, Configure(k, review) PROVE ClientInv'
  <2> DEFINE q == [programme[k] EXCEPT !.status = "ACTIVE", !.review = review]
             obs == [b \in Obligations |->
                       IF obligation[k][b].status = "PLANNED" THEN [obligation[k][b] EXCEPT !.status = "READY"]
                       ELSE obligation[k][b]]
             c == IF review THEN Prepared(case[k], Facts(q, obs, report[k])) ELSE case[k]
             p == IF review /\ q.renewal = "NOT_STARTED" THEN [q EXCEPT !.renewal = "IN_PROGRESS"] ELSE q
  <2>1. /\ DOMAIN q = ProgrammeFields /\ q.status = "ACTIVE"
        /\ q.version = programme[k].version /\ q.renewal = programme[k].renewal
    BY <1>1 DEF ProgrammeFields
  <2>2. /\ obligation' = [obligation EXCEPT ![k] = obs]
        /\ UNCHANGED <<contract, signer, payment>>
        /\ IsOpen(k)
        /\ review => case[k].status \notin Final
        /\ programme' = [programme EXCEPT ![k] = p]
    BY <1>5 DEF Configure, CanConfigure, CanPrepare, Prepare, Activated
  <2>3. /\ DOMAIN case' = Contracts /\ case'[k] = c
        /\ \A m \in Contracts \ {k} : case'[m] = case[m]
    BY <1>2, <1>5 DEF Configure, Prepare, Activated
  <2>4. ASSUME NEW b \in Obligations
        PROVE  /\ DOMAIN obs[b] = ObligationFields
               /\ obs[b].proof = obligation[k][b].proof /\ obs[b].evidence = obligation[k][b].evidence
               /\ obs[b].status = obligation[k][b].status \/ obs[b].status = "READY"
    BY <1>1 DEF ObligationFields
  <2>5. DOMAIN obs = Obligations
    OBVIOUS
  <2> HIDE DEF q, obs
  <2>6. /\ DOMAIN c = CaseFields /\ DOMAIN p = ProgrammeFields
        /\ p.version = programme[k].version /\ p.status = "ACTIVE" /\ Agrees(c, p)
    <3>1. CASE review
      BY <1>1, <2>1, <2>2, <3>1, PreparedAgrees DEF UnderWay
    <3>2. CASE ~review
      BY <1>1, <2>1, <3>2 DEF Agrees, UnderWay
    <3> QED  BY <3>1, <3>2
  <2> HIDE DEF c, p
  <2>7. ASSUME NEW m \in Contracts
        PROVE  /\ DOMAIN obligation'[m] = Obligations
               /\ \A b \in Obligations : DOMAIN obligation'[m][b] = ObligationFields
               /\ Proven(m)'
    <3>1. CASE m = k
      BY <1>1, <1>2, <2>2, <2>4, <2>5, <2>6, <3>1 DEF Proven, Transitions
    <3>2. CASE m # k
      BY <1>1, <1>2, <2>2, <3>2 DEF Proven
    <3> QED  BY <3>1, <3>2
  <2>8. programme[k].status # "NONE"
    BY <2>2 DEF IsOpen
  <2> QED  BY <1>2, <2>2, <2>3, <2>6, <2>7, <2>8, CaseAndProgrammeMove
<1>6. ASSUME NEW o \in Opportunities, NEW s \in Stages, UpdateOpportunity(o, s) PROVE ClientInv'
  <2>1. PICK linked \in SUBSET {k \in Contracts : case[k].opportunity = o} :
           /\ case' = [k \in Contracts |->
                 IF k \in linked THEN [case[k] EXCEPT !.status = Outcome(s).case] ELSE case[k]]
           /\ programme' = [k \in Contracts |->
                 IF k \in linked THEN [programme[k] EXCEPT !.renewal = Outcome(s).renewal] ELSE programme[k]]
    BY <1>6 DEF UpdateOpportunity, StageMoves, RenewalOf
  <2>2. UNCHANGED <<contract, signer, payment, obligation>>
    BY <1>6 DEF UpdateOpportunity, StageMoves
  <2>3. ASSUME NEW m \in Contracts
        PROVE  /\ DOMAIN case'[m] = CaseFields /\ DOMAIN programme'[m] = ProgrammeFields
               /\ programme'[m].status = programme[m].status
               /\ programme'[m].version = programme[m].version
               /\ Agrees(case'[m], programme'[m])
    <3>1. CASE m \in linked
      <4> DEFINE c == [case[m] EXCEPT !.status = Outcome(s).case]
                 p == [programme[m] EXCEPT !.renewal = Outcome(s).renewal]
      <4>1. case'[m] = c /\ programme'[m] = p
        BY <2>1, <3>1
      <4>2. /\ DOMAIN c = CaseFields /\ c.status = Outcome(s).case /\ c.intent = case[m].intent
            /\ c.handedOn = case[m].handedOn /\ c.approvedOn = case[m].approvedOn
            /\ c.opportunity = case[m].opportunity
        BY <1>1 DEF CaseFields
      <4>3. /\ DOMAIN p = ProgrammeFields /\ p.renewal = Outcome(s).renewal
            /\ p.status = programme[m].status /\ p.version = programme[m].version
        BY <1>1 DEF ProgrammeFields
      <4>4. \/ Outcome(s).case = "HANDED_OFF" /\ Outcome(s).renewal = "IN_PROGRESS"
            \/ Outcome(s).case \in {"RENEWED", "DECLINED"} /\ Outcome(s).renewal = Outcome(s).case
        BY DEF Outcome
      <4>5. case[m].opportunity # Nothing /\ case[m].status \in Final
        BY <1>1, <2>1, <3>1, ContractConstants DEF Agrees
      <4> HIDE DEF c, p
      <4>6. Agrees(c, p)
        BY <1>1, <4>2, <4>3, <4>4, <4>5 DEF Agrees, CaseStatus, Final
      <4> QED  BY <4>1, <4>2, <4>3, <4>6
    <3>2. CASE m \notin linked
      BY <1>1, <2>1, <3>2
    <3> QED  BY <3>1, <3>2
  <2>4. ClientRows'
    BY <2>1, <2>2, <2>3 DEF ClientInv, ClientRows
  <2>5. ASSUME NEW m \in Contracts PROVE Agreed(m)' /\ Proven(m)' /\ Renewed(m)'
    <3>1. Agreed(m)'
      BY <1>1, <2>2, <2>3 DEF Agreed
    <3>2. Proven(m)'
      BY <1>1, <2>2, <2>3 DEF Proven
    <3> QED  BY <2>3, <3>1, <3>2 DEF Renewed
  <2> QED  BY <2>4, <2>5 DEF ClientInv
<1>7. CASE Reconcile
  <2>1. ASSUME NEW m \in Contracts, NEW b \in Obligations
        PROVE  /\ DOMAIN obligation'[m][b] = ObligationFields
               /\ \/ obligation'[m][b] = obligation[m][b]
                  \/ /\ obligation'[m][b].status = "OVERDUE"
                     /\ obligation[m][b].status \notin Closed \cup {"NONE"}
    <3>1. \/ obligation'[m][b] = obligation[m][b]
          \/ /\ Effective(obligation[m][b]) = "OVERDUE"
             /\ obligation'[m][b] = [obligation[m][b] EXCEPT !.status = "OVERDUE"]
      BY <1>7 DEF Reconcile
    <3> QED  BY <1>1, <3>1 DEF Effective, ObligationFields, Closed
  <2>2. ASSUME NEW m \in Contracts
        PROVE  /\ DOMAIN programme'[m] = ProgrammeFields
               /\ programme'[m].version = programme[m].version /\ programme'[m].renewal = programme[m].renewal
               /\ \/ programme'[m].status = programme[m].status
                  \/ /\ programme[m].status \in {"ACTIVE", "AT_RISK"}
                     /\ programme'[m].status \in {"ACTIVE", "AT_RISK"}
    <3>1. CASE programme[m].status \notin {"ACTIVE", "AT_RISK"}
      BY <1>1, <1>7, <3>1 DEF Reconcile
    <3>2. CASE programme[m].status \in {"ACTIVE", "AT_RISK"}
      <4>1. PICK to \in {"ACTIVE", "AT_RISK"} : programme'[m] = [programme[m] EXCEPT !.status = to]
        BY <1>7, <3>2 DEF Reconcile
      <4> QED  BY <1>1, <3>2, <4>1 DEF ProgrammeFields
    <3> QED  BY <3>1, <3>2
  <2>3. /\ UNCHANGED <<contract, signer, payment, case>>
        /\ DOMAIN programme' = Contracts /\ DOMAIN obligation' = Contracts
        /\ \A m \in Contracts : DOMAIN obligation'[m] = Obligations
    BY <1>7 DEF Reconcile, deliveryVars
  <2>4. ClientRows'
    BY <2>1, <2>2, <2>3 DEF ClientInv, ClientRows
  <2>5. ASSUME NEW m \in Contracts PROVE Agreed(m)' /\ Proven(m)' /\ Renewed(m)'
    <3>1. Agreed(m)'
      BY <1>1, <2>2, <2>3 DEF Agreed
    <3>2. Proven(m)'
      BY <1>1, <2>1, <2>2 DEF Proven, Closed, Transitions
    <3>3. Renewed(m)'
      BY <1>1, <2>2, <2>3 DEF Renewed, Agrees, UnderWay
    <3> QED  BY <3>1, <3>2, <3>3
  <2> QED  BY <2>4, <2>5 DEF ClientInv
<1> QED  BY <1>3, <1>4, <1>5, <1>6, <1>7

-----------------------------------------------------------------------------
(***************************************************************************)
(* The theorems.                                                           *)
(***************************************************************************)
LEMMA ClientInit == SealInit /\ DeliveryInit => ClientInv
<1> SUFFICES ASSUME SealInit, DeliveryInit PROVE ClientInv
  OBVIOUS
<1>1. ClientRows
  BY DEF SealInit, DeliveryInit, ClientRows, NoContract, Unpaid, NoProgramme, NoObligation, NoCase,
         ContractFields, ProgrammeFields, ObligationFields, CaseFields
<1>2. ASSUME NEW k \in Contracts PROVE Agreed(k) /\ Proven(k) /\ Renewed(k)
  <2>1. Agreed(k)
    BY DEF SealInit, Agreed, Sent, NoContract, Unpaid, NoProgramme
  <2>2. Proven(k)
    BY DEF SealInit, Proven, NoProgramme, NoObligation
  <2>3. Renewed(k)
    BY DEF SealInit, DeliveryInit, Renewed, Agrees, CaseStatus, NoProgramme, NoCase
  <2> QED  BY <2>1, <2>2, <2>3
<1> QED  BY <1>1, <1>2 DEF ClientInv

LEMMA ClientStep == ClientInv /\ [ClientNext]_clientVars => ClientInv'
<1> SUFFICES ASSUME ClientInv, [ClientNext]_clientVars PROVE ClientInv'
  OBVIOUS
<1>1. CASE AgreementNext
  BY <1>1, SealKeeps DEF AgreementNext
<1>2. CASE DeliveryNext
  BY <1>2, ObligationKeeps, CaseKeeps, ProgrammeKeeps DEF DeliveryNext
<1>3. CASE UNCHANGED clientVars
  BY <1>3, DeliveryRests DEF clientVars, sealVars, deliveryVars, ClientInv, ClientRows, Agreed
<1> QED  BY <1>1, <1>2, <1>3 DEF ClientNext

\* The inductive invariant holds in every state an agreement and its delivery get into.
LEMMA ClientAlways == ClientSpec => []ClientInv
BY ClientInit, ClientStep, PTL DEF ClientSpec

\* What is active was approved in that very version, signed by every signer, and its delivery is
\* anchored to it, whatever is revised, unsigned, rejected or delivered in between
\* (seal.service.ts revise, updateSigner, activate).
THEOREM ActiveIsAlwaysExecuted == ClientSpec => []ActiveIsExecuted
<1>1. ClientInv => ActiveIsExecuted
  BY DEF ClientInv, Agreed, ActiveIsExecuted, Sent
<1> QED  BY <1>1, ClientAlways, PTL

\* No request deletes or unmakes a payment that a person recorded (seal.service.ts revise,
\* recordPayment, activate).
THEOREM PaymentsAreKept == ClientSpec => RecordedPaymentsStay
<1>1. ClientInv /\ [ClientNext]_clientVars =>
          [\A k \in Contracts : payment[k].status \notin {"DRAFT", "DUE"} =>
                payment'[k].status \notin {"DRAFT", "DUE"}]_sealVars
  <2> SUFFICES ASSUME ClientInv, ClientNext, NEW k \in Contracts,
                      payment[k].status \notin {"DRAFT", "DUE"}
               PROVE  payment'[k].status \notin {"DRAFT", "DUE"}
    BY DEF clientVars, sealVars
  <2>1. contract[k].status \in Sent /\ DOMAIN payment = Contracts /\ DOMAIN payment[k] = {"status", "paid"}
    BY DEF ClientInv, ClientRows, Agreed
  <2>2. CASE UNCHANGED payment
    BY <2>2
  <2>3. ASSUME NEW m \in Contracts, Revise(m) PROVE payment'[k].status \notin {"DRAFT", "DUE"}
    BY <2>1, <2>3 DEF Revise, CanRevise, Sent
  <2>4. ASSUME NEW m \in Contracts, NEW ds, NEW won, Activate(m, ds, won)
        PROVE  payment'[k].status \notin {"DRAFT", "DUE"}
    BY <2>1, <2>4 DEF Activate
  <2>5. ASSUME NEW m \in Contracts, NEW paid,
               NEW status \in {"INVOICED", "PARTIALLY_PAID", "PAID", "WAIVED", "DISPUTED"},
               RecordPayment(m, status, paid)
        PROVE  payment'[k].status \notin {"DRAFT", "DUE"}
    BY <2>1, <2>5 DEF RecordPayment
  <2>6. CASE DeliveryNext
    <3>1. ASSUME NEW m \in Contracts, NEW b \in Obligations,
                 NEW due, NEW proof, NEW to,
                 \/ CreateObligation(m, b, due, proof) \/ UpdateObligation(m, b, due, proof)
                 \/ RecordEvidence(m, b) \/ VerifyEvidence(m, b) \/ DeadlinePasses(m, b)
                 \/ Transition(m, b, to)
          PROVE  UNCHANGED payment
      BY <3>1 DEF Kept, CreateObligation, UpdateObligation, RecordEvidence, VerifyEvidence, Transition,
                  DeadlinePasses, Change
    <3>2. ASSUME NEW m \in Contracts, NEW review, NEW o, NEW intent,
                 \/ CompleteProgramme(m) \/ Report(m) \/ PrepareCase(m) \/ SubmitCase(m) \/ ApproveCase(m)
                 \/ Configure(m, review) \/ UpdateCase(m, intent) \/ Handoff(m, o)
          PROVE  UNCHANGED payment
      BY <3>2 DEF Kept, CompleteProgramme, Report, PrepareCase, SubmitCase, ApproveCase, CaseMoves,
                  Configure, UpdateCase, Handoff
    <3>3. ASSUME NEW o, NEW s, UpdateOpportunity(o, s) \/ Reconcile
          PROVE  UNCHANGED payment
      BY <3>3 DEF Kept, UpdateOpportunity, StageMoves, Reconcile
    <3>4. UNCHANGED payment
      BY <2>6, <3>1, <3>2, <3>3, Zenon DEF DeliveryNext
    <3> QED  BY <2>2, <3>4
  <2>7. SealNext => \/ UNCHANGED payment
                    \/ \E m \in Contracts : Revise(m)
                    \/ \E m \in Contracts, ds \in SUBSET Obligations, won \in BOOLEAN : Activate(m, ds, won)
                    \/ \E m \in Contracts, paid \in 0..Price,
                          status \in {"INVOICED", "PARTIALLY_PAID", "PAID", "WAIVED", "DISPUTED"} :
                          RecordPayment(m, status, paid)
    BY DEF SealNext, SubmitReview, Reject, Approve, MarkSent, Terminate, Move, CreateContract, UpdateSigner,
           CreateOpportunity, ApproveDebrief
  <2> QED  BY <2>2, <2>3, <2>4, <2>5, <2>6, <2>7 DEF ClientNext, AgreementNext
<1> QED  BY <1>1, ClientAlways, PTL DEF ClientSpec, RecordedPaymentsStay

\* A completed programme owes nothing that is open or unproven (delivery.service.ts update,
\* transition, complete; the dates and the automation guard may come in between).
THEOREM CompletedIsAlwaysProven == ClientSpec => []CompletedIsProven
<1>1. ClientInv => CompletedIsProven
  BY DEF ClientInv, Proven, CompletedIsProven, Rows
<1> QED  BY <1>1, ClientAlways, PTL

\* A renewal enters the pipeline on the facts that a person approved, however often they move on
\* between (renewals.service.ts prepareInTransaction, approve, handoff).
THEOREM AlwaysHandedOverAsApproved == ClientSpec => []HandedOverAsApproved
<1>1. ClientInv => HandedOverAsApproved
  BY DEF ClientInv, Renewed, Agrees, HandedOverAsApproved
<1> QED  BY <1>1, ClientAlways, PTL

(***************************************************************************)
(* The outcome of a renewal.  A case that is not final has no opportunity, *)
(* so only the update of the opportunity itself writes the case it became, *)
(* and the only steps that move the stage behind it are those of the       *)
(* agreement, which are remembered.                                        *)
(***************************************************************************)
Followed(k) ==
    LET o == case[k].opportunity IN
    o # Nothing =>
        /\ o \in Opportunities /\ stage[o] # "NONE"
        /\ k \notin unsynced => case[k].status = Outcome(stage[o]).case

StageRows ==
    /\ DOMAIN stage = Opportunities
    /\ \A o \in Opportunities : stage[o] \in Stages \cup {"NONE"}

OutcomeInv == StageRows /\ \A k \in Contracts : Followed(k)

\* A step of the agreement unmakes no opportunity.
LEMMA SealMovesStages ==
    ASSUME StageRows, SealNext
    PROVE  StageRows' /\ \A o \in Opportunities : stage[o] # "NONE" => stage'[o] # "NONE"
<1> DEFINE Goal == StageRows' /\ \A o \in Opportunities : stage[o] # "NONE" => stage'[o] # "NONE"
<1>1. ASSUME UNCHANGED stage PROVE Goal
  BY <1>1 DEF StageRows
<1>2. ASSUME NEW x, NEW s \in Stages, stage' = [stage EXCEPT ![x] = s] PROVE Goal
  BY <1>2 DEF StageRows, Stages, OpenStages, ClosedStages
<1>3. ASSUME NEW k \in Contracts, NEW ds, NEW won, Activate(k, ds, won) PROVE Goal
  <2>1. "WON" \in Stages
    BY DEF Stages, ClosedStages
  <2> QED  BY <1>1, <1>2, <1>3, <2>1 DEF Activate
<1>4. ASSUME NEW o \in Opportunities, NEW s \in Stages, CreateOpportunity(o, s) \/ ApproveDebrief(o, s) PROVE Goal
  BY <1>2, <1>4 DEF CreateOpportunity, ApproveDebrief
<1> HIDE DEF Goal
<1>5. SealNext => \/ UNCHANGED stage
                  \/ \E k \in Contracts, ds \in SUBSET Obligations, won \in BOOLEAN : Activate(k, ds, won)
                  \/ \E o \in Opportunities, s \in Stages : CreateOpportunity(o, s) \/ ApproveDebrief(o, s)
  BY DEF SealNext, SubmitReview, Reject, Approve, Revise, MarkSent, Terminate, Move, CreateContract,
         UpdateSigner, RecordPayment
<1> QED  BY <1>1, <1>3, <1>4, <1>5 DEF Goal

\* A step that moves no stage and no case that has an opportunity.
LEMMA OutcomeRests ==
    ASSUME OutcomeInv, UNCHANGED <<stage, unsynced>>,
           \A k \in Contracts :
               /\ case'[k].opportunity = case[k].opportunity
               /\ case[k].opportunity # Nothing => case'[k].status = case[k].status
    PROVE  OutcomeInv'
BY DEF OutcomeInv, StageRows, Followed

\* A step of delivery, and of a renewal before its handoff.
LEMMA DeliveryMovesNoStage ==
    ASSUME ClientInv, DeliveryNext,
           \A k \in Contracts, o \in Opportunities : ~ Handoff(k, o),
           \A o \in Opportunities, s \in Stages : ~ UpdateOpportunity(o, s)
    PROVE  /\ UNCHANGED <<stage, unsynced>>
           /\ \A k \in Contracts :
               /\ case'[k].opportunity = case[k].opportunity
               /\ case[k].opportunity # Nothing => case'[k].status = case[k].status
<1> DEFINE Rests == /\ UNCHANGED <<stage, unsynced>>
                    /\ \A k \in Contracts :
                         /\ case'[k].opportunity = case[k].opportunity
                         /\ case[k].opportunity # Nothing => case'[k].status = case[k].status
<1>1. /\ DOMAIN case = Contracts
      /\ \A k \in Contracts :
           /\ DOMAIN case[k] = CaseFields
           /\ case[k].opportunity # Nothing => case[k].status \in Final
  BY DEF ClientInv, ClientRows, Renewed, Agrees
<1>2. ASSUME UNCHANGED <<stage, unsynced, case>> PROVE Rests
  BY <1>2
<1>3. ASSUME NEW k \in Contracts, NEW c, UNCHANGED <<stage, unsynced>>, case' = [case EXCEPT ![k] = c],
             c.opportunity = case[k].opportunity, case[k].status \notin Final
      PROVE  Rests
  BY <1>1, <1>3
<1> HIDE DEF Rests
<1>4. ASSUME NEW k \in Contracts, NEW b \in Obligations,
             NEW due, NEW proof, NEW to,
             \/ CreateObligation(k, b, due, proof) \/ UpdateObligation(k, b, due, proof)
             \/ RecordEvidence(k, b) \/ VerifyEvidence(k, b) \/ DeadlinePasses(k, b)
             \/ Transition(k, b, to)
      PROVE  Rests
  BY <1>2, <1>4 DEF Kept, deliveryVars, Change, CreateObligation, UpdateObligation, RecordEvidence,
                    VerifyEvidence, DeadlinePasses, Transition
<1>5. ASSUME NEW k, CompleteProgramme(k) \/ Report(k) \/ Reconcile PROVE Rests
  BY <1>2, <1>5 DEF Kept, deliveryVars, CompleteProgramme, Report, Reconcile
<1>6. ASSUME NEW k \in Contracts, NEW facts PROVE Prepared(case[k], facts).opportunity = case[k].opportunity
  BY <1>1 DEF Prepared, CaseFields
<1>7. ASSUME NEW k \in Contracts, PrepareCase(k) PROVE Rests
  BY <1>3, <1>6, <1>7 DEF Kept, PrepareCase, CanPrepare, Prepare
<1>8. ASSUME NEW k \in Contracts, NEW review \in BOOLEAN, Configure(k, review) PROVE Rests
  <2>1. UNCHANGED <<stage, unsynced>>
    BY <1>8 DEF Configure, Kept
  <2>2. CASE review
    BY <1>3, <1>6, <1>8, <2>1, <2>2 DEF Configure, CanConfigure, CanPrepare, Prepare
  <2>3. CASE ~ review
    BY <1>2, <1>8, <2>1, <2>3 DEF Configure
  <2> QED  BY <2>2, <2>3
<1>9. ASSUME NEW k \in Contracts, NEW intent, UpdateCase(k, intent) PROVE Rests
  <2> DEFINE c == [case[k] EXCEPT !.status = "DRAFT", !.intent = intent, !.approvedOn = NoFacts]
  <2>1. c.opportunity = case[k].opportunity
    BY <1>1 DEF CaseFields
  <2>2. UNCHANGED <<stage, unsynced>> /\ case' = [case EXCEPT ![k] = c] /\ case[k].status \notin Final
    BY <1>9 DEF UpdateCase, CanUpdateCase, CaseMoves, Kept, Final
  <2> HIDE DEF c
  <2> QED  BY <1>3, <2>1, <2>2
<1>10. ASSUME NEW k \in Contracts, SubmitCase(k) PROVE Rests
  <2> DEFINE c == [case[k] EXCEPT !.status = "REVIEW_READY"]
  <2>1. c.opportunity = case[k].opportunity
    BY <1>1 DEF CaseFields
  <2>2. UNCHANGED <<stage, unsynced>> /\ case' = [case EXCEPT ![k] = c] /\ case[k].status \notin Final
    BY <1>10 DEF SubmitCase, CanSubmitCase, CaseMoves, Kept, Final
  <2> HIDE DEF c
  <2> QED  BY <1>3, <2>1, <2>2
<1>11. ASSUME NEW k \in Contracts, ApproveCase(k) PROVE Rests
  <2> DEFINE c == [case[k] EXCEPT !.status = Decided(case[k].intent), !.approvedOn = CurrentFacts(k)]
  <2>1. c.opportunity = case[k].opportunity
    BY <1>1 DEF CaseFields
  <2>2. UNCHANGED <<stage, unsynced>> /\ case' = [case EXCEPT ![k] = c] /\ case[k].status \notin Final
    BY <1>1, <1>11 DEF ApproveCase, CanApproveCase, Kept, Final
  <2> HIDE DEF c
  <2> QED  BY <1>3, <2>1, <2>2
<1>12. Reconcile => Rests
  BY <1>5
<1>13. Rests
  BY <1>4, <1>5, <1>7, <1>8, <1>9, <1>10, <1>11, <1>12, Zenon DEF DeliveryNext
<1> QED  BY <1>13 DEF Rests

LEMMA OutcomeStep == ClientInv /\ OutcomeInv /\ [ClientNext]_clientVars => OutcomeInv'
<1> SUFFICES ASSUME ClientInv, OutcomeInv, [ClientNext]_clientVars PROVE OutcomeInv'
  OBVIOUS
<1>1. /\ StageRows /\ DOMAIN stage = Opportunities /\ DOMAIN case = Contracts
      /\ \A k \in Contracts : DOMAIN case[k] = CaseFields /\ Followed(k)
  BY DEF ClientInv, ClientRows, OutcomeInv, StageRows
<1>2. CASE AgreementNext
  <2>1. UNCHANGED case
    BY <1>2 DEF AgreementNext, deliveryVars
  <2>2. /\ StageRows'
        /\ \A o \in Opportunities : stage[o] # "NONE" => stage'[o] # "NONE"
    BY <1>1, <1>2, SealMovesStages DEF AgreementNext
  <2>3. ASSUME NEW k \in Contracts PROVE Followed(k)'
    <3>1. SUFFICES ASSUME case[k].opportunity # Nothing
                   PROVE  LET o == case[k].opportunity IN
                          /\ o \in Opportunities /\ stage'[o] # "NONE"
                          /\ k \notin unsynced' => case[k].status = Outcome(stage'[o]).case
      BY <2>1 DEF Followed, Outcome
    <3>2. /\ case[k].opportunity \in Opportunities /\ stage[case[k].opportunity] # "NONE"
          /\ k \notin unsynced => case[k].status = Outcome(stage[case[k].opportunity]).case
      BY <1>1, <3>1 DEF Followed
    <3>3. k \notin unsynced' =>
              k \notin unsynced /\ Outcome(stage'[case[k].opportunity]) = Outcome(stage[case[k].opportunity])
      BY <1>2, <3>2 DEF AgreementNext
    <3> QED  BY <2>2, <3>2, <3>3
  <2> QED  BY <2>2, <2>3 DEF OutcomeInv
<1>3. ASSUME NEW k \in Contracts, NEW o \in Opportunities, Handoff(k, o) PROVE OutcomeInv'
  <2>1. /\ stage' = [stage EXCEPT ![o] = "INTERESTED"] /\ stage[o] = "NONE" /\ UNCHANGED unsynced
        /\ case' = [case EXCEPT ![k].status = "HANDED_OFF", ![k].opportunity = o, ![k].handedOn = CurrentFacts(k)]
    BY <1>3 DEF Handoff, CanHandoff, Kept
  <2>2. case'[k].status = "HANDED_OFF" /\ case'[k].opportunity = o
    BY <1>1, <2>1 DEF CaseFields
  <2>3. \A m \in Contracts \ {k} : case'[m] = case[m]
    BY <1>1, <2>1
  <2>4. Outcome("INTERESTED").case = "HANDED_OFF"
    BY DEF Outcome, OpenStages
  <2>5. ASSUME NEW m \in Contracts \ {k} PROVE Followed(m)'
    BY <1>1, <2>1, <2>3 DEF Followed
  <2>6. Followed(k)'
    BY <1>1, <2>1, <2>2, <2>4 DEF Followed
  <2>7. StageRows'
    BY <1>1, <2>1 DEF StageRows, Stages, OpenStages
  <2> QED  BY <2>5, <2>6, <2>7 DEF OutcomeInv
<1>4. ASSUME NEW o \in Opportunities, NEW s \in Stages, UpdateOpportunity(o, s) PROVE OutcomeInv'
  <2> DEFINE closing == stage[o] \in ClosedStages \/ s \in ClosedStages
             linked == IF closing THEN RenewalOf(o) ELSE {}
  <2>1. /\ stage[o] # "NONE" /\ stage' = [stage EXCEPT ![o] = s] /\ unsynced' = unsynced \ linked
        /\ case' = [k \in Contracts |->
              IF k \in linked THEN [case[k] EXCEPT !.status = Outcome(s).case] ELSE case[k]]
    BY <1>4 DEF UpdateOpportunity, StageMoves
  <2>2. s # "NONE"
    BY DEF Stages, OpenStages, ClosedStages
  <2>3. ASSUME NEW k \in Contracts PROVE Followed(k)'
    <3>1. CASE k \in linked
      <4>1. case'[k].status = Outcome(s).case /\ case'[k].opportunity = o
        BY <1>1, <2>1, <3>1 DEF CaseFields, RenewalOf
      <4>2. stage'[o] = s
        BY <1>1, <2>1
      <4> QED  BY <2>2, <4>1, <4>2 DEF Followed
    <3>2. CASE k \notin linked /\ case[k].opportunity # o
      <4>1. case'[k] = case[k] /\ (k \in unsynced' <=> k \in unsynced)
        BY <2>1, <3>2
      <4> QED  BY <1>1, <2>1, <3>2, <4>1 DEF Followed
    <3>3. CASE k \notin linked /\ case[k].opportunity = o
      <4>1. stage[o] \notin ClosedStages /\ s \in OpenStages
        BY <3>3 DEF RenewalOf, Stages
      <4>2. case'[k] = case[k] /\ (k \in unsynced' <=> k \in unsynced) /\ stage'[o] = s
        BY <1>1, <2>1, <3>3
      <4>3. k \notin unsynced => case[k].status = Outcome(stage[o]).case
        BY <1>1, <3>3, ContractConstants DEF Followed
      <4>4. stage[o] \in OpenStages
        BY <1>1, <2>1, <4>1 DEF StageRows, Stages
      <4>5. Outcome(stage[o]).case = Outcome(s).case
        BY <4>1, <4>4 DEF Outcome
      <4> QED  BY <2>2, <3>3, <4>2, <4>3, <4>5 DEF Followed
    <3> QED  BY <3>1, <3>2, <3>3
  <2>4. StageRows'
    BY <1>1, <2>1 DEF StageRows
  <2> QED  BY <2>3, <2>4 DEF OutcomeInv
<1>5. CASE /\ DeliveryNext /\ \A k \in Contracts, o \in Opportunities : ~ Handoff(k, o)
           /\ \A o \in Opportunities, s \in Stages : ~ UpdateOpportunity(o, s)
  BY <1>5, DeliveryMovesNoStage, OutcomeRests
<1>6. CASE UNCHANGED clientVars
  BY <1>6, OutcomeRests DEF clientVars, sealVars, deliveryVars
<1> QED  BY <1>2, <1>3, <1>4, <1>5, <1>6 DEF ClientNext

\* In every state the case and the programme of a renewal show the stage of its opportunity, but for
\* the one that an activation or a debrief moved (renewals.service.ts, opportunities.service.ts
\* syncRenewalOutcome, delivery.service.ts, seal.service.ts activate, orbit.service.ts reviewDebrief).
THEOREM ProgrammeAlwaysShowsOutcome == ClientSpec => []ProgrammeShowsOutcome
<1>1. SealInit /\ DeliveryInit => OutcomeInv
  BY DEF SealInit, DeliveryInit, OutcomeInv, StageRows, Followed, NoCase
<1>2. ClientInv /\ OutcomeInv => ProgrammeShowsOutcome
  <2> SUFFICES ASSUME ClientInv, OutcomeInv, NEW k \in Contracts
               PROVE  LET c == case[k].status
                          o == case[k].opportunity
                      IN  /\ programme[k].renewal =
                                CASE c = "NONE" -> "NOT_STARTED" [] c \in {"RENEWED", "DECLINED"} -> c
                                  [] OTHER -> "IN_PROGRESS"
                          /\ o # Nothing /\ k \notin unsynced =>
                                c = Outcome(stage[o]).case /\ programme[k].renewal = Outcome(stage[o]).renewal
    BY DEF ProgrammeShowsOutcome
  <2>1. Agrees(case[k], programme[k]) /\ Followed(k)
    BY DEF ClientInv, Renewed, OutcomeInv
  <2>2. ASSUME NEW s
        PROVE  \/ Outcome(s).case = "HANDED_OFF" /\ Outcome(s).renewal = "IN_PROGRESS"
               \/ Outcome(s).case \in {"RENEWED", "DECLINED"} /\ Outcome(s).renewal = Outcome(s).case
    BY DEF Outcome
  <2> QED  BY <2>1, <2>2 DEF Agrees, Followed
<1> QED  BY <1>1, <1>2, OutcomeStep, ClientInit, ClientAlways, PTL DEF ClientSpec

-----------------------------------------------------------------------------
(***************************************************************************)
(* What the pages offer.  The conditions of a page and of the service      *)
(* behind it are written apart, and the invariant is what makes the first  *)
(* imply the second: a signed contract has all of its signatures, an open  *)
(* obligation an open programme, and a case that is not final a programme  *)
(* that was under way.                                                     *)
(***************************************************************************)
LEMMA SealOffersHold ==
    ASSUME ClientInv, NEW k \in Contracts
    PROVE  SealOffers(k)
<1>1. ExecutionGate(k) => CanActivate(k, MarkWon(k))
  BY DEF ExecutionGate, CanActivate, MarkWon, ClientInv, Agreed
<1>2. ASSUME MilestoneForm(k), NEW to \in MilestoneOptions
      PROVE  \E paid \in 0..Price : CanRecordPayment(k, to, paid)
  <2> DEFINE paid == IF to = "PARTIALLY_PAID" THEN 1 ELSE Price
  <2>1. paid \in 0..Price /\ CanRecordPayment(k, to, paid)
    BY <1>2 DEF MilestoneForm, CanRecordPayment, Price
  <2> QED  BY <2>1
<1> QED  BY <1>1, <1>2 DEF SealOffers, RevisionPanel, SaveRevision, CanRevise, SubmitButton, CanSubmitReview,
                           ReviewPanel, CanReview, SentPanel, CanMarkSent, SignerButtons, CanUpdateSigner,
                           TerminationPanel, CanTerminate

LEMMA CardOffersHold ==
    ASSUME ClientInv, NEW k \in Contracts, NEW b \in Obligations
    PROVE  CardOffers(k, b)
<1> DEFINE row == obligation[k][b]
<1>1. row.status \in DOMAIN Transitions \cup {"NONE"} /\ (row.status \notin Closed \cup {"NONE"} => IsOpen(k))
  BY DEF ClientInv, Proven, IsOpen
<1>2. Shown(k, b) = "OVERDUE" \/ Shown(k, b) = row.status
  BY DEF Shown, Effective
<1>3. Shown(k, b) \notin Closed \cup {"NONE"} => row.status \notin Closed \cup {"NONE"}
  BY DEF Shown, Effective, Closed
<1>4. Shown(k, b) \in DOMAIN Transitions \cup {"NONE"}
  BY <1>1, <1>2 DEF Transitions
<1>5. ASSUME NEW to, Shown(k, b) \notin Closed \cup {"NONE"}, to \in Transitions[Shown(k, b)],
             to = "READY" => row.due # "none",
             row.proof => (to = "DELIVERED" => row.evidence # "none") /\ (to = "VERIFIED" => row.evidence = "verified")
      PROVE  Do(k, b, to)
  BY <1>1, <1>3, <1>5 DEF Do, CanTransition, Shown
<1>6. /\ StartButton(k, b) => Do(k, b, "IN_PROGRESS")
      /\ ResumeButton(k, b) /\ row.due # "none" => Do(k, b, "READY")
      /\ DeliveredButton(k, b) => Do(k, b, "DELIVERED")
      /\ VerifyButton(k, b) => Do(k, b, "VERIFIED")
  BY <1>5 DEF StartButton, ResumeButton, DeliveredButton, VerifyButton, Transitions, Closed
<1>7. ExceptionForm(k, b) /\ Shown(k, b) # "DELIVERED" =>
          Do(k, b, "WAIVED") /\ (Shown(k, b) = "BLOCKED" \/ Do(k, b, "BLOCKED"))
  BY <1>4, <1>5 DEF ExceptionForm, Card, Transitions, Closed
<1>8. /\ EvidenceForm(k, b) /\ row.evidence = "none" => AddEvidence(k, b)
      /\ ScheduleForm(k, b) => Save(k, b, "ahead")
  BY <1>1, <1>3 DEF EvidenceForm, AddEvidence, CanRecordEvidence, ScheduleForm, Card, Save,
                    CanUpdateObligation, Editable, Closed
<1>9. /\ VerifyEvidenceButton(k, b) => CanVerifyEvidence(k, b)
      /\ AddForm(k) /\ row = NoObligation /\ IsOpen(k) => CanCreateObligation(k, b, "ahead")
  BY DEF VerifyEvidenceButton, CanVerifyEvidence, AddForm, CanCreateObligation, NoObligation
<1> QED  BY <1>6, <1>7, <1>8, <1>9 DEF CardOffers

LEMMA DeliveryOffersHold ==
    ASSUME ClientInv, NEW k \in Contracts
    PROVE  DeliveryOffers(k)
<1>1. ASSUME SetupPanel(k), Rows(obligation[k]) # {},
             \A b \in Rows(obligation[k]) : obligation[k][b].due # "none", NEW review \in BOOLEAN
      PROVE  CanConfigure(k, review)
  <2>1. DOMAIN programme[k] = ProgrammeFields /\ Agrees(case[k], programme[k])
    BY DEF ClientInv, ClientRows, Renewed
  <2>2. case[k].status = "NONE"
    BY <1>1, <2>1 DEF SetupPanel, Agrees, UnderWay
  <2>3. Activated(programme[k], review).status = "ACTIVE"
    BY <2>1 DEF Activated, ProgrammeFields
  <2> QED  BY <1>1, <2>2, <2>3 DEF CanConfigure, CanPrepare, SetupPanel, IsOpen, Final
<1>2. ReportButton(k) => CanReport(k)
  BY DEF ReportButton, CanReport
<1>3. CompleteButton(k) => CanComplete(k)
  BY DEF CompleteButton, CanComplete, Card, Shown, Effective, Rows, Closed
<1> QED  BY <1>1, <1>2, <1>3, CardOffersHold DEF DeliveryOffers

LEMMA RenewalOffersHold ==
    ASSUME ClientInv, NEW k \in Contracts
    PROVE  RenewalOffers(k)
<1>1. Agrees(case[k], programme[k])
  BY DEF ClientInv, Renewed
<1>2. PrepareButton(k) \/ RefreshButton(k) => CanPrepare(k, programme[k])
  BY <1>1 DEF PrepareButton, RefreshButton, CanPrepare, NoCase, Agrees, UnderWay, Final
<1>3. /\ BriefForm(k) => CanUpdateCase(k)
      /\ DecisionButton(k, "DRAFT") /\ case[k].intent # "NONE" => CanSubmitCase(k)
      /\ DecisionButton(k, "REVIEW_READY") => CanApproveCase(k)
  BY <1>1 DEF BriefForm, CanUpdateCase, DecisionButton, CanSubmitCase, CanApproveCase, Agrees
<1>4. DecisionButton(k, "APPROVED") => \A o \in Unused : CanHandoff(k, o)
  BY <1>1 DEF DecisionButton, CanHandoff, Unused, Agrees, Final
<1> QED  BY <1>2, <1>3, <1>4 DEF RenewalOffers

\* Whatever the automation inbox lists can be acted on where it leads.
LEMMA InboxLeads ==
    ASSUME NEW k \in Contracts, NEW item \in Inbox(k)
    PROVE  Leads(k, item)
<1>1. CASE item = "SEAL"
  BY <1>1 DEF Inbox, Leads, ReviewPanel
<1>2. CASE item = "SEAL_ACTIVATION"
  BY <1>2 DEF Inbox, Leads, ExecutionGate
<1>3. CASE item = "DELIVERY_VERIFY"
  <2>1. PICK b \in Obligations : obligation[k][b].status = "DELIVERED"
    BY <1>3 DEF Inbox
  <2>2. ScheduleForm(k, b)
    BY <2>1 DEF ScheduleForm, Card, Shown, Effective, Closed
  <2> QED  BY <1>3, <2>2 DEF Leads
<1>4. CASE item = "DELIVERY_REPORT"
  BY <1>4 DEF Inbox, Leads, ReportButton
<1>5. CASE item \in {"RENEWAL_REVIEW", "RENEWAL_HANDOFF"}
  BY <1>5 DEF Inbox, Leads, RefreshButton, Final
<1> QED  BY <1>1, <1>2, <1>3, <1>4, <1>5 DEF Inbox

\* Every button that the pages of Seal, Delivery and Renewals show right after loading is one the
\* server takes, and every item of the inbox leads to one, in every state the records get into
\* (seal-workbench.tsx, delivery-workbench.tsx, renewal-workbench.tsx against their services).
THEOREM OffersAreAlwaysHonoured == ClientSpec => []OffersAreHonoured
<1>1. ClientInv => OffersAreHonoured
  <2>1. \A k \in Contracts, o \in Opportunities : CreateForm(k, o) => CanCreateContract(k, o)
    BY DEF CreateForm, EligibleOpportunity, CanCreateContract
  <2> QED  BY <2>1, SealOffersHold, DeliveryOffersHold, RenewalOffersHold, InboxLeads DEF OffersAreHonoured
<1> QED  BY <1>1, ClientAlways, PTL

=============================================================================
