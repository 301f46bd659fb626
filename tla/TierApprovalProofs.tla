-------------------------- MODULE TierApprovalProofs --------------------------
(***************************************************************************)
(* The amount-band endpoints implement Decision for every set of people,   *)
(* bands, holders and amounts, with every other writer of the status       *)
(* beside them, and every decision is announced as it was taken.           *)
(***************************************************************************)
EXTENDS TierApproval, TLAPS

TierInv == TypeOK /\ OutcomeAnnounced

\* Nothing is signed, decided or announced at first.
LEMMA TierInit == Init => TierInv
BY DEF Init, TierInv, TypeOK, OutcomeAnnounced, Statuses

\* A signature is a person's, and the status it leaves is announced.
LEMMA SignTierInv ==
  ASSUME TierInv, NEW a \in People, NEW l \in Levels, SignTier(a, l)
  PROVE  TierInv'
<1>1. TypeOK' BY DEF TierInv, TypeOK, SignTier, Statuses
<1>2. OutcomeAnnounced' BY DEF TierInv, OutcomeAnnounced, SignTier
<1> QED BY <1>1, <1>2 DEF TierInv

\* One case per action that writes the status.
LEMMA TierStep == TierInv /\ [Next]_vars => TierInv'
<1> SUFFICES ASSUME TierInv, [Next]_vars PROVE TierInv' OBVIOUS
<1> USE DEF TierInv, OutcomeAnnounced, TypeOK, Statuses
<1>1. CASE approveRequisition
  <2>1. ASSUME NEW a \in People, ApproveUnbanded(a) PROVE TierInv'
    BY <2>1 DEF ApproveUnbanded
  <2> QED BY <1>1, <2>1, SignTierInv DEF approveRequisition
<1>2. CASE rejectRequisition BY <1>2 DEF rejectRequisition, RejectRequisitionTiered
<1>3. CASE patchRequisition
  BY <1>3 DEF patchRequisition, UpdateRequisition, PatchStatuses
<1>4. CASE RaiseOrder BY <1>4 DEF RaiseOrder
<1>5. CASE OpenDeskChain BY <1>5 DEF OpenDeskChain
<1>6. ASSUME NEW s \in Statuses, DeskMoving(s) PROVE TierInv' BY <1>6 DEF DeskMoving
<1>7. ASSUME NEW d \in Statuses, DeskEnds(d) PROVE TierInv'
  BY <1>7 DEF DeskEnds, terminalOutcome
<1>8. CASE UNCHANGED vars BY <1>8 DEF vars
<1> QED BY <1>1, <1>2, <1>3, <1>4, <1>5, <1>6, <1>7, <1>8 DEF Next

\* The requisition and its announcements keep their invariant forever.
THEOREM TierInvariant == Spec => []TierInv
  BY TierInit, TierStep, PTL DEF Spec

\* Signatures, statuses and announcements keep their types, whichever of the
\* writers of the status comes next.
THEOREM TierTypes == Spec => []TypeOK
<1>1. TierInv => TypeOK BY DEF TierInv
<1> QED BY <1>1, TierInvariant, PTL

\* The last announcement enqueued for a decided requisition is its decision,
\* whichever of the two mechanisms took it and however often it was reopened
\* (enqueueRequisitionOutcome).
THEOREM DecisionsAnnounced == Spec => []OutcomeAnnounced
<1>1. TierInv => OutcomeAnnounced BY DEF TierInv
<1> QED BY <1>1, TierInvariant, PTL

-----------------------------------------------------------------------------
\* A fresh requisition is open to its approvers.
LEMMA DecisionInit == Init => D!Init
BY DEF Init, D!Init, Outcome, Undecided, requiredTiers

\* Whoever the endpoint lets sign is free to sign.
LEMMA ApproverIsFree ==
  ASSUME NEW a \in People, MayApprove(a)
  PROVE  D!Free(a)
BY DEF MayApprove, sameActor, actorAlreadyApproved, D!Free

\* A signature on the lowest missing tier is one on the lowest missing level,
\* and it approves when it is the last.
LEMMA SignImplements ==
  ASSUME TierInv, NEW a \in People, NEW l \in Levels, SignTier(a, l)
  PROVE  D!Sign(l, a)
<1>1. Outcome = "open" BY DEF SignTier, Outcome, Undecided
<1>2. D!Cleared(approvals) = approvedTiers BY DEF D!Cleared, approvedTiers
<1>3. /\ l \in requiredTiers(total) \ D!Cleared(approvals)
      /\ \A k \in requiredTiers(total) \ D!Cleared(approvals) : l <= k
  BY <1>2 DEF SignTier, NextTier, Missing
<1>4. D!Free(a) BY ApproverIsFree DEF SignTier
<1>5. approvals' = [approvals EXCEPT ![l] = a] /\ total' = total BY DEF SignTier
<1>6. requiredTiers(total)' = requiredTiers(total) BY <1>5 DEF requiredTiers
<1>7. D!Cleared(approvals') = approvedTiers \cup {l}
  BY <1>5, TierAssumption DEF TierAssumption, TierInv, TypeOK, D!Cleared, approvedTiers
<1>8. Outcome' = IF Completes(l) THEN "approved" ELSE "open"
  BY DEF SignTier, Outcome, Undecided
<1>9. Outcome' = IF requiredTiers(total) \subseteq D!Cleared(approvals')
                 THEN "approved" ELSE "open"
  BY <1>7, <1>8 DEF Completes
<1> QED BY <1>1, <1>3, <1>4, <1>5, <1>6, <1>9 DEF D!Sign

\* An approval with nothing to sign confirms signatures that are all there.
LEMMA ConfirmImplements ==
  ASSUME TierInv, NEW a \in People, ApproveUnbanded(a)
  PROVE  D!Confirm(a)
<1>1. Outcome = "open" /\ Outcome' = "approved"
  BY DEF ApproveUnbanded, Outcome, Undecided
<1>2. requiredTiers(total) \subseteq D!Cleared(approvals)
  BY DEF ApproveUnbanded, Missing, requiredTiers, approvedTiers, D!Cleared
<1>3. D!Free(a) BY ApproverIsFree DEF ApproveUnbanded
<1>4. UNCHANGED <<requiredTiers(total), approvals>> BY DEF ApproveUnbanded, requiredTiers
<1> QED BY <1>1, <1>2, <1>3, <1>4 DEF D!Confirm

\* A status write that keeps the signatures and does not approve by tiers
\* happens elsewhere.
LEMMA ElsewhereImplements ==
  ASSUME UNCHANGED approvals, Outcome' # "approved" \/ Outcome' = Outcome
  PROVE  D!Elsewhere
<1>1. Outcome' \in {Outcome, "open", "refused", "out"} BY DEF Outcome
<1>2. requiredTiers(total)' \in SUBSET Levels BY DEF requiredTiers
<1> QED BY <1>1, <1>2 DEF D!Elsewhere

\* Every step of the service is a step of Decision, or leaves it alone.
LEMMA DecisionStep == TierInv /\ [Next]_vars => [D!Next]_(D!vars)
<1> SUFFICES ASSUME TierInv, [Next]_vars PROVE [D!Next]_(D!vars) OBVIOUS
<1>0. ASSUME D!Elsewhere PROVE D!Next BY <1>0 DEF D!Next
<1>1. CASE approveRequisition
  <2>1. ASSUME NEW a \in People, ApproveUnbanded(a) PROVE D!Next
    BY <2>1, ConfirmImplements DEF D!Next
  <2>2. ASSUME NEW a \in People, NEW l \in Levels, SignTier(a, l) PROVE D!Next
    BY <2>2, SignImplements DEF D!Next
  <2> QED BY <1>1, <2>1, <2>2 DEF approveRequisition
<1>2. CASE rejectRequisition
  <2>1. UNCHANGED approvals /\ Outcome' = "refused"
    BY <1>2 DEF rejectRequisition, RejectRequisitionTiered, Outcome
  <2> QED BY <2>1, <1>0, ElsewhereImplements
<1>3. CASE patchRequisition
  <2>1. UNCHANGED <<approvals, decidedBy>> BY <1>3 DEF patchRequisition, UpdateRequisition
  <2>2. status' = status \/ status' \in {"draft", "pending approval", "closed"}
    BY <1>3 DEF patchRequisition, UpdateRequisition, PatchStatuses
  <2>3. Outcome' # "approved" \/ Outcome' = Outcome
    BY <2>1, <2>2 DEF Outcome, Undecided
  <2> QED BY <2>1, <2>3, <1>0, ElsewhereImplements
<1>4. CASE RaiseOrder
  BY <1>4, <1>0, ElsewhereImplements DEF RaiseOrder, Outcome, Undecided
<1>5. CASE OpenDeskChain
  BY <1>5, <1>0, ElsewhereImplements DEF OpenDeskChain, Outcome, Undecided
<1>6. ASSUME NEW s \in Statuses, DeskMoving(s) PROVE D!Next
  BY <1>6, <1>0, ElsewhereImplements DEF DeskMoving, Outcome, Undecided
<1>7. ASSUME NEW d \in Statuses, DeskEnds(d) PROVE D!Next
  BY <1>7, <1>0, ElsewhereImplements DEF DeskEnds, Outcome, Undecided
<1>8. CASE UNCHANGED vars
  BY <1>8 DEF vars, D!vars, Outcome, Undecided, requiredTiers
<1> QED BY <1>1, <1>2, <1>3, <1>4, <1>5, <1>6, <1>7, <1>8 DEF Next

\* The service implements Decision: approved by tiers means signed on every
\* band of the total, lowest first, by distinct people and never by the
\* requester (requisition_approval.go, migrations/018:3-5).
THEOREM TiersImplementDecision == Spec => ImplementsDecision
  BY TierInvariant, DecisionInit, DecisionStep, PTL DEF Spec, ImplementsDecision, D!Spec
=============================================================================
