---------------------------- MODULE TierApproval ----------------------------
(***************************************************************************)
(* One requisition and the amount-band signatures of                       *)
(* internal/repo/requisition_approval.go, beside everything else that      *)
(* writes its status: PATCH, a purchase order, and the desk chain, seen    *)
(* here as BudgetLedger sees it (module DeskChain has its inside).         *)
(*                                                                         *)
(* Both tier endpoints lock the requisition, so each call is a step.  A    *)
(* call that is refused, or rolled back because the budget has no room     *)
(* (module BudgetLedger), changes nothing.  Rows with decision 'rejected'  *)
(* are written and never read.                                             *)
(***************************************************************************)
EXTENDS Integers

CONSTANTS
    People,      \* callers holding change_requisition
    Requester,   \* requisitions.requester
    Nobody,      \* the caller whose token has no email
    Unsigned,    \* no approved row for a tier
    Levels,      \* requisition_approval_tiers.tier
    MinAmount,   \* tier -> min_amount
    Holders,     \* tier -> callers holding its required_perm
    Amounts      \* totals of the requisition

ASSUME TierAssumption ==
    /\ Levels \subseteq Nat /\ Amounts \subseteq Int
    /\ Requester \in People /\ Requester # Nobody
    /\ Unsigned \notin People
    /\ MinAmount \in [Levels -> Int]
    /\ Holders \in [Levels -> SUBSET People]

VARIABLES
    status,     \* requisitions.status
    total,      \* requisitions.total
    approvals,  \* requisition_approvals: tier -> who approved it
    desk,       \* the requisition's desk chain, "none" without one
    announced,  \* the last outcome enqueued to the outbox
    decidedBy   \* history: the mechanism that approved last

vars == <<status, total, approvals, desk, announced, decidedBy>>

\* "returned for amendment" is a draft to everyone here.
Statuses == {"draft", "pending approval", "approved", "rejected", "cancelled",
             "ordered", "closed"}

Init ==
    /\ status \in {"draft", "pending approval"}
    /\ total \in Amounts
    /\ approvals = [t \in Levels |-> Unsigned]
    /\ desk = "none"
    /\ announced = "none"
    /\ decidedBy = "none"

-----------------------------------------------------------------------------
(* Tiers *)

requiredTiers(t) == {l \in Levels : t > MinAmount[l]}

approvedTiers == {l \in Levels : approvals[l] # Unsigned}

\* Callers without an identity never match.
sameActor(a, b) == a = b /\ a # Nobody

actorAlreadyApproved(a) == \E l \in Levels : sameActor(a, approvals[l])

\* A status the tier endpoints still act on; the desk chain is not looked at.
Undecided == status \notin {"approved", "rejected", "ordered", "closed"}

Missing == requiredTiers(total) \ approvedTiers

NextTier(l) == l \in Missing /\ \A k \in Missing : l <= k

\* Mutant: only the requester is looked for.
MayApproveAgain(a) == ~sameActor(a, Requester)

MayApprove(a) == ~sameActor(a, Requester) /\ ~actorAlreadyApproved(a)

\* allRequiredApproved, once l is signed too.
Completes(l) == requiredTiers(total) \subseteq approvedTiers \cup {l}

\* ApproveRequisitionTier with a tier still to clear.
SignTier(a, l) ==
    /\ Undecided
    /\ MayApprove(a)
    /\ NextTier(l)
    /\ a \in Holders[l]
    /\ approvals' = [approvals EXCEPT ![l] = a]
    /\ \/ /\ Completes(l)
          /\ status' = "approved" /\ announced' = "approved" /\ decidedBy' = "tiers"
       \/ /\ ~Completes(l)
          /\ status' = "pending approval" /\ UNCHANGED <<announced, decidedBy>>
    /\ UNCHANGED <<total, desk>>

\* ApproveRequisitionTier with none: the total reaches no band, or signatures
\* from before a rejection, a reopening or an edit already cover it.
ApproveUnbanded(a) ==
    /\ Undecided
    /\ MayApprove(a)
    /\ Missing = {}
    /\ status' = "approved" /\ announced' = "approved" /\ decidedBy' = "tiers"
    /\ UNCHANGED <<total, approvals, desk>>

\* The requester may withdraw; signatures stay.
RejectRequisitionTiered(a) ==
    /\ Undecided
    /\ \/ sameActor(a, Requester)
       \/ requiredTiers(total) = {}
       \/ \E l \in requiredTiers(total) : a \in Holders[l]
    /\ status' = "rejected" /\ announced' = "rejected"
    /\ UNCHANGED <<total, approvals, desk, decidedBy>>

-----------------------------------------------------------------------------
(* Everything else that writes the status *)

\* Mutant: PATCH takes every status of the vocabulary.
PatchStatusesAll == {status} \cup Statuses

\* UpdateRequisition refuses approved, rejected and ordered, whatever
\* RequireTieredApproval says; patchRequisition knows no cancelled.
PatchStatuses == {status} \cup {"draft", "pending approval", "closed"}

UpdateRequisition(s, t) ==
    /\ s \in PatchStatuses
    /\ status' = s /\ total' = t
    /\ UNCHANGED <<approvals, desk, announced, decidedBy>>

\* CreatePurchaseOrder and AwardRfq, in any status.
RaiseOrder ==
    /\ status' = "ordered"
    /\ UNCHANGED <<total, approvals, desk, announced, decidedBy>>

\* The signatures are counted without locking the requisition, so one may be
\* there when the chain's state is inserted.
OpenDeskChain ==
    /\ desk = "none"
    /\ desk' = "moving"
    /\ UNCHANGED <<status, total, approvals, announced, decidedBy>>

DeskMoves == {<<"moving", "moving">>, <<"moving", "approved">>, <<"moving", "rejected">>,
              <<"moving", "cancelled">>, <<"rejected", "moving">>}

\* Submitted, signed or reopened: pending approval; returned: a draft.
DeskMoving(s) ==
    /\ \/ <<desk, "moving">> \in DeskMoves
       \/ desk = "none" /\ approvedTiers = {}
    /\ s \in {"draft", "pending approval"}
    /\ desk' = "moving" /\ status' = s
    /\ UNCHANGED <<total, approvals, announced, decidedBy>>

\* Mutant: an outcome of its own, that no other service knows.
CancelledOutcome(d) == d

terminalOutcome(d) == IF d = "cancelled" THEN "rejected" ELSE d

DeskEnds(d) ==
    /\ d \in {"approved", "rejected", "cancelled"}
    /\ <<desk, d>> \in DeskMoves
    /\ desk' = d /\ status' = d
    /\ announced' = terminalOutcome(d)
    /\ decidedBy' = IF d = "approved" THEN "desks" ELSE decidedBy
    /\ UNCHANGED <<total, approvals>>

\* The routes; the callers are those change_requisition lets in.
approveRequisition ==
    \E a \in People : ApproveUnbanded(a) \/ \E l \in Levels : SignTier(a, l)
rejectRequisition == \E a \in People : RejectRequisitionTiered(a)
patchRequisition == \E s \in Statuses, t \in Amounts : UpdateRequisition(s, t)

Next ==
    \/ approveRequisition \/ rejectRequisition \/ patchRequisition
    \/ RaiseOrder
    \/ OpenDeskChain
    \/ \E s \in Statuses : DeskMoving(s)
    \/ \E d \in Statuses : DeskEnds(d)

Spec == Init /\ [][Next]_vars

-----------------------------------------------------------------------------
TypeOK ==
    /\ status \in Statuses
    /\ total \in Amounts
    /\ approvals \in [Levels -> People \cup {Unsigned}]
    /\ desk \in {"none", "moving", "approved", "rejected", "cancelled"}
    /\ announced \in {"none", "approved", "rejected"}
    /\ decidedBy \in {"none", "tiers", "desks"}

\* What the other services were last told about a decided requisition is what
\* was decided, whichever mechanism decided, through rejections, reopenings
\* and a second decision by the other mechanism (enqueueRequisitionOutcome is
\* in the transaction of every status write; PATCH cannot write a decision).
OutcomeAnnounced ==
    /\ status = "approved" => announced = "approved"
    /\ status \in {"rejected", "cancelled"} => announced = "rejected"

\* The requisition as the abstract specification sees it.
Outcome ==
    IF status = "rejected" THEN "refused"
    ELSE IF status = "approved" /\ decidedBy = "tiers" THEN "approved"
    ELSE IF Undecided THEN "open" ELSE "out"

D == INSTANCE Decision WITH outcome <- Outcome, asked <- requiredTiers(total),
                            signed <- approvals

\* "a requisition of total T requires sign-off from every tier whose min_amount
\* < T, cleared low-to-high by DISTINCT approvers" (migrations/018:3-5), and
\* never the requester, through edits of the total, reopenings and whatever
\* else writes the status.
ImplementsDecision == D!Spec
=============================================================================
