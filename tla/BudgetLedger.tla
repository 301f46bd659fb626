---------------------------- MODULE BudgetLedger ----------------------------
(***************************************************************************)
(* The three-stage budget accrual of the procurement service: a            *)
(* requisition's approval reserves its total (pre_committed), raising a    *)
(* purchase order turns the reservation into a firm encumbrance            *)
(* (committed), posting a goods receipt recognises it as spend (spent).    *)
(*                                                                         *)
(* One variable per table.  Every action is one database transaction of    *)
(* internal/repo, at the READ COMMITTED level the service runs with: a     *)
(* transaction that locks the rows it decides on (FOR UPDATE, or an UPDATE *)
(* before the read) is one step; a transaction that decides on an unlocked *)
(* read is two steps, the read kept in "tx".                               *)
(*                                                                         *)
(* Money is an integer number of cents, so the code's 0.005 tolerance is   *)
(* an exact comparison.  Statuses are collapsed to the classes the ledger  *)
(* tells apart: a PO is pending (draft, pending approval), cleared         *)
(* (approved, ordered, received, ...) or void (rejected, cancelled); which *)
(* cleared status the line receipts give it (recomputePOReceiptStatus)     *)
(* makes no difference here.                                               *)
(***************************************************************************)
EXTENDS Integers, FiniteSetsExt

CONSTANTS
    BudgetIds, ReqIds, PoIds, GrnIds,  \* row ids; a UUID is used for one row
    None,           \* SQL NULL / the empty id
    Allocations,    \* amounts a budget may be given
    Totals,         \* totals a requisition may be given
    OrderValues,    \* line totals and quote amounts of an order
    ReceiptValues,  \* value of a receipt's lines; 0: no lines
    Threshold,      \* PROCUREMENT_APPROVAL_THRESHOLD
    Policies,       \* period-close policies in use: "lapse", "carry"
    MaxMoney,       \* bound on a budget's committed and spent; liberties make both grow
    Liberties       \* which of AllLiberties the clients of the API take

(***************************************************************************)
(* Calls the service accepts but a disciplined client does not make, and   *)
(* interleavings it does not prevent.  With all of them the model is the   *)
(* code; a run with fewer of them states what the ledger guarantees to     *)
(* clients that avoid the rest.                                            *)
(***************************************************************************)
AllLiberties == {
    "editRequisition",   \* PATCH status, total or budget of any requisition
    "mixEngines",        \* tier endpoints on a requisition that is on a desk chain
    "relinkOrder",       \* PATCH an order's budget or requisition
    "deleteReceived",    \* DELETE an order with recognised spend
    "repointReceipt",    \* PATCH a receipt to another order
    "reallocate",        \* PATCH a budget's allocation
    "race" }             \* commit between the two steps of another transaction

ASSUME LedgerAssumption ==
    /\ None \notin BudgetIds \cup ReqIds \cup PoIds \cup GrnIds
    /\ IsFiniteSet(ReqIds) /\ IsFiniteSet(PoIds) /\ IsFiniteSet(GrnIds)
    /\ Allocations \subseteq Int /\ Totals \subseteq Int
    /\ OrderValues \subseteq Int /\ ReceiptValues \subseteq Nat
    /\ Threshold \in Int /\ MaxMoney \in Nat /\ Policies \subseteq {"lapse", "carry"}
    /\ Liberties \subseteq AllLiberties

VARIABLES
    budgets,  \* budgets: allocated, pre_committed, committed, spent, remaining
    reqs,     \* requisitions, with the requisition's desk-chain position
    pos,      \* purchase_orders
    grns,     \* grns, with the value of grn_lines
    tx,       \* the transaction between its unlocked read and its commit
    adrift    \* history, read by no guard: the budgets whose encumbrance was
              \* moved apart from their orders (Drifts, CloseBudgetPeriod)

vars == <<budgets, reqs, pos, grns, tx, adrift>>

May(l) == l \in Liberties

RowStates == {"free", "live", "gone"}
Budgets == [row : RowStates, allocated : Int, pre : Int, committed : Int,
            spent : Int, remaining : Int, closed : BOOLEAN]
\* status "open" stands for draft, pending approval and returned for amendment.
Reqs == [row : RowStates,
         status : {"open", "approved", "rejected", "cancelled", "ordered", "closed"},
         \* "moving": draft, in flight and returned; "none": no chain opened
         desk : {"none", "moving", "approved", "rejected", "cancelled"},
         signed : BOOLEAN,     \* an approved row in requisition_approvals
         budget : BudgetIds \cup {None}, total : Int,
         committed : BOOLEAN,  \* budget_committed: pre-encumbered
         released : BOOLEAN]   \* pre_released: liquidated by a PO
Pos == [row : RowStates, status : {"pending", "cleared", "void"},
        budget : BudgetIds \cup {None}, req : ReqIds \cup {None}, total : Int,
        committed : BOOLEAN,   \* budget_committed: firmly encumbered
        recognized : Int]      \* spent_recognized
Grns == [row : RowStates, posted : BOOLEAN, po : PoIds \cup {None}, value : Nat,
         recognized : BOOLEAN, \* budget_recognized
         amount : Int]         \* recognized_amount

NoBudget == [row |-> "free", allocated |-> 0, pre |-> 0, committed |-> 0,
             spent |-> 0, remaining |-> 0, closed |-> FALSE]
NoReq == [row |-> "free", status |-> "open", desk |-> "none", signed |-> FALSE,
          budget |-> None, total |-> 0, committed |-> FALSE, released |-> FALSE]
NoPo == [row |-> "free", status |-> "pending", budget |-> None, req |-> None,
         total |-> 0, committed |-> FALSE, recognized |-> 0]
NoGrn == [row |-> "free", posted |-> FALSE, po |-> None, value |-> 0,
          recognized |-> FALSE, amount |-> 0]

Idle == [op |-> "none"]
Transactions ==
    {Idle}
    \cup [op : {"DeleteRequisition"}, req : ReqIds, budget : BudgetIds \cup {None},
          total : Int, held : BOOLEAN]
    \cup [op : {"CreateGrn"}, po : PoIds \cup {None}]
    \cup [op : {"DeleteGrn"}, grn : GrnIds, po : PoIds \cup {None}]

\* A transaction that commits in one step falls between the two steps of no
\* other one, unless "race".
Undisturbed == tx = Idle \/ May("race")

\* Guards the two statements that no ceiling bounds (Recognize, Unrecognize).
WithinBound ==
    \A b \in BudgetIds : budgets[b].committed <= MaxMoney /\ budgets[b].spent <= MaxMoney

Live(table) == {i \in DOMAIN table : table[i].row = "live"}

Init ==
    /\ budgets = [b \in BudgetIds |-> NoBudget]
    /\ reqs = [r \in ReqIds |-> NoReq]
    /\ pos = [p \in PoIds |-> NoPo]
    /\ grns = [g \in GrnIds |-> NoGrn]
    /\ tx = Idle
    /\ adrift = {}

-----------------------------------------------------------------------------
(***************************************************************************)
(* The UPDATE statements on a budget row.  Each one computes "remaining"   *)
(* itself, from the row's old columns, as its SET clause does.             *)
(***************************************************************************)
Floor0(x) == IF x < 0 THEN 0 ELSE x    \* GREATEST(x, 0)

Available(b) == b.allocated - b.pre - b.committed - b.spent

\* Mutant: the ceiling forgets what other orders have committed.
WithinAllocation(b, v) == v + b.spent <= b.allocated

\* "committed + spent may not exceed allocated" once v more is committed.
WithinCeiling(b, v) == b.committed + v + b.spent <= b.allocated

PreEncumber(b, t) ==
    [b EXCEPT !.pre = b.pre + t,
              !.remaining = b.allocated - (b.pre + t) - b.committed - b.spent]

\* Mutant: without GREATEST.
ReleasePreUnfloored(b, t) ==
    [b EXCEPT !.pre = b.pre - t, !.remaining = b.allocated - (b.pre - t) - b.committed - b.spent]

ReleasePre(b, t) ==
    [b EXCEPT !.pre = Floor0(b.pre - t),
              !.remaining = b.allocated - Floor0(b.pre - t) - b.committed - b.spent]

Encumber(b, t) ==
    [b EXCEPT !.committed = b.committed + t,
              !.remaining = b.allocated - b.pre - (b.committed + t) - b.spent]

ReleaseCommitted(b, t) ==
    [b EXCEPT !.committed = Floor0(b.committed - t),
              !.remaining = b.allocated - b.pre - Floor0(b.committed - t) - b.spent]

AdjustCommitted(b, delta) ==
    [b EXCEPT !.committed = Floor0(b.committed + delta),
              !.remaining = b.allocated - b.pre - Floor0(b.committed + delta) - b.spent]

\* Mutant: remaining from the committed column the statement is about to replace.
RecognizeStale(b, a) ==
    [b EXCEPT !.spent = b.spent + a,
              !.committed = Floor0(b.committed - a),
              !.remaining = b.allocated - b.pre - b.committed - (b.spent + a)]

Recognize(b, a) ==
    [b EXCEPT !.spent = b.spent + a,
              !.committed = Floor0(b.committed - a),
              !.remaining = b.allocated - b.pre - Floor0(b.committed - a) - (b.spent + a)]

\* Mutant: the encumbrance comes back and the spend stays.
UnrecognizeKeepsSpend(b, a) ==
    [b EXCEPT !.committed = b.committed + a,
              !.remaining = b.allocated - b.pre - (b.committed + a) - b.spent]

Unrecognize(b, a) ==
    [b EXCEPT !.spent = Floor0(b.spent - a),
              !.committed = b.committed + a,
              !.remaining = b.allocated - b.pre - (b.committed + a) - Floor0(b.spent - a)]

Reallocate(b, a) ==
    [b EXCEPT !.allocated = a, !.remaining = a - b.pre - b.committed - b.spent]

Lapse(b) ==
    [b EXCEPT !.pre = 0, !.committed = 0, !.remaining = b.allocated - b.spent,
              !.closed = TRUE]

Carry(b) == [b EXCEPT !.closed = TRUE]

\* UPDATE budgets ... WHERE id = b: no row, no effect.
OnBudget(bs, b, Stmt(_)) ==
    [x \in DOMAIN bs |-> IF x = b /\ bs[x].row = "live" THEN Stmt(bs[x]) ELSE bs[x]]

-----------------------------------------------------------------------------
(* Budgets *)

CreateBudget(b, a) ==
    /\ Undisturbed
    /\ budgets[b].row = "free"
    /\ budgets' = [budgets EXCEPT ![b] =
                     [NoBudget EXCEPT !.row = "live", !.allocated = a, !.remaining = a]]
    /\ UNCHANGED <<reqs, pos, grns, tx, adrift>>

UpdateBudget(b, a) ==
    /\ Undisturbed
    /\ May("reallocate")
    /\ b \in Live(budgets)
    /\ budgets' = OnBudget(budgets, b, LAMBDA x : Reallocate(x, a))
    /\ UNCHANGED <<reqs, pos, grns, tx, adrift>>

\* Mutant: without the foreign key of purchase_orders.
DeleteBudgetOfOrders(b) ==
    /\ Undisturbed
    /\ b \in Live(budgets)
    /\ \A r \in Live(reqs) : reqs[r].budget # b
    /\ budgets' = [budgets EXCEPT ![b] = [NoBudget EXCEPT !.row = "gone"]]
    /\ UNCHANGED <<reqs, pos, grns, tx, adrift>>

\* The foreign keys of requisitions and purchase_orders keep a budget in use.
DeleteBudget(b) ==
    /\ Undisturbed
    /\ b \in Live(budgets)
    /\ \A r \in Live(reqs) : reqs[r].budget # b
    /\ \A p \in Live(pos) : pos[p].budget # b
    /\ budgets' = [budgets EXCEPT ![b] = [NoBudget EXCEPT !.row = "gone"]]
    /\ UNCHANGED <<reqs, pos, grns, tx, adrift>>

\* One UPDATE over the open budgets its filter (period, id, due date) selects.
CloseBudgetPeriod(policy, selected) ==
    /\ Undisturbed
    /\ selected # {}
    /\ \A b \in selected : b \in Live(budgets) /\ ~budgets[b].closed
    /\ budgets' = [b \in BudgetIds |->
                     IF b \notin selected THEN budgets[b]
                     ELSE IF policy = "lapse" THEN Lapse(budgets[b])
                     ELSE Carry(budgets[b])]
    /\ adrift' = IF policy = "lapse" THEN adrift \cup selected ELSE adrift
    /\ UNCHANGED <<reqs, pos, grns, tx>>

-----------------------------------------------------------------------------
(* Requisitions *)

CreateRequisition(r, b, t) ==
    /\ Undisturbed
    /\ reqs[r].row = "free"
    /\ b \in Live(budgets)
    /\ reqs' = [reqs EXCEPT ![r] = [NoReq EXCEPT !.row = "live", !.budget = b, !.total = t]]
    /\ UNCHANGED <<budgets, pos, grns, tx, adrift>>

\* The requisitions the consumers insert, always on a budget that
\* ResolveBudgetForDept found.  A project-management or governance one may
\* arrive approved, with nothing reserved for it.
ImportRequisition(r, b, t, st) ==
    /\ Undisturbed
    /\ reqs[r].row = "free"
    /\ b \in Live(budgets)
    /\ reqs' = [reqs EXCEPT ![r] = [NoReq EXCEPT !.row = "live", !.status = st,
                                                 !.budget = b, !.total = t]]
    /\ UNCHANGED <<budgets, pos, grns, tx, adrift>>

\* Approved, rejected and ordered are refused; budgetId cannot be cleared.
UpdateRequisition(r, st, b, t) ==
    /\ Undisturbed
    /\ May("editRequisition")
    /\ r \in Live(reqs)
    /\ st = reqs[r].status \/ st \in {"open", "closed"}
    /\ b = reqs[r].budget \/ b \in Live(budgets)
    /\ reqs' = [reqs EXCEPT ![r] = [reqs[r] EXCEPT !.status = st, !.budget = b,
                                                  !.total = t]]
    /\ UNCHANGED <<budgets, pos, grns, tx, adrift>>

\* Mutant: a second order of the requisition releases the reservation again.
HoldsCommitment(row) == row.committed

\* The requisition still has its total in pre_committed.
HoldsReservation(row) == row.committed /\ ~row.released

\* An approval reserves only once.
Reserves(row) == ~row.committed

\* applyBudgetCommitment: row is requisition r as the approval transaction leaves it.
applyBudgetCommitment(r, row, outcome) ==
    LET b == row.budget
        t == row.total
    IN  \/ /\ b = None \/ t <= 0
           /\ reqs' = [reqs EXCEPT ![r] = row]
           /\ UNCHANGED budgets
        \/ /\ b # None /\ t > 0 /\ outcome = "approved"
           /\ Reserves(row) => t <= Available(budgets[b])
           /\ reqs' = [reqs EXCEPT ![r] = [row EXCEPT !.committed = TRUE]]
           /\ budgets' = IF Reserves(row)
                         THEN OnBudget(budgets, b, LAMBDA x : PreEncumber(x, t))
                         ELSE budgets
        \/ /\ b # None /\ t > 0 /\ outcome = "rejected"
           /\ reqs' = [reqs EXCEPT ![r] = [row EXCEPT !.committed = FALSE]]
           /\ budgets' = IF HoldsReservation(row)
                         THEN OnBudget(budgets, b, LAMBDA x : ReleasePre(x, t))
                         ELSE budgets

\* A requisition the tiered endpoints still act on.  They look at its status
\* only, not at its desk chain.
TierActs(r) ==
    /\ Undisturbed
    /\ r \in Live(reqs)
    /\ reqs[r].status \notin {"approved", "rejected", "ordered", "closed"}
    /\ reqs[r].desk = "none" \/ May("mixEngines")

\* A tier signature that leaves others to come.
TierSign(r) ==
    /\ TierActs(r)
    /\ reqs' = [reqs EXCEPT ![r] = [reqs[r] EXCEPT !.status = "open", !.signed = TRUE]]
    /\ UNCHANGED <<budgets, pos, grns, tx, adrift>>

\* The final signature; a total below every band is approved without a row.
TierApprove(r, signed) ==
    /\ TierActs(r)
    /\ reqs[r].signed => signed
    /\ applyBudgetCommitment(
         r, [reqs[r] EXCEPT !.status = "approved", !.signed = signed], "approved")
    /\ UNCHANGED <<pos, grns, tx, adrift>>

TierReject(r) ==
    /\ TierActs(r)
    /\ applyBudgetCommitment(r, [reqs[r] EXCEPT !.status = "rejected"], "rejected")
    /\ UNCHANGED <<pos, grns, tx, adrift>>

\* A disciplined client opens a chain on a requisition still to be decided.
MayOpenDesk(r) == reqs[r].status = "open" \/ May("mixEngines")

\* Inserts the chain's state; the status stays.  The requisition is not
\* locked, so a tier signature may land between the check and the insert.
OpenDeskChain(r) ==
    /\ Undisturbed
    /\ r \in Live(reqs)
    /\ reqs[r].desk = "none" /\ MayOpenDesk(r)
    /\ ~reqs[r].signed \/ May("race")
    /\ reqs' = [reqs EXCEPT ![r] = [reqs[r] EXCEPT !.desk = "moving"]]
    /\ UNCHANGED <<budgets, pos, grns, tx, adrift>>

\* The moves of a desk chain (module DeskChain) as the ledger sees them: it
\* keeps walking, ends, and an admin reopens a rejected one.
DeskMoves == {<<"moving", "moving">>, <<"moving", "approved">>, <<"moving", "rejected">>,
              <<"moving", "cancelled">>, <<"rejected", "moving">>}

\* Mutant: the chain's own vocabulary.
chainStatusVerbatim(d) == d

\* "open": pending approval, returned for amendment, draft.
requisitionStatusFor(d) == IF d = "moving" THEN "open" ELSE d

\* Every desk transition rewrites the requisition's status from the chain's.
\* A submit opens the chain first, under the requisition's lock.
ApplyDeskTransition(r, d) ==
    /\ Undisturbed
    /\ r \in Live(reqs)
    /\ \/ <<reqs[r].desk, d>> \in DeskMoves
       \/ reqs[r].desk = "none" /\ d = "moving" /\ ~reqs[r].signed /\ MayOpenDesk(r)
    /\ LET row == [reqs[r] EXCEPT !.desk = d, !.status = requisitionStatusFor(d)]
       IN  \/ /\ d = "approved"
              /\ applyBudgetCommitment(r, row, "approved")
           \/ /\ d \in {"rejected", "cancelled"}
              /\ applyBudgetCommitment(r, row, "rejected")
           \/ /\ d = "moving"
              /\ reqs' = [reqs EXCEPT ![r] = row]
              /\ UNCHANGED budgets
    /\ UNCHANGED <<pos, grns, tx, adrift>>

\* DeleteRequisition reads the flags without a lock ...
DeleteRequisitionRead(r) ==
    /\ tx = Idle
    /\ r \in Live(reqs)
    /\ tx' = [op |-> "DeleteRequisition", req |-> r, budget |-> reqs[r].budget,
              total |-> reqs[r].total,
              held |-> HoldsReservation(reqs[r])]
    /\ UNCHANGED <<budgets, reqs, pos, grns, adrift>>

\* ... and releases what it read.  The foreign key of purchase_orders, or a
\* row already gone, rolls the whole transaction back (Rollback).
DeleteRequisitionCommit ==
    /\ tx.op = "DeleteRequisition"
    /\ tx.req \in Live(reqs)
    /\ \A p \in Live(pos) : pos[p].req # tx.req
    /\ budgets' = IF tx.held /\ tx.budget # None /\ tx.total > 0
                  THEN OnBudget(budgets, tx.budget, LAMBDA x : ReleasePre(x, tx.total))
                  ELSE budgets
    /\ reqs' = [reqs EXCEPT ![tx.req] = [NoReq EXCEPT !.row = "gone"]]
    /\ tx' = Idle
    /\ UNCHANGED <<pos, grns, adrift>>

-----------------------------------------------------------------------------
(* Purchase orders *)

poInitialStatus(v) == IF Threshold > 0 /\ v < Threshold THEN "cleared" ELSE "pending"

\* Mutant: what earlier receipts recognised is forgotten.
WholeAmount(po) == po.total

\* What the order has still to receive.
OpenAmount(po) == po.total - po.recognized

\* applyPOEncumbrance, inside the transaction that inserts order p: liquidate
\* the requisition's reservation once, then encumber under the hard ceiling.
\* The requisition becomes Ordered whatever its status was.
RaisePO(p, b, r, v) ==
    LET firm == b # None /\ v > 0
        liquidates == /\ firm /\ r # None /\ HoldsReservation(reqs[r])
                      /\ reqs[r].budget # None /\ reqs[r].total > 0
        released == IF liquidates
                    THEN OnBudget(budgets, reqs[r].budget,
                                  LAMBDA x : ReleasePre(x, reqs[r].total))
                    ELSE budgets
    IN  /\ pos[p].row = "free"
        /\ firm => WithinCeiling(released[b], v)
        /\ budgets' = IF firm THEN OnBudget(released, b, LAMBDA x : Encumber(x, v))
                      ELSE budgets
        /\ reqs' = [x \in ReqIds |->
                      IF x # r THEN reqs[x]
                      ELSE [reqs[x] EXCEPT !.status = "ordered",
                                           !.released = reqs[x].released \/ liquidates]]
        /\ pos' = [pos EXCEPT ![p] = [row |-> "live", status |-> poInitialStatus(v),
                                      budget |-> b, req |-> r, total |-> v,
                                      committed |-> firm, recognized |-> 0]]
        /\ UNCHANGED <<grns, tx, adrift>>

CreatePurchaseOrder(p, b, r, v) ==
    /\ Undisturbed
    /\ b \in Live(budgets)
    /\ r \in Live(reqs) \cup {None}
    /\ v >= 0
    /\ RaisePO(p, b, r, v)

\* The order an RFQ's award raises: the quote's amount, and the explicit
\* budget or else the source requisition's.
AwardRfq(p, explicit, r, v) ==
    /\ Undisturbed
    /\ explicit \in Live(budgets) \cup {None}
    /\ r \in Live(reqs) \cup {None}
    /\ LET b == IF explicit = None /\ r # None THEN reqs[r].budget ELSE explicit
       IN  RaisePO(p, b, r, v)

\* A PATCH with status st, lines worth v, budget b and requisition r, each of
\* them the current value when the PATCH leaves the field out.
UpdatePurchaseOrder(p, st, v, b, r) ==
    LET po == pos[p]
        row == [po EXCEPT !.status = st, !.total = v, !.budget = b, !.req = r]
        firm == po.committed /\ po.budget # None
        open == OpenAmount(po)
        delta == v - po.total
    IN  /\ Undisturbed
        /\ p \in Live(pos)
        /\ v # po.total => v >= 0
        /\ b = po.budget \/ b \in Live(budgets)
        /\ r = po.req \/ r \in Live(reqs) \cup {None}
        /\ May("relinkOrder") \/ (b = po.budget /\ r = po.req)
        /\ \/ /\ firm /\ st = "void"
              /\ budgets' = IF open > 0
                            THEN OnBudget(budgets, po.budget,
                                          LAMBDA x : ReleaseCommitted(x, open))
                            ELSE budgets
              /\ pos' = [pos EXCEPT ![p] = [row EXCEPT !.committed = FALSE]]
           \/ /\ firm /\ st # "void" /\ v # po.total
              /\ v >= po.recognized
              /\ delta > 0 => WithinCeiling(budgets[po.budget], delta)
              /\ budgets' = OnBudget(budgets, po.budget,
                                     LAMBDA x : AdjustCommitted(x, delta))
              /\ pos' = [pos EXCEPT ![p] = row]
           \/ /\ ~firm \/ (st # "void" /\ v = po.total)
              /\ pos' = [pos EXCEPT ![p] = row]
              /\ UNCHANGED budgets
        /\ UNCHANGED <<reqs, grns, tx, adrift>>

\* Releases the open encumbrance; recognised spend stays booked.  Receipts
\* keep the order's id (grns.po_id is no foreign key).
DeletePurchaseOrder(p) ==
    LET po == pos[p]
        open == OpenAmount(po)
    IN  /\ Undisturbed
        /\ p \in Live(pos)
        /\ May("deleteReceived") \/ po.recognized = 0
        /\ budgets' = IF po.committed /\ po.budget # None /\ open > 0
                      THEN OnBudget(budgets, po.budget, LAMBDA x : ReleaseCommitted(x, open))
                      ELSE budgets
        /\ pos' = [pos EXCEPT ![p] = [NoPo EXCEPT !.row = "gone"]]
        /\ UNCHANGED <<reqs, grns, tx, adrift>>

-----------------------------------------------------------------------------
(* Goods receipts *)

\* purchase_orders after a reversal of amount a on order po.
Unreceived(po, a) ==
    [pos EXCEPT ![po] = [pos[po] EXCEPT !.recognized = Floor0(pos[po].recognized - a)]]

\* A receipt is booked or reversed on order po's budget, whether or not the
\* order still holds an encumbrance there: a void order has given it up, and
\* one raised at 0 or without a budget never had one.
Drifts(po) ==
    adrift' = IF pos[po].committed THEN adrift ELSE adrift \cup {pos[po].budget}

\* recognizePOSpendOnReceipt for receipt g, row being the receipt as the
\* transaction leaves it and po the order id it passes.
recognizePOSpendOnReceipt(g, row, po, posted) ==
    LET found == po \in Live(pos)
        open == OpenAmount(pos[po])
        value == IF row.value > 0 THEN row.value ELSE open
        amt == IF value > open THEN open ELSE value
        bid == pos[po].budget
    IN  \/ /\ posted /\ ~row.recognized /\ ~found
           /\ grns' = [grns EXCEPT ![g] = row]
           /\ UNCHANGED <<budgets, pos, adrift>>
        \/ /\ posted /\ ~row.recognized /\ found
           /\ open <= 0
           /\ grns' = [grns EXCEPT ![g] = [row EXCEPT !.recognized = TRUE, !.amount = 0]]
           /\ UNCHANGED <<budgets, pos, adrift>>
        \/ /\ posted /\ ~row.recognized /\ found
           /\ open > 0
           /\ budgets' = OnBudget(budgets, bid, LAMBDA x : Recognize(x, amt))
           /\ WithinBound'
           /\ pos' = [pos EXCEPT ![po] = [pos[po] EXCEPT !.recognized = pos[po].recognized + amt]]
           /\ grns' = [grns EXCEPT ![g] = [row EXCEPT !.recognized = TRUE, !.amount = amt]]
           /\ Drifts(po)
        \/ /\ ~posted /\ row.recognized /\ found /\ row.amount > 0
           /\ budgets' = OnBudget(budgets, bid, LAMBDA x : Unrecognize(x, row.amount))
           /\ WithinBound'
           /\ pos' = Unreceived(po, row.amount)
           /\ grns' = [grns EXCEPT ![g] = [row EXCEPT !.recognized = FALSE, !.amount = 0]]
           /\ Drifts(po)
        \/ /\ ~posted /\ row.recognized /\ ~(found /\ row.amount > 0)
           /\ grns' = [grns EXCEPT ![g] = [row EXCEPT !.recognized = FALSE, !.amount = 0]]
           /\ UNCHANGED <<budgets, pos, adrift>>
        \/ /\ posted = row.recognized
           /\ grns' = [grns EXCEPT ![g] = row]
           /\ UNCHANGED <<budgets, pos, adrift>>

\* grns.po_id may name an order that has been deleted, never one to come.
OrderRefs == {None} \cup {p \in PoIds : pos[p].row # "free"}

\* assertPOReceivable reads the order's status without a lock ...
CreateGrnAssert(po) ==
    /\ tx = Idle
    /\ po \in OrderRefs
    /\ po \in Live(pos) => pos[po].status = "cleared"
    /\ tx' = [op |-> "CreateGrn", po |-> po]
    /\ UNCHANGED <<budgets, reqs, pos, grns, adrift>>

\* ... before the insert and the recognition, which lock the order and do not
\* look at its status again: it may have been cancelled or deleted since.
CreateGrnCommit(g, posted, v) ==
    /\ tx.op = "CreateGrn"
    /\ grns[g].row = "free"
    /\ recognizePOSpendOnReceipt(
         g, [NoGrn EXCEPT !.row = "live", !.posted = posted, !.po = tx.po, !.value = v],
         tx.po, posted)
    /\ tx' = Idle
    /\ UNCHANGED reqs

\* A PATCH with status, order id and lines, each the current value when left
\* out.  It has no assertPOReceivable, and an empty poId leaves po_id alone.
UpdateGrn(g, posted, po, v) ==
    /\ Undisturbed
    /\ g \in Live(grns)
    /\ po = grns[g].po \/ (po \in OrderRefs \ {None} /\ May("repointReceipt"))
    /\ v # grns[g].value => ~grns[g].recognized
    /\ recognizePOSpendOnReceipt(
         g, [grns[g] EXCEPT !.posted = posted, !.po = po, !.value = v], po, posted)
    /\ UNCHANGED <<reqs, tx>>

\* DeleteGrn reads po_id without a lock, then reverses against that order,
\* whatever its status is or becomes.
DeleteGrnRead(g) ==
    /\ tx = Idle
    /\ g \in Live(grns)
    /\ tx' = [op |-> "DeleteGrn", grn |-> g, po |-> grns[g].po]
    /\ UNCHANGED <<budgets, reqs, pos, grns, adrift>>

DeleteGrnCommit ==
    /\ tx.op = "DeleteGrn"
    /\ tx.grn \in Live(grns)
    /\ LET gone == [NoGrn EXCEPT !.row = "gone"]
           held == grns[tx.grn].amount
           po == tx.po
           reverses == grns[tx.grn].recognized /\ held > 0 /\ po \in Live(pos)
       IN  /\ budgets' = IF reverses
                         THEN OnBudget(budgets, pos[po].budget,
                                       LAMBDA x : Unrecognize(x, held))
                         ELSE budgets
           /\ WithinBound'
           /\ pos' = IF reverses
                     THEN Unreceived(po, held)
                     ELSE pos
           /\ grns' = [grns EXCEPT ![tx.grn] = gone]
           /\ IF reverses THEN Drifts(po) ELSE UNCHANGED adrift
    /\ tx' = Idle
    /\ UNCHANGED reqs

\* An error, a lost row or a cancelled request: nothing of tx is kept.
Rollback ==
    /\ tx # Idle
    /\ tx' = Idle
    /\ UNCHANGED <<budgets, reqs, pos, grns, adrift>>

-----------------------------------------------------------------------------
(* The routes of budgets and requisitions *)

postBudget == \E b \in BudgetIds, a \in Allocations : CreateBudget(b, a)
patchBudget == \E b \in BudgetIds, a \in Allocations : UpdateBudget(b, a)
deleteBudget == \E b \in BudgetIds : DeleteBudget(b)
closeBudgetPeriod ==
    \E policy \in Policies, s \in SUBSET BudgetIds : CloseBudgetPeriod(policy, s)
postRequisition ==
    \E r \in ReqIds, b \in BudgetIds, t \in Totals : CreateRequisition(r, b, t)
deleteRequisition == \E r \in ReqIds : DeleteRequisitionRead(r)

Next ==
    \/ postBudget \/ patchBudget \/ deleteBudget \/ closeBudgetPeriod
    \/ postRequisition \/ deleteRequisition
    \/ \E r \in ReqIds, b \in BudgetIds, t \in Totals, st \in {"open", "approved"} :
         ImportRequisition(r, b, t, st)
    \/ \E r \in ReqIds, b \in BudgetIds :
         \E st \in {reqs[r].status, "open", "closed"}, t \in {reqs[r].total} \cup Totals :
            UpdateRequisition(r, st, b, t)
    \/ \E r \in ReqIds : TierSign(r)
    \/ \E r \in ReqIds, signed \in BOOLEAN : TierApprove(r, signed)
    \/ \E r \in ReqIds : TierReject(r)
    \/ \E r \in ReqIds : OpenDeskChain(r)
    \/ \E r \in ReqIds, d \in {"moving", "approved", "rejected", "cancelled"} :
         ApplyDeskTransition(r, d)
    \/ DeleteRequisitionCommit
    \/ \E p \in PoIds, b \in BudgetIds, r \in ReqIds \cup {None}, v \in OrderValues :
         CreatePurchaseOrder(p, b, r, v)
    \/ \E p \in PoIds, b \in BudgetIds \cup {None}, r \in ReqIds \cup {None},
          v \in OrderValues : AwardRfq(p, b, r, v)
    \/ \E p \in PoIds, st \in {"pending", "cleared", "void"},
          b \in BudgetIds \cup {None}, r \in ReqIds \cup {None} :
         \E v \in {pos[p].total} \cup OrderValues : UpdatePurchaseOrder(p, st, v, b, r)
    \/ \E p \in PoIds : DeletePurchaseOrder(p)
    \/ \E po \in PoIds \cup {None} : CreateGrnAssert(po)
    \/ \E g \in GrnIds, posted \in BOOLEAN, v \in ReceiptValues :
         CreateGrnCommit(g, posted, v)
    \/ \E g \in GrnIds, posted \in BOOLEAN, po \in PoIds \cup {None},
          v \in ReceiptValues : UpdateGrn(g, posted, po, v)
    \/ \E g \in GrnIds : DeleteGrnRead(g)
    \/ DeleteGrnCommit
    \/ Rollback

Spec == Init /\ [][Next]_vars
-----------------------------------------------------------------------------
TypeOK ==
    /\ budgets \in [BudgetIds -> Budgets]
    /\ reqs \in [ReqIds -> Reqs]
    /\ pos \in [PoIds -> Pos]
    /\ grns \in [GrnIds -> Grns]
    /\ tx \in Transactions
    /\ adrift \subseteq BudgetIds \cup {None}

\* "remaining = allocated - pre_committed - committed - spent" (README.md:43).
\* The column is derived but stored, and eleven statements in five files
\* recompute it, some from columns they set in the same statement.
RemainingIdentity ==
    \A b \in BudgetIds : budgets[b].remaining = Available(budgets[b])

\* No sequence of releases, un-posts and period closes drives a stage of a
\* budget, an order's recognised spend or a receipt's stored amount below 0.
NonNegativeStages ==
    /\ \A b \in BudgetIds :
         budgets[b].pre >= 0 /\ budgets[b].committed >= 0 /\ budgets[b].spent >= 0
    /\ \A p \in PoIds : pos[p].recognized >= 0
    /\ \A g \in GrnIds : grns[g].amount >= 0

\* The foreign keys the guards rely on: a live requisition or order names a
\* live budget, so a budget row is found whenever one is charged
\* (requisition_outcome.go:60 and :170 are not reached).
ReferencesHold ==
    /\ \A r \in Live(reqs) : reqs[r].budget \in Live(budgets) \cup {None}
    /\ \A p \in Live(pos) : /\ pos[p].budget \in Live(budgets) \cup {None}
                            /\ pos[p].req \in Live(reqs) \cup {None}

SumOver(f) == MapThenSumSet(LAMBDA i : f[i], DOMAIN f)

\* What one row adds to a column of budget b, or to order p's recognised spend.
Reserved(q, b) ==
    IF /\ q.row = "live" /\ q.budget = b /\ q.total > 0
       /\ q.committed /\ ~q.released
    THEN q.total ELSE 0
Encumbered(q, b) ==
    IF q.row = "live" /\ q.budget = b /\ q.committed THEN q.total - q.recognized ELSE 0
Recognized(q, b) == IF q.row = "live" /\ q.budget = b THEN q.recognized ELSE 0
Received(q, p) == IF q.row = "live" /\ q.po = p THEN q.amount ELSE 0

OpenReservations(b) == SumOver([r \in ReqIds |-> Reserved(reqs[r], b)])
OpenEncumbrances(b) == SumOver([p \in PoIds |-> Encumbered(pos[p], b)])
RecognizedSpend(b) == SumOver([p \in PoIds |-> Recognized(pos[p], b)])
ReceiptsOf(p) == SumOver([g \in GrnIds |-> Received(grns[g], p)])

\* pre_committed is exactly the totals of the requisitions that are approved
\* and not yet ordered: every approval, refusal, liquidation by a PO and
\* delete releases what was reserved, once ("so sibling POs don't release it
\* twice", migrations/015_budget_accrual.sql:24).
PreReconciles ==
    \A b \in Live(budgets) : budgets[b].pre = OpenReservations(b)

\* committed is exactly the unreceived value of the orders that hold an
\* encumbrance: raise, edit, reject, cancel, delete, receipt and un-post all
\* move it by the right amount, in any interleaving.  The two ways a budget
\* goes adrift are the code's own: a receipt booked or reversed on an order
\* that holds no encumbrance (one cancelled between CreateGrn's or DeleteGrn's
\* read and its commit, a cancelled order's receipt un-posted), and a lapse.
CommittedReconciles ==
    \A b \in Live(budgets) \ adrift : budgets[b].committed = OpenEncumbrances(b)

\* spent is exactly what orders have recognised, and an order has recognised
\* exactly what its receipts store for their own reversal.
SpentReconciles ==
    /\ \A b \in Live(budgets) : budgets[b].spent = RecognizedSpend(b)
    /\ \A p \in Live(pos) : pos[p].recognized = ReceiptsOf(p)

\* "committed + spent may not exceed allocated" (requisition_outcome.go:164),
\* on every budget whose encumbrance is its orders': WithinCeiling is tested
\* against the stored column, so a release it is still owed would let an order in.
HardCeiling ==
    \A b \in Live(budgets) \ adrift :
        budgets[b].committed + budgets[b].spent <= budgets[b].allocated

=============================================================================
