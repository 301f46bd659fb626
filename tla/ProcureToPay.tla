---------------------------- MODULE ProcureToPay ----------------------------
(***************************************************************************)
(* The documents that follow an approved requisition: requests for         *)
(* quotation and their award, purchase orders, goods receipts with their   *)
(* quality hold, supplier invoices with the three-way match, and the       *)
(* payments finance reports back.  What these documents do to the budget   *)
(* is BudgetLedger's subject; a transaction that the ledger refuses rolls  *)
(* back here (Rollback, or the action not taken).                          *)
(*                                                                         *)
(* One variable per table.  A transaction is one step when it locks what   *)
(* it decides on, and two steps, with the values read kept in "tx", when   *)
(* it decides on an unlocked read (READ COMMITTED).  A PATCH of several    *)
(* fields is a sequence of one-field PATCHes: no statement looks at two    *)
(* patched fields together.                                                *)
(***************************************************************************)
EXTENDS Integers, FiniteSetsExt

CONSTANTS
    VendorIds, RfqIds, PoIds, GrnIds, InvIds,  \* row ids; a UUID is used for one row
    QuoteIds,    \* numbers, given out in the order quotes are recorded
    Numbers,     \* invoice numbers suppliers print on their invoices
    PayRefs,     \* payment references, finance's own and the PMT numbers minted here
    Amounts,     \* order totals, quoted and invoiced amounts
    Threshold,   \* PROCUREMENT_APPROVAL_THRESHOLD; 0: every order needs approval
    Tolerance,   \* invoiceVariancePct
    Sessions,    \* database sessions
    None,        \* SQL NULL / the empty id
    Worlds       \* ids and amounts in use together, and the liberties taken

(***************************************************************************)
(* Calls the API accepts but a disciplined client does not make, and       *)
(* interleavings the service does not prevent.  A property that one of     *)
(* them breaks is excused in a world that takes it.                        *)
(***************************************************************************)
AllLiberties == {
    "race",           \* commit between the two steps of another transaction
    "reopenRfq",      \* PATCH the status of an awarded or closed RFQ
    "awardSuspended", \* award an RFQ to a suspended supplier
    "issue",          \* PATCH an order to ordered, received or closed unapproved
    "editOrder",      \* PATCH the lines of an order, or DELETE it, once cleared
    "editReceipt",    \* un-post or re-point a receipt an invoice was matched with
    "looseReceipt",   \* give a receipt the status "Received", which has no QC hold
    "editCleared",    \* PATCH amount or order of an invoice cleared for payment
    "repointInvoice", \* PATCH the order of an invoice already matched with a receipt
    "reidentify",     \* PATCH the number of an invoice finance holds, or DELETE it
    "sharedNumber",   \* two invoices with one number
    "bareSettlement" }\* finance reports a settlement without a reference

AllIds == VendorIds \cup RfqIds \cup QuoteIds \cup PoIds \cup GrnIds \cup InvIds
             \cup Numbers \cup PayRefs

ASSUME P2PAssumption ==
    /\ None \notin AllIds
    /\ QuoteIds \subseteq Nat /\ Amounts \subseteq Nat
    /\ Threshold \in Nat /\ Tolerance \in Nat
    /\ Numbers \cap InvIds = {}
    /\ Worlds \subseteq [may : SUBSET AllLiberties, ids : SUBSET AllIds, amounts : SUBSET Amounts]

VARIABLES
    vendors,   \* quality_status = suspended, open_pos
    rfqs, quotes, pos, grns, invoices,
    payments,  \* payments.reference -> the invoice it pays
    ap,        \* documentRef of the invoice.received event of each invoice
    settled,   \* finance.payment.made events, deliverable any number of times
    consumed,  \* those of them consumed at least once
    tx,        \* the transactions between their unlocked reads and their commit
    world      \* the member of Worlds this behaviour lives in

tables == <<vendors, rfqs, quotes, pos, grns, invoices, payments, ap>>
vars == <<tables, settled, consumed, tx, world>>

RowStates == {"free", "live", "gone"}
Vendors == [suspended : BOOLEAN, openPos : Int]
\* "open" stands for draft, open and cancelled, which no guard tells apart.
Rfqs == [row : RowStates, status : {"open", "awarded", "closed"}, winner : VendorIds \cup {None}]
Quotes == [row : RowStates, rfq : RfqIds \cup {None}, vendor : VendorIds \cup {None}, amount : Nat]
\* "pending": draft, pending approval; "cleared": approved, ordered, received,
\* closed; "void": rejected, cancelled.  "approved" and "from" are history: an
\* approval of the present total, and the RFQ an order was awarded from.
Pos == [row : RowStates, status : {"pending", "cleared", "void"}, vendor : VendorIds \cup {None},
        total : Nat, paid : BOOLEAN, approved : BOOLEAN, from : RfqIds \cup {None}]
\* qc: quality_critical and qc_status together.
Grns == [row : RowStates, po : PoIds \cup {None}, status : {"draft", "posted", "received"},
         qc : {"exempt", "held", "released"}]
\* "held" stands for disputed, rejected and cancelled; "pending" for Pending Approval too.
Invoices == [row : RowStates, no : Numbers \cup {None}, po : PoIds \cup {None}, amount : Nat,
             status : {"pending", "held", "approved", "paid"},
             match : {"No PO", "Pending GRN", "Matched", "Amount variance"},
             grn : GrnIds \cup {None}, resolved : BOOLEAN]

NoRfq == [row |-> "free", status |-> "open", winner |-> None]
NoQuote == [row |-> "free", rfq |-> None, vendor |-> None, amount |-> 0]
NoPo == [row |-> "free", status |-> "pending", vendor |-> None, total |-> 0, paid |-> FALSE,
         approved |-> FALSE, from |-> None]
NoGrn == [row |-> "free", po |-> None, status |-> "draft", qc |-> "exempt"]
NoInvoice == [row |-> "free", no |-> None, po |-> None, amount |-> 0, status |-> "pending",
              match |-> "No PO", grn |-> None, resolved |-> FALSE]

Idle == [op |-> "none"]
Transactions ==
    {Idle}
    \cup [op : {"order"}, rfq : RfqIds \cup {None}, vendor : VendorIds, total : Nat]
    \cup [op : {"approve"}, inv : InvIds, grn : GrnIds]

May(l) == l \in world.may
Excused(ls) == world.may \cap ls # {}
Undisturbed == May("race") \/ \A s \in Sessions : tx[s] = Idle
Live(table) == {i \in DOMAIN table : table[i].row = "live"}
Free(table) == {i \in DOMAIN table : table[i].row = "free"} \cap world.ids
Known(ids) == ids \cap world.ids    \* ids a client may name

\* Every row one field away from "row"; choices gives each field its values.
Edits(row, choices) ==
    UNION {{[row EXCEPT ![f] = v] : v \in choices[f]} : f \in DOMAIN choices}

Init ==
    /\ world \in Worlds
    /\ vendors = [v \in VendorIds |-> [suspended |-> FALSE, openPos |-> 0]]
    /\ rfqs = [r \in RfqIds |-> NoRfq]
    /\ quotes = [q \in QuoteIds |-> NoQuote]
    /\ pos = [p \in PoIds |-> NoPo]
    /\ grns = [g \in GrnIds |-> NoGrn]
    /\ invoices = [i \in InvIds |-> NoInvoice]
    /\ payments = [x \in PayRefs |-> None]
    /\ ap = [i \in InvIds |-> None]
    /\ settled = {} /\ consumed = {}
    /\ tx = [s \in Sessions |-> Idle]

-----------------------------------------------------------------------------
(***************************************************************************)
(* Suppliers, quotations and orders                                        *)
(***************************************************************************)
Floor0(x) == IF x < 0 THEN 0 ELSE x    \* GREATEST(x, 0)

poInitialStatus(total) == IF Threshold > 0 /\ total < Threshold THEN "cleared" ELSE "pending"

supplierSuspended(v) == vendors[v].suspended

SetVendorQualityStatus(v, suspended) ==
    /\ vendors' = [vendors EXCEPT ![v].suspended = suspended]
    /\ UNCHANGED <<rfqs, quotes, pos, grns, invoices, payments, ap>>

CreateRfq(r) ==
    /\ rfqs' = [rfqs EXCEPT ![r] = [NoRfq EXCEPT !.row = "live"]]
    /\ UNCHANGED <<vendors, quotes, pos, grns, invoices, payments, ap>>

\* Quotes can only be added while the RFQ is neither awarded nor closed.
CreateRfqQuote(r, v, amount) ==
    /\ rfqs[r].status \notin {"awarded", "closed"}
    /\ Free(quotes) # {}
    /\ quotes' = [quotes EXCEPT ![Min(Free(quotes))] =
                     [row |-> "live", rfq |-> r, vendor |-> v, amount |-> amount]]
    /\ UNCHANGED <<vendors, rfqs, pos, grns, invoices, payments, ap>>

UpdateRfq(r, new) ==
    /\ rfqs' = [rfqs EXCEPT ![r] = new]
    /\ UNCHANGED <<vendors, quotes, pos, grns, invoices, payments, ap>>

DeleteRfq(r) ==    \* rfq_quotes go with it (ON DELETE CASCADE)
    /\ rfqs' = [rfqs EXCEPT ![r] = [NoRfq EXCEPT !.row = "gone"]]
    /\ quotes' = [q \in QuoteIds |->
                    IF quotes[q].rfq = r THEN [NoQuote EXCEPT !.row = "gone"] ELSE quotes[q]]
    /\ UNCHANGED <<vendors, pos, grns, invoices, payments, ap>>

\* Mutant: the award does not look at the RFQ's status.
AwardRfqAgain(s, r, q) ==
    /\ q \in Live(quotes) /\ quotes[q].rfq = r
    /\ May("awardSuspended") \/ ~supplierSuspended(quotes[q].vendor)
    /\ tx' = [tx EXCEPT ![s] = [op |-> "order", rfq |-> r, vendor |-> quotes[q].vendor,
                                total |-> quotes[q].amount]]

\* Mutant: the award goes ahead when no quote matches.
AwardRfqUnquoted(s, r, q) ==
    /\ rfqs[r].status \notin {"awarded", "closed"}
    /\ tx' = [tx EXCEPT ![s] = [op |-> "order", rfq |-> r, vendor |-> quotes[q].vendor,
                                total |-> quotes[q].amount]]

\* The first half of AwardRfq: the RFQ's status and the winning quote, named by
\* its id or as the supplier's latest, are read without a lock.  The code does
\* not look at the supplier's standing.
AwardRfqRead(s, r, q) ==
    /\ rfqs[r].status \notin {"awarded", "closed"}
    /\ q \in Live(quotes) /\ quotes[q].rfq = r
    /\ May("awardSuspended") \/ ~supplierSuspended(quotes[q].vendor)
    /\ tx' = [tx EXCEPT ![s] = [op |-> "order", rfq |-> r, vendor |-> quotes[q].vendor,
                                total |-> quotes[q].amount]]

\* Mutant: a suspended supplier is not refused.
CreatePurchaseOrderUnchecked(s, v, total) ==
    tx' = [tx EXCEPT ![s] = [op |-> "order", rfq |-> None, vendor |-> v, total |-> total]]

\* The first half of CreatePurchaseOrder: the supplier's standing is read.
CreatePurchaseOrderRead(s, v, total) ==
    /\ ~supplierSuspended(v)
    /\ tx' = [tx EXCEPT ![s] = [op |-> "order", rfq |-> None, vendor |-> v, total |-> total]]

\* The second half of both: the order, its supplier's open_pos and, for an
\* award, the RFQ's outcome are written and committed.  An RFQ deleted since is
\* an UPDATE of no row, which nobody checks.
InsertOrder(s, p) ==
    LET t == tx[s] IN
    /\ t.op = "order"
    /\ pos' = [pos EXCEPT ![p] =
                 [row |-> "live", status |-> poInitialStatus(t.total), vendor |-> t.vendor,
                  total |-> t.total, paid |-> FALSE, approved |-> FALSE, from |-> t.rfq]]
    /\ vendors' = [vendors EXCEPT ![t.vendor].openPos = @ + 1]
    /\ rfqs' = IF t.rfq \in Live(rfqs)
                 THEN [rfqs EXCEPT ![t.rfq].status = "awarded", ![t.rfq].winner = t.vendor]
                 ELSE rfqs
    /\ tx' = [tx EXCEPT ![s] = Idle]
    /\ UNCHANGED <<quotes, grns, invoices, payments, ap>>

\* Any statement may fail and roll the transaction back.
Rollback(s) == tx[s] # Idle /\ tx' = [tx EXCEPT ![s] = Idle] /\ UNCHANGED tables

\* Mutant: an order that changes supplier stays on the old supplier's count.
MoveOrderUncounted(p, v) ==
    /\ v = pos[p].vendor \/ ~supplierSuspended(v)
    /\ pos' = [pos EXCEPT ![p].vendor = v]
    /\ vendors' = IF v = pos[p].vendor THEN vendors ELSE [vendors EXCEPT ![v].openPos = @ + 1]

\* UpdatePurchaseOrder's change of supplier.
MoveOrder(p, v) ==
    /\ v = pos[p].vendor \/ ~supplierSuspended(v)
    /\ pos' = [pos EXCEPT ![p].vendor = v]
    /\ vendors' = IF v = pos[p].vendor THEN vendors
                  ELSE [vendors EXCEPT ![pos[p].vendor].openPos = Floor0(@ - 1),
                                       ![v].openPos = @ + 1]

\* Mutant: the creator may approve the order.
UpdateOrderStatusAnyone(p, status, creator) ==
    /\ pos' = [pos EXCEPT ![p].status = IF status = "approved" \/ status = "issued" THEN "cleared" ELSE status,
                          ![p].approved = (status = "approved" /\ ~creator)
                                             \/ (status = "issued" /\ pos[p].approved)]
    /\ UNCHANGED vendors

\* UpdatePurchaseOrder's change of status: the creator may not approve.
UpdateOrderStatus(p, status, creator) ==
    /\ ~(status = "approved" /\ creator)
    /\ pos' = [pos EXCEPT ![p].status = IF status = "approved" \/ status = "issued" THEN "cleared" ELSE status,
                          ![p].approved = status = "approved"
                                             \/ (status = "issued" /\ pos[p].approved)]
    /\ UNCHANGED vendors

\* UpdatePurchaseOrder's replacement of the lines, which gives a new total.
RepriceOrder(p, total) ==
    /\ pos' = [pos EXCEPT ![p].total = total, ![p].approved = total = pos[p].total /\ pos[p].approved]
    /\ UNCHANGED vendors

DeletePurchaseOrder(p) ==    \* grns.po_id and invoices.po_id are no foreign keys
    /\ pos' = [pos EXCEPT ![p] = [NoPo EXCEPT !.row = "gone"]]
    /\ vendors' = [vendors EXCEPT ![pos[p].vendor].openPos = Floor0(@ - 1)]

-----------------------------------------------------------------------------
(***************************************************************************)
(* Goods receipts                                                          *)
(***************************************************************************)
\* Mutant: no quality hold.
grnQCGateOpen(status, qc) == TRUE

\* A quality-critical receipt is not posted before QC releases it.
grnQCGate(status, qc) == status = "posted" => qc # "held"

\* An order that is gone is receivable: the code finds no row to object to.
assertPOReceivable(p) == p \in Live(pos) => pos[p].status = "cleared"

CreateGrn(g, p, status, qc) ==
    /\ grnQCGate(status, qc)
    /\ assertPOReceivable(p)
    /\ grns' = [grns EXCEPT ![g] = [row |-> "live", po |-> p, status |-> status, qc |-> qc]]

\* The hold is evaluated on the row as it stands after the update.
UpdateGrn(g, new) ==
    /\ grnQCGate(new.status, new.qc)
    /\ grns' = [grns EXCEPT ![g] = new]

DeleteGrn(g) ==    \* invoices.grn_id: ON DELETE RESTRICT
    /\ \A i \in Live(invoices) : invoices[i].grn # g
    /\ grns' = [grns EXCEPT ![g] = [NoGrn EXCEPT !.row = "gone"]]

-----------------------------------------------------------------------------
(***************************************************************************)
(* Invoices                                                                *)
(***************************************************************************)
Receipts(p) == {g \in Live(grns) : grns[g].po = p /\ grns[g].status \in {"posted", "received"}}

Abs(x) == IF x < 0 THEN -x ELSE x

\* Mutant: what was ordered is not compared with what is charged.
deriveInvoiceMatchStatusTwoWay(p, amount) ==
    IF p \notin Live(pos) THEN {[match |-> "No PO", grn |-> None]}
    ELSE IF Receipts(p) = {} THEN {[match |-> "Pending GRN", grn |-> None]}
    ELSE {[match |-> "Matched", grn |-> g] : g \in Receipts(p)}

\* The three-way match: its result and the receipt it rests on.  Which receipt
\* is the latest is up to received_date, a client's input.
deriveInvoiceMatchStatus(p, amount) ==
    IF p \notin Live(pos) THEN {[match |-> "No PO", grn |-> None]}
    ELSE IF Receipts(p) = {} THEN {[match |-> "Pending GRN", grn |-> None]}
    ELSE {[match |-> IF amount = pos[p].total THEN "Matched" ELSE "Amount variance", grn |-> g] :
             g \in Receipts(p)}

\* Further from the order than the tolerance, an invoice needs an explanation.
invoiceVarianceGate(amount, total, resolved) ==
    total = 0 \/ Abs(amount - total) * 100 <= Tolerance * total \/ resolved

\* docRef of invoice.received: the number the caller gave, else the row's id.
enqueueInvoiceReceived(i, no) == ap' = [ap EXCEPT ![i] = IF no = None THEN i ELSE no]

CreateInvoice(i, no, p, amount, resolved) ==
    /\ \E m \in deriveInvoiceMatchStatus(p, amount) :
          invoices' = [invoices EXCEPT ![i] =
                         [row |-> "live", no |-> no, po |-> p, amount |-> amount,
                          status |-> "pending", match |-> m.match, grn |-> m.grn,
                          resolved |-> resolved]]
    /\ enqueueInvoiceReceived(i, no)
    /\ UNCHANGED <<vendors, rfqs, quotes, pos, grns, payments>>

\* ApproveInvoice holds the invoice's row from its first statement on.
Locked(i) == \E s \in Sessions : tx[s].op = "approve" /\ tx[s].inv = i

\* The first half of ApproveInvoice: the invoice is locked, the order's total
\* and the receipts are not.
ApproveInvoiceRead(s, i) ==
    LET v == invoices[i] IN
    /\ v.status # "paid"
    /\ v.po \in Live(pos)
          => invoiceVarianceGate(v.amount, pos[v.po].total, v.resolved)
    /\ \E m \in deriveInvoiceMatchStatus(v.po, v.amount) :
          /\ m.match = "Matched"
          /\ tx' = [tx EXCEPT ![s] = [op |-> "approve", inv |-> i, grn |-> m.grn]]

\* The second half: grn_id = COALESCE(grn_id, the receipt found), under the
\* foreign key.
ApproveInvoiceCommit(s) ==
    LET t == tx[s]
        g == IF invoices[t.inv].grn = None THEN t.grn ELSE invoices[t.inv].grn
    IN  /\ t.op = "approve"
        /\ g \in Live(grns)
        /\ invoices' = [invoices EXCEPT ![t.inv].status = "approved",
                                        ![t.inv].match = "Matched", ![t.inv].grn = g]
        /\ tx' = [tx EXCEPT ![s] = Idle]
        /\ UNCHANGED <<vendors, rfqs, quotes, pos, grns, payments, ap>>

UpdateInvoice(i, new) == ~Locked(i) /\ invoices' = [invoices EXCEPT ![i] = new]

DeleteInvoice(i) ==    \* payments.invoice_id is a foreign key
    /\ ~Locked(i)
    /\ \A x \in PayRefs : payments[x] # i
    /\ invoices' = [invoices EXCEPT ![i] = [NoInvoice EXCEPT !.row = "gone"]]

-----------------------------------------------------------------------------
(***************************************************************************)
(* Payments                                                                *)
(***************************************************************************)
\* External: finance settles the document an invoice.received event announced,
\* under a reference of its own, or under none (None).
FinancePays(x, i) ==
    /\ ap[i] # None
    /\ x # None => payments[x] = None /\ \A e \in settled : e.ref # x
    /\ settled' = settled \cup {[ref |-> x, doc |-> ap[i], inv |-> i]}
    /\ UNCHANGED <<tables, consumed, tx>>

\* Mutant: a document reference is always taken for an id.
InvoicesWithId(doc) == {i \in Live(invoices) : i = doc}

\* The invoice a document reference names: by id first, then by number.  The
\* statement compares a uuid column and a text one with the same parameter; it
\* is modelled as it reads, by the ids' printed form.
InvoicesNamed(doc) ==
    LET ById == {i \in Live(invoices) : i = doc}
        ByNo == {i \in Live(invoices) : invoices[i].no = doc}
    IN  IF ById # {} THEN ById ELSE ByNo

\* The reference a payment is recorded under: the event's or, when it has none,
\* a new number of this service (newDocNo), which differs on each delivery.
References(e) ==
    IF e.ref # None THEN {e.ref}
    ELSE {x \in Known(PayRefs) : payments[x] = None /\ \A f \in settled : f.ref # x}

\* Mutant: a payment already recorded marks the invoice paid once more.
RecordVendorPaymentAgain(e) ==
    IF InvoicesNamed(e.doc) = {} THEN UNCHANGED <<invoices, pos, payments>>
    ELSE \E i \in InvoicesNamed(e.doc), x \in References(e) :
            /\ ~Locked(i)
            /\ payments' = [payments EXCEPT ![x] = IF @ = None THEN i ELSE @]
            /\ invoices' = [invoices EXCEPT ![i].status = "paid"]
            /\ pos' = IF invoices[i].po \in Live(pos)
                        THEN [pos EXCEPT ![invoices[i].po].paid = TRUE] ELSE pos

\* An event no invoice answers to, or whose reference is already recorded,
\* changes nothing.
RecordVendorPayment(e) ==
    IF InvoicesNamed(e.doc) = {} \/ (e.ref # None /\ payments[e.ref] # None)
    THEN UNCHANGED <<invoices, pos, payments>>
    ELSE \E i \in InvoicesNamed(e.doc), x \in References(e) :
            /\ ~Locked(i)
            /\ payments' = [payments EXCEPT ![x] = i]
            /\ invoices' = [invoices EXCEPT ![i].status = "paid"]
            /\ pos' = IF invoices[i].po \in Live(pos)
                        THEN [pos EXCEPT ![invoices[i].po].paid = TRUE] ELSE pos

-----------------------------------------------------------------------------
(***************************************************************************)
(* The HTTP handlers: what they refuse before the transaction runs, and    *)
(* the liberties their clients take.                                       *)
(***************************************************************************)
IdleSessions == {s \in Sessions : tx[s] = Idle}
Commits == Undisturbed /\ UNCHANGED <<settled, consumed, tx, world>>
Begins == Undisturbed /\ UNCHANGED <<tables, settled, consumed, world>>

\* An order money or goods already rest on.
Used(p) ==
    \/ pos[p].status = "cleared"
    \/ \E i \in Live(invoices) : invoices[i].po = p /\ invoices[i].status \in {"approved", "paid"}

Evidence(g) == \E i \in Live(invoices) : invoices[i].grn = g

patchVendorQualityStatus ==
    Commits /\ \E v \in Known(VendorIds), b \in BOOLEAN : SetVendorQualityStatus(v, b)

postRfq == Commits /\ \E r \in Free(rfqs) : CreateRfq(r)

postRfqQuote ==
    Commits /\ \E r \in Live(rfqs), v \in Known(VendorIds), a \in world.amounts : CreateRfqQuote(r, v, a)

awardRfq ==
    Begins /\ \E s \in IdleSessions, r \in Live(rfqs), q \in QuoteIds : AwardRfqRead(s, r, q)

\* An empty winnerVendorId leaves the winner alone: the handler's "clear"
\* reaches the statement as NULL, which keeps the column.
patchRfq ==
    /\ Commits
    /\ \E r \in Live(rfqs) :
          /\ rfqs[r].status = "open" \/ May("reopenRfq")
          /\ \E new \in Edits(rfqs[r], [status |-> {"open", "awarded", "closed"},
                                        winner |-> Known(VendorIds)]) : UpdateRfq(r, new)

deleteRfq == Commits /\ \E r \in Live(rfqs) : DeleteRfq(r)

postPurchaseOrder ==
    Begins /\ \E s \in IdleSessions, v \in Known(VendorIds), a \in world.amounts : CreatePurchaseOrderRead(s, v, a)

\* The statuses a PATCH may write: approved; ordered, received and closed
\* ("issued"); draft and pending approval; rejected and cancelled ("void").
patchPurchaseOrder ==
    /\ Commits
    /\ \E p \in Live(pos) :
          \/ \E v \in Known(VendorIds) : MoveOrder(p, v)
          \/ \E status \in {"approved", "issued", "pending", "void"}, creator \in BOOLEAN :
                /\ status = "issued" => pos[p].status = "cleared" \/ May("issue")
                /\ UpdateOrderStatus(p, status, creator)
          \/ \E a \in world.amounts : (~Used(p) \/ May("editOrder")) /\ RepriceOrder(p, a)
    /\ UNCHANGED <<rfqs, quotes, grns, invoices, payments, ap>>

deletePurchaseOrder ==
    /\ Commits
    /\ \E p \in Live(pos) : (~Used(p) \/ May("editOrder")) /\ DeletePurchaseOrder(p)
    /\ UNCHANGED <<rfqs, quotes, grns, invoices, payments, ap>>

GrnStatuses == {"draft", "posted"} \cup (IF May("looseReceipt") THEN {"received"} ELSE {})
QCStatuses == {"exempt", "held", "released"}

postGrn ==
    /\ Commits
    /\ \E g \in Free(grns), p \in Known(PoIds) \cup {None}, status \in GrnStatuses, qc \in QCStatuses :
          CreateGrn(g, p, status, qc)
    /\ UNCHANGED <<vendors, rfqs, quotes, pos, invoices, payments, ap>>

\* Like UpdateRfq's winner, an empty poId leaves the order alone.
patchGrn ==
    /\ Commits
    /\ \E g \in Live(grns) :
          /\ ~Evidence(g) \/ May("editReceipt")
          /\ \E new \in Edits(grns[g], [po |-> Known(PoIds), status |-> GrnStatuses, qc |-> QCStatuses]) :
                UpdateGrn(g, new)
    /\ UNCHANGED <<vendors, rfqs, quotes, pos, invoices, payments, ap>>

deleteGrn ==
    /\ Commits
    /\ \E g \in Live(grns) : DeleteGrn(g)
    /\ UNCHANGED <<vendors, rfqs, quotes, pos, invoices, payments, ap>>

postInvoice ==
    /\ Commits
    /\ \E i \in Free(invoices), no \in Known(Numbers) \cup {None}, p \in Known(PoIds) \cup {None},
          a \in world.amounts, resolved \in BOOLEAN :
          /\ no # None /\ ~May("sharedNumber") => \A j \in Live(invoices) : invoices[j].no # no
          /\ CreateInvoice(i, no, p, a, resolved)

\* approved is the approval route's job, paid the payment writeback's.
InvoiceStatuses == {"pending", "held"}

patchInvoice ==
    /\ Commits
    /\ \E i \in Live(invoices) :
          LET v == invoices[i] IN
          \/ \E new \in Edits(v, [status |-> InvoiceStatuses, resolved |-> BOOLEAN]) :
                UpdateInvoice(i, new)
          \/ /\ v.status \notin {"approved", "paid"} \/ May("editCleared")
             /\ \E new \in Edits(v, [amount |-> world.amounts, po |-> Known(PoIds)]) :
                   /\ new.po = v.po \/ v.grn = None \/ May("repointInvoice")
                   /\ UpdateInvoice(i, new)
          \/ /\ May("reidentify")
             /\ \E new \in Edits(v, [no |-> Known(Numbers)]) : UpdateInvoice(i, new)
    /\ UNCHANGED <<vendors, rfqs, quotes, pos, grns, payments, ap>>

approveInvoice ==
    Begins /\ \E s \in IdleSessions, i \in Live(invoices) : ~Locked(i) /\ ApproveInvoiceRead(s, i)

deleteInvoice ==
    /\ Commits
    /\ \E i \in Live(invoices) : May("reidentify") /\ DeleteInvoice(i)
    /\ UNCHANGED <<vendors, rfqs, quotes, pos, grns, payments, ap>>

\* The finance consumer's effect; which events reach it is TopicConsumer's subject.
handlePaymentMade ==
    /\ Undisturbed
    /\ \E e \in settled : RecordVendorPayment(e) /\ consumed' = consumed \cup {e}
    /\ UNCHANGED <<vendors, rfqs, quotes, grns, ap, settled, tx, world>>

Finishes ==
    /\ \E s \in Sessions : \/ \E p \in Free(pos) : InsertOrder(s, p)
                           \/ ApproveInvoiceCommit(s)
                           \/ Rollback(s)
    /\ UNCHANGED <<settled, consumed, world>>

SettlementRefs == Known(PayRefs) \cup (IF May("bareSettlement") THEN {None} ELSE {})

Finance == \E x \in SettlementRefs, i \in InvIds : FinancePays(x, i) /\ UNCHANGED world

Next ==
    \/ patchVendorQualityStatus
    \/ postRfq \/ postRfqQuote \/ awardRfq \/ patchRfq \/ deleteRfq
    \/ postPurchaseOrder \/ patchPurchaseOrder \/ deletePurchaseOrder
    \/ postGrn \/ patchGrn \/ deleteGrn
    \/ postInvoice \/ patchInvoice \/ approveInvoice \/ deleteInvoice
    \/ Finance \/ handlePaymentMade
    \/ Finishes

Spec == Init /\ [][Next]_vars

-----------------------------------------------------------------------------
(***************************************************************************)
(* Properties                                                              *)
(***************************************************************************)
\* Every table holds rows of its type.
TypeOK ==
    /\ vendors \in [VendorIds -> Vendors]
    /\ rfqs \in [RfqIds -> Rfqs]
    /\ quotes \in [QuoteIds -> Quotes]
    /\ pos \in [PoIds -> Pos]
    /\ grns \in [GrnIds -> Grns]
    /\ invoices \in [InvIds -> Invoices]
    /\ payments \in [PayRefs -> InvIds \cup {None}]
    /\ ap \in [InvIds -> InvIds \cup Numbers \cup {None}]
    /\ settled \subseteq [ref : PayRefs \cup {None}, doc : InvIds \cup Numbers, inv : InvIds]
    /\ consumed \subseteq settled
    /\ tx \in [Sessions -> Transactions]
    /\ world \in Worlds

\* vendors.open_pos, which the four transactions that create, move and delete
\* orders keep by hand, is the number of the supplier's orders.
OpenPosCountsOrders ==
    \A v \in VendorIds :
        vendors[v].openPos = Cardinality({p \in Live(pos) : pos[p].vendor = v})

\* One RFQ raises one order.  AwardRfq's status check is not serialised, so two
\* awards at once excuse a second order, as does re-opening the RFQ.
OneOrderPerAward ==
    \/ Excused({"race", "reopenRfq"})
    \/ \A r \in RfqIds : Cardinality({p \in Live(pos) : pos[p].from = r}) <= 1

\* An order that goods may be received on was approved at its total by somebody
\* other than its creator, or is below the threshold, unless a client wrote
\* "ordered" itself or changed the lines after the approval.
ClearedWasApproved ==
    \/ Excused({"issue", "editOrder"})
    \/ \A p \in Live(pos) :
          pos[p].status = "cleared" => pos[p].approved \/ pos[p].total < Threshold

\* No receipt under inspection is posted, whichever of its fields changed last.
PostedWasReleased ==
    \A g \in Live(grns) : ~(grns[g].status = "posted" /\ grns[g].qc = "held")

\* An invoice cleared for payment charges its order's total, and rests on a
\* posted receipt of that order which quality has released.  ApproveInvoice
\* reads order and receipts without locking them and nothing holds them after
\* it, so a race or a later edit excuses a difference.
ClearedIsMatched ==
    \/ Excused({"race", "editOrder", "editReceipt", "looseReceipt", "editCleared", "repointInvoice"})
    \/ \A i \in Live(invoices) :
          LET v == invoices[i] IN
          v.status = "approved" =>
             /\ v.match = "Matched"
             /\ v.po \in Live(pos) /\ pos[v.po].total = v.amount
             /\ v.grn \in Live(grns) /\ grns[v.grn].po = v.po
             /\ grns[v.grn].status = "posted" /\ grns[v.grn].qc # "held"

\* A settlement finance reported, once consumed, is a payment of the invoice it
\* settled, under the settlement's reference if it has one, unless the invoice
\* was renumbered or deleted, or shares its number.
SettlementLands ==
    \/ Excused({"reidentify", "sharedNumber"})
    \/ \A e \in consumed :
          \E x \in PayRefs : payments[x] = e.inv /\ (e.ref = None \/ x = e.ref)

\* An invoice becomes paid only in a step that records a payment of it: a
\* redelivered event does not close an invoice re-opened since, unless it has
\* no reference, and then it is recorded as one more payment.
PaidByPayment ==
    [][\A i \in InvIds :
          invoices[i].status # "paid" /\ invoices'[i].status = "paid"
             => \E x \in PayRefs : payments[x] = None /\ payments'[x] = i]_vars

GivenTo(p, v) ==
    /\ pos'[p].row = "live" /\ pos'[p].vendor = v
    /\ pos[p].row # "live" \/ pos[p].vendor # v

\* No order is created for, or moved to, a supplier procurement has suspended,
\* but for awards, which do not look, and for a suspension that commits between
\* the check and the insert.
OrdersRespectSuspension ==
    [][\/ Excused({"race", "awardSuspended"})
       \/ \A v \in VendorIds, p \in PoIds : GivenTo(p, v) => ~vendors[v].suspended]_vars

=============================================================================
