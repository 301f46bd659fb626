-------------------------- MODULE ProcureToPayProofs --------------------------
(***************************************************************************)
(* What the documents between an award and a payment keep among            *)
(* themselves, for every set of rows, amounts and sessions and in every    *)
(* world.  The properties relate tables that different transactions write, *)
(* so none of them is inductive: an order is single because its RFQ cannot *)
(* be awarded again, an invoice stays matched because what it was matched  *)
(* with is held by the handlers' guards, and a transaction between its two *)
(* halves still finds what it read because, without a race, nobody commits *)
(* meanwhile.                                                              *)
(***************************************************************************)
EXTENDS ProcureToPay, FiniteSetTheorems, TLAPS

\* A quote and an order that are in their table name a supplier.
LiveNamed ==
    /\ \A q \in QuoteIds : quotes[q].row = "live" => quotes[q].vendor \in VendorIds
    /\ \A p \in PoIds : pos[p].row = "live" => pos[p].vendor \in VendorIds

Sound == TypeOK /\ LiveNamed

-----------------------------------------------------------------------------
(* What each handler leaves alone *)

\* The handlers of suppliers, quotations and orders, table by table.
LEMMA SourcingFootprints ==
  /\ patchVendorQualityStatus =>
        UNCHANGED <<rfqs, quotes, pos, grns, invoices, payments, ap, settled, consumed, tx, world>>
  /\ postRfq \/ patchRfq =>
        UNCHANGED <<vendors, quotes, pos, grns, invoices, payments, ap, settled, consumed, tx, world>>
  /\ postRfqQuote =>
        UNCHANGED <<vendors, rfqs, pos, grns, invoices, payments, ap, settled, consumed, tx, world>>
  /\ deleteRfq =>
        UNCHANGED <<vendors, pos, grns, invoices, payments, ap, settled, consumed, tx, world>>
  /\ awardRfq \/ postPurchaseOrder \/ approveInvoice =>
        UNCHANGED <<vendors, rfqs, quotes, pos, grns, invoices, payments, ap, settled, consumed, world>>
  /\ patchPurchaseOrder \/ deletePurchaseOrder =>
        UNCHANGED <<rfqs, quotes, grns, invoices, payments, ap, settled, consumed, tx, world>>
<1>1. patchVendorQualityStatus =>
        UNCHANGED <<rfqs, quotes, pos, grns, invoices, payments, ap, settled, consumed, tx, world>>
  BY DEF patchVendorQualityStatus, SetVendorQualityStatus, Commits
<1>2. postRfq \/ patchRfq =>
        UNCHANGED <<vendors, quotes, pos, grns, invoices, payments, ap, settled, consumed, tx, world>>
  BY DEF postRfq, CreateRfq, patchRfq, UpdateRfq, Commits
<1>3. postRfqQuote =>
        UNCHANGED <<vendors, rfqs, pos, grns, invoices, payments, ap, settled, consumed, tx, world>>
  BY DEF postRfqQuote, CreateRfqQuote, Commits
<1>4. deleteRfq =>
        UNCHANGED <<vendors, pos, grns, invoices, payments, ap, settled, consumed, tx, world>>
  BY DEF deleteRfq, DeleteRfq, Commits
<1>5. awardRfq \/ postPurchaseOrder \/ approveInvoice =>
        UNCHANGED <<vendors, rfqs, quotes, pos, grns, invoices, payments, ap, settled, consumed, world>>
  BY DEF awardRfq, postPurchaseOrder, approveInvoice, Begins, tables
<1>6. patchPurchaseOrder \/ deletePurchaseOrder =>
        UNCHANGED <<rfqs, quotes, grns, invoices, payments, ap, settled, consumed, tx, world>>
  BY DEF patchPurchaseOrder, deletePurchaseOrder, Commits
<1> QED
  BY <1>1, <1>2, <1>3, <1>4, <1>5, <1>6

\* The handlers of receipts, invoices and payments, and the second halves.
LEMMA SettlingFootprints ==
  /\ postGrn \/ patchGrn \/ deleteGrn =>
        UNCHANGED <<vendors, rfqs, quotes, pos, invoices, payments, ap, settled, consumed, tx, world>>
  /\ postInvoice =>
        UNCHANGED <<vendors, rfqs, quotes, pos, grns, payments, settled, consumed, tx, world>>
  /\ patchInvoice \/ deleteInvoice =>
        UNCHANGED <<vendors, rfqs, quotes, pos, grns, payments, ap, settled, consumed, tx, world>>
  /\ Finance =>
        UNCHANGED <<vendors, rfqs, quotes, pos, grns, invoices, payments, ap, consumed, tx, world>>
  /\ handlePaymentMade =>
        UNCHANGED <<vendors, rfqs, quotes, grns, ap, settled, tx, world>>
  /\ Finishes =>
        UNCHANGED <<quotes, grns, payments, ap, settled, consumed, world>>
<1>1. postGrn \/ patchGrn \/ deleteGrn =>
        UNCHANGED <<vendors, rfqs, quotes, pos, invoices, payments, ap, settled, consumed, tx, world>>
  BY DEF postGrn, patchGrn, deleteGrn, Commits
<1>2. postInvoice =>
        UNCHANGED <<vendors, rfqs, quotes, pos, grns, payments, settled, consumed, tx, world>>
  BY DEF postInvoice, CreateInvoice, Commits
<1>3. patchInvoice \/ deleteInvoice =>
        UNCHANGED <<vendors, rfqs, quotes, pos, grns, payments, ap, settled, consumed, tx, world>>
  BY DEF patchInvoice, deleteInvoice, Commits
<1>4. Finance =>
        UNCHANGED <<vendors, rfqs, quotes, pos, grns, invoices, payments, ap, consumed, tx, world>>
  BY DEF Finance, FinancePays, tables
<1>5. handlePaymentMade =>
        UNCHANGED <<vendors, rfqs, quotes, grns, ap, settled, tx, world>>
  BY DEF handlePaymentMade
<1>6. Finishes =>
        UNCHANGED <<quotes, grns, payments, ap, settled, consumed, world>>
  <2> SUFFICES ASSUME Finishes PROVE UNCHANGED <<quotes, grns, payments, ap, settled, consumed, world>>
    OBVIOUS
  <2>1. PICK s \in Sessions : (\E p \in Free(pos) : InsertOrder(s, p)) \/ ApproveInvoiceCommit(s) \/ Rollback(s)
    BY DEF Finishes
  <2>2. CASE \E p \in Free(pos) : InsertOrder(s, p)
    BY <2>2 DEF InsertOrder, Finishes
  <2>3. CASE ApproveInvoiceCommit(s)
    BY <2>3 DEF ApproveInvoiceCommit, Finishes
  <2>4. CASE Rollback(s)
    BY <2>4 DEF Rollback, tables, Finishes
  <2> QED
    BY <2>1, <2>2, <2>3, <2>4
<1> QED
  BY <1>1, <1>2, <1>3, <1>4, <1>5, <1>6

-----------------------------------------------------------------------------
(* Rows *)

\* What a transaction between its halves holds.
LEMMA TxTypes ==
  ASSUME NEW t \in Transactions
  PROVE  /\ t.op = "order" => /\ t.rfq \in RfqIds \cup {None} /\ t.vendor \in VendorIds
                              /\ t.total \in Nat
         /\ t.op = "approve" => t.inv \in InvIds /\ t.grn \in GrnIds
         /\ t # Idle => t.op \in {"order", "approve"}
         /\ t = Idle => t.op = "none"
  BY DEF Transactions, Idle

\* The ids and amounts of a world are those of the tables.
LEMMA WorldTypes ==
  ASSUME world \in Worlds
  PROVE  /\ world.amounts \subseteq Nat
         /\ \A S : Known(S) \subseteq S
  BY P2PAssumption DEF Known

\* Rows of a table are named by its keys.
LEMMA RowIds ==
  ASSUME TypeOK
  PROVE  /\ Live(rfqs) \subseteq RfqIds /\ Free(rfqs) \subseteq RfqIds
         /\ Live(quotes) \subseteq QuoteIds
         /\ Live(pos) \subseteq PoIds /\ Free(pos) \subseteq PoIds
         /\ Live(grns) \subseteq GrnIds /\ Free(grns) \subseteq GrnIds
         /\ Live(invoices) \subseteq InvIds /\ Free(invoices) \subseteq InvIds
  BY DEF TypeOK, Live, Free

\* A row one field away, for the four shapes the handlers ask for.
LEMMA RfqEdit ==
  ASSUME NEW x \in Rfqs, NEW S \in SUBSET {"open", "awarded", "closed"}, NEW V \in SUBSET VendorIds,
         NEW new \in Edits(x, [status |-> S, winner |-> V])
  PROVE  new \in Rfqs /\ new.row = x.row
<1>1. DOMAIN [status |-> S, winner |-> V] = {"status", "winner"}
  OBVIOUS
<1>2. (\E s \in S : new = [x EXCEPT !.status = s]) \/ (\E v \in V : new = [x EXCEPT !.winner = v])
  BY <1>1 DEF Edits
<1> QED
  BY <1>2 DEF Rfqs

\* A receipt one field away keeps its row, and its status unless that is the field.
LEMMA GrnEdit ==
  ASSUME NEW x \in Grns, NEW P \in SUBSET PoIds, NEW S \in SUBSET {"draft", "posted", "received"},
         NEW Q \in SUBSET {"exempt", "held", "released"},
         NEW new \in Edits(x, [po |-> P, status |-> S, qc |-> Q])
  PROVE  new \in Grns /\ new.row = x.row /\ (new.status = x.status \/ new.status \in S)
<1>1. DOMAIN [po |-> P, status |-> S, qc |-> Q] = {"po", "status", "qc"}
  OBVIOUS
<1>2. \/ \E p \in P : new = [x EXCEPT !.po = p]
      \/ \E s \in S : new = [x EXCEPT !.status = s]
      \/ \E q \in Q : new = [x EXCEPT !.qc = q]
  BY <1>1 DEF Edits
<1> QED
  BY <1>2 DEF Grns

\* Status and explanation.
LEMMA InvoiceReview ==
  ASSUME NEW x \in Invoices, NEW new \in Edits(x, [status |-> InvoiceStatuses, resolved |-> BOOLEAN])
  PROVE  /\ new \in Invoices
         /\ new.row = x.row /\ new.no = x.no /\ new.po = x.po /\ new.amount = x.amount
         /\ new.match = x.match /\ new.grn = x.grn
         /\ new.status = x.status \/ new.status \in {"pending", "held"}
<1> DEFINE S == InvoiceStatuses
<1>0. S = {"pending", "held"}
  BY DEF InvoiceStatuses
<1> HIDE DEF S
<1>1. DOMAIN [status |-> S, resolved |-> BOOLEAN] = {"status", "resolved"}
  OBVIOUS
<1>2. (\E s \in S : new = [x EXCEPT !.status = s]) \/ (\E b \in BOOLEAN : new = [x EXCEPT !.resolved = b])
  BY <1>1 DEF Edits, S
<1> QED
  BY <1>0, <1>2 DEF Invoices

\* Amount and order.
LEMMA InvoiceCharge ==
  ASSUME NEW x \in Invoices, NEW A \in SUBSET Nat, NEW P \in SUBSET PoIds,
         NEW new \in Edits(x, [amount |-> A, po |-> P])
  PROVE  /\ new \in Invoices
         /\ new.row = x.row /\ new.no = x.no /\ new.status = x.status
         /\ new.match = x.match /\ new.grn = x.grn
<1>1. DOMAIN [amount |-> A, po |-> P] = {"amount", "po"}
  OBVIOUS
<1>2. (\E a \in A : new = [x EXCEPT !.amount = a]) \/ (\E p \in P : new = [x EXCEPT !.po = p])
  BY <1>1 DEF Edits
<1> QED
  BY <1>2 DEF Invoices

\* Number.
LEMMA InvoiceRenumber ==
  ASSUME NEW x \in Invoices, NEW N \in SUBSET Numbers, NEW new \in Edits(x, [no |-> N])
  PROVE  /\ new \in Invoices
         /\ new.row = x.row /\ new.po = x.po /\ new.amount = x.amount /\ new.status = x.status
         /\ new.match = x.match /\ new.grn = x.grn
<1>1. DOMAIN [no |-> N] = {"no"}
  OBVIOUS
<1>2. \E n \in N : new = [x EXCEPT !.no = n]
  BY <1>1 DEF Edits
<1> QED
  BY <1>2 DEF Invoices

\* The rows before and after a document.
LEMMA EmptyRows ==
  /\ NoRfq \in Rfqs /\ [NoRfq EXCEPT !.row = "live"] \in Rfqs /\ [NoRfq EXCEPT !.row = "gone"] \in Rfqs
  /\ NoQuote \in Quotes /\ [NoQuote EXCEPT !.row = "gone"] \in Quotes
  /\ NoPo \in Pos /\ [NoPo EXCEPT !.row = "gone"] \in Pos
  /\ NoGrn \in Grns /\ [NoGrn EXCEPT !.row = "gone"] \in Grns
  /\ NoInvoice \in Invoices /\ [NoInvoice EXCEPT !.row = "gone"] \in Invoices
<1> USE DEF RowStates
<1>1. NoRfq \in Rfqs /\ [NoRfq EXCEPT !.row = "live"] \in Rfqs /\ [NoRfq EXCEPT !.row = "gone"] \in Rfqs
  BY DEF NoRfq, Rfqs
<1>2. NoQuote \in Quotes /\ [NoQuote EXCEPT !.row = "gone"] \in Quotes
  BY DEF NoQuote, Quotes
<1>3. NoPo \in Pos /\ [NoPo EXCEPT !.row = "gone"] \in Pos
  BY DEF NoPo, Pos
<1>4. NoGrn \in Grns /\ [NoGrn EXCEPT !.row = "gone"] \in Grns
  BY DEF NoGrn, Grns
<1>5. NoInvoice \in Invoices /\ [NoInvoice EXCEPT !.row = "gone"] \in Invoices
  BY DEF NoInvoice, Invoices
<1> QED
  BY <1>1, <1>2, <1>3, <1>4, <1>5

\* Their row states.
LEMMA EmptyStates ==
  /\ NoRfq.row = "free" /\ [NoRfq EXCEPT !.row = "live"].row = "live" /\ [NoRfq EXCEPT !.row = "gone"].row = "gone"
  /\ [NoRfq EXCEPT !.row = "live"].status = "open"
  /\ NoQuote.row = "free" /\ [NoQuote EXCEPT !.row = "gone"].row = "gone"
  /\ NoPo.row = "free" /\ [NoPo EXCEPT !.row = "gone"].row = "gone"
  /\ NoGrn.row = "free" /\ [NoGrn EXCEPT !.row = "gone"].row = "gone"
  /\ NoInvoice.row = "free" /\ [NoInvoice EXCEPT !.row = "gone"].row = "gone"
  /\ NoInvoice.status = "pending" /\ [NoInvoice EXCEPT !.row = "gone"].status = "pending"
  BY DEF NoRfq, NoQuote, NoPo, NoGrn, NoInvoice

\* A table with one row replaced.
LEMMA Replaced ==
  ASSUME NEW I, NEW R, NEW f \in [I -> R], NEW k, NEW r \in R
  PROVE  /\ [f EXCEPT ![k] = r] \in [I -> R]
         /\ \A j \in I : j # k => [f EXCEPT ![k] = r][j] = f[j]
         /\ k \in I => [f EXCEPT ![k] = r][k] = r
  OBVIOUS

-----------------------------------------------------------------------------
(* What each write does to the orders *)

\* The orders but p keep their rows.
OtherOrders(p) == pos' \in [PoIds -> Pos] /\ \A q \in PoIds : q # p => pos'[q] = pos[q]

\* The row of order p changes in place, for a supplier and a total.
LEMMA MoveEffect ==
  ASSUME TypeOK, NEW p \in Live(pos), NEW v \in VendorIds, MoveOrder(p, v)
  PROVE  /\ OtherOrders(p)
         /\ pos'[p].row = "live" /\ pos'[p].vendor = v /\ pos'[p].status = pos[p].status
         /\ pos'[p].total = pos[p].total /\ pos'[p].approved = pos[p].approved
         /\ pos'[p].from = pos[p].from
<1>1. p \in PoIds /\ pos[p] \in Pos /\ pos \in [PoIds -> Pos] /\ pos[p].row = "live"
  BY RowIds DEF TypeOK, Live
<1>2. pos' = [pos EXCEPT ![p] = [pos[p] EXCEPT !.vendor = v]]
  BY Zenon DEF MoveOrder
<1>3. PICK x \in Pos : x = pos[p]
  BY <1>1
<1> DEFINE y == [x EXCEPT !.vendor = v]
<1>4. /\ y \in Pos /\ y.row = x.row /\ y.vendor = v /\ y.status = x.status
      /\ y.total = x.total /\ y.approved = x.approved /\ y.from = x.from
  BY DEF Pos
<1>5. pos' = [pos EXCEPT ![p] = y]
  BY <1>2, <1>3
<1> HIDE DEF y
<1>6. OtherOrders(p) /\ pos'[p] = y
  BY <1>1, <1>4, <1>5, Replaced DEF OtherOrders
<1> QED
  BY <1>1, <1>3, <1>4, <1>6

\* UpdateOrderStatus writes status and approval, and keeps supplier, total and origin.
LEMMA StatusEffect ==
  ASSUME TypeOK, NEW p \in Live(pos), NEW st \in {"approved", "issued", "pending", "void"}, NEW c \in BOOLEAN,
         UpdateOrderStatus(p, st, c)
  PROVE  /\ OtherOrders(p)
         /\ pos'[p].row = "live" /\ pos'[p].vendor = pos[p].vendor
         /\ pos'[p].status = (IF st = "approved" \/ st = "issued" THEN "cleared" ELSE st)
         /\ pos'[p].total = pos[p].total /\ pos'[p].from = pos[p].from
         /\ pos'[p].approved = (st = "approved" \/ (st = "issued" /\ pos[p].approved))
<1> DEFINE new == IF st = "approved" \/ st = "issued" THEN "cleared" ELSE st
           ok == st = "approved" \/ (st = "issued" /\ pos[p].approved)
<1>1. p \in PoIds /\ pos[p] \in Pos /\ pos \in [PoIds -> Pos] /\ pos[p].row = "live"
  BY RowIds DEF TypeOK, Live
<1>2. pos' = [pos EXCEPT ![p].status = new, ![p].approved = ok]
  BY Zenon DEF UpdateOrderStatus
<1>3. new \in {"pending", "cleared", "void"} /\ ok \in BOOLEAN
  BY <1>1 DEF Pos
<1> HIDE DEF new, ok
<1>4. pos' = [pos EXCEPT ![p] = [pos[p] EXCEPT !.status = new, !.approved = ok]]
  BY <1>1, <1>2
<1>5. PICK x \in Pos : x = pos[p]
  BY <1>1
<1> DEFINE y == [x EXCEPT !.status = new, !.approved = ok]
<1>6. /\ y \in Pos /\ y.row = x.row /\ y.vendor = x.vendor /\ y.status = new
      /\ y.total = x.total /\ y.approved = ok /\ y.from = x.from
  BY <1>3 DEF Pos
<1>7. pos' = [pos EXCEPT ![p] = y]
  BY <1>4, <1>5
<1> HIDE DEF y
<1>8. OtherOrders(p) /\ pos'[p] = y
  BY <1>1, <1>6, <1>7, Replaced DEF OtherOrders
<1> QED
  BY <1>1, <1>5, <1>6, <1>8 DEF new, ok

\* RepriceOrder writes the total, and keeps supplier, status and origin.
LEMMA RepriceEffect ==
  ASSUME TypeOK, NEW p \in Live(pos), NEW n \in Nat, RepriceOrder(p, n)
  PROVE  /\ OtherOrders(p)
         /\ pos'[p].row = "live" /\ pos'[p].vendor = pos[p].vendor /\ pos'[p].status = pos[p].status
         /\ pos'[p].total = n /\ pos'[p].from = pos[p].from
<1> DEFINE ok == n = pos[p].total /\ pos[p].approved
<1>1. p \in PoIds /\ pos[p] \in Pos /\ pos \in [PoIds -> Pos] /\ pos[p].row = "live"
  BY RowIds DEF TypeOK, Live
<1>2. pos' = [pos EXCEPT ![p].total = n, ![p].approved = ok]
  BY Zenon DEF RepriceOrder
<1>3. ok \in BOOLEAN
  BY <1>1 DEF Pos
<1> HIDE DEF ok
<1>4. pos' = [pos EXCEPT ![p] = [pos[p] EXCEPT !.total = n, !.approved = ok]]
  BY <1>1, <1>2
<1>5. PICK x \in Pos : x = pos[p]
  BY <1>1
<1> DEFINE y == [x EXCEPT !.total = n, !.approved = ok]
<1>6. /\ y \in Pos /\ y.row = x.row /\ y.vendor = x.vendor /\ y.status = x.status
      /\ y.total = n /\ y.from = x.from
  BY <1>3 DEF Pos
<1>7. pos' = [pos EXCEPT ![p] = y]
  BY <1>4, <1>5
<1> HIDE DEF y
<1>8. OtherOrders(p) /\ pos'[p] = y
  BY <1>1, <1>6, <1>7, Replaced DEF OtherOrders
<1> QED
  BY <1>1, <1>5, <1>6, <1>8

\* DeletePurchaseOrder takes one row away.
LEMMA DeleteEffect ==
  ASSUME TypeOK, NEW p \in Live(pos), DeletePurchaseOrder(p)
  PROVE  OtherOrders(p) /\ pos'[p].row = "gone"
<1>1. p \in PoIds /\ pos \in [PoIds -> Pos]
  BY RowIds DEF TypeOK
<1>2. pos' = [pos EXCEPT ![p] = [NoPo EXCEPT !.row = "gone"]]
  BY Zenon DEF DeletePurchaseOrder
<1>3. OtherOrders(p) /\ pos'[p] = [NoPo EXCEPT !.row = "gone"]
  BY <1>1, <1>2, Replaced, EmptyRows DEF OtherOrders
<1> QED
  BY <1>3, EmptyStates

\* The second half of an order's transaction writes the row it prepared.
LEMMA InsertEffect ==
  ASSUME TypeOK, NEW s \in Sessions, NEW p \in Free(pos), InsertOrder(s, p)
  PROVE  /\ tx[s].op = "order" /\ tx[s].rfq \in RfqIds \cup {None}
         /\ tx[s].vendor \in VendorIds /\ tx[s].total \in Nat
         /\ p \in PoIds /\ pos[p].row = "free"
         /\ OtherOrders(p)
         /\ pos'[p].row = "live" /\ pos'[p].vendor = tx[s].vendor
         /\ pos'[p].status = poInitialStatus(tx[s].total)
         /\ pos'[p].total = tx[s].total /\ pos'[p].from = tx[s].rfq
<1>0. PICK t \in Transactions : t = tx[s]
  BY DEF TypeOK
<1>1. t.op = "order" /\ t.rfq \in RfqIds \cup {None} /\ t.vendor \in VendorIds /\ t.total \in Nat
  BY <1>0, TxTypes DEF InsertOrder
<1>2. p \in PoIds /\ pos \in [PoIds -> Pos] /\ pos[p].row = "free"
  BY RowIds DEF TypeOK, Free
<1> DEFINE x == [row |-> "live", status |-> poInitialStatus(t.total), vendor |-> t.vendor,
                 total |-> t.total, paid |-> FALSE, approved |-> FALSE, from |-> t.rfq]
<1>3. pos' = [pos EXCEPT ![p] = x]
  BY <1>0, Zenon DEF InsertOrder
<1>4. x \in Pos /\ x.row = "live" /\ x.vendor = t.vendor /\ x.status = poInitialStatus(t.total)
        /\ x.total = t.total /\ x.from = t.rfq
  BY <1>1 DEF Pos, poInitialStatus, RowStates
<1> HIDE DEF x
<1>5. OtherOrders(p) /\ pos'[p] = x
  BY <1>2, <1>3, <1>4, Replaced DEF OtherOrders
<1> QED
  BY <1>0, <1>1, <1>2, <1>4, <1>5

\* A payment event either changes nothing or records the payment of one invoice.
LEMMA PaymentEffect ==
  ASSUME TypeOK, handlePaymentMade
  PROVE  \E e \in settled :
           /\ consumed' = consumed \cup {e}
           /\ \/ /\ UNCHANGED <<invoices, pos, payments>>
                 /\ InvoicesNamed(e.doc) = {} \/ (e.ref # None /\ payments[e.ref] # None)
              \/ \E i \in InvoicesNamed(e.doc), x \in PayRefs :
                   /\ payments[x] = None
                   /\ x = e.ref \/ (e.ref = None /\ \A f \in settled : f.ref # x)
                   /\ i \in Live(invoices) /\ i \in InvIds
                   /\ payments' = [payments EXCEPT ![x] = i]
                   /\ invoices' = [invoices EXCEPT ![i] = [invoices[i] EXCEPT !.status = "paid"]]
                   /\ pos' \in [PoIds -> Pos]
                   /\ \A p \in PoIds :
                        /\ pos'[p].row = pos[p].row /\ pos'[p].vendor = pos[p].vendor
                        /\ pos'[p].status = pos[p].status /\ pos'[p].total = pos[p].total
                        /\ pos'[p].approved = pos[p].approved /\ pos'[p].from = pos[p].from
<1>1. PICK e \in settled : RecordVendorPayment(e) /\ consumed' = consumed \cup {e}
  BY DEF handlePaymentMade
<1>2. e.ref \in PayRefs \cup {None}
  BY DEF TypeOK
<1>3. CASE InvoicesNamed(e.doc) = {} \/ (e.ref # None /\ payments[e.ref] # None)
  <2>1. UNCHANGED <<invoices, pos, payments>>
    BY <1>1, <1>3, Zenon DEF RecordVendorPayment
  <2> QED
    BY <1>1, <1>3, <2>1
<1>4. CASE ~(InvoicesNamed(e.doc) = {} \/ (e.ref # None /\ payments[e.ref] # None))
  <2>1. PICK i \in InvoicesNamed(e.doc), n \in References(e) :
            /\ payments' = [payments EXCEPT ![n] = i]
            /\ invoices' = [invoices EXCEPT ![i].status = "paid"]
            /\ pos' = IF invoices[i].po \in Live(pos)
                        THEN [pos EXCEPT ![invoices[i].po].paid = TRUE] ELSE pos
    BY <1>1, <1>4, Zenon DEF RecordVendorPayment
  <2>2. i \in Live(invoices) /\ i \in InvIds
    BY RowIds DEF InvoicesNamed
  <2>3. invoices' = [invoices EXCEPT ![i] = [invoices[i] EXCEPT !.status = "paid"]]
    BY <2>1, Zenon
  <2>4. pos \in [PoIds -> Pos]
    BY DEF TypeOK
  <2>5. /\ pos' \in [PoIds -> Pos]
        /\ \A p \in PoIds :
           /\ pos'[p].row = pos[p].row /\ pos'[p].vendor = pos[p].vendor
           /\ pos'[p].status = pos[p].status /\ pos'[p].total = pos[p].total
           /\ pos'[p].approved = pos[p].approved /\ pos'[p].from = pos[p].from
    <3>1. CASE invoices[i].po \in Live(pos)
      <4>1. PICK k \in PoIds : k = invoices[i].po
        BY <3>1, RowIds
      <4>2. pos' = [pos EXCEPT ![k] = [pos[k] EXCEPT !.paid = TRUE]]
        BY <2>1, <3>1, <4>1, Zenon
      <4>3. PICK x \in Pos : x = pos[k]
        BY <2>4
      <4> DEFINE y == [x EXCEPT !.paid = TRUE]
      <4>4. /\ y \in Pos /\ y.row = x.row /\ y.vendor = x.vendor /\ y.status = x.status
            /\ y.total = x.total /\ y.approved = x.approved /\ y.from = x.from
        BY DEF Pos
      <4>5. pos' = [pos EXCEPT ![k] = y]
        BY <4>2, <4>3
      <4> HIDE DEF y
      <4>6. pos' \in [PoIds -> Pos] /\ pos'[k] = y /\ \A p \in PoIds : p # k => pos'[p] = pos[p]
        BY <2>4, <4>4, <4>5, Replaced
      <4> QED
        BY <4>3, <4>4, <4>6
    <3>2. CASE invoices[i].po \notin Live(pos)
      BY <2>1, <2>4, <3>2
    <3> QED
      BY <3>1, <3>2
  <2>6. /\ n \in PayRefs /\ payments[n] = None
        /\ n = e.ref \/ (e.ref = None /\ \A f \in settled : f.ref # n)
    <3>1. CASE e.ref # None
      BY <1>2, <1>4, <2>1, <3>1 DEF References
    <3>2. CASE e.ref = None
      BY <2>1, <3>2, WorldTypes DEF References, TypeOK
    <3> QED
      BY <3>1, <3>2
  <2> QED
    BY <1>1, <1>4, <2>1, <2>2, <2>3, <2>5, <2>6
<1> QED
  BY <1>3, <1>4

-----------------------------------------------------------------------------
(* What each write does to the invoices *)

OtherInvoices(i) ==
    invoices' \in [InvIds -> Invoices] /\ \A j \in InvIds : j # i => invoices'[j] = invoices[j]

\* The match rests on a receipt of the order, or on none.
LEMMA MatchTypes ==
  ASSUME TypeOK, NEW p, NEW a, NEW m \in deriveInvoiceMatchStatus(p, a)
  PROVE  /\ m.match \in {"No PO", "Pending GRN", "Matched", "Amount variance"}
         /\ m.grn = None \/ m.grn \in Receipts(p)
         /\ m.grn \in GrnIds \cup {None}
         /\ m.match = "Matched" => p \in Live(pos) /\ a = pos[p].total /\ m.grn \in Receipts(p)
         /\ Receipts(p) \subseteq GrnIds
<1>1. Receipts(p) \subseteq GrnIds
  BY RowIds DEF Receipts
<1>2. CASE p \notin Live(pos)
  <2>1. m = [match |-> "No PO", grn |-> None]
    BY <1>2, Zenon DEF deriveInvoiceMatchStatus
  <2> QED
    BY <1>1, <2>1
<1>3. CASE p \in Live(pos) /\ Receipts(p) = {}
  <2>1. m = [match |-> "Pending GRN", grn |-> None]
    BY <1>3, Zenon DEF deriveInvoiceMatchStatus
  <2> QED
    BY <1>1, <2>1
<1>4. CASE p \in Live(pos) /\ Receipts(p) # {}
  <2>1. PICK g \in Receipts(p) :
           m = [match |-> IF a = pos[p].total THEN "Matched" ELSE "Amount variance", grn |-> g]
    BY <1>4 DEF deriveInvoiceMatchStatus
  <2> QED
    BY <1>1, <1>4, <2>1
<1> QED
  BY <1>2, <1>3, <1>4

\* A new invoice is pending, carries the match found, and is announced to
\* finance under its number or its id.
LEMMA PostEffect ==
  ASSUME TypeOK, postInvoice
  PROVE  \E i \in Free(invoices), no \in Numbers \cup {None}, p \in PoIds \cup {None}, a \in Nat :
           /\ OtherInvoices(i) /\ i \in InvIds
           /\ invoices'[i].row = "live" /\ invoices'[i].no = no /\ invoices'[i].po = p
           /\ invoices'[i].amount = a /\ invoices'[i].status = "pending"
           /\ invoices'[i].grn = None \/ invoices'[i].grn \in Receipts(p)
           /\ ap' = [ap EXCEPT ![i] = IF no = None THEN i ELSE no]
           /\ no # None /\ ~May("sharedNumber") => \A j \in Live(invoices) : invoices[j].no # no
<1>1. PICK i \in Free(invoices), no \in Known(Numbers) \cup {None}, p \in Known(PoIds) \cup {None},
           a \in world.amounts, resolved \in BOOLEAN :
          /\ no # None /\ ~May("sharedNumber") => \A j \in Live(invoices) : invoices[j].no # no
          /\ CreateInvoice(i, no, p, a, resolved)
  BY DEF postInvoice
<1>2. /\ i \in InvIds /\ no \in Numbers \cup {None} /\ p \in PoIds \cup {None} /\ a \in Nat
      /\ invoices \in [InvIds -> Invoices]
  BY RowIds, WorldTypes DEF TypeOK
<1>3. PICK m \in deriveInvoiceMatchStatus(p, a) :
          invoices' = [invoices EXCEPT ![i] =
                         [row |-> "live", no |-> no, po |-> p, amount |-> a,
                          status |-> "pending", match |-> m.match, grn |-> m.grn,
                          resolved |-> resolved]]
  BY <1>1, Zenon DEF CreateInvoice
<1>4. /\ m.match \in {"No PO", "Pending GRN", "Matched", "Amount variance"}
      /\ m.grn = None \/ m.grn \in Receipts(p)
      /\ m.grn \in GrnIds \cup {None}
  BY MatchTypes
<1>5. PICK ma \in {"No PO", "Pending GRN", "Matched", "Amount variance"}, g \in GrnIds \cup {None} :
         ma = m.match /\ g = m.grn
  BY <1>4
<1> DEFINE x == [row |-> "live", no |-> no, po |-> p, amount |-> a, status |-> "pending",
                 match |-> ma, grn |-> g, resolved |-> resolved]
<1>6. /\ x \in Invoices /\ x.row = "live" /\ x.no = no /\ x.po = p /\ x.amount = a
      /\ x.status = "pending" /\ x.grn = g
  BY <1>2 DEF Invoices, RowStates
<1>7. invoices' = [invoices EXCEPT ![i] = x]
  BY <1>3, <1>5
<1> HIDE DEF x
<1>8. OtherInvoices(i) /\ invoices'[i] = x
  BY <1>2, <1>6, <1>7, Replaced DEF OtherInvoices
<1>9. ap' = [ap EXCEPT ![i] = IF no = None THEN i ELSE no]
  BY <1>1, Zenon DEF CreateInvoice, enqueueInvoiceReceived
<1>10. /\ OtherInvoices(i) /\ i \in InvIds
       /\ invoices'[i].row = "live" /\ invoices'[i].no = no /\ invoices'[i].po = p
       /\ invoices'[i].amount = a /\ invoices'[i].status = "pending"
       /\ invoices'[i].grn = None \/ invoices'[i].grn \in Receipts(p)
  BY <1>2, <1>4, <1>5, <1>6, <1>8
<1> QED
  BY <1>1, <1>2, <1>9, <1>10

\* A PATCH writes one kind of field, and what it may write depends on the rest.
LEMMA PatchEffect ==
  ASSUME TypeOK, patchInvoice
  PROVE  \E i \in Live(invoices) :
           /\ OtherInvoices(i) /\ i \in InvIds
           /\ invoices'[i].row = "live"
           /\ invoices'[i].match = invoices[i].match /\ invoices'[i].grn = invoices[i].grn
           /\ invoices'[i].status = invoices[i].status \/ invoices'[i].status \in {"pending", "held"}
           /\ invoices'[i].no = invoices[i].no \/ May("reidentify")
           /\ \/ invoices'[i].amount = invoices[i].amount /\ invoices'[i].po = invoices[i].po
              \/ /\ invoices'[i].status = invoices[i].status
                 /\ invoices[i].status \notin {"approved", "paid"} \/ May("editCleared")
                 /\ \/ invoices'[i].po = invoices[i].po
                    \/ invoices[i].grn = None
                    \/ May("repointInvoice")
<1>1. PICK i \in Live(invoices) :
          \/ \E new \in Edits(invoices[i], [status |-> InvoiceStatuses, resolved |-> BOOLEAN]) :
                UpdateInvoice(i, new)
          \/ /\ invoices[i].status \notin {"approved", "paid"} \/ May("editCleared")
             /\ \E new \in Edits(invoices[i], [amount |-> world.amounts, po |-> Known(PoIds)]) :
                   /\ new.po = invoices[i].po \/ invoices[i].grn = None \/ May("repointInvoice")
                   /\ UpdateInvoice(i, new)
          \/ /\ May("reidentify")
             /\ \E new \in Edits(invoices[i], [no |-> Known(Numbers)]) : UpdateInvoice(i, new)
  BY DEF patchInvoice
<1>2. PICK x \in Invoices : x = invoices[i]
  BY RowIds DEF TypeOK
<1>3. i \in InvIds /\ invoices \in [InvIds -> Invoices] /\ x.row = "live"
  BY <1>2, RowIds DEF TypeOK, Live
<1>4. \A new \in Invoices : UpdateInvoice(i, new) => OtherInvoices(i) /\ invoices'[i] = new
  BY <1>3, Replaced DEF UpdateInvoice, OtherInvoices
<1>5. CASE \E new \in Edits(x, [status |-> InvoiceStatuses, resolved |-> BOOLEAN]) : UpdateInvoice(i, new)
  <2>1. PICK new \in Edits(x, [status |-> InvoiceStatuses, resolved |-> BOOLEAN]) : UpdateInvoice(i, new)
    BY <1>5
  <2>2. /\ new \in Invoices
        /\ new.row = x.row /\ new.no = x.no /\ new.po = x.po /\ new.amount = x.amount
        /\ new.match = x.match /\ new.grn = x.grn
        /\ new.status = x.status \/ new.status \in {"pending", "held"}
    BY InvoiceReview
  <2>3. OtherInvoices(i) /\ invoices'[i] = new
    BY <1>4, <2>1, <2>2
  <2> QED
    BY <1>2, <1>3, <2>2, <2>3
<1>6. CASE /\ x.status \notin {"approved", "paid"} \/ May("editCleared")
           /\ \E new \in Edits(x, [amount |-> world.amounts, po |-> Known(PoIds)]) :
                   /\ new.po = x.po \/ x.grn = None \/ May("repointInvoice")
                   /\ UpdateInvoice(i, new)
  <2>1. PICK new \in Edits(x, [amount |-> world.amounts, po |-> Known(PoIds)]) :
                   /\ new.po = x.po \/ x.grn = None \/ May("repointInvoice")
                   /\ UpdateInvoice(i, new)
    BY <1>6
  <2>2. world.amounts \in SUBSET Nat /\ Known(PoIds) \in SUBSET PoIds
    BY WorldTypes DEF TypeOK
  <2>3. /\ new \in Invoices
        /\ new.row = x.row /\ new.no = x.no /\ new.status = x.status
        /\ new.match = x.match /\ new.grn = x.grn
    BY <2>2, InvoiceCharge
  <2>4. OtherInvoices(i) /\ invoices'[i] = new
    BY <1>4, <2>1, <2>3
  <2> QED
    BY <1>2, <1>3, <1>6, <2>1, <2>3, <2>4
<1>7. CASE May("reidentify") /\ \E new \in Edits(x, [no |-> Known(Numbers)]) : UpdateInvoice(i, new)
  <2>1. PICK new \in Edits(x, [no |-> Known(Numbers)]) : UpdateInvoice(i, new)
    BY <1>7
  <2>2. Known(Numbers) \in SUBSET Numbers
    BY WorldTypes DEF TypeOK
  <2>3. /\ new \in Invoices
        /\ new.row = x.row /\ new.po = x.po /\ new.amount = x.amount /\ new.status = x.status
        /\ new.match = x.match /\ new.grn = x.grn
    BY <2>2, InvoiceRenumber
  <2>4. OtherInvoices(i) /\ invoices'[i] = new
    BY <1>4, <2>1, <2>3
  <2> QED
    BY <1>2, <1>3, <1>7, <2>3, <2>4
<1> QED
  BY <1>1, <1>2, <1>5, <1>6, <1>7

\* An approval's second half writes the status, the match and the receipt: the
\* one the invoice has, else the one the first half found.
LEMMA ApproveEffect ==
  ASSUME TypeOK, NEW s \in Sessions, ApproveInvoiceCommit(s)
  PROVE  \E i \in InvIds, g \in Live(grns) :
           /\ tx[s].op = "approve" /\ tx[s].inv = i
           /\ g = IF invoices[i].grn = None THEN tx[s].grn ELSE invoices[i].grn
           /\ OtherInvoices(i)
           /\ invoices'[i].status = "approved" /\ invoices'[i].match = "Matched" /\ invoices'[i].grn = g
           /\ invoices'[i].row = invoices[i].row /\ invoices'[i].no = invoices[i].no
           /\ invoices'[i].po = invoices[i].po /\ invoices'[i].amount = invoices[i].amount
<1>0. PICK t \in Transactions : t = tx[s]
  BY DEF TypeOK
<1>1. t.op = "approve" /\ t.inv \in InvIds
  BY <1>0, TxTypes DEF ApproveInvoiceCommit
<1>2. PICK i \in InvIds : i = t.inv
  BY <1>1
<1>3. PICK g : g = IF invoices[i].grn = None THEN t.grn ELSE invoices[i].grn
  OBVIOUS
<1>4. /\ g \in Live(grns)
      /\ invoices' = [invoices EXCEPT ![i].status = "approved", ![i].match = "Matched", ![i].grn = g]
  BY <1>0, <1>2, <1>3, Zenon DEF ApproveInvoiceCommit
<1>5. invoices \in [InvIds -> Invoices] /\ g \in GrnIds
  BY <1>4, RowIds DEF TypeOK
<1>6. PICK x \in Invoices : x = invoices[i]
  BY <1>5
<1> DEFINE y == [x EXCEPT !.status = "approved", !.match = "Matched", !.grn = g]
<1>7. /\ y \in Invoices /\ y.status = "approved" /\ y.match = "Matched" /\ y.grn = g
      /\ y.row = x.row /\ y.no = x.no /\ y.po = x.po /\ y.amount = x.amount
  BY <1>5 DEF Invoices
<1>8. invoices' = [invoices EXCEPT ![i] = y]
  BY <1>4, <1>5, <1>6
<1> HIDE DEF y
<1>9. OtherInvoices(i) /\ invoices'[i] = y
  BY <1>5, <1>7, <1>8, Replaced DEF OtherInvoices
<1> QED
  BY <1>0, <1>1, <1>2, <1>3, <1>4, <1>6, <1>7, <1>9

\* A deleted invoice's row is gone.
LEMMA RemoveEffect ==
  ASSUME TypeOK, deleteInvoice
  PROVE  \E i \in Live(invoices) :
           /\ May("reidentify") /\ OtherInvoices(i)
           /\ invoices'[i].row = "gone" /\ invoices'[i].status = "pending"
<1>1. PICK i \in Live(invoices) : May("reidentify") /\ DeleteInvoice(i)
  BY DEF deleteInvoice
<1>2. i \in InvIds /\ invoices \in [InvIds -> Invoices]
  BY RowIds DEF TypeOK
<1>3. invoices' = [invoices EXCEPT ![i] = [NoInvoice EXCEPT !.row = "gone"]]
  BY <1>1, Zenon DEF DeleteInvoice
<1>4. OtherInvoices(i) /\ invoices'[i] = [NoInvoice EXCEPT !.row = "gone"]
  BY <1>2, <1>3, Replaced, EmptyRows DEF OtherInvoices
<1> QED
  BY <1>1, <1>4, EmptyStates

\* A payment writes the invoice's status only.
LEMMA PaidEffect ==
  ASSUME TypeOK, NEW i \in InvIds,
         invoices' = [invoices EXCEPT ![i] = [invoices[i] EXCEPT !.status = "paid"]]
  PROVE  /\ OtherInvoices(i)
         /\ invoices'[i].status = "paid"
         /\ invoices'[i].row = invoices[i].row /\ invoices'[i].no = invoices[i].no
         /\ invoices'[i].po = invoices[i].po /\ invoices'[i].amount = invoices[i].amount
         /\ invoices'[i].grn = invoices[i].grn
<1>1. invoices \in [InvIds -> Invoices]
  BY DEF TypeOK
<1>2. PICK x \in Invoices : x = invoices[i]
  BY <1>1
<1> DEFINE y == [x EXCEPT !.status = "paid"]
<1>3. /\ y \in Invoices /\ y.status = "paid"
      /\ y.row = x.row /\ y.no = x.no /\ y.po = x.po /\ y.amount = x.amount /\ y.grn = x.grn
  BY DEF Invoices
<1>4. invoices' = [invoices EXCEPT ![i] = y]
  BY <1>2
<1> HIDE DEF y
<1>5. OtherInvoices(i) /\ invoices'[i] = y
  BY <1>1, <1>3, <1>4, Replaced DEF OtherInvoices
<1> QED
  BY <1>2, <1>3, <1>5

-----------------------------------------------------------------------------
(* What each write does to the suppliers *)

\* A table of suppliers with one count, or one standing, replaced.
LEMMA VendorRows ==
  ASSUME NEW f \in [VendorIds -> Vendors], NEW v \in VendorIds
  PROVE  /\ \A n \in Int :
              /\ [f EXCEPT ![v].openPos = n] \in [VendorIds -> Vendors]
              /\ \A u \in VendorIds : [f EXCEPT ![v].openPos = n][u].suspended = f[u].suspended
              /\ [f EXCEPT ![v].openPos = n][v].openPos = n
              /\ \A u \in VendorIds : u # v => [f EXCEPT ![v].openPos = n][u].openPos = f[u].openPos
         /\ \A b \in BOOLEAN :
              /\ [f EXCEPT ![v].suspended = b] \in [VendorIds -> Vendors]
              /\ \A u \in VendorIds : [f EXCEPT ![v].suspended = b][u].openPos = f[u].openPos
  BY DEF Vendors

\* No write of an order changes a supplier's standing.
SameStanding ==
    vendors' \in [VendorIds -> Vendors] /\ \A u \in VendorIds : vendors'[u].suspended = vendors[u].suspended

\* Supplier v's count becomes n and the others keep theirs.
Counted(v, n) ==
    /\ SameStanding
    /\ vendors'[v].openPos = n
    /\ \A u \in VendorIds : u # v => vendors'[u].openPos = vendors[u].openPos

\* MoveOrder takes one from the old supplier's count and adds one to the new one's.
LEMMA MoveCount ==
  ASSUME Sound, NEW p \in Live(pos), NEW v \in VendorIds, MoveOrder(p, v)
  PROVE  /\ v = pos[p].vendor => vendors' = vendors
         /\ SameStanding
         /\ v # pos[p].vendor =>
              /\ vendors'[v].openPos = vendors[v].openPos + 1
              /\ vendors'[pos[p].vendor].openPos = Floor0(vendors[pos[p].vendor].openPos - 1)
              /\ \A u \in VendorIds \ {v, pos[p].vendor} : vendors'[u].openPos = vendors[u].openPos
<1>1. vendors \in [VendorIds -> Vendors] /\ \A u \in VendorIds : vendors[u].openPos \in Int
  BY DEF Sound, TypeOK, Vendors
<1>2. PICK w \in VendorIds : w = pos[p].vendor
  BY RowIds DEF Sound, LiveNamed, Live
<1>3. CASE v = w
  BY <1>1, <1>2, <1>3 DEF MoveOrder, SameStanding
<1>4. CASE v # w
  <2>1. PICK n \in Int : n = Floor0(vendors[w].openPos - 1)
    BY <1>1 DEF Floor0
  <2>2. PICK f : f = [vendors EXCEPT ![w].openPos = n]
    OBVIOUS
  <2>3. vendors' = [f EXCEPT ![v].openPos = vendors[v].openPos + 1]
    BY <1>1, <1>2, <1>4, <2>1, <2>2 DEF MoveOrder
  <2>4. /\ f \in [VendorIds -> Vendors]
        /\ \A u \in VendorIds : f[u].suspended = vendors[u].suspended
        /\ f[w].openPos = n
        /\ \A u \in VendorIds : u # w => f[u].openPos = vendors[u].openPos
    BY <1>1, <2>2, VendorRows
  <2>5. PICK k \in Int : k = vendors[v].openPos + 1
    BY <1>1
  <2>6. /\ vendors' \in [VendorIds -> Vendors]
        /\ \A u \in VendorIds : vendors'[u].suspended = f[u].suspended
        /\ vendors'[v].openPos = k
        /\ \A u \in VendorIds : u # v => vendors'[u].openPos = f[u].openPos
    BY <2>3, <2>4, <2>5, VendorRows
  <2> QED
    BY <1>2, <1>4, <2>1, <2>4, <2>5, <2>6 DEF SameStanding
<1> QED
  BY <1>3, <1>4

\* DeletePurchaseOrder takes one from the count of the order's supplier.
LEMMA DeleteCount ==
  ASSUME Sound, NEW p \in Live(pos), DeletePurchaseOrder(p)
  PROVE  pos[p].vendor \in VendorIds /\ Counted(pos[p].vendor, Floor0(vendors[pos[p].vendor].openPos - 1))
<1>1. vendors \in [VendorIds -> Vendors] /\ \A u \in VendorIds : vendors[u].openPos \in Int
  BY DEF Sound, TypeOK, Vendors
<1>2. PICK w \in VendorIds : w = pos[p].vendor
  BY RowIds DEF Sound, LiveNamed, Live
<1>3. PICK n \in Int : n = Floor0(vendors[w].openPos - 1)
  BY <1>1 DEF Floor0
<1>4. vendors' = [vendors EXCEPT ![w].openPos = n]
  BY <1>2, <1>3 DEF DeletePurchaseOrder
<1>5. Counted(w, n)
  BY <1>1, <1>4, VendorRows DEF Counted, SameStanding
<1> QED
  BY <1>2, <1>3, <1>5

\* InsertOrder adds one to the count of the order's supplier.
LEMMA InsertCount ==
  ASSUME Sound, NEW s \in Sessions, NEW p \in Free(pos), InsertOrder(s, p)
  PROVE  Counted(tx[s].vendor, vendors[tx[s].vendor].openPos + 1)
<1>1. vendors \in [VendorIds -> Vendors] /\ \A u \in VendorIds : vendors[u].openPos \in Int
  BY DEF Sound, TypeOK, Vendors
<1>2. PICK w \in VendorIds : w = tx[s].vendor
  BY InsertEffect DEF Sound
<1>3. PICK n \in Int : n = vendors[w].openPos + 1
  BY <1>1
<1>4. vendors' = [vendors EXCEPT ![w].openPos = n]
  BY <1>2, <1>3 DEF InsertOrder
<1>5. Counted(w, n)
  BY <1>1, <1>4, VendorRows DEF Counted, SameStanding
<1> QED
  BY <1>2, <1>3, <1>5

-----------------------------------------------------------------------------
(* Types *)

\* No handler writes anything but suppliers to vendors ...
LEMMA VendorsTyped ==
  ASSUME Sound, Next PROVE vendors' \in [VendorIds -> Vendors]
<1>0. TypeOK /\ vendors \in [VendorIds -> Vendors]
  BY DEF Sound, TypeOK
<1>1. CASE patchVendorQualityStatus
  <2>1. PICK v \in Known(VendorIds), b \in BOOLEAN : SetVendorQualityStatus(v, b)
    BY <1>1 DEF patchVendorQualityStatus
  <2>2. v \in VendorIds
    BY <1>0, WorldTypes DEF TypeOK
  <2> QED
    BY <1>0, <2>1, <2>2, VendorRows DEF SetVendorQualityStatus
<1>2. CASE patchPurchaseOrder
  <2>1. PICK p \in Live(pos) :
          \/ \E v \in Known(VendorIds) : MoveOrder(p, v)
          \/ UNCHANGED vendors
    BY <1>2 DEF patchPurchaseOrder, UpdateOrderStatus, RepriceOrder
  <2>2. Known(VendorIds) \subseteq VendorIds
    BY <1>0, WorldTypes DEF TypeOK
  <2> QED
    BY <1>0, <2>1, <2>2, MoveCount DEF SameStanding
<1>3. CASE deletePurchaseOrder
  BY <1>3, DeleteCount DEF deletePurchaseOrder, Counted, SameStanding
<1>4. CASE Finishes
  <2>1. PICK s \in Sessions : (\E p \in Free(pos) : InsertOrder(s, p)) \/ ApproveInvoiceCommit(s) \/ Rollback(s)
    BY <1>4 DEF Finishes
  <2>2. CASE \E p \in Free(pos) : InsertOrder(s, p)
    BY <2>2, InsertCount DEF Counted, SameStanding
  <2>3. CASE ApproveInvoiceCommit(s) \/ Rollback(s)
    BY <1>0, <2>3 DEF ApproveInvoiceCommit, Rollback, tables
  <2> QED
    BY <2>1, <2>2, <2>3
<1> QED
  BY <1>0, <1>1, <1>2, <1>3, <1>4, SourcingFootprints, SettlingFootprints DEF Next

\* ... or anything but orders, each with a supplier, to pos ...
LEMMA PosTyped ==
  ASSUME Sound, Next
  PROVE  /\ pos' \in [PoIds -> Pos]
         /\ \A p \in PoIds : pos'[p].row = "live" => pos'[p].vendor \in VendorIds
<1>0. /\ TypeOK /\ pos \in [PoIds -> Pos]
      /\ \A p \in PoIds : pos[p].row = "live" => pos[p].vendor \in VendorIds
  BY DEF Sound, TypeOK, LiveNamed
<1>1. CASE patchPurchaseOrder
  <2>1. PICK p \in Live(pos) :
          \/ \E v \in Known(VendorIds) : MoveOrder(p, v)
          \/ \E status \in {"approved", "issued", "pending", "void"}, creator \in BOOLEAN :
                UpdateOrderStatus(p, status, creator)
          \/ \E a \in world.amounts : RepriceOrder(p, a)
    BY <1>1 DEF patchPurchaseOrder
  <2>2. Known(VendorIds) \subseteq VendorIds /\ world.amounts \subseteq Nat
    BY <1>0, WorldTypes DEF TypeOK
  <2>3. p \in PoIds /\ pos[p].row = "live"
    BY <1>0, RowIds DEF Live
  <2>4. OtherOrders(p) /\ (pos'[p].vendor = pos[p].vendor \/ pos'[p].vendor \in VendorIds)
    <3>1. CASE \E v \in Known(VendorIds) : MoveOrder(p, v)
      BY <1>0, <2>2, <3>1, MoveEffect
    <3>2. CASE \E status \in {"approved", "issued", "pending", "void"}, creator \in BOOLEAN :
                UpdateOrderStatus(p, status, creator)
      BY <1>0, <3>2, StatusEffect
    <3>3. CASE \E a \in world.amounts : RepriceOrder(p, a)
      BY <1>0, <2>2, <3>3, RepriceEffect
    <3> QED
      BY <2>1, <3>1, <3>2, <3>3
  <2> QED
    BY <1>0, <2>3, <2>4 DEF OtherOrders
<1>2. CASE deletePurchaseOrder
  BY <1>0, <1>2, DeleteEffect DEF deletePurchaseOrder, OtherOrders
<1>3. CASE Finishes
  <2>1. PICK s \in Sessions : (\E p \in Free(pos) : InsertOrder(s, p)) \/ ApproveInvoiceCommit(s) \/ Rollback(s)
    BY <1>3 DEF Finishes
  <2>2. CASE \E p \in Free(pos) : InsertOrder(s, p)
    BY <1>0, <2>2, InsertEffect DEF OtherOrders
  <2>3. CASE ApproveInvoiceCommit(s) \/ Rollback(s)
    BY <1>0, <2>3 DEF ApproveInvoiceCommit, Rollback, tables
  <2> QED
    BY <2>1, <2>2, <2>3
<1>4. CASE handlePaymentMade
  BY <1>0, <1>4, PaymentEffect
<1> QED
  BY <1>0, <1>1, <1>2, <1>3, <1>4, SourcingFootprints, SettlingFootprints DEF Next

\* The RFQs but r keep their rows.
OtherRfqs(r) == rfqs' \in [RfqIds -> Rfqs] /\ \A q \in RfqIds : q # r => rfqs'[q] = rfqs[q]

\* The RFQ an order comes from becomes awarded, if it still exists.
LEMMA AwardEffect ==
  ASSUME TypeOK, NEW s \in Sessions, NEW p \in Free(pos), InsertOrder(s, p)
  PROVE  /\ OtherRfqs(tx[s].rfq)
         /\ tx[s].rfq \in RfqIds => /\ rfqs'[tx[s].rfq].row = rfqs[tx[s].rfq].row
                                    /\ rfqs[tx[s].rfq].row = "live" => rfqs'[tx[s].rfq].status = "awarded"
<1>1. rfqs \in [RfqIds -> Rfqs] /\ Live(rfqs) \subseteq RfqIds
  BY RowIds DEF TypeOK
<1>2. PICK r : r = tx[s].rfq
  OBVIOUS
<1>3. PICK v \in VendorIds : v = tx[s].vendor
  BY InsertEffect
<1>4. rfqs' = IF r \in Live(rfqs) THEN [rfqs EXCEPT ![r].status = "awarded", ![r].winner = v] ELSE rfqs
  BY <1>2, <1>3, Zenon DEF InsertOrder
<1>5. CASE r \in Live(rfqs)
  <2>1. r \in RfqIds
    BY <1>1, <1>5
  <2>2. PICK x \in Rfqs : x = rfqs[r]
    BY <1>1, <2>1
  <2> DEFINE y == [x EXCEPT !.status = "awarded", !.winner = v]
  <2>3. y \in Rfqs /\ y.row = x.row /\ y.status = "awarded"
    BY DEF Rfqs
  <2>4. rfqs' = [rfqs EXCEPT ![r] = y]
    BY <1>1, <1>4, <1>5, <2>1, <2>2
  <2> HIDE DEF y
  <2>5. OtherRfqs(r) /\ rfqs'[r] = y
    BY <1>1, <2>1, <2>3, <2>4, Replaced DEF OtherRfqs
  <2> QED
    BY <1>2, <2>2, <2>3, <2>5
<1>6. CASE r \notin Live(rfqs)
  BY <1>1, <1>2, <1>4, <1>6 DEF OtherRfqs, Live
<1> QED
  BY <1>5, <1>6

\* A PATCH edits the RFQ in place.
LEMMA PatchRfqEffect ==
  ASSUME TypeOK, patchRfq
  PROVE  \E r \in Live(rfqs) : /\ rfqs[r].status = "open" \/ May("reopenRfq")
                               /\ OtherRfqs(r) /\ rfqs'[r].row = "live"
<1>1. PICK r \in Live(rfqs) :
          /\ rfqs[r].status = "open" \/ May("reopenRfq")
          /\ \E new \in Edits(rfqs[r], [status |-> {"open", "awarded", "closed"},
                                        winner |-> Known(VendorIds)]) : UpdateRfq(r, new)
  BY DEF patchRfq
<1>2. PICK new \in Edits(rfqs[r], [status |-> {"open", "awarded", "closed"}, winner |-> Known(VendorIds)]) :
         UpdateRfq(r, new)
  BY <1>1
<1>3. PICK x \in Rfqs : x = rfqs[r]
  BY RowIds DEF TypeOK
<1>4. r \in RfqIds /\ rfqs \in [RfqIds -> Rfqs] /\ x.row = "live" /\ Known(VendorIds) \in SUBSET VendorIds
  BY <1>3, RowIds, WorldTypes DEF TypeOK, Live
<1>5. new \in Rfqs /\ new.row = x.row
  BY <1>2, <1>3, <1>4, RfqEdit
<1>6. OtherRfqs(r) /\ rfqs'[r] = new
  BY <1>2, <1>4, <1>5, Replaced DEF UpdateRfq, OtherRfqs
<1> QED
  BY <1>1, <1>4, <1>5, <1>6

\* Creating and deleting one.
LEMMA RfqRowEffect ==
  ASSUME TypeOK
  PROVE  /\ postRfq => \E r \in Free(rfqs) : /\ OtherRfqs(r) /\ r \in RfqIds
                                             /\ rfqs'[r].row = "live"
         /\ deleteRfq => \E r \in Live(rfqs) : OtherRfqs(r) /\ rfqs'[r].row = "gone"
<1>0. rfqs \in [RfqIds -> Rfqs]
  BY DEF TypeOK
<1>1. ASSUME postRfq
      PROVE  \E r \in Free(rfqs) : /\ OtherRfqs(r) /\ r \in RfqIds
                                   /\ rfqs'[r].row = "live"
  <2>1. PICK r \in Free(rfqs) : rfqs' = [rfqs EXCEPT ![r] = [NoRfq EXCEPT !.row = "live"]]
    BY <1>1, Zenon DEF postRfq, CreateRfq
  <2>2. OtherRfqs(r) /\ r \in RfqIds /\ rfqs'[r] = [NoRfq EXCEPT !.row = "live"]
    BY <1>0, <2>1, EmptyRows, Replaced, RowIds DEF OtherRfqs
  <2> QED
    BY <2>2, EmptyStates
<1>2. ASSUME deleteRfq PROVE \E r \in Live(rfqs) : OtherRfqs(r) /\ rfqs'[r].row = "gone"
  <2>1. PICK r \in Live(rfqs) : rfqs' = [rfqs EXCEPT ![r] = [NoRfq EXCEPT !.row = "gone"]]
    BY <1>2, Zenon DEF deleteRfq, DeleteRfq
  <2>2. OtherRfqs(r) /\ rfqs'[r] = [NoRfq EXCEPT !.row = "gone"]
    BY <1>0, <2>1, EmptyRows, Replaced, RowIds DEF OtherRfqs
  <2> QED
    BY <2>2, EmptyStates
<1> QED
  BY <1>1, <1>2

\* ... or anything but RFQs to rfqs ...
LEMMA RfqsTyped ==
  ASSUME Sound, Next PROVE rfqs' \in [RfqIds -> Rfqs]
<1>0. TypeOK /\ rfqs \in [RfqIds -> Rfqs]
  BY DEF Sound, TypeOK
<1>1. CASE postRfq \/ deleteRfq
  BY <1>0, <1>1, RfqRowEffect DEF OtherRfqs
<1>2. CASE patchRfq
  BY <1>0, <1>2, PatchRfqEffect DEF OtherRfqs
<1>3. CASE Finishes
  <2>1. PICK s \in Sessions : (\E p \in Free(pos) : InsertOrder(s, p)) \/ ApproveInvoiceCommit(s) \/ Rollback(s)
    BY <1>3 DEF Finishes
  <2>2. CASE \E p \in Free(pos) : InsertOrder(s, p)
    BY <1>0, <2>2, AwardEffect DEF OtherRfqs
  <2>3. CASE ApproveInvoiceCommit(s) \/ Rollback(s)
    BY <1>0, <2>3 DEF ApproveInvoiceCommit, Rollback, tables
  <2> QED
    BY <2>1, <2>2, <2>3
<1> QED
  BY <1>0, <1>1, <1>2, <1>3, SourcingFootprints, SettlingFootprints DEF Next

\* ... or anything but quotes, each with a supplier, to quotes ...
LEMMA QuotesTyped ==
  ASSUME Sound, Next
  PROVE  /\ quotes' \in [QuoteIds -> Quotes]
         /\ \A q \in QuoteIds : quotes'[q].row = "live" => quotes'[q].vendor \in VendorIds
<1>0. /\ TypeOK /\ quotes \in [QuoteIds -> Quotes]
      /\ \A q \in QuoteIds : quotes[q].row = "live" => quotes[q].vendor \in VendorIds
  BY DEF Sound, TypeOK, LiveNamed
<1>1. CASE postRfqQuote
  <2>1. PICK r \in Live(rfqs), v \in Known(VendorIds), a \in world.amounts : CreateRfqQuote(r, v, a)
    BY <1>1 DEF postRfqQuote
  <2>2. r \in RfqIds /\ v \in VendorIds /\ a \in Nat
    BY <1>0, RowIds, WorldTypes DEF TypeOK
  <2> DEFINE x == [row |-> "live", rfq |-> r, vendor |-> v, amount |-> a]
  <2>3. x \in Quotes /\ x.vendor = v
    BY <2>2 DEF Quotes, RowStates
  <2>4. PICK k : quotes' = [quotes EXCEPT ![k] = x]
    BY <2>1, Zenon DEF CreateRfqQuote
  <2> HIDE DEF x
  <2> QED
    BY <1>0, <2>2, <2>3, <2>4, Replaced
<1>2. CASE deleteRfq
  <2>1. PICK r \in Live(rfqs) : quotes' = [q \in QuoteIds |->
                    IF quotes[q].rfq = r THEN [NoQuote EXCEPT !.row = "gone"] ELSE quotes[q]]
    BY <1>2, Zenon DEF deleteRfq, DeleteRfq
  <2>2. \A q \in QuoteIds : quotes'[q] = [NoQuote EXCEPT !.row = "gone"] \/ quotes'[q] = quotes[q]
    BY <2>1
  <2>3. \A q \in QuoteIds : /\ quotes'[q] \in Quotes
                            /\ quotes'[q].row = "live" => quotes'[q].vendor \in VendorIds
    BY <1>0, <2>2, EmptyRows, EmptyStates
  <2>4. quotes' = [q \in QuoteIds |-> quotes'[q]]
    BY <2>1
  <2> QED
    BY <2>3, <2>4
<1> QED
  BY <1>0, <1>1, <1>2, SourcingFootprints, SettlingFootprints DEF Next

\* The receipts but g keep their rows.
OtherGrns(g) == grns' \in [GrnIds -> Grns] /\ \A h \in GrnIds : h # g => grns'[h] = grns[h]

\* A receipt is written whole, and one under inspection is not posted.
LEMMA GrnEffect ==
  ASSUME TypeOK
  PROVE  /\ postGrn => \E g \in Free(grns) :
              /\ OtherGrns(g) /\ g \in GrnIds
              /\ grns'[g].row = "live"
              /\ grns'[g].status \in GrnStatuses /\ (grns'[g].status = "posted" => grns'[g].qc # "held")
         /\ patchGrn => \E g \in Live(grns) :
              /\ ~Evidence(g) \/ May("editReceipt")
              /\ OtherGrns(g)
              /\ grns'[g].row = "live"
              /\ grns'[g].status = grns[g].status \/ grns'[g].status \in GrnStatuses
              /\ grns'[g].status = "posted" => grns'[g].qc # "held"
         /\ deleteGrn => \E g \in Live(grns) :
              /\ \A i \in Live(invoices) : invoices[i].grn # g
              /\ OtherGrns(g)
              /\ grns'[g].row = "gone"
<1>0. grns \in [GrnIds -> Grns]
  BY DEF TypeOK
<1>a. /\ GrnStatuses \in SUBSET {"draft", "posted", "received"}
      /\ QCStatuses \in SUBSET {"exempt", "held", "released"}
  BY DEF GrnStatuses, QCStatuses
<1>b. Known(PoIds) \in SUBSET PoIds
  BY WorldTypes DEF TypeOK
<1>1. ASSUME postGrn
      PROVE \E g \in Free(grns) :
              /\ OtherGrns(g) /\ g \in GrnIds
              /\ grns'[g].row = "live"
              /\ grns'[g].status \in GrnStatuses /\ (grns'[g].status = "posted" => grns'[g].qc # "held")
  <2>1. PICK g \in Free(grns), p \in Known(PoIds) \cup {None}, status \in GrnStatuses, qc \in QCStatuses :
          CreateGrn(g, p, status, qc)
    BY <1>1 DEF postGrn
  <2> DEFINE x == [row |-> "live", po |-> p, status |-> status, qc |-> qc]
  <2>0. /\ p \in PoIds \cup {None} /\ status \in {"draft", "posted", "received"}
        /\ qc \in {"exempt", "held", "released"}
    BY <1>a, <1>b
  <2>2. x \in Grns /\ x.row = "live" /\ x.status = status /\ x.qc = qc
    BY <2>0 DEF Grns, RowStates
  <2>3. grns' = [grns EXCEPT ![g] = x]
    BY <2>1, Zenon DEF CreateGrn
  <2> HIDE DEF x
  <2>4. OtherGrns(g) /\ g \in GrnIds /\ grns'[g] = x
    BY <1>0, <2>2, <2>3, Replaced, RowIds DEF OtherGrns
  <2>5. status = "posted" => qc # "held"
    BY <2>1 DEF CreateGrn, grnQCGate
  <2> QED
    BY <2>2, <2>4, <2>5
<1>2. ASSUME patchGrn
      PROVE \E g \in Live(grns) :
              /\ ~Evidence(g) \/ May("editReceipt")
              /\ OtherGrns(g)
              /\ grns'[g].row = "live"
              /\ grns'[g].status = grns[g].status \/ grns'[g].status \in GrnStatuses
              /\ grns'[g].status = "posted" => grns'[g].qc # "held"
  <2>1. PICK g \in Live(grns) :
          /\ ~Evidence(g) \/ May("editReceipt")
          /\ \E new \in Edits(grns[g], [po |-> Known(PoIds), status |-> GrnStatuses, qc |-> QCStatuses]) :
                UpdateGrn(g, new)
    BY <1>2 DEF patchGrn
  <2>2. PICK new \in Edits(grns[g], [po |-> Known(PoIds), status |-> GrnStatuses, qc |-> QCStatuses]) :
                UpdateGrn(g, new)
    BY <2>1
  <2>3. PICK x \in Grns : x = grns[g] /\ x.row = "live" /\ g \in GrnIds
    BY <1>0, RowIds DEF Live
  <2>4. new \in Grns /\ new.row = x.row /\ (new.status = x.status \/ new.status \in GrnStatuses)
    <3>1. PICK P \in SUBSET PoIds, S \in SUBSET {"draft", "posted", "received"},
               Q \in SUBSET {"exempt", "held", "released"} :
             P = Known(PoIds) /\ S = GrnStatuses /\ Q = QCStatuses
      BY <1>a, <1>b
    <3>2. new \in Edits(x, [po |-> P, status |-> S, qc |-> Q])
      BY <2>2, <2>3, <3>1
    <3> QED
      BY <3>1, <3>2, GrnEdit
  <2>5. OtherGrns(g) /\ grns'[g] = new
    BY <1>0, <2>2, <2>3, <2>4, Replaced DEF UpdateGrn, OtherGrns
  <2>6. new.status = "posted" => new.qc # "held"
    BY <2>2 DEF UpdateGrn, grnQCGate
  <2> QED
    BY <2>1, <2>3, <2>4, <2>5, <2>6
<1>3. ASSUME deleteGrn
      PROVE \E g \in Live(grns) :
              /\ \A i \in Live(invoices) : invoices[i].grn # g
              /\ OtherGrns(g)
              /\ grns'[g].row = "gone"
  <2>1. PICK g \in Live(grns) : /\ \A i \in Live(invoices) : invoices[i].grn # g
                                /\ grns' = [grns EXCEPT ![g] = [NoGrn EXCEPT !.row = "gone"]]
    BY <1>3, Zenon DEF deleteGrn, DeleteGrn
  <2>2. OtherGrns(g) /\ grns'[g] = [NoGrn EXCEPT !.row = "gone"]
    BY <1>0, <2>1, EmptyRows, Replaced, RowIds DEF OtherGrns
  <2> QED
    BY <2>1, <2>2, EmptyStates
<1> QED
  BY <1>1, <1>2, <1>3

\* ... or anything but receipts to grns ...
LEMMA GrnsTyped ==
  ASSUME Sound, Next PROVE grns' \in [GrnIds -> Grns]
<1>0. TypeOK /\ grns \in [GrnIds -> Grns]
  BY DEF Sound, TypeOK
<1>1. CASE postGrn \/ patchGrn \/ deleteGrn
  BY <1>0, <1>1, GrnEffect DEF OtherGrns
<1> QED
  BY <1>0, <1>1, SourcingFootprints, SettlingFootprints DEF Next

\* ... or anything but invoices to invoices.
LEMMA InvoicesTyped ==
  ASSUME Sound, Next PROVE invoices' \in [InvIds -> Invoices]
<1>0. TypeOK /\ invoices \in [InvIds -> Invoices]
  BY DEF Sound, TypeOK
<1>1. CASE postInvoice
  BY <1>0, <1>1, PostEffect DEF OtherInvoices
<1>2. CASE patchInvoice
  BY <1>0, <1>2, PatchEffect DEF OtherInvoices
<1>3. CASE deleteInvoice
  BY <1>0, <1>3, RemoveEffect DEF OtherInvoices
<1>4. CASE handlePaymentMade
  <2>1. PICK e \in settled :
           \/ UNCHANGED invoices
           \/ \E i \in InvIds : invoices' = [invoices EXCEPT ![i] = [invoices[i] EXCEPT !.status = "paid"]]
    BY <1>0, <1>4, PaymentEffect
  <2> QED
    BY <1>0, <2>1, PaidEffect DEF OtherInvoices
<1>5. CASE Finishes
  <2>1. PICK s \in Sessions : (\E p \in Free(pos) : InsertOrder(s, p)) \/ ApproveInvoiceCommit(s) \/ Rollback(s)
    BY <1>5 DEF Finishes
  <2>2. CASE ApproveInvoiceCommit(s)
    BY <1>0, <2>2, ApproveEffect DEF OtherInvoices
  <2>3. CASE (\E p \in Free(pos) : InsertOrder(s, p)) \/ Rollback(s)
    BY <1>0, <2>3 DEF InsertOrder, Rollback, tables
  <2> QED
    BY <2>1, <2>2, <2>3
<1> QED
  BY <1>0, <1>1, <1>2, <1>3, <1>4, <1>5, SourcingFootprints, SettlingFootprints DEF Next

\* The columns finance and the payment consumer write.
LEMMA PaymentsTyped ==
  ASSUME Sound, Next
  PROVE  /\ payments' \in [PayRefs -> InvIds \cup {None}]
         /\ ap' \in [InvIds -> InvIds \cup Numbers \cup {None}]
         /\ settled' \subseteq [ref : PayRefs \cup {None}, doc : InvIds \cup Numbers, inv : InvIds]
         /\ consumed' \subseteq settled'
<1>0. /\ TypeOK
      /\ payments \in [PayRefs -> InvIds \cup {None}]
      /\ ap \in [InvIds -> InvIds \cup Numbers \cup {None}]
      /\ settled \subseteq [ref : PayRefs \cup {None}, doc : InvIds \cup Numbers, inv : InvIds]
      /\ consumed \subseteq settled
  BY DEF Sound, TypeOK
<1>1. CASE postInvoice
  <2>1. PICK i \in InvIds, no \in Numbers \cup {None} :
           ap' = [ap EXCEPT ![i] = IF no = None THEN i ELSE no]
    BY <1>0, <1>1, PostEffect
  <2> QED
    BY <1>0, <1>1, <2>1, SettlingFootprints
<1>2. CASE Finance
  <2>1. PICK x \in SettlementRefs, i \in InvIds : FinancePays(x, i)
    BY <1>2 DEF Finance
  <2>2. x \in PayRefs \cup {None} /\ ap[i] \in InvIds \cup Numbers
    BY <1>0, <2>1, WorldTypes DEF FinancePays, SettlementRefs, TypeOK
  <2>3. /\ settled' \subseteq [ref : PayRefs \cup {None}, doc : InvIds \cup Numbers, inv : InvIds]
        /\ settled \subseteq settled'
    BY <1>0, <2>1, <2>2 DEF FinancePays
  <2> QED
    BY <1>0, <1>2, <2>3, SettlingFootprints
<1>3. CASE handlePaymentMade
  <2>1. PICK e \in settled :
           /\ consumed' = consumed \cup {e}
           /\ \/ UNCHANGED payments
              \/ \E i \in InvIds, x \in PayRefs : payments' = [payments EXCEPT ![x] = i]
    BY <1>0, <1>3, PaymentEffect
  <2> QED
    BY <1>0, <1>3, <2>1, SettlingFootprints
<1>4. CASE /\ ~postInvoice /\ ~Finance /\ ~handlePaymentMade
  BY <1>0, <1>4, SourcingFootprints, SettlingFootprints DEF Next
<1> QED
  BY <1>1, <1>2, <1>3, <1>4

\* What the first halves keep for the second ones.
LEMMA TxEffect ==
  ASSUME Sound
  PROVE  /\ awardRfq => \E s \in Sessions, r \in Live(rfqs), q \in Live(quotes) :
              /\ rfqs[r].status = "open"
              /\ May("awardSuspended") \/ ~vendors[quotes[q].vendor].suspended
              /\ quotes[q].vendor \in VendorIds /\ quotes[q].amount \in Nat
              /\ tx' = [tx EXCEPT ![s] = [op |-> "order", rfq |-> r, vendor |-> quotes[q].vendor,
                                          total |-> quotes[q].amount]]
         /\ postPurchaseOrder => \E s \in Sessions, v \in VendorIds, n \in Nat :
              /\ ~vendors[v].suspended
              /\ tx' = [tx EXCEPT ![s] = [op |-> "order", rfq |-> None, vendor |-> v, total |-> n]]
         /\ approveInvoice => \E s \in Sessions, i \in Live(invoices) : \E g \in Receipts(invoices[i].po) :
              /\ invoices[i].po \in Live(pos) /\ pos[invoices[i].po].total = invoices[i].amount
              /\ g \in GrnIds
              /\ tx' = [tx EXCEPT ![s] = [op |-> "approve", inv |-> i, grn |-> g]]
<1>0. TypeOK /\ LiveNamed
  BY DEF Sound
<1>1. ASSUME awardRfq
      PROVE  \E s \in Sessions, r \in Live(rfqs), q \in Live(quotes) :
              /\ rfqs[r].status = "open"
              /\ May("awardSuspended") \/ ~vendors[quotes[q].vendor].suspended
              /\ quotes[q].vendor \in VendorIds /\ quotes[q].amount \in Nat
              /\ tx' = [tx EXCEPT ![s] = [op |-> "order", rfq |-> r, vendor |-> quotes[q].vendor,
                                          total |-> quotes[q].amount]]
  <2>1. PICK s \in IdleSessions, r \in Live(rfqs), q \in QuoteIds : AwardRfqRead(s, r, q)
    BY <1>1 DEF awardRfq
  <2>2. /\ q \in Live(quotes)
        /\ May("awardSuspended") \/ ~vendors[quotes[q].vendor].suspended
        /\ rfqs[r].status \notin {"awarded", "closed"}
        /\ tx' = [tx EXCEPT ![s] = [op |-> "order", rfq |-> r, vendor |-> quotes[q].vendor,
                                    total |-> quotes[q].amount]]
    BY <2>1, Zenon DEF AwardRfqRead, supplierSuspended
  <2>3. quotes[q].vendor \in VendorIds /\ quotes[q].amount \in Nat
    BY <1>0, <2>2 DEF LiveNamed, TypeOK, Live, Quotes
  <2>4. rfqs[r].status = "open"
    BY <1>0, <2>2, RowIds DEF TypeOK, Rfqs
  <2>5. s \in Sessions
    BY DEF IdleSessions
  <2> QED
    BY <2>2, <2>3, <2>4, <2>5, Zenon
<1>2. ASSUME postPurchaseOrder
      PROVE  \E s \in Sessions, v \in VendorIds, n \in Nat :
              /\ ~vendors[v].suspended
              /\ tx' = [tx EXCEPT ![s] = [op |-> "order", rfq |-> None, vendor |-> v, total |-> n]]
  <2>1. PICK s \in IdleSessions, v \in Known(VendorIds), a \in world.amounts : CreatePurchaseOrderRead(s, v, a)
    BY <1>2 DEF postPurchaseOrder
  <2>2. s \in Sessions /\ v \in VendorIds /\ a \in Nat
    BY <1>0, WorldTypes DEF IdleSessions, TypeOK
  <2> QED
    BY <2>1, <2>2, Zenon DEF CreatePurchaseOrderRead, supplierSuspended
<1>3. ASSUME approveInvoice
      PROVE  \E s \in Sessions, i \in Live(invoices) : \E g \in Receipts(invoices[i].po) :
              /\ invoices[i].po \in Live(pos) /\ pos[invoices[i].po].total = invoices[i].amount
              /\ g \in GrnIds
              /\ tx' = [tx EXCEPT ![s] = [op |-> "approve", inv |-> i, grn |-> g]]
  <2>1. PICK s \in IdleSessions, i \in Live(invoices) : ApproveInvoiceRead(s, i)
    BY <1>3 DEF approveInvoice
  <2>2. PICK m \in deriveInvoiceMatchStatus(invoices[i].po, invoices[i].amount) :
          /\ m.match = "Matched"
          /\ tx' = [tx EXCEPT ![s] = [op |-> "approve", inv |-> i, grn |-> m.grn]]
    BY <2>1, Zenon DEF ApproveInvoiceRead
  <2>3. /\ invoices[i].po \in Live(pos) /\ invoices[i].amount = pos[invoices[i].po].total
        /\ m.grn \in Receipts(invoices[i].po) /\ Receipts(invoices[i].po) \subseteq GrnIds
    BY <1>0, <2>2, MatchTypes
  <2>4. s \in Sessions
    BY DEF IdleSessions
  <2> QED
    BY <2>2, <2>3, <2>4, Zenon
<1> QED
  BY <1>1, <1>2, <1>3

\* A session is idle or between the halves of an order's or an approval's transaction.
LEMMA TxTyped ==
  ASSUME Sound, Next PROVE tx' \in [Sessions -> Transactions]
<1>0. TypeOK /\ tx \in [Sessions -> Transactions] /\ Idle \in Transactions
  BY DEF Sound, TypeOK, Transactions
<1>1. CASE awardRfq
  <2>1. PICK s \in Sessions, r \in RfqIds, v \in VendorIds, n \in Nat :
           tx' = [tx EXCEPT ![s] = [op |-> "order", rfq |-> r, vendor |-> v, total |-> n]]
    BY <1>0, <1>1, TxEffect, RowIds
  <2>2. [op |-> "order", rfq |-> r, vendor |-> v, total |-> n] \in Transactions
    BY DEF Transactions
  <2> QED
    BY <1>0, <2>1, <2>2, Replaced
<1>2. CASE postPurchaseOrder
  <2>1. PICK s \in Sessions, v \in VendorIds, n \in Nat :
           tx' = [tx EXCEPT ![s] = [op |-> "order", rfq |-> None, vendor |-> v, total |-> n]]
    BY <1>2, TxEffect
  <2>2. [op |-> "order", rfq |-> None, vendor |-> v, total |-> n] \in Transactions
    BY DEF Transactions
  <2> QED
    BY <1>0, <2>1, <2>2, Replaced
<1>3. CASE approveInvoice
  <2>1. PICK s \in Sessions, i \in InvIds, g \in GrnIds :
           tx' = [tx EXCEPT ![s] = [op |-> "approve", inv |-> i, grn |-> g]]
    BY <1>0, <1>3, TxEffect, RowIds
  <2>2. [op |-> "approve", inv |-> i, grn |-> g] \in Transactions
    BY DEF Transactions
  <2> QED
    BY <1>0, <2>1, <2>2, Replaced
<1>4. CASE Finishes
  <2>1. PICK s \in Sessions : (\E p \in Free(pos) : InsertOrder(s, p)) \/ ApproveInvoiceCommit(s) \/ Rollback(s)
    BY <1>4 DEF Finishes
  <2>2. tx' = [tx EXCEPT ![s] = Idle]
    BY <2>1 DEF InsertOrder, ApproveInvoiceCommit, Rollback
  <2> QED
    BY <1>0, <2>2, Replaced
<1> QED
  BY <1>0, <1>1, <1>2, <1>3, <1>4, SourcingFootprints, SettlingFootprints DEF Next

\* No step leaves its world.
LEMMA WorldKept ==
  ASSUME Next PROVE world' = world
  BY SourcingFootprints, SettlingFootprints DEF Next

\* Every step keeps the tables well-formed.
LEMMA SoundStep ==
  ASSUME Sound, [Next]_vars PROVE Sound'
<1>1. CASE Next
  <2>1. world' \in Worlds
    BY <1>1, WorldKept DEF Sound, TypeOK
  <2> QED
    BY <1>1, <2>1, VendorsTyped, PosTyped, RfqsTyped, QuotesTyped, GrnsTyped, InvoicesTyped, PaymentsTyped,
       TxTyped DEF Sound, TypeOK, LiveNamed
<1>2. CASE UNCHANGED vars
  BY <1>2 DEF vars, tables, Sound, TypeOK, LiveNamed
<1> QED
  BY <1>1, <1>2

\* The empty tables are.
LEMMA SoundInit == Init => Sound
<1> SUFFICES ASSUME Init PROVE Sound
  OBVIOUS
<1>1. vendors \in [VendorIds -> Vendors]
  BY DEF Init, Vendors
<1>2. /\ rfqs \in [RfqIds -> Rfqs] /\ quotes \in [QuoteIds -> Quotes] /\ pos \in [PoIds -> Pos]
      /\ grns \in [GrnIds -> Grns] /\ invoices \in [InvIds -> Invoices]
  BY EmptyRows DEF Init
<1>3. /\ payments \in [PayRefs -> InvIds \cup {None}]
      /\ ap \in [InvIds -> InvIds \cup Numbers \cup {None}]
  BY DEF Init
<1>4. Idle \in Transactions
  BY DEF Transactions
<1>5. tx \in [Sessions -> Transactions] /\ settled = {} /\ consumed = {} /\ world \in Worlds
  BY <1>4 DEF Init
<1>6. LiveNamed
  BY EmptyStates DEF Init, LiveNamed
<1> QED
  BY <1>1, <1>2, <1>3, <1>5, <1>6 DEF Sound, TypeOK

\* Rows of every table stay well-formed, and every quote and order in its table
\* names a supplier.
THEOREM SoundInvariant == Spec => []Sound
  BY SoundInit, SoundStep, PTL DEF Spec

\* Every table holds rows of its type.
THEOREM DocumentTypes == Spec => []TypeOK
<1>1. Sound => TypeOK
  BY DEF Sound
<1> QED
  BY <1>1, SoundInvariant, PTL

-----------------------------------------------------------------------------
(* Steps *)

\* The rows of a table, before and after a step.
LEMMA LiveRows ==
  ASSUME Sound, [Next]_vars
  PROVE  /\ Live(rfqs) = {r \in RfqIds : rfqs[r].row = "live"}
         /\ Live(pos) = {p \in PoIds : pos[p].row = "live"}
         /\ Live(pos)' = {p \in PoIds : pos'[p].row = "live"}
         /\ Live(grns) = {g \in GrnIds : grns[g].row = "live"}
         /\ Live(grns)' = {g \in GrnIds : grns'[g].row = "live"}
         /\ Live(invoices) = {i \in InvIds : invoices[i].row = "live"}
         /\ Live(invoices)' = {i \in InvIds : invoices'[i].row = "live"}
  BY SoundStep DEF Sound, TypeOK, Live

\* Two sessions are in the middle of a transaction only where commits may race.
Solo == May("race") \/ \A s, t \in Sessions : tx[s] # Idle /\ tx[t] # Idle => s = t

\* Without a race, only second halves and finance move while one is open.
LEMMA Quiet ==
  ASSUME Next, ~May("race")
  PROVE  (\A s \in Sessions : tx[s] = Idle) \/ Finance \/ Finishes
<1> USE DEF Commits, Begins, Undisturbed
<1>1. CASE patchVendorQualityStatus \/ postRfq \/ postRfqQuote \/ awardRfq \/ patchRfq \/ deleteRfq
  BY <1>1 DEF patchVendorQualityStatus, postRfq, postRfqQuote, awardRfq, patchRfq, deleteRfq
<1>2. CASE postPurchaseOrder \/ patchPurchaseOrder \/ deletePurchaseOrder \/ postGrn \/ patchGrn \/ deleteGrn
  BY <1>2 DEF postPurchaseOrder, patchPurchaseOrder, deletePurchaseOrder, postGrn, patchGrn, deleteGrn
<1>3. CASE postInvoice \/ patchInvoice \/ approveInvoice \/ deleteInvoice \/ handlePaymentMade
  BY <1>3 DEF postInvoice, patchInvoice, approveInvoice, deleteInvoice, handlePaymentMade
<1> QED
  BY <1>1, <1>2, <1>3 DEF Next

\* What a step does to the open transactions: it opens one, closes one, or none.
LEMMA TxSteps ==
  ASSUME Sound, Next
  PROVE  \/ tx' = tx
         \/ awardRfq \/ postPurchaseOrder \/ approveInvoice
         \/ Finishes /\ \E s \in Sessions : tx' = [tx EXCEPT ![s] = Idle]
<1>1. CASE Finishes
  BY <1>1 DEF Finishes, InsertOrder, ApproveInvoiceCommit, Rollback
<1> QED
  BY <1>1, SourcingFootprints, SettlingFootprints DEF Next

\* Begins lets nobody open a second transaction unless commits may race.
LEMMA SoloStep ==
  ASSUME Sound, Solo, Next PROVE Solo'
<1> SUFFICES ASSUME ~May("race"), NEW s \in Sessions, NEW t \in Sessions, tx'[s] # Idle, tx'[t] # Idle
             PROVE  s = t
  BY WorldKept DEF Solo, May
<1>0. tx \in [Sessions -> Transactions]
  BY DEF Sound, TypeOK
<1>1. CASE tx' = tx
  BY <1>1 DEF Solo
<1>2. CASE awardRfq \/ postPurchaseOrder \/ approveInvoice
  <2>1. \A u \in Sessions : tx[u] = Idle
    BY <1>2 DEF awardRfq, postPurchaseOrder, approveInvoice, Begins, Undisturbed
  <2>2. PICK u \in Sessions : \E x : tx' = [tx EXCEPT ![u] = x]
    BY <1>2, TxEffect
  <2>3. PICK x : tx' = [tx EXCEPT ![u] = x] BY <2>2
  <2> QED
    BY <1>0, <2>1, <2>3
<1>3. CASE \E u \in Sessions : tx' = [tx EXCEPT ![u] = Idle]
  BY <1>0, <1>3 DEF Solo
<1> QED
  BY <1>1, <1>2, <1>3, TxSteps

\* Orders keep what the properties look at, and suppliers their counts.
SameOrders ==
    /\ \A p \in PoIds :
         /\ pos'[p].row = pos[p].row /\ pos'[p].vendor = pos[p].vendor
         /\ pos'[p].status = pos[p].status /\ pos'[p].total = pos[p].total
         /\ pos'[p].approved = pos[p].approved /\ pos'[p].from = pos[p].from
    /\ \A v \in VendorIds : vendors'[v].openPos = vendors[v].openPos

\* The writes of an order, with the guards of its handlers.
LEMMA OrderSteps ==
  ASSUME Sound, Next
  PROVE  \/ SameOrders
         \/ /\ patchPurchaseOrder
            /\ \E p \in Live(pos) :
                 \/ \E v \in VendorIds : MoveOrder(p, v)
                 \/ \E st \in {"approved", "issued", "pending", "void"}, c \in BOOLEAN :
                       /\ st = "issued" => pos[p].status = "cleared" \/ May("issue")
                       /\ UpdateOrderStatus(p, st, c)
                 \/ \E n \in Nat : (~Used(p) \/ May("editOrder")) /\ RepriceOrder(p, n)
         \/ /\ deletePurchaseOrder
            /\ \E p \in Live(pos) : (~Used(p) \/ May("editOrder")) /\ DeletePurchaseOrder(p)
         \/ Finishes /\ \E s \in Sessions, p \in Free(pos) : InsertOrder(s, p)
<1>0. TypeOK /\ vendors \in [VendorIds -> Vendors]
  BY DEF Sound, TypeOK
<1>1. CASE patchVendorQualityStatus
  <2>1. PICK v \in Known(VendorIds), b \in BOOLEAN : SetVendorQualityStatus(v, b)
    BY <1>1 DEF patchVendorQualityStatus
  <2>2. v \in VendorIds /\ pos' = pos
    BY <1>0, <1>1, WorldTypes, SourcingFootprints DEF TypeOK
  <2> QED
    BY <1>0, <2>1, <2>2, VendorRows DEF SetVendorQualityStatus, SameOrders
<1>2. CASE patchPurchaseOrder
  <2>1. Known(VendorIds) \subseteq VendorIds /\ world.amounts \subseteq Nat
    BY <1>0, WorldTypes DEF TypeOK
  <2> QED
    BY <1>2, <2>1 DEF patchPurchaseOrder
<1>3. CASE deletePurchaseOrder
  BY <1>3 DEF deletePurchaseOrder
<1>4. CASE Finishes
  BY <1>4 DEF Finishes, ApproveInvoiceCommit, Rollback, tables, SameOrders
<1>5. CASE handlePaymentMade
  <2>1. vendors' = vendors
    BY <1>5, SettlingFootprints
  <2>2. \A p \in PoIds :
         /\ pos'[p].row = pos[p].row /\ pos'[p].vendor = pos[p].vendor
         /\ pos'[p].status = pos[p].status /\ pos'[p].total = pos[p].total
         /\ pos'[p].approved = pos[p].approved /\ pos'[p].from = pos[p].from
    BY <1>0, <1>5, PaymentEffect
  <2> QED
    BY <2>1, <2>2 DEF SameOrders
<1>6. CASE pos' = pos /\ vendors' = vendors
  BY <1>6 DEF SameOrders
<1> QED
  BY <1>1, <1>2, <1>3, <1>4, <1>5, <1>6, SourcingFootprints, SettlingFootprints DEF Next

-----------------------------------------------------------------------------
(* Receipts under inspection, cleared orders, paid invoices *)

\* Every write of a receipt passes grnQCGate.
LEMMA ReleasedStep ==
  ASSUME Sound, PostedWasReleased, [Next]_vars PROVE PostedWasReleased'
<1>0. TypeOK /\ grns \in [GrnIds -> Grns] /\ grns' \in [GrnIds -> Grns]
  BY SoundStep DEF Sound, TypeOK
<1>1. Live(grns) = {g \in GrnIds : grns[g].row = "live"} /\ Live(grns)' = {g \in GrnIds : grns'[g].row = "live"}
  BY LiveRows
<1>2. CASE grns' = grns
  BY <1>2 DEF PostedWasReleased
<1>3. CASE postGrn \/ patchGrn \/ deleteGrn
  <2>1. PICK g \in GrnIds : /\ OtherGrns(g)
                            /\ ~(grns'[g].row = "live" /\ grns'[g].status = "posted" /\ grns'[g].qc = "held")
    BY <1>0, <1>3, GrnEffect, RowIds
  <2> QED
    BY <1>1, <2>1 DEF OtherGrns, PostedWasReleased
<1> QED
  BY <1>2, <1>3, SourcingFootprints, SettlingFootprints DEF Next, vars, tables

\* No receipt under inspection is posted, whichever of its fields changed last:
\* grnQCGate stands before every write of a receipt.
THEOREM NothingHeldIsPosted == Spec => []PostedWasReleased
<1>1. Init => PostedWasReleased
  BY EmptyStates DEF Init, PostedWasReleased, Live
<1> QED
  BY <1>1, ReleasedStep, SoundInvariant, PTL DEF Spec

\* An order is cleared by its approval or below the threshold, and keeps approval
\* and total together.
LEMMA ApprovedStep ==
  ASSUME Sound, ClearedWasApproved, [Next]_vars PROVE ClearedWasApproved'
<1>0. TypeOK /\ pos \in [PoIds -> Pos] /\ pos' \in [PoIds -> Pos]
  BY SoundStep DEF Sound, TypeOK
<1>1. Live(pos) = {p \in PoIds : pos[p].row = "live"} /\ Live(pos)' = {p \in PoIds : pos'[p].row = "live"}
  BY LiveRows
<1>2. CASE UNCHANGED vars
  BY <1>2 DEF vars, tables, ClearedWasApproved, Excused
<1>3. CASE Next
  <2>0. world' = world
    BY <1>3, WorldKept
  <2>1. CASE Excused({"issue", "editOrder"})
    BY <2>0, <2>1 DEF ClearedWasApproved, Excused
  <2>2. CASE ~Excused({"issue", "editOrder"})
    <3>0. ~May("issue") /\ ~May("editOrder")
      BY <2>2 DEF Excused, May
    <3> DEFINE Ok(x) == x.row = "live" /\ x.status = "cleared" => x.approved \/ x.total < Threshold
    <3>1. \A p \in PoIds : Ok(pos[p])
      BY <1>1, <2>2 DEF ClearedWasApproved
    <3> SUFFICES \A p \in PoIds : Ok(pos'[p])
      BY <1>1 DEF ClearedWasApproved
    <3>2. CASE SameOrders
      BY <3>1, <3>2 DEF SameOrders
    <3>3. CASE \E p \in Live(pos), v \in VendorIds : MoveOrder(p, v)
      <4>1. PICK p \in Live(pos), v \in VendorIds : MoveOrder(p, v)
        BY <3>3
      <4>2. Ok(pos'[p]) /\ OtherOrders(p)
        BY <1>0, <1>1, <3>1, <4>1, MoveEffect
      <4> QED
        BY <3>1, <4>2 DEF OtherOrders
    <3>4. CASE \E p \in Live(pos), st \in {"approved", "issued", "pending", "void"}, c \in BOOLEAN :
                  /\ st = "issued" => pos[p].status = "cleared" \/ May("issue")
                  /\ UpdateOrderStatus(p, st, c)
      <4>1. PICK p \in Live(pos), st \in {"approved", "issued", "pending", "void"}, c \in BOOLEAN :
                  /\ st = "issued" => pos[p].status = "cleared" \/ May("issue")
                  /\ UpdateOrderStatus(p, st, c)
        BY <3>4
      <4>2. /\ OtherOrders(p)
            /\ pos'[p].row = "live"
            /\ pos'[p].status = (IF st = "approved" \/ st = "issued" THEN "cleared" ELSE st)
            /\ pos'[p].total = pos[p].total
            /\ pos'[p].approved = (st = "approved" \/ (st = "issued" /\ pos[p].approved))
        BY <1>0, <4>1, StatusEffect
      <4>3. p \in PoIds /\ pos[p].row = "live" /\ Ok(pos[p])
        BY <1>1, <3>1
      <4>4. Ok(pos'[p])
        BY <3>0, <4>1, <4>2, <4>3
      <4> QED
        BY <3>1, <4>2, <4>4 DEF OtherOrders
    <3>5. CASE \E p \in Live(pos), n \in Nat : ~Used(p) /\ RepriceOrder(p, n)
      <4>1. PICK p \in Live(pos), n \in Nat : ~Used(p) /\ RepriceOrder(p, n)
        BY <3>5
      <4>2. OtherOrders(p) /\ pos'[p].status = pos[p].status /\ pos[p].status # "cleared"
        BY <1>0, <4>1, RepriceEffect DEF Used
      <4> QED
        BY <3>1, <4>2 DEF OtherOrders
    <3>6. CASE \E p \in Live(pos) : DeletePurchaseOrder(p)
      <4>1. PICK p \in Live(pos) : OtherOrders(p) /\ pos'[p].row = "gone"
        BY <1>0, <3>6, DeleteEffect
      <4> QED
        BY <3>1, <4>1 DEF OtherOrders
    <3>7. CASE \E s \in Sessions, p \in Free(pos) : InsertOrder(s, p)
      <4>1. PICK s \in Sessions, p \in Free(pos) : InsertOrder(s, p)
        BY <3>7
      <4>2. /\ OtherOrders(p) /\ pos'[p].status = poInitialStatus(tx[s].total)
            /\ pos'[p].total = tx[s].total
        BY <1>0, <4>1, InsertEffect
      <4> QED
        BY <3>1, <4>2 DEF OtherOrders, poInitialStatus
    <3> QED
      BY <1>3, <3>0, <3>2, <3>3, <3>4, <3>5, <3>6, <3>7, OrderSteps
  <2> QED
    BY <2>1, <2>2
<1> QED
  BY <1>2, <1>3

\* An order that goods may be received on was approved at its total by somebody
\* other than its creator, or is below the threshold.
THEOREM ClearedOrdersWereApproved == Spec => []ClearedWasApproved
<1>1. Init => ClearedWasApproved
  BY EmptyStates DEF Init, ClearedWasApproved, Live
<1> QED
  BY <1>1, ApprovedStep, SoundInvariant, PTL DEF Spec

\* Only the payment consumer writes "paid", and it writes the payment too.
LEMMA PaidStep ==
  ASSUME Sound, Next, NEW i \in InvIds, invoices[i].status # "paid", invoices'[i].status = "paid"
  PROVE  \E x \in PayRefs : payments[x] = None /\ payments'[x] = i
<1>0. TypeOK /\ payments \in [PayRefs -> InvIds \cup {None}]
  BY DEF Sound, TypeOK
<1>1. CASE postInvoice
  BY <1>0, <1>1, PostEffect DEF OtherInvoices
<1>2. CASE patchInvoice
  BY <1>0, <1>2, PatchEffect DEF OtherInvoices
<1>3. CASE deleteInvoice
  BY <1>0, <1>3, RemoveEffect DEF OtherInvoices
<1>4. CASE handlePaymentMade
  <2>1. PICK x \in PayRefs :
           \/ UNCHANGED invoices
           \/ \E j \in InvIds :
                /\ payments[x] = None /\ payments' = [payments EXCEPT ![x] = j]
                /\ invoices' = [invoices EXCEPT ![j] = [invoices[j] EXCEPT !.status = "paid"]]
    BY <1>0, <1>4, PaymentEffect
  <2>2. PICK j \in InvIds :
                /\ payments[x] = None /\ payments' = [payments EXCEPT ![x] = j]
                /\ invoices' = [invoices EXCEPT ![j] = [invoices[j] EXCEPT !.status = "paid"]]
    BY <2>1
  <2>3. i = j
    BY <1>0, <2>2, PaidEffect DEF OtherInvoices
  <2> QED
    BY <1>0, <2>2, <2>3
<1>5. CASE Finishes
  <2>1. PICK s \in Sessions : (\E p \in Free(pos) : InsertOrder(s, p)) \/ ApproveInvoiceCommit(s) \/ Rollback(s)
    BY <1>5 DEF Finishes
  <2>2. CASE ApproveInvoiceCommit(s)
    BY <1>0, <2>2, ApproveEffect DEF OtherInvoices
  <2>3. CASE (\E p \in Free(pos) : InsertOrder(s, p)) \/ Rollback(s)
    BY <2>3 DEF InsertOrder, Rollback, tables
  <2> QED
    BY <2>1, <2>2, <2>3
<1> QED
  BY <1>1, <1>2, <1>3, <1>4, <1>5, SourcingFootprints, SettlingFootprints DEF Next

\* An invoice becomes paid only in a step that records a payment of it, so a
\* redelivered payment event with a reference does not close an invoice re-opened
\* since, and one without is recorded as one more payment.
THEOREM PaidOnlyByPayment == Spec => PaidByPayment
<1>1. Sound /\ [Next]_vars =>
        [\A i \in InvIds :
            invoices[i].status # "paid" /\ invoices'[i].status = "paid"
               => \E x \in PayRefs : payments[x] = None /\ payments'[x] = i]_vars
  BY PaidStep
<1> QED
  BY <1>1, SoundInvariant, PTL DEF Spec, PaidByPayment

-----------------------------------------------------------------------------
(* Suspended suppliers *)

\* A transaction about to write an order is for a supplier in good standing.
InStanding == \A s \in Sessions : tx[s].op = "order" => ~vendors[tx[s].vendor].suspended

Standing == Excused({"race", "awardSuspended"}) \/ InStanding

\* Between the check of a supplier's standing and the insert nobody suspends it.
LEMMA StandingStep ==
  ASSUME Sound, Solo, Standing, Next PROVE Standing'
<1>0. /\ world' = world /\ TypeOK /\ tx \in [Sessions -> Transactions]
      /\ vendors \in [VendorIds -> Vendors]
  BY WorldKept DEF Sound, TypeOK
<1>1. CASE Excused({"race", "awardSuspended"})
  BY <1>0, <1>1 DEF Standing, Excused
<1>2. CASE ~Excused({"race", "awardSuspended"})
  <2>0. ~May("race") /\ ~May("awardSuspended") /\ InStanding
    BY <1>2 DEF Excused, May, Standing
  <2> SUFFICES InStanding'
    BY DEF Standing
  <2>1. CASE (\A s \in Sessions : tx[s] = Idle) /\ tx' = tx
    BY <2>1 DEF InStanding, Idle
  <2>2. CASE awardRfq
    <3>0. PICK u \in Sessions, r \in Live(rfqs), q \in Live(quotes) :
             /\ ~vendors[quotes[q].vendor].suspended
             /\ quotes[q].vendor \in VendorIds /\ quotes[q].amount \in Nat
             /\ tx' = [tx EXCEPT ![u] = [op |-> "order", rfq |-> r, vendor |-> quotes[q].vendor,
                                         total |-> quotes[q].amount]]
      BY <2>0, <2>2, TxEffect
    <3>1. PICK v \in VendorIds, n \in Nat :
             /\ ~vendors[v].suspended
             /\ tx' = [tx EXCEPT ![u] = [op |-> "order", rfq |-> r, vendor |-> v, total |-> n]]
      BY <3>0
    <3>2. vendors' = vendors
      BY <2>2, SourcingFootprints
    <3>3. \A s \in Sessions : \/ tx'[s] = tx[s]
                              \/ tx'[s] = [op |-> "order", rfq |-> r, vendor |-> v, total |-> n]
      BY <1>0, <3>1
    <3> QED
      BY <2>0, <3>1, <3>2, <3>3 DEF InStanding
  <2>3. CASE postPurchaseOrder
    <3>1. PICK u \in Sessions, v \in VendorIds, n \in Nat :
             /\ ~vendors[v].suspended
             /\ tx' = [tx EXCEPT ![u] = [op |-> "order", rfq |-> None, vendor |-> v, total |-> n]]
      BY <2>3, TxEffect
    <3>2. vendors' = vendors
      BY <2>3, SourcingFootprints
    <3>3. \A s \in Sessions : \/ tx'[s] = tx[s]
                              \/ tx'[s] = [op |-> "order", rfq |-> None, vendor |-> v, total |-> n]
      BY <1>0, <3>1
    <3> QED
      BY <2>0, <3>1, <3>2, <3>3 DEF InStanding
  <2>4. CASE approveInvoice
    <3>1. PICK u \in Sessions, i \in Live(invoices), g \in GrnIds :
             tx' = [tx EXCEPT ![u] = [op |-> "approve", inv |-> i, grn |-> g]]
      BY <2>4, TxEffect
    <3>2. vendors' = vendors
      BY <2>4, SourcingFootprints
    <3>3. \A s \in Sessions : tx'[s] = tx[s] \/ tx'[s] = [op |-> "approve", inv |-> i, grn |-> g]
      BY <1>0, <3>1
    <3> QED
      BY <2>0, <3>2, <3>3 DEF InStanding
  <2>5. CASE Finance
    BY <2>0, <2>5, SettlingFootprints DEF InStanding
  <2>6. CASE Finishes
    <3>1. PICK u \in Sessions : /\ (\E p \in Free(pos) : InsertOrder(u, p)) \/ ApproveInvoiceCommit(u) \/ Rollback(u)
                                /\ tx' = [tx EXCEPT ![u] = Idle]
      BY <2>6 DEF Finishes, InsertOrder, ApproveInvoiceCommit, Rollback
    <3>2. SameStanding
      <4>1. CASE \E p \in Free(pos) : InsertOrder(u, p)
        BY <4>1, InsertCount DEF Counted
      <4>2. CASE ApproveInvoiceCommit(u) \/ Rollback(u)
        BY <1>0, <4>2 DEF ApproveInvoiceCommit, Rollback, tables, SameStanding
      <4> QED
        BY <3>1, <4>1, <4>2
    <3>3. \A s \in Sessions : tx'[s] = tx[s] \/ tx'[s] = Idle
      BY <1>0, <3>1
    <3>4. \A s \in Sessions : tx[s].op = "order" => tx[s].vendor \in VendorIds
      BY <1>0, TxTypes
    <3> QED
      BY <2>0, <3>2, <3>3, <3>4 DEF InStanding, SameStanding, Idle
  <2> QED
    BY <2>0, <2>1, <2>2, <2>3, <2>4, <2>5, <2>6, Quiet, TxSteps
<1> QED
  BY <1>1, <1>2

\* The supplier of an order about to be written is in good standing.
LEMMA StandingInvariant == Spec => [](Solo /\ Standing)
<1>1. Init => Solo /\ Standing
  BY DEF Init, Solo, Standing, InStanding, Idle
<1>2. Sound /\ Solo /\ Standing /\ [Next]_vars => (Solo /\ Standing)'
  <2>1. CASE UNCHANGED vars
    BY <2>1 DEF vars, tables, Solo, Standing, InStanding, May, Excused
  <2> QED
    BY <2>1, SoloStep, StandingStep
<1> QED
  BY <1>1, <1>2, SoundInvariant, PTL DEF Spec

\* The insert and MoveOrder are the only ways to give a supplier an order.
LEMMA SuspensionStep ==
  ASSUME Sound, Standing, Next, ~Excused({"race", "awardSuspended"}),
         NEW v \in VendorIds, NEW p \in PoIds, GivenTo(p, v)
  PROVE  ~vendors[v].suspended
<1>0. TypeOK /\ pos \in [PoIds -> Pos] /\ InStanding
  BY DEF Sound, TypeOK, Standing
<1>1. CASE SameOrders
  BY <1>1 DEF SameOrders, GivenTo
<1>2. CASE \E q \in Live(pos), u \in VendorIds : MoveOrder(q, u)
  <2>1. PICK q \in Live(pos), u \in VendorIds : MoveOrder(q, u)
    BY <1>2
  <2>2. OtherOrders(q) /\ pos'[q].row = "live" /\ pos'[q].vendor = u /\ pos[q].row = "live"
    BY <1>0, <2>1, MoveEffect DEF Live
  <2>3. p = q /\ v = u /\ pos[q].vendor # u
    BY <2>2 DEF OtherOrders, GivenTo
  <2> QED
    BY <2>1, <2>3 DEF MoveOrder, supplierSuspended
<1>3. CASE \E q \in Live(pos), st \in {"approved", "issued", "pending", "void"}, c \in BOOLEAN :
              UpdateOrderStatus(q, st, c)
  <2>1. PICK q \in Live(pos) : OtherOrders(q) /\ pos'[q].row = "live" /\ pos'[q].vendor = pos[q].vendor
    BY <1>0, <1>3, StatusEffect
  <2> QED
    BY <2>1 DEF OtherOrders, GivenTo, Live
<1>4. CASE \E q \in Live(pos), n \in Nat : RepriceOrder(q, n)
  <2>1. PICK q \in Live(pos) : OtherOrders(q) /\ pos'[q].row = "live" /\ pos'[q].vendor = pos[q].vendor
    BY <1>0, <1>4, RepriceEffect
  <2> QED
    BY <2>1 DEF OtherOrders, GivenTo, Live
<1>5. CASE \E q \in Live(pos) : DeletePurchaseOrder(q)
  BY <1>0, <1>5, DeleteEffect DEF OtherOrders, GivenTo
<1>6. CASE \E s \in Sessions, q \in Free(pos) : InsertOrder(s, q)
  <2>1. PICK s \in Sessions, q \in Free(pos) : InsertOrder(s, q)
    BY <1>6
  <2>2. /\ OtherOrders(q) /\ pos'[q].vendor = tx[s].vendor /\ tx[s].op = "order"
    BY <1>0, <2>1, InsertEffect
  <2>3. p = q
    BY <2>2 DEF OtherOrders, GivenTo
  <2> QED
    BY <1>0, <2>2, <2>3 DEF GivenTo, InStanding
<1> QED
  BY <1>1, <1>2, <1>3, <1>4, <1>5, <1>6, OrderSteps

\* No order is created for, or moved to, a supplier procurement has suspended,
\* but for awards and for a suspension that commits between check and insert.
THEOREM SuspensionRespected == Spec => OrdersRespectSuspension
<1>1. Sound /\ Standing /\ [Next]_vars =>
        [\/ Excused({"race", "awardSuspended"})
         \/ \A v \in VendorIds, p \in PoIds : GivenTo(p, v) => ~vendors[v].suspended]_vars
  BY SuspensionStep
<1> QED
  BY <1>1, SoundInvariant, StandingInvariant, PTL DEF Spec, OrdersRespectSuspension

-----------------------------------------------------------------------------
(* One order for an award *)

\* The RFQ cannot be awarded any more.
Spent(r) == rfqs[r].row = "gone" \/ (rfqs[r].row = "live" /\ rfqs[r].status # "open")

\* The RFQ of an order is spent, two orders come from two RFQs, and an award
\* under way is of an RFQ that has no order yet.
Awarding ==
    /\ \A p \in PoIds : pos[p].row = "live" /\ pos[p].from \in RfqIds => Spent(pos[p].from)
    /\ \A p, q \in PoIds : /\ pos[p].row = "live" /\ pos[q].row = "live"
                           /\ pos[p].from = pos[q].from /\ pos[p].from \in RfqIds
                           => p = q
    /\ \A s \in Sessions : tx[s].op = "order" /\ tx[s].rfq \in RfqIds =>
          /\ rfqs[tx[s].rfq].row # "free"
          /\ \A p \in PoIds : pos[p].row = "live" => pos[p].from # tx[s].rfq

AwardedOnce == Excused({"race", "reopenRfq"}) \/ Awarding

\* Nothing but a re-opening makes an RFQ awardable again.
LEMMA SpentStays ==
  ASSUME Sound, Next, ~May("reopenRfq"), NEW r \in RfqIds
  PROVE  /\ Spent(r) => Spent(r)'
         /\ rfqs[r].row # "free" => rfqs'[r].row # "free"
<1>0. TypeOK /\ rfqs \in [RfqIds -> Rfqs]
  BY DEF Sound, TypeOK
<1>1. CASE postRfq
  <2>1. PICK q \in Free(rfqs) : OtherRfqs(q) /\ rfqs[q].row = "free" /\ rfqs'[q].row = "live"
    BY <1>0, <1>1, RfqRowEffect DEF Free
  <2> QED
    BY <2>1 DEF OtherRfqs, Spent
<1>2. CASE deleteRfq
  <2>1. PICK q \in Live(rfqs) : OtherRfqs(q) /\ rfqs'[q].row = "gone"
    BY <1>0, <1>2, RfqRowEffect
  <2> QED
    BY <2>1 DEF OtherRfqs, Spent
<1>3. CASE patchRfq
  <2>1. PICK q \in Live(rfqs) : rfqs[q].status = "open" /\ OtherRfqs(q) /\ rfqs'[q].row = "live"
    BY <1>0, <1>3, PatchRfqEffect
  <2> QED
    BY <2>1 DEF OtherRfqs, Spent, Live
<1>4. CASE Finishes
  <2>1. PICK s \in Sessions : (\E p \in Free(pos) : InsertOrder(s, p)) \/ ApproveInvoiceCommit(s) \/ Rollback(s)
    BY <1>4 DEF Finishes
  <2>2. CASE \E p \in Free(pos) : InsertOrder(s, p)
    <3>1. PICK q : /\ q = tx[s].rfq /\ OtherRfqs(q)
                   /\ q \in RfqIds => /\ rfqs'[q].row = rfqs[q].row
                                      /\ rfqs[q].row = "live" => rfqs'[q].status = "awarded"
      BY <1>0, <2>2, AwardEffect
    <3> QED
      BY <3>1 DEF OtherRfqs, Spent
  <2>3. CASE ApproveInvoiceCommit(s) \/ Rollback(s)
    BY <2>3 DEF ApproveInvoiceCommit, Rollback, tables, Spent
  <2> QED
    BY <2>1, <2>2, <2>3
<1>5. CASE rfqs' = rfqs
  BY <1>5 DEF Spent
<1> QED
  BY <1>1, <1>2, <1>3, <1>4, <1>5, SourcingFootprints, SettlingFootprints DEF Next

\* But for the insert, no step makes an order or changes where one comes from.
LEMMA FromKept ==
  ASSUME Sound, Next
  PROVE  \/ \A p \in PoIds : pos'[p].row = "live" => pos[p].row = "live" /\ pos'[p].from = pos[p].from
         \/ Finishes /\ \E s \in Sessions, p \in Free(pos) : InsertOrder(s, p)
<1>0. TypeOK
  BY DEF Sound
<1>1. CASE SameOrders
  BY <1>1 DEF SameOrders
<1>2. CASE \E p \in Live(pos), v \in VendorIds : MoveOrder(p, v)
  BY <1>0, <1>2, MoveEffect DEF OtherOrders, Live
<1>3. CASE \E p \in Live(pos), st \in {"approved", "issued", "pending", "void"}, c \in BOOLEAN :
              UpdateOrderStatus(p, st, c)
  BY <1>0, <1>3, StatusEffect DEF OtherOrders, Live
<1>4. CASE \E p \in Live(pos), n \in Nat : RepriceOrder(p, n)
  BY <1>0, <1>4, RepriceEffect DEF OtherOrders, Live
<1>5. CASE \E p \in Live(pos) : DeletePurchaseOrder(p)
  BY <1>0, <1>5, DeleteEffect DEF OtherOrders
<1> QED
  BY <1>1, <1>2, <1>3, <1>4, <1>5, OrderSteps

\* The insert spends the RFQ it was awarded from, and nobody else inserts meanwhile.
LEMMA AwardedStep ==
  ASSUME Sound, Solo, AwardedOnce, Next PROVE AwardedOnce'
<1>0. /\ world' = world /\ TypeOK /\ tx \in [Sessions -> Transactions] /\ rfqs \in [RfqIds -> Rfqs]
      /\ None \notin RfqIds
  BY WorldKept, P2PAssumption DEF Sound, TypeOK, AllIds
<1>1. CASE Excused({"race", "reopenRfq"})
  BY <1>0, <1>1 DEF AwardedOnce, Excused
<1>2. CASE ~Excused({"race", "reopenRfq"})
  <2>0. ~May("race") /\ ~May("reopenRfq") /\ Awarding
    BY <1>2 DEF Excused, May, AwardedOnce
  <2>1. \A r \in RfqIds : /\ Spent(r) => Spent(r)'
                          /\ rfqs[r].row # "free" => rfqs'[r].row # "free"
    BY <2>0, SpentStays
  <2> SUFFICES Awarding'
    BY DEF AwardedOnce
  <2>2. CASE \A p \in PoIds : pos'[p].row = "live" => pos[p].row = "live" /\ pos'[p].from = pos[p].from
    <3>1. ASSUME NEW p \in PoIds, pos'[p].row = "live", pos'[p].from \in RfqIds
          PROVE  rfqs'[pos'[p].from].row = "gone"
                   \/ (rfqs'[pos'[p].from].row = "live" /\ rfqs'[pos'[p].from].status # "open")
      <4>1. PICK r \in RfqIds : r = pos'[p].from
        BY <3>1
      <4>2. Spent(r)
        BY <2>0, <2>2, <3>1, <4>1 DEF Awarding
      <4>3. Spent(r)'
        BY <2>1, <4>2
      <4> QED
        BY <4>1, <4>3 DEF Spent
    <3>2. \A p, q \in PoIds : /\ pos'[p].row = "live" /\ pos'[q].row = "live"
                              /\ pos'[p].from = pos'[q].from /\ pos'[p].from \in RfqIds
                              => p = q
      BY <2>0, <2>2 DEF Awarding
    <3>3. ASSUME NEW s \in Sessions, tx'[s].op = "order", tx'[s].rfq \in RfqIds
          PROVE  /\ rfqs'[tx'[s].rfq].row # "free"
                 /\ \A p \in PoIds : pos'[p].row = "live" => pos'[p].from # tx'[s].rfq
      <4>1. PICK r \in RfqIds : r = tx'[s].rfq
        BY <3>3
      <4>2. rfqs[r].row # "free" /\ \A p \in PoIds : pos[p].row = "live" => pos[p].from # r
        <5>1. CASE tx'[s] = tx[s]
          BY <2>0, <3>3, <4>1, <5>1 DEF Awarding
        <5>2. CASE awardRfq
          <6>1. PICK u \in Sessions, q \in Live(rfqs), v \in VendorIds, n \in Nat :
                   /\ rfqs[q].status = "open"
                   /\ tx' = [tx EXCEPT ![u] = [op |-> "order", rfq |-> q, vendor |-> v, total |-> n]]
            BY <5>2, TxEffect
          <6>2. tx'[s] = tx[s] \/ tx'[s] = [op |-> "order", rfq |-> q, vendor |-> v, total |-> n]
            BY <1>0, <6>1
          <6>3. q \in RfqIds /\ rfqs[q].row = "live" /\ ~Spent(q)
            BY <1>0, <6>1, RowIds DEF Live, Spent
          <6>4. \A p \in PoIds : pos[p].row = "live" => pos[p].from # q
            BY <2>0, <6>3 DEF Awarding
          <6> QED
            BY <4>1, <5>1, <6>2, <6>3, <6>4
        <5>3. CASE postPurchaseOrder
          <6>1. PICK u \in Sessions, v \in VendorIds, n \in Nat :
                   tx' = [tx EXCEPT ![u] = [op |-> "order", rfq |-> None, vendor |-> v, total |-> n]]
            BY <5>3, TxEffect
          <6>2. tx'[s] = tx[s] \/ tx'[s] = [op |-> "order", rfq |-> None, vendor |-> v, total |-> n]
            BY <1>0, <6>1
          <6> QED
            BY <1>0, <4>1, <5>1, <6>2
        <5>4. CASE approveInvoice
          <6>1. PICK u \in Sessions, i \in Live(invoices), g \in GrnIds :
                   tx' = [tx EXCEPT ![u] = [op |-> "approve", inv |-> i, grn |-> g]]
            BY <5>4, TxEffect
          <6>2. tx'[s] = tx[s] \/ tx'[s] = [op |-> "approve", inv |-> i, grn |-> g]
            BY <1>0, <6>1
          <6> QED
            BY <3>3, <5>1, <6>2
        <5>5. CASE \E u \in Sessions : tx' = [tx EXCEPT ![u] = Idle]
          <6>1. tx'[s] = tx[s] \/ tx'[s] = Idle
            BY <1>0, <5>5
          <6> QED
            BY <3>3, <5>1, <6>1 DEF Idle
        <5> QED
          BY <5>1, <5>2, <5>3, <5>4, <5>5, TxSteps
      <4> QED
        BY <2>1, <2>2, <4>1, <4>2
    <3> QED
      BY <3>1, <3>2, <3>3 DEF Awarding, Spent
  <2>3. CASE \E s \in Sessions, p \in Free(pos) : InsertOrder(s, p)
    <3>1. PICK s \in Sessions, k \in Free(pos) : InsertOrder(s, k)
      BY <2>3
    <3>2. PICK r : r = tx[s].rfq
      OBVIOUS
    <3>3. /\ tx[s].op = "order" /\ OtherOrders(k) /\ k \in PoIds
          /\ pos'[k].from = r
      BY <1>0, <3>1, <3>2, InsertEffect
    <3>4. r \in RfqIds => /\ rfqs[r].row # "free"
                          /\ \A p \in PoIds : pos[p].row = "live" => pos[p].from # r
      BY <2>0, <3>2, <3>3 DEF Awarding
    <3>5. r \in RfqIds => Spent(r)'
      <4>1. r \in RfqIds => /\ rfqs'[r].row = rfqs[r].row
                            /\ rfqs[r].row = "live" => rfqs'[r].status = "awarded"
        BY <1>0, <3>1, <3>2, AwardEffect
      <4>2. r \in RfqIds => rfqs[r].row \in {"free", "live", "gone"}
        BY <1>0 DEF Rfqs, RowStates
      <4> QED
        BY <3>4, <4>1, <4>2 DEF Spent
    <3>6. ASSUME NEW p \in PoIds, pos'[p].row = "live", pos'[p].from \in RfqIds
          PROVE  rfqs'[pos'[p].from].row = "gone"
                   \/ (rfqs'[pos'[p].from].row = "live" /\ rfqs'[pos'[p].from].status # "open")
      <4>1. PICK q \in RfqIds : q = pos'[p].from
        BY <3>6
      <4>2. CASE p = k
        BY <3>3, <3>5, <4>1, <4>2 DEF Spent
      <4>3. CASE p # k
        <5>1. Spent(q)
          BY <2>0, <3>3, <3>6, <4>1, <4>3 DEF Awarding, OtherOrders
        <5>2. Spent(q)'
          BY <2>1, <5>1
        <5> QED
          BY <4>1, <5>2 DEF Spent
      <4> QED
        BY <4>2, <4>3
    <3>7. \A p, q \in PoIds : /\ pos'[p].row = "live" /\ pos'[q].row = "live"
                              /\ pos'[p].from = pos'[q].from /\ pos'[p].from \in RfqIds
                              => p = q
      BY <2>0, <3>3, <3>4 DEF Awarding, OtherOrders
    <3>8. \A u \in Sessions : tx'[u].op # "order"
      <4>1. tx' = [tx EXCEPT ![s] = Idle]
        BY <3>1 DEF InsertOrder
      <4>2. \A u \in Sessions : tx[u] # Idle => u = s
        BY <2>0, <3>3 DEF Solo, Idle
      <4>3. \A u \in Sessions : tx'[u] = Idle
        BY <1>0, <4>1, <4>2
      <4> QED
        BY <4>3 DEF Idle
    <3> QED
      BY <3>6, <3>7, <3>8 DEF Awarding, Spent
  <2> QED
    BY <2>2, <2>3, FromKept
<1> QED
  BY <1>1, <1>2

\* An RFQ with an order is spent.
LEMMA AwardedInvariant == Spec => [](Solo /\ AwardedOnce)
<1>1. Init => Solo /\ AwardedOnce
  BY EmptyStates DEF Init, Solo, AwardedOnce, Awarding, Idle
<1>2. Sound /\ Solo /\ AwardedOnce /\ [Next]_vars => (Solo /\ AwardedOnce)'
  <2>1. CASE UNCHANGED vars
    BY <2>1 DEF vars, tables, Solo, AwardedOnce, Awarding, Spent, May, Excused
  <2> QED
    BY <2>1, SoloStep, AwardedStep
<1> QED
  BY <1>1, <1>2, SoundInvariant, PTL DEF Spec

\* One RFQ raises one order: in AwardRfq the order and the RFQ's status are
\* written together, and without a race the status is still the one checked.
THEOREM AwardRaisesOneOrder == Spec => []OneOrderPerAward
<1>1. Sound /\ AwardedOnce => OneOrderPerAward
  <2> SUFFICES ASSUME Sound, Awarding, NEW r \in RfqIds
               PROVE  Cardinality({p \in Live(pos) : pos[p].from = r}) <= 1
    BY DEF AwardedOnce, OneOrderPerAward
  <2> DEFINE S == {p \in Live(pos) : pos[p].from = r}
  <2>1. \A p, q \in S : p = q
    BY RowIds DEF Sound, Awarding, Live
  <2> HIDE DEF S
  <2>2. CASE S = {}
    BY <2>2, FS_EmptySet DEF S
  <2>3. CASE S # {}
    <3>1. PICK p : S = {p}
      BY <2>1, <2>3
    <3>2. Cardinality(S) = 1
      BY <3>1, FS_Singleton
    <3> QED
      BY <3>2 DEF S
  <2> QED
    BY <2>2, <2>3
<1> QED
  BY <1>1, SoundInvariant, AwardedInvariant, PTL

-----------------------------------------------------------------------------
(* The suppliers' counts *)

OrdersOf(v) == {p \in Live(pos) : pos[p].vendor = v}

\* A supplier has finitely many orders, and as many as its count says.
Tallied == \A v \in VendorIds : IsFiniteSet(OrdersOf(v)) /\ vendors[v].openPos = Cardinality(OrdersOf(v))

\* A finite set with one element more or less.
LEMMA Tally ==
  ASSUME NEW S, IsFiniteSet(S), NEW x
  PROVE  /\ Cardinality(S) \in Nat
         /\ x \notin S => IsFiniteSet(S \cup {x}) /\ Cardinality(S \cup {x}) = Cardinality(S) + 1
         /\ x \in S => IsFiniteSet(S \ {x}) /\ Cardinality(S \ {x}) = Floor0(Cardinality(S) - 1)
<1>1. Cardinality(S) \in Nat
  BY FS_CardinalityType
<1>2. x \notin S => IsFiniteSet(S \cup {x}) /\ Cardinality(S \cup {x}) = Cardinality(S) + 1
  BY FS_AddElement
<1>3. ASSUME x \in S PROVE IsFiniteSet(S \ {x}) /\ Cardinality(S \ {x}) = Floor0(Cardinality(S) - 1)
  <2>1. IsFiniteSet(S \ {x}) /\ Cardinality(S \ {x}) = Cardinality(S) - 1
    BY <1>3, FS_RemoveElement
  <2>2. Cardinality(S \ {x}) \in Nat
    BY <2>1, FS_CardinalityType
  <2> QED
    BY <1>1, <2>1, <2>2 DEF Floor0
<1> QED
  BY <1>1, <1>2, <1>3

\* Every write of an order's row or supplier is written to the counts.
LEMMA TalliedStep ==
  ASSUME Sound, Tallied, [Next]_vars PROVE Tallied'
<1>0. TypeOK /\ pos \in [PoIds -> Pos]
  BY DEF Sound, TypeOK
<1>1. /\ \A v : OrdersOf(v) = {p \in PoIds : pos[p].row = "live" /\ pos[p].vendor = v}
      /\ \A v : OrdersOf(v)' = {p \in PoIds : pos'[p].row = "live" /\ pos'[p].vendor = v}
  BY LiveRows DEF OrdersOf
<1> SUFFICES ASSUME NEW v \in VendorIds
             PROVE  (IsFiniteSet(OrdersOf(v)) /\ vendors[v].openPos = Cardinality(OrdersOf(v)))'
  BY DEF Tallied
<1>2. IsFiniteSet(OrdersOf(v)) /\ vendors[v].openPos = Cardinality(OrdersOf(v))
  BY DEF Tallied
<1>3. CASE OrdersOf(v)' = OrdersOf(v) /\ vendors'[v].openPos = vendors[v].openPos
  BY <1>2, <1>3
<1>4. CASE \E p \in OrdersOf(v) : /\ OrdersOf(v)' = OrdersOf(v) \ {p}
                                  /\ vendors'[v].openPos = Floor0(vendors[v].openPos - 1)
  BY <1>2, <1>4, Tally
<1>5. CASE \E p : /\ p \notin OrdersOf(v) /\ OrdersOf(v)' = OrdersOf(v) \cup {p}
                  /\ vendors'[v].openPos = vendors[v].openPos + 1
  BY <1>2, <1>5, Tally
<1>6. CASE UNCHANGED vars
  <2>1. pos' = pos /\ vendors' = vendors
    BY <1>6 DEF vars, tables
  <2> QED
    BY <1>1, <1>3, <2>1
<1>7. CASE Next
  <2>1. CASE SameOrders
    BY <1>1, <1>3, <2>1 DEF SameOrders
  <2>2. CASE \E p \in Live(pos), u \in VendorIds : MoveOrder(p, u)
    <3>1. PICK p \in Live(pos), u \in VendorIds : MoveOrder(p, u)
      BY <2>2
    <3>2. /\ OtherOrders(p) /\ pos'[p].row = "live" /\ pos'[p].vendor = u
          /\ p \in PoIds /\ pos[p].row = "live"
      BY <1>0, <3>1, MoveEffect, RowIds DEF Live
    <3>3. CASE u = pos[p].vendor
      <4>1. vendors' = vendors
        BY <3>1, <3>3, MoveCount
      <4>2. OrdersOf(v)' = OrdersOf(v)
        BY <1>1, <3>2, <3>3 DEF OtherOrders
      <4> QED
        BY <1>3, <4>1, <4>2
    <3>4. CASE u # pos[p].vendor
      <4>1. /\ vendors'[u].openPos = vendors[u].openPos + 1
            /\ vendors'[pos[p].vendor].openPos = Floor0(vendors[pos[p].vendor].openPos - 1)
            /\ \A w \in VendorIds \ {u, pos[p].vendor} : vendors'[w].openPos = vendors[w].openPos
        BY <3>1, <3>4, MoveCount
      <4>2. CASE v = u
        <5>1. p \notin OrdersOf(v) /\ OrdersOf(v)' = OrdersOf(v) \cup {p}
          BY <1>1, <3>2, <3>4, <4>2 DEF OtherOrders
        <5> QED
          BY <1>5, <4>1, <4>2, <5>1
      <4>3. CASE v = pos[p].vendor
        <5>1. p \in OrdersOf(v) /\ OrdersOf(v)' = OrdersOf(v) \ {p}
          BY <1>1, <3>2, <3>4, <4>3 DEF OtherOrders
        <5> QED
          BY <1>4, <4>1, <4>3, <5>1
      <4>4. CASE v # u /\ v # pos[p].vendor
        <5>1. OrdersOf(v)' = OrdersOf(v)
          BY <1>1, <3>2, <4>4 DEF OtherOrders
        <5> QED
          BY <1>3, <4>1, <4>4, <5>1
      <4> QED
        BY <4>2, <4>3, <4>4
    <3> QED
      BY <3>3, <3>4
  <2>3. CASE /\ vendors' = vendors
             /\ \E p \in Live(pos) : /\ OtherOrders(p) /\ pos'[p].row = "live"
                                     /\ pos'[p].vendor = pos[p].vendor
    <3>1. OrdersOf(v)' = OrdersOf(v)
      BY <1>1, <2>3 DEF OtherOrders, Live
    <3> QED
      BY <1>3, <2>3, <3>1
  <2>4. CASE \E p \in Live(pos), st \in {"approved", "issued", "pending", "void"}, c \in BOOLEAN :
                UpdateOrderStatus(p, st, c)
    BY <1>0, <2>3, <2>4, StatusEffect DEF UpdateOrderStatus
  <2>5. CASE \E p \in Live(pos), n \in Nat : RepriceOrder(p, n)
    BY <1>0, <2>3, <2>5, RepriceEffect DEF RepriceOrder
  <2>6. CASE \E p \in Live(pos) : DeletePurchaseOrder(p)
    <3>1. PICK p \in Live(pos) : DeletePurchaseOrder(p)
      BY <2>6
    <3>2. OtherOrders(p) /\ pos'[p].row = "gone" /\ p \in PoIds /\ pos[p].row = "live"
      BY <1>0, <3>1, DeleteEffect, RowIds DEF Live
    <3>3. PICK w \in VendorIds : w = pos[p].vendor /\ Counted(w, Floor0(vendors[w].openPos - 1))
      BY <3>1, DeleteCount
    <3>4. CASE v = w
      <4>1. p \in OrdersOf(v) /\ OrdersOf(v)' = OrdersOf(v) \ {p}
        BY <1>1, <3>2, <3>3, <3>4 DEF OtherOrders
      <4> QED
        BY <1>4, <3>3, <3>4, <4>1 DEF Counted
    <3>5. CASE v # w
      <4>1. OrdersOf(v)' = OrdersOf(v)
        BY <1>1, <3>2, <3>3, <3>5 DEF OtherOrders
      <4> QED
        BY <1>3, <3>3, <3>5, <4>1 DEF Counted
    <3> QED
      BY <3>4, <3>5
  <2>7. CASE \E s \in Sessions, p \in Free(pos) : InsertOrder(s, p)
    <3>1. PICK s \in Sessions, p \in Free(pos) : InsertOrder(s, p)
      BY <2>7
    <3>2. PICK w \in VendorIds : /\ w = tx[s].vendor /\ p \in PoIds /\ pos[p].row = "free"
                                 /\ OtherOrders(p) /\ pos'[p].row = "live" /\ pos'[p].vendor = w
      BY <1>0, <3>1, InsertEffect
    <3>3. Counted(w, vendors[w].openPos + 1)
      BY <3>1, <3>2, InsertCount
    <3>4. CASE v = w
      <4>1. p \notin OrdersOf(v) /\ OrdersOf(v)' = OrdersOf(v) \cup {p}
        BY <1>1, <3>2, <3>4 DEF OtherOrders
      <4> QED
        BY <1>5, <3>3, <3>4, <4>1 DEF Counted
    <3>5. CASE v # w
      <4>1. OrdersOf(v)' = OrdersOf(v)
        BY <1>1, <3>2, <3>5 DEF OtherOrders
      <4> QED
        BY <1>3, <3>3, <3>5, <4>1 DEF Counted
    <3> QED
      BY <3>4, <3>5
  <2> QED
    BY <1>7, <2>1, <2>2, <2>4, <2>5, <2>6, <2>7, OrderSteps
<1> QED
  BY <1>6, <1>7

\* vendors.open_pos, which four transactions keep by hand, is the number of the
\* supplier's orders: no GREATEST(..., 0) ever hides a count gone wrong.
THEOREM OpenPosIsCounted == Spec => []OpenPosCountsOrders
<1>1. Init => Tallied
  <2> SUFFICES ASSUME Init, NEW v \in VendorIds
               PROVE  IsFiniteSet(OrdersOf(v)) /\ vendors[v].openPos = Cardinality(OrdersOf(v))
    BY DEF Tallied
  <2>1. OrdersOf(v) = {}
    BY EmptyStates DEF Init, OrdersOf, Live
  <2>2. vendors[v].openPos = 0
    BY DEF Init
  <2> QED
    BY <2>1, <2>2, FS_EmptySet
<1>2. Tallied => OpenPosCountsOrders
  BY DEF Tallied, OpenPosCountsOrders, OrdersOf
<1> QED
  BY <1>1, <1>2, TalliedStep, SoundInvariant, PTL DEF Spec

-----------------------------------------------------------------------------
(* Matched invoices *)

\* Receipt g is a posted receipt of order p.
Supports(g, p) == grns[g].row = "live" /\ grns[g].po = p /\ grns[g].status = "posted"

\* Order p is there and its total is n.
Priced(p, n) == p \in PoIds /\ pos[p].row = "live" /\ pos[p].total = n

NoLooseReceipt == \A g \in GrnIds : grns[g].row = "live" => grns[g].status # "received"

\* The receipt an invoice names, whatever the invoice's status, supports it.
Evidenced ==
    \A i \in InvIds : invoices[i].row = "live" /\ invoices[i].grn # None =>
       invoices[i].grn \in GrnIds /\ Supports(invoices[i].grn, invoices[i].po)

\* A cleared invoice names a receipt and charges its order's total.
Charged ==
    \A i \in InvIds : invoices[i].row = "live" /\ invoices[i].status = "approved" =>
       /\ invoices[i].match = "Matched" /\ invoices[i].grn # None
       /\ Priced(invoices[i].po, invoices[i].amount)

\* An approval between its halves would still pass the first one.
Prepared ==
    \A s \in Sessions : tx[s].op = "approve" =>
       /\ invoices[tx[s].inv].row = "live"
       /\ tx[s].grn \in GrnIds /\ Supports(tx[s].grn, invoices[tx[s].inv].po)
       /\ Priced(invoices[tx[s].inv].po, invoices[tx[s].inv].amount)

Careless == {"race", "editOrder", "editReceipt", "looseReceipt", "editCleared", "repointInvoice"}

Match == NoLooseReceipt /\ Evidenced /\ Charged /\ Prepared

Matched == Excused(Careless) \/ Match

\* What a world takes none of when the property is not excused in it.
LEMMA Careful ==
  ASSUME ~Excused(Careless)
  PROVE  /\ ~May("race") /\ ~May("editOrder") /\ ~May("editReceipt")
         /\ ~May("looseReceipt") /\ ~May("editCleared") /\ ~May("repointInvoice")
  BY DEF Careless, Excused, May

\* Without a race a second half leaves no transaction open.
LEMMA FinishedIdle ==
  ASSUME Sound, Solo, ~May("race"), Finishes
  PROVE  \A u \in Sessions : tx'[u] = Idle
<1>0. tx \in [Sessions -> Transactions]
  BY DEF Sound, TypeOK
<1>1. PICK s \in Sessions : tx' = [tx EXCEPT ![s] = Idle] /\ tx[s] # Idle
  <2>1. PICK s \in Sessions : (\E p \in Free(pos) : InsertOrder(s, p)) \/ ApproveInvoiceCommit(s) \/ Rollback(s)
    BY DEF Finishes
  <2>2. tx' = [tx EXCEPT ![s] = Idle] /\ (tx[s].op = "order" \/ tx[s].op = "approve" \/ tx[s] # Idle)
    BY <2>1 DEF InsertOrder, ApproveInvoiceCommit, Rollback
  <2>3. tx[s] # Idle
    BY <2>2 DEF Idle
  <2> QED
    BY <2>2, <2>3
<1>2. \A u \in Sessions : tx[u] # Idle => u = s
  BY <1>1 DEF Solo
<1> QED
  BY <1>0, <1>1, <1>2

\* The handlers do not touch the receipt an invoice names.
LEMMA ReceiptHeld ==
  ASSUME Sound, Next, ~May("editReceipt"), NEW i \in InvIds, invoices[i].row = "live",
         NEW g \in GrnIds, g = invoices[i].grn, grns[g].row = "live"
  PROVE  grns'[g] = grns[g]
<1>0. TypeOK /\ i \in Live(invoices)
  BY LiveRows DEF Sound
<1>1. CASE postGrn
  <2>1. PICK h \in Free(grns) : OtherGrns(h)
    BY <1>0, <1>1, GrnEffect
  <2> QED
    BY <2>1 DEF Free, OtherGrns
<1>2. CASE patchGrn
  <2>1. PICK h \in Live(grns) : OtherGrns(h) /\ ~Evidence(h)
    BY <1>0, <1>2, GrnEffect
  <2> QED
    BY <1>0, <2>1 DEF Evidence, OtherGrns
<1>3. CASE deleteGrn
  <2>1. PICK h \in Live(grns) : OtherGrns(h) /\ \A j \in Live(invoices) : invoices[j].grn # h
    BY <1>0, <1>3, GrnEffect
  <2> QED
    BY <1>0, <2>1 DEF OtherGrns
<1> QED
  BY <1>1, <1>2, <1>3, SourcingFootprints, SettlingFootprints DEF Next

\* Nor the total of an order an approved invoice charges.
LEMMA OrderHeld ==
  ASSUME Sound, Next, ~May("editOrder"), NEW i \in InvIds, invoices[i].row = "live",
         invoices[i].status = "approved", NEW p \in PoIds, p = invoices[i].po, pos[p].row = "live"
  PROVE  pos'[p].row = "live" /\ pos'[p].total = pos[p].total
<1>0. TypeOK /\ i \in Live(invoices) /\ Used(p)
  BY LiveRows DEF Sound, Used
<1>1. CASE SameOrders
  BY <1>1 DEF SameOrders
<1>2. CASE \E q \in Live(pos), v \in VendorIds : MoveOrder(q, v)
  BY <1>0, <1>2, MoveEffect DEF OtherOrders
<1>3. CASE \E q \in Live(pos), st \in {"approved", "issued", "pending", "void"}, c \in BOOLEAN :
              UpdateOrderStatus(q, st, c)
  BY <1>0, <1>3, StatusEffect DEF OtherOrders
<1>4. CASE \E q \in Live(pos), n \in Nat : ~Used(q) /\ RepriceOrder(q, n)
  <2>1. PICK q \in Live(pos) : ~Used(q) /\ OtherOrders(q)
    BY <1>0, <1>4, RepriceEffect
  <2> QED
    BY <1>0, <2>1 DEF OtherOrders
<1>5. CASE \E q \in Live(pos) : ~Used(q) /\ DeletePurchaseOrder(q)
  <2>1. PICK q \in Live(pos) : ~Used(q) /\ OtherOrders(q)
    BY <1>0, <1>5, DeleteEffect
  <2> QED
    BY <1>0, <2>1 DEF OtherOrders
<1>6. CASE \E s \in Sessions, q \in Free(pos) : InsertOrder(s, q)
  BY <1>0, <1>6, InsertEffect DEF OtherOrders
<1> QED
  BY <1>1, <1>2, <1>3, <1>4, <1>5, <1>6, OrderSteps

\* An invoice in the table after a step was there before, with the receipt it
\* names and, if approved, all that was matched; or is new; or was approved.
LEMMA InvoiceKept ==
  ASSUME Sound, Next, ~May("editCleared"), ~May("repointInvoice"), NEW i \in InvIds,
         invoices'[i].row = "live"
  PROVE  \/ /\ invoices[i].row = "live" /\ invoices'[i].grn = invoices[i].grn
            /\ invoices'[i].po = invoices[i].po \/ invoices[i].grn = None
            /\ invoices'[i].status = "approved" =>
                 /\ invoices[i].status = "approved" /\ invoices'[i].match = invoices[i].match
                 /\ invoices'[i].po = invoices[i].po /\ invoices'[i].amount = invoices[i].amount
         \/ /\ postInvoice /\ invoices'[i].status = "pending"
            /\ invoices'[i].grn = None \/ invoices'[i].grn \in Receipts(invoices'[i].po)
         \/ Finishes /\ \E s \in Sessions : ApproveInvoiceCommit(s) /\ tx[s].inv = i
<1>0. TypeOK
  BY DEF Sound
<1>1. CASE invoices'[i] = invoices[i]
  BY <1>1
<1>2. CASE postInvoice
  <2>1. PICK j \in InvIds, p \in PoIds \cup {None} :
          /\ OtherInvoices(j)
          /\ invoices'[j].po = p /\ invoices'[j].status = "pending"
          /\ invoices'[j].grn = None \/ invoices'[j].grn \in Receipts(p)
    BY <1>0, <1>2, PostEffect
  <2> QED
    BY <1>1, <1>2, <2>1 DEF OtherInvoices
<1>3. CASE patchInvoice
  <2>1. PICK j \in Live(invoices) :
          /\ OtherInvoices(j) /\ j \in InvIds
          /\ invoices'[j].match = invoices[j].match /\ invoices'[j].grn = invoices[j].grn
          /\ invoices'[j].status = invoices[j].status \/ invoices'[j].status \in {"pending", "held"}
          /\ \/ invoices'[j].amount = invoices[j].amount /\ invoices'[j].po = invoices[j].po
             \/ /\ invoices'[j].status = invoices[j].status
                /\ invoices[j].status \notin {"approved", "paid"}
                /\ invoices'[j].po = invoices[j].po \/ invoices[j].grn = None
    BY <1>0, <1>3, PatchEffect
  <2>2. invoices[j].row = "live"
    BY DEF Live
  <2> QED
    BY <1>1, <2>1, <2>2 DEF OtherInvoices
<1>4. CASE deleteInvoice
  BY <1>0, <1>1, <1>4, RemoveEffect DEF OtherInvoices
<1>5. CASE handlePaymentMade
  <2>1. \/ UNCHANGED invoices
        \/ \E j \in InvIds : invoices' = [invoices EXCEPT ![j] = [invoices[j] EXCEPT !.status = "paid"]]
    BY <1>0, <1>5, PaymentEffect
  <2>2. CASE \E j \in InvIds : invoices' = [invoices EXCEPT ![j] = [invoices[j] EXCEPT !.status = "paid"]]
    <3>1. PICK j \in InvIds : invoices' = [invoices EXCEPT ![j] = [invoices[j] EXCEPT !.status = "paid"]]
      BY <2>2
    <3>2. /\ OtherInvoices(j) /\ invoices'[j].status = "paid" /\ invoices'[j].row = invoices[j].row
          /\ invoices'[j].po = invoices[j].po /\ invoices'[j].grn = invoices[j].grn
      BY <1>0, <3>1, PaidEffect
    <3> QED
      BY <1>1, <3>2 DEF OtherInvoices
  <2> QED
    BY <1>1, <2>1, <2>2
<1>6. CASE Finishes
  <2>1. PICK s \in Sessions : (\E p \in Free(pos) : InsertOrder(s, p)) \/ ApproveInvoiceCommit(s) \/ Rollback(s)
    BY <1>6 DEF Finishes
  <2>2. CASE ApproveInvoiceCommit(s)
    BY <1>0, <1>1, <1>6, <2>2, ApproveEffect DEF OtherInvoices
  <2>3. CASE (\E p \in Free(pos) : InsertOrder(s, p)) \/ Rollback(s)
    BY <1>1, <2>3 DEF InsertOrder, Rollback, tables
  <2> QED
    BY <2>1, <2>2, <2>3
<1> QED
  BY <1>1, <1>2, <1>3, <1>4, <1>5, <1>6, SourcingFootprints, SettlingFootprints DEF Next

\* Nobody writes the status "Received" without the liberty to.
LEMMA LooseStep ==
  ASSUME Sound, NoLooseReceipt, Next, ~May("looseReceipt") PROVE NoLooseReceipt'
<1>0. TypeOK /\ GrnStatuses = {"draft", "posted"}
  BY DEF Sound, GrnStatuses
<1>1. CASE postGrn
  BY <1>0, <1>1, GrnEffect DEF OtherGrns, NoLooseReceipt
<1>2. CASE patchGrn
  <2>1. PICK g \in Live(grns) : /\ OtherGrns(g)
                                /\ grns'[g].status = grns[g].status \/ grns'[g].status \in {"draft", "posted"}
    BY <1>0, <1>2, GrnEffect
  <2> QED
    BY <2>1 DEF OtherGrns, NoLooseReceipt, Live
<1>3. CASE deleteGrn
  BY <1>0, <1>3, GrnEffect DEF OtherGrns, NoLooseReceipt
<1>4. CASE grns' = grns
  BY <1>4 DEF NoLooseReceipt
<1> QED
  BY <1>1, <1>2, <1>3, <1>4, SourcingFootprints, SettlingFootprints DEF Next

\* Without loose receipts, a receipt of an order supports its invoices.
LEMMA ReceiptSupports ==
  ASSUME Sound, NoLooseReceipt, NEW p, NEW g \in Receipts(p)
  PROVE  g \in GrnIds /\ Supports(g, p)
<1>1. g \in GrnIds /\ grns[g].row = "live" /\ grns[g].po = p /\ grns[g].status \in {"posted", "received"}
  BY RowIds DEF Sound, Receipts, Live
<1> QED
  BY <1>1 DEF NoLooseReceipt, Supports

\* An invoice gets its receipt from the match or from the approval, and neither the
\* receipt nor the invoice's order changes under it.
LEMMA EvidencedStep ==
  ASSUME Sound, Match, Next, ~Excused(Careless) PROVE Evidenced'
<1>0. /\ TypeOK /\ ~May("editReceipt") /\ ~May("editCleared") /\ ~May("repointInvoice")
      /\ NoLooseReceipt /\ Evidenced /\ Prepared
  BY Careful DEF Sound, Match
<1> SUFFICES ASSUME NEW i \in InvIds, invoices'[i].row = "live", invoices'[i].grn # None
             PROVE  /\ invoices'[i].grn \in GrnIds
                    /\ grns'[invoices'[i].grn].row = "live"
                    /\ grns'[invoices'[i].grn].po = invoices'[i].po
                    /\ grns'[invoices'[i].grn].status = "posted"
  BY DEF Evidenced, Supports
<1>1. PICK g, p : g = invoices'[i].grn /\ p = invoices'[i].po
  OBVIOUS
<1>2. CASE /\ invoices[i].row = "live" /\ invoices'[i].grn = invoices[i].grn
           /\ invoices'[i].po = invoices[i].po \/ invoices[i].grn = None
  <2>1. g \in GrnIds /\ Supports(g, p) /\ g = invoices[i].grn
    BY <1>0, <1>1, <1>2 DEF Evidenced
  <2>2. grns'[g] = grns[g]
    BY <1>0, <1>2, <2>1, ReceiptHeld DEF Supports
  <2> QED
    BY <1>1, <2>1, <2>2 DEF Supports
<1>3. CASE postInvoice /\ (invoices'[i].grn = None \/ invoices'[i].grn \in Receipts(invoices'[i].po))
  <2>1. g \in Receipts(p) /\ grns' = grns
    BY <1>1, <1>3, SettlingFootprints
  <2>2. g \in GrnIds /\ Supports(g, p)
    BY <1>0, <2>1, ReceiptSupports
  <2> QED
    BY <1>1, <2>1, <2>2 DEF Supports
<1>4. CASE Finishes /\ \E s \in Sessions : ApproveInvoiceCommit(s) /\ tx[s].inv = i
  <2>1. PICK s \in Sessions : ApproveInvoiceCommit(s) /\ tx[s].inv = i
    BY <1>4
  <2>2. /\ tx[s].op = "approve"
        /\ g = IF invoices[i].grn = None THEN tx[s].grn ELSE invoices[i].grn
        /\ p = invoices[i].po
    BY <1>0, <1>1, <2>1, ApproveEffect
  <2>3. g \in GrnIds /\ Supports(g, p)
    BY <1>0, <2>1, <2>2 DEF Prepared, Evidenced
  <2>4. grns' = grns
    BY <1>4, SettlingFootprints
  <2> QED
    BY <1>1, <2>3, <2>4 DEF Supports
<1> QED
  BY <1>0, <1>2, <1>3, <1>4, InvoiceKept

\* An invoice is approved with what the first half found, and neither its amount nor
\* its order's total changes while it is approved.
LEMMA ChargedStep ==
  ASSUME Sound, Match, Next, ~Excused(Careless) PROVE Charged'
<1>0. /\ TypeOK /\ ~May("editOrder") /\ ~May("editCleared") /\ ~May("repointInvoice")
      /\ Charged /\ Prepared
  BY Careful DEF Sound, Match
<1> SUFFICES ASSUME NEW i \in InvIds, invoices'[i].row = "live", invoices'[i].status = "approved"
             PROVE  /\ invoices'[i].match = "Matched" /\ invoices'[i].grn # None
                    /\ invoices'[i].po \in PoIds /\ pos'[invoices'[i].po].row = "live"
                    /\ pos'[invoices'[i].po].total = invoices'[i].amount
  BY DEF Charged, Priced
<1>1. PICK p : p = invoices'[i].po
  OBVIOUS
<1>2. CASE /\ invoices[i].row = "live" /\ invoices'[i].grn = invoices[i].grn
           /\ invoices[i].status = "approved" /\ invoices'[i].match = invoices[i].match
           /\ invoices'[i].po = invoices[i].po /\ invoices'[i].amount = invoices[i].amount
  <2>1. /\ invoices[i].match = "Matched" /\ invoices[i].grn # None
        /\ p \in PoIds /\ pos[p].row = "live" /\ pos[p].total = invoices[i].amount
    BY <1>0, <1>1, <1>2 DEF Charged, Priced
  <2>2. pos'[p].row = "live" /\ pos'[p].total = pos[p].total
    BY <1>0, <1>1, <1>2, <2>1, OrderHeld
  <2> QED
    BY <1>1, <1>2, <2>1, <2>2
<1>3. CASE Finishes /\ \E s \in Sessions : ApproveInvoiceCommit(s) /\ tx[s].inv = i
  <2>1. PICK s \in Sessions : ApproveInvoiceCommit(s) /\ tx[s].inv = i
    BY <1>3
  <2>2. /\ tx[s].op = "approve"
        /\ invoices'[i].grn \in Live(grns) /\ invoices'[i].match = "Matched"
        /\ p = invoices[i].po /\ invoices'[i].amount = invoices[i].amount
    BY <1>0, <1>1, <2>1, ApproveEffect
  <2>3. p \in PoIds /\ pos[p].row = "live" /\ pos[p].total = invoices[i].amount
    BY <1>0, <2>1, <2>2 DEF Prepared, Priced
  <2>4. pos' = pos
    BY <2>1 DEF ApproveInvoiceCommit
  <2>5. None \notin GrnIds
    BY P2PAssumption DEF AllIds
  <2>6. invoices'[i].grn # None
    BY <1>0, <2>2, <2>5, RowIds
  <2> QED
    BY <1>1, <2>2, <2>3, <2>4, <2>6
<1> QED
  BY <1>0, <1>2, <1>3, InvoiceKept

\* What an approval's first half found stays so until its second half.
LEMMA PreparedStep ==
  ASSUME Sound, Solo, Match, Next, ~Excused(Careless) PROVE Prepared'
<1>0. /\ TypeOK /\ tx \in [Sessions -> Transactions] /\ ~May("race")
      /\ NoLooseReceipt /\ Prepared
  BY Careful DEF Sound, Match, TypeOK
<1> SUFFICES ASSUME NEW s \in Sessions, tx'[s].op = "approve"
             PROVE  (/\ invoices[tx[s].inv].row = "live"
                     /\ tx[s].grn \in GrnIds /\ Supports(tx[s].grn, invoices[tx[s].inv].po)
                     /\ Priced(invoices[tx[s].inv].po, invoices[tx[s].inv].amount))'
  BY DEF Prepared
<1>1. CASE Finishes
  BY <1>0, <1>1, FinishedIdle DEF Idle
<1>2. CASE Finance
  <2>1. UNCHANGED <<invoices, grns, pos, tx>>
    BY <1>2, SettlingFootprints
  <2> QED
    BY <1>0, <2>1 DEF Prepared, Supports, Priced
<1>3. CASE \A u \in Sessions : tx[u] = Idle
  <2>0. tx[s].op # "approve"
    BY <1>3 DEF Idle
  <2>1. CASE tx' = tx
    BY <2>0, <2>1
  <2>2. CASE awardRfq
    <3>1. PICK u \in Sessions, r \in Live(rfqs), v \in VendorIds, n \in Nat :
             tx' = [tx EXCEPT ![u] = [op |-> "order", rfq |-> r, vendor |-> v, total |-> n]]
      BY <2>2, TxEffect
    <3>2. tx'[s] = tx[s] \/ tx'[s] = [op |-> "order", rfq |-> r, vendor |-> v, total |-> n]
      BY <1>0, <3>1
    <3> QED
      BY <2>0, <3>2
  <2>3. CASE postPurchaseOrder
    <3>1. PICK u \in Sessions, v \in VendorIds, n \in Nat :
             tx' = [tx EXCEPT ![u] = [op |-> "order", rfq |-> None, vendor |-> v, total |-> n]]
      BY <2>3, TxEffect
    <3>2. tx'[s] = tx[s] \/ tx'[s] = [op |-> "order", rfq |-> None, vendor |-> v, total |-> n]
      BY <1>0, <3>1
    <3> QED
      BY <2>0, <3>2
  <2>4. CASE approveInvoice
    <3>1. PICK u \in Sessions, i \in Live(invoices) : \E g \in Receipts(invoices[i].po) :
              /\ invoices[i].po \in Live(pos) /\ pos[invoices[i].po].total = invoices[i].amount
              /\ tx' = [tx EXCEPT ![u] = [op |-> "approve", inv |-> i, grn |-> g]]
      BY <2>4, TxEffect
    <3>2. PICK g \in Receipts(invoices[i].po) :
              tx' = [tx EXCEPT ![u] = [op |-> "approve", inv |-> i, grn |-> g]]
      BY <3>1
    <3>3. tx'[s] = [op |-> "approve", inv |-> i, grn |-> g]
      BY <1>0, <2>0, <3>2
    <3>4. g \in GrnIds /\ Supports(g, invoices[i].po)
      BY <1>0, ReceiptSupports
    <3>5. invoices[i].row = "live" /\ Priced(invoices[i].po, invoices[i].amount)
      BY <1>0, <3>1, RowIds DEF Live, Priced
    <3>6. UNCHANGED <<invoices, grns, pos>>
      BY <2>4, SourcingFootprints
    <3>7. tx'[s].inv = i /\ tx'[s].grn = g
      BY <3>3
    <3> QED
      BY <3>4, <3>5, <3>6, <3>7 DEF Supports, Priced
  <2>5. CASE Finishes
    BY <1>1, <2>5
  <2> QED
    BY <2>1, <2>2, <2>3, <2>4, <2>5, TxSteps
<1> QED
  BY <1>0, <1>1, <1>2, <1>3, Quiet

\* Cleared invoices are matched, and approvals under way will be.
LEMMA MatchedInvariant == Spec => [](Solo /\ Matched)
<1>1. Init => Solo /\ Matched
  BY EmptyStates DEF Init, Solo, Matched, Match, NoLooseReceipt, Evidenced, Charged, Prepared, Idle
<1>2. Sound /\ Solo /\ Matched /\ [Next]_vars => (Solo /\ Matched)'
  <2> SUFFICES ASSUME Sound, Solo, Matched, [Next]_vars PROVE (Solo /\ Matched)'
    OBVIOUS
  <2>1. CASE UNCHANGED vars
    BY <2>1 DEF vars, tables, Solo, Matched, Match, NoLooseReceipt, Evidenced, Charged, Prepared, Supports,
                Priced, May, Excused
  <2>2. CASE Next
    <3>1. Excused(Careless)' <=> Excused(Careless)
      BY <2>2, WorldKept DEF Excused, Careless
    <3>2. CASE ~Excused(Careless)
      <4>1. Match /\ ~May("looseReceipt")
        BY <3>2, Careful DEF Matched
      <4>2. NoLooseReceipt' /\ Evidenced' /\ Charged' /\ Prepared'
        BY <2>2, <3>2, <4>1, LooseStep, EvidencedStep, ChargedStep, PreparedStep DEF Match
      <4> QED
        BY <2>2, <4>2, SoloStep DEF Matched, Match
    <3> QED
      BY <2>2, <3>1, <3>2, SoloStep DEF Matched
  <2> QED
    BY <2>1, <2>2
<1> QED
  BY <1>1, <1>2, SoundInvariant, PTL DEF Spec

\* An invoice cleared for payment charges its order's total and rests on a
\* posted receipt of that order which quality has released: what ApproveInvoice
\* found is still so whatever other documents did since, short of a race and of
\* the edits the property excuses.
THEOREM ClearedStaysMatched == Spec => []ClearedIsMatched
<1>1. Sound /\ PostedWasReleased /\ Matched => ClearedIsMatched
  <2> SUFFICES ASSUME Sound, PostedWasReleased, Matched, ~Excused(Careless), NEW i \in Live(invoices),
                      invoices[i].status = "approved"
               PROVE  /\ invoices[i].match = "Matched"
                      /\ invoices[i].po \in Live(pos) /\ pos[invoices[i].po].total = invoices[i].amount
                      /\ invoices[i].grn \in Live(grns) /\ grns[invoices[i].grn].po = invoices[i].po
                      /\ grns[invoices[i].grn].status = "posted" /\ grns[invoices[i].grn].qc # "held"
    BY DEF ClearedIsMatched, Careless
  <2>1. i \in InvIds /\ invoices[i].row = "live" /\ Match
    BY RowIds DEF Sound, Live, Matched
  <2>2. /\ invoices[i].match = "Matched" /\ invoices[i].grn # None
        /\ Priced(invoices[i].po, invoices[i].amount)
    BY <2>1 DEF Match, Charged
  <2>3. invoices[i].grn \in GrnIds /\ Supports(invoices[i].grn, invoices[i].po)
    BY <2>1, <2>2 DEF Match, Evidenced
  <2>4. invoices[i].po \in Live(pos) /\ pos[invoices[i].po].total = invoices[i].amount
    BY <2>2 DEF Priced, Live, Sound, TypeOK
  <2>5. invoices[i].grn \in Live(grns)
    BY <2>3 DEF Supports, Live, Sound, TypeOK
  <2> QED
    BY <2>2, <2>3, <2>4, <2>5 DEF Supports, PostedWasReleased
<1> QED
  BY <1>1, SoundInvariant, NothingHeldIsPosted, MatchedInvariant, PTL

-----------------------------------------------------------------------------
(* Settlements *)

\* Finance was told of an invoice in the table, under the reference it has.
Announced ==
    \A i \in InvIds : ap[i] # None =>
       /\ invoices[i].row = "live"
       /\ ap[i] = IF invoices[i].no = None THEN i ELSE invoices[i].no

\* A settlement is of an announced invoice, and a reference is of one settlement.
Reported ==
    /\ \A e \in settled : ap[e.inv] # None /\ e.doc = ap[e.inv]
    /\ \A e, f \in settled : e.ref = f.ref /\ e.ref # None => e = f

Numbered ==
    \A i, j \in InvIds : /\ invoices[i].row = "live" /\ invoices[j].row = "live"
                         /\ invoices[i].no = invoices[j].no /\ invoices[i].no # None
                         => i = j

PaidUnder(e, x) == payments[x] = e.inv /\ (e.ref = None \/ x = e.ref)

\* A payment under a settlement's reference is of the invoice it settled, and
\* what was consumed is paid.
Recorded ==
    /\ \A e \in settled : e.ref # None /\ payments[e.ref] # None => payments[e.ref] = e.inv
    /\ \A e \in consumed : \E x \in PayRefs : PaidUnder(e, x)

Settle == Announced /\ Reported /\ Numbered /\ Recorded

Renames == {"reidentify", "sharedNumber"}

Settling == Excused(Renames) \/ Settle

\* A settlement's document reference names the invoice settled and no other: no
\* number is taken for an id, and no number is taken twice.
LEMMA NamesOne ==
  ASSUME Sound, Settle, NEW e \in settled
  PROVE  e.inv \in InvIds /\ e.ref \in PayRefs \cup {None} /\ InvoicesNamed(e.doc) = {e.inv}
<1>1. e.inv \in InvIds /\ e.ref \in PayRefs \cup {None} /\ e.doc \in InvIds \cup Numbers
  BY DEF Sound, TypeOK
<1>2. PICK i \in InvIds, d \in InvIds \cup Numbers : i = e.inv /\ d = e.doc
  BY <1>1
<1>3. invoices[i].row = "live" /\ d = IF invoices[i].no = None THEN i ELSE invoices[i].no
  BY <1>2 DEF Settle, Reported, Announced
<1>4. Live(invoices) = {j \in InvIds : invoices[j].row = "live"}
  BY DEF Live, Sound, TypeOK
<1>5. CASE invoices[i].no = None
  <2>1. {j \in Live(invoices) : j = d} = {i}
    BY <1>3, <1>4, <1>5
  <2> QED
    BY <1>1, <1>2, <2>1 DEF InvoicesNamed
<1>6. CASE invoices[i].no # None
  <2>1. invoices[i].no \in Numbers
    BY <1>6 DEF Sound, TypeOK, Invoices
  <2>2. {j \in Live(invoices) : j = d} = {}
    BY <1>3, <1>4, <1>6, <2>1, P2PAssumption
  <2>3. {j \in Live(invoices) : invoices[j].no = d} = {i}
    BY <1>3, <1>4, <1>6 DEF Settle, Numbered
  <2> QED
    BY <1>1, <1>2, <2>2, <2>3 DEF InvoicesNamed
<1> QED
  BY <1>5, <1>6

\* Only a new invoice adds a number, only renaming changes one.
LEMMA NumbersKept ==
  ASSUME Sound, Next, ~May("reidentify"), ~postInvoice, NEW i \in InvIds
  PROVE  invoices'[i].row = invoices[i].row /\ invoices'[i].no = invoices[i].no
<1>0. TypeOK
  BY DEF Sound
<1>1. CASE patchInvoice
  <2>1. PICK j \in Live(invoices) : /\ OtherInvoices(j) /\ invoices'[j].row = "live"
                                    /\ invoices'[j].no = invoices[j].no
    BY <1>0, <1>1, PatchEffect
  <2> QED
    BY <2>1 DEF OtherInvoices, Live
<1>2. CASE deleteInvoice
  BY <1>0, <1>2, RemoveEffect
<1>3. CASE handlePaymentMade
  <2>1. \/ UNCHANGED invoices
        \/ \E j \in InvIds : invoices' = [invoices EXCEPT ![j] = [invoices[j] EXCEPT !.status = "paid"]]
    BY <1>0, <1>3, PaymentEffect
  <2>2. CASE \E j \in InvIds : invoices' = [invoices EXCEPT ![j] = [invoices[j] EXCEPT !.status = "paid"]]
    <3>1. PICK j \in InvIds : invoices' = [invoices EXCEPT ![j] = [invoices[j] EXCEPT !.status = "paid"]]
      BY <2>2
    <3>2. OtherInvoices(j) /\ invoices'[j].row = invoices[j].row /\ invoices'[j].no = invoices[j].no
      BY <1>0, <3>1, PaidEffect
    <3> QED
      BY <3>2 DEF OtherInvoices
  <2> QED
    BY <2>1, <2>2
<1>4. CASE Finishes
  <2>1. PICK s \in Sessions : (\E p \in Free(pos) : InsertOrder(s, p)) \/ ApproveInvoiceCommit(s) \/ Rollback(s)
    BY <1>4 DEF Finishes
  <2>2. CASE ApproveInvoiceCommit(s)
    BY <1>0, <2>2, ApproveEffect DEF OtherInvoices
  <2>3. CASE (\E p \in Free(pos) : InsertOrder(s, p)) \/ Rollback(s)
    BY <2>3 DEF InsertOrder, Rollback, tables
  <2> QED
    BY <2>1, <2>2, <2>3
<1> QED
  BY <1>1, <1>2, <1>3, <1>4, SourcingFootprints, SettlingFootprints DEF Next

\* Announcements, settlements and payments stay in step.
LEMMA SettleStep ==
  ASSUME Sound, Settle, Next, ~May("reidentify"), ~May("sharedNumber") PROVE Settle'
<1>0. /\ TypeOK /\ payments \in [PayRefs -> InvIds \cup {None}]
      /\ ap \in [InvIds -> InvIds \cup Numbers \cup {None}] /\ settled \subseteq [ref : PayRefs \cup {None}, doc : InvIds \cup Numbers, inv : InvIds]
      /\ None \notin InvIds /\ None \notin Numbers /\ consumed \subseteq settled
  BY P2PAssumption DEF Sound, TypeOK, AllIds
<1>1. CASE postInvoice
  <2>1. PICK i \in Free(invoices), no \in Numbers \cup {None} :
           /\ OtherInvoices(i) /\ i \in InvIds
           /\ invoices'[i].row = "live" /\ invoices'[i].no = no
           /\ ap' = [ap EXCEPT ![i] = IF no = None THEN i ELSE no]
           /\ no # None => \A j \in Live(invoices) : invoices[j].no # no
    BY <1>0, <1>1, PostEffect
  <2>2. invoices[i].row = "free" /\ ap[i] = None
    BY <2>1 DEF Free, Settle, Announced
  <2>3. /\ ap'[i] = IF no = None THEN i ELSE no
        /\ \A j \in InvIds : j # i => ap'[j] = ap[j] /\ invoices'[j] = invoices[j]
    BY <1>0, <2>1 DEF OtherInvoices
  <2>4. Announced'
    BY <2>1, <2>3 DEF Settle, Announced
  <2>5. UNCHANGED <<settled, payments, consumed>>
    BY <1>1, SettlingFootprints
  <2>6. Reported'
    <3>1. \A e \in settled : e.inv \in InvIds /\ e.inv # i
      BY <1>0, <2>2 DEF Settle, Reported
    <3> QED
      BY <2>3, <2>5, <3>1 DEF Settle, Reported
  <2>7. Numbered'
    <3>1. \A j \in InvIds : j # i /\ invoices'[j].row = "live" /\ no # None => invoices'[j].no # no
      BY <2>1, <2>3, LiveRows
    <3> QED
      BY <2>1, <2>3, <3>1 DEF Settle, Numbered
  <2>8. Recorded'
    BY <2>5 DEF Settle, Recorded, PaidUnder
  <2> QED
    BY <2>4, <2>6, <2>7, <2>8 DEF Settle
<1>2. CASE ~postInvoice
  <2>1. \A i \in InvIds : invoices'[i].row = invoices[i].row /\ invoices'[i].no = invoices[i].no
    BY <1>2, NumbersKept
  <2>2. ap' = ap
    BY <1>2, SourcingFootprints, SettlingFootprints DEF Next
  <2>3. Announced' /\ Numbered'
    BY <2>1, <2>2 DEF Settle, Announced, Numbered
  <2>4. CASE Finance
    <3>1. PICK x \in SettlementRefs, i \in InvIds : FinancePays(x, i)
      BY <2>4 DEF Finance
    <3> DEFINE n == [ref |-> x, doc |-> ap[i], inv |-> i]
    <3>2. /\ ap[i] # None /\ settled' = settled \cup {n}
          /\ x # None => payments[x] = None /\ \A e \in settled : e.ref # x
      BY <3>1 DEF FinancePays
    <3>3. n.ref = x /\ n.doc = ap[i] /\ n.inv = i
      OBVIOUS
    <3> HIDE DEF n
    <3>4. payments' = payments /\ consumed' = consumed
      BY <2>4, SettlingFootprints
    <3>5. Reported'
      BY <2>2, <3>2, <3>3 DEF Settle, Reported
    <3>6. Recorded'
      BY <3>2, <3>3, <3>4 DEF Settle, Recorded, PaidUnder
    <3> QED
      BY <2>3, <3>5, <3>6 DEF Settle
  <2>5. CASE handlePaymentMade
    <3>1. PICK e \in settled :
           /\ consumed' = consumed \cup {e}
           /\ \/ /\ payments' = payments
                 /\ InvoicesNamed(e.doc) = {} \/ (e.ref # None /\ payments[e.ref] # None)
              \/ \E i \in InvoicesNamed(e.doc), x \in PayRefs :
                    /\ payments[x] = None /\ payments' = [payments EXCEPT ![x] = i]
                    /\ x = e.ref \/ (e.ref = None /\ \A f \in settled : f.ref # x)
      BY <1>0, <2>5, PaymentEffect
    <3>2. e.inv \in InvIds /\ e.ref \in PayRefs \cup {None} /\ InvoicesNamed(e.doc) = {e.inv}
      BY NamesOne
    <3>3. settled' = settled
      BY <2>5, SettlingFootprints
    <3>4. Reported'
      BY <2>2, <3>3 DEF Settle, Reported
    <3>5. CASE payments' = payments /\ e.ref # None /\ payments[e.ref] # None
      <4>1. e.ref \in PayRefs /\ PaidUnder(e, e.ref)
        BY <3>2, <3>5 DEF Settle, Recorded, PaidUnder
      <4>2. Recorded'
        BY <3>1, <3>3, <3>5, <4>1 DEF Settle, Recorded, PaidUnder
      <4> QED
        BY <2>3, <3>4, <4>2 DEF Settle
    <3>6. CASE \E x \in PayRefs :
                 /\ payments[x] = None /\ payments' = [payments EXCEPT ![x] = e.inv]
                 /\ x = e.ref \/ (e.ref = None /\ \A f \in settled : f.ref # x)
      <4>1. PICK x \in PayRefs :
                 /\ payments[x] = None /\ payments' = [payments EXCEPT ![x] = e.inv]
                 /\ x = e.ref \/ (e.ref = None /\ \A f \in settled : f.ref # x)
        BY <3>6
      <4>2. payments'[x] = e.inv /\ \A y \in PayRefs : y # x => payments'[y] = payments[y]
        BY <1>0, <4>1
      <4>3. \A f \in settled : f.ref # None /\ payments'[f.ref] # None => payments'[f.ref] = f.inv
        <5> SUFFICES ASSUME NEW f \in settled, f.ref # None, payments'[f.ref] # None
                     PROVE  payments'[f.ref] = f.inv
          OBVIOUS
        <5>1. f.ref \in PayRefs
          BY <1>0
        <5>2. CASE f.ref = x
          BY <4>1, <4>2, <5>2 DEF Settle, Reported
        <5>3. CASE f.ref # x
          BY <4>2, <5>1, <5>3 DEF Settle, Recorded
        <5> QED
          BY <5>2, <5>3
      <4>4. \A f \in consumed : \E y \in PayRefs : PaidUnder(f, y)'
        <5> SUFFICES ASSUME NEW f \in consumed PROVE \E y \in PayRefs : PaidUnder(f, y)'
          OBVIOUS
        <5>1. f.inv \in InvIds
          BY <1>0
        <5>2. PICK y \in PayRefs : PaidUnder(f, y)
          BY DEF Settle, Recorded
        <5>3. y # x
          BY <1>0, <4>1, <5>1, <5>2 DEF PaidUnder
        <5> QED
          BY <4>2, <5>2, <5>3 DEF PaidUnder
      <4>5. PaidUnder(e, x)'
        BY <4>1, <4>2 DEF PaidUnder
      <4>6. Recorded'
        BY <3>1, <3>3, <4>3, <4>4, <4>5 DEF Recorded
      <4> QED
        BY <2>3, <3>4, <4>6 DEF Settle
    <3> QED
      BY <3>1, <3>2, <3>5, <3>6
  <2>6. CASE UNCHANGED <<settled, payments, consumed>>
    BY <2>2, <2>3, <2>6 DEF Settle, Reported, Recorded, PaidUnder
  <2> QED
    BY <1>2, <2>4, <2>5, <2>6, SourcingFootprints, SettlingFootprints DEF Next
<1> QED
  BY <1>1, <1>2

\* A settlement finance reported, once consumed, is a payment of the invoice it
\* settled, unless the invoice was renumbered or deleted, or shares its number:
\* redelivery, a settlement without a reference and an invoice that is known by
\* its id only do not lead a payment astray.
THEOREM SettlementsLand == Spec => []SettlementLands
<1>1. Init => Settling
  BY EmptyStates DEF Init, Settling, Settle, Announced, Reported, Numbered, Recorded
<1>2. Sound /\ Settling /\ [Next]_vars => Settling'
  <2> SUFFICES ASSUME Sound, Settling, [Next]_vars PROVE Settling'
    OBVIOUS
  <2>1. CASE UNCHANGED vars
    BY <2>1 DEF vars, tables, Settling, Settle, Announced, Reported, Numbered, Recorded, PaidUnder, Excused
  <2>2. CASE Next
    <3>1. Excused(Renames)' <=> Excused(Renames)
      BY <2>2, WorldKept DEF Excused, Renames
    <3>2. CASE ~Excused(Renames)
      <4>1. Settle /\ ~May("reidentify") /\ ~May("sharedNumber")
        BY <3>2 DEF Settling, Excused, Renames, May
      <4> QED
        BY <2>2, <4>1, SettleStep DEF Settling
    <3> QED
      BY <3>1, <3>2 DEF Settling
  <2> QED
    BY <2>1, <2>2
<1>3. Settling => SettlementLands
  BY DEF Settling, SettlementLands, Settle, Recorded, PaidUnder, Renames
<1> QED
  BY <1>1, <1>2, <1>3, SoundInvariant, PTL DEF Spec

===============================================================================
