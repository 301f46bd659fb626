--------------------------- MODULE MCProcureToPay ---------------------------
(* TLC instances of ProcureToPay. *)
EXTENDS ProcureToPay, TLC

CONSTANTS v1, v2, r1, p1, p2, g1, g2, i1, i2, n1, x1, x2, s1, s2

World(m, ids, amounts) == [may |-> m, ids |-> ids, amounts |-> amounts]

\* One RFQ, two suppliers, two orders; every order needs approval.
Sourcing(m) == World(m, {v1, v2, r1, 1, 2, p1, p2}, {2})
\* One order on either side of the threshold.
Approving(m) == World(m, {v1, p1}, {1, 2})
\* An order, two receipts and an invoice that may charge its total or not.
Matching(m) == World(m, {v1, p1, g1, g2, i1}, {1, 2})
\* Two orders that a receipt and an invoice may be moved between.
Moving(m) == World(m, {v1, p1, p2, g1, i1}, {1})
\* One invoice, settled under a reference or, more than once, under none.
Settling(m) == World(m, {v1, p1, i1, x1, x2}, {1})
\* Two invoices, one of them numbered, and their payments.
Paying(m, more) == World(m, {v1, i1, i2, n1, x1} \cup more, {1})

MCWorlds ==
    {Sourcing(m) : m \in {{"race"}, {"reopenRfq"}, {"awardSuspended", "editOrder"}}}
    \cup {Approving(m) : m \in {{"race"}, {"issue", "editOrder"}}}
    \cup {Matching({"issue"}), Moving({"reidentify"}), Moving({"race"}),
          Moving({"editOrder", "editReceipt", "looseReceipt", "editCleared", "repointInvoice"})}
    \cup {Paying({}, {x2}), Paying({"reidentify", "sharedNumber"}, {})}
    \cup {Settling({"bareSettlement"})}

Symmetry == Permutations({x1, x2}) \cup Permutations({s1, s2})
=============================================================================
