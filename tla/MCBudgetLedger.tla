--------------------------- MODULE MCBudgetLedger ---------------------------
(* TLC instances of BudgetLedger. *)
EXTENDS BudgetLedger, TLC

CONSTANTS b1, r1, r2, p1, p2, g1, g2

OneBudget == {b1}
OneReq == {r1}
TwoReqs == {r1, r2}
OnePo == {p1}
TwoPos == {p1, p2}
OneGrn == {g1}
TwoGrns == {g1, g2}
Unraced == AllLiberties \ {"race"}
\* The rows of a table are interchangeable.
Rows == Permutations(BudgetIds) \cup Permutations(ReqIds)
        \cup Permutations(PoIds) \cup Permutations(GrnIds)
=============================================================================
