------------------------------ MODULE Decision ------------------------------
(***************************************************************************)
(* What the amount bands promise, without the service: a requisition is    *)
(* approved only when every level its amount asks for carries a signature, *)
(* taken from the lowest level up, no two by one person and none by the    *)
(* requester.  Signatures are never withdrawn, the amount may change at    *)
(* any time, and everything else that can happen to a requisition takes it *)
(* back to open or out of the approvers' hands, never to approved.         *)
(***************************************************************************)
EXTENDS Integers

CONSTANTS
    Levels,      \* approval levels, ordered as integers
    People,      \* those who may sign
    Requester,   \* who asked
    Nobody,      \* a signer without a name: nobody can be told from another
    Unsigned     \* no signature

VARIABLES
    outcome,  \* "open", "approved", "refused", or "out" of the approvers' hands
    asked,    \* the levels the amount reaches
    signed    \* level -> who signed it

vars == <<outcome, asked, signed>>

Cleared(s) == {l \in Levels : s[l] # Unsigned}

\* p has not signed yet and did not ask.
Free(p) == p # Nobody => p # Requester /\ \A l \in Levels : signed[l] # p

Init ==
    /\ outcome = "open"
    /\ asked \in SUBSET Levels
    /\ signed = [l \in Levels |-> Unsigned]

\* The lowest level still missing is signed; the last one approves.
Sign(l, p) ==
    /\ outcome = "open"
    /\ l \in asked \ Cleared(signed)
    /\ \A k \in asked \ Cleared(signed) : l <= k
    /\ Free(p)
    /\ signed' = [signed EXCEPT ![l] = p]
    /\ outcome' = IF asked \subseteq Cleared(signed') THEN "approved" ELSE "open"
    /\ UNCHANGED asked

\* Nothing is missing, either because the amount asks for no level or because
\* earlier signatures cover it: any one person confirms.
Confirm(p) ==
    /\ outcome = "open"
    /\ asked \subseteq Cleared(signed)
    /\ Free(p)
    /\ outcome' = "approved"
    /\ UNCHANGED <<asked, signed>>

Refuse ==
    /\ outcome = "open"
    /\ outcome' = "refused"
    /\ UNCHANGED <<asked, signed>>

\* An edit, an order, a closure, another approval mechanism.
Elsewhere ==
    /\ outcome' \in {outcome, "open", "refused", "out"}
    /\ asked' \in SUBSET Levels
    /\ UNCHANGED signed

Next ==
    \/ \E l \in Levels, p \in People : Sign(l, p)
    \/ \E p \in People : Confirm(p)
    \/ Refuse
    \/ Elsewhere

Spec == Init /\ [][Next]_vars
=============================================================================
