----------------------------- MODULE MCDeskChain -----------------------------
(* TLC instances of DeskChain. *)
EXTENDS DeskChain, TLC

CONSTANTS bob, zoe,           \* zoe is a super user
          blank, system,      \* tokens without an e-mail; nobody is called "system"
          pm, accounts, gm,   \* desks of the seeded "requisition" chain
          e1, e2

MCPeople == {bob, zoe, blank}
MCAdmins == {zoe}
MCDesks == {pm, accounts, gm}
\* Bob holds every desk by role, but his token lacks the Accounts permission; the
\* holder of Accounts and GM carries no e-mail.
MCStaff == pm :> {bob} @@ accounts :> {bob, blank} @@ gm :> {bob, blank}
MCPermitted == pm :> {bob} @@ accounts :> {blank} @@ gm :> {bob, blank}

Desk(key, min) == [key |-> key, min |-> min]
\* "requisition": PM and Accounts always sign, the GM from a band up
\* (migrations/020, the CEO's second band left out); and the same without Accounts.
Requisition == [desks |-> <<Desk(pm, 0), Desk(accounts, 0), Desk(gm, 2)>>, noRepeat |-> TRUE]
Shorter == [desks |-> <<Desk(pm, 0), Desk(gm, 2)>>, noRepeat |-> TRUE]
SeededMatrices == {Requisition, Shorter}

\* "material.procurement": a desk without a band follows the banded one.
Material == {[desks |-> <<Desk(pm, 0), Desk(gm, 2), Desk(accounts, 0)>>, noRepeat |-> TRUE]}

\* Opened without the PM desk; a submit that opens the chain skips nothing.
MCSkips == {{pm}}
NoSkips == {{}}
OneProcess == {e1}
TwoProcesses == {e1, e2}
AnyProcess == Permutations(Processes)
=============================================================================
