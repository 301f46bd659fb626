--------------------------- MODULE MCTierApproval ---------------------------
(* TLC instance of TierApproval. *)
EXTENDS TierApproval, TLC

CONSTANTS ann, bob, cyd

\* Ann asks, and could sign for the supervisor; Bob and Cyd hold two tiers each.
MCPeople == {ann, bob, cyd, Nobody}
MCLevels == {1, 2, 3}
MCMinAmount == <<0, 1, 2>>
MCHolders == <<{ann, bob, Nobody}, {bob, cyd}, {ann, cyd, Nobody}>>
=============================================================================
