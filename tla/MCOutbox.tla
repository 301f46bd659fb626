------------------------------ MODULE MCOutbox ------------------------------
(* TLC instance of Outbox. *)
EXTENDS Outbox
=============================================================================
