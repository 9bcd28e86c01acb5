------------------------------ MODULE MCOutbox ------------------------------
(* A small instance of Outbox.  Events are ordered by createdAt.            *)
EXTENDS Outbox, TLC

MCEvents == 1..2
=============================================================================
