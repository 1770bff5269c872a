-------------------------- MODULE MCDepositWatcher --------------------------
(* Small instances of DepositWatcher for TLC. *)
EXTENDS DepositWatcher

CONSTANTS t1, d1
=============================================================================
