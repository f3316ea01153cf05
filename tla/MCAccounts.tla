------------------------------- MODULE MCAccounts -------------------------------
(* A small instance of Accounts for TLC. *)
EXTENDS Accounts, TLC

Symmetric == Permutations(Account) \cup Permutations(Session) \cup Permutations(Worker)
=============================================================================
