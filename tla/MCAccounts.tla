----------------------------- MODULE MCAccounts -----------------------------
(* Accounts for TLC, with interchangeable threads and rows. *)
EXTENDS Accounts, TLC

CONSTANT p          \* a legal password

Symmetry == Permutations(Workers) \cup Permutations(Visitors) \cup Permutations(Ids)
=============================================================================
