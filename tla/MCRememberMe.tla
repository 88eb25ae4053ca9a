---------------------------- MODULE MCRememberMe ----------------------------
(* RememberMe for TLC, with interchangeable threads, series and tokens. *)
EXTENDS RememberMe, TLC

Symmetry == Permutations(Threads) \cup Permutations(Series) \cup Permutations(Tokens)
=============================================================================
