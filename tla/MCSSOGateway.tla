---------------------------- MODULE MCSSOGateway ----------------------------
(* Finite instances of SSOGateway. *)
EXTENDS SSOGateway, TLC

\* Threads, sessions, assertions and users are interchangeable; only the
\* safety runs use this.
Symmetry ==
    Permutations(Threads) \cup Permutations(Sessions)
        \cup Permutations(Assertions) \cup Permutations(Users)
=============================================================================
