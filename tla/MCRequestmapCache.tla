-------------------------- MODULE MCRequestmapCache --------------------------
(***************************************************************************)
(* RequestmapCache for TLC: a general and a special pattern, both of which *)
(* match the URL, and two roles.                                           *)
(***************************************************************************)
EXTENDS RequestmapCache, TLC

CONSTANTS wide, narrow      \* "/admin/**" and "/admin/user/**"

MCPatterns == {wide, narrow}
MCHits == {wide, narrow}

\* Every pattern matches its own text; the wide one matches the narrow one's.
MCCovers == {<<wide, wide>>, <<narrow, narrow>>, <<wide, narrow>>}

\* A second search races with the first until the second operation of an
\* administrator has begun; from then on one is under way, or has answered, at a
\* time.
Bounded ==
    edits <= 1 \/ Cardinality({r \in Readers : pc[r] # "idle" \/ answer[r] # "none"}) <= 1

Symmetry == Permutations(Readers) \cup Permutations(Admins)
=============================================================================
