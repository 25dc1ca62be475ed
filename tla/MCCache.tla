------------------------------ MODULE MCCache ------------------------------
(* Two names, two callers that write them, and read one of them or the list *)
(* of names.  One value is enough: copies are told apart by their times.    *)
EXTENDS Cache, TLC

CONSTANTS n1, n2, c1, c2, d1

MCNames == {n1, n2}
MCCallers == {c1, c2}
MCNameAndListing == {n1, Listing}
MCData == {d1}
MCFailures == {Unavailable}
Symmetry == Permutations(MCCallers)
=============================================================================
