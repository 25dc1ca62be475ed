--------------------------- MODULE MCOnePassword ---------------------------
(* One title, two records; two goroutines of one instance, or of two.        *)
EXTENDS OnePassword, TLC

CONSTANTS n1, x1, x2, i1, i2, i3, A, B, a1, a2, b1

MCNames == {n1}
MCValues == {x1, x2}
MCIds == {i1, i2}
MCThreeIds == {i1, i2, i3}
MCOneInstance == {A}
MCTwoInstances == {A, B}
MCGoroutines == {a1, a2}
MCApart == {a1, b1}
MCHomeTogether == [p \in MCGoroutines |-> A]
MCHomeApart == (a1 :> A) @@ (b1 :> B)
SymmetryTogether == Permutations(MCValues) \cup Permutations(MCThreeIds) \cup Permutations(MCGoroutines)
SymmetryApart == Permutations(MCValues) \cup Permutations(MCIds)
=============================================================================
