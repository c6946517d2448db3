-------------------------- MODULE MCReclaimerPacer --------------------------
EXTENDS ReclaimerPacer, TLC
CONSTANTS n1, n2, n3

Node2 == {n1, n2}
Node3 == {n1, n2, n3}
Linked1 == {n1}
Unlinked == {n2, n3}
Low == {0}
HoldAndAmortise == {450, 1000}
NodeSymmetry == Permutations({n2, n3})
=============================================================================
