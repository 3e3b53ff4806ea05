--------------------------------- MODULE MCIds ---------------------------------
EXTENDS Ids, TLC

CONSTANTS c1, c2, c3

\* The callers are interchangeable.
Symmetry == Permutations(Callers)
=============================================================================
