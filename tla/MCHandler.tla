------------------------------ MODULE MCHandler ------------------------------
EXTENDS HandlerProperties, TLC

\* The calls are interchangeable; used by the safety runs only.
Symmetry == Permutations(Calls)
=============================================================================
