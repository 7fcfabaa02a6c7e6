----------------------------- MODULE MCKeyRing -----------------------------
\* A small instance of KeyRing for TLC.
EXTENDS KeyRing, TLC

\* Keys are interchangeable, and so are processes.
Symmetry == Permutations(Key) \cup Permutations(Proc)
=============================================================================
