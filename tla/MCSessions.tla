----------------------------- MODULE MCSessions -----------------------------
\* Small instances of Sessions for TLC.
EXTENDS Sessions, TLC

\* Requests and grants are interchangeable: no definition tells two apart.
Symmetry == Permutations(Req) \cup Permutations(Grant)
=============================================================================
