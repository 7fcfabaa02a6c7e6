-------------------------- MODULE MCExternalLogin --------------------------
\* Small instances of ExternalLogin for TLC.
EXTENDS ExternalLogin, TLC

\* Browsers, states, keys, requests and the ids of new accounts are interchangeable.
Symmetry == Permutations(Browser) \cup Permutations(Flow) \cup Permutations(Key)
            \cup Permutations(Req) \cup Permutations(User \ {LocalUser})
=============================================================================
