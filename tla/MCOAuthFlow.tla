---------------------------- MODULE MCOAuthFlow ----------------------------
\* Small instances of OAuthFlow for TLC.
EXTENDS OAuthFlow, TLC

\* Random values, requests and accounts are interchangeable.
Symmetry == Permutations(Txn) \cup Permutations(PCode) \cup Permutations(Code)
            \cup Permutations(Grant) \cup Permutations(Req) \cup Permutations(Account)
=============================================================================
