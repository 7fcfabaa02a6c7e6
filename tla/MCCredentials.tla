--------------------------- MODULE MCCredentials ---------------------------
\* Small instances of Credentials for TLC.
EXTENDS Credentials, TLC

\* Accounts, tokens, passwords and requests are interchangeable.
Symmetry == Permutations(User) \cup Permutations(Token)
            \cup Permutations(Password) \cup Permutations(Req)
=============================================================================
