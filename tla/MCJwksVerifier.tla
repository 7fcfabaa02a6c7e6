---------------------------- MODULE MCJwksVerifier ----------------------------
\* Small instances of JwksVerifier for TLC.
EXTENDS JwksVerifier, TLC

\* Request slots are interchangeable.
Symmetry == Permutations(Req)

\* States that differ in deadlines that have passed behave alike: a deadline is
\* only ever compared with the clock, and the clock does not go back.
Pending(deadline) == IF now < deadline THEN deadline ELSE 0

View == <<keys, Pending(jwks_until), Pending(jwks_stale_until), Pending(refresh_error_until),
          [k \in Kid |-> Pending(negative_kids[k])], Pending(unknown_refresh_after),
          [u \in User |-> IF now < status[u].until THEN status[u] ELSE <<>>],
          refresh_lock, req, now, served, version, ended>>
=============================================================================
