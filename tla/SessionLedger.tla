---------------------------- MODULE SessionLedger ----------------------------
(***************************************************************************)
(* What the account and session handlers promise together, without         *)
(* requests, statements or locks: each change of an account's              *)
(* authorization ends every session of the account in the same step, and a *)
(* refresh grant is exchanged at most once, while its owner is active.     *)
(***************************************************************************)
EXTENDS Naturals

CONSTANTS User, RoleName, Grant, Admins, NoUser

VARIABLES
    accounts,  \* [User -> status, version and roles]
    sessions   \* [Grant -> state and owner]

vars == <<accounts, sessions>>

Status == {"pending", "active", "suspended"}

Undrawn == [state |-> "absent", user |-> NoUser]
Live(u) == [state |-> "live", user |-> u]
Consumed(u) == [state |-> "consumed", user |-> u]

Init ==
    /\ accounts = [u \in User |->
                     IF u \in Admins
                     THEN [status |-> "active", version |-> 2, roles |-> {"admin"}]
                     ELSE [status |-> "pending", version |-> 1, roles |-> {}]]
    /\ sessions = [g \in Grant |-> Undrawn]

\* A login creates a grant.  The account may have been suspended since the
\* login read it, so nothing is promised of its status.
Issue(u, g) ==
    /\ sessions[g] = Undrawn
    /\ sessions' = [sessions EXCEPT ![g] = Live(u)]
    /\ UNCHANGED accounts

\* A refresh exchanges a live grant of an active account for a new one.
Rotate(u, g, n) ==
    /\ accounts[u].status = "active"
    /\ sessions[g] = Live(u)
    /\ sessions[n] = Undrawn
    /\ sessions' = [sessions EXCEPT ![g] = Consumed(u), ![n] = Live(u)]
    /\ UNCHANGED accounts

Logout(u, g) ==
    /\ sessions[g] = Live(u)
    /\ sessions' = [sessions EXCEPT ![g] = Consumed(u)]
    /\ UNCHANGED accounts

\* approve, suspend, change_role and revoke_sessions.
ChangeAuthorization(u, status, roles) ==
    /\ accounts' = [accounts EXCEPT ![u] =
                       [status |-> status, version |-> @.version + 1, roles |-> roles]]
    /\ sessions' = [g \in Grant |-> IF sessions[g] = Live(u) THEN Consumed(u) ELSE sessions[g]]

\* verify_email, which neither counts a version nor ends a session.
Activate(u) ==
    /\ accounts' = [accounts EXCEPT ![u].status = "active"]
    /\ UNCHANGED sessions

Next ==
    \E u \in User :
        \/ \E g \in Grant : Issue(u, g) \/ Logout(u, g)
        \/ \E g, n \in Grant : Rotate(u, g, n)
        \/ \E status \in Status, roles \in SUBSET RoleName :
              ChangeAuthorization(u, status, roles)
        \/ Activate(u)

Spec == Init /\ [][Next]_vars
=============================================================================
