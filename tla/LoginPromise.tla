---------------------------- MODULE LoginPromise ----------------------------
(***************************************************************************)
(* What a browser's login through the BFF promises, without Redis values,  *)
(* codes or requests: a login that was begun comes back at most once, and  *)
(* opens at most one session, for an account that the identity provider    *)
(* has authenticated in that same login.                                   *)
(***************************************************************************)
CONSTANTS Login, Account, Session, NoLogin, NoAccount

VARIABLES
    logins,   \* [Login -> "none", "begun" or "back"]
    proven,   \* [Login -> accounts authenticated for it]
    sessions  \* [Session -> state, login and account]

vars == <<logins, proven, sessions>>

NoSession == [state |-> "none", login |-> NoLogin, account |-> NoAccount]

Init ==
    /\ logins = [l \in Login |-> "none"]
    /\ proven = [l \in Login |-> {}]
    /\ sessions = [s \in Session |-> NoSession]

Begin(l) ==
    /\ logins[l] = "none"
    /\ logins' = [logins EXCEPT ![l] = "begun"]
    /\ UNCHANGED <<proven, sessions>>

Prove(l, a) ==
    /\ logins[l] # "none"
    /\ proven' = [proven EXCEPT ![l] = @ \cup {a}]
    /\ UNCHANGED <<logins, sessions>>

\* The browser comes back, or the time to do so is over.
Return(l) ==
    /\ logins[l] = "begun"
    /\ logins' = [logins EXCEPT ![l] = "back"]
    /\ UNCHANGED <<proven, sessions>>

Open(s, l, a) ==
    /\ logins[l] = "back"
    /\ a \in proven[l]
    /\ \A other \in Session : sessions[other].login # l
    /\ sessions[s] = NoSession
    /\ sessions' = [sessions EXCEPT ![s] = [state |-> "live", login |-> l, account |-> a]]
    /\ UNCHANGED <<logins, proven>>

\* A session ends by logout or because its time is over.
Close(s, how) ==
    /\ sessions[s].state = "live"
    /\ sessions' = [sessions EXCEPT ![s].state = how]
    /\ UNCHANGED <<logins, proven>>

Next ==
    \/ \E l \in Login : Begin(l) \/ Return(l)
    \/ \E l \in Login, a \in Account : Prove(l, a)
    \/ \E s \in Session, l \in Login, a \in Account : Open(s, l, a)
    \/ \E s \in Session, how \in {"ended", "expired"} : Close(s, how)

Spec == Init /\ [][Next]_vars
=============================================================================
