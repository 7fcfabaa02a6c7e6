----------------------------- MODULE JwksService -----------------------------
(***************************************************************************)
(* What the SSO service's JWKS promises the verifiers that fetch it: a key *)
(* appears once, disappears once, and the last one stays.  KeyRing keeps   *)
(* the promise and JwksVerifier relies on it.                              *)
(***************************************************************************)

CONSTANT Key

VARIABLE state  \* what became of each key

vars == <<state>>

Init == state = [k \in Key |-> "never"]

\* The keys of a JWKS document made now.
Published == {k \in Key : state[k] = "served"}

Publish(k) ==
    /\ state[k] = "never"
    /\ state' = [state EXCEPT ![k] = "served"]

Retire(k) ==
    /\ k \in Published
    /\ Published # {k}
    /\ state' = [state EXCEPT ![k] = "retired"]

Next == \E k \in Key : Publish(k) \/ Retire(k)

Spec == Init /\ [][Next]_vars
=============================================================================
