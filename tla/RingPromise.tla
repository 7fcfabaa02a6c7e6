----------------------------- MODULE RingPromise -----------------------------
(***************************************************************************)
(* What the key ring promises those who verify tokens, without files,      *)
(* locks, processes or crashes: each operation happens at once, and a      *)
(* token is only ever signed with a key that will not be retired before    *)
(* the token expires.                                                      *)
(***************************************************************************)
EXTENDS Naturals

CONSTANTS Key, TTL, Overlap

VARIABLES
    records,  \* [Key -> state and retiring_at]
    tokens,   \* tokens signed and not expired
    now       \* the clock

vars == <<records, tokens, now>>

Init ==
    /\ records = [k \in Key |-> [state |-> "none", retiring_at |-> 0]]
    /\ tokens = {}
    /\ now = 0

Publish(k) ==
    /\ records[k].state = "none"
    /\ records' = [records EXCEPT ![k] = [state |-> "published", retiring_at |-> 0]]
    /\ UNCHANGED <<tokens, now>>

\* The others retire from at, which is not long ago: what they have signed by now
\* expires before the overlap has passed.
Activate(k, at) ==
    /\ records[k].state = "published"
    /\ now + TTL <= at + Overlap
    /\ records' = [j \in Key |->
                      IF j = k THEN [records[j] EXCEPT !.state = "active"]
                      ELSE IF records[j].state = "active"
                      THEN [state |-> "retiring", retiring_at |-> at]
                      ELSE records[j]]
    /\ UNCHANGED <<tokens, now>>

Retire(k) ==
    /\ records[k].state = "retiring"
    /\ now >= records[k].retiring_at + Overlap
    /\ records' = [records EXCEPT ![k].state = "retired"]
    /\ UNCHANGED <<tokens, now>>

Sign(k, exp) ==
    /\ \/ records[k].state = "active"
       \/ records[k].state = "retiring" /\ exp <= records[k].retiring_at + Overlap
    /\ tokens' = tokens \cup {[kid |-> k, exp |-> exp]}
    /\ UNCHANGED <<records, now>>

Tick ==
    /\ now' = now + 1
    /\ tokens' = {t \in tokens : now' < t.exp}
    /\ UNCHANGED records

Next ==
    \/ \E k \in Key : Publish(k) \/ Retire(k)
    \/ \E k \in Key, at \in 0 .. now : Activate(k, at)
    \/ \E k \in Key, exp \in now + 1 .. now + TTL : Sign(k, exp)
    \/ Tick

Spec == Init /\ [][Next]_vars
=============================================================================
