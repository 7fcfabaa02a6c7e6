----------------------------- MODULE JwksVerifier -----------------------------
(***************************************************************************)
(* The resource API's verifier: it keeps the SSO service's public keys and *)
(* the answers of /auth/status, both for a while, and serves many requests *)
(* on one event loop.  An action is what a coroutine does from one await   *)
(* to the next; it awaits the refresh lock, the JWKS or /auth/status.      *)
(* The SSO service is the environment: it publishes and retires keys and   *)
(* raises the authorization versions of accounts.                          *)
(***************************************************************************)
EXTENDS Naturals

CONSTANTS
    Req,        \* request slots
    Kid,        \* key identifiers that tokens name
    First,      \* the key served at the start
    User,       \* accounts
    JwksTTL,    \* jwks_ttl
    StaleTTL,   \* jwks_stale_ttl
    StatusTTL,  \* status_ttl
    UnknownTTL, \* min(jwks_ttl, 30.0)
    Cooldown,   \* refresh_cooldown
    Delay,      \* longest a request to the SSO service takes
    MaxVersion, \* bound: versions stop here
    MaxNow,     \* bound: the clock stops here
    NoReq, NoKid, NoUser

ASSUME TimesAssumption ==
    /\ JwksTTL \in Nat /\ StaleTTL \in Nat /\ StatusTTL \in Nat /\ UnknownTTL \in Nat
    /\ Cooldown \in Nat /\ Delay \in Nat /\ MaxVersion \in Nat /\ MaxNow \in Nat
    /\ JwksTTL > 0 /\ StatusTTL > 0 /\ UnknownTTL <= JwksTTL
ASSUME NamesAssumption ==
    First \in Kid /\ NoReq \notin Req /\ NoKid \notin Kid /\ NoUser \notin User

VARIABLES
    keys,                 \* _keys
    jwks_until,           \* _jwks_until
    jwks_stale_until,     \* _jwks_stale_until
    status,               \* _status
    negative_kids,        \* _negative_kids
    refresh_lock,         \* the holder of _refresh_lock
    unknown_refresh_after,
    refresh_error_until,
    req,                  \* the coroutines of authenticate
    now,                  \* the clock
    served,               \* the service: what became of each key, and when
    version,              \* the service: the accounts' authorization versions
    ended                 \* history: when a version of an account stopped being current

cache   == <<keys, jwks_until, jwks_stale_until, refresh_error_until>>
unknown == <<negative_kids, unknown_refresh_after>>
service == <<served, version, ended>>
vars    == <<cache, unknown, status, refresh_lock, req, now, service>>

-----------------------------------------------------------------------------
LockPc == {"expired_lock", "unknown_lock"}
FetchPc == {"expired_fetch", "unknown_fetch"}
StatusPc == {"status", "status_answer"}

Answer == {"none", "principal", "rejected", "unknown_key", "invalid_jwks",
           "jwks_unavailable", "inactive", "status_unavailable"}

\* kid, user and ver: of the token.  at: the clock when the await began.
\* doc: the keys of the JWKS that is on its way, none before it was served.
Slot == [pc: {"idle", "start", "done"} \cup LockPc \cup FetchPc \cup StatusPc,
         kid: Kid \cup {NoKid}, user: User \cup {NoUser}, ver: Nat, at: Nat,
         doc: SUBSET Kid, active: BOOLEAN, answer: Answer]

Served == [state: {"never", "served", "retired"}, at: Nat]

TypeOK ==
    /\ keys \subseteq Kid
    /\ jwks_until \in Nat /\ jwks_stale_until \in Nat
    /\ status \in [User -> [until: Nat, version: Nat]]
    /\ negative_kids \in [Kid -> Nat]
    /\ refresh_lock \in Req \cup {NoReq}
    /\ unknown_refresh_after \in Nat /\ refresh_error_until \in Nat
    /\ req \in [Req -> Slot]
    /\ now \in Nat
    /\ served \in [Kid -> Served]
    /\ version \in [User -> Nat]
    /\ ended \in [User -> [0 .. MaxVersion -> Nat]]

-----------------------------------------------------------------------------
Idle == [pc |-> "idle", kid |-> NoKid, user |-> NoUser, ver |-> 0, at |-> 0,
         doc |-> {}, active |-> FALSE, answer |-> "none"]

Init ==
    /\ keys = {} /\ jwks_until = 0 /\ jwks_stale_until = 0
    /\ status = [u \in User |-> [until |-> 0, version |-> 0]]
    /\ negative_kids = [k \in Kid |-> 0]
    /\ refresh_lock = NoReq
    /\ unknown_refresh_after = 0 /\ refresh_error_until = 0
    /\ req = [r \in Req |-> Idle]
    /\ now = 0
    /\ served = [k \in Kid |-> [state |-> IF k = First THEN "served" ELSE "never", at |-> 0]]
    /\ version = [u \in User |-> 0]
    /\ ended = [u \in User |-> [v \in 0 .. MaxVersion |-> 0]]

\* The service's side of the JWKS, which KeyRing implements.
Service == INSTANCE JwksService WITH Key <- Kid, state <- [k \in Kid |-> served[k].state]

\* authenticate ends: with a Principal or with an exception.
Answered(r, answer) ==
    req' = [req EXCEPT ![r] = [Idle EXCEPT !.pc = "done", !.answer = answer]]

\* The coroutine awaits.
Awaits(r, pc) ==
    req' = [req EXCEPT ![r] = [@ EXCEPT !.pc = pc, !.at = now, !.doc = {}]]

\* asyncio.Lock wakes the coroutine that has waited longest.
NextInLine(r) ==
    /\ refresh_lock = NoReq
    /\ \A q \in Req : req[q].pc \in LockPc => req[r].at <= req[q].at

-----------------------------------------------------------------------------
\* Fault: the version of the token is not compared.
StatusHitAnyVersion(r) == now < status[req[r].user].until

StatusHit(r) ==
    LET cached == status[req[r].user]
    IN  now < cached.until /\ cached.version = req[r].ver

\* With the key: jwt.decode and the binding reject the token or not.
Decode(r) ==
    \/ Answered(r, "rejected")
    \/ IF StatusHit(r) THEN Answered(r, "principal") ELSE Awaits(r, "status")

\* Fault: a negative entry is believed although the key has arrived.
LookupNegativeFirst(r, present) ==
    LET kid == req[r].kid
    IN  \/ now < negative_kids[kid] /\ Answered(r, "unknown_key")
        \/ now >= negative_kids[kid] /\ kid \in present /\ Decode(r)
        \/ now >= negative_kids[kid] /\ kid \notin present /\ Awaits(r, "unknown_lock")

\* Look the token's key up in the present keys, without the lock.
Lookup(r, present) ==
    LET kid == req[r].kid
    IN  \/ kid \in present /\ Decode(r)
        \/ kid \notin present /\ now < negative_kids[kid] /\ Answered(r, "unknown_key")
        \/ kid \notin present /\ now >= negative_kids[kid] /\ Awaits(r, "unknown_lock")

\* A token arrives, of a version its account has or had.
Arrive(r, kid, user, ver) ==
    /\ req[r].pc = "idle"
    /\ ver <= version[user]
    /\ req' = [req EXCEPT ![r] = [Idle EXCEPT !.pc = "start", !.kid = kid, !.user = user,
                                              !.ver = ver]]
    /\ UNCHANGED <<cache, unknown, status, refresh_lock, now, service>>

\* authenticate, up to its first await.
Start(r) ==
    /\ req[r].pc = "start"
    /\ IF now >= jwks_until THEN Awaits(r, "expired_lock") ELSE Lookup(r, keys)
    /\ UNCHANGED <<cache, unknown, status, refresh_lock, now, service>>

-----------------------------------------------------------------------------
\* Fault: a cached key may be used however old it is.
StaleForever(r) == req[r].kid \in keys

\* A stale key may be used while the JWKS cannot be fetched.
Stale(r) == req[r].kid \in keys /\ now < jwks_stale_until

\* The lock for an expired cache: another coroutine may have refreshed it.
ExpiredEnter(r) ==
    /\ req[r].pc = "expired_lock"
    /\ NextInLine(r)
    /\ \/ now < jwks_until /\ Lookup(r, keys) /\ UNCHANGED refresh_lock
       \/ /\ now >= jwks_until /\ now < refresh_error_until
          /\ IF Stale(r) THEN Lookup(r, keys) ELSE Answered(r, "jwks_unavailable")
          /\ UNCHANGED refresh_lock
       \/ /\ now >= jwks_until /\ now >= refresh_error_until
          /\ Awaits(r, "expired_fetch")
          /\ refresh_lock' = r
    /\ UNCHANGED <<cache, unknown, status, now, service>>

\* The service answers the request for its JWKS.
JwksServed(r) ==
    /\ req[r].pc \in FetchPc /\ req[r].doc = {}
    /\ req' = [req EXCEPT ![r].doc = Service!Published]
    /\ UNCHANGED <<cache, unknown, status, refresh_lock, now, service>>

\* The assignments of _refresh, and of its callers when it succeeds.
Refreshed(r) ==
    /\ req[r].doc # {}
    /\ keys' = req[r].doc
    /\ jwks_until' = now + JwksTTL
    /\ jwks_stale_until' = now + JwksTTL + StaleTTL
    /\ refresh_error_until' = 0
    /\ refresh_lock' = NoReq

\* The document arrives; the lock is released.
ExpiredFetched(r) ==
    /\ req[r].pc = "expired_fetch"
    /\ Refreshed(r)
    /\ Lookup(r, req[r].doc)
    /\ UNCHANGED <<unknown, status, now, service>>

\* Fault: the cooldown is subtracted.
FailedInThePast(r) ==
    /\ refresh_error_until' = now - Cooldown
    /\ refresh_lock' = NoReq
    /\ UNCHANGED <<keys, jwks_until, jwks_stale_until>>

\* DependencyUnavailable: the callers of _safe_refresh note it.
Failed(r) ==
    /\ refresh_error_until' = now + Cooldown
    /\ refresh_lock' = NoReq
    /\ UNCHANGED <<keys, jwks_until, jwks_stale_until>>

\* Fault: an outage is not bridged by the stale keys.
ExpiredFailedAtOnce(r) ==
    /\ req[r].pc = "expired_fetch"
    /\ Failed(r)
    /\ Answered(r, "jwks_unavailable")
    /\ UNCHANGED <<unknown, status, now, service>>

ExpiredFailed(r) ==
    /\ req[r].pc = "expired_fetch"
    /\ Failed(r)
    /\ IF Stale(r) THEN Lookup(r, keys) ELSE Answered(r, "jwks_unavailable")
    /\ UNCHANGED <<unknown, status, now, service>>

\* TokenRejected: the document has no keys of the right form.
FetchInvalid(r) ==
    /\ req[r].pc \in FetchPc
    /\ refresh_lock' = NoReq
    /\ Answered(r, "invalid_jwks")
    /\ UNCHANGED <<cache, unknown, status, now, service>>

-----------------------------------------------------------------------------
\* The lock for an unknown key.
UnknownEnter(r) ==
    LET kid == req[r].kid
    IN  /\ req[r].pc = "unknown_lock"
        /\ NextInLine(r)
        /\ \/ /\ now < negative_kids[kid]
              /\ Answered(r, "unknown_key")
              /\ UNCHANGED <<unknown, refresh_lock>>
           \/ /\ now >= negative_kids[kid] /\ now < refresh_error_until
              /\ Answered(r, "jwks_unavailable")
              /\ UNCHANGED <<unknown, refresh_lock>>
           \/ /\ now >= negative_kids[kid] /\ now >= refresh_error_until
              /\ \/ /\ kid \in keys
                    /\ Decode(r)
                    /\ UNCHANGED <<unknown, refresh_lock>>
                 \/ /\ kid \notin keys /\ now >= unknown_refresh_after
                    /\ unknown_refresh_after' = now + UnknownTTL
                    /\ refresh_lock' = r
                    /\ Awaits(r, "unknown_fetch")
                    /\ UNCHANGED negative_kids
                 \/ /\ kid \notin keys /\ now < unknown_refresh_after
                    /\ negative_kids' = [negative_kids EXCEPT ![kid] = now + UnknownTTL]
                    /\ Answered(r, "unknown_key")
                    /\ UNCHANGED <<unknown_refresh_after, refresh_lock>>
        /\ UNCHANGED <<cache, status, now, service>>

UnknownFetched(r) ==
    LET kid == req[r].kid
    IN  /\ req[r].pc = "unknown_fetch"
        /\ Refreshed(r)
        /\ \/ kid \in req[r].doc /\ Decode(r) /\ UNCHANGED negative_kids
           \/ /\ kid \notin req[r].doc
              /\ negative_kids' = [negative_kids EXCEPT ![kid] = now + UnknownTTL]
              /\ Answered(r, "unknown_key")
        /\ UNCHANGED <<unknown_refresh_after, status, now, service>>

\* Fault: an exception in the section for an unknown key leaves the lock locked.
UnknownFailedLocked(r) ==
    /\ req[r].pc = "unknown_fetch"
    /\ refresh_error_until' = now + Cooldown
    /\ Answered(r, "jwks_unavailable")
    /\ UNCHANGED <<unknown, keys, jwks_until, jwks_stale_until, refresh_lock, status, now,
                   service>>

UnknownFailed(r) ==
    /\ req[r].pc = "unknown_fetch"
    /\ Failed(r)
    /\ Answered(r, "jwks_unavailable")
    /\ UNCHANGED <<unknown, status, now, service>>

-----------------------------------------------------------------------------
\* authorization_status, at the service.
StatusServed(r) ==
    /\ req[r].pc = "status"
    /\ req' = [req EXCEPT ![r] = [@ EXCEPT !.pc = "status_answer",
                                           !.active = req[r].ver = version[req[r].user]]]
    /\ UNCHANGED <<cache, unknown, status, refresh_lock, now, service>>

\* The answer arrives; an active one is kept for StatusTTL from now.
StatusAnswered(r) ==
    /\ req[r].pc = "status_answer"
    /\ IF req[r].active
       THEN /\ status' = [status EXCEPT ![req[r].user] =
                             [until |-> now + StatusTTL, version |-> req[r].ver]]
            /\ Answered(r, "principal")
       ELSE /\ Answered(r, "inactive")
            /\ UNCHANGED status
    /\ UNCHANGED <<cache, unknown, refresh_lock, now, service>>

StatusFailed(r) ==
    /\ req[r].pc \in StatusPc
    /\ Answered(r, "status_unavailable")
    /\ UNCHANGED <<cache, unknown, status, refresh_lock, now, service>>

\* The response is sent.
Respond(r) ==
    /\ req[r].pc = "done"
    /\ req' = [req EXCEPT ![r] = Idle]
    /\ UNCHANGED <<cache, unknown, status, refresh_lock, now, service>>

-----------------------------------------------------------------------------
\* The service publishes and retires keys; served remembers when.
Publish(k) ==
    /\ served' = [served EXCEPT ![k] = [state |-> "served", at |-> now]]
    /\ Service!Publish(k)
    /\ UNCHANGED <<cache, unknown, status, refresh_lock, req, now, version, ended>>

Retire(k) ==
    /\ served' = [served EXCEPT ![k] = [state |-> "retired", at |-> now]]
    /\ Service!Retire(k)
    /\ UNCHANGED <<cache, unknown, status, refresh_lock, req, now, version, ended>>

\* An account is suspended, or its roles or sessions are revoked.
RaiseVersion(u) ==
    /\ version[u] < MaxVersion
    /\ version' = [version EXCEPT ![u] = @ + 1]
    /\ ended' = [ended EXCEPT ![u][version[u]] = now]
    /\ UNCHANGED <<cache, unknown, status, refresh_lock, req, now, served>>

\* Time passes while nothing but the service is waited for: the event loop runs
\* what is ready, and a request to the service takes less than Delay.
Ready(r) ==
    \/ req[r].pc \in {"start", "done"}
    \/ req[r].pc \in LockPc /\ refresh_lock = NoReq

Tick ==
    /\ now < MaxNow
    /\ \A r \in Req : /\ ~Ready(r)
                      /\ req[r].pc \in FetchPc \cup StatusPc => now < req[r].at + Delay
    /\ now' = now + 1
    /\ UNCHANGED <<cache, unknown, status, refresh_lock, req, service>>

-----------------------------------------------------------------------------
Step(r) ==
    \/ Start(r) \/ ExpiredEnter(r) \/ UnknownEnter(r)
    \/ JwksServed(r) \/ ExpiredFetched(r) \/ ExpiredFailed(r) \/ FetchInvalid(r)
    \/ UnknownFetched(r) \/ UnknownFailed(r)
    \/ StatusServed(r) \/ StatusAnswered(r) \/ StatusFailed(r) \/ Respond(r)

Next ==
    \/ \E r \in Req : \/ Step(r)
                     \/ \E k \in Kid, u \in User : \E v \in 0 .. MaxVersion : Arrive(r, k, u, v)
    \/ \E k \in Kid : Publish(k) \/ Retire(k)
    \/ \E u \in User : RaiseVersion(u)
    \/ Tick

Spec == Init /\ [][Next]_vars

\* Requests to the service end, and the lock is given in the order of arrival.
FairSpec == Spec /\ \A r \in Req : SF_vars(Step(r))

-----------------------------------------------------------------------------
(***************************************************************************)
(* What the verifier promises.                                             *)
(***************************************************************************)

Answers(r, answer) == req[r].pc # "done" /\ req'[r].pc = "done" /\ req'[r].answer = answer

\* A token whose account was suspended or lost its roles or sessions is refused
\* once the status cache has run out, counted from when the service answered
\* last, whatever other answers for the account arrived meanwhile (_status).
RevocationBounded ==
    [][\A r \in Req : Answers(r, "principal") =>
          LET u == req[r].user
              v == req[r].ver
          IN  v = version[u] \/ now < ended[u][v] + StatusTTL + Delay]_vars

\* A key the service no longer serves stops verifying tokens after both cache
\* lifetimes, however fetches fail and coroutines wait for each other.
RetiredKeyBounded ==
    [][\A r \in Req : Answers(r, "principal") =>
          LET key == served[req[r].kid]
          IN  key.state = "retired" => now < key.at + JwksTTL + StaleTTL + 2 * Delay]_vars

\* A key that has been served for the lifetime of the cache is not answered
\* "unknown signing key", in spite of the negative entries and the limit on
\* refreshes for unknown keys.
PublishedKeyKnown ==
    [][\A r \in Req : Answers(r, "unknown_key") =>
          LET key == served[req[r].kid]
          IN  key.state = "served" => now < key.at + JwksTTL + 2 * Delay]_vars

\* While the JWKS cannot be fetched a cached key bridges the outage, for every
\* request that waited for the refresh.
OutageBridged ==
    [][\A r \in Req : Answers(r, "jwks_unavailable") =>
          req[r].kid \notin keys \/ now >= jwks_stale_until]_vars

\* Every request is answered: no path through the section for an expired cache or
\* the one for an unknown key keeps the lock.
RequestsAnswered == \A r \in Req : req[r].pc # "idle" ~> req[r].pc = "done"

\* "For JWKS loss, use only an unexpired validated cache" (ops/INCIDENT-RUNBOOK.md):
\* a signature is never verified with a key whose lifetime has run out.
OnlyUnexpiredKeys ==
    [][\A r \in Req :
          (\/ req[r].pc \notin StatusPc /\ req'[r].pc = "status"
           \/ req[r].pc \notin StatusPc /\ Answers(r, "principal")) => now < jwks_until']_vars
=============================================================================
