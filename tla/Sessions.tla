------------------------------ MODULE Sessions ------------------------------
(***************************************************************************)
(* Accounts, refresh grants and access tokens of the SSO service: the      *)
(* login, refresh, logout, verify and admin handlers, each one a sequence  *)
(* of database statements on one PostgreSQL server (READ COMMITTED).       *)
(*                                                                         *)
(* A request slot runs one handler at a time.  What a transaction writes   *)
(* is kept in the slot until its commit, which is one step; the row locks  *)
(* a transaction holds follow from where its handler stands (OwnerOf,      *)
(* SharersOf, HolderOf), because PostgreSQL keeps them until the end of    *)
(* the transaction.                                                        *)
(***************************************************************************)
EXTENDS Naturals

CONSTANTS
    User,        \* rows of users
    Role,        \* role names a change_role request carries
    Grant,       \* digests of the refresh tokens that can be drawn
    Req,         \* requests being served at the same time
    Admins,      \* users provisioned by bootstrap_admin before the service runs
    Subject,     \* bound: the accounts that log in and are administered
    MaxVersion,  \* bound: no admin request starts at this authz_version
    NoUser, NoGrant, NoRole

ASSUME UsersAssumption == Admins \subseteq User /\ Subject \subseteq User
ASSUME NullsAssumption == NoUser \notin User /\ NoGrant \notin Grant

VARIABLES
    users,   \* committed rows of users and user_roles
    grants,  \* committed rows of refresh_grants
    tokens,  \* access tokens that have been signed
    verify,  \* users whose e-mail verification token is not consumed
    req      \* what each request slot is doing

vars == <<users, grants, tokens, verify, req>>

-----------------------------------------------------------------------------
Status == {"pending", "active", "suspended"}

RoleName == Role \cup {"admin", "user", "pending"}

UserRow == [status: Status, version: Nat, roles: SUBSET RoleName]

\* at (the owner's authz_version when the row was committed), parent (the
\* grant it was rotated from) and sent (its raw token went to a client) are
\* history: no column holds them.
GrantRow == [state: {"absent", "live", "consumed"}, expired: BOOLEAN,
             user: User \cup {NoUser}, parent: Grant \cup {NoGrant},
             at: Nat, sent: BOOLEAN]

AccessToken == [user: User, version: Nat, roles: SUBSET RoleName]

AdminOp == {"approve", "suspend", "grant_role", "remove_role", "revoke"}

Op == AdminOp \cup {"none", "login", "refresh", "verify"}

LockedPc == {"admin_invalidate", "admin_consume", "admin_commit"}

Pc == LockedPc \cup
      {"idle", "bundle_user", "bundle_roles", "bundle_insert", "bundle_commit",
       "rotate_claim", "rotate_insert", "rotate_commit",
       "admin_role", "admin_lock", "verify_read", "verify_write"}

Slot == [pc: Pc, op: Op, user: User \cup {NoUser}, actor: User \cup {NoUser},
         role: Role \cup {NoRole}, old: Grant \cup {NoGrant},
         new: Grant \cup {NoGrant}, seen: Status, ver: Nat,
         roles: SUBSET RoleName, pend: SUBSET Grant]

TypeOK ==
    /\ users \in [User -> UserRow]
    /\ grants \in [Grant -> GrantRow]
    /\ tokens \subseteq AccessToken
    /\ verify \subseteq User
    /\ req \in [Req -> Slot]

-----------------------------------------------------------------------------
Idle == [pc |-> "idle", op |-> "none", user |-> NoUser, actor |-> NoUser,
         role |-> NoRole, old |-> NoGrant, new |-> NoGrant, seen |-> "pending",
         ver |-> 0, roles |-> {}, pend |-> {}]

NoRow == [state |-> "absent", expired |-> FALSE, user |-> NoUser,
          parent |-> NoGrant, at |-> 0, sent |-> FALSE]

\* register committed a pending row and its verification token; bootstrap_admin
\* made the administrators.
Init ==
    /\ users = [u \in User |->
                  IF u \in Admins
                  THEN [status |-> "active", version |-> 2, roles |-> {"admin"}]
                  ELSE [status |-> "pending", version |-> 1, roles |-> {}]]
    /\ grants = [g \in Grant |-> NoRow]
    /\ tokens = {}
    /\ verify = User \ Admins
    /\ req = [r \in Req |-> Idle]

-----------------------------------------------------------------------------
\* Row locks.  SELECT ... FOR UPDATE of a users row excludes every other lock
\* on it; the foreign key of an inserted grant takes FOR KEY SHARE on it; the
\* UPDATE of a refresh_grants row locks that row.

OwnerOf(u) == {r \in Req : req[r].pc \in LockedPc /\ req[r].user = u}

SharersOf(u) ==
    {r \in Req : /\ req[r].user = u
                 /\ \/ req[r].pc = "rotate_commit"
                    \/ req[r].pc = "bundle_commit" /\ req[r].op = "login"}

HolderOf(g) ==
    {r \in Req : \/ req[r].pc \in {"rotate_insert", "rotate_commit"} /\ req[r].old = g
                 \/ req[r].pc = "admin_commit" /\ g \in req[r].pend}

\* token_urlsafe(48): a raw token is never drawn twice.
Undrawn == {g \in Grant : grants[g].state = "absent" /\ \A r \in Req : req[r].new # g}

Advance(r, pc) == req' = [req EXCEPT ![r].pc = pc]

Finish(r) == req' = [req EXCEPT ![r] = Idle]

-----------------------------------------------------------------------------
\* Login: authenticate's transaction accepts the credentials of an active user;
\* issue_bundle then runs in a second one.
Authenticate(r, u) ==
    /\ req[r].pc = "idle"
    /\ users[u].status = "active"
    /\ \E g \in Undrawn :
          req' = [req EXCEPT ![r] = [Idle EXCEPT !.pc = "bundle_user", !.op = "login",
                                                 !.user = u, !.new = g]]
    /\ UNCHANGED <<users, grants, tokens, verify>>

\* issue_bundle: the users row is read without a lock.
BundleUser(r) ==
    LET row == users[req[r].user] IN
    /\ req[r].pc = "bundle_user"
    /\ IF row.status = "active"
       THEN req' = [req EXCEPT ![r] = [@ EXCEPT !.pc = "bundle_roles", !.ver = row.version]]
       ELSE Finish(r)
    /\ UNCHANGED <<users, grants, tokens, verify>>

\* The roles are a second statement, with a snapshot of its own.
BundleRoles(r) ==
    /\ req[r].pc = "bundle_roles"
    /\ req' = [req EXCEPT ![r] =
                  [@ EXCEPT !.roles = users[req[r].user].roles,
                            !.pc = IF req[r].op = "refresh" THEN "bundle_commit"
                                                             ELSE "bundle_insert"]]
    /\ UNCHANGED <<users, grants, tokens, verify>>

\* Fault: the insert does not wait for the lock on the owner's row.
InsertGrantUnlocked(r, from, to) ==
    /\ req[r].pc = from
    /\ Advance(r, to)
    /\ UNCHANGED <<users, grants, tokens, verify>>

\* issue_refresh: the foreign key waits for a FOR UPDATE on the owner's row.
InsertGrant(r, from, to) ==
    /\ req[r].pc = from
    /\ OwnerOf(req[r].user) = {}
    /\ Advance(r, to)
    /\ UNCHANGED <<users, grants, tokens, verify>>

BundleInsert(r) == InsertGrant(r, "bundle_insert", "bundle_commit")

NewRow(r, parent, sent) ==
    [state |-> "live", expired |-> FALSE, user |-> req[r].user, parent |-> parent,
     at |-> users[req[r].user].version, sent |-> sent]

\* Fault: the version is read again when the token is signed.
BundleCommitLateVersion(r) ==
    /\ req[r].pc = "bundle_commit"
    /\ tokens' = tokens \cup {[user |-> req[r].user, version |-> users[req[r].user].version,
                               roles |-> req[r].roles]}
    /\ grants' = IF req[r].op = "login"
                 THEN [grants EXCEPT ![req[r].new] = NewRow(r, NoGrant, TRUE)]
                 ELSE [grants EXCEPT ![req[r].new].sent = TRUE]
    /\ Finish(r)
    /\ UNCHANGED <<users, verify>>

\* The access token is signed with what the transaction read, then it commits
\* and the pair is returned.
BundleCommit(r) ==
    /\ req[r].pc = "bundle_commit"
    /\ tokens' = tokens \cup {[user |-> req[r].user, version |-> req[r].ver,
                               roles |-> req[r].roles]}
    /\ grants' = IF req[r].op = "login"
                 THEN [grants EXCEPT ![req[r].new] = NewRow(r, NoGrant, TRUE)]
                 ELSE [grants EXCEPT ![req[r].new].sent = TRUE]
    /\ Finish(r)
    /\ UNCHANGED <<users, verify>>

-----------------------------------------------------------------------------
\* Fault: the owner's status is not part of the WHERE clause.
RotateStartAnyOwner(r, g) ==
    /\ req[r].pc = "idle"
    /\ grants[g].sent /\ grants[g].state = "live" /\ ~grants[g].expired
    /\ \E n \in Undrawn :
          req' = [req EXCEPT ![r] = [Idle EXCEPT !.pc = "rotate_claim", !.op = "refresh",
                                                 !.user = grants[g].user,
                                                 !.old = g, !.new = n]]
    /\ UNCHANGED <<users, grants, tokens, verify>>

\* Refresh: rotate_refresh's UPDATE starts on a snapshot in which the grant
\* matches and its owner is active.  A grant that does not match is a 401.
RotateStart(r, g) ==
    /\ req[r].pc = "idle"
    /\ grants[g].sent /\ grants[g].state = "live" /\ ~grants[g].expired
    /\ users[grants[g].user].status = "active"
    /\ \E n \in Undrawn :
          req' = [req EXCEPT ![r] = [Idle EXCEPT !.pc = "rotate_claim", !.op = "refresh",
                                                 !.user = grants[g].user,
                                                 !.old = g, !.new = n]]
    /\ UNCHANGED <<users, grants, tokens, verify>>

\* Fault: select, then update by key, without looking at consumed_at again.
RotateClaimUnchecked(r) ==
    /\ req[r].pc = "rotate_claim"
    /\ HolderOf(req[r].old) = {}
    /\ Advance(r, "rotate_insert")
    /\ UNCHANGED <<users, grants, tokens, verify>>

\* Once nobody holds the row, the WHERE clause is evaluated again on it.
RotateClaim(r) ==
    /\ req[r].pc = "rotate_claim"
    /\ HolderOf(req[r].old) = {}
    /\ IF grants[req[r].old].state = "live" THEN Advance(r, "rotate_insert") ELSE Finish(r)
    /\ UNCHANGED <<users, grants, tokens, verify>>

RotateInsert(r) == InsertGrant(r, "rotate_insert", "rotate_commit")

\* The first transaction of the handler ends; issue_bundle follows in another.
RotateCommit(r) ==
    /\ req[r].pc = "rotate_commit"
    /\ grants' = [grants EXCEPT ![req[r].old].state = "consumed",
                                ![req[r].new] = NewRow(r, req[r].old, FALSE)]
    /\ Advance(r, "bundle_user")
    /\ UNCHANGED <<users, tokens, verify>>

\* Logout: one UPDATE and its commit.
Logout(r, g) ==
    /\ req[r].pc = "idle"
    /\ grants[g].sent /\ grants[g].state = "live"
    /\ HolderOf(g) = {}
    /\ grants' = [grants EXCEPT ![g].state = "consumed"]
    /\ UNCHANGED <<users, tokens, verify, req>>

-----------------------------------------------------------------------------
\* The admin handlers.  Acting on oneself is refused before the transaction,
\* then _assert_admin reads the actor's status and, in a second statement, its
\* admin role, both without a lock.
SelfAction(op, actor, target, role) ==
    /\ actor = target
    /\ \/ op \in {"suspend", "revoke"}
       \/ op = "remove_role" /\ role = "admin"

AdminStart(r, op, actor, target, role) ==
    /\ req[r].pc = "idle"
    /\ users[target].version < MaxVersion
    /\ ~SelfAction(op, actor, target, role)
    /\ users[actor].status = "active"
    /\ req' = [req EXCEPT ![r] = [Idle EXCEPT !.pc = "admin_role", !.op = op,
                                              !.user = target, !.actor = actor, !.role = role]]
    /\ UNCHANGED <<users, grants, tokens, verify>>

AdminRole(r) ==
    /\ req[r].pc = "admin_role"
    /\ IF "admin" \in users[req[r].actor].roles THEN Advance(r, "admin_lock") ELSE Finish(r)
    /\ UNCHANGED <<users, grants, tokens, verify>>

\* Fault: the target is read without FOR UPDATE.
AdminLockPlainRead(r) ==
    /\ req[r].pc = "admin_lock"
    /\ req' = [req EXCEPT ![r] = [@ EXCEPT !.pc = "admin_invalidate",
                                           !.ver = users[req[r].user].version]]
    /\ UNCHANGED <<users, grants, tokens, verify>>

\* SELECT ... FOR UPDATE of the target waits for every other lock on the row.
AdminLock(r) ==
    /\ req[r].pc = "admin_lock"
    /\ OwnerOf(req[r].user) = {}
    /\ SharersOf(req[r].user) = {}
    /\ req' = [req EXCEPT ![r] = [@ EXCEPT !.pc = "admin_invalidate",
                                           !.ver = users[req[r].user].version]]
    /\ UNCHANGED <<users, grants, tokens, verify>>

\* _invalidate_authorization's UPDATE starts: the rows its snapshot matches.
AdminInvalidate(r) ==
    /\ req[r].pc = "admin_invalidate"
    /\ req' = [req EXCEPT ![r] =
                  [@ EXCEPT !.pc = "admin_consume",
                            !.pend = {g \in Grant : /\ grants[g].state = "live"
                                                    /\ grants[g].user = req[r].user}]]
    /\ UNCHANGED <<users, grants, tokens, verify>>

\* Fault: a new role is not taken for a reason to end the sessions.
AdminConsumeNotOnGrant(r) ==
    /\ req[r].pc = "admin_consume"
    /\ \A g \in req[r].pend : HolderOf(g) = {}
    /\ req' = [req EXCEPT ![r] =
                  [@ EXCEPT !.pc = "admin_commit",
                            !.pend = {g \in req[r].pend : /\ grants[g].state = "live"
                                                          /\ req[r].op # "grant_role"}]]
    /\ UNCHANGED <<users, grants, tokens, verify>>

\* It locks each of them, waiting for their holders, and drops those that were
\* consumed in the meantime.
AdminConsume(r) ==
    /\ req[r].pc = "admin_consume"
    /\ \A g \in req[r].pend : HolderOf(g) = {}
    /\ req' = [req EXCEPT ![r] =
                  [@ EXCEPT !.pc = "admin_commit",
                            !.pend = {g \in req[r].pend : grants[g].state = "live"}]]
    /\ UNCHANGED <<users, grants, tokens, verify>>

\* Fault: a status no other handler knows.
StatusAfterUnknown(op, status) ==
    CASE op = "approve" -> "active"
      [] op = "suspend" -> "disabled"
      [] OTHER          -> status

StatusAfter(op, status) ==
    CASE op = "approve" -> "active"
      [] op = "suspend" -> "suspended"
      [] OTHER          -> status

RolesAfter(op, role, roles) ==
    CASE op = "approve"     -> (roles \ {"pending"}) \cup {"user"}
      [] op = "grant_role"  -> roles \cup {role}
      [] op = "remove_role" -> roles \ {role}
      [] OTHER              -> roles

\* Fault: a suspension leaves authz_version alone.
AdminCommitSuspendKeepsVersion(r) ==
    LET t == req[r].user IN
    /\ req[r].pc = "admin_commit"
    /\ users' = [users EXCEPT ![t] =
                    [status  |-> StatusAfter(req[r].op, @.status),
                     version |-> IF req[r].op = "suspend" THEN req[r].ver ELSE req[r].ver + 1,
                     roles   |-> RolesAfter(req[r].op, req[r].role, @.roles)]]
    /\ grants' = [g \in Grant |-> IF g \in req[r].pend
                                  THEN [grants[g] EXCEPT !.state = "consumed"]
                                  ELSE grants[g]]
    /\ Finish(r)
    /\ UNCHANGED <<tokens, verify>>

AdminCommit(r) ==
    LET t == req[r].user IN
    /\ req[r].pc = "admin_commit"
    /\ users' = [users EXCEPT ![t] =
                    [status  |-> StatusAfter(req[r].op, @.status),
                     version |-> req[r].ver + 1,
                     roles   |-> RolesAfter(req[r].op, req[r].role, @.roles)]]
    /\ grants' = [g \in Grant |-> IF g \in req[r].pend
                                  THEN [grants[g] EXCEPT !.state = "consumed"]
                                  ELSE grants[g]]
    /\ Finish(r)
    /\ UNCHANGED <<tokens, verify>>

-----------------------------------------------------------------------------
\* verify_email: the token is consumed in one transaction; a second one reads
\* the status without a lock and, when it is not active yet, sets it.
VerifyConsume(r, u) ==
    /\ req[r].pc = "idle"
    /\ u \in verify
    /\ verify' = verify \ {u}
    /\ req' = [req EXCEPT ![r] = [Idle EXCEPT !.pc = "verify_read", !.op = "verify", !.user = u]]
    /\ UNCHANGED <<users, grants, tokens>>

VerifyRead(r) ==
    /\ req[r].pc = "verify_read"
    /\ req' = [req EXCEPT ![r] = [@ EXCEPT !.pc = "verify_write",
                                           !.seen = users[req[r].user].status]]
    /\ UNCHANGED <<users, grants, tokens, verify>>

VerifyWrite(r) ==
    /\ req[r].pc = "verify_write"
    /\ IF req[r].seen = "active"
       THEN UNCHANGED users
       ELSE /\ OwnerOf(req[r].user) = {}
            /\ users' = [users EXCEPT ![req[r].user].status = "active"]
    /\ Finish(r)
    /\ UNCHANGED <<grants, tokens, verify>>

-----------------------------------------------------------------------------
\* The requests r waits for, and the victim of a deadlock: PostgreSQL aborts
\* one transaction of a cycle.
Blockers(r) ==
    CASE req[r].pc \in {"bundle_insert", "rotate_insert"} -> OwnerOf(req[r].user)
      [] req[r].pc = "rotate_claim"  -> HolderOf(req[r].old)
      [] req[r].pc = "admin_lock"    -> OwnerOf(req[r].user) \cup SharersOf(req[r].user)
      [] req[r].pc = "admin_consume" -> UNION {HolderOf(g) : g \in req[r].pend}
      [] req[r].pc = "verify_write" /\ req[r].seen # "active" -> OwnerOf(req[r].user)
      [] OTHER -> {}

\* Fault: nobody breaks a cycle.
DeadlockAbortNever(r) == FALSE /\ Finish(r)

DeadlockAbort(r) ==
    /\ \E s \in Blockers(r) : r \in Blockers(s)
    /\ Finish(r)
    /\ UNCHANGED <<users, grants, tokens, verify>>

\* The connection, the client or the process goes away: the open transaction
\* is rolled back, what earlier transactions committed stays.
Crash(r) ==
    /\ req[r].pc # "idle"
    /\ Finish(r)
    /\ UNCHANGED <<users, grants, tokens, verify>>

\* expires_at of a grant passes.
Expire(g) ==
    /\ grants[g].state = "live" /\ ~grants[g].expired
    /\ grants' = [grants EXCEPT ![g].expired = TRUE]
    /\ UNCHANGED <<users, tokens, verify, req>>

-----------------------------------------------------------------------------
\* A client sends a request to an idle slot.
Start(r) ==
    \/ \E u \in Subject : Authenticate(r, u)
    \/ \E u \in Subject : VerifyConsume(r, u)
    \/ \E g \in Grant : RotateStart(r, g)
    \/ \E g \in Grant : Logout(r, g)
    \/ \E op \in {"approve", "suspend", "revoke"}, a \in User, t \in Subject :
          AdminStart(r, op, a, t, NoRole)
    \/ \E op \in {"grant_role", "remove_role"}, a \in User, t \in Subject, role \in Role :
          AdminStart(r, op, a, t, role)

\* The next statement of the handler a slot runs.
Step(r) ==
    \/ BundleUser(r) \/ BundleRoles(r) \/ BundleInsert(r) \/ BundleCommit(r)
    \/ RotateClaim(r) \/ RotateInsert(r) \/ RotateCommit(r)
    \/ AdminRole(r) \/ AdminLock(r) \/ AdminInvalidate(r) \/ AdminConsume(r)
    \/ AdminCommit(r)
    \/ VerifyRead(r) \/ VerifyWrite(r)
    \/ DeadlockAbort(r)

Next ==
    \/ \E r \in Req : Start(r) \/ Step(r) \/ Crash(r)
    \/ \E g \in Grant : Expire(g)

Spec == Init /\ [][Next]_vars
-----------------------------------------------------------------------------
(***************************************************************************)
(* What the service promises.                                              *)
(***************************************************************************)

\* No refresh grant outlives an authorization change: every grant that is
\* still live was committed under the owner's present authz_version, so each
\* approve, suspend, role change and revoke consumed all that were committed
\* before it (_invalidate_authorization against concurrent issue_refresh).
InvalidationComplete ==
    \A g \in Grant : grants[g].state = "live" => grants[g].at = users[grants[g].user].version

\* A refresh grant is rotated at most once, however many requests present it:
\* no two grants have the same parent, and a parent is consumed
\* (rotate_refresh's UPDATE ... RETURNING).
RotationSingleUse ==
    \A g \in Grant : grants[g].parent # NoGrant =>
        /\ grants[grants[g].parent].state = "consumed"
        /\ \A h \in Grant : grants[h].parent = grants[g].parent => h = g

\* A rotation commits only from a grant that is live at that moment, for an
\* owner who is active at that moment: a suspension or a revocation that
\* committed first always wins (the WHERE clause of rotate_refresh and the
\* locks it takes).
RotationAuthorized ==
    [][\A g \in Grant :
          grants[g].state = "absent" /\ grants'[g].parent # NoGrant =>
              /\ grants[grants'[g].parent].state = "live"
              /\ users[grants'[g].user].status = "active"]_vars

\* What POST /auth/status answers for an access token.
StatusActive(t) ==
    users[t.user].status = "active" /\ users[t.user].version = t.version

\* A token that /auth/status calls active carries the owner's present roles,
\* although issue_bundle read the version and the roles in two statements that
\* a role change may come between.
ActiveTokenHasCurrentRoles ==
    \A t \in tokens : StatusActive(t) => t.roles = users[t.user].roles

\* Once /auth/status has called a token inactive it never calls it active
\* again, not even when the account is approved or verified again.
TokenRevocationFinal ==
    [][\A t \in tokens : ~StatusActive(t) => ~StatusActive(t)']_vars

\* The roles a suspended or changed account had do not come back: the version
\* of an account never falls, and rises whenever its roles change or it stops
\* being active (two admin handlers on one account never overwrite each other).
VersionTracksAuthorization ==
    [][\A u \in User :
          LET old == users[u]
              new == users'[u]
          IN  /\ new.version >= old.version
              /\ new.roles # old.roles => new.version > old.version
              /\ old.status = "active" /\ new.status # "active" =>
                    new.version > old.version]_vars

-----------------------------------------------------------------------------
\* The handlers, statement by statement, implement SessionLedger: each commit is
\* one atomic step of it, and a refresh or an authorization change takes effect
\* as if nothing else ran.
sessions == [g \in Grant |-> [state |-> grants[g].state, user |-> grants[g].user]]

Ledger == INSTANCE SessionLedger WITH accounts <- users

ImplementsLedger == Ledger!Spec

-----------------------------------------------------------------------------
\* Fairness: the server runs the statements of a request it has begun, and
\* PostgreSQL queues the requests that wait for a row lock, so none is
\* overtaken forever.  Nothing obliges a client to send or a grant to expire.
Fairness == \A r \in Req : SF_vars(Step(r))

FairSpec == Spec /\ Fairness

\* Every request is answered: no set of transactions waits on itself forever.
RequestsEnd == \A r \in Req : req[r].pc # "idle" ~> req[r].pc = "idle"

\* What GET /users/me answers to an access token: it looks at the status alone.
MeRefuses(t) == users[t.user].status # "active"

\* Once an account is suspended, /users/me refuses its access tokens until an
\* administrator approves it again.
SuspensionHolds ==
    [][\A t \in tokens :
          users[t.user].status = "suspended" /\ ~MeRefuses(t)' =>
              \E r \in Req : /\ req[r].pc = "admin_commit"
                            /\ req[r].op = "approve" /\ req[r].user = t.user]_vars
=============================================================================
