----------------------------- MODULE OAuthFlow -----------------------------
(***************************************************************************)
(* The authorization code flow of the SSO service with its lab identity    *)
(* provider, and the BFF that logs a browser in with it.                   *)
(*                                                                         *)
(* What the flow keeps between requests are one-time values in Redis, each *)
(* put under a fresh random name and read with GETDEL: the BFF's pending   *)
(* logins, the SSO's transactions, the provider's codes and the            *)
(* authorization codes.  A browser may follow any link it was given, again *)
(* and in any combination.  An action is one Redis command, one database   *)
(* transaction or one HTTP reply, so whatever other requests do may come   *)
(* between two of them; any value may expire and any request may die.      *)
(*                                                                         *)
(* Issuing, revoking and invalidating refresh grants are the atomic steps  *)
(* of SessionLedger, which the statements of those handlers implement      *)
(* (SessionsProofs, LedgerImplemented).                                    *)
(***************************************************************************)
EXTENDS Naturals

CONSTANTS
    Login,       \* a client's login: its state and its PKCE verifier
    Native,      \* the logins of clients that call /oauth/token themselves
    Account,     \* subjects of the identity provider
    Txn, PCode, Code, Grant,   \* random values that can be drawn
    Req,         \* requests being served at the same time
    MaxVersion,  \* bound: no authorization change at this authz_version
    NoLogin, NoAccount, NoTxn, NoPCode, NoCode, NoGrant

ASSUME LoginsAssumption == Native \subseteq Login
ASSUME NullsAssumption ==
    /\ NoLogin \notin Login /\ NoAccount \notin Account /\ NoTxn \notin Txn
    /\ NoPCode \notin PCode /\ NoCode \notin Code /\ NoGrant \notin Grant

VARIABLES
    pending,   \* BFF: the logins waiting for their callback
    txns,      \* SSO: transactions behind the provider's state
    pcodes,    \* provider: codes
    codes,     \* SSO: authorization codes
    accounts,  \* SSO: rows of users and user_roles
    grants,    \* SSO: refresh grants
    bff,       \* BFF: sessions, named by the refresh token they hold
    req,       \* what each request slot is doing
    firstTry,  \* history: the verifier first presented with each code
    origin     \* history: the code each grant was issued for

store == <<pending, txns, pcodes, codes>>
vars == <<store, accounts, grants, bff, req, firstTry, origin>>

Ledger == INSTANCE SessionLedger WITH
    User <- Account, RoleName <- {"user"}, Admins <- {}, NoUser <- NoAccount,
    sessions <- grants

-----------------------------------------------------------------------------
\* The logins of browsers, through the BFF.
Web == Login \ Native

Value == {"absent", "live", "spent"}

OAuthTransaction == [state: Value, login: Login \cup {NoLogin}]

ProviderResult == [state: Value, txn: Txn \cup {NoTxn}, account: Account \cup {NoAccount}]

CodeGrant == [state: Value, login: Login \cup {NoLogin}, account: Account \cup {NoAccount}]

\* login is history: the session does not say which login it came from.
BffSession == [state: {"none", "live", "expired", "ended"}, login: Login \cup {NoLogin}]

UserRow == [status: {"absent", "active", "suspended"}, version: Nat, roles: SUBSET {"user"}]

CallbackPc == {"provider_code", "user_read", "user_insert", "put_code"}
TokenPc == {"exchange", "token_read", "token_commit", "answer"}
LogoutPc == {"revoke", "delete"}

Slot == [pc: {"idle"} \cup CallbackPc \cup TokenPc \cup LogoutPc,
         found: BOOLEAN,     \* the transaction was there
         waiting: BOOLEAN,   \* the caller still waits for the token reply
         txn: Txn \cup {NoTxn}, pcode: PCode \cup {NoPCode},
         code: Code \cup {NoCode}, login: Login \cup {NoLogin},
         grant: Grant \cup {NoGrant}]

TypeOK ==
    /\ pending \in [Web -> {"none", "begun", "back"}]
    /\ txns \in [Txn -> OAuthTransaction]
    /\ pcodes \in [PCode -> ProviderResult]
    /\ codes \in [Code -> CodeGrant]
    /\ accounts \in [Account -> UserRow]
    /\ grants \in [Grant -> [state: {"absent", "live", "consumed"},
                             user: Account \cup {NoAccount}]]
    /\ bff \in [Grant -> BffSession]
    /\ req \in [Req -> Slot]
    /\ firstTry \in [Code -> Login \cup {NoLogin}]
    /\ origin \in [Grant -> Code \cup {NoCode}]

Idle == [pc |-> "idle", found |-> FALSE, waiting |-> FALSE, txn |-> NoTxn,
         pcode |-> NoPCode, code |-> NoCode, login |-> NoLogin, grant |-> NoGrant]

Init ==
    /\ pending = [l \in Web |-> "none"]
    /\ txns = [t \in Txn |-> [state |-> "absent", login |-> NoLogin]]
    /\ pcodes = [p \in PCode |-> [state |-> "absent", txn |-> NoTxn, account |-> NoAccount]]
    /\ codes = [c \in Code |-> [state |-> "absent", login |-> NoLogin, account |-> NoAccount]]
    /\ accounts = [a \in Account |-> [status |-> "absent", version |-> 0, roles |-> {}]]
    /\ grants = [g \in Grant |-> Ledger!Undrawn]
    /\ bff = [g \in Grant |-> [state |-> "none", login |-> NoLogin]]
    /\ req = [r \in Req |-> Idle]
    /\ firstTry = [c \in Code |-> NoLogin]
    /\ origin = [g \in Grant |-> NoCode]

-----------------------------------------------------------------------------
Advance(r, pc) == req' = [req EXCEPT ![r].pc = pc]

Finish(r) == req' = [req EXCEPT ![r] = Idle]

\* RedisOneTimeStore.take: GETDEL, which leaves nothing behind.
Take(values, name) == [values EXCEPT ![name].state = "spent"]

Drawn(values) == {name \in DOMAIN values : values[name].state # "absent"}

-----------------------------------------------------------------------------
\* BFF GET /login: BffOAuthFlow.begin keeps state and verifier for 300 s and
\* sends the browser to /oauth/authorize.
Begin(l) ==
    /\ pending[l] = "none"
    /\ pending' = [pending EXCEPT ![l] = "begun"]
    /\ UNCHANGED <<txns, pcodes, codes, accounts, grants, bff, req, firstTry, origin>>

Begun(l) == IF l \in Native THEN TRUE ELSE pending[l] # "none"

\* GET /oauth/authorize, for a registered client: the transaction remembers
\* the client's state and challenge.
Authorize(l, t) ==
    /\ Begun(l)
    /\ txns[t].state = "absent"
    /\ txns' = [txns EXCEPT ![t] = [state |-> "live", login |-> l]]
    /\ UNCHANGED <<pending, pcodes, codes, accounts, grants, bff, req, firstTry, origin>>

\* GET /oauth/fake-provider/authorize: the user is authenticated as a.  The
\* provider does not look the state up.
FakeAuthorize(t, a, p) ==
    /\ t \in Drawn(txns)
    /\ pcodes[p].state = "absent"
    /\ pcodes' = [pcodes EXCEPT ![p] = [state |-> "live", txn |-> t, account |-> a]]
    /\ UNCHANGED <<pending, txns, codes, accounts, grants, bff, req, firstTry, origin>>

-----------------------------------------------------------------------------
\* GET /oauth/provider/callback: takes the transaction ...
ProviderCallback(r, t, p) ==
    /\ req[r].pc = "idle"
    /\ t \in Drawn(txns) /\ p \in Drawn(pcodes)
    /\ txns[t].state = "live" \/ pcodes[p].state = "live"
    /\ txns' = Take(txns, t)
    /\ req' = [req EXCEPT ![r] = [Idle EXCEPT !.pc = "provider_code", !.txn = t, !.pcode = p,
                                              !.found = txns[t].state = "live"]]
    /\ UNCHANGED <<pending, pcodes, codes, accounts, grants, bff, firstTry, origin>>

\* ... and then, in any case, the provider's code, and compares the two.
ProviderExchange(r) ==
    LET p == req[r].pcode IN
    /\ req[r].pc = "provider_code"
    /\ pcodes' = Take(pcodes, p)
    /\ IF req[r].found /\ pcodes[p].state = "live" /\ pcodes[p].txn = req[r].txn
       THEN Advance(r, "user_read")
       ELSE Finish(r)
    /\ UNCHANGED <<pending, txns, codes, accounts, grants, bff, firstTry, origin>>

Subject(r) == pcodes[req[r].pcode].account

\* _oauth_user: the account of the subject, looked up without a lock ...
UserRead(r) ==
    /\ req[r].pc = "user_read"
    /\ Advance(r, IF accounts[Subject(r)].status = "absent" THEN "user_insert" ELSE "put_code")
    /\ UNCHANGED <<store, accounts, grants, bff, firstTry, origin>>

\* Fault: the new row keeps the default status.
UserInsertPending(r) ==
    /\ req[r].pc = "user_insert"
    /\ IF accounts[Subject(r)].status = "absent"
       THEN /\ accounts' = [accounts EXCEPT ![Subject(r)] =
                               [status |-> "pending", version |-> 1, roles |-> {"user"}]]
            /\ Advance(r, "put_code")
       ELSE /\ Finish(r)
            /\ UNCHANGED accounts
    /\ UNCHANGED <<store, grants, bff, firstTry, origin>>

\* Fault: a row that is there already is updated (an upsert).
UserInsertUpsert(r) ==
    /\ req[r].pc = "user_insert"
    /\ accounts' = [accounts EXCEPT ![Subject(r)] =
                        [status |-> "active", version |-> 1, roles |-> {"user"}]]
    /\ Advance(r, "put_code")
    /\ UNCHANGED <<store, grants, bff, firstTry, origin>>

\* ... and created when there was none.  The e-mail is unique: an insert that
\* finds the row of another request raises, and the login fails.
UserInsert(r) ==
    /\ req[r].pc = "user_insert"
    /\ IF accounts[Subject(r)].status = "absent"
       THEN /\ accounts' = [accounts EXCEPT ![Subject(r)] =
                               [status |-> "active", version |-> 1, roles |-> {"user"}]]
            /\ Advance(r, "put_code")
       ELSE /\ Finish(r)
            /\ UNCHANGED accounts
    /\ UNCHANGED <<store, grants, bff, firstTry, origin>>

\* The authorization code carries the transaction's challenge; the browser
\* takes it to the client with the transaction's client_state.
PutCode(r, c) ==
    /\ req[r].pc = "put_code"
    /\ codes[c].state = "absent"
    /\ codes' = [codes EXCEPT ![c] = [state |-> "live", login |-> txns[req[r].txn].login,
                                      account |-> Subject(r)]]
    /\ Finish(r)
    /\ UNCHANGED <<pending, txns, pcodes, accounts, grants, bff, firstTry, origin>>

-----------------------------------------------------------------------------
Exchange(r, l, c) ==
    req' = [req EXCEPT ![r] = [Idle EXCEPT !.pc = "exchange", !.waiting = TRUE,
                                           !.login = l, !.code = c]]

\* Fault: the pending login is read and stays until it expires.
BffCallbackPeek(r, l, c) ==
    /\ req[r].pc = "idle"
    /\ c \in Drawn(codes)
    /\ pending[l] = "begun"
    /\ Exchange(r, l, c)
    /\ UNCHANGED <<store, accounts, grants, bff, firstTry, origin>>

\* BFF GET /auth/callback: BffOAuthFlow.complete takes the pending login and
\* posts the code with the login's verifier.  Without it the answer is 401.
BffCallback(r, l, c) ==
    /\ req[r].pc = "idle"
    /\ c \in Drawn(codes)
    /\ pending[l] = "begun"
    /\ pending' = [pending EXCEPT ![l] = "back"]
    /\ Exchange(r, l, c)
    /\ UNCHANGED <<txns, pcodes, codes, accounts, grants, bff, firstTry, origin>>

\* A client that keeps its verifier posts the code itself, and may do it again
\* when no reply came.
NativeExchange(r, l, c) ==
    /\ req[r].pc = "idle"
    /\ l \in Native
    /\ codes[c].state = "live"
    /\ Exchange(r, l, c)
    /\ UNCHANGED <<store, accounts, grants, bff, firstTry, origin>>

\* Fault: the challenge is not compared.
TokenTakeAnyVerifier(r) ==
    LET c == req[r].code IN
    /\ req[r].pc = "exchange"
    /\ codes' = Take(codes, c)
    /\ firstTry' = [firstTry EXCEPT ![c] = IF @ = NoLogin THEN req[r].login ELSE @]
    /\ IF codes[c].state = "live" THEN Advance(r, "token_read") ELSE Finish(r)
    /\ UNCHANGED <<pending, txns, pcodes, accounts, grants, bff, origin>>

\* Fault: a code presented with a wrong verifier is put back.
TokenTakePutBack(r) ==
    LET c == req[r].code IN
    /\ req[r].pc = "exchange"
    /\ firstTry' = [firstTry EXCEPT ![c] = IF @ = NoLogin THEN req[r].login ELSE @]
    /\ IF codes[c].state = "live" /\ codes[c].login = req[r].login
       THEN codes' = Take(codes, c) /\ Advance(r, "token_read")
       ELSE UNCHANGED codes /\ Finish(r)
    /\ UNCHANGED <<pending, txns, pcodes, accounts, grants, bff, origin>>

\* POST /oauth/token: the code is taken before anything is compared.
TokenTake(r) ==
    LET c == req[r].code IN
    /\ req[r].pc = "exchange"
    /\ codes' = Take(codes, c)
    /\ firstTry' = [firstTry EXCEPT ![c] = IF @ = NoLogin THEN req[r].login ELSE @]
    /\ IF codes[c].state = "live" /\ codes[c].login = req[r].login
       THEN Advance(r, "token_read")
       ELSE Finish(r)
    /\ UNCHANGED <<pending, txns, pcodes, accounts, grants, bff, origin>>

\* issue_bundle reads the account ...
TokenRead(r) ==
    /\ req[r].pc = "token_read"
    /\ IF accounts[codes[req[r].code].account].status = "active"
       THEN Advance(r, "token_commit")
       ELSE Finish(r)
    /\ UNCHANGED <<store, accounts, grants, bff, firstTry, origin>>

\* ... and commits a refresh grant for it.
TokenCommit(r, g) ==
    /\ req[r].pc = "token_commit"
    /\ Ledger!Issue(codes[req[r].code].account, g)
    /\ origin' = [origin EXCEPT ![g] = req[r].code]
    /\ req' = [req EXCEPT ![r] = [@ EXCEPT !.pc = "answer", !.grant = g]]
    /\ UNCHANGED <<store, bff, firstTry>>

\* The reply arrives: the BFF makes a session of it and sets the cookie.  A
\* reply that nobody waits for is dropped.
TokenAnswer(r) ==
    LET g == req[r].grant
        l == req[r].login
    IN
    /\ req[r].pc = "answer"
    /\ IF req[r].waiting /\ l \notin Native
       THEN bff' = [bff EXCEPT ![g] = [state |-> "live", login |-> l]]
       ELSE UNCHANGED bff
    /\ Finish(r)
    /\ UNCHANGED <<store, accounts, grants, firstTry, origin>>

\* The caller's timeout of 5 s, or its end: the SSO goes on without it.
GiveUp(r) ==
    /\ req[r].pc \in TokenPc /\ req[r].waiting
    /\ req' = [req EXCEPT ![r].waiting = FALSE]
    /\ UNCHANGED <<store, accounts, grants, bff, firstTry, origin>>

-----------------------------------------------------------------------------
\* BFF POST /logout, with the session's CSRF token: reads the session, ...
Logout(r, g) ==
    /\ req[r].pc = "idle"
    /\ bff[g].state = "live"
    /\ req' = [req EXCEPT ![r] = [Idle EXCEPT !.pc = "revoke", !.grant = g]]
    /\ UNCHANGED <<store, accounts, grants, bff, firstTry, origin>>

\* Fault: a revocation that fails is ignored.
RevokeIgnored(r) ==
    /\ req[r].pc = "revoke"
    /\ Advance(r, "delete")
    /\ UNCHANGED <<store, accounts, grants, bff, firstTry, origin>>

\* ... revokes its refresh token at the SSO, which says 204 in any case, ...
Revoke(r) ==
    LET g == req[r].grant IN
    /\ req[r].pc = "revoke"
    /\ IF grants[g].state = "live"
       THEN Ledger!Logout(grants[g].user, g)
       ELSE UNCHANGED <<accounts, grants>>
    /\ Advance(r, "delete")
    /\ UNCHANGED <<store, bff, firstTry, origin>>

\* ... and deletes it.
Delete(r) ==
    LET g == req[r].grant IN
    /\ req[r].pc = "delete"
    /\ bff' = IF bff[g].state = "live" THEN [bff EXCEPT ![g].state = "ended"] ELSE bff
    /\ Finish(r)
    /\ UNCHANGED <<store, accounts, grants, firstTry, origin>>

-----------------------------------------------------------------------------
\* A request dies where it stands, in the SSO or in the BFF: a call that fails
\* raises, and nothing after it runs.
Crash(r) ==
    /\ req[r].pc # "idle"
    /\ Finish(r)
    /\ UNCHANGED <<store, accounts, grants, bff, firstTry, origin>>

\* A key of Redis expires or is lost.
Expire ==
    /\ \/ /\ \E l \in Web :
                pending[l] = "begun" /\ pending' = [pending EXCEPT ![l] = "back"]
          /\ UNCHANGED <<txns, pcodes, codes, bff>>
       \/ /\ \E t \in Txn : txns[t].state = "live" /\ txns' = Take(txns, t)
          /\ UNCHANGED <<pending, pcodes, codes, bff>>
       \/ /\ \E p \in PCode : pcodes[p].state = "live" /\ pcodes' = Take(pcodes, p)
          /\ UNCHANGED <<pending, txns, codes, bff>>
       \/ /\ \E c \in Code : codes[c].state = "live" /\ codes' = Take(codes, c)
          /\ UNCHANGED <<pending, txns, pcodes, bff>>
       \/ /\ \E g \in Grant :
                bff[g].state = "live" /\ bff' = [bff EXCEPT ![g].state = "expired"]
          /\ UNCHANGED store
    /\ UNCHANGED <<accounts, grants, req, firstTry, origin>>

\* An administrator suspends the account: every grant it has is consumed.
Suspend(a) ==
    /\ accounts[a].status = "active" /\ accounts[a].version < MaxVersion
    /\ Ledger!ChangeAuthorization(a, "suspended", accounts[a].roles)
    /\ UNCHANGED <<store, bff, req, firstTry, origin>>

-----------------------------------------------------------------------------
Browser ==
    \/ \E l \in Web : Begin(l)
    \/ \E l \in Login, t \in Txn : Authorize(l, t)
    \/ \E t \in Txn, a \in Account, p \in PCode : FakeAuthorize(t, a, p)

Start(r) ==
    \/ \E t \in Txn, p \in PCode : ProviderCallback(r, t, p)
    \/ \E l \in Web, c \in Code : BffCallback(r, l, c)
    \/ \E l \in Native, c \in Code : NativeExchange(r, l, c)
    \/ \E g \in Grant : Logout(r, g)

Step(r) ==
    \/ ProviderExchange(r) \/ UserRead(r) \/ UserInsert(r)
    \/ \E c \in Code : PutCode(r, c)
    \/ TokenTake(r) \/ TokenRead(r) \/ TokenAnswer(r)
    \/ \E g \in Grant : TokenCommit(r, g)
    \/ Revoke(r) \/ Delete(r)

Next ==
    \/ Browser
    \/ \E r \in Req : Start(r) \/ Step(r) \/ GiveUp(r) \/ Crash(r)
    \/ Expire
    \/ \E a \in Account : Suspend(a)

Spec == Init /\ [][Next]_vars
-----------------------------------------------------------------------------
(***************************************************************************)
(* What the flow promises.                                                 *)
(***************************************************************************)

\* A BFF session belongs to the login it was opened for: its account is one
\* that the provider authenticated in a transaction of that same login, also
\* when the links of two logins were mixed up (the comparisons of
\* provider_callback and the PKCE check of /oauth/token).
SessionMatchesLogin ==
    \A g \in Grant : bff[g].state # "none" =>
        \E p \in PCode : /\ pcodes[p].state = "spent"
                         /\ pcodes[p].account = grants[g].user
                         /\ txns[pcodes[p].txn].login = bff[g].login

\* An authorization code is decided by its first use: it yields at most one
\* grant, and none if it was presented with another verifier before
\* ("authorization code replay or wrong PKCE ... code remains unusable",
\* ops/E2E-FAILURE-MATRIX.md).
CodeSpentByFirstUse ==
    \A g \in Grant : origin[g] # NoCode =>
        /\ firstTry[origin[g]] = codes[origin[g]].login
        /\ \A h \in Grant : origin[h] = origin[g] => h = g

\* Logout leaves nothing behind: once it has removed a session, the session's
\* refresh token is dead, whichever of its two calls failed or ran twice.
LogoutRevokes ==
    \A g \in Grant : bff[g].state = "ended" => grants[g].state = "consumed"

\* Logging in never undoes a suspension, not even the first login of an account
\* that raced with another one and inserts the account late.
LoginNeverReactivates ==
    [][\A a \in Account : accounts[a].status = "suspended" =>
                             accounts'[a].status = "suspended"]_vars

\* The BFF and the SSO, value by value, implement LoginPromise for the logins
\* of browsers.
Promise == INSTANCE LoginPromise WITH
    Login <- Web, Session <- Grant,
    logins <- pending,
    proven <- [l \in Web |->
                 {pcodes[p].account : p \in {q \in PCode : /\ q \in Drawn(pcodes)
                                                           /\ txns[pcodes[q].txn].login = l}}],
    sessions <- [g \in Grant |->
                   [state |-> bff[g].state, login |-> bff[g].login,
                    account |-> IF bff[g].state = "none" THEN NoAccount ELSE grants[g].user]]

ImplementsPromise == Promise!Spec
=============================================================================
