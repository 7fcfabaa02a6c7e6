---------------------------- MODULE Credentials ----------------------------
(***************************************************************************)
(* Passwords of the SSO service: registration, the one-time tokens that    *)
(* verify an address or reset a password, and the lock after failed        *)
(* logins (application/auth.py).                                           *)
(*                                                                         *)
(* Each session_scope is a transaction; what a request does in two of them *)
(* another request or a crash can come between.  SQLAlchemy writes only    *)
(* the columns whose value differs from the one it has read.               *)
(***************************************************************************)
EXTENDS Naturals

CONSTANTS
    User,      \* accounts, each with its address
    Token,     \* one-time tokens that can be drawn
    Password,
    Req,       \* requests being served at the same time
    MaxWrong,  \* bound: wrong passwords tried for an account
    NoUser, NoToken, NoPassword, NoReq

ASSUME BoundAssumption == MaxWrong \in Nat
ASSUME NullsAssumption ==
    /\ NoUser \notin User /\ NoToken \notin Token
    /\ NoPassword \notin Password /\ NoReq \notin Req

VARIABLES
    users,    \* committed rows of users
    tokens,   \* committed rows of one_time_tokens, and the lock on each
    mailbox,  \* the dictionary that stands for outgoing mail
    req,      \* what each request slot is doing
    wrong,    \* history: wrong passwords tried for each account
    redeemed  \* history: how often each token was consumed

vars == <<users, tokens, mailbox, req, wrong, redeemed>>

-----------------------------------------------------------------------------
Purpose == {"verify", "reset"}

\* locked_until: unset, in the future, or in the past.
UserRow == [status: {"absent", "pending", "active", "suspended"},
            password_hash: Password \cup {NoPassword},
            failed_logins: 0..MaxWrong, locked_until: {"none", "running", "past"}]

\* A token that was committed is known to nobody until it is mailed; one that
\* was consumed, or is older than 15 minutes, is spent.
TokenRow == [state: {"absent", "stored", "mailed", "spent"}, user: User \cup {NoUser},
             purpose: Purpose \cup {"none"}, lock: Req \cup {NoReq}]

NoRow == [status |-> "absent", password_hash |-> NoPassword,
          failed_logins |-> 0, locked_until |-> "none"]

\* seen is the row of users as the request has read it.
Slot == [pc: {"idle", "issue", "mail", "consume", "read", "write", "login"},
         user: User \cup {NoUser}, token: Token \cup {NoToken},
         purpose: Purpose \cup {"none"}, password: Password \cup {NoPassword},
         seen: UserRow]

Idle == [pc |-> "idle", user |-> NoUser, token |-> NoToken, purpose |-> "none",
         password |-> NoPassword, seen |-> NoRow]

TypeOK ==
    /\ users \in [User -> UserRow]
    /\ tokens \in [Token -> TokenRow]
    /\ mailbox \in [User -> [Purpose -> Token \cup {NoToken}]]
    /\ req \in [Req -> Slot]
    /\ wrong \in [User -> 0..MaxWrong]
    /\ redeemed \in [Token -> 0..2]

\* An account made by a login with a provider is active and has no password.
ProviderRow == [NoRow EXCEPT !.status = "active"]

Init ==
    /\ users = [u \in User |-> NoRow]
    /\ tokens = [t \in Token |-> [state |-> "absent", user |-> NoUser,
                                  purpose |-> "none", lock |-> NoReq]]
    /\ mailbox = [u \in User |-> [p \in Purpose |-> NoToken]]
    /\ req = [r \in Req |-> Idle]
    /\ wrong = [u \in User |-> 0]
    /\ redeemed = [t \in Token |-> 0]

Finish(r) == req' = [req EXCEPT ![r] = Idle]

-----------------------------------------------------------------------------
\* register: the account is committed first.  The unique index on the address
\* refuses a second one: 409.
Register(r, u, password) ==
    /\ req[r].pc = "idle"
    /\ users[u].status = "absent"
    /\ users' = [users EXCEPT ![u] = [NoRow EXCEPT !.status = "pending",
                                                   !.password_hash = password]]
    /\ req' = [req EXCEPT ![r] = [Idle EXCEPT !.pc = "issue", !.user = u,
                                              !.purpose = "verify"]]
    /\ UNCHANGED <<tokens, mailbox, wrong, redeemed>>

\* request_password_reset, for an address that has an account.
RequestPasswordReset(r, u) ==
    /\ req[r].pc = "idle"
    /\ users[u].status # "absent"
    /\ req' = [req EXCEPT ![r] = [Idle EXCEPT !.pc = "issue", !.user = u,
                                              !.purpose = "reset"]]
    /\ UNCHANGED <<users, tokens, mailbox, wrong, redeemed>>

\* Fault: the mail is sent before the token is committed.
IssueMailFirst(r, t) ==
    LET q == req[r] IN
    /\ q.pc = "issue"
    /\ tokens[t].state = "absent"
    /\ mailbox' = [mailbox EXCEPT ![q.user][q.purpose] = t]
    /\ req' = [req EXCEPT ![r] = [@ EXCEPT !.pc = "mail", !.token = t]]
    /\ UNCHANGED <<users, tokens, wrong, redeemed>>

\* _issue_one_time: the token is committed in a transaction of its own, ...
IssueOneTime(r, t) ==
    /\ req[r].pc = "issue"
    /\ tokens[t].state = "absent"
    /\ tokens' = [tokens EXCEPT ![t] = [@ EXCEPT !.state = "stored", !.user = req[r].user,
                                                 !.purpose = req[r].purpose]]
    /\ req' = [req EXCEPT ![r] = [@ EXCEPT !.pc = "mail", !.token = t]]
    /\ UNCHANGED <<users, mailbox, wrong, redeemed>>

\* ... and mailed, in the place of an earlier one, which stays valid.
Mail(r) ==
    LET q == req[r] IN
    /\ q.pc = "mail"
    /\ mailbox' = [mailbox EXCEPT ![q.user][q.purpose] = q.token]
    /\ tokens' = [tokens EXCEPT ![q.token].state = IF @ = "stored" THEN "mailed" ELSE @]
    /\ Finish(r)
    /\ UNCHANGED <<users, wrong, redeemed>>

-----------------------------------------------------------------------------
\* Fault: the token is read without a lock.
ConsumeStartUnlocked(r, t, purpose, password) ==
    /\ req[r].pc = "idle"
    /\ tokens[t].state = "mailed" /\ tokens[t].purpose = purpose
    /\ req' = [req EXCEPT ![r] = [Idle EXCEPT !.pc = "consume", !.token = t,
                                              !.purpose = purpose, !.password = password]]
    /\ UNCHANGED <<users, tokens, mailbox, wrong, redeemed>>

\* Fault: the purpose is not part of the query.
ConsumeStartAnyPurpose(r, t, purpose, password) ==
    /\ req[r].pc = "idle"
    /\ tokens[t].state = "mailed" /\ tokens[t].lock = NoReq
    /\ tokens' = [tokens EXCEPT ![t].lock = r]
    /\ req' = [req EXCEPT ![r] = [Idle EXCEPT !.pc = "consume", !.token = t,
                                              !.purpose = purpose, !.password = password]]
    /\ UNCHANGED <<users, mailbox, wrong, redeemed>>

\* consume_one_time: SELECT ... FOR UPDATE waits for the row's lock and sees
\* what its holder committed.  A token that is spent, or of the other purpose,
\* is answered 400 and changes nothing.
ConsumeStart(r, t, purpose, password) ==
    /\ req[r].pc = "idle"
    /\ tokens[t].state = "mailed" /\ tokens[t].purpose = purpose
    /\ tokens[t].lock = NoReq
    /\ tokens' = [tokens EXCEPT ![t].lock = r]
    /\ req' = [req EXCEPT ![r] = [Idle EXCEPT !.pc = "consume", !.token = t,
                                              !.purpose = purpose, !.password = password]]
    /\ UNCHANGED <<users, mailbox, wrong, redeemed>>

\* POST /auth/verify and /auth/password-reset/confirm.
VerifyEmail(r, t) == ConsumeStart(r, t, "verify", NoPassword)
ResetPassword(r, t, password) == ConsumeStart(r, t, "reset", password)

\* Fault: the row is deleted instead of marked.
ConsumeCommitDelete(r) ==
    LET t == req[r].token IN
    /\ req[r].pc = "consume"
    /\ tokens' = [tokens EXCEPT ![t].state = "deleted", ![t].lock = NoReq]
    /\ redeemed' = [redeemed EXCEPT ![t] = @ + 1]
    /\ req' = [req EXCEPT ![r] = [@ EXCEPT !.pc = "read", !.user = tokens[t].user]]
    /\ UNCHANGED <<users, mailbox, wrong>>

\* consumed_at is set and committed.
ConsumeCommit(r) ==
    LET t == req[r].token IN
    /\ req[r].pc = "consume"
    /\ tokens' = [tokens EXCEPT ![t].state = "spent", ![t].lock = NoReq]
    /\ redeemed' = [redeemed EXCEPT ![t] = @ + 1]
    /\ req' = [req EXCEPT ![r] = [@ EXCEPT !.pc = "read", !.user = tokens[t].user]]
    /\ UNCHANGED <<users, mailbox, wrong>>

\* The account is read in the next transaction, without a lock, ...
ReadUser(r) ==
    /\ req[r].pc = "read"
    /\ req' = [req EXCEPT ![r] = [@ EXCEPT !.pc = "write", !.seen = users[req[r].user]]]
    /\ UNCHANGED <<users, tokens, mailbox, wrong, redeemed>>

\* failed_logins = 0 and locked_until = None, where the row that was read has
\* other values.
Cleared(row, seen) ==
    [row EXCEPT !.failed_logins = IF seen.failed_logins = 0 THEN @ ELSE 0,
                !.locked_until = IF seen.locked_until = "none" THEN @ ELSE "none"]

\* ... and written.
VerifyWrite(r) ==
    LET q == req[r] IN
    /\ q.pc = "write" /\ q.purpose = "verify"
    /\ users' = [users EXCEPT ![q.user].status =
                    IF q.seen.status = "active" THEN @ ELSE "active"]
    /\ Finish(r)
    /\ UNCHANGED <<tokens, mailbox, wrong, redeemed>>

ResetWrite(r) ==
    LET q == req[r] IN
    /\ q.pc = "write" /\ q.purpose = "reset"
    /\ users' = [users EXCEPT ![q.user] =
                    [Cleared(@, q.seen) EXCEPT !.password_hash = q.password]]
    /\ Finish(r)
    /\ UNCHANGED <<tokens, mailbox, wrong, redeemed>>

-----------------------------------------------------------------------------
\* Fault: an account that is locked is not refused.
AuthenticateUnlocked(r, u, password) ==
    /\ req[r].pc = "idle"
    /\ users[u].password_hash # NoPassword
    /\ IF password = users[u].password_hash
       THEN users[u].status = "active" /\ UNCHANGED wrong
       ELSE wrong[u] < MaxWrong /\ wrong' = [wrong EXCEPT ![u] = @ + 1]
    /\ req' = [req EXCEPT ![r] = [Idle EXCEPT !.pc = "login", !.user = u,
                                              !.password = password, !.seen = users[u]]]
    /\ UNCHANGED <<users, tokens, mailbox, redeemed>>

\* authenticate: the account is read without a lock.  One without a password,
\* one that is locked, and one whose password is right but whose status is not
\* active are refused and nothing is written.
Authenticate(r, u, password) ==
    /\ req[r].pc = "idle"
    /\ users[u].locked_until # "running"
    /\ users[u].password_hash # NoPassword
    /\ IF password = users[u].password_hash
       THEN users[u].status = "active" /\ UNCHANGED wrong
       ELSE wrong[u] < MaxWrong /\ wrong' = [wrong EXCEPT ![u] = @ + 1]
    /\ req' = [req EXCEPT ![r] = [Idle EXCEPT !.pc = "login", !.user = u,
                                              !.password = password, !.seen = users[u]]]
    /\ UNCHANGED <<users, tokens, mailbox, redeemed>>

\* Fault: the second failure locks already.
FailedTwice(row, seen) ==
    [row EXCEPT !.failed_logins = seen.failed_logins + 1,
                !.locked_until = IF seen.failed_logins + 1 >= 2 THEN "running" ELSE @]

\* A wrong password: one failure more than was read; the third locks for 5 minutes.
Failed(row, seen) ==
    [row EXCEPT !.failed_logins = seen.failed_logins + 1,
                !.locked_until = IF seen.failed_logins + 1 >= 3 THEN "running" ELSE @]

\* The columns are written and committed; after a right password login goes on
\* to issue_bundle (Sessions).
AuthenticateWrite(r) ==
    LET q == req[r] IN
    /\ q.pc = "login"
    /\ users' = [users EXCEPT ![q.user] = IF q.password = q.seen.password_hash
                                          THEN Cleared(@, q.seen)
                                          ELSE Failed(@, q.seen)]
    /\ Finish(r)
    /\ UNCHANGED <<tokens, mailbox, wrong, redeemed>>

-----------------------------------------------------------------------------
Released(s) == [t \in Token |-> IF tokens[t].lock \in s
                                THEN [tokens[t] EXCEPT !.lock = NoReq]
                                ELSE tokens[t]]

\* A transaction fails: it is rolled back, and the request ends.
Fail(r) ==
    /\ req[r].pc # "idle"
    /\ tokens' = Released({r})
    /\ Finish(r)
    /\ UNCHANGED <<users, mailbox, wrong, redeemed>>

\* The process restarts: the mail that is waiting is lost with its memory.
Restart ==
    /\ req' = [r \in Req |-> Idle]
    /\ tokens' = Released(Req)
    /\ mailbox' = [u \in User |-> [p \in Purpose |-> NoToken]]
    /\ UNCHANGED <<users, wrong, redeemed>>

\* Time passes: a lock ends, a token becomes too old.
LockExpires(u) ==
    /\ users[u].locked_until = "running"
    /\ users' = [users EXCEPT ![u].locked_until = "past"]
    /\ UNCHANGED <<tokens, mailbox, req, wrong, redeemed>>

TokenExpires(t) ==
    /\ tokens[t].state \in {"stored", "mailed"} /\ tokens[t].lock = NoReq
    /\ tokens' = [tokens EXCEPT ![t].state = "spent"]
    /\ UNCHANGED <<users, mailbox, req, wrong, redeemed>>

-----------------------------------------------------------------------------
\* The columns of this module that others write.  A first login with a provider
\* makes the account; the unique index on the address refuses a second one.
ProviderSignUp(u) ==
    /\ users[u].status = "absent"
    /\ users' = [users EXCEPT ![u] = ProviderRow]
    /\ UNCHANGED <<tokens, mailbox, req, wrong, redeemed>>

\* An administrator approves the account, which needs no token, ...
Approve(u) ==
    /\ users[u].status \in {"pending", "suspended"}
    /\ users' = [users EXCEPT ![u].status = "active"]
    /\ UNCHANGED <<tokens, mailbox, req, wrong, redeemed>>

\* ... or suspends it.
Suspend(u) ==
    /\ users[u].status \in {"pending", "active"}
    /\ users' = [users EXCEPT ![u].status = "suspended"]
    /\ UNCHANGED <<tokens, mailbox, req, wrong, redeemed>>

-----------------------------------------------------------------------------
Step(r) ==
    \/ \E u \in User : RequestPasswordReset(r, u)
    \/ \E u \in User, p \in Password : Register(r, u, p) \/ Authenticate(r, u, p)
    \/ \E t \in Token : IssueOneTime(r, t) \/ VerifyEmail(r, t)
    \/ \E t \in Token, p \in Password : ResetPassword(r, t, p)
    \/ Mail(r) \/ ConsumeCommit(r) \/ ReadUser(r)
    \/ VerifyWrite(r) \/ ResetWrite(r) \/ AuthenticateWrite(r)

Next ==
    \/ \E r \in Req : Step(r) \/ Fail(r)
    \/ \E u \in User : LockExpires(u) \/ ProviderSignUp(u) \/ Approve(u) \/ Suspend(u)
    \/ \E t \in Token : TokenExpires(t)
    \/ Restart

Spec == Init /\ [][Next]_vars

-----------------------------------------------------------------------------
(***************************************************************************)
(* What the service promises.                                              *)
(***************************************************************************)

\* A one-time token is redeemed once, however often and at whichever moment it
\* is posted again (consume_one_time).
TokenRedeemedOnce == \A t \in Token : redeemed[t] <= 1

\* This step ends a request that has redeemed such a token of u.
Redeems(u, purpose, password) ==
    \E r \in Req, t \in Token :
        /\ req[r].pc = "write" /\ req'[r].pc = "idle"
        /\ req[r].token = t /\ redeemed[t] > 0
        /\ tokens[t].user = u /\ tokens[t].purpose = purpose
        /\ req[r].password = password

\* An account gets a new password only by a request that has redeemed a reset
\* token of that account and was posted with that password.  It becomes active
\* only by a request that has redeemed a verification token of that account, or
\* by an administrator's approval; one that starts out active has no password.
\* The token is redeemed in one transaction and the account written in another,
\* with everything else in between (reset_password, verify_email, approve_user).
OwnTokenOnly ==
    [][\A u \in User :
          /\ users[u].password_hash # users'[u].password_hash =>
                 \/ users[u].status = "absent"
                 \/ Redeems(u, "reset", users'[u].password_hash)
          /\ users[u].status # "active" /\ users'[u].status = "active" =>
                 \/ users[u].status = "absent" /\ users'[u].password_hash = NoPassword
                 \/ Redeems(u, "verify", NoPassword)
                 \/ Approve(u)]_vars

\* No account is locked by fewer than three wrong passwords, however logins
\* overwrite each other's count (authenticate).
LockoutEarned ==
    \A u \in User : /\ users[u].failed_logins <= wrong[u]
                    /\ users[u].locked_until # "none" => wrong[u] >= 3

\* A lock ends with its time or with a reset.  A login lifts it only when it
\* has read the account before the lock began (authenticate reads it without
\* a lock and may find the end of the previous one).
LockHolds ==
    [][\A u \in User :
          users[u].locked_until = "running" /\ users'[u].locked_until = "none" =>
              \E r \in Req : /\ req[r].user = u /\ req'[r] = Idle
                             /\ \/ req[r].pc = "write" /\ req[r].purpose = "reset"
                                \/ req[r].pc = "login" /\ req[r].seen.locked_until = "past"]_vars

\* Mail is sent only for a token that is committed, for the account and the
\* purpose it names: a crash may lose the mail, never leave one that cannot be
\* redeemed (_issue_one_time).
MailedTokenStored ==
    \A u \in User, p \in Purpose :
        LET t == mailbox[u][p]
        IN  t # NoToken => /\ tokens[t].state \in {"mailed", "spent"}
                           /\ tokens[t].user = u /\ tokens[t].purpose = p
=============================================================================
