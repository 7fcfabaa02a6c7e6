-------------------------- MODULE CredentialsProofs --------------------------
(***************************************************************************)
(* The properties of Credentials, for any number of accounts, tokens,      *)
(* passwords and requests.                                                 *)
(*                                                                         *)
(* The argument: what a request carries from one transaction to the next   *)
(* (the token it has locked or redeemed, the row it has read) is described *)
(* by Shape, and nothing that others commit in between can make it false   *)
(* (Keeps), although the account itself may change under it.               *)
(***************************************************************************)
EXTENDS Credentials, TLAPS

\* What the columns of one table say about those of another.
Accounts == \A u \in User : users[u].status = "absent" => users[u] = NoRow

Tokens ==
    \A t \in Token :
        /\ tokens[t].state # "absent" => /\ tokens[t].user \in User
                                         /\ users[tokens[t].user].status # "absent"
                                         /\ tokens[t].purpose \in Purpose
        /\ tokens[t].state # "spent" => redeemed[t] = 0
        /\ tokens[t].lock # NoReq => tokens[t].state = "mailed"

\* Request q, past the query by purpose, has the password that its purpose needs.
HasToken(q) ==
    /\ q.token \in Token
    /\ tokens[q.token].state # "absent"
    /\ tokens[q.token].purpose = q.purpose
    /\ q.purpose = "verify" => q.password = NoPassword
    /\ q.purpose = "reset" => q.password \in Password

\* What slot r knows when it holds the request q.
Shape(r, q) ==
    /\ q.pc = "issue" => /\ q.user \in User /\ users[q.user].status # "absent"
                         /\ q.purpose \in Purpose
    /\ q.pc = "mail" => /\ q.token \in Token
                        /\ tokens[q.token].state # "absent"
                        /\ tokens[q.token].user = q.user
                        /\ tokens[q.token].purpose = q.purpose
    /\ q.pc = "consume" => HasToken(q) /\ tokens[q.token].lock = r
    /\ q.pc \in {"read", "write"} => /\ HasToken(q)
                                     /\ redeemed[q.token] > 0
                                     /\ tokens[q.token].user = q.user
    /\ q.pc = "login" => /\ q.user \in User /\ users[q.user].status # "absent"
                         /\ q.password \in Password
                         /\ q.seen.locked_until # "running"
                         /\ q.seen.locked_until # "none" => wrong[q.user] >= 3
                         /\ q.seen.failed_logins <= wrong[q.user]
                         /\ q.password # q.seen.password_hash =>
                                q.seen.failed_logins + 1 <= wrong[q.user]

Requests == \A r \in Req : Shape(r, req[r])

IInv ==
    /\ TypeOK
    /\ Accounts
    /\ Tokens
    /\ Requests
    /\ TokenRedeemedOnce
    /\ LockoutEarned
    /\ MailedTokenStored

\* What a step never takes from a request outside S.
Keeps(S) ==
    /\ \A u \in User : users[u].status # "absent" => users'[u].status # "absent"
    /\ \A t \in Token : tokens[t].state # "absent" =>
           /\ tokens'[t].state # "absent"
           /\ tokens'[t].user = tokens[t].user /\ tokens'[t].purpose = tokens[t].purpose
    /\ \A t \in Token : tokens[t].lock \in Req \ S => tokens'[t].lock = tokens[t].lock
    /\ \A t \in Token : redeemed[t] <= redeemed'[t]
    /\ \A u \in User : wrong[u] <= wrong'[u]

-----------------------------------------------------------------------------
LEMMA Rows == NoRow \in UserRow /\ ProviderRow \in UserRow /\ Idle \in Slot
  BY BoundAssumption DEF NoRow, ProviderRow, UserRow, Idle, Slot

LEMMA IdleShape == ASSUME NEW r \in Req PROVE Shape(r, Idle)'
  BY DEF Shape, Idle

LEMMA RequestsKept ==
    ASSUME IInv, TypeOK', NEW S \in SUBSET Req, Keeps(S),
           \A s \in Req \ S : req'[s] = req[s],
           \A s \in S : Shape(s, req[s])'
    PROVE  Requests'
<1> SUFFICES ASSUME NEW s \in Req, s \notin S PROVE Shape(s, req[s])'
  BY DEF Requests
<1> PICK q \in Slot : req[s] = q
  BY DEF IInv, TypeOK
<1>1. Shape(s, q) /\ req'[s] = q
  BY DEF IInv, Requests
<1> SUFFICES Shape(s, q)'
  BY <1>1 DEF Shape, HasToken
<1>2. HasToken(q) => HasToken(q)'
  BY <1>1 DEF HasToken, Keeps
<1>3. CASE q.pc = "issue"
  BY <1>1, <1>3 DEF Shape, Keeps
<1>4. CASE q.pc = "mail"
  BY <1>1, <1>4 DEF Shape, Keeps
<1>5. CASE q.pc = "consume"
  BY <1>1, <1>2, <1>5 DEF Shape, HasToken, Keeps
<1>6. CASE q.pc \in {"read", "write"}
  <2>1. HasToken(q) /\ redeemed[q.token] > 0 /\ q.token \in Token
        /\ tokens[q.token].state # "absent" /\ tokens[q.token].user = q.user
    BY <1>1, <1>6 DEF Shape, HasToken
  <2>2. redeemed[q.token] \in 0..2 /\ redeemed'[q.token] \in 0..2
    BY <2>1 DEF IInv, TypeOK
  <2>3. redeemed[q.token] <= redeemed'[q.token] /\ tokens'[q.token].user = tokens[q.token].user
    BY <2>1 DEF Keeps
  <2>4. redeemed'[q.token] > 0
    BY <2>1, <2>2, <2>3
  <2> QED
    BY <1>2, <1>6, <2>1, <2>3, <2>4 DEF Shape
<1>7. CASE q.pc = "login"
  <2>1. /\ wrong[q.user] \in Nat /\ wrong'[q.user] \in Nat /\ wrong[q.user] <= wrong'[q.user]
        /\ q.seen.failed_logins \in Nat
    BY <1>1, <1>7, BoundAssumption DEF IInv, TypeOK, Shape, Keeps, Slot, UserRow
  <2> QED
    BY <1>1, <1>7, <2>1 DEF Shape, Keeps
<1>8. CASE q.pc = "idle"
  BY <1>1, <1>8 DEF Shape
<1> QED
  BY <1>1, <1>3, <1>4, <1>5, <1>6, <1>7, <1>8 DEF Slot

\* A step of request r that leaves it with c.
LEMMA RequestStep ==
    ASSUME IInv, NEW r \in Req, NEW c \in Slot, req' = [req EXCEPT ![r] = c],
           Shape(r, c)', Keeps({r}),
           users' \in [User -> UserRow], tokens' \in [Token -> TokenRow],
           mailbox' \in [User -> [Purpose -> Token \cup {NoToken}]],
           wrong' \in [User -> 0..MaxWrong], redeemed' \in [Token -> 0..2],
           Accounts', Tokens', TokenRedeemedOnce', LockoutEarned', MailedTokenStored'
    PROVE  IInv'
<1>1. TypeOK'
  BY DEF IInv, TypeOK
<1>2. req'[r] = c /\ \A s \in Req \ {r} : req'[s] = req[s]
  BY DEF IInv, TypeOK
<1>3. Requests'
  BY <1>1, <1>2, RequestsKept
<1> QED
  BY <1>1, <1>3 DEF IInv

\* A step that changes nothing but the request.
LEMMA MoveStep ==
    ASSUME IInv, NEW r \in Req, NEW c \in Slot, req' = [req EXCEPT ![r] = c],
           Shape(r, c)', UNCHANGED <<users, tokens, mailbox, wrong, redeemed>>
    PROVE  IInv'
<1>1. Keeps({r})
  BY BoundAssumption DEF Keeps, IInv, TypeOK
<1>2. Accounts' /\ Tokens' /\ TokenRedeemedOnce' /\ LockoutEarned' /\ MailedTokenStored'
  BY DEF IInv, Accounts, Tokens, TokenRedeemedOnce, LockoutEarned, MailedTokenStored
<1> QED
  BY <1>1, <1>2, RequestStep DEF IInv, TypeOK

-----------------------------------------------------------------------------
LEMMA RegisterStep ==
    ASSUME IInv, NEW r \in Req, NEW u \in User, NEW password \in Password,
           Register(r, u, password)
    PROVE  IInv'
<1> DEFINE row == [NoRow EXCEPT !.status = "pending", !.password_hash = password]
           c == [Idle EXCEPT !.pc = "issue", !.user = u, !.purpose = "verify"]
<1>1. row \in UserRow /\ c \in Slot
  BY Rows DEF UserRow, NoRow, Slot, Idle, Purpose
<1>2. users' = [users EXCEPT ![u] = row] /\ users[u] = NoRow
  BY DEF Register, IInv, Accounts
<1>3. Shape(r, c)'
  BY <1>2 DEF Shape, Idle, IInv, TypeOK, Purpose, NoRow
<1>4. Keeps({r})
  BY <1>2, BoundAssumption DEF Register, Keeps, IInv, TypeOK, NoRow
<1>5. Accounts' /\ Tokens'
  BY <1>2 DEF Register, IInv, TypeOK, Accounts, Tokens, NoRow
<1>6. LockoutEarned'
  BY <1>2, BoundAssumption DEF Register, IInv, TypeOK, LockoutEarned, NoRow
<1>7. TokenRedeemedOnce' /\ MailedTokenStored'
  BY DEF Register, IInv, TokenRedeemedOnce, MailedTokenStored
<1>8. req' = [req EXCEPT ![r] = c] /\ UNCHANGED <<tokens, mailbox, wrong, redeemed>>
  BY DEF Register
<1>9. users' \in [User -> UserRow]
  BY <1>1, <1>2 DEF IInv, TypeOK
<1> HIDE DEF c
<1> QED
  BY <1>1, <1>3, <1>4, <1>5, <1>6, <1>7, <1>8, <1>9, RequestStep DEF IInv, TypeOK

LEMMA RequestPasswordResetStep ==
    ASSUME IInv, NEW r \in Req, NEW u \in User, RequestPasswordReset(r, u)
    PROVE  IInv'
<1> DEFINE c == [Idle EXCEPT !.pc = "issue", !.user = u, !.purpose = "reset"]
<1>1. c \in Slot /\ Shape(r, c)'
  BY Rows DEF RequestPasswordReset, Slot, Idle, Purpose, Shape
<1> QED
  BY <1>1, MoveStep DEF RequestPasswordReset

LEMMA IssueOneTimeStep ==
    ASSUME IInv, NEW r \in Req, NEW t \in Token, IssueOneTime(r, t)
    PROVE  IInv'
<1> PICK q \in Slot : req[r] = q
  BY DEF IInv, TypeOK
<1> DEFINE row == [tokens[t] EXCEPT !.state = "stored", !.user = q.user, !.purpose = q.purpose]
           c == [q EXCEPT !.pc = "mail", !.token = t]
<1>1. q.user \in User /\ users[q.user].status # "absent" /\ q.purpose \in Purpose
  BY DEF IssueOneTime, IInv, TypeOK, Requests, Shape
<1>2. tokens[t] \in TokenRow /\ tokens[t].state = "absent" /\ tokens[t].lock = NoReq
  BY DEF IssueOneTime, IInv, TypeOK, Tokens
<1>3. row \in TokenRow /\ c \in Slot
  BY <1>1, <1>2 DEF TokenRow, Slot
<1>4. tokens' = [tokens EXCEPT ![t] = row] /\ req' = [req EXCEPT ![r] = c]
  BY DEF IssueOneTime
<1>5. tokens' \in [Token -> TokenRow] /\ tokens'[t] = row
      /\ \A o \in Token \ {t} : tokens'[o] = tokens[o]
  BY <1>3, <1>4 DEF IInv, TypeOK
<1>6. row.state = "stored" /\ row.user = q.user /\ row.purpose = q.purpose /\ row.lock = NoReq
  BY <1>2 DEF TokenRow
<1>7. Shape(r, c)'
  BY <1>1, <1>5, <1>6 DEF Shape, Slot
<1>8. Keeps({r})
  BY <1>2, <1>5, <1>6, BoundAssumption DEF IssueOneTime, Keeps, IInv, TypeOK
<1>9. Tokens'
  BY <1>1, <1>2, <1>5, <1>6 DEF IssueOneTime, IInv, Tokens
<1>10. MailedTokenStored'
  BY <1>2, <1>5 DEF IssueOneTime, IInv, TypeOK, MailedTokenStored
<1>11. Accounts' /\ TokenRedeemedOnce' /\ LockoutEarned'
  BY DEF IssueOneTime, IInv, Accounts, TokenRedeemedOnce, LockoutEarned
<1> QED
  BY <1>3, <1>4, <1>5, <1>7, <1>8, <1>9, <1>10, <1>11, RequestStep DEF IssueOneTime, IInv, TypeOK

LEMMA MailStep ==
    ASSUME IInv, NEW r \in Req, Mail(r)
    PROVE  IInv'
<1> DEFINE q == req[r]
           t == q.token
           state == IF tokens[t].state = "stored" THEN "mailed" ELSE tokens[t].state
<1>1. /\ q \in Slot /\ t \in Token /\ tokens[t].state # "absent"
      /\ tokens[t].user = q.user /\ tokens[t].purpose = q.purpose
  BY DEF Mail, IInv, TypeOK, Requests, Shape
<1>2. tokens[t] \in TokenRow /\ q.user \in User /\ q.purpose \in Purpose
  BY <1>1 DEF IInv, TypeOK, Tokens
<1>3. tokens' = [tokens EXCEPT ![t] = [tokens[t] EXCEPT !.state = state]]
  BY <1>1 DEF Mail, IInv, TypeOK
<1>4. [tokens[t] EXCEPT !.state = state] \in TokenRow /\ state \in {"mailed", "spent"}
  BY <1>1, <1>2 DEF TokenRow
<1>5. /\ tokens' \in [Token -> TokenRow]
      /\ tokens'[t].state = state /\ tokens'[t].user = q.user /\ tokens'[t].purpose = q.purpose
      /\ tokens'[t].lock = tokens[t].lock
      /\ \A o \in Token \ {t} : tokens'[o] = tokens[o]
  BY <1>1, <1>2, <1>3, <1>4 DEF IInv, TypeOK, TokenRow
<1>6. Keeps({r})
  <2>1. \A o \in Token : tokens[o].state # "absent" =>
            /\ tokens'[o].state # "absent"
            /\ tokens'[o].user = tokens[o].user /\ tokens'[o].purpose = tokens[o].purpose
    BY <1>1, <1>4, <1>5
  <2>2. \A o \in Token : tokens'[o].lock = tokens[o].lock
    BY <1>5
  <2>3. UNCHANGED <<users, wrong, redeemed>>
    BY DEF Mail
  <2> QED
    BY <2>1, <2>2, <2>3, BoundAssumption DEF Keeps, IInv, TypeOK
<1>7. Tokens'
  BY <1>1, <1>2, <1>5 DEF Mail, IInv, Tokens
<1>8. /\ mailbox' \in [User -> [Purpose -> Token \cup {NoToken}]]
      /\ \A u \in User, p \in Purpose :
            mailbox'[u][p] = IF u = q.user /\ p = q.purpose THEN t ELSE mailbox[u][p]
  BY <1>1, <1>2 DEF Mail, IInv, TypeOK
<1>9. MailedTokenStored'
  <2> SUFFICES ASSUME NEW u \in User, NEW p \in Purpose, NEW o, o = mailbox'[u][p], o # NoToken
               PROVE  /\ tokens'[o].state \in {"mailed", "spent"}
                      /\ tokens'[o].user = u /\ tokens'[o].purpose = p
    BY DEF MailedTokenStored
  <2>1. CASE u = q.user /\ p = q.purpose
    BY <1>4, <1>5, <1>8, <2>1
  <2>2. CASE ~(u = q.user /\ p = q.purpose)
    <3>1. o = mailbox[u][p] /\ o \in Token
      BY <1>8, <2>2 DEF IInv, TypeOK
    <3>2. /\ tokens[o].state \in {"mailed", "spent"}
          /\ tokens[o].user = u /\ tokens[o].purpose = p
      BY <3>1 DEF IInv, MailedTokenStored
    <3> QED
      BY <1>1, <1>4, <1>5, <3>1, <3>2
  <2> QED
    BY <2>1, <2>2
<1>10. Accounts' /\ TokenRedeemedOnce' /\ LockoutEarned'
  BY DEF Mail, IInv, Accounts, TokenRedeemedOnce, LockoutEarned
<1> QED
  BY <1>5, <1>6, <1>7, <1>8, <1>9, <1>10, Rows, IdleShape, RequestStep
  DEF Mail, Finish, IInv, TypeOK

LEMMA ConsumeStartStep ==
    ASSUME IInv, NEW r \in Req, NEW t \in Token, NEW purpose \in Purpose,
           NEW password \in Password \cup {NoPassword},
           purpose = "verify" => password = NoPassword,
           purpose = "reset" => password \in Password,
           ConsumeStart(r, t, purpose, password)
    PROVE  IInv'
<1> DEFINE c == [Idle EXCEPT !.pc = "consume", !.token = t,
                             !.purpose = purpose, !.password = password]
           row == [tokens[t] EXCEPT !.lock = r]
<1>1. tokens[t] \in TokenRow /\ c \in Slot /\ row \in TokenRow
  <2>1. tokens[t] \in TokenRow
    BY DEF IInv, TypeOK
  <2>2. row \in TokenRow
    BY <2>1 DEF TokenRow
  <2>3. c \in Slot
    BY Rows DEF Slot, Idle
  <2> QED
    BY <2>1, <2>2, <2>3
<1>2. /\ tokens' = [tokens EXCEPT ![t] = row] /\ req' = [req EXCEPT ![r] = c]
      /\ tokens[t].state = "mailed" /\ tokens[t].purpose = purpose /\ tokens[t].lock = NoReq
  BY DEF ConsumeStart, IInv, TypeOK
<1>3. /\ tokens' \in [Token -> TokenRow]
      /\ tokens'[t].state = "mailed" /\ tokens'[t].user = tokens[t].user
      /\ tokens'[t].purpose = purpose /\ tokens'[t].lock = r
      /\ \A o \in Token \ {t} : tokens'[o] = tokens[o]
  BY <1>1, <1>2 DEF IInv, TypeOK, TokenRow
<1>4. Shape(r, c)'
  BY <1>3 DEF Shape, HasToken, Idle
<1>5. Keeps({r})
  BY <1>2, <1>3, NullsAssumption, BoundAssumption DEF ConsumeStart, Keeps, IInv, TypeOK
<1>6. Tokens'
  BY <1>2, <1>3 DEF ConsumeStart, IInv, Tokens
<1>7. MailedTokenStored'
  BY <1>2, <1>3 DEF ConsumeStart, IInv, TypeOK, MailedTokenStored
<1>8. Accounts' /\ TokenRedeemedOnce' /\ LockoutEarned'
  BY DEF ConsumeStart, IInv, Accounts, TokenRedeemedOnce, LockoutEarned
<1> QED
  BY <1>1, <1>2, <1>3, <1>4, <1>5, <1>6, <1>7, <1>8, RequestStep
  DEF ConsumeStart, IInv, TypeOK

LEMMA ConsumeCommitStep ==
    ASSUME IInv, NEW r \in Req, ConsumeCommit(r)
    PROVE  IInv'
<1> PICK q \in Slot : req[r] = q
  BY DEF IInv, TypeOK
<1> DEFINE t == q.token
<1>1. HasToken(q) /\ tokens[t].lock = r /\ t \in Token
  BY DEF ConsumeCommit, IInv, Requests, Shape, HasToken
<1> PICK u \in User : tokens[t].user = u
  BY <1>1 DEF HasToken, IInv, Tokens
<1> DEFINE row == [tokens[t] EXCEPT !.state = "spent", !.lock = NoReq]
           c == [q EXCEPT !.pc = "read", !.user = u]
<1>2. tokens[t] \in TokenRow /\ tokens[t].state = "mailed" /\ redeemed[t] = 0
  BY <1>1, NullsAssumption DEF IInv, TypeOK, Tokens
<1>3. row \in TokenRow /\ c \in Slot
  BY <1>1, <1>2 DEF TokenRow, Slot
<1>4. tokens' = [tokens EXCEPT ![t] = row] /\ req' = [req EXCEPT ![r] = c]
      /\ redeemed' = [redeemed EXCEPT ![t] = redeemed[t] + 1]
  BY <1>1 DEF ConsumeCommit, IInv, TypeOK
<1>5. /\ tokens' \in [Token -> TokenRow]
      /\ tokens'[t].state = "spent" /\ tokens'[t].user = tokens[t].user
      /\ tokens'[t].purpose = tokens[t].purpose /\ tokens'[t].lock = NoReq
      /\ \A o \in Token \ {t} : tokens'[o] = tokens[o]
  BY <1>1, <1>2, <1>3, <1>4 DEF IInv, TypeOK, TokenRow
<1>6. /\ redeemed' \in [Token -> 0..2] /\ redeemed'[t] = 1
      /\ \A o \in Token \ {t} : redeemed'[o] = redeemed[o]
  BY <1>1, <1>2, <1>4 DEF IInv, TypeOK
<1>7. Shape(r, c)'
  BY <1>1, <1>5, <1>6 DEF Shape, HasToken, Slot
<1>8. Keeps({r})
  <2>1. \A o \in Token : redeemed[o] <= redeemed'[o]
    BY <1>2, <1>6 DEF IInv, TypeOK
  <2>2. \A o \in Token : tokens[o].lock \in Req \ {r} => tokens'[o].lock = tokens[o].lock
    BY <1>1, <1>5
  <2>3. \A o \in Token : tokens[o].state # "absent" =>
            /\ tokens'[o].state # "absent"
            /\ tokens'[o].user = tokens[o].user /\ tokens'[o].purpose = tokens[o].purpose
    BY <1>2, <1>5
  <2>4. UNCHANGED <<users, wrong>>
    BY DEF ConsumeCommit
  <2> QED
    BY <2>1, <2>2, <2>3, <2>4, BoundAssumption DEF Keeps, IInv, TypeOK
<1>9. Tokens'
  BY <1>1, <1>2, <1>5, <1>6 DEF ConsumeCommit, IInv, Tokens
<1>10. MailedTokenStored'
  BY <1>2, <1>5 DEF ConsumeCommit, IInv, TypeOK, MailedTokenStored
<1>11. TokenRedeemedOnce'
  BY <1>6 DEF IInv, TokenRedeemedOnce
<1>12. Accounts' /\ LockoutEarned'
  BY DEF ConsumeCommit, IInv, Accounts, LockoutEarned
<1> QED
  BY <1>3, <1>4, <1>5, <1>6, <1>7, <1>8, <1>9, <1>10, <1>11, <1>12, RequestStep
  DEF ConsumeCommit, IInv, TypeOK

LEMMA ReadUserStep ==
    ASSUME IInv, NEW r \in Req, ReadUser(r)
    PROVE  IInv'
<1> PICK q \in Slot : req[r] = q
  BY DEF IInv, TypeOK
<1>1. Shape(r, q) /\ q.pc = "read"
  BY DEF ReadUser, IInv, Requests
<1>2. q.user \in User
  BY <1>1 DEF Shape, HasToken, IInv, Tokens
<1> PICK row \in UserRow : users[q.user] = row
  BY <1>2 DEF IInv, TypeOK
<1> DEFINE c == [q EXCEPT !.pc = "write", !.seen = row]
<1>3. c \in Slot
  BY DEF Slot
<1>4. Shape(r, c)'
  BY <1>1, <1>3 DEF ReadUser, Shape, HasToken, Slot
<1> QED
  BY <1>3, <1>4, MoveStep DEF ReadUser

-----------------------------------------------------------------------------
\* A write to the row of an account, at the end of a request.
LEMMA WriteStep ==
    ASSUME IInv, NEW r \in Req, NEW u \in User, NEW row \in UserRow,
           users' = [users EXCEPT ![u] = row], Finish(r),
           UNCHANGED <<tokens, mailbox, wrong, redeemed>>,
           users[u].status # "absent", row.status # "absent",
           row.failed_logins <= wrong[u], row.locked_until # "none" => wrong[u] >= 3
    PROVE  IInv'
<1>1. /\ users' \in [User -> UserRow] /\ users'[u] = row
      /\ \A v \in User \ {u} : users'[v] = users[v]
  BY DEF IInv, TypeOK
<1>2. Keeps({r})
  BY <1>1, BoundAssumption DEF Keeps, IInv, TypeOK
<1>3. Accounts'
  BY <1>1 DEF IInv, Accounts
<1>4. Tokens'
  BY <1>1 DEF IInv, Tokens
<1>5. LockoutEarned'
  BY <1>1 DEF IInv, LockoutEarned
<1>6. TokenRedeemedOnce' /\ MailedTokenStored'
  BY DEF IInv, TokenRedeemedOnce, MailedTokenStored
<1> QED
  BY <1>1, <1>2, <1>3, <1>4, <1>5, <1>6, Rows, IdleShape, RequestStep DEF Finish, IInv, TypeOK

LEMMA ClearedRow ==
    ASSUME NEW row \in UserRow, NEW seen \in UserRow
    PROVE  LET new == Cleared(row, seen)
           IN  /\ new \in UserRow
               /\ new.status = row.status /\ new.password_hash = row.password_hash
               /\ new.failed_logins \in {row.failed_logins, 0}
               /\ new.locked_until \in {row.locked_until, "none"}
               /\ seen.locked_until = "none" => new.locked_until = row.locked_until
<1> DEFINE failed == IF seen.failed_logins = 0 THEN row.failed_logins ELSE 0
           locked == IF seen.locked_until = "none" THEN row.locked_until ELSE "none"
           new == [row EXCEPT !.failed_logins = failed, !.locked_until = locked]
<1>1. Cleared(row, seen) = new
  BY DEF Cleared
<1>2. failed \in {row.failed_logins, 0} /\ locked \in {row.locked_until, "none"}
      /\ (seen.locked_until = "none" => locked = row.locked_until)
  OBVIOUS
<1>3. failed \in 0..MaxWrong /\ locked \in {"none", "running", "past"}
  BY <1>2, BoundAssumption DEF UserRow
<1> HIDE DEF failed, locked
<1>4. /\ new \in UserRow
      /\ new.status = row.status /\ new.password_hash = row.password_hash
      /\ new.failed_logins = failed /\ new.locked_until = locked
  BY <1>3 DEF UserRow
<1> QED
  BY <1>1, <1>2, <1>4

LEMMA VerifyWriteStep ==
    ASSUME IInv, NEW r \in Req, VerifyWrite(r)
    PROVE  IInv'
<1> DEFINE q == req[r]
           u == q.user
           row == [users[u] EXCEPT !.status = IF q.seen.status = "active" THEN @ ELSE "active"]
<1>1. u \in User /\ users[u].status # "absent" /\ users[u] \in UserRow
  BY DEF VerifyWrite, IInv, TypeOK, Requests, Shape, HasToken, Tokens
<1>2. users' = [users EXCEPT ![u] = row]
  BY <1>1 DEF VerifyWrite, IInv, TypeOK, UserRow
<1>3. row \in UserRow /\ row.status # "absent" /\ row.failed_logins = users[u].failed_logins
      /\ row.locked_until = users[u].locked_until
  BY <1>1 DEF UserRow
<1>4. row.failed_logins <= wrong[u] /\ (row.locked_until # "none" => wrong[u] >= 3)
  BY <1>1, <1>3 DEF IInv, LockoutEarned
<1> QED
  BY <1>1, <1>2, <1>3, <1>4, WriteStep DEF VerifyWrite

LEMMA ResetWriteStep ==
    ASSUME IInv, NEW r \in Req, ResetWrite(r)
    PROVE  IInv'
<1> DEFINE q == req[r]
           u == q.user
           clear == Cleared(users[u], q.seen)
           row == [clear EXCEPT !.password_hash = q.password]
<1>1. u \in User /\ users[u].status # "absent" /\ users[u] \in UserRow
      /\ q.seen \in UserRow /\ q.password \in Password
  BY DEF ResetWrite, IInv, TypeOK, Requests, Shape, HasToken, Tokens, Slot
<1>2. users' = [users EXCEPT ![u] = row]
  BY <1>1 DEF ResetWrite, IInv, TypeOK
<1>3. /\ clear \in UserRow /\ clear.status = users[u].status
      /\ clear.failed_logins \in {users[u].failed_logins, 0}
      /\ clear.locked_until \in {users[u].locked_until, "none"}
  BY <1>1, ClearedRow
<1> HIDE DEF clear
<1>4. row \in UserRow /\ row.status = clear.status /\ row.failed_logins = clear.failed_logins
      /\ row.locked_until = clear.locked_until
  BY <1>1, <1>3 DEF UserRow
<1>5. wrong[u] \in Nat
  BY <1>1, BoundAssumption DEF IInv, TypeOK
<1>6. row.failed_logins <= wrong[u] /\ (row.locked_until # "none" => wrong[u] >= 3)
  BY <1>1, <1>3, <1>4, <1>5 DEF IInv, LockoutEarned
<1> QED
  BY <1>1, <1>2, <1>3, <1>4, <1>6, WriteStep DEF ResetWrite

LEMMA AuthenticateStep ==
    ASSUME IInv, NEW r \in Req, NEW u \in User, NEW password \in Password,
           Authenticate(r, u, password)
    PROVE  IInv'
<1> PICK row \in UserRow : users[u] = row
  BY DEF IInv, TypeOK
<1> DEFINE c == [Idle EXCEPT !.pc = "login", !.user = u, !.password = password,
                             !.seen = row]
<1>1. c \in Slot
  BY Rows DEF Slot, Idle
<1>2. users[u].status # "absent"
  BY DEF Authenticate, IInv, Accounts, NoRow
<1>3. /\ wrong \in [User -> 0..MaxWrong] /\ wrong' \in [User -> 0..MaxWrong]
      /\ \A v \in User : wrong[v] <= wrong'[v]
      /\ password # users[u].password_hash => wrong'[u] = wrong[u] + 1
  <2>1. wrong \in [User -> 0..MaxWrong]
    BY DEF IInv, TypeOK
  <2>2. CASE password = users[u].password_hash
    <3>1. wrong' = wrong
      BY <2>2 DEF Authenticate
    <3> QED
      BY <2>1, <2>2, <3>1, BoundAssumption
  <2>3. CASE password # users[u].password_hash
    <3>1. wrong[u] < MaxWrong /\ wrong' = [wrong EXCEPT ![u] = wrong[u] + 1]
      BY <2>1, <2>3 DEF Authenticate
    <3>2. wrong[u] + 1 \in 0..MaxWrong
      BY <2>1, <3>1, BoundAssumption
    <3>3. \A v \in User : wrong'[v] = IF v = u THEN wrong[u] + 1 ELSE wrong[v]
      BY <2>1, <3>1
    <3> QED
      BY <2>1, <2>3, <3>1, <3>2, <3>3, BoundAssumption
  <2> QED
    BY <2>2, <2>3
<1>4. \A v \in User : wrong[v] \in Nat /\ wrong'[v] \in Nat /\ users[v].failed_logins \in Nat
  BY <1>3, BoundAssumption DEF IInv, TypeOK, UserRow
<1>5. users[u].failed_logins <= wrong[u] /\ (users[u].locked_until # "none" => wrong[u] >= 3)
  BY DEF IInv, LockoutEarned
<1>6. Shape(r, c)'
  BY <1>1, <1>2, <1>3, <1>4, <1>5 DEF Authenticate, Shape, Idle
<1>7. Keeps({r})
  BY <1>3 DEF Authenticate, Keeps, IInv, TypeOK
<1>8. LockoutEarned'
  BY <1>3, <1>4 DEF Authenticate, IInv, LockoutEarned
<1>9. Accounts' /\ Tokens' /\ TokenRedeemedOnce' /\ MailedTokenStored'
  BY DEF Authenticate, IInv, Accounts, Tokens, TokenRedeemedOnce, MailedTokenStored
<1>10. req' = [req EXCEPT ![r] = c]
  BY DEF Authenticate
<1> QED
  BY <1>1, <1>3, <1>6, <1>7, <1>8, <1>9, <1>10, RequestStep DEF Authenticate, IInv, TypeOK

LEMMA AuthenticateWriteStep ==
    ASSUME IInv, NEW r \in Req, AuthenticateWrite(r)
    PROVE  IInv'
<1> DEFINE q == req[r]
           u == q.user
<1>1. q \in Slot /\ Shape(r, q) /\ q.pc = "login"
  BY DEF AuthenticateWrite, IInv, TypeOK, Requests
<1>2. /\ u \in User /\ users[u].status # "absent" /\ users[u] \in UserRow /\ q.seen \in UserRow
      /\ q.seen.failed_logins <= wrong[u]
      /\ q.password # q.seen.password_hash => q.seen.failed_logins + 1 <= wrong[u]
  BY <1>1 DEF Shape, Slot, IInv, TypeOK
<1>3. /\ wrong[u] \in 0..MaxWrong /\ users[u].failed_logins <= wrong[u]
      /\ users[u].locked_until # "none" => wrong[u] >= 3
  BY <1>2 DEF IInv, TypeOK, LockoutEarned
<1>4. CASE q.password = q.seen.password_hash
  <2> DEFINE row == Cleared(users[u], q.seen)
  <2>1. /\ row \in UserRow /\ row.status = users[u].status
        /\ row.failed_logins \in {users[u].failed_logins, 0}
        /\ row.locked_until \in {users[u].locked_until, "none"}
    BY <1>2, ClearedRow
  <2>2. users' = [users EXCEPT ![u] = row]
    BY <1>2, <1>4 DEF AuthenticateWrite, IInv, TypeOK
  <2> HIDE DEF row
  <2>3. row.failed_logins <= wrong[u] /\ (row.locked_until # "none" => wrong[u] >= 3)
    BY <1>3, <2>1, BoundAssumption
  <2> QED
    BY <1>2, <2>1, <2>2, <2>3, WriteStep DEF AuthenticateWrite
<1>5. CASE q.password # q.seen.password_hash
  <2> DEFINE row == Failed(users[u], q.seen)
  <2>1. /\ row \in UserRow /\ row.status = users[u].status
        /\ row.failed_logins = q.seen.failed_logins + 1
        /\ row.locked_until # "none" =>
              users[u].locked_until # "none" \/ q.seen.failed_logins + 1 >= 3
    <3> DEFINE failed == q.seen.failed_logins + 1
               locked == IF failed >= 3 THEN "running" ELSE users[u].locked_until
    <3>1. failed \in 0..MaxWrong /\ locked \in {"none", "running", "past"}
      BY <1>2, <1>3, <1>5, BoundAssumption DEF UserRow
    <3>2. locked # "none" => users[u].locked_until # "none" \/ failed >= 3
      OBVIOUS
    <3>3. row = [users[u] EXCEPT !.failed_logins = failed, !.locked_until = locked]
      BY DEF Failed
    <3> HIDE DEF failed, locked, row
    <3>4. row \in UserRow /\ row.status = users[u].status
          /\ row.failed_logins = failed /\ row.locked_until = locked
      BY <1>2, <3>1, <3>3 DEF UserRow
    <3> QED
      BY <3>2, <3>4 DEF failed
  <2>2. users' = [users EXCEPT ![u] = row]
    BY <1>2, <1>5 DEF AuthenticateWrite, IInv, TypeOK
  <2>3. q.seen.failed_logins \in Nat /\ wrong[u] \in Nat
    BY <1>2, <1>3, BoundAssumption DEF UserRow
  <2> HIDE DEF row
  <2>4. row.failed_logins <= wrong[u] /\ (row.locked_until # "none" => wrong[u] >= 3)
    BY <1>2, <1>3, <1>5, <2>1, <2>3
  <2> QED
    BY <1>2, <2>1, <2>2, <2>4, WriteStep DEF AuthenticateWrite
<1> QED
  BY <1>4, <1>5

-----------------------------------------------------------------------------
\* A step that ends the requests of S and leaves what the others know.
LEMMA EndStep ==
    ASSUME IInv, NEW S \in SUBSET Req,
           req' = [r \in Req |-> IF r \in S THEN Idle ELSE req[r]], Keeps(S),
           users' \in [User -> UserRow], tokens' \in [Token -> TokenRow],
           mailbox' \in [User -> [Purpose -> Token \cup {NoToken}]],
           UNCHANGED <<wrong, redeemed>>,
           Accounts', Tokens', LockoutEarned', MailedTokenStored'
    PROVE  IInv'
<1>1. TypeOK'
  BY Rows DEF IInv, TypeOK
<1>2. \A r \in S : Shape(r, req[r])'
  BY IdleShape
<1>3. Requests'
  BY <1>1, <1>2, RequestsKept
<1>4. TokenRedeemedOnce'
  BY DEF IInv, TokenRedeemedOnce
<1> QED
  BY <1>1, <1>3, <1>4 DEF IInv

LEMMA ReleasedTokens ==
    ASSUME IInv, NEW S \in SUBSET Req, tokens' = Released(S)
    PROVE  /\ tokens' \in [Token -> TokenRow]
           /\ \A t \in Token :
                 /\ tokens'[t].state = tokens[t].state /\ tokens'[t].user = tokens[t].user
                 /\ tokens'[t].purpose = tokens[t].purpose
                 /\ tokens'[t].lock = IF tokens[t].lock \in S THEN NoReq ELSE tokens[t].lock
<1>1. \A t \in Token :
         tokens'[t] = IF tokens[t].lock \in S THEN [tokens[t] EXCEPT !.lock = NoReq]
                                              ELSE tokens[t]
  BY DEF Released
<1>2. \A t \in Token : tokens[t] \in TokenRow
  BY DEF IInv, TypeOK
<1>3. \A t \in Token : [tokens[t] EXCEPT !.lock = NoReq] \in TokenRow
  BY <1>2 DEF TokenRow
<1>4. \A t \in Token : tokens'[t] \in TokenRow
  BY <1>1, <1>2, <1>3
<1>5. tokens' \in [Token -> TokenRow]
  BY <1>4 DEF Released
<1> QED
  BY <1>1, <1>2, <1>5 DEF TokenRow

LEMMA FailStep ==
    ASSUME IInv, NEW r \in Req, Fail(r)
    PROVE  IInv'
<1>1. /\ tokens' \in [Token -> TokenRow]
      /\ \A t \in Token :
            /\ tokens'[t].state = tokens[t].state /\ tokens'[t].user = tokens[t].user
            /\ tokens'[t].purpose = tokens[t].purpose
            /\ tokens'[t].lock = IF tokens[t].lock \in {r} THEN NoReq ELSE tokens[t].lock
  BY ReleasedTokens DEF Fail
<1>2. Keeps({r})
  <2>1. \A t \in Token : tokens[t].lock \in Req \ {r} => tokens'[t].lock = tokens[t].lock
    BY <1>1
  <2>2. UNCHANGED <<users, wrong, redeemed>>
    BY DEF Fail
  <2> QED
    BY <1>1, <2>1, <2>2, BoundAssumption DEF Keeps, IInv, TypeOK
<1>3. Tokens'
  BY <1>1 DEF Fail, IInv, Tokens
<1>4. MailedTokenStored'
  <2> SUFFICES ASSUME NEW u \in User, NEW p \in Purpose, NEW t, t = mailbox'[u][p], t # NoToken
               PROVE  /\ tokens'[t].state \in {"mailed", "spent"}
                      /\ tokens'[t].user = u /\ tokens'[t].purpose = p
    BY DEF MailedTokenStored
  <2> t = mailbox[u][p]
    BY DEF Fail
  <2>1. t \in Token
    BY DEF IInv, TypeOK
  <2>2. /\ tokens[t].state \in {"mailed", "spent"}
        /\ tokens[t].user = u /\ tokens[t].purpose = p
    BY DEF IInv, MailedTokenStored
  <2> QED
    BY <1>1, <2>1, <2>2
<1>5. Accounts' /\ LockoutEarned'
  BY DEF Fail, IInv, Accounts, LockoutEarned
<1>6. req' = [s \in Req |-> IF s \in {r} THEN Idle ELSE req[s]]
  BY DEF Fail, Finish, IInv, TypeOK
<1> QED
  BY <1>1, <1>2, <1>3, <1>4, <1>5, <1>6, EndStep DEF Fail, IInv, TypeOK

LEMMA RestartStep ==
    ASSUME IInv, Restart
    PROVE  IInv'
<1>1. /\ tokens' \in [Token -> TokenRow]
      /\ \A t \in Token :
            /\ tokens'[t].state = tokens[t].state /\ tokens'[t].user = tokens[t].user
            /\ tokens'[t].purpose = tokens[t].purpose
            /\ tokens'[t].lock = IF tokens[t].lock \in Req THEN NoReq ELSE tokens[t].lock
  BY ReleasedTokens DEF Restart
<1>2. Keeps(Req)
  BY <1>1, BoundAssumption DEF Restart, Keeps, IInv, TypeOK
<1>3. Tokens'
  BY <1>1 DEF Restart, IInv, Tokens
<1>4. MailedTokenStored' /\ mailbox' \in [User -> [Purpose -> Token \cup {NoToken}]]
  BY DEF Restart, MailedTokenStored
<1>5. Accounts' /\ LockoutEarned'
  BY DEF Restart, IInv, Accounts, LockoutEarned
<1>6. req' = [s \in Req |-> IF s \in Req THEN Idle ELSE req[s]]
  BY DEF Restart
<1> QED
  BY <1>1, <1>2, <1>3, <1>4, <1>5, <1>6, EndStep DEF Restart, IInv, TypeOK

LEMMA LockExpiresStep ==
    ASSUME IInv, NEW u \in User, LockExpires(u)
    PROVE  IInv'
<1> DEFINE row == [users[u] EXCEPT !.locked_until = "past"]
<1>1. users[u] \in UserRow /\ users[u].locked_until = "running"
  BY DEF LockExpires, IInv, TypeOK
<1>2. /\ row \in UserRow /\ row.status = users[u].status
      /\ row.failed_logins = users[u].failed_logins
  BY <1>1 DEF UserRow
<1>3. /\ users' \in [User -> UserRow] /\ users'[u] = row
      /\ \A v \in User \ {u} : users'[v] = users[v]
  BY <1>2 DEF LockExpires, IInv, TypeOK
<1> HIDE DEF row
<1>4. Keeps({})
  <2>1. \A v \in User : users'[v].status = users[v].status
    BY <1>2, <1>3
  <2>2. UNCHANGED <<tokens, wrong, redeemed>>
    BY DEF LockExpires
  <2> QED
    BY <2>1, <2>2, BoundAssumption DEF Keeps, IInv, TypeOK
<1>5. Accounts'
  BY <1>1, <1>2, <1>3 DEF IInv, Accounts, NoRow
<1>6. Tokens'
  BY <1>2, <1>3 DEF LockExpires, IInv, Tokens
<1>7. LockoutEarned'
  BY <1>1, <1>2, <1>3 DEF LockExpires, IInv, LockoutEarned
<1>8. MailedTokenStored'
  BY DEF LockExpires, IInv, MailedTokenStored
<1>9. req' = [s \in Req |-> IF s \in {} THEN Idle ELSE req[s]]
  BY DEF LockExpires, IInv, TypeOK
<1> QED
  BY <1>3, <1>4, <1>5, <1>6, <1>7, <1>8, <1>9, EndStep DEF LockExpires, IInv, TypeOK

LEMMA ProviderSignUpStep ==
    ASSUME IInv, NEW u \in User, ProviderSignUp(u)
    PROVE  IInv'
<1> DEFINE row == ProviderRow
<1>1. users[u] = NoRow
  BY DEF ProviderSignUp, IInv, Accounts
<1>2. /\ row \in UserRow /\ row.status = "active"
      /\ row.failed_logins = 0 /\ row.locked_until = "none"
  BY Rows DEF ProviderRow, NoRow
<1>3. /\ users' \in [User -> UserRow] /\ users'[u] = row
      /\ \A v \in User \ {u} : users'[v] = users[v]
  BY <1>2 DEF ProviderSignUp, IInv, TypeOK
<1> HIDE DEF row
<1>4. Keeps({})
  BY <1>2, <1>3, BoundAssumption DEF ProviderSignUp, Keeps, IInv, TypeOK
<1>5. Accounts'
  BY <1>2, <1>3 DEF IInv, Accounts
<1>6. Tokens'
  BY <1>2, <1>3 DEF ProviderSignUp, IInv, Tokens
<1>7. LockoutEarned'
  BY <1>2, <1>3, BoundAssumption DEF ProviderSignUp, IInv, TypeOK, LockoutEarned
<1>8. MailedTokenStored'
  BY DEF ProviderSignUp, IInv, MailedTokenStored
<1>9. req' = [s \in Req |-> IF s \in {} THEN Idle ELSE req[s]]
  BY DEF ProviderSignUp, IInv, TypeOK
<1> QED
  BY <1>3, <1>4, <1>5, <1>6, <1>7, <1>8, <1>9, EndStep DEF ProviderSignUp, IInv, TypeOK

LEMMA ApproveStep ==
    ASSUME IInv, NEW u \in User, Approve(u)
    PROVE  IInv'
<1> DEFINE row == [users[u] EXCEPT !.status = "active"]
<1>1. users[u] \in UserRow /\ users[u].status # "absent"
  BY DEF Approve, IInv, TypeOK
<1>2. /\ row \in UserRow /\ row.status = "active"
      /\ row.failed_logins = users[u].failed_logins
      /\ row.locked_until = users[u].locked_until
  BY <1>1 DEF UserRow
<1>3. /\ users' \in [User -> UserRow] /\ users'[u] = row
      /\ \A v \in User \ {u} : users'[v] = users[v]
  BY <1>2 DEF Approve, IInv, TypeOK
<1> HIDE DEF row
<1>4. Keeps({})
  BY <1>2, <1>3, BoundAssumption DEF Approve, Keeps, IInv, TypeOK
<1>5. Accounts'
  BY <1>1, <1>2, <1>3 DEF IInv, Accounts
<1>6. Tokens'
  BY <1>2, <1>3 DEF Approve, IInv, Tokens
<1>7. LockoutEarned'
  BY <1>1, <1>2, <1>3 DEF Approve, IInv, LockoutEarned
<1>8. MailedTokenStored'
  BY DEF Approve, IInv, MailedTokenStored
<1>9. req' = [s \in Req |-> IF s \in {} THEN Idle ELSE req[s]]
  BY DEF Approve, IInv, TypeOK
<1> QED
  BY <1>3, <1>4, <1>5, <1>6, <1>7, <1>8, <1>9, EndStep DEF Approve, IInv, TypeOK

LEMMA SuspendStep ==
    ASSUME IInv, NEW u \in User, Suspend(u)
    PROVE  IInv'
<1> DEFINE row == [users[u] EXCEPT !.status = "suspended"]
<1>1. users[u] \in UserRow /\ users[u].status # "absent"
  BY DEF Suspend, IInv, TypeOK
<1>2. /\ row \in UserRow /\ row.status = "suspended"
      /\ row.failed_logins = users[u].failed_logins
      /\ row.locked_until = users[u].locked_until
  BY <1>1 DEF UserRow
<1>3. /\ users' \in [User -> UserRow] /\ users'[u] = row
      /\ \A v \in User \ {u} : users'[v] = users[v]
  BY <1>2 DEF Suspend, IInv, TypeOK
<1> HIDE DEF row
<1>4. Keeps({})
  BY <1>2, <1>3, BoundAssumption DEF Suspend, Keeps, IInv, TypeOK
<1>5. Accounts'
  BY <1>1, <1>2, <1>3 DEF IInv, Accounts
<1>6. Tokens'
  BY <1>2, <1>3 DEF Suspend, IInv, Tokens
<1>7. LockoutEarned'
  BY <1>1, <1>2, <1>3 DEF Suspend, IInv, LockoutEarned
<1>8. MailedTokenStored'
  BY DEF Suspend, IInv, MailedTokenStored
<1>9. req' = [s \in Req |-> IF s \in {} THEN Idle ELSE req[s]]
  BY DEF Suspend, IInv, TypeOK
<1> QED
  BY <1>3, <1>4, <1>5, <1>6, <1>7, <1>8, <1>9, EndStep DEF Suspend, IInv, TypeOK

LEMMA TokenExpiresStep ==
    ASSUME IInv, NEW t \in Token, TokenExpires(t)
    PROVE  IInv'
<1> DEFINE row == [tokens[t] EXCEPT !.state = "spent"]
<1>1. tokens[t] \in TokenRow /\ tokens[t].state \in {"stored", "mailed"} /\ tokens[t].lock = NoReq
  BY DEF TokenExpires, IInv, TypeOK
<1>2. /\ row \in TokenRow /\ row.state = "spent" /\ row.user = tokens[t].user
      /\ row.purpose = tokens[t].purpose /\ row.lock = NoReq
  BY <1>1 DEF TokenRow
<1>3. /\ tokens' \in [Token -> TokenRow] /\ tokens'[t] = row
      /\ \A o \in Token \ {t} : tokens'[o] = tokens[o]
  BY <1>2 DEF TokenExpires, IInv, TypeOK
<1> HIDE DEF row
<1>4. Keeps({})
  BY <1>1, <1>2, <1>3, BoundAssumption DEF TokenExpires, Keeps, IInv, TypeOK
<1>5. Tokens'
  BY <1>1, <1>2, <1>3 DEF TokenExpires, IInv, Tokens
<1>6. MailedTokenStored'
  BY <1>2, <1>3 DEF TokenExpires, IInv, TypeOK, MailedTokenStored
<1>7. Accounts' /\ LockoutEarned'
  BY DEF TokenExpires, IInv, Accounts, LockoutEarned
<1>8. req' = [s \in Req |-> IF s \in {} THEN Idle ELSE req[s]]
  BY DEF TokenExpires, IInv, TypeOK
<1> QED
  BY <1>3, <1>4, <1>5, <1>6, <1>7, <1>8, EndStep DEF TokenExpires, IInv, TypeOK

-----------------------------------------------------------------------------
LEMMA InitIInv == Init => IInv
<1> SUFFICES ASSUME Init PROVE IInv
  OBVIOUS
<1>1. users \in [User -> UserRow]
  BY Rows DEF Init
<1>2. \A u \in User : users[u] = NoRow /\ users[u].failed_logins = 0
                      /\ users[u].locked_until = "none"
  BY DEF Init, NoRow
<1>3. TypeOK
  BY <1>1, Rows, BoundAssumption DEF Init, TypeOK, TokenRow
<1>4. Accounts /\ LockoutEarned
  BY <1>2, BoundAssumption DEF Init, Accounts, LockoutEarned
<1>5. Tokens /\ Requests /\ TokenRedeemedOnce /\ MailedTokenStored
  BY DEF Init, Tokens, Requests, Shape, Idle, TokenRedeemedOnce, MailedTokenStored
<1> QED
  BY <1>3, <1>4, <1>5 DEF IInv

LEMMA NextIInv == IInv /\ [Next]_vars => IInv'
<1> SUFFICES ASSUME IInv, [Next]_vars PROVE IInv'
  OBVIOUS
<1>1. ASSUME NEW r \in Req, Step(r) PROVE IInv'
  <2>1. ASSUME NEW t \in Token, VerifyEmail(r, t) PROVE IInv'
    BY <2>1, ConsumeStartStep DEF VerifyEmail, Purpose
  <2>2. ASSUME NEW t \in Token, NEW p \in Password, ResetPassword(r, t, p) PROVE IInv'
    BY <2>2, ConsumeStartStep DEF ResetPassword, Purpose
  <2> QED
    BY <1>1, <2>1, <2>2, RegisterStep, RequestPasswordResetStep, AuthenticateStep,
       IssueOneTimeStep, MailStep, ConsumeCommitStep, ReadUserStep, VerifyWriteStep,
       ResetWriteStep, AuthenticateWriteStep
    DEF Step
<1>2. CASE UNCHANGED vars
  BY <1>2 DEF vars, IInv, TypeOK, Accounts, Tokens, Requests, Shape, HasToken,
     TokenRedeemedOnce, LockoutEarned, MailedTokenStored
<1> QED
  BY <1>1, <1>2, FailStep, RestartStep, LockExpiresStep, ProviderSignUpStep, ApproveStep,
     SuspendStep, TokenExpiresStep DEF Next

\* The inductive invariant: what the rows say of each other, and what each
\* request carries from one transaction to the next.
THEOREM Invariance == Spec => []IInv
  BY InitIInv, NextIInv, PTL DEF Spec

\* TypeOK: types, with failed_logins never above the wrong passwords tried.
THEOREM TypeCorrect == Spec => []TypeOK
<1>1. IInv => TypeOK
  BY DEF IInv
<1> QED
  BY <1>1, Invariance, PTL

\* TokenRedeemedOnce: a one-time token is consumed once, in any number of
\* requests that post it (consume_one_time).
THEOREM TokensRedeemedOnce == Spec => []TokenRedeemedOnce
<1>1. IInv => TokenRedeemedOnce
  BY DEF IInv
<1> QED
  BY <1>1, Invariance, PTL

\* LockoutEarned: fewer than three wrong passwords lock nobody out
\* (authenticate).
THEOREM LocksEarned == Spec => []LockoutEarned
<1>1. IInv => LockoutEarned
  BY DEF IInv
<1> QED
  BY <1>1, Invariance, PTL

\* MailedTokenStored: what is mailed is a committed token of its account
\* (_issue_one_time).
THEOREM MailsStored == Spec => []MailedTokenStored
<1>1. IInv => MailedTokenStored
  BY DEF IInv
<1> QED
  BY <1>1, Invariance, PTL

\* OwnTokenOnly: whatever is committed between the transaction that consumes a
\* token and the one that writes the account, a password changes only by a reset
\* token of that account, and an account becomes active only by a verification
\* token of its own, by an approval, or by a first login with a provider, which
\* leaves it without a password (reset_password, verify_email, approve_user).
THEOREM WritesEarned == Spec => OwnTokenOnly
<1>1. IInv /\ [Next]_vars =>
         [\A u \in User :
             /\ users[u].password_hash # users'[u].password_hash =>
                    \/ users[u].status = "absent"
                    \/ Redeems(u, "reset", users'[u].password_hash)
             /\ users[u].status # "active" /\ users'[u].status = "active" =>
                    \/ users[u].status = "absent" /\ users'[u].password_hash = NoPassword
                    \/ Redeems(u, "verify", NoPassword)
                    \/ Approve(u)]_vars
  <2> SUFFICES ASSUME IInv, [Next]_vars, NEW u \in User
               PROVE  /\ users[u].password_hash # users'[u].password_hash =>
                             \/ users[u].status = "absent"
                             \/ Redeems(u, "reset", users'[u].password_hash)
                      /\ users[u].status # "active" /\ users'[u].status = "active" =>
                             \/ users[u].status = "absent" /\ users'[u].password_hash = NoPassword
                             \/ Redeems(u, "verify", NoPassword)
                             \/ Approve(u)
    OBVIOUS
  <2> DEFINE Earned ==
                 /\ users[u].password_hash # users'[u].password_hash =>
                        \/ users[u].status = "absent"
                        \/ Redeems(u, "reset", users'[u].password_hash)
                 /\ users[u].status # "active" /\ users'[u].status = "active" =>
                        \/ users[u].status = "absent" /\ users'[u].password_hash = NoPassword
                        \/ Redeems(u, "verify", NoPassword)
                        \/ Approve(u)
  <2>1. ASSUME NEW r \in Req, VerifyWrite(r) PROVE Earned
    <3>1. /\ HasToken(req[r]) /\ redeemed[req[r].token] > 0
          /\ tokens[req[r].token].user = req[r].user /\ req[r].pc = "write"
          /\ req[r].purpose = "verify"
      BY <2>1 DEF VerifyWrite, IInv, Requests, Shape
    <3>2. req'[r].pc = "idle"
      BY <2>1 DEF VerifyWrite, Finish, Idle, IInv, TypeOK
    <3>3. users'[u].password_hash = users[u].password_hash
          /\ (u # req[r].user => users'[u] = users[u])
      BY <2>1 DEF VerifyWrite, IInv, TypeOK, UserRow
    <3> QED
      BY <3>1, <3>2, <3>3 DEF HasToken, Redeems
  <2>2. ASSUME NEW r \in Req, ResetWrite(r) PROVE Earned
    <3>1. /\ HasToken(req[r]) /\ redeemed[req[r].token] > 0
          /\ tokens[req[r].token].user = req[r].user /\ req[r].pc = "write"
          /\ req[r].purpose = "reset"
      BY <2>2 DEF ResetWrite, IInv, Requests, Shape
    <3>2. req'[r].pc = "idle"
      BY <2>2 DEF ResetWrite, Finish, Idle, IInv, TypeOK
    <3>3. users[u] \in UserRow /\ req[r].seen \in UserRow
      BY DEF IInv, TypeOK, Slot
    <3>4. /\ u # req[r].user => users'[u] = users[u]
          /\ u = req[r].user => users'[u] = [Cleared(users[u], req[r].seen) EXCEPT
                                                !.password_hash = req[r].password]
      BY <2>2 DEF ResetWrite, IInv, TypeOK
    <3>5. /\ Cleared(users[u], req[r].seen) \in UserRow
          /\ Cleared(users[u], req[r].seen).status = users[u].status
      BY <3>3, ClearedRow
    <3>6. /\ users'[u].status = users[u].status
          /\ u = req[r].user => users'[u].password_hash = req[r].password
      BY <3>4, <3>5 DEF UserRow
    <3> QED
      BY <3>1, <3>2, <3>4, <3>6 DEF HasToken, Redeems
  <2>3. ASSUME NEW r \in Req, AuthenticateWrite(r) PROVE Earned
    <3>1. users[u] \in UserRow /\ req[r].seen \in UserRow
      BY DEF IInv, TypeOK, Slot
    <3>2. \/ users'[u] = users[u]
          \/ users'[u] = Cleared(users[u], req[r].seen)
          \/ users'[u] = Failed(users[u], req[r].seen)
      BY <2>3 DEF AuthenticateWrite, IInv, TypeOK
    <3>3. Failed(users[u], req[r].seen).status = users[u].status
          /\ Failed(users[u], req[r].seen).password_hash = users[u].password_hash
      BY <3>1 DEF Failed, UserRow
    <3> QED
      BY <3>1, <3>2, <3>3, ClearedRow
  <2>4. ASSUME NEW r \in Req, NEW v \in User, NEW password \in Password,
               Register(r, v, password)
        PROVE  Earned
    <3>1. u # v => users'[u] = users[u]
      BY <2>4 DEF Register, IInv, TypeOK
    <3>2. users[v].status = "absent" /\ users'[v].status = "pending"
      BY <2>4 DEF Register, NoRow, IInv, TypeOK
    <3> QED
      BY <3>1, <3>2
  <2>5. ASSUME NEW v \in User, ProviderSignUp(v) PROVE Earned
    <3>1. u # v => users'[u] = users[u]
      BY <2>5 DEF ProviderSignUp, IInv, TypeOK
    <3>2. users[v].status = "absent" /\ users'[v].password_hash = NoPassword
      BY <2>5 DEF ProviderSignUp, ProviderRow, NoRow, IInv, TypeOK
    <3> QED
      BY <3>1, <3>2
  <2>6. ASSUME NEW v \in User, Approve(v) PROVE Earned
    <3>1. u # v => users'[u] = users[u]
      BY <2>6 DEF Approve, IInv, TypeOK
    <3>2. users'[v].password_hash = users[v].password_hash
      BY <2>6 DEF Approve, IInv, TypeOK, UserRow
    <3> QED
      BY <2>6, <3>1, <3>2
  <2>7. ASSUME NEW v \in User, LockExpires(v) \/ Suspend(v) PROVE Earned
    <3>1. users[u] \in UserRow
      BY DEF IInv, TypeOK
    <3>2. \/ users'[u] = users[u]
          \/ users'[u] = [users[u] EXCEPT !.locked_until = "past"]
          \/ users'[u] = [users[u] EXCEPT !.status = "suspended"]
      BY <2>7 DEF LockExpires, Suspend, IInv, TypeOK
    <3> QED
      BY <3>1, <3>2 DEF UserRow
  <2>8. CASE UNCHANGED users
    BY <2>8
  <2> QED
    BY <2>1, <2>2, <2>3, <2>4, <2>5, <2>6, <2>7, <2>8
    DEF Next, vars, Step, RequestPasswordReset, Authenticate, IssueOneTime, VerifyEmail,
        ResetPassword, ConsumeStart, Mail, ConsumeCommit, ReadUser, Fail, Restart, TokenExpires
<1> QED
  BY <1>1, Invariance, PTL DEF Spec, OwnTokenOnly

\* LockHolds: only a reset, or a login that has read the account before the lock
\* began, ends a running lock (authenticate, reset_password).
THEOREM LocksHold == Spec => LockHolds
<1>1. IInv /\ [Next]_vars =>
         [\A u \in User :
            users[u].locked_until = "running" /\ users'[u].locked_until = "none" =>
              \E r \in Req : /\ req[r].user = u /\ req'[r] = Idle
                             /\ \/ req[r].pc = "write" /\ req[r].purpose = "reset"
                                \/ req[r].pc = "login" /\ req[r].seen.locked_until = "past"]_vars
  <2> SUFFICES ASSUME IInv, [Next]_vars, NEW u \in User,
                      users[u].locked_until = "running", users'[u].locked_until = "none"
               PROVE  \E r \in Req :
                         /\ req[r].user = u /\ req'[r] = Idle
                         /\ \/ req[r].pc = "write" /\ req[r].purpose = "reset"
                            \/ req[r].pc = "login" /\ req[r].seen.locked_until = "past"
    OBVIOUS
  <2>1. users[u] \in UserRow /\ users[u].status # "absent"
    BY DEF IInv, TypeOK, Accounts, NoRow
  <2>2. ASSUME NEW r \in Req, VerifyWrite(r) PROVE FALSE
    BY <2>1, <2>2 DEF VerifyWrite, IInv, TypeOK, UserRow
  <2>3. ASSUME NEW r \in Req, ResetWrite(r)
        PROVE  req[r].user = u /\ req'[r] = Idle /\ req[r].pc = "write" /\ req[r].purpose = "reset"
    BY <2>3 DEF ResetWrite, Finish, IInv, TypeOK
  <2>4. ASSUME NEW r \in Req, AuthenticateWrite(r)
        PROVE  /\ req[r].user = u /\ req'[r] = Idle /\ req[r].pc = "login"
               /\ req[r].seen.locked_until = "past"
    <3>1. /\ req[r].seen \in UserRow /\ req[r].pc = "login" /\ req'[r] = Idle
          /\ req[r].seen.locked_until # "running"
      BY <2>4 DEF AuthenticateWrite, Finish, IInv, TypeOK, Slot, Requests, Shape
    <3>2. req[r].user = u
      BY <2>4 DEF AuthenticateWrite, IInv, TypeOK
    <3>3. \/ users'[u] = Cleared(users[u], req[r].seen)
          \/ users'[u] = Failed(users[u], req[r].seen)
      BY <2>4, <3>2 DEF AuthenticateWrite, IInv, TypeOK
    <3>4. Failed(users[u], req[r].seen).locked_until # "none"
      BY <2>1 DEF Failed, UserRow
    <3>5. req[r].seen.locked_until # "none"
      BY <2>1, <3>1, <3>3, <3>4, ClearedRow
    <3> QED
      BY <3>1, <3>2, <3>5 DEF UserRow
  <2>5. ASSUME NEW r \in Req, NEW v \in User, NEW password \in Password,
               Register(r, v, password)
        PROVE  FALSE
    BY <2>1, <2>5 DEF Register, IInv, TypeOK
  <2>6. ASSUME NEW v \in User, LockExpires(v) \/ ProviderSignUp(v) \/ Approve(v) \/ Suspend(v)
        PROVE  FALSE
    <3>1. \/ users'[u] = users[u]
          \/ users'[u] = [users[u] EXCEPT !.locked_until = "past"]
          \/ users'[u] = [users[u] EXCEPT !.status = "active"]
          \/ users'[u] = [users[u] EXCEPT !.status = "suspended"]
      BY <2>1, <2>6 DEF LockExpires, ProviderSignUp, Approve, Suspend, IInv, TypeOK
    <3> QED
      BY <2>1, <3>1 DEF UserRow
  <2>7. ~UNCHANGED users
    OBVIOUS
  <2> QED
    BY <2>2, <2>3, <2>4, <2>5, <2>6, <2>7
    DEF Next, vars, Step, RequestPasswordReset, Authenticate, IssueOneTime, VerifyEmail,
        ResetPassword, ConsumeStart, Mail, ConsumeCommit, ReadUser, Fail, Restart, TokenExpires
<1> QED
  BY <1>1, Invariance, PTL DEF Spec, LockHolds
=============================================================================
