------------------------- MODULE ExternalLoginProofs -------------------------
(***************************************************************************)
(* The properties of ExternalLogin, for any number of browsers, flows,     *)
(* subjects, accounts, keys and requests.                                  *)
(*                                                                         *)
(* The argument: a flow that is live has let nobody in, and only the       *)
(* browser it was made for has its cookie (Flows); a link that a sign-up   *)
(* made names an account made with it, and no account is made twice        *)
(* (Accounts); a key that a JWKS answer lacks was retired before (Shape).  *)
(***************************************************************************)
EXTENDS ExternalLogin, TLAPS

Flows ==
    /\ \A f \in Flow : flows[f].state # "gone" =>
           flows[f].uses = 0 /\ flows[f].by = NoBrowser
    /\ \A b \in Browser, p \in Provider, f \in Flow : cookies[b][p] = f =>
           flows[f].state # "absent" /\ flows[f].browser = b

\* An id that has no address has not been drawn, except the local account's.
Accounts == \A u \in User : users[u].mail = NoMail => users[u].made = NoOne

\* What a request q has learnt so far.
Shape(q) ==
    /\ q.pc = "fetched" => (q.key \in keys => q.key \in q.answer)
    /\ q.pc = "unknown_key" => q.key \notin keys
    /\ q.pc \notin {"idle", "exchange"} => q.subject \in Subject
    /\ q.pc \in {"by_email", "sign_up"} => q.provider = "naver"
    /\ q.pc = "sign_up" => q.mail \in Mail

Requests == \A r \in Req : Shape(req[r])

IInv ==
    /\ TypeOK
    /\ Flows
    /\ StateSingleUse
    /\ Accounts
    /\ LinkedByItsOwner
    /\ Requests

-----------------------------------------------------------------------------
LEMMA IdleSlot == Idle \in Slot /\ Shape(Idle) /\ Shape(Idle)'
  BY DEF Idle, Slot, Pc, Shape

\* A step of request r that leaves it with q and touches neither flows,
\* accounts, links nor keys.
LEMMA MoveStep ==
    ASSUME IInv, NEW r \in Req, NEW q \in Slot, Shape(q),
           req' = [req EXCEPT ![r] = q],
           UNCHANGED <<flows, cookies, users, links, keys>>,
           cache' \in [fresh: BOOLEAN, keys: SUBSET Key]
    PROVE  IInv'
<1>1. TypeOK'
  BY DEF IInv, TypeOK
<1>2. Requests'
  BY DEF IInv, TypeOK, Requests, Shape
<1>3. Flows' /\ StateSingleUse' /\ Accounts' /\ LinkedByItsOwner'
  BY DEF IInv, Flows, StateSingleUse, Accounts, LinkedByItsOwner
<1> QED
  BY <1>1, <1>2, <1>3 DEF IInv

LEMMA NaverExchangeStep ==
    ASSUME IInv, NEW r \in Req, NEW s \in Subject, NaverExchange(r, s)
    PROVE  IInv'
<1> PICK old \in Slot : req[r] = old
  BY DEF IInv, TypeOK
<1> DEFINE q == [old EXCEPT !.pc = "resolve", !.subject = s]
<1>1. q \in Slot /\ Shape(q)
  BY DEF Slot, Pc, Shape
<1> QED
  BY <1>1, MoveStep DEF NaverExchange, IInv, TypeOK

LEMMA GoogleExchangeStep ==
    ASSUME IInv, NEW r \in Req, NEW s \in Subject, NEW k \in Key, GoogleExchange(r, s, k)
    PROVE  IInv'
<1> PICK old \in Slot : req[r] = old
  BY DEF IInv, TypeOK
<1> DEFINE q == [old EXCEPT !.pc = "key", !.subject = s, !.key = k]
<1>1. q \in Slot /\ Shape(q)
  BY DEF Slot, Pc, Shape
<1> QED
  BY <1>1, MoveStep DEF GoogleExchange, IInv, TypeOK

\* A request that has its token's key, or goes on without it.
LEMMA KeyStep ==
    ASSUME IInv, NEW r \in Req, req[r].subject \in Subject,
           \/ KeyFound(r)
           \/ Advance(r, "fetch")
           \/ Advance(r, "unknown_key") /\ req[r].key \notin keys,
           UNCHANGED <<flows, cookies, users, links, keys>>,
           cache' \in [fresh: BOOLEAN, keys: SUBSET Key]
    PROVE  IInv'
<1> PICK old \in Slot : req[r] = old
  BY DEF IInv, TypeOK
<1>1. CASE KeyFound(r)
  <2> DEFINE q == [old EXCEPT !.pc = "resolve", !.key = NoKey, !.answer = {}]
  <2>1. q \in Slot /\ Shape(q)
    BY DEF Slot, Pc, Shape
  <2> QED
    BY <1>1, <2>1, MoveStep DEF KeyFound
<1>2. ASSUME NEW pc \in {"fetch", "unknown_key"}, Advance(r, pc),
             pc = "unknown_key" => old.key \notin keys
      PROVE  IInv'
  <2> DEFINE q == [old EXCEPT !.pc = pc]
  <2>1. q \in Slot /\ Shape(q)
    BY <1>2 DEF Slot, Pc, Shape
  <2>2. req' = [req EXCEPT ![r] = q]
    BY <1>2 DEF Advance, IInv, TypeOK
  <2> QED
    BY <2>1, <2>2, MoveStep
<1> QED
  BY <1>1, <1>2

LEMMA CachedKeyStep ==
    ASSUME IInv, NEW r \in Req, CachedKey(r)
    PROVE  IInv'
<1>1. req[r].subject \in Subject
  BY DEF CachedKey, IInv, Requests, Shape
<1> QED
  BY <1>1, KeyStep DEF CachedKey, IInv, TypeOK

LEMMA JwksServedStep ==
    ASSUME IInv, NEW r \in Req, JwksServed(r)
    PROVE  IInv'
<1> PICK old \in Slot : req[r] = old
  BY DEF IInv, TypeOK
<1> PICK answer \in SUBSET Key : keys = answer
  BY DEF IInv, TypeOK
<1> DEFINE q == [old EXCEPT !.pc = "fetched", !.answer = answer]
<1>1. old.subject \in Subject
  BY DEF JwksServed, IInv, Requests, Shape
<1>2. q \in Slot /\ Shape(q)
  BY <1>1 DEF Slot, Pc, Shape
<1> QED
  BY <1>2, MoveStep DEF JwksServed, IInv, TypeOK

LEMMA JwksStoredStep ==
    ASSUME IInv, NEW r \in Req, NEW fresh \in BOOLEAN, JwksStored(r, fresh)
    PROVE  IInv'
<1>1. /\ req[r].subject \in Subject /\ req[r] \in Slot
      /\ req[r].key \in keys => req[r].key \in req[r].answer
  BY DEF JwksStored, IInv, TypeOK, Requests, Shape
<1>2. cache' \in [fresh: BOOLEAN, keys: SUBSET Key]
  BY <1>1 DEF JwksStored, Slot
<1> QED
  BY <1>1, <1>2, KeyStep DEF JwksStored

LEMMA ResolveStep ==
    ASSUME IInv, NEW r \in Req, Resolve(r)
    PROVE  IInv'
<1> PICK old \in Slot : req[r] = old
  BY DEF IInv, TypeOK
<1>1. CASE Finish(r)
  BY <1>1, IdleSlot, MoveStep DEF Finish, Resolve, IInv, TypeOK
<1>2. CASE Advance(r, "by_email") /\ old.provider = "naver"
  <2> DEFINE q == [old EXCEPT !.pc = "by_email"]
  <2>1. old.subject \in Subject
    BY DEF Resolve, IInv, Requests, Shape
  <2>2. q \in Slot /\ Shape(q)
    BY <1>2, <2>1 DEF Slot, Pc, Shape
  <2> QED
    BY <1>2, <2>2, MoveStep DEF Resolve, Advance, IInv, TypeOK
<1> QED
  BY <1>1, <1>2 DEF Resolve

LEMMA ByEmailStep ==
    ASSUME IInv, NEW r \in Req, ByEmail(r)
    PROVE  IInv'
<1> PICK old \in Slot : req[r] = old
  BY DEF IInv, TypeOK
<1>1. old.subject \in Subject /\ old.provider = "naver"
  BY DEF ByEmail, IInv, Requests, Shape
<1>2. Own(old.subject) \in Mail /\ Changed(old.subject) \in Mail
  BY <1>1 DEF Own, Changed, Mail
<1> PICK mail \in Mail :
      mail = IF Taken(Own(old.subject)) THEN Changed(old.subject) ELSE Own(old.subject)
  BY <1>2
<1> DEFINE q == [old EXCEPT !.pc = "sign_up", !.mail = mail]
<1>3. q \in Slot /\ Shape(q)
  BY <1>1 DEF Slot, Pc, Shape
<1>4. req' = [req EXCEPT ![r] = q]
  BY DEF ByEmail
<1> QED
  BY <1>3, <1>4, MoveStep DEF ByEmail, IInv, TypeOK

LEMMA RevokeStartStep ==
    ASSUME IInv, NEW r \in Req, NEW p \in Provider, NEW s \in Subject, RevokeStart(r, p, s)
    PROVE  IInv'
<1> DEFINE q == [Idle EXCEPT !.pc = "revoke_call", !.provider = p, !.subject = s]
<1>1. q \in Slot
  BY IdleSlot DEF Slot, Pc, Idle
<1>2. Shape(q)
  BY DEF Shape, Idle
<1> QED
  BY <1>1, <1>2, MoveStep DEF RevokeStart, IInv, TypeOK

LEMMA FailStep ==
    ASSUME IInv, NEW r \in Req, Fail(r)
    PROVE  IInv'
  BY IdleSlot, MoveStep DEF Fail, Finish, IInv, TypeOK

-----------------------------------------------------------------------------
\* A step that only changes flows and cookies, and at most one request.
LEMMA FlowStep ==
    ASSUME IInv, UNCHANGED <<users, links, keys, cache>>,
           flows' \in [Flow -> ExternalFlow],
           cookies' \in [Browser -> [Provider -> Flow \cup {NoFlow}]],
           Flows', StateSingleUse',
           \/ UNCHANGED req
           \/ \E r \in Req, q \in Slot : Shape(q) /\ req' = [req EXCEPT ![r] = q]
    PROVE  IInv'
<1>1. req' \in [Req -> Slot] /\ \A r \in Req : req'[r] = req[r] \/ Shape(req'[r])
  BY DEF IInv, TypeOK
<1>2. TypeOK'
  BY <1>1 DEF IInv, TypeOK
<1>3. Requests'
  BY <1>1 DEF IInv, Requests, Shape
<1>4. Accounts' /\ LinkedByItsOwner'
  BY DEF IInv, Accounts, LinkedByItsOwner
<1> QED
  BY <1>2, <1>3, <1>4 DEF IInv

LEMMA IssueFlowStep ==
    ASSUME IInv, NEW b \in Browser, NEW p \in Provider, NEW f \in Flow, IssueFlow(b, p, f)
    PROVE  IInv'
<1> DEFINE flow == [flows[f] EXCEPT !.state = "live", !.provider = p, !.browser = b]
<1>1. /\ flows[f] \in ExternalFlow /\ flows[f].state = "absent"
      /\ flows[f].uses = 0 /\ flows[f].by = NoBrowser
  BY DEF IssueFlow, IInv, TypeOK, Flows
<1>2. /\ flow \in ExternalFlow /\ flow.state = "live" /\ flow.browser = b
      /\ flow.uses = 0 /\ flow.by = NoBrowser
  BY <1>1 DEF ExternalFlow
<1>3. /\ flows' \in [Flow -> ExternalFlow] /\ flows'[f] = flow
      /\ \A o \in Flow \ {f} : flows'[o] = flows[o]
  BY <1>2 DEF IssueFlow, IInv, TypeOK
<1> HIDE DEF flow
<1>4. /\ cookies' \in [Browser -> [Provider -> Flow \cup {NoFlow}]]
      /\ \A c \in Browser, q \in Provider :
            cookies'[c][q] = IF c = b /\ q = p THEN f ELSE cookies[c][q]
  BY DEF IssueFlow, IInv, TypeOK
<1>5. Flows'
  BY <1>1, <1>2, <1>3, <1>4 DEF IInv, Flows
<1>6. StateSingleUse'
  BY <1>2, <1>3 DEF IInv, StateSingleUse
<1> QED
  BY <1>3, <1>4, <1>5, <1>6, FlowStep DEF IssueFlow

\* FlowStore.consume.
LEMMA ConsumeStep ==
    ASSUME IInv, NEW b \in Browser, NEW p \in Provider, NEW f \in Flow, Consume(b, p, f),
           UNCHANGED <<cookies, users, links, keys, cache>>,
           \/ UNCHANGED req
           \/ \E r \in Req, q \in Slot : Shape(q) /\ req' = [req EXCEPT ![r] = q]
    PROVE  IInv'
<1>1. /\ flows[f] \in ExternalFlow /\ flows[f].uses = 0 /\ flows[f].browser = b
  BY DEF Consume, IInv, TypeOK, Flows
<1> PICK uses \in {1} : uses = flows[f].uses + 1
  BY <1>1
<1> DEFINE flow == [flows[f] EXCEPT !.state = "gone", !.by = b, !.uses = uses]
<1>2. flows' = [flows EXCEPT ![f] = flow]
  BY DEF Consume, IInv, TypeOK
<1>3. /\ flow \in ExternalFlow /\ flow.state = "gone" /\ flow.browser = b
      /\ flow.uses = 1 /\ flow.by = b
  <2>1. uses \in 0..2 /\ uses = 1
    OBVIOUS
  <2> QED
    BY <1>1, <2>1 DEF ExternalFlow
<1>4. /\ flows' \in [Flow -> ExternalFlow] /\ flows'[f] = flow
      /\ \A o \in Flow \ {f} : flows'[o] = flows[o]
  BY <1>2, <1>3 DEF IInv, TypeOK
<1> HIDE DEF flow
<1>5. Flows'
  BY <1>1, <1>3, <1>4 DEF IInv, Flows
<1>6. StateSingleUse'
  BY <1>3, <1>4 DEF IInv, StateSingleUse
<1> QED
  BY <1>4, <1>5, <1>6, FlowStep DEF IInv, TypeOK

LEMMA CallbackStep ==
    ASSUME IInv, NEW b \in Browser, NEW f \in Flow,
           \/ \E r \in Req : GoogleCallback(r, b, f) \/ NaverCallback(r, b, f)
           \/ KakaoCallback(b, f)
    PROVE  IInv'
<1>1. ASSUME NEW p \in Provider PROVE [Idle EXCEPT !.pc = "exchange", !.provider = p] \in Slot
                                      /\ Shape([Idle EXCEPT !.pc = "exchange", !.provider = p])
  BY IdleSlot DEF Slot, Pc, Idle, Shape
<1>2. CASE KakaoCallback(b, f)
  BY <1>2, ConsumeStep DEF KakaoCallback, Provider
<1>3. ASSUME NEW r \in Req, GoogleCallback(r, b, f) PROVE IInv'
  BY <1>1, <1>3, ConsumeStep DEF GoogleCallback, Provider
<1>4. ASSUME NEW r \in Req, NaverCallback(r, b, f) PROVE IInv'
  BY <1>1, <1>4, ConsumeStep DEF NaverCallback, Provider
<1> QED
  BY <1>2, <1>3, <1>4

LEMMA FlowExpiresStep ==
    ASSUME IInv, NEW f \in Flow, FlowExpires(f)
    PROVE  IInv'
<1> DEFINE flow == [flows[f] EXCEPT !.state = "gone"]
<1>1. flows[f] \in ExternalFlow
  BY DEF IInv, TypeOK
<1>2. /\ flow \in ExternalFlow /\ flow.state = "gone" /\ flow.browser = flows[f].browser
      /\ flow.uses = flows[f].uses /\ flow.by = flows[f].by
  BY <1>1 DEF ExternalFlow
<1>3. /\ flows' \in [Flow -> ExternalFlow] /\ flows'[f] = flow
      /\ \A o \in Flow \ {f} : flows'[o] = flows[o]
  BY <1>2 DEF FlowExpires, IInv, TypeOK
<1> HIDE DEF flow
<1>4. Flows' /\ StateSingleUse'
  BY <1>2, <1>3 DEF FlowExpires, IInv, Flows, StateSingleUse
<1> QED
  BY <1>3, <1>4, FlowStep DEF FlowExpires, IInv, TypeOK

LEMMA RestartStep ==
    ASSUME IInv, Restart
    PROVE  IInv'
<1>1. \A f \in Flow : flows[f] \in ExternalFlow
  BY DEF IInv, TypeOK
<1>2. \A f \in Flow : [flows[f] EXCEPT !.state = "gone"] \in ExternalFlow
  BY <1>1 DEF ExternalFlow
<1>3. /\ flows' \in [Flow -> ExternalFlow]
      /\ \A f \in Flow : /\ flows'[f].state = IF flows[f].state = "live" THEN "gone"
                                              ELSE flows[f].state
                         /\ flows'[f].browser = flows[f].browser
                         /\ flows'[f].uses = flows[f].uses /\ flows'[f].by = flows[f].by
  BY <1>1, <1>2 DEF Restart, ExternalFlow
<1>4. Flows'
  BY <1>3 DEF Restart, IInv, Flows
<1>5. StateSingleUse'
  BY <1>3 DEF IInv, StateSingleUse
<1>6. TypeOK'
  BY <1>3, IdleSlot DEF Restart, IInv, TypeOK
<1>7. Requests'
  BY IdleSlot DEF Restart, Requests
<1>8. Accounts' /\ LinkedByItsOwner'
  BY DEF Restart, IInv, Accounts, LinkedByItsOwner
<1> QED
  BY <1>4, <1>5, <1>6, <1>7, <1>8 DEF IInv

-----------------------------------------------------------------------------
\* One link is replaced, by nothing or by one that its owner asked for.
LEMMA LinkStep ==
    ASSUME IInv, NEW p \in Provider, NEW s \in Subject, NEW link \in LinkRow \cup {Unlinked},
           links' = [links EXCEPT ![p][s] = link],
           users' \in [User -> UserRow], Accounts',
           \A u \in User : users[u].made # NoOne => users'[u].made = users[u].made,
           link.how = "sign_up" => users'[link.user].made = [provider |-> p, subject |-> s],
           req' \in [Req -> Slot], \A r \in Req : req'[r] \in {req[r], Idle},
           UNCHANGED <<flows, cookies, keys, cache>>
    PROVE  IInv'
<1>1. /\ links' \in [Provider -> [Subject -> LinkRow \cup {Unlinked}]]
      /\ \A q \in Provider, o \in Subject :
            links'[q][o] = IF q = p /\ o = s THEN link ELSE links[q][o]
  BY DEF IInv, TypeOK
<1>2. TypeOK'
  BY <1>1 DEF IInv, TypeOK
<1>3. Requests'
  BY IdleSlot DEF IInv, Requests, Shape
<1>4. LinkedByItsOwner'
  <2> SUFFICES ASSUME NEW q \in Provider, NEW o \in Subject, links'[q][o].how = "sign_up"
               PROVE  users'[links'[q][o].user].made = [provider |-> q, subject |-> o]
    BY DEF LinkedByItsOwner
  <2>1. CASE q = p /\ o = s
    BY <1>1, <2>1
  <2>2. CASE ~(q = p /\ o = s)
    <3>1. links'[q][o] = links[q][o] /\ links[q][o] \in LinkRow
      BY <1>1, <2>2 DEF IInv, TypeOK, Unlinked
    <3>2. users[links[q][o].user].made = [provider |-> q, subject |-> o]
      BY <3>1 DEF IInv, LinkedByItsOwner
    <3>3. users[links[q][o].user].made # NoOne
      BY <3>2, NullsAssumption DEF NoOne
    <3>4. links[q][o].user \in User
      BY <3>1 DEF LinkRow
    <3> QED
      BY <3>1, <3>2, <3>3, <3>4
  <2> QED
    BY <2>1, <2>2
<1>5. Flows' /\ StateSingleUse'
  BY DEF IInv, Flows, StateSingleUse
<1> QED
  BY <1>2, <1>3, <1>4, <1>5 DEF IInv

LEMMA FinishedSlots ==
    ASSUME IInv, NEW r \in Req, Finish(r)
    PROVE  req' \in [Req -> Slot] /\ \A o \in Req : req'[o] \in {req[o], Idle}
  BY IdleSlot DEF Finish, IInv, TypeOK

LEMMA SignUpStep ==
    ASSUME IInv, NEW r \in Req, NEW u \in User, SignUp(r, u)
    PROVE  IInv'
<1> PICK q \in Slot : req[r] = q
  BY DEF IInv, TypeOK
<1>1. q.subject \in Subject /\ q.mail \in Mail
  BY DEF SignUp, IInv, Requests, Shape
<1>2. CASE UNCHANGED <<users, links>>
  BY <1>2, IdleSlot, MoveStep DEF SignUp, Finish, IInv, TypeOK
<1>3. CASE ~(Taken(q.mail) \/ links["naver"][q.subject] # Unlinked)
  <2> DEFINE s == q.subject
             row == [mail |-> q.mail, made |-> [provider |-> "naver", subject |-> s]]
             link == [user |-> u, how |-> "sign_up"]
  <2>1. row \in UserRow /\ link \in LinkRow
    BY <1>1 DEF UserRow, LinkRow, Provider
  <2>2. users' = [users EXCEPT ![u] = row] /\ links' = [links EXCEPT !["naver"][s] = link]
    BY <1>3 DEF SignUp
  <2>3. /\ users' \in [User -> UserRow] /\ users'[u] = row
        /\ \A v \in User \ {u} : users'[v] = users[v]
    BY <2>1, <2>2 DEF IInv, TypeOK
  <2>4. Accounts'
    BY <1>1, <2>3, NoMailAssumption DEF IInv, Accounts
  <2>5. \A v \in User : users[v].made # NoOne => users'[v].made = users[v].made
    BY <2>3 DEF SignUp, IInv, Accounts
  <2>6. users'[link.user].made = [provider |-> "naver", subject |-> s]
    BY <2>3
  <2>7. Finish(r) /\ UNCHANGED <<flows, cookies, keys, cache>>
    BY DEF SignUp
  <2> HIDE DEF link
  <2> QED
    BY <1>1, <2>1, <2>2, <2>3, <2>4, <2>5, <2>6, <2>7, FinishedSlots, LinkStep DEF Provider
<1> QED
  BY <1>2, <1>3 DEF SignUp

LEMMA LinkConfirmedStep ==
    ASSUME IInv, NEW u \in User, NEW p \in Provider, NEW s \in Subject, Link(u, p, s)
    PROVE  IInv'
<1> DEFINE link == [user |-> u, how |-> "confirmed"]
<1>1. link \in LinkRow /\ link.how # "sign_up"
  BY DEF LinkRow
<1>2. links' = [links EXCEPT ![p][s] = link] /\ UNCHANGED <<flows, cookies, users, keys, cache, req>>
  BY DEF Link
<1>3. Accounts'
  BY <1>2 DEF IInv, Accounts
<1> HIDE DEF link
<1> QED
  BY <1>1, <1>2, <1>3, LinkStep DEF IInv, TypeOK

LEMMA RevokeDeleteStep ==
    ASSUME IInv, NEW r \in Req, NEW p \in Provider, RevokeDelete(r, p)
    PROVE  IInv'
<1> PICK s \in Subject : req[r].subject = s
  BY DEF RevokeDelete, IInv, Requests, Shape
<1>1. Unlinked.how # "sign_up"
  BY DEF Unlinked
<1>2. links' = [links EXCEPT ![p][s] = Unlinked] /\ UNCHANGED <<flows, cookies, users, keys, cache>>
  BY DEF RevokeDelete
<1>3. Accounts'
  BY <1>2 DEF IInv, Accounts
<1>4. Finish(r)
  BY DEF RevokeDelete
<1> QED
  BY <1>1, <1>2, <1>3, <1>4, FinishedSlots, LinkStep DEF IInv, TypeOK

-----------------------------------------------------------------------------
\* Google changes its keys.
LEMMA KeysStep ==
    ASSUME IInv, NEW k \in Key, PublishKey(k) \/ RetireKey(k)
    PROVE  IInv'
<1>1. TypeOK'
  BY DEF PublishKey, RetireKey, IInv, TypeOK
<1>2. Requests'
  BY DEF PublishKey, RetireKey, IInv, Requests, Shape
<1>3. Flows' /\ StateSingleUse' /\ Accounts' /\ LinkedByItsOwner'
  BY DEF PublishKey, RetireKey, IInv, Flows, StateSingleUse, Accounts, LinkedByItsOwner
<1> QED
  BY <1>1, <1>2, <1>3 DEF IInv

LEMMA EntryExpiresStep ==
    ASSUME IInv, EntryExpires
    PROVE  IInv'
<1>1. TypeOK'
  BY DEF EntryExpires, IInv, TypeOK
<1>2. Requests' /\ Flows' /\ StateSingleUse' /\ Accounts' /\ LinkedByItsOwner'
  BY DEF EntryExpires, IInv, Requests, Shape, Flows, StateSingleUse, Accounts, LinkedByItsOwner
<1> QED
  BY <1>1, <1>2 DEF IInv

LEMMA InitIInv == Init => IInv
<1> SUFFICES ASSUME Init PROVE IInv
  OBVIOUS
<1>1. PICK local \in {Own(s) : s \in Subject} \cup {NoMail} :
         users = [u \in User |-> [mail |-> IF u = LocalUser THEN local ELSE NoMail,
                                  made |-> NoOne]]
  BY DEF Init
<1>2. local \in Mail \cup {NoMail}
  BY DEF Own, Mail
<1>3. users \in [User -> UserRow] /\ Accounts
  BY <1>1, <1>2 DEF UserRow, NoOne, Accounts
<1>4. TypeOK
  BY <1>3, IdleSlot DEF Init, TypeOK, ExternalFlow
<1>5. LinkedByItsOwner /\ StateSingleUse
  BY DEF Init, LinkedByItsOwner, StateSingleUse, Unlinked
<1>6. Flows
  BY NullsAssumption DEF Init, Flows
<1>7. Requests
  BY IdleSlot DEF Init, Requests
<1> QED
  BY <1>3, <1>4, <1>5, <1>6, <1>7 DEF IInv

LEMMA NextIInv == IInv /\ [Next]_vars => IInv'
<1> SUFFICES ASSUME IInv, [Next]_vars PROVE IInv'
  OBVIOUS
<1>1. ASSUME NEW r \in Req, Start(r) PROVE IInv'
  BY <1>1, CallbackStep, RevokeStartStep DEF Start, NaverRevoke, KakaoRevoke, Provider
<1>2. ASSUME NEW r \in Req, Step(r) PROVE IInv'
  <2>1. ASSUME NaverRevoked(r) \/ KakaoUnlinked(r) PROVE IInv'
    BY <2>1, RevokeDeleteStep DEF NaverRevoked, KakaoUnlinked, Provider
  <2> QED
    BY <1>2, <2>1, NaverExchangeStep, GoogleExchangeStep, CachedKeyStep, JwksServedStep,
       JwksStoredStep, ResolveStep, ByEmailStep, SignUpStep
    DEF Step
<1>3. ASSUME NEW b \in Browser, NEW f \in Flow,
             GoogleLogin(b, f) \/ NaverLogin(b, f) \/ KakaoLogin(b, f)
      PROVE  IInv'
  BY <1>3, IssueFlowStep DEF GoogleLogin, NaverLogin, KakaoLogin, Provider
<1>4. CASE UNCHANGED vars
  BY <1>4 DEF vars, IInv, TypeOK, Requests, Shape, Flows, StateSingleUse, Accounts,
     LinkedByItsOwner
<1> QED
  BY <1>1, <1>2, <1>3, <1>4, CallbackStep, FailStep, LinkConfirmedStep, RestartStep,
     EntryExpiresStep, FlowExpiresStep, KeysStep
  DEF Next

\* The inductive invariant: what flows, accounts and requests say of each other.
THEOREM Invariance == Spec => []IInv
  BY InitIInv, NextIInv, PTL DEF Spec

\* TypeOK: types; an account that exists has an address of a known form.
THEOREM TypeCorrect == Spec => []TypeOK
<1>1. IInv => TypeOK
  BY DEF IInv
<1> QED
  BY <1>1, Invariance, PTL

\* StateSingleUse: a state lets one browser in, once, and it is the one it was
\* made for (FlowStore.consume).
THEOREM StatesUsedOnce == Spec => []StateSingleUse
<1>1. IInv => StateSingleUse
  BY DEF IInv
<1> QED
  BY <1>1, Invariance, PTL

\* LinkedByItsOwner: no login joins an account that another has made
\* (_naver_oauth_user).
THEOREM LinksOwned == Spec => []LinkedByItsOwner
<1>1. IInv => LinkedByItsOwner
  BY DEF IInv
<1> QED
  BY <1>1, Invariance, PTL

\* PublishedKeyFound: the key of an ID token is unknown to JwksCache only after
\* Google has retired it, in whatever order answers are stored.
THEOREM KeysFound == Spec => []PublishedKeyFound
<1>1. IInv => PublishedKeyFound
  BY DEF IInv, Requests, Shape, PublishedKeyFound
<1> QED
  BY <1>1, Invariance, PTL

\* LinkNeverMoves: the primary key of external_identity_links decides between
\* first logins of one subject.
THEOREM LinksStay == Spec => LinkNeverMoves
<1>1. IInv /\ [Next]_vars =>
         [\A p \in Provider, s \in Subject : links[p][s] # Unlinked =>
             links'[p][s] \in {links[p][s], Unlinked}]_vars
  <2> SUFFICES ASSUME IInv, [Next]_vars, NEW p \in Provider, NEW s \in Subject,
                      links[p][s] # Unlinked
               PROVE  links'[p][s] \in {links[p][s], Unlinked}
    OBVIOUS
  <2>1. ASSUME NEW r \in Req, NEW u \in User, SignUp(r, u)
        PROVE  links'[p][s] \in {links[p][s], Unlinked}
    <3> DEFINE link == [user |-> u, how |-> "sign_up"]
    <3>1. \/ UNCHANGED links
          \/ /\ links["naver"][req[r].subject] = Unlinked
             /\ links' = [links EXCEPT !["naver"][req[r].subject] = link]
      BY <2>1 DEF SignUp
    <3> HIDE DEF link
    <3> QED
      BY <3>1 DEF IInv, TypeOK
  <2>2. ASSUME NEW u \in User, NEW q \in Provider, NEW o \in Subject, Link(u, q, o)
        PROVE  links'[p][s] \in {links[p][s], Unlinked}
    BY <2>2 DEF Link, IInv, TypeOK
  <2>3. ASSUME NEW r \in Req, NEW q \in Provider, RevokeDelete(r, q)
        PROVE  links'[p][s] \in {links[p][s], Unlinked}
    BY <2>3 DEF RevokeDelete, IInv, TypeOK
  <2>4. CASE UNCHANGED links
    BY <2>4
  <2> QED
    BY <2>1, <2>2, <2>3, <2>4
    DEF Next, Start, Step, vars, GoogleLogin, NaverLogin, KakaoLogin, IssueFlow, KakaoCallback,
        GoogleCallback, NaverCallback, NaverRevoke, KakaoRevoke, RevokeStart, NaverExchange,
        GoogleExchange, CachedKey, JwksServed, JwksStored, Resolve, ByEmail, NaverRevoked,
        KakaoUnlinked, Fail, Restart, EntryExpires, FlowExpires, PublishKey, RetireKey, Provider
<1> QED
  BY <1>1, Invariance, PTL DEF Spec, LinkNeverMoves
=============================================================================
