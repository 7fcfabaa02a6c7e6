--------------------------- MODULE OAuthFlowProofs ---------------------------
(***************************************************************************)
(* The properties of OAuthFlow, and its refinement of LoginPromise, for    *)
(* any number of logins, accounts, random values and requests.             *)
(*                                                                         *)
(* The argument: a one-time value that was drawn keeps what it was drawn   *)
(* with (Keeps), so what a code, a grant or a request says of the login    *)
(* and the account it came from stays true (Values, Grants, Shape); and    *)
(* because each value is taken in one step, no two requests ever carry the *)
(* same code or the same browser's login (Alone).                          *)
(***************************************************************************)
EXTENDS OAuthFlow, TLAPS

\* The provider has authenticated account a in a transaction of login l.
Proven(a, l) ==
    \E p \in PCode : /\ pcodes[p].state = "spent" /\ pcodes[p].account = a
                     /\ pcodes[p].txn \in Txn
                     /\ txns[pcodes[p].txn].state # "absent"
                     /\ txns[pcodes[p].txn].login = l

Values ==
    /\ \A t \in Txn : txns[t].state # "absent" =>
           /\ txns[t].login \in Login
           /\ txns[t].login \in Web => pending[txns[t].login] # "none"
    /\ \A p \in PCode : pcodes[p].state # "absent" =>
           /\ pcodes[p].account \in Account
           /\ pcodes[p].txn \in Txn /\ txns[pcodes[p].txn].state # "absent"
    /\ \A c \in Code : /\ codes[c].state # "absent" =>
                              /\ codes[c].login \in Login /\ codes[c].account \in Account
                              /\ Proven(codes[c].account, codes[c].login)
                       /\ codes[c].state # "spent" => firstTry[c] = NoLogin

Grants ==
    \A g \in Grant :
        /\ grants[g].state = "absent" => origin[g] = NoCode /\ bff[g].state = "none"
        /\ grants[g].state # "absent" =>
               /\ origin[g] \in Code /\ codes[origin[g]].state = "spent"
               /\ grants[g].user = codes[origin[g]].account
               /\ firstTry[origin[g]] = codes[origin[g]].login
        /\ bff[g].state = "none" => bff[g].login = NoLogin
        /\ bff[g].state # "none" => /\ bff[g].login \in Web /\ pending[bff[g].login] = "back"
                                    /\ bff[g].login = codes[origin[g]].login
        /\ bff[g].state = "ended" => grants[g].state = "consumed"

\* What a request q has seen.
Shape(q) ==
    /\ q.pc \in {"provider_code", "user_read", "user_insert", "put_code"} =>
           /\ q.txn \in Txn /\ txns[q.txn].state # "absent"
           /\ q.pcode \in PCode /\ pcodes[q.pcode].state # "absent"
    /\ q.pc \in {"user_read", "user_insert", "put_code"} =>
           pcodes[q.pcode].state = "spent" /\ pcodes[q.pcode].txn = q.txn
    /\ q.pc \in TokenPc =>
           /\ q.login \in Login /\ q.code \in Code /\ codes[q.code].state # "absent"
           /\ q.login \in Web => pending[q.login] = "back"
    /\ q.pc \in {"token_read", "token_commit", "answer"} =>
           /\ codes[q.code].state = "spent" /\ codes[q.code].login = q.login
           /\ firstTry[q.code] = q.login
    /\ q.pc = "answer" =>
           q.grant \in Grant /\ grants[q.grant].state # "absent" /\ origin[q.grant] = q.code
    /\ q.pc \in LogoutPc => q.grant \in Grant /\ grants[q.grant].state # "absent"
    /\ q.pc = "delete" => grants[q.grant].state = "consumed"

Requests == \A r \in Req : Shape(req[r])

\* Past the comparison, before the grant.
RedeemPc == {"token_read", "token_commit"}

\* A browser's login is carried by one request or one session, and a code by
\* one request or one grant.
Alone ==
    /\ \A r, s \in Req : req[r].pc \in TokenPc /\ req[s].pc \in TokenPc
                         /\ req[r].login = req[s].login => r = s \/ req[r].login \in Native
    /\ \A r \in Req, g \in Grant : req[r].pc \in TokenPc => bff[g].login # req[r].login
    /\ \A g, h \in Grant : bff[g].login = bff[h].login => g = h \/ bff[g].login = NoLogin
    /\ \A r, s \in Req : req[r].pc \in RedeemPc /\ req[s].pc \in RedeemPc
                         /\ req[r].code = req[s].code => r = s
    /\ \A r \in Req, g \in Grant : req[r].pc \in RedeemPc => origin[g] # req[r].code
    /\ \A g, h \in Grant : origin[g] = origin[h] => g = h \/ origin[g] = NoCode

IInv ==
    /\ TypeOK
    /\ Values
    /\ Grants
    /\ Requests
    /\ Alone

\* Nothing that was drawn is drawn again or forgets what it was drawn with.
Keeps ==
    /\ \A l \in Web : /\ pending[l] # "none" => pending'[l] # "none"
                      /\ pending[l] = "back" => pending'[l] = "back"
    /\ \A t \in Txn : txns[t].state # "absent" =>
           txns'[t].state # "absent" /\ txns'[t].login = txns[t].login
    /\ \A p \in PCode : pcodes[p].state # "absent" =>
           /\ pcodes'[p].state # "absent" /\ (pcodes[p].state = "spent" => pcodes'[p].state = "spent")
           /\ pcodes'[p].txn = pcodes[p].txn /\ pcodes'[p].account = pcodes[p].account
    /\ \A c \in Code : codes[c].state # "absent" =>
           /\ codes'[c].state # "absent" /\ (codes[c].state = "spent" => codes'[c].state = "spent")
           /\ codes'[c].login = codes[c].login /\ codes'[c].account = codes[c].account
    /\ \A c \in Code : firstTry[c] # NoLogin => firstTry'[c] = firstTry[c]
    /\ \A g \in Grant : grants[g].state # "absent" =>
           /\ grants'[g].state # "absent" /\ grants'[g].user = grants[g].user
           /\ origin'[g] = origin[g]
           /\ grants[g].state = "consumed" => grants'[g].state = "consumed"

-----------------------------------------------------------------------------
LEMMA IdleSlot == Idle \in Slot /\ Idle.pc = "idle" /\ Shape(Idle) /\ Shape(Idle)'
  BY DEF Idle, Slot, Shape, TokenPc, LogoutPc, CallbackPc

LEMMA ProvenKept == ASSUME Keeps, NEW a, NEW l, Proven(a, l) PROVE Proven(a, l)'
  BY DEF Keeps, Proven

LEMMA ShapeKept == ASSUME IInv, Keeps, NEW q \in Slot, Shape(q) PROVE Shape(q)'
<1>1. q.pc \in {"provider_code", "user_read", "user_insert", "put_code"} =>
          /\ txns'[q.txn].state # "absent" /\ pcodes'[q.pcode].state # "absent"
          /\ q.pc # "provider_code" => /\ pcodes'[q.pcode].state = "spent"
                                       /\ pcodes'[q.pcode].txn = q.txn
  BY DEF Shape, Keeps
<1>2. q.pc \in TokenPc => codes'[q.code].state # "absent"
                          /\ (q.login \in Web => pending'[q.login] = "back")
  BY DEF Shape, Keeps
<1>3. q.pc \in {"token_read", "token_commit", "answer"} =>
          /\ codes'[q.code].state = "spent" /\ codes'[q.code].login = q.login
          /\ firstTry'[q.code] = q.login
  BY NullsAssumption DEF Shape, Keeps, TokenPc
<1>4. q.pc \in {"answer"} \cup LogoutPc => /\ grants'[q.grant].state # "absent"
                                           /\ origin'[q.grant] = origin[q.grant]
  BY DEF Shape, Keeps
<1>5. q.pc = "delete" => grants'[q.grant].state = "consumed"
  BY DEF Shape, Keeps, LogoutPc
<1> QED
  BY <1>1, <1>2, <1>3, <1>4, <1>5 DEF Shape

\* The invariant is preserved by a step that keeps what was drawn, is right
\* about the values and grants it writes and about the one request it moves.
LEMMA KeepingStep ==
    ASSUME IInv, Keeps, TypeOK', Values', Grants', Alone',
           \A s \in Req : req'[s] = req[s] \/ Shape(req[s])'
    PROVE  IInv' /\ Keeps
<1>1. Requests'
  <2> SUFFICES ASSUME NEW s \in Req PROVE Shape(req[s])'
    BY DEF Requests
  <2> PICK q \in Slot : req[s] = q
    BY DEF IInv, TypeOK
  <2>1. Shape(q)'
    BY ShapeKept DEF IInv, Requests
  <2> QED
    BY <2>1 DEF Shape
<1> QED
  BY <1>1 DEF IInv

\* A request that moves on carries no more than it did.
LEMMA AloneKept ==
    ASSUME IInv, NEW r \in Req, NEW q \in Slot, req' = [req EXCEPT ![r] = q],
           \A g \in Grant : bff'[g].login = bff[g].login, UNCHANGED origin,
           q.pc \in TokenPc => /\ req[r].pc \in TokenPc
                               /\ q.login = req[r].login /\ q.code = req[r].code,
           q.pc \in RedeemPc => req[r].pc \in RedeemPc
    PROVE  Alone'
<1>1. \A s \in Req : req'[s] = IF s = r THEN q ELSE req[s]
  BY DEF IInv, TypeOK
<1>2. RedeemPc \subseteq TokenPc
  BY DEF RedeemPc, TokenPc
<1> QED
  BY <1>1, <1>2 DEF IInv, Alone

\* A step that only moves a request.
LEMMA SlotStep ==
    ASSUME IInv, NEW r \in Req, NEW q \in Slot, req' = [req EXCEPT ![r] = q],
           UNCHANGED <<store, grants, bff, firstTry, origin>>,
           accounts' \in [Account -> UserRow],
           Shape(q), Alone'
    PROVE  IInv' /\ Keeps
<1> USE DEF store
<1>1. Keeps
  BY DEF Keeps
<1>2. TypeOK'
  BY DEF IInv, TypeOK
<1>3. Values' /\ Grants'
  BY DEF IInv, Values, Proven, Grants
<1>4. Shape(q)'
  BY <1>1, ShapeKept
<1>5. \A s \in Req : req'[s] = req[s] \/ Shape(req[s])'
  BY <1>4 DEF IInv, TypeOK
<1> QED
  BY <1>1, <1>2, <1>3, <1>5, KeepingStep

\* A request ends, and nothing else changes.
LEMMA EndStep ==
    ASSUME IInv, NEW r \in Req, Finish(r),
           UNCHANGED <<store, grants, bff, firstTry, origin>>,
           accounts' \in [Account -> UserRow]
    PROVE  IInv' /\ Keeps
<1>1. Idle.pc \notin TokenPc /\ Idle.pc \notin RedeemPc
  BY DEF Idle, TokenPc, RedeemPc
<1>2. Alone'
  BY <1>1, IdleSlot, AloneKept DEF Finish
<1> QED
  BY <1>2, IdleSlot, SlotStep DEF Finish

\* Values that are new say the truth about where they come from; the others
\* still do.
LEMMA ValuesKept ==
    ASSUME IInv, Keeps, TypeOK',
           \A t \in Txn : txns'[t].state # "absent" =>
               \/ txns[t].state # "absent"
               \/ /\ txns'[t].login \in Login
                  /\ txns'[t].login \in Web => pending[txns'[t].login] # "none",
           \A p \in PCode : pcodes'[p].state # "absent" =>
               \/ pcodes[p].state # "absent"
               \/ /\ pcodes'[p].account \in Account /\ pcodes'[p].txn \in Txn
                  /\ txns[pcodes'[p].txn].state # "absent",
           \A c \in Code : codes'[c].state # "absent" =>
               \/ codes[c].state # "absent"
               \/ /\ codes'[c].login \in Login /\ codes'[c].account \in Account
                  /\ Proven(codes'[c].account, codes'[c].login),
           \A c \in Code : codes'[c].state # "spent" =>
               codes[c].state # "spent" /\ firstTry'[c] = firstTry[c]
    PROVE  Values'
<1>1. ASSUME NEW t \in Txn, txns'[t].state # "absent"
      PROVE  txns'[t].login \in Login /\ (txns'[t].login \in Web => pending'[txns'[t].login] # "none")
  <2>1. CASE txns[t].state # "absent"
    BY <2>1 DEF IInv, Values, Keeps
  <2>2. CASE txns[t].state = "absent"
    BY <1>1, <2>2 DEF Keeps
  <2> QED
    BY <2>1, <2>2
<1>2. ASSUME NEW p \in PCode, pcodes'[p].state # "absent"
      PROVE  /\ pcodes'[p].account \in Account
             /\ pcodes'[p].txn \in Txn /\ txns'[pcodes'[p].txn].state # "absent"
  <2>1. CASE pcodes[p].state # "absent"
    BY <2>1 DEF IInv, Values, Keeps
  <2>2. CASE pcodes[p].state = "absent"
    BY <1>2, <2>2 DEF Keeps
  <2> QED
    BY <2>1, <2>2
<1>3. ASSUME NEW c \in Code, codes'[c].state # "absent"
      PROVE  /\ codes'[c].login \in Login /\ codes'[c].account \in Account
             /\ Proven(codes[c].account, codes[c].login)'
  <2> PICK a, l : codes'[c].account = a /\ codes'[c].login = l
    OBVIOUS
  <2>1. l \in Login /\ a \in Account /\ Proven(a, l)
    BY <1>3 DEF IInv, Values, Keeps
  <2>2. Proven(a, l)'
    BY <2>1, ProvenKept
  <2> QED
    BY <2>1, <2>2 DEF Proven
<1>4. \A c \in Code : codes'[c].state # "spent" => firstTry'[c] = NoLogin
  BY DEF IInv, Values
<1> QED
  BY <1>1, <1>2, <1>3, <1>4 DEF Values

\* No grant is drawn, and a session at most ends, after its grant if by logout.
LEMMA GrantsKept ==
    ASSUME IInv, Keeps, UNCHANGED origin,
           \A g \in Grant : grants'[g].state # "absent" => grants[g].state # "absent",
           \A g \in Grant :
               \/ bff'[g] = bff[g]
               \/ /\ bff[g].state = "live" /\ bff'[g].state \in {"expired", "ended"}
                  /\ bff'[g].login = bff[g].login
                  /\ bff'[g].state = "ended" => grants[g].state = "consumed"
    PROVE  Grants'
<1> SUFFICES ASSUME NEW g \in Grant
             PROVE  /\ grants'[g].state = "absent" => origin'[g] = NoCode /\ bff'[g].state = "none"
                    /\ grants'[g].state # "absent" =>
                           /\ origin'[g] \in Code /\ codes'[origin'[g]].state = "spent"
                           /\ grants'[g].user = codes'[origin'[g]].account
                           /\ firstTry'[origin'[g]] = codes'[origin'[g]].login
                    /\ bff'[g].state = "none" => bff'[g].login = NoLogin
                    /\ bff'[g].state # "none" =>
                           /\ bff'[g].login \in Web /\ pending'[bff'[g].login] = "back"
                           /\ bff'[g].login = codes'[origin'[g]].login
                    /\ bff'[g].state = "ended" => grants'[g].state = "consumed"
  BY DEF Grants
<1>1. CASE grants[g].state = "absent"
  <2>1. grants'[g].state = "absent" /\ origin[g] = NoCode /\ bff[g].state = "none"
        /\ bff[g].login = NoLogin
    BY <1>1 DEF IInv, Grants
  <2> QED
    BY <2>1
<1>2. CASE grants[g].state # "absent"
  <2>1. /\ origin[g] \in Code /\ codes[origin[g]].state = "spent"
        /\ grants[g].user = codes[origin[g]].account
        /\ firstTry[origin[g]] = codes[origin[g]].login
        /\ codes[origin[g]].login \in Login
    BY <1>2 DEF IInv, Grants, Values
  <2>2. /\ codes'[origin[g]].state = "spent" /\ codes'[origin[g]].login = codes[origin[g]].login
        /\ codes'[origin[g]].account = codes[origin[g]].account
        /\ firstTry'[origin[g]] = firstTry[origin[g]]
        /\ grants'[g].state # "absent" /\ grants'[g].user = grants[g].user
        /\ grants[g].state = "consumed" => grants'[g].state = "consumed"
    BY <1>2, <2>1, NullsAssumption DEF Keeps
  <2>3. /\ bff[g].state = "none" => bff[g].login = NoLogin
        /\ bff[g].state # "none" => /\ bff[g].login \in Web /\ pending'[bff[g].login] = "back"
                                    /\ bff[g].login = codes[origin[g]].login
        /\ bff[g].state = "ended" => grants[g].state = "consumed"
    BY DEF IInv, Grants, Keeps
  <2> QED
    BY <2>1, <2>2, <2>3
<1> QED
  BY <1>1, <1>2

-----------------------------------------------------------------------------
LEMMA BeginStep == ASSUME IInv, NEW l \in Web, Begin(l) PROVE IInv' /\ Keeps
<1>1. /\ pending' \in [Web -> {"none", "begun", "back"}]
      /\ pending'[l] = "begun" /\ pending[l] = "none"
      /\ \A o \in Web \ {l} : pending'[o] = pending[o]
  BY DEF Begin, IInv, TypeOK
<1>2. Keeps
  BY <1>1 DEF Begin, Keeps
<1>3. TypeOK'
  BY <1>1 DEF Begin, IInv, TypeOK
<1>4. Values'
  BY <1>2, <1>3, ValuesKept DEF Begin
<1>5. Grants'
  BY <1>2, GrantsKept DEF Begin
<1>6. Alone'
  BY DEF Begin, IInv, Alone
<1> QED
  BY <1>2, <1>3, <1>4, <1>5, <1>6, KeepingStep DEF Begin

LEMMA AuthorizeStep ==
    ASSUME IInv, NEW l \in Login, NEW t \in Txn, Authorize(l, t) PROVE IInv' /\ Keeps
<1>1. /\ txns' \in [Txn -> OAuthTransaction] /\ txns[t].state = "absent"
      /\ txns'[t].login = l
      /\ \A o \in Txn \ {t} : txns'[o] = txns[o]
  BY DEF Authorize, OAuthTransaction, Value, IInv, TypeOK
<1>2. l \in Web => pending[l] # "none"
  BY DEF Authorize, Begun, Web
<1>3. Keeps
  BY <1>1 DEF Authorize, Keeps
<1>4. TypeOK'
  BY <1>1 DEF Authorize, IInv, TypeOK
<1>5. Values'
  BY <1>1, <1>2, <1>3, <1>4, ValuesKept DEF Authorize
<1>6. Grants'
  BY <1>3, GrantsKept DEF Authorize
<1>7. Alone'
  BY DEF Authorize, IInv, Alone
<1> QED
  BY <1>3, <1>4, <1>5, <1>6, <1>7, KeepingStep DEF Authorize

LEMMA FakeAuthorizeStep ==
    ASSUME IInv, NEW t \in Txn, NEW a \in Account, NEW p \in PCode, FakeAuthorize(t, a, p)
    PROVE  IInv' /\ Keeps
<1>1. /\ pcodes' \in [PCode -> ProviderResult] /\ pcodes[p].state = "absent"
      /\ pcodes'[p].txn = t /\ pcodes'[p].account = a
      /\ \A o \in PCode \ {p} : pcodes'[o] = pcodes[o]
  BY DEF FakeAuthorize, ProviderResult, Value, IInv, TypeOK
<1>2. txns[t].state # "absent"
  BY DEF FakeAuthorize, Drawn
<1>3. Keeps
  BY <1>1 DEF FakeAuthorize, Keeps
<1>4. TypeOK'
  BY <1>1 DEF FakeAuthorize, IInv, TypeOK
<1>5. Values'
  BY <1>1, <1>2, <1>3, <1>4, ValuesKept DEF FakeAuthorize
<1>6. Grants'
  BY <1>3, GrantsKept DEF FakeAuthorize
<1>7. Alone'
  BY DEF FakeAuthorize, IInv, Alone
<1> QED
  BY <1>3, <1>4, <1>5, <1>6, <1>7, KeepingStep DEF FakeAuthorize

-----------------------------------------------------------------------------
\* GETDEL of each kind of value.
LEMMA TakenTxn ==
    ASSUME IInv, NEW t \in Txn, txns[t].state # "absent", txns' = Take(txns, t)
    PROVE  /\ txns' \in [Txn -> OAuthTransaction]
           /\ \A o \in Txn : /\ txns'[o].state = IF o = t THEN "spent" ELSE txns[o].state
                             /\ txns'[o].login = txns[o].login
<1>1. [txns[t] EXCEPT !.state = "spent"] \in OAuthTransaction
  BY DEF IInv, TypeOK, OAuthTransaction, Value
<1> QED
  BY <1>1 DEF Take, IInv, TypeOK, OAuthTransaction

LEMMA TakenPCode ==
    ASSUME IInv, NEW p \in PCode, pcodes[p].state # "absent", pcodes' = Take(pcodes, p)
    PROVE  /\ pcodes' \in [PCode -> ProviderResult]
           /\ \A o \in PCode : /\ pcodes'[o].state = IF o = p THEN "spent" ELSE pcodes[o].state
                               /\ pcodes'[o].txn = pcodes[o].txn
                               /\ pcodes'[o].account = pcodes[o].account
<1>1. pcodes[p] \in ProviderResult
  BY DEF IInv, TypeOK
<1>2. [pcodes[p] EXCEPT !.state = "spent"] \in ProviderResult
  BY <1>1 DEF ProviderResult, Value
<1> QED
  BY <1>2 DEF Take, IInv, TypeOK, ProviderResult

LEMMA TakenCode ==
    ASSUME IInv, NEW c \in Code, codes[c].state # "absent", codes' = Take(codes, c)
    PROVE  /\ codes' \in [Code -> CodeGrant]
           /\ \A o \in Code : /\ codes'[o].state = IF o = c THEN "spent" ELSE codes[o].state
                              /\ codes'[o].login = codes[o].login
                              /\ codes'[o].account = codes[o].account
<1>1. [codes[c] EXCEPT !.state = "spent"] \in CodeGrant
  BY DEF IInv, TypeOK, CodeGrant, Value
<1> QED
  BY <1>1 DEF Take, IInv, TypeOK, CodeGrant

\* A transaction or a provider code is taken, and at most a request moves.
LEMMA TakeStep ==
    ASSUME IInv, UNCHANGED <<pending, codes, accounts, grants, bff, firstTry, origin>>,
           \/ UNCHANGED txns
           \/ \E t \in Txn : txns[t].state # "absent" /\ txns' = Take(txns, t),
           \/ UNCHANGED pcodes
           \/ \E p \in PCode : pcodes[p].state # "absent" /\ pcodes' = Take(pcodes, p),
           req' \in [Req -> Slot], \A s \in Req : req'[s] = req[s] \/ Shape(req[s])', Alone'
    PROVE  IInv' /\ Keeps
<1>1. /\ txns' \in [Txn -> OAuthTransaction]
      /\ \A o \in Txn : /\ txns'[o].state = "absent" <=> txns[o].state = "absent"
                        /\ txns'[o].login = txns[o].login
  BY TakenTxn DEF IInv, TypeOK
<1>2. /\ pcodes' \in [PCode -> ProviderResult]
      /\ \A o \in PCode : /\ pcodes'[o].state = "absent" <=> pcodes[o].state = "absent"
                          /\ pcodes[o].state = "spent" => pcodes'[o].state = "spent"
                          /\ pcodes'[o].txn = pcodes[o].txn
                          /\ pcodes'[o].account = pcodes[o].account
  BY TakenPCode DEF IInv, TypeOK
<1>3. Keeps
  BY <1>1, <1>2 DEF Keeps
<1>4. TypeOK'
  BY <1>1, <1>2 DEF IInv, TypeOK
<1>5. Values'
  BY <1>1, <1>2, <1>3, <1>4, ValuesKept
<1>6. Grants'
  BY <1>3, GrantsKept
<1> QED
  BY <1>3, <1>4, <1>5, <1>6, KeepingStep

LEMMA ProviderCallbackStep ==
    ASSUME IInv, NEW r \in Req, NEW t \in Txn, NEW p \in PCode, ProviderCallback(r, t, p)
    PROVE  IInv' /\ Keeps
<1> PICK found \in BOOLEAN : found = (txns[t].state = "live")
  OBVIOUS
<1> DEFINE q == [Idle EXCEPT !.pc = "provider_code", !.txn = t, !.pcode = p, !.found = found]
<1>1. /\ q \in Slot /\ q.pc = "provider_code" /\ q.txn = t /\ q.pcode = p
  BY IdleSlot DEF Slot, Idle, CallbackPc
<1>2. req' = [req EXCEPT ![r] = q] /\ txns[t].state # "absent" /\ pcodes[p].state # "absent"
      /\ txns' = Take(txns, t) /\ UNCHANGED <<pending, pcodes, codes, accounts, grants, bff, firstTry, origin>>
  BY DEF ProviderCallback, Drawn
<1> HIDE DEF q
<1>3. txns'[t].state # "absent"
  BY <1>2, TakenTxn
<1>4. Shape(q)'
  BY <1>1, <1>2, <1>3 DEF Shape, TokenPc, LogoutPc
<1>5. Alone'
  BY <1>1, <1>2, AloneKept DEF TokenPc, RedeemPc
<1>6. req' \in [Req -> Slot] /\ \A s \in Req : req'[s] = req[s] \/ Shape(req[s])'
  BY <1>1, <1>2, <1>4 DEF IInv, TypeOK
<1> QED
  BY <1>2, <1>5, <1>6, TakeStep

LEMMA ProviderExchangeStep == ASSUME IInv, NEW r \in Req, ProviderExchange(r) PROVE IInv' /\ Keeps
<1> PICK old \in Slot : req[r] = old
  BY DEF IInv, TypeOK
<1> DEFINE p == old.pcode
           found == old.found /\ pcodes[p].state = "live" /\ pcodes[p].txn = old.txn
<1>1. /\ old.pc = "provider_code" /\ p \in PCode /\ pcodes[p].state # "absent"
      /\ old.txn \in Txn /\ txns[old.txn].state # "absent"
  BY DEF ProviderExchange, IInv, Requests, Shape
<1>2. pcodes' = Take(pcodes, p)
      /\ UNCHANGED <<pending, txns, codes, accounts, grants, bff, firstTry, origin>>
      /\ (found => Advance(r, "user_read")) /\ (~found => Finish(r))
  BY DEF ProviderExchange
<1>3. pcodes'[p].state = "spent" /\ pcodes'[p].txn = pcodes[p].txn
  BY <1>1, <1>2, TakenPCode
<1> PICK q \in Slot : /\ req' = [req EXCEPT ![r] = q] /\ q.pc \in {"idle", "user_read"}
                      /\ Shape(q)'
  <2>1. CASE found
    <3> DEFINE q == [old EXCEPT !.pc = "user_read"]
    <3>1. q \in Slot /\ q.pc = "user_read" /\ q.pcode = p /\ q.txn = old.txn
      BY DEF Slot, CallbackPc
    <3>2. req' = [req EXCEPT ![r] = q]
      BY <1>2, <2>1 DEF Advance
    <3> HIDE DEF q
    <3>3. Shape(q)'
      BY <1>1, <1>2, <1>3, <2>1, <3>1 DEF Shape, TokenPc, LogoutPc
    <3> QED
      BY <3>1, <3>2, <3>3
  <2>2. CASE ~found
    BY <1>2, <2>2, IdleSlot DEF Finish
  <2> QED
    BY <2>1, <2>2
<1>4. Alone'
  BY <1>2, AloneKept DEF TokenPc, RedeemPc
<1>5. req' \in [Req -> Slot] /\ \A s \in Req : req'[s] = req[s] \/ Shape(req[s])'
  BY DEF IInv, TypeOK
<1> QED
  BY <1>1, <1>2, <1>4, <1>5, TakeStep

-----------------------------------------------------------------------------
LEMMA UserReadStep == ASSUME IInv, NEW r \in Req, UserRead(r) PROVE IInv' /\ Keeps
<1> PICK old \in Slot : req[r] = old
  BY DEF IInv, TypeOK
<1>1. old.pc = "user_read" /\ Shape(old)
  BY DEF UserRead, IInv, Requests
<1> PICK q \in Slot : /\ req' = [req EXCEPT ![r] = q] /\ q.pc \in {"user_insert", "put_code"}
                      /\ q.txn = old.txn /\ q.pcode = old.pcode
  <2>1. PICK pc \in {"user_insert", "put_code"} : Advance(r, pc)
    BY DEF UserRead
  <2> DEFINE q == [old EXCEPT !.pc = pc]
  <2>2. q \in Slot /\ q.pc = pc /\ q.txn = old.txn /\ q.pcode = old.pcode
    BY DEF Slot, CallbackPc
  <2>3. req' = [req EXCEPT ![r] = q]
    BY <2>1 DEF Advance
  <2> HIDE DEF q
  <2> QED
    BY <2>2, <2>3
<1>2. Shape(q)
  BY <1>1 DEF Shape, TokenPc, LogoutPc
<1>3. Alone'
  BY AloneKept DEF UserRead, TokenPc, RedeemPc
<1> QED
  BY <1>2, <1>3, SlotStep DEF UserRead, IInv, TypeOK

LEMMA UserInsertStep == ASSUME IInv, NEW r \in Req, UserInsert(r) PROVE IInv' /\ Keeps
<1> PICK old \in Slot : req[r] = old
  BY DEF IInv, TypeOK
<1>1. old.pc = "user_insert" /\ Shape(old)
  BY DEF UserInsert, IInv, Requests
<1>2. CASE accounts[Subject(r)].status = "absent"
  <2> DEFINE q == [old EXCEPT !.pc = "put_code"]
             row == [status |-> "active", version |-> 1, roles |-> {"user"}]
  <2>1. q \in Slot /\ q.pc = "put_code" /\ q.txn = old.txn /\ q.pcode = old.pcode
    BY DEF Slot, CallbackPc
  <2>2. req' = [req EXCEPT ![r] = q] /\ accounts' = [accounts EXCEPT ![Subject(r)] = row]
    BY <1>2 DEF UserInsert, Advance
  <2>3. row \in UserRow
    BY DEF UserRow
  <2> HIDE DEF q, row
  <2>4. accounts' \in [Account -> UserRow]
    BY <2>2, <2>3 DEF IInv, TypeOK
  <2>5. Shape(q)
    BY <1>1, <2>1 DEF Shape, TokenPc, LogoutPc
  <2>6. Alone'
    BY <2>1, <2>2, AloneKept DEF UserInsert, TokenPc, RedeemPc
  <2> QED
    BY <2>1, <2>2, <2>4, <2>5, <2>6, SlotStep DEF UserInsert
<1>3. CASE accounts[Subject(r)].status # "absent"
  BY <1>3, EndStep DEF UserInsert, IInv, TypeOK
<1> QED
  BY <1>2, <1>3

LEMMA PutCodeStep == ASSUME IInv, NEW r \in Req, NEW c \in Code, PutCode(r, c) PROVE IInv' /\ Keeps
<1> PICK old \in Slot : req[r] = old
  BY DEF IInv, TypeOK
<1> DEFINE l == txns[old.txn].login
           a == pcodes[old.pcode].account
           row == [state |-> "live", login |-> l, account |-> a]
<1>1. /\ old.txn \in Txn /\ txns[old.txn].state # "absent"
      /\ old.pcode \in PCode /\ pcodes[old.pcode].state = "spent"
      /\ pcodes[old.pcode].txn = old.txn
  BY DEF PutCode, IInv, Requests, Shape
<1>2. l \in Login /\ a \in Account /\ Proven(a, l)
  BY <1>1 DEF IInv, Values, Proven
<1>3. row \in CodeGrant /\ row.login = l /\ row.account = a /\ row.state = "live"
  BY <1>2 DEF CodeGrant, Value
<1>4. codes' = [codes EXCEPT ![c] = row] /\ codes[c].state = "absent"
      /\ UNCHANGED <<pending, txns, pcodes, accounts, grants, bff, firstTry, origin>>
  BY DEF PutCode, Subject
<1> HIDE DEF row
<1>5. /\ codes' \in [Code -> CodeGrant] /\ codes'[c] = row
      /\ \A o \in Code \ {c} : codes'[o] = codes[o]
  BY <1>3, <1>4 DEF IInv, TypeOK
<1>6. Keeps
  BY <1>4, <1>5 DEF Keeps
<1>7. TypeOK'
  BY <1>4, <1>5, IdleSlot DEF PutCode, Finish, IInv, TypeOK
<1>8. Values'
  BY <1>2, <1>3, <1>4, <1>5, <1>6, <1>7, ValuesKept
<1>9. Grants'
  BY <1>4, <1>6, GrantsKept
<1>10. Alone'
  <2>1. Idle.pc \notin TokenPc /\ Idle.pc \notin RedeemPc
    BY DEF Idle, TokenPc, RedeemPc
  <2> QED
    BY <1>4, <2>1, IdleSlot, AloneKept DEF PutCode, Finish
<1>11. \A s \in Req : req'[s] = req[s] \/ Shape(req[s])'
  BY IdleSlot DEF PutCode, Finish, IInv, TypeOK
<1> QED
  BY <1>6, <1>7, <1>8, <1>9, <1>10, <1>11, KeepingStep

-----------------------------------------------------------------------------
\* What the slot of a token request holds when it starts.
Carrier(l, c) == [Idle EXCEPT !.pc = "exchange", !.waiting = TRUE, !.login = l, !.code = c]

LEMMA CarrierSlot ==
    ASSUME NEW l \in Login, NEW c \in Code
    PROVE  /\ Carrier(l, c) \in Slot /\ Carrier(l, c).pc = "exchange"
           /\ Carrier(l, c).login = l /\ Carrier(l, c).code = c
  BY IdleSlot DEF Carrier, Idle, Slot, TokenPc

LEMMA BffCallbackStep ==
    ASSUME IInv, NEW r \in Req, NEW l \in Web, NEW c \in Code, BffCallback(r, l, c)
    PROVE  IInv' /\ Keeps
<1> DEFINE q == Carrier(l, c)
<1>1. l \in Login /\ l \notin Native
  BY DEF Web
<1>2. q \in Slot /\ q.pc = "exchange" /\ q.login = l /\ q.code = c
  BY <1>1, CarrierSlot
<1>3. req' = [req EXCEPT ![r] = q]
      /\ UNCHANGED <<txns, pcodes, codes, accounts, grants, bff, firstTry, origin>>
  BY DEF BffCallback, Exchange, Carrier
<1> HIDE DEF q
<1>4. /\ pending' \in [Web -> {"none", "begun", "back"}]
      /\ pending[l] = "begun" /\ pending'[l] = "back"
      /\ \A o \in Web \ {l} : pending'[o] = pending[o]
  BY DEF BffCallback, IInv, TypeOK
<1>5. Keeps
  BY <1>3, <1>4 DEF Keeps
<1>6. TypeOK'
  BY <1>2, <1>3, <1>4 DEF IInv, TypeOK
<1>7. Values'
  BY <1>3, <1>5, <1>6, ValuesKept
<1>8. Grants'
  BY <1>3, <1>5, GrantsKept
<1>9. \A s \in Req : req'[s] = IF s = r THEN q ELSE req[s]
  BY <1>2, <1>3 DEF IInv, TypeOK
<1>10. Shape(q)'
  BY <1>1, <1>2, <1>3, <1>4 DEF BffCallback, Drawn, Shape, TokenPc, LogoutPc
<1>11. /\ \A s \in Req : req[s].pc \in TokenPc => req[s].login # l
       /\ \A g \in Grant : bff[g].login # l
  <2>1. \A s \in Req : req[s].pc \in TokenPc => req[s].login # l
    BY <1>4 DEF IInv, Requests, Shape
  <2>2. \A g \in Grant : bff[g].login # l
    BY <1>1, <1>4, NullsAssumption, LoginsAssumption DEF IInv, Grants
  <2> QED
    BY <2>1, <2>2
<1>12. Alone'
  <2>1. q.pc \notin RedeemPc /\ RedeemPc \subseteq TokenPc
    BY <1>2 DEF RedeemPc, TokenPc
  <2>2. \A s, t \in Req : req'[s].pc \in TokenPc /\ req'[t].pc \in TokenPc
                          /\ req'[s].login = req'[t].login => s = t \/ req'[s].login \in Native
    BY <1>2, <1>9, <1>11 DEF IInv, Alone
  <2>3. \A s \in Req, g \in Grant : req'[s].pc \in TokenPc => bff'[g].login # req'[s].login
    BY <1>2, <1>3, <1>9, <1>11 DEF IInv, Alone
  <2>4. /\ \A s, t \in Req : req'[s].pc \in RedeemPc /\ req'[t].pc \in RedeemPc
                              /\ req'[s].code = req'[t].code => s = t
        /\ \A s \in Req, g \in Grant : req'[s].pc \in RedeemPc => origin'[g] # req'[s].code
    BY <1>3, <1>9, <2>1 DEF IInv, Alone
  <2>5. /\ \A g, h \in Grant : bff'[g].login = bff'[h].login => g = h \/ bff'[g].login = NoLogin
        /\ \A g, h \in Grant : origin'[g] = origin'[h] => g = h \/ origin'[g] = NoCode
    BY <1>3 DEF IInv, Alone
  <2> QED
    BY <2>2, <2>3, <2>4, <2>5 DEF Alone
<1>13. \A s \in Req : req'[s] = req[s] \/ Shape(req[s])'
  BY <1>9, <1>10
<1> QED
  BY <1>5, <1>6, <1>7, <1>8, <1>12, <1>13, KeepingStep

LEMMA NativeExchangeStep ==
    ASSUME IInv, NEW r \in Req, NEW l \in Native, NEW c \in Code, NativeExchange(r, l, c)
    PROVE  IInv' /\ Keeps
<1> DEFINE q == Carrier(l, c)
<1>1. l \in Login /\ l \notin Web
  BY LoginsAssumption DEF Web
<1>2. q \in Slot /\ q.pc = "exchange" /\ q.login = l /\ q.code = c
  BY <1>1, CarrierSlot
<1>3. req' = [req EXCEPT ![r] = q]
      /\ UNCHANGED <<store, accounts, grants, bff, firstTry, origin>>
  BY DEF NativeExchange, Exchange, Carrier
<1> HIDE DEF q
<1>4. Shape(q)
  BY <1>1, <1>2 DEF NativeExchange, Shape, TokenPc, LogoutPc
<1>5. \A s \in Req : req'[s] = IF s = r THEN q ELSE req[s]
  BY <1>2, <1>3 DEF IInv, TypeOK
<1>6. \A g \in Grant : bff[g].login # l
  BY <1>1, NullsAssumption DEF IInv, Grants
<1>7. Alone'
  <2>1. q.pc \notin RedeemPc
    BY <1>2 DEF RedeemPc
  <2>2. \A s, t \in Req : req'[s].pc \in TokenPc /\ req'[t].pc \in TokenPc
                          /\ req'[s].login = req'[t].login => s = t \/ req'[s].login \in Native
    BY <1>2, <1>5 DEF IInv, Alone
  <2>3. \A s \in Req, g \in Grant : req'[s].pc \in TokenPc => bff'[g].login # req'[s].login
    BY <1>2, <1>3, <1>5, <1>6 DEF IInv, Alone
  <2>4. /\ \A s, t \in Req : req'[s].pc \in RedeemPc /\ req'[t].pc \in RedeemPc
                              /\ req'[s].code = req'[t].code => s = t
        /\ \A s \in Req, g \in Grant : req'[s].pc \in RedeemPc => origin'[g] # req'[s].code
    BY <1>3, <1>5, <2>1 DEF IInv, Alone
  <2>5. /\ \A g, h \in Grant : bff'[g].login = bff'[h].login => g = h \/ bff'[g].login = NoLogin
        /\ \A g, h \in Grant : origin'[g] = origin'[h] => g = h \/ origin'[g] = NoCode
    BY <1>3 DEF IInv, Alone
  <2> QED
    BY <2>2, <2>3, <2>4, <2>5 DEF Alone
<1> QED
  BY <1>2, <1>3, <1>4, <1>7, SlotStep DEF IInv, TypeOK

LEMMA TokenTakeStep == ASSUME IInv, NEW r \in Req, TokenTake(r) PROVE IInv' /\ Keeps
<1> PICK old \in Slot : req[r] = old
  BY DEF IInv, TypeOK
<1> PICK c \in Code : c = old.code
  BY DEF TokenTake, IInv, Requests, Shape, TokenPc
<1> PICK l \in Login : l = old.login
  BY DEF TokenTake, IInv, Requests, Shape, TokenPc
<1> DEFINE right == codes[c].state = "live" /\ codes[c].login = l
<1>1. /\ old.pc = "exchange" /\ codes[c].state # "absent"
      /\ l \in Web => pending[l] = "back"
  BY DEF TokenTake, IInv, Requests, Shape, TokenPc
<1>2. /\ codes' = Take(codes, c)
      /\ firstTry' = [firstTry EXCEPT ![c] = IF @ = NoLogin THEN l ELSE @]
      /\ UNCHANGED <<pending, txns, pcodes, accounts, grants, bff, origin>>
      /\ right => Advance(r, "token_read")
      /\ ~right => Finish(r)
  BY DEF TokenTake
<1>3. /\ codes' \in [Code -> CodeGrant]
      /\ \A o \in Code : /\ codes'[o].state = IF o = c THEN "spent" ELSE codes[o].state
                         /\ codes'[o].login = codes[o].login
                         /\ codes'[o].account = codes[o].account
  BY <1>1, <1>2, TakenCode
<1>4. /\ firstTry' \in [Code -> Login \cup {NoLogin}]
      /\ firstTry'[c] = IF firstTry[c] = NoLogin THEN l ELSE firstTry[c]
      /\ \A o \in Code \ {c} : firstTry'[o] = firstTry[o]
  BY <1>2 DEF IInv, TypeOK
<1>5. Keeps
  BY <1>2, <1>3, <1>4 DEF Keeps
<1> PICK q \in Slot : /\ req' = [req EXCEPT ![r] = q] /\ q.pc \in {"idle", "token_read"}
                      /\ q.pc = "token_read" => right /\ q.code = c /\ q.login = l
  <2>1. CASE right
    <3> DEFINE q == [old EXCEPT !.pc = "token_read"]
    <3>1. q \in Slot /\ q.pc = "token_read" /\ q.code = c /\ q.login = l
      BY DEF Slot, TokenPc
    <3>2. req' = [req EXCEPT ![r] = q]
      BY <1>2, <2>1 DEF Advance
    <3> HIDE DEF q
    <3> QED
      BY <2>1, <3>1, <3>2
  <2>2. CASE ~right
    BY <1>2, <2>2, IdleSlot DEF Finish
  <2> QED
    BY <2>1, <2>2
<1>6. TypeOK'
  BY <1>2, <1>3, <1>4 DEF IInv, TypeOK
<1>7. Values'
  <2>1. \A o \in Code : codes'[o].state # "absent" => codes[o].state # "absent"
    BY <1>1, <1>3
  <2>2. \A o \in Code : codes'[o].state # "spent" =>
                          codes[o].state # "spent" /\ firstTry'[o] = firstTry[o]
    BY <1>3, <1>4
  <2> QED
    BY <1>2, <1>5, <1>6, <2>1, <2>2, ValuesKept
<1>8. Grants'
  BY <1>2, <1>5, GrantsKept
<1>9. \A s \in Req : req'[s] = IF s = r THEN q ELSE req[s]
  BY DEF IInv, TypeOK
<1>10. Shape(q)'
  <2>1. CASE q.pc = "idle"
    BY <2>1 DEF Shape, TokenPc, LogoutPc
  <2>2. CASE q.pc = "token_read"
    <3>1. firstTry'[c] = l
      BY <1>4, <2>2 DEF IInv, Values
    <3> QED
      BY <1>1, <1>2, <1>3, <2>2, <3>1 DEF Shape, TokenPc, LogoutPc
  <2> QED
    BY <2>1, <2>2
<1>11. Alone'
  <2>1. CASE q.pc = "idle"
    BY <1>2, <2>1, AloneKept DEF TokenPc, RedeemPc
  <2>2. CASE q.pc = "token_read"
    <3>1. q.pc \in TokenPc /\ q.pc \in RedeemPc /\ old.pc \in TokenPc /\ RedeemPc \subseteq TokenPc
      BY <1>1, <2>2 DEF TokenPc, RedeemPc
    <3>2. /\ \A s \in Req : req[s].pc \in RedeemPc => req[s].code # c
          /\ \A g \in Grant : origin[g] # c
      <4>1. \A s \in Req : req[s].pc \in RedeemPc => codes[req[s].code].state = "spent"
        BY DEF IInv, Requests, Shape, RedeemPc
      <4>2. \A g \in Grant : origin[g] # NoCode => codes[origin[g]].state = "spent"
        BY DEF IInv, TypeOK, Grants
      <4> QED
        BY <2>2, <4>1, <4>2, NullsAssumption
    <3>3. \A s, t \in Req : req'[s].pc \in TokenPc /\ req'[t].pc \in TokenPc
                           /\ req'[s].login = req'[t].login => s = t \/ req'[s].login \in Native
      BY <1>9, <2>2, <3>1 DEF IInv, Alone
    <3>4. \A s \in Req, g \in Grant : req'[s].pc \in TokenPc => bff'[g].login # req'[s].login
      BY <1>2, <1>9, <2>2, <3>1 DEF IInv, Alone
    <3>5. \A s, t \in Req : req'[s].pc \in RedeemPc /\ req'[t].pc \in RedeemPc
                           /\ req'[s].code = req'[t].code => s = t
      BY <1>9, <2>2, <3>2 DEF IInv, Alone
    <3>6. \A s \in Req, g \in Grant : req'[s].pc \in RedeemPc => origin'[g] # req'[s].code
      BY <1>2, <1>9, <2>2, <3>2 DEF IInv, Alone
    <3> QED
      BY <1>2, <3>3, <3>4, <3>5, <3>6 DEF IInv, Alone
  <2> QED
    BY <2>1, <2>2
<1>12. \A s \in Req : req'[s] = req[s] \/ Shape(req[s])'
  BY <1>9, <1>10
<1> QED
  BY <1>5, <1>6, <1>7, <1>8, <1>11, <1>12, KeepingStep

LEMMA TokenReadStep == ASSUME IInv, NEW r \in Req, TokenRead(r) PROVE IInv' /\ Keeps
<1> PICK old \in Slot : req[r] = old
  BY DEF IInv, TypeOK
<1>1. old.pc = "token_read" /\ Shape(old) /\ UNCHANGED <<store, accounts, grants, bff, firstTry, origin>>
  BY DEF TokenRead, IInv, Requests
<1>2. CASE Advance(r, "token_commit")
  <2> DEFINE q == [old EXCEPT !.pc = "token_commit"]
  <2>1. q \in Slot /\ q.pc = "token_commit" /\ q.code = old.code /\ q.login = old.login
    BY DEF Slot, TokenPc
  <2>2. req' = [req EXCEPT ![r] = q]
    BY <1>2 DEF Advance
  <2> HIDE DEF q
  <2>3. Shape(q)
    BY <1>1, <2>1 DEF Shape, TokenPc, LogoutPc
  <2>4. Alone'
    BY <1>1, <2>1, <2>2, AloneKept DEF TokenPc, RedeemPc
  <2> QED
    BY <1>1, <2>1, <2>2, <2>3, <2>4, SlotStep DEF IInv, TypeOK
<1>3. CASE Finish(r)
  BY <1>1, <1>3, EndStep DEF IInv, TypeOK
<1> QED
  BY <1>2, <1>3 DEF TokenRead

LEMMA TokenCommitStep ==
    ASSUME IInv, NEW r \in Req, NEW g \in Grant, TokenCommit(r, g) PROVE IInv' /\ Keeps
<1> PICK old \in Slot : req[r] = old
  BY DEF IInv, TypeOK
<1>1. old.pc = "token_commit" /\ Shape(old) /\ grants[g].state = "absent"
  BY DEF TokenCommit, IInv, Requests, Ledger!Issue, Ledger!Undrawn
<1> PICK c \in Code : c = old.code
  BY <1>1 DEF Shape, TokenPc
<1> DEFINE a == codes[c].account
           row == [state |-> "live", user |-> a]
           q == [old EXCEPT !.pc = "answer", !.grant = g]
<1>2. /\ codes[c].state = "spent" /\ codes[c].login = old.login /\ firstTry[c] = old.login
      /\ old.login \in Login /\ a \in Account
  BY <1>1 DEF Shape, TokenPc, IInv, Values
<1>3. /\ q \in Slot /\ q.pc = "answer" /\ q.code = c /\ q.login = old.login /\ q.grant = g
  BY DEF Slot, TokenPc
<1>4. /\ grants' = [grants EXCEPT ![g] = row]
      /\ origin' = [origin EXCEPT ![g] = c]
      /\ req' = [req EXCEPT ![r] = q]
      /\ UNCHANGED <<pending, txns, pcodes, codes, accounts, bff, firstTry>>
  BY DEF TokenCommit, Ledger!Issue, Ledger!Live, store
<1>5. row \in [state: {"absent", "live", "consumed"}, user: Account \cup {NoAccount}]
      /\ row.state = "live" /\ row.user = a
  BY <1>2
<1> HIDE DEF row, q
<1>6. /\ grants' \in [Grant -> [state: {"absent", "live", "consumed"}, user: Account \cup {NoAccount}]]
      /\ grants'[g] = row /\ \A h \in Grant \ {g} : grants'[h] = grants[h]
      /\ origin' \in [Grant -> Code \cup {NoCode}]
      /\ origin'[g] = c /\ \A h \in Grant \ {g} : origin'[h] = origin[h]
  BY <1>4, <1>5 DEF IInv, TypeOK
<1>7. \A s \in Req : req'[s] = IF s = r THEN q ELSE req[s]
  BY <1>3, <1>4 DEF IInv, TypeOK
<1>8. Keeps
  BY <1>1, <1>4, <1>6 DEF Keeps
<1>9. TypeOK'
  BY <1>3, <1>4, <1>6 DEF IInv, TypeOK
<1>10. Values'
  BY <1>4, <1>8, <1>9, ValuesKept
<1>11. Grants'
  <2>1. bff[g].state = "none"
    BY <1>1 DEF IInv, Grants
  <2> SUFFICES ASSUME NEW h \in Grant
               PROVE  /\ grants'[h].state = "absent" => origin'[h] = NoCode /\ bff[h].state = "none"
                      /\ grants'[h].state # "absent" =>
                             /\ origin'[h] \in Code /\ codes[origin'[h]].state = "spent"
                             /\ grants'[h].user = codes[origin'[h]].account
                             /\ firstTry[origin'[h]] = codes[origin'[h]].login
                      /\ bff[h].state = "none" => bff[h].login = NoLogin
                      /\ bff[h].state # "none" => /\ bff[h].login \in Web /\ pending[bff[h].login] = "back"
                                                  /\ bff[h].login = codes[origin'[h]].login
                      /\ bff[h].state = "ended" => grants'[h].state = "consumed"
    BY <1>4 DEF Grants
  <2>2. CASE h = g
    BY <1>2, <1>5, <1>6, <2>1, <2>2 DEF IInv, Grants
  <2>3. CASE h # g
    BY <1>6, <2>3 DEF IInv, Grants
  <2> QED
    BY <2>2, <2>3
<1>12. Shape(q)'
  BY <1>1, <1>2, <1>3, <1>4, <1>5, <1>6 DEF Shape, TokenPc, LogoutPc
<1>13. Alone'
  <2>1. q.pc \in TokenPc /\ old.pc \in TokenPc /\ q.pc \notin RedeemPc /\ old.pc \in RedeemPc
    BY <1>1, <1>3 DEF TokenPc, RedeemPc
  <2>2. \A s, t \in Req : req'[s].pc \in TokenPc /\ req'[t].pc \in TokenPc
                         /\ req'[s].login = req'[t].login => s = t \/ req'[s].login \in Native
    BY <1>3, <1>7, <2>1 DEF IInv, Alone
  <2>3. \A s \in Req, h \in Grant : req'[s].pc \in TokenPc => bff'[h].login # req'[s].login
    BY <1>3, <1>4, <1>7, <2>1 DEF IInv, Alone
  <2>4. \A s, t \in Req : req'[s].pc \in RedeemPc /\ req'[t].pc \in RedeemPc
                         /\ req'[s].code = req'[t].code => s = t
    BY <1>7, <2>1 DEF IInv, Alone
  <2>5. \A s \in Req, h \in Grant : req'[s].pc \in RedeemPc => origin'[h] # req'[s].code
    BY <1>6, <1>7, <2>1 DEF IInv, Alone
  <2>6. \A h, i \in Grant : origin'[h] = origin'[i] => h = i \/ origin'[h] = NoCode
    BY <1>6, <2>1 DEF IInv, Alone
  <2> QED
    BY <1>4, <2>2, <2>3, <2>4, <2>5, <2>6 DEF IInv, Alone
<1>14. \A s \in Req : req'[s] = req[s] \/ Shape(req[s])'
  BY <1>7, <1>12
<1> QED
  BY <1>8, <1>9, <1>10, <1>11, <1>13, <1>14, KeepingStep

\* A grant whose reply a browser waits for has no session yet, and the
\* browser's login has none.
LEMMA AnswerFresh ==
    ASSUME IInv, NEW r \in Req, req[r].pc = "answer", req[r].login \notin Native
    PROVE  /\ req[r].grant \in Grant /\ req[r].login \in Web
           /\ grants[req[r].grant].state # "absent"
           /\ origin[req[r].grant] = req[r].code /\ codes[req[r].code].login = req[r].login
           /\ pending[req[r].login] = "back"
           /\ bff[req[r].grant].state = "none"
           /\ \A g \in Grant : bff[g].login # req[r].login
           /\ \A s \in Req \ {r} : req[s].pc \in TokenPc => req[s].login # req[r].login
<1> PICK old \in Slot : req[r] = old
  BY DEF IInv, TypeOK
<1>1. /\ old.grant \in Grant /\ old.login \in Web /\ grants[old.grant].state # "absent"
      /\ origin[old.grant] = old.code /\ codes[old.code].login = old.login
      /\ pending[old.login] = "back"
  BY DEF IInv, Requests, Shape, TokenPc, Web
<1>2. \A g \in Grant : bff[g].login # old.login
  BY DEF IInv, Alone, TokenPc
<1>3. \A s \in Req \ {r} : req[s].pc \in TokenPc => req[s].login # old.login
  BY DEF IInv, Alone, TokenPc
<1>4. bff[old.grant].state = "none"
  BY <1>1, <1>2 DEF IInv, Grants
<1> QED
  BY <1>1, <1>2, <1>3, <1>4

LEMMA TokenAnswerStep == ASSUME IInv, NEW r \in Req, TokenAnswer(r) PROVE IInv' /\ Keeps
<1> PICK old \in Slot : req[r] = old
  BY DEF IInv, TypeOK
<1> DEFINE g == old.grant
           l == old.login
           row == [state |-> "live", login |-> l]
<1>1. /\ old.pc = "answer" /\ Finish(r)
      /\ UNCHANGED <<pending, txns, pcodes, codes, accounts, grants, firstTry, origin>>
  BY DEF TokenAnswer, store
<1>2. CASE old.waiting /\ l \notin Native
  <2>1. /\ g \in Grant /\ l \in Web /\ grants[g].state # "absent"
        /\ origin[g] = old.code /\ codes[old.code].login = l /\ pending[l] = "back"
        /\ bff[g].state = "none"
        /\ \A h \in Grant : bff[h].login # l
        /\ \A s \in Req \ {r} : req[s].pc \in TokenPc => req[s].login # l
    BY <1>1, <1>2, AnswerFresh
  <2>2. row \in BffSession /\ row.state = "live" /\ row.login = l
    BY <2>1 DEF BffSession, Web
  <2>3. bff' = [bff EXCEPT ![g] = row]
    BY <1>2 DEF TokenAnswer
  <2> HIDE DEF row
  <2>4. bff' \in [Grant -> BffSession] /\ bff'[g] = row /\ \A h \in Grant \ {g} : bff'[h] = bff[h]
    BY <2>1, <2>2, <2>3 DEF IInv, TypeOK
  <2>5. \A s \in Req : req'[s] = IF s = r THEN Idle ELSE req[s]
    BY <1>1 DEF Finish, IInv, TypeOK
  <2>6. Keeps
    BY <1>1 DEF Keeps
  <2>7. TypeOK'
    BY <1>1, <2>4, IdleSlot DEF Finish, IInv, TypeOK
  <2>8. Values'
    BY <1>1, <2>6, <2>7, ValuesKept
  <2>9. Grants'
    <3> SUFFICES ASSUME NEW h \in Grant
                 PROVE  /\ grants[h].state = "absent" => origin[h] = NoCode /\ bff'[h].state = "none"
                        /\ grants[h].state # "absent" =>
                               /\ origin[h] \in Code /\ codes[origin[h]].state = "spent"
                               /\ grants[h].user = codes[origin[h]].account
                               /\ firstTry[origin[h]] = codes[origin[h]].login
                        /\ bff'[h].state = "none" => bff'[h].login = NoLogin
                        /\ bff'[h].state # "none" =>
                               /\ bff'[h].login \in Web /\ pending[bff'[h].login] = "back"
                               /\ bff'[h].login = codes[origin[h]].login
                        /\ bff'[h].state = "ended" => grants[h].state = "consumed"
      BY <1>1 DEF Grants
    <3>1. CASE h = g
      BY <2>1, <2>2, <2>4, <3>1 DEF IInv, Grants
    <3>2. CASE h # g
      BY <2>4, <3>2 DEF IInv, Grants
    <3> QED
      BY <3>1, <3>2
  <2>10. Alone'
    <3>1. Idle.pc \notin TokenPc /\ Idle.pc \notin RedeemPc /\ RedeemPc \subseteq TokenPc
      BY DEF Idle, TokenPc, RedeemPc
    <3>2. \A s, t \in Req : req'[s].pc \in TokenPc /\ req'[t].pc \in TokenPc
                           /\ req'[s].login = req'[t].login => s = t \/ req'[s].login \in Native
      BY <2>5, <3>1 DEF IInv, Alone
    <3>3. \A s \in Req, h \in Grant : req'[s].pc \in TokenPc => bff'[h].login # req'[s].login
      BY <2>1, <2>2, <2>4, <2>5, <3>1 DEF IInv, Alone
    <3>4. \A h, i \in Grant : bff'[h].login = bff'[i].login => h = i \/ bff'[h].login = NoLogin
      BY <2>1, <2>2, <2>4 DEF IInv, Alone
    <3>5. /\ \A s, t \in Req : req'[s].pc \in RedeemPc /\ req'[t].pc \in RedeemPc
                                /\ req'[s].code = req'[t].code => s = t
          /\ \A s \in Req, h \in Grant : req'[s].pc \in RedeemPc => origin'[h] # req'[s].code
      BY <1>1, <2>5, <3>1 DEF IInv, Alone
    <3> QED
      BY <1>1, <3>2, <3>3, <3>4, <3>5 DEF IInv, Alone
  <2>11. \A s \in Req : req'[s] = req[s] \/ Shape(req[s])'
    BY <2>5, IdleSlot
  <2> QED
    BY <2>6, <2>7, <2>8, <2>9, <2>10, <2>11, KeepingStep
<1>3. CASE ~(old.waiting /\ l \notin Native)
  BY <1>1, <1>3, EndStep DEF TokenAnswer, store, IInv, TypeOK
<1> QED
  BY <1>2, <1>3

LEMMA GiveUpStep == ASSUME IInv, NEW r \in Req, GiveUp(r) PROVE IInv' /\ Keeps
<1> PICK old \in Slot : req[r] = old
  BY DEF IInv, TypeOK
<1>1. Shape(old) /\ UNCHANGED <<store, accounts, grants, bff, firstTry, origin>>
  BY DEF GiveUp, IInv, Requests
<1> DEFINE q == [old EXCEPT !.waiting = FALSE]
<1>2. /\ q \in Slot /\ q.pc = old.pc /\ q.txn = old.txn /\ q.pcode = old.pcode
      /\ q.code = old.code /\ q.login = old.login /\ q.grant = old.grant
  BY DEF Slot
<1>3. req' = [req EXCEPT ![r] = q]
  BY DEF GiveUp
<1> HIDE DEF q
<1>4. Shape(q)
  BY <1>1, <1>2 DEF Shape
<1>5. Alone'
  BY <1>1, <1>2, <1>3, AloneKept
<1> QED
  BY <1>1, <1>2, <1>3, <1>4, <1>5, SlotStep DEF IInv, TypeOK

-----------------------------------------------------------------------------
LEMMA LogoutStep ==
    ASSUME IInv, NEW r \in Req, NEW g \in Grant, Logout(r, g) PROVE IInv' /\ Keeps
<1> DEFINE q == [Idle EXCEPT !.pc = "revoke", !.grant = g]
<1>1. q \in Slot /\ q.pc = "revoke" /\ q.grant = g
  BY IdleSlot DEF Slot, Idle, LogoutPc
<1>2. req' = [req EXCEPT ![r] = q] /\ UNCHANGED <<store, accounts, grants, bff, firstTry, origin>>
  BY DEF Logout
<1> HIDE DEF q
<1>3. grants[g].state # "absent"
  BY DEF Logout, IInv, Grants
<1>4. Shape(q)
  BY <1>1, <1>3 DEF Shape, TokenPc
<1>5. Alone'
  BY <1>1, <1>2, AloneKept DEF TokenPc, RedeemPc
<1> QED
  BY <1>1, <1>2, <1>4, <1>5, SlotStep DEF IInv, TypeOK

\* Grants are consumed, and at most one request moves.
LEMMA ConsumeStep ==
    ASSUME IInv, UNCHANGED <<store, bff, firstTry, origin>>,
           accounts' \in [Account -> UserRow],
           grants' \in [Grant -> [state: {"absent", "live", "consumed"},
                                  user: Account \cup {NoAccount}]],
           \A g \in Grant : \/ grants'[g] = grants[g]
                            \/ /\ grants[g].state = "live" /\ grants'[g].state = "consumed"
                               /\ grants'[g].user = grants[g].user,
           req' \in [Req -> Slot], \A s \in Req : req'[s] = req[s] \/ Shape(req[s])', Alone'
    PROVE  IInv' /\ Keeps
<1> USE DEF store
<1>1. Keeps
  BY DEF Keeps
<1>2. TypeOK'
  BY DEF IInv, TypeOK
<1>3. Values'
  BY <1>1, <1>2, ValuesKept
<1>4. Grants'
  BY <1>1, GrantsKept
<1> QED
  BY <1>1, <1>2, <1>3, <1>4, KeepingStep

LEMMA RevokeStep == ASSUME IInv, NEW r \in Req, Revoke(r) PROVE IInv' /\ Keeps
<1> PICK old \in Slot : req[r] = old
  BY DEF IInv, TypeOK
<1> PICK g \in Grant : g = old.grant
  BY DEF Revoke, IInv, Requests, Shape, LogoutPc
<1> PICK row : grants[g] = row
  OBVIOUS
<1>1. row.state \in {"live", "consumed"} /\ row.user \in Account \cup {NoAccount}
      /\ old.pc = "revoke" /\ UNCHANGED <<store, bff, firstTry, origin>>
  BY DEF Revoke, IInv, TypeOK, Requests, Shape, LogoutPc
<1>2. accounts' = accounts
  BY DEF Revoke, Ledger!Logout
<1> DEFINE dead == [state |-> "consumed", user |-> row.user]
<1>3. dead \in [state: {"absent", "live", "consumed"}, user: Account \cup {NoAccount}]
      /\ dead.state = "consumed" /\ dead.user = row.user
  BY <1>1
<1>4. grants' = [grants EXCEPT ![g] = dead] \/ (grants' = grants /\ row.state = "consumed")
  BY <1>1 DEF Revoke, Ledger!Logout, Ledger!Consumed
<1> HIDE DEF dead
<1>5. /\ grants' \in [Grant -> [state: {"absent", "live", "consumed"}, user: Account \cup {NoAccount}]]
      /\ \A h \in Grant \ {g} : grants'[h] = grants[h]
      /\ grants'[g].state = "consumed" /\ grants'[g].user = row.user
      /\ row.state = "consumed" => grants'[g].state = row.state
  BY <1>3, <1>4 DEF IInv, TypeOK
<1>6. \A h \in Grant : \/ grants'[h] = grants[h]
                       \/ /\ grants[h].state = "live" /\ grants'[h].state = "consumed"
                          /\ grants'[h].user = grants[h].user
  <2>1. CASE row.state = "live"
    BY <1>5, <2>1
  <2>2. CASE row.state # "live"
    BY <1>3, <1>4, <2>2, <1>5 DEF Revoke
  <2> QED
    BY <2>1, <2>2
<1> DEFINE q == [old EXCEPT !.pc = "delete"]
<1>7. q \in Slot /\ q.pc = "delete" /\ q.grant = g
  BY DEF Slot, LogoutPc
<1>8. req' = [req EXCEPT ![r] = q]
  BY DEF Revoke, Advance
<1> HIDE DEF q
<1>9. Shape(q)'
  BY <1>5, <1>7 DEF Shape, TokenPc
<1>10. Alone'
  BY <1>1, <1>7, <1>8, AloneKept DEF TokenPc, RedeemPc
<1>11. req' \in [Req -> Slot] /\ \A s \in Req : req'[s] = req[s] \/ Shape(req[s])'
  BY <1>7, <1>8, <1>9 DEF IInv, TypeOK
<1>12. accounts' \in [Account -> UserRow]
  BY <1>2 DEF IInv, TypeOK
<1> QED
  BY <1>1, <1>5, <1>6, <1>10, <1>11, <1>12, ConsumeStep

LEMMA SuspendStep == ASSUME IInv, NEW a \in Account, Suspend(a) PROVE IInv' /\ Keeps
<1> PICK row \in UserRow : accounts[a] = row
  BY DEF IInv, TypeOK
<1> PICK next \in Nat : next = row.version + 1
  BY DEF UserRow
<1> DEFINE new == [status |-> "suspended", version |-> next, roles |-> row.roles]
<1>1. new \in UserRow
  BY DEF UserRow
<1>2. accounts' = [accounts EXCEPT ![a] = new]
  BY DEF Suspend, Ledger!ChangeAuthorization
<1> HIDE DEF new
<1>3. accounts' \in [Account -> UserRow]
  BY <1>1, <1>2 DEF IInv, TypeOK
<1>4. UNCHANGED <<store, bff, req, firstTry, origin>>
  BY DEF Suspend
<1>5. grants' = [g \in Grant |-> IF grants[g] = [state |-> "live", user |-> a]
                                THEN [state |-> "consumed", user |-> a] ELSE grants[g]]
  BY DEF Suspend, Ledger!ChangeAuthorization, Ledger!Live, Ledger!Consumed
<1>6. /\ grants' \in [Grant -> [state: {"absent", "live", "consumed"}, user: Account \cup {NoAccount}]]
      /\ \A g \in Grant : \/ grants'[g] = grants[g]
                           \/ /\ grants[g].state = "live" /\ grants'[g].state = "consumed"
                              /\ grants'[g].user = grants[g].user
  BY <1>5 DEF IInv, TypeOK
<1>7. Alone'
  BY <1>4 DEF IInv, Alone
<1> QED
  BY <1>3, <1>4, <1>6, <1>7, ConsumeStep DEF IInv, TypeOK

\* A session ends, and at most a request moves.
LEMMA SessionEnds ==
    ASSUME IInv, UNCHANGED <<store, accounts, grants, firstTry, origin>>,
           NEW g \in Grant, NEW state \in {"expired", "ended"}, bff[g].state = "live",
           bff' = [bff EXCEPT ![g].state = state], state = "ended" => grants[g].state = "consumed",
           req' \in [Req -> Slot], \A s \in Req : req'[s] = req[s] \/ Shape(req[s])',
           (\A h \in Grant : bff'[h].login = bff[h].login) => Alone'
    PROVE  IInv' /\ Keeps
<1> USE DEF store
<1> DEFINE row == [bff[g] EXCEPT !.state = state]
<1>1. row \in BffSession /\ row.state = state /\ row.login = bff[g].login
  <2>1. bff[g] \in BffSession
    BY DEF IInv, TypeOK
  <2> QED
    BY <2>1 DEF BffSession
<1>2. bff' = [bff EXCEPT ![g] = row]
  OBVIOUS
<1> HIDE DEF row
<1>3. bff' \in [Grant -> BffSession] /\ bff'[g] = row /\ \A h \in Grant \ {g} : bff'[h] = bff[h]
  BY <1>1, <1>2 DEF IInv, TypeOK
<1>4. Keeps
  BY DEF Keeps
<1>5. TypeOK'
  BY <1>3 DEF IInv, TypeOK
<1>6. Values'
  BY <1>4, <1>5, ValuesKept
<1>7. Grants'
  BY <1>1, <1>3, <1>4, GrantsKept
<1>8. Alone'
  BY <1>1, <1>3
<1> QED
  BY <1>4, <1>5, <1>6, <1>7, <1>8, KeepingStep

LEMMA DeleteStep == ASSUME IInv, NEW r \in Req, Delete(r) PROVE IInv' /\ Keeps
<1> PICK old \in Slot : req[r] = old
  BY DEF IInv, TypeOK
<1> PICK g \in Grant : g = old.grant
  BY DEF Delete, IInv, Requests, Shape, LogoutPc
<1>1. grants[g].state = "consumed" /\ Finish(r) /\ UNCHANGED <<store, accounts, grants, firstTry, origin>>
  BY DEF Delete, IInv, Requests, Shape
<1>2. CASE bff[g].state = "live"
  <2>1. bff' = [bff EXCEPT ![g].state = "ended"]
    BY <1>2 DEF Delete
  <2>2. req' \in [Req -> Slot] /\ \A s \in Req : req'[s] = req[s] \/ Shape(req[s])'
    BY <1>1, IdleSlot DEF Finish, IInv, TypeOK
  <2>3. ASSUME \A h \in Grant : bff'[h].login = bff[h].login PROVE Alone'
    <3>1. Idle.pc \notin TokenPc /\ Idle.pc \notin RedeemPc
      BY DEF Idle, TokenPc, RedeemPc
    <3> QED
      BY <1>1, <2>3, <3>1, IdleSlot, AloneKept DEF Finish
  <2> QED
    BY <1>1, <1>2, <2>1, <2>2, <2>3, SessionEnds
<1>3. CASE bff[g].state # "live"
  BY <1>1, <1>3, EndStep DEF Delete, IInv, TypeOK
<1> QED
  BY <1>2, <1>3

LEMMA CrashStep == ASSUME IInv, NEW r \in Req, Crash(r) PROVE IInv' /\ Keeps
  BY EndStep DEF Crash, IInv, TypeOK

\* A pending login or an authorization code is gone.
LEMMA ExpirePending ==
    ASSUME IInv, NEW l \in Web, pending[l] = "begun", pending' = [pending EXCEPT ![l] = "back"],
           UNCHANGED <<txns, pcodes, codes, bff, accounts, grants, req, firstTry, origin>>
    PROVE  IInv' /\ Keeps
<1>1. /\ pending' \in [Web -> {"none", "begun", "back"}]
      /\ pending'[l] = "back" /\ \A o \in Web \ {l} : pending'[o] = pending[o]
  BY DEF IInv, TypeOK
<1>2. Keeps
  BY <1>1 DEF Keeps
<1>3. TypeOK'
  BY <1>1 DEF IInv, TypeOK
<1>4. Values'
  BY <1>2, <1>3, ValuesKept
<1>5. Grants'
  BY <1>2, GrantsKept
<1>6. Alone'
  BY DEF IInv, Alone
<1> QED
  BY <1>2, <1>3, <1>4, <1>5, <1>6, KeepingStep

LEMMA ExpireCode ==
    ASSUME IInv, NEW c \in Code, codes[c].state = "live", codes' = Take(codes, c),
           UNCHANGED <<pending, txns, pcodes, bff, accounts, grants, req, firstTry, origin>>
    PROVE  IInv' /\ Keeps
<1>1. /\ codes' \in [Code -> CodeGrant]
      /\ \A o \in Code : /\ codes'[o].state = IF o = c THEN "spent" ELSE codes[o].state
                         /\ codes'[o].login = codes[o].login
                         /\ codes'[o].account = codes[o].account
  BY TakenCode
<1>2. Keeps
  BY <1>1 DEF Keeps
<1>3. TypeOK'
  BY <1>1 DEF IInv, TypeOK
<1>4. Values'
  BY <1>1, <1>2, <1>3, ValuesKept
<1>5. Grants'
  BY <1>2, GrantsKept
<1>6. Alone'
  BY DEF IInv, Alone
<1> QED
  BY <1>2, <1>3, <1>4, <1>5, <1>6, KeepingStep

LEMMA ExpireStep == ASSUME IInv, Expire PROVE IInv' /\ Keeps
<1>1. UNCHANGED <<accounts, grants, req, firstTry, origin>> /\ req' \in [Req -> Slot]
      /\ \A s \in Req : req'[s] = req[s]
  BY DEF Expire, IInv, TypeOK
<1>2. ASSUME NEW l \in Web, pending[l] = "begun", pending' = [pending EXCEPT ![l] = "back"],
             UNCHANGED <<txns, pcodes, codes, bff>>
      PROVE  IInv' /\ Keeps
  BY <1>1, <1>2, ExpirePending
<1>3. ASSUME NEW t \in Txn, txns[t].state = "live", txns' = Take(txns, t),
             UNCHANGED <<pending, pcodes, codes, bff>>
      PROVE  IInv' /\ Keeps
  <2>1. Alone'
    BY <1>1, <1>3 DEF IInv, Alone
  <2> QED
    BY <1>1, <1>3, <2>1, TakeStep
<1>4. ASSUME NEW p \in PCode, pcodes[p].state = "live", pcodes' = Take(pcodes, p),
             UNCHANGED <<pending, txns, codes, bff>>
      PROVE  IInv' /\ Keeps
  <2>1. Alone'
    BY <1>1, <1>4 DEF IInv, Alone
  <2> QED
    BY <1>1, <1>4, <2>1, TakeStep
<1>5. ASSUME NEW c \in Code, codes[c].state = "live", codes' = Take(codes, c),
             UNCHANGED <<pending, txns, pcodes, bff>>
      PROVE  IInv' /\ Keeps
  BY <1>1, <1>5, ExpireCode
<1>6. ASSUME NEW g \in Grant, bff[g].state = "live", bff' = [bff EXCEPT ![g].state = "expired"],
             UNCHANGED store
      PROVE  IInv' /\ Keeps
  <2>1. ASSUME \A h \in Grant : bff'[h].login = bff[h].login PROVE Alone'
    BY <1>1, <2>1 DEF IInv, Alone
  <2> QED
    BY <1>1, <1>6, <2>1, SessionEnds
<1> QED
  BY <1>2, <1>3, <1>4, <1>5, <1>6 DEF Expire

-----------------------------------------------------------------------------
LEMMA InitIInv == Init => IInv
<1> SUFFICES ASSUME Init PROVE IInv
  OBVIOUS
<1>1. TypeOK
  BY IdleSlot DEF Init, TypeOK, OAuthTransaction, ProviderResult, CodeGrant, Value, BffSession,
                  UserRow, Ledger!Undrawn
<1>2. Values
  BY DEF Init, Values
<1>3. Grants
  BY DEF Init, Grants, Ledger!Undrawn
<1>4. Requests
  BY IdleSlot DEF Init, Requests
<1>5. Alone
  BY DEF Init, Alone, Idle, TokenPc, RedeemPc
<1> QED
  BY <1>1, <1>2, <1>3, <1>4, <1>5 DEF IInv

LEMMA NextKeeps == ASSUME IInv, [Next]_vars PROVE IInv' /\ Keeps
<1>1. CASE UNCHANGED vars
  <2> USE <1>1 DEF vars, store
  <2>1. TypeOK' /\ Values' /\ Grants' /\ Alone'
    BY DEF IInv, TypeOK, Values, Proven, Grants, Alone
  <2>2. Keeps
    BY DEF Keeps
  <2> QED
    BY <2>1, <2>2, KeepingStep
<1>2. CASE Browser
  BY <1>2, BeginStep, AuthorizeStep, FakeAuthorizeStep DEF Browser
<1>3. CASE \E r \in Req : Start(r) \/ Step(r) \/ GiveUp(r) \/ Crash(r)
  <2> PICK r \in Req : Start(r) \/ Step(r) \/ GiveUp(r) \/ Crash(r)
    BY <1>3
  <2>1. CASE Start(r)
    BY <2>1, ProviderCallbackStep, BffCallbackStep, NativeExchangeStep, LogoutStep DEF Start
  <2>2. CASE Step(r)
    BY <2>2, ProviderExchangeStep, UserReadStep, UserInsertStep, PutCodeStep, TokenTakeStep,
       TokenReadStep, TokenAnswerStep, TokenCommitStep, RevokeStep, DeleteStep DEF Step
  <2> QED
    BY <2>1, <2>2, GiveUpStep, CrashStep
<1>4. CASE Expire
  BY <1>4, ExpireStep
<1>5. CASE \E a \in Account : Suspend(a)
  BY <1>5, SuspendStep
<1> QED
  BY <1>1, <1>2, <1>3, <1>4, <1>5 DEF Next

\* The inductive invariant: what the one-time values, the grants, the sessions
\* and the requests say of each other.
THEOREM Invariance == Spec => []IInv
<1>1. IInv /\ [Next]_vars => IInv'
  BY NextKeeps
<1> QED
  BY InitIInv, <1>1, PTL DEF Spec

\* TypeOK: every variable keeps its type, so a handler never follows a reference
\* that was not drawn.
THEOREM TypeCorrect == Spec => []TypeOK
<1>1. IInv => TypeOK
  BY DEF IInv
<1> QED
  BY <1>1, Invariance, PTL

\* SessionMatchesLogin: a BFF session is for an account that the provider
\* authenticated in a transaction of the session's own login (provider_callback
\* and the PKCE check of /oauth/token).
THEOREM SessionsMatchLogins == Spec => []SessionMatchesLogin
<1>1. IInv => SessionMatchesLogin
  <2> SUFFICES ASSUME IInv, NEW g \in Grant, bff[g].state # "none"
               PROVE  \E p \in PCode : /\ pcodes[p].state = "spent"
                                       /\ pcodes[p].account = grants[g].user
                                       /\ txns[pcodes[p].txn].login = bff[g].login
    BY DEF SessionMatchesLogin
  <2>1. /\ origin[g] \in Code /\ codes[origin[g]].state = "spent"
        /\ grants[g].user = codes[origin[g]].account
        /\ bff[g].login = codes[origin[g]].login
    BY DEF IInv, Grants
  <2>2. Proven(codes[origin[g]].account, codes[origin[g]].login)
    BY <2>1 DEF IInv, Values
  <2> QED
    BY <2>1, <2>2 DEF Proven
<1> QED
  BY <1>1, Invariance, PTL

\* CodeSpentByFirstUse: a code yields at most one grant, and only to the verifier
\* it was first presented with (/oauth/token takes it before it compares).
THEOREM CodesSpentOnce == Spec => []CodeSpentByFirstUse
<1>1. IInv => CodeSpentByFirstUse
  BY DEF IInv, TypeOK, Grants, Alone, CodeSpentByFirstUse
<1> QED
  BY <1>1, Invariance, PTL

\* LogoutRevokes: a session that was logged out has no live refresh token (the
\* BFF deletes it after the SSO has answered).
THEOREM LogoutsRevoke == Spec => []LogoutRevokes
<1>1. IInv => LogoutRevokes
  BY DEF IInv, Grants, LogoutRevokes
<1> QED
  BY <1>1, Invariance, PTL

\* The only statements of the flow that write an account.
LEMMA AccountWrites ==
    ASSUME [Next]_vars
    PROVE  \/ UNCHANGED accounts
           \/ \E r \in Req : UserInsert(r)
           \/ \E a \in Account : Suspend(a)
  BY DEF Next, vars, Browser, Begin, Authorize, FakeAuthorize, Start, ProviderCallback,
         BffCallback, NativeExchange, Logout, Step, ProviderExchange, UserRead, PutCode,
         TokenTake, TokenRead, TokenCommit, TokenAnswer, Revoke, Delete, GiveUp, Crash, Expire,
         Ledger!Issue, Ledger!Logout

\* LoginNeverReactivates: no login makes a suspended account active again
\* (_oauth_user inserts and never updates).
THEOREM LoginsNeverReactivate == Spec => LoginNeverReactivates
<1>1. ASSUME IInv, [Next]_vars, NEW a \in Account, accounts[a].status = "suspended"
      PROVE  accounts'[a].status = "suspended"
  <2>1. CASE UNCHANGED accounts
    BY <1>1, <2>1
  <2>2. ASSUME NEW r \in Req, UserInsert(r) PROVE accounts'[a].status = "suspended"
    <3>1. CASE accounts[Subject(r)].status = "absent"
      BY <1>1, <2>2, <3>1 DEF UserInsert, IInv, TypeOK
    <3>2. CASE accounts[Subject(r)].status # "absent"
      BY <1>1, <2>2, <3>2 DEF UserInsert
    <3> QED
      BY <3>1, <3>2
  <2>3. ASSUME NEW b \in Account, Suspend(b) PROVE accounts'[a].status = "suspended"
    BY <1>1, <2>3 DEF Suspend, Ledger!ChangeAuthorization, IInv, TypeOK
  <2> QED
    BY <1>1, <2>1, <2>2, <2>3, AccountWrites
<1>2. IInv /\ [Next]_vars =>
          [\A a \in Account : accounts[a].status = "suspended" =>
                              accounts'[a].status = "suspended"]_vars
  BY <1>1
<1> QED
  BY <1>2, Invariance, PTL DEF Spec, LoginNeverReactivates

-----------------------------------------------------------------------------
\* What LoginPromise sees of the values and of the sessions.
Authenticated ==
    [l \in Web |-> {pcodes[p].account : p \in {q \in PCode : /\ q \in Drawn(pcodes)
                                                           /\ txns[pcodes[q].txn].login = l}}]

Opened ==
    [g \in Grant |-> [state |-> bff[g].state, login |-> bff[g].login,
                      account |-> IF bff[g].state = "none" THEN NoAccount ELSE grants[g].user]]

LEMMA InAuthenticated ==
    ASSUME IInv, NEW l \in Web, NEW a
    PROVE  a \in Authenticated[l] <=>
               \E p \in PCode : /\ pcodes[p].state # "absent" /\ pcodes[p].account = a
                                /\ txns[pcodes[p].txn].login = l
<1>1. DOMAIN pcodes = PCode
  BY DEF IInv, TypeOK
<1> QED
  BY <1>1 DEF Authenticated, Drawn

LEMMA AuthenticatedKept ==
    ASSUME IInv, IInv', Keeps,
           \A p \in PCode : pcodes'[p].state # "absent" => pcodes[p].state # "absent"
    PROVE  Authenticated' = Authenticated
<1>1. ASSUME NEW p \in PCode
      PROVE  /\ pcodes'[p].state # "absent" <=> pcodes[p].state # "absent"
             /\ pcodes[p].state # "absent" =>
                    /\ pcodes'[p].account = pcodes[p].account
                    /\ txns'[pcodes'[p].txn].login = txns[pcodes[p].txn].login
  BY DEF IInv, Values, Keeps
<1>2. DOMAIN pcodes = PCode /\ DOMAIN pcodes' = PCode
  BY DEF IInv, TypeOK
<1>3. ASSUME NEW l \in Web
      PROVE  {pcodes[p].account : p \in {q \in PCode : /\ q \in Drawn(pcodes)
                                                       /\ txns[pcodes[q].txn].login = l}}'
             = {pcodes[p].account : p \in {q \in PCode : /\ q \in Drawn(pcodes)
                                                        /\ txns[pcodes[q].txn].login = l}}
  BY <1>1, <1>2 DEF Drawn
<1> QED
  BY <1>3 DEF Authenticated

LEMMA OpenedKept ==
    ASSUME IInv, Keeps, NEW g \in Grant, bff'[g] = bff[g]
    PROVE  Opened'[g] = Opened[g]
<1>1. bff[g].state # "none" => grants'[g].user = grants[g].user
  BY DEF IInv, Grants, Keeps
<1> QED
  BY <1>1 DEF Opened

LEMMA AllOpenedKept == ASSUME IInv, Keeps, bff' = bff PROVE Opened' = Opened
  BY OpenedKept DEF Opened

\* The steps of LoginPromise, said of what it sees.
LEMMA PromiseStutter ==
    ASSUME pending' = pending, Authenticated' = Authenticated, Opened' = Opened
    PROVE  [Promise!Next]_(Promise!vars)
  BY DEF Promise!vars, Authenticated, Opened

LEMMA PromiseBegin ==
    ASSUME NEW l \in Web, pending[l] = "none", pending' = [pending EXCEPT ![l] = "begun"],
           Authenticated' = Authenticated, Opened' = Opened
    PROVE  Promise!Next
<1>1. Promise!Begin(l)
  BY DEF Promise!Begin, Authenticated, Opened
<1> QED
  BY <1>1 DEF Promise!Next

LEMMA PromiseReturn ==
    ASSUME NEW l \in Web, pending[l] = "begun", pending' = [pending EXCEPT ![l] = "back"],
           Authenticated' = Authenticated, Opened' = Opened
    PROVE  Promise!Next
<1>1. Promise!Return(l)
  BY DEF Promise!Return, Authenticated, Opened
<1> QED
  BY <1>1 DEF Promise!Next

LEMMA PromiseProve ==
    ASSUME NEW l \in Web, NEW a \in Account, pending[l] # "none", pending' = pending,
           Authenticated' = [Authenticated EXCEPT ![l] = @ \cup {a}], Opened' = Opened
    PROVE  Promise!Next
<1>1. Promise!Prove(l, a)
  BY DEF Promise!Prove, Authenticated, Opened
<1> QED
  BY <1>1 DEF Promise!Next

LEMMA PromiseOpen ==
    ASSUME NEW g \in Grant, NEW l \in Web, NEW a \in Account,
           pending[l] = "back", a \in Authenticated[l],
           \A h \in Grant : Opened[h].login # l,
           Opened[g] = [state |-> "none", login |-> NoLogin, account |-> NoAccount],
           Opened' = [Opened EXCEPT ![g] = [state |-> "live", login |-> l, account |-> a]],
           pending' = pending, Authenticated' = Authenticated
    PROVE  Promise!Next
<1>1. Promise!Open(g, l, a)
  BY DEF Promise!Open, Promise!NoSession, Authenticated, Opened
<1> QED
  BY <1>1 DEF Promise!Next

LEMMA PromiseClose ==
    ASSUME NEW g \in Grant, NEW how \in {"ended", "expired"}, Opened[g].state = "live",
           Opened' = [Opened EXCEPT ![g].state = how],
           pending' = pending, Authenticated' = Authenticated
    PROVE  Promise!Next
<1>1. Promise!Close(g, how)
  BY DEF Promise!Close, Authenticated, Opened
<1> QED
  BY <1>1 DEF Promise!Next

-----------------------------------------------------------------------------
LEMMA AuthorizationProves ==
    ASSUME IInv, IInv', Keeps, NEW t \in Txn, NEW a \in Account, NEW p \in PCode,
           FakeAuthorize(t, a, p)
    PROVE  [Promise!Next]_(Promise!vars)
<1> DEFINE l == txns[t].login
<1>1. /\ txns[t].state # "absent" /\ l \in Login
      /\ l \in Web => pending[l] # "none"
  BY DEF FakeAuthorize, Drawn, IInv, Values
<1>2. /\ UNCHANGED <<pending, txns, bff>> /\ pcodes[p].state = "absent"
      /\ pcodes'[p].state = "live" /\ pcodes'[p].txn = t /\ pcodes'[p].account = a
      /\ \A o \in PCode \ {p} : pcodes'[o] = pcodes[o]
  BY DEF FakeAuthorize, IInv, TypeOK
<1>3. Opened' = Opened
  BY <1>2, AllOpenedKept
<1>4. DOMAIN pcodes = PCode /\ DOMAIN pcodes' = PCode
  BY DEF IInv, TypeOK
<1>5. ASSUME NEW m \in Web
      PROVE  {pcodes[o].account : o \in {q \in PCode : /\ q \in Drawn(pcodes)
                                                       /\ txns[pcodes[q].txn].login = m}}'
             = {pcodes[o].account : o \in {q \in PCode : /\ q \in Drawn(pcodes)
                                                        /\ txns[pcodes[q].txn].login = m}}
               \cup IF m = l THEN {a} ELSE {}
  BY <1>2, <1>4 DEF Drawn
<1>6. CASE l \in Web
  <2>1. Authenticated' = [Authenticated EXCEPT ![l] = @ \cup {a}]
    BY <1>5, <1>6 DEF Authenticated
  <2> QED
    BY <1>1, <1>2, <1>3, <1>6, <2>1, PromiseProve
<1>7. CASE l \notin Web
  <2>1. Authenticated' = Authenticated
    BY <1>5, <1>7 DEF Authenticated
  <2> QED
    BY <1>2, <1>3, <2>1, PromiseStutter
<1> QED
  BY <1>6, <1>7

LEMMA AnswerOpens ==
    ASSUME IInv, IInv', Keeps, NEW r \in Req, TokenAnswer(r)
    PROVE  [Promise!Next]_(Promise!vars)
<1> PICK old \in Slot : req[r] = old
  BY DEF IInv, TypeOK
<1> DEFINE g == old.grant
           l == old.login
<1>1. old.pc = "answer" /\ UNCHANGED <<pending, txns, pcodes, codes, grants>>
  BY DEF TokenAnswer, store
<1>2. Authenticated' = Authenticated
  BY <1>1, AuthenticatedKept
<1>3. CASE old.waiting /\ l \notin Native
  <2>1. /\ g \in Grant /\ l \in Web /\ grants[g].state # "absent"
        /\ origin[g] = old.code /\ codes[old.code].login = l /\ pending[l] = "back"
        /\ bff[g].state = "none"
        /\ \A h \in Grant : bff[h].login # l
    BY <1>1, <1>3, AnswerFresh
  <2>2. bff' = [bff EXCEPT ![g] = [state |-> "live", login |-> l]]
    BY <1>3 DEF TokenAnswer
  <2> PICK a \in Account : a = grants[g].user /\ Proven(a, l)
    BY <2>1 DEF IInv, Grants, Values
  <2>3. a \in Authenticated[l]
    BY <2>1, InAuthenticated DEF Proven
  <2>4. bff[g].login = NoLogin
    BY <2>1 DEF IInv, Grants
  <2>5. Opened[g] = [state |-> "none", login |-> NoLogin, account |-> NoAccount]
    BY <2>1, <2>4 DEF Opened
  <2>6. \A h \in Grant : Opened[h].login # l
    BY <2>1 DEF Opened
  <2>7. Opened' = [Opened EXCEPT ![g] = [state |-> "live", login |-> l, account |-> a]]
    BY <1>1, <2>1, <2>2 DEF Opened, IInv, TypeOK
  <2> QED
    BY <1>1, <1>2, <2>1, <2>3, <2>5, <2>6, <2>7, PromiseOpen
<1>4. CASE ~(old.waiting /\ l \notin Native)
  BY <1>1, <1>2, <1>4, AllOpenedKept, PromiseStutter DEF TokenAnswer
<1> QED
  BY <1>3, <1>4

LEMMA EndingCloses ==
    ASSUME IInv, IInv', Keeps, UNCHANGED <<pending, pcodes, grants>>,
           NEW g \in Grant, NEW how \in {"ended", "expired"}, bff[g].state = "live",
           bff' = [bff EXCEPT ![g].state = how]
    PROVE  Promise!Next
<1>1. Authenticated' = Authenticated
  BY AuthenticatedKept
<1>2. Opened[g].state = "live"
  BY DEF Opened
<1>3. bff[g] \in BffSession
  BY DEF IInv, TypeOK
<1>4. bff'[g].state = how /\ bff'[g].login = bff[g].login /\ \A h \in Grant \ {g} : bff'[h] = bff[h]
  BY <1>3 DEF IInv, TypeOK, BffSession
<1>5. Opened'[g] = [Opened[g] EXCEPT !.state = how]
  BY <1>4 DEF Opened
<1>6. \A h \in Grant \ {g} : Opened'[h] = Opened[h]
  BY <1>4, OpenedKept
<1>7. Opened = [h \in Grant |-> Opened[h]] /\ Opened' = [h \in Grant |-> Opened'[h]]
  BY DEF Opened
<1>8. Opened' = [Opened EXCEPT ![g].state = how]
  BY <1>5, <1>6, <1>7
<1> QED
  BY <1>1, <1>2, <1>8, PromiseClose

LEMMA ReturnReturns ==
    ASSUME IInv, IInv', Keeps, UNCHANGED <<pcodes, bff>>,
           NEW l \in Web, pending[l] = "begun", pending' = [pending EXCEPT ![l] = "back"]
    PROVE  Promise!Next
  BY AuthenticatedKept, AllOpenedKept, PromiseReturn

LEMMA ExpiryReturnsOrCloses ==
    ASSUME IInv, IInv', Keeps, Expire PROVE [Promise!Next]_(Promise!vars)
<1>1. grants' = grants
  BY DEF Expire
<1>2. ASSUME NEW l \in Web, pending[l] = "begun", pending' = [pending EXCEPT ![l] = "back"],
             UNCHANGED <<txns, pcodes, codes, bff>>
      PROVE  Promise!Next
  BY <1>2, ReturnReturns
<1>3. ASSUME UNCHANGED <<pending, bff>>,
             pcodes' = pcodes \/ \E p \in PCode : pcodes[p].state = "live" /\ pcodes' = Take(pcodes, p)
      PROVE  [Promise!Next]_(Promise!vars)
  <2>1. \A p \in PCode : pcodes'[p].state # "absent" => pcodes[p].state # "absent"
    BY <1>3 DEF Take, IInv, TypeOK
  <2> QED
    BY <1>3, <2>1, AuthenticatedKept, AllOpenedKept, PromiseStutter
<1>4. ASSUME NEW g \in Grant, bff[g].state = "live", bff' = [bff EXCEPT ![g].state = "expired"],
             UNCHANGED store
      PROVE  Promise!Next
  BY <1>1, <1>4, EndingCloses DEF store
<1> QED
  BY <1>2, <1>3, <1>4 DEF Expire

\* The steps that LoginPromise can see.
LEMMA SeenSteps ==
    ASSUME [Next]_vars
    PROVE  \/ UNCHANGED <<pending, pcodes, bff>>
           \/ \E l \in Web : Begin(l)
           \/ \E t \in Txn, a \in Account, p \in PCode : FakeAuthorize(t, a, p)
           \/ \E r \in Req : \/ ProviderExchange(r) \/ TokenAnswer(r) \/ Delete(r)
                            \/ \E l \in Web, c \in Code : BffCallback(r, l, c)
           \/ Expire
  BY DEF Next, vars, store, Browser, Authorize, Start, ProviderCallback, NativeExchange, Logout,
         Step, UserRead, UserInsert, PutCode, TokenTake, TokenRead, TokenCommit, Revoke, GiveUp,
         Crash, Suspend

LEMMA PromiseNext == ASSUME IInv, [Next]_vars PROVE [Promise!Next]_(Promise!vars)
<1>1. IInv' /\ Keeps
  BY NextKeeps
<1>2. CASE UNCHANGED <<pending, pcodes, bff>>
  BY <1>1, <1>2, AuthenticatedKept, AllOpenedKept, PromiseStutter
<1>3. ASSUME NEW l \in Web, Begin(l) PROVE [Promise!Next]_(Promise!vars)
  BY <1>1, <1>3, AuthenticatedKept, AllOpenedKept, PromiseBegin DEF Begin
<1>4. ASSUME NEW t \in Txn, NEW a \in Account, NEW p \in PCode, FakeAuthorize(t, a, p)
      PROVE  [Promise!Next]_(Promise!vars)
  BY <1>1, <1>4, AuthorizationProves
<1>5. ASSUME NEW r \in Req, ProviderExchange(r) PROVE [Promise!Next]_(Promise!vars)
  <2>1. req[r].pcode \in PCode /\ pcodes[req[r].pcode].state # "absent"
    BY <1>5 DEF ProviderExchange, IInv, Requests, Shape
  <2>2. pcodes' = Take(pcodes, req[r].pcode) /\ UNCHANGED <<pending, bff>>
    BY <1>5 DEF ProviderExchange
  <2>3. \A p \in PCode : pcodes'[p].state # "absent" => pcodes[p].state # "absent"
    BY <2>1, <2>2, TakenPCode
  <2> QED
    BY <1>1, <2>2, <2>3, AuthenticatedKept, AllOpenedKept, PromiseStutter
<1>6. ASSUME NEW r \in Req, TokenAnswer(r) PROVE [Promise!Next]_(Promise!vars)
  BY <1>1, <1>6, AnswerOpens
<1>7. ASSUME NEW r \in Req, Delete(r) PROVE [Promise!Next]_(Promise!vars)
  <2>1. req[r].grant \in Grant /\ UNCHANGED <<pending, pcodes, grants>>
    BY <1>7 DEF Delete, store, IInv, Requests, Shape, LogoutPc
  <2>2. CASE bff[req[r].grant].state = "live"
    BY <1>1, <1>7, <2>1, <2>2, EndingCloses DEF Delete
  <2>3. CASE bff[req[r].grant].state # "live"
    BY <1>1, <1>7, <2>1, <2>3, AuthenticatedKept, AllOpenedKept, PromiseStutter DEF Delete
  <2> QED
    BY <2>2, <2>3
<1>8. ASSUME NEW r \in Req, NEW l \in Web, NEW c \in Code, BffCallback(r, l, c)
      PROVE  [Promise!Next]_(Promise!vars)
  BY <1>1, <1>8, ReturnReturns DEF BffCallback
<1>9. CASE Expire
  BY <1>1, <1>9, ExpiryReturnsOrCloses
<1> QED
  BY <1>2, <1>3, <1>4, <1>5, <1>6, <1>7, <1>8, <1>9, SeenSteps

LEMMA PromiseInit == Init => Promise!Init
<1> SUFFICES ASSUME Init PROVE Promise!Init
  OBVIOUS
<1>1. \A l \in Web : {pcodes[p].account : p \in {q \in PCode : /\ q \in Drawn(pcodes)
                                                            /\ txns[pcodes[q].txn].login = l}} = {}
  BY DEF Init, Drawn
<1> QED
  BY <1>1 DEF Init, Promise!Init, Promise!NoSession

\* ImplementsPromise: value by value, the BFF and the SSO do what LoginPromise says of a browser's
\* login: it comes back at most once, and opens at most one session, for an
\* account authenticated in that login.
THEOREM PromiseImplemented == Spec => ImplementsPromise
<1>1. IInv /\ [Next]_vars => [Promise!Next]_(Promise!vars)
  BY PromiseNext
<1> QED
  BY PromiseInit, Invariance, <1>1, PTL DEF Spec, ImplementsPromise, Promise!Spec
=============================================================================
