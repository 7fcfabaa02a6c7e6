--------------------------- MODULE ExternalLogin ---------------------------
(***************************************************************************)
(* Login with Google, Naver and Kakao: the flow stores in the memory of    *)
(* the SSO process, the callbacks, the table external_identity_links and   *)
(* its removal by the revoke handlers, and the cache of Google's keys.     *)
(*                                                                         *)
(* Between two awaits a coroutine runs alone; an action is what a handler  *)
(* does from one await to the next, or one database statement whose order  *)
(* against other requests matters.  What a provider answers is a choice.   *)
(***************************************************************************)
EXTENDS Naturals

CONSTANTS
    Browser,
    Flow,          \* states that can be drawn, each with its binding and verifier
    Subject,       \* subjects of the providers
    User,          \* ids of users rows that can be drawn
    LocalUser,     \* an account registered with a password
    Key,           \* Google's signing keys
    Req,           \* requests being served at the same time
    NoBrowser, NoFlow, NoSubject, NoUser, NoKey, NoProvider, NoMail

ASSUME LocalUserAssumption == LocalUser \in User
ASSUME NullsAssumption ==
    /\ NoBrowser \notin Browser /\ NoFlow \notin Flow /\ NoSubject \notin Subject
    /\ NoUser \notin User /\ NoKey \notin Key

VARIABLES
    flows,    \* the three FlowStores: each flow with its provider
    cookies,  \* the binding cookie of each browser and provider
    users,    \* committed rows of users
    links,    \* committed rows of external_identity_links
    keys,     \* Google's published keys
    cache,    \* JwksCache: Google's entry
    req       \* what each request slot is doing

vars == <<flows, cookies, users, links, keys, cache, req>>

-----------------------------------------------------------------------------
Provider == {"google", "naver", "kakao"}

\* identity.email, or an address made of the subject; and the one tried next.
Own(s) == [kind |-> "own", of |-> s]
Changed(s) == [kind |-> "changed", of |-> s]
Mail == [kind: {"own", "changed"}, of: Subject]

ASSUME NoMailAssumption == NoMail \notin Mail

\* A flow that is past its 300 s stays in its store but is never accepted again:
\* it is gone.  browser is the one that was given the flow; by and uses are
\* history: the browser that was let in with it, and how often.
ExternalFlow == [state: {"absent", "live", "gone"},
                 provider: Provider \cup {NoProvider}, browser: Browser \cup {NoBrowser},
                 by: Browser \cup {NoBrowser}, uses: 0..2]

\* A row of users that exists has an address.  made is history: the provider
\* and the subject that signed up.
UserRow == [mail: Mail \cup {NoMail},
            made: [provider: Provider \cup {NoProvider}, subject: Subject \cup {NoSubject}]]

\* how is history: who asked for the link.
LinkRow == [user: User, how: {"sign_up", "confirmed"}]

Unlinked == [user |-> NoUser, how |-> "none"]

Pc == {"idle", "exchange", "key", "fetch", "fetched", "unknown_key", "resolve",
       "by_email", "sign_up", "revoke_call"}

Slot == [pc: Pc, provider: Provider \cup {NoProvider}, subject: Subject \cup {NoSubject},
         mail: Mail \cup {NoMail}, key: Key \cup {NoKey}, answer: SUBSET Key]

TypeOK ==
    /\ flows \in [Flow -> ExternalFlow]
    /\ cookies \in [Browser -> [Provider -> Flow \cup {NoFlow}]]
    /\ users \in [User -> UserRow]
    /\ links \in [Provider -> [Subject -> LinkRow \cup {Unlinked}]]
    /\ keys \subseteq Key
    /\ cache \in [fresh: BOOLEAN, keys: SUBSET Key]
    /\ req \in [Req -> Slot]

Idle == [pc |-> "idle", provider |-> NoProvider, subject |-> NoSubject,
         mail |-> NoMail, key |-> NoKey, answer |-> {}]

NoOne == [provider |-> NoProvider, subject |-> NoSubject]

\* The address of the local account is one the providers report, or not.
Init ==
    /\ flows = [f \in Flow |-> [state |-> "absent", provider |-> NoProvider,
                                browser |-> NoBrowser, by |-> NoBrowser, uses |-> 0]]
    /\ cookies = [b \in Browser |-> [p \in Provider |-> NoFlow]]
    /\ \E local \in {Own(s) : s \in Subject} \cup {NoMail} :
          users = [u \in User |-> [mail |-> IF u = LocalUser THEN local ELSE NoMail,
                                   made |-> NoOne]]
    /\ links = [p \in Provider |-> [s \in Subject |-> Unlinked]]
    /\ \E k \in Key : keys = {k}
    /\ cache = [fresh |-> FALSE, keys |-> {}]
    /\ req = [r \in Req |-> Idle]

Advance(r, pc) == req' = [req EXCEPT ![r].pc = pc]

Finish(r) == req' = [req EXCEPT ![r] = Idle]

-----------------------------------------------------------------------------
\* FlowStore.issue, and the cookie with the binding drawn for the flow, which
\* takes the place of the one of an earlier login.
IssueFlow(b, p, f) ==
    /\ flows[f].state = "absent"
    /\ flows' = [flows EXCEPT ![f] = [@ EXCEPT !.state = "live", !.provider = p,
                                               !.browser = b]]
    /\ cookies' = [cookies EXCEPT ![b][p] = f]
    /\ UNCHANGED <<users, links, keys, cache, req>>

\* GET /oauth/google/login (after its discovery has succeeded), naver, kakao.
GoogleLogin(b, f) == IssueFlow(b, "google", f)
NaverLogin(b, f) == IssueFlow(b, "naver", f)
KakaoLogin(b, f) == IssueFlow(b, "kakao", f)

\* Fault: the flow is not removed from the store.
ConsumePeek(b, p, f) ==
    /\ flows[f].state = "live" /\ flows[f].provider = p
    /\ cookies[b][p] = f
    /\ flows' = [flows EXCEPT ![f].by = b, ![f].uses = flows[f].uses + 1]

\* FlowStore.consume: a flow of this store, in time, whose binding the
\* browser's cookie carries.  Every other call raises and removes nothing.
Consume(b, p, f) ==
    /\ flows[f].state = "live" /\ flows[f].provider = p
    /\ cookies[b][p] = f
    /\ flows' = [flows EXCEPT ![f].state = "gone", ![f].by = b,
                              ![f].uses = flows[f].uses + 1]

\* The callbacks of Google and Naver consume the flow and go to the provider.
GoogleCallback(r, b, f) ==
    /\ req[r].pc = "idle"
    /\ Consume(b, "google", f)
    /\ req' = [req EXCEPT ![r] = [Idle EXCEPT !.pc = "exchange", !.provider = "google"]]
    /\ UNCHANGED <<cookies, users, links, keys, cache>>

NaverCallback(r, b, f) ==
    /\ req[r].pc = "idle"
    /\ Consume(b, "naver", f)
    /\ req' = [req EXCEPT ![r] = [Idle EXCEPT !.pc = "exchange", !.provider = "naver"]]
    /\ UNCHANGED <<cookies, users, links, keys, cache>>

\* Kakao's callback consumes the flow, names a variable that was never
\* assigned and raises: the login ends here.
KakaoCallback(b, f) ==
    /\ Consume(b, "kakao", f)
    /\ UNCHANGED <<cookies, users, links, keys, cache, req>>

-----------------------------------------------------------------------------
\* Naver: exchange_code and fetch_identity say who the user is.
NaverExchange(r, s) ==
    /\ req[r].pc = "exchange" /\ req[r].provider = "naver"
    /\ req' = [req EXCEPT ![r] = [@ EXCEPT !.pc = "resolve", !.subject = s]]
    /\ UNCHANGED <<flows, cookies, users, links, keys, cache>>

\* Google: discover and exchange_code return an ID token, signed with a key of
\* the moment.
GoogleExchange(r, s, k) ==
    /\ req[r].pc = "exchange" /\ req[r].provider = "google"
    /\ k \in keys
    /\ req' = [req EXCEPT ![r] = [@ EXCEPT !.pc = "key", !.subject = s, !.key = k]]
    /\ UNCHANGED <<flows, cookies, users, links, keys, cache>>

\* The key of the ID token is found, and not needed any more.
KeyFound(r) == req' = [req EXCEPT ![r] = [@ EXCEPT !.pc = "resolve", !.key = NoKey,
                                                   !.answer = {}]]

\* Fault: a fresh entry has the last word.
CachedKeyFinal(r) ==
    /\ req[r].pc = "key"
    /\ IF ~cache.fresh THEN Advance(r, "fetch")
       ELSE IF req[r].key \in cache.keys THEN KeyFound(r) ELSE Advance(r, "unknown_key")
    /\ UNCHANGED <<flows, cookies, users, links, keys, cache>>

\* JwksCache.key: the entry serves while it is fresh and knows the key.
CachedKey(r) ==
    /\ req[r].pc = "key"
    /\ IF cache.fresh /\ req[r].key \in cache.keys THEN KeyFound(r) ELSE Advance(r, "fetch")
    /\ UNCHANGED <<flows, cookies, users, links, keys, cache>>

\* Otherwise the JWKS is fetched, once: Google answers ...
JwksServed(r) ==
    /\ req[r].pc = "fetch"
    /\ req' = [req EXCEPT ![r] = [@ EXCEPT !.pc = "fetched", !.answer = keys]]
    /\ UNCHANGED <<flows, cookies, users, links, keys, cache>>

\* ... and the answer becomes the entry, whichever is there by now.  Without a
\* max-age it is never fresh.
JwksStored(r, fresh) ==
    /\ req[r].pc = "fetched"
    /\ cache' = [fresh |-> fresh, keys |-> req[r].answer]
    /\ IF req[r].key \in req[r].answer THEN KeyFound(r) ELSE Advance(r, "unknown_key")
    /\ UNCHANGED <<flows, cookies, users, links, keys>>

-----------------------------------------------------------------------------
\* ExternalIdentityLinkRepository.resolve.  A linked account is served its
\* bundle (Sessions).  Google's callback does not sign up: its fallback for an
\* account that is not linked looks for the flow that has been consumed and
\* answers 401.
Resolve(r) ==
    /\ req[r].pc = "resolve"
    /\ IF req[r].provider = "naver" /\ links["naver"][req[r].subject] = Unlinked
       THEN Advance(r, "by_email")
       ELSE Finish(r)
    /\ UNCHANGED <<flows, cookies, users, links, keys, cache>>

Taken(mail) == \E u \in User : users[u].mail = mail

\* _naver_oauth_user: the address to sign up with, read without a lock.
ByEmail(r) ==
    LET s == req[r].subject IN
    /\ req[r].pc = "by_email"
    /\ req' = [req EXCEPT ![r] =
                  [@ EXCEPT !.pc = "sign_up",
                            !.mail = IF Taken(Own(s)) THEN Changed(s) ELSE Own(s)]]
    /\ UNCHANGED <<flows, cookies, users, links, keys, cache>>

\* Fault: the account that has the address is linked, as the unused
\* _google_oauth_user would.
SignUpMerge(r, u) ==
    LET s == req[r].subject IN
    /\ req[r].pc = "sign_up"
    /\ links["naver"][s] = Unlinked
    /\ IF Taken(Own(s))
       THEN /\ users[u].mail = Own(s)
            /\ UNCHANGED users
       ELSE /\ u # LocalUser /\ users[u].mail = NoMail
            /\ users' = [users EXCEPT ![u] = [mail |-> Own(s),
                                              made |-> [provider |-> "naver", subject |-> s]]]
    /\ links' = [links EXCEPT !["naver"][s] = [user |-> u, how |-> "sign_up"]]
    /\ Finish(r)
    /\ UNCHANGED <<flows, cookies, keys, cache>>

\* Fault: the link is written over one that another request has committed.
SignUpUpsert(r, u) ==
    LET s == req[r].subject IN
    /\ req[r].pc = "sign_up"
    /\ u # LocalUser /\ users[u].mail = NoMail /\ ~Taken(req[r].mail)
    /\ users' = [users EXCEPT ![u] = [mail |-> req[r].mail,
                                      made |-> [provider |-> "naver", subject |-> s]]]
    /\ links' = [links EXCEPT !["naver"][s] = [user |-> u, how |-> "sign_up"]]
    /\ Finish(r)
    /\ UNCHANGED <<flows, cookies, keys, cache>>

\* The account, its role and its link are one transaction.  An address or a
\* link that another request has committed raises IntegrityError: nothing is
\* written and the answer is 500.
SignUp(r, u) ==
    LET s == req[r].subject IN
    /\ req[r].pc = "sign_up"
    /\ u # LocalUser /\ users[u].mail = NoMail
    /\ IF Taken(req[r].mail) \/ links["naver"][s] # Unlinked
       THEN UNCHANGED <<users, links>>
       ELSE /\ users' = [users EXCEPT ![u] = [mail |-> req[r].mail,
                                              made |-> [provider |-> "naver", subject |-> s]]]
            /\ links' = [links EXCEPT !["naver"][s] = [user |-> u, how |-> "sign_up"]]
    /\ Finish(r)
    /\ UNCHANGED <<flows, cookies, keys, cache>>

-----------------------------------------------------------------------------
\* ConfirmedAccountLinkService.link, for a user who is logged in.
Link(u, p, s) ==
    /\ u = LocalUser \/ users[u].mail # NoMail
    /\ links[p][s] = Unlinked
    /\ links' = [links EXCEPT ![p][s] = [user |-> u, how |-> "confirmed"]]
    /\ UNCHANGED <<flows, cookies, users, keys, cache, req>>

\* POST /oauth/naver/revoke and /oauth/kakao/revoke: the link of the access
\* token's user is read without a lock and the provider is asked ...
RevokeStart(r, p, s) ==
    /\ req[r].pc = "idle"
    /\ links[p][s] # Unlinked
    /\ req' = [req EXCEPT ![r] = [Idle EXCEPT !.pc = "revoke_call", !.provider = p,
                                              !.subject = s]]
    /\ UNCHANGED <<flows, cookies, users, links, keys, cache>>

NaverRevoke(r, s) == RevokeStart(r, "naver", s)
KakaoRevoke(r, s) == RevokeStart(r, "kakao", s)

\* Fault: the row stays, without its user.
RevokeBlanks(r, p) ==
    /\ req[r].pc = "revoke_call" /\ req[r].provider = p
    /\ links' = [links EXCEPT ![p][req[r].subject].user = NoUser]
    /\ Finish(r)
    /\ UNCHANGED <<flows, cookies, users, keys, cache>>

\* ... and when it agrees the row is deleted by its primary key, the provider
\* and the subject, whoever it links by now.
RevokeDelete(r, p) ==
    /\ req[r].pc = "revoke_call" /\ req[r].provider = p
    /\ links' = [links EXCEPT ![p][req[r].subject] = Unlinked]
    /\ Finish(r)
    /\ UNCHANGED <<flows, cookies, users, keys, cache>>

NaverRevoked(r) == RevokeDelete(r, "naver")
KakaoUnlinked(r) == RevokeDelete(r, "kakao")

-----------------------------------------------------------------------------
\* A provider refuses or cannot be reached, the key is unknown, a transaction
\* fails: the handler raises, and the open transaction is rolled back.
Fail(r) ==
    /\ req[r].pc # "idle"
    /\ Finish(r)
    /\ UNCHANGED <<flows, cookies, users, links, keys, cache>>

\* The process restarts: the flows and the cache are gone.
Restart ==
    /\ req' = [r \in Req |-> Idle]
    /\ flows' = [f \in Flow |-> IF flows[f].state = "live"
                                THEN [flows[f] EXCEPT !.state = "gone"]
                                ELSE flows[f]]
    /\ cache' = [fresh |-> FALSE, keys |-> {}]
    /\ UNCHANGED <<cookies, users, links, keys>>

\* Time passes: a flow is older than its 300 s ...
FlowExpires(f) ==
    /\ flows[f].state = "live"
    /\ flows' = [flows EXCEPT ![f].state = "gone"]
    /\ UNCHANGED <<cookies, users, links, keys, cache, req>>

\* ... or Google's entry is older than its max-age.
EntryExpires ==
    /\ cache.fresh
    /\ cache' = [cache EXCEPT !.fresh = FALSE]
    /\ UNCHANGED <<flows, cookies, users, links, keys, req>>

\* Google publishes its next key, or retires an old one for good.
PublishKey(k) ==
    /\ k \notin keys
    /\ k \notin cache.keys /\ \A r \in Req : k # req[r].key /\ k \notin req[r].answer
    /\ keys' = keys \cup {k}
    /\ UNCHANGED <<flows, cookies, users, links, cache, req>>

RetireKey(k) ==
    /\ k \in keys /\ keys # {k}
    /\ keys' = keys \ {k}
    /\ UNCHANGED <<flows, cookies, users, links, cache, req>>

-----------------------------------------------------------------------------
Start(r) ==
    \/ \E b \in Browser, f \in Flow : GoogleCallback(r, b, f) \/ NaverCallback(r, b, f)
    \/ \E s \in Subject : NaverRevoke(r, s) \/ KakaoRevoke(r, s)

Step(r) ==
    \/ \E s \in Subject : NaverExchange(r, s)
    \/ \E s \in Subject, k \in Key : GoogleExchange(r, s, k)
    \/ CachedKey(r) \/ JwksServed(r)
    \/ \E fresh \in BOOLEAN : JwksStored(r, fresh)
    \/ Resolve(r) \/ ByEmail(r)
    \/ \E u \in User : SignUp(r, u)
    \/ NaverRevoked(r) \/ KakaoUnlinked(r)

Next ==
    \/ \E b \in Browser, f \in Flow :
          GoogleLogin(b, f) \/ NaverLogin(b, f) \/ KakaoLogin(b, f) \/ KakaoCallback(b, f)
    \/ \E r \in Req : Start(r) \/ Step(r) \/ Fail(r)
    \/ \E u \in User, p \in Provider, s \in Subject : Link(u, p, s)
    \/ Restart \/ EntryExpires
    \/ \E f \in Flow : FlowExpires(f)
    \/ \E k \in Key : PublishKey(k) \/ RetireKey(k)

Spec == Init /\ [][Next]_vars
-----------------------------------------------------------------------------
(***************************************************************************)
(* What external login promises.                                           *)
(***************************************************************************)

\* "State is random, short-lived, single-use, and bound to the initiating
\* browser" (ops/EXTERNAL-IDP-CHECKLIST.md): a state logs in at most once, and
\* only the browser it was made for (FlowStore.consume and its callers).
StateSingleUse ==
    \A f \in Flow : /\ flows[f].uses <= 1
                    /\ flows[f].by \in {NoBrowser, flows[f].browser}

\* "Account keys are (provider, subject). Email never performs an automatic
\* merge": an account is linked to the subject that signed it up, or the user
\* has confirmed the link.
LinkedByItsOwner ==
    \A p \in Provider, s \in Subject : links[p][s].how = "sign_up" =>
        users[links[p][s].user].made = [provider |-> p, subject |-> s]

\* A link is made and removed but never moved: a subject that is linked to an
\* account is not linked to another before the link has been revoked, also when
\* first logins of the subject race (_naver_oauth_user).
LinkNeverMoves ==
    [][\A p \in Provider, s \in Subject : links[p][s] # Unlinked =>
          links'[p][s] \in {links[p][s], Unlinked}]_vars

\* An ID token signed with a key that Google still publishes is never refused
\* for its key, however old the entry is that JwksCache holds and however late
\* other requests replace it.
PublishedKeyFound ==
    \A r \in Req : req[r].pc = "unknown_key" => req[r].key \notin keys

\* "If there is no record, the user is signed up and logged in"
\* (naver_login_explain): a subject without a link has an address to sign up
\* with.
SignUpPossible ==
    \A s \in Subject : links["naver"][s] = Unlinked => ~(Taken(Own(s)) /\ Taken(Changed(s)))
=============================================================================
