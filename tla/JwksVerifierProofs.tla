-------------------------- MODULE JwksVerifierProofs --------------------------
(***************************************************************************)
(* The properties of JwksVerifier, for any number of requests, keys and    *)
(* accounts and for all lifetimes.                                         *)
(*                                                                         *)
(* The argument has two layers.  IInv says how old what is cached, and     *)
(* what a coroutine carries over an await, can be: a document, a status    *)
(* and a key that was missing were true of the service when the await      *)
(* began, at most Delay ago.  Line says what a coroutine that waits for    *)
(* the lock may expect of it.  It needs Delay < UnknownTTL: then the limit *)
(* on refreshes for unknown keys outlasts the fetch that set it, so of     *)
(* those that waited for this fetch none can start another, and all leave  *)
(* the line before the clock moves.                                        *)
(***************************************************************************)
EXTENDS JwksVerifier, TLAPS

\* How old the cached document is, by what became of the keys it has or lacks.
Cache ==
    /\ jwks_until <= now + JwksTTL
    /\ jwks_stale_until <= jwks_until + StaleTTL
    /\ \A k \in Kid : served[k].at <= now
    /\ \A k \in keys :
           served[k].state = "retired" => jwks_until <= served[k].at + Delay + JwksTTL
    /\ \A k \in Kid \ keys :
           served[k].state = "served" => jwks_until <= served[k].at + Delay + JwksTTL

\* A cached version is current, or its entry ends soon after the version did.
Statuses ==
    \A u \in User :
        LET cached == status[u] IN
        /\ version[u] <= MaxVersion
        /\ cached.version <= version[u] /\ cached.until <= now + StatusTTL
        /\ \/ cached.version = version[u]
           \/ cached.until <= ended[u][cached.version] + StatusTTL + Delay

\* Who fetches holds the lock; for an unknown key it has set the limit.
Holder ==
    \A r \in Req :
        /\ refresh_lock = r <=> req[r].pc \in FetchPc
        /\ req[r].pc = "unknown_fetch" => /\ unknown_refresh_after = req[r].at + UnknownTTL
                                          /\ req[r].kid \notin keys

\* What a coroutine with the slot q has seen of the service and of the cache.
Knows(q) ==
    /\ q.at <= now
    /\ q.pc \notin {"idle", "done"} =>
           q.kid \in Kid /\ q.user \in User /\ q.ver <= version[q.user]
    /\ q.pc \in FetchPc \cup StatusPc => now <= q.at + Delay
    /\ q.pc \in FetchPc /\ q.doc # {} =>
           /\ \A k \in q.doc : served[k].state = "retired" => q.at <= served[k].at
           /\ \A k \in Kid \ q.doc : served[k].state = "served" => q.at <= served[k].at
    /\ q.pc = "status_answer" /\ q.active =>
           q.ver = version[q.user] \/ q.at <= ended[q.user][q.ver]
    /\ q.pc = "unknown_lock" =>
           /\ q.at < jwks_until
           /\ served[q.kid].state = "served" => q.at < served[q.kid].at + Delay + JwksTTL
    /\ q.pc = "expired_lock" => q.at >= jwks_until \/ q.at + JwksTTL <= jwks_until

Requests == \A r \in Req : Knows(req[r])

IInv == TypeOK /\ Cache /\ Statuses /\ Holder /\ Requests

\* A coroutine in line, whose document is good up to x, has the lock at once, before
\* another fetch can start, or waits for a fetch that began when x was JwksTTL away.
Waits(x) ==
    /\ refresh_lock = NoReq =>
           \/ now + JwksTTL <= x
           \/ now < unknown_refresh_after /\ now + JwksTTL <= x + Delay
    /\ \A h \in Req : refresh_lock = h =>
           req[h].pc = "unknown_fetch" /\ req[h].at + JwksTTL <= x

\* What a coroutine with the slot q may expect while it waits.  A key that arrived
\* meanwhile is there when the lock is free, with no failure noted since.
InLine(q) ==
    /\ q.pc = "unknown_lock" => Waits(q.at + JwksTTL)
    /\ q.pc = "expired_lock" /\ q.at + JwksTTL <= jwks_until => Waits(jwks_until)
    /\ q.pc = "unknown_lock" /\ q.kid \in keys =>
           /\ refresh_lock = NoReq /\ refresh_error_until = 0
           /\ now < unknown_refresh_after /\ now < jwks_until
    /\ q.pc = "expired_fetch" => now >= jwks_until
    /\ q.pc \in StatusPc /\ served[q.kid].state = "retired" =>
           q.at < served[q.kid].at + Delay + JwksTTL + StaleTTL

Line == \A r \in Req : InLine(req[r])

-----------------------------------------------------------------------------
\* The slot of r becomes q.
Moves(r, q) == req' = [req EXCEPT ![r] = q]

LEMMA IdleSlot == Idle \in Slot
  BY DEF Idle, Slot, Answer

\* The slot that Awaits leaves.
LEMMA AwaitsMoves ==
  ASSUME TypeOK, NEW r \in Req, NEW pc \in LockPc \cup FetchPc \cup StatusPc, Awaits(r, pc)
  PROVE  \E q \in Slot : /\ Moves(r, q)
                         /\ q.pc = pc /\ q.at = now /\ q.doc = {}
                         /\ q.kid = req[r].kid /\ q.user = req[r].user /\ q.ver = req[r].ver
<1> DEFINE q == [req[r] EXCEPT !.pc = pc, !.at = now, !.doc = {}]
<1>1. req[r] \in Slot /\ now \in Nat
  BY DEF TypeOK
<1>2. q \in Slot /\ q.pc = pc /\ q.at = now /\ q.doc = {}
  BY <1>1 DEF Slot, LockPc, FetchPc, StatusPc
<1>3. q.kid = req[r].kid /\ q.user = req[r].user /\ q.ver = req[r].ver
  BY <1>1 DEF Slot
<1>4. Moves(r, q)
  BY DEF Awaits, Moves
<1> QED
  BY <1>2, <1>3, <1>4

\* The slot that Answered leaves.
LEMMA AnsweredMoves ==
  ASSUME NEW r \in Req, NEW answer \in Answer, Answered(r, answer)
  PROVE  \E q \in Slot : /\ Moves(r, q)
                         /\ q.pc = "done" /\ q.answer = answer /\ q.at = 0
<1> DEFINE q == [Idle EXCEPT !.pc = "done", !.answer = answer]
<1>1. q \in Slot /\ q.pc = "done" /\ q.answer = answer /\ q.at = 0
  BY DEF Idle, Slot, Answer
<1>2. Moves(r, q)
  BY DEF Answered, Moves
<1> QED
  BY <1>1, <1>2

\* With the key, a request ends or goes on to /auth/status.
LEMMA DecodeMoves ==
  ASSUME TypeOK, NEW r \in Req, Decode(r)
  PROVE  \E q \in Slot :
             /\ Moves(r, q)
             /\ \/ q.pc = "done" /\ q.at = 0 /\ q.answer = "rejected"
                \/ q.pc = "done" /\ q.at = 0 /\ q.answer = "principal" /\ StatusHit(r)
                \/ /\ q.pc = "status" /\ q.at = now /\ q.doc = {}
                   /\ q.kid = req[r].kid /\ q.user = req[r].user /\ q.ver = req[r].ver
<1>1. CASE Answered(r, "rejected")
  BY <1>1, AnsweredMoves DEF Answer
<1>2. CASE StatusHit(r) /\ Answered(r, "principal")
  BY <1>2, AnsweredMoves DEF Answer
<1>3. CASE Awaits(r, "status")
  BY <1>3, AwaitsMoves DEF StatusPc
<1> QED
  BY <1>1, <1>2, <1>3 DEF Decode

\* Looked up, a request that has no key ends or waits for the lock.
LEMMA LookupMoves ==
  ASSUME TypeOK, NEW r \in Req, NEW present, Lookup(r, present)
  PROVE  \/ req[r].kid \in present /\ Decode(r)
         \/ /\ req[r].kid \notin present
            /\ \E q \in Slot :
                  /\ Moves(r, q)
                  /\ \/ q.pc = "done" /\ q.at = 0 /\ q.answer = "unknown_key"
                     \/ /\ q.pc = "unknown_lock" /\ q.at = now /\ q.doc = {}
                        /\ q.kid = req[r].kid /\ q.user = req[r].user /\ q.ver = req[r].ver
<1>1. CASE req[r].kid \in present /\ Decode(r)
  BY <1>1
<1>2. CASE req[r].kid \notin present /\ Answered(r, "unknown_key")
  BY <1>2, AnsweredMoves DEF Answer
<1>3. CASE req[r].kid \notin present /\ Awaits(r, "unknown_lock")
  BY <1>3, AwaitsMoves DEF LockPc
<1> QED
  BY <1>1, <1>2, <1>3 DEF Lookup

-----------------------------------------------------------------------------
\* What a coroutine knows stays known when the service stands still and the
\* cached document is the one it knew or one fetched now.
LEMMA KnowsKept ==
  ASSUME TypeOK, NEW q \in Slot, Knows(q), UNCHANGED <<now, service>>,
         jwks_until' = jwks_until \/ jwks_until' = now + JwksTTL
  PROVE  Knows(q)'
<1>1. now \in Nat /\ jwks_until \in Nat /\ q.at \in Nat
  BY DEF TypeOK, Slot
<1>2. UNCHANGED <<now, served, version, ended>>
  BY DEF service
<1>3. /\ q.pc = "unknown_lock" => q.at < jwks_until'
      /\ q.pc = "expired_lock" => q.at >= jwks_until' \/ q.at + JwksTTL <= jwks_until'
  BY <1>1, TimesAssumption DEF Knows
<1> QED
  BY <1>2, <1>3 DEF Knows

LEMMA RequestsKept ==
  ASSUME TypeOK, Requests, NEW r \in Req, NEW q \in Slot, Moves(r, q), Knows(q)',
         UNCHANGED <<now, service>>, jwks_until' = jwks_until \/ jwks_until' = now + JwksTTL
  PROVE  Requests'
<1> SUFFICES ASSUME NEW p \in Req PROVE Knows(req[p])'
  BY DEF Requests
<1>1. CASE p = r
  <2>1. req'[p] = q
    BY <1>1 DEF Moves, TypeOK
  <2> QED
    BY <2>1 DEF Knows
<1>2. CASE p # r
  <2> PICK other \in Slot : req[p] = other
    BY DEF TypeOK
  <2>1. req'[p] = other
    BY <1>2 DEF Moves, TypeOK
  <2>2. Knows(other)'
    BY KnowsKept DEF Requests
  <2> QED
    BY <2>1, <2>2 DEF Knows
<1> QED
  BY <1>1, <1>2

\* Only the slot of r and the negative entries change.
Only(r, q) ==
    /\ Moves(r, q)
    /\ negative_kids' \in [Kid -> Nat]
    /\ q.pc \in FetchPc \/ req[r].pc \in FetchPc =>
           q.pc = req[r].pc /\ q.at = req[r].at /\ q.kid = req[r].kid
    /\ UNCHANGED <<cache, unknown_refresh_after, status, refresh_lock, now, service>>

LEMMA OnlyKeeps ==
  ASSUME IInv, NEW r \in Req, NEW q \in Slot, Only(r, q), Knows(q)'
  PROVE  IInv'
<1> USE DEF Only, Moves, cache, service
<1>1. TypeOK'
  BY DEF IInv, TypeOK
<1>2. Cache' /\ Statuses'
  BY DEF IInv, Cache, Statuses
<1>3. Holder'
  BY DEF IInv, TypeOK, Holder, FetchPc
<1>4. Requests'
  BY RequestsKept DEF IInv
<1> QED
  BY <1>1, <1>2, <1>3, <1>4 DEF IInv

\* r takes the lock, which was free, to fetch the document.
LEMMA LockTaken ==
  ASSUME IInv, NEW r \in Req, NEW q \in Slot, Moves(r, q), refresh_lock = NoReq,
         q.pc \in FetchPc, q.at = now, q.doc = {}, q.kid = req[r].kid, q.user = req[r].user,
         q.ver = req[r].ver, req[r].pc \in LockPc, refresh_lock' = r,
         \/ q.pc = "expired_fetch" /\ UNCHANGED unknown_refresh_after
         \/ /\ q.pc = "unknown_fetch" /\ q.kid \notin keys
            /\ unknown_refresh_after' = now + UnknownTTL,
         UNCHANGED <<cache, negative_kids, status, now, service>>
  PROVE  IInv'
<1> USE DEF Moves, cache, service
<1>0. now \in Nat /\ req[r] \in Slot /\ req \in [Req -> Slot]
  BY DEF IInv, TypeOK
<1>1. TypeOK'
  BY <1>0, TimesAssumption DEF IInv, TypeOK
<1>2. Cache' /\ Statuses'
  BY DEF IInv, Cache, Statuses
<1>3. Holder'
  <2> SUFFICES ASSUME NEW p \in Req
               PROVE  /\ (refresh_lock = p <=> req[p].pc \in FetchPc)'
                      /\ (req[p].pc = "unknown_fetch" =>
                             /\ unknown_refresh_after = req[p].at + UnknownTTL
                             /\ req[p].kid \notin keys)'
    BY DEF Holder
  <2>1. CASE p = r
    BY <1>0, <2>1 DEF FetchPc
  <2>2. CASE p # r
    <3>1. req[p].pc \notin FetchPc /\ req'[p] = req[p]
      BY <1>0, <2>2, NamesAssumption DEF IInv, Holder
    <3> QED
      BY <2>2, <3>1 DEF FetchPc
  <2> QED
    BY <2>1, <2>2
<1>4. Requests'
  <2>1. Knows(req[r])
    BY DEF IInv, Requests
  <2>2. Knows(q)
    BY <1>0, <2>1, TimesAssumption DEF Knows, LockPc, FetchPc, StatusPc
  <2>3. Knows(q)'
    BY <2>2, KnowsKept DEF IInv
  <2> QED
    BY <2>3, RequestsKept DEF IInv
<1> QED
  BY <1>1, <1>2, <1>3, <1>4 DEF IInv

\* r releases the lock, and the document stays as it was.
LEMMA LockReleased ==
  ASSUME IInv, NEW r \in Req, NEW q \in Slot, Moves(r, q), req[r].pc \in FetchPc,
         q.pc \notin FetchPc, Knows(q)', refresh_lock' = NoReq, refresh_error_until' \in Nat,
         UNCHANGED <<keys, jwks_until, jwks_stale_until, unknown, status, now, service>>
  PROVE  IInv'
<1> USE DEF Moves, unknown, service
<1>0. req \in [Req -> Slot]
  BY DEF IInv, TypeOK
<1>1. TypeOK'
  BY DEF IInv, TypeOK
<1>2. Cache' /\ Statuses'
  BY DEF IInv, Cache, Statuses
<1>3. Holder'
  BY <1>0, NamesAssumption DEF IInv, Holder, FetchPc
<1>4. Requests'
  BY RequestsKept DEF IInv
<1> QED
  BY <1>1, <1>2, <1>3, <1>4 DEF IInv

\* r stores the document it has fetched and releases the lock.
LEMMA DocumentStored ==
  ASSUME IInv, NEW r \in Req, NEW q \in Slot, Moves(r, q), req[r].pc \in FetchPc,
         q.pc \notin FetchPc, Knows(q)', Refreshed(r), negative_kids' \in [Kid -> Nat],
         UNCHANGED <<unknown_refresh_after, status, now, service>>
  PROVE  IInv'
<1> USE DEF Moves, service
<1>0. now \in Nat /\ req[r] \in Slot /\ req[r].at \in Nat /\ req[r].doc \in SUBSET Kid
      /\ req \in [Req -> Slot] /\ served \in [Kid -> Served]
  BY DEF IInv, TypeOK, Slot
<1>1. TypeOK'
  BY <1>0, TimesAssumption DEF IInv, TypeOK, Refreshed
<1>2. Cache'
  <2>1. now <= req[r].at + Delay
    BY DEF IInv, Requests, Knows
  <2>2. jwks_until' = now + JwksTTL /\ jwks_stale_until' = now + JwksTTL + StaleTTL
    BY DEF Refreshed
  <2>3. \A k \in Kid : served[k].at \in Nat /\ served[k].at <= now
    BY <1>0 DEF IInv, Cache, Served
  <2>4. ASSUME NEW k \in req[r].doc, served[k].state = "retired"
        PROVE  jwks_until' <= served[k].at + Delay + JwksTTL
    <3>1. req[r].at <= served[k].at
      BY <2>4 DEF IInv, Requests, Knows
    <3> QED
      BY <1>0, <2>1, <2>2, <2>3, <3>1, TimesAssumption
  <2>5. ASSUME NEW k \in Kid \ req[r].doc, served[k].state = "served"
        PROVE  jwks_until' <= served[k].at + Delay + JwksTTL
    <3>1. req[r].at <= served[k].at
      BY <2>5 DEF IInv, Requests, Knows, Refreshed
    <3> QED
      BY <1>0, <2>1, <2>2, <2>3, <3>1, TimesAssumption
  <2> QED
    BY <1>0, <2>2, <2>3, <2>4, <2>5, TimesAssumption DEF Cache, Refreshed
<1>3. Statuses'
  BY DEF IInv, Statuses
<1>4. Holder'
  BY <1>0, NamesAssumption DEF IInv, Holder, FetchPc, Refreshed
<1>5. Requests'
  BY RequestsKept DEF IInv, Refreshed
<1> QED
  BY <1>1, <1>2, <1>3, <1>4, <1>5 DEF IInv

-----------------------------------------------------------------------------
\* The invariant is kept by each action of a coroutine.
LEMMA DecodeKnows ==
  ASSUME IInv, NEW r \in Req, Decode(r), req[r].pc \notin {"idle", "done"},
         UNCHANGED <<now, service>>
  PROVE  \E q \in Slot : Moves(r, q) /\ Knows(q)' /\ q.pc \in {"done", "status"}
<1>1. now \in Nat /\ Knows(req[r])
  BY DEF IInv, TypeOK, Requests
<1>2. PICK q \in Slot :
          /\ Moves(r, q)
          /\ \/ q.pc = "done" /\ q.at = 0
             \/ /\ q.pc = "status" /\ q.at = now /\ q.doc = {}
                /\ q.kid = req[r].kid /\ q.user = req[r].user /\ q.ver = req[r].ver
  BY DecodeMoves DEF IInv
<1>3. Knows(q)'
  BY <1>1, <1>2, TimesAssumption DEF Knows, FetchPc, StatusPc, service
<1> QED
  BY <1>2, <1>3

LEMMA LookupKnows ==
  ASSUME IInv, NEW r \in Req, NEW present, Lookup(r, present), req[r].pc \notin {"idle", "done"},
         UNCHANGED <<now, service>>,
         req[r].kid \notin present =>
             /\ now < jwks_until'
             /\ served[req[r].kid].state = "served" =>
                    now < served[req[r].kid].at + Delay + JwksTTL
  PROVE  \E q \in Slot : Moves(r, q) /\ Knows(q)' /\ q.pc \in {"done", "status", "unknown_lock"}
<1>1. now \in Nat /\ Knows(req[r])
  BY DEF IInv, TypeOK, Requests
<1>2. CASE req[r].kid \in present /\ Decode(r)
  BY <1>2, DecodeKnows
<1>3. ASSUME req[r].kid \notin present, NEW q \in Slot, Moves(r, q),
             \/ q.pc = "done" /\ q.at = 0 /\ q.answer = "unknown_key"
             \/ /\ q.pc = "unknown_lock" /\ q.at = now /\ q.doc = {}
                /\ q.kid = req[r].kid /\ q.user = req[r].user /\ q.ver = req[r].ver
      PROVE  Knows(q)'
  BY <1>1, <1>3, TimesAssumption DEF Knows, FetchPc, StatusPc, service
<1> QED
  BY <1>2, <1>3, LookupMoves DEF IInv

\* The hypothesis of LookupKnows, for a document that is valid now.
LEMMA ValidDocument ==
  ASSUME IInv, now < jwks_until, NEW k \in Kid \ keys, served[k].state = "served"
  PROVE  now < served[k].at + Delay + JwksTTL
<1>1. now \in Nat /\ jwks_until \in Nat /\ served[k].at \in Nat
  BY DEF IInv, TypeOK, Served
<1>2. jwks_until <= served[k].at + Delay + JwksTTL
  BY DEF IInv, Cache
<1> QED
  BY <1>1, <1>2, TimesAssumption

LEMMA ArriveKeeps ==
  ASSUME IInv, NEW r \in Req, NEW k \in Kid, NEW u \in User, NEW v \in 0 .. MaxVersion,
         Arrive(r, k, u, v)
  PROVE  IInv'
<1> DEFINE q == [Idle EXCEPT !.pc = "start", !.kid = k, !.user = u, !.ver = v]
<1>0. v \in Nat
  BY TimesAssumption
<1>1. q \in Slot /\ q.pc = "start" /\ q.kid = k /\ q.user = u /\ q.ver = v /\ q.at = 0
  BY <1>0 DEF Idle, Slot, Answer
<1>2. req' = [req EXCEPT ![r] = q]
  BY DEF Arrive
<1> HIDE DEF q
<1>3. Only(r, q)
  BY <1>1, <1>2 DEF Only, Moves, Arrive, unknown, IInv, TypeOK, FetchPc
<1>4. Knows(q)'
  BY <1>1, TimesAssumption DEF Arrive, service, Knows, FetchPc, StatusPc, IInv, TypeOK
<1> QED
  BY <1>1, <1>3, <1>4, OnlyKeeps

LEMMA StartKeeps == ASSUME IInv, NEW r \in Req, Start(r) PROVE IInv'
<1> USE DEF Start, unknown
<1>1. /\ now \in Nat /\ jwks_until \in Nat /\ Knows(req[r]) /\ req[r].kid \in Kid
      /\ negative_kids \in [Kid -> Nat]
  BY DEF IInv, TypeOK, Requests, Knows
<1>2. CASE now >= jwks_until /\ Awaits(r, "expired_lock")
  <2>1. PICK q \in Slot : /\ Moves(r, q)
                          /\ q.pc = "expired_lock" /\ q.at = now /\ q.doc = {}
                          /\ q.kid = req[r].kid /\ q.user = req[r].user /\ q.ver = req[r].ver
    BY <1>2, AwaitsMoves DEF IInv, LockPc
  <2>2. Knows(q)'
    BY <1>1, <1>2, <2>1 DEF Knows, FetchPc, StatusPc, service, cache
  <2>3. Only(r, q)
    BY <1>1, <2>1 DEF Only, FetchPc
  <2> QED
    BY <2>2, <2>3, OnlyKeeps
<1>3. CASE now < jwks_until /\ Lookup(r, keys)
  <2>1. PICK q \in Slot : Moves(r, q) /\ Knows(q)' /\ q.pc \in {"done", "status", "unknown_lock"}
    BY <1>1, <1>3, LookupKnows, ValidDocument DEF cache
  <2>2. Only(r, q)
    BY <1>1, <2>1 DEF Only, FetchPc
  <2> QED
    BY <2>1, <2>2, OnlyKeeps
<1> QED
  BY <1>1, <1>2, <1>3

LEMMA ExpiredEnterKeeps == ASSUME IInv, NEW r \in Req, ExpiredEnter(r) PROVE IInv'
<1> USE DEF ExpiredEnter, unknown, LockPc
<1>1. /\ now \in Nat /\ jwks_until \in Nat /\ Knows(req[r]) /\ req[r].kid \in Kid
      /\ negative_kids \in [Kid -> Nat]
  BY DEF IInv, TypeOK, Requests, Knows
<1>2. CASE now < jwks_until /\ Lookup(r, keys) /\ UNCHANGED refresh_lock
  <2>1. PICK q \in Slot : Moves(r, q) /\ Knows(q)' /\ q.pc \in {"done", "status", "unknown_lock"}
    BY <1>1, <1>2, LookupKnows, ValidDocument DEF cache
  <2>2. Only(r, q)
    BY <1>1, <1>2, <2>1 DEF Only, FetchPc
  <2> QED
    BY <2>1, <2>2, OnlyKeeps
<1>3. CASE Stale(r) /\ Lookup(r, keys) /\ UNCHANGED refresh_lock
  <2>1. PICK q \in Slot : Moves(r, q) /\ Knows(q)' /\ q.pc \in {"done", "status", "unknown_lock"}
    BY <1>1, <1>3, LookupKnows DEF Stale
  <2>2. Only(r, q)
    BY <1>1, <1>3, <2>1 DEF Only, FetchPc
  <2> QED
    BY <2>1, <2>2, OnlyKeeps
<1>4. CASE Answered(r, "jwks_unavailable") /\ UNCHANGED refresh_lock
  <2>1. PICK q \in Slot : Moves(r, q) /\ q.pc = "done" /\ q.at = 0
    BY <1>4, AnsweredMoves DEF Answer
  <2>2. Knows(q)'
    BY <1>1, <2>1 DEF Knows, FetchPc, StatusPc
  <2>3. Only(r, q)
    BY <1>1, <1>4, <2>1 DEF Only, FetchPc
  <2> QED
    BY <2>2, <2>3, OnlyKeeps
<1>5. CASE Awaits(r, "expired_fetch") /\ refresh_lock' = r
  <2>1. PICK q \in Slot : /\ Moves(r, q)
                          /\ q.pc = "expired_fetch" /\ q.at = now /\ q.doc = {}
                          /\ q.kid = req[r].kid /\ q.user = req[r].user /\ q.ver = req[r].ver
    BY <1>5, AwaitsMoves DEF IInv, FetchPc
  <2> QED
    BY <1>5, <2>1, LockTaken DEF NextInLine, FetchPc
<1> QED
  BY <1>2, <1>3, <1>4, <1>5

LEMMA JwksServedKeeps == ASSUME IInv, NEW r \in Req, JwksServed(r) PROVE IInv'
<1>1. req[r] \in Slot /\ served \in [Kid -> Served] /\ Service!Published \in SUBSET Kid
  BY DEF IInv, TypeOK, Service!Published
<1>2. PICK q \in Slot :
          /\ req' = [req EXCEPT ![r] = q]
          /\ q.doc = Service!Published /\ q.pc = req[r].pc /\ q.at = req[r].at
          /\ q.kid = req[r].kid /\ q.user = req[r].user /\ q.ver = req[r].ver
          /\ q.active = req[r].active
  <2> DEFINE slot == [req[r] EXCEPT !.doc = Service!Published]
  <2>1. /\ slot \in Slot
        /\ slot.doc = Service!Published /\ slot.pc = req[r].pc /\ slot.at = req[r].at
        /\ slot.kid = req[r].kid /\ slot.user = req[r].user /\ slot.ver = req[r].ver
        /\ slot.active = req[r].active
    BY <1>1 DEF Slot
  <2>2. req' = [req EXCEPT ![r] = slot]
    BY DEF JwksServed
  <2> QED
    BY <2>1, <2>2
<1>4. Only(r, q)
  BY <1>2 DEF Only, Moves, JwksServed, unknown, IInv, TypeOK
<1>5. Knows(q)
  <2>1. Knows(req[r])
    BY DEF IInv, Requests
  <2>2. \A k \in Kid : served[k].state = "retired" => k \notin Service!Published
    BY DEF Service!Published
  <2>3. \A k \in Kid \ Service!Published : served[k].state # "served"
    BY DEF Service!Published
  <2> QED
    BY <1>2, <2>1, <2>2, <2>3 DEF Knows, JwksServed, FetchPc, StatusPc, Service!Published
<1>6. Knows(q)'
  BY <1>2, <1>5, KnowsKept DEF IInv, JwksServed, cache
<1> QED
  BY <1>2, <1>4, <1>6, OnlyKeeps

\* What is known of a fetch whose document has arrived.
LEMMA DocumentArrived ==
  ASSUME IInv, NEW r \in Req, req[r].pc \in FetchPc, Refreshed(r)
  PROVE  /\ now \in Nat /\ jwks_until' = now + JwksTTL /\ now < jwks_until'
         /\ \A k \in req[r].doc : served[k].state = "retired" => now <= served[k].at + Delay
         /\ \A k \in Kid \ req[r].doc : served[k].state = "served" =>
                now <= served[k].at + Delay
<1>1. /\ now \in Nat /\ req[r].at \in Nat /\ req[r].doc \in SUBSET Kid
      /\ \A k \in Kid : served[k].at \in Nat
  BY DEF IInv, TypeOK, Slot, Served
<1>2. now <= req[r].at + Delay
  BY DEF IInv, Requests, Knows
<1>3. jwks_until' = now + JwksTTL /\ req[r].doc # {}
  BY DEF Refreshed
<1>4. ASSUME NEW k \in req[r].doc, served[k].state = "retired"
      PROVE  now <= served[k].at + Delay
  <2>1. req[r].at <= served[k].at
    BY <1>3, <1>4 DEF IInv, Requests, Knows
  <2> QED
    BY <1>1, <1>2, <2>1, TimesAssumption
<1>5. ASSUME NEW k \in Kid \ req[r].doc, served[k].state = "served"
      PROVE  now <= served[k].at + Delay
  <2>1. req[r].at <= served[k].at
    BY <1>3, <1>5 DEF IInv, Requests, Knows
  <2> QED
    BY <1>1, <1>2, <2>1, TimesAssumption
<1> QED
  BY <1>1, <1>3, <1>4, <1>5, TimesAssumption

LEMMA ExpiredFetchedKeeps == ASSUME IInv, NEW r \in Req, ExpiredFetched(r) PROVE IInv'
<1> USE DEF ExpiredFetched
<1>1. /\ req[r].pc \in FetchPc /\ Refreshed(r) /\ UNCHANGED <<unknown, status, now, service>>
      /\ req[r].pc = "expired_fetch" /\ Lookup(r, req[r].doc)
  BY DEF FetchPc
<1>2. /\ req[r].kid \in Kid /\ negative_kids \in [Kid -> Nat]
      /\ \A k \in Kid : served[k].at \in Nat
  BY <1>1 DEF IInv, TypeOK, Served, Requests, Knows
<1>3. /\ now \in Nat /\ now < jwks_until'
      /\ \A k \in Kid \ req[r].doc : served[k].state = "served" => now <= served[k].at + Delay
  BY <1>1, DocumentArrived
<1>4. req[r].kid \notin req[r].doc /\ served[req[r].kid].state = "served" =>
          now < served[req[r].kid].at + Delay + JwksTTL
  BY <1>2, <1>3, TimesAssumption
<1>5. PICK q \in Slot : Moves(r, q) /\ Knows(q)' /\ q.pc \in {"done", "status", "unknown_lock"}
  BY <1>1, <1>3, <1>4, LookupKnows
<1> QED
  BY <1>1, <1>2, <1>5, DocumentStored DEF FetchPc, unknown

LEMMA ExpiredFailedKeeps == ASSUME IInv, NEW r \in Req, ExpiredFailed(r) PROVE IInv'
<1> USE DEF ExpiredFailed, Failed
<1>1. req[r].pc \in FetchPc /\ now \in Nat /\ refresh_error_until' \in Nat /\ Knows(req[r])
  BY TimesAssumption DEF FetchPc, IInv, TypeOK, Requests
<1>2. \E q \in Slot : Moves(r, q) /\ Knows(q)' /\ q.pc \in {"done", "status", "unknown_lock"}
  <2>1. CASE Stale(r) /\ Lookup(r, keys)
    BY <2>1, LookupKnows DEF Stale
  <2>2. CASE Answered(r, "jwks_unavailable")
    BY <1>1, <2>2, AnsweredMoves DEF Answer, Knows, FetchPc, StatusPc
  <2> QED
    BY <2>1, <2>2
<1> QED
  BY <1>1, <1>2, LockReleased DEF FetchPc

LEMMA FetchInvalidKeeps == ASSUME IInv, NEW r \in Req, FetchInvalid(r) PROVE IInv'
<1> USE DEF FetchInvalid
<1>1. now \in Nat /\ refresh_error_until' \in Nat /\ Knows(req[r])
  BY DEF IInv, TypeOK, Requests, cache
<1>2. \E q \in Slot : Moves(r, q) /\ Knows(q)' /\ q.pc \in {"done", "status", "unknown_lock"}
  BY <1>1, AnsweredMoves DEF Answer, Knows, FetchPc, StatusPc
<1> QED
  BY <1>1, <1>2, LockReleased DEF FetchPc, cache

LEMMA UnknownFailedKeeps == ASSUME IInv, NEW r \in Req, UnknownFailed(r) PROVE IInv'
<1> USE DEF UnknownFailed, Failed
<1>1. req[r].pc \in FetchPc /\ now \in Nat /\ refresh_error_until' \in Nat /\ Knows(req[r])
  BY TimesAssumption DEF FetchPc, IInv, TypeOK, Requests
<1>2. \E q \in Slot : Moves(r, q) /\ Knows(q)' /\ q.pc \in {"done", "status", "unknown_lock"}
  BY <1>1, AnsweredMoves DEF Answer, Knows, FetchPc, StatusPc
<1> QED
  BY <1>1, <1>2, LockReleased DEF FetchPc

LEMMA UnknownEnterKeeps == ASSUME IInv, NEW r \in Req, UnknownEnter(r) PROVE IInv'
<1> USE DEF UnknownEnter
<1>1. /\ now \in Nat /\ Knows(req[r]) /\ req[r].kid \in Kid /\ negative_kids \in [Kid -> Nat]
      /\ req[r].pc = "unknown_lock" /\ now + UnknownTTL \in Nat
  <2>1. now \in Nat /\ Knows(req[r]) /\ negative_kids \in [Kid -> Nat] /\ req[r].pc = "unknown_lock"
    BY DEF IInv, TypeOK, Requests
  <2>2. req[r].kid \in Kid
    BY <2>1 DEF Knows
  <2> QED
    BY <2>1, <2>2, TimesAssumption
<1>2. /\ UNCHANGED <<cache, status, now, service>>
      /\ req[r].pc \in LockPc /\ req[r].pc \notin FetchPc
  BY <1>1 DEF LockPc, FetchPc
<1>3. ASSUME NEW answer \in Answer, Answered(r, answer), negative_kids' \in [Kid -> Nat],
             UNCHANGED <<unknown_refresh_after, refresh_lock>>
      PROVE  IInv'
  <2>1. PICK q \in Slot : Moves(r, q) /\ q.pc = "done" /\ q.at = 0
    BY <1>3, AnsweredMoves
  <2>2. Knows(q)'
    BY <1>1, <1>2, <2>1 DEF Knows, FetchPc, StatusPc
  <2>3. Only(r, q)
    BY <1>2, <1>3, <2>1 DEF Only, FetchPc
  <2> QED
    BY <2>2, <2>3, OnlyKeeps
<1>4. CASE Decode(r) /\ UNCHANGED <<unknown, refresh_lock>>
  <2>1. PICK q \in Slot : Moves(r, q) /\ Knows(q)' /\ q.pc \in {"done", "status"}
    BY <1>1, <1>2, <1>4, DecodeKnows
  <2>2. Only(r, q)
    BY <1>1, <1>2, <1>4, <2>1 DEF Only, FetchPc, unknown
  <2> QED
    BY <2>1, <2>2, OnlyKeeps
<1>5. CASE /\ req[r].kid \notin keys /\ unknown_refresh_after' = now + UnknownTTL
           /\ refresh_lock' = r /\ Awaits(r, "unknown_fetch") /\ UNCHANGED negative_kids
  <2>1. PICK q \in Slot : /\ Moves(r, q)
                          /\ q.pc = "unknown_fetch" /\ q.at = now /\ q.doc = {}
                          /\ q.kid = req[r].kid /\ q.user = req[r].user /\ q.ver = req[r].ver
    BY <1>5, AwaitsMoves DEF IInv, FetchPc
  <2>2. refresh_lock = NoReq /\ q.pc \in FetchPc
    BY <2>1 DEF NextInLine, FetchPc
  <2> QED
    BY <1>2, <1>5, <2>1, <2>2, LockTaken
<1>6. CASE /\ negative_kids' = [negative_kids EXCEPT ![req[r].kid] = now + UnknownTTL]
           /\ Answered(r, "unknown_key")
           /\ UNCHANGED <<unknown_refresh_after, refresh_lock>>
  BY <1>1, <1>3, <1>6 DEF Answer
<1>7. CASE Answered(r, "unknown_key") /\ UNCHANGED <<unknown, refresh_lock>>
  BY <1>1, <1>3, <1>7 DEF Answer, unknown
<1>8. CASE Answered(r, "jwks_unavailable") /\ UNCHANGED <<unknown, refresh_lock>>
  BY <1>1, <1>3, <1>8 DEF Answer, unknown
<1> QED
  BY <1>4, <1>5, <1>6, <1>7, <1>8

LEMMA UnknownFetchedKeeps == ASSUME IInv, NEW r \in Req, UnknownFetched(r) PROVE IInv'
<1> USE DEF UnknownFetched
<1>1. /\ now \in Nat /\ Knows(req[r]) /\ req[r].kid \in Kid /\ negative_kids \in [Kid -> Nat]
      /\ req[r].pc = "unknown_fetch" /\ now + UnknownTTL \in Nat
  <2>1. /\ now \in Nat /\ Knows(req[r]) /\ negative_kids \in [Kid -> Nat]
        /\ req[r].pc = "unknown_fetch"
    BY DEF IInv, TypeOK, Requests
  <2>2. req[r].kid \in Kid
    BY <2>1 DEF Knows
  <2> QED
    BY <2>1, <2>2, TimesAssumption
<1>2. /\ req[r].pc \in FetchPc /\ Refreshed(r)
      /\ UNCHANGED <<unknown_refresh_after, status, now, service>>
  BY <1>1 DEF FetchPc
<1>3. \E q \in Slot : Moves(r, q) /\ Knows(q)' /\ q.pc \in {"done", "status"}
  <2>1. CASE Decode(r)
    BY <1>1, <1>2, <2>1, DecodeKnows
  <2>2. CASE Answered(r, "unknown_key")
    BY <1>1, <1>2, <2>2, AnsweredMoves DEF Answer, Knows, FetchPc, StatusPc
  <2> QED
    BY <2>1, <2>2
<1>4. negative_kids' \in [Kid -> Nat]
  BY <1>1
<1> QED
  BY <1>2, <1>3, <1>4, DocumentStored DEF FetchPc

LEMMA StatusServedKeeps == ASSUME IInv, NEW r \in Req, StatusServed(r) PROVE IInv'
<1> USE DEF StatusServed
<1>1. req[r] \in Slot /\ Knows(req[r]) /\ negative_kids \in [Kid -> Nat]
  BY DEF IInv, TypeOK, Requests
<1>2. PICK q \in Slot :
          /\ req' = [req EXCEPT ![r] = q]
          /\ q.pc = "status_answer" /\ q.at = req[r].at /\ q.doc = req[r].doc
          /\ q.kid = req[r].kid /\ q.user = req[r].user /\ q.ver = req[r].ver
          /\ q.active = (q.ver = version[q.user])
  <2> DEFINE slot == [req[r] EXCEPT !.pc = "status_answer",
                                    !.active = req[r].ver = version[req[r].user]]
  <2>1. /\ slot \in Slot
        /\ slot.pc = "status_answer" /\ slot.at = req[r].at /\ slot.doc = req[r].doc
        /\ slot.kid = req[r].kid /\ slot.user = req[r].user /\ slot.ver = req[r].ver
        /\ slot.active = (req[r].ver = version[req[r].user])
    BY <1>1 DEF Slot, StatusPc
  <2>2. req' = [req EXCEPT ![r] = slot]
    OBVIOUS
  <2> QED
    BY <2>1, <2>2
<1>3. Only(r, q)
  BY <1>1, <1>2 DEF Only, Moves, unknown, FetchPc
<1>4. Knows(q)
  BY <1>1, <1>2 DEF Knows, FetchPc, StatusPc
<1>5. Knows(q)'
  BY <1>4, KnowsKept DEF IInv, cache
<1> QED
  BY <1>3, <1>5, OnlyKeeps

LEMMA StatusFailedKeeps == ASSUME IInv, NEW r \in Req, StatusFailed(r) PROVE IInv'
<1> USE DEF StatusFailed
<1>1. now \in Nat /\ negative_kids \in [Kid -> Nat]
  BY DEF IInv, TypeOK
<1>2. PICK q \in Slot : Moves(r, q) /\ q.pc = "done" /\ q.at = 0
  BY AnsweredMoves DEF Answer
<1>3. Knows(q)'
  BY <1>1, <1>2 DEF Knows, FetchPc, StatusPc
<1>4. Only(r, q)
  BY <1>1, <1>2 DEF Only, FetchPc, StatusPc, unknown
<1> QED
  BY <1>3, <1>4, OnlyKeeps

LEMMA RespondKeeps == ASSUME IInv, NEW r \in Req, Respond(r) PROVE IInv'
<1> USE DEF Respond
<1>1. now \in Nat /\ negative_kids \in [Kid -> Nat]
  BY DEF IInv, TypeOK
<1>2. PICK q \in Slot : req' = [req EXCEPT ![r] = q] /\ q.pc = "idle" /\ q.at = 0
  BY IdleSlot DEF Idle
<1>3. Knows(q)'
  BY <1>1, <1>2 DEF Knows, FetchPc, StatusPc
<1>4. Only(r, q)
  BY <1>1, <1>2 DEF Only, Moves, FetchPc, unknown
<1> QED
  BY <1>3, <1>4, OnlyKeeps

\* The answer that is stored is current, or was when the request was sent.
LEMMA StatusAnsweredKeeps == ASSUME IInv, NEW r \in Req, StatusAnswered(r) PROVE IInv'
<1> USE DEF StatusAnswered
<1>1. /\ now \in Nat /\ status \in [User -> [until: Nat, version: Nat]] /\ req[r] \in Slot
      /\ version \in [User -> Nat] /\ ended \in [User -> [0 .. MaxVersion -> Nat]]
      /\ req \in [Req -> Slot]
  BY DEF IInv, TypeOK
<1>2. /\ req[r].user \in User /\ req[r].ver <= version[req[r].user]
      /\ req[r].ver \in Nat /\ req[r].at \in Nat /\ now <= req[r].at + Delay
      /\ req[r].active => \/ req[r].ver = version[req[r].user]
                          \/ req[r].at <= ended[req[r].user][req[r].ver]
  BY <1>1 DEF IInv, Requests, Knows, Slot, StatusPc
<1>3. PICK q \in Slot : Moves(r, q) /\ q.pc = "done" /\ q.at = 0
  BY AnsweredMoves DEF Answer
<1>4. UNCHANGED <<cache, unknown, refresh_lock, now, service>>
  OBVIOUS
<1>5. /\ status' \in [User -> [until: Nat, version: Nat]]
      /\ \A u \in User :
             \/ status'[u] = status[u]
             \/ /\ u = req[r].user /\ req[r].active
                /\ status'[u].until = now + StatusTTL /\ status'[u].version = req[r].ver
  <2>1. CASE ~req[r].active
    BY <1>1, <2>1
  <2>2. CASE req[r].active
    <3> DEFINE row == [until |-> now + StatusTTL, version |-> req[r].ver]
    <3>1. row \in [until: Nat, version: Nat]
      BY <1>1, <1>2, TimesAssumption
    <3>2. row.until = now + StatusTTL /\ row.version = req[r].ver
      OBVIOUS
    <3>3. status' = [status EXCEPT ![req[r].user] = row]
      BY <2>2
    <3> HIDE DEF row
    <3> QED
      BY <1>1, <1>2, <2>2, <3>1, <3>2, <3>3
  <2> QED
    BY <2>1, <2>2
<1> HIDE DEF StatusAnswered
<1>6. TypeOK'
  BY <1>3, <1>4, <1>5 DEF IInv, TypeOK, Moves, cache, unknown, service
<1>7. Cache'
  BY <1>4 DEF IInv, Cache, cache, service
<1>8. Statuses'
  <2> SUFFICES ASSUME NEW u \in User
               PROVE  /\ version[u] <= MaxVersion
                      /\ status'[u].version <= version[u] /\ status'[u].until <= now + StatusTTL
                      /\ \/ status'[u].version = version[u]
                         \/ status'[u].until <=
                                ended[u][status'[u].version] + StatusTTL + Delay
    BY <1>4 DEF Statuses, service
  <2>1. CASE status'[u] = status[u]
    BY <2>1 DEF IInv, Statuses
  <2>2. CASE /\ u = req[r].user /\ req[r].active
             /\ status'[u].until = now + StatusTTL /\ status'[u].version = req[r].ver
    <3>1. version[u] <= MaxVersion
      BY DEF IInv, Statuses
    <3>2. CASE req[r].ver = version[u]
      BY <1>1, <1>2, <2>2, <3>1, <3>2, TimesAssumption
    <3>3. CASE req[r].at <= ended[req[r].user][req[r].ver]
      <4>1. req[r].ver \in 0 .. MaxVersion
        BY <1>1, <1>2, <2>2, <3>1, TimesAssumption
      <4>2. ended[u][req[r].ver] \in Nat
        BY <1>1, <4>1
      <4>3. now <= ended[u][req[r].ver] + Delay
        <5>1. now \in Nat /\ req[r].at \in Nat /\ now <= req[r].at + Delay
          BY <1>1, <1>2
        <5>2. req[r].at <= ended[u][req[r].ver]
          BY <2>2, <3>3
        <5> QED
          BY <4>2, <5>1, <5>2, TimesAssumption
      <4>4. now + StatusTTL <= ended[u][req[r].ver] + StatusTTL + Delay
        BY <1>1, <4>2, <4>3, TimesAssumption
      <4> QED
        BY <1>1, <1>2, <2>2, <3>1, <4>4, TimesAssumption
    <3> QED
      BY <1>2, <2>2, <3>2, <3>3
  <2> QED
    BY <1>5, <2>1, <2>2
<1>9. Holder'
  <2>1. req[r].pc \notin FetchPc
    BY DEF StatusAnswered, FetchPc
  <2> QED
    BY <1>1, <1>3, <1>4, <2>1 DEF IInv, Holder, FetchPc, Moves, cache, unknown
<1>10. Requests'
  <2>1. Knows(q)'
    BY <1>1, <1>3, <1>4 DEF Knows, FetchPc, StatusPc
  <2> QED
    BY <1>3, <1>4, <2>1, RequestsKept DEF IInv, cache
<1> QED
  BY <1>6, <1>7, <1>8, <1>9, <1>10 DEF IInv

-----------------------------------------------------------------------------
\* The invariant is kept by the service and the clock.
\* The service publishes or retires key k, now.
KeyChanged(k) ==
    /\ served' \in [Kid -> Served]
    /\ served'[k].at = now
    /\ \A j \in Kid : j # k => served'[j] = served[j]
    /\ UNCHANGED <<cache, unknown, status, refresh_lock, req, now, version, ended>>

LEMMA PublishChanges ==
  ASSUME IInv, NEW k \in Kid, Publish(k)
  PROVE  KeyChanged(k) /\ served'[k].state = "served"
<1> DEFINE key == [state |-> "served", at |-> now]
<1>1. key \in Served /\ key.state = "served" /\ key.at = now
  BY DEF IInv, TypeOK, Served
<1>2. served' = [served EXCEPT ![k] = key]
  BY DEF Publish, Service!Publish
<1> HIDE DEF key
<1> QED
  BY <1>1, <1>2 DEF IInv, TypeOK, KeyChanged, Publish

LEMMA RetireChanges ==
  ASSUME IInv, NEW k \in Kid, Retire(k)
  PROVE  KeyChanged(k) /\ served'[k].state = "retired"
<1> DEFINE key == [state |-> "retired", at |-> now]
<1>1. key \in Served /\ key.state = "retired" /\ key.at = now
  BY DEF IInv, TypeOK, Served
<1>2. served' = [served EXCEPT ![k] = key]
  BY DEF Retire, Service!Retire, Service!Published
<1> HIDE DEF key
<1> QED
  BY <1>1, <1>2 DEF IInv, TypeOK, KeyChanged, Retire

LEMMA KeyChangedKeeps == ASSUME IInv, NEW k \in Kid, KeyChanged(k) PROVE IInv'
<1> USE DEF KeyChanged, cache, unknown
<1>1. /\ now \in Nat /\ jwks_until \in Nat /\ served \in [Kid -> Served]
      /\ jwks_until <= now + JwksTTL /\ keys \subseteq Kid /\ req \in [Req -> Slot]
  BY DEF IInv, TypeOK, Cache
<1>2. served'[k].at = now /\ \A j \in Kid : j # k => served'[j] = served[j]
  OBVIOUS
<1>3. UNCHANGED <<cache, unknown, status, refresh_lock, req, now, version, ended>>
  OBVIOUS
<1>4. TypeOK'
  BY DEF IInv, TypeOK
<1>5. Cache'
  BY <1>1, <1>2, <1>3, TimesAssumption DEF IInv, Cache
<1>6. Statuses' /\ Holder'
  BY <1>3 DEF IInv, Statuses, Holder
<1>7. Requests'
  <2> SUFFICES ASSUME NEW p \in Req PROVE Knows(req[p])'
    BY DEF Requests
  <2>1. PICK q \in Slot : req[p] = q
    BY <1>1
  <2>2. Knows(q)
    BY <2>1 DEF IInv, Requests
  <2>3. q.at \in Nat /\ q.doc \subseteq Kid /\ q.at <= now
    BY <2>2 DEF Slot, Knows
  <2>4. Knows(q)'
    <3>1. (\A j \in q.doc : served[j].state = "retired" => q.at <= served[j].at)
          => (\A j \in q.doc : served'[j].state = "retired" => q.at <= served'[j].at)
      BY <1>2, <2>3
    <3>2. (\A j \in Kid \ q.doc : served[j].state = "served" => q.at <= served[j].at)
          => (\A j \in Kid \ q.doc : served'[j].state = "served" => q.at <= served'[j].at)
      BY <1>2, <2>3
    <3>3. q.pc = "unknown_lock" /\ served'[q.kid].state = "served" =>
              q.at < served'[q.kid].at + Delay + JwksTTL
      <4>1. ASSUME q.pc = "unknown_lock", q.kid = k
            PROVE  q.at < served'[q.kid].at + Delay + JwksTTL
        BY <1>1, <1>2, <2>3, <4>1, TimesAssumption
      <4>2. ASSUME q.pc = "unknown_lock", q.kid # k
            PROVE  served'[q.kid] = served[q.kid]
        BY <1>2, <2>2, <4>2 DEF Knows
      <4> QED
        BY <2>2, <4>1, <4>2 DEF Knows
    <3> QED
      BY <1>3, <2>2, <3>1, <3>2, <3>3 DEF Knows
  <2> QED
    BY <1>3, <2>1, <2>4 DEF Knows
<1> QED
  BY <1>4, <1>5, <1>6, <1>7 DEF IInv

LEMMA RaiseVersionKeeps == ASSUME IInv, NEW u \in User, RaiseVersion(u) PROVE IInv'
<1> DEFINE old == version[u]
<1>1. /\ now \in Nat /\ version \in [User -> Nat] /\ version[u] \in 0 .. MaxVersion
      /\ ended \in [User -> [0 .. MaxVersion -> Nat]]
      /\ status \in [User -> [until: Nat, version: Nat]] /\ req \in [Req -> Slot]
  <2>1. /\ now \in Nat /\ version \in [User -> Nat]
        /\ ended \in [User -> [0 .. MaxVersion -> Nat]]
        /\ status \in [User -> [until: Nat, version: Nat]] /\ req \in [Req -> Slot]
    BY DEF IInv, TypeOK
  <2>2. version[u] \in Nat /\ version[u] < MaxVersion
    BY <2>1 DEF RaiseVersion
  <2> QED
    BY <2>1, <2>2, TimesAssumption
<1>2. /\ version' \in [User -> Nat] /\ version'[u] = version[u] + 1
      /\ \A w \in User : w # u => version'[w] = version[w]
  BY <1>1 DEF RaiseVersion
<1>3. /\ ended' \in [User -> [0 .. MaxVersion -> Nat]] /\ ended'[u][version[u]] = now
      /\ \A w \in User, v \in 0 .. MaxVersion :
             w # u \/ v # version[u] => ended'[w][v] = ended[w][v]
  <2>1. ended' = [ended EXCEPT ![u] = [ended[u] EXCEPT ![version[u]] = now]]
    BY <1>1 DEF RaiseVersion
  <2> DEFINE row == [ended[u] EXCEPT ![version[u]] = now]
  <2>2. /\ row \in [0 .. MaxVersion -> Nat] /\ row[version[u]] = now
        /\ \A v \in 0 .. MaxVersion : v # version[u] => row[v] = ended[u][v]
    BY <1>1
  <2> HIDE DEF row
  <2>3. ended' = [ended EXCEPT ![u] = row]
    BY <2>1 DEF row
  <2> QED
    BY <1>1, <2>2, <2>3
<1>4. UNCHANGED <<keys, jwks_until, jwks_stale_until, refresh_error_until, negative_kids,
                  unknown_refresh_after, status, refresh_lock, req, now, served>>
      /\ version[u] < MaxVersion
  BY DEF RaiseVersion, cache, unknown
<1>5. TypeOK'
  BY <1>2, <1>3, <1>4 DEF IInv, TypeOK
<1>6. Cache' /\ Holder'
  BY <1>4 DEF IInv, Cache, Holder
<1>7. Statuses'
  <2> SUFFICES ASSUME NEW w \in User
               PROVE  /\ version'[w] <= MaxVersion
                      /\ status[w].version <= version'[w] /\ status[w].until <= now + StatusTTL
                      /\ \/ status[w].version = version'[w]
                         \/ status[w].until <=
                                ended'[w][status[w].version] + StatusTTL + Delay
    BY <1>4 DEF Statuses
  <2>1. /\ status[w].version \in Nat /\ status[w].until \in Nat /\ version[w] \in Nat
        /\ version[w] <= MaxVersion
        /\ status[w].version <= version[w] /\ status[w].until <= now + StatusTTL
        /\ \/ status[w].version = version[w]
           \/ status[w].until <= ended[w][status[w].version] + StatusTTL + Delay
    BY <1>1 DEF IInv, Statuses
  <2>2. status[w].version \in 0 .. MaxVersion
    BY <2>1, TimesAssumption
  <2>3. CASE w = u /\ status[w].version = version[u]
    <3>1. ended'[w][status[w].version] = now
      BY <1>3, <2>3
    <3>2. version'[w] = version[w] + 1 /\ version'[w] <= MaxVersion
      BY <1>1, <1>2, <1>4, <2>1, <2>3, TimesAssumption
    <3>3. status[w].until <= now + StatusTTL + Delay
      BY <1>1, <2>1, TimesAssumption
    <3> QED
      BY <2>1, <3>1, <3>2, <3>3
  <2>4. CASE w = u /\ status[w].version # version[u]
    <3>1. ended'[w][status[w].version] = ended[w][status[w].version]
      BY <1>3, <2>2, <2>4
    <3> QED
      BY <1>1, <1>2, <1>4, <2>1, <2>4, <3>1, TimesAssumption
  <2>5. CASE w # u
    BY <1>2, <1>3, <2>1, <2>2, <2>5
  <2> QED
    BY <2>3, <2>4, <2>5
<1>8. Requests'
  <2> SUFFICES ASSUME NEW p \in Req PROVE Knows(req[p])'
    BY DEF Requests
  <2>1. PICK q \in Slot : req[p] = q
    BY <1>1
  <2>2. Knows(q) /\ q.at \in Nat /\ q.ver \in Nat /\ q.at <= now
    BY <2>1 DEF IInv, Requests, Slot, Knows
  <2>3. q.pc \notin {"idle", "done"} => q.ver <= version'[q.user]
    <3> SUFFICES ASSUME q.pc \notin {"idle", "done"} PROVE q.ver <= version'[q.user]
      OBVIOUS
    <3>1. q.user \in User /\ q.ver <= version[q.user]
      BY <2>2 DEF Knows
    <3>2. version[q.user] \in Nat /\ version'[q.user] \in Nat
          /\ version[q.user] <= version'[q.user]
      <4>1. CASE q.user = u
        BY <1>1, <1>2, <4>1
      <4>2. CASE q.user # u
        BY <1>1, <1>2, <3>1, <4>2
      <4> QED
        BY <4>1, <4>2
    <3> QED
      BY <1>2, <2>2, <3>1, <3>2
  <2>4. ASSUME q.pc = "status_answer", q.active
        PROVE  q.ver = version'[q.user] \/ q.at <= ended'[q.user][q.ver]
    <3>1. q.user \in User /\ q.ver <= version[q.user]
      BY <2>2, <2>4 DEF Knows
    <3>2. version[q.user] \in Nat /\ version[q.user] <= MaxVersion
      BY <1>1, <3>1 DEF IInv, Statuses
    <3>3. q.ver \in 0 .. MaxVersion
      BY <2>2, <3>1, <3>2, TimesAssumption
    <3>4. CASE q.user = u /\ q.ver = version[u]
      BY <1>3, <2>2, <3>4
    <3>5. CASE q.user # u \/ q.ver # version[u]
      BY <1>2, <1>3, <2>2, <2>4, <3>1, <3>3, <3>5 DEF Knows
    <3> QED
      BY <3>4, <3>5
  <2>5. Knows(q)'
    BY <1>4, <2>2, <2>3, <2>4 DEF Knows
  <2> QED
    BY <1>4, <2>1, <2>5 DEF Knows
<1> QED
  BY <1>5, <1>6, <1>7, <1>8 DEF IInv

LEMMA TickKeeps == ASSUME IInv, Tick PROVE IInv'
<1>1. /\ now \in Nat /\ jwks_until \in Nat /\ now' = now + 1 /\ now' \in Nat
      /\ served \in [Kid -> Served] /\ status \in [User -> [until: Nat, version: Nat]]
      /\ req \in [Req -> Slot]
  BY DEF IInv, TypeOK, Tick
<1>2. UNCHANGED <<keys, jwks_until, jwks_stale_until, refresh_error_until, negative_kids,
                  unknown_refresh_after, status, refresh_lock, req, served, version, ended>>
  BY DEF Tick, cache, unknown, service
<1>3. TypeOK'
  BY <1>1, <1>2 DEF IInv, TypeOK
<1>4. Cache'
  <2>1. \A k \in Kid : served[k].at \in Nat /\ served[k].at <= now
    BY <1>1 DEF IInv, Cache, Served
  <2>2. \A k \in Kid : served[k].at <= now'
    BY <1>1, <2>1
  <2>3. jwks_until <= now' + JwksTTL
    BY <1>1, TimesAssumption DEF IInv, Cache
  <2> QED
    BY <1>2, <2>2, <2>3 DEF IInv, Cache
<1>5. Statuses'
  <2>1. \A u \in User : status[u].until <= now' + StatusTTL
    BY <1>1, TimesAssumption DEF IInv, Statuses
  <2> QED
    BY <1>2, <2>1 DEF IInv, Statuses
<1>6. Holder'
  BY <1>2 DEF IInv, Holder
<1>7. Requests'
  <2> SUFFICES ASSUME NEW p \in Req PROVE Knows(req[p])'
    BY DEF Requests
  <2>1. PICK q \in Slot : req[p] = q
    BY <1>1
  <2>2. Knows(q) /\ q.at \in Nat
    BY <2>1 DEF IInv, Requests, Slot
  <2>3. q.at <= now'
    BY <1>1, <2>2 DEF Knows
  <2>4. q.pc \in FetchPc \cup StatusPc => now' <= q.at + Delay
    BY <1>1, <2>1, <2>2, TimesAssumption DEF Tick
  <2>5. Knows(q)'
    BY <1>2, <2>2, <2>3, <2>4 DEF Knows
  <2> QED
    BY <1>2, <2>1, <2>5 DEF Knows
<1> QED
  BY <1>3, <1>4, <1>5, <1>6, <1>7 DEF IInv

LEMMA StutterKeeps == ASSUME IInv, UNCHANGED vars PROVE IInv'
<1> USE DEF vars, cache, unknown, service
<1>1. TypeOK' /\ Cache' /\ Statuses' /\ Holder'
  BY DEF IInv, TypeOK, Cache, Statuses, Holder
<1>2. Requests'
  BY DEF IInv, Requests, Knows
<1> QED
  BY <1>1, <1>2 DEF IInv

LEMMA NextKeeps == ASSUME IInv, [Next]_vars PROVE IInv'
<1>1. ASSUME NEW r \in Req, Step(r) PROVE IInv'
  BY <1>1, StartKeeps, ExpiredEnterKeeps, UnknownEnterKeeps, JwksServedKeeps,
     ExpiredFetchedKeeps, ExpiredFailedKeeps, FetchInvalidKeeps, UnknownFetchedKeeps,
     UnknownFailedKeeps, StatusServedKeeps, StatusAnsweredKeeps, StatusFailedKeeps, RespondKeeps
     DEF Step
<1>2. ASSUME NEW r \in Req, NEW k \in Kid, NEW u \in User, NEW v \in 0 .. MaxVersion,
             Arrive(r, k, u, v)
      PROVE  IInv'
  BY <1>2, ArriveKeeps
<1>3. ASSUME NEW k \in Kid, Publish(k) \/ Retire(k) PROVE IInv'
  BY <1>3, PublishChanges, RetireChanges, KeyChangedKeeps
<1>4. ASSUME NEW u \in User, RaiseVersion(u) PROVE IInv'
  BY <1>4, RaiseVersionKeeps
<1> QED
  BY <1>1, <1>2, <1>3, <1>4, TickKeeps, StutterKeeps DEF Next

LEMMA InitInv == Init => IInv
<1> SUFFICES ASSUME Init PROVE IInv
  OBVIOUS
<1> USE DEF Init
<1>1. TypeOK
  BY IdleSlot, TimesAssumption, NamesAssumption DEF TypeOK, Served
<1>2. Cache /\ Statuses
  BY TimesAssumption DEF Cache, Statuses
<1>3. Holder
  BY NamesAssumption DEF Holder, Idle, FetchPc
<1>4. Requests
  <2>1. Idle.pc = "idle" /\ Idle.at = 0
    BY DEF Idle
  <2>2. ASSUME NEW q, q.pc = "idle", q.at = 0, now = 0 PROVE Knows(q)
    BY <2>2 DEF Knows, FetchPc, StatusPc
  <2> QED
    BY <2>1, <2>2 DEF Requests
<1> QED
  BY <1>1, <1>2, <1>3, <1>4 DEF IInv

\* The invariant holds: whatever the lifetimes, the delay and the number of requests.
THEOREM Invariance == Spec => []IInv
<1>1. IInv /\ [Next]_vars => IInv'
  BY NextKeeps
<1> QED
  BY <1>1, InitInv, PTL DEF Spec

\* TypeOK: what the caches, the lock and the coroutines can hold.
THEOREM TypeCorrect == Spec => []TypeOK
<1>1. IInv => TypeOK
  BY DEF IInv
<1> QED
  BY <1>1, Invariance, PTL

-----------------------------------------------------------------------------
\* What coroutines expect of the lock is kept, when a request to the service
\* takes less time than refreshes for unknown keys are apart.
lockVars == <<keys, jwks_until, refresh_error_until, unknown_refresh_after, refresh_lock, now,
              served>>

LEMMA LineKept ==
  ASSUME IInv, Line, NEW r \in Req, NEW q \in Slot, Moves(r, q), InLine(q), UNCHANGED lockVars,
         q.pc \in FetchPc \/ req[r].pc \in FetchPc => q.pc = req[r].pc /\ q.at = req[r].at
  PROVE  Line'
<1> USE DEF lockVars
<1>1. req \in [Req -> Slot]
  BY DEF IInv, TypeOK
<1>2. ASSUME NEW h \in Req, refresh_lock = h
      PROVE  req'[h].pc = req[h].pc /\ req'[h].at = req[h].at
  <2>1. req[h].pc \in FetchPc
    BY <1>2 DEF IInv, Holder
  <2> QED
    BY <1>1, <2>1 DEF Moves
<1> SUFFICES ASSUME NEW p \in Req PROVE InLine(req[p])'
  BY DEF Line
<1>3. PICK slot \in Slot : req'[p] = slot /\ InLine(slot)
  BY <1>1 DEF Moves, Line
<1>4. InLine(slot)'
  BY <1>2, <1>3 DEF InLine, Waits
<1> QED
  BY <1>3, <1>4 DEF InLine, Waits

\* A request that has its key, and will ask for the status.
LEMMA DecodeInLine ==
  ASSUME IInv, NEW r \in Req, NEW q \in Slot, Moves(r, q), Decode(r), UNCHANGED served,
         served[req[r].kid].state = "retired" =>
             now < served[req[r].kid].at + Delay + JwksTTL + StaleTTL
  PROVE  InLine(q) /\ InLine(q)' /\ q.pc \in {"done", "status"}
<1>1. req'[r] = q
  BY DEF IInv, TypeOK, Moves
<1>2. PICK slot \in Slot :
          /\ Moves(r, slot)
          /\ \/ slot.pc = "done"
             \/ slot.pc = "status" /\ slot.at = now /\ slot.kid = req[r].kid
  BY DecodeMoves DEF IInv
<1>3. q = slot
  BY <1>1, <1>2 DEF IInv, TypeOK, Moves
<1>4. InLine(slot) /\ InLine(slot)'
  BY <1>2 DEF InLine, StatusPc
<1> QED
  BY <1>2, <1>3, <1>4

LEMMA AnsweredInLine ==
  ASSUME IInv, NEW r \in Req, NEW q \in Slot, Moves(r, q), NEW answer \in Answer,
         Answered(r, answer)
  PROVE  InLine(q) /\ InLine(q)' /\ q.pc = "done"
<1>1. PICK slot \in Slot : Moves(r, slot) /\ slot.pc = "done"
  BY AnsweredMoves
<1>2. q = slot
  BY <1>1 DEF IInv, TypeOK, Moves
<1>3. q.pc = "done"
  BY <1>1, <1>2
<1> QED
  BY <1>3 DEF InLine, StatusPc

\* The hypothesis of DecodeInLine, for a key that is cached.
LEMMA CachedKey ==
  ASSUME IInv, NEW k \in keys, served[k].state = "retired", now < jwks_stale_until
  PROVE  now < served[k].at + Delay + JwksTTL + StaleTTL
<1>1. /\ k \in Kid /\ now \in Nat /\ jwks_until \in Nat /\ jwks_stale_until \in Nat
      /\ served[k].at \in Nat
  BY DEF IInv, TypeOK, Served
<1>2. jwks_stale_until <= jwks_until + StaleTTL /\ jwks_until <= served[k].at + Delay + JwksTTL
  BY DEF IInv, Cache
<1> QED
  BY <1>1, <1>2, TimesAssumption

LEMMA ValidKey ==
  ASSUME IInv, NEW k \in keys, served[k].state = "retired", now < jwks_until
  PROVE  now < served[k].at + Delay + JwksTTL + StaleTTL
<1>1. k \in Kid /\ now \in Nat /\ jwks_until \in Nat /\ served[k].at \in Nat
  BY DEF IInv, TypeOK, Served
<1>2. jwks_until <= served[k].at + Delay + JwksTTL
  BY DEF IInv, Cache
<1> QED
  BY <1>1, <1>2, TimesAssumption

\* Looked up in a valid document: while there is one, who holds the lock fetches for
\* an unknown key, so a request that waits from now on expects it to.
LEMMA LookupInLine ==
  ASSUME IInv, Line, NEW r \in Req, NEW q \in Slot, Moves(r, q), Lookup(r, keys),
         now < jwks_until, req[r].pc \notin {"idle", "done"}, UNCHANGED served
  PROVE  InLine(q) /\ q.pc \in {"done", "status", "unknown_lock"}
<1>1. req'[r] = q /\ now \in Nat /\ jwks_until \in Nat /\ req \in [Req -> Slot]
  BY DEF IInv, TypeOK, Moves
<1>2. CASE req[r].kid \in keys /\ Decode(r)
  BY <1>2, ValidKey, DecodeInLine
<1>3. ASSUME NEW slot \in Slot, Moves(r, slot), req[r].kid \notin keys,
             \/ slot.pc = "done"
             \/ slot.pc = "unknown_lock" /\ slot.at = now /\ slot.kid = req[r].kid
      PROVE  InLine(q) /\ q.pc \in {"done", "status", "unknown_lock"}
  <2>1. q = slot
    BY <1>1, <1>3 DEF Moves
  <2>2. ASSUME NEW h \in Req, refresh_lock = h
        PROVE  req[h].pc = "unknown_fetch" /\ req[h].at <= now /\ req[h].at \in Nat
    <3>1. req[h].pc \in FetchPc /\ InLine(req[h]) /\ req[h].at <= now /\ req[h].at \in Nat
      BY <1>1, <2>2 DEF IInv, Holder, Requests, Knows, Line, Slot
    <3>2. req[h].pc # "expired_fetch"
      BY <1>1, <3>1 DEF InLine
    <3> QED
      BY <3>1, <3>2 DEF FetchPc
  <2>3. Waits(now + JwksTTL)
    BY <1>1, <2>2, TimesAssumption DEF Waits
  <2> QED
    BY <1>3, <2>1, <2>3 DEF InLine, StatusPc
<1> QED
  BY <1>2, <1>3, LookupMoves DEF IInv

\* A coroutine waits for the lock, and expects of it what Waits says.
Expects(q) ==
    \/ q.pc = "unknown_lock"
    \/ q.pc = "expired_lock" /\ q.at + JwksTTL <= jwks_until

\* When the cache has run out, and the coroutine that has waited longest finds so,
\* no other waits for the lock with a document that was valid when it began.
LEMMA NobodyExpects ==
  ASSUME IInv, Line, Delay < UnknownTTL, NEW r \in Req, req[r].pc = "expired_lock",
         NextInLine(r), now >= jwks_until, NEW p \in Req
  PROVE  ~Expects(req[p])
<1>1. /\ now \in Nat /\ jwks_until \in Nat /\ req[r].at \in Nat /\ req[p].at \in Nat
  BY DEF IInv, TypeOK, Slot
<1>2. ~Waits(jwks_until)
  BY <1>1, TimesAssumption DEF Waits, NextInLine
<1>3. ~(req[p].pc = "expired_lock" /\ req[p].at + JwksTTL <= jwks_until)
  BY <1>2 DEF Line, InLine
<1>4. ~(req[r].at + JwksTTL <= jwks_until)
  BY <1>2 DEF Line, InLine
<1>5. req[r].at >= jwks_until
  BY <1>4 DEF IInv, Requests, Knows
<1>6. ASSUME req[p].pc = "unknown_lock" PROVE FALSE
  <2>1. req[p].at < jwks_until
    BY <1>6 DEF IInv, Requests, Knows
  <2>2. req[r].at <= req[p].at
    BY <1>6 DEF NextInLine, LockPc
  <2> QED
    BY <1>1, <1>5, <2>1, <2>2
<1> QED
  BY <1>3, <1>6 DEF Expects

LEMMA ExpiredTakenInLine ==
  ASSUME IInv, Line, Delay < UnknownTTL, NEW r \in Req, NEW q \in Slot, Moves(r, q),
         req[r].pc = "expired_lock", NextInLine(r), now >= jwks_until,
         q.pc = "expired_fetch",
         UNCHANGED <<keys, jwks_until, now, served>>
  PROVE  Line'
<1> SUFFICES ASSUME NEW p \in Req PROVE InLine(req[p])'
  BY DEF Line
<1>1. CASE p = r
  <2>1. req'[p] = q
    BY <1>1 DEF IInv, TypeOK, Moves
  <2> QED
    BY <2>1 DEF InLine, StatusPc
<1>2. CASE p # r
  <2>1. PICK slot \in Slot : req[p] = slot /\ req'[p] = slot
    BY <1>2 DEF IInv, TypeOK, Moves
  <2>2. ~Expects(slot) /\ InLine(slot)
    BY <2>1, NobodyExpects DEF Line
  <2>3. InLine(slot)'
    BY <2>2 DEF InLine, Expects
  <2> QED
    BY <2>1, <2>3 DEF InLine
<1> QED
  BY <1>1, <1>2

LEMMA UnknownTakenInLine ==
  ASSUME IInv, Line, NEW r \in Req, NEW q \in Slot, Moves(r, q), refresh_lock = NoReq,
         now >= unknown_refresh_after, q.pc = "unknown_fetch", q.at = now, refresh_lock' = r,
         UNCHANGED <<keys, jwks_until, now, served>>
  PROVE  Line'
<1>1. /\ now \in Nat /\ unknown_refresh_after \in Nat /\ req'[r] = q /\ req \in [Req -> Slot]
      /\ jwks_until \in Nat
  BY DEF IInv, TypeOK, Moves
<1> SUFFICES ASSUME NEW p \in Req PROVE InLine(req[p])'
  BY DEF Line
<1>2. CASE p = r
  BY <1>1, <1>2 DEF InLine, StatusPc
<1>3. CASE p # r
  <2>1. PICK slot \in Slot : req[p] = slot /\ req'[p] = slot
    BY <1>1, <1>3 DEF Moves
  <2>2. InLine(slot) /\ slot.at \in Nat
    BY <2>1 DEF Line, Slot
  <2>3. slot.pc = "unknown_lock" => now <= slot.at /\ slot.kid \notin keys
    BY <1>1, <2>2, TimesAssumption DEF InLine, Waits
  <2>4. slot.pc = "expired_lock" /\ slot.at + JwksTTL <= jwks_until =>
            now + JwksTTL <= jwks_until
    BY <1>1, <2>2, TimesAssumption DEF InLine, Waits
  <2>5. slot.pc = "unknown_lock" => now + JwksTTL <= slot.at + JwksTTL
    BY <1>1, <2>2, <2>3, TimesAssumption
  <2>6. \A h \in Req : refresh_lock' = h => req'[h].pc = "unknown_fetch" /\ req'[h].at = now
    BY <1>1
  <2>7. refresh_lock' # NoReq
    BY NamesAssumption
  <2>8. InLine(slot)'
    BY <1>1, <2>2, <2>3, <2>4, <2>5, <2>6, <2>7 DEF InLine, Waits
  <2> QED
    BY <2>1, <2>8 DEF InLine, Waits
<1> QED
  BY <1>2, <1>3

\* The lock is given up by a fetch: what a coroutine that waited for it may expect.
LEMMA FetchEnds ==
  ASSUME IInv, Delay < UnknownTTL, NEW r \in Req, req[r].pc \in FetchPc, NEW x \in Nat, Waits(x)
  PROVE  req[r].pc = "unknown_fetch" /\ now < unknown_refresh_after /\ now + JwksTTL <= x + Delay
<1>1. /\ now \in Nat /\ req[r].at \in Nat /\ now <= req[r].at + Delay
      /\ refresh_lock = r
  BY DEF IInv, TypeOK, Slot, Requests, Knows, Holder
<1>2. req[r].pc = "unknown_fetch" /\ req[r].at + JwksTTL <= x
  BY <1>1 DEF Waits
<1>3. unknown_refresh_after = req[r].at + UnknownTTL
  BY <1>2 DEF IInv, Holder
<1> QED
  BY <1>1, <1>2, <1>3, TimesAssumption

LEMMA ReleasedInLine ==
  ASSUME IInv, Line, Delay < UnknownTTL, NEW r \in Req, NEW q \in Slot, Moves(r, q),
         req[r].pc \in FetchPc, InLine(q)', refresh_lock' = NoReq,
         UNCHANGED <<keys, jwks_until, unknown_refresh_after, now, served>>
  PROVE  Line'
<1>1. /\ now \in Nat /\ req'[r] = q /\ req \in [Req -> Slot] /\ jwks_until \in Nat
      /\ refresh_lock = r /\ r # NoReq
  BY NamesAssumption DEF IInv, TypeOK, Moves, Holder
<1> SUFFICES ASSUME NEW p \in Req PROVE InLine(req[p])'
  BY DEF Line
<1>2. CASE p = r
  BY <1>1, <1>2 DEF InLine, Waits
<1>3. CASE p # r
  <2>1. PICK slot \in Slot : req[p] = slot /\ req'[p] = slot
    BY <1>1, <1>3 DEF Moves
  <2>2. InLine(slot) /\ slot.at + JwksTTL \in Nat
    BY <2>1, TimesAssumption DEF Line, Slot
  <2>3. slot.pc = "unknown_lock" =>
            /\ slot.kid \notin keys /\ now < unknown_refresh_after
            /\ now + JwksTTL <= slot.at + JwksTTL + Delay
    BY <1>1, <2>2, FetchEnds DEF InLine
  <2>4. slot.pc = "expired_lock" /\ slot.at + JwksTTL <= jwks_until =>
            now < unknown_refresh_after /\ now + JwksTTL <= jwks_until + Delay
    BY <1>1, <2>2, FetchEnds DEF InLine
  <2>5. InLine(slot)'
    BY <2>2, <2>3, <2>4, NamesAssumption DEF InLine, Waits
  <2> QED
    BY <2>1, <2>5 DEF InLine, Waits
<1> QED
  BY <1>2, <1>3

LEMMA StoredInLine ==
  ASSUME IInv, Line, Delay < UnknownTTL, NEW r \in Req, NEW q \in Slot, Moves(r, q),
         req[r].pc \in FetchPc, Refreshed(r), InLine(q)',
         UNCHANGED <<unknown_refresh_after, now, served>>
  PROVE  Line'
<1>1. /\ now \in Nat /\ req'[r] = q /\ req \in [Req -> Slot]
      /\ refresh_lock = r /\ refresh_lock' = NoReq /\ refresh_error_until' = 0
      /\ jwks_until' = now + JwksTTL
  BY DEF IInv, TypeOK, Moves, Holder, Refreshed
<1> SUFFICES ASSUME NEW p \in Req PROVE InLine(req[p])'
  BY DEF Line
<1>2. CASE p = r
  BY <1>1, <1>2 DEF InLine, Waits
<1>3. CASE p # r
  <2>1. PICK slot \in Slot : req[p] = slot /\ req'[p] = slot
    BY <1>1, <1>3 DEF Moves
  <2>2. InLine(slot) /\ slot.at + JwksTTL \in Nat
    BY <2>1, TimesAssumption DEF Line, Slot
  <2>3. slot.pc = "unknown_lock" =>
            now < unknown_refresh_after /\ now + JwksTTL <= slot.at + JwksTTL + Delay
    BY <2>2, FetchEnds DEF InLine
  <2>4. slot.pc # "expired_fetch"
    BY <1>1, <1>3, <2>1 DEF IInv, Holder, FetchPc
  <2>5. now < jwks_until'
    BY <1>1, TimesAssumption
  <2>6. \A h \in Req : refresh_lock' # h
    BY <1>1, NamesAssumption
  <2>7. InLine(slot)'
    BY <1>1, <2>2, <2>3, <2>4, <2>5, <2>6 DEF InLine, Waits
  <2> QED
    BY <2>1, <2>7 DEF InLine, Waits
<1> QED
  BY <1>2, <1>3

-----------------------------------------------------------------------------
LEMMA DecodeOf == ASSUME NEW r \in Req, Decode(r) PROVE \E s : Moves(r, s)
  BY DEF Decode, Answered, Awaits, Moves

LEMMA LookupOf == ASSUME NEW r \in Req, NEW present, Lookup(r, present) PROVE \E s : Moves(r, s)
  BY DecodeOf DEF Lookup, Answered, Awaits, Moves

\* A step of a coroutine changes no slot but its own.
LEMMA StepMoves ==
  ASSUME IInv, NEW r \in Req, Step(r)
  PROVE  \E q \in Slot : Moves(r, q)
<1>1. \E s : Moves(r, s)
  <2>1. CASE Start(r) \/ ExpiredEnter(r) \/ ExpiredFetched(r) \/ ExpiredFailed(r)
    BY <2>1, LookupOf DEF Start, ExpiredEnter, ExpiredFetched, ExpiredFailed, Answered, Awaits,
                          Moves
  <2>2. CASE UnknownEnter(r) \/ UnknownFetched(r) \/ UnknownFailed(r) \/ FetchInvalid(r)
    BY <2>2, DecodeOf DEF UnknownEnter, UnknownFetched, UnknownFailed, FetchInvalid, Answered,
                          Awaits, Moves
  <2>3. CASE StatusAnswered(r) \/ StatusFailed(r)
    BY <2>3 DEF StatusAnswered, StatusFailed, Answered, Moves
  <2>4. CASE JwksServed(r)
    <3>1. req' = [req EXCEPT ![r] = [req[r] EXCEPT !.doc = Service!Published]]
      BY <2>4 DEF JwksServed
    <3> QED
      BY <3>1 DEF Moves
  <2>5. CASE StatusServed(r)
    <3>1. req' = [req EXCEPT ![r] = [req[r] EXCEPT
                      !.pc = "status_answer", !.active = req[r].ver = version[req[r].user]]]
      BY <2>5 DEF StatusServed
    <3> QED
      BY <3>1 DEF Moves
  <2>6. CASE Respond(r)
    BY <2>6 DEF Respond, Moves
  <2> QED
    BY <2>1, <2>2, <2>3, <2>4, <2>5, <2>6 DEF Step
<1>2. PICK s : Moves(r, s)
  BY <1>1
<1>3. req' \in [Req -> Slot] /\ req \in [Req -> Slot]
  <2>1. IInv'
    BY NextKeeps DEF Next
  <2> QED
    BY <2>1 DEF IInv, TypeOK
<1>4. s \in Slot
  BY <1>2, <1>3 DEF Moves
<1> QED
  BY <1>2, <1>4

LEMMA StartInLine == ASSUME IInv, Line, NEW r \in Req, Start(r) PROVE Line'
<1>1. PICK q \in Slot : Moves(r, q)
  BY StepMoves DEF Step
<1>2. /\ UNCHANGED lockVars /\ UNCHANGED served /\ req[r].pc = "start"
      /\ now \in Nat /\ jwks_until \in Nat
  BY DEF Start, lockVars, cache, unknown, service, IInv, TypeOK
<1>3. CASE now >= jwks_until /\ Awaits(r, "expired_lock")
  <2>1. PICK slot \in Slot : Moves(r, slot) /\ slot.pc = "expired_lock" /\ slot.at = now
    BY <1>3, AwaitsMoves DEF IInv, LockPc
  <2>2. InLine(slot)
    BY <1>2, <1>3, <2>1, TimesAssumption DEF InLine, StatusPc
  <2> QED
    BY <1>2, <2>1, <2>2, LineKept DEF FetchPc
<1>4. CASE now < jwks_until /\ Lookup(r, keys)
  BY <1>1, <1>2, <1>4, LookupInLine, LineKept DEF FetchPc
<1> QED
  BY <1>2, <1>3, <1>4 DEF Start

LEMMA ExpiredEnterInLine ==
  ASSUME IInv, Line, Delay < UnknownTTL, NEW r \in Req, ExpiredEnter(r)
  PROVE  Line'
<1>1. PICK q \in Slot : Moves(r, q)
  BY StepMoves DEF Step
<1>2. /\ UNCHANGED <<keys, jwks_until, refresh_error_until, unknown_refresh_after, now, served>>
      /\ req[r].pc = "expired_lock" /\ NextInLine(r)
      /\ now \in Nat /\ jwks_until \in Nat
  BY DEF ExpiredEnter, cache, unknown, service, IInv, TypeOK
<1>3. CASE now < jwks_until /\ Lookup(r, keys) /\ UNCHANGED refresh_lock
  BY <1>1, <1>2, <1>3, LookupInLine, LineKept DEF FetchPc, lockVars
<1>4. CASE Stale(r) /\ Lookup(r, keys) /\ UNCHANGED refresh_lock
  <2>1. req[r].kid \in keys /\ Decode(r) /\ now < jwks_stale_until
    BY <1>4 DEF Stale, Lookup
  <2>2. InLine(q) /\ q.pc \in {"done", "status"}
    BY <1>1, <1>2, <2>1, CachedKey, DecodeInLine
  <2> QED
    BY <1>1, <1>2, <1>4, <2>2, LineKept DEF FetchPc, lockVars
<1>5. CASE Answered(r, "jwks_unavailable") /\ UNCHANGED refresh_lock
  <2>1. InLine(q) /\ q.pc = "done"
    BY <1>1, <1>5, AnsweredInLine DEF Answer
  <2> QED
    BY <1>1, <1>2, <1>5, <2>1, LineKept DEF FetchPc, lockVars
<1>6. CASE now >= jwks_until /\ Awaits(r, "expired_fetch") /\ refresh_lock' = r
  <2>1. PICK slot \in Slot : Moves(r, slot) /\ slot.pc = "expired_fetch"
    BY <1>6, AwaitsMoves DEF IInv, FetchPc
  <2> QED
    BY <1>2, <1>6, <2>1, ExpiredTakenInLine
<1> QED
  BY <1>3, <1>4, <1>5, <1>6 DEF ExpiredEnter

LEMMA ExpiredFetchedInLine ==
  ASSUME IInv, Line, Delay < UnknownTTL, NEW r \in Req, ExpiredFetched(r)
  PROVE  Line'
<1>1. /\ req[r].pc \in FetchPc /\ Refreshed(r) /\ Lookup(r, req[r].doc)
      /\ UNCHANGED <<unknown_refresh_after, now, served>> /\ req[r].pc = "expired_fetch"
      /\ keys' = req[r].doc
  BY DEF ExpiredFetched, FetchPc, unknown, service, Refreshed
<1>2. /\ now \in Nat /\ jwks_until' = now + JwksTTL /\ now < jwks_until'
      /\ \A k \in req[r].doc : served[k].state = "retired" => now <= served[k].at + Delay
      /\ \A k \in Kid : served[k].at \in Nat
      /\ req[r].doc \subseteq Kid
  BY <1>1, DocumentArrived DEF IInv, TypeOK, Slot, Served
<1>3. CASE req[r].kid \in req[r].doc /\ Decode(r)
  <2>1. PICK q \in Slot : Moves(r, q)
    BY <1>3, DecodeMoves DEF IInv
  <2>2. served[req[r].kid].state = "retired" =>
            now < served[req[r].kid].at + Delay + JwksTTL + StaleTTL
    BY <1>2, <1>3, TimesAssumption
  <2>3. InLine(q)'
    BY <1>1, <1>3, <2>1, <2>2, DecodeInLine
  <2> QED
    BY <1>1, <2>1, <2>3, StoredInLine
<1>4. ASSUME req[r].kid \notin req[r].doc, NEW q \in Slot, Moves(r, q),
             \/ q.pc = "done"
             \/ q.pc = "unknown_lock" /\ q.at = now /\ q.kid = req[r].kid
      PROVE  Line'
  <2>1. refresh_lock' = NoReq
    BY <1>1 DEF Refreshed
  <2>2. InLine(q)'
    BY <1>1, <1>2, <1>4, <2>1, NamesAssumption DEF InLine, Waits, StatusPc
  <2> QED
    BY <1>1, <1>4, <2>2, StoredInLine
<1> QED
  BY <1>1, <1>3, <1>4, LookupMoves DEF IInv

LEMMA ExpiredFailedInLine ==
  ASSUME IInv, Line, Delay < UnknownTTL, NEW r \in Req, ExpiredFailed(r)
  PROVE  Line'
<1>1. PICK q \in Slot : Moves(r, q)
  BY StepMoves DEF Step
<1>2. /\ req[r].pc \in FetchPc /\ refresh_lock' = NoReq
      /\ UNCHANGED <<keys, jwks_until, unknown_refresh_after, now, served>>
  BY DEF ExpiredFailed, Failed, FetchPc, unknown, service
<1>3. CASE Stale(r) /\ Lookup(r, keys)
  <2>1. req[r].kid \in keys /\ Decode(r) /\ now < jwks_stale_until
    BY <1>3 DEF Stale, Lookup
  <2>2. InLine(q)'
    BY <1>1, <1>2, <2>1, CachedKey, DecodeInLine
  <2> QED
    BY <1>1, <1>2, <2>2, ReleasedInLine
<1>4. CASE Answered(r, "jwks_unavailable")
  <2>1. InLine(q)'
    BY <1>1, <1>4, AnsweredInLine DEF Answer
  <2> QED
    BY <1>1, <1>2, <2>1, ReleasedInLine
<1> QED
  BY <1>3, <1>4 DEF ExpiredFailed

LEMMA FetchFailedInLine ==
  ASSUME IInv, Line, Delay < UnknownTTL, NEW r \in Req, FetchInvalid(r) \/ UnknownFailed(r)
  PROVE  Line'
<1>1. PICK q \in Slot : Moves(r, q)
  BY StepMoves DEF Step
<1>2. /\ req[r].pc \in FetchPc /\ refresh_lock' = NoReq
      /\ UNCHANGED <<keys, jwks_until, unknown_refresh_after, now, served>>
      /\ Answered(r, "invalid_jwks") \/ Answered(r, "jwks_unavailable")
  BY DEF FetchInvalid, UnknownFailed, Failed, FetchPc, cache, unknown, service
<1>3. InLine(q)'
  BY <1>1, <1>2, AnsweredInLine DEF Answer
<1> QED
  BY <1>1, <1>2, <1>3, ReleasedInLine

LEMMA UnknownEnterInLine ==
  ASSUME IInv, Line, NEW r \in Req, UnknownEnter(r)
  PROVE  Line'
<1>1. PICK q \in Slot : Moves(r, q)
  BY StepMoves DEF Step
<1>2. /\ UNCHANGED <<keys, jwks_until, refresh_error_until, now, served>>
      /\ req[r].pc = "unknown_lock" /\ refresh_lock = NoReq
  BY DEF UnknownEnter, cache, service, NextInLine
<1>3. ASSUME NEW answer \in Answer, Answered(r, answer),
             UNCHANGED <<unknown_refresh_after, refresh_lock>>
      PROVE  Line'
  <2>1. InLine(q) /\ q.pc = "done"
    BY <1>1, <1>3, AnsweredInLine
  <2> QED
    BY <1>1, <1>2, <1>3, <2>1, LineKept DEF FetchPc, lockVars
<1>4. CASE req[r].kid \in keys /\ Decode(r) /\ UNCHANGED <<unknown, refresh_lock>>
  <2>1. now < jwks_until
    BY <1>2, <1>4 DEF Line, InLine
  <2>2. InLine(q) /\ q.pc \in {"done", "status"}
    BY <1>1, <1>2, <1>4, <2>1, ValidKey, DecodeInLine
  <2> QED
    BY <1>1, <1>2, <1>4, <2>2, LineKept DEF FetchPc, lockVars, unknown
<1>5. CASE now >= unknown_refresh_after /\ refresh_lock' = r /\ Awaits(r, "unknown_fetch")
  <2>1. PICK slot \in Slot : Moves(r, slot) /\ slot.pc = "unknown_fetch" /\ slot.at = now
    BY <1>5, AwaitsMoves DEF IInv, FetchPc
  <2> QED
    BY <1>2, <1>5, <2>1, UnknownTakenInLine
<1> QED
  BY <1>3, <1>4, <1>5 DEF UnknownEnter, Answer, unknown

LEMMA UnknownFetchedInLine ==
  ASSUME IInv, Line, Delay < UnknownTTL, NEW r \in Req, UnknownFetched(r)
  PROVE  Line'
<1>1. PICK q \in Slot : Moves(r, q)
  BY StepMoves DEF Step
<1>2. /\ req[r].pc \in FetchPc /\ Refreshed(r) /\ req[r].doc \subseteq Kid
      /\ UNCHANGED <<unknown_refresh_after, now, served>>
  BY DEF UnknownFetched, FetchPc, service, IInv, TypeOK, Slot
<1>3. CASE req[r].kid \in req[r].doc /\ Decode(r)
  <2>1. /\ now \in Nat /\ \A k \in Kid : served[k].at \in Nat
        /\ \A k \in req[r].doc : served[k].state = "retired" => now <= served[k].at + Delay
    BY <1>2, DocumentArrived DEF IInv, TypeOK, Served
  <2>2. served[req[r].kid].state = "retired" =>
            now < served[req[r].kid].at + Delay + JwksTTL + StaleTTL
    BY <1>2, <1>3, <2>1, TimesAssumption
  <2> QED
    BY <1>1, <1>2, <1>3, <2>2, DecodeInLine, StoredInLine
<1>4. CASE Answered(r, "unknown_key")
  BY <1>1, <1>2, <1>4, AnsweredInLine, StoredInLine DEF Answer
<1> QED
  BY <1>3, <1>4 DEF UnknownFetched

LEMMA JwksServedInLine == ASSUME IInv, Line, NEW r \in Req, JwksServed(r) PROVE Line'
<1>1. PICK q \in Slot : Moves(r, q)
  BY StepMoves DEF Step
<1>2. q = [req[r] EXCEPT !.doc = Service!Published] /\ req[r] \in Slot
  BY <1>1 DEF JwksServed, Moves, IInv, TypeOK
<1>3. q.pc = req[r].pc /\ q.at = req[r].at
  BY <1>2 DEF Slot
<1>4. InLine(q)
  <2>1. InLine(req[r]) /\ req[r].pc \in FetchPc
    BY DEF Line, JwksServed
  <2> QED
    BY <1>3, <2>1 DEF InLine, FetchPc, StatusPc
<1> QED
  BY <1>1, <1>3, <1>4, LineKept DEF JwksServed, lockVars, cache, unknown, service

LEMMA StatusServedInLine == ASSUME IInv, Line, NEW r \in Req, StatusServed(r) PROVE Line'
<1>1. PICK q \in Slot : Moves(r, q)
  BY StepMoves DEF Step
<1>2. /\ q = [req[r] EXCEPT !.pc = "status_answer",
                            !.active = req[r].ver = version[req[r].user]]
      /\ req[r] \in Slot /\ req[r].pc = "status"
  BY <1>1 DEF StatusServed, Moves, IInv, TypeOK
<1>3. q.pc = "status_answer" /\ q.at = req[r].at /\ q.kid = req[r].kid
  BY <1>2 DEF Slot
<1>4. InLine(q)
  BY <1>2, <1>3 DEF Line, InLine, StatusPc
<1> QED
  BY <1>1, <1>2, <1>3, <1>4, LineKept DEF StatusServed, lockVars, cache, unknown, service, FetchPc

LEMMA StatusEndsInLine ==
  ASSUME IInv, Line, NEW r \in Req, StatusAnswered(r) \/ StatusFailed(r)
  PROVE  Line'
<1>1. PICK q \in Slot : Moves(r, q)
  BY StepMoves DEF Step
<1>2. /\ UNCHANGED lockVars /\ req[r].pc \notin FetchPc
      /\ \E answer \in Answer : Answered(r, answer)
  BY DEF StatusAnswered, StatusFailed, Answer, lockVars, cache, unknown, service, FetchPc, StatusPc
<1>3. InLine(q) /\ q.pc = "done"
  BY <1>1, <1>2, AnsweredInLine
<1> QED
  BY <1>1, <1>2, <1>3, LineKept DEF FetchPc

LEMMA RespondInLine == ASSUME IInv, Line, NEW r \in Req, Respond(r) PROVE Line'
<1>1. PICK q \in Slot : Moves(r, q) /\ q.pc = "idle"
  BY IdleSlot DEF Respond, Moves, Idle
<1>2. InLine(q)
  BY <1>1 DEF InLine, StatusPc
<1> QED
  BY <1>1, <1>2, LineKept DEF Respond, lockVars, cache, unknown, service, FetchPc

LEMMA ArriveInLine ==
  ASSUME IInv, Line, NEW r \in Req, NEW k \in Kid, NEW u \in User, NEW v \in 0 .. MaxVersion,
         Arrive(r, k, u, v)
  PROVE  Line'
<1>1. PICK q \in Slot : Moves(r, q) /\ q.pc = "start"
  <2> DEFINE slot == [Idle EXCEPT !.pc = "start", !.kid = k, !.user = u, !.ver = v]
  <2>1. v \in Nat
    BY TimesAssumption
  <2>2. slot \in Slot /\ slot.pc = "start"
    BY <2>1 DEF Idle, Slot, Answer
  <2>3. Moves(r, slot)
    BY DEF Arrive, Moves
  <2> QED
    BY <2>2, <2>3
<1>2. InLine(q)
  BY <1>1 DEF InLine, StatusPc
<1> QED
  BY <1>1, <1>2, LineKept DEF Arrive, lockVars, cache, unknown, service, FetchPc

LEMMA KeyChangedInLine ==
  ASSUME IInv, Line, NEW k \in Kid, KeyChanged(k)
  PROVE  Line'
<1>1. /\ now \in Nat /\ req' = req /\ req \in [Req -> Slot] /\ served'[k].at = now
      /\ \A j \in Kid : j # k => served'[j] = served[j]
      /\ UNCHANGED <<keys, jwks_until, refresh_error_until, unknown_refresh_after, refresh_lock,
                     now>>
  BY DEF KeyChanged, cache, unknown, IInv, TypeOK
<1> SUFFICES ASSUME NEW p \in Req PROVE InLine(req[p])'
  BY DEF Line
<1>2. PICK slot \in Slot : req[p] = slot
  BY <1>1
<1>3. InLine(slot) /\ slot.at \in Nat /\ slot.at <= now
  BY <1>2 DEF Line, IInv, Requests, Knows, Slot
<1>4. ASSUME slot.pc \in StatusPc, served'[slot.kid].state = "retired"
      PROVE  slot.at < served'[slot.kid].at + Delay + JwksTTL + StaleTTL
  <2>1. CASE slot.kid = k
    BY <1>1, <1>3, <2>1, TimesAssumption
  <2>2. CASE slot.kid # k
    <3>1. slot.kid \in Kid
      BY <1>2, <1>4 DEF IInv, Requests, Knows, StatusPc
    <3> QED
      BY <1>1, <1>3, <1>4, <2>2, <3>1 DEF InLine
  <2> QED
    BY <2>1, <2>2
<1>5. InLine(slot)'
  BY <1>1, <1>3, <1>4 DEF InLine, Waits
<1> QED
  BY <1>1, <1>2, <1>5 DEF InLine, Waits

\* While the lock is free time does not pass for those who wait for it.
LEMMA TickInLine == ASSUME IInv, Line, Tick PROVE Line'
<1>1. /\ now \in Nat /\ jwks_until \in Nat /\ now' = now + 1 /\ req' = req
      /\ req \in [Req -> Slot]
      /\ UNCHANGED <<keys, jwks_until, refresh_error_until, unknown_refresh_after, refresh_lock,
                     served>>
  BY DEF Tick, cache, unknown, service, IInv, TypeOK
<1> SUFFICES ASSUME NEW p \in Req PROVE InLine(req[p])'
  BY DEF Line
<1>2. PICK slot \in Slot : req[p] = slot
  BY <1>1
<1>3. InLine(slot)
  BY <1>2 DEF Line
<1>4. slot.pc \in LockPc => refresh_lock # NoReq
  BY <1>2 DEF Tick, Ready
<1>5. slot.pc = "expired_fetch" => now' >= jwks_until
  BY <1>1, <1>3 DEF InLine
<1>6. InLine(slot)'
  BY <1>1, <1>3, <1>4, <1>5 DEF InLine, Waits, LockPc
<1> QED
  BY <1>1, <1>2, <1>6 DEF InLine, Waits

LEMMA SameInLine == ASSUME Line, UNCHANGED <<lockVars, req>> PROVE Line'
<1> SUFFICES ASSUME NEW p \in Req PROVE InLine(req[p])'
  BY DEF Line
<1>1. InLine(req[p])
  BY DEF Line
<1> QED
  BY <1>1 DEF lockVars, InLine, Waits

LEMMA NextInLineKept ==
  ASSUME IInv, Line, Delay < UnknownTTL, [Next]_vars
  PROVE  Line'
<1>1. ASSUME NEW r \in Req, Step(r) PROVE Line'
  BY <1>1, StartInLine, ExpiredEnterInLine, UnknownEnterInLine, JwksServedInLine,
     ExpiredFetchedInLine, ExpiredFailedInLine, FetchFailedInLine, UnknownFetchedInLine,
     StatusServedInLine, StatusEndsInLine, RespondInLine
     DEF Step
<1>2. ASSUME NEW r \in Req, NEW k \in Kid, NEW u \in User, NEW v \in 0 .. MaxVersion,
             Arrive(r, k, u, v)
      PROVE  Line'
  BY <1>2, ArriveInLine
<1>3. ASSUME NEW k \in Kid, Publish(k) \/ Retire(k) PROVE Line'
  BY <1>3, PublishChanges, RetireChanges, KeyChangedInLine
<1>4. ASSUME NEW u \in User, RaiseVersion(u) PROVE Line'
  BY <1>4, SameInLine DEF RaiseVersion, lockVars, cache, unknown
<1>5. ASSUME UNCHANGED vars PROVE Line'
  BY <1>5, SameInLine DEF vars, lockVars, cache, unknown, service
<1> QED
  BY <1>1, <1>2, <1>3, <1>4, <1>5, TickInLine DEF Next

LEMMA InitInLine == Init => Line
<1>1. Idle.pc = "idle"
  BY DEF Idle
<1>2. Init => \A r \in Req : req[r].pc = "idle"
  BY <1>1 DEF Init
<1> QED
  BY <1>2 DEF Line, InLine, StatusPc

\* The second layer of the invariant, for fetches that are shorter than UnknownTTL.
THEOREM LineInvariance == ASSUME Delay < UnknownTTL PROVE Spec => [](IInv /\ Line)
<1>1. IInv /\ Line /\ [Next]_vars => (IInv /\ Line)'
  BY NextKeeps, NextInLineKept
<1>2. Init => IInv /\ Line
  BY InitInv, InitInLine
<1> QED
  BY <1>1, <1>2, PTL DEF Spec

-----------------------------------------------------------------------------
\* Which step gives an answer, and why.
LEMMA AnsweredIs ==
  ASSUME TypeOK, NEW r \in Req, NEW answer, Answered(r, answer)
  PROVE  req'[r].pc = "done" /\ req'[r].answer = answer
  BY DEF TypeOK, Answered, Idle

LEMMA AwaitsIs ==
  ASSUME TypeOK, NEW r \in Req, NEW pc, Awaits(r, pc)
  PROVE  req'[r].pc = pc
<1>1. /\ req[r] \in Slot
      /\ req' = [req EXCEPT ![r] = [req[r] EXCEPT !.pc = pc, !.at = now, !.doc = {}]]
  BY DEF TypeOK, Awaits
<1> QED
  BY <1>1 DEF TypeOK, Slot

LEMMA DecodeIs ==
  ASSUME TypeOK, NEW r \in Req, Decode(r), req'[r].pc = "done"
  PROVE  \/ req'[r].answer = "rejected"
         \/ req'[r].answer = "principal" /\ StatusHit(r)
<1>1. ~Awaits(r, "status")
  BY AwaitsIs
<1>2. CASE Answered(r, "rejected")
  BY <1>2, AnsweredIs
<1>3. CASE StatusHit(r) /\ Answered(r, "principal")
  BY <1>3, AnsweredIs
<1> QED
  BY <1>1, <1>2, <1>3 DEF Decode

LEMMA LookupIs ==
  ASSUME TypeOK, NEW r \in Req, NEW present, Lookup(r, present), req'[r].pc = "done"
  PROVE  \/ req'[r].answer = "rejected"
         \/ req'[r].answer = "principal" /\ StatusHit(r) /\ req[r].kid \in present
         \/ req'[r].answer = "unknown_key" /\ req[r].kid \notin present
<1>1. ~Awaits(r, "unknown_lock")
  BY AwaitsIs
<1> QED
  BY <1>1, AnsweredIs, DecodeIs DEF Lookup

\* An answer is given by a step of the coroutine that gives it.
LEMMA OwnStep ==
  ASSUME IInv, [Next]_vars, NEW r \in Req, NEW answer, Answers(r, answer)
  PROVE  Step(r)
<1>1. req \in [Req -> Slot] /\ req'[r].pc # req[r].pc
  BY DEF IInv, TypeOK, Answers
<1>2. ASSUME NEW p \in Req, Step(p) PROVE p = r
  BY <1>1, <1>2, StepMoves DEF Moves
<1>3. ASSUME NEW p \in Req, NEW k \in Kid, NEW u \in User, NEW v \in 0 .. MaxVersion,
             Arrive(p, k, u, v)
      PROVE  FALSE
  <2>1. p = r
    BY <1>1, <1>3 DEF Arrive
  <2>2. req'[r].pc = "start"
    BY <1>1, <1>3, <2>1 DEF Arrive, Idle
  <2> QED
    BY <2>2 DEF Answers
<1>4. req' # req
  BY <1>1
<1> QED
  BY <1>2, <1>3, <1>4 DEF Next, Publish, Retire, RaiseVersion, Tick, vars

\* A Principal needs the key, and the status: cached, or answered.
LEMMA WhyPrincipal ==
  ASSUME IInv, NEW r \in Req, Step(r), Answers(r, "principal")
  PROVE  \/ /\ StatusHit(r)
            /\ \/ req[r].kid \in keys /\ (now < jwks_until \/ now < jwks_stale_until)
               \/ req[r].kid \in keys /\ req[r].pc = "unknown_lock"
               \/ req[r].kid \in req[r].doc /\ req[r].pc \in FetchPc /\ Refreshed(r)
            /\ req[r].pc \notin {"idle", "done"}
         \/ req[r].pc = "status_answer" /\ req[r].active
<1>1. /\ TypeOK /\ req'[r].pc = "done" /\ req'[r].answer = "principal"
      /\ now \in Nat /\ jwks_until \in Nat
  BY DEF IInv, TypeOK, Answers
<1>2. ASSUME Start(r) PROVE now < jwks_until /\ Lookup(r, keys) /\ req[r].pc = "start"
  BY <1>1, <1>2, AwaitsIs DEF Start
<1>3. ASSUME ExpiredEnter(r)
      PROVE  /\ Lookup(r, keys) /\ req[r].pc = "expired_lock"
             /\ now < jwks_until \/ now < jwks_stale_until
  BY <1>1, <1>3, AwaitsIs, AnsweredIs DEF ExpiredEnter, Stale
<1>4. ASSUME ExpiredFailed(r)
      PROVE  Lookup(r, keys) /\ req[r].pc = "expired_fetch" /\ now < jwks_stale_until
  BY <1>1, <1>4, AnsweredIs DEF ExpiredFailed, Stale
<1>5. ASSUME UnknownEnter(r)
      PROVE  req[r].kid \in keys /\ Decode(r) /\ req[r].pc = "unknown_lock"
  BY <1>1, <1>5, AwaitsIs, AnsweredIs DEF UnknownEnter
<1>6. ASSUME UnknownFetched(r)
      PROVE  /\ req[r].kid \in req[r].doc /\ Decode(r) /\ req[r].pc = "unknown_fetch"
             /\ Refreshed(r)
  BY <1>1, <1>6, AnsweredIs DEF UnknownFetched
<1>7. ASSUME ExpiredFetched(r)
      PROVE  Lookup(r, req[r].doc) /\ req[r].pc = "expired_fetch" /\ Refreshed(r)
  BY <1>7 DEF ExpiredFetched
<1>8. ~(FetchInvalid(r) \/ UnknownFailed(r) \/ StatusFailed(r))
  BY <1>1, AnsweredIs DEF FetchInvalid, UnknownFailed, StatusFailed
<1>9. ASSUME StatusAnswered(r) PROVE req[r].pc = "status_answer" /\ req[r].active
  BY <1>1, <1>9, AnsweredIs DEF StatusAnswered
<1>10. ~(JwksServed(r) \/ StatusServed(r) \/ Respond(r))
  <2>1. ASSUME JwksServed(r) PROVE req'[r].pc = req[r].pc
    BY <1>1, <2>1 DEF JwksServed, TypeOK, Slot
  <2>2. ASSUME StatusServed(r) PROVE req'[r].pc = "status_answer"
    BY <1>1, <2>2 DEF StatusServed, TypeOK, Slot
  <2>3. ASSUME Respond(r) PROVE req'[r].pc = "idle"
    BY <1>1, <2>3 DEF Respond, TypeOK, Idle
  <2> QED
    BY <1>1, <2>1, <2>2, <2>3 DEF Answers
<1>11. CASE Start(r)
  BY <1>1, <1>2, <1>11, LookupIs
<1>12. CASE ExpiredEnter(r)
  BY <1>1, <1>3, <1>12, LookupIs
<1>13. CASE ExpiredFailed(r)
  BY <1>1, <1>4, <1>13, LookupIs
<1>14. CASE UnknownEnter(r)
  BY <1>1, <1>5, <1>14, DecodeIs
<1>15. CASE UnknownFetched(r)
  BY <1>1, <1>6, <1>15, DecodeIs DEF FetchPc
<1>16. CASE ExpiredFetched(r)
  BY <1>1, <1>7, <1>16, LookupIs DEF FetchPc
<1> QED
  BY <1>8, <1>9, <1>10, <1>11, <1>12, <1>13, <1>14, <1>15, <1>16 DEF Step

\* "unknown signing key" is said of a key that a document lacks.
LEMMA WhyUnknownKey ==
  ASSUME IInv, NEW r \in Req, Step(r), Answers(r, "unknown_key")
  PROVE  \/ req[r].kid \notin keys /\ now < jwks_until /\ req[r].pc \in {"start", "expired_lock"}
         \/ req[r].pc = "unknown_lock" /\ refresh_lock = NoReq
         \/ req[r].kid \notin req[r].doc /\ req[r].pc \in FetchPc /\ Refreshed(r)
<1>1. /\ TypeOK /\ req'[r].pc = "done" /\ req'[r].answer = "unknown_key"
      /\ now \in Nat /\ jwks_until \in Nat
  BY DEF IInv, TypeOK, Answers
<1>2. CASE Start(r)
  <2>1. Lookup(r, keys) /\ now < jwks_until /\ req[r].pc = "start"
    BY <1>1, <1>2, AwaitsIs DEF Start
  <2> QED
    BY <1>1, <2>1, LookupIs
<1>3. CASE ExpiredEnter(r)
  <2>1. ~(Stale(r) /\ Lookup(r, keys))
    BY <1>1, LookupIs DEF Stale
  <2>2. Lookup(r, keys) /\ now < jwks_until /\ req[r].pc = "expired_lock"
    BY <1>1, <1>3, <2>1, AwaitsIs, AnsweredIs DEF ExpiredEnter
  <2> QED
    BY <1>1, <2>2, LookupIs
<1>4. CASE ExpiredFetched(r)
  BY <1>1, <1>4, LookupIs DEF ExpiredFetched, FetchPc
<1>5. CASE ExpiredFailed(r)
  <2>1. ~(Stale(r) /\ Lookup(r, keys))
    BY <1>1, LookupIs DEF Stale
  <2> QED
    BY <1>1, <1>5, <2>1, AnsweredIs DEF ExpiredFailed
<1>6. CASE UnknownEnter(r)
  BY <1>6 DEF UnknownEnter, NextInLine
<1>7. CASE UnknownFetched(r)
  BY <1>1, <1>7, DecodeIs DEF UnknownFetched, FetchPc
<1>8. CASE FetchInvalid(r) \/ UnknownFailed(r) \/ StatusFailed(r) \/ StatusAnswered(r)
  BY <1>1, <1>8, AnsweredIs DEF FetchInvalid, UnknownFailed, StatusFailed, StatusAnswered
<1>9. CASE JwksServed(r)
  <2>1. req'[r].pc = req[r].pc
    BY <1>1, <1>9 DEF JwksServed, TypeOK, Slot
  <2> QED
    BY <2>1 DEF Answers
<1>10. CASE StatusServed(r)
  BY <1>1, <1>10 DEF StatusServed, TypeOK, Slot
<1>11. CASE Respond(r)
  BY <1>1, <1>11 DEF Respond, TypeOK, Idle
<1> QED
  BY <1>2, <1>3, <1>4, <1>5, <1>6, <1>7, <1>8, <1>9, <1>10, <1>11 DEF Step

\* The JWKS is said to be unavailable without a key to bridge the outage, or by a
\* coroutine that waited for an unknown key.
LEMMA WhyUnavailable ==
  ASSUME IInv, NEW r \in Req, Step(r), Answers(r, "jwks_unavailable")
  PROVE  \/ ~Stale(r)
         \/ req[r].pc = "unknown_lock" /\ now < refresh_error_until
         \/ req[r].pc = "unknown_fetch"
<1>1. /\ TypeOK /\ req'[r].pc = "done" /\ req'[r].answer = "jwks_unavailable"
  BY DEF IInv, TypeOK, Answers
<1>2. CASE Start(r)
  <2>1. ~Lookup(r, keys)
    BY <1>1, LookupIs
  <2> QED
    BY <1>1, <1>2, <2>1, AwaitsIs DEF Start
<1>3. CASE ExpiredEnter(r)
  <2>1. ~Lookup(r, keys)
    BY <1>1, LookupIs
  <2> QED
    BY <1>1, <1>3, <2>1, AwaitsIs DEF ExpiredEnter
<1>4. CASE ExpiredFetched(r)
  BY <1>1, <1>4, LookupIs DEF ExpiredFetched
<1>5. CASE ExpiredFailed(r)
  <2>1. ~Lookup(r, keys)
    BY <1>1, LookupIs
  <2> QED
    BY <1>1, <1>5, <2>1 DEF ExpiredFailed
<1>6. CASE UnknownEnter(r)
  <2>1. ~Decode(r) /\ ~Awaits(r, "unknown_fetch") /\ ~Answered(r, "unknown_key")
    BY <1>1, DecodeIs, AwaitsIs, AnsweredIs
  <2> QED
    BY <1>6, <2>1 DEF UnknownEnter
<1>7. CASE UnknownFetched(r)
  BY <1>7 DEF UnknownFetched
<1>8. CASE FetchInvalid(r) \/ StatusFailed(r) \/ StatusAnswered(r)
  BY <1>1, <1>8, AnsweredIs DEF FetchInvalid, StatusFailed, StatusAnswered
<1>9. CASE UnknownFailed(r)
  BY <1>9 DEF UnknownFailed
<1>10. CASE JwksServed(r)
  <2>1. req'[r].pc = req[r].pc
    BY <1>1, <1>10 DEF JwksServed, TypeOK, Slot
  <2> QED
    BY <2>1 DEF Answers
<1>11. CASE StatusServed(r)
  BY <1>1, <1>11 DEF StatusServed, TypeOK, Slot
<1>12. CASE Respond(r)
  BY <1>1, <1>12 DEF Respond, TypeOK, Idle
<1> QED
  BY <1>2, <1>3, <1>4, <1>5, <1>6, <1>7, <1>8, <1>9, <1>10, <1>11, <1>12 DEF Step

-----------------------------------------------------------------------------
\* RevocationBounded: the answers of /auth/status that arrive late or out of order
\* keep a revoked token alive no longer than StatusTTL after the last that was true.
THEOREM RevocationsBounded == Spec => RevocationBounded
<1>1. ASSUME IInv, [Next]_vars, NEW r \in Req, Answers(r, "principal"),
             req[r].ver # version[req[r].user]
      PROVE  now < ended[req[r].user][req[r].ver] + StatusTTL + Delay
  <2> DEFINE u == req[r].user
             v == req[r].ver
  <2>1. Step(r)
    BY <1>1, OwnStep
  <2>2. req[r].pc \notin {"idle", "done"} /\ Knows(req[r])
    <3>1. Knows(req[r])
      BY <1>1 DEF IInv, Requests
    <3> QED
      BY <1>1, <2>1, <3>1, WhyPrincipal
  <2>3. u \in User /\ v \in Nat /\ v <= version[u] /\ req[r].at \in Nat
    BY <1>1, <2>2 DEF Knows, IInv, TypeOK, Slot
  <2>4. version[u] \in Nat /\ version[u] <= MaxVersion
    BY <1>1, <2>3 DEF IInv, TypeOK, Statuses
  <2>5. v \in 0 .. MaxVersion
    BY <2>3, <2>4, TimesAssumption
  <2>6. now \in Nat /\ ended[u][v] \in Nat
    BY <1>1, <2>3, <2>5 DEF IInv, TypeOK
  <2>7. CASE StatusHit(r)
    <3>1. now < status[u].until /\ status[u].version = v
      BY <2>7 DEF StatusHit
    <3>2. status[u].until \in Nat /\ status[u].until <= ended[u][v] + StatusTTL + Delay
      BY <1>1, <2>3, <3>1 DEF IInv, TypeOK, Statuses
    <3> QED
      BY <2>6, <3>1, <3>2, TimesAssumption
  <2>8. CASE req[r].pc = "status_answer" /\ req[r].active
    <3>1. now <= req[r].at + Delay /\ req[r].at <= ended[u][v]
      BY <1>1, <2>2, <2>8 DEF Knows, StatusPc
    <3> QED
      BY <2>3, <2>6, <3>1, TimesAssumption
  <2> QED
    BY <1>1, <2>1, <2>7, <2>8, WhyPrincipal
<1>2. IInv /\ [Next]_vars =>
          [\A r \in Req : Answers(r, "principal") =>
               LET u == req[r].user
                   v == req[r].ver
               IN  v = version[u] \/ now < ended[u][v] + StatusTTL + Delay]_vars
  BY <1>1
<1> QED
  BY <1>2, Invariance, PTL DEF Spec, RevocationBounded

\* RetiredKeyBounded: a key that the service has retired verifies no token after
\* both lifetimes and two requests to the service.
THEOREM RetiredKeysBounded == ASSUME Delay < UnknownTTL PROVE Spec => RetiredKeyBounded
<1>1. ASSUME IInv, Line, [Next]_vars, NEW r \in Req, Answers(r, "principal"),
             served[req[r].kid].state = "retired"
      PROVE  now < served[req[r].kid].at + JwksTTL + StaleTTL + 2 * Delay
  <2> DEFINE key == served[req[r].kid]
  <2>1. Step(r)
    BY <1>1, OwnStep
  <2>2. req[r].pc \notin {"idle", "done"} /\ Knows(req[r])
    <3>1. Knows(req[r])
      BY <1>1 DEF IInv, Requests
    <3> QED
      BY <1>1, <2>1, <3>1, WhyPrincipal
  <2>3. req[r].kid \in Kid /\ key.at \in Nat /\ now \in Nat /\ req[r].at \in Nat
    BY <1>1, <2>2 DEF Knows, IInv, TypeOK, Slot, Served
  <2>4. CASE req[r].kid \in keys /\ (now < jwks_until \/ now < jwks_stale_until)
    <3>1. now < key.at + Delay + JwksTTL + StaleTTL
      BY <1>1, <2>4, ValidKey, CachedKey
    <3> QED
      BY <2>3, <3>1, TimesAssumption
  <2>5. CASE req[r].kid \in keys /\ req[r].pc = "unknown_lock"
    <3>1. now < jwks_until
      BY <1>1, <2>5 DEF Line, InLine
    <3>2. now < key.at + Delay + JwksTTL + StaleTTL
      BY <1>1, <2>5, <3>1, ValidKey
    <3> QED
      BY <2>3, <3>2, TimesAssumption
  <2>6. CASE req[r].kid \in req[r].doc /\ req[r].pc \in FetchPc /\ Refreshed(r)
    <3>1. now <= key.at + Delay
      BY <1>1, <2>6, DocumentArrived
    <3> QED
      BY <2>3, <3>1, TimesAssumption
  <2>7. CASE req[r].pc = "status_answer"
    <3>1. req[r].at < key.at + Delay + JwksTTL + StaleTTL /\ now <= req[r].at + Delay
      BY <1>1, <2>2, <2>7 DEF Line, InLine, Knows, StatusPc
    <3> QED
      BY <2>3, <3>1, TimesAssumption
  <2> QED
    BY <1>1, <2>1, <2>4, <2>5, <2>6, <2>7, WhyPrincipal
<1>2. IInv /\ Line /\ [Next]_vars =>
          [\A r \in Req : Answers(r, "principal") =>
               LET key == served[req[r].kid]
               IN  key.state = "retired" => now < key.at + JwksTTL + StaleTTL + 2 * Delay]_vars
  BY <1>1
<1> QED
  BY <1>2, LineInvariance, PTL DEF Spec, RetiredKeyBounded

\* PublishedKeyKnown: neither a negative entry nor the limit on refreshes hides a key
\* that has been served for JwksTTL and two requests to the service.
THEOREM PublishedKeysKnown == ASSUME Delay < UnknownTTL PROVE Spec => PublishedKeyKnown
<1>1. ASSUME IInv, Line, [Next]_vars, NEW r \in Req, Answers(r, "unknown_key"),
             served[req[r].kid].state = "served"
      PROVE  now < served[req[r].kid].at + JwksTTL + 2 * Delay
  <2> DEFINE key == served[req[r].kid]
  <2>1. Step(r)
    BY <1>1, OwnStep
  <2>2. /\ req[r].pc \notin {"idle", "done"} /\ Knows(req[r])
        /\ InLine(req[r])
    <3>1. Knows(req[r]) /\ InLine(req[r])
      BY <1>1 DEF IInv, Requests, Line
    <3> QED
      BY <1>1, <2>1, <3>1, WhyUnknownKey DEF FetchPc
  <2>3. req[r].kid \in Kid /\ key.at \in Nat /\ now \in Nat /\ req[r].at \in Nat
    BY <1>1, <2>2 DEF Knows, IInv, TypeOK, Slot, Served
  <2>4. CASE req[r].kid \notin keys /\ now < jwks_until
    <3>1. now < key.at + Delay + JwksTTL
      BY <1>1, <2>3, <2>4, ValidDocument
    <3> QED
      BY <2>3, <3>1, TimesAssumption
  <2>5. CASE req[r].pc = "unknown_lock" /\ refresh_lock = NoReq
    <3>1. req[r].at < key.at + Delay + JwksTTL
      BY <1>1, <2>2, <2>5 DEF Knows
    <3>2. \/ now + JwksTTL <= req[r].at + JwksTTL
          \/ now + JwksTTL <= req[r].at + JwksTTL + Delay
      BY <2>2, <2>5 DEF InLine, Waits
    <3> QED
      BY <2>3, <3>1, <3>2, TimesAssumption
  <2>6. CASE req[r].kid \notin req[r].doc /\ req[r].pc \in FetchPc /\ Refreshed(r)
    <3>1. now <= key.at + Delay
      BY <1>1, <2>3, <2>6, DocumentArrived
    <3> QED
      BY <2>3, <3>1, TimesAssumption
  <2> QED
    BY <1>1, <2>1, <2>4, <2>5, <2>6, WhyUnknownKey
<1>2. IInv /\ Line /\ [Next]_vars =>
          [\A r \in Req : Answers(r, "unknown_key") =>
               LET key == served[req[r].kid]
               IN  key.state = "served" => now < key.at + JwksTTL + 2 * Delay]_vars
  BY <1>1
<1> QED
  BY <1>2, LineInvariance, PTL DEF Spec, PublishedKeyKnown

\* OutageBridged: "JWKS unavailable" is never said of a cached key that may still
\* be used, not even to a request that waited while another fetched.
THEOREM OutagesBridged == ASSUME Delay < UnknownTTL PROVE Spec => OutageBridged
<1>1. ASSUME IInv, Line, [Next]_vars, NEW r \in Req, Answers(r, "jwks_unavailable")
      PROVE  req[r].kid \notin keys \/ now >= jwks_stale_until
  <2>1. Step(r) /\ InLine(req[r])
    BY <1>1, OwnStep DEF Line
  <2>2. now \in Nat /\ jwks_stale_until \in Nat
    BY <1>1 DEF IInv, TypeOK
  <2>3. CASE ~Stale(r)
    BY <2>2, <2>3 DEF Stale
  <2>4. CASE req[r].pc = "unknown_lock" /\ now < refresh_error_until
    BY <2>1, <2>2, <2>4 DEF InLine
  <2>5. CASE req[r].pc = "unknown_fetch"
    BY <1>1, <2>5 DEF IInv, Holder
  <2> QED
    BY <1>1, <2>1, <2>3, <2>4, <2>5, WhyUnavailable
<1>2. IInv /\ Line /\ [Next]_vars =>
          [\A r \in Req : Answers(r, "jwks_unavailable") =>
               req[r].kid \notin keys \/ now >= jwks_stale_until]_vars
  BY <1>1
<1> QED
  BY <1>2, LineInvariance, PTL DEF Spec, OutageBridged
===============================================================================
