--------------------------- MODULE SessionsProofs ---------------------------
(***************************************************************************)
(* Proofs about Sessions, for any number of requests, accounts and grants. *)
(*                                                                         *)
(* The argument: the row locks a request holds keep what it has read true  *)
(* (Knows) until its transaction ends, and two requests never hold locks   *)
(* that exclude each other (Compatible).                                   *)
(***************************************************************************)
EXTENDS Sessions, TLAPS

-----------------------------------------------------------------------------
(***************************************************************************)
(* The inductive invariant.                                                *)
(***************************************************************************)

RotatePc == {"rotate_claim", "rotate_insert", "rotate_commit"}
BundlePc == {"bundle_user", "bundle_roles", "bundle_insert", "bundle_commit"}
ReadPc   == {"bundle_roles", "bundle_insert", "bundle_commit"}
AdminPc  == LockedPc \cup {"admin_role", "admin_lock"}

\* Which fields a slot has filled in, by where its handler stands.
SlotShape(s) ==
    /\ s.pc # "idle" => s.user \in User
    /\ s.pc = "idle" => s.new = NoGrant
    /\ s.pc \in AdminPc <=> s.op \in AdminOp
    /\ s.pc \in RotatePc => s.op = "refresh" /\ s.old \in Grant
    /\ s.pc \in RotatePc \cup BundlePc => s.new \in Grant
    /\ s.pc \in BundlePc => s.op \in {"login", "refresh"}
    /\ s.pc = "bundle_insert" => s.op = "login"
    /\ s.op \in {"grant_role", "remove_role"} => s.role \in Role

\* What a slot is about to insert is not in refresh_grants yet, and the grant
\* it rotates belongs to the account it works for.
GrantKnown(s) ==
    /\ s.pc \in RotatePc \/ (s.pc \in BundlePc /\ s.op = "login")
          => grants[s.new].state = "absent"
    /\ s.pc \in BundlePc /\ s.op = "refresh" => grants[s.new].state # "absent"
    /\ s.pc \in RotatePc => /\ grants[s.old].state # "absent"
                            /\ grants[s.old].user = s.user

\* A claimed grant stays live until the rotation commits; while the grant that
\* is being rotated is live, its account is active.
RotationKnown(s) ==
    /\ s.pc \in {"rotate_insert", "rotate_commit"} => grants[s.old].state = "live"
    /\ s.pc \in RotatePc /\ grants[s.old].state = "live" => users[s.user].status = "active"

\* Under its lock an admin handler holds the account's present version; its
\* UPDATE has seen every live grant of the account, and when it commits it has
\* exactly those.
InvalidationKnown(s) ==
    /\ s.pc \in LockedPc => s.ver = users[s.user].version
    /\ s.pc \in {"admin_consume", "admin_commit"} =>
          \A g \in Grant :
              /\ grants[g].state = "live" /\ grants[g].user = s.user => g \in s.pend
              /\ g \in s.pend => grants[g].user = s.user /\ grants[g].state # "absent"
    /\ s.pc = "admin_commit" => \A g \in s.pend : grants[g].state = "live"

\* What a version and roles that were read say of the account: at its present
\* version the account is active and has these roles.
Current(u, version, roles) ==
    version = users[u].version => users[u].status = "active" /\ roles = users[u].roles

ReadingKnown(s) ==
    /\ s.pc \in ReadPc => s.ver <= users[s.user].version
    /\ s.pc = "bundle_roles" /\ s.ver = users[s.user].version
          => users[s.user].status = "active"
    /\ s.pc \in {"bundle_insert", "bundle_commit"} => Current(s.user, s.ver, s.roles)

Knows(s) ==
    /\ SlotShape(s)
    /\ GrantKnown(s)
    /\ RotationKnown(s)
    /\ InvalidationKnown(s)
    /\ ReadingKnown(s)

\* The locks a slot holds (OwnerOf, SharersOf and HolderOf, seen from the slot).
Owns(s) == s.pc \in LockedPc

Shares(s) == s.pc = "rotate_commit" \/ (s.pc = "bundle_commit" /\ s.op = "login")

Holds(s, g) ==
    \/ s.pc \in {"rotate_insert", "rotate_commit"} /\ s.old = g
    \/ s.pc = "admin_commit" /\ g \in s.pend

\* Slot s does not exclude slot t, and they have not drawn the same grant.
Compatible(s, t) ==
    /\ s.new \in Grant => s.new # t.new
    /\ Owns(s) /\ s.user = t.user => ~Owns(t) /\ ~Shares(t)
    /\ \A g \in Grant : Holds(s, g) => ~Holds(t, g)

Slots == \A r \in Req : Knows(req[r])

Exclusion == \A r, q \in Req : r # q => Compatible(req[r], req[q])

Rows ==
    \A g \in Grant : IF grants[g].state = "absent"
                     THEN grants[g].user = NoUser /\ grants[g].parent = NoGrant
                     ELSE grants[g].user \in User

Tokens ==
    \A t \in tokens : t.version <= users[t.user].version /\ Current(t.user, t.version, t.roles)

IInv ==
    /\ TypeOK
    /\ Slots
    /\ Exclusion
    /\ Rows
    /\ Tokens
    /\ InvalidationComplete
    /\ RotationSingleUse

-----------------------------------------------------------------------------
(***************************************************************************)
(* Slots.                                                                  *)
(***************************************************************************)

\* What the invariant says of one slot.
LEMMA SlotFacts ==
    ASSUME IInv, NEW r \in Req
    PROVE  /\ req[r] \in Slot /\ Knows(req[r]) /\ SlotShape(req[r])
           /\ \A q \in Req : q # r => /\ Compatible(req[r], req[q])
                                      /\ Compatible(req[q], req[r])
  BY DEF IInv, TypeOK, Slots, Knows, Exclusion

\* The sets of lock holders, slot by slot.
LEMMA LockHolders ==
    /\ \A u, r : r \in OwnerOf(u) <=> r \in Req /\ Owns(req[r]) /\ req[r].user = u
    /\ \A u, r : r \in SharersOf(u) <=> r \in Req /\ Shares(req[r]) /\ req[r].user = u
    /\ \A g, r : r \in HolderOf(g) <=> r \in Req /\ Holds(req[r], g)
  BY DEF OwnerOf, SharersOf, HolderOf, Owns, Shares, Holds

LEMMA IdleSlot ==
    /\ Idle \in Slot /\ Knows(Idle)
    /\ \A t : Compatible(Idle, t) /\ Compatible(t, Idle)
<1>1. Idle \in Slot
  BY DEF Idle, Slot, Pc, Op, Status
<1>2. Knows(Idle)
  BY DEF Idle, Knows, SlotShape, GrantKnown, RotationKnown, InvalidationKnown, ReadingKnown,
     RotatePc, BundlePc, ReadPc, AdminPc, LockedPc, AdminOp
<1>3. \A t : Compatible(Idle, t) /\ Compatible(t, Idle)
  BY NullsAssumption DEF Idle, Compatible, Owns, Shares, Holds, LockedPc
<1> QED
  BY <1>1, <1>2, <1>3

\* A step that changes one slot and no committed row preserves the invariant
\* when the slot knows what it claims and its locks exclude nobody.
LEMMA SlotStep ==
    ASSUME IInv, NEW r \in Req, NEW s \in Slot, Knows(s),
           \A q \in Req : q # r => Compatible(s, req[q]) /\ Compatible(req[q], s),
           req' = [req EXCEPT ![r] = s],
           verify' \subseteq User,
           UNCHANGED <<users, grants, tokens>>
    PROVE  IInv'
<1>1. TypeOK'
  BY DEF IInv, TypeOK
<1>2. \A q \in Req : req'[q] = IF q = r THEN s ELSE req[q]
  BY DEF IInv, TypeOK
<1>3. \A t : Knows(t) => Knows(t)'
  BY DEF Knows, SlotShape, GrantKnown, RotationKnown, InvalidationKnown, ReadingKnown, Current
<1>4. Slots'
  BY <1>2, <1>3 DEF IInv, Slots, Knows, SlotShape, GrantKnown, RotationKnown,
     InvalidationKnown, ReadingKnown, Current
<1>5. Exclusion'
  BY <1>2 DEF IInv, Exclusion, Compatible, Owns, Shares, Holds
<1>6. Rows' /\ Tokens' /\ InvalidationComplete' /\ RotationSingleUse'
  BY DEF IInv, Rows, Tokens, Current, InvalidationComplete, RotationSingleUse
<1> QED
  BY <1>1, <1>4, <1>5, <1>6 DEF IInv

\* In particular a request may end anywhere.
LEMMA FinishStep ==
    ASSUME IInv, NEW r \in Req, Finish(r), UNCHANGED <<users, grants, tokens, verify>>
    PROVE  IInv'
  BY IdleSlot, SlotStep DEF Finish, IInv, TypeOK

\* A step that commits: the slot is left without locks, and every other slot
\* still knows what it knew.
LEMMA CommitStep ==
    ASSUME IInv, NEW r \in Req, NEW s \in Slot,
           ~Owns(s), ~Shares(s), \A g \in Grant : ~Holds(s, g), s.new \in {NoGrant, req[r].new},
           req' = [req EXCEPT ![r] = s],
           Knows(s)',
           \A q \in Req : q # r => Knows(req[q])'
    PROVE  Slots' /\ Exclusion' /\ req' \in [Req -> Slot]
<1>1. \A q \in Req : req'[q] = IF q = r THEN s ELSE req[q]
  BY DEF IInv, TypeOK
<1>2. Slots'
  BY <1>1 DEF Slots, Knows, SlotShape, GrantKnown, RotationKnown,
     InvalidationKnown, ReadingKnown, Current
<1>3. Exclusion'
  BY <1>1, NullsAssumption DEF IInv, Exclusion, Compatible, Owns, Shares, Holds
<1>4. req' \in [Req -> Slot]
  BY DEF IInv, TypeOK
<1> QED
  BY <1>2, <1>3, <1>4

LEMMA IdleEnd ==
    ASSUME IInv, NEW r \in Req, req' = [req EXCEPT ![r] = Idle],
           \A q \in Req : q # r => Knows(req[q])'
    PROVE  Slots' /\ Exclusion'
<1>1. Knows(Idle)'
  BY DEF Idle, Knows, SlotShape, GrantKnown, RotationKnown, InvalidationKnown, ReadingKnown,
     RotatePc, BundlePc, ReadPc, AdminPc, LockedPc, AdminOp
<1>2. ~Owns(Idle) /\ ~Shares(Idle) /\ (\A g \in Grant : ~Holds(Idle, g)) /\ Idle.new = NoGrant
  BY DEF Idle, Owns, Shares, Holds, LockedPc
<1> QED
  BY <1>1, <1>2, IdleSlot, CommitStep

-----------------------------------------------------------------------------
(***************************************************************************)
(* The steps that change one slot and no committed row.                    *)
(***************************************************************************)

\* A login or a refresh begins with a grant nobody has drawn.
LEMMA DrawnCompatible ==
    ASSUME IInv, NEW r \in Req, NEW s \in Slot, NEW g \in Undrawn, s.new = g,
           s.pc \in {"bundle_user", "rotate_claim"}
    PROVE  \A q \in Req : q # r => Compatible(s, req[q]) /\ Compatible(req[q], s)
  BY NullsAssumption DEF Undrawn, Compatible, Owns, Shares, Holds, LockedPc

LEMMA AuthenticateStep ==
    ASSUME IInv, NEW r \in Req, NEW u \in Subject, Authenticate(r, u)
    PROVE  IInv'
<1>1. PICK g \in Undrawn :
         req' = [req EXCEPT ![r] = [Idle EXCEPT !.pc = "bundle_user", !.op = "login",
                                                !.user = u, !.new = g]]
  BY DEF Authenticate
<1> DEFINE s == [Idle EXCEPT !.pc = "bundle_user", !.op = "login", !.user = u, !.new = g]
<1>2. g \in Grant /\ grants[g].state = "absent" /\ u \in User
  BY UsersAssumption DEF Undrawn
<1>3. s \in Slot
  BY <1>2, IdleSlot DEF Slot, Pc, Op
<1>4. Knows(s)
  BY <1>2 DEF Idle, Knows, SlotShape, GrantKnown, RotationKnown, InvalidationKnown,
     ReadingKnown, RotatePc, BundlePc, ReadPc, AdminPc, LockedPc, AdminOp
<1>5. s.new = g /\ s.pc = "bundle_user"
  BY DEF Idle
<1>6. \A q \in Req : q # r => Compatible(s, req[q]) /\ Compatible(req[q], s)
  BY <1>3, <1>5, DrawnCompatible
<1>7. req' = [req EXCEPT ![r] = s] /\ verify' \subseteq User /\ UNCHANGED <<users, grants, tokens>>
  BY <1>1 DEF Authenticate, IInv, TypeOK
<1> HIDE DEF s
<1> QED
  BY <1>3, <1>4, <1>6, <1>7, SlotStep

LEMMA RotateStartStep ==
    ASSUME IInv, NEW r \in Req, NEW g \in Grant, RotateStart(r, g)
    PROVE  IInv'
<1>1. PICK n \in Undrawn :
         req' = [req EXCEPT ![r] = [Idle EXCEPT !.pc = "rotate_claim", !.op = "refresh",
                                                !.user = grants[g].user,
                                                !.old = g, !.new = n]]
  BY DEF RotateStart
<1> DEFINE s == [Idle EXCEPT !.pc = "rotate_claim", !.op = "refresh",
                             !.user = grants[g].user, !.old = g, !.new = n]
<1>2. /\ n \in Grant /\ grants[n].state = "absent" /\ grants[g].user \in User
      /\ grants[g].state = "live" /\ users[grants[g].user].status = "active"
  BY DEF Undrawn, RotateStart, IInv, Rows
<1>3. s \in Slot
  BY <1>2, IdleSlot DEF Slot, Pc, Op
<1>4. Knows(s)
  BY <1>2 DEF Idle, Knows, SlotShape, GrantKnown, RotationKnown, InvalidationKnown,
     ReadingKnown, RotatePc, BundlePc, ReadPc, AdminPc, LockedPc, AdminOp
<1>5. s.new = n /\ s.pc = "rotate_claim"
  BY DEF Idle
<1>6. \A q \in Req : q # r => Compatible(s, req[q]) /\ Compatible(req[q], s)
  BY <1>3, <1>5, DrawnCompatible
<1>7. req' = [req EXCEPT ![r] = s] /\ verify' \subseteq User /\ UNCHANGED <<users, grants, tokens>>
  BY <1>1 DEF RotateStart, IInv, TypeOK
<1> HIDE DEF s
<1> QED
  BY <1>3, <1>4, <1>6, <1>7, SlotStep

\* A step that keeps the slot's account and grants and takes no lock.
LEMMA PlainStepCompatible ==
    ASSUME IInv, NEW r \in Req, NEW s \in Slot,
           s.new = req[r].new, s.user = req[r].user,
           Owns(s) => Owns(req[r]), Shares(s) => Shares(req[r]),
           \A g \in Grant : Holds(s, g) => Holds(req[r], g)
    PROVE  \A q \in Req : q # r => Compatible(s, req[q]) /\ Compatible(req[q], s)
  BY SlotFacts DEF Compatible

LEMMA BundleUserStep ==
    ASSUME IInv, NEW r \in Req, BundleUser(r)
    PROVE  IInv'
<1>1. CASE users[req[r].user].status # "active"
  BY <1>1, FinishStep DEF BundleUser
<1>2. CASE users[req[r].user].status = "active"
  <2> DEFINE s == [req[r] EXCEPT !.pc = "bundle_roles", !.ver = users[req[r].user].version]
  <2>1. /\ req' = [req EXCEPT ![r] = s] /\ req[r].pc = "bundle_user"
        /\ UNCHANGED <<users, grants, tokens, verify>>
    BY <1>2 DEF BundleUser
  <2>2. req[r].user \in User /\ users[req[r].user].version \in Nat
    BY <2>1, SlotFacts DEF SlotShape, IInv, TypeOK, UserRow
  <2>3. s \in Slot
    BY <2>2, SlotFacts DEF Slot, Pc
  <2>4. Knows(s)
    BY <1>2, <2>1, <2>2, SlotFacts DEF Slot, Knows, SlotShape, GrantKnown, RotationKnown,
       InvalidationKnown, ReadingKnown, RotatePc, BundlePc, ReadPc, AdminPc, LockedPc
  <2>5. \A q \in Req : q # r => Compatible(s, req[q]) /\ Compatible(req[q], s)
    BY <2>3, SlotFacts, PlainStepCompatible DEF Slot, Owns, Shares, Holds, LockedPc
  <2> QED
    BY <2>1, <2>3, <2>4, <2>5, SlotStep DEF IInv, TypeOK
<1> QED
  BY <1>1, <1>2

LEMMA BundleRolesStep ==
    ASSUME IInv, NEW r \in Req, BundleRoles(r)
    PROVE  IInv'
<1> DEFINE u == req[r].user
           next == IF req[r].op = "refresh" THEN "bundle_commit" ELSE "bundle_insert"
           s == [req[r] EXCEPT !.roles = users[u].roles, !.pc = next]
<1>1. /\ req' = [req EXCEPT ![r] = s] /\ req[r].pc = "bundle_roles"
      /\ UNCHANGED <<users, grants, tokens, verify>>
  BY DEF BundleRoles
<1>2. u \in User /\ users[u].roles \in SUBSET RoleName
  BY <1>1, SlotFacts DEF SlotShape, IInv, TypeOK, UserRow
<1>3. s \in Slot
  BY <1>2, SlotFacts DEF Slot, Pc
<1>4. /\ s.pc = next /\ s.user = u /\ s.ver = req[r].ver /\ s.roles = users[u].roles
      /\ s.new = req[r].new /\ s.op = req[r].op
  BY SlotFacts DEF Slot
<1>5. Knows(s)
  BY <1>1, <1>2, <1>4, SlotFacts DEF Knows, SlotShape, GrantKnown, RotationKnown,
     InvalidationKnown, ReadingKnown, Current, RotatePc, BundlePc, ReadPc, AdminPc, LockedPc
<1>6. ~Owns(s) /\ ~Shares(s) /\ \A g \in Grant : ~Holds(s, g)
  BY <1>1, <1>4, SlotFacts DEF Owns, Shares, Holds, LockedPc, SlotShape, BundlePc
<1>7. \A q \in Req : q # r => Compatible(s, req[q]) /\ Compatible(req[q], s)
  BY <1>3, <1>4, <1>6, PlainStepCompatible
<1> QED
  BY <1>1, <1>3, <1>5, <1>7, SlotStep DEF IInv, TypeOK

\* An insert waits until nobody owns the account's row, and then shares it.
LEMMA InsertGrantStep ==
    ASSUME IInv, NEW r \in Req, NEW from, NEW to, InsertGrant(r, from, to),
           \/ from = "bundle_insert" /\ to = "bundle_commit"
           \/ from = "rotate_insert" /\ to = "rotate_commit"
    PROVE  IInv'
<1> DEFINE s == [req[r] EXCEPT !.pc = to]
<1>1. /\ req' = [req EXCEPT ![r] = s] /\ req[r].pc = from
      /\ UNCHANGED <<users, grants, tokens, verify>>
  BY DEF InsertGrant, Advance
<1>2. s \in Slot
  BY SlotFacts DEF Slot, Pc
<1>3. Knows(s)
  BY <1>1, SlotFacts DEF Slot, Knows, SlotShape, GrantKnown, RotationKnown,
     InvalidationKnown, ReadingKnown, RotatePc, BundlePc, ReadPc, AdminPc, LockedPc
<1>4. \A q \in Req : ~(Owns(req[q]) /\ req[q].user = req[r].user)
  BY LockHolders DEF InsertGrant
<1>5. \A q \in Req : q # r => Compatible(s, req[q]) /\ Compatible(req[q], s)
  BY <1>1, <1>4, SlotFacts DEF Slot, Compatible, Owns, Shares, Holds, LockedPc
<1> QED
  BY <1>1, <1>2, <1>3, <1>5, SlotStep DEF IInv, TypeOK

LEMMA RotateClaimStep ==
    ASSUME IInv, NEW r \in Req, RotateClaim(r)
    PROVE  IInv'
<1>1. CASE grants[req[r].old].state # "live"
  BY <1>1, FinishStep DEF RotateClaim
<1>2. CASE grants[req[r].old].state = "live"
  <2> DEFINE s == [req[r] EXCEPT !.pc = "rotate_insert"]
  <2>1. /\ req' = [req EXCEPT ![r] = s] /\ req[r].pc = "rotate_claim"
        /\ UNCHANGED <<users, grants, tokens, verify>>
    BY <1>2 DEF RotateClaim, Advance
  <2>2. s \in Slot
    BY SlotFacts DEF Slot, Pc
  <2>3. Knows(s)
    BY <1>2, <2>1, SlotFacts DEF Slot, Knows, SlotShape, GrantKnown, RotationKnown,
       InvalidationKnown, ReadingKnown, RotatePc, BundlePc, ReadPc, AdminPc, LockedPc
  <2>4. \A q \in Req : ~Holds(req[q], req[r].old)
    BY LockHolders DEF RotateClaim
  <2>5. \A q \in Req : q # r => Compatible(s, req[q]) /\ Compatible(req[q], s)
    BY <2>1, <2>4, SlotFacts DEF Slot, Compatible, Owns, Shares, Holds, LockedPc
  <2> QED
    BY <2>1, <2>2, <2>3, <2>5, SlotStep DEF IInv, TypeOK
<1> QED
  BY <1>1, <1>2

LEMMA AdminStartStep ==
    ASSUME IInv, NEW r \in Req, NEW op \in AdminOp, NEW a \in User, NEW t \in Subject,
           NEW role \in Role \cup {NoRole}, op \in {"grant_role", "remove_role"} => role \in Role,
           AdminStart(r, op, a, t, role)
    PROVE  IInv'
<1> DEFINE s == [Idle EXCEPT !.pc = "admin_role", !.op = op, !.user = t, !.actor = a,
                             !.role = role]
<1>1. t \in User
  BY UsersAssumption
<1>2. s \in Slot
  BY <1>1, IdleSlot DEF Slot, Pc, Op
<1>3. Knows(s)
  BY <1>1 DEF Idle, Knows, SlotShape, GrantKnown, RotationKnown, InvalidationKnown,
     ReadingKnown, RotatePc, BundlePc, ReadPc, AdminPc, LockedPc
<1>4. \A q \in Req : q # r => Compatible(s, req[q]) /\ Compatible(req[q], s)
  BY NullsAssumption DEF Idle, Compatible, Owns, Shares, Holds, LockedPc
<1> QED
  BY <1>2, <1>3, <1>4, SlotStep DEF AdminStart, IInv, TypeOK

LEMMA AdminRoleStep ==
    ASSUME IInv, NEW r \in Req, AdminRole(r)
    PROVE  IInv'
<1>1. CASE "admin" \notin users[req[r].actor].roles
  BY <1>1, FinishStep DEF AdminRole
<1>2. CASE "admin" \in users[req[r].actor].roles
  <2> DEFINE s == [req[r] EXCEPT !.pc = "admin_lock"]
  <2>1. /\ req' = [req EXCEPT ![r] = s] /\ req[r].pc = "admin_role"
        /\ UNCHANGED <<users, grants, tokens, verify>>
    BY <1>2 DEF AdminRole, Advance
  <2>2. s \in Slot
    BY SlotFacts DEF Slot, Pc
  <2>3. Knows(s)
    BY <2>1, SlotFacts DEF Slot, Knows, SlotShape, GrantKnown, RotationKnown,
       InvalidationKnown, ReadingKnown, RotatePc, BundlePc, ReadPc, AdminPc, LockedPc
  <2>4. \A q \in Req : q # r => Compatible(s, req[q]) /\ Compatible(req[q], s)
    BY <2>2, SlotFacts, PlainStepCompatible DEF Slot, Owns, Shares, Holds, LockedPc
  <2> QED
    BY <2>1, <2>2, <2>3, <2>4, SlotStep DEF IInv, TypeOK
<1> QED
  BY <1>1, <1>2

LEMMA AdminLockStep ==
    ASSUME IInv, NEW r \in Req, AdminLock(r)
    PROVE  IInv'
<1> DEFINE s == [req[r] EXCEPT !.pc = "admin_invalidate", !.ver = users[req[r].user].version]
<1>1. /\ req' = [req EXCEPT ![r] = s] /\ req[r].pc = "admin_lock"
      /\ UNCHANGED <<users, grants, tokens, verify>>
  BY DEF AdminLock
<1>2. req[r].user \in User /\ users[req[r].user].version \in Nat
  BY <1>1, SlotFacts DEF SlotShape, IInv, TypeOK, UserRow
<1>3. s \in Slot
  BY <1>2, SlotFacts DEF Slot, Pc, LockedPc
<1>4. Knows(s)
  BY <1>1, SlotFacts DEF Slot, Knows, SlotShape, GrantKnown, RotationKnown,
     InvalidationKnown, ReadingKnown, RotatePc, BundlePc, ReadPc, AdminPc, LockedPc
<1>5. \A q \in Req : req[q].user = req[r].user => ~Owns(req[q]) /\ ~Shares(req[q])
  BY LockHolders DEF AdminLock
<1>6. \A q \in Req : q # r => Compatible(s, req[q]) /\ Compatible(req[q], s)
  BY <1>1, <1>5, SlotFacts DEF Slot, Compatible, Owns, Shares, Holds, LockedPc
<1> QED
  BY <1>1, <1>3, <1>4, <1>6, SlotStep DEF IInv, TypeOK

LEMMA AdminInvalidateStep ==
    ASSUME IInv, NEW r \in Req, AdminInvalidate(r)
    PROVE  IInv'
<1> DEFINE pend == {g \in Grant : grants[g].state = "live" /\ grants[g].user = req[r].user}
           s == [req[r] EXCEPT !.pc = "admin_consume", !.pend = pend]
<1>1. /\ req' = [req EXCEPT ![r] = s] /\ req[r].pc = "admin_invalidate"
      /\ UNCHANGED <<users, grants, tokens, verify>>
  BY DEF AdminInvalidate
<1>2. s \in Slot
  BY SlotFacts DEF Slot, Pc, LockedPc
<1>3. /\ s.pc = "admin_consume" /\ s.pend = pend /\ s.user = req[r].user
      /\ s.ver = req[r].ver /\ s.new = req[r].new /\ s.op = req[r].op /\ s.role = req[r].role
  BY SlotFacts DEF Slot
<1>4. Knows(s)
  BY <1>1, <1>3, SlotFacts DEF Knows, SlotShape, GrantKnown, RotationKnown,
     InvalidationKnown, ReadingKnown, RotatePc, BundlePc, ReadPc, AdminPc, LockedPc
<1>5. \A q \in Req : q # r => Compatible(s, req[q]) /\ Compatible(req[q], s)
  BY <1>1, <1>2, <1>3, PlainStepCompatible DEF Owns, Shares, Holds, LockedPc
<1> QED
  BY <1>1, <1>2, <1>4, <1>5, SlotStep DEF IInv, TypeOK

LEMMA AdminConsumeStep ==
    ASSUME IInv, NEW r \in Req, AdminConsume(r)
    PROVE  IInv'
<1> DEFINE pend == {g \in req[r].pend : grants[g].state = "live"}
           s == [req[r] EXCEPT !.pc = "admin_commit", !.pend = pend]
<1>1. /\ req' = [req EXCEPT ![r] = s] /\ req[r].pc = "admin_consume"
      /\ UNCHANGED <<users, grants, tokens, verify>>
  BY DEF AdminConsume
<1>2. s \in Slot
  BY SlotFacts DEF Slot, Pc, LockedPc
<1>3. /\ s.pc = "admin_commit" /\ s.pend = pend /\ s.user = req[r].user
      /\ s.ver = req[r].ver /\ s.new = req[r].new /\ s.op = req[r].op /\ s.role = req[r].role
  BY SlotFacts DEF Slot
<1>4. Knows(s)
  BY <1>1, <1>3, SlotFacts DEF Knows, SlotShape, GrantKnown, RotationKnown,
     InvalidationKnown, ReadingKnown, RotatePc, BundlePc, ReadPc, AdminPc, LockedPc
<1>5. \A q \in Req, g \in pend : ~Holds(req[q], g)
  BY LockHolders DEF AdminConsume
<1>6. \A q \in Req : q # r => Compatible(s, req[q]) /\ Compatible(req[q], s)
  BY <1>1, <1>3, <1>5, SlotFacts DEF Compatible, Owns, Shares, Holds, LockedPc
<1> QED
  BY <1>1, <1>2, <1>4, <1>6, SlotStep DEF IInv, TypeOK

LEMMA VerifyConsumeStep ==
    ASSUME IInv, NEW r \in Req, NEW u \in Subject, VerifyConsume(r, u)
    PROVE  IInv'
<1> DEFINE s == [Idle EXCEPT !.pc = "verify_read", !.op = "verify", !.user = u]
<1>1. u \in User
  BY UsersAssumption
<1>2. s \in Slot
  BY <1>1, IdleSlot DEF Slot, Pc, Op
<1>3. Knows(s)
  BY <1>1 DEF Idle, Knows, SlotShape, GrantKnown, RotationKnown, InvalidationKnown,
     ReadingKnown, RotatePc, BundlePc, ReadPc, AdminPc, LockedPc, AdminOp
<1>4. \A q \in Req : q # r => Compatible(s, req[q]) /\ Compatible(req[q], s)
  BY NullsAssumption DEF Idle, Compatible, Owns, Shares, Holds, LockedPc
<1> QED
  BY <1>2, <1>3, <1>4, SlotStep DEF VerifyConsume, IInv, TypeOK

LEMMA VerifyReadStep ==
    ASSUME IInv, NEW r \in Req, VerifyRead(r)
    PROVE  IInv'
<1> DEFINE s == [req[r] EXCEPT !.pc = "verify_write", !.seen = users[req[r].user].status]
<1>1. /\ req' = [req EXCEPT ![r] = s] /\ req[r].pc = "verify_read"
      /\ UNCHANGED <<users, grants, tokens, verify>>
  BY DEF VerifyRead
<1>2. req[r].user \in User /\ users[req[r].user].status \in Status
  BY <1>1, SlotFacts DEF SlotShape, IInv, TypeOK, UserRow
<1>3. s \in Slot
  BY <1>2, SlotFacts DEF Slot, Pc
<1>4. Knows(s)
  BY <1>1, SlotFacts DEF Slot, Knows, SlotShape, GrantKnown, RotationKnown,
     InvalidationKnown, ReadingKnown, RotatePc, BundlePc, ReadPc, AdminPc, LockedPc
<1>5. \A q \in Req : q # r => Compatible(s, req[q]) /\ Compatible(req[q], s)
  BY <1>3, SlotFacts, PlainStepCompatible DEF Slot, Owns, Shares, Holds, LockedPc
<1> QED
  BY <1>1, <1>3, <1>4, <1>5, SlotStep DEF IInv, TypeOK

-----------------------------------------------------------------------------
(***************************************************************************)
(* The steps that commit.                                                  *)
(***************************************************************************)

LEMMA BundleCommitStep ==
    ASSUME IInv, NEW r \in Req, BundleCommit(r)
    PROVE  IInv'
<1> DEFINE u == req[r].user
           n == req[r].new
<1>1. /\ u \in User /\ n \in Grant /\ n # NoGrant /\ req[r].pc = "bundle_commit"
      /\ req[r].op \in {"login", "refresh"} /\ req[r].ver \in Nat
      /\ req[r].roles \in SUBSET RoleName /\ req[r].ver <= users[u].version
      /\ Current(u, req[r].ver, req[r].roles)
  BY NullsAssumption, SlotFacts DEF BundleCommit, Slot, Knows, SlotShape, ReadingKnown, ReadPc, BundlePc
<1>2. /\ req' = [req EXCEPT ![r] = Idle] /\ UNCHANGED <<users, verify>>
      /\ tokens' = tokens \cup {[user |-> u, version |-> req[r].ver, roles |-> req[r].roles]}
  BY DEF BundleCommit, Finish
<1>3. tokens' \subseteq AccessToken /\ Tokens'
  BY <1>1, <1>2 DEF IInv, TypeOK, AccessToken, Tokens, Current
<1>4. CASE req[r].op = "login"
  <2> DEFINE row == NewRow(r, NoGrant, TRUE)
  <2>1. grants' = [grants EXCEPT ![n] = row] /\ grants[n].state = "absent"
    BY <1>1, <1>4, SlotFacts DEF BundleCommit, Knows, GrantKnown, BundlePc
  <2>2. /\ row \in GrantRow /\ row.state = "live" /\ row.user = u /\ row.parent = NoGrant
        /\ row.at = users[u].version
    BY <1>1 DEF NewRow, GrantRow, IInv, TypeOK, UserRow
  <2> HIDE DEF row
  <2>3. TypeOK'
    BY <1>2, <1>3, <2>1, <2>2, IdleSlot DEF IInv, TypeOK
  <2>4. ASSUME NEW q \in Req, q # r PROVE Knows(req[q])'
    <3>1. /\ req'[q] = req[q] /\ Knows(req[q]) /\ req[q].new # n
          /\ Owns(req[q]) => req[q].user # u
      BY <1>1, <1>2, <1>4, <2>4, SlotFacts DEF Compatible, Shares, IInv, TypeOK
    <3> QED
      BY <1>2, <2>1, <2>2, <3>1 DEF IInv, TypeOK, Owns, Knows, SlotShape, GrantKnown,
         RotationKnown, InvalidationKnown, ReadingKnown, Current, RotatePc, BundlePc,
         LockedPc
  <2>5. Rows' /\ InvalidationComplete' /\ RotationSingleUse'
    BY <1>1, <1>2, <2>1, <2>2 DEF IInv, TypeOK, GrantRow, Rows, InvalidationComplete,
       RotationSingleUse
  <2> QED
    BY <1>2, <1>3, <2>3, <2>4, <2>5, IdleEnd DEF IInv
<1>5. CASE req[r].op = "refresh"
  <2> DEFINE row == [grants[n] EXCEPT !.sent = TRUE]
  <2>1. grants' = [grants EXCEPT ![n] = row]
    BY <1>5 DEF BundleCommit
  <2>2. /\ row \in GrantRow /\ row.state = grants[n].state /\ row.user = grants[n].user
        /\ row.parent = grants[n].parent /\ row.at = grants[n].at
    BY <1>1 DEF IInv, TypeOK, GrantRow
  <2> HIDE DEF row
  <2>3. TypeOK'
    BY <1>2, <1>3, <2>1, <2>2, IdleSlot DEF IInv, TypeOK
  <2>4. \A g \in Grant : /\ grants'[g].state = grants[g].state
                         /\ grants'[g].user = grants[g].user
                         /\ grants'[g].parent = grants[g].parent
                         /\ grants'[g].at = grants[g].at
    BY <2>1, <2>2 DEF IInv, TypeOK
  <2>5. ASSUME NEW q \in Req, q # r PROVE Knows(req[q])'
    <3>1. req'[q] = req[q] /\ Knows(req[q]) /\ req[q] \in Slot
      BY <1>2, <2>5, SlotFacts DEF IInv, TypeOK
    <3> QED
      BY <1>2, <2>4, <3>1 DEF Slot, Knows, SlotShape, GrantKnown, RotationKnown,
         InvalidationKnown, ReadingKnown, Current, RotatePc, BundlePc
  <2>6. Rows' /\ InvalidationComplete' /\ RotationSingleUse'
    BY <1>2, <2>4 DEF IInv, TypeOK, GrantRow, Rows, InvalidationComplete, RotationSingleUse
  <2> QED
    BY <1>2, <1>3, <2>3, <2>5, <2>6, IdleEnd DEF IInv
<1> QED
  BY <1>1, <1>4, <1>5

\* What the commit of a rotation finds.
LEMMA RotateCommitFinds ==
    ASSUME IInv, NEW r \in Req, RotateCommit(r)
    PROVE  /\ req[r].user \in User /\ req[r].old \in Grant /\ req[r].new \in Grant
           /\ users[req[r].user].status = "active"
           /\ grants[req[r].old].state = "live" /\ grants[req[r].old].user = req[r].user
           /\ grants[req[r].new].state = "absent" /\ grants[req[r].new].user = NoUser
  BY SlotFacts DEF RotateCommit, Knows, SlotShape, GrantKnown, RotationKnown, RotatePc, IInv,
     Rows

\* What the commit of a rotation writes.
LEMMA RotateCommitWrites ==
    ASSUME IInv, NEW r \in Req, RotateCommit(r)
    PROVE  /\ grants' \in [Grant -> GrantRow]
           /\ grants'[req[r].old].state = "consumed"
           /\ grants'[req[r].new].state = "live"
           /\ grants'[req[r].new].user = req[r].user
           /\ grants'[req[r].new].parent = req[r].old
           /\ grants'[req[r].new].at = users[req[r].user].version
           /\ \A g \in Grant : g # req[r].new =>
                 /\ grants'[g].user = grants[g].user /\ grants'[g].parent = grants[g].parent
                 /\ grants'[g].at = grants[g].at
                 /\ g # req[r].old => grants'[g].state = grants[g].state
<1> DEFINE u == req[r].user
           o == req[r].old
           n == req[r].new
           spent == [grants[o] EXCEPT !.state = "consumed"]
           row == NewRow(r, o, FALSE)
<1>1. /\ u \in User /\ o \in Grant /\ n \in Grant /\ o # n
      /\ grants' = [grants EXCEPT ![o] = spent, ![n] = row]
  BY RotateCommitFinds DEF RotateCommit
<1>2. /\ row \in GrantRow /\ row.state = "live" /\ row.user = u /\ row.parent = o
      /\ row.at = users[u].version
  BY <1>1 DEF NewRow, GrantRow, IInv, TypeOK, UserRow
<1>3. /\ spent \in GrantRow /\ spent.state = "consumed" /\ spent.user = grants[o].user
      /\ spent.parent = grants[o].parent /\ spent.at = grants[o].at
  BY <1>1 DEF GrantRow, IInv, TypeOK
<1> HIDE DEF row, spent
<1>4. /\ grants'[o] = spent /\ grants'[n] = row
      /\ \A g \in Grant : g # o /\ g # n => grants'[g] = grants[g]
  BY <1>1 DEF IInv, TypeOK
<1>5. grants' \in [Grant -> GrantRow]
  BY <1>1, <1>2, <1>3 DEF IInv, TypeOK
<1> QED
  BY <1>1, <1>2, <1>3, <1>4, <1>5

LEMMA RotateCommitStep ==
    ASSUME IInv, NEW r \in Req, RotateCommit(r)
    PROVE  IInv'
<1> DEFINE u == req[r].user
           o == req[r].old
           n == req[r].new
<1>1. /\ u \in User /\ o \in Grant /\ n \in Grant /\ o # n
      /\ grants[o].state = "live" /\ grants[o].user = u /\ grants[n].state = "absent"
      /\ Owns(req[r]) \/ Shares(req[r])
      /\ Holds(req[r], o)
  BY RotateCommitFinds DEF RotateCommit, Shares, Holds
<1>2. PICK s : s = [req[r] EXCEPT !.pc = "bundle_user"]
  OBVIOUS
<1>3. /\ s \in Slot /\ s.pc = "bundle_user" /\ s.user = u /\ s.op = "refresh" /\ s.new = n
      /\ s.role = req[r].role
  BY <1>2, SlotFacts DEF Slot, Pc, SlotShape, RotatePc, RotateCommit
<1>4. req' = [req EXCEPT ![r] = s] /\ UNCHANGED <<users, tokens, verify>>
  BY <1>2 DEF RotateCommit, Advance
<1>5. Knows(s)'
  <2>1. SlotShape(s)' /\ GrantKnown(s)'
    BY <1>1, <1>3, RotateCommitWrites DEF SlotShape, GrantKnown, RotatePc, BundlePc, AdminPc,
       AdminOp, LockedPc
  <2>2. RotationKnown(s)' /\ InvalidationKnown(s)' /\ ReadingKnown(s)'
    BY <1>3 DEF RotationKnown, InvalidationKnown, ReadingKnown, RotatePc, ReadPc, LockedPc
  <2> QED
    BY <2>1, <2>2 DEF Knows
<1>6. ASSUME NEW q \in Req, q # r PROVE Knows(req[q])'
  <2>1. /\ req'[q] = req[q] /\ Knows(req[q]) /\ SlotShape(req[q]) /\ req[q].new # n
        /\ ~Holds(req[q], o)
        /\ Owns(req[q]) => req[q].user # u
    BY <1>1, <1>4, <1>6, SlotFacts DEF RotateCommit, Compatible, Shares, IInv, TypeOK
  <2>2. SlotShape(req[q])' /\ GrantKnown(req[q])'
    BY <1>1, <2>1, RotateCommitWrites DEF Knows, SlotShape, GrantKnown, RotatePc, BundlePc
  <2>3. RotationKnown(req[q])'
    BY <1>1, <1>4, <2>1, RotateCommitWrites DEF Knows, SlotShape, GrantKnown, RotationKnown,
       Holds, RotatePc, BundlePc
  <2>4. InvalidationKnown(req[q])'
    <3>1. req[q].pc = "admin_commit" => req[q].pend \subseteq Grant \ {o}
      BY <2>1 DEF Holds, IInv, TypeOK, Slot
    <3>2. req[q].pc \in LockedPc => req[q].user # u
      BY <2>1 DEF Owns
    <3> QED
      BY <1>1, <1>4, <2>1, <3>1, <3>2, RotateCommitWrites DEF Knows, InvalidationKnown,
         LockedPc
  <2>5. ReadingKnown(req[q])'
    BY <1>4, <2>1 DEF Knows, ReadingKnown, Current
  <2> QED
    BY <2>2, <2>3, <2>4, <2>5 DEF Knows
<1>7. Slots' /\ Exclusion' /\ req' \in [Req -> Slot]
  <2>1. ~Owns(s) /\ ~Shares(s) /\ (\A g \in Grant : ~Holds(s, g)) /\ s.new = req[r].new
    BY <1>3 DEF Owns, Shares, Holds, LockedPc
  <2> QED
    BY <1>3, <1>4, <1>5, <1>6, <2>1, CommitStep
<1>8. TypeOK' /\ Tokens'
  BY <1>4, <1>7, RotateCommitWrites DEF IInv, TypeOK, Tokens, Current
<1>9. Rows' /\ InvalidationComplete'
  BY <1>1, <1>4, RotateCommitWrites DEF IInv, Rows, InvalidationComplete
<1>10. RotationSingleUse'
  BY <1>1, RotateCommitWrites, NullsAssumption DEF IInv, TypeOK, GrantRow, Rows,
     RotationSingleUse
<1> QED
  BY <1>7, <1>8, <1>9, <1>10 DEF IInv

LEMMA LogoutStep ==
    ASSUME IInv, NEW r \in Req, NEW g \in Grant, Logout(r, g)
    PROVE  IInv'
<1> DEFINE spent == [grants[g] EXCEPT !.state = "consumed"]
<1>1. /\ grants' = [grants EXCEPT ![g] = spent] /\ UNCHANGED <<users, tokens, verify, req>>
      /\ grants[g].state = "live"
  BY DEF Logout
<1>2. /\ spent \in GrantRow /\ spent.state = "consumed" /\ spent.user = grants[g].user
      /\ spent.parent = grants[g].parent
  BY DEF GrantRow, IInv, TypeOK
<1> HIDE DEF spent
<1>3. TypeOK' /\ Exclusion' /\ Tokens'
  BY <1>1, <1>2 DEF IInv, TypeOK, Exclusion, Compatible, Owns, Shares, Holds, Tokens, Current
<1>4. ASSUME NEW q \in Req PROVE Knows(req[q])'
  <2>1. Knows(req[q]) /\ ~Holds(req[q], g)
    BY SlotFacts, LockHolders DEF Logout
  <2> QED
    BY <1>1, <1>2, <2>1 DEF IInv, TypeOK, Holds, Knows, SlotShape, GrantKnown,
       RotationKnown, InvalidationKnown, ReadingKnown, Current, RotatePc, BundlePc
<1>5. Rows' /\ InvalidationComplete' /\ RotationSingleUse'
  BY <1>1, <1>2 DEF IInv, TypeOK, GrantRow, Rows, InvalidationComplete, RotationSingleUse
<1> QED
  BY <1>3, <1>4, <1>5 DEF IInv, Slots

\* The row an admin handler writes is a row of users.
LEMMA NewRowType ==
    ASSUME NEW s \in Slot, NEW row \in UserRow, SlotShape(s)
    PROVE  [status |-> StatusAfter(s.op, row.status), version |-> s.ver + 1,
            roles |-> RolesAfter(s.op, s.role, row.roles)] \in UserRow
<1>1. row.status \in Status /\ row.roles \in SUBSET RoleName /\ s.ver \in Nat
  BY DEF UserRow, Slot
<1>2. StatusAfter(s.op, row.status) \in Status
  BY <1>1 DEF StatusAfter, Status
<1>3. RolesAfter(s.op, s.role, row.roles) \in SUBSET RoleName
  <2>1. CASE s.op = "approve"
    BY <1>1, <2>1 DEF RolesAfter, RoleName
  <2>2. CASE s.op = "grant_role"
    BY <1>1, <2>2 DEF RolesAfter, RoleName, SlotShape
  <2>3. CASE s.op = "remove_role"
    BY <1>1, <2>3 DEF RolesAfter
  <2>4. CASE s.op \notin {"approve", "grant_role", "remove_role"}
    BY <1>1, <2>4 DEF RolesAfter
  <2> QED
    BY <2>1, <2>2, <2>3, <2>4
<1> QED
  BY <1>1, <1>2, <1>3 DEF UserRow

\* What the commit of an admin handler writes.
LEMMA AdminCommitWrites ==
    ASSUME IInv, NEW r \in Req, AdminCommit(r)
    PROVE  /\ req[r].user \in User
           /\ users' \in [User -> UserRow]
           /\ users'[req[r].user].version = users[req[r].user].version + 1
           /\ \A u \in User : u # req[r].user => users'[u] = users[u]
           /\ grants' \in [Grant -> GrantRow]
           /\ \A g \in Grant :
                 /\ grants'[g].user = grants[g].user /\ grants'[g].parent = grants[g].parent
                 /\ grants'[g].at = grants[g].at
                 /\ IF grants[g].state = "live" /\ grants[g].user = req[r].user
                    THEN grants'[g].state = "consumed"
                    ELSE grants'[g].state = grants[g].state
<1>1. /\ req[r].pc = "admin_commit" /\ req[r] \in Slot /\ SlotShape(req[r])
      /\ req[r].user \in User /\ req[r].ver = users[req[r].user].version
      /\ \A g \in Grant :
            g \in req[r].pend <=> grants[g].state = "live" /\ grants[g].user = req[r].user
  BY SlotFacts DEF AdminCommit, Knows, SlotShape, InvalidationKnown, LockedPc
<1>2. users' \in [User -> UserRow]
  BY <1>1, NewRowType DEF AdminCommit, IInv, TypeOK
<1>3. /\ users'[req[r].user].version = users[req[r].user].version + 1
      /\ \A u \in User : u # req[r].user => users'[u] = users[u]
  BY <1>1 DEF AdminCommit, IInv, TypeOK
<1>4. \A g \in Grant : [grants[g] EXCEPT !.state = "consumed"] \in GrantRow
  BY DEF IInv, TypeOK, GrantRow
<1>5. grants' \in [Grant -> GrantRow]
  BY <1>4 DEF AdminCommit, IInv, TypeOK
<1>6. \A g \in Grant :
         /\ grants'[g].user = grants[g].user /\ grants'[g].parent = grants[g].parent
         /\ grants'[g].at = grants[g].at
         /\ IF grants[g].state = "live" /\ grants[g].user = req[r].user
            THEN grants'[g].state = "consumed"
            ELSE grants'[g].state = grants[g].state
  BY <1>1 DEF AdminCommit, IInv, TypeOK, GrantRow
<1> QED
  BY <1>1, <1>2, <1>3, <1>5, <1>6

LEMMA AdminCommitStep ==
    ASSUME IInv, NEW r \in Req, AdminCommit(r)
    PROVE  IInv'
<1> DEFINE t == req[r].user
<1>1. /\ req' = [req EXCEPT ![r] = Idle] /\ UNCHANGED <<tokens, verify>>
      /\ Owns(req[r])
  BY DEF AdminCommit, Finish, Owns, LockedPc
<1>2. users[t].version \in Nat /\ t \in User
  BY AdminCommitWrites DEF IInv, TypeOK, UserRow
<1>3. TypeOK'
  BY <1>1, AdminCommitWrites, IdleSlot DEF IInv, TypeOK
<1>4. ASSUME NEW q \in Req, q # r PROVE Knows(req[q])'
  <2>1. /\ req'[q] = req[q] /\ Knows(req[q]) /\ req[q] \in Slot
        /\ req[q].user = t => ~Owns(req[q])
        /\ \A g \in Grant : grants[g].state = "live" /\ grants[g].user = t => ~Holds(req[q], g)
    <3>1. req[r].pc = "admin_commit" /\ \A g \in Grant :
             grants[g].state = "live" /\ grants[g].user = t => Holds(req[r], g)
      BY SlotFacts DEF AdminCommit, Knows, InvalidationKnown, Holds
    <3> QED
      BY <1>1, <1>4, <3>1, SlotFacts DEF Compatible, IInv, TypeOK
  <2>2. SlotShape(req[q])' /\ GrantKnown(req[q])'
    BY <2>1, AdminCommitWrites DEF Knows, SlotShape, GrantKnown, RotatePc, BundlePc
  <2>3. RotationKnown(req[q])'
    BY <2>1, AdminCommitWrites DEF Knows, SlotShape, GrantKnown, RotationKnown, Holds,
       RotatePc
  <2>4. InvalidationKnown(req[q])'
    BY <2>1, AdminCommitWrites DEF Knows, SlotShape, InvalidationKnown, Owns, LockedPc, Slot
  <2>5. ReadingKnown(req[q])'
    BY <1>2, <2>1, AdminCommitWrites DEF Knows, SlotShape, ReadingKnown, Current, ReadPc, Slot
  <2> QED
    BY <2>2, <2>3, <2>4, <2>5 DEF Knows
<1>5. Rows' /\ RotationSingleUse'
  BY AdminCommitWrites DEF IInv, TypeOK, GrantRow, Rows, RotationSingleUse
<1>6. InvalidationComplete'
  BY AdminCommitWrites DEF IInv, TypeOK, GrantRow, Rows, InvalidationComplete
<1>7. Tokens'
  BY <1>1, <1>2, AdminCommitWrites DEF IInv, TypeOK, AccessToken, Tokens, Current
<1> QED
  BY <1>1, <1>3, <1>4, <1>5, <1>6, <1>7, IdleEnd DEF IInv

\* What a verification writes.
LEMMA VerifyWriteRow ==
    ASSUME IInv, NEW r \in Req, VerifyWrite(r)
    PROVE  /\ users' \in [User -> UserRow]
           /\ \A u \in User : /\ users'[u].version = users[u].version
                              /\ users'[u].roles = users[u].roles
                              /\ users'[u].status \in {users[u].status, "active"}
<1>1. \A u \in User : [users[u] EXCEPT !.status = "active"] \in UserRow
  BY DEF IInv, TypeOK, UserRow, Status
<1>2. req[r].user \in User /\ users \in [User -> UserRow]
  BY SlotFacts DEF IInv, TypeOK, SlotShape, VerifyWrite
<1>3. CASE UNCHANGED users
  BY <1>2, <1>3
<1>4. CASE users' = [users EXCEPT ![req[r].user].status = "active"]
  BY <1>1, <1>2, <1>4 DEF UserRow
<1> QED
  BY <1>3, <1>4 DEF VerifyWrite

LEMMA VerifyWriteStep ==
    ASSUME IInv, NEW r \in Req, VerifyWrite(r)
    PROVE  IInv'
<1>1. req' = [req EXCEPT ![r] = Idle] /\ UNCHANGED <<grants, tokens, verify>>
  BY DEF VerifyWrite, Finish
<1>2. TypeOK'
  BY <1>1, VerifyWriteRow, IdleSlot DEF IInv, TypeOK
<1>3. ASSUME NEW q \in Req, q # r PROVE Knows(req[q])'
  <2>1. req'[q] = req[q] /\ Knows(req[q]) /\ (req[q].pc # "idle" => req[q].user \in User)
    BY <1>1, <1>3, SlotFacts DEF SlotShape, IInv, TypeOK
  <2> QED
    BY <1>1, <2>1, VerifyWriteRow DEF Knows, SlotShape, GrantKnown, RotationKnown,
       InvalidationKnown, ReadingKnown, Current, RotatePc, ReadPc, LockedPc
<1>4. Rows' /\ InvalidationComplete' /\ RotationSingleUse'
  BY <1>1, VerifyWriteRow DEF IInv, Rows, InvalidationComplete, RotationSingleUse
<1>5. Tokens'
  BY <1>1, VerifyWriteRow DEF IInv, TypeOK, AccessToken, Tokens, Current
<1> QED
  BY <1>1, <1>2, <1>3, <1>4, <1>5, IdleEnd DEF IInv

LEMMA ExpireStep ==
    ASSUME IInv, NEW g \in Grant, Expire(g)
    PROVE  IInv'
<1> DEFINE row == [grants[g] EXCEPT !.expired = TRUE]
<1>1. grants' = [grants EXCEPT ![g] = row] /\ UNCHANGED <<users, tokens, verify, req>>
  BY DEF Expire
<1>2. row \in GrantRow
  BY DEF IInv, TypeOK, GrantRow
<1>3. \A h \in Grant : /\ grants'[h].state = grants[h].state /\ grants'[h].user = grants[h].user
                       /\ grants'[h].parent = grants[h].parent
                       /\ grants'[h].at = grants[h].at
  BY <1>1 DEF IInv, TypeOK, GrantRow
<1>4. TypeOK' /\ Exclusion' /\ Tokens'
  BY <1>1, <1>2 DEF IInv, TypeOK, Exclusion, Compatible, Owns, Shares, Holds, Tokens, Current
<1>5. ASSUME NEW q \in Req PROVE Knows(req[q])'
  <2>1. Knows(req[q]) /\ req[q] \in Slot
    BY SlotFacts
  <2> QED
    BY <1>1, <1>3, <2>1 DEF Slot, Knows, SlotShape, GrantKnown, RotationKnown,
       InvalidationKnown, ReadingKnown, Current, RotatePc, BundlePc
<1>6. Rows' /\ InvalidationComplete' /\ RotationSingleUse'
  BY <1>1, <1>3 DEF IInv, TypeOK, GrantRow, Rows, InvalidationComplete, RotationSingleUse
<1> QED
  BY <1>4, <1>5, <1>6 DEF IInv, Slots

-----------------------------------------------------------------------------
(***************************************************************************)
(* The invariant, and what follows from it.                                *)
(***************************************************************************)

LEMMA InitInvariant == Init => IInv
<1> SUFFICES ASSUME Init PROVE IInv
  OBVIOUS
<1> USE UsersAssumption, NullsAssumption DEF Init
<1>1. TypeOK
  <2>1. users \in [User -> UserRow]
    BY DEF UserRow, Status, RoleName
  <2>2. NoRow \in GrantRow
    BY DEF NoRow, GrantRow
  <2> QED
    BY <2>1, <2>2, IdleSlot DEF TypeOK
<1>2. Slots /\ Exclusion
  BY IdleSlot DEF Slots, Exclusion
<1>3. Rows /\ Tokens /\ InvalidationComplete /\ RotationSingleUse
  BY DEF Rows, Tokens, InvalidationComplete, RotationSingleUse, NoRow
<1> QED
  BY <1>1, <1>2, <1>3 DEF IInv

\* A deadlock's victim and a crashed request end like a finished one.
LEMMA NextInvariant == ASSUME IInv, [Next]_vars PROVE IInv'
<1>1. CASE UNCHANGED vars
  BY <1>1 DEF vars, IInv, TypeOK, Slots, Knows, SlotShape, GrantKnown, RotationKnown,
     InvalidationKnown, ReadingKnown, Current, Exclusion, Compatible, Owns, Shares, Holds,
     Rows, Tokens, InvalidationComplete, RotationSingleUse
<1>2. CASE \E r \in Req : Start(r)
  <2> PICK r \in Req : Start(r)
    BY <1>2
  <2>1. CASE \E u \in Subject : Authenticate(r, u)
    BY <2>1, AuthenticateStep
  <2>2. CASE \E u \in Subject : VerifyConsume(r, u)
    BY <2>2, VerifyConsumeStep
  <2>3. CASE \E g \in Grant : RotateStart(r, g)
    BY <2>3, RotateStartStep
  <2>4. CASE \E g \in Grant : Logout(r, g)
    BY <2>4, LogoutStep
  <2>5. CASE \E op \in {"approve", "suspend", "revoke"}, a \in User, t \in Subject :
                AdminStart(r, op, a, t, NoRole)
    BY <2>5, AdminStartStep DEF AdminOp
  <2>6. CASE \E op \in {"grant_role", "remove_role"}, a \in User, t \in Subject, role \in Role :
                AdminStart(r, op, a, t, role)
    BY <2>6, AdminStartStep DEF AdminOp
  <2> QED
    BY <2>1, <2>2, <2>3, <2>4, <2>5, <2>6 DEF Start
<1>3. CASE \E r \in Req : Step(r)
  <2> PICK r \in Req : Step(r)
    BY <1>3
  <2>1. CASE BundleUser(r) \/ BundleRoles(r) \/ BundleInsert(r) \/ BundleCommit(r)
    BY <2>1, BundleUserStep, BundleRolesStep, InsertGrantStep, BundleCommitStep
       DEF BundleInsert
  <2>2. CASE RotateClaim(r) \/ RotateInsert(r) \/ RotateCommit(r)
    BY <2>2, RotateClaimStep, InsertGrantStep, RotateCommitStep DEF RotateInsert
  <2>3. CASE \/ AdminRole(r) \/ AdminLock(r) \/ AdminInvalidate(r) \/ AdminConsume(r)
             \/ AdminCommit(r)
    BY <2>3, AdminRoleStep, AdminLockStep, AdminInvalidateStep, AdminConsumeStep,
       AdminCommitStep
  <2>4. CASE VerifyRead(r) \/ VerifyWrite(r)
    BY <2>4, VerifyReadStep, VerifyWriteStep
  <2>5. CASE DeadlockAbort(r)
    BY <2>5, FinishStep DEF DeadlockAbort
  <2> QED
    BY <2>1, <2>2, <2>3, <2>4, <2>5 DEF Step
<1>4. CASE \E r \in Req : Crash(r)
  BY <1>4, FinishStep DEF Crash
<1>5. CASE \E g \in Grant : Expire(g)
  BY <1>5, ExpireStep
<1> QED
  BY <1>1, <1>2, <1>3, <1>4, <1>5 DEF Next

\* The inductive invariant holds in every state the service reaches.
THEOREM Invariance == Spec => []IInv
<1>1. IInv /\ [Next]_vars => IInv'
  BY NextInvariant
<1> QED
  BY InitInvariant, <1>1, PTL DEF Spec

\* Every state has the declared types.
THEOREM TypeCorrect == Spec => []TypeOK
<1>1. IInv => TypeOK
  BY DEF IInv
<1> QED
  BY Invariance, <1>1, PTL

\* No live refresh grant predates its owner's last authorization change, however
\* many requests issue, rotate and invalidate grants at once.
THEOREM GrantsInvalidated == Spec => []InvalidationComplete
<1>1. IInv => InvalidationComplete
  BY DEF IInv
<1> QED
  BY Invariance, <1>1, PTL

\* However many requests present one refresh grant, it is exchanged once.
THEOREM GrantsRotatedOnce == Spec => []RotationSingleUse
<1>1. IInv => RotationSingleUse
  BY DEF IInv
<1> QED
  BY Invariance, <1>1, PTL

\* An access token that /auth/status accepts carries its owner's present roles.
THEOREM TokenRolesCurrent == Spec => []ActiveTokenHasCurrentRoles
<1>1. IInv => ActiveTokenHasCurrentRoles
  BY DEF IInv, Tokens, Current, StatusActive, ActiveTokenHasCurrentRoles
<1> QED
  BY Invariance, <1>1, PTL

-----------------------------------------------------------------------------
(***************************************************************************)
(* What a step may do.                                                     *)
(***************************************************************************)

\* Only two steps write a users row.
LEMMA UsersWriters ==
    ASSUME [Next]_vars
    PROVE  users' = users \/ \E r \in Req : AdminCommit(r) \/ VerifyWrite(r)
<1>1. CASE UNCHANGED vars
  BY <1>1 DEF vars
<1>2. ASSUME NEW r \in Req, Start(r) PROVE users' = users
  BY <1>2 DEF Start, Authenticate, VerifyConsume, RotateStart, Logout, AdminStart
<1>3. ASSUME NEW r \in Req, Step(r) PROVE users' = users \/ AdminCommit(r) \/ VerifyWrite(r)
  BY <1>3 DEF Step, BundleUser, BundleRoles, BundleInsert, BundleCommit, RotateClaim,
     RotateInsert, InsertGrant, RotateCommit, AdminRole, AdminLock, AdminInvalidate,
     AdminConsume, VerifyRead, DeadlockAbort
<1>4. ASSUME NEW r \in Req, Crash(r) PROVE users' = users
  BY <1>4 DEF Crash
<1>5. ASSUME NEW g \in Grant, Expire(g) PROVE users' = users
  BY <1>5 DEF Expire
<1> QED
  BY <1>1, <1>2, <1>3, <1>4, <1>5 DEF Next

\* Five steps write a refresh_grants row.
LEMMA GrantsWriters ==
    ASSUME [Next]_vars
    PROVE  \/ grants' = grants
           \/ \E r \in Req : \/ BundleCommit(r) \/ RotateCommit(r) \/ AdminCommit(r)
                             \/ \E g \in Grant : Logout(r, g)
           \/ \E g \in Grant : Expire(g)
<1>1. CASE UNCHANGED vars
  BY <1>1 DEF vars
<1>2. ASSUME NEW r \in Req, Start(r)
      PROVE  grants' = grants \/ \E g \in Grant : Logout(r, g)
  BY <1>2 DEF Start, Authenticate, VerifyConsume, RotateStart, AdminStart
<1>3. ASSUME NEW r \in Req, Step(r)
      PROVE  grants' = grants \/ BundleCommit(r) \/ RotateCommit(r) \/ AdminCommit(r)
  BY <1>3 DEF Step, BundleUser, BundleRoles, BundleInsert, RotateClaim, RotateInsert,
     InsertGrant, AdminRole, AdminLock, AdminInvalidate, AdminConsume, VerifyRead,
     VerifyWrite, DeadlockAbort
<1>4. ASSUME NEW r \in Req, Crash(r) PROVE grants' = grants
  BY <1>4 DEF Crash
<1> QED
  BY <1>1, <1>2, <1>3, <1>4 DEF Next

\* Authorization changes are never lost: an account's version never falls, and
\* rises whenever its roles change or it stops being active.
THEOREM VersionsTrackAuthorization == Spec => VersionTracksAuthorization
<1> DEFINE Tracks(u) ==
        /\ users'[u].version >= users[u].version
        /\ users'[u].roles # users[u].roles => users'[u].version > users[u].version
        /\ users[u].status = "active" /\ users'[u].status # "active" =>
              users'[u].version > users[u].version
<1>1. ASSUME IInv, [Next]_vars, NEW u \in User PROVE Tracks(u)
  <2>1. users[u].version \in Nat
    BY <1>1 DEF IInv, TypeOK, UserRow
  <2>2. CASE users' = users
    BY <2>1, <2>2
  <2>3. ASSUME NEW r \in Req, AdminCommit(r) PROVE Tracks(u)
    BY <1>1, <2>1, <2>3, AdminCommitWrites
  <2>4. ASSUME NEW r \in Req, VerifyWrite(r) PROVE Tracks(u)
    BY <1>1, <2>1, <2>4, VerifyWriteRow
  <2> QED
    BY <1>1, <2>2, <2>3, <2>4, UsersWriters
<1>2. IInv /\ [Next]_vars => [\A u \in User : Tracks(u)]_vars
  BY <1>1
<1> QED
  BY Invariance, <1>2, PTL DEF Spec, VersionTracksAuthorization

\* A token that /auth/status has refused stays refused.
THEOREM TokensRevokedForGood == Spec => TokenRevocationFinal
<1>1. ASSUME IInv, [Next]_vars, NEW t \in tokens, StatusActive(t)' PROVE StatusActive(t)
  <2>1. /\ t.user \in User /\ t.version <= users[t.user].version
        /\ t.version \in Nat /\ users[t.user].version \in Nat
    BY <1>1 DEF IInv, TypeOK, UserRow, AccessToken, Tokens
  <2>2. CASE users' = users
    BY <1>1, <2>2 DEF StatusActive
  <2>3. ASSUME NEW r \in Req, AdminCommit(r) PROVE StatusActive(t)
    BY <1>1, <2>1, <2>3, AdminCommitWrites DEF StatusActive
  <2>4. ASSUME NEW r \in Req, VerifyWrite(r) PROVE StatusActive(t)
    BY <1>1, <2>1, <2>4, VerifyWriteRow DEF StatusActive, IInv, Tokens, Current
  <2> QED
    BY <1>1, <2>2, <2>3, <2>4, UsersWriters
<1>2. IInv /\ [Next]_vars =>
        [\A t \in tokens : ~StatusActive(t) => ~StatusActive(t)']_vars
  BY <1>1
<1> QED
  BY Invariance, <1>2, PTL DEF Spec, TokenRevocationFinal

-----------------------------------------------------------------------------
(***************************************************************************)
(* The handlers implement the ledger.                                      *)
(***************************************************************************)

\* A refresh takes effect only from a live grant of an active account.
THEOREM RotationsAuthorized == Spec => RotationAuthorized
<1> DEFINE Authorized(g) ==
        grants[g].state = "absent" /\ grants'[g].parent # NoGrant =>
            /\ grants[grants'[g].parent].state = "live"
            /\ users[grants'[g].user].status = "active"
<1>1. ASSUME IInv, [Next]_vars, NEW g \in Grant PROVE Authorized(g)
  <2>1. grants[g].state = "absent" => grants[g].parent = NoGrant
    BY <1>1 DEF IInv, Rows
  <2>2. CASE grants' = grants
    BY <2>1, <2>2
  <2>3. ASSUME NEW r \in Req, RotateCommit(r) PROVE Authorized(g)
    BY <1>1, <2>1, <2>3, RotateCommitFinds DEF IInv, TypeOK, GrantRow, RotateCommit, NewRow
  <2>4. ASSUME NEW r \in Req, BundleCommit(r) PROVE Authorized(g)
    BY <1>1, <2>1, <2>4, SlotFacts DEF IInv, TypeOK, GrantRow, SlotShape, BundlePc,
       BundleCommit, NewRow
  <2>5. ASSUME NEW r \in Req, AdminCommit(r) PROVE Authorized(g)
    BY <1>1, <2>1, <2>5, AdminCommitWrites
  <2>6. ASSUME NEW r \in Req, NEW h \in Grant, Logout(r, h) PROVE Authorized(g)
    BY <1>1, <2>1, <2>6 DEF IInv, TypeOK, GrantRow, Logout
  <2>7. ASSUME NEW h \in Grant, Expire(h) PROVE Authorized(g)
    BY <1>1, <2>1, <2>7 DEF IInv, TypeOK, GrantRow, Expire
  <2> QED
    BY <1>1, <2>2, <2>3, <2>4, <2>5, <2>6, <2>7, GrantsWriters
<1>2. IInv /\ [Next]_vars => [\A g \in Grant : Authorized(g)]_vars
  BY <1>1
<1> QED
  BY Invariance, <1>2, PTL DEF Spec, RotationAuthorized

LEMMA LedgerInit == Init => Ledger!Init
  BY DEF Init, NoRow, sessions, Ledger!Init, Ledger!Undrawn

LEMMA LedgerIssue ==
    ASSUME NEW u \in User, NEW g \in Grant, Ledger!Issue(u, g) PROVE Ledger!Next
  BY DEF Ledger!Next

LEMMA LedgerRotate ==
    ASSUME NEW u \in User, NEW g \in Grant, NEW n \in Grant, Ledger!Rotate(u, g, n)
    PROVE  Ledger!Next
  BY DEF Ledger!Next

LEMMA LedgerChange ==
    ASSUME NEW u \in User, NEW status \in Ledger!Status, NEW roles \in SUBSET RoleName,
           Ledger!ChangeAuthorization(u, status, roles)
    PROVE  Ledger!Next
  BY DEF Ledger!Next

\* Every step of a handler is one step of the ledger, or none.
LEMMA LedgerNext == ASSUME IInv, [Next]_vars PROVE [Ledger!Next]_(Ledger!vars)
<1>1. CASE users' = users /\ grants' = grants
  BY <1>1 DEF sessions, Ledger!vars
<1>2. ASSUME NEW r \in Req, BundleCommit(r) PROVE [Ledger!Next]_(Ledger!vars)
  <2>1. req[r].user \in User /\ req[r].new \in Grant /\ users' = users
    BY <1>2, SlotFacts DEF SlotShape, BundleCommit, BundlePc
  <2>2. CASE req[r].op = "login"
    <3>1. grants[req[r].new].state = "absent" /\ grants[req[r].new].user = NoUser
      BY <1>2, <2>1, <2>2, SlotFacts DEF IInv, Rows, Knows, GrantKnown, BundleCommit, BundlePc
    <3>2. Ledger!Issue(req[r].user, req[r].new)
      BY <1>2, <2>1, <2>2, <3>1
      DEF BundleCommit, NewRow, IInv, TypeOK, GrantRow, sessions, Ledger!Issue, Ledger!Undrawn, Ledger!Live
    <3>3. Ledger!Next
      BY <2>1, <3>2, LedgerIssue
    <3> QED
      BY <3>3
  <2>3. CASE req[r].op # "login"
    BY <1>2, <2>1, <2>3 DEF BundleCommit, IInv, TypeOK, GrantRow, sessions, Ledger!vars
  <2> QED
    BY <2>2, <2>3
<1>3. ASSUME NEW r \in Req, RotateCommit(r) PROVE [Ledger!Next]_(Ledger!vars)
  <2>1. Ledger!Rotate(req[r].user, req[r].old, req[r].new)
    BY <1>3, RotateCommitFinds
    DEF RotateCommit, NewRow, IInv, TypeOK, GrantRow, sessions, Ledger!Rotate, Ledger!Undrawn,
        Ledger!Live, Ledger!Consumed
  <2>2. Ledger!Next
    BY <1>3, <2>1, RotateCommitFinds, LedgerRotate
  <2> QED
    BY <2>2
<1>4. ASSUME NEW r \in Req, NEW g \in Grant, Logout(r, g) PROVE [Ledger!Next]_(Ledger!vars)
  <2>1. grants[g].user \in User
    BY <1>4 DEF IInv, Rows, Logout
  <2>2. Ledger!Logout(grants[g].user, g)
    BY <1>4 DEF Logout, IInv, TypeOK, GrantRow, sessions, Ledger!Logout, Ledger!Live, Ledger!Consumed
  <2> QED
    BY <2>1, <2>2 DEF Ledger!Next
<1>5. ASSUME NEW r \in Req, AdminCommit(r) PROVE [Ledger!Next]_(Ledger!vars)
  <2> DEFINE t == req[r].user
             status == StatusAfter(req[r].op, users[t].status)
             roles == RolesAfter(req[r].op, req[r].role, users[t].roles)
  <2>1. t \in User /\ users[t].version = req[r].ver
    BY <1>5, SlotFacts DEF Knows, SlotShape, InvalidationKnown, LockedPc, AdminCommit
  <2>2. status \in Ledger!Status /\ roles \in SUBSET RoleName
    BY <2>1, SlotFacts, NewRowType DEF IInv, TypeOK, UserRow, Status, Ledger!Status
  <2>3. \A g \in Grant : g \in req[r].pend <=> grants[g].state = "live" /\ grants[g].user = t
    BY <1>5, SlotFacts DEF Knows, InvalidationKnown, AdminCommit
  <2>4. Ledger!ChangeAuthorization(t, status, roles)
    BY <1>5, <2>1, <2>3
    DEF AdminCommit, IInv, TypeOK, GrantRow, sessions, Ledger!ChangeAuthorization, Ledger!Live,
        Ledger!Consumed
  <2>5. Ledger!Next
    BY <2>1, <2>2, <2>4, LedgerChange
  <2> QED
    BY <2>5
<1>6. ASSUME NEW r \in Req, VerifyWrite(r) PROVE [Ledger!Next]_(Ledger!vars)
  <2>1. req[r].user \in User /\ grants' = grants
    BY <1>6, SlotFacts DEF SlotShape, VerifyWrite
  <2>2. users' = users \/ Ledger!Activate(req[r].user)
    BY <1>6, <2>1 DEF VerifyWrite, sessions, Ledger!Activate
  <2> QED
    BY <1>1, <2>1, <2>2 DEF Ledger!Next
<1>7. ASSUME NEW g \in Grant, Expire(g) PROVE [Ledger!Next]_(Ledger!vars)
  BY <1>7 DEF Expire, IInv, TypeOK, GrantRow, sessions, Ledger!vars
<1> QED
  BY <1>1, <1>2, <1>3, <1>4, <1>5, <1>6, <1>7, UsersWriters, GrantsWriters

\* The account and session handlers, statement by statement, do what the ledger
\* does in one step.
THEOREM LedgerImplemented == Spec => ImplementsLedger
<1>1. IInv /\ [Next]_vars => [Ledger!Next]_(Ledger!vars)
  BY LedgerNext
<1> QED
  BY LedgerInit, Invariance, <1>1, PTL DEF Spec, ImplementsLedger, Ledger!Spec
=============================================================================
