------------------------------- MODULE KeyRing -------------------------------
(***************************************************************************)
(* The signing keys of the SSO service: one metadata file and a pair of    *)
(* key files per key, in a directory several processes share.  A writer    *)
(* holds an exclusive flock from reading the metadata to replacing it; a   *)
(* signer reads the metadata without the lock.  Any process may die at any *)
(* point; the kernel then drops its flock and the files stay as they are.  *)
(***************************************************************************)
EXTENDS Naturals

CONSTANTS
    Key,      \* key identifiers that can be generated
    Proc,     \* processes and threads that use the ring
    TTL,      \* lifetime of an access token
    Overlap,  \* overlap_seconds of the ring
    MaxStall, \* longest a writer takes from reading its clock to replacing the file
    MaxNow,   \* bound: the clock stops here
    NoKey

\* The constructor refuses an overlap below MINIMUM_OVERLAP_SECONDS, the token
\* lifetime and a margin; activate is assumed to take less than the margin from
\* its clock to os.replace.
ASSUME TimesAssumption ==
    /\ TTL \in Nat /\ Overlap \in Nat /\ MaxStall \in Nat /\ MaxNow \in Nat
    /\ TTL + MaxStall <= Overlap
ASSUME NoKeyAssumption == NoKey \notin Key

VARIABLES
    records,  \* keyring.json
    files,    \* keys whose private and public files have been written
    tokens,   \* tokens signed and not expired
    now,      \* the clock
    proc      \* what each process is doing

vars == <<records, files, tokens, now, proc>>

-----------------------------------------------------------------------------
KeyState == {"none", "published", "active", "retiring", "retired"}

Record == [state: KeyState, retiring_at: Nat]

Records == [Key -> Record]

Token == [kid: Key, exp: Nat]

LockedPc == {"publish_files", "publish_save", "activate_save", "retire_save"}

Pc == LockedPc \cup
      {"idle", "start_publish", "start_activate", "sign_read", "sign_encode"}

\* starting: publish was called by _load_codec.  read: the metadata a writer
\* has read.  at: the clock it has read, or the iat of the token being signed.
Context == [pc: Pc, starting: BOOLEAN, kid: Key \cup {NoKey}, read: Records, at: Nat]

TypeOK ==
    /\ records \in Records
    /\ files \subseteq Key
    /\ tokens \subseteq Token
    /\ now \in Nat
    /\ proc \in [Proc -> Context]

-----------------------------------------------------------------------------
Unknown == [state |-> "none", retiring_at |-> 0]

NoRecords == [k \in Key |-> Unknown]

Idle == [pc |-> "idle", starting |-> FALSE, kid |-> NoKey, read |-> NoRecords, at |-> 0]

Init ==
    /\ records = NoRecords
    /\ files = {}
    /\ tokens = {}
    /\ now = 0
    /\ proc = [p \in Proc |-> Idle]

\* Fault: the flock is not taken.
HolderNone == {}

\* The holders of the flock.
Holder == {p \in Proc : proc[p].pc \in LockedPc}

\* Hashes of fresh RSA keys: never generated before, by anyone.
Fresh == {k \in Key : /\ k \notin files
                      /\ records[k].state = "none"
                      /\ \A p \in Proc : proc[p].kid # k}

Finish(p) == proc' = [proc EXCEPT ![p] = Idle]

-----------------------------------------------------------------------------
\* _load_codec: a ring whose JWKS is empty gets a first key, in two calls.
Load(p) ==
    /\ proc[p].pc = "idle"
    /\ \A k \in Key : records[k].state \in {"none", "retired"}
    /\ proc' = [proc EXCEPT ![p] = [Idle EXCEPT !.pc = "start_publish", !.starting = TRUE]]
    /\ UNCHANGED <<records, files, tokens, now>>

PublishLock(p, k) ==
    /\ proc[p].pc \in {"idle", "start_publish"}
    /\ Holder = {}
    /\ k \in Fresh
    /\ proc' = [proc EXCEPT ![p] = [@ EXCEPT !.pc = "publish_files", !.kid = k]]
    /\ UNCHANGED <<records, files, tokens, now>>

\* Fault: only the record is written.
PublishFilesSkipped(p) ==
    /\ proc[p].pc = "publish_files"
    /\ proc' = [proc EXCEPT ![p] = [@ EXCEPT !.pc = "publish_save", !.read = records]]
    /\ UNCHANGED <<records, files, tokens, now>>

\* The key files come first, then the metadata is read.
PublishFiles(p) ==
    /\ proc[p].pc = "publish_files"
    /\ files' = files \cup {proc[p].kid}
    /\ proc' = [proc EXCEPT ![p] = [@ EXCEPT !.pc = "publish_save", !.read = records]]
    /\ UNCHANGED <<records, tokens, now>>

\* _save replaces the file as a whole.
PublishSave(p) ==
    /\ proc[p].pc = "publish_save"
    /\ records' = [proc[p].read EXCEPT ![proc[p].kid] =
                      [state |-> "published", retiring_at |-> 0]]
    /\ IF proc[p].starting
       THEN proc' = [proc EXCEPT ![p] = [Idle EXCEPT !.pc = "start_activate",
                                                     !.kid = proc[p].kid]]
       ELSE Finish(p)
    /\ UNCHANGED <<files, tokens, now>>

-----------------------------------------------------------------------------
\* activate: of a key that is not published it is a ValueError.
ActivateLock(p, k) ==
    /\ \/ proc[p].pc = "idle"
       \/ proc[p].pc = "start_activate" /\ proc[p].kid = k
    /\ Holder = {}
    /\ records[k].state = "published"
    /\ proc' = [proc EXCEPT ![p] = [Idle EXCEPT !.pc = "activate_save", !.kid = k,
                                                !.read = records, !.at = now]]
    /\ UNCHANGED <<records, files, tokens, now>>

\* The key that a starting process published has been activated by another.
ActivateRefused(p) ==
    /\ proc[p].pc = "start_activate"
    /\ Holder = {}
    /\ records[proc[p].kid].state # "published"
    /\ Finish(p)
    /\ UNCHANGED <<records, files, tokens, now>>

\* Fault: the previous key stays active.
ActivatedBesideOthers(read, kid, at) == [read EXCEPT ![kid].state = "active"]

Activated(read, kid, at) ==
    [k \in Key |-> IF k = kid THEN [read[k] EXCEPT !.state = "active"]
                   ELSE IF read[k].state = "active"
                   THEN [state |-> "retiring", retiring_at |-> at]
                   ELSE read[k]]

ActivateSave(p) ==
    /\ proc[p].pc = "activate_save"
    /\ records' = Activated(proc[p].read, proc[p].kid, proc[p].at)
    /\ Finish(p)
    /\ UNCHANGED <<files, tokens, now>>

-----------------------------------------------------------------------------
\* Fault: the overlap is not waited for.
RetirableAtOnce(k) == records[k].state = "retiring"

\* Fault: a key that still signs can be retired.
RetirableWhenActive(k) ==
    records[k].state \in {"active", "retiring"} /\ now >= records[k].retiring_at + Overlap

Retirable(k) == records[k].state = "retiring" /\ now >= records[k].retiring_at + Overlap

RetireLock(p, k) ==
    /\ proc[p].pc = "idle"
    /\ Holder = {}
    /\ Retirable(k)
    /\ proc' = [proc EXCEPT ![p] = [Idle EXCEPT !.pc = "retire_save", !.kid = k,
                                                !.read = records]]
    /\ UNCHANGED <<records, files, tokens, now>>

\* Fault: a state no other method knows.
RetireSaveUnknown(p) ==
    /\ proc[p].pc = "retire_save"
    /\ records' = [proc[p].read EXCEPT ![proc[p].kid].state = "revoked"]
    /\ Finish(p)
    /\ UNCHANGED <<files, tokens, now>>

RetireSave(p) ==
    /\ proc[p].pc = "retire_save"
    /\ records' = [proc[p].read EXCEPT ![proc[p].kid].state = "retired"]
    /\ Finish(p)
    /\ UNCHANGED <<files, tokens, now>>

-----------------------------------------------------------------------------
\* issue_access takes the time of the claims first.
SignStart(p) ==
    /\ proc[p].pc = "idle"
    /\ proc' = [proc EXCEPT ![p] = [Idle EXCEPT !.pc = "sign_read", !.at = now]]
    /\ UNCHANGED <<records, files, tokens, now>>

\* sign_claims reads the metadata without the lock.
SignRead(p, k) ==
    /\ proc[p].pc = "sign_read"
    /\ records[k].state = "active"
    /\ proc' = [proc EXCEPT ![p] = [@ EXCEPT !.pc = "sign_encode", !.kid = k]]
    /\ UNCHANGED <<records, files, tokens, now>>

\* RuntimeError("no active signing key").
SignRefused(p) ==
    /\ proc[p].pc = "sign_read"
    /\ \A k \in Key : records[k].state # "active"
    /\ Finish(p)
    /\ UNCHANGED <<records, files, tokens, now>>

\* Fault: the time of the claims is the time of the signature.
SignEncodeDatedLate(p) ==
    /\ proc[p].pc = "sign_encode"
    /\ proc[p].kid \in files
    /\ tokens' = tokens \cup {[kid |-> proc[p].kid, exp |-> now + TTL]}
    /\ Finish(p)
    /\ UNCHANGED <<records, files, now>>

\* The private key is loaded and the token made, however late.  A missing file
\* would be an exception, which is Crash.
SignEncode(p) ==
    /\ proc[p].pc = "sign_encode"
    /\ proc[p].kid \in files
    /\ tokens' = tokens \cup {t \in {[kid |-> proc[p].kid, exp |-> proc[p].at + TTL]} :
                                 now < t.exp}
    /\ Finish(p)
    /\ UNCHANGED <<records, files, now>>

-----------------------------------------------------------------------------
Crash(p) ==
    /\ proc[p].pc # "idle"
    /\ Finish(p)
    /\ UNCHANGED <<records, files, tokens, now>>

\* Time passes; tokens expire.  A writer that has read its clock replaces the
\* file before MaxStall has gone by.
Tick ==
    /\ now < MaxNow
    /\ \A p \in Proc : proc[p].pc = "activate_save" => now < proc[p].at + MaxStall
    /\ now' = now + 1
    /\ tokens' = {t \in tokens : now' < t.exp}
    /\ UNCHANGED <<records, files, proc>>

Next ==
    \/ \E p \in Proc :
          \/ Load(p) \/ PublishFiles(p) \/ PublishSave(p)
          \/ ActivateRefused(p) \/ ActivateSave(p) \/ RetireSave(p)
          \/ SignStart(p) \/ SignRefused(p) \/ SignEncode(p) \/ Crash(p)
          \/ \E k \in Key :
                PublishLock(p, k) \/ ActivateLock(p, k) \/ RetireLock(p, k) \/ SignRead(p, k)
    \/ Tick

Spec == Init /\ [][Next]_vars

-----------------------------------------------------------------------------
(***************************************************************************)
(* What the ring promises.                                                 *)
(***************************************************************************)

\* At most one key signs, although activations race and writers die halfway
\* (activate demotes every other key of the copy it writes back).
OneActiveKey ==
    \A j, k \in Key : records[j].state = "active" /\ records[k].state = "active" => j = k

\* An access token can be verified for as long as it lives: its key is not
\* retired, even when the signer read the metadata just before the key was
\* replaced and finished long after (the overlap that retire waits for).
TokensVerifiable ==
    \A t \in tokens : t.kid \in files /\ records[t.kid].state \in {"active", "retiring"}

\* Every recorded key has its files, whatever instant a publisher dies at, so
\* jwks and sign_claims never fail on a missing file (the order of the writes).
RecordedKeysHaveFiles == \A k \in Key : records[k].state # "none" => k \in files

Rank(state) ==
    CASE state = "none" -> 0 [] state = "published" -> 1 [] state = "active" -> 2
      [] state = "retiring" -> 3 [] state = "retired" -> 4

\* No writer undoes another's update: a recorded key is never forgotten and
\* never goes back to an earlier state (each save writes what was read under
\* the same flock).
LifecycleForward ==
    [][\A k \in Key : Rank(records'[k].state) >= Rank(records[k].state)]_vars

\* A ring that can sign stays able to sign: no activation, retirement or crash
\* leaves it without an active key.
SigningNeverLost ==
    [][(\E k \in Key : records[k].state = "active") =>
       (\E k \in Key : records'[k].state = "active")]_vars

\* Whoever verifies tokens may take each operation for one atomic step of RingPromise:
\* the flock, the order of the writes and the overlap hide the races between writers,
\* the signers that read without the lock, and the deaths of both.
Promise == INSTANCE RingPromise

ImplementsRing == Promise!Spec

\* Fault: only the key that signs is shown.
JwksStateActiveOnly ==
    [k \in Key |-> IF records[k].state \in {"none", "published"} THEN "never"
                   ELSE IF records[k].state = "active" THEN "served" ELSE "retired"]

\* jwks shows every recorded key that is not retired.
JwksState ==
    [k \in Key |-> IF records[k].state = "none" THEN "never"
                   ELSE IF records[k].state = "retired" THEN "retired" ELSE "served"]

Service == INSTANCE JwksService WITH state <- JwksState

\* Verifiers see a JWKS in which each key appears once and disappears once, and that
\* never becomes empty, although writers race and die (jwks, retire).
ServesJwks == Service!Spec
=============================================================================
