---------------------------- MODULE KeyRingProofs ----------------------------
(***************************************************************************)
(* The ring of KeyRing, for every number of keys and processes and every   *)
(* choice of lifetime, overlap and stall that TimesAssumption admits.      *)
(*                                                                         *)
(* The argument: whoever holds the flock has read the present records, so  *)
(* a save changes one key's state and nothing else; and a token, signed or *)
(* about to be signed, expires before its key can be retired (Covered).    *)
(* So each save, and each signature, is one atomic step of RingPromise.    *)
(***************************************************************************)
EXTENDS KeyRing, TLAPS

\* A token of key k that expires at exp does so before k is retired: while k is
\* active the token was dated in the past, and when k began to retire the
\* token was at most MaxStall younger than retiring_at.
Covered(k, exp) ==
    /\ records[k].state \in {"active", "retiring", "retired"}
    /\ records[k].state = "active" => exp <= now + TTL
    /\ records[k].state = "retiring" => exp <= records[k].retiring_at + TTL + MaxStall
    /\ records[k].state = "retired" => exp <= now

\* What a process that is at c.pc knows.
ContextShape(c) ==
    /\ c.pc \in LockedPc \cup {"sign_encode"} => c.kid \in Key
    /\ c.pc \in {"publish_files", "publish_save"} => records[c.kid].state = "none"
    /\ c.pc = "publish_save" => c.kid \in files
    /\ c.pc \in {"publish_save", "activate_save", "retire_save"} => c.read = records
    /\ c.pc = "activate_save" => /\ records[c.kid].state = "published"
                                 /\ now <= c.at + MaxStall
    /\ c.pc = "retire_save" => Retirable(c.kid)
    /\ c.pc \in {"activate_save", "sign_read", "sign_encode"} => c.at <= now
    /\ c.pc = "sign_encode" => c.kid \in files /\ Covered(c.kid, c.at + TTL)

Contexts == \A p \in Proc : ContextShape(proc[p])

Exclusion == \A p, q \in Holder : p = q

Tokens == \A t \in tokens : t.kid \in files /\ Covered(t.kid, t.exp) /\ now < t.exp

IInv ==
    /\ TypeOK
    /\ Contexts
    /\ Exclusion
    /\ Tokens
    /\ OneActiveKey
    /\ RecordedKeysHaveFiles

-----------------------------------------------------------------------------
LEMMA IdleContext == Idle \in Context /\ ContextShape(Idle)
  BY DEF Idle, Context, Pc, LockedPc, NoRecords, Unknown, Records, Record, KeyState,
         ContextShape

\* A step that only moves one process preserves the invariant when the process
\* is right about what it knows and holds the flock alone.
LEMMA ContextStep ==
    ASSUME IInv, NEW p \in Proc, NEW c \in Context, ContextShape(c),
           c.pc \in LockedPc => Holder \subseteq {p},
           proc' = [proc EXCEPT ![p] = c],
           UNCHANGED <<records, files, tokens, now>>
    PROVE  IInv'
<1>1. TypeOK'
  BY DEF IInv, TypeOK
<1>2. Contexts'
  BY DEF IInv, TypeOK, Contexts, ContextShape, Covered, Retirable
<1>3. Exclusion'
  BY DEF IInv, TypeOK, Exclusion, Holder
<1>4. Tokens' /\ OneActiveKey' /\ RecordedKeysHaveFiles'
  BY DEF IInv, Tokens, Covered, OneActiveKey, RecordedKeysHaveFiles
<1> QED
  BY <1>1, <1>2, <1>3, <1>4 DEF IInv

LEMMA FinishStep ==
    ASSUME IInv, NEW p \in Proc, Finish(p), UNCHANGED <<records, files, tokens, now>>
    PROVE  IInv'
<1> Idle.pc \notin LockedPc
  BY DEF Idle, LockedPc
<1> QED
  BY IdleContext, ContextStep DEF Finish

\* The holder of the flock replaces the metadata and lets go of it.
LEMMA SaveStep ==
    ASSUME IInv, NEW p \in Proc, p \in Holder, NEW c \in Context,
           c.pc \notin LockedPc \cup {"sign_read", "sign_encode"},
           proc' = [proc EXCEPT ![p] = c],
           UNCHANGED <<files, tokens, now>>,
           records' \in Records,
           \A k \in Key, exp \in Nat : Covered(k, exp) => Covered(k, exp)',
           OneActiveKey', RecordedKeysHaveFiles'
    PROVE  IInv'
<1>1. TypeOK'
  BY DEF IInv, TypeOK
<1>2. Contexts'
  <2> SUFFICES ASSUME NEW q \in Proc PROVE ContextShape(proc[q])'
    BY DEF Contexts
  <2>1. CASE q = p
    BY <2>1 DEF IInv, TypeOK, ContextShape, LockedPc
  <2>2. CASE q # p
    <3>1. proc'[q] = proc[q] /\ proc[q].pc \notin LockedPc /\ ContextShape(proc[q])
      BY <2>2 DEF IInv, TypeOK, Exclusion, Holder, Contexts
    <3>2. proc[q].pc = "sign_encode" => proc[q].at + TTL \in Nat
      BY TimesAssumption DEF IInv, TypeOK, Context
    <3> QED
      BY <3>1, <3>2 DEF ContextShape, LockedPc
  <2> QED
    BY <2>1, <2>2
<1>3. Exclusion'
  BY DEF IInv, TypeOK, Exclusion, Holder
<1>4. Tokens'
  BY DEF IInv, TypeOK, Token, Tokens
<1> QED
  BY <1>1, <1>2, <1>3, <1>4 DEF IInv

-----------------------------------------------------------------------------
(***************************************************************************)
(* The actions that only move a process.                                   *)
(***************************************************************************)

LEMMA LoadStep ==
    ASSUME IInv, NEW p \in Proc, Load(p) PROVE IInv'
<1> DEFINE c == [Idle EXCEPT !.pc = "start_publish", !.starting = TRUE]
<1>1. c \in Context /\ ContextShape(c) /\ c.pc \notin LockedPc
  BY IdleContext DEF Context, Pc, LockedPc, Idle, ContextShape
<1> QED
  BY <1>1, ContextStep DEF Load

LEMMA PublishLockStep ==
    ASSUME IInv, NEW p \in Proc, NEW k \in Key, PublishLock(p, k) PROVE IInv'
<1> DEFINE c == [proc[p] EXCEPT !.pc = "publish_files", !.kid = k]
<1>1. c \in Context
  BY DEF IInv, TypeOK, Context, Pc, LockedPc
<1>2. ContextShape(c)
  BY DEF IInv, TypeOK, Context, ContextShape, PublishLock, Fresh
<1> QED
  BY <1>1, <1>2, ContextStep DEF PublishLock

LEMMA ActivateLockStep ==
    ASSUME IInv, NEW p \in Proc, NEW k \in Key, ActivateLock(p, k) PROVE IInv'
<1> DEFINE c == [Idle EXCEPT !.pc = "activate_save", !.kid = k, !.read = records,
                             !.at = now]
<1>1. c \in Context
  BY IdleContext DEF IInv, TypeOK, Context, Pc, LockedPc
<1>2. ContextShape(c)
  BY TimesAssumption DEF IInv, TypeOK, Idle, ContextShape, ActivateLock
<1> QED
  BY <1>1, <1>2, ContextStep DEF ActivateLock

LEMMA RetireLockStep ==
    ASSUME IInv, NEW p \in Proc, NEW k \in Key, RetireLock(p, k) PROVE IInv'
<1> DEFINE c == [Idle EXCEPT !.pc = "retire_save", !.kid = k, !.read = records]
<1>1. c \in Context
  BY IdleContext DEF IInv, TypeOK, Context, Pc, LockedPc
<1>2. ContextShape(c)
  BY DEF Idle, ContextShape, RetireLock
<1> QED
  BY <1>1, <1>2, ContextStep DEF RetireLock

LEMMA SignStartStep ==
    ASSUME IInv, NEW p \in Proc, SignStart(p) PROVE IInv'
<1> DEFINE c == [Idle EXCEPT !.pc = "sign_read", !.at = now]
<1>1. c \in Context
  BY IdleContext DEF IInv, TypeOK, Context, Pc, LockedPc
<1>2. ContextShape(c) /\ c.pc \notin LockedPc
  BY DEF IInv, TypeOK, Idle, ContextShape, LockedPc
<1> QED
  BY <1>1, <1>2, ContextStep DEF SignStart

LEMMA SignReadStep ==
    ASSUME IInv, NEW p \in Proc, NEW k \in Key, SignRead(p, k) PROVE IInv'
<1> DEFINE c == [proc[p] EXCEPT !.pc = "sign_encode", !.kid = k]
<1>1. c \in Context
  BY DEF IInv, TypeOK, Context, Pc, LockedPc
<1>2. proc[p].at \in Nat /\ proc[p].at <= now /\ k \in files /\ now \in Nat
  BY DEF IInv, TypeOK, Context, Contexts, ContextShape, SignRead, RecordedKeysHaveFiles
<1>3. Covered(k, proc[p].at + TTL)
  BY <1>2, TimesAssumption DEF Covered, SignRead
<1>4. ContextShape(c) /\ c.pc \notin LockedPc
  BY <1>2, <1>3 DEF IInv, TypeOK, Context, ContextShape, LockedPc
<1> QED
  BY <1>1, <1>4, ContextStep DEF SignRead

-----------------------------------------------------------------------------
(***************************************************************************)
(* The actions that write.                                                 *)
(***************************************************************************)

LEMMA PublishFilesStep ==
    ASSUME IInv, NEW p \in Proc, PublishFiles(p) PROVE IInv'
<1> DEFINE c == [proc[p] EXCEPT !.pc = "publish_save", !.read = records]
<1>1. /\ c \in Context /\ p \in Holder /\ c.pc = "publish_save"
      /\ c.kid = proc[p].kid /\ c.read = records /\ proc[p].kid \in Key
  BY DEF IInv, TypeOK, Context, Pc, LockedPc, Holder, PublishFiles, Contexts, ContextShape
<1>2. TypeOK'
  BY <1>1 DEF IInv, TypeOK, PublishFiles
<1>3. Contexts'
  <2> SUFFICES ASSUME NEW q \in Proc PROVE ContextShape(proc[q])'
    BY DEF Contexts
  <2>1. CASE q = p
    <3>1. proc'[p] = c
      BY DEF IInv, TypeOK, PublishFiles
    <3>2. records[c.kid].state = "none" /\ c.kid \in files'
      BY <1>1 DEF IInv, Contexts, ContextShape, PublishFiles
    <3> QED
      BY <1>1, <2>1, <3>1, <3>2 DEF ContextShape, PublishFiles
  <2>2. CASE q # p
    BY <2>2 DEF IInv, TypeOK, PublishFiles, Contexts, ContextShape, Covered, Retirable
  <2> QED
    BY <2>1, <2>2
<1>4. Exclusion'
  BY <1>1 DEF IInv, TypeOK, Exclusion, Holder, PublishFiles
<1>5. Tokens' /\ OneActiveKey' /\ RecordedKeysHaveFiles'
  BY DEF IInv, PublishFiles, Tokens, Covered, OneActiveKey, RecordedKeysHaveFiles
<1> QED
  BY <1>2, <1>3, <1>4, <1>5 DEF IInv

LEMMA PublishSaveStep ==
    ASSUME IInv, NEW p \in Proc, PublishSave(p) PROVE IInv'
<1> DEFINE kid == proc[p].kid
           row == [state |-> "published", retiring_at |-> 0]
<1>1. /\ p \in Holder /\ kid \in Key /\ kid \in files
      /\ records[kid].state = "none" /\ proc[p].read = records
  BY DEF IInv, Contexts, ContextShape, Holder, LockedPc, PublishSave
<1>2. records' = [records EXCEPT ![kid] = row] /\ row \in Record
  BY <1>1 DEF PublishSave, Record, KeyState
<1>3. records' \in Records
  BY <1>2 DEF IInv, TypeOK, Records
<1>4. ASSUME NEW k \in Key, NEW exp \in Nat, Covered(k, exp) PROVE Covered(k, exp)'
  BY <1>1, <1>2, <1>4 DEF IInv, TypeOK, Records, Covered, PublishSave
<1>5. OneActiveKey' /\ RecordedKeysHaveFiles'
  BY <1>1, <1>2 DEF IInv, TypeOK, Records, OneActiveKey, RecordedKeysHaveFiles, PublishSave
<1>6. CASE proc[p].starting
  <2> DEFINE c == [Idle EXCEPT !.pc = "start_activate", !.kid = proc[p].kid]
  <2>1. c \in Context /\ c.pc = "start_activate"
    BY <1>1, IdleContext DEF Context, Pc, LockedPc
  <2>2. proc' = [proc EXCEPT ![p] = c] /\ UNCHANGED <<files, tokens, now>>
    BY <1>6 DEF PublishSave
  <2>3. c.pc \notin LockedPc \cup {"sign_read", "sign_encode"}
    BY <2>1 DEF LockedPc
  <2> QED
    BY <1>1, <1>3, <1>4, <1>5, <2>1, <2>2, <2>3, SaveStep
<1>7. CASE ~proc[p].starting
  <2>1. proc' = [proc EXCEPT ![p] = Idle] /\ UNCHANGED <<files, tokens, now>>
    BY <1>7 DEF PublishSave, Finish
  <2>2. Idle.pc \notin LockedPc \cup {"sign_read", "sign_encode"}
    BY DEF Idle, LockedPc
  <2> QED
    BY <1>1, <1>3, <1>4, <1>5, <2>1, <2>2, IdleContext, SaveStep
<1> QED
  BY <1>6, <1>7

LEMMA ActivateSaveStep ==
    ASSUME IInv, NEW p \in Proc, ActivateSave(p) PROVE IInv'
<1> DEFINE kid == proc[p].kid
           at == proc[p].at
<1>1. /\ p \in Holder /\ kid \in Key /\ at \in Nat /\ now <= at + MaxStall
      /\ records[kid].state = "published" /\ proc[p].read = records
  BY DEF IInv, TypeOK, Context, Contexts, ContextShape, Holder, LockedPc, ActivateSave
<1>2. records' = Activated(records, kid, at) /\ UNCHANGED <<files, tokens, now>>
  BY <1>1 DEF ActivateSave
<1>3. \A k \in Key : [records[k] EXCEPT !.state = "active"] \in Record
  BY DEF IInv, TypeOK, Records, Record, KeyState
<1>4. [state |-> "retiring", retiring_at |-> at] \in Record
  BY <1>1 DEF Record, KeyState
<1>5. records' \in Records
  BY <1>2, <1>3, <1>4 DEF IInv, TypeOK, Records, Activated
<1>6. \A k \in Key :
         /\ k = kid => records'[k].state = "active"
         /\ k # kid /\ records[k].state = "active" =>
               records'[k] = [state |-> "retiring", retiring_at |-> at]
         /\ k # kid /\ records[k].state # "active" => records'[k] = records[k]
  BY <1>2 DEF IInv, TypeOK, Records, Record, Activated
<1>7. ASSUME NEW k \in Key, NEW exp \in Nat, Covered(k, exp) PROVE Covered(k, exp)'
  <2>1. k # kid
    BY <1>1, <1>7 DEF Covered
  <2>2. CASE records[k].state = "active"
    <3>1. exp <= now + TTL /\ now \in Nat
      BY <1>7, <2>2 DEF Covered, IInv, TypeOK
    <3>2. exp <= at + TTL + MaxStall
      BY <1>1, <3>1, TimesAssumption
    <3> QED
      BY <1>6, <2>1, <2>2, <3>2 DEF Covered
  <2>3. CASE records[k].state # "active"
    BY <1>2, <1>6, <1>7, <2>1, <2>3 DEF Covered
  <2> QED
    BY <2>2, <2>3
<1>8. OneActiveKey' /\ RecordedKeysHaveFiles'
  BY <1>1, <1>2, <1>6 DEF IInv, OneActiveKey, RecordedKeysHaveFiles
<1>9. proc' = [proc EXCEPT ![p] = Idle]
  BY DEF ActivateSave, Finish
<1>10. Idle.pc \notin LockedPc \cup {"sign_read", "sign_encode"}
  BY DEF Idle, LockedPc
<1> QED
  BY <1>1, <1>2, <1>5, <1>7, <1>8, <1>9, <1>10, IdleContext, SaveStep

LEMMA RetireSaveStep ==
    ASSUME IInv, NEW p \in Proc, RetireSave(p) PROVE IInv'
<1> DEFINE kid == proc[p].kid
<1>1. /\ p \in Holder /\ kid \in Key /\ Retirable(kid) /\ proc[p].read = records
  BY DEF IInv, Contexts, ContextShape, Holder, LockedPc, RetireSave
<1>2. /\ records' = [records EXCEPT ![kid].state = "retired"]
      /\ UNCHANGED <<files, tokens, now>>
  BY <1>1 DEF RetireSave
<1>3. [records[kid] EXCEPT !.state = "retired"] \in Record
  BY <1>1 DEF IInv, TypeOK, Records, Record, KeyState
<1>4. records' \in Records
  BY <1>1, <1>2, <1>3 DEF IInv, TypeOK, Records
<1>5. ASSUME NEW k \in Key, NEW exp \in Nat, Covered(k, exp) PROVE Covered(k, exp)'
  <2>1. CASE k = kid
    <3>1. /\ records[k].state = "retiring" /\ now >= records[k].retiring_at + Overlap
          /\ exp <= records[k].retiring_at + TTL + MaxStall
          /\ records[k].retiring_at \in Nat /\ now \in Nat
      BY <1>1, <1>5, <2>1 DEF Retirable, Covered, IInv, TypeOK, Records, Record
    <3>2. exp <= now
      BY <3>1, TimesAssumption
    <3>3. records'[k].state = "retired"
      BY <1>2, <2>1 DEF IInv, TypeOK, Records, Record
    <3> QED
      BY <1>2, <3>2, <3>3 DEF Covered
  <2>2. CASE k # kid
    BY <1>2, <1>5, <2>2 DEF IInv, TypeOK, Records, Covered
  <2> QED
    BY <2>1, <2>2
<1>6. OneActiveKey' /\ RecordedKeysHaveFiles'
  BY <1>1, <1>2 DEF IInv, TypeOK, Records, Record, OneActiveKey, RecordedKeysHaveFiles,
     Retirable
<1>7. proc' = [proc EXCEPT ![p] = Idle]
  BY DEF RetireSave, Finish
<1>8. Idle.pc \notin LockedPc \cup {"sign_read", "sign_encode"}
  BY DEF Idle, LockedPc
<1> QED
  BY <1>1, <1>2, <1>4, <1>5, <1>6, <1>7, <1>8, IdleContext, SaveStep

LEMMA SignEncodeStep ==
    ASSUME IInv, NEW p \in Proc, SignEncode(p) PROVE IInv'
<1> DEFINE t == [kid |-> proc[p].kid, exp |-> proc[p].at + TTL]
<1>1. /\ t \in Token /\ t.kid \in files /\ Covered(t.kid, t.exp)
  BY TimesAssumption DEF IInv, TypeOK, Context, Token, Contexts, ContextShape, SignEncode
<1>2. \A u \in tokens' : u \in tokens \/ (u = t /\ now < t.exp)
  BY DEF SignEncode
<1>3. proc' = [proc EXCEPT ![p] = Idle] /\ UNCHANGED <<records, files, now>>
  BY DEF SignEncode, Finish
<1>4. TypeOK'
  BY <1>1, <1>2, <1>3, IdleContext DEF IInv, TypeOK
<1>5. Contexts'
  BY <1>3, IdleContext DEF IInv, TypeOK, Contexts, ContextShape, Covered, Retirable
<1>6. Exclusion'
  BY <1>3 DEF IInv, TypeOK, Exclusion, Holder, Idle, LockedPc
<1>7. Tokens'
  BY <1>1, <1>2, <1>3 DEF IInv, Tokens, Covered
<1>8. OneActiveKey' /\ RecordedKeysHaveFiles'
  BY <1>3 DEF IInv, OneActiveKey, RecordedKeysHaveFiles
<1> QED
  BY <1>4, <1>5, <1>6, <1>7, <1>8 DEF IInv

LEMMA TickStep ==
    ASSUME IInv, Tick PROVE IInv'
<1>1. now \in Nat /\ now' = now + 1 /\ UNCHANGED <<records, files, proc>>
  BY DEF IInv, TypeOK, Tick
<1>2. TypeOK'
  BY <1>1 DEF IInv, TypeOK, Tick
<1>3. ASSUME NEW k \in Key, NEW exp \in Nat, Covered(k, exp) PROVE Covered(k, exp)'
  BY <1>1, <1>3, TimesAssumption DEF Covered
<1>4. Contexts'
  <2> SUFFICES ASSUME NEW p \in Proc PROVE ContextShape(proc[p])'
    BY DEF Contexts
  <2>1. ContextShape(proc[p]) /\ proc[p] \in Context
    BY DEF IInv, TypeOK, Contexts
  <2>2. proc[p].pc = "activate_save" => now' <= proc[p].at + MaxStall
    BY <1>1, <2>1, TimesAssumption DEF Tick, Context
  <2>3. proc[p].pc = "retire_save" => Retirable(proc[p].kid)'
    BY <1>1, <2>1, TimesAssumption DEF ContextShape, Retirable, LockedPc, IInv, TypeOK,
       Records, Record
  <2>4. proc[p].pc \in {"activate_save", "sign_read", "sign_encode"} => proc[p].at <= now'
    BY <1>1, <2>1 DEF ContextShape, Context
  <2>5. proc[p].pc = "sign_encode" => Covered(proc[p].kid, proc[p].at + TTL)'
    <3>1. proc[p].pc = "sign_encode" =>
             /\ proc[p].kid \in Key /\ proc[p].at + TTL \in Nat
             /\ Covered(proc[p].kid, proc[p].at + TTL)
      BY <2>1, TimesAssumption DEF ContextShape, Context
    <3>2. \A k \in Key, exp \in Nat : Covered(k, exp) => Covered(k, exp)'
      BY <1>3
    <3>3. UNCHANGED proc
      BY <1>1
    <3> QED
      BY <3>1, <3>2, <3>3 DEF Covered
  <2> QED
    BY <1>1, <2>1, <2>2, <2>3, <2>4, <2>5 DEF ContextShape
<1>5. Exclusion'
  BY <1>1 DEF IInv, Exclusion, Holder
<1>6. Tokens'
  BY <1>1, <1>3 DEF IInv, TypeOK, Token, Tokens, Tick
<1>7. OneActiveKey' /\ RecordedKeysHaveFiles'
  BY <1>1 DEF IInv, OneActiveKey, RecordedKeysHaveFiles
<1> QED
  BY <1>2, <1>4, <1>5, <1>6, <1>7 DEF IInv

-----------------------------------------------------------------------------
(***************************************************************************)
(* The theorems.                                                           *)
(***************************************************************************)

LEMMA Initially == Init => IInv
<1> SUFFICES ASSUME Init PROVE IInv
  OBVIOUS
<1>1. TypeOK
  BY IdleContext DEF Init, TypeOK, NoRecords, Unknown, Records, Record, KeyState
<1>2. Contexts /\ Exclusion
  BY IdleContext DEF Init, Contexts, Exclusion, Holder, Idle, LockedPc
<1>3. Tokens /\ OneActiveKey /\ RecordedKeysHaveFiles
  BY DEF Init, Tokens, OneActiveKey, RecordedKeysHaveFiles, NoRecords, Unknown
<1> QED
  BY <1>1, <1>2, <1>3 DEF IInv

LEMMA NextStep == IInv /\ [Next]_vars => IInv'
<1> SUFFICES ASSUME IInv, [Next]_vars PROVE IInv'
  OBVIOUS
<1>1. CASE UNCHANGED vars
  BY <1>1 DEF vars, IInv, TypeOK, Contexts, ContextShape, Covered, Retirable, Exclusion,
     Holder, Tokens, OneActiveKey, RecordedKeysHaveFiles
<1>2. ASSUME NEW p \in Proc, Load(p) \/ PublishFiles(p) \/ PublishSave(p) PROVE IInv'
  BY <1>2, LoadStep, PublishFilesStep, PublishSaveStep
<1>3. ASSUME NEW p \in Proc, ActivateRefused(p) \/ SignRefused(p) \/ Crash(p) PROVE IInv'
  BY <1>3, FinishStep DEF ActivateRefused, SignRefused, Crash
<1>4. ASSUME NEW p \in Proc, ActivateSave(p) \/ RetireSave(p) PROVE IInv'
  BY <1>4, ActivateSaveStep, RetireSaveStep
<1>5. ASSUME NEW p \in Proc, SignStart(p) \/ SignEncode(p) PROVE IInv'
  BY <1>5, SignStartStep, SignEncodeStep
<1>6. ASSUME NEW p \in Proc, NEW k \in Key,
             PublishLock(p, k) \/ ActivateLock(p, k) \/ RetireLock(p, k) \/ SignRead(p, k)
      PROVE  IInv'
  BY <1>6, PublishLockStep, ActivateLockStep, RetireLockStep, SignReadStep
<1>7. CASE Tick
  BY <1>7, TickStep
<1> QED
  BY <1>1, <1>2, <1>3, <1>4, <1>5, <1>6, <1>7 DEF Next

\* The inductive invariant holds of every behaviour of the ring.
THEOREM Invariance == Spec => []IInv
  BY Initially, NextStep, PTL DEF Spec

\* TypeOK: the metadata, the files and the processes' contexts keep their types.
THEOREM TypeCorrect == Spec => []TypeOK
<1>1. IInv => TypeOK
  BY DEF IInv
<1> QED
  BY <1>1, Invariance, PTL

\* OneActiveKey: racing activations never leave two keys that sign (activate).
THEOREM ActiveKeyUnique == Spec => []OneActiveKey
<1>1. IInv => OneActiveKey
  BY DEF IInv
<1> QED
  BY <1>1, Invariance, PTL

\* RecordedKeysHaveFiles: a recorded key has its files (publish).
THEOREM RecordsBacked == Spec => []RecordedKeysHaveFiles
<1>1. IInv => RecordedKeysHaveFiles
  BY DEF IInv
<1> QED
  BY <1>1, Invariance, PTL

\* TokensVerifiable: no key is retired before its last token expires, for every
\* overlap that covers the lifetime and the stall (retire, sign_claims).
THEOREM OverlapSuffices == Spec => []TokensVerifiable
<1>1. IInv => TokensVerifiable
  <2> SUFFICES ASSUME IInv, NEW t \in tokens
               PROVE  t.kid \in files /\ records[t.kid].state \in {"active", "retiring"}
    BY DEF TokensVerifiable
  <2>1. t.kid \in files /\ Covered(t.kid, t.exp) /\ now < t.exp
    BY DEF IInv, Tokens
  <2>2. t.exp \in Nat /\ now \in Nat
    BY DEF IInv, TypeOK, Token
  <2> QED
    BY <2>1, <2>2 DEF Covered
<1> QED
  BY <1>1, Invariance, PTL

\* The steps that change the metadata, and how they change each key.
LEMMA SaveChanges ==
    ASSUME IInv, [Next]_vars
    PROVE  \/ UNCHANGED records
           \/ \E p \in Proc :
                 \/ /\ proc[p].kid \in Key /\ records[proc[p].kid].state = "none"
                    /\ records' = [records EXCEPT ![proc[p].kid] =
                                      [state |-> "published", retiring_at |-> 0]]
                 \/ /\ proc[p].kid \in Key /\ records[proc[p].kid].state = "published"
                    /\ records' = Activated(records, proc[p].kid, proc[p].at)
                 \/ /\ proc[p].kid \in Key /\ records[proc[p].kid].state = "retiring"
                    /\ records' = [records EXCEPT ![proc[p].kid].state = "retired"]
<1>1. ASSUME NEW p \in Proc, PublishSave(p)
      PROVE  /\ proc[p].kid \in Key /\ records[proc[p].kid].state = "none"
             /\ records' = [records EXCEPT ![proc[p].kid] =
                               [state |-> "published", retiring_at |-> 0]]
  BY <1>1 DEF IInv, Contexts, ContextShape, LockedPc, PublishSave
<1>2. ASSUME NEW p \in Proc, ActivateSave(p)
      PROVE  /\ proc[p].kid \in Key /\ records[proc[p].kid].state = "published"
             /\ records' = Activated(records, proc[p].kid, proc[p].at)
  BY <1>2 DEF IInv, Contexts, ContextShape, LockedPc, ActivateSave
<1>3. ASSUME NEW p \in Proc, RetireSave(p)
      PROVE  /\ proc[p].kid \in Key /\ records[proc[p].kid].state = "retiring"
             /\ records' = [records EXCEPT ![proc[p].kid].state = "retired"]
  BY <1>3 DEF IInv, Contexts, ContextShape, LockedPc, RetireSave, Retirable
<1>4. ASSUME ~(\E p \in Proc : PublishSave(p) \/ ActivateSave(p) \/ RetireSave(p))
      PROVE  UNCHANGED records
  BY <1>4 DEF Next, vars, Load, PublishFiles, ActivateRefused, SignStart, SignRefused,
     SignEncode, Crash, PublishLock, ActivateLock, RetireLock, SignRead, Tick
<1> QED
  BY <1>1, <1>2, <1>3, <1>4

\* LifecycleForward: no save forgets a key or sets it back (_save under _locked).
THEOREM NoUpdateLost == Spec => LifecycleForward
<1>1. IInv /\ [Next]_vars =>
         [\A k \in Key : Rank(records'[k].state) >= Rank(records[k].state)]_vars
  <2> SUFFICES ASSUME IInv, [Next]_vars, NEW k \in Key
               PROVE  Rank(records'[k].state) >= Rank(records[k].state)
    OBVIOUS
  <2>1. records[k].state \in KeyState
    BY DEF IInv, TypeOK, Records, Record
  <2>2. \/ records'[k].state = records[k].state
        \/ records[k].state = "none" /\ records'[k].state = "published"
        \/ records[k].state = "published" /\ records'[k].state = "active"
        \/ records[k].state = "active" /\ records'[k].state = "retiring"
        \/ records[k].state = "retiring" /\ records'[k].state = "retired"
    <3>1. records \in [Key -> Record]
      BY DEF IInv, TypeOK, Records
    <3>2. CASE UNCHANGED records
      BY <3>2
    <3>3. ASSUME NEW p \in Proc, proc[p].kid \in Key,
                 records[proc[p].kid].state = "none",
                 records' = [records EXCEPT ![proc[p].kid] =
                                [state |-> "published", retiring_at |-> 0]]
          PROVE  \/ records'[k].state = records[k].state
                 \/ records[k].state = "none" /\ records'[k].state = "published"
      BY <3>1, <3>3
    <3>4. ASSUME NEW p \in Proc, proc[p].kid \in Key,
                 records[proc[p].kid].state = "published",
                 records' = Activated(records, proc[p].kid, proc[p].at)
          PROVE  \/ records'[k].state = records[k].state
                 \/ records[k].state = "published" /\ records'[k].state = "active"
                 \/ records[k].state = "active" /\ records'[k].state = "retiring"
      BY <3>1, <3>4 DEF Activated, Record
    <3>5. ASSUME NEW p \in Proc, proc[p].kid \in Key,
                 records[proc[p].kid].state = "retiring",
                 records' = [records EXCEPT ![proc[p].kid].state = "retired"]
          PROVE  \/ records'[k].state = records[k].state
                 \/ records[k].state = "retiring" /\ records'[k].state = "retired"
      BY <3>1, <3>5 DEF Record
    <3> QED
      BY <3>2, <3>3, <3>4, <3>5, SaveChanges
  <2> QED
    BY <2>1, <2>2 DEF Rank, KeyState
<1> QED
  BY <1>1, Invariance, PTL DEF Spec, LifecycleForward

\* SigningNeverLost: a ring that can sign stays able to (activate, retire).
THEOREM SigningKept == Spec => SigningNeverLost
<1>1. IInv /\ [Next]_vars =>
         [(\E k \in Key : records[k].state = "active") =>
          (\E k \in Key : records'[k].state = "active")]_vars
  BY SaveChanges DEF Activated, IInv, TypeOK, Records, Record
<1> QED
  BY <1>1, Invariance, PTL DEF Spec, SigningNeverLost

-----------------------------------------------------------------------------
(***************************************************************************)
(* The ring implements RingPromise: the save is the instant at which an    *)
(* operation happens, and every other step of a process is invisible.      *)
(***************************************************************************)

LEMMA PromiseInitially == Init => Promise!Init
  BY DEF Init, Promise!Init, NoRecords, Unknown

LEMMA PublishSavePromised ==
    ASSUME IInv, NEW p \in Proc, PublishSave(p) PROVE Promise!Next
<1> DEFINE kid == proc[p].kid
<1>1. kid \in Key /\ records[kid].state = "none" /\ proc[p].read = records
  BY DEF IInv, Contexts, ContextShape, LockedPc, PublishSave
<1>2. Promise!Publish(kid)
  BY <1>1 DEF PublishSave, Promise!Publish
<1> QED
  BY <1>1, <1>2 DEF Promise!Next

\* The stall between the clock and the save is within the margin of the overlap.
LEMMA ActivateSavePromised ==
    ASSUME IInv, NEW p \in Proc, ActivateSave(p) PROVE Promise!Next
<1> DEFINE kid == proc[p].kid
           at == proc[p].at
<1>1. /\ kid \in Key /\ records[kid].state = "published" /\ proc[p].read = records
      /\ at <= now /\ now <= at + MaxStall
  BY DEF IInv, Contexts, ContextShape, LockedPc, ActivateSave
<1>2. at \in Nat /\ now \in Nat
  BY DEF IInv, TypeOK, Context
<1>3. at \in 0 .. now /\ now + TTL <= at + Overlap
  BY <1>1, <1>2, TimesAssumption
<1>4. records' = Activated(records, kid, at) /\ UNCHANGED <<tokens, now>>
  BY <1>1 DEF ActivateSave
<1>5. Promise!Activate(kid, at)
  BY <1>1, <1>3, <1>4 DEF Activated, Promise!Activate
<1> QED
  BY <1>1, <1>3, <1>5 DEF Promise!Next

LEMMA RetireSavePromised ==
    ASSUME IInv, NEW p \in Proc, RetireSave(p) PROVE Promise!Next
<1> DEFINE kid == proc[p].kid
<1>1. kid \in Key /\ Retirable(kid) /\ proc[p].read = records
  BY DEF IInv, Contexts, ContextShape, LockedPc, RetireSave
<1>2. Promise!Retire(kid)
  BY <1>1 DEF RetireSave, Retirable, Promise!Retire
<1> QED
  BY <1>1, <1>2 DEF Promise!Next

\* A token signed so late that it has expired is as good as none; any other is
\* signed while its key is active, or retiring with the overlap still ahead of
\* the token's end.
LEMMA SignEncodePromised ==
    ASSUME IInv, NEW p \in Proc, SignEncode(p) PROVE [Promise!Next]_(Promise!vars)
<1> DEFINE kid == proc[p].kid
           exp == proc[p].at + TTL
<1>1. /\ kid \in Key /\ proc[p].at \in Nat /\ proc[p].at <= now /\ now \in Nat
      /\ Covered(kid, exp)
  BY DEF IInv, TypeOK, Context, Contexts, ContextShape, LockedPc, SignEncode
<1>2. CASE exp <= now
  <2>1. ~(now < exp)
    BY <1>1, <1>2, TimesAssumption
  <2>2. tokens' = tokens
    BY <2>1 DEF SignEncode
  <2> QED
    BY <2>2 DEF SignEncode, Promise!vars
<1>3. CASE ~(exp <= now)
  <2>1. exp \in now + 1 .. now + TTL /\ now < exp
    BY <1>1, <1>3, TimesAssumption
  <2>2. tokens' = tokens \cup {[kid |-> kid, exp |-> exp]}
    BY <2>1 DEF SignEncode
  <2>3. \/ records[kid].state = "active"
        \/ /\ records[kid].state = "retiring"
           /\ exp <= records[kid].retiring_at + TTL + MaxStall
    BY <1>1, <1>3 DEF Covered
  <2>4. records[kid].retiring_at \in Nat
    BY <1>1 DEF IInv, TypeOK, Records, Record
  <2>5. \/ records[kid].state = "active"
        \/ records[kid].state = "retiring" /\ exp <= records[kid].retiring_at + Overlap
    BY <1>1, <2>3, <2>4, TimesAssumption
  <2>6. Promise!Sign(kid, exp)
    BY <2>2, <2>5 DEF SignEncode, Promise!Sign
  <2> QED
    BY <1>1, <2>1, <2>6 DEF Promise!Next
<1> QED
  BY <1>2, <1>3

LEMMA StepPromised == IInv /\ [Next]_vars => [Promise!Next]_(Promise!vars)
<1> SUFFICES ASSUME IInv, [Next]_vars PROVE [Promise!Next]_(Promise!vars)
  OBVIOUS
<1>1. CASE UNCHANGED vars
  BY <1>1 DEF vars, Promise!vars
<1>2. ASSUME NEW p \in Proc,
             \/ Load(p) \/ PublishFiles(p) \/ ActivateRefused(p)
             \/ SignStart(p) \/ SignRefused(p) \/ Crash(p)
      PROVE  UNCHANGED Promise!vars
  BY <1>2 DEF Load, PublishFiles, ActivateRefused, SignStart, SignRefused, Crash,
     Promise!vars
<1>3. ASSUME NEW p \in Proc, NEW k \in Key,
             PublishLock(p, k) \/ ActivateLock(p, k) \/ RetireLock(p, k) \/ SignRead(p, k)
      PROVE  UNCHANGED Promise!vars
  BY <1>3 DEF PublishLock, ActivateLock, RetireLock, SignRead, Promise!vars
<1>4. ASSUME NEW p \in Proc, PublishSave(p) \/ ActivateSave(p) \/ RetireSave(p)
      PROVE  Promise!Next
  BY <1>4, PublishSavePromised, ActivateSavePromised, RetireSavePromised
<1>5. ASSUME NEW p \in Proc, SignEncode(p) PROVE [Promise!Next]_(Promise!vars)
  BY <1>5, SignEncodePromised
<1>6. CASE Tick
  BY <1>6 DEF Tick, Promise!Tick, Promise!Next
<1> QED
  BY <1>1, <1>2, <1>3, <1>4, <1>5, <1>6 DEF Next

\* ImplementsRing: with its flock, its order of writes and its overlap, the ring is
\* one in which every operation is atomic and no writer or signer ever dies.
THEOREM RingImplemented == Spec => ImplementsRing
  BY PromiseInitially, StepPromised, Invariance, PTL DEF Spec, ImplementsRing, Promise!Spec

-----------------------------------------------------------------------------
(***************************************************************************)
(* The ring's JWKS implements JwksService: a key that begins to retire has *)
(* a successor, and so has every key that retires after it.                *)
(***************************************************************************)

Succeeded ==
    (\E k \in Key : records[k].state \in {"retiring", "retired"}) =>
    (\E k \in Key : records[k].state = "active")

LEMMA SucceededStep == IInv /\ Succeeded /\ [Next]_vars => Succeeded'
<1> SUFFICES ASSUME IInv, Succeeded, [Next]_vars,
                    NEW k \in Key, records'[k].state \in {"retiring", "retired"}
             PROVE  \E j \in Key : records'[j].state = "active"
  BY DEF Succeeded
<1>1. records \in [Key -> Record]
  BY DEF IInv, TypeOK, Records
<1>2. CASE UNCHANGED records
  BY <1>2 DEF Succeeded
<1>3. ASSUME NEW p \in Proc, proc[p].kid \in Key, records[proc[p].kid].state = "none",
             records' = [records EXCEPT ![proc[p].kid] =
                            [state |-> "published", retiring_at |-> 0]]
      PROVE  \E j \in Key : records'[j].state = "active"
  <2>1. records[k].state \in {"retiring", "retired"}
    BY <1>1, <1>3
  <2>2. PICK j \in Key : records[j].state = "active"
    BY <2>1 DEF Succeeded
  <2> QED
    BY <1>1, <1>3, <2>2
<1>4. ASSUME NEW p \in Proc, proc[p].kid \in Key,
             records' = Activated(records, proc[p].kid, proc[p].at)
      PROVE  \E j \in Key : records'[j].state = "active"
  <2>1. records'[proc[p].kid].state = "active"
    BY <1>1, <1>4 DEF Activated, Record
  <2> QED
    BY <1>4, <2>1
<1>5. ASSUME NEW p \in Proc, proc[p].kid \in Key, records[proc[p].kid].state = "retiring",
             records' = [records EXCEPT ![proc[p].kid].state = "retired"]
      PROVE  \E j \in Key : records'[j].state = "active"
  <2>1. PICK j \in Key : records[j].state = "active"
    BY <1>5 DEF Succeeded
  <2> QED
    BY <1>1, <1>5, <2>1
<1> QED
  BY <1>2, <1>3, <1>4, <1>5, SaveChanges

LEMMA SuccessorInvariance == Spec => [](IInv /\ Succeeded)
<1>1. Init => Succeeded
  BY DEF Init, Succeeded, NoRecords, Unknown
<1> QED
  BY <1>1, SucceededStep, Invariance, PTL DEF Spec

\* Publishing shows the key.
LEMMA PublishServed ==
    ASSUME IInv, NEW kid \in Key, records[kid].state = "none",
           records' = [records EXCEPT ![kid] = [state |-> "published", retiring_at |-> 0]]
    PROVE  Service!Next
<1>1. records \in [Key -> Record]
  BY DEF IInv, TypeOK, Records
<1>2. records'[kid].state = "published" /\ \A k \in Key \ {kid} : records'[k] = records[k]
  BY <1>1
<1>3. JwksState' = [JwksState EXCEPT ![kid] = "served"]
  BY <1>2 DEF JwksState
<1>4. JwksState[kid] = "never"
  BY DEF JwksState
<1> QED
  BY <1>3, <1>4 DEF Service!Publish, Service!Next

\* An activation changes nothing that is shown.
LEMMA ActivateServed ==
    ASSUME IInv, NEW kid \in Key, NEW at, records[kid].state = "published",
           records' = Activated(records, kid, at)
    PROVE  UNCHANGED JwksState
<1>1. records \in [Key -> Record]
  BY DEF IInv, TypeOK, Records
<1>2. ASSUME NEW k \in Key
      PROVE  \/ records'[k].state = records[k].state
             \/ /\ records[k].state \in {"published", "active"}
                /\ records'[k].state \in {"active", "retiring"}
  <2>1. CASE k = kid
    BY <1>1, <2>1 DEF Activated, Record
  <2>2. CASE k # kid
    BY <2>2 DEF Activated
  <2> QED
    BY <2>1, <2>2
<1>3. ASSUME NEW k \in Key PROVE JwksState'[k] = JwksState[k]
  BY <1>2, <1>3 DEF JwksState
<1> QED
  BY <1>3 DEF JwksState

\* A retirement hides the key, and the active one is still shown.
LEMMA RetireServed ==
    ASSUME IInv, Succeeded, NEW kid \in Key, records[kid].state = "retiring",
           records' = [records EXCEPT ![kid].state = "retired"]
    PROVE  Service!Next
<1>1. records \in [Key -> Record]
  BY DEF IInv, TypeOK, Records
<1>2. /\ JwksState' = [JwksState EXCEPT ![kid] = "retired"]
      /\ JwksState[kid] = "served"
  <2>1. records'[kid].state = "retired" /\ \A k \in Key \ {kid} : records'[k] = records[k]
    BY <1>1 DEF Record
  <2> QED
    BY <2>1 DEF JwksState
<1>3. PICK j \in Key : records[j].state = "active"
  BY DEF Succeeded
<1>4. j # kid /\ JwksState[j] = "served"
  BY <1>3 DEF JwksState
<1>5. kid \in Service!Published /\ Service!Published # {kid}
  BY <1>2, <1>4 DEF Service!Published
<1> QED
  BY <1>2, <1>5 DEF Service!Retire, Service!Next

LEMMA StepServed == IInv /\ Succeeded /\ [Next]_vars => [Service!Next]_(Service!vars)
<1> SUFFICES ASSUME IInv, Succeeded, [Next]_vars PROVE [Service!Next]_(Service!vars)
  OBVIOUS
<1>1. CASE UNCHANGED records
  BY <1>1 DEF Service!vars, JwksState
<1>2. CASE ~ UNCHANGED records
  BY <1>2, SaveChanges, PublishServed, ActivateServed, RetireServed DEF Service!vars
<1> QED
  BY <1>1, <1>2

\* ServesJwks: the JWKS of the ring is what JwksVerifier takes its environment to be;
\* a retirement leaves the verifiers a key, whoever races and whoever dies (jwks, retire).
THEOREM ServiceImplemented == Spec => ServesJwks
<1>1. Init => Service!Init
  BY DEF Init, Service!Init, JwksState, NoRecords, Unknown
<1> QED
  BY <1>1, StepServed, SuccessorInvariance, PTL DEF Spec, ServesJwks, Service!Spec
=============================================================================
