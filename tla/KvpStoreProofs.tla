--------------------------- MODULE KvpStoreProofs ---------------------------
(***************************************************************************)
(* Proofs about KvpStore for any processes, keys, values, batches and      *)
(* pools: IInv is inductive, then EditInv together with it; the properties *)
(* follow from them.  Last, KvpStore implements KvpAtomicStore.            *)
(***************************************************************************)
EXTENDS KvpStoreRefinement, TLAPS, SequenceTheorems, FiniteSetTheorems

USE DEF Reading, Editing, Writing, Op, LockMode

-----------------------------------------------------------------------------
(* Calling an operation: whatever it is, its arguments have the shape that *)
(* the operation needs and the records of the file are left alone.         *)
CallOf(p, c) ==
    /\ pc[p] = "idle"
    /\ calls' = calls + 1
    /\ pc' = [pc EXCEPT ![p] = "flock"]
    /\ call' = [call EXCEPT ![p] = c]
    /\ UNCHANGED <<clockVars, lockVars, iterVars>>
    /\ c \in Call /\ c.op \in Op
    /\ c.op = "insert" => Len(c.recs) = 1
    /\ c.op = "append" => Len(c.recs) > 0
    /\ c.op \in {"clear", "clear_if_stale"} => c.recs = <<>>
    /\ c.recs \in Batches \cup {<<>>} \cup {<<r>> : r \in Record}
    /\ c.op = "insert" => c.keys = {c.recs[1].key}
    /\ c.op = "load" => Cardinality(Keys(c.recs)) <= MaxUniqueKeys
    /\ pool' = pool /\ torn' = torn
    /\ exists' \in BOOLEAN /\ fresh' \in BOOLEAN /\ mtime' \in {mtime, now}

(* Every operation of KvpPoolStore starts as CallOf says. *)
LEMMA InvokeIsCall ==
    ASSUME TypeOK, NEW p \in Proc, Invoke(p)
    PROVE  \E c \in Call : CallOf(p, c)
<1> USE PoolsAreRecords DEF Start, OpenCreate, OpenExisting, fileVars, Call, TypeOK, CallOf
<1>1. CASE append(p)
  <2>1. PICK r \in Record : Start(p, "append", {}, <<r>>) /\ OpenCreate
    BY <1>1 DEF append
  <2>2. CallOf(p, [op |-> "append", keys |-> {}, recs |-> <<r>>])
    BY <2>1
  <2> QED BY <2>2
<1>2. CASE append_multiple(p)
  <2>1. PICK b \in Batches \ {<<>>} : Start(p, "append", {}, b) /\ OpenCreate
    BY <1>2 DEF append_multiple
  <2>2. CallOf(p, [op |-> "append", keys |-> {}, recs |-> b])
    BY <2>1
  <2> QED BY <2>2
<1>3. CASE load(p)
  <2>1. PICK b \in Batches : /\ Cardinality(Keys(b)) <= MaxUniqueKeys
                             /\ Start(p, "load", {}, b) /\ OpenCreate
    BY <1>3 DEF load
  <2>2. b \in Seq(Record) /\ Cardinality(Keys(b)) <= MaxUniqueKeys
    BY <2>1
  <2>3. CallOf(p, [op |-> "load", keys |-> {}, recs |-> b])
    BY <2>1, <2>2
  <2> QED BY <2>3
<1>4. CASE insert(p)
  <2>1. PICK r \in Record : Start(p, "insert", {r.key}, <<r>>) /\ OpenCreate
    BY <1>4 DEF insert
  <2>2. CallOf(p, [op |-> "insert", keys |-> {r.key}, recs |-> <<r>>])
    BY <2>1 DEF Record
  <2> QED BY <2>2
<1>5. CASE delete(p)
  <2>1. PICK k \in Key : Start(p, "delete", {k}, <<>>) /\ OpenExisting
    BY <1>5 DEF delete
  <2>2. CallOf(p, [op |-> "delete", keys |-> {k}, recs |-> <<>>])
    BY <2>1
  <2> QED BY <2>2
<1>6. CASE delete_multiple(p)
  <2>1. PICK ks \in SUBSET Key : Start(p, "delete", ks, <<>>) /\ OpenExisting
    BY <1>6 DEF delete_multiple
  <2>2. CallOf(p, [op |-> "delete", keys |-> ks, recs |-> <<>>])
    BY <2>1
  <2> QED BY <2>2
<1>7. CASE clear(p)
  <2>1. CallOf(p, [op |-> "clear", keys |-> {}, recs |-> <<>>])
    BY <1>7 DEF clear
  <2> QED BY <2>1
<1>8. CASE clear_if_stale(p)
  <2>1. CallOf(p, [op |-> "clear_if_stale", keys |-> {}, recs |-> <<>>])
    BY <1>8 DEF clear_if_stale
  <2> QED BY <2>1
<1>9. CASE dump(p)
  <2>1. CallOf(p, [op |-> "dump", keys |-> {}, recs |-> <<>>])
    BY <1>9 DEF dump
  <2> QED BY <2>1
<1> QED BY <1>1, <1>2, <1>3, <1>4, <1>5, <1>6, <1>7, <1>8, <1>9 DEF Invoke

(* The records of a batch, and what a write cut short makes of a slot, fit *)
(* a slot of the file.                                                      *)
LEMMA RecordsAreSlots ==
    /\ Record \subseteq Slot
    /\ \A s \in Slot : [key |-> s.key, value |-> Mixed] \in Slot
    /\ \A s \in Slot : [key |-> Mixed, value |-> s.value] \in Slot
    /\ \A s \in Slot, v \in Value : [key |-> s.key, value |-> v] \in Slot
BY DEF Record, Slot

-----------------------------------------------------------------------------
(* Type correctness. *)

LEMMA TypeInit == Init => TypeOK
<1> SUFFICES ASSUME Init PROVE TypeOK
  OBVIOUS
<1>1. pool \in Seq(Slot)
  BY PoolsAreRecords, RecordsAreSlots DEF Init
<1>2. NoCall \in Call
  BY DEF NoCall, Call
<1>3. <<>> \in Seq(Slot) /\ {} \in SUBSET (Key \cup {Mixed})
  OBVIOUS
<1>4. exists \in BOOLEAN /\ torn \in BOOLEAN /\ fresh \in BOOLEAN
  BY Zenon DEF Init
<1>5. /\ mtime \in Nat /\ now \in Nat /\ boot \in Nat /\ calls \in Nat
      /\ flock \in [Actor -> LockMode] /\ fcntl \in [Actor -> LockMode]
      /\ pc \in [Proc -> Label]
      /\ idx \in [Proc -> Nat] /\ cnt \in [Proc -> Nat] /\ hits \in [Proc -> Nat]
  BY DEF Init, Label
<1>6. /\ call \in [Proc -> Call]
      /\ uniq \in [Proc -> SUBSET (Key \cup {Mixed})]
      /\ acc \in [Proc -> Seq(Slot)] /\ snap \in [Proc -> Seq(Slot)]
  BY <1>2, <1>3 DEF Init
<1> QED BY <1>1, <1>4, <1>5, <1>6 DEF TypeOK

LEMMA TypeStep ==
    ASSUME TypeOK, \A p \in Proc : Shape(p) /\ CursorInv(p), [Next]_vars
    PROVE  TypeOK'
<1> USE DEF TypeOK, fileVars, clockVars, lockVars, iterVars
<1>0. NoCall \in Call
  BY DEF NoCall, Call
<1>1. ASSUME NEW p \in Proc, Invoke(p) PROVE TypeOK'
  <2>1. PICK c \in Call : CallOf(p, c)
    BY <1>1, InvokeIsCall
  <2> QED BY <2>1 DEF CallOf, Label
<1>2. ASSUME NEW p \in Proc, Step(p) PROVE TypeOK'
  <2> USE DEF Goto, Touch, Label
  <2>0. p \in Actor /\ Mode(p) \in LockMode
    BY DEF Actor, Mode
  <2>1. CASE FlockStep(p)
    BY <2>0, <2>1 DEF FlockStep
  <2>2. CASE FcntlStep(p)
    BY <2>0, <2>2 DEF FcntlStep
  <2>3. CASE IterNew(p)
    BY <2>3 DEF IterNew, AfterNew, Shape
  <2>4. CASE BadFraming(p) \/ Return(p)
    <3>1. Close(p)
      BY <2>4 DEF BadFraming, Return
    <3> QED BY <1>0, <2>0, <3>1 DEF Close
  <2>5. CASE ClearStep(p)
    BY <2>5 DEF ClearStep
  <2>6. CASE Truncate(p)
    <3>0. pool' = <<>> /\ torn' = FALSE /\ fresh' = TRUE
      BY <2>6, Zenon DEF Truncate
    <3>1. pool' \in Seq(Slot) /\ torn' \in BOOLEAN /\ fresh' \in BOOLEAN
      <4>1. <<>> \in Seq(Slot)
        OBVIOUS
      <4>2. pool' \in Seq(Slot)
        BY <3>0, <4>1, Zenon
      <4>3. torn' \in BOOLEAN /\ fresh' \in BOOLEAN
        BY <3>0, Zenon
      <4> QED BY <4>2, <4>3
    <3>2. cnt' \in [Proc -> Nat] /\ pc' \in [Proc -> Label]
      BY <2>6 DEF Truncate
    <3> QED BY <2>6, <3>1, <3>2 DEF Truncate
  <2>7. CASE ReadNext(p)
    <3>1. pool[idx[p] + 1] \in Slot
      BY <2>7 DEF ReadNext
    <3>2. pool[idx[p] + 1].key \in Key \cup {Mixed}
      BY <3>1 DEF Slot
    <3>3. acc' \in [Proc -> Seq(Slot)] /\ uniq' \in [Proc -> SUBSET (Key \cup {Mixed})]
      BY <2>7, <3>1, <3>2 DEF ReadNext
    <3> QED BY <2>7, <3>3 DEF ReadNext
  <2>8. CASE ScanEnd(p)
    BY <2>8 DEF ScanEnd
  <2>9. CASE OverwriteStart(p)
    <3>1. idx[p] \in 1..Len(pool)
      BY <2>9 DEF OverwriteStart, CursorInv, Counted, Inside, Shape
    <3>2. SetValue(idx[p], Mixed) \in Seq(Slot)
      BY <3>1, RecordsAreSlots DEF SetValue
    <3> QED BY <2>9, <3>2 DEF OverwriteStart
  <2>10. CASE OverwriteEnd(p)
    <3>1. idx[p] \in 1..Len(pool)
      BY <2>10 DEF OverwriteEnd, CursorInv, Counted, Inside, Shape
    <3>2. call[p].recs[1].value \in Value
      <4>1. call[p] \in Call /\ Len(call[p].recs) = 1
        BY <2>10 DEF OverwriteEnd, Shape
      <4>2. call[p].recs[1] \in Record
        BY <4>1 DEF Call
      <4> QED BY <4>2 DEF Record
    <3>3. SetValue(idx[p], call[p].recs[1].value) \in Seq(Slot)
      BY <3>1, <3>2, RecordsAreSlots DEF SetValue
    <3> QED BY <2>10, <3>3 DEF OverwriteEnd
  <2>11. CASE SwapStart(p)
    <3>1. idx[p] \in 1..Len(pool) /\ cnt[p] = Len(pool)
      BY <2>11 DEF SwapStart, CursorInv, Counted, Inside, Shape
    <3>2. \A half \in {[key |-> Mixed, value |-> pool[idx[p]].value],
                       [key |-> pool[cnt[p]].key, value |-> Mixed]} :
             [pool EXCEPT ![idx[p]] = half] \in Seq(Slot)
      BY <3>1, RecordsAreSlots
    <3> QED BY <2>11, <3>2 DEF SwapStart
  <2>12. CASE SwapEnd(p)
    <3>1. idx[p] \in 1..(Len(pool) - 1) /\ cnt[p] = Len(pool)
      BY <2>12 DEF SwapEnd, CursorInv, Counted, Inside, Shape
    <3>2. [pool EXCEPT ![idx[p]] = pool[cnt[p]]] \in Seq(Slot)
      BY <3>1
    <3> QED BY <2>12, <3>1, <3>2, SMTT(30) DEF SwapEnd
  <2>13. CASE Shrink(p)
    <3>1. cnt[p] = Len(pool) /\ cnt[p] >= 1
      <4>1. Shape(p) /\ CursorInv(p) /\ pc[p] \in {"shrink", "remove"}
        BY <2>13 DEF Shrink
      <4> QED BY <4>1 DEF CursorInv, Counted, Inside, Shape
    <3>2. SubSeq(pool, 1, cnt[p] - 1) \in Seq(Slot)
      BY <3>1
    <3> QED BY <2>13, <3>1, <3>2 DEF Shrink
  <2>14. CASE AppendStart(p)
    BY <2>14 DEF AppendStart
  <2>15. CASE AppendEnd(p)
    <3>1. call[p].recs[hits[p] + 1] \in Record
      BY <2>15 DEF AppendEnd, Shape, Call
    <3>2. Append(pool, call[p].recs[hits[p] + 1]) \in Seq(Slot)
      BY <3>1, RecordsAreSlots
    <3>3. pool' \in Seq(Slot) /\ torn' \in BOOLEAN /\ fresh' \in BOOLEAN
      BY <2>15, <3>2 DEF AppendEnd
    <3>4. /\ cnt' \in [Proc -> Nat] /\ hits' \in [Proc -> Nat]
          /\ pc' \in [Proc -> Label]
      BY <2>15, SMTT(30) DEF AppendEnd
    <3> QED BY <2>15, <3>3, <3>4 DEF AppendEnd
  <2> QED
    BY <1>2, <2>1, <2>2, <2>3, <2>4, <2>5, <2>6, <2>7, <2>8, <2>9, <2>10,
       <2>11, <2>12, <2>13, <2>14, <2>15 DEF Step
<1>3. ASSUME NEW p \in Proc, Fail(p) PROVE TypeOK'
  BY <1>0, <1>3 DEF Fail, Close, Actor, Label
<1>4. ASSUME NEW d \in Daemon, DaemonLock(d) \/ DaemonUnlock(d) PROVE TypeOK'
  <2>1. CASE DaemonLock(d)
    BY <2>1 DEF DaemonLock, Actor
  <2>2. CASE DaemonUnlock(d)
    BY <2>2 DEF DaemonUnlock, Actor
  <2> QED BY <1>4, <2>1, <2>2
<1>5. ASSUME NEW c \in CloudInit, CloudInitLock(c) PROVE TypeOK'
  BY <1>5 DEF CloudInitLock, Actor
<1>6. ASSUME NEW c \in CloudInit, CloudInitAppend(c) PROVE TypeOK'
  <2>1. \A r \in Record : Append(pool, r) \in Seq(Slot)
    BY RecordsAreSlots
  <2> QED BY <1>6, <2>1 DEF CloudInitAppend, Touch, Actor
<1>7. CASE Tick
  BY <1>7 DEF Tick
<1>8. CASE Reboot
  <2>1. exists' \in BOOLEAN /\ torn' \in BOOLEAN /\ fresh' \in BOOLEAN
    BY <1>8 DEF Reboot
  <2>2. <<>> \in Seq(Slot) /\ {} \in SUBSET (Key \cup {Mixed})
    OBVIOUS
  <2>3. /\ call' \in [Proc -> Call] /\ pc' \in [Proc -> Label]
        /\ uniq' \in [Proc -> SUBSET (Key \cup {Mixed})]
        /\ acc' \in [Proc -> Seq(Slot)] /\ snap' \in [Proc -> Seq(Slot)]
    BY <1>0, <1>8, <2>2 DEF Reboot, Label
  <2>4. /\ flock' \in [Actor -> LockMode] /\ fcntl' \in [Actor -> LockMode]
        /\ idx' \in [Proc -> Nat] /\ cnt' \in [Proc -> Nat] /\ hits' \in [Proc -> Nat]
        /\ mtime' \in Nat /\ now' \in Nat /\ boot' \in Nat /\ calls' \in Nat
        /\ pool' \in Seq(Slot)
    BY <1>8 DEF Reboot
  <2> QED BY <2>1, <2>3, <2>4
<1>9. CASE UNCHANGED vars
  BY <1>9 DEF vars
<1> QED BY <1>1, <1>2, <1>3, <1>4, <1>5, <1>6, <1>7, <1>8, <1>9 DEF Next

-----------------------------------------------------------------------------
(* Locks. *)

(* The invariant about locks gives mutual exclusion at once. *)
LEMMA LocksExclude ==
    ASSUME TypeOK, LockInv, \A p \in Proc : Shape(p)
    PROVE  Exclusion
<1> SUFFICES ASSUME NEW p \in Proc, Inside(p)
             PROVE  /\ \A c \in CloudInit : flock[c] = "free"
                    /\ Writer(p) => /\ \A q \in Proc \ {p} : ~Inside(q)
                                    /\ \A d \in Daemon : fcntl[d] = "free"
  BY DEF Exclusion
<1>0. p \in Actor /\ flock[p] = Mode(p) /\ fcntl[p] = Mode(p) /\ Mode(p) \in {"sh", "ex"}
  BY DEF LockInv, Inside, Actor, Mode
<1>1. ASSUME NEW c \in CloudInit PROVE flock[c] = "free"
  <2>1. c \in Actor /\ c # p /\ flock[c] \in {"free", "ex"}
    BY ActorsDisjoint DEF Actor, LockInv
  <2> QED BY <1>0, <2>1 DEF LockInv
<1>2. ASSUME Writer(p), NEW q \in Proc \ {p} PROVE ~Inside(q)
  <2>1. q \in Actor /\ flock[p] = "ex"
    BY <1>0, <1>2 DEF Actor, Mode, Writer
  <2>2. flock[q] = "free"
    BY <1>0, <2>1 DEF LockInv
  <2> QED BY <2>2 DEF LockInv, Inside, Mode
<1>3. ASSUME Writer(p), NEW d \in Daemon PROVE fcntl[d] = "free"
  <2>1. d \in Actor /\ d # p /\ fcntl[p] = "ex"
    BY <1>0, <1>3, ActorsDisjoint DEF Actor, Mode, Writer
  <2> QED BY <1>0, <2>1 DEF LockInv
<1> QED BY <1>1, <1>2, <1>3

(* The steps of an operation that has its locks and does not close. *)
Working(p) ==
    \/ IterNew(p) \/ ClearStep(p) \/ Truncate(p) \/ ReadNext(p) \/ ScanEnd(p)
    \/ OverwriteStart(p) \/ OverwriteEnd(p) \/ SwapStart(p) \/ SwapEnd(p)
    \/ Shrink(p) \/ AppendStart(p) \/ AppendEnd(p)

LEMMA StepCases ==
    ASSUME NEW p \in Proc, Step(p)
    PROVE  FlockStep(p) \/ FcntlStep(p) \/ Working(p) \/ Close(p)
BY DEF Step, Working, BadFraming, Return

(* They leave the locks and the call alone and stay inside. *)
LEMMA WorkingFrame ==
    ASSUME TypeOK, NEW p \in Proc, Working(p)
    PROVE  /\ Inside(p)
           /\ UNCHANGED <<flock, fcntl, call>>
           /\ \E l \in Label \ {"idle", "flock", "fcntl", "locked"} :
                    pc' = [pc EXCEPT ![p] = l]
<1> USE DEF Goto, lockVars, Inside, Label
<1>1. CASE IterNew(p)
  <2>1. AfterNew(call[p].op) \in {"scan", "append", "truncate"}
    BY DEF AfterNew
  <2>2. pc[p] = "locked" /\ pc' = [pc EXCEPT ![p] = AfterNew(call[p].op)]
    BY <1>1 DEF IterNew
  <2> QED BY <1>1, <2>1, <2>2 DEF IterNew
<1>2. CASE ClearStep(p)
  <2>1. \/ pc' = [pc EXCEPT ![p] = "truncate"]
        \/ pc' = [pc EXCEPT ![p] = "done"]
    <3>1. CASE call[p].op = "clear" \/ is_stale
      BY <1>2, <3>1, Zenon DEF ClearStep
    <3>2. CASE ~(call[p].op = "clear" \/ is_stale)
      BY <1>2, <3>2, Zenon DEF ClearStep
    <3> QED BY <3>1, <3>2
  <2>2. pc[p] = "locked" /\ UNCHANGED <<flock, fcntl, call>>
    BY <1>2 DEF ClearStep
  <2> QED BY <2>1, <2>2
<1>3. CASE Truncate(p)       BY <1>3 DEF Truncate
<1>4. CASE ReadNext(p)       BY <1>4 DEF ReadNext
<1>5. CASE ScanEnd(p)        BY <1>5 DEF ScanEnd
<1>6. CASE OverwriteStart(p) BY <1>6 DEF OverwriteStart
<1>7. CASE OverwriteEnd(p)   BY <1>7 DEF OverwriteEnd
<1>8. CASE SwapStart(p)      BY <1>8 DEF SwapStart
<1>9. CASE SwapEnd(p)        BY <1>9 DEF SwapEnd
<1>10. CASE Shrink(p)        BY <1>10 DEF Shrink
<1>11. CASE AppendStart(p)   BY <1>11 DEF AppendStart
<1>12. CASE AppendEnd(p)     BY <1>12 DEF AppendEnd
<1> QED
  BY <1>1, <1>2, <1>3, <1>4, <1>5, <1>6, <1>7, <1>8, <1>9, <1>10, <1>11, <1>12
     DEF Working

LEMMA LockInit == Init => LockInv
BY ActorsDisjoint DEF Init, LockInv, Actor, Inside, Mode

LEMMA LockStep ==
    ASSUME TypeOK, LockInv, \A p \in Proc : Shape(p), [Next]_vars
    PROVE  LockInv'
<1> USE ActorsDisjoint DEF LockInv, TypeOK, Actor, Inside, Mode
<1>1. ASSUME NEW p \in Proc, Invoke(p) PROVE LockInv'
  <2>1. PICK c \in Call : CallOf(p, c)
    BY <1>1, InvokeIsCall
  <2> QED BY <2>1 DEF CallOf, lockVars
<1>2. ASSUME NEW p \in Proc, FlockStep(p) PROVE LockInv'
  BY <1>2 DEF FlockStep, CanLock
<1>3. ASSUME NEW p \in Proc, FcntlStep(p) PROVE LockInv'
  BY <1>3 DEF FcntlStep, CanLock
<1>4. ASSUME NEW p \in Proc, Working(p) PROVE LockInv'
  <2>1. PICK l \in Label \ {"idle", "flock", "fcntl", "locked"} :
            pc' = [pc EXCEPT ![p] = l]
    BY <1>4, WorkingFrame
  <2> QED BY <1>4, <2>1, WorkingFrame
<1>5. ASSUME NEW p \in Proc, Close(p) PROVE LockInv'
  BY <1>5 DEF Close
<1>6. ASSUME NEW d \in Daemon, DaemonLock(d) PROVE LockInv'
  <2>1. /\ CanLock(fcntl, d, "sh") /\ fcntl' = [fcntl EXCEPT ![d] = "sh"]
        /\ UNCHANGED <<flock, pc, call>>
    BY <1>6 DEF DaemonLock
  <2>2. d \in Actor /\ d \notin Proc /\ \A b \in Actor : fcntl'[b] = "ex" => FALSE
    BY <2>1 DEF CanLock
  <2>3. \A p \in Proc : fcntl'[p] = fcntl[p]
    BY <2>1, <2>2
  <2>4. \A e \in Daemon : fcntl'[e] \in {"free", "sh"}
    BY <2>1, <2>2
  <2> QED BY <2>1, <2>2, <2>3, <2>4
<1>7. ASSUME NEW d \in Daemon, DaemonUnlock(d) PROVE LockInv'
  BY <1>7 DEF DaemonUnlock
<1>8. ASSUME NEW c \in CloudInit, CloudInitLock(c) PROVE LockInv'
  BY <1>8 DEF CloudInitLock, CanLock
<1>9. ASSUME NEW c \in CloudInit, CloudInitAppend(c) PROVE LockInv'
  BY <1>9 DEF CloudInitAppend
<1>10. CASE Tick
  BY <1>10 DEF Tick, lockVars
<1>11. CASE Reboot
  BY <1>11 DEF Reboot
<1>12. CASE UNCHANGED vars
  BY <1>12 DEF vars, lockVars
<1> QED
  BY <1>1, <1>2, <1>3, <1>4, <1>5, <1>6, <1>7, <1>8, <1>9, <1>10, <1>11, <1>12,
     StepCases DEF Next, Fail

-----------------------------------------------------------------------------
(* The invariants about one operation. *)

OpInv(q) == Shape(q) /\ CursorInv(q) /\ ReaderInv(q) /\ DeleteInv(q)

(* The first n records of a file. *)
LEMMA PrefixIs ==
    ASSUME NEW S, NEW s \in Seq(S), NEW n \in 0..Len(s)
    PROVE  /\ SubSeq(s, 1, n) \in Seq(S)
           /\ Len(SubSeq(s, 1, n)) = n /\ DOMAIN SubSeq(s, 1, n) = 1..n
           /\ \A i \in 1..n : i \in DOMAIN s /\ SubSeq(s, 1, n)[i] = s[i]
<1>0. n \in Nat /\ n \in Int /\ 1 \in Int /\ \A i \in 1..n : i \in DOMAIN s /\ s[i] \in S
  OBVIOUS
<1>1. /\ SubSeq(s, 1, n) \in Seq(S)
      /\ Len(SubSeq(s, 1, n)) = IF 1 <= n THEN n - 1 + 1 ELSE 0
      /\ \A i \in 1..(n - 1 + 1) : SubSeq(s, 1, n)[i] = s[1 + i - 1]
  BY <1>0, SubSeqProperties
<1>2. Len(SubSeq(s, 1, n)) = n
  BY <1>0, <1>1
<1>3. DOMAIN SubSeq(s, 1, n) = 1..n
  BY <1>1, <1>2
<1>4. ASSUME NEW i \in 1..n PROVE SubSeq(s, 1, n)[i] = s[i]
  <2>1. i \in 1..(n - 1 + 1) /\ 1 + i - 1 = i
    BY <1>0
  <2> QED BY <1>1, <2>1
<1> QED BY <1>0, <1>1, <1>2, <1>3, <1>4

(* Nothing an operation relies on changed: neither its own state nor, once *)
(* it is inside, the records.                                              *)
Steady(q) ==
    /\ pc'[q] = pc[q] /\ call'[q] = call[q]
    /\ idx'[q] = idx[q] /\ cnt'[q] = cnt[q] /\ hits'[q] = hits[q]
    /\ uniq'[q] = uniq[q] /\ acc'[q] = acc[q] /\ snap'[q] = snap[q]
    /\ Inside(q) => pool' = pool

LEMMA SteadyKeeps ==
    ASSUME NEW q \in Proc, OpInv(q), Steady(q)
    PROVE  OpInv(q)'
BY DEF OpInv, Steady, Shape, CursorInv, ReaderInv, DeleteInv, Counted, Inside

(* Only an operation that writes, and has its locks, changes the records. *)
LEMMA OnlyWritersWrite ==
    ASSUME NEW p \in Proc, Shape(p), Working(p), pool' # pool
    PROVE  Writer(p)
<1> USE DEF Shape, Writer, Touch, fileVars
<1>1. \/ Truncate(p) \/ OverwriteStart(p) \/ OverwriteEnd(p) \/ SwapStart(p)
      \/ SwapEnd(p) \/ Shrink(p) \/ AppendStart(p) \/ AppendEnd(p)
  BY DEF Working, IterNew, ClearStep, ReadNext, ScanEnd
<1>2. pc[p] \in {"truncate", "overwrite", "overwriting", "remove", "swapping",
                 "shrink", "append", "appending"}
  BY <1>1 DEF Truncate, OverwriteStart, OverwriteEnd, SwapStart, SwapEnd,
              Shrink, AppendStart, AppendEnd
<1> QED BY <1>2

(* A step of one process is steady for every other. *)
LEMMA OthersSteady ==
    ASSUME IInv, NEW p \in Proc, Working(p), NEW q \in Proc, q # p
    PROVE  Steady(q)
<1> USE DEF TypeOK, IInv, iterVars, Goto
<1>1. Inside(q) => pool' = pool
  <2>1. Inside(p)
    BY WorkingFrame
  <2>2. Exclusion
    BY LocksExclude
  <2> QED BY <2>1, <2>2, OnlyWritersWrite DEF Exclusion
<1>2. pc'[q] = pc[q] /\ call'[q] = call[q]
  BY WorkingFrame
<1>3. /\ idx'[q] = idx[q] /\ cnt'[q] = cnt[q] /\ hits'[q] = hits[q]
      /\ uniq'[q] = uniq[q] /\ acc'[q] = acc[q] /\ snap'[q] = snap[q]
  <2>1. CASE IterNew(p)        BY <2>1 DEF IterNew
  <2>2. CASE ClearStep(p)      BY <2>2 DEF ClearStep
  <2>3. CASE Truncate(p)       BY <2>3 DEF Truncate
  <2>4. CASE ReadNext(p)       BY <2>4 DEF ReadNext
  <2>5. CASE ScanEnd(p)        BY <2>5 DEF ScanEnd
  <2>6. CASE OverwriteStart(p) BY <2>6 DEF OverwriteStart
  <2>7. CASE OverwriteEnd(p)   BY <2>7 DEF OverwriteEnd
  <2>8. CASE SwapStart(p)      BY <2>8 DEF SwapStart
  <2>9. CASE SwapEnd(p)        BY <2>9 DEF SwapEnd
  <2>10. CASE Shrink(p)        BY <2>10 DEF Shrink
  <2>11. CASE AppendStart(p)   BY <2>11 DEF AppendStart
  <2>12. CASE AppendEnd(p)     BY <2>12 DEF AppendEnd
  <2> QED
    BY <2>1, <2>2, <2>3, <2>4, <2>5, <2>6, <2>7, <2>8, <2>9, <2>10, <2>11, <2>12
       DEF Working
<1> QED BY <1>1, <1>2, <1>3 DEF Steady

(* The step of the operation itself, while it has its locks. *)
LEMMA WorkingKeeps ==
    ASSUME IInv, NEW p \in Proc, Working(p)
    PROVE  OpInv(p)'
<1> USE DEF OpInv, Shape, CursorInv, ReaderInv, DeleteInv, Counted, Inside, Goto, Touch
<1>0. /\ TypeOK /\ OpInv(p)
      /\ pool \in Seq(Slot) /\ call[p] \in Call /\ call[p].recs \in Seq(Record)
      /\ idx[p] \in Nat /\ cnt[p] \in Nat /\ hits[p] \in Nat
      /\ acc[p] \in Seq(Slot) /\ snap[p] \in Seq(Slot)
  BY DEF IInv, TypeOK, Call
<1>1. CASE IterNew(p)
  <2>1. /\ pc[p] = "locked" /\ pool' = pool /\ pc'[p] = AfterNew(call[p].op)
        /\ cnt'[p] = Len(pool) /\ snap'[p] = pool /\ idx'[p] = 0 /\ hits'[p] = 0
        /\ acc'[p] = <<>> /\ call'[p] = call[p]
        /\ call[p].op \notin {"none", "clear", "clear_if_stale"}
    <3>1. pc' = [pc EXCEPT ![p] = AfterNew(call[p].op)] /\ pc \in [Proc -> Label]
      BY <1>0, <1>1 DEF IterNew, TypeOK
    <3>2. pc'[p] = AfterNew(call[p].op)
      BY <3>1
    <3> QED BY <1>0, <1>1, <3>2 DEF IterNew, TypeOK, fileVars
  <2>2. CASE call[p].op = "append"
    BY <1>0, <2>1, <2>2 DEF AfterNew
  <2>3. CASE call[p].op = "load"
    BY <1>0, <2>1, <2>3 DEF AfterNew
  <2>4. CASE call[p].op \notin {"append", "load"}
    <3>1. pc'[p] = "scan" /\ call[p].op \in Reading \cup Editing
      BY <1>0, <2>1, <2>4 DEF AfterNew, Call
    <3>2. SubSeq(pool, 1, 0) = <<>>
      BY <1>0
    <3> QED BY <1>0, <2>1, <3>1, <3>2
  <2> QED BY <2>2, <2>3, <2>4
<1>2. CASE ClearStep(p)
  BY <1>0, <1>2 DEF ClearStep, is_stale, TypeOK, fileVars
<1>3. CASE Truncate(p)
  BY <1>0, <1>3 DEF Truncate, TypeOK
<1>4. CASE ReadNext(p)
  BY <1>0, <1>4, SMTT(30) DEF ReadNext, TypeOK, fileVars
<1>5. CASE ScanEnd(p)
  <2>1. /\ pc[p] = "scan" /\ idx[p] >= cnt[p] /\ pool' = pool /\ call'[p] = call[p]
        /\ cnt'[p] = cnt[p] /\ snap'[p] = snap[p] /\ idx'[p] = idx[p]
        /\ hits'[p] = hits[p] /\ acc'[p] = acc[p]
    BY <1>0, <1>5 DEF ScanEnd, TypeOK, fileVars, iterVars
  <2>2. CASE call[p].op # "insert" \/ hits[p] > 0
    <3>1. pc'[p] = "done"
      BY <1>0, <1>5, <2>2 DEF ScanEnd, TypeOK
    <3> QED BY <1>0, <2>1, <3>1
  <2>3. CASE call[p].op = "insert" /\ hits[p] = 0
    <3>1. pc'[p] \in {"full", "append"}
      BY <1>0, <1>5, <2>3 DEF ScanEnd, TypeOK
    <3>2. Len(call[p].recs) = 1
      BY <1>0, <2>3
    <3>3. CursorInv(p)' /\ ReaderInv(p)' /\ DeleteInv(p)'
      BY <1>0, <2>1, <2>3, <3>1
    <3>4. Shape(p)'
      BY <2>1, <2>3, <3>1, <3>2
    <3> QED BY <3>3, <3>4
  <2> QED BY <1>0, <2>2, <2>3
<1>6. CASE OverwriteStart(p)
  BY <1>0, <1>6 DEF OverwriteStart, TypeOK, iterVars, SetValue
<1>7. CASE OverwriteEnd(p)
  BY <1>0, <1>7 DEF OverwriteEnd, TypeOK, SetValue
<1>8. CASE SwapStart(p)
  BY <1>0, <1>8, SMTT(30) DEF SwapStart, TypeOK, iterVars
<1>9. CASE SwapEnd(p)
  <2>1. /\ pc[p] = "swapping" /\ pc'[p] = "shrink" /\ call'[p] = call[p]
        /\ pool' = [pool EXCEPT ![idx[p]] = pool[cnt[p]]]
        /\ cnt'[p] = cnt[p] /\ snap'[p] = snap[p] /\ idx'[p] = idx[p] - 1
        /\ hits'[p] = hits[p] /\ acc'[p] = acc[p]
    BY <1>0, <1>9 DEF SwapEnd, TypeOK
  <2>2. /\ Len(pool') = Len(pool) /\ DOMAIN pool' = DOMAIN pool
        /\ \A i \in DOMAIN pool : i < idx[p] => pool'[i] = pool[i]
    BY <1>0, <2>1
  <2>3. call[p].op \in Editing /\ cnt[p] = Len(pool) /\ idx[p] \in 1..(cnt[p] - 1)
    BY <1>0, <2>1
  <2>4. Shape(p)' /\ CursorInv(p)' /\ ReaderInv(p)'
    BY <1>0, <2>1, <2>2, <2>3
  <2>5. DeleteInv(p)'
    BY <1>0, <2>1, <2>2, <2>3
  <2> QED BY <2>4, <2>5
<1>10. CASE Shrink(p)
  <2>1. /\ pc[p] = "shrink" \/ (pc[p] = "remove" /\ idx[p] = cnt[p])
        /\ pc'[p] = "scan" /\ call'[p] = call[p]
        /\ pool' = SubSeq(pool, 1, cnt[p] - 1)
        /\ cnt'[p] = cnt[p] - 1 /\ snap'[p] = snap[p] /\ idx'[p] = idx[p]
        /\ hits'[p] = hits[p] + 1 /\ acc'[p] = acc[p]
    BY <1>0, <1>10 DEF Shrink, TypeOK
  <2>2. call[p].op \in Editing /\ cnt[p] = Len(pool) /\ cnt[p] >= 1 /\ idx[p] <= cnt[p]
    <3>1. pc[p] \in {"shrink", "remove"} /\ call[p].op \in Editing /\ Counted(p)
      BY <1>0, <2>1
    <3>2. cnt[p] = Len(pool)
      BY <1>0, <3>1
    <3>3. CASE pc[p] = "shrink"
      BY <1>0, <3>1, <3>2, <3>3
    <3>4. CASE pc[p] = "remove"
      BY <1>0, <3>1, <3>2, <3>4
    <3> QED BY <3>1, <3>2, <3>3, <3>4
  <2>3. /\ Len(pool') = cnt[p] - 1 /\ DOMAIN pool' = 1..(cnt[p] - 1)
        /\ \A i \in DOMAIN pool' : i \in DOMAIN pool /\ pool'[i] = pool[i]
    <3>1. cnt[p] - 1 \in 0..Len(pool) /\ pool' = SubSeq(pool, 1, cnt[p] - 1)
      BY <1>0, <2>1, <2>2
    <3>2. \A i \in 1..(cnt[p] - 1) : i \in DOMAIN pool /\ pool'[i] = pool[i]
      BY <1>0, <3>1, PrefixIs
    <3>3. Len(pool') = cnt[p] - 1 /\ DOMAIN pool' = 1..(cnt[p] - 1)
      <4>1. pool \in Seq(Slot)
        BY <1>0
      <4> QED BY <3>1, <4>1, PrefixIs, Zenon
    <3> QED BY <3>2, <3>3
  <2>4. Shape(p)' /\ CursorInv(p)' /\ ReaderInv(p)'
    BY <1>0, <2>1, <2>2, <2>3
  <2>5. DeleteInv(p)'
    BY <1>0, <2>1, <2>2, <2>3, SMTT(30)
  <2> QED BY <2>4, <2>5
<1>11. CASE AppendStart(p)
  BY <1>0, <1>11 DEF AppendStart, TypeOK, iterVars
<1>12. CASE AppendEnd(p)
  BY <1>0, <1>12 DEF AppendEnd, TypeOK
<1> QED
  BY <1>1, <1>2, <1>3, <1>4, <1>5, <1>6, <1>7, <1>8, <1>9, <1>10, <1>11, <1>12
     DEF Working

(* A step that is neither a call, a lock, a close nor a reboot of q itself *)
(* and that keeps its hands off the records while q is inside.             *)
LEMMA OutsideKeeps ==
    ASSUME NEW q \in Proc, OpInv(q), UNCHANGED <<pc, call, iterVars>>,
           Inside(q) => pool' = pool
    PROVE  OpInv(q)'
BY SteadyKeeps DEF Steady, iterVars

LEMMA OpInit ==
    ASSUME Init, NEW q \in Proc
    PROVE  OpInv(q)
BY DEF Init, NoCall, OpInv, Shape, CursorInv, ReaderInv, DeleteInv, Counted, Inside

(* Whatever a process does outside Working, its own invariant holds again  *)
(* afterwards, and that of every other process is left alone.              *)
LEMMA CallKeeps ==
    ASSUME IInv, NEW p \in Proc, NEW c \in Call, CallOf(p, c), NEW q \in Proc
    PROVE  OpInv(q)'
<1> USE DEF IInv, TypeOK, CallOf, iterVars
<1>1. CASE q = p
  BY <1>1 DEF OpInv, Shape, CursorInv, ReaderInv, DeleteInv, Counted, Inside
<1>2. CASE q # p
  <2>1. OpInv(q) /\ Steady(q)
    BY <1>2 DEF OpInv, Steady
  <2> QED BY <2>1, SteadyKeeps
<1> QED BY <1>1, <1>2

LEMMA LockingKeeps ==
    ASSUME IInv, NEW p \in Proc, FlockStep(p) \/ FcntlStep(p), NEW q \in Proc
    PROVE  OpInv(q)'
<1> USE DEF IInv, TypeOK, FlockStep, FcntlStep, iterVars, fileVars
<1>1. CASE q = p
  BY <1>1 DEF OpInv, Shape, CursorInv, ReaderInv, DeleteInv, Counted, Inside
<1>2. CASE q # p
  <2>1. OpInv(q) /\ Steady(q)
    BY <1>2 DEF OpInv, Steady
  <2> QED BY <2>1, SteadyKeeps
<1> QED BY <1>1, <1>2

LEMMA CloseKeeps ==
    ASSUME IInv, NEW p \in Proc, Close(p), NEW q \in Proc
    PROVE  OpInv(q)'
<1> USE DEF IInv, TypeOK, Close, fileVars
<1>1. CASE q = p
  BY <1>1 DEF OpInv, Shape, CursorInv, ReaderInv, DeleteInv, Counted, Inside, NoCall
<1>2. CASE q # p
  <2>1. OpInv(q) /\ Steady(q)
    BY <1>2 DEF OpInv, Steady
  <2> QED BY <2>1, SteadyKeeps
<1> QED BY <1>1, <1>2

(* cloud-init holds flock while it appends: no process is inside then. *)
LEMMA AppenderAlone ==
    ASSUME IInv, NEW c \in CloudInit, CloudInitAppend(c), NEW q \in Proc
    PROVE  ~Inside(q)
<1>1. Exclusion
  BY LocksExclude DEF IInv
<1>2. flock[c] = "ex"
  BY DEF CloudInitAppend
<1> QED BY <1>1, <1>2 DEF Exclusion

LEMMA OpStep ==
    ASSUME IInv, [Next]_vars, NEW q \in Proc
    PROVE  OpInv(q)'
<1>0. OpInv(q)
  BY DEF IInv, OpInv
<1>1. ASSUME NEW p \in Proc, Invoke(p) PROVE OpInv(q)'
  <2>1. TypeOK
    BY DEF IInv
  <2>2. PICK c \in Call : CallOf(p, c)
    BY <1>1, <2>1, InvokeIsCall
  <2> QED BY <2>2, CallKeeps
<1>2. ASSUME NEW p \in Proc, Step(p) PROVE OpInv(q)'
  <2>1. CASE FlockStep(p) \/ FcntlStep(p)
    BY <2>1, LockingKeeps
  <2>2. CASE Working(p) /\ q = p
    BY <2>2, WorkingKeeps
  <2>3. CASE Working(p) /\ q # p
    BY <1>0, <2>3, OthersSteady, SteadyKeeps
  <2>4. CASE Close(p)
    BY <2>4, CloseKeeps
  <2> QED BY <1>2, <2>1, <2>2, <2>3, <2>4, StepCases
<1>3. ASSUME NEW p \in Proc, Fail(p) PROVE OpInv(q)'
  BY <1>3, CloseKeeps DEF Fail
<1>4. ASSUME NEW d \in Daemon, DaemonLock(d) \/ DaemonUnlock(d) PROVE OpInv(q)'
  BY <1>0, <1>4, OutsideKeeps DEF DaemonLock, DaemonUnlock, fileVars
<1>5. ASSUME NEW c \in CloudInit, CloudInitLock(c) PROVE OpInv(q)'
  BY <1>0, <1>5, OutsideKeeps DEF CloudInitLock, fileVars
<1>6. ASSUME NEW c \in CloudInit, CloudInitAppend(c) PROVE OpInv(q)'
  BY <1>0, <1>6, AppenderAlone, OutsideKeeps DEF CloudInitAppend
<1>7. CASE Tick
  BY <1>0, <1>7, OutsideKeeps DEF Tick, fileVars
<1>8. CASE Reboot
  BY <1>8 DEF Reboot, NoCall, OpInv, Shape, CursorInv, ReaderInv, DeleteInv,
              Counted, Inside
<1>9. CASE UNCHANGED vars
  BY <1>0, <1>9, OutsideKeeps DEF vars, fileVars
<1> QED BY <1>1, <1>2, <1>3, <1>4, <1>5, <1>6, <1>7, <1>8, <1>9 DEF Next

-----------------------------------------------------------------------------
(* The invariant and the properties. *)

(* IInv holds at the start and every step keeps it. *)
THEOREM InductiveInvariant == Spec => []IInv
<1>1. Init => IInv
  BY TypeInit, LockInit, OpInit DEF IInv, OpInv
<1>2. ASSUME IInv, [Next]_vars PROVE IInv'
  <2>1. TypeOK'
    BY <1>2, TypeStep DEF IInv
  <2>2. LockInv'
    BY <1>2, LockStep DEF IInv
  <2>3. \A q \in Proc : OpInv(q)'
    BY <1>2, OpStep
  <2> QED BY <2>1, <2>2, <2>3 DEF IInv, OpInv
<1> QED BY <1>1, <1>2, PTL DEF Spec

(* Every variable keeps its type, whichever processes crash, race or reboot. *)
THEOREM TypeCorrect == Spec => []TypeOK
<1>1. IInv => TypeOK
  BY DEF IInv
<1> QED BY <1>1, InductiveInvariant, PTL

(* While an operation that writes is inside, no other operation, no daemon *)
(* reader and no cloud-init appender is (the Locking section of store.rs). *)
THEOREM MutualExclusion == Spec => []Exclusion
<1>1. IInv => Exclusion
  BY LocksExclude DEF IInv
<1> QED BY <1>1, InductiveInvariant, PTL

(* The record count that KvpPoolIter caches is that of the file, and its   *)
(* cursor is inside the file wherever a record is overwritten or removed.  *)
THEOREM CursorIsCurrent == Spec => []CursorCurrent
<1>1. IInv => CursorCurrent
  <2> SUFFICES ASSUME IInv, NEW p \in Proc, Counted(p)
               PROVE  /\ cnt[p] = Len(pool)
                      /\ idx[p] <= cnt[p] + 1
                      /\ pc[p] \in {"overwrite", "overwriting", "remove", "swapping"} =>
                              idx[p] \in 1..cnt[p]
    BY DEF CursorCurrent
  <2> QED BY DEF IInv, CursorInv, TypeOK
<1> QED BY <1>1, InductiveInvariant, PTL

(* A dump returns the records the file held at one instant. *)
THEOREM ReadsAreSnapshots == Spec => []SnapshotRead
<1>1. IInv => SnapshotRead
  <2> SUFFICES ASSUME IInv, NEW p \in Proc, pc[p] = "done", call[p].op \in Reading
               PROVE  acc[p] = pool /\ acc[p] = snap[p]
    BY DEF SnapshotRead
  <2>1. Counted(p)
    BY DEF Counted, Inside
  <2>2. acc[p] = SubSeq(pool, 1, Len(pool)) /\ pool = snap[p] /\ pool \in Seq(Slot)
    BY <2>1 DEF IInv, ReaderInv, TypeOK
  <2>3. SubSeq(pool, 1, Len(pool)) = pool
    BY <2>2, SubSeqFull
  <2> QED BY <2>2, <2>3
<1> QED BY <1>1, InductiveInvariant, PTL

(* The operations lock in one order and the other programs take one lock   *)
(* only, so nobody waits in a circle.                                      *)
THEOREM DeadlockFree == Spec => []NoCircularWait
<1>1. IInv => NoCircularWait
  <2> SUFFICES ASSUME IInv, NEW p \in Proc, Waiting(p),
                      \A q \in Proc : ~Inside(q),
                      \A d \in Daemon : fcntl[d] = "free",
                      \A c \in CloudInit : flock[c] = "free"
               PROVE  \/ \E q \in Proc : pc[q] = "flock" /\ CanLock(flock, q, Mode(q))
                      \/ \E q \in Proc : pc[q] = "fcntl" /\ CanLock(fcntl, q, Mode(q))
    BY DEF NoCircularWait
  <2>1. CASE \E q \in Proc : pc[q] = "fcntl"
    <3>1. PICK q \in Proc : pc[q] = "fcntl"
      BY <2>1
    <3>2. \A b \in Actor \ {q} : fcntl[b] = "free"
      BY DEF IInv, LockInv, Actor
    <3>3. CanLock(fcntl, q, Mode(q))
      BY <3>2 DEF CanLock
    <3> QED BY <3>1, <3>3
  <2>2. CASE \A q \in Proc : pc[q] # "fcntl"
    <3>1. \A b \in Actor : flock[b] = "free"
      BY <2>2 DEF IInv, LockInv, Inside, Actor
    <3>2. pc[p] = "flock"
      BY <2>2 DEF Waiting
    <3>3. CanLock(flock, p, Mode(p))
      BY <3>1 DEF CanLock
    <3> QED BY <3>2, <3>3
  <2> QED BY <2>1, <2>2
<1> QED BY <1>1, InductiveInvariant, PTL

-----------------------------------------------------------------------------
(* clear_if_stale.  The time stamps tell whether the file was written in   *)
(* this boot, but for its first second; and what a process has found out   *)
(* about them under its locks stays true until it closes.                  *)

ClockInv ==
    /\ mtime <= now /\ boot <= now
    /\ fresh => boot <= mtime
    /\ ~fresh => mtime <= boot

StaleInv(p) ==
    call[p].op = "clear_if_stale" =>
        /\ exists
        /\ pc[p] = "truncate" => mtime <= boot
        /\ pc[p] = "done" /\ pool # <<>> => boot < mtime

FileInv == ClockInv /\ \A p \in Proc : StaleInv(p)

(* The ways in which a step leaves the file. *)
Untouched == UNCHANGED <<exists, pool, mtime, fresh>>
Written == mtime' = now /\ fresh' = TRUE /\ exists' = exists
Created == exists' = TRUE /\ pool' = pool
           /\ IF exists THEN UNCHANGED <<mtime, fresh>> ELSE mtime' = now /\ fresh' = TRUE

LEMMA ClockKeeps ==
    ASSUME TypeOK, ClockInv, UNCHANGED clockVars, Untouched \/ Written \/ Created
    PROVE  ClockInv'
BY DEF TypeOK, ClockInv, clockVars, Untouched, Written, Created

(* What a process knows of the file outlives the steps of the others. *)
LEMMA StaleKeeps ==
    ASSUME NEW q \in Proc, StaleInv(q), UNCHANGED boot, pc'[q] = pc[q], call'[q] = call[q],
           Untouched \/ Created \/ (Written /\ ~Inside(q))
    PROVE  StaleInv(q)'
BY DEF StaleInv, Untouched, Written, Created, Inside

LEMMA InvokeFile ==
    ASSUME TypeOK, FileInv, NEW p \in Proc, Invoke(p)
    PROVE  FileInv'
<1> USE DEF FileInv, Start, OpenCreate, OpenExisting, fileVars
<1>1. PICK c \in Call : CallOf(p, c) BY InvokeIsCall
<1>2. /\ UNCHANGED clockVars /\ pc'[p] = "flock"
      /\ \A q \in Proc \ {p} : pc'[q] = pc[q] /\ call'[q] = call[q]
  BY <1>1 DEF CallOf, TypeOK
<1>3. /\ Untouched \/ Created
      /\ call'[p].op = "clear_if_stale" => exists'
  <2>1. CASE append(p)          BY <2>1 DEF append, Created, TypeOK
  <2>2. CASE append_multiple(p) BY <2>2 DEF append_multiple, Created, TypeOK
  <2>3. CASE load(p)            BY <2>3 DEF load, Created, TypeOK
  <2>4. CASE insert(p)          BY <2>4 DEF insert, Created, TypeOK
  <2>5. CASE delete(p)          BY <2>5 DEF delete, Untouched, TypeOK
  <2>6. CASE delete_multiple(p) BY <2>6 DEF delete_multiple, Untouched, TypeOK
  <2>7. CASE clear(p)           BY <2>7 DEF clear, Untouched, TypeOK
  <2>8. CASE clear_if_stale(p)  BY <2>8 DEF clear_if_stale, Untouched, TypeOK
  <2>9. CASE dump(p)            BY <2>9 DEF dump, Untouched, TypeOK
  <2> QED BY <2>1, <2>2, <2>3, <2>4, <2>5, <2>6, <2>7, <2>8, <2>9 DEF Invoke
<1>4. StaleInv(p)' BY <1>2, <1>3 DEF StaleInv
<1>5. \A q \in Proc \ {p} : StaleInv(q)'
  BY <1>2, <1>3, StaleKeeps DEF clockVars
<1> QED BY <1>2, <1>3, <1>4, <1>5, ClockKeeps

(* Only an operation that writes touches the file. *)
LEMMA WorkingFile ==
    ASSUME IInv, FileInv, NEW p \in Proc, Working(p)
    PROVE  FileInv'
<1> USE DEF FileInv, fileVars, Goto, Touch
<1>1. TypeOK /\ Shape(p) /\ Exclusion BY LocksExclude DEF IInv
<1>2. Inside(p) /\ UNCHANGED call /\ \A q \in Proc \ {p} : pc'[q] = pc[q]
  BY <1>1, WorkingFrame DEF TypeOK
<1>3. UNCHANGED clockVars /\ (Untouched \/ (Written /\ Writer(p)))
  <2>1. CASE IterNew(p)        BY <2>1 DEF IterNew, Untouched
  <2>2. CASE ClearStep(p)      BY <2>2 DEF ClearStep, Untouched
  <2>3. CASE Truncate(p)       BY <1>1, <2>3 DEF Truncate, Written, Shape, Writer
  <2>4. CASE ReadNext(p)       BY <2>4 DEF ReadNext, Untouched
  <2>5. CASE ScanEnd(p)        BY <2>5 DEF ScanEnd, Untouched
  <2>6. CASE OverwriteStart(p) BY <1>1, <2>6 DEF OverwriteStart, Written, Shape, Writer
  <2>7. CASE OverwriteEnd(p)   BY <1>1, <2>7 DEF OverwriteEnd, Written, Shape, Writer
  <2>8. CASE SwapStart(p)      BY <1>1, <2>8 DEF SwapStart, Written, Shape, Writer
  <2>9. CASE SwapEnd(p)        BY <1>1, <2>9 DEF SwapEnd, Written, Shape, Writer
  <2>10. CASE Shrink(p)        BY <1>1, <2>10 DEF Shrink, Written, Shape, Writer
  <2>11. CASE AppendStart(p)   BY <1>1, <2>11 DEF AppendStart, Written, Shape, Writer
  <2>12. CASE AppendEnd(p)     BY <1>1, <2>12 DEF AppendEnd, Written, Shape, Writer
  <2> QED
    BY <2>1, <2>2, <2>3, <2>4, <2>5, <2>6, <2>7, <2>8, <2>9, <2>10, <2>11, <2>12
       DEF Working
<1>4. ASSUME NEW q \in Proc \ {p} PROVE StaleInv(q)'
  <2>1. Writer(p) => ~Inside(q) BY <1>1, <1>2 DEF Exclusion
  <2> QED BY <1>2, <1>3, <2>1, StaleKeeps DEF clockVars
<1>5. StaleInv(p)'
  <2> SUFFICES ASSUME call[p].op = "clear_if_stale" PROVE StaleInv(p)'
    BY <1>2 DEF StaleInv
  <2>1. pc[p] \in {"locked", "truncate"} /\ (ClearStep(p) \/ Truncate(p))
    BY <1>1 DEF Working, IterNew, ClearStep, Truncate, ReadNext, ScanEnd, OverwriteStart,
                OverwriteEnd, SwapStart, SwapEnd, Shrink, AppendStart, AppendEnd, Shape
  <2>2. CASE ClearStep(p)
    <3>1. CASE is_stale
      <4>1. pc'[p] = "truncate" BY <1>1, <2>2, <3>1 DEF ClearStep, TypeOK
      <4> QED BY <1>2, <1>3, <2>2, <3>1, <4>1 DEF ClearStep, StaleInv, is_stale, clockVars
    <3>2. CASE ~is_stale
      <4>1. pc'[p] = "done" BY <1>1, <2>2, <3>2 DEF ClearStep, TypeOK
      <4>2. boot < mtime BY <1>1, <3>2 DEF is_stale, TypeOK
      <4> QED BY <1>2, <1>3, <2>2, <4>1, <4>2 DEF ClearStep, StaleInv, clockVars
    <3> QED BY <3>1, <3>2
  <2>3. CASE Truncate(p)
    <3>1. pool' = <<>> /\ exists' = exists BY <2>3 DEF Truncate
    <3>2. pc'[p] = "done" BY <1>1, <2>3 DEF Truncate, Shape, TypeOK
    <3> QED BY <1>2, <3>1, <3>2 DEF StaleInv
  <2> QED BY <2>1, <2>2, <2>3
<1> QED BY <1>1, <1>3, <1>4, <1>5, ClockKeeps

(* The steps that leave the file and the operations of others alone. *)
LEMMA RestFile ==
    ASSUME TypeOK, FileInv, UNCHANGED <<fileVars, clockVars>>,
           \A q \in Proc : \/ pc'[q] = pc[q] /\ call'[q] = call[q]
                           \/ pc'[q] \in {"fcntl", "locked"} /\ call'[q] = call[q]
                           \/ call'[q] = NoCall
    PROVE  FileInv'
<1>1. Untouched BY DEF fileVars, Untouched
<1>2. ClockInv' BY <1>1, ClockKeeps DEF FileInv
<1>3. \A q \in Proc : StaleInv(q)' BY DEF FileInv, StaleInv, fileVars, clockVars, NoCall
<1> QED BY <1>2, <1>3 DEF FileInv

LEMMA FileStep ==
    ASSUME IInv, FileInv, [Next]_vars
    PROVE  FileInv'
<1>0. TypeOK /\ Exclusion BY LocksExclude DEF IInv
<1>1. ASSUME NEW p \in Proc, Invoke(p) PROVE FileInv' BY <1>0, <1>1, InvokeFile
<1>2. ASSUME NEW p \in Proc, Step(p) PROVE FileInv'
  <2>1. CASE FlockStep(p) BY <1>0, <2>1, RestFile DEF FlockStep, TypeOK
  <2>2. CASE FcntlStep(p) BY <1>0, <2>2, RestFile DEF FcntlStep, TypeOK
  <2>3. CASE Close(p) BY <1>0, <2>3, RestFile DEF Close, TypeOK
  <2> QED BY <1>2, <2>1, <2>2, <2>3, StepCases, WorkingFile
<1>3. ASSUME NEW p \in Proc, Fail(p) PROVE FileInv'
  BY <1>0, <1>3, RestFile DEF Fail, Close, TypeOK
<1>4. ASSUME NEW d \in Daemon, DaemonLock(d) \/ DaemonUnlock(d) PROVE FileInv'
  BY <1>0, <1>4, RestFile DEF DaemonLock, DaemonUnlock
<1>5. ASSUME NEW c \in CloudInit, CloudInitLock(c) PROVE FileInv'
  BY <1>0, <1>5, RestFile DEF CloudInitLock
<1>6. ASSUME NEW c \in CloudInit, CloudInitAppend(c) PROVE FileInv'
  <2>1. Written /\ UNCHANGED <<clockVars, pc, call>>
    BY <1>6 DEF CloudInitAppend, Touch, Written
  <2>2. \A q \in Proc : ~Inside(q) BY <1>6, AppenderAlone
  <2> QED BY <1>0, <2>1, <2>2, ClockKeeps, StaleKeeps DEF FileInv, clockVars
<1>7. CASE Tick
  <2>1. ClockInv' BY <1>0, <1>7 DEF Tick, FileInv, ClockInv, fileVars, TypeOK
  <2>2. Untouched /\ UNCHANGED <<boot, pc, call>> BY <1>7 DEF Tick, Untouched, fileVars
  <2> QED BY <2>1, <2>2, StaleKeeps DEF FileInv
<1>8. CASE Reboot
  BY <1>0, <1>8 DEF Reboot, FileInv, ClockInv, StaleInv, NoCall, TypeOK
<1>9. CASE UNCHANGED vars
  BY <1>0, <1>9, RestFile DEF vars
<1> QED BY <1>1, <1>2, <1>3, <1>4, <1>5, <1>6, <1>7, <1>8, <1>9 DEF Next

(* clear_if_stale keeps the records only of a file written in this boot,   *)
(* and empties one written in this boot only in its first second, whatever *)
(* waits for locks and whoever writes meanwhile.                           *)
THEOREM StaleIsCleared == Spec => []StaleCleared
<1>1. Init => FileInv
  BY DEF Init, FileInv, ClockInv, StaleInv, NoCall
<1>2. ASSUME IInv, FileInv PROVE StaleCleared
  <2> SUFFICES ASSUME NEW p \in Proc, call[p].op = "clear_if_stale"
               PROVE  /\ pc[p] = "truncate" => ~fresh \/ mtime = boot
                      /\ pc[p] = "done" /\ pool # <<>> => fresh
    BY DEF StaleCleared
  <2> QED BY <1>2 DEF IInv, FileInv, ClockInv, StaleInv, TypeOK
<1>3. IInv /\ FileInv /\ [Next]_vars => FileInv' BY FileStep
<1> QED BY <1>1, <1>2, <1>3, InductiveInvariant, PTL DEF Spec

-----------------------------------------------------------------------------
(* A torn tail: with one, no operation has an iterator, since its maker    *)
(* refuses the file, but for the one whose append is not over.             *)

Iterating == {"scan", "overwrite", "overwriting", "remove", "swapping", "shrink", "append"}

TornInv == torn => \A p \in Proc : pc[p] \notin Iterating

(* No step but an append tears the file, or puts an operation on a torn    *)
(* file to work.                                                           *)
LEMMA TornKeeps ==
    ASSUME TornInv, torn' => torn, \A q \in Proc : pc'[q] \in Iterating => pc[q] \in Iterating
    PROVE  TornInv'
BY DEF TornInv

LEMMA TornWorking ==
    ASSUME IInv, TornInv, NEW p \in Proc, Working(p)
    PROVE  TornInv'
<1> USE DEF Goto, Touch, fileVars, Iterating
<1>1. TypeOK /\ Shape(p) /\ Exclusion BY LocksExclude DEF IInv
<1>2. \A q \in Proc \ {p} : pc'[q] = pc[q]
  BY <1>1, WorkingFrame DEF TypeOK
<1>3. CASE IterNew(p) BY <1>3 DEF IterNew, TornInv
<1>4. CASE ClearStep(p)
  <2>1. pc'[p] \notin Iterating BY <1>1, <1>4 DEF ClearStep, TypeOK
  <2> QED BY <1>2, <1>4, <2>1, TornKeeps DEF ClearStep
<1>5. CASE Truncate(p) \/ AppendEnd(p)
  <2>1. ~torn' BY <1>5 DEF Truncate, AppendEnd
  <2> QED BY <2>1 DEF TornInv
<1>6. CASE AppendStart(p)
  <2>1. Inside(p) /\ Writer(p) BY <1>1, <1>6 DEF AppendStart, Inside, Writer, Shape
  <2>2. \A q \in Proc \ {p} : ~Inside(q) BY <1>1, <2>1 DEF Exclusion
  <2>3. pc'[p] = "appending" BY <1>1, <1>6 DEF AppendStart, TypeOK
  <2> QED BY <1>2, <2>2, <2>3 DEF TornInv, Inside
<1>7. CASE ReadNext(p) \/ ScanEnd(p) \/ OverwriteStart(p) \/ OverwriteEnd(p)
           \/ SwapStart(p) \/ SwapEnd(p) \/ Shrink(p)
  <2>1. pc[p] \in Iterating
    BY <1>7 DEF ReadNext, ScanEnd, OverwriteStart, OverwriteEnd, SwapStart, SwapEnd, Shrink
  <2>2. torn' = torn
    BY <1>7 DEF ReadNext, ScanEnd, OverwriteStart, OverwriteEnd, SwapStart, SwapEnd, Shrink
  <2> QED BY <1>2, <2>1, <2>2, TornKeeps
<1> QED BY <1>3, <1>4, <1>5, <1>6, <1>7 DEF Working

LEMMA TornStep ==
    ASSUME IInv, TornInv, [Next]_vars
    PROVE  TornInv'
<1> USE DEF fileVars, Iterating
<1>0. TypeOK BY DEF IInv
<1>1. ASSUME NEW p \in Proc, Invoke(p) PROVE TornInv'
  BY <1>0, <1>1, InvokeIsCall, TornKeeps DEF CallOf, TypeOK
<1>2. ASSUME NEW p \in Proc, Step(p) PROVE TornInv'
  <2>1. CASE FlockStep(p) BY <1>0, <2>1, TornKeeps DEF FlockStep, TypeOK
  <2>2. CASE FcntlStep(p) BY <1>0, <2>2, TornKeeps DEF FcntlStep, TypeOK
  <2>3. CASE Close(p) BY <1>0, <2>3, TornKeeps DEF Close, TypeOK
  <2> QED BY <1>2, <2>1, <2>2, <2>3, StepCases, TornWorking
<1>3. ASSUME NEW p \in Proc, Fail(p) PROVE TornInv'
  BY <1>0, <1>3, TornKeeps DEF Fail, Close, TypeOK
<1>4. ASSUME NEW d \in Daemon, DaemonLock(d) \/ DaemonUnlock(d) PROVE TornInv'
  BY <1>4, TornKeeps DEF DaemonLock, DaemonUnlock
<1>5. ASSUME NEW c \in CloudInit, CloudInitLock(c) \/ CloudInitAppend(c) PROVE TornInv'
  BY <1>5, TornKeeps DEF CloudInitLock, CloudInitAppend, Touch
<1>6. CASE Tick BY <1>6, TornKeeps DEF Tick
<1>7. CASE Reboot BY <1>7 DEF Reboot, TornInv
<1>8. CASE UNCHANGED vars BY <1>8, TornKeeps DEF vars
<1> QED BY <1>1, <1>2, <1>3, <1>4, <1>5, <1>6, <1>7, <1>8 DEF Next

(* Once an append was cut short, no operation edits or adds a record until *)
(* the file is emptied; a flock-only appender does not look.               *)
THEOREM TornStaysFrozen == Spec => TornPoolFrozen
<1>1. Init => TornInv BY DEF Init, TornInv
<1>2. ASSUME IInv, TornInv, [Next]_vars
      PROVE  (torn /\ \A p \in Proc : pc[p] # "appending") =>
                \/ pool' = pool \/ pool' = <<>>
                \/ \E c \in CloudInit : flock[c] = "ex" /\ flock'[c] = "free"
  <2> SUFFICES ASSUME torn, \A p \in Proc : pc[p] # "appending"
               PROVE  \/ pool' = pool \/ pool' = <<>>
                      \/ \E c \in CloudInit : flock[c] = "ex" /\ flock'[c] = "free"
    OBVIOUS
  <2> USE DEF fileVars
  <2>0. TypeOK BY <1>2 DEF IInv
  <2>1. ASSUME NEW p \in Proc, Invoke(p) PROVE pool' = pool
    BY <2>0, <2>1, InvokeIsCall DEF CallOf
  <2>2. ASSUME NEW p \in Proc, Working(p) PROVE pool' = pool \/ pool' = <<>>
    <3>1. pc[p] \notin Iterating /\ pc[p] # "appending" BY <1>2 DEF TornInv
    <3>2. IterNew(p) \/ ClearStep(p) \/ Truncate(p)
      BY <2>2, <3>1 DEF Working, Iterating, ReadNext, ScanEnd, OverwriteStart, OverwriteEnd,
                        SwapStart, SwapEnd, Shrink, AppendStart, AppendEnd
    <3> QED BY <3>2 DEF IterNew, ClearStep, Truncate, Touch
  <2>3. ASSUME NEW p \in Proc, Step(p) \/ Fail(p) PROVE pool' = pool \/ pool' = <<>>
    BY <2>2, <2>3, StepCases DEF FlockStep, FcntlStep, Fail, Close
  <2>4. ASSUME NEW c \in CloudInit, CloudInitAppend(c)
        PROVE  flock[c] = "ex" /\ flock'[c] = "free"
    BY <2>0, <2>4 DEF CloudInitAppend, TypeOK, Actor
  <2>5. CASE Tick \/ Reboot \/ UNCHANGED vars \/ (\E c \in CloudInit : CloudInitLock(c))
             \/ (\E d \in Daemon : DaemonLock(d) \/ DaemonUnlock(d))
    BY <2>5 DEF Tick, Reboot, vars, CloudInitLock, DaemonLock, DaemonUnlock
  <2> QED BY <1>2, <2>1, <2>3, <2>4, <2>5 DEF Next
<1>3. IInv /\ TornInv /\ [Next]_vars => TornInv' BY TornStep
<1> QED BY <1>1, <1>2, <1>3, InductiveInvariant, PTL DEF Spec, TornPoolFrozen

-----------------------------------------------------------------------------
(* The records an operation keeps: EditInv is inductive together with      *)
(* IInv; Completed and NothingElseLost follow from it.                     *)
HIDE DEF LockMode

(* Counting records. *)

(* A file is finite, so the slots that hold a record can be counted. *)
LEMMA HoldingFinite ==
    ASSUME NEW S, NEW s \in Seq(S), NEW r, NEW h
    PROVE  /\ IsFiniteSet(Holding(s, r, h))
           /\ Cardinality(Holding(s, r, h)) \in Nat
<1>1. Len(s) \in Nat /\ DOMAIN s = 1..Len(s) BY LenProperties
<1>2. IsFiniteSet(1..Len(s)) BY <1>1, FS_Interval
<1>3. Holding(s, r, h) \in SUBSET (1..Len(s)) BY <1>1 DEF Holding
<1>4. IsFiniteSet(Holding(s, r, h)) BY <1>2, <1>3, FS_Subset, Zenon
<1> QED BY <1>4, FS_CardinalityType, Zenon

(* Without a hole every slot counts. *)
LEMMA NoHole ==
    ASSUME NEW S, NEW s \in Seq(S), NEW r
    PROVE  Copies(s, r) = Cardinality(Holding(s, r, 0))
<1>1. DOMAIN s = 1..Len(s) /\ Len(s) \in Nat BY LenProperties
<1>2. {i \in DOMAIN s : s[i] = r} = Holding(s, r, 0) BY <1>1 DEF Holding
<1> QED BY <1>2, Zenon DEF Copies

(* A hole may hide one of the copies, it never adds one. *)
LEMMA HoleHides ==
    ASSUME NEW S, NEW s \in Seq(S), NEW r, NEW h
    PROVE  Copies(s, r) >= Cardinality(Holding(s, r, h))
<1>1. IsFiniteSet(Holding(s, r, 0)) BY HoldingFinite
<1>2. Holding(s, r, h) \in SUBSET Holding(s, r, 0)
  <2>1. DOMAIN s = 1..Len(s) /\ Len(s) \in Nat BY LenProperties
  <2> QED BY <2>1 DEF Holding
<1>3. Cardinality(Holding(s, r, h)) <= Cardinality(Holding(s, r, 0))
  BY <1>1, <1>2, FS_Subset, Zenon
<1> QED BY <1>3, NoHole, HoldingFinite

(* The keys of a file are finitely many. *)
LEMMA KeysFinite ==
    ASSUME NEW S, NEW s \in Seq(S)
    PROVE  IsFiniteSet(Keys(s)) /\ Cardinality(Keys(s)) \in Nat
<1>1. Len(s) \in Nat /\ DOMAIN s = 1..Len(s) BY LenProperties
<1>2. IsFiniteSet(1..Len(s)) BY <1>1, FS_Interval
<1> DEFINE f == [i \in 1..Len(s) |-> s[i].key]
<1>3. f \in Surjection(1..Len(s), Keys(s))
  BY <1>1 DEF Keys, Surjection
<1>4. IsFiniteSet(Keys(s)) BY <1>2, <1>3, FS_Surjection, Zenon
<1> QED BY <1>4, FS_CardinalityType, Zenon

(* What the hole holds does not count. *)
LEMMA SameHolding ==
    ASSUME NEW s, NEW t, NEW r, NEW h, DOMAIN s = DOMAIN t,
           \A i \in DOMAIN s : i # h => s[i] = t[i]
    PROVE  Holding(s, r, h) = Holding(t, r, h)
BY DEF Holding

(* Nor does a hole that holds another record. *)
LEMMA HoleElsewhere ==
    ASSUME NEW s, NEW r, NEW h, h \in DOMAIN s => s[h] # r, NEW g, g \notin DOMAIN s
    PROVE  Holding(s, r, h) = Holding(s, r, g)
BY DEF Holding

(* Copying the last record into the hole makes the last slot the hole.     *)
LEMMA HoleMoves ==
    ASSUME NEW S, NEW s \in Seq(S), NEW h \in 1..(Len(s) - 1), NEW r
    PROVE  Cardinality(Holding([s EXCEPT ![h] = s[Len(s)]], r, Len(s)))
              = Cardinality(Holding(s, r, h))
<1> DEFINE n == Len(s)
           t == [s EXCEPT ![h] = s[n]]
           A == Holding(s, r, h)
           B == Holding(t, r, n)
<1>0. /\ n \in Nat /\ DOMAIN s = 1..n /\ h \in DOMAIN s /\ n \in DOMAIN s /\ h # n
      /\ h \in Nat /\ h <= n - 1
  BY LenProperties
<1>1. /\ DOMAIN t = DOMAIN s /\ t[h] = s[n]
      /\ \A i \in DOMAIN s : i # h => t[i] = s[i]
  BY <1>0
<1>2. IsFiniteSet(A) BY HoldingFinite
<1> HIDE DEF n, t
<1>3. CASE s[n] = r
  <2>1. B = (A \ {n}) \cup {h} BY <1>0, <1>1, <1>3 DEF Holding
  <2>2. n \in A /\ h \notin A \ {n} BY <1>0, <1>3 DEF Holding
  <2> HIDE DEF A, B
  <2>3. IsFiniteSet(A \ {n}) /\ Cardinality(A \ {n}) = Cardinality(A) - 1
    BY <1>2, <2>2, FS_RemoveElement
  <2>4. Cardinality(B) = Cardinality(A \ {n}) + 1
    BY <2>1, <2>2, <2>3, FS_AddElement
  <2>5. Cardinality(A) \in Nat BY <1>2, FS_CardinalityType
  <2>6. Cardinality(B) = Cardinality(A) BY <2>3, <2>4, <2>5
  <2> QED BY <2>6 DEF A, B, n, t
<1>4. CASE s[n] # r
  <2>1. B = A BY <1>0, <1>1, <1>4 DEF Holding
  <2> QED BY <2>1, Zenon DEF n, t
<1> QED BY <1>3, <1>4

(* Cutting off the last slot, the hole, loses nothing. *)
LEMMA HoleCut ==
    ASSUME NEW S, NEW s \in Seq(S), Len(s) >= 1, NEW r
    PROVE  Holding(SubSeq(s, 1, Len(s) - 1), r, 0) = Holding(s, r, Len(s))
<1>1. Len(s) \in Nat /\ DOMAIN s = 1..Len(s) /\ Len(s) - 1 \in 0..Len(s)
  BY LenProperties
<1> DEFINE n == Len(s) - 1
           t == SubSeq(s, 1, n)
<1>2. n \in 0..Len(s) BY <1>1
<1>3. DOMAIN t = 1..n /\ \A i \in 1..n : t[i] = s[i]
  BY <1>2, PrefixIs, Zenon
<1> HIDE DEF t
<1>4. Holding(t, r, 0) = Holding(s, r, Len(s)) BY <1>1, <1>3 DEF Holding
<1> QED BY <1>4 DEF t

(* A record added behind the file is the only one that counts anew. *)
LEMMA HoldingAppend ==
    ASSUME NEW S, NEW s \in Seq(S), NEW e \in S, NEW r, r # e
    PROVE  Holding(Append(s, e), r, 0) = Holding(s, r, 0)
<1>1. Len(s) \in Nat /\ DOMAIN s = 1..Len(s) BY LenProperties
<1>2. /\ DOMAIN Append(s, e) = 1..(Len(s) + 1)
      /\ Append(s, e)[Len(s) + 1] = e
      /\ \A i \in 1..Len(s) : Append(s, e)[i] = s[i]
  OBVIOUS
<1> QED BY <1>1, <1>2 DEF Holding

-----------------------------------------------------------------------------
(* The parts of EditInv that are about one operation. *)

EditOf(p) ==
    ArgsInv(p) /\ KeptInv(p) /\ SearchInv(p) /\ ReplacedInv(p) /\ ListInv(p)

LEMMA EditInvIs == EditInv <=> \A p \in Proc : EditOf(p)
BY DEF EditInv, EditOf

(* What the proofs below use of IInv. *)
LEMMA Ground ==
    ASSUME IInv, NEW p \in Proc
    PROVE  /\ TypeOK /\ Shape(p) /\ CursorInv(p) /\ ReaderInv(p) /\ DeleteInv(p)
           /\ pool \in Seq(Slot) /\ Len(pool) \in Nat /\ DOMAIN pool = 1..Len(pool)
           /\ snap[p] \in Seq(Slot) /\ Len(snap[p]) \in Nat
           /\ DOMAIN snap[p] = 1..Len(snap[p])
           /\ call[p] \in Call /\ call[p].recs \in Seq(Record) /\ Len(call[p].recs) \in Nat
           /\ idx[p] \in Nat /\ cnt[p] \in Nat /\ hits[p] \in Nat
BY DEF IInv, TypeOK, Call

LEMMA EditSteady ==
    ASSUME NEW q \in Proc, EditOf(q), Steady(q)
    PROVE  EditOf(q)'
<1>0. /\ pc'[q] = pc[q] /\ call'[q] = call[q] /\ idx'[q] = idx[q] /\ cnt'[q] = cnt[q]
      /\ hits'[q] = hits[q] /\ uniq'[q] = uniq[q] /\ snap'[q] = snap[q]
      /\ Inside(q)' <=> Inside(q)
      /\ Counted(q)' <=> Counted(q)
      /\ Inside(q) => pool' = pool
  BY DEF Steady, Inside, Counted
<1>1. Hole(q)' = Hole(q) BY <1>0 DEF Hole
<1>2. Counted(q) => Inside(q) BY DEF Counted
<1>3. Inside(q) => Behind(q)' = Behind(q) BY <1>0 DEF Behind
<1>4. ArgsInv(q)' BY <1>0 DEF EditOf, ArgsInv
<1>5. KeptInv(q)' BY <1>0, <1>1, <1>2 DEF EditOf, KeptInv
<1>6. SearchInv(q)' BY <1>0, <1>2, <1>3 DEF EditOf, SearchInv
<1>7. ReplacedInv(q)' BY <1>0, <1>2, <1>3 DEF EditOf, ReplacedInv
<1>8. ListInv(q)' BY <1>0, <1>2 DEF EditOf, ListInv, Inside
<1> QED BY <1>4, <1>5, <1>6, <1>7, <1>8 DEF EditOf

(* An operation that has not counted the records has only its arguments.   *)
LEMMA EditOutside ==
    ASSUME NEW p \in Proc, ArgsInv(p)', ~Counted(p)', pc'[p] # "done"
    PROVE  EditOf(p)'
BY DEF EditOf, KeptInv, SearchInv, ReplacedInv, ListInv, Counted, Inside

(* A step of the operation keeps its arguments. *)
LEMMA ArgsKept ==
    ASSUME NEW p \in Proc, ArgsInv(p), call'[p] = call[p],
           Counted(p)' \/ (uniq'[p] = uniq[p] /\ ~Counted(p))
    PROVE  ArgsInv(p)'
BY DEF ArgsInv

-----------------------------------------------------------------------------
(* The steps of an operation, one by one. *)

LEMMA EditIterNew ==
    ASSUME IInv, NEW p \in Proc, EditOf(p), IterNew(p)
    PROVE  EditOf(p)'
<1> USE DEF Counted, Inside
<1>0. Shape(p) /\ pool \in Seq(Slot) /\ Len(pool) \in Nat /\ DOMAIN pool = 1..Len(pool)
  BY Ground
<1>1. /\ pc[p] = "locked" /\ pool' = pool /\ pc'[p] = AfterNew(call[p].op)
      /\ cnt'[p] = Len(pool) /\ snap'[p] = pool /\ idx'[p] = 0 /\ hits'[p] = 0
      /\ uniq'[p] = {} /\ call'[p] = call[p]
      /\ call[p].op \notin {"none", "clear", "clear_if_stale"} /\ call[p] \in Call
  BY <1>0, Ground DEF IterNew, Goto, TypeOK, fileVars, Shape, EditOf, ArgsInv
<1>2. pc'[p] \in {"append", "truncate", "scan"} /\ Counted(p)'
  BY <1>1 DEF AfterNew
<1>3. ArgsInv(p)' BY <1>1, <1>2, ArgsKept DEF EditOf
<1>4. KeptInv(p)'
  <2>1. Hole(p)' = 0 BY <1>2 DEF Hole
  <2>2. \A r \in Slot : Cardinality(Holding(pool', r, Hole(p)')) = Copies(snap'[p], r)
    BY <1>0, <1>1, <2>1, NoHole
  <2> QED BY <1>0, <1>1, <1>2, <2>2 DEF KeptInv
<1>5. SearchInv(p)'
  <2> SUFFICES ASSUME call[p].op = "insert" PROVE SearchInv(p)'
    BY <1>1 DEF SearchInv
  <2>1. pc'[p] = "scan" BY <1>1 DEF AfterNew
  <2>2. Behind(p)' = {} BY <1>0, <1>1 DEF Behind
  <2> QED BY <1>0, <1>1, <2>1, <2>2 DEF SearchInv
<1>6. ReplacedInv(p)' BY <1>1 DEF ReplacedInv
<1>7. ListInv(p)'
  <2>1. call[p].recs \in Seq(Record) BY Ground
  <2>2. SubSeq(call[p].recs, 1, 0) = <<>> BY SubSeqEmpty
  <2>3. pool \o <<>> = pool BY <1>0, ConcatEmptySeq
  <2>4. call[p].op = "append" => pc'[p] = "append" BY <1>1 DEF AfterNew
  <2>5. call[p].op = "load" => pc'[p] = "truncate" BY <1>1 DEF AfterNew
  <2> QED BY <1>1, <1>2, <2>2, <2>3, <2>4, <2>5 DEF ListInv
<1> QED BY <1>3, <1>4, <1>5, <1>6, <1>7 DEF EditOf

LEMMA EditClearStep ==
    ASSUME IInv, NEW p \in Proc, EditOf(p), ClearStep(p)
    PROVE  EditOf(p)'
<1> USE DEF Counted, Inside
<1>1. /\ pc[p] = "locked" /\ pool' = pool /\ snap'[p] = pool /\ uniq'[p] = uniq[p]
      /\ call'[p] = call[p] /\ call[p].op \in {"clear", "clear_if_stale"}
      /\ pc'[p] = IF call[p].op = "clear" \/ is_stale THEN "truncate" ELSE "done"
  BY Ground DEF ClearStep, Goto, TypeOK, fileVars
<1>2. ~Counted(p) /\ ~Counted(p)' BY <1>1
<1>3. ArgsInv(p)' BY <1>1, <1>2, ArgsKept DEF EditOf
<1>4. ListInv(p)' BY <1>1 DEF ListInv
<1> QED BY <1>2, <1>3, <1>4 DEF EditOf, KeptInv, SearchInv, ReplacedInv

LEMMA EditTruncate ==
    ASSUME IInv, NEW p \in Proc, EditOf(p), Truncate(p)
    PROVE  EditOf(p)'
<1> USE DEF Counted, Inside
<1>0. Shape(p) /\ call[p].recs \in Seq(Record) BY Ground
<1>1. /\ pc[p] = "truncate" /\ pool' = <<>> /\ uniq'[p] = uniq[p]
      /\ hits'[p] = hits[p] /\ call'[p] = call[p]
      /\ pc'[p] = IF call[p].recs = <<>> THEN "done" ELSE "append"
  BY Ground DEF Truncate, Goto, Touch, TypeOK
<1>2. hits[p] = 0 /\ call[p].op \in {"load", "clear", "clear_if_stale"}
  BY <1>0, <1>1 DEF Shape
<1>3. ArgsInv(p)' BY <1>1, <1>2, ArgsKept DEF EditOf
<1>4. ListInv(p)'
  <2>1. SubSeq(call[p].recs, 1, 0) = <<>> BY SubSeqEmpty
  <2>2. call[p].recs = <<>> => Len(call[p].recs) = 0 BY <1>0
  <2>3. call[p].op \in {"clear", "clear_if_stale"} => pc'[p] = "done"
    BY <1>0, <1>1 DEF Shape
  <2> QED BY <1>1, <1>2, <2>1, <2>2, <2>3 DEF ListInv
<1> QED BY <1>1, <1>2, <1>3, <1>4 DEF EditOf, KeptInv, SearchInv, ReplacedInv

LEMMA EditReadNext ==
    ASSUME IInv, NEW p \in Proc, EditOf(p), ReadNext(p)
    PROVE  EditOf(p)'
<1> DEFINE n == idx[p] + 1
           hit == call[p].op \in Editing /\ pool[n].key \in call[p].keys
<1> USE DEF Counted, Inside
<1>0. /\ Shape(p) /\ pool \in Seq(Slot) /\ Len(pool) \in Nat /\ DOMAIN pool = 1..Len(pool)
      /\ idx[p] \in Nat /\ hits[p] \in Nat
  BY Ground
<1>1. /\ pc[p] = "scan" /\ pool' = pool /\ snap'[p] = snap[p] /\ call'[p] = call[p]
      /\ idx[p] < Len(pool) /\ idx'[p] = n /\ hits'[p] = hits[p] /\ cnt'[p] = cnt[p]
      /\ call[p].op = "insert" => uniq'[p] = uniq[p] \cup {pool[n].key}
      /\ pc'[p] = IF ~hit THEN "scan"
                  ELSE IF call[p].op = "insert" /\ hits[p] = 0 THEN "overwrite" ELSE "remove"
  BY Ground DEF ReadNext, Goto, TypeOK, fileVars
<1>2. /\ n \in DOMAIN pool /\ Counted(p) /\ Counted(p)' /\ call[p].op \in Reading \cup Editing
      /\ pc'[p] \in {"scan", "overwrite", "remove"}
  BY <1>0, <1>1 DEF Shape
<1>3. ArgsInv(p)' BY <1>1, <1>2, ArgsKept DEF EditOf
<1>4. KeptInv(p)'
  <2> SUFFICES ASSUME call[p].op \in Editing PROVE KeptInv(p)'
    BY <1>1 DEF KeptInv
  <2>1. Hole(p) = 0 BY <1>1 DEF Hole
  <2>2. Hole(p)' = IF hit THEN n ELSE 0 BY <1>1 DEF Hole
  <2>3. ASSUME NEW r \in Slot, r.key \notin call[p].keys
        PROVE  Holding(pool, r, Hole(p)') = Holding(pool, r, 0)
    <3>1. hit => pool[n] # r BY <2>3
    <3> QED BY <1>0, <2>2, <3>1, HoleElsewhere
  <2>4. \A r \in Slot : r.key \notin call[p].keys =>
            Cardinality(Holding(pool', r, Hole(p)')) = Copies(snap'[p], r)
    BY <1>1, <1>2, <2>1, <2>3 DEF EditOf, KeptInv
  <2>5. pc'[p] \in {"overwrite", "overwriting", "remove"} => pool'[idx'[p]].key \in call'[p].keys
    BY <1>1
  <2> QED BY <1>1, <1>2, <2>4, <2>5 DEF EditOf, KeptInv
<1>5. ~hit => Behind(p)' = Behind(p) \cup {n}
  BY <1>0, <1>1, <1>2 DEF Behind
<1>6. hit => Behind(p)' = Behind(p)
  BY <1>0, <1>1, <1>2 DEF Behind
<1>7. SearchInv(p)'
  <2> SUFFICES ASSUME call[p].op = "insert", hits[p] = 0 PROVE SearchInv(p)'
    BY <1>1 DEF SearchInv
  <2>1. SearchInv(p) BY DEF EditOf
  <2>2. CASE ~hit
    <3>1. pc'[p] = "scan" /\ pool[n].key \notin call[p].keys BY <1>1, <2>2
    <3>2. \A i \in Behind(p)' : pool'[i].key \notin call'[p].keys
      BY <1>1, <1>2, <1>5, <2>1, <2>2, <3>1 DEF SearchInv
    <3>3. uniq'[p] = {pool'[i].key : i \in Behind(p)'}
      BY <1>1, <1>2, <1>5, <2>1, <2>2 DEF SearchInv
    <3> QED BY <1>0, <1>1, <1>2, <2>1, <3>1, <3>2, <3>3 DEF SearchInv
  <2>3. CASE hit
    <3>1. pc'[p] = "overwrite" BY <1>1, <2>3
    <3>2. \A i \in Behind(p)' : pool'[i].key \notin call'[p].keys
      BY <1>1, <1>2, <1>6, <2>1, <2>3 DEF SearchInv
    <3>3. pool = snap[p] BY <1>1, <1>2, <2>1 DEF SearchInv
    <3>4. Keys(snap[p]) \cap call[p].keys # {} BY <1>2, <2>3, <3>3 DEF Keys
    <3> QED BY <1>0, <1>1, <1>2, <2>1, <3>1, <3>2, <3>3, <3>4 DEF SearchInv
  <2> QED BY <2>2, <2>3
<1>8. ReplacedInv(p)'
  <2> SUFFICES ASSUME call[p].op = "insert", hits[p] > 0 PROVE ReplacedInv(p)'
    BY <1>1 DEF ReplacedInv
  <2>1. ReplacedInv(p) BY DEF EditOf
  <2>2. pc'[p] = IF hit THEN "remove" ELSE "scan" BY <1>0, <1>1
  <2>3. PICK j \in Behind(p) : /\ pool[j] = call[p].recs[1]
                               /\ \A i \in Behind(p) : pool[i].key \in call[p].keys => i = j
    BY <1>1, <1>2, <2>1 DEF ReplacedInv
  <2>4. j \in Behind(p)' /\ \A i \in Behind(p)' : pool'[i].key \in call'[p].keys => i = j
    BY <1>1, <1>5, <1>6, <2>3
  <2>5. Keys(snap[p]) \cap call[p].keys # {} BY <1>1, <1>2, <2>1 DEF ReplacedInv
  <2> QED BY <1>1, <1>2, <2>2, <2>3, <2>4, <2>5 DEF ReplacedInv
<1>9. ListInv(p)' BY <1>1, <1>2 DEF ListInv
<1> QED BY <1>3, <1>4, <1>7, <1>8, <1>9 DEF EditOf

LEMMA EditScanEnd ==
    ASSUME IInv, NEW p \in Proc, EditOf(p), ScanEnd(p)
    PROVE  EditOf(p)'
<1> USE DEF Counted, Inside
<1>0. /\ Shape(p) /\ pool \in Seq(Slot) /\ Len(pool) \in Nat /\ DOMAIN pool = 1..Len(pool)
      /\ idx[p] \in Nat /\ cnt[p] \in Nat /\ hits[p] \in Nat /\ CursorInv(p)
  BY Ground
<1>1. /\ pc[p] = "scan" /\ pool' = pool /\ snap'[p] = snap[p] /\ call'[p] = call[p]
      /\ idx[p] >= cnt[p] /\ idx'[p] = idx[p] /\ hits'[p] = hits[p] /\ uniq'[p] = uniq[p]
      /\ pc'[p] = IF call[p].op # "insert" \/ hits[p] > 0 THEN "done"
                  ELSE IF Cardinality(uniq[p]) >= MaxUniqueKeys THEN "full" ELSE "append"
  BY Ground DEF ScanEnd, Goto, TypeOK, fileVars, iterVars
<1>2. /\ Counted(p) /\ Counted(p)' /\ call[p].op \in Reading \cup Editing
      /\ pc'[p] \in {"done", "full", "append"} /\ cnt[p] = Len(pool)
  BY <1>0, <1>1 DEF Shape, CursorInv
<1>3. ArgsInv(p)' BY <1>1, <1>2, ArgsKept DEF EditOf
<1>4. Behind(p) = DOMAIN pool BY <1>0, <1>1, <1>2 DEF Behind
<1>5. KeptInv(p)'
  <2>1. Hole(p) = 0 /\ Hole(p)' = 0 BY <1>1, <1>2 DEF Hole
  <2> QED BY <1>1, <1>2, <2>1 DEF EditOf, KeptInv
<1>6. SearchInv(p)'
  <2> SUFFICES ASSUME call[p].op = "insert", hits[p] = 0 PROVE SearchInv(p)'
    BY <1>1 DEF SearchInv
  <2>1. SearchInv(p) BY DEF EditOf
  <2>2. pc'[p] \in {"full", "append"} /\ Behind(p)' = DOMAIN pool
    BY <1>0, <1>1, <1>2 DEF Behind
  <2>3. uniq[p] = Keys(pool) BY <1>1, <1>2, <1>4, <2>1 DEF SearchInv, Keys
  <2>4. Keys(pool) \cap call[p].keys = {} BY <1>1, <1>2, <1>4, <2>1 DEF SearchInv, Keys
  <2>5. Cardinality(Keys(pool)) \in Nat BY <1>0, KeysFinite
  <2>6. Cardinality(Keys(pool)) >= MaxUniqueKeys <=> pc'[p] = "full"
    BY <1>0, <1>1, <2>3
  <2>7. /\ pc'[p] = "full" => Cardinality(Keys(pool)) >= MaxUniqueKeys
        /\ pc'[p] = "append" => Cardinality(Keys(pool)) < MaxUniqueKeys
    BY <2>5, <2>6, LimitAssumption
  <2>8. /\ idx[p] <= Len(pool) /\ pool = snap[p]
        /\ \A k \in Behind(p)' : pool[k].key \notin call[p].keys
    BY <1>1, <1>2, <1>4, <2>1, <2>2 DEF SearchInv
  <2> QED BY <1>1, <1>2, <2>2, <2>4, <2>7, <2>8 DEF SearchInv
<1>7. ReplacedInv(p)'
  <2> SUFFICES ASSUME call[p].op = "insert", hits[p] > 0 PROVE ReplacedInv(p)'
    BY <1>1 DEF ReplacedInv
  <2>1. ReplacedInv(p) /\ pc'[p] = "done" BY <1>1 DEF EditOf
  <2> QED BY <1>1, <1>2, <1>4, <2>1 DEF ReplacedInv
<1>8. ListInv(p)' BY <1>1, <1>2 DEF ListInv
<1> QED BY <1>3, <1>5, <1>6, <1>7, <1>8 DEF EditOf

(* What the hole holds may change, as long as it stays the hole. *)
LEMMA EditInHole ==
    ASSUME IInv, NEW p \in Proc, EditOf(p), OverwriteStart(p) \/ SwapStart(p)
    PROVE  EditOf(p)'
<1> USE DEF Counted, Inside
<1>0. /\ Shape(p) /\ pool \in Seq(Slot) /\ Len(pool) \in Nat /\ DOMAIN pool = 1..Len(pool)
      /\ idx[p] \in Nat /\ cnt[p] \in Nat /\ hits[p] \in Nat /\ CursorInv(p)
  BY Ground
<1>1. /\ \/ pc[p] = "overwrite" /\ pc'[p] = "overwriting"
            /\ pool' = [pool EXCEPT ![idx[p]] = [key |-> pool[idx[p]].key, value |-> Mixed]]
         \/ pc[p] = "remove" /\ pc'[p] = "swapping"
      /\ snap'[p] = snap[p] /\ call'[p] = call[p]
      /\ idx'[p] = idx[p] /\ hits'[p] = hits[p] /\ uniq'[p] = uniq[p]
      /\ \E half : pool' = [pool EXCEPT ![idx[p]] = half]
  BY Ground DEF OverwriteStart, SwapStart, SetValue, Goto, Touch, TypeOK, iterVars
<1>2. Counted(p) /\ Counted(p)' /\ idx[p] \in DOMAIN pool /\ call[p].op \in Editing
  BY <1>0, <1>1 DEF Shape, CursorInv
<1>3. ArgsInv(p)' BY <1>1, <1>2, ArgsKept DEF EditOf
<1>4. /\ DOMAIN pool' = DOMAIN pool /\ Len(pool') = Len(pool)
      /\ \A i \in DOMAIN pool : i # idx[p] => pool'[i] = pool[i]
  BY <1>0, <1>1
<1>5. Behind(p)' = Behind(p) /\ \A i \in Behind(p) : pool'[i] = pool[i]
  BY <1>1, <1>4 DEF Behind
<1>6. KeptInv(p)'
  <2>1. Hole(p) = idx[p] /\ Hole(p)' = idx[p] BY <1>1 DEF Hole
  <2>2. \A r \in Slot : Holding(pool', r, idx[p]) = Holding(pool, r, idx[p])
    BY <1>4, SameHolding
  <2>3. pc'[p] = "overwriting" => pool'[idx[p]].key = pool[idx[p]].key
    BY <1>1, <1>2
  <2>4. \A r \in Slot : r.key \notin call'[p].keys =>
            Cardinality(Holding(pool', r, Hole(p)')) = Copies(snap'[p], r)
    <3>1. KeptInv(p) BY DEF EditOf
    <3>2. call'[p] = call[p] /\ snap'[p] = snap[p] BY <1>1
    <3> SUFFICES ASSUME NEW r \in Slot, r.key \notin call[p].keys
                 PROVE  Cardinality(Holding(pool', r, Hole(p)')) = Copies(snap'[p], r)
      BY <3>2
    <3>3. Cardinality(Holding(pool, r, Hole(p))) = Copies(snap[p], r)
      BY <3>1, <1>2 DEF KeptInv
    <3> QED BY <3>2, <3>3, <2>1, <2>2
  <2>5. pc'[p] \in {"overwrite", "overwriting", "remove"} => pool'[idx'[p]].key \in call'[p].keys
    BY <1>1, <1>2, <2>3 DEF EditOf, KeptInv
  <2> QED BY <1>1, <1>2, <1>4, <2>4, <2>5 DEF EditOf, KeptInv
<1>7. SearchInv(p)'
  <2> SUFFICES ASSUME call[p].op = "insert", hits[p] = 0 PROVE SearchInv(p)'
    BY <1>1 DEF SearchInv
  <2>1. SearchInv(p) BY DEF EditOf
  <2>2. pc[p] = "overwrite" /\ pc'[p] = "overwriting" BY <1>1, <1>2, <2>1 DEF SearchInv
  <2> QED BY <1>1, <1>2, <1>4, <1>5, <2>1, <2>2 DEF SearchInv
<1>8. ReplacedInv(p)'
  <2> SUFFICES ASSUME call[p].op = "insert", hits[p] > 0 PROVE ReplacedInv(p)'
    BY <1>1 DEF ReplacedInv
  <2>1. ReplacedInv(p) BY DEF EditOf
  <2>2. pc[p] = "remove" /\ pc'[p] = "swapping" BY <1>1, <1>2, <2>1 DEF ReplacedInv
  <2> QED BY <1>1, <1>2, <1>5, <2>1, <2>2 DEF ReplacedInv
<1>9. ListInv(p)' BY <1>1, <1>2 DEF ListInv
<1> QED BY <1>3, <1>6, <1>7, <1>8, <1>9 DEF EditOf

LEMMA EditOverwriteEnd ==
    ASSUME IInv, NEW p \in Proc, EditOf(p), OverwriteEnd(p)
    PROVE  EditOf(p)'
<1> USE DEF Counted, Inside
<1> DEFINE new == call[p].recs[1]
           h == idx[p]
<1>0. /\ Shape(p) /\ pool \in Seq(Slot) /\ Len(pool) \in Nat /\ DOMAIN pool = 1..Len(pool)
      /\ idx[p] \in Nat /\ cnt[p] \in Nat /\ hits[p] \in Nat /\ CursorInv(p)
      /\ call[p].recs \in Seq(Record)
  BY Ground
<1>1. /\ pc[p] = "overwriting" /\ pc'[p] = "scan" /\ snap'[p] = snap[p] /\ call'[p] = call[p]
      /\ idx'[p] = idx[p] /\ hits'[p] = hits[p] + 1
      /\ pool' = [pool EXCEPT ![h] = [key |-> pool[h].key, value |-> new.value]]
  BY Ground DEF OverwriteEnd, SetValue, Goto, Touch, TypeOK
<1>2. /\ Counted(p) /\ Counted(p)' /\ h \in DOMAIN pool /\ call[p].op = "insert"
      /\ Len(call[p].recs) = 1
  BY <1>0, <1>1 DEF Shape, CursorInv
<1>3. ArgsInv(p)' BY <1>1, <1>2, ArgsKept DEF EditOf
<1>4. /\ DOMAIN pool' = DOMAIN pool /\ Len(pool') = Len(pool)
      /\ \A i \in DOMAIN pool : i # h => pool'[i] = pool[i]
      /\ pool'[h] = [key |-> pool[h].key, value |-> new.value]
  BY <1>0, <1>1, <1>2
<1>5. SearchInv(p) /\ hits[p] = 0
  BY <1>0, <1>1, <1>2 DEF EditOf, ReplacedInv
<1>6. call[p].keys = {new.key} /\ pool[h].key = new.key
  BY <1>1, <1>2 DEF EditOf, ArgsInv, KeptInv
<1>7. pool'[h] = new
  <2>1. new \in Record BY <1>0, <1>2
  <2> QED BY <1>4, <1>6, <2>1 DEF Record
<1>8. KeptInv(p)'
  <2>1. Hole(p) = h /\ Hole(p)' = 0 BY <1>1 DEF Hole
  <2>2. ASSUME NEW r \in Slot, r.key \notin call[p].keys
        PROVE  Holding(pool', r, 0) = Holding(pool, r, h)
    <3>1. Holding(pool', r, h) = Holding(pool, r, h) BY <1>4, SameHolding
    <3>2. pool'[h] # r BY <1>6, <1>7, <2>2
    <3>3. 0 \notin DOMAIN pool' BY <1>0, <1>4
    <3>4. Holding(pool', r, h) = Holding(pool', r, 0) BY <3>2, <3>3, HoleElsewhere
    <3> QED BY <3>1, <3>4
  <2>3. \A r \in Slot : r.key \notin call'[p].keys =>
            Cardinality(Holding(pool', r, Hole(p)')) = Copies(snap'[p], r)
    BY <1>1, <1>2, <2>1, <2>2 DEF EditOf, KeptInv
  <2> QED BY <1>1, <1>2, <1>4, <2>3 DEF EditOf, KeptInv
<1>9. ReplacedInv(p)'
  <2>1. Behind(p)' = Behind(p) \cup {h} /\ h \notin Behind(p)
    BY <1>0, <1>1, <1>2, <1>4 DEF Behind
  <2>2. \A i \in Behind(p) : pool'[i].key \notin call[p].keys
    BY <1>1, <1>2, <1>4, <1>5, <2>1 DEF SearchInv, Behind
  <2>3. \A i \in Behind(p)' : pool'[i].key \in call'[p].keys => i = h
    BY <1>1, <2>1, <2>2
  <2>4. Keys(snap'[p]) \cap call'[p].keys # {}
    BY <1>1, <1>2, <1>5 DEF SearchInv
  <2> QED BY <1>1, <1>7, <2>1, <2>3, <2>4 DEF ReplacedInv
<1>10. SearchInv(p)' BY <1>1, <1>5 DEF SearchInv
<1>11. ListInv(p)' BY <1>1, <1>2 DEF ListInv
<1> QED BY <1>3, <1>8, <1>9, <1>10, <1>11 DEF EditOf

(* The copied last record stands in for its original, which becomes the    *)
(* hole.                                                                   *)
LEMMA EditSwapEnd ==
    ASSUME IInv, NEW p \in Proc, EditOf(p), SwapEnd(p)
    PROVE  EditOf(p)'
<1> USE DEF Counted, Inside
<1> DEFINE h == idx[p]
<1>0. /\ Shape(p) /\ pool \in Seq(Slot) /\ Len(pool) \in Nat /\ DOMAIN pool = 1..Len(pool)
      /\ idx[p] \in Nat /\ cnt[p] \in Nat /\ hits[p] \in Nat /\ CursorInv(p)
  BY Ground
<1>1. /\ pc[p] = "swapping" /\ pc'[p] = "shrink" /\ snap'[p] = snap[p] /\ call'[p] = call[p]
      /\ idx'[p] = idx[p] - 1 /\ hits'[p] = hits[p] /\ cnt'[p] = cnt[p]
      /\ pool' = [pool EXCEPT ![h] = pool[cnt[p]]]
  BY Ground DEF SwapEnd, Goto, Touch, TypeOK
<1>2. /\ Counted(p) /\ Counted(p)' /\ h \in 1..(Len(pool) - 1) /\ cnt[p] = Len(pool)
      /\ h \in DOMAIN pool /\ call[p].op \in Editing
  BY <1>0, <1>1 DEF Shape, CursorInv
<1>3. ArgsInv(p)' BY <1>1, <1>2, ArgsKept DEF EditOf
<1>4. /\ DOMAIN pool' = DOMAIN pool /\ Len(pool') = Len(pool)
      /\ \A i \in DOMAIN pool : i # h => pool'[i] = pool[i]
  BY <1>0, <1>1, <1>2
<1>5. KeptInv(p)'
  <2>1. Hole(p) = h /\ Hole(p)' = Len(pool) BY <1>1, <1>2 DEF Hole
  <2>2. \A r \in Slot : Cardinality(Holding(pool', r, Len(pool)))
                          = Cardinality(Holding(pool, r, h))
    BY <1>0, <1>1, <1>2, HoleMoves
  <2>3. \A r \in Slot : r.key \notin call'[p].keys =>
            Cardinality(Holding(pool', r, Hole(p)')) = Copies(snap'[p], r)
    BY <1>1, <1>2, <2>1, <2>2 DEF EditOf, KeptInv
  <2> QED BY <1>1, <1>2, <1>4, <2>3 DEF EditOf, KeptInv
<1>6. Behind(p)' = Behind(p) /\ \A i \in Behind(p) : pool'[i] = pool[i]
  BY <1>0, <1>1, <1>2, <1>4 DEF Behind
<1>7. SearchInv(p)' BY <1>1, <1>2 DEF EditOf, SearchInv
<1>8. ReplacedInv(p)'
  <2> SUFFICES ASSUME call[p].op = "insert", hits[p] > 0 PROVE ReplacedInv(p)'
    BY <1>1 DEF ReplacedInv
  <2> QED BY <1>1, <1>2, <1>6 DEF EditOf, ReplacedInv
<1>9. ListInv(p)' BY <1>1, <1>2 DEF ListInv
<1> QED BY <1>3, <1>5, <1>7, <1>8, <1>9 DEF EditOf

(* Only the hole is cut off. *)
LEMMA EditShrink ==
    ASSUME IInv, NEW p \in Proc, EditOf(p), Shrink(p)
    PROVE  EditOf(p)'
<1> USE DEF Counted, Inside
<1>0. /\ Shape(p) /\ pool \in Seq(Slot) /\ Len(pool) \in Nat /\ DOMAIN pool = 1..Len(pool)
      /\ snap[p] \in Seq(Slot) /\ Len(snap[p]) \in Nat
      /\ idx[p] \in Nat /\ cnt[p] \in Nat /\ hits[p] \in Nat /\ CursorInv(p)
  BY Ground
<1>1. /\ pc[p] = "shrink" \/ (pc[p] = "remove" /\ idx[p] = cnt[p])
      /\ pc'[p] = "scan" /\ snap'[p] = snap[p] /\ call'[p] = call[p]
      /\ idx'[p] = idx[p] /\ hits'[p] = hits[p] + 1
      /\ pool' = SubSeq(pool, 1, cnt[p] - 1)
  BY Ground DEF Shrink, Goto, Touch, TypeOK
<1>2. /\ Counted(p) /\ Counted(p)' /\ cnt[p] = Len(pool) /\ call[p].op \in Editing
      /\ cnt[p] >= 1
      /\ pc[p] = "shrink" => idx[p] <= cnt[p] - 2
  BY <1>0, <1>1 DEF Shape, CursorInv
<1>3. ArgsInv(p)' BY <1>1, <1>2, ArgsKept DEF EditOf
<1>4. /\ DOMAIN pool' = 1..(Len(pool) - 1) /\ Len(pool') = Len(pool) - 1
      /\ \A i \in DOMAIN pool' : i \in DOMAIN pool /\ pool'[i] = pool[i]
  <2> DEFINE n == Len(pool) - 1
  <2>1. n \in 0..Len(pool) BY <1>0, <1>2
  <2>2. pool' = SubSeq(pool, 1, n) BY <1>1, <1>2
  <2> HIDE DEF n
  <2>3. DOMAIN pool' = 1..n /\ Len(pool') = n /\ \A i \in 1..n : i \in DOMAIN pool /\ pool'[i] = pool[i]
    BY <1>0, <2>1, <2>2, PrefixIs, Zenon
  <2> QED BY <2>3 DEF n
<1>5. KeptInv(p)'
  <2>1. Hole(p) = Len(pool) /\ Hole(p)' = 0 BY <1>1, <1>2 DEF Hole
  <2>2. \A r \in Slot : Holding(pool', r, 0) = Holding(pool, r, Len(pool))
    BY <1>0, <1>1, <1>2, HoleCut
  <2>3. \A r \in Slot : r.key \notin call'[p].keys =>
            Cardinality(Holding(pool', r, Hole(p)')) = Copies(snap'[p], r)
    BY <1>1, <1>2, <2>1, <2>2 DEF EditOf, KeptInv
  <2>4. call[p].op = "delete" => Len(pool') + hits'[p] = Len(snap[p])
    BY <1>0, <1>1, <1>2, <1>4 DEF EditOf, KeptInv
  <2>5. call[p].op = "insert" => Len(pool') <= Len(snap[p])
    BY <1>0, <1>1, <1>2, <1>4 DEF EditOf, KeptInv
  <2> QED BY <1>1, <1>2, <2>3, <2>4, <2>5 DEF KeptInv
<1>6. Behind(p)' = Behind(p) /\ \A i \in Behind(p) : pool'[i] = pool[i]
  BY <1>0, <1>1, <1>2, <1>4 DEF Behind
<1>7. SearchInv(p)' BY <1>0, <1>1, <1>2 DEF SearchInv
<1>8. ReplacedInv(p)'
  <2> SUFFICES ASSUME call[p].op = "insert" PROVE ReplacedInv(p)'
    BY <1>1 DEF ReplacedInv
  <2>1. hits[p] > 0 BY <1>0, <1>1, <1>2 DEF EditOf, SearchInv
  <2>2. PICK j \in Behind(p) : /\ pool[j] = call[p].recs[1]
                               /\ \A i \in Behind(p) : pool[i].key \in call[p].keys => i = j
    BY <1>1, <1>2, <2>1 DEF EditOf, ReplacedInv
  <2>3. Keys(snap[p]) \cap call[p].keys # {}
    BY <1>1, <1>2, <2>1 DEF EditOf, ReplacedInv
  <2>4. /\ j \in Behind(p)' /\ pool'[j] = call'[p].recs[1]
        /\ \A i \in Behind(p)' : pool'[i].key \in call'[p].keys => i = j
    BY <1>1, <1>6, <2>2
  <2> QED BY <1>1, <2>3, <2>4 DEF ReplacedInv
<1>9. ListInv(p)' BY <1>1, <1>2 DEF ListInv
<1> QED BY <1>3, <1>5, <1>7, <1>8, <1>9 DEF EditOf

LEMMA EditAppendStart ==
    ASSUME IInv, NEW p \in Proc, EditOf(p), AppendStart(p)
    PROVE  EditOf(p)'
<1> USE DEF Counted, Inside
<1>1. /\ pc[p] = "append" /\ pc'[p] = "appending" /\ pool' = pool /\ snap'[p] = snap[p]
      /\ call'[p] = call[p] /\ idx'[p] = idx[p] /\ hits'[p] = hits[p] /\ uniq'[p] = uniq[p]
  BY Ground DEF AppendStart, Goto, Touch, TypeOK, iterVars
<1>2. /\ Counted(p) /\ Counted(p)' /\ call[p].op \in {"append", "load", "insert"}
  BY <1>1, Ground DEF Shape
<1>3. ArgsInv(p)' BY <1>1, <1>2, ArgsKept DEF EditOf
<1>4. KeptInv(p)'
  <2>1. Hole(p) = 0 /\ Hole(p)' = 0 BY <1>1 DEF Hole
  <2> QED BY <1>1, <1>2, <2>1 DEF EditOf, KeptInv
<1>5. Behind(p)' \subseteq Behind(p) BY <1>1 DEF Behind
<1>6. SearchInv(p)' BY <1>1, <1>2, <1>5 DEF EditOf, SearchInv
<1>7. ReplacedInv(p)' BY <1>1, <1>2 DEF EditOf, ReplacedInv
<1>8. ListInv(p)' BY <1>1, <1>2 DEF EditOf, ListInv
<1> QED BY <1>3, <1>4, <1>6, <1>7, <1>8 DEF EditOf

(* One record more of a list is written. *)
LEMMA OneMore ==
    ASSUME NEW S, NEW s \in Seq(S), NEW t \in Seq(S), NEW n \in Nat, n < Len(t)
    PROVE  /\ Append(SubSeq(t, 1, n), t[n + 1]) = SubSeq(t, 1, n + 1)
           /\ Append(s \o SubSeq(t, 1, n), t[n + 1]) = s \o SubSeq(t, 1, n + 1)
<1>1. /\ Len(t) \in Nat /\ n \in 0..Len(t) /\ n + 1 \in 1..Len(t) /\ 1 \in 1..Len(t)
      /\ n + 1 - 1 = n
  BY LenProperties
<1> DEFINE a == SubSeq(t, 1, n)
           e == t[n + 1]
<1>2. a \in Seq(S) /\ e \in S BY <1>1, PrefixIs, ElementOfSeq
<1>3. SubSeq(t, 1, n + 1) = a \o <<e>>
  BY <1>1, SubSeqRecursiveSecond
<1> HIDE DEF a, e
<1>4. <<e>> \in Seq(S) /\ s \o a \in Seq(S) BY <1>2
<1>5. Append(a, e) = a \o <<e>> /\ Append(s \o a, e) = (s \o a) \o <<e>>
  BY <1>2, <1>4
<1>6. (s \o a) \o <<e>> = s \o (a \o <<e>>)
  BY <1>2, <1>4, ConcatAssociative
<1> QED BY <1>3, <1>5, <1>6 DEF a, e

LEMMA EditAppendEnd ==
    ASSUME IInv, NEW p \in Proc, EditOf(p), AppendEnd(p)
    PROVE  EditOf(p)'
<1> USE DEF Counted, Inside
<1> DEFINE e == call[p].recs[hits[p] + 1]
<1>0. /\ Shape(p) /\ pool \in Seq(Slot) /\ Len(pool) \in Nat /\ DOMAIN pool = 1..Len(pool)
      /\ snap[p] \in Seq(Slot) /\ call[p].recs \in Seq(Record)
      /\ idx[p] \in Nat /\ cnt[p] \in Nat /\ hits[p] \in Nat /\ Len(call[p].recs) \in Nat
  BY Ground
<1>1. /\ pc[p] = "appending" /\ snap'[p] = snap[p] /\ call'[p] = call[p]
      /\ hits'[p] = hits[p] + 1 /\ pool' = Append(pool, e)
      /\ pc'[p] = IF hits[p] + 1 = Len(call[p].recs) THEN "done" ELSE "append"
  BY Ground DEF AppendEnd, Goto, Touch, TypeOK
<1>2. /\ Counted(p) /\ Counted(p)' /\ call[p].op \in {"append", "load", "insert"}
      /\ hits[p] < Len(call[p].recs) /\ e \in Record /\ e \in Slot
  BY <1>0, <1>1, RecordsAreSlots DEF Shape
<1>3. ArgsInv(p)' BY <1>1, <1>2, ArgsKept DEF EditOf
<1>4. /\ DOMAIN pool' = 1..(Len(pool) + 1) /\ pool'[Len(pool) + 1] = e
      /\ \A i \in DOMAIN pool : pool'[i] = pool[i]
  BY <1>0, <1>1, <1>2
<1>5. ASSUME call[p].op = "insert"
      PROVE  /\ hits[p] = 0 /\ e = call[p].recs[1] /\ pc'[p] = "done" /\ pool = snap[p]
             /\ call[p].keys = {e.key} /\ Keys(pool) \cap call[p].keys = {}
             /\ Cardinality(Keys(pool)) < MaxUniqueKeys
  <2>1. hits[p] = 0 BY <1>0, <1>1, <1>2, <1>5 DEF EditOf, ReplacedInv
  <2>2. Len(call[p].recs) = 1 BY <1>0, <1>5 DEF Shape
  <2> QED BY <1>0, <1>1, <1>2, <1>5, <2>1, <2>2 DEF EditOf, SearchInv, ArgsInv
<1>6. KeptInv(p)'
  <2> SUFFICES ASSUME call[p].op = "insert" PROVE KeptInv(p)'
    BY <1>1, <1>2 DEF KeptInv
  <2>1. Hole(p) = 0 /\ Hole(p)' = 0 /\ pc'[p] = "done" BY <1>1, <1>5 DEF Hole
  <2>2. \A r \in Slot : r.key \notin call[p].keys => Holding(pool', r, 0) = Holding(pool, r, 0)
    BY <1>0, <1>1, <1>2, <1>5, HoldingAppend
  <2>3. \A r \in Slot : r.key \notin call'[p].keys =>
            Cardinality(Holding(pool', r, Hole(p)')) = Copies(snap'[p], r)
    BY <1>1, <1>2, <2>1, <2>2 DEF EditOf, KeptInv
  <2> QED BY <1>1, <2>1, <2>3 DEF KeptInv
<1>7. SearchInv(p)' BY <1>0, <1>1 DEF SearchInv
<1>8. ReplacedInv(p)'
  <2> SUFFICES ASSUME call[p].op = "insert" PROVE ReplacedInv(p)'
    BY <1>1 DEF ReplacedInv
  <2> DEFINE j == Len(pool) + 1
  <2>1. j \in DOMAIN pool' /\ pool'[j] = call[p].recs[1] BY <1>0, <1>4, <1>5
  <2>2. \A i \in DOMAIN pool' : pool'[i].key \in call[p].keys => i = j
    BY <1>0, <1>4, <1>5 DEF Keys
  <2> QED BY <1>1, <1>5, <2>1, <2>2 DEF ReplacedInv
<1>9. ListInv(p)'
  <2>1. call[p].recs \in Seq(Slot)
    BY <1>0, RecordsAreSlots, SeqMonotonic
  <2>2. /\ Append(SubSeq(call[p].recs, 1, hits[p]), e) = SubSeq(call[p].recs, 1, hits[p] + 1)
        /\ Append(snap[p] \o SubSeq(call[p].recs, 1, hits[p]), e)
              = snap[p] \o SubSeq(call[p].recs, 1, hits[p] + 1)
    BY <1>0, <1>2, <2>1, OneMore
  <2>3. pc'[p] \in {"append", "done"} /\ (pc'[p] = "done" => hits'[p] = Len(call'[p].recs))
    BY <1>1
  <2>4. call[p].op = "append" => pool' = snap'[p] \o SubSeq(call'[p].recs, 1, hits'[p])
    BY <1>1, <1>2, <2>2 DEF EditOf, ListInv
  <2>5. call[p].op = "load" => pool' = SubSeq(call'[p].recs, 1, hits'[p])
    BY <1>1, <1>2, <2>2 DEF EditOf, ListInv
  <2> QED BY <1>1, <1>2, <2>3, <2>4, <2>5 DEF ListInv
<1> QED BY <1>3, <1>6, <1>7, <1>8, <1>9 DEF EditOf

-----------------------------------------------------------------------------
(* Every step. *)

LEMMA EditWorking ==
    ASSUME IInv, NEW p \in Proc, EditOf(p), Working(p)
    PROVE  EditOf(p)'
BY EditIterNew, EditClearStep, EditTruncate, EditReadNext, EditScanEnd, EditInHole,
   EditOverwriteEnd, EditSwapEnd, EditShrink, EditAppendStart, EditAppendEnd DEF Working

LEMMA EditInit == Init => EditInv
<1> SUFFICES ASSUME Init, NEW p \in Proc PROVE EditOf(p)
  BY EditInvIs
<1>1. pc[p] = "idle" /\ call[p] = NoCall /\ uniq[p] = {} BY DEF Init
<1> QED BY <1>1 DEF EditOf, ArgsInv, KeptInv, SearchInv, ReplacedInv, ListInv,
                    Counted, Inside, NoCall

LEMMA EditStep ==
    ASSUME IInv, EditInv, [Next]_vars
    PROVE  EditInv'
<1> SUFFICES ASSUME NEW q \in Proc PROVE EditOf(q)'
  BY EditInvIs DEF EditInv, EditOf
<1> USE DEF fileVars, iterVars
<1>0. TypeOK /\ EditOf(q) /\ \A p \in Proc : EditOf(p) BY EditInvIs DEF IInv
<1>1. ASSUME NEW p \in Proc, Invoke(p) PROVE EditOf(q)'
  <2>1. PICK c \in Call : CallOf(p, c) BY <1>0, <1>1, InvokeIsCall
  <2>2. CASE q = p
    <3>1. pc'[p] = "flock" /\ call'[p] = c /\ uniq'[p] = uniq[p] /\ pc[p] = "idle"
      BY <1>0, <2>1 DEF CallOf, TypeOK
    <3>2. uniq[p] = {} BY <1>0, <3>1 DEF EditOf, ArgsInv, Counted, Inside
    <3>3. ArgsInv(p)' BY <2>1, <3>1, <3>2 DEF CallOf, ArgsInv
    <3>4. ~Counted(p)' BY <3>1 DEF Counted, Inside
    <3> QED BY <2>2, <3>1, <3>3, <3>4, EditOutside
  <2>3. CASE q # p
    <3>1. Steady(q) BY <1>0, <2>1, <2>3 DEF CallOf, Steady, TypeOK
    <3> QED BY <1>0, <3>1, EditSteady
  <2> QED BY <2>2, <2>3
<1>2. ASSUME NEW p \in Proc, FlockStep(p) \/ FcntlStep(p) PROVE EditOf(q)'
  <2>1. CASE q = p
    <3>1. /\ pc[p] \in {"flock", "fcntl"} /\ pc'[p] \in {"fcntl", "locked"}
          /\ call'[p] = call[p] /\ uniq'[p] = uniq[p]
      BY <1>0, <1>2 DEF FlockStep, FcntlStep, TypeOK
    <3>2. ~Counted(p) /\ ~Counted(p)' BY <3>1 DEF Counted, Inside
    <3>3. ArgsInv(p)' BY <1>0, <3>1, <3>2, ArgsKept DEF EditOf
    <3> QED BY <2>1, <3>1, <3>2, <3>3, EditOutside
  <2>2. CASE q # p
    <3>1. Steady(q) BY <1>0, <1>2, <2>2 DEF FlockStep, FcntlStep, Steady, TypeOK
    <3> QED BY <1>0, <3>1, EditSteady
  <2> QED BY <2>1, <2>2
<1>3. ASSUME NEW p \in Proc, Close(p) PROVE EditOf(q)'
  <2>1. CASE q = p
    <3>1. pc'[p] = "idle" /\ call'[p] = NoCall /\ uniq'[p] = {}
      BY <1>0, <1>3 DEF Close, TypeOK
    <3>2. ArgsInv(p)' /\ ~Counted(p)' BY <3>1 DEF ArgsInv, NoCall, Counted, Inside
    <3> QED BY <2>1, <3>1, <3>2, EditOutside
  <2>2. CASE q # p
    <3>1. Steady(q) BY <1>0, <1>3, <2>2 DEF Close, Steady, TypeOK
    <3> QED BY <1>0, <3>1, EditSteady
  <2> QED BY <2>1, <2>2
<1>4. ASSUME NEW p \in Proc, Step(p) \/ Fail(p) PROVE EditOf(q)'
  <2>1. CASE Working(p) /\ q = p BY <1>0, <2>1, EditWorking
  <2>2. CASE Working(p) /\ q # p BY <1>0, <2>2, OthersSteady, EditSteady
  <2> QED BY <1>2, <1>3, <1>4, <2>1, <2>2, StepCases DEF Fail
<1>5. ASSUME UNCHANGED <<pc, call, iterVars>>, Inside(q) => pool' = pool PROVE EditOf(q)'
  <2>1. Steady(q) BY <1>5 DEF Steady
  <2> QED BY <1>0, <2>1, EditSteady
<1>6. ASSUME NEW d \in Daemon, DaemonLock(d) \/ DaemonUnlock(d) PROVE EditOf(q)'
  BY <1>5, <1>6 DEF DaemonLock, DaemonUnlock
<1>7. ASSUME NEW c \in CloudInit, CloudInitLock(c) PROVE EditOf(q)'
  BY <1>5, <1>7 DEF CloudInitLock
<1>8. ASSUME NEW c \in CloudInit, CloudInitAppend(c) PROVE EditOf(q)'
  BY <1>5, <1>8, AppenderAlone DEF CloudInitAppend
<1>9. CASE Tick BY <1>5, <1>9 DEF Tick
<1>10. CASE Reboot
  <2>1. pc'[q] = "idle" /\ call'[q] = NoCall /\ uniq'[q] = {} BY <1>10 DEF Reboot
  <2>2. ArgsInv(q)' /\ ~Counted(q)' BY <2>1 DEF ArgsInv, NoCall, Counted, Inside
  <2> QED BY <2>1, <2>2, EditOutside
<1>11. CASE UNCHANGED vars BY <1>5, <1>11 DEF vars
<1> QED BY <1>1, <1>4, <1>6, <1>7, <1>8, <1>9, <1>10, <1>11 DEF Next

(* EditInv holds at the start and, with IInv, after every step. *)
THEOREM EditInvariant == Spec => []EditInv
<1>1. IInv /\ EditInv /\ [Next]_vars => EditInv' BY EditStep
<1> QED BY <1>1, EditInit, InductiveInvariant, PTL DEF Spec

-----------------------------------------------------------------------------
(* The properties. *)

(* When the operation is over, no slot is a hole: the records of the other *)
(* keys are those that were found.                                         *)
LEMMA OthersKept ==
    ASSUME IInv, EditInv, NEW p \in Proc, pc[p] = "done", call[p].op \in Editing
    PROVE  /\ SameOutside(call[p].keys, snap[p], pool)
           /\ SameOutside(call[p].keys, pool, snap[p])
<1>0. pool \in Seq(Slot) /\ snap[p] \in Seq(Slot) BY Ground
<1>1. Counted(p) /\ Hole(p) = 0 BY DEF Counted, Inside, Hole
<1>2. \A r \in Slot : r.key \notin call[p].keys => Copies(pool, r) = Copies(snap[p], r)
  BY <1>0, <1>1, NoHole DEF EditInv, KeptInv
<1>3. /\ \A i \in DOMAIN pool : pool[i] \in Slot
      /\ \A i \in DOMAIN snap[p] : snap[p][i] \in Slot
  BY <1>0
<1> QED BY <1>2, <1>3 DEF SameOutside

(* A finished insert has one record of its key, the new one. *)
LEMMA InsertLeavesOne ==
    ASSUME IInv, EditInv, NEW p \in Proc, pc[p] = "done", call[p].op = "insert"
    PROVE  \E j \in DOMAIN pool :
              /\ pool[j] = call[p].recs[1]
              /\ {i \in DOMAIN pool : pool[i].key \in call[p].keys} = {j}
              /\ {i \in DOMAIN pool : pool[i] = call[p].recs[1]} = {j}
<1>0. hits[p] \in Nat BY Ground
<1>1. Counted(p) BY DEF Counted, Inside
<1>2. hits[p] > 0 /\ ReplacedInv(p) /\ call[p].keys = {call[p].recs[1].key}
  BY <1>0, <1>1 DEF EditInv, SearchInv, ArgsInv
<1>3. PICK j \in DOMAIN pool :
          /\ pool[j] = call[p].recs[1]
          /\ \A i \in DOMAIN pool : pool[i].key \in call[p].keys => i = j
  BY <1>1, <1>2 DEF ReplacedInv
<1>4. {i \in DOMAIN pool : pool[i].key \in call[p].keys} = {j} BY <1>2, <1>3
<1>5. {i \in DOMAIN pool : pool[i] = call[p].recs[1]} = {j} BY <1>2, <1>3
<1> QED BY <1>3, <1>4, <1>5

(* A key of another record is in the file after the edit only if it was    *)
(* there before.                                                           *)
LEMMA NoNewKeys ==
    ASSUME IInv, EditInv, NEW p \in Proc, pc[p] = "done", call[p].op \in Editing
    PROVE  Keys(pool) \subseteq Keys(snap[p]) \cup call[p].keys
<1>0. /\ pool \in Seq(Slot) /\ snap[p] \in Seq(Slot)
      /\ DOMAIN pool = 1..Len(pool) /\ Len(pool) \in Nat
  BY Ground
<1> SUFFICES ASSUME NEW i \in DOMAIN pool, pool[i].key \notin call[p].keys
             PROVE  pool[i].key \in Keys(snap[p])
  BY DEF Keys
<1> DEFINE r == pool[i]
<1>1. r \in Slot /\ r.key \notin call[p].keys BY <1>0
<1>2. Copies(pool, r) = Copies(snap[p], r)
  <2>1. Counted(p) /\ Hole(p) = 0 BY DEF Counted, Inside, Hole
  <2> QED BY <1>0, <1>1, <2>1, NoHole DEF EditInv, KeptInv
<1>3. Copies(pool, r) # 0
  <2>1. IsFiniteSet(Holding(pool, r, 0)) BY <1>0, HoldingFinite
  <2>2. i \in Holding(pool, r, 0) BY <1>0 DEF Holding
  <2> QED BY <1>0, <2>1, <2>2, FS_EmptySet, NoHole
<1>4. Holding(snap[p], r, 0) # {} BY <1>0, <1>2, <1>3, FS_EmptySet, NoHole
<1> QED BY <1>4 DEF Holding, Keys

LEMMA LimitHolds ==
    ASSUME IInv, EditInv
    PROVE  UniqueKeyLimit
<1> SUFFICES ASSUME NEW p \in Proc, call[p].op = "insert"
             PROVE  /\ pc[p] = "full" => /\ pool = snap[p]
                                         /\ Cardinality(Keys(pool)) >= MaxUniqueKeys
                                         /\ Keys(pool) \cap call[p].keys = {}
                    /\ pc[p] = "done" =>
                          \/ Cardinality(Keys(pool)) <= MaxUniqueKeys
                          \/ Cardinality(Keys(pool)) <= Cardinality(Keys(snap[p]))
  BY DEF UniqueKeyLimit
<1>0. /\ pool \in Seq(Slot) /\ snap[p] \in Seq(Slot) /\ hits[p] \in Nat
      /\ ArgsInv(p) /\ SearchInv(p) /\ ReplacedInv(p)
  BY Ground DEF EditInv
<1>1. CASE pc[p] = "full"
  <2>1. Counted(p) /\ hits[p] = 0
    BY <1>0, <1>1 DEF Counted, Inside, ReplacedInv
  <2> QED BY <1>0, <1>1, <2>1 DEF SearchInv
<1>2. CASE pc[p] = "done"
  <2> DEFINE K == Keys(snap[p])
             k == call[p].recs[1].key
  <2>1. Counted(p) /\ hits[p] > 0
    BY <1>0, <1>2 DEF Counted, Inside, SearchInv
  <2>2. call[p].keys = {k} BY <1>0 DEF ArgsInv
  <2>3. Keys(pool) \subseteq K \cup {k} BY <1>2, <2>2, NoNewKeys
  <2>4. IsFiniteSet(K) /\ Cardinality(K) \in Nat BY <1>0, KeysFinite
  <2>5. k \in K \/ Cardinality(K) < MaxUniqueKeys
    BY <1>0, <2>1, <2>2 DEF ReplacedInv
  <2> HIDE DEF K, k
  <2>6. CASE k \in K
    <3>1. Keys(pool) \in SUBSET K BY <2>3, <2>6
    <3>2. Cardinality(Keys(pool)) <= Cardinality(K) BY <2>4, <3>1, FS_Subset
    <3> QED BY <1>2, <3>2 DEF K
  <2>7. CASE k \notin K /\ Cardinality(K) < MaxUniqueKeys
    <3>1. /\ IsFiniteSet(K \cup {k})
          /\ Cardinality(K \cup {k}) = Cardinality(K) + 1
      BY <2>4, <2>7, FS_AddElement
    <3>2. Cardinality(Keys(pool)) <= Cardinality(K) + 1
      BY <2>3, <3>1, FS_Subset
    <3>3. Cardinality(Keys(pool)) \in Nat BY <1>0, KeysFinite
    <3>4. Cardinality(Keys(pool)) <= MaxUniqueKeys
      BY <2>4, <2>7, <3>2, <3>3, LimitAssumption
    <3> QED BY <1>2, <3>4
  <2> QED BY <2>5, <2>6, <2>7
<1> QED BY <1>1, <1>2

LEMMA OutcomeHolds ==
    ASSUME IInv, EditInv, NEW p \in Proc, pc[p] = "done"
    PROVE  Outcome(call[p], snap[p], pool)
<1> DEFINE c == call[p]
<1>0. /\ Shape(p) /\ ReaderInv(p) /\ ListInv(p) /\ c \in Call
      /\ pool \in Seq(Slot) /\ c.recs \in Seq(Record)
  BY Ground DEF EditInv
<1>1. c.op \in Op BY <1>0 DEF Shape, Call
<1>2. CASE c.op = "append"
  <2>1. pool = snap[p] \o c.recs
    BY <1>0, <1>2, SubSeqFull DEF ListInv, Counted, Inside
  <2> QED BY <1>2, <2>1 DEF Outcome
<1>3. CASE c.op = "load"
  <2>1. pool = c.recs BY <1>0, <1>3, SubSeqFull DEF ListInv, Counted, Inside
  <2> QED BY <1>3, <2>1 DEF Outcome
<1>4. CASE c.op = "insert"
  <2>1. PICK j \in DOMAIN pool :
            /\ pool[j] = c.recs[1]
            /\ {i \in DOMAIN pool : pool[i].key \in c.keys} = {j}
    BY <1>4, InsertLeavesOne
  <2>2. Cardinality({i \in DOMAIN pool : pool[i].key \in c.keys}) = 1
    BY <2>1, FS_Singleton
  <2>3. SameOutside(c.keys, snap[p], pool) /\ SameOutside(c.keys, pool, snap[p])
    BY <1>4, OthersKept
  <2> QED BY <1>4, <2>1, <2>2, <2>3 DEF Outcome
<1>5. CASE c.op = "delete"
  <2>1. Keys(pool) \cap c.keys = {}
    <3>1. /\ idx[p] \in Nat /\ DOMAIN pool = 1..Len(pool) /\ Len(pool) \in Nat
          /\ DeleteInv(p)
      BY Ground
    <3> QED BY <1>5, <3>1 DEF DeleteInv, Counted, Inside, Keys
  <2>2. SameOutside(c.keys, snap[p], pool) /\ SameOutside(c.keys, pool, snap[p])
    BY <1>5, OthersKept
  <2> QED BY <1>5, <2>1, <2>2 DEF Outcome
<1>6. CASE c.op = "clear"
  <2>1. pool = <<>> BY <1>0, <1>6 DEF ListInv
  <2> QED BY <1>6, <2>1 DEF Outcome
<1>7. CASE c.op = "clear_if_stale"
  <2>1. pool \in {snap[p], <<>>} BY <1>0, <1>7 DEF ListInv
  <2> QED BY <1>7, <2>1 DEF Outcome
<1>8. CASE c.op = "dump"
  <2>1. pool = snap[p] BY <1>0, <1>8 DEF ReaderInv, Counted, Inside
  <2> QED BY <1>8, <2>1 DEF Outcome
<1> QED BY <1>1, <1>2, <1>3, <1>4, <1>5, <1>6, <1>7, <1>8

(* An operation that answers Ok has done all of it, whatever duplicates it *)
(* met, in whatever order, and whoever waited for the locks: insert left   *)
(* one record of its key, delete none and counted what it removed, both    *)
(* kept the records of every other key, and a key is refused only when     *)
(* MAX_UNIQUE_KEYS others are there.                                       *)
THEOREM CompletedOperations == Spec => []Completed
<1>1. ASSUME IInv, EditInv PROVE Completed
  <2>1. ASSUME NEW p \in Proc, pc[p] = "done" PROVE Outcome(call[p], snap[p], pool)
    BY <1>1, <2>1, OutcomeHolds
  <2>2. ASSUME NEW p \in Proc, pc[p] = "done", call[p].op = "delete"
        PROVE  hits[p] = Len(snap[p]) - Len(pool)
    <3>1. Len(pool) \in Nat /\ Len(snap[p]) \in Nat /\ hits[p] \in Nat
      BY <1>1, Ground
    <3>2. Len(pool) + hits[p] = Len(snap[p])
      BY <1>1, <2>2 DEF EditInv, KeptInv, Counted, Inside
    <3> QED BY <3>1, <3>2
  <2> QED BY <1>1, <2>1, <2>2, LimitHolds DEF Completed
<1> QED BY <1>1, InductiveInvariant, EditInvariant, PTL

(* The records of an append are written behind all the old ones, and an    *)
(* edit cut short anywhere has lost no record of another key.              *)
THEOREM CutShortLosesNothing == Spec => []NothingElseLost
<1>1. ASSUME IInv, EditInv PROVE NothingElseLost
  <2>1. ASSUME NEW p \in Proc, Counted(p), call[p].op = "append"
        PROVE  SubSeq(pool, 1, Len(snap[p])) = snap[p]
    <3> DEFINE s == snap[p]
               w == SubSeq(call[p].recs, 1, hits[p])
    <3>1. /\ s \in Seq(Slot) /\ Len(s) \in Nat /\ pool \in Seq(Slot) /\ Len(pool) \in Nat
          /\ call[p].recs \in Seq(Record) /\ hits[p] \in Nat
      BY <1>1, Ground
    <3>2. pool = s \o w BY <1>1, <2>1 DEF EditInv, ListInv
    <3>3. hits[p] \in 0..Len(call[p].recs)
      <4>1. Shape(p) /\ ListInv(p) BY <1>1, Ground DEF EditInv
      <4>2. CASE pc[p] = "done" BY <2>1, <3>1, <4>1, <4>2 DEF ListInv
      <4>3. CASE pc[p] # "done" BY <2>1, <3>1, <4>1, <4>3 DEF ListInv, Shape
      <4> QED BY <4>2, <4>3
    <3>4. w \in Seq(Slot)
      <4>1. call[p].recs \in Seq(Slot) BY <3>1, RecordsAreSlots, SeqMonotonic
      <4> QED BY <3>3, <4>1, PrefixIs
    <3> HIDE DEF s, w
    <3>5. Len(s \o w) = Len(s) + Len(w) /\ \A i \in 1..Len(s) : (s \o w)[i] = s[i]
      BY <3>1, <3>4
    <3>6. Len(s) \in 0..Len(pool) BY <3>1, <3>2, <3>4, <3>5
    <3>7. /\ SubSeq(pool, 1, Len(s)) \in Seq(Slot) /\ Len(SubSeq(pool, 1, Len(s))) = Len(s)
          /\ \A i \in 1..Len(s) : SubSeq(pool, 1, Len(s))[i] = s[i]
      BY <3>1, <3>2, <3>5, <3>6, PrefixIs
    <3>8. SubSeq(pool, 1, Len(s)) = s BY <3>1, <3>7, SeqEqual
    <3> QED BY <3>8 DEF s
  <2>2. ASSUME NEW p \in Proc, Counted(p), call[p].op \in Editing,
               NEW i \in DOMAIN snap[p], snap[p][i].key \notin call[p].keys
        PROVE  Copies(pool, snap[p][i]) >= Copies(snap[p], snap[p][i])
    <3> DEFINE r == snap[p][i]
    <3>1. pool \in Seq(Slot) /\ r \in Slot BY <1>1, Ground
    <3>2. Cardinality(Holding(pool, r, Hole(p))) = Copies(snap[p], r)
      BY <1>1, <2>2, <3>1 DEF EditInv, KeptInv
    <3> QED BY <3>1, <3>2, HoleHides
  <2> QED BY <2>1, <2>2 DEF NothingElseLost
<1> QED BY <1>1, InductiveInvariant, EditInvariant, PTL

-----------------------------------------------------------------------------
(* KvpStore implements KvpAtomicStore, for any processes, keys, values,    *)
(* batches and pools: initial states map to initial states, and every step *)
(* maps to a step of the atomic store or leaves it as it is.               *)

(* LinkInv. *)

LinkOf(p) ==
    /\ pc[p] = "idle" => call[p] = NoCall
    /\ call[p].op \notin Reading => acc[p] = <<>>
    /\ Counted(p) /\ pc[p] # "appending" => ~torn

LEMMA LinkInvIs == LinkInv <=> \A p \in Proc : LinkOf(p)
BY DEF LinkInv, LinkOf

LEMMA LinkSteady ==
    ASSUME NEW q \in Proc, LinkOf(q), Steady(q), Inside(q) => (torn' => torn)
    PROVE  LinkOf(q)'
BY DEF LinkOf, Steady, Counted, Inside

(* The file gets a partial record from an append of the store only, which  *)
(* has it to itself.                                                       *)
LEMMA TearsAlone ==
    ASSUME IInv, NEW p \in Proc, Working(p)
    PROVE  /\ torn' => torn \/ AppendStart(p)
           /\ \A q \in Proc \ {p} : Inside(q) => (torn' => torn)
<1> USE DEF Goto, Touch, fileVars
<1>1. torn' => torn \/ AppendStart(p)
  BY DEF Working, IterNew, ClearStep, Truncate, ReadNext, ScanEnd, OverwriteStart,
         OverwriteEnd, SwapStart, SwapEnd, Shrink, AppendEnd
<1>2. AppendStart(p) => Writer(p) /\ Inside(p)
  BY Ground DEF AppendStart, Shape, Writer, Inside
<1>3. Exclusion BY LocksExclude DEF IInv
<1> QED BY <1>1, <1>2, <1>3 DEF Exclusion

LEMMA LinkWorking ==
    ASSUME IInv, NEW p \in Proc, LinkOf(p), Working(p)
    PROVE  LinkOf(p)'
<1> USE DEF Goto, Touch, fileVars, iterVars, Counted, Inside
<1>0. TypeOK /\ Shape(p) BY Ground
<1>1. pc'[p] # "idle" /\ pc[p] # "idle" /\ call'[p] = call[p]
  <2>1. PICK l \in Label \ {"idle", "flock", "fcntl", "locked"} : pc' = [pc EXCEPT ![p] = l]
    BY <1>0, WorkingFrame
  <2> QED BY <1>0, <2>1, WorkingFrame DEF TypeOK
<1>2. call[p].op \notin Reading => acc'[p] = acc[p]
  BY <1>0 DEF TypeOK, Working, IterNew, ClearStep, Truncate, ReadNext, ScanEnd, OverwriteStart,
              OverwriteEnd, SwapStart, SwapEnd, Shrink, AppendStart, AppendEnd
<1>3. Counted(p)' /\ pc'[p] # "appending" => ~torn'
  <2>1. CASE IterNew(p) BY <2>1 DEF IterNew
  <2>2. CASE ClearStep(p) BY <1>1, <2>2 DEF ClearStep
  <2>3. CASE Truncate(p) \/ AppendEnd(p) BY <2>3 DEF Truncate, AppendEnd
  <2>4. CASE AppendStart(p)
    <3>1. pc'[p] = "appending" BY <1>0, <2>4 DEF AppendStart, TypeOK
    <3> QED BY <3>1
  <2>5. CASE \/ ReadNext(p) \/ ScanEnd(p) \/ OverwriteStart(p) \/ OverwriteEnd(p)
             \/ SwapStart(p) \/ SwapEnd(p) \/ Shrink(p)
    <3>1. torn' = torn /\ pc[p] \in {"scan", "overwrite", "overwriting", "remove", "swapping", "shrink"}
      BY <2>5 DEF ReadNext, ScanEnd, OverwriteStart, OverwriteEnd, SwapStart, SwapEnd, Shrink
    <3>2. call[p].op \in Reading \cup Editing BY <1>0, <3>1 DEF Shape
    <3> QED BY <3>1, <3>2 DEF LinkOf
  <2> QED BY <2>1, <2>2, <2>3, <2>4, <2>5 DEF Working
<1> QED BY <1>1, <1>2, <1>3 DEF LinkOf

LEMMA LinkStep ==
    ASSUME IInv, LinkInv, [Next]_vars
    PROVE  LinkInv'
<1> SUFFICES ASSUME NEW q \in Proc PROVE LinkOf(q)'
  BY LinkInvIs DEF LinkInv, LinkOf
<1> USE DEF fileVars, iterVars
<1>0. TypeOK /\ LinkOf(q) /\ Shape(q) /\ \A p \in Proc : LinkOf(p)
  BY LinkInvIs, Ground
<1>1. ASSUME NEW p \in Proc, Invoke(p) PROVE LinkOf(q)'
  <2>1. PICK c \in Call : CallOf(p, c) BY <1>0, <1>1, InvokeIsCall
  <2>2. CASE q = p
    <3>1. pc'[p] = "flock" /\ acc'[p] = acc[p] /\ pc[p] = "idle"
      BY <1>0, <2>1 DEF CallOf, TypeOK
    <3>2. acc[p] = <<>> BY <1>0, <2>2, <3>1 DEF Shape
    <3> QED BY <2>2, <3>1, <3>2 DEF LinkOf, Counted, Inside
  <2>3. CASE q # p
    <3>1. Steady(q) /\ torn' = torn BY <1>0, <2>1, <2>3 DEF CallOf, Steady, TypeOK
    <3> QED BY <1>0, <3>1, LinkSteady
  <2> QED BY <2>2, <2>3
<1>2. ASSUME NEW p \in Proc, FlockStep(p) \/ FcntlStep(p) PROVE LinkOf(q)'
  <2>1. CASE q = p
    <3>1. pc'[p] \in {"fcntl", "locked"} /\ call'[p] = call[p] /\ acc'[p] = acc[p]
      BY <1>0, <1>2 DEF FlockStep, FcntlStep, TypeOK
    <3> QED BY <1>0, <2>1, <3>1 DEF LinkOf, Counted, Inside
  <2>2. CASE q # p
    <3>1. Steady(q) /\ torn' = torn
      BY <1>0, <1>2, <2>2 DEF FlockStep, FcntlStep, Steady, TypeOK
    <3> QED BY <1>0, <3>1, LinkSteady
  <2> QED BY <2>1, <2>2
<1>3. ASSUME NEW p \in Proc, Close(p) PROVE LinkOf(q)'
  <2>1. CASE q = p
    <3>1. pc'[p] = "idle" /\ call'[p] = NoCall /\ acc'[p] = <<>>
      BY <1>0, <1>3 DEF Close, TypeOK
    <3> QED BY <2>1, <3>1 DEF LinkOf, Counted, Inside
  <2>2. CASE q # p
    <3>1. Steady(q) /\ torn' = torn BY <1>0, <1>3, <2>2 DEF Close, Steady, TypeOK
    <3> QED BY <1>0, <3>1, LinkSteady
  <2> QED BY <2>1, <2>2
<1>4. ASSUME NEW p \in Proc, Step(p) \/ Fail(p) PROVE LinkOf(q)'
  <2>1. CASE Working(p) /\ q = p BY <1>0, <2>1, LinkWorking
  <2>2. CASE Working(p) /\ q # p
    <3>1. Steady(q) BY <2>2, OthersSteady
    <3>2. Inside(q) => (torn' => torn) BY <2>2, TearsAlone
    <3> QED BY <1>0, <3>1, <3>2, LinkSteady
  <2> QED BY <1>2, <1>3, <1>4, <2>1, <2>2, StepCases DEF Fail
<1>5. ASSUME UNCHANGED <<pc, call, iterVars, torn>>, Inside(q) => pool' = pool PROVE LinkOf(q)'
  <2>1. Steady(q) BY <1>5 DEF Steady
  <2> QED BY <1>0, <1>5, <2>1, LinkSteady
<1>6. ASSUME NEW d \in Daemon, DaemonLock(d) \/ DaemonUnlock(d) PROVE LinkOf(q)'
  BY <1>5, <1>6 DEF DaemonLock, DaemonUnlock
<1>7. ASSUME NEW c \in CloudInit, CloudInitLock(c) PROVE LinkOf(q)'
  BY <1>5, <1>7 DEF CloudInitLock
<1>8. ASSUME NEW c \in CloudInit, CloudInitAppend(c) PROVE LinkOf(q)'
  BY <1>5, <1>8, AppenderAlone DEF CloudInitAppend, Touch
<1>9. CASE Tick BY <1>5, <1>9 DEF Tick
<1>10. CASE Reboot BY <1>10 DEF Reboot, LinkOf, Counted, Inside
<1>11. CASE UNCHANGED vars BY <1>5, <1>11 DEF vars
<1> QED BY <1>1, <1>4, <1>6, <1>7, <1>8, <1>9, <1>10, <1>11 DEF Next

(* LinkInv holds at the start and, with IInv, after every step. *)
THEOREM LinkInvariant == Spec => []LinkInv
<1>1. Init => LinkInv BY DEF Init, LinkInv, NoCall, Counted, Inside
<1>2. IInv /\ LinkInv /\ [Next]_vars => LinkInv' BY LinkStep
<1> QED BY <1>1, <1>2, InductiveInvariant, PTL DEF Spec

-----------------------------------------------------------------------------
(* The mapping. *)

AllInv == IInv /\ EditInv /\ LinkInv

(* At most one process is in the middle of an edit, so the mapping chooses *)
(* its records.                                                            *)
LEMMA MidEditAlone ==
    IInv => \A p, q \in Proc : MidEdit(p) /\ Inside(q) => p = q
<1>1. IInv => Exclusion BY LocksExclude DEF IInv
<1> QED BY <1>1 DEF Exclusion, MidEdit, Counted

LEMMA MidEditAloneNext ==
    IInv' => \A p, q \in Proc : MidEdit(p)' /\ Inside(q)' => p = q
<1>1. (IInv => \A p, q \in Proc : MidEdit(p) /\ Inside(q) => p = q)'
  BY MidEditAlone, PTL
<1> QED BY <1>1

LEMMA CommittedIs ==
    IInv => /\ \A p \in Proc : MidEdit(p) => CommittedPool = snap[p] /\ CommittedTorn = FALSE
            /\ (\A p \in Proc : ~MidEdit(p)) => CommittedPool = pool /\ CommittedTorn = torn
<1> SUFFICES ASSUME IInv
             PROVE  /\ \A p \in Proc : MidEdit(p) => CommittedPool = snap[p] /\ CommittedTorn = FALSE
                    /\ (\A p \in Proc : ~MidEdit(p)) => CommittedPool = pool /\ CommittedTorn = torn
  OBVIOUS
<1>1. ASSUME NEW p \in Proc, MidEdit(p)
      PROVE  CommittedPool = snap[p] /\ CommittedTorn = FALSE
  <2>1. Inside(p) /\ \A q \in Proc : MidEdit(q) => q = p
    BY <1>1, MidEditAlone DEF MidEdit, Counted
  <2>2. (CHOOSE q \in Proc : MidEdit(q)) = p BY <1>1, <2>1
  <2>3. CommittedPool = snap[p] BY <1>1, <2>2 DEF CommittedPool
  <2>4. CommittedTorn = FALSE BY <1>1 DEF CommittedTorn
  <2> QED BY <2>3, <2>4
<1>2. ASSUME \A p \in Proc : ~MidEdit(p) PROVE CommittedPool = pool /\ CommittedTorn = torn
  <2>1. torn \in BOOLEAN BY DEF IInv, TypeOK
  <2>2. CommittedPool = pool BY <1>2 DEF CommittedPool
  <2>3. CommittedTorn = torn BY <1>2, <2>1 DEF CommittedTorn
  <2> QED BY <2>2, <2>3
<1> QED BY <1>1, <1>2

LEMMA CommittedIsNext ==
    IInv' => /\ \A p \in Proc : MidEdit(p)' => CommittedPool' = snap'[p] /\ CommittedTorn' = FALSE
             /\ (\A p \in Proc : ~MidEdit(p)') => CommittedPool' = pool' /\ CommittedTorn' = torn'
<1>1. (IInv => /\ \A p \in Proc : MidEdit(p) => CommittedPool = snap[p] /\ CommittedTorn = FALSE
               /\ (\A p \in Proc : ~MidEdit(p)) => CommittedPool = pool /\ CommittedTorn = torn)'
  BY CommittedIs, PTL
<1> QED BY <1>1

(* The answer a process has, by where it is. *)
LEMMA AnswerIs ==
    ASSUME NEW p \in Proc
    PROVE  /\ pc[p] \notin {"done", "full"} => Answer(p) = Atomic!None
           /\ pc[p] = "done" => Answer(p) = [is |-> "ok", recs |-> acc[p]]
           /\ pc[p] = "full" => Answer(p) = Atomic!Full
<1>1. CASE pc[p] \notin {"done", "full"} BY <1>1, Zenon DEF Answer, Atomic!None
<1>2. CASE pc[p] = "done" BY <1>2, Zenon DEF Answer
<1>3. CASE pc[p] = "full" BY <1>3, Zenon DEF Answer, Atomic!Full
<1> QED BY <1>1, <1>2, <1>3

LEMMA AnswerIsNext ==
    ASSUME NEW p \in Proc
    PROVE  /\ pc'[p] \notin {"done", "full"} => Answer(p)' = Atomic!None
           /\ pc'[p] = "done" => Answer(p)' = [is |-> "ok", recs |-> acc'[p]]
           /\ pc'[p] = "full" => Answer(p)' = Atomic!Full
<1>1. CASE pc'[p] \notin {"done", "full"} BY <1>1, Zenon DEF Answer, Atomic!None
<1>2. CASE pc'[p] = "done" BY <1>2, Zenon DEF Answer
<1>3. CASE pc'[p] = "full" BY <1>3, Zenon DEF Answer, Atomic!Full
<1> QED BY <1>1, <1>2, <1>3

(* The other processes take no part in a step of p. *)
OthersRest(p) ==
    \A q \in Proc \ {p} :
        pc'[q] = pc[q] /\ call'[q] = call[q] /\ acc'[q] = acc[q] /\ snap'[q] = snap[q]

LEMMA OthersAnswers ==
    ASSUME NEW p \in Proc, OthersRest(p)
    PROVE  /\ [q \in Proc |-> Answer(q)]' = [[q \in Proc |-> Answer(q)] EXCEPT ![p] = Answer(p)']
           /\ \A q \in Proc \ {p} : MidEdit(q)' <=> MidEdit(q)
<1>1. \A q \in Proc \ {p} : Answer(q)' = Answer(q) BY DEF OthersRest, Answer
<1>2. \A q \in Proc \ {p} : MidEdit(q)' <=> MidEdit(q)
  BY DEF OthersRest, MidEdit, Counted, Inside, Writer
<1> QED BY <1>1, <1>2

(* What a caller sees stays while an edit goes on, and while nobody        *)
(* changes the file.                                                       *)
LEMMA CommittedStays ==
    ASSUME IInv, IInv', NEW p \in Proc, OthersRest(p),
           \/ MidEdit(p) /\ MidEdit(p)' /\ snap'[p] = snap[p]
           \/ /\ ~MidEdit(p) /\ ~MidEdit(p)'
              /\ pool' = pool /\ torn' = torn
    PROVE  UNCHANGED <<CommittedPool, CommittedTorn>>
<1>1. CASE MidEdit(p) /\ MidEdit(p)' /\ snap'[p] = snap[p]
  BY <1>1, CommittedIs, CommittedIsNext
<1>2. CASE ~MidEdit(p) /\ ~MidEdit(p)' /\ pool' = pool /\ torn' = torn
  <2>1. \A q \in Proc \ {p} : MidEdit(q)' <=> MidEdit(q) BY OthersAnswers
  <2>2. CASE \E q \in Proc : MidEdit(q)
    <3>1. PICK q \in Proc : MidEdit(q) BY <2>2
    <3>2. MidEdit(q)' /\ snap'[q] = snap[q] BY <1>2, <2>1, <3>1 DEF OthersRest
    <3> QED BY <3>1, <3>2, CommittedIs, CommittedIsNext
  <2>3. CASE \A q \in Proc : ~MidEdit(q)
    BY <1>2, <2>1, <2>3, CommittedIs, CommittedIsNext
  <2> QED BY <2>2, <2>3
<1> QED BY <1>1, <1>2

(* A step after which everything looks the same. *)
LEMMA Stutters ==
    ASSUME NEW p \in Proc, OthersRest(p), UNCHANGED <<CommittedPool, CommittedTorn>>,
           call' = call, Answer(p)' = Answer(p)
    PROVE  UNCHANGED Atomic!vars
<1>1. [q \in Proc |-> Answer(q)]' = [q \in Proc |-> Answer(q)]
  BY OthersAnswers
<1> QED BY <1>1 DEF Atomic!vars

-----------------------------------------------------------------------------
(* What a finished edit has done, in the words of the atomic store. *)

(* Both modules count with the same FiniteSets. *)
LEMMA AtomicCardinality ==
    ASSUME NEW S
    PROVE  Atomic!Cardinality(S) = Cardinality(S)
BY Zenon DEF Atomic!Cardinality, Cardinality

LEMMA AtomicTimes ==
    ASSUME NEW s, NEW r
    PROVE  Atomic!Times(s, r) = Copies(s, r)
<1>1. Atomic!Times(s, r) = Atomic!Cardinality({i \in DOMAIN s : s[i] = r})
  BY Zenon DEF Atomic!Times
<1>2. Copies(s, r) = Cardinality({i \in DOMAIN s : s[i] = r})
  BY Zenon DEF Copies
<1> QED BY <1>1, <1>2, AtomicCardinality, Zenon

LEMMA EditKeepsOthers ==
    ASSUME IInv, EditInv, NEW p \in Proc, Counted(p), call[p].op \in Editing
    PROVE  /\ Atomic!KeepsOthers(call[p].keys, snap[p], pool)
           /\ pc[p] = "done" => Atomic!KeepsOthers(call[p].keys, pool, snap[p])
<1>0. pool \in Seq(Slot) /\ snap[p] \in Seq(Slot) BY Ground
<1>1. \A s, r : Atomic!Times(s, r) = Copies(s, r) BY AtomicTimes
<1>2. /\ \A i \in DOMAIN pool : pool[i] \in Slot
      /\ \A i \in DOMAIN snap[p] : snap[p][i] \in Slot
  BY <1>0
<1>3. \A r \in Slot : r.key \notin call[p].keys =>
          Cardinality(Holding(pool, r, Hole(p))) = Copies(snap[p], r)
  BY DEF EditInv, KeptInv
<1>4. Atomic!KeepsOthers(call[p].keys, snap[p], pool)
  BY <1>0, <1>1, <1>2, <1>3, HoleHides DEF Atomic!KeepsOthers
<1>5. ASSUME pc[p] = "done" PROVE Atomic!KeepsOthers(call[p].keys, pool, snap[p])
  <2>1. Hole(p) = 0 BY <1>5 DEF Hole
  <2>2. \A r \in Slot : r.key \notin call[p].keys =>
            Copies(pool, r) = Copies(snap[p], r) /\ Copies(pool, r) \in Nat
    BY <1>0, <1>3, <2>1, NoHole, HoldingFinite
  <2>3. \A r \in Slot : r.key \notin call[p].keys => Copies(snap[p], r) >= Copies(pool, r)
    BY <2>2
  <2> QED BY <1>1, <1>2, <2>3 DEF Atomic!KeepsOthers
<1> QED BY <1>4, <1>5

(* An edit that is over. *)
Finished(p) ==
    LET c == call[p] IN
    /\ c.op = "append" => pool = snap[p] \o c.recs
    /\ c.op = "load" => pool = c.recs /\ Cardinality(Atomic!KeysOf(c.recs)) <= MaxUniqueKeys
    /\ c.op = "insert" =>
          LET k == c.recs[1].key IN
          /\ k \in Atomic!KeysOf(snap[p]) \/ Cardinality(Atomic!KeysOf(snap[p])) < MaxUniqueKeys
          /\ Atomic!Times(pool, c.recs[1]) = 1
          /\ Cardinality({i \in DOMAIN pool : pool[i].key = k}) = 1
          /\ Atomic!KeepsOthers({k}, snap[p], pool) /\ Atomic!KeepsOthers({k}, pool, snap[p])
    /\ c.op = "delete" =>
          /\ Atomic!KeysOf(pool) \cap c.keys = {}
          /\ Atomic!KeepsOthers(c.keys, snap[p], pool)
          /\ Atomic!KeepsOthers(c.keys, pool, snap[p])

LEMMA FinishedEdit ==
    AllInv => \A p \in Proc : pc[p] = "done" => Finished(p) /\ (Counted(p) => ~torn)
<1> SUFFICES ASSUME AllInv, NEW p \in Proc, pc[p] = "done"
             PROVE  Finished(p) /\ (Counted(p) => ~torn)
  OBVIOUS
<1> DEFINE c == call[p]
<1>0. IInv /\ EditInv /\ (Counted(p) => ~torn) BY DEF AllInv, LinkInv
<1>1. Outcome(c, snap[p], pool) /\ ArgsInv(p) BY <1>0, OutcomeHolds DEF EditInv
<1>2. \A s : Atomic!KeysOf(s) = Keys(s) BY DEF Atomic!KeysOf, Keys
<1>3. CASE c.op \in {"append", "load"}
  <2>1. c.op = "append" => pool = snap[p] \o c.recs BY <1>1, Zenon DEF Outcome
  <2>2. c.op = "load" => pool = c.recs BY <1>1, Zenon DEF Outcome
  <2> QED BY <1>0, <1>1, <1>2, <1>3, <2>1, <2>2 DEF Finished, ArgsInv
<1>4. CASE c.op \in Editing
  <2>0. Counted(p) BY <1>4 DEF Counted, Inside
  <2>1. Atomic!KeepsOthers(c.keys, snap[p], pool) /\ Atomic!KeepsOthers(c.keys, pool, snap[p])
    BY <1>0, <1>4, <2>0, EditKeepsOthers
  <2>2. CASE c.op = "delete"
    <3>1. Keys(pool) \cap c.keys = {} BY <1>1, <2>2, Zenon DEF Outcome
    <3> QED BY <1>0, <1>2, <2>1, <2>2, <3>1 DEF Finished
  <2>3. CASE c.op = "insert"
    <3> DEFINE r == c.recs[1]
    <3>1. PICK j \in DOMAIN pool :
              /\ pool[j] = r
              /\ {i \in DOMAIN pool : pool[i].key \in c.keys} = {j}
              /\ {i \in DOMAIN pool : pool[i] = r} = {j}
      BY <1>0, <2>3, InsertLeavesOne
    <3>2. c.keys = {r.key} BY <1>1, <2>3 DEF ArgsInv
    <3>3. Atomic!Times(pool, r) = 1
      <4>1. Atomic!Times(pool, r) = Cardinality({i \in DOMAIN pool : pool[i] = r})
        BY AtomicTimes, Zenon DEF Copies
      <4>2. {i \in DOMAIN pool : pool[i] = r} = {j} BY <3>1
      <4>3. Cardinality({j}) = 1 BY FS_Singleton, Zenon
      <4> QED BY <4>1, <4>2, <4>3, Zenon
    <3>4. {i \in DOMAIN pool : pool[i].key = r.key} = {j} BY <3>1, <3>2
    <3>5. Cardinality({i \in DOMAIN pool : pool[i].key = r.key}) = 1 BY <3>4, FS_Singleton
    <3>6. r.key \in Keys(snap[p]) \/ Cardinality(Keys(snap[p])) < MaxUniqueKeys
      <4>1. hits[p] \in Nat /\ ReplacedInv(p) /\ SearchInv(p) BY <1>0, Ground DEF EditInv
      <4>2. hits[p] > 0 BY <2>0, <2>3, <4>1 DEF SearchInv
      <4> QED BY <2>0, <2>3, <3>2, <4>1, <4>2 DEF ReplacedInv
    <3> HIDE DEF r
    <3>7. Atomic!KeepsOthers({r.key}, snap[p], pool) /\ Atomic!KeepsOthers({r.key}, pool, snap[p])
      BY <2>1, <3>2
    <3> QED BY <1>0, <1>2, <2>3, <3>3, <3>5, <3>6, <3>7 DEF Finished, r
  <2> QED BY <1>4, <2>2, <2>3
<1>5. CASE c.op \notin {"append", "load"} \cup Editing BY <1>0, <1>5 DEF Finished
<1> QED BY <1>3, <1>4, <1>5

LEMMA FinishedEditNext ==
    AllInv' => \A p \in Proc : pc'[p] = "done" => Finished(p)' /\ (Counted(p)' => ~torn')
<1>1. (AllInv => \A p \in Proc : pc[p] = "done" => Finished(p) /\ (Counted(p) => ~torn))'
  BY FinishedEdit, PTL
<1> QED BY <1>1

-----------------------------------------------------------------------------
(* The steps. *)

(* A call of the store is a call of the atomic store. *)
LEMMA InvokeMaps ==
    ASSUME AllInv, AllInv', NEW p \in Proc, Invoke(p)
    PROVE  Atomic!Start(p)
<1>0. TypeOK /\ Shape(p) /\ IInv /\ IInv' BY Ground DEF AllInv
<1>1. PICK c \in Call : CallOf(p, c) BY <1>0, InvokeIsCall
<1>2. /\ pc[p] = "idle" /\ pc'[p] = "flock" /\ call[p] = NoCall
      /\ call' = [call EXCEPT ![p] = c] /\ pool' = pool /\ torn' = torn
      /\ OthersRest(p)
  BY <1>0, <1>1 DEF CallOf, TypeOK, AllInv, LinkInv, OthersRest, iterVars
<1>3. Answer(p)' = Answer(p) BY <1>2, AnswerIs, AnswerIsNext
<1>4. [q \in Proc |-> Answer(q)]' = [q \in Proc |-> Answer(q)]
  BY <1>2, <1>3, OthersAnswers
<1>5. ~MidEdit(p) /\ ~MidEdit(p)' BY <1>2 DEF MidEdit, Counted, Inside
<1>6. UNCHANGED <<CommittedPool, CommittedTorn>> BY <1>0, <1>2, <1>5, CommittedStays
<1>7. c \in Atomic!Call
  <2>1. /\ c.op \in Op /\ c.keys \in SUBSET Key /\ c \in Call
        /\ c.recs \in Batches \cup {<<>>} \cup {<<r>> : r \in Record}
    BY <1>1 DEF CallOf, Call
  <2> QED BY <2>1 DEF Atomic!Call, Atomic!Record, Call, Record
<1> QED BY <1>2, <1>4, <1>6, <1>7 DEF Atomic!Start, Atomic!NoCall, NoCall

(* Locking changes nothing a caller sees. *)
LEMMA LockMaps ==
    ASSUME AllInv, AllInv', NEW p \in Proc, FlockStep(p) \/ FcntlStep(p)
    PROVE  UNCHANGED Atomic!vars
<1>0. TypeOK /\ IInv /\ IInv' BY Ground DEF AllInv
<1>1. /\ pc[p] \in {"flock", "fcntl"} /\ pc'[p] \in {"fcntl", "locked"} /\ call' = call
      /\ pool' = pool /\ torn' = torn /\ OthersRest(p)
  BY <1>0 DEF FlockStep, FcntlStep, TypeOK, OthersRest, fileVars, iterVars
<1>2. Answer(p)' = Answer(p) BY <1>1, AnswerIs, AnswerIsNext
<1>3. ~MidEdit(p) /\ ~MidEdit(p)' BY <1>1 DEF MidEdit, Counted, Inside
<1> QED BY <1>0, <1>1, <1>2, <1>3, CommittedStays, Stutters

LEMMA WorkingRests ==
    ASSUME IInv, NEW p \in Proc, Working(p)
    PROVE  OthersRest(p) /\ call' = call
<1>1. call' = call BY WorkingFrame DEF IInv
<1>2. ASSUME NEW q \in Proc \ {p}
      PROVE  pc'[q] = pc[q] /\ acc'[q] = acc[q] /\ snap'[q] = snap[q]
  BY OthersSteady DEF Steady
<1> QED BY <1>1, <1>2 DEF OthersRest

(* Nobody but p is in the middle of an edit when p, inside, is a writer or *)
(* does not edit itself.                                                   *)
LEMMA NobodyElse ==
    ASSUME IInv, NEW p \in Proc, Inside(p), ~MidEdit(p)
    PROVE  CommittedPool = pool /\ CommittedTorn = torn
BY CommittedIs, MidEditAlone

LEMMA NobodyElseNext ==
    ASSUME IInv', NEW p \in Proc, Inside(p)', ~MidEdit(p)'
    PROVE  CommittedPool' = pool' /\ CommittedTorn' = torn'
BY MidEditAloneNext, CommittedIsNext

(* The steps between the first and the last of an edit, and those of a     *)
(* reader before its last.                                                 *)
LEMMA MiddleMaps ==
    ASSUME AllInv, AllInv', NEW p \in Proc, Working(p),
           pc[p] # "locked", pc'[p] \notin {"done", "full"}
    PROVE  UNCHANGED Atomic!vars
<1>0. TypeOK /\ IInv /\ IInv' /\ Shape(p) BY Ground DEF AllInv
<1>1. OthersRest(p) /\ call' = call BY <1>0, WorkingRests
<1>2. Inside(p) /\ Inside(p)' /\ pc'[p] # "locked"
  <2>1. PICK l \in Label \ {"idle", "flock", "fcntl", "locked"} : pc' = [pc EXCEPT ![p] = l]
    BY <1>0, WorkingFrame
  <2> QED BY <1>0, <2>1, WorkingFrame DEF TypeOK, Inside
<1>3. pc[p] \notin {"done", "full"} /\ snap'[p] = snap[p]
  BY <1>0 DEF Working, IterNew, ClearStep, Truncate, ReadNext, ScanEnd, OverwriteStart,
              OverwriteEnd, SwapStart, SwapEnd, Shrink, AppendStart, AppendEnd, iterVars
<1>4. Answer(p)' = Answer(p) BY <1>3, AnswerIs, AnswerIsNext
<1>5. CASE Writer(p) /\ call[p].op \notin {"clear", "clear_if_stale"}
  <2>1. MidEdit(p) /\ MidEdit(p)' BY <1>1, <1>2, <1>3, <1>5 DEF MidEdit, Counted, Writer
  <2> QED BY <1>0, <1>1, <1>3, <1>4, <2>1, CommittedStays, Stutters
<1>6. CASE ~(Writer(p) /\ call[p].op \notin {"clear", "clear_if_stale"})
  <2>1. ~MidEdit(p) /\ ~MidEdit(p)' BY <1>1, <1>6 DEF MidEdit, Counted, Writer
  <2>2. pc[p] # "truncate"
    <3> SUFFICES ASSUME pc[p] = "truncate" PROVE FALSE
      OBVIOUS
    <3>1. Truncate(p)
      BY DEF Working, IterNew, ClearStep, ReadNext, ScanEnd, OverwriteStart, OverwriteEnd,
             SwapStart, SwapEnd, Shrink, AppendStart, AppendEnd
    <3>2. call[p].recs = <<>> BY <1>0, <1>6 DEF Shape, Writer
    <3>3. pc'[p] = "done" BY <1>0, <3>1, <3>2 DEF Truncate, Goto, TypeOK
    <3> QED BY <3>3
  <2>3. call[p].op \in {"dump", "clear", "clear_if_stale"} /\ pc[p] = "scan"
    <3>1. call[p].op \in {"dump", "clear", "clear_if_stale"}
      <4>1. call[p] \in Call /\ call[p].op # "none" BY <1>0, <1>2, Ground DEF Shape, Inside
      <4> QED BY <1>6, <4>1 DEF Call, Writer
    <3> QED
      BY <1>0, <2>2, <3>1 DEF Working, IterNew, ClearStep, Truncate, ReadNext, ScanEnd,
         OverwriteStart, OverwriteEnd, SwapStart, SwapEnd, Shrink, AppendStart, AppendEnd, Shape
  <2>4. pool' = pool /\ torn' = torn
    BY <2>3 DEF Working, IterNew, ClearStep, Truncate, ReadNext, ScanEnd, OverwriteStart,
                OverwriteEnd, SwapStart, SwapEnd, Shrink, AppendStart, AppendEnd, fileVars
  <2> QED BY <1>0, <1>1, <1>4, <2>1, <2>4, CommittedStays, Stutters
<1> QED BY <1>5, <1>6

(* Counting the records starts an edit; what a caller sees is what it found. *)
LEMMA IterNewMaps ==
    ASSUME AllInv, AllInv', NEW p \in Proc, IterNew(p)
    PROVE  UNCHANGED Atomic!vars
<1>0. TypeOK /\ IInv /\ IInv' /\ Working(p) BY Ground DEF AllInv, Working
<1>1. OthersRest(p) /\ call' = call BY <1>0, WorkingRests
<1>2. /\ pc[p] = "locked" /\ pc'[p] = AfterNew(call[p].op) /\ snap'[p] = pool
      /\ pool' = pool /\ torn' = torn /\ ~torn
  BY <1>0 DEF IterNew, Goto, TypeOK, fileVars
<1>3. pc'[p] \in {"scan", "append", "truncate"} BY <1>2 DEF AfterNew
<1>4. Answer(p)' = Answer(p) BY <1>2, <1>3, AnswerIs, AnswerIsNext
<1>5. Inside(p) /\ Inside(p)' /\ ~MidEdit(p) BY <1>2, <1>3 DEF Inside, MidEdit, Counted
<1>6. CASE MidEdit(p)'
  <2>1. CommittedPool' = pool /\ CommittedTorn' = FALSE
    BY <1>0, <1>2, <1>6, CommittedIsNext
  <2>2. CommittedPool = pool /\ CommittedTorn = torn BY <1>0, <1>5, NobodyElse
  <2>3. UNCHANGED <<CommittedPool, CommittedTorn>> BY <1>0, <1>2, <2>1, <2>2 DEF TypeOK
  <2> QED BY <1>1, <1>4, <2>3, Stutters
<1>7. CASE ~MidEdit(p)'
  BY <1>0, <1>1, <1>2, <1>4, <1>5, <1>7, CommittedStays, Stutters
<1> QED BY <1>6, <1>7

(* The last step of an operation that edits the file is the instant at     *)
(* which the atomic store acts.                                            *)
LEMMA FinishMaps ==
    ASSUME AllInv, AllInv', NEW p \in Proc, MidEdit(p), OthersRest(p), call' = call,
           snap'[p] = snap[p], pc'[p] = "done"
    PROVE  Atomic!Append_(p) \/ Atomic!Load(p) \/ Atomic!Insert(p) \/ Atomic!Delete(p)
<1>0. IInv /\ IInv' /\ LinkInv' BY DEF AllInv
<1>1. /\ Counted(p) /\ Writer(p) /\ pc[p] \notin {"done", "full"}
      /\ call[p].op \in {"append", "load", "insert", "delete"}
  BY DEF MidEdit, Counted, Writer
<1>2. Inside(p)' /\ Counted(p)' /\ ~MidEdit(p)' BY <1>1 DEF Inside, Counted, MidEdit
<1>3. /\ CommittedPool = snap[p] /\ CommittedTorn = FALSE
      /\ CommittedPool' = pool' /\ CommittedTorn' = torn'
  BY <1>0, <1>2, CommittedIs, NobodyElseNext
<1>4. Finished(p)' /\ ~torn' BY <1>2, FinishedEditNext
<1>5. torn' = FALSE BY <1>0, <1>4 DEF IInv, TypeOK
<1>6. Answer(p)' = Atomic!Done
  <2>1. acc'[p] = <<>> BY <1>0, <1>1 DEF LinkInv
  <2> QED BY <2>1, AnswerIsNext DEF Atomic!Done
<1>7. Answer(p) = Atomic!None BY <1>1, AnswerIs
<1>8. Atomic!Acts(p, {call[p].op})
  BY <1>6, <1>7, OthersAnswers DEF Atomic!Acts
<1>9. CASE call[p].op = "append"
  BY <1>3, <1>4, <1>5, <1>8, <1>9 DEF Finished, Atomic!Append_
<1>10. CASE call[p].op = "load"
  BY <1>3, <1>4, <1>5, <1>8, <1>10, AtomicCardinality DEF Finished, Atomic!Load
<1>11. CASE call[p].op = "insert"
  BY <1>3, <1>4, <1>5, <1>8, <1>11, AtomicCardinality DEF Finished, Atomic!Insert
<1>12. CASE call[p].op = "delete"
  BY <1>3, <1>4, <1>5, <1>8, <1>12 DEF Finished, Atomic!Delete
<1> QED BY <1>1, <1>9, <1>10, <1>11, <1>12

(* clear_if_stale that finds the pool written in this boot acts, without   *)
(* effect; clear, and clear_if_stale of a stale pool, have yet to act.     *)
LEMMA ClearStepMaps ==
    ASSUME AllInv, AllInv', NEW p \in Proc, ClearStep(p)
    PROVE  UNCHANGED Atomic!vars \/ Atomic!NotStale(p)
<1>0. TypeOK /\ IInv /\ IInv' /\ Working(p) /\ LinkInv' BY Ground DEF AllInv, Working
<1>1. OthersRest(p) /\ call' = call BY <1>0, WorkingRests
<1>2. pc[p] = "locked" /\ pool' = pool /\ torn' = torn /\ call[p].op \in {"clear", "clear_if_stale"}
  BY DEF ClearStep, fileVars
<1>3. ~MidEdit(p) /\ ~MidEdit(p)' BY <1>1, <1>2 DEF MidEdit, Counted
<1>4. UNCHANGED <<CommittedPool, CommittedTorn>> BY <1>0, <1>1, <1>2, <1>3, CommittedStays
<1>5. Answer(p) = Atomic!None BY <1>2, AnswerIs
<1>6. CASE call[p].op = "clear" \/ is_stale
  <2>1. pc'[p] = "truncate" BY <1>0, <1>6 DEF ClearStep, Goto, TypeOK
  <2>2. Answer(p)' = Atomic!None BY <2>1, AnswerIsNext
  <2> QED BY <1>1, <1>4, <1>5, <2>2, Stutters
<1>7. CASE ~(call[p].op = "clear" \/ is_stale)
  <2>1. pc'[p] = "done" BY <1>0, <1>7 DEF ClearStep, Goto, TypeOK
  <2>2. acc'[p] = <<>> BY <1>0, <1>1, <1>2 DEF LinkInv
  <2>3. Answer(p)' = Atomic!Done BY <2>1, <2>2, AnswerIsNext DEF Atomic!Done
  <2>4. call[p].op = "clear_if_stale" BY <1>2, <1>7
  <2>5. Atomic!Acts(p, {"clear_if_stale"})
    BY <1>1, <1>5, <2>3, <2>4, OthersAnswers DEF Atomic!Acts
  <2> QED BY <1>4, <2>5 DEF Atomic!NotStale
<1> QED BY <1>6, <1>7

(* clear and clear_if_stale act when they cut the file to nothing. *)
LEMMA ClearMaps ==
    ASSUME AllInv, AllInv', NEW p \in Proc, Truncate(p), ~MidEdit(p)
    PROVE  Atomic!Clear(p)
<1>0. TypeOK /\ IInv /\ IInv' /\ Working(p) /\ Shape(p) /\ LinkInv' BY Ground DEF AllInv, Working
<1>1. OthersRest(p) /\ call' = call BY <1>0, WorkingRests
<1>2. pc[p] = "truncate" /\ pool' = <<>> /\ torn' = FALSE BY DEF Truncate, Touch
<1>3. call[p].op \in {"clear", "clear_if_stale"} /\ call[p].recs = <<>>
  BY <1>0, <1>2 DEF MidEdit, Counted, Inside, Writer, Shape
<1>4. pc'[p] = "done" BY <1>0, <1>3 DEF Truncate, Goto, TypeOK
<1>5. Inside(p)' /\ ~MidEdit(p)' BY <1>4 DEF Inside, MidEdit
<1>6. CommittedPool' = <<>> /\ CommittedTorn' = FALSE BY <1>0, <1>2, <1>5, NobodyElseNext
<1>7. acc'[p] = <<>> BY <1>0, <1>1, <1>3 DEF LinkInv
<1>8. Answer(p)' = Atomic!Done BY <1>4, <1>7, AnswerIsNext DEF Atomic!Done
<1>9. Answer(p) = Atomic!None BY <1>2, AnswerIs
<1>10. Atomic!Acts(p, {"clear", "clear_if_stale"})
  BY <1>1, <1>3, <1>8, <1>9, OthersAnswers DEF Atomic!Acts
<1> QED BY <1>6, <1>10 DEF Atomic!Clear

(* dump acts when it has read the last record: nobody wrote meanwhile. *)
LEMMA DumpMaps ==
    ASSUME AllInv, AllInv', NEW p \in Proc, ScanEnd(p), call[p].op = "dump"
    PROVE  Atomic!Dump(p)
<1>0. TypeOK /\ IInv /\ IInv' /\ Working(p) /\ LinkInv BY Ground DEF AllInv, Working
<1>1. OthersRest(p) /\ call' = call BY <1>0, WorkingRests
<1>2. /\ pc[p] = "scan" /\ pc'[p] = "done" /\ pool' = pool /\ torn' = torn
  BY <1>0 DEF ScanEnd, Goto, TypeOK, fileVars
<1>3. Counted(p) /\ Inside(p) /\ ~MidEdit(p) BY <1>2 DEF Counted, Inside, MidEdit, Writer
<1>4. Inside(p)' /\ Counted(p)' /\ ~MidEdit(p)' BY <1>1, <1>2 DEF Inside, Counted, MidEdit
<1>5. CommittedPool = pool /\ CommittedTorn = torn BY <1>0, <1>3, NobodyElse
<1>6. ~torn BY <1>0, <1>2, <1>3 DEF LinkInv
<1>7. UNCHANGED <<CommittedPool, CommittedTorn>>
  BY <1>0, <1>1, <1>2, <1>3, <1>4, CommittedStays
<1>8. acc'[p] = pool
  <2>1. acc' = acc /\ idx' = idx /\ cnt' = cnt BY DEF ScanEnd, iterVars
  <2>2. ReaderInv(p) /\ CursorInv(p) /\ idx[p] >= cnt[p] /\ idx[p] \in Nat /\ pool \in Seq(Slot)
    BY <1>0, Ground DEF ScanEnd
  <2>3. acc[p] = SubSeq(pool, 1, Len(pool))
    <3>1. cnt[p] = Len(pool) BY <1>3, <2>2 DEF CursorInv
    <3>2. idx[p] <= Len(pool) /\ acc[p] = SubSeq(pool, 1, idx[p])
      BY <1>3, <2>2 DEF ReaderInv
    <3>3. Len(pool) \in Nat BY <2>2
    <3>4. idx[p] = Len(pool) BY <2>2, <3>1, <3>2, <3>3
    <3> QED BY <3>2, <3>4
  <2>4. SubSeq(pool, 1, Len(pool)) = pool BY <2>2
  <2> QED BY <2>1, <2>3, <2>4
<1>9. Answer(p)' = [is |-> "ok", recs |-> CommittedPool] BY <1>2, <1>5, <1>8, AnswerIsNext
<1>10. Answer(p) = Atomic!None BY <1>2, AnswerIs
<1> QED
  BY <1>1, <1>5, <1>6, <1>7, <1>9, <1>10, OthersAnswers DEF Atomic!Dump

(* insert acts when it finds the pool full, having changed nothing. *)
LEMMA FullMaps ==
    ASSUME AllInv, AllInv', NEW p \in Proc, ScanEnd(p), pc'[p] = "full"
    PROVE  Atomic!InsertFull(p)
<1>0. TypeOK /\ IInv /\ IInv' /\ EditInv' /\ Working(p) /\ Shape(p)
  BY Ground DEF AllInv, Working
<1>1. OthersRest(p) /\ call' = call BY <1>0, WorkingRests
<1>2. /\ pc[p] = "scan" /\ pool' = pool /\ torn' = torn /\ hits' = hits /\ snap' = snap
  BY DEF ScanEnd, fileVars, iterVars
<1>3. call[p].op = "insert" /\ hits[p] = 0
  <2>1. ~(call[p].op # "insert" \/ hits[p] > 0) BY <1>0 DEF ScanEnd, Goto, TypeOK
  <2>2. hits[p] \in Nat BY <1>0 DEF TypeOK
  <2> QED BY <2>1, <2>2
<1>4. MidEdit(p) BY <1>2, <1>3 DEF MidEdit, Counted, Inside, Writer
<1>5. Inside(p)' /\ Counted(p)' /\ ~MidEdit(p)' BY <1>1, <1>3 DEF Inside, Counted, MidEdit
<1>6. /\ pool = snap[p] /\ Cardinality(Keys(pool)) >= MaxUniqueKeys
      /\ Keys(pool) \cap call[p].keys = {} /\ call[p].keys = {call[p].recs[1].key}
  <2>1. SearchInv(p)' /\ ArgsInv(p)' BY <1>0 DEF EditInv
  <2> QED BY <1>1, <1>2, <1>3, <1>5, <2>1 DEF SearchInv, ArgsInv, Keys
<1>7. CommittedPool = pool /\ CommittedTorn = FALSE BY <1>0, <1>4, <1>6, CommittedIs
<1>8. CommittedPool' = pool /\ CommittedTorn' = FALSE
  <2>1. CommittedPool' = pool' /\ CommittedTorn' = torn' BY <1>0, <1>5, NobodyElseNext
  <2>2. LinkInv' /\ torn' \in BOOLEAN BY <1>0 DEF AllInv, IInv, TypeOK
  <2>3. torn' = FALSE BY <1>5, <2>2 DEF LinkInv
  <2> QED BY <1>2, <2>1, <2>3
<1>9. Answer(p)' = Atomic!Full BY AnswerIsNext
<1>10. Answer(p) = Atomic!None BY <1>2, AnswerIs
<1>11. \A s : Atomic!KeysOf(s) = Keys(s) BY DEF Atomic!KeysOf, Keys
<1>12. /\ call[p].recs[1].key \notin Atomic!KeysOf(CommittedPool)
       /\ Atomic!Cardinality(Atomic!KeysOf(CommittedPool)) >= MaxUniqueKeys
  BY <1>6, <1>7, <1>11, AtomicCardinality
<1>13. [q \in Proc |-> Answer(q)]' = [[q \in Proc |-> Answer(q)] EXCEPT ![p] = Atomic!Full]
  BY <1>1, <1>9, OthersAnswers
<1> QED BY <1>1, <1>3, <1>7, <1>8, <1>10, <1>12, <1>13 DEF Atomic!InsertFull

-----------------------------------------------------------------------------
(* What an edit that is cut short has done. *)

LEMMA Prefixes ==
    ASSUME NEW S, NEW s \in Seq(S), NEW t \in Seq(S), NEW n \in 0..Len(t)
    PROVE  /\ Atomic!Prefix(SubSeq(t, 1, n), t)
           /\ Atomic!Prefix(s, s \o SubSeq(t, 1, n))
           /\ Atomic!Prefix(s \o SubSeq(t, 1, n), s \o t)
<1> DEFINE w == SubSeq(t, 1, n)
<1>1. /\ w \in Seq(S) /\ Len(w) = n /\ n \in Nat /\ n <= Len(t) /\ Len(t) \in Nat
      /\ Len(s) \in Nat /\ \A i \in 1..n : w[i] = t[i]
  BY PrefixIs
<1> HIDE DEF w
<1>2. /\ s \o w \in Seq(S) /\ Len(s \o w) = Len(s) + n
      /\ \A i \in 1..(Len(s) + n) : (s \o w)[i] = IF i <= Len(s) THEN s[i] ELSE w[i - Len(s)]
  BY <1>1, ConcatProperties
<1>3. /\ s \o t \in Seq(S) /\ Len(s \o t) = Len(s) + Len(t)
      /\ \A i \in 1..(Len(s) + Len(t)) :
              (s \o t)[i] = IF i <= Len(s) THEN s[i] ELSE t[i - Len(s)]
  BY <1>1
<1>4. Atomic!Prefix(w, t) BY <1>1 DEF Atomic!Prefix, w
<1>5. Atomic!Prefix(s, s \o w)
  <2> DEFINE u == SubSeq(s \o w, 1, Len(s))
  <2>1. Len(s) \in 0..Len(s \o w) BY <1>1, <1>2
  <2>2. u \in Seq(S) /\ Len(u) = Len(s) /\ \A i \in 1..Len(s) : u[i] = (s \o w)[i]
    BY <1>2, <2>1, PrefixIs
  <2> HIDE DEF u
  <2>3. \A i \in 1..Len(s) : u[i] = s[i] BY <1>1, <1>2, <2>2
  <2>4. u = s BY <2>2, <2>3, SeqEqual
  <2> QED BY <1>1, <1>2, <2>4 DEF Atomic!Prefix, u
<1>6. Atomic!Prefix(s \o w, s \o t)
  <2> DEFINE m == Len(s) + n
             u == SubSeq(s \o t, 1, m)
  <2>1. m \in 0..Len(s \o t) /\ m \in Nat BY <1>1, <1>3
  <2>2. u \in Seq(S) /\ Len(u) = m /\ \A i \in 1..m : u[i] = (s \o t)[i]
    BY <1>3, <2>1, PrefixIs
  <2> HIDE DEF u
  <2>3. ASSUME NEW i \in 1..m PROVE u[i] = (s \o w)[i]
    <3>1. CASE i <= Len(s) BY <1>1, <1>2, <1>3, <2>2, <3>1
    <3>2. CASE i > Len(s)
      <4>1. i - Len(s) \in 1..n /\ i \in 1..(Len(s) + Len(t)) BY <1>1, <3>2
      <4> QED BY <1>1, <1>2, <1>3, <2>2, <3>2, <4>1
    <3> QED BY <1>1, <3>1, <3>2
  <2>4. u = s \o w BY <1>2, <2>2, <2>3, SeqEqual
  <2> QED BY <1>1, <1>2, <1>3, <2>4 DEF Atomic!Prefix, u
<1> QED BY <1>4, <1>5, <1>6 DEF w

(* When an edit ends without an answer, the file holds what the atomic     *)
(* store allows of the call.                                               *)
LEMMA CutMaps ==
    ASSUME AllInv, NEW p \in Proc, MidEdit(p), CommittedPool' = pool, CommittedTorn' = torn
    PROVE  Atomic!Cut(call[p])
<1> DEFINE c == call[p]
           s == snap[p]
           w == SubSeq(c.recs, 1, hits[p])
<1>0. /\ IInv /\ EditInv /\ LinkInv /\ Shape(p) /\ pool \in Seq(Slot) /\ s \in Seq(Slot)
      /\ c.recs \in Seq(Record) /\ hits[p] \in Nat /\ torn \in BOOLEAN
  BY Ground DEF AllInv, TypeOK
<1>1. /\ Counted(p) /\ Writer(p) /\ pc[p] \notin {"done", "full"}
      /\ c.op \in {"append", "load", "insert", "delete"}
  BY DEF MidEdit, Counted, Writer
<1>2. CommittedPool = s /\ CommittedTorn = FALSE BY <1>0, CommittedIs
<1>3. ListInv(p) /\ KeptInv(p) /\ SearchInv(p) /\ ArgsInv(p) BY <1>0 DEF EditInv
<1>4. c.recs \in Seq(Slot) /\ Len(c.recs) \in Nat BY <1>0, RecordsAreSlots
<1>5. CASE c.op = "append"
  <2>1. pool = s \o w /\ pc[p] \in {"append", "appending"}
    BY <1>1, <1>3, <1>5 DEF ListInv
  <2>2. hits[p] \in 0..Len(c.recs) BY <1>0, <1>4, <2>1 DEF Shape
  <2>3. Atomic!Prefix(s, pool) /\ Atomic!Prefix(pool, s \o c.recs)
    BY <1>0, <1>4, <2>1, <2>2, Prefixes
  <2> HIDE DEF c, s
  <2>4. Atomic!AppendCut(c)
    BY <1>0, <1>2, <2>3 DEF Atomic!AppendCut
  <2> QED BY <1>5, <2>4 DEF Atomic!Cut, c
<1>6. CASE c.op = "load"
  <2>1. CASE pc[p] = "truncate"
    <3>1. pool = s /\ torn = FALSE
      <4>1. pool = s BY <1>1, <1>3, <1>6, <2>1 DEF ListInv
      <4>2. torn = FALSE BY <1>0, <1>1, <2>1 DEF LinkInv
      <4> QED BY <4>1, <4>2
    <3>2. Atomic!Unharmed BY <1>2, <3>1 DEF Atomic!Unharmed
    <3> QED BY <3>2 DEF Atomic!Cut
  <2>2. CASE pc[p] # "truncate"
    <3>1. pool = w /\ pc[p] \in {"append", "appending"}
      BY <1>1, <1>3, <1>6, <2>2 DEF ListInv
    <3>2. hits[p] \in 0..Len(c.recs) BY <1>0, <1>4, <3>1 DEF Shape
    <3>3. Atomic!Prefix(pool, c.recs) BY <1>0, <1>4, <3>1, <3>2, Prefixes
    <3>4. Atomic!Cardinality(Atomic!KeysOf(c.recs)) <= MaxUniqueKeys
      <4>1. Atomic!KeysOf(c.recs) = Keys(c.recs) BY DEF Atomic!KeysOf, Keys
      <4>2. Cardinality(Keys(c.recs)) <= MaxUniqueKeys BY <1>3, <1>6 DEF ArgsInv
      <4> QED BY <4>1, <4>2, AtomicCardinality
    <3> HIDE DEF c, s
    <3>5. Atomic!LoadCut(c) BY <1>0, <1>2, <3>3, <3>4 DEF Atomic!LoadCut
    <3> QED BY <1>6, <3>5 DEF Atomic!Cut, c
  <2> QED BY <2>1, <2>2
<1>7. CASE c.op \in Editing
  <2>1. Atomic!KeepsOthers(c.keys, s, pool) BY <1>0, <1>1, <1>7, EditKeepsOthers
  <2>2. Len(pool) <= Len(s)
    <3>1. CASE c.op = "insert" BY <1>1, <1>3, <3>1 DEF KeptInv
    <3>2. CASE c.op = "delete"
      <4>1. Len(pool) + hits[p] = Len(s) BY <1>1, <1>3, <3>2 DEF KeptInv
      <4> QED BY <1>0, <4>1, LenProperties
    <3> QED BY <1>7, <3>1, <3>2
  <2>3. torn => pool = s
    <3> SUFFICES ASSUME torn PROVE pool = s
      OBVIOUS
    <3>1. pc[p] = "appending" BY <1>0, <1>1 DEF LinkInv
    <3>2. c.op = "insert" BY <1>0, <1>7, <3>1 DEF Shape
    <3>3. hits[p] = 0
      <4>1. hits[p] < Len(c.recs) /\ Len(c.recs) = 1 BY <1>0, <3>1, <3>2 DEF Shape
      <4> QED BY <1>0, <4>1
    <3> QED BY <1>1, <1>3, <3>1, <3>2, <3>3 DEF SearchInv
  <2> HIDE DEF c, s
  <2>4. Atomic!EditCut(c) BY <1>0, <1>2, <2>1, <2>2, <2>3 DEF Atomic!EditCut
  <2> QED BY <1>7, <2>4 DEF Atomic!Cut, c
<1> QED BY <1>1, <1>5, <1>6, <1>7

(* The descriptor is closed: after an answer nothing changes; a call       *)
(* without one has failed.                                                 *)
LEMMA CloseMaps ==
    ASSUME AllInv, AllInv', NEW p \in Proc, Close(p), pc[p] # "idle"
    PROVE  Atomic!Return(p)
<1>0. TypeOK /\ IInv /\ IInv' /\ Shape(p) BY Ground DEF AllInv
<1>1. /\ pc'[p] = "idle" /\ pool' = pool /\ torn' = torn /\ OthersRest(p)
      /\ call' = [call EXCEPT ![p] = NoCall]
  BY <1>0 DEF Close, TypeOK, OthersRest, fileVars
<1>2. ~MidEdit(p)' BY <1>1 DEF MidEdit, Counted, Inside
<1>3. call[p] # Atomic!NoCall BY <1>0 DEF Shape, Atomic!NoCall
<1>4. [q \in Proc |-> Answer(q)]' = [[q \in Proc |-> Answer(q)] EXCEPT ![p] = Atomic!None]
  BY <1>1, AnswerIsNext, OthersAnswers
<1>5. IF Answer(p) = Atomic!None THEN Atomic!Cut(call[p]) ELSE Atomic!Unharmed
  <2>1. CASE MidEdit(p)
    <3>1. Inside(p) /\ pc[p] \notin {"done", "full"} BY <2>1 DEF MidEdit, Counted
    <3>2. \A q \in Proc : ~MidEdit(q)'
      BY <1>0, <1>1, <1>2, <3>1, OthersAnswers, MidEditAlone
    <3>3. CommittedPool' = pool /\ CommittedTorn' = torn
      BY <1>0, <1>1, <3>2, CommittedIsNext
    <3>4. Atomic!Cut(call[p]) BY <2>1, <3>3, CutMaps
    <3> QED BY <3>1, <3>4, AnswerIs
  <2>2. CASE ~MidEdit(p)
    <3>1. UNCHANGED <<CommittedPool, CommittedTorn>>
      BY <1>0, <1>1, <1>2, <2>2, CommittedStays
    <3>2. Atomic!Unharmed BY <3>1 DEF Atomic!Unharmed
    <3> QED BY <3>2 DEF Atomic!Cut
  <2> QED BY <2>1, <2>2
<1> QED BY <1>1, <1>3, <1>4, <1>5 DEF Atomic!Return, Atomic!NoCall, NoCall

(* Of the processes that a restart kills one at most was editing. *)
LEMMA RebootMaps ==
    ASSUME AllInv, AllInv', Reboot
    PROVE  Atomic!Reboot
<1>0. IInv /\ IInv' BY DEF AllInv
<1>1. /\ pool' = pool /\ torn' = torn /\ pc' = [p \in Proc |-> "idle"]
      /\ call' = [p \in Proc |-> NoCall]
  BY DEF Reboot
<1>2. \A p \in Proc : ~MidEdit(p)' BY <1>1 DEF MidEdit, Counted, Inside
<1>3. CommittedPool' = pool /\ CommittedTorn' = torn BY <1>0, <1>1, <1>2, CommittedIsNext
<1>4. [p \in Proc |-> Answer(p)]' = [p \in Proc |-> Atomic!None]
  <2>1. \A p \in Proc : Answer(p)' = Atomic!None BY <1>1, AnswerIsNext
  <2> QED BY <2>1
<1>5. Atomic!Unharmed \/ \E p \in Proc : Answer(p) = Atomic!None /\ Atomic!Cut(call[p])
  <2>1. CASE \E p \in Proc : MidEdit(p)
    <3>1. PICK p \in Proc : MidEdit(p) BY <2>1
    <3>2. Answer(p) = Atomic!None BY <3>1, AnswerIs DEF MidEdit
    <3> QED BY <1>3, <3>1, <3>2, CutMaps
  <2>2. CASE \A p \in Proc : ~MidEdit(p)
    BY <1>0, <1>3, <2>2, CommittedIs DEF Atomic!Unharmed
  <2> QED BY <2>1, <2>2
<1> QED BY <1>1, <1>4, <1>5 DEF Atomic!Reboot, Atomic!NoCall, NoCall

(* cloud-init appends when no operation of the store is inside. *)
LEMMA ForeignMaps ==
    ASSUME AllInv, AllInv', NEW c \in CloudInit, CloudInitAppend(c)
    PROVE  Atomic!ForeignAppend
<1>0. IInv /\ IInv' BY DEF AllInv
<1>1. /\ \E r \in Record : pool' = Append(pool, r)
      /\ torn' = torn /\ UNCHANGED <<pc, call, iterVars>>
  BY DEF CloudInitAppend, Touch
<1>2. \A q \in Proc : ~MidEdit(q) /\ ~MidEdit(q)'
  BY <1>0, <1>1, AppenderAlone DEF MidEdit, Counted, Inside
<1>3. /\ CommittedPool = pool /\ CommittedTorn = torn
      /\ CommittedPool' = pool' /\ CommittedTorn' = torn'
  BY <1>0, <1>2, CommittedIs, CommittedIsNext
<1>4. [p \in Proc |-> Answer(p)]' = [p \in Proc |-> Answer(p)]
  BY <1>1 DEF Answer, iterVars
<1> QED BY <1>1, <1>3, <1>4 DEF Atomic!ForeignAppend, Atomic!Record, Record

(* What leaves the records and the operations alone is not seen. *)
LEMMA RestMaps ==
    ASSUME UNCHANGED <<pool, torn, pc, call, iterVars>>
    PROVE  UNCHANGED Atomic!vars
<1> USE DEF iterVars
<1>1. CommittedPool' = CommittedPool BY DEF CommittedPool, MidEdit, Counted, Inside, Writer
<1>2. CommittedTorn' = CommittedTorn BY DEF CommittedTorn, MidEdit, Counted, Inside, Writer
<1>3. [p \in Proc |-> Answer(p)]' = [p \in Proc |-> Answer(p)] BY DEF Answer
<1> QED BY <1>1, <1>2, <1>3 DEF Atomic!vars

(* A step of an operation that has its locks. *)
LEMMA WorkingMaps ==
    ASSUME AllInv, AllInv', NEW p \in Proc, Working(p)
    PROVE  [Atomic!Next]_Atomic!vars
<1>0. TypeOK /\ IInv /\ Shape(p) /\ Inside(p) /\ call[p] \in Call
  BY Ground, WorkingFrame DEF AllInv
<1>1. OthersRest(p) /\ call' = call BY <1>0, WorkingRests
<1>2. CASE pc[p] = "locked"
  <2>1. IterNew(p) \/ ClearStep(p)
    BY <1>2 DEF Working, Truncate, ReadNext, ScanEnd, OverwriteStart, OverwriteEnd, SwapStart,
                SwapEnd, Shrink, AppendStart, AppendEnd
  <2> QED BY <2>1, IterNewMaps, ClearStepMaps DEF Atomic!Next
<1>3. CASE pc[p] # "locked" /\ pc'[p] \notin {"done", "full"}
  BY <1>3, MiddleMaps
<1>4. CASE pc[p] # "locked" /\ pc'[p] = "done" /\ MidEdit(p)
  <2>1. snap'[p] = snap[p]
    BY <1>4 DEF Working, IterNew, ClearStep, Truncate, ReadNext, ScanEnd, OverwriteStart,
       OverwriteEnd, SwapStart, SwapEnd, Shrink, AppendStart, AppendEnd, iterVars
  <2> QED BY <1>1, <1>4, <2>1, FinishMaps DEF Atomic!Next
<1>5. CASE pc[p] # "locked" /\ pc'[p] = "done" /\ ~MidEdit(p)
  <2>1. pc[p] \notin {"done", "full"}
    BY DEF Working, IterNew, ClearStep, Truncate, ReadNext, ScanEnd, OverwriteStart,
       OverwriteEnd, SwapStart, SwapEnd, Shrink, AppendStart, AppendEnd
  <2>2. call[p].op \in {"dump", "clear", "clear_if_stale"}
    <3>1. call[p].op # "none" BY <1>0 DEF Shape, Inside
    <3> QED BY <1>0, <1>5, <2>1, <3>1 DEF MidEdit, Counted, Writer, Call
  <2>3. pc[p] \in {"scan", "truncate"}
    BY <1>0, <1>5, <2>2 DEF Working, IterNew, ClearStep, Truncate, ReadNext, ScanEnd,
       OverwriteStart, OverwriteEnd, SwapStart, SwapEnd, Shrink, AppendStart, AppendEnd, Shape
  <2>4. Truncate(p) \/ ReadNext(p) \/ ScanEnd(p)
    BY <2>3 DEF Working, IterNew, ClearStep, OverwriteStart, OverwriteEnd, SwapStart, SwapEnd,
       Shrink, AppendStart, AppendEnd
  <2>5. ~ReadNext(p)
    BY <1>0, <1>5 DEF ReadNext, Goto, TypeOK
  <2>6. CASE Truncate(p) BY <1>5, <2>6, ClearMaps DEF Atomic!Next
  <2>7. CASE ScanEnd(p)
    <3>1. call[p].op = "dump" BY <1>0, <2>2, <2>7 DEF ScanEnd, Shape
    <3> QED BY <2>7, <3>1, DumpMaps DEF Atomic!Next
  <2> QED BY <2>4, <2>5, <2>6, <2>7
<1>6. CASE pc[p] # "locked" /\ pc'[p] = "full"
  <2>1. ScanEnd(p)
    BY <1>0, <1>6 DEF Working, IterNew, ClearStep, Truncate, ReadNext, OverwriteStart,
       OverwriteEnd, SwapStart, SwapEnd, Shrink, AppendStart, AppendEnd, Goto, TypeOK
  <2> QED BY <1>6, <2>1, FullMaps DEF Atomic!Next
<1> QED BY <1>2, <1>3, <1>4, <1>5, <1>6

LEMMA StepMaps ==
    ASSUME AllInv, AllInv', [Next]_vars
    PROVE  [Atomic!Next]_Atomic!vars
<1> USE DEF fileVars
<1>1. ASSUME NEW p \in Proc, Invoke(p) PROVE Atomic!Next
  BY <1>1, InvokeMaps DEF Atomic!Next
<1>2. ASSUME NEW p \in Proc, Step(p) PROVE [Atomic!Next]_Atomic!vars
  <2>1. CASE FlockStep(p) \/ FcntlStep(p) BY <2>1, LockMaps
  <2>2. CASE Working(p) BY <2>2, WorkingMaps
  <2>3. CASE BadFraming(p) \/ Return(p)
    <3>1. Close(p) /\ pc[p] # "idle" BY <2>3 DEF BadFraming, Return
    <3> QED BY <3>1, CloseMaps DEF Atomic!Next
  <2> QED BY <1>2, <2>1, <2>2, <2>3 DEF Step, Working
<1>3. ASSUME NEW p \in Proc, Fail(p) PROVE Atomic!Next
  BY <1>3, CloseMaps DEF Fail, Atomic!Next
<1>4. ASSUME NEW d \in Daemon, DaemonLock(d) \/ DaemonUnlock(d) PROVE UNCHANGED Atomic!vars
  BY <1>4, RestMaps DEF DaemonLock, DaemonUnlock
<1>5. ASSUME NEW c \in CloudInit, CloudInitLock(c) PROVE UNCHANGED Atomic!vars
  BY <1>5, RestMaps DEF CloudInitLock
<1>6. ASSUME NEW c \in CloudInit, CloudInitAppend(c) PROVE Atomic!Next
  BY <1>6, ForeignMaps DEF Atomic!Next
<1>7. CASE Tick BY <1>7, RestMaps DEF Tick
<1>8. CASE Reboot BY <1>8, RebootMaps DEF Atomic!Next
<1>9. CASE UNCHANGED vars BY <1>9, RestMaps DEF vars
<1> QED BY <1>1, <1>2, <1>3, <1>4, <1>5, <1>6, <1>7, <1>8, <1>9 DEF Next

LEMMA InitMaps == Init => Atomic!Init
BY DEF Init, Atomic!Init, Atomic!NoCall, NoCall, Atomic!None, Answer, CommittedPool,
       CommittedTorn, MidEdit, Counted, Inside

(* The step-by-step store implements the atomic one: every operation acts  *)
(* at one instant while it has its locks, whatever other operations,       *)
(* hv_kvp_daemon and cloud-init do meanwhile, and one that fails or is     *)
(* killed between two system calls leaves what the atomic store allows.    *)
THEOREM StoreIsAtomic == Spec => ImplementsAtomicStore
<1>1. AllInv /\ AllInv' /\ [Next]_vars => [Atomic!Next]_Atomic!vars BY StepMaps
<1>2. Spec => []AllInv
  BY InductiveInvariant, EditInvariant, LinkInvariant, PTL DEF AllInv
<1> QED BY <1>1, <1>2, InitMaps, PTL DEF Spec, ImplementsAtomicStore, Atomic!Spec
=============================================================================
