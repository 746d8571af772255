------------------------------ MODULE KvpStore ------------------------------
(***************************************************************************)
(* KvpPoolStore (libazureinit-kvp/src/store.rs): one Hyper-V pool file of  *)
(* fixed-size key/value records that several processes read and edit in    *)
(* place.  Every operation opens the file, takes flock and then an fcntl   *)
(* OFD lock, checks that the length is a whole number of records, walks    *)
(* the records with a cursor, and drops both locks when the descriptor     *)
(* closes.                                                                 *)
(*                                                                         *)
(* One action is one system call that other processes can observe.  A      *)
(* write is two actions, because write_all may be cut short: the bytes are *)
(* first half written, then complete.  Fail stops an operation between any *)
(* two actions (an I/O error returned with `?`, a record that is not UTF-8 *)
(* or the death of the process): what is in the file stays there.          *)
(*                                                                         *)
(* Two other programs share the file and take only one of the locks:       *)
(* hv_kvp_daemon (fcntl) and cloud-init (flock).                           *)
(***************************************************************************)
EXTENDS Naturals, Sequences, FiniteSets

CONSTANTS
    Proc,           \* processes that use KvpPoolStore
    Daemon,         \* readers that lock with fcntl only (hv_kvp_daemon)
    CloudInit,      \* appenders that lock with flock only (cloud-init)
    Key, Value,     \* valid keys and values
    Mixed,          \* the text of a field of which only a part was written
    MaxUniqueKeys,  \* MAX_UNIQUE_KEYS
    InitialPools,   \* what earlier runs may have left in the file
    Batches,        \* record lists given to append_multiple and load
    MaxCalls,       \* bound: calls made in a behaviour
    MaxTime         \* bound: the last second of the clock; 0 for no reboots

Record == [key : Key, value : Value]

ASSUME ActorsDisjoint ==
    /\ Proc \cap Daemon = {}
    /\ Proc \cap CloudInit = {}
    /\ Daemon \cap CloudInit = {}

ASSUME MixedIsNew == Mixed \notin Key \cup Value

ASSUME LimitAssumption == MaxUniqueKeys \in Nat \ {0}

ASSUME PoolsAreRecords ==
    /\ InitialPools \subseteq Seq(Record)
    /\ Batches \subseteq Seq(Record)

ASSUME BoundsAreNat == MaxCalls \in Nat /\ MaxTime \in Nat

VARIABLES
    \* the pool file
    exists,     \* the file is there
    pool,       \* its whole records
    torn,       \* it ends in a part of a record
    mtime,      \* second of its last modification
    \* the machine
    now,        \* the wall clock, in seconds
    boot,       \* btime of /proc/stat
    flock,      \* flock(2) mode each actor holds
    fcntl,      \* fcntl(2) mode each actor holds
    \* the operation each process is in
    pc, call,
    idx,        \* KvpPoolIter.current_index
    cnt,        \* KvpPoolIter.record_count
    hits,       \* records matched, removed or appended so far
    uniq,       \* insert's unique_keys
    acc,        \* records a reading operation has collected
    \* bound and history
    calls,      \* calls made so far
    snap,       \* pool when the operation had its locks
    fresh       \* the file was written since the machine booted

fileVars  == <<exists, pool, torn, mtime, fresh>>
clockVars == <<now, boot>>
lockVars  == <<flock, fcntl>>
iterVars  == <<idx, cnt, hits, uniq, acc, snap>>
vars == <<fileVars, clockVars, lockVars, pc, call, iterVars, calls>>

Actor == Proc \cup Daemon \cup CloudInit

-----------------------------------------------------------------------------
(* Operations and their arguments.  read and entries walk the file as dump *)
(* does and keep the last value of one key, of every key.                  *)

Reading  == {"dump"}
Editing  == {"insert", "delete"}
Writing  == Editing \cup {"append", "load", "clear", "clear_if_stale"}
Op       == Reading \cup Writing

NoCall == [op |-> "none", keys |-> {}, recs |-> <<>>]

Call == [op : Op \cup {"none"}, keys : SUBSET Key, recs : Seq(Record)]

Keys(s) == {s[i].key : i \in DOMAIN s}

(* Mutation: the comparison of kvp.md. *)
is_stale_Strict == mtime < boot

(* is_stale and the test of clear_if_stale. *)
is_stale == mtime <= boot

-----------------------------------------------------------------------------
Init ==
    /\ pool \in InitialPools
    /\ exists \in BOOLEAN
    /\ ~exists => pool = <<>>
    /\ torn = FALSE /\ mtime = 0 /\ fresh = FALSE
    /\ now = 1 /\ boot = 1
    /\ flock = [a \in Actor |-> "free"]
    /\ fcntl = [a \in Actor |-> "free"]
    /\ pc = [p \in Proc |-> "idle"]
    /\ call = [p \in Proc |-> NoCall]
    /\ idx = [p \in Proc |-> 0]
    /\ cnt = [p \in Proc |-> 0]
    /\ hits = [p \in Proc |-> 0]
    /\ uniq = [p \in Proc |-> {}]
    /\ acc = [p \in Proc |-> <<>>]
    /\ snap = [p \in Proc |-> <<>>]
    /\ calls = 0

-----------------------------------------------------------------------------
(* Calling an operation: arguments are validated, the file is opened. *)

Start(p, op, keys, recs) ==
    /\ pc[p] = "idle" /\ calls < MaxCalls
    /\ calls' = calls + 1
    /\ pc' = [pc EXCEPT ![p] = "flock"]
    /\ call' = [call EXCEPT ![p] = [op |-> op, keys |-> keys, recs |-> recs]]
    /\ UNCHANGED <<clockVars, lockVars, iterVars>>

(* open_for_read_write_create: creating the file stamps its mtime. *)
OpenCreate ==
    /\ exists' = TRUE
    /\ mtime' = IF exists THEN mtime ELSE now
    /\ fresh' = (fresh \/ ~exists)
    /\ UNCHANGED <<pool, torn>>

(* open_for_read and open_for_read_write: with no file the operation  *)
(* returns its empty answer and changes nothing.                      *)
OpenExisting == exists /\ UNCHANGED fileVars

append(p) ==
    \E r \in Record : Start(p, "append", {}, <<r>>) /\ OpenCreate

append_multiple(p) ==
    \E b \in Batches \ {<<>>} : Start(p, "append", {}, b) /\ OpenCreate

(* load refuses more than MAX_UNIQUE_KEYS distinct keys before it opens. *)
load(p) ==
    \E b \in Batches :
        /\ Cardinality(Keys(b)) <= MaxUniqueKeys
        /\ Start(p, "load", {}, b)
        /\ OpenCreate

insert(p) ==
    \E r \in Record : Start(p, "insert", {r.key}, <<r>>) /\ OpenCreate

delete(p) ==
    \E k \in Key : Start(p, "delete", {k}, <<>>) /\ OpenExisting

delete_multiple(p) ==
    \E ks \in SUBSET Key \ {{}} : Start(p, "delete", ks, <<>>) /\ OpenExisting

clear(p) == Start(p, "clear", {}, <<>>) /\ OpenExisting

clear_if_stale(p) == Start(p, "clear_if_stale", {}, <<>>) /\ OpenExisting

dump(p) == Start(p, "dump", {}, <<>>) /\ OpenExisting

-----------------------------------------------------------------------------
(* Locking. *)

Mode(p) == IF call[p].op \in Reading THEN "sh" ELSE "ex"

(* The kernel grants a mode when no other descriptor holds one it *)
(* conflicts with; otherwise the caller sleeps.                   *)
CanLock(table, a, mode) ==
    \A b \in Actor \ {a} :
        table[b] = "free" \/ (mode = "sh" /\ table[b] = "sh")

(* Mutation: readers rely on fcntl alone. *)
FlockStep_WritersOnly(p) ==
    /\ pc[p] = "flock"
    /\ CanLock(flock, p, Mode(p))
    /\ flock' = IF Mode(p) = "ex" THEN [flock EXCEPT ![p] = "ex"] ELSE flock
    /\ pc' = [pc EXCEPT ![p] = "fcntl"]
    /\ UNCHANGED <<fileVars, clockVars, fcntl, call, iterVars, calls>>


FlockStep(p) ==
    /\ pc[p] = "flock"
    /\ CanLock(flock, p, Mode(p))
    /\ flock' = [flock EXCEPT ![p] = Mode(p)]
    /\ pc' = [pc EXCEPT ![p] = "fcntl"]
    /\ UNCHANGED <<fileVars, clockVars, fcntl, call, iterVars, calls>>

(* Mutation: flock is thought to be enough. *)
FcntlStep_Skipped(p) ==
    /\ pc[p] = "fcntl"
    /\ pc' = [pc EXCEPT ![p] = "locked"]
    /\ UNCHANGED <<fileVars, clockVars, lockVars, call, iterVars, calls>>


FcntlStep(p) ==
    /\ pc[p] = "fcntl"
    /\ CanLock(fcntl, p, Mode(p))
    /\ fcntl' = [fcntl EXCEPT ![p] = Mode(p)]
    /\ pc' = [pc EXCEPT ![p] = "locked"]
    /\ UNCHANGED <<fileVars, clockVars, flock, call, iterVars, calls>>

(* Mutation: the flock outlives the operation. *)
Close_LeaksFlock(p) ==
    /\ pc' = [pc EXCEPT ![p] = "idle"]
    /\ call' = [call EXCEPT ![p] = NoCall]
    /\ fcntl' = [fcntl EXCEPT ![p] = "free"]
    /\ idx' = [idx EXCEPT ![p] = 0]
    /\ cnt' = [cnt EXCEPT ![p] = 0]
    /\ hits' = [hits EXCEPT ![p] = 0]
    /\ uniq' = [uniq EXCEPT ![p] = {}]
    /\ acc' = [acc EXCEPT ![p] = <<>>]
    /\ snap' = [snap EXCEPT ![p] = <<>>]
    /\ UNCHANGED <<flock, fileVars, clockVars, calls>>

(* Closing the descriptor drops both locks; the iterator is gone. *)
Close(p) ==
    /\ pc' = [pc EXCEPT ![p] = "idle"]
    /\ call' = [call EXCEPT ![p] = NoCall]
    /\ flock' = [flock EXCEPT ![p] = "free"]
    /\ fcntl' = [fcntl EXCEPT ![p] = "free"]
    /\ idx' = [idx EXCEPT ![p] = 0]
    /\ cnt' = [cnt EXCEPT ![p] = 0]
    /\ hits' = [hits EXCEPT ![p] = 0]
    /\ uniq' = [uniq EXCEPT ![p] = {}]
    /\ acc' = [acc EXCEPT ![p] = <<>>]
    /\ snap' = [snap EXCEPT ![p] = <<>>]
    /\ UNCHANGED <<fileVars, clockVars, calls>>

-----------------------------------------------------------------------------
(* Under the locks. *)

Goto(p, label) ==
    /\ pc' = [pc EXCEPT ![p] = label]
    /\ UNCHANGED <<call, lockVars, clockVars, calls>>

Touch(newPool, newTorn) ==
    /\ pool' = newPool /\ torn' = newTorn
    /\ mtime' = now /\ fresh' = TRUE
    /\ UNCHANGED exists

(* Where the operation goes on once it has its iterator. *)
AfterNew(op) ==
    IF op = "append" THEN "append" ELSE IF op = "load" THEN "truncate" ELSE "scan"

(* Mutations: the last record is left out; the framing is not checked. *)
IterNew_ShortCount(p) ==
    /\ pc[p] = "locked"
    /\ call[p].op \notin {"clear", "clear_if_stale"}
    /\ ~torn
    /\ cnt' = [cnt EXCEPT ![p] = Len(pool) - 1]
    /\ snap' = [snap EXCEPT ![p] = pool]
    /\ Goto(p, AfterNew(call[p].op))
    /\ UNCHANGED <<fileVars, idx, hits, uniq, acc>>

IterNew_Unframed(p) ==
    /\ pc[p] = "locked"
    /\ call[p].op \notin {"clear", "clear_if_stale"}
    /\ cnt' = [cnt EXCEPT ![p] = Len(pool)]
    /\ snap' = [snap EXCEPT ![p] = pool]
    /\ Goto(p, AfterNew(call[p].op))
    /\ UNCHANGED <<fileVars, idx, hits, uniq, acc>>

(* KvpPoolIter::new after locking: the record count, or an error when the *)
(* file does not hold whole records.                                      *)
IterNew(p) ==
    /\ pc[p] = "locked"
    /\ call[p].op \notin {"clear", "clear_if_stale"}
    /\ ~torn
    /\ cnt' = [cnt EXCEPT ![p] = Len(pool)]
    /\ snap' = [snap EXCEPT ![p] = pool]
    /\ Goto(p, AfterNew(call[p].op))
    /\ UNCHANGED <<fileVars, idx, hits, uniq, acc>>

BadFraming(p) ==
    /\ pc[p] = "locked"
    /\ call[p].op \notin {"clear", "clear_if_stale"}
    /\ torn
    /\ Close(p)

(* clear truncates whatever is there; clear_if_stale looks at mtime first. *)
ClearStep(p) ==
    /\ pc[p] = "locked"
    /\ call[p].op \in {"clear", "clear_if_stale"}
    /\ snap' = [snap EXCEPT ![p] = pool]
    /\ Goto(p, IF call[p].op = "clear" \/ is_stale THEN "truncate" ELSE "done")
    /\ UNCHANGED <<fileVars, idx, cnt, hits, uniq, acc>>

(* Mutations: load keeps the old count; a torn tail survives. *)
Truncate_KeepsCount(p) ==
    /\ pc[p] = "truncate"
    /\ Touch(<<>>, FALSE)
    /\ Goto(p, IF call[p].recs = <<>> THEN "done" ELSE "append")
    /\ UNCHANGED iterVars

Truncate_KeepsTail(p) ==
    /\ pc[p] = "truncate"
    /\ Touch(<<>>, torn)
    /\ cnt' = [cnt EXCEPT ![p] = 0]
    /\ Goto(p, IF call[p].recs = <<>> THEN "done" ELSE "append")
    /\ UNCHANGED <<idx, hits, uniq, acc, snap>>

(* set_len(0): clear, clear_if_stale and the replacement of load. *)
Truncate(p) ==
    /\ pc[p] = "truncate"
    /\ Touch(<<>>, FALSE)
    /\ cnt' = [cnt EXCEPT ![p] = 0]
    /\ Goto(p, IF call[p].recs = <<>> THEN "done" ELSE "append")
    /\ UNCHANGED <<idx, hits, uniq, acc, snap>>

(* KvpPoolIter::next and the body of the loop that called it. *)
ReadNext(p) ==
    LET r   == pool[idx[p] + 1]
        op  == call[p].op
        hit == op \in Editing /\ r.key \in call[p].keys
    IN  /\ pc[p] = "scan" /\ idx[p] < cnt[p] /\ idx[p] < Len(pool)
        /\ idx' = [idx EXCEPT ![p] = @ + 1]
        /\ acc' = IF op \in Reading THEN [acc EXCEPT ![p] = Append(@, r)] ELSE acc
        /\ uniq' = IF op = "insert" THEN [uniq EXCEPT ![p] = @ \cup {r.key}] ELSE uniq
        /\ Goto(p, IF ~hit THEN "scan"
                   ELSE IF op = "insert" /\ hits[p] = 0 THEN "overwrite"
                   ELSE "remove")
        /\ UNCHANGED <<fileVars, cnt, hits, snap>>

(* Mutation: the cursor must be at the end. *)
ScanEnd_Exact(p) ==
    /\ pc[p] = "scan" /\ idx[p] = cnt[p]
    /\ Goto(p, IF call[p].op # "insert" \/ hits[p] > 0 THEN "done"
               ELSE IF Cardinality(uniq[p]) >= MaxUniqueKeys THEN "full"
               ELSE "append")
    /\ UNCHANGED <<fileVars, iterVars>>

(* The iterator is exhausted. *)
ScanEnd(p) ==
    /\ pc[p] = "scan" /\ idx[p] >= cnt[p]
    /\ Goto(p, IF call[p].op # "insert" \/ hits[p] > 0 THEN "done"
               ELSE IF Cardinality(uniq[p]) >= MaxUniqueKeys THEN "full"
               ELSE "append")
    /\ UNCHANGED <<fileVars, iterVars>>

(* The file with v in the value field of slot i. *)
SetValue(i, v) == [pool EXCEPT ![i] = [key |-> pool[i].key, value |-> v]]

(* overwrite_current_value: only the value field of the slot is written. *)
OverwriteStart(p) ==
    /\ pc[p] = "overwrite"
    /\ Touch(SetValue(idx[p], Mixed), torn)
    /\ Goto(p, "overwriting")
    /\ UNCHANGED iterVars

OverwriteEnd(p) ==
    /\ pc[p] = "overwriting"
    /\ Touch(SetValue(idx[p], call[p].recs[1].value), torn)
    /\ hits' = [hits EXCEPT ![p] = @ + 1]
    /\ Goto(p, "scan")
    /\ UNCHANGED <<idx, cnt, uniq, acc, snap>>

(* remove_current when the record is not the last one: the last record is *)
(* copied over it and the cursor steps back to read the copy.  The copy   *)
(* may be cut short in its key or in its value.                           *)
SwapStart(p) ==
    /\ pc[p] = "remove" /\ idx[p] # cnt[p]
    /\ \E half \in {[key |-> Mixed, value |-> pool[idx[p]].value],
                    [key |-> pool[cnt[p]].key, value |-> Mixed]} :
            Touch([pool EXCEPT ![idx[p]] = half], torn)
    /\ Goto(p, "swapping")
    /\ UNCHANGED iterVars

(* Mutation: the copy is not read again. *)
SwapEnd_NoRewind(p) ==
    /\ pc[p] = "swapping"
    /\ Touch([pool EXCEPT ![idx[p]] = pool[cnt[p]]], torn)
    /\ Goto(p, "shrink")
    /\ UNCHANGED iterVars

SwapEnd(p) ==
    /\ pc[p] = "swapping"
    /\ Touch([pool EXCEPT ![idx[p]] = pool[cnt[p]]], torn)
    /\ idx' = [idx EXCEPT ![p] = @ - 1]
    /\ Goto(p, "shrink")
    /\ UNCHANGED <<cnt, hits, uniq, acc, snap>>

(* Mutation: the file is shortened before the last record is copied. *)
Shrink_First(p) ==
    /\ pc[p] \in {"shrink", "remove"}
    /\ Touch(SubSeq(pool, 1, cnt[p] - 1), torn)
    /\ cnt' = [cnt EXCEPT ![p] = @ - 1]
    /\ hits' = [hits EXCEPT ![p] = @ + 1]
    /\ Goto(p, "scan")
    /\ UNCHANGED <<idx, uniq, acc, snap>>

(* The set_len of remove_current, at once for the last record.  Without a *)
(* swap the cursor stays where it was, past the new end.                  *)
Shrink(p) ==
    /\ \/ pc[p] = "shrink"
       \/ pc[p] = "remove" /\ idx[p] = cnt[p]
    /\ Touch(SubSeq(pool, 1, cnt[p] - 1), torn)
    /\ cnt' = [cnt EXCEPT ![p] = @ - 1]
    /\ hits' = [hits EXCEPT ![p] = @ + 1]
    /\ Goto(p, "scan")
    /\ UNCHANGED <<idx, uniq, acc, snap>>

(* KvpPoolIter::append. *)
AppendStart(p) ==
    /\ pc[p] = "append"
    /\ Touch(pool, TRUE)
    /\ Goto(p, "appending")
    /\ UNCHANGED iterVars

AppendEnd(p) ==
    /\ pc[p] = "appending"
    /\ Touch(Append(pool, call[p].recs[hits[p] + 1]), FALSE)
    /\ cnt' = [cnt EXCEPT ![p] = @ + 1]
    /\ hits' = [hits EXCEPT ![p] = @ + 1]
    /\ Goto(p, IF hits[p] + 1 = Len(call[p].recs) THEN "done" ELSE "append")
    /\ UNCHANGED <<idx, uniq, acc, snap>>

(* The answer: Ok, or MaxUniqueKeysExceeded from a full pool. *)
Return(p) == pc[p] \in {"done", "full"} /\ Close(p)

(* An I/O error, or the end of the process, between two steps. *)
Fail(p) == pc[p] \notin {"idle", "done", "full"} /\ Close(p)

-----------------------------------------------------------------------------
(* The other programs and the machine. *)

DaemonLock(d) ==
    /\ exists /\ calls < MaxCalls
    /\ fcntl[d] = "free" /\ CanLock(fcntl, d, "sh")
    /\ fcntl' = [fcntl EXCEPT ![d] = "sh"]
    /\ calls' = calls + 1
    /\ UNCHANGED <<fileVars, clockVars, flock, pc, call, iterVars>>

DaemonUnlock(d) ==
    /\ fcntl[d] # "free"
    /\ fcntl' = [fcntl EXCEPT ![d] = "free"]
    /\ UNCHANGED <<fileVars, clockVars, flock, pc, call, iterVars, calls>>

CloudInitLock(c) ==
    /\ exists /\ calls < MaxCalls
    /\ flock[c] = "free" /\ CanLock(flock, c, "ex")
    /\ flock' = [flock EXCEPT ![c] = "ex"]
    /\ calls' = calls + 1
    /\ UNCHANGED <<fileVars, clockVars, fcntl, pc, call, iterVars>>

CloudInitAppend(c) ==
    /\ flock[c] = "ex"
    /\ flock' = [flock EXCEPT ![c] = "free"]
    /\ \E r \in Record : Touch(Append(pool, r), torn)
    /\ UNCHANGED <<clockVars, fcntl, pc, call, iterVars, calls>>

Tick ==
    /\ now < MaxTime
    /\ now' = now + 1
    /\ UNCHANGED <<fileVars, boot, lockVars, pc, call, iterVars, calls>>

(* Every process dies, the file stays, btime moves to the present second. *)
Reboot ==
    /\ MaxTime > 0
    /\ boot' = now
    /\ fresh' = FALSE
    /\ flock' = [a \in Actor |-> "free"]
    /\ fcntl' = [a \in Actor |-> "free"]
    /\ pc' = [p \in Proc |-> "idle"]
    /\ call' = [p \in Proc |-> NoCall]
    /\ idx' = [p \in Proc |-> 0]
    /\ cnt' = [p \in Proc |-> 0]
    /\ hits' = [p \in Proc |-> 0]
    /\ uniq' = [p \in Proc |-> {}]
    /\ acc' = [p \in Proc |-> <<>>]
    /\ snap' = [p \in Proc |-> <<>>]
    /\ UNCHANGED <<exists, pool, torn, mtime, now, calls>>

-----------------------------------------------------------------------------
Invoke(p) ==
    \/ append(p) \/ append_multiple(p) \/ load(p) \/ insert(p)
    \/ delete(p) \/ delete_multiple(p) \/ clear(p) \/ clear_if_stale(p)
    \/ dump(p)

Step(p) ==
    \/ FlockStep(p) \/ FcntlStep(p) \/ IterNew(p) \/ BadFraming(p)
    \/ ClearStep(p) \/ Truncate(p) \/ ReadNext(p) \/ ScanEnd(p)
    \/ OverwriteStart(p) \/ OverwriteEnd(p)
    \/ SwapStart(p) \/ SwapEnd(p) \/ Shrink(p)
    \/ AppendStart(p) \/ AppendEnd(p) \/ Return(p)

Next ==
    \/ \E p \in Proc : Invoke(p) \/ Step(p) \/ Fail(p)
    \/ \E d \in Daemon : DaemonLock(d) \/ DaemonUnlock(d)
    \/ \E c \in CloudInit : CloudInitLock(c) \/ CloudInitAppend(c)
    \/ Tick
    \/ Reboot

Spec == Init /\ [][Next]_vars

(* Kernel and scheduler let every program that can go on do so: a lock    *)
(* holder reaches its close, a sleeper that can have its lock gets it.    *)
(* Nothing makes a program call an operation, and nothing makes it fail.  *)
Fairness ==
    /\ \A p \in Proc : WF_vars(Step(p))
    /\ \A d \in Daemon : WF_vars(DaemonUnlock(d))
    /\ \A c \in CloudInit : WF_vars(CloudInitAppend(c))

FairSpec == Spec /\ Fairness

-----------------------------------------------------------------------------
(* Properties *)

Label == {"idle", "flock", "fcntl", "locked", "scan", "overwrite",
          "overwriting", "remove", "swapping", "shrink", "truncate",
          "append", "appending", "done", "full"}

Slot == [key : Key \cup {Mixed}, value : Value \cup {Mixed}]

LockMode == {"free", "sh", "ex"}

(* Every variable has its type: cursors are naturals, the file holds whole *)
(* slots (some of them half written) and a part of one at most.            *)
TypeOK ==
    /\ exists \in BOOLEAN /\ torn \in BOOLEAN /\ fresh \in BOOLEAN
    /\ pool \in Seq(Slot)
    /\ mtime \in Nat /\ now \in Nat /\ boot \in Nat /\ calls \in Nat
    /\ flock \in [Actor -> LockMode] /\ fcntl \in [Actor -> LockMode]
    /\ pc \in [Proc -> Label]
    /\ call \in [Proc -> Call]
    /\ idx \in [Proc -> Nat] /\ cnt \in [Proc -> Nat] /\ hits \in [Proc -> Nat]
    /\ uniq \in [Proc -> SUBSET (Key \cup {Mixed})]
    /\ acc \in [Proc -> Seq(Slot)] /\ snap \in [Proc -> Seq(Slot)]

(* Past KvpPoolIter::new, the locks held. *)
Inside(p) == pc[p] \notin {"idle", "flock", "fcntl"}

Writer(p) == call[p].op \in Writing

(* "Hold both to coordinate with either" (store.rs, Locking): while a     *)
(* store process is inside an operation that writes, no other store       *)
(* process is inside one, no fcntl-locking daemon reads and no            *)
(* flock-locking cloud-init appends; and nobody appends under a reader.   *)
Exclusion ==
    \A p \in Proc : Inside(p) =>
        /\ \A c \in CloudInit : flock[c] = "free"
        /\ Writer(p) => /\ \A q \in Proc \ {p} : ~Inside(q)
                        /\ \A d \in Daemon : fcntl[d] = "free"

(* The iterator caches the record count and never stats the file again:   *)
(* until the operation closes, the count is that of the file, and the     *)
(* cursor is inside it, but for the removal of the last record, which     *)
(* leaves the cursor one past the end.                                    *)
Counted(p) ==
    /\ Inside(p) /\ pc[p] # "locked"
    /\ call[p].op \notin {"clear", "clear_if_stale"}

CursorCurrent ==
    \A p \in Proc : Counted(p) =>
        /\ cnt[p] = Len(pool)
        /\ idx[p] <= cnt[p] + 1
        /\ pc[p] \in {"overwrite", "overwriting", "remove", "swapping"} =>
                idx[p] \in 1..cnt[p]

(* dump (and so entries and read) answers with the records the file held  *)
(* at one instant, in order, whatever else was called meanwhile.          *)
SnapshotRead ==
    \A p \in Proc : pc[p] = "done" /\ call[p].op \in Reading =>
        acc[p] = pool /\ acc[p] = snap[p]

Copies(s, r) == Cardinality({i \in DOMAIN s : s[i] = r})

(* s and t hold the same records of keys outside ks, duplicates counted. *)
SameOutside(ks, s, t) ==
    \A i \in DOMAIN s \cup DOMAIN t :
        LET r == IF i \in DOMAIN s THEN s[i] ELSE t[i]
        IN  r.key \notin ks => Copies(s, r) = Copies(t, r)

(* What each operation promises of the records after, from those before. *)
Outcome(c, before, after) ==
    CASE c.op = "append" -> after = before \o c.recs
      [] c.op = "load" -> after = c.recs
      [] c.op = "insert" ->
            /\ \E i \in DOMAIN after : after[i] = c.recs[1]
            /\ Cardinality({i \in DOMAIN after : after[i].key \in c.keys}) = 1
            /\ SameOutside(c.keys, before, after) /\ SameOutside(c.keys, after, before)
      [] c.op = "delete" ->
            /\ Keys(after) \cap c.keys = {}
            /\ SameOutside(c.keys, before, after) /\ SameOutside(c.keys, after, before)
      [] c.op = "clear" -> after = <<>>
      [] c.op = "clear_if_stale" -> after \in {before, <<>>}
      [] OTHER -> after = before

(* insert refuses a new key exactly when MAX_UNIQUE_KEYS distinct keys    *)
(* are in the pool, and then it has changed nothing; it never takes a     *)
(* pool within the limit beyond it.                                       *)
UniqueKeyLimit ==
    \A p \in Proc : call[p].op = "insert" =>
        /\ pc[p] = "full" => /\ pool = snap[p]
                             /\ Cardinality(Keys(pool)) >= MaxUniqueKeys
                             /\ Keys(pool) \cap call[p].keys = {}
        /\ pc[p] = "done" => \/ Cardinality(Keys(pool)) <= MaxUniqueKeys
                             \/ Cardinality(Keys(pool)) <= Cardinality(Keys(snap[p]))

(* An operation that answers Ok did all of it: insert left exactly one    *)
(* record of its key, with the new value; delete left none and reports    *)
(* how many it removed; both kept every record of the other keys; and an  *)
(* insert that is refused for the number of keys had to be.               *)
Completed ==
    /\ \A p \in Proc : pc[p] = "done" =>
        /\ Outcome(call[p], snap[p], pool)
        /\ call[p].op = "delete" => hits[p] = Len(snap[p]) - Len(pool)
    /\ UniqueKeyLimit

(* An operation stopped at any point (Fail leaves the file as it is)      *)
(* lost no record of a key it was not editing: an append left all old     *)
(* records in front, a half done swap has not yet shortened the file.     *)
NothingElseLost ==
    \A p \in Proc : Counted(p) =>
        /\ call[p].op = "append" =>
               SubSeq(pool, 1, Len(snap[p])) = snap[p]
        /\ call[p].op \in Editing =>
               \A i \in DOMAIN snap[p] : snap[p][i].key \notin call[p].keys =>
                   Copies(pool, snap[p][i]) >= Copies(snap[p], snap[p][i])

(* Behind a torn tail record boundaries are unknown: until clear or       *)
(* clear_if_stale empties the file no store operation edits a record.     *)
TornPoolFrozen ==
    [][(torn /\ \A p \in Proc : pc[p] # "appending") =>
            \/ pool' = pool
            \/ pool' = <<>>
            \/ \E c \in CloudInit : flock[c] = "ex" /\ flock'[c] = "free"]_vars

(* No circular waiting: while some process waits for a lock, some actor   *)
(* is not waiting, or one of the waiters can have its lock.               *)
Waiting(p) == pc[p] \in {"flock", "fcntl"}

NoCircularWait ==
    (\E p \in Proc : Waiting(p)) =>
        \/ \E p \in Proc : pc[p] = "flock" /\ CanLock(flock, p, Mode(p))
        \/ \E p \in Proc : pc[p] = "fcntl" /\ CanLock(fcntl, p, Mode(p))
        \/ \E p \in Proc : Inside(p)
        \/ \E d \in Daemon : fcntl[d] # "free"
        \/ \E c \in CloudInit : flock[c] # "free"

(* Every operation that is called returns, whatever the others do. *)
CallsReturn == \A p \in Proc : pc[p] # "idle" ~> pc[p] = "idle"

(* clear_if_stale leaves the records only when the file was written in    *)
(* this boot, and empties it only when it was not, or not after the       *)
(* second of the boot.                                                    *)
StaleCleared ==
    \A p \in Proc : call[p].op = "clear_if_stale" =>
        /\ pc[p] = "truncate" => ~fresh \/ mtime = boot
        /\ pc[p] = "done" /\ pool # <<>> => fresh

-----------------------------------------------------------------------------
(* The inductive invariant behind Exclusion, CursorCurrent, SnapshotRead,  *)
(* NoCircularWait and the delete half of Completed (KvpStoreProofs).       *)

(* Which locks the actors hold, by where they are. *)
LockInv ==
    /\ \A p \in Proc :
        /\ flock[p] = IF pc[p] \in {"idle", "flock"} THEN "free" ELSE Mode(p)
        /\ fcntl[p] = IF Inside(p) THEN Mode(p) ELSE "free"
    /\ \A d \in Daemon : flock[d] = "free" /\ fcntl[d] \in {"free", "sh"}
    /\ \A c \in CloudInit : flock[c] \in {"free", "ex"} /\ fcntl[c] = "free"
    /\ \A a, b \in Actor : a # b =>
        /\ flock[a] = "ex" => flock[b] = "free"
        /\ fcntl[a] = "ex" => fcntl[b] = "free"

(* Which operation can be where, with which arguments and counters. *)
Shape(p) ==
    LET op == call[p].op IN
    /\ pc[p] = "idle" <=> op = "none"
    /\ op = "insert" => Len(call[p].recs) = 1
    /\ op = "append" => Len(call[p].recs) > 0
    /\ op \in {"clear", "clear_if_stale"} => call[p].recs = <<>>
    /\ pc[p] \in {"idle", "flock", "fcntl", "locked", "truncate"} =>
            hits[p] = 0 /\ idx[p] = 0
    /\ pc[p] \in {"idle", "flock", "fcntl", "locked"} => acc[p] = <<>>
    /\ pc[p] = "scan" => op \in Reading \cup Editing
    /\ pc[p] \in {"overwrite", "overwriting", "full"} => op = "insert"
    /\ pc[p] \in {"remove", "swapping", "shrink"} => op \in Editing
    /\ pc[p] = "truncate" => op \in {"load", "clear", "clear_if_stale"}
    /\ pc[p] \in {"append", "appending"} =>
            op \in {"append", "load", "insert"} /\ hits[p] < Len(call[p].recs)

(* What the cursor has behind it. *)
CursorInv(p) ==
    Counted(p) =>
        /\ cnt[p] = Len(pool)
        /\ idx[p] <= cnt[p] + 1
        /\ pc[p] \in {"overwrite", "overwriting", "remove"} => idx[p] \in 1..cnt[p]
        /\ pc[p] = "swapping" => idx[p] \in 1..(cnt[p] - 1)
        /\ pc[p] = "shrink" => idx[p] \in 0..(cnt[p] - 2)

(* A reader has collected exactly the records behind its cursor. *)
ReaderInv(p) ==
    (Counted(p) /\ call[p].op \in Reading) =>
        /\ pc[p] \in {"scan", "done"}
        /\ pool = snap[p]
        /\ idx[p] <= Len(pool)
        /\ acc[p] = SubSeq(pool, 1, idx[p])
        /\ pc[p] = "done" => idx[p] = Len(pool)

(* delete: no record behind the cursor has one of the keys, but for the   *)
(* one it is about to remove.                                              *)
DeleteInv(p) ==
    (Counted(p) /\ call[p].op = "delete") =>
        /\ pc[p] \in {"scan", "remove", "swapping", "shrink", "done"}
        /\ \A i \in DOMAIN pool :
              (i < idx[p] \/ (i = idx[p] /\ pc[p] \in {"scan", "shrink", "done"})) =>
                  pool[i].key \notin call[p].keys
        /\ pc[p] = "done" => idx[p] >= Len(pool)

IInv ==
    /\ TypeOK
    /\ LockInv
    /\ \A p \in Proc : Shape(p) /\ CursorInv(p) /\ ReaderInv(p) /\ DeleteInv(p)

-----------------------------------------------------------------------------
(* The inductive invariant behind Completed, NothingElseLost and the       *)
(* refinement (KvpStoreProofs).                                            *)

(* The slot that an edit is about to give another content or to cut off,   *)
(* and whose present content need not be kept; 0 for none.                 *)
Hole(p) ==
    CASE pc[p] \in {"overwrite", "overwriting", "remove", "swapping"} -> idx[p]
      [] pc[p] = "shrink" -> cnt[p]
      [] OTHER -> 0

(* The slots that hold r, but for slot h. *)
Holding(s, r, h) == {i \in DOMAIN s : i # h /\ s[i] = r}

(* The arguments are those the operation was validated with, and its       *)
(* unique_keys start empty.                                                *)
ArgsInv(p) ==
    LET c == call[p] IN
    /\ ~Counted(p) => uniq[p] = {}
    /\ c.recs \in Batches \cup {<<>>} \cup {<<r>> : r \in Record}
    /\ c.op = "insert" => c.keys = {c.recs[1].key}
    /\ c.op = "load" => Cardinality(Keys(c.recs)) <= MaxUniqueKeys

(* insert and delete: outside the hole every record of another key is      *)
(* there as often as it was found; a delete has removed hits records.      *)
KeptInv(p) ==
    (Counted(p) /\ call[p].op \in Editing) =>
        /\ \A r \in Slot : r.key \notin call[p].keys =>
                Cardinality(Holding(pool, r, Hole(p))) = Copies(snap[p], r)
        /\ pc[p] \in {"overwrite", "overwriting", "remove"} =>
                pool[idx[p]].key \in call[p].keys
        /\ call[p].op = "delete" => Len(pool) + hits[p] = Len(snap[p])
        /\ call[p].op = "insert" /\ pc[p] # "done" => Len(pool) <= Len(snap[p])

(* The slots that the cursor of an insert or a delete has dealt with. *)
Behind(p) ==
    {i \in DOMAIN pool :
        i < idx[p] \/ (i = idx[p] /\ pc[p] \in {"scan", "shrink", "append", "full"})}

(* insert, as long as it has met no record of its key: nothing is changed, *)
(* and unique_keys are the keys behind the cursor.                         *)
SearchInv(p) ==
    (Counted(p) /\ call[p].op = "insert" /\ hits[p] = 0) =>
        /\ pc[p] \in {"scan", "overwrite", "overwriting", "append", "appending", "full"}
        /\ idx[p] <= Len(pool)
        /\ pc[p] # "overwriting" => pool = snap[p]
        /\ \A i \in Behind(p) : pool[i].key \notin call[p].keys
        /\ pc[p] = "scan" => uniq[p] = {pool[i].key : i \in Behind(p)}
        /\ pc[p] \in {"overwrite", "overwriting"} => Keys(snap[p]) \cap call[p].keys # {}
        /\ pc[p] \in {"append", "appending", "full"} =>
                Keys(pool) \cap call[p].keys = {}
        /\ pc[p] \in {"append", "appending"} => Cardinality(Keys(pool)) < MaxUniqueKeys
        /\ pc[p] = "full" => Cardinality(Keys(pool)) >= MaxUniqueKeys

(* insert, once it has: one slot behind the cursor has the key, and it     *)
(* holds the new record.                                                   *)
ReplacedInv(p) ==
    (Counted(p) /\ call[p].op = "insert" /\ hits[p] > 0) =>
        /\ pc[p] \in {"scan", "remove", "swapping", "shrink", "done"}
        /\ \E j \in (IF pc[p] = "done" THEN DOMAIN pool ELSE Behind(p)) :
              /\ pool[j] = call[p].recs[1]
              /\ \A i \in (IF pc[p] = "done" THEN DOMAIN pool ELSE Behind(p)) :
                    pool[i].key \in call[p].keys => i = j
        /\ \/ Keys(snap[p]) \cap call[p].keys # {}
           \/ pc[p] = "done" /\ Cardinality(Keys(snap[p])) < MaxUniqueKeys

(* append and load have written a first part of their list, clear and      *)
(* clear_if_stale have emptied the file or not touched it.                 *)
ListInv(p) ==
    LET written == SubSeq(call[p].recs, 1, hits[p])
        all     == hits[p] = Len(call[p].recs)
    IN  /\ (Counted(p) /\ call[p].op = "append") =>
              /\ pc[p] \in {"append", "appending", "done"}
              /\ pool = snap[p] \o written /\ (pc[p] = "done" => all)
        /\ (Counted(p) /\ call[p].op = "load") =>
              /\ pc[p] \in {"truncate", "append", "appending", "done"}
              /\ pool = IF pc[p] = "truncate" THEN snap[p] ELSE written
              /\ pc[p] = "done" => all
        /\ pc[p] = "done" =>
              /\ call[p].op = "clear" => pool = <<>>
              /\ call[p].op = "clear_if_stale" => pool \in {snap[p], <<>>}

EditInv ==
    \A p \in Proc : ArgsInv(p) /\ KeptInv(p) /\ SearchInv(p) /\ ReplacedInv(p) /\ ListInv(p)
=============================================================================
