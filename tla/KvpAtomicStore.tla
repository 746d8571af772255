--------------------------- MODULE KvpAtomicStore ---------------------------
(***************************************************************************)
(* What the documentation of KvpPoolStore promises its callers (store.rs,  *)
(* the comments on the type and on each operation): a list of records on   *)
(* which every call acts at one instant between its start and its answer.  *)
(* A call that fails "may leave partial changes", and this module says     *)
(* which: an append cut short has added a first part of its list, a        *)
(* replacement cut short holds a first part of the new list, an insert or  *)
(* a delete cut short has lost no record of another key, and a clear has   *)
(* happened or not.                                                        *)
(***************************************************************************)
EXTENDS Naturals, Sequences, FiniteSets

CONSTANTS Proc, Key, Value, MaxUniqueKeys, InitialPools, Batches

VARIABLES
    store,   \* the records, in order
    ragged,  \* the file ends in a part of a record
    asked,   \* the call each process is in
    answer   \* its answer, once it acted; the records are those dump returns

vars == <<store, ragged, asked, answer>>

Record == [key : Key, value : Value]

NoCall == [op |-> "none", keys |-> {}, recs |-> <<>>]

None == [is |-> "none", recs |-> <<>>]
Done == [is |-> "ok", recs |-> <<>>]
Full == [is |-> "full", recs |-> <<>>]

Call == [op : {"dump", "insert", "delete", "append", "load", "clear", "clear_if_stale"},
         keys : SUBSET Key,
         recs : Batches \cup {<<>>} \cup {<<r>> : r \in Record}]

KeysOf(s) == {s[i].key : i \in DOMAIN s}

Times(s, r) == Cardinality({i \in DOMAIN s : s[i] = r})

(* t holds every record of s whose key is not in ks, as often as s does. *)
KeepsOthers(ks, s, t) ==
    \A i \in DOMAIN s : s[i].key \notin ks => Times(t, s[i]) >= Times(s, s[i])

Prefix(s, t) == Len(s) <= Len(t) /\ SubSeq(t, 1, Len(s)) = s

Init ==
    /\ store \in InitialPools /\ ragged = FALSE
    /\ asked = [p \in Proc |-> NoCall] /\ answer = [p \in Proc |-> None]

Start(p) ==
    /\ asked[p] = NoCall /\ \E c \in Call : asked' = [asked EXCEPT ![p] = c]
    /\ UNCHANGED <<store, ragged, answer>>

-----------------------------------------------------------------------------
(* Acting. *)

Acts(p, ops) ==
    /\ asked[p].op \in ops /\ answer[p] = None /\ UNCHANGED asked
    /\ answer' = [answer EXCEPT ![p] = Done]

(* read and entries are told from what dump returns. *)
Dump(p) ==
    /\ asked[p].op = "dump" /\ answer[p] = None
    /\ ~ragged /\ answer' = [answer EXCEPT ![p] = [is |-> "ok", recs |-> store]]
    /\ UNCHANGED <<store, ragged, asked>>

Append_(p) ==
    /\ Acts(p, {"append"})
    /\ ~ragged /\ store' = store \o asked[p].recs /\ UNCHANGED ragged

Load(p) ==
    /\ Acts(p, {"load"})
    /\ Cardinality(KeysOf(asked[p].recs)) <= MaxUniqueKeys
    /\ ~ragged /\ store' = asked[p].recs /\ UNCHANGED ragged

Insert(p) ==
    LET k == asked[p].recs[1].key IN
    /\ Acts(p, {"insert"})
    /\ k \in KeysOf(store) \/ Cardinality(KeysOf(store)) < MaxUniqueKeys
    /\ ~ragged /\ UNCHANGED ragged
    /\ Times(store', asked[p].recs[1]) = 1
    /\ Cardinality({i \in DOMAIN store' : store'[i].key = k}) = 1
    /\ KeepsOthers({k}, store, store') /\ KeepsOthers({k}, store', store)

InsertFull(p) ==
    /\ asked[p].op = "insert" /\ answer[p] = None
    /\ asked[p].recs[1].key \notin KeysOf(store)
    /\ Cardinality(KeysOf(store)) >= MaxUniqueKeys
    /\ answer' = [answer EXCEPT ![p] = Full]
    /\ UNCHANGED <<store, ragged, asked>>

Delete(p) ==
    /\ Acts(p, {"delete"})
    /\ ~ragged /\ UNCHANGED ragged
    /\ KeysOf(store') \cap asked[p].keys = {}
    /\ KeepsOthers(asked[p].keys, store, store') /\ KeepsOthers(asked[p].keys, store', store)

Clear(p) == Acts(p, {"clear", "clear_if_stale"}) /\ store' = <<>> /\ ragged' = FALSE

NotStale(p) == Acts(p, {"clear_if_stale"}) /\ UNCHANGED <<store, ragged>>

(* cloud-init appends without looking at the framing. *)
ForeignAppend ==
    /\ \E r \in Record : store' = Append(store, r)
    /\ UNCHANGED <<ragged, asked, answer>>

-----------------------------------------------------------------------------
(* Returning.  A call that did not act failed, and may have been cut short.*)

Unharmed == UNCHANGED <<store, ragged>>

AppendCut(c) ==
    /\ ~ragged /\ ragged' \in BOOLEAN
    /\ Prefix(store, store') /\ Prefix(store', store \o c.recs)

LoadCut(c) ==
    /\ ~ragged /\ ragged' \in BOOLEAN
    /\ Cardinality(KeysOf(c.recs)) <= MaxUniqueKeys
    /\ Prefix(store', c.recs)

EditCut(c) ==
    /\ ~ragged /\ ragged' \in BOOLEAN
    /\ ragged' => store' = store
    /\ Len(store') <= Len(store)
    /\ KeepsOthers(c.keys, store, store')

Cut(c) ==
    \/ Unharmed
    \/ c.op = "append" /\ AppendCut(c)
    \/ c.op = "load" /\ LoadCut(c)
    \/ c.op \in {"insert", "delete"} /\ EditCut(c)

Return(p) ==
    /\ asked[p] # NoCall
    /\ IF answer[p] = None THEN Cut(asked[p]) ELSE Unharmed
    /\ asked' = [asked EXCEPT ![p] = NoCall]
    /\ answer' = [answer EXCEPT ![p] = None]

(* All processes die, one of them in the middle of its call. *)
Reboot ==
    /\ Unharmed \/ \E p \in Proc : answer[p] = None /\ Cut(asked[p])
    /\ asked' = [p \in Proc |-> NoCall] /\ answer' = [p \in Proc |-> None]

Next ==
    \/ \E p \in Proc :
        \/ Start(p) \/ Dump(p) \/ Append_(p) \/ Load(p) \/ Insert(p) \/ InsertFull(p)
        \/ Delete(p) \/ Clear(p) \/ NotStale(p) \/ Return(p)
    \/ ForeignAppend \/ Reboot

Spec == Init /\ [][Next]_vars
=============================================================================
