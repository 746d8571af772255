---------------------------- MODULE Diagnostics ----------------------------
(***************************************************************************)
(* A guest pool into which DiagnosticWriters and cloud-init emit, from     *)
(* which records are deleted, and which DiagnosticReader decodes.  Each    *)
(* call acts at one instant, or stops in the middle of its records: what   *)
(* KvpStore is shown to do (see KvpStoreRefinement).                       *)
(***************************************************************************)
EXTENDS DiagRecords

CONSTANTS
    Agent, VmId,    \* identity of the writer
    Emissions,      \* calls of emit_start, emit_finish and emit_event
    Messages,       \* what cloud-init reports: sequences of records
    Others,         \* records of nobody's format, or that break one
    Reports,        \* values written under PROVISIONING_REPORT
    MaxEmissions, MaxExtra, MaxClock   \* bounds

ASSUME IdentityAssumption ==
    Agent \notin Unfit \cup {"CLOUD_INIT"} /\ VmId \in Uuid \ Unfit

(* What the types of emit_start, emit_finish and emit_event admit.  Times  *)
(* and durations are among the numbers in use.                             *)
ASSUME EmissionsAssumption ==
    /\ MaxClock \in Nat /\ MaxClock \div TimestampUnit <= Largest
    /\ \A d \in Emissions :
          /\ IsText(d.payload)
          /\ d.kind \in Kinds /\ d.result \in {Blank, "ok", "error"}
          /\ d.duration \in Nat
          /\ d.duration # 0 => (d.duration - 1) \div DurationUnit <= Largest
          /\ d.kind = "start" => d.result = Blank /\ d.duration = 0
          /\ d.kind = "finish" => d.result # Blank /\ d.duration # 0

(* The text of a message of cloud-init. *)
Whole(m) == FlattenSeq([i \in DOMAIN m |-> m[i].value.text])

(* A message is one record under its key, or records numbered in their      *)
(* keys and in their metadata, which is otherwise the same; put together,  *)
(* it is one the reader understands.  Each message has a key of its own.   *)
ASSUME MessagesAssumption ==
    /\ \A m \in Messages :
          LET base == Place(m[1]).base
              meta == [m[1].value.meta EXCEPT !.msg_i = Blank]
          IN  /\ m \in Seq(ToSet(m)) /\ m # <<>>
              /\ \A i \in DOMAIN m :
                    /\ m[i].key \in Seq(STRING) /\ m[i].key[1] = "CLOUD_INIT"
                    /\ m[i].value.meta \in [DOMAIN NoMeta -> STRING] /\ IsText(m[i].value.text)
              /\ \/ Len(m) = 1 /\ Place(m[1]) = Alone(m[1].key, "cloud-init") /\ meta = m[1].value.meta
                 \/ \A i \in DOMAIN m :
                       /\ Place(m[i]) = InGroup(base, i - 1)
                       /\ m[i].value.meta = [meta EXCEPT !.msg_i = format(i - 1)]
              /\ cloud_init_diagnostic(base, meta, Whole(m)).ok
    /\ \A m, n \in Messages : m # n => Place(m[1]).base # Place(n[1]).base

(* The other writers leave the names of the writer and of the messages to  *)
(* them, whatever else they write.                                         *)
ASSUME OthersAssumption ==
    \A r \in Others :
        /\ r.key \in Seq(STRING)
        /\ Place(r).as = "chunk" =>
              /\ Place(r).base[1] = "DIAG" => Place(r).base[2] # Agent
              /\ \A m \in Messages : Place(r).base # Place(m[1]).base

VARIABLES
    pool,
    entries,    \* what DiagnosticReader::entries answers
    clock,      \* ticks of the clock timestamps are printed from
    emitted,    \* history: the calls that wrote, what they were to write, the answer
    sent,       \* history: how many records of each message cloud-init appended
    deletes,    \* history: steps that removed records
    extra       \* history: steps of the others

vars == <<pool, entries, clock, emitted, sent, deletes, extra>>

Init ==
    /\ pool = <<>> /\ entries = <<>> /\ clock = 0
    /\ emitted = <<>> /\ sent = [m \in Messages |-> 0]
    /\ deletes = 0 /\ extra = 0

(***************************************************************************)
(* The writer                                                              *)
(***************************************************************************)
prepare_records(d, now) ==
    frame_records(base_key(Agent, VmId, d, now), encode_payload(d.payload, d.encoding))

(* append_multiple writes the records in order and may fail in between; an  *)
(* invalid call, like one that fails before the first, writes nothing.      *)
(* emit_event makes its event id, the others take their caller's.          *)
emit(d) ==
    LET framed == prepare_records(d, clock)
        size == Len(framed.records)
    IN  /\ Len(emitted) < MaxEmissions
        /\ d.kind = "event" => \A i \in DOMAIN emitted : emitted[i].d.id # d.id
        /\ \/ /\ Valid(d) /\ framed.fits
              /\ \E n \in 1..size :
                    /\ pool' = pool \o SubSeq(framed.records, 1, n)
                    /\ emitted' = Append(emitted, [d |-> d, records |-> framed.records, ok |-> n = size])
           \/ UNCHANGED <<pool, emitted>>
        /\ UNCHANGED <<clock, sent, deletes, extra>>

(***************************************************************************)
(* The others on the pool                                                  *)
(***************************************************************************)
Other == extra < MaxExtra /\ extra' = extra + 1

(* cloud-init appends the records of a message one by one. *)
CloudInit(m) ==
    /\ Other
    /\ sent[m] < Len(m)
    /\ pool' = Append(pool, m[sent[m] + 1])
    /\ sent' = [sent EXCEPT ![m] = @ + 1]
    /\ UNCHANGED <<clock, emitted, deletes>>

AppendOther(r) ==
    /\ Other
    /\ pool' = Append(pool, r)
    /\ UNCHANGED <<clock, emitted, sent, deletes>>

(* KvpPoolIter::remove_current: each record that is removed is overwritten  *)
(* by the last one, so what is left at the end fills the holes from behind. *)
Keeping(kept) ==
    LET size == Cardinality(kept)
        rank(i) == Cardinality((1..i) \ kept)
        filler(i) == CHOOSE t \in kept \ (1..size) :
                        Cardinality({u \in kept : u >= t}) = rank(i)
    IN  [i \in 1..size |-> IF i \in kept THEN pool[i] ELSE pool[filler(i)]]

(* KvpPoolStore::delete *)
Deleted(key) == Keeping({i \in DOMAIN pool : pool[i].key # key})

(* Whoever deletes a diagnostic's record has read it, at a later time than *)
(* the one it carries.                                                     *)
Settled(key) ==
    (key[1] = "DIAG" /\ Len(key) = 11 /\ IsUnsigned(key[7]))
        => Unsigned(key[7]) < clock \div TimestampUnit

delete(key) ==
    /\ Other
    /\ Settled(key)
    /\ pool' = Deleted(key)
    /\ deletes' = deletes + 1
    /\ UNCHANGED <<clock, emitted, sent>>

(* ProvisioningReport::write_report: KvpPoolStore::insert overwrites the     *)
(* first record of the key and removes the others.                         *)
write_report(v) ==
    LET at == {i \in DOMAIN pool : pool[i].key = <<"PROVISIONING_REPORT">>}
        report == [key |-> <<"PROVISIONING_REPORT">>, value |-> v]
        first == CHOOSE i \in at : \A j \in at : i <= j
    IN  /\ Other
        /\ pool' = IF at = {} THEN Append(pool, report)
                   ELSE [Keeping((DOMAIN pool \ at) \cup {first}) EXCEPT ![first] = report]
        /\ deletes' = IF Cardinality(at) > 1 THEN deletes + 1 ELSE deletes
        /\ UNCHANGED <<clock, emitted, sent>>

Tick ==
    /\ clock < MaxClock
    /\ clock' = clock + 1
    /\ UNCHANGED <<pool, emitted, sent, deletes, extra>>

Step ==
    \/ \E d \in Emissions : emit(d)
    \/ \E m \in Messages : CloudInit(m)
    \/ \E r \in Others : AppendOther(r)
    \/ \E key \in {pool[i].key : i \in DOMAIN pool} : delete(key)
    \/ \E v \in Reports : write_report(v)
    \/ Tick

(* The reader answers from the pool alone, whenever it is asked. *)
Next == Step /\ entries' = decode_entries(pool')

Spec == Init /\ [][Next]_vars

-----------------------------------------------------------------------------
(* The diagnostics the reader returns. *)
Decoded == {entries[i].of : i \in {j \in DOMAIN entries : entries[j].is = "diagnostic"}}

(* The diagnostic a call of the writer stands for, its payload up to `to`. *)
Meant(e, to) ==
    LET base == Front(e.records[1].key)
        payload == IF e.d.encoding = "none" THEN Payload("text", SubSeq(e.d.payload, 1, to))
                   ELSE Payload("bytes", e.d.payload)
    IN  Diagnostic(e.d.kind, Agent, VmId, e.d.name, e.d.id, base[7], e.d.encoding,
                   payload, base[9], base[10])
InFull(e) == Meant(e, Len(e.d.payload))

(* A native diagnostic the reader returns was emitted, with that kind, id,  *)
(* outcome and time.  A compressed payload is the emitted one; a plain one  *)
(* is the emitted one or a beginning of it, since the last chunks can be    *)
(* missing without a trace (decode_chunks, order_chunks).                   *)
OnlyEmitted ==
    \A d \in Decoded : d.agent = Agent =>
        \E i \in DOMAIN emitted : \E to \in 0..Len(emitted[i].d.payload) :
            d = Meant(emitted[i], to)

(* The records of a call are all there, and no others under their base key. *)
Intact(records) ==
    LET base == Front(records[1].key)
    IN  /\ \A i \in DOMAIN records :
              Cardinality({j \in DOMAIN pool : pool[j].key = records[i].key}) = 1
        /\ \A i \in DOMAIN pool :
              (Len(pool[i].key) > 1 /\ Front(pool[i].key) = base) => pool[i] \in ToSet(records)

(* Whatever else is in the pool and in whatever order the records are, a    *)
(* call that answered Ok is read back in full while its records are there   *)
(* (decode_entries regroups by key).                                        *)
EmittedIsRead ==
    LET decoded == Decoded IN
    \A i \in DOMAIN emitted :
        emitted[i].ok /\ Intact(emitted[i].records) => InFull(emitted[i]) \in decoded

(* The same for a message of cloud-init, old format or new, cut or not.     *)
CloudInitIsRead ==
    LET decoded == Decoded IN
    \A m \in Messages :
        sent[m] = Len(m) /\ ToSet(m) \subseteq ToSet(pool)
            => \E d \in decoded :
                  /\ d.agent = "CLOUD_INIT" /\ d.name = m[1].key[4]
                  /\ d.payload.of = IF IsEnvelope(Whole(m)) THEN Whole(m)[1].of ELSE Whole(m)

(* "Preserve records that cannot be interpreted" (doc/diagnostics.md): a    *)
(* record is returned as often as it is in the pool, or it is a chunk of    *)
(* a diagnostic that is returned, and the only one with its index.          *)
Covers(base, d) ==
    \/ base[1] = "DIAG" /\ <<d.agent, d.vm_id, d.kind, d.name, d.id, d.ts>> =
                           <<base[2], base[3], base[4], base[5], base[6], base[7]>>
    \/ base[1] = "CLOUD_INIT" /\ d.agent = base[1] /\ d.id = Last(base) /\ d.name = base[4]
NothingLost ==
    LET kept == {entries[i].record : i \in DOMAIN entries} \ {0}
    IN  /\ \A i, j \in DOMAIN entries : i # j /\ entries[i].record # 0 => entries[i].record # entries[j].record
        /\ \A i \in DOMAIN pool \ kept :
              /\ Place(pool[i]).as \in {"chunk", "cloud-init"}
              /\ \E d \in Decoded : Covers(Place(pool[i]).base, d)
              /\ Place(pool[i]).as = "chunk" =>
                    \A j \in DOMAIN pool \ {i} : pool[i].key # pool[j].key

(* Every record the writer leaves fits the pool and the format, and only    *)
(* the record of an empty payload is empty (frame_records).                 *)
RecordsFit ==
    \A i \in DOMAIN emitted :
        LET records == emitted[i].records
        IN  /\ Len(records) \in 1..MaxChunks
            /\ \A j \in DOMAIN records :
                  /\ Bytes(records[j].value.text) <= MaxChunkBytes
                  /\ KeyBytes(Front(records[j].key), j - 1) <= MaxKeyBytes
                  /\ records[j].value.text = <<>> => Len(records) = 1

(* Entries are in the order of the pool: without deletes, in that of the    *)
(* calls (decode_entries sorts what it took out of a hash map).             *)
ReadInOrder ==
    LET found == {i \in DOMAIN emitted : InFull(emitted[i]) \in Decoded}
        position(i) == CHOOSE n \in DOMAIN entries : entries[n].is = "diagnostic" /\ entries[n].of = InFull(emitted[i])
    IN  deletes = 0 => \A i, j \in found :
            i < j /\ InFull(emitted[i]) # InFull(emitted[j]) => position(i) < position(j)

(* What is written comes back: a call of the writer frames its payload in   *)
(* records that fit, and what it or cloud-init wrote is read in full while  *)
(* its records are there (frame_records, decode_entries).                  *)
WrittenIsRead == RecordsFit /\ EmittedIsRead /\ CloudInitIsRead

(* What is read stands for the whole pool, record by record and in order    *)
(* (decode_entries).                                                       *)
EntriesStandForPool == NothingLost /\ ReadInOrder

-----------------------------------------------------------------------------
(* The inductive invariant behind these (DiagnosticsProofs).               *)

(* A call that wrote was valid, and its records are its frame at the time. *)
CallInv ==
    \A i \in DOMAIN emitted :
        LET e == emitted[i]
        IN  /\ e.d \in Emissions /\ Valid(e.d)
            /\ \E now \in 0..clock :
                  prepare_records(e.d, now).fits /\ e.records = prepare_records(e.d, now).records

(* A record under the writer's name was written by a call. *)
Own(r) == Place(r).as = "chunk" /\ Place(r).base[1] = "DIAG" /\ Place(r).base[2] = Agent
OwnInv ==
    \A p \in DOMAIN pool : Own(pool[p]) =>
        \E i \in DOMAIN emitted : \E j \in DOMAIN emitted[i].records : pool[p] = emitted[i].records[j]

(* Calls under one base key fell into one time unit, in which nothing of    *)
(* theirs is deleted: their first records are all there or all gone, never *)
(* one of them alone, so that the reader finds them and takes no group for *)
(* whole that two calls wrote.                                             *)
First(i) == emitted[i].records[1].key
FirstInv ==
    /\ \A i, j \in DOMAIN emitted : i # j /\ First(i) = First(j) =>
          \A p \in DOMAIN pool : pool[p].key = First(i) =>
              \E q \in DOMAIN pool : q # p /\ pool[q].key = First(i)
    /\ \A i \in DOMAIN emitted : ~Settled(First(i)) =>
          \E p \in DOMAIN pool : pool[p].key = First(i)

(* A chunk under the key of a message is one that was sent, once. *)
MessageInv ==
    \A m \in Messages :
        LET chunks == {p \in DOMAIN pool : Place(pool[p]).as = "chunk" /\ Place(pool[p]).base = Place(m[1]).base}
        IN  /\ sent[m] \in 0..Len(m)
            /\ \A p \in chunks : \E i \in 1..sent[m] : pool[p] = m[i]
            /\ \A p, q \in chunks : p # q => pool[p] # pool[q]

(* While nothing was removed, the first records of the calls are in the     *)
(* order of the calls, and no record of a call is in front of the first    *)
(* one under its base key.                                                 *)
OrderInv ==
    deletes = 0 => \E at \in [DOMAIN emitted -> DOMAIN pool] :
        /\ \A i, j \in DOMAIN emitted : i < j => at[i] < at[j]
        /\ \A i \in DOMAIN emitted : pool[at[i]].key = First(i)
        /\ \A p \in DOMAIN pool : Own(pool[p]) =>
              \E i \in DOMAIN emitted : Front(pool[p].key) = Front(First(i)) /\ at[i] <= p
=============================================================================
