---------------------------- MODULE DiagRecords ----------------------------
(***************************************************************************)
(* The diagnostics of libazureinit-kvp as pool records: how the writer     *)
(* frames one (writer.rs, encoding.rs) and what the reader makes of a pool *)
(* (reader.rs, cloud_init.rs).                                             *)
(*                                                                         *)
(* A key is the sequence of its fields, which '|' separates.  A value is   *)
(* [meta, text]: text is a sequence of letters, each with its width in     *)
(* bytes; meta is the JSON metadata of a cloud-init value, NoMeta for any  *)
(* other.                                                                  *)
(***************************************************************************)
EXTENDS Naturals, Sequences, FiniteSets, SequencesExt

Blank == ""     \* a field without a value

CONSTANTS
    MaxChunkBytes,  \* MAX_CHUNK_BYTES
    MaxChunks,      \* MAX_CHUNKS
    MaxKeyBytes,    \* MAX_KEY_BYTES
    Numeral,        \* Numeral[n + 1] is the decimal text of n
    Radices,        \* numbers from which on a decimal text is a byte longer
    TimestampUnit,  \* clock ticks in one unit of TimestampPrecision
    DurationUnit,   \* ticks in one unit of DurationPrecision
    Uuid,           \* strings Uuid::parse_str takes
    Unfit,          \* strings validate_field rejects: empty, too long, with '|' or NUL
    Wide            \* fields one byte longer than the others

Largest == Len(Numeral) - 1     \* the numbers in use are 0..Largest

ASSUME NumeralAssumption ==
    /\ Numeral \in Seq(STRING) /\ Numeral # <<>>
    /\ \A i, j \in DOMAIN Numeral : Numeral[i] = Numeral[j] => i = j
    /\ \A i \in DOMAIN Numeral : Numeral[i] \notin {Blank, "00"}

ASSUME LimitsAssumption ==
    /\ MaxChunkBytes \in Nat /\ MaxChunkBytes >= 2   \* the widest letter
    /\ MaxChunks \in 1..Largest /\ MaxKeyBytes \in Nat /\ Radices \subseteq Nat
    /\ TimestampUnit \in Nat \ {0} /\ DurationUnit \in Nat \ {0}
    /\ Blank \notin Uuid /\ Blank \in Unfit

(***************************************************************************)
(* Letters, numerals and values                                            *)
(***************************************************************************)
(* Of base64 text only its origin matters: letter n of the whole of `of`   *)
(* under `encoding`.  EscapeA EscapeB is one JSON escape sequence.         *)
Letter(c, w) == [c |-> c, bytes |-> w, of |-> <<>>, n |-> 0, whole |-> 0]
EscapeA == Letter("\\", 1)
EscapeB == Letter("n", 1)
Nul == Letter("NUL", 1)
NotUtf8 == Letter("FF", 1)
Base64(encoding, of) ==
    LET size == Len(of) + 1
    IN  [n \in 1..size |-> [c |-> encoding, bytes |-> 1, of |-> of, n |-> n, whole |-> size]]

Bytes(text) ==
    LET sum[n \in 0..Len(text)] == IF n = 0 THEN 0 ELSE sum[n - 1] + text[n].bytes
    IN  sum[Len(text)]

(* A sequence of letters, each of which fits a chunk. *)
IsText(text) ==
    /\ text \in Seq(ToSet(text))
    /\ \A i \in DOMAIN text : text[i].bytes \in 1..MaxChunkBytes

(* Unsigned decimal text; "00" is a second spelling of 0. *)
format(n) == Numeral[n + 1]
IsUnsigned(s) == s = "00" \/ \E n \in 0..Largest : format(n) = s
Unsigned(s) == IF s = "00" THEN 0 ELSE CHOOSE n \in 0..Largest : format(n) = s

NoMeta == [name |-> Blank, type |-> Blank, ts |-> Blank, msg_i |-> Blank, result |-> Blank, duration |-> Blank]
Plain(text) == [meta |-> NoMeta, text |-> text]

(* DiagnosticPayload: text, or bytes that came out of a decompressor. *)
Payload(form, of) == [form |-> form, of |-> of]

(***************************************************************************)
(* Writing                                                                 *)
(***************************************************************************)
Kinds == {"start", "finish", "event"}
Encodings == {"none", "gz+b64", "zlib+b64"}

Encodable(payload, encoding) ==
    /\ encoding \in Encodings
    /\ encoding = "none" => ToSet(payload) \cap {Nul, NotUtf8} = {}

encode_payload(payload, encoding) ==
    IF encoding = "none" THEN payload ELSE Base64(encoding, payload)

Valid(d) ==
    /\ d.name \notin Unfit
    /\ d.id \in Uuid \ Unfit
    /\ Encodable(d.payload, d.encoding)

(* d.duration is 0 for None and ticks + 1 for Some(ticks). *)
base_key(agent, vm_id, d, now) ==
    <<"DIAG", agent, vm_id, d.kind, d.name, d.id, format(now \div TimestampUnit), d.encoding,
      d.result, IF d.duration = 0 THEN Blank ELSE format((d.duration - 1) \div DurationUnit)>>

(* Bytes of a chunk key beyond those that every key has. *)
KeyBytes(key, index) ==
    Cardinality({i \in DOMAIN key : key[i] \in Wide}) + Cardinality({r \in Radices : r <= index}) + 1

(* The longest beginning of text that fits a chunk and ends between letters. *)
Cut(text) ==
    LET fits == {n \in 0..Len(text) : Bytes(SubSeq(text, 1, n)) <= MaxChunkBytes}
    IN  CHOOSE n \in fits : \A m \in fits : m <= n

(* Where chunk i begins, for the chunks an unlimited writer would make. *)
ChunkStarts(text) ==
    LET next[i \in 0..Len(text)] ==
            IF i = 0 THEN 0
            ELSE LET rest == SubSeq(text, next[i - 1] + 1, Len(text))
                 IN  next[i - 1] + Cut(rest)
    IN  next

(* An empty text takes one chunk. *)
ChunkCount(text, start) == Cardinality({i \in 0..Len(text) : i = 0 \/ start[i] < Len(text)})

frame_records(base, text) ==
    LET start == ChunkStarts(text)
        count == ChunkCount(text, start)
        end(i) == IF i = count THEN Len(text) ELSE start[i]
    IN  [fits    |-> /\ count <= MaxChunks
                     /\ \A i \in 0..(count - 1) : KeyBytes(base, i) <= MaxKeyBytes,
         records |-> [i \in 1..count |->
                        [key   |-> Append(base, format(i - 1)),
                         value |-> Plain(SubSeq(text, start[i - 1] + 1, end(i)))]]]

(***************************************************************************)
(* Reading: what a single record is                                        *)
(***************************************************************************)
Diagnostic(kind, agent, vm_id, name, id, ts, encoding, payload, result, duration) ==
    [kind |-> kind, agent |-> agent, vm_id |-> vm_id, name |-> name, id |-> id, ts |-> ts,
     encoding |-> encoding, payload |-> payload, result |-> result, duration |-> duration]

Ok(d) == [ok |-> TRUE, of |-> d, error |-> "none"]
Error(e) == [ok |-> FALSE, of |-> Diagnostic(Blank, Blank, Blank, Blank, Blank, Blank, Blank, Payload(Blank, <<>>), Blank, Blank),
             error |-> e]

(* A record stands alone, belongs to the group of its base key under an    *)
(* index, or is returned raw.                                              *)
Raw(error) == [as |-> "raw", base |-> <<>>, index |-> 0, error |-> error]
InGroup(base, index) == [as |-> "chunk", base |-> base, index |-> index, error |-> "none"]
Alone(base, as) == [as |-> as, base |-> base, index |-> 0, error |-> "none"]

split_chunk_key(key) ==
    IF Len(key) > 1 /\ IsUnsigned(Last(key))
    THEN InGroup(Front(key), Unsigned(Last(key)))
    ELSE Raw("malformed")

CloudInitKeyOk(base) ==
    /\ Len(base) \in {5, 6}
    /\ \A i \in DOMAIN base : base[i] # Blank
    /\ IsUnsigned(base[2])
    /\ \A i \in 5..Len(base) : base[i] \in Uuid

cloud_init_split_key(key) ==
    LET indexed == Len(key) = 7 \/ (Len(key) = 6 /\ key[6] \notin Uuid)
    IN  IF Len(key) \notin 5..7 THEN Raw("malformed")
        ELSE IF ~indexed
             THEN IF CloudInitKeyOk(key) THEN Alone(key, "cloud-init") ELSE Raw("malformed")
             ELSE IF IsUnsigned(Last(key)) /\ CloudInitKeyOk(Front(key))
                  THEN InGroup(Front(key), Unsigned(Last(key)))
                  ELSE Raw("malformed")

Unsupported == {"DIAG_V1", "DIAG_V2"}

Place(record) ==
    CASE Head(record.key) = "DIAG" -> split_chunk_key(record.key)
      [] Head(record.key) = "CLOUD_INIT" -> cloud_init_split_key(record.key)
      [] record.key = <<"PROVISIONING_REPORT">> -> Alone(record.key, "report")
      [] Head(record.key) \in Unsupported -> Raw("unsupported_version")
      [] OTHER -> Raw("none")

(***************************************************************************)
(* Reading: native groups                                                  *)
(***************************************************************************)
(* chunks is a set of [position, index, value]. *)
ChunkError(chunks) ==
    IF Cardinality({c.index : c \in chunks}) < Cardinality(chunks) THEN "duplicate_chunk"
    ELSE IF {c.index : c \in chunks} # 0..(Cardinality(chunks) - 1) THEN "incomplete_group"
    ELSE "none"

(* Mutation: the chunks are taken as they come in the pool. *)
Joined_AsFound(chunks) ==
    LET rank(c) == Cardinality({d \in chunks : d.position <= c.position})
    IN  FlattenSeq([i \in 1..Cardinality(chunks) |-> (CHOOSE c \in chunks : rank(c) = i).value.text])

(* The text of a group whose chunks are 0, 1, ... *)
Joined(chunks) ==
    FlattenSeq([i \in 1..Cardinality(chunks) |->
                    (CHOOSE c \in chunks : c.index = i - 1).value.text])

(* base64 and the compressed stream's end and checksum: the letters of one *)
(* whole compressed text under that encoding, and nothing behind them.     *)
Decompresses(text, encoding) ==
    /\ text # <<>>
    /\ text = Base64(encoding, Head(text).of)

decode_payload(text, encoding) ==
    CASE encoding = "none" -> [ok |-> TRUE, payload |-> Payload("text", text)]
      [] encoding \in {"gz+b64", "zlib+b64"} /\ Decompresses(text, encoding) ->
            [ok |-> TRUE, payload |-> Payload("bytes", Head(text).of)]
      [] OTHER -> [ok |-> FALSE, payload |-> Payload(Blank, <<>>)]

(* Mutation: only a finish has an outcome and a duration. *)
DiagKeyOk_FinishOnly(base) ==
    /\ Len(base) = 10
    /\ (base[4] = "finish") = (base[9] # Blank)
    /\ (base[4] = "finish") = (base[10] # Blank)

DiagKeyOk(base) ==
    /\ Len(base) = 10
    /\ \A i \in {2, 3, 5, 6, 7, 8} : base[i] # Blank
    /\ base[3] \in Uuid
    /\ IsUnsigned(base[7])
    /\ base[9] \in {Blank, "ok", "error"}
    /\ base[10] = Blank \/ IsUnsigned(base[10])
    /\ \/ base[4] = "start" /\ base[9] = Blank /\ base[10] = Blank
       \/ base[4] = "finish" /\ base[9] # Blank /\ base[10] # Blank
       \/ base[4] = "event"

decode_diag_group(base, chunks) ==
    LET decoded == decode_payload(Joined(chunks), base[8])
    IN  IF ~DiagKeyOk(base) THEN Error("malformed")
        ELSE IF ChunkError(chunks) # "none" THEN Error(ChunkError(chunks))
        ELSE IF ~decoded.ok THEN Error("undecodable")
        ELSE Ok(Diagnostic(base[4], base[2], base[3], base[5], base[6], base[7], base[8],
                           decoded.payload, base[9], base[10]))

(***************************************************************************)
(* Reading: cloud-init                                                     *)
(***************************************************************************)
(* A message can be unescaped when no escape sequence in it is cut.  An    *)
(* envelope is one letter whose c is its encoding.                         *)
Unescapes(text) ==
    /\ text = <<>> \/ (Last(text) # EscapeA /\ Head(text) # EscapeB)
    /\ \A i \in 1..(Len(text) - 1) : (text[i] = EscapeA) = (text[i + 1] = EscapeB)

Envelope(encoding, of) == [c |-> encoding, bytes |-> 1, of |-> of, n |-> 1, whole |-> 1]
IsEnvelope(text) == Len(text) = 1 /\ text[1].whole = 1

decode_message(text, compressed) ==
    IF IsEnvelope(text)
    THEN IF text[1].c = "gz+b64"
         THEN [error |-> "none", payload |-> Payload("bytes", text[1].of), encoding |-> "gz+b64"]
         ELSE [error |-> "undecodable", payload |-> Payload(Blank, <<>>), encoding |-> Blank]
    ELSE [error |-> IF compressed THEN "malformed" ELSE "none",
          payload |-> Payload("text", text), encoding |-> "none"]

(* The key's fields count from its end, since the VM id may be missing. *)
cloud_init_diagnostic(base, meta, text) ==
    LET kind == base[3]
        result == CASE meta.result = "SUCCESS" -> "ok" [] meta.result = "FAIL" -> "error" [] OTHER -> Blank
        message == decode_message(text, kind = "compressed")
        normal == IF kind \in Kinds THEN kind ELSE "event"
    IN  IF \/ meta.name # base[4] \/ meta.type # kind
           \/ ~IsUnsigned(meta.ts)
           \/ ~Unescapes(text)
        THEN Error("malformed")
        ELSE IF message.error # "none" THEN Error(message.error)
        ELSE IF \/ kind = "start" /\ (meta.result # Blank \/ meta.duration # Blank)
                \/ kind = "finish" /\ (result = Blank \/ ~IsUnsigned(meta.duration))
        THEN Error("malformed")
        ELSE Ok(Diagnostic(normal, "CLOUD_INIT", IF Len(base) = 6 THEN base[5] ELSE Blank, base[4],
                           Last(base), meta.ts, message.encoding, message.payload,
                           IF kind = "finish" THEN result ELSE Blank,
                           IF kind = "finish" THEN meta.duration ELSE Blank))

decode_single(base, value) ==
    IF value.meta.msg_i # Blank THEN Error("malformed")
    ELSE cloud_init_diagnostic(base, value.meta, value.text)

decode_chunks(base, chunks) ==
    LET metas == {[c.value.meta EXCEPT !.msg_i = Blank] : c \in chunks}
    IN  IF ChunkError(chunks) # "none" THEN Error(ChunkError(chunks))
        ELSE IF \/ \E c \in chunks : c.value.meta.msg_i # format(c.index)
                \/ Cardinality(metas) # 1
        THEN Error("malformed")
        ELSE cloud_init_diagnostic(base, CHOOSE m \in metas : TRUE, Joined(chunks))

(***************************************************************************)
(* Reading: a pool                                                         *)
(***************************************************************************)
(* An entry: a diagnostic, a report, or record number `record` as it is. *)
Entry(is, d, i, error) == [is |-> is, of |-> d, record |-> i, error |-> error]
DiagnosticEntry(d) == Entry("diagnostic", d, 0, "none")
ReportEntry(i) == Entry("report", Error(Blank).of, i, "none")
RawEntry(i, error) == Entry("raw", Error(Blank).of, i, error)

Single(record, i, place) ==
    IF place.as = "raw" THEN RawEntry(i, place.error)
    ELSE IF place.as = "report"
    THEN IF record.value.meta.name = "report" THEN ReportEntry(i) ELSE RawEntry(i, "malformed")
    ELSE LET decoded == decode_single(place.base, record.value)
         IN  IF decoded.ok THEN DiagnosticEntry(decoded.of) ELSE RawEntry(i, decoded.error)

Chunks(pool, members) ==
    {[position |-> i, index |-> Unsigned(Last(pool[i].key)), value |-> pool[i].value] : i \in members}

decode_group(base, chunks) ==
    IF base[1] = "CLOUD_INIT" THEN decode_chunks(base, chunks) ELSE decode_diag_group(base, chunks)

(* Mutation: a group that fails leaves one record to see. *)
Group_OneRaw(pool, base, members) ==
    LET decoded == decode_group(base, Chunks(pool, members))
    IN  [i \in members |->
            IF \E j \in members : j < i THEN <<>>
            ELSE IF decoded.ok THEN <<DiagnosticEntry(decoded.of)>> ELSE <<RawEntry(i, decoded.error)>>]

(* What the records under one base key leave, decoded together: the         *)
(* diagnostic stands at the first of them, or each of them where it is     *)
(* with the error.                                                         *)
Group(pool, base, members) ==
    LET decoded == decode_group(base, Chunks(pool, members))
    IN  [i \in members |->
            IF ~decoded.ok THEN <<RawEntry(i, decoded.error)>>
            ELSE IF \A j \in members : i <= j THEN <<DiagnosticEntry(decoded.of)>> ELSE <<>>]

decode_entries(pool) ==
    LET place == [i \in DOMAIN pool |-> Place(pool[i])]
        members(base) == {i \in DOMAIN pool : place[i].as = "chunk" /\ place[i].base = base}
        bases == {place[i].base : i \in {j \in DOMAIN pool : place[j].as = "chunk"}}
        group == [base \in bases |-> Group(pool, base, members(base))]
    IN  FlattenSeq([i \in DOMAIN pool |->
            IF place[i].as = "chunk" THEN group[place[i].base][i]
            ELSE <<Single(pool[i], i, place[i])>>])
=============================================================================
