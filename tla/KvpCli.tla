------------------------------- MODULE KvpCli -------------------------------
(***************************************************************************)
(* The command libazureinit-kvp (cli.rs) on a guest pool that azure-init's  *)
(* report layer (logging.rs) and other programs write too.  A store call is *)
(* one step, as KvpStore is shown to be, or stops in the middle with an     *)
(* I/O error.                                                              *)
(***************************************************************************)
EXTENDS ReportCodec

CONSTANTS
    Key,            \* keys, as texts
    ReportKey,      \* PROVISIONING_REPORT
    DiagKey,        \* keys of diagnostics, as one
    Chunks,         \* what DiagnosticWriter makes of a message, <<>> if it refuses it
    LongKey,        \* keys longer than max_key_size
    Values,         \* values for write, as texts
    Lines,          \* what a line of a file can be: a record, or NoLine
    NoLine,         \* a line without '='
    Raws,           \* arguments of --supporting-data
    Agents, VmIds, Reasons, Urls,
    Optional,       \* azure-init's optional_key_value
    Errors,         \* azure-init's failures: [reason, supporting_data]
    Detected,       \* what get_vm_id answers, as an option
    Limit,          \* max_value_size of each mode
    MaxUniqueKeys,  \* MAX_UNIQUE_KEYS
    InitialPools,
    MaxCommands, MaxOthers   \* bounds

Modes == {"safe", "unsafe"}

ASSUME CliAssumption ==
    /\ \A s \in InitialPools \cup Lines \cup Chunks : s \in Seq(Range(s))
    /\ Limit \in [Modes -> Nat] /\ Limit["safe"] <= Limit["unsafe"]
    /\ ReportKey \in Key \ LongKey /\ LongKey \subseteq Key
    /\ MaxUniqueKeys \in Nat

(* What azure-init reports has no NUL, which the store would refuse, nor    *)
(* has an argument of a process; the names of azure-init's supporting data *)
(* are identifiers (supporting_data).                                      *)
Text(s) == s \in Seq(Range(s))
TextOption(o) == o = <<>> \/ (o = <<o[1]>> /\ Text(o[1]))
Clean(s) == Text(s) /\ "NUL" \notin ToSet(s)
CleanPair(p) ==
    /\ p = [key |-> p.key, value |-> p.value] /\ Clean(p.key) /\ Clean(p.value)
    /\ p.key # <<>> /\ "=" \notin ToSet(p.key)

ASSUME TextsAssumption ==
    /\ \A s \in Raws \cup Reasons : Text(s)
    /\ \A o \in VmIds \cup Urls \cup {Detected} : TextOption(o)
    /\ \A s \in Agents \cup {e.reason : e \in Errors} : Clean(s)
    /\ \A o \in VmIds : o # <<>> => Clean(o[1])
    /\ \A o \in Optional : o = <<>> \/ (o = <<o[1]>> /\ CleanPair(o[1]))
    /\ \A e \in Errors : /\ IsFiniteSet(e.supporting_data)
                         /\ \A p \in e.supporting_data : CleanPair(p)

VARIABLES
    pool,
    stale,     \* is_stale
    last,      \* the last command: [cmd, before, after, code, out]
    newest,    \* history: the report written last, [text, meant], while nobody else touches it
    commands, others

vars == <<pool, stale, last, newest, commands, others>>

Exit == [ok |-> 0, not_found |-> 1, usage_or_validation |-> 2, io |-> 3]
NoReport == [text |-> <<>>, meant |-> Malformed.of]
NoCommand == [cmd |-> [name |-> "none"], before |-> <<>>, after |-> <<>>, code |-> 0, out |-> <<>>]

Init ==
    /\ pool \in InitialPools
    /\ stale \in BOOLEAN
    /\ last = NoCommand /\ newest = NoReport
    /\ commands = 0 /\ others = 0

(***************************************************************************)
(* The store                                                               *)
(***************************************************************************)
Rec(key, value) == [key |-> key, value |-> value]
At(s, key) == {i \in DOMAIN s : s[i].key = key}
SameOfKey(key, s, t) ==
    /\ Cardinality(At(s, key)) = Cardinality(At(t, key))
    /\ {s[i] : i \in At(s, key)} = {t[i] : i \in At(t, key)}
KeysIn(s) == {s[i].key : i \in DOMAIN s}

(* The order that swaps leave behind is KvpStore's matter. *)
Without(s, is) == Slice(s, DOMAIN s \ is)

(* What a call can leave and answer: out is what it returns. *)
Done(s, out) == [pool |-> s, code |-> Exit.ok, out |-> out]
Refused == [pool |-> pool, code |-> Exit.usage_or_validation, out |-> <<>>]
Cut(s) == [pool |-> s, code |-> Exit.io, out |-> <<>>]

ValidKey(key) == key # <<>> /\ "NUL" \notin ToSet(key)
Valid(r, mode) ==
    /\ ValidKey(r.key) /\ r.key \notin LongKey
    /\ "NUL" \notin ToSet(r.value) /\ Size(r.value) <= Limit[mode]

insert(s, r) ==
    LET at == At(s, r.key)
    IN  IF at = {} THEN Append(s, r)
        ELSE Without([s EXCEPT ![Min(at)] = r], at \ {Min(at)})

(* An insert that fails may have overwritten the first record of its key. *)
Insert(r, mode) ==
    IF ~Valid(r, mode) THEN {Refused}
    ELSE {Cut(pool)} \cup
         IF At(pool, r.key) = {} /\ Cardinality(KeysIn(pool)) >= MaxUniqueKeys THEN {Refused}
         ELSE {Done(insert(pool, r), <<>>)} \cup
              {Cut([pool EXCEPT ![i] = r]) : i \in {j \in At(pool, r.key) : j = Min(At(pool, r.key))}}

(* append, append_multiple and load: a failure leaves some first records. *)
Add(before, recs, mode) ==
    IF \E i \in DOMAIN recs : ~Valid(recs[i], mode) THEN {Refused}
    ELSE {Cut(pool), Done(before \o recs, <<>>)} \cup
         {Cut(before \o SubSeq(recs, 1, n)) : n \in 0..(Len(recs) - 1)}

Load(recs, mode) ==
    IF Cardinality(KeysIn(recs)) > MaxUniqueKeys THEN {Refused} ELSE Add(<<>>, recs, mode)

Delete(keys) ==
    LET at == {i \in DOMAIN pool : pool[i].key \in keys}
    IN  IF \E key \in keys : ~ValidKey(key) THEN {Refused}
        ELSE {Done(Without(pool, at), Cardinality(at))} \cup
             {Cut(Without(pool, {i \in at : i <= n})) : n \in 0..(Len(pool) - 1)}

(* entries and read: the last record of a key counts. *)
Entry(key) == pool[Max(At(pool, key))].value

(***************************************************************************)
(* Commands                                                                *)
(***************************************************************************)
(* Mutation: lines are written as they are read. *)
parse_key_value_lines_Streaming(lines) ==
    LET bad == {i \in DOMAIN lines : lines[i] = NoLine}
    IN  [ok |-> bad = {} \/ Min(bad) > 1,
         recs |-> IF bad = {} THEN lines ELSE SubSeq(lines, 1, Min(bad) - 1)]

parse_key_value_lines(lines) == [ok |-> NoLine \notin ToSet(lines), recs |-> lines]

resolve_vm_id(option) == IF option # <<>> THEN option ELSE Detected

ReportWith(cmd, id, data) ==
    IF id = <<>> \/ ~data.ok THEN <<>>
    ELSE IF cmd.name = "report_success" THEN <<success(cmd.agent, id[1], data.pairs)>>
    ELSE <<failure(cmd.agent, id[1], cmd.reason, cmd.url, data.pairs)>>

(* The report of a command, as options: for want of a VM id or of data that  *)
(* can be read there is none.                                              *)
ReportOf(cmd) ==
    ReportWith(cmd, resolve_vm_id(cmd.vm_id), parse_supporting_data(cmd.raw))

(* What DiagnosticReader makes of a record; see Diagnostics. *)
EntryOf(r) ==
    IF r.key = ReportKey /\ from_str(r.value).ok THEN "report"
    ELSE IF r.key = DiagKey THEN "diagnostic" ELSE "raw"

(* Reads change nothing; what they print is out. *)
Answer(out) == {Done(pool, out), Cut(pool)}

(* The three looks of info take no lock; here they see the same pool. *)
info == Answer([records |-> Len(pool), empty |-> pool = <<>>, stale |-> stale])

(* --name and --kind choose among the diagnostics only. *)
diagnostics_entries(wanted) ==
    Answer(SelectSeq([i \in DOMAIN pool |-> EntryOf(pool[i])],
                     LAMBDA e : e # "diagnostic" \/ wanted))

dump == Answer(pool)

entries == Answer({Rec(key, Entry(key)) : key \in KeysIn(pool)})

read(key) ==
    IF ~ValidKey(key) THEN {Refused}
    ELSE IF At(pool, key) = {} THEN {[Refused EXCEPT !.code = Exit.not_found], Cut(pool)}
    ELSE Answer(Entry(key))

is_stale == {[Refused EXCEPT !.code = IF stale THEN Exit.ok ELSE Exit.not_found], Cut(pool)}

(* An event is appended in the chunks DiagnosticWriter makes of it. *)
emit(id, chunks) ==
    IF id = <<>> \/ chunks = <<>> THEN {Refused} ELSE Add(pool, chunks, "safe")

Reporting == {"report_success", "report_failure"}

(* What a command can do: a set of [pool, code, out].  text is its report,   *)
(* <<>> if it has none.                                                    *)
dispatch(cmd, text) ==
    CASE cmd.name = "info" -> info
      [] cmd.name = "dump" -> dump
      [] cmd.name = "dump_parse" -> diagnostics_entries(cmd.wanted)
      [] cmd.name = "entries" -> entries
      [] cmd.name = "read" -> read(cmd.key)
      [] cmd.name = "write" -> Insert(cmd.rec, cmd.mode)
      [] cmd.name = "write_append" -> Add(pool, <<cmd.rec>>, cmd.mode)
      [] cmd.name \in {"load", "append_multiple"} ->
            LET parsed == parse_key_value_lines(cmd.lines)
            IN  IF ~parsed.ok THEN {Refused}
                ELSE IF cmd.name = "load" THEN Load(parsed.recs, cmd.mode)
                ELSE Add(pool, parsed.recs, cmd.mode)
      [] cmd.name = "emit" -> emit(resolve_vm_id(cmd.vm_id), cmd.chunks)
      [] cmd.name = "delete" -> Delete(cmd.keys)
      [] cmd.name = "clear" -> {Done(<<>>, <<>>), Cut(pool)}
      [] cmd.name = "clear_if_stale" -> {Done(IF stale THEN <<>> ELSE pool, <<>>), Cut(pool)}
      [] cmd.name = "is_stale" -> is_stale
      [] cmd.name \in Reporting ->
            IF text = <<>> THEN {Refused} ELSE Insert(Rec(ReportKey, text), cmd.mode)

Command ==
    [name : {"info", "dump", "entries", "clear", "clear_if_stale", "is_stale"}]
    \cup [name : {"dump_parse"}, wanted : BOOLEAN]
    \cup [name : {"emit"}, vm_id : VmIds, chunks : Chunks]
    \cup [name : {"read"}, key : Key]
    \cup [name : {"delete"}, keys : {ks \in SUBSET Key : Cardinality(ks) \in 1..2}]
    \cup [name : {"write", "write_append"}, rec : {Rec(k, v) : k \in Key, v \in Values}, mode : Modes]
    \cup [name : {"load", "append_multiple"}, lines : Lines, mode : {"safe"}]
    \cup [name : {"report_success"}, agent : Agents, vm_id : VmIds, raw : Raws, mode : {"safe"}]
    \cup [name : {"report_failure"}, agent : Agents, vm_id : VmIds, reason : Reasons, url : Urls,
          raw : {<<>>, <<"k", "=", "v">>}, mode : Modes]

run(cmd) ==
    /\ commands < MaxCommands /\ commands' = commands + 1
    /\ \E report \in {IF cmd.name \in Reporting THEN ReportOf(cmd) ELSE <<>>} :
       \E text \in {IF report = <<>> THEN <<>> ELSE encode(report[1])} :
       \E r \in dispatch(cmd, text) :
             /\ pool' = r.pool
             /\ stale' = (stale /\ r.pool = pool)
             /\ last' = [cmd |-> cmd, before |-> pool, after |-> r.pool, code |-> r.code, out |-> r.out]
             /\ newest' = IF report # <<>> /\ r.code = Exit.ok THEN [text |-> text, meant |-> report[1]]
                          ELSE IF SameOfKey(ReportKey, r.pool, pool) THEN newest
                          ELSE NoReport
    /\ UNCHANGED others

(***************************************************************************)
(* The others on the pool                                                  *)
(***************************************************************************)
Others == others < MaxOthers /\ others' = others + 1 /\ stale' = FALSE /\ UNCHANGED <<last, commands>>

(* Mutation: a pool that has no room for the key does without the report. *)
write_provisioning_report_NoAppend(report) ==
    /\ Others /\ newest' = report
    /\ LET cut == Rec(ReportKey, Truncated(report.text, Limit["safe"]))
       IN  pool' = IF At(pool, ReportKey) = {} /\ Cardinality(KeysIn(pool)) >= MaxUniqueKeys
                   THEN pool ELSE insert(pool, cut)

(* azure-init's report layer: what does not fit is cut, and a pool that is  *)
(* full gets the report all the same.                                      *)
write_provisioning_report(report) ==
    /\ Others /\ newest' = report
    /\ pool' = insert(pool, Rec(ReportKey, Truncated(report.text, Limit["safe"])))

Identities == {v[1] : v \in VmIds \ {<<>>}}

(* What libazureinit reports, as a text, and what it means by it. *)
SuccessReports ==
    {[text |-> encoded_success_report(a, id, o), meant |-> success(a, id, o)] :
        a \in Agents, id \in Identities, o \in Optional}
FailureReports ==
    UNION {{[text |-> as_encoded_report(a, id, e.reason, d),
             meant |-> failure(a, id, e.reason, <<DocumentationUrl>>, d)] :
                a \in Agents, id \in Identities, d \in SetToSeqs(e.supporting_data)} : e \in Errors}

ForeignAppend(r) ==
    /\ Others /\ pool' = Append(pool, r)
    /\ newest' = IF r.key = ReportKey THEN NoReport ELSE newest

Next ==
    \/ \E cmd \in Command : run(cmd)
    \/ \E report \in SuccessReports \cup FailureReports : write_provisioning_report(report)
    \/ \E k \in Key \ {<<>>}, v \in Values : ForeignAppend(Rec(k, v))

Spec == Init /\ [][Next]_vars

-----------------------------------------------------------------------------
(* Exit codes 1 and 2 promise that nothing was written, and 0 that all of a *)
(* file's lines were: a bad line anywhere in it, a key or a value that does *)
(* not fit, or one key too many is found before the first write             *)
(* (load_from_reader, append_multiple_from_reader).                        *)
AllOrRefused ==
    /\ last.code \in {Exit.not_found, Exit.usage_or_validation} => last.after = last.before
    /\ (last.cmd.name \in {"load", "append_multiple"} /\ last.code = Exit.ok) =>
          last.after = (IF last.cmd.name = "load" THEN <<>> ELSE last.before) \o last.cmd.lines

(* The documented reading of --supporting-data: fields between commas, each *)
(* empty or key=value; a value is in quotes, which may hold commas, or does  *)
(* not begin with one.  For each way to choose the commas, its fields.      *)
Comma(raw, cs, n) == Nth(cs \cup {0, Len(raw) + 1}, n + 1)
Between(raw, cs) ==
    [n \in 1..(Cardinality(cs) + 1) |-> SubSeq(raw, Comma(raw, cs, n - 1) + 1, Comma(raw, cs, n) - 1)]
Reads(field, key, value) ==
    /\ key # <<>> /\ ToSet(key) \cap {"=", ","} = {}
    /\ \/ \E q \in QuoteSigns : q \notin ToSet(value) /\ field = Field(key, <<q>> \o value \o <<q>>)
       \/ /\ field = Field(key, value) /\ "," \notin ToSet(value)
          /\ value # <<>> => Head(value) \notin QuoteSigns
Beginnings(field) == {SubSeq(field, 1, n) : n \in 0..Len(field)}
Endings(field) == {SubSeq(field, m, n) : m \in 2..(Len(field) + 1), n \in (Len(field) - 1)..Len(field)}
ReadingsOf(field) ==
    {r \in [key : Beginnings(field), value : Endings(field)] : Reads(field, r.key, r.value)}
Parts(raw, cs) ==
    LET parts == Between(raw, cs) IN Slice(parts, {n \in DOMAIN parts : parts[n] # <<>>})
Reading(parts) == [n \in DOMAIN parts |-> CHOOSE r \in ReadingsOf(parts[n]) : TRUE]
Readings(raw) ==
    {Reading(Parts(raw, cs)) :
        cs \in {ds \in SUBSET Places(raw, ",") :
                    \A n \in DOMAIN Parts(raw, ds) : ReadingsOf(Parts(raw, ds)[n]) # {}}}

(* A reading is found whenever there is one, and it is the only one         *)
(* (parse_supporting_data).                                                *)
SupportingDataRead ==
    last.cmd.name \in Reporting =>
        Readings(last.cmd.raw) = LET data == parse_supporting_data(last.cmd.raw)
                                 IN  IF data.ok THEN {data.pairs} ELSE {}

ReportAt == CHOOSE i \in At(pool, ReportKey) : TRUE

(* "Reports replace the prior provisioning result" (doc/diagnostics.md),    *)
(* however many there were, in a full pool too, whoever wrote them.         *)
NewestReportStands ==
    newest # NoReport =>
        /\ Cardinality(At(pool, ReportKey)) = 1
        /\ pool[ReportAt].value \in {newest.text, Truncated(newest.text, Limit["safe"])}

(* "Do not use standard report field names" (with_extra). *)
Plain(report) ==
    \A i \in DOMAIN report.extra : ~\E name \in Standard : report.extra[i].key = <<name>>

(* What either encoder writes whole, the parser reads back as it was meant,  *)
(* with any text in its fields (encode, encode_report, from_str).           *)
ReportReadBack ==
    newest # NoReport /\ pool[ReportAt].value = newest.text /\ Plain(newest.meant)
        => from_str(newest.text) = [ok |-> TRUE, of |-> newest.meant]

Begins(s, t) == Len(s) <= Len(t) /\ s = SubSeq(t, 1, Len(s))
BeginsOption(s, t) == s = <<>> \/ (t # <<>> /\ Begins(s[1], t[1]))

Says(got, meant) ==
    /\ \A name \in Standard \ {"documentation_url"} : got[name] = meant[name]
    /\ BeginsOption(got.documentation_url, meant.documentation_url)
    /\ meant.result = "error" => got.extra = meant.extra
    /\ Len(got.extra) <= Len(meant.extra)
    /\ \A i \in DOMAIN got.extra :
          /\ got.extra[i].key = meant.extra[i].key
          /\ Begins(got.extra[i].value, meant.extra[i].value)
          /\ i < Len(got.extra) => got.extra[i] = meant.extra[i]
SaysOrMalformed(parsed, meant) == parsed.ok => Says(parsed.of, meant)

(* A report that azure-init had to cut is no report any more, or it says     *)
(* the same: only what ends it, the URL or the extras of a success, can be   *)
(* shorter (write_provisioning_report).                                    *)
TruncationShows ==
    newest # NoReport /\ Plain(newest.meant) =>
        SaysOrMalformed(from_str(pool[ReportAt].value), newest.meant)
=============================================================================
