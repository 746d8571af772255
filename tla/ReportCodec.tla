----------------------------- MODULE ReportCodec -----------------------------
(***************************************************************************)
(* Provisioning reports as text: the encoder and the parser of             *)
(* libazureinit-kvp (report.rs), and the encoder of libazureinit           *)
(* (health.rs, error.rs), which shares no code with them.                  *)
(*                                                                         *)
(* A text is a sequence of letters.  The name of a standard field and a    *)
(* word of the format (success, error, a PPS type) are one letter each: to  *)
(* be cut inside is to be without it, for no reader takes a part of them.   *)
(* So is a timestamp.                                                      *)
(***************************************************************************)
EXTENDS Naturals, Sequences, FiniteSets, SequencesExt, FiniteSetsExt

Quote == "\""
DocumentationUrl == <<"u", "r", "l">>
Timestamp == "2026-06-17T00:00:00+00:00"
PpsTypes == {"None", "PreprovisionedOSDisk", "Running", "Savable", "Unknown"}
Standard == {"result", "agent", "vm_id", "timestamp", "pps_type", "reason", "documentation_url"}

Places(text, l) == {i \in DOMAIN text : text[i] = l}
(* Bytes: "é" is the letter that takes two. *)
Size(text) == Len(text) + Cardinality(Places(text, "é"))
FirstOr(is, other) == IF is = {} THEN other ELSE Min(is)
Nth(is, n) == CHOOSE i \in is : Cardinality({j \in is : j <= i}) = n
Slice(text, is) == FlattenSeq([i \in DOMAIN text |-> IF i \in is THEN <<text[i]>> ELSE <<>>])

(* A field: key=value.  None is <<>>, Some(v) is <<v>>. *)
Field(key, value) == key \o <<"=">> \o value
Fields(key, option) == IF option = <<>> THEN <<>> ELSE <<Field(key, option[1])>>
Extras(extra) == [i \in DOMAIN extra |-> Field(extra[i].key, extra[i].value)]

-----------------------------------------------------------------------------
(* Writing: csv::Writer with '|' and QuoteStyle::Necessary, its newline     *)
(* popped.                                                                 *)

Doubled(field) ==
    FlattenSeq([i \in DOMAIN field |-> IF field[i] = Quote THEN <<Quote, Quote>> ELSE <<field[i]>>])

(* Mutation: only the separator makes quotes necessary. *)
csv_field_PipeOnly(field) ==
    IF "|" \notin ToSet(field) THEN field ELSE <<Quote>> \o Doubled(field) \o <<Quote>>

csv_field(field) ==
    IF ToSet(field) \cap {"|", Quote, "\r", "\n"} = {} THEN field
    ELSE <<Quote>> \o Doubled(field) \o <<Quote>>

encode_report(data) ==
    Tail(FlattenSeq([i \in DOMAIN data |-> <<"|">> \o csv_field(data[i])]))

(* ProvisioningReport: the agent, the reason and so on are texts. *)
Report(result, agent, vm_id, timestamp, pps_type, reason, url, extra) ==
    [result |-> result, agent |-> agent, vm_id |-> vm_id, timestamp |-> timestamp,
     pps_type |-> pps_type, reason |-> reason, documentation_url |-> url, extra |-> extra]
success(agent, vm_id, extra) ==
    Report("success", agent, vm_id, <<Timestamp>>, "None", <<>>, <<>>, extra)
failure(agent, vm_id, reason, url, extra) ==
    Report("error", agent, vm_id, <<Timestamp>>, "None", <<reason>>, url, extra)

encode(r) ==
    LET result == <<Field(<<"result">>, <<r.result>>)>>
        agent == <<Field(<<"agent">>, r.agent)>>
        vm == <<Field(<<"pps_type">>, <<r.pps_type>>), Field(<<"vm_id">>, r.vm_id),
                Field(<<"timestamp">>, r.timestamp)>>
    IN  encode_report(
            IF r.result = "success" THEN result \o agent \o vm \o Extras(r.extra)
            ELSE result \o Fields(<<"reason">>, r.reason) \o agent \o Extras(r.extra) \o vm
                        \o Fields(<<"documentation_url">>, r.documentation_url))

(* libazureinit's encoders; option is at most one pair, supporting_data a    *)
(* map, which comes out in any order.                                      *)
encoded_success_report(agent, vm_id, option) ==
    encode_report(<<Field(<<"result">>, <<"success">>), Field(<<"agent">>, agent),
                    Field(<<"pps_type">>, <<"None">>), Field(<<"vm_id">>, vm_id),
                    Field(<<"timestamp">>, <<Timestamp>>)>> \o Extras(option))

(* Mutation: what every report ends with comes before the supporting data. *)
as_encoded_report_Early(agent, vm_id, reason, supporting_data) ==
    encode_report(<<Field(<<"result">>, <<"error">>), Field(<<"agent">>, agent),
                    Field(<<"pps_type">>, <<"None">>), Field(<<"vm_id">>, vm_id),
                    Field(<<"timestamp">>, <<Timestamp>>), Field(<<"reason">>, reason)>>
                  \o Extras(supporting_data))

as_encoded_report(agent, vm_id, reason, supporting_data) ==
    encode_report(<<Field(<<"result">>, <<"error">>), Field(<<"reason">>, reason),
                    Field(<<"agent">>, agent)>>
                  \o Extras(supporting_data)
                  \o <<Field(<<"pps_type">>, <<"None">>), Field(<<"vm_id">>, vm_id),
                       Field(<<"timestamp">>, <<Timestamp>>),
                       Field(<<"documentation_url">>, DocumentationUrl)>>)

-----------------------------------------------------------------------------
(* Reading. *)

(* quoting[i]: the state of validate_report_quoting behind letter i. *)
Quoting(text) ==
    LET quoting[i \in 0..Len(text)] ==
            IF i = 0 THEN "start"
            ELSE LET state == quoting[i - 1]
                     l == text[i]
                 IN  CASE state = "malformed" \/ l = "NUL" -> "malformed"
                       [] state = "quoted" /\ l # "NUL" -> IF l = Quote THEN "closed" ELSE "quoted"
                       [] state \in {"start", "closed"} /\ l = Quote -> "quoted"
                       [] state \in {"start", "unquoted", "closed"} /\ l = "|" -> "start"
                       [] state \in {"start", "unquoted"} /\ l \notin {"|", Quote, "\r", "\n", "NUL"}
                             -> "unquoted"
                       [] OTHER -> "malformed"
    IN  quoting

validate_report_quoting(text) == Quoting(text)[Len(text)] \notin {"quoted", "malformed"}

(* A field without its quotes; of two quotes in a row one stays. *)
Unquoted(field) ==
    IF field = <<>> \/ Head(field) # Quote THEN field
    ELSE LET inner == SubSeq(field, 2, Len(field) - 1)
             second == {i \in Places(inner, Quote) :
                            Cardinality({j \in Places(inner, Quote) : j <= i}) % 2 = 0}
         IN  Slice(inner, DOMAIN inner \ second)

(* csv::Reader, for text whose quoting is good: the letters between bars. *)
Bars(text, quoting) == {i \in Places(text, "|") : quoting[i] = "start"} \cup {0, Len(text) + 1}
Cells(text, bars) ==
    [n \in 1..(Cardinality(bars) - 1) |->
        Unquoted(SubSeq(text, Nth(bars, n) + 1, Nth(bars, n + 1) - 1))]
csv_record(text) == Cells(text, Bars(text, Quoting(text)))

(* A field is split at its first '='; without one it has no key.           *)
SplitAt(field, at) == [key |-> SubSeq(field, 1, at - 1), value |-> SubSeq(field, at + 1, Len(field))]
split_once(field) == SplitAt(field, FirstOr(Places(field, "="), 1))

Stripped(text) ==
    IF text = <<>> \/ Last(text) # "\n" THEN text
    ELSE IF Len(text) > 1 /\ text[Len(text) - 1] = "\r" THEN SubSeq(text, 1, Len(text) - 2)
    ELSE Front(text)

Malformed == [ok |-> FALSE, of |-> success(<<>>, <<>>, <<>>)]

Named(fields, name) == {i \in DOMAIN fields : fields[i].key = <<name>>}
take_field(fields, name) ==
    IF Named(fields, name) = {} THEN <<>> ELSE <<fields[Min(Named(fields, name))].value>>

(* A report with these fields, of which those in standard are its own.      *)
Typed(fields, standard, result) ==
    LET timestamp == take_field(fields, "timestamp")
        pps_type == take_field(fields, "pps_type")
        own(name) == IF name \in standard THEN take_field(fields, name) ELSE <<>>
        others == {n \in DOMAIN fields : ~\E name \in standard : fields[n].key = <<name>>}
    IN  IF \/ \E n \in DOMAIN fields : fields[n].key = <<>>
           \/ \E name \in standard : Cardinality(Named(fields, name)) > 1
           \/ \E name \in standard \ {"documentation_url"} : Named(fields, name) = {}
           \/ result \notin {<<<<"success">>>>, <<<<"error">>>>}
           \/ timestamp # <<<<Timestamp>>>>
           \/ pps_type \notin {<<<<t>>>> : t \in PpsTypes}
        THEN Malformed
        ELSE [ok |-> TRUE,
              of |-> Report(result[1][1], take_field(fields, "agent")[1],
                            take_field(fields, "vm_id")[1], timestamp[1], pps_type[1][1],
                            own("reason"), own("documentation_url"), Slice(fields, others))]

FromFields(fields) ==
    Typed(fields, IF take_field(fields, "result") = <<<<"error">>>> THEN Standard
                  ELSE Standard \ {"reason", "documentation_url"},
          take_field(fields, "result"))
FromRecord(record) == FromFields([n \in DOMAIN record |-> split_once(record[n])])
FromText(text) ==
    IF text = <<>> \/ ~validate_report_quoting(text) THEN Malformed ELSE FromRecord(csv_record(text))

(* ProvisioningReport::from_str. *)
from_str(value) == FromText(Stripped(value))

(* write_provisioning_report's cut: max_value_size, or less to end between  *)
(* letters.                                                                *)
Truncated(text, max) ==
    SubSeq(text, 1, Max({n \in 0..Len(text) : Size(SubSeq(text, 1, n)) <= max}))

-----------------------------------------------------------------------------
(* The --supporting-data of the command line (cli.rs).                     *)

QuoteSigns == {"'", Quote}
Behind(raw, from, letters) == {i \in from..Len(raw) : raw[i] \in letters}

(* Mutation: a quote may stand anywhere in a value. *)
FieldEnd_AnyQuote(raw, from) ==
    LET equals == FirstOr(Behind(raw, from, {"=", ","}), Len(raw) + 1)
        opened == FirstOr(Behind(raw, equals + 1, QuoteSigns \cup {","}), Len(raw) + 1)
    IN  IF equals > Len(raw) \/ raw[equals] = "," THEN equals
        ELSE IF opened > Len(raw) \/ raw[opened] = "," THEN opened
        ELSE LET closed == FirstOr(Behind(raw, opened + 1, {raw[opened]}), 0)
             IN  IF closed = 0 \/ (closed < Len(raw) /\ raw[closed + 1] # ",") THEN 0
                 ELSE closed + 1

(* split_supporting_data_fields: where the field that begins at `from` is    *)
(* over, 0 for an error.                                                   *)
FieldEnd(raw, from) ==
    LET equals == FirstOr(Behind(raw, from, {"=", ","}), Len(raw) + 1)
    IN  IF equals > Len(raw) \/ raw[equals] = "," THEN equals
        ELSE IF equals = Len(raw) \/ raw[equals + 1] \notin QuoteSigns
        THEN FirstOr(Behind(raw, equals + 1, {","}), Len(raw) + 1)
        ELSE LET closed == FirstOr(Behind(raw, equals + 2, {raw[equals + 1]}), 0)
             IN  IF closed = 0 \/ (closed < Len(raw) /\ raw[closed + 1] # ",") THEN 0
                 ELSE closed + 1

unquote(value) ==
    IF Len(value) >= 2 /\ Head(value) \in QuoteSigns /\ Last(value) = Head(value)
    THEN SubSeq(value, 2, Len(value) - 1) ELSE value

(* The fields, one after the other; `to` is 0 in the last if it is an error. *)
Span(raw, from) == [from |-> from, to |-> FieldEnd(raw, from)]
split_supporting_data_fields(raw) ==
    LET span[n \in 0..Len(raw)] ==
            IF n = 0 THEN <<Span(raw, 1)>>
            ELSE IF Last(span[n - 1]).to \notin DOMAIN raw THEN span[n - 1]
            ELSE Append(span[n - 1], Span(raw, Last(span[n - 1]).to + 1))
    IN  span[Len(raw)]

Unquote(pair) == [pair EXCEPT !.value = unquote(@)]
Pairs(fields) ==
    IF \E i \in DOMAIN fields : split_once(fields[i]).key = <<>>
    THEN [ok |-> FALSE, pairs |-> <<>>]
    ELSE [ok |-> TRUE, pairs |-> [i \in DOMAIN fields |-> Unquote(split_once(fields[i]))]]
FromSpans(raw, spans) ==
    LET fields == [i \in DOMAIN spans |-> SubSeq(raw, spans[i].from, spans[i].to - 1)]
    IN  IF Last(spans).to = 0 THEN [ok |-> FALSE, pairs |-> <<>>]
        ELSE Pairs(Slice(fields, {i \in DOMAIN fields : fields[i] # <<>>}))

parse_supporting_data(raw) == FromSpans(raw, split_supporting_data_fields(raw))
=============================================================================
