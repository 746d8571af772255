--------------------------- MODULE MCDiagnostics ---------------------------
(* Values of Diagnostics' constants for TLC. *)
EXTENDS Diagnostics

A == Letter("a", 1)
E == Letter("é", 2)

MCNumeral == <<"0", "1", "2", "3", "4">>
MCUuid == {"vm", "u1", "u2"}
MCUnfit == {"", "too long", "a|b"}
MCWide == {"wide"}

Emission(kind, name, id, payload, encoding, result, duration) ==
    [kind |-> kind, name |-> name, id |-> id, payload |-> payload, encoding |-> encoding,
     result |-> result, duration |-> duration]

(* One operation begun with a payload of two chunks and finished with an    *)
(* empty one, events of two chunks and of one chunk too many, plain and     *)
(* compressed, and what the writer refuses.                                 *)
MCEmissions == {
    Emission("start", "op", "u1", <<A, E>>, "none", "", 0),
    Emission("finish", "op", "u1", <<>>, "none", "error", 4),
    Emission("start", "wide", "u1", <<A, A, A, A, E>>, "none", "", 0),
    Emission("event", "wide", "u2", <<A, A, E>>, "none", "ok", 1),
    Emission("event", "op", "u2", <<A, Nul>>, "gz+b64", "", 2),
    Emission("event", "op", "u2", <<A, E, E, A>>, "none", "", 0),
    Emission("event", "op", "u2", <<NotUtf8>>, "none", "", 0),
    Emission("start", "a|b", "u1", <<A>>, "none", "", 0),
    Emission("event", "op", "u2", <<A, A>>, "other", "", 0)}

Meta(name, type, msg_i, result, duration) ==
    [name |-> name, type |-> type, ts |-> "0", msg_i |-> msg_i, result |-> result, duration |-> duration]
CloudRecord(key, meta, text) == [key |-> key, value |-> [meta |-> meta, text |-> text]]

OldKey(kind) == <<"CLOUD_INIT", "0", kind, "stage", "u1">>
NewKey(kind) == <<"CLOUD_INIT", "0", kind, "stage", "vm", "u2">>
MCMessages == {
    <<CloudRecord(OldKey("start") \o <<"0">>, Meta("stage", "start", "0", "", ""), <<A, EscapeA>>),
      CloudRecord(OldKey("start") \o <<"1">>, Meta("stage", "start", "1", "", ""), <<EscapeB>>)>>,
    <<CloudRecord(NewKey("compressed"), Meta("stage", "compressed", "", "", ""),
                  <<Envelope("gz+b64", <<A, A>>)>>)>>,
    <<CloudRecord(NewKey("finish") \o <<"0">>, Meta("stage", "finish", "0", "FAIL", "3"), <<A>>)>>}

Native(fields) == [key |-> fields, value |-> Plain(<<A>>)]
MCOthers == {
    Native(<<"hostname">>),
    Native(<<"DIAG_V2", "x", "0">>),
    Native(<<"DIAG", "agent", "vm", "event", "op", "u1", "0", "none", "", "", "x">>),
    Native(<<"DIAG", "other", "vm", "start", "op", "u1", "0", "none", "ok", "", "0">>),
    Native(<<"DIAG", "other", "vm", "event", "op", "u1", "0", "none", "", "", "1">>),
    CloudRecord(OldKey("finish"), Meta("stage", "finish", "", "WARN", "1"), <<A>>),
    CloudRecord(OldKey("start"), Meta("stage", "start", "0", "", ""), <<A>>)}

MCReports == {[meta |-> [NoMeta EXCEPT !.name = "report"], text |-> <<>>], Plain(<<A>>)}
=============================================================================
