---------------------------- MODULE KvpCliProofs ----------------------------
(***************************************************************************)
(* Proofs about KvpCli for any pool, any commands and any other writers:   *)
(* what the exit codes promise, that the newest report stands alone, that   *)
(* it is read back as it was meant, whole or cut, and that the parser of    *)
(* --supporting-data finds the documented reading of any text.             *)
(***************************************************************************)
EXTENDS KvpCli, ReportCodecProofs

-----------------------------------------------------------------------------
(* What a command can do, by its name. *)

LEMMA Dispatched ==
    ASSUME NEW cmd, NEW text
    PROVE  /\ cmd.name = "info" => dispatch(cmd, text) = info
           /\ cmd.name = "dump" => dispatch(cmd, text) = dump
           /\ cmd.name = "dump_parse" => dispatch(cmd, text) = diagnostics_entries(cmd.wanted)
           /\ cmd.name = "entries" => dispatch(cmd, text) = entries
           /\ cmd.name = "read" => dispatch(cmd, text) = read(cmd.key)
           /\ cmd.name = "write" => dispatch(cmd, text) = Insert(cmd.rec, cmd.mode)
           /\ cmd.name = "write_append" => dispatch(cmd, text) = Add(pool, <<cmd.rec>>, cmd.mode)
<1>1. cmd.name = "info" => dispatch(cmd, text) = info
  BY Zenon DEF dispatch, Reporting
<1>2. cmd.name = "dump" => dispatch(cmd, text) = dump
  BY Zenon DEF dispatch, Reporting
<1>3. cmd.name = "dump_parse" => dispatch(cmd, text) = diagnostics_entries(cmd.wanted)
  BY Zenon DEF dispatch, Reporting
<1>4. cmd.name = "entries" => dispatch(cmd, text) = entries
  BY Zenon DEF dispatch, Reporting
<1>5. cmd.name = "read" => dispatch(cmd, text) = read(cmd.key)
  BY Zenon DEF dispatch, Reporting
<1>6. cmd.name = "write" => dispatch(cmd, text) = Insert(cmd.rec, cmd.mode)
  BY Zenon DEF dispatch, Reporting
<1>7. cmd.name = "write_append" => dispatch(cmd, text) = Add(pool, <<cmd.rec>>, cmd.mode)
  BY Zenon DEF dispatch, Reporting
<1> QED BY <1>1, <1>2, <1>3, <1>4, <1>5, <1>6, <1>7

LEMMA DispatchedOn ==
    ASSUME NEW cmd, NEW text
    PROVE  /\ cmd.name = "emit" => dispatch(cmd, text) = emit(resolve_vm_id(cmd.vm_id), cmd.chunks)
           /\ cmd.name = "delete" => dispatch(cmd, text) = Delete(cmd.keys)
           /\ cmd.name = "clear" => dispatch(cmd, text) = {Done(<<>>, <<>>), Cut(pool)}
           /\ cmd.name = "clear_if_stale" =>
                dispatch(cmd, text) = {Done(IF stale THEN <<>> ELSE pool, <<>>), Cut(pool)}
           /\ cmd.name = "is_stale" => dispatch(cmd, text) = is_stale
           /\ cmd.name = "load" => dispatch(cmd, text) =
                IF ~parse_key_value_lines(cmd.lines).ok THEN {Refused}
                ELSE Load(parse_key_value_lines(cmd.lines).recs, cmd.mode)
           /\ cmd.name = "append_multiple" => dispatch(cmd, text) =
                IF ~parse_key_value_lines(cmd.lines).ok THEN {Refused}
                ELSE Add(pool, parse_key_value_lines(cmd.lines).recs, cmd.mode)
           /\ cmd.name \in Reporting => dispatch(cmd, text) =
                IF text = <<>> THEN {Refused} ELSE Insert(Rec(ReportKey, text), cmd.mode)
<1>1. cmd.name = "emit" => dispatch(cmd, text) = emit(resolve_vm_id(cmd.vm_id), cmd.chunks)
  BY Zenon DEF dispatch, Reporting
<1>2. cmd.name = "delete" => dispatch(cmd, text) = Delete(cmd.keys)
  BY Zenon DEF dispatch, Reporting
<1>3. cmd.name = "clear" => dispatch(cmd, text) = {Done(<<>>, <<>>), Cut(pool)}
  BY Zenon DEF dispatch, Reporting
<1>4. cmd.name = "clear_if_stale" => dispatch(cmd, text) = {Done(IF stale THEN <<>> ELSE pool, <<>>), Cut(pool)}
  BY Zenon DEF dispatch, Reporting
<1>5. cmd.name = "is_stale" => dispatch(cmd, text) = is_stale
  BY ZenonT(60) DEF dispatch, Reporting
<1>6. cmd.name = "load" => dispatch(cmd, text) =
                IF ~parse_key_value_lines(cmd.lines).ok THEN {Refused}
                ELSE Load(parse_key_value_lines(cmd.lines).recs, cmd.mode)
  BY Zenon DEF dispatch, Reporting
<1>7. cmd.name = "append_multiple" => dispatch(cmd, text) =
                IF ~parse_key_value_lines(cmd.lines).ok THEN {Refused}
                ELSE Add(pool, parse_key_value_lines(cmd.lines).recs, cmd.mode)
  BY Zenon DEF dispatch, Reporting
<1>8. cmd.name \in Reporting => dispatch(cmd, text) =
                IF text = <<>> THEN {Refused} ELSE Insert(Rec(ReportKey, text), cmd.mode)
  BY Zenon DEF dispatch, Reporting
<1> QED BY <1>1, <1>2, <1>3, <1>4, <1>5, <1>6, <1>7, <1>8

-----------------------------------------------------------------------------
(* Records, by their keys. *)

(* The records of a key are one, r. *)
Alone(s, key, r) == \E p : s[p] = r /\ \A i : i \in At(s, key) <=> i = p

(* The records of a key are the same, at the same places. *)
Kept(s, key, t) == At(t, key) = At(s, key) /\ \A i \in At(s, key) : t[i] = s[i]

(* What an added record is to the records of each key. *)
LEMMA Appended ==
    ASSUME NEW s, IsSeq(s), NEW r, NEW key
    PROVE  /\ IsSeq(Append(s, r))
           /\ r.key # key => Kept(s, key, Append(s, r))
           /\ r.key = key /\ At(s, key) = {} => Alone(Append(s, r), key, r)
<1> DEFINE n == Len(s)
           t == Append(s, r)
<1>1. PICK S : s \in Seq(S) BY DEF IsSeq
<1>2. s \in Seq(S \cup {r}) /\ r \in S \cup {r} BY <1>1
<1>3. /\ t \in Seq(S \cup {r}) /\ n \in Nat /\ DOMAIN s = 1..n /\ DOMAIN t = 1..(n + 1)
      /\ (\A i \in 1..n : t[i] = s[i]) /\ t[n + 1] = r
  BY <1>1, <1>2
<1>4. 1..(n + 1) = (1..n) \cup {n + 1} BY <1>3
<1> HIDE DEF n, t
<1>5. \A i : i \in At(t, key) <=> (i \in 1..n \/ i = n + 1) /\ t[i].key = key
  BY <1>3, <1>4 DEF At
<1>6. \A i : i \in At(s, key) <=> i \in 1..n /\ s[i].key = key BY <1>3 DEF At
<1>7. r.key # key => Kept(s, key, t) BY <1>3, <1>5, <1>6, ZenonT(30) DEF Kept
<1>8. r.key = key /\ At(s, key) = {} => Alone(t, key, r)
  BY <1>3, <1>5, <1>6 DEF Alone
<1>9. IsSeq(t) BY <1>3 DEF IsSeq
<1> QED BY <1>7, <1>8, <1>9 DEF t

(* Slice keeps the chosen places: of a key's records the chosen one stays  *)
(* alone if no other was chosen.                                           *)
LEMMA SliceKeeps ==
    ASSUME NEW S, NEW s \in Seq(S), NEW K, NEW key, NEW j,
           \A i : i \in DOMAIN s /\ i \in K /\ s[i].key = key <=> i = j
    PROVE  Alone(Slice(s, K), key, s[j])
<1> DEFINE m == Len(s)
           parts == [i \in DOMAIN s |-> IF i \in K THEN <<s[i]>> ELSE <<>>]
           W(n) == {i \in 1..n : i \in K /\ s[i].key = key}
<1>1. m \in Nat /\ DOMAIN s = 1..m /\ \A i \in 1..m : s[i] \in S OBVIOUS
<1>2. Len(parts) = m /\ \A i \in 1..m : parts[i] = IF i \in K THEN <<s[i]>> ELSE <<>>
  <2>1. parts \in Seq(Seq(S)) BY <1>1
  <2>2. DOMAIN parts = 1..m BY <1>1
  <2> QED BY <1>1, <2>1, <2>2
<1>3. m # 0 /\ W(m) = {j} BY <1>1
<1>4. PICK f : Flattens(f, parts, m) /\ Slice(s, K) = f[m]
  <2> HIDE DEF m
  <2>1. Slice(s, K) = FlattenSeq(parts) BY DEF Slice
  <2> HIDE DEF parts
  <2> QED BY <1>1, <1>2, <1>3, <2>1, FlattenGrows
<1> HIDE DEF parts, m
<1> DEFINE h(n) == IF n = 0 THEN <<>> ELSE f[n]
           Fine(n) == /\ h(n) \in Seq(S)
                      /\ W(n) = {} => At(h(n), key) = {}
                      /\ \A i : W(n) = {i} => Alone(h(n), key, s[i])
<1>5. Fine(0) BY DEF At
<1>6. ASSUME NEW n \in 1..m, Fine(n - 1) PROVE Fine(n)
  <2>1. n \in Nat /\ n - 1 \in Nat /\ n # 0 /\ 1..n = (1..(n - 1)) \cup {n} /\ n \notin 1..(n - 1)
    BY <1>1
  <2>2. f[n] = IF n = 1 THEN parts[n] ELSE f[n - 1] \o parts[n] BY <1>4 DEF Flattens
  <2>3. h(n) = h(n - 1) \o parts[n]
    <3>1. parts[n] \in Seq(S)
      <4>1. s[n] \in S /\ parts[n] = IF n \in K THEN <<s[n]>> ELSE <<>> BY <1>1, <1>2
      <4>2. <<s[n]>> \in Seq(S) /\ <<>> \in Seq(S) BY <4>1
      <4> QED BY <4>1, <4>2
    <3>2. <<>> \o parts[n] = parts[n] BY <3>1
    <3>3. n - 1 = 0 <=> n = 1 BY <2>1
    <3>4. CASE n = 1 BY <2>2, <3>2, <3>4
    <3>5. CASE n # 1 BY <2>1, <2>2, <3>3, <3>5
    <3> QED BY <3>4, <3>5
  <2>4. h(n - 1) \in Seq(S) BY <1>6
  <2> DEFINE t == h(n - 1)
  <2>5. CASE n \notin K
    <3>1. W(n) = W(n - 1) BY <2>1, <2>5
    <3>2. h(n) = t
      <4> HIDE DEF h
      <4>1. h(n) = t \o <<>> BY <1>2, <2>3, <2>5
      <4>2. t \o <<>> = t BY <2>4
      <4> QED BY <4>1, <4>2
    <3> QED BY <1>6, <3>1, <3>2
  <2>6. CASE n \in K
    <3> HIDE DEF h
    <3>1. h(n) = Append(t, s[n]) /\ s[n] \in S
      <4>1. s[n] \in S /\ h(n) = t \o <<s[n]>> BY <1>1, <1>2, <2>3, <2>6
      <4>2. t \o <<s[n]>> = Append(t, s[n]) BY <2>4, <4>1
      <4> QED BY <4>1, <4>2
    <3>2. h(n) \in Seq(S) BY <2>4, <3>1
    <3>3. CASE s[n].key # key
      <4>1. W(n) = W(n - 1) BY <2>1, <3>3
      <4>2. At(h(n), key) = At(t, key) /\ \A i \in At(t, key) : h(n)[i] = t[i]
        <5>1. IsSeq(t) BY <2>4 DEF IsSeq
        <5> HIDE DEF t
        <5>2. Kept(t, key, Append(t, s[n])) BY <3>3, <5>1, Appended
        <5> QED BY <3>1, <5>2, Zenon DEF Kept
      <4>3. W(n) = {} => At(h(n), key) = {} BY <1>6, <4>1, <4>2
      <4>4. ASSUME NEW i, W(n) = {i} PROVE Alone(h(n), key, s[i])
        <5>1. Alone(t, key, s[i]) BY <1>6, <4>1, <4>4
        <5> HIDE DEF t, W
        <5> QED BY <4>2, <5>1 DEF Alone
      <4> HIDE DEF t, W
      <4> QED BY <3>2, <4>3, <4>4
    <3>4. CASE s[n].key = key
      <4>1. W(n) = W(n - 1) \cup {n} /\ n \notin W(n - 1) BY <2>1, <2>6, <3>4
      <4> HIDE DEF W
      <4>3. ASSUME NEW i, W(n) = {i} PROVE Alone(h(n), key, s[i])
        <5>1. i = n /\ W(n - 1) = {} BY <4>1, <4>3
        <5>2. At(t, key) = {} BY <1>6, <5>1
        <5> QED BY <2>4, <3>1, <3>4, <5>1, <5>2, Appended DEF IsSeq
      <4> QED BY <3>2, <4>1, <4>3
    <3> QED BY <3>3, <3>4
  <2> QED BY <2>5, <2>6
<1>7. Fine(m)
  <2> DEFINE T == {n \in Nat : Fine(n)}
  <2> HIDE DEF Fine
  <2>1. 0 \in T /\ \A n \in 1..m : n - 1 \in T => n \in T BY <1>5, <1>6
  <2> HIDE DEF T
  <2>2. 0..m \subseteq T BY <1>1, <2>1, UptoInduction
  <2> QED BY <1>1, <2>2 DEF T
<1> QED BY <1>3, <1>4, <1>7

(* insert replaces all the records of its key by one. *)
LEMMA InsertAlone ==
    ASSUME NEW s, IsSeq(s), NEW r
    PROVE  IsSeq(insert(s, r)) /\ Alone(insert(s, r), r.key, r)
<1>1. PICK S : s \in Seq(S) BY DEF IsSeq
<1> DEFINE at == At(s, r.key)
<1>2. CASE at = {}
  <2>1. insert(s, r) = Append(s, r) BY <1>2 DEF insert
  <2> QED BY <1>2, <2>1, Appended
<1>3. CASE at # {}
  <2> DEFINE j == Min(at)
             t == [s EXCEPT ![j] = r]
             K == DOMAIN t \ (at \ {j})
  <2>1. at \subseteq Nat /\ at \subseteq DOMAIN s BY <1>1 DEF At
  <2>2. j \in at BY <1>3, <2>1, Least
  <2>3. insert(s, r) = Slice(t, K) BY <1>3 DEF insert, Without
  <2>4. t \in Seq(S \cup {r}) /\ DOMAIN t = DOMAIN s /\ t[j] = r
        /\ \A i \in DOMAIN s : i # j => t[i] = s[i]
    <3>1. s \in Seq(S \cup {r}) /\ r \in S \cup {r} BY <1>1
    <3> HIDE DEF j
    <3> QED BY <2>1, <2>2, <3>1
  <2>5. \A i : i \in DOMAIN t /\ i \in K /\ t[i].key = r.key <=> i = j
    <3> HIDE DEF j, t
    <3> QED BY <2>1, <2>2, <2>4 DEF At
  <2> HIDE DEF j, t, K
  <2> DEFINE T == S \cup {r}
             key == r.key
  <2> HIDE DEF T, key
  <2>6. t \in Seq(T) /\ \A i : i \in DOMAIN t /\ i \in K /\ t[i].key = key <=> i = j
    BY <2>4, <2>5 DEF T, key
  <2>7. Alone(Slice(t, K), key, t[j]) BY <2>6, SliceKeeps
  <2>8. Slice(t, K) \in Seq(T) BY <2>6, SliceIsSeq
  <2> QED BY <2>3, <2>4, <2>7, <2>8 DEF IsSeq, key
<1> QED BY <1>2, <1>3

-----------------------------------------------------------------------------
(* What the operations of the store leave. *)

(* The pool stays a pool, and codes 1 and 2 leave it as it was. *)
Cautious(r) == IsSeq(r.pool) /\ (r.code \in {1, 2} => r.pool = pool)

LEMMA Answers ==
    ASSUME NEW s
    PROVE  /\ \A out : Done(s, out).pool = s /\ Done(s, out).code = 0
           /\ Cut(s).pool = s /\ Cut(s).code = 3
           /\ Refused.pool = pool /\ Refused.code = 2
BY DEF Done, Cut, Refused, Exit

LEMMA InsertLeaves ==
    ASSUME IsSeq(pool), NEW rec, NEW mode, NEW r \in Insert(rec, mode)
    PROVE  Cautious(r) /\ (r.code = 0 => r.pool = insert(pool, rec))
<1>1. r = Refused \/ r = Cut(pool) \/ r = Done(insert(pool, rec), <<>>)
      \/ \E i \in At(pool, rec.key) : r = Cut([pool EXCEPT ![i] = rec])
  BY DEF Insert
<1>2. CASE r = Refused BY <1>2, Answers DEF Cautious
<1>3. CASE r = Cut(pool) BY <1>3, Answers DEF Cautious
<1>4. CASE r = Done(insert(pool, rec), <<>>)
  <2>1. IsSeq(insert(pool, rec)) BY InsertAlone
  <2>2. r.pool = insert(pool, rec) /\ r.code = 0 BY <1>4, Answers, ZenonT(30)
  <2> QED BY <2>1, <2>2 DEF Cautious
<1>5. ASSUME NEW i \in At(pool, rec.key), r = Cut([pool EXCEPT ![i] = rec])
      PROVE  Cautious(r) /\ r.code # 0
  <2> DEFINE t == [pool EXCEPT ![i] = rec]
  <2>1. IsSeq(t)
    <3>1. PICK S : pool \in Seq(S) BY DEF IsSeq
    <3>2. pool \in Seq(S \cup {rec}) /\ rec \in S \cup {rec} /\ i \in DOMAIN pool
      BY <3>1 DEF At
    <3>3. t \in Seq(S \cup {rec}) BY <3>2
    <3> QED BY <3>3 DEF IsSeq
  <2> HIDE DEF t
  <2>2. r.pool = t /\ r.code = 3 BY <1>5, Answers DEF t
  <2> QED BY <2>1, <2>2 DEF Cautious
<1> QED BY <1>1, <1>2, <1>3, <1>4, <1>5, Answers

LEMMA AddLeaves ==
    ASSUME IsSeq(pool), NEW before, IsSeq(before), NEW recs, IsSeq(recs), NEW mode,
           NEW r \in Add(before, recs, mode)
    PROVE  Cautious(r) /\ (r.code = 0 => r.pool = before \o recs)
<1>1. r = Refused \/ r = Cut(pool) \/ r = Done(before \o recs, <<>>)
      \/ \E n \in 0..(Len(recs) - 1) : r = Cut(before \o SubSeq(recs, 1, n))
  BY DEF Add
<1>2. CASE r = Refused BY <1>2, Answers DEF Cautious
<1>3. CASE r = Cut(pool) BY <1>3, Answers DEF Cautious
<1>4. CASE r = Done(before \o recs, <<>>)
  <2> DEFINE t == before \o recs
  <2>1. IsSeq(t) BY Joined
  <2> HIDE DEF t
  <2>2. r.pool = t /\ r.code = 0 BY <1>4, Answers, ZenonT(30) DEF t
  <2> QED BY <2>1, <2>2 DEF Cautious, t
<1>5. ASSUME NEW n \in 0..(Len(recs) - 1), r = Cut(before \o SubSeq(recs, 1, n))
      PROVE  Cautious(r) /\ r.code # 0
  <2> DEFINE u == SubSeq(recs, 1, n)
             t == before \o u
  <2>1. IsSeq(u) BY Joined
  <2> HIDE DEF u
  <2>2. IsSeq(t) BY <2>1, Joined
  <2> HIDE DEF t
  <2>3. r.pool = t /\ r.code = 3 BY <1>5, Answers DEF t, u
  <2> QED BY <2>2, <2>3 DEF Cautious
<1> QED BY <1>1, <1>2, <1>3, <1>4, <1>5

LEMMA DeleteLeaves ==
    ASSUME IsSeq(pool), NEW keys, NEW r \in Delete(keys)
    PROVE  Cautious(r)
<1>1. r = Refused \/ (\E K, out : r = Done(Without(pool, K), out)) \/ \E K : r = Cut(Without(pool, K))
  BY DEF Delete
<1>2. \A K : IsSeq(Without(pool, K))
  <2>1. PICK S : pool \in Seq(S) BY DEF IsSeq
  <2>2. \A K : Slice(pool, K) \in Seq(S) BY <2>1, SliceIsSeq
  <2> QED BY <2>2 DEF Without, IsSeq
<1>3. CASE r = Refused BY <1>3, Answers DEF Cautious
<1>4. ASSUME NEW K, NEW out, r = Done(Without(pool, K), out) PROVE Cautious(r)
  <2>1. r.pool = Without(pool, K) /\ r.code = 0 BY <1>4, Answers
  <2> QED BY <1>2, <2>1 DEF Cautious
<1>5. ASSUME NEW K, r = Cut(Without(pool, K)) PROVE Cautious(r)
  <2>1. r.pool = Without(pool, K) /\ r.code = 3 BY <1>5, Answers
  <2> QED BY <1>2, <2>1 DEF Cautious
<1> QED BY <1>1, <1>3, <1>4, <1>5

LEMMA AnswerLeaves ==
    ASSUME IsSeq(pool), NEW out, NEW r \in Answer(out)
    PROVE  Cautious(r)
<1>1. r = Done(pool, out) \/ r = Cut(pool) BY DEF Answer
<1>2. r.pool = pool BY <1>1, Answers
<1> QED BY <1>2 DEF Cautious

(* The commands that only look. *)
LEMMA LooksLeave ==
    ASSUME IsSeq(pool), NEW wanted, NEW key,
           NEW r \in info \cup dump \cup diagnostics_entries(wanted) \cup entries
                     \cup read(key) \cup is_stale
    PROVE  Cautious(r)
<1>1. \A code : [Refused EXCEPT !.code = code].pool = pool BY DEF Refused
<1>2. (\E out : r \in Answer(out)) \/ (\E code : r = [Refused EXCEPT !.code = code])
      \/ r = Refused \/ r = Cut(pool)
  BY DEF info, dump, diagnostics_entries, entries, read, is_stale
<1>3. ASSUME NEW code, r = [Refused EXCEPT !.code = code] PROVE Cautious(r)
  BY <1>1, <1>3 DEF Cautious
<1>4. r = Refused \/ r = Cut(pool) => Cautious(r) BY Answers DEF Cautious
<1> QED BY <1>2, <1>3, <1>4, AnswerLeaves

-----------------------------------------------------------------------------
(* What the commands leave. *)

FileCommands == {"load", "append_multiple"}

LEMMA CommandTypes ==
    ASSUME NEW cmd \in Command
    PROVE  /\ cmd.name \in {"info", "dump", "dump_parse", "entries", "read", "write",
                            "write_append", "emit", "delete", "clear", "clear_if_stale",
                            "is_stale"} \cup FileCommands \cup Reporting
           /\ cmd.name \in FileCommands => cmd.lines \in Lines
           /\ cmd.name = "emit" => cmd.chunks \in Chunks
BY DEF Command, FileCommands, Reporting

LEMMA InputsAreSeqs == \A s \in InitialPools \cup Lines \cup Chunks : IsSeq(s)
BY CliAssumption DEF IsSeq

(* A command leaves a pool, and the one it found if it answers 1 or 2; what *)
(* it reads from a file it adds whole, its report it inserts.              *)
LEMMA CommandLeaves ==
    ASSUME IsSeq(pool), NEW cmd \in Command, NEW text, NEW r \in dispatch(cmd, text)
    PROVE  /\ Cautious(r)
           /\ cmd.name \in FileCommands /\ r.code = 0 =>
                r.pool = (IF cmd.name = "load" THEN <<>> ELSE pool) \o cmd.lines
           /\ cmd.name \in Reporting /\ r.code = 0 => r.pool = insert(pool, Rec(ReportKey, text))
<1>1. r = Refused => Cautious(r) /\ r.code # 0 BY Answers DEF Cautious
<1>2. CASE cmd.name \in FileCommands
  <2>1. IsSeq(cmd.lines) BY <1>2, CommandTypes, InputsAreSeqs
  <2> DEFINE parsed == parse_key_value_lines(cmd.lines)
  <2>2. parsed.recs = cmd.lines BY DEF parse_key_value_lines
  <2> HIDE DEF parsed
  <2>3. cmd.name = "load" => r = Refused \/ r \in Add(<<>>, cmd.lines, cmd.mode)
    <3>1. cmd.name = "load" => dispatch(cmd, text) =
              IF ~parsed.ok THEN {Refused} ELSE Load(parsed.recs, cmd.mode)
      BY DispatchedOn DEF parsed
    <3> QED BY <2>2, <3>1 DEF Load
  <2>4. cmd.name = "append_multiple" => r = Refused \/ r \in Add(pool, cmd.lines, cmd.mode)
    <3>1. cmd.name = "append_multiple" => dispatch(cmd, text) =
              IF ~parsed.ok THEN {Refused} ELSE Add(pool, parsed.recs, cmd.mode)
      BY DispatchedOn DEF parsed
    <3> QED BY <2>2, <3>1
  <2>5. CASE cmd.name = "load"
    BY <1>1, <2>1, <2>3, <2>5, AddLeaves, EmptyIsSeq DEF Reporting
  <2>6. CASE cmd.name = "append_multiple"
    BY <1>1, <2>1, <2>4, <2>6, AddLeaves DEF Reporting
  <2> QED BY <1>2, <2>5, <2>6 DEF FileCommands
<1>3. CASE cmd.name \in Reporting
  <2>1. r = Refused \/ r \in Insert(Rec(ReportKey, text), cmd.mode) BY <1>3, DispatchedOn
  <2> QED BY <1>1, <1>3, <2>1, InsertLeaves DEF FileCommands, Reporting
<1>4. ASSUME cmd.name \notin FileCommands \cup Reporting PROVE Cautious(r)
  <2>1. CASE cmd.name = "write"
    <3>1. r \in Insert(cmd.rec, cmd.mode) BY <2>1, Dispatched
    <3> QED BY <3>1, InsertLeaves
  <2>2. CASE cmd.name = "write_append"
    <3>1. r \in Add(pool, <<cmd.rec>>, cmd.mode) BY <2>2, Dispatched
    <3>2. IsSeq(<<cmd.rec>>)
      <4>1. <<cmd.rec>> \in Seq({cmd.rec}) OBVIOUS
      <4> QED BY <4>1 DEF IsSeq
    <3> QED BY <3>1, <3>2, AddLeaves
  <2>3. CASE cmd.name = "emit"
    <3>1. r \in emit(resolve_vm_id(cmd.vm_id), cmd.chunks) BY <2>3, DispatchedOn
    <3>2. r = Refused \/ r \in Add(pool, cmd.chunks, "safe") BY <3>1 DEF emit
    <3>3. IsSeq(cmd.chunks) BY <2>3, CommandTypes, InputsAreSeqs
    <3> QED BY <1>1, <3>2, <3>3, AddLeaves
  <2>4. CASE cmd.name = "delete"
    <3>1. r \in Delete(cmd.keys) BY <2>4, DispatchedOn
    <3> QED BY <3>1, DeleteLeaves
  <2>5. CASE cmd.name \in {"clear", "clear_if_stale"}
    <3>1. r = Cut(pool) \/ \E s \in {<<>>, pool} : r = Done(s, <<>>)
      BY <2>5, DispatchedOn
    <3>2. CASE r = Cut(pool)
      <4>1. r.pool = pool BY <3>2, Answers
      <4> QED BY <4>1 DEF Cautious
    <3>3. ASSUME NEW s \in {<<>>, pool}, r = Done(s, <<>>) PROVE Cautious(r)
      <4>1. r.pool = s /\ r.code = 0 BY <3>3, Answers, ZenonT(30)
      <4>2. IsSeq(s) BY EmptyIsSeq
      <4> QED BY <4>1, <4>2 DEF Cautious
    <3> QED BY <3>1, <3>2, <3>3
  <2>6. CASE cmd.name \in {"info", "dump", "dump_parse", "entries", "read", "is_stale"}
    <3>1. r \in info \cup dump \cup diagnostics_entries(cmd.wanted) \cup entries
                \cup read(cmd.key) \cup is_stale
      BY <2>6, Dispatched, DispatchedOn, ZenonT(30)
    <3> QED BY <3>1, LooksLeave
  <2> QED BY <1>4, <2>1, <2>2, <2>3, <2>4, <2>5, <2>6, CommandTypes
<1> QED BY <1>2, <1>3, <1>4

-----------------------------------------------------------------------------
(* The inductive invariant: the pool is one, the last command kept its       *)
(* promise, and the newest report stands alone while nobody touches it.     *)

Standing ==
    newest # NoReport =>
        \E r : /\ Alone(pool, ReportKey, r)
               /\ r.value \in {newest.text, Truncated(newest.text, Limit["safe"])}

IInv == IsSeq(pool) /\ AllOrRefused /\ Standing

LEMMA Means == IInv => NewestReportStands
<1> SUFFICES ASSUME IInv, newest # NoReport
             PROVE  /\ Cardinality(At(pool, ReportKey)) = 1
                    /\ pool[ReportAt].value \in {newest.text, Truncated(newest.text, Limit["safe"])}
  BY DEF NewestReportStands
<1>1. PICK r : /\ Alone(pool, ReportKey, r)
               /\ r.value \in {newest.text, Truncated(newest.text, Limit["safe"])}
  BY DEF IInv, Standing
<1>2. PICK p : pool[p] = r /\ \A i : i \in At(pool, ReportKey) <=> i = p BY <1>1 DEF Alone
<1>3. At(pool, ReportKey) = {p} BY <1>2
<1>4. ReportAt = p BY <1>3 DEF ReportAt
<1> QED BY <1>1, <1>2, <1>3, <1>4, FS_Singleton

LEMMA InitInv == Init => IInv
<1> SUFFICES ASSUME Init PROVE IInv OBVIOUS
<1>1. IsSeq(pool) BY InputsAreSeqs DEF Init
<1>2. Standing BY DEF Init, Standing
<1>3. AllOrRefused BY DEF Init, AllOrRefused, NoCommand, Exit
<1> QED BY <1>1, <1>2, <1>3 DEF IInv

(* A pool with the same records of a key has the one record of it alone. *)
LEMMA SameAlone ==
    ASSUME NEW s, NEW t, NEW key, NEW r, IsSeq(t), Alone(s, key, r), SameOfKey(key, t, s)
    PROVE  Alone(t, key, r)
<1>1. PICK p : s[p] = r /\ \A i : i \in At(s, key) <=> i = p BY DEF Alone
<1>2. At(s, key) = {p} BY <1>1
<1>3. Cardinality(At(t, key)) = 1 BY <1>2, FS_Singleton DEF SameOfKey
<1>4. IsFiniteSet(At(t, key))
  <2>1. PICK T : t \in Seq(T) BY DEF IsSeq
  <2>2. At(t, key) \subseteq 1..Len(t) /\ Len(t) \in Nat BY <2>1 DEF At
  <2>3. IsFiniteSet(1..Len(t)) BY <2>2, FS_Interval
  <2> QED BY <2>2, <2>3, FS_Subset
<1>5. PICK q : At(t, key) = {q} BY <1>3, <1>4, FS_Singleton
<1>6. {t[i] : i \in {q}} = {s[i] : i \in {p}} BY <1>2, <1>5 DEF SameOfKey
<1>7. t[q] = r BY <1>1, <1>6
<1> QED BY <1>5, <1>7 DEF Alone

LEMMA RunInv ==
    ASSUME IInv, NEW cmd \in Command, run(cmd)
    PROVE  IInv'
<1> DEFINE report == IF cmd.name \in Reporting THEN ReportOf(cmd) ELSE <<>>
           text == IF report = <<>> THEN <<>> ELSE encode(report[1])
<1>1. PICK r \in dispatch(cmd, text) :
             /\ pool' = r.pool
             /\ last' = [cmd |-> cmd, before |-> pool, after |-> r.pool, code |-> r.code, out |-> r.out]
             /\ newest' = IF report # <<>> /\ r.code = Exit.ok
                          THEN [text |-> text, meant |-> report[1]]
                          ELSE IF SameOfKey(ReportKey, r.pool, pool) THEN newest ELSE NoReport
  BY DEF run
<1>2. report # <<>> => cmd.name \in Reporting OBVIOUS
<1> HIDE DEF report, text
<1>3. /\ Cautious(r)
      /\ cmd.name \in FileCommands /\ r.code = 0 =>
            r.pool = (IF cmd.name = "load" THEN <<>> ELSE pool) \o cmd.lines
      /\ cmd.name \in Reporting /\ r.code = 0 => r.pool = insert(pool, Rec(ReportKey, text))
  BY <1>1, CommandLeaves DEF IInv
<1>4. IsSeq(pool') BY <1>1, <1>3 DEF Cautious
<1>5. AllOrRefused'
  <2>1. /\ last'.code = r.code /\ last'.after = r.pool /\ last'.before = pool /\ last'.cmd = cmd
    BY <1>1
  <2> QED BY <1>3, <2>1 DEF AllOrRefused, Cautious, FileCommands, Exit
<1>6. Standing'
  <2>1. CASE report # <<>> /\ r.code = 0
    <3>1. pool' = insert(pool, Rec(ReportKey, text)) BY <1>1, <1>2, <1>3, <2>1
    <3>2. newest'.text = text BY <1>1, <2>1 DEF Exit
    <3>3. Rec(ReportKey, text).key = ReportKey /\ Rec(ReportKey, text).value = text BY DEF Rec
    <3>4. Alone(pool', ReportKey, Rec(ReportKey, text)) BY <3>1, <3>3, InsertAlone DEF IInv
    <3> QED BY <3>2, <3>3, <3>4 DEF Standing
  <2>2. CASE ~(report # <<>> /\ r.code = 0)
    <3>1. newest' = IF SameOfKey(ReportKey, pool', pool) THEN newest ELSE NoReport
      BY <1>1, <2>2 DEF Exit
    <3>2. CASE newest' = NoReport BY <3>2 DEF Standing, NoReport
    <3>3. CASE newest' # NoReport
      <4>1. SameOfKey(ReportKey, pool', pool) /\ newest' = newest /\ newest # NoReport
        BY <3>1, <3>3 DEF NoReport
      <4>2. PICK x : /\ Alone(pool, ReportKey, x)
                     /\ x.value \in {newest.text, Truncated(newest.text, Limit["safe"])}
        BY <4>1 DEF IInv, Standing
      <4>3. Alone(pool', ReportKey, x) BY <1>4, <4>1, <4>2, SameAlone
      <4> QED BY <4>1, <4>2, <4>3 DEF Standing
    <3> QED BY <3>2, <3>3
  <2> QED BY <2>1, <2>2
<1> QED BY <1>4, <1>5, <1>6 DEF IInv

LEMMA ReportInv ==
    ASSUME IInv, NEW report, write_provisioning_report(report)
    PROVE  IInv'
<1> DEFINE r == Rec(ReportKey, Truncated(report.text, Limit["safe"]))
<1>1. pool' = insert(pool, r) /\ newest' = report /\ last' = last
  BY DEF write_provisioning_report, Others
<1>2. r.key = ReportKey /\ r.value = Truncated(report.text, Limit["safe"]) BY DEF Rec
<1> HIDE DEF r
<1>3. IsSeq(pool') /\ Alone(pool', ReportKey, r) BY <1>1, <1>2, InsertAlone DEF IInv
<1>4. AllOrRefused' BY <1>1 DEF IInv, AllOrRefused
<1>5. Standing' BY <1>1, <1>2, <1>3 DEF Standing
<1> QED BY <1>3, <1>4, <1>5 DEF IInv

LEMMA ForeignInv ==
    ASSUME IInv, NEW k, NEW v, ForeignAppend(Rec(k, v))
    PROVE  IInv'
<1> DEFINE r == Rec(k, v)
<1>1. /\ pool' = Append(pool, r) /\ last' = last
      /\ newest' = IF r.key = ReportKey THEN NoReport ELSE newest
  BY DEF ForeignAppend, Others
<1> HIDE DEF r
<1>2. IsSeq(pool') /\ (r.key # ReportKey => Kept(pool, ReportKey, pool'))
  BY <1>1, Appended DEF IInv
<1>3. AllOrRefused' BY <1>1 DEF IInv, AllOrRefused
<1>4. Standing'
  <2>1. CASE r.key = ReportKey BY <1>1, <2>1 DEF Standing, NoReport
  <2>2. CASE r.key # ReportKey
    <3>1. newest' = newest /\ Kept(pool, ReportKey, pool') BY <1>1, <1>2, <2>2
    <3>2. \A x : Alone(pool, ReportKey, x) => Alone(pool', ReportKey, x)
      BY <3>1 DEF Kept, Alone
    <3>3. Standing BY DEF IInv
    <3> QED BY <3>1, <3>2, <3>3 DEF Standing, NoReport
  <2> QED BY <2>1, <2>2
<1> QED BY <1>2, <1>3, <1>4 DEF IInv

(* The pool of an arbitrary history of commands, reports of azure-init and  *)
(* records of others keeps what the two properties below rest on.          *)
THEOREM InductiveInvariant == Spec => []IInv
<1>1. IInv /\ UNCHANGED vars => IInv'
  BY DEF IInv, vars, AllOrRefused, Standing, NoReport
<1>2. IInv /\ Next => IInv'
  BY RunInv, ReportInv, ForeignInv DEF Next
<1> QED BY InitInv, <1>1, <1>2, PTL DEF Spec

(* Whatever a command is given, codes 1 and 2 say that the pool is as it    *)
(* was, and a file that was taken was taken whole.                         *)
THEOREM CodesTellWhatWasWritten == Spec => []AllOrRefused
<1>1. IInv => AllOrRefused BY DEF IInv
<1> QED BY InductiveInvariant, <1>1, PTL

(* The report written last is the only one in the pool, however many were   *)
(* there and whoever wrote them, until somebody touches its key.           *)
THEOREM TheNewestReportStands == Spec => []NewestReportStands
BY InductiveInvariant, Means, PTL

-----------------------------------------------------------------------------
(* What a text says that is cut, at any letter.                             *)

LEMMA CutBegins ==
    ASSUME NEW v, IsSeq(v), NEW x \in 0..Len(v)
    PROVE  Begins(SubSeq(v, 1, x), v)
<1> DEFINE w == SubSeq(v, 1, x)
<1>1. Len(v) \in Nat BY SeqFacts
<1>2. Len(w) = x
  <2>1. x \in Nat /\ x <= Len(v) BY <1>1
  <2> QED BY <2>1, BeginIs
<1>3. Len(w) <= Len(v) /\ w = SubSeq(v, 1, Len(w)) BY <1>1, <1>2
<1> QED BY <1>3 DEF Begins

(* A success. *)
LEMMA SuccessSays ==
    ASSUME NEW agent, IsSeq(agent), NEW vm_id, IsSeq(vm_id), NEW extra, GoodExtra(extra),
           PlainExtra(extra), NEW data, data = Extras(SuccessPairs(agent, vm_id, extra)),
           \A j \in 1..Len(data) : Good(data[j])
    PROVE  /\ from_str(encode_report(data)) = [ok |-> TRUE, of |-> success(agent, vm_id, extra)]
           /\ \A n \in 0..Len(encode_report(data)) :
                 SaysOrMalformed(from_str(SubSeq(encode_report(data), 1, n)),
                                 success(agent, vm_id, extra))
<1> DEFINE P == SuccessPairs(agent, vm_id, extra)
           text == encode_report(data)
           E == Len(extra)
<1>1. IsSeq(extra) /\ E \in Nat BY SeqFacts DEF GoodExtra
<1>2. Listed(data, P) BY ListedSuccess
<1>3. IsSeq(P) /\ Len(P) = 5 + E /\ \A x \in 1..E : P[5 + x] = extra[x]
  BY <1>1, SuccessPairsAre
<1>a. P = SuccessPairs(agent, vm_id, extra) OBVIOUS
<1> HIDE DEF P, E
<1>4. Len(P) # 0 /\ Len(P) \in 1..Len(P) BY <1>1, <1>3
<1>5. Len(data) # 0 BY <1>2, <1>4 DEF Listed
<1>6. from_str(text) = FromFields(P) BY <1>2, <1>5, WholeRead
<1>7. Keyed(P, P, Len(P)) /\ \A j \in 1..Len(P) : P[j].key # <<>> BY <1>2, <1>4, WholeIsKeyed
<1>8. FromFields(P).ok BY <1>4, <1>7, <1>a, SuccessRead
<1>9. from_str(text) = [ok |-> TRUE, of |-> success(agent, vm_id, extra)]
  <2> DEFINE M == Len(P)
  <2>1. PICK ex : /\ FromFields(P) = [ok |-> TRUE, of |-> success(agent, vm_id, ex)]
                  /\ IsSeq(ex) /\ Len(ex) = M - 5
                  /\ \A x \in 1..(M - 5) : ex[x] = P[5 + x]
    BY <1>4, <1>7, <1>8, <1>a, SuccessRead, SMTT(30)
  <2>2. ex = extra
    <3>1. M - 5 = E BY <1>1, <1>3
    <3>2. Len(ex) = Len(extra) BY <2>1, <3>1 DEF E
    <3>3. \A x \in 1..Len(ex) : ex[x] = extra[x] BY <1>3, <2>1, <3>1
    <3> QED BY <1>1, <2>1, <3>2, <3>3, SameSeq
  <2> QED BY <1>6, <2>1, <2>2
<1>10. ASSUME NEW n \in 0..Len(text)
       PROVE  SaysOrMalformed(from_str(SubSeq(text, 1, n)), success(agent, vm_id, extra))
  <2> DEFINE t == SubSeq(text, 1, n)
             got == from_str(t)
             meant == success(agent, vm_id, extra)
  <2> SUFFICES ASSUME got.ok PROVE Says(got.of, meant) BY DEF SaysOrMalformed
  <2>1. PICK M \in 1..Len(P) : \E F : /\ got = FromFields(F)
                                      /\ Keyed(F, P, M) /\ \A j \in 1..M : F[j].key # <<>>
    <3>1. t = SubSeq(encode_report(data), 1, n) /\ n \in 0..Len(encode_report(data))
          /\ from_str(t).ok
      OBVIOUS
    <3> HIDE DEF t
    <3>2. ReadFrom(t, P) BY <1>2, <1>5, <3>1, CutRead
    <3> QED BY <3>2, Zenon DEF ReadFrom
  <2>2. PICK F : got = FromFields(F) /\ Keyed(F, P, M) /\ \A j \in 1..M : F[j].key # <<>>
    BY <2>1
  <2> HIDE DEF got
  <2>3. FromFields(F).ok BY <2>2
  <2>4. 5 <= M /\ \E ex : /\ FromFields(F) = [ok |-> TRUE, of |-> success(agent, vm_id, ex)]
                          /\ IsSeq(ex) /\ Len(ex) = M - 5
                          /\ \A x \in 1..(M - 5) : ex[x] = F[5 + x]
    BY <1>a, <2>2, <2>3, SuccessRead, SMTT(60)
  <2>5. PICK ex : /\ FromFields(F) = [ok |-> TRUE, of |-> success(agent, vm_id, ex)]
                  /\ IsSeq(ex) /\ Len(ex) = M - 5
                  /\ \A x \in 1..(M - 5) : ex[x] = F[5 + x]
    BY <2>4
  <2>6. M \in Nat /\ 5 <= M /\ M - 5 <= E BY <1>1, <1>3, <2>4
  <2>7. ASSUME NEW i \in 1..(M - 5)
        PROVE  /\ ex[i].key = extra[i].key /\ Begins(ex[i].value, extra[i].value)
               /\ i < M - 5 => ex[i] = extra[i]
    <3>1. 5 + i \in 1..M /\ i \in 1..E BY <1>1, <2>6
    <3>2. ex[i] = F[5 + i] /\ P[5 + i] = extra[i] BY <1>3, <2>5, <3>1
    <3>3. OkPair(extra[i]) BY <3>1 DEF GoodExtra, E
    <3>4. F[5 + i].key = P[5 + i].key BY <2>2, <3>1 DEF Keyed
    <3>5. CASE i < M - 5
      <4>1. 5 + i \in 1..(M - 1) BY <2>6, <3>5
      <4>2. ex[i] = extra[i] BY <2>2, <3>2, <4>1 DEF Keyed
      <4>3. Begins(extra[i].value, extra[i].value)
        <5>1. IsSeq(extra[i].value) BY <3>3 DEF OkPair
        <5> DEFINE v == extra[i].value
        <5> HIDE DEF v
        <5>2. IsSeq(v) BY <5>1 DEF v
        <5>3. SubSeq(v, 1, Len(v)) = v /\ Len(v) \in Nat BY <5>2, WholeBegin, SeqFacts
        <5>4. Begins(v, v) BY <5>3 DEF Begins
        <5> QED BY <5>4 DEF v
      <4> QED BY <4>2, <4>3
    <3>6. CASE ~(i < M - 5)
      <4>1. 5 + i = M BY <2>6, <3>6
      <4> DEFINE v == extra[i].value
      <4>2. PICK x \in 0..Len(P[M].value) : F[M] = [key |-> P[M].key, value |-> SubSeq(P[M].value, 1, x)]
        BY <2>2 DEF Keyed
      <4>3. x \in 0..Len(v) /\ ex[i].value = SubSeq(v, 1, x) BY <3>2, <4>1, <4>2
      <4>4. IsSeq(v) BY <3>3 DEF OkPair
      <4> HIDE DEF v
      <4>5. Begins(SubSeq(v, 1, x), v) BY <4>3, <4>4, CutBegins
      <4>6. Begins(ex[i].value, v) BY <4>3, <4>5
      <4> QED BY <3>2, <3>4, <3>6, <4>6 DEF v
    <3> QED BY <3>5, <3>6
  <2>8. got.of = success(agent, vm_id, ex) BY <2>2, <2>5
  <2> HIDE DEF meant
  <2>9. /\ \A name \in Standard \ {"documentation_url"} : got.of[name] = meant[name]
        /\ got.of.documentation_url = <<>> /\ meant.result # "error"
        /\ got.of.extra = ex /\ meant.extra = extra
    <3>1. \A name \in Standard \ {"documentation_url"} :
              success(agent, vm_id, ex)[name] = success(agent, vm_id, extra)[name]
      BY DEF success, Report, Standard
    <3>2. /\ success(agent, vm_id, ex).documentation_url = <<>>
          /\ success(agent, vm_id, ex).extra = ex
          /\ success(agent, vm_id, extra).extra = extra
          /\ success(agent, vm_id, extra).result # "error"
      BY DEF success, Report
    <3> QED BY <2>8, <3>1, <3>2, Zenon DEF meant
  <2>10. BeginsOption(got.of.documentation_url, meant.documentation_url)
    BY <2>9 DEF BeginsOption
  <2>11. Len(ex) <= Len(extra) BY <2>5, <2>6 DEF E
  <2>12. \A i \in DOMAIN ex : /\ ex[i].key = extra[i].key
                              /\ Begins(ex[i].value, extra[i].value)
                              /\ i < Len(ex) => ex[i] = extra[i]
    <3>1. DOMAIN ex = 1..(M - 5) /\ Len(ex) = M - 5 BY <2>5, SeqFacts
    <3> QED BY <2>7, <3>1
  <2> QED BY <2>9, <2>10, <2>11, <2>12, Zenon DEF Says
<1> QED BY <1>9, <1>10

(* A failure. *)
LEMMA FailureSays ==
    ASSUME NEW agent, IsSeq(agent), NEW vm_id, IsSeq(vm_id), NEW reason, IsSeq(reason),
           NEW url, url = <<>> \/ \E l : IsSeq(l) /\ url = <<l>>, NEW extra, GoodExtra(extra),
           PlainExtra(extra), NEW data, data = Extras(FailurePairs(agent, vm_id, reason, url, extra)),
           \A j \in 1..Len(data) : Good(data[j])
    PROVE  /\ from_str(encode_report(data)) =
                 [ok |-> TRUE, of |-> failure(agent, vm_id, reason, url, extra)]
           /\ \A n \in 0..Len(encode_report(data)) :
                 SaysOrMalformed(from_str(SubSeq(encode_report(data), 1, n)),
                                 failure(agent, vm_id, reason, url, extra))
<1> DEFINE P == FailurePairs(agent, vm_id, reason, url, extra)
           text == encode_report(data)
           E == Len(extra)
<1>1. IsSeq(extra) /\ E \in Nat BY SeqFacts DEF GoodExtra
<1>u. url # <<>> => IsSeq(url[1]) /\ url = <<url[1]>> BY OneFacts
<1>2. Listed(data, P) BY <1>u, ListedFailure
<1>3. /\ IsSeq(P) /\ Len(P) = E + (IF url = <<>> THEN 6 ELSE 7)
      /\ url # <<>> => P[E + 7] = Stated("documentation_url", url[1])
  BY <1>1, FailurePairsAre
<1>a. P = FailurePairs(agent, vm_id, reason, url, extra) OBVIOUS
<1> HIDE DEF P, E
<1>4. Len(P) # 0 /\ Len(P) \in 1..Len(P) BY <1>1, <1>3
<1>5. Len(data) # 0 BY <1>2, <1>4 DEF Listed
<1>6. from_str(text) = FromFields(P) BY <1>2, <1>5, WholeRead
<1>7. Keyed(P, P, Len(P)) /\ \A j \in 1..Len(P) : P[j].key # <<>> BY <1>2, <1>4, WholeIsKeyed
<1>8. FromFields(P).ok BY <1>4, <1>7, <1>a, FailureRead
<1>b. url # <<>> => P[Len(P)].value = url[1]
  <2>1. url # <<>> => Len(P) = E + 7 BY <1>1, <1>3
  <2> QED BY <1>3, <2>1 DEF Stated
<1>9. from_str(text) = [ok |-> TRUE, of |-> failure(agent, vm_id, reason, url, extra)]
  <2> DEFINE M == Len(P)
  <2>1. PICK u : /\ FromFields(P) = [ok |-> TRUE, of |-> failure(agent, vm_id, reason, u, extra)]
                 /\ \/ u = <<>> /\ (url = <<>> \/ M < Len(P))
                    \/ url # <<>> /\ M = Len(P) /\ u = <<P[M].value>>
    BY <1>4, <1>7, <1>8, <1>a, FailureRead
  <2>2. u = url
    <3>1. ~(M < Len(P)) BY <1>4
    <3> QED BY <1>b, <1>u, <2>1, <3>1
  <2> QED BY <1>6, <2>1, <2>2
<1>10. ASSUME NEW n \in 0..Len(text)
       PROVE  SaysOrMalformed(from_str(SubSeq(text, 1, n)), failure(agent, vm_id, reason, url, extra))
  <2> DEFINE t == SubSeq(text, 1, n)
             got == from_str(t)
             meant == failure(agent, vm_id, reason, url, extra)
  <2> SUFFICES ASSUME got.ok PROVE Says(got.of, meant) BY DEF SaysOrMalformed
  <2>1. PICK M \in 1..Len(P) : \E F : /\ got = FromFields(F)
                                      /\ Keyed(F, P, M) /\ \A j \in 1..M : F[j].key # <<>>
    <3>1. t = SubSeq(encode_report(data), 1, n) /\ n \in 0..Len(encode_report(data))
          /\ from_str(t).ok
      OBVIOUS
    <3> HIDE DEF t
    <3>2. ReadFrom(t, P) BY <1>2, <1>5, <3>1, CutRead
    <3> QED BY <3>2, Zenon DEF ReadFrom
  <2>2. PICK F : got = FromFields(F) /\ Keyed(F, P, M) /\ \A j \in 1..M : F[j].key # <<>>
    BY <2>1
  <2> HIDE DEF got
  <2>3. FromFields(F).ok BY <2>2
  <2>4. PICK u : /\ FromFields(F) = [ok |-> TRUE, of |-> failure(agent, vm_id, reason, u, extra)]
                 /\ \/ u = <<>> /\ (url = <<>> \/ M < Len(P))
                    \/ url # <<>> /\ M = Len(P) /\ u = <<F[M].value>>
    BY <1>a, <2>2, <2>3, FailureRead
  <2>5. BeginsOption(u, url)
    <3>1. CASE u = <<>> BY <3>1 DEF BeginsOption
    <3>2. CASE url # <<>> /\ M = Len(P) /\ u = <<F[M].value>>
      <4> DEFINE v == url[1]
      <4>1. P[M].value = v /\ IsSeq(v) BY <1>b, <1>u, <3>2
      <4>2. PICK x \in 0..Len(P[M].value) : F[M] = [key |-> P[M].key, value |-> SubSeq(P[M].value, 1, x)]
        BY <2>2 DEF Keyed
      <4>3. x \in 0..Len(v) /\ F[M].value = SubSeq(v, 1, x) BY <4>1, <4>2
      <4>4. u[1] = F[M].value BY <3>2, OneFacts
      <4> HIDE DEF v
      <4>5. Begins(u[1], v) BY <4>1, <4>3, <4>4, CutBegins
      <4> QED BY <3>2, <4>5 DEF BeginsOption, v
    <3> QED BY <2>4, <3>1, <3>2
  <2>6. got.of = failure(agent, vm_id, reason, u, extra) BY <2>2, <2>4
  <2> HIDE DEF meant
  <2>7. /\ \A name \in Standard \ {"documentation_url"} : got.of[name] = meant[name]
        /\ got.of.documentation_url = u /\ meant.documentation_url = url
        /\ got.of.extra = extra /\ meant.extra = extra
    <3>1. \A name \in Standard \ {"documentation_url"} :
              failure(agent, vm_id, reason, u, extra)[name] =
              failure(agent, vm_id, reason, url, extra)[name]
      BY DEF failure, Report, Standard
    <3>2. \A w : /\ failure(agent, vm_id, reason, w, extra).documentation_url = w
                 /\ failure(agent, vm_id, reason, w, extra).extra = extra
      BY DEF failure, Report
    <3> QED BY <2>6, <3>1, <3>2, Zenon DEF meant
  <2>8. Len(extra) <= Len(extra) BY <1>1 DEF E
  <2>9. \A i \in DOMAIN extra : Begins(extra[i].value, extra[i].value)
    <3> TAKE i \in DOMAIN extra
    <3> DEFINE v == extra[i].value
    <3>1. i \in 1..Len(extra) BY <1>1, SeqFacts
    <3>2. IsSeq(v) BY <3>1 DEF GoodExtra, OkPair
    <3> HIDE DEF v
    <3>3. SubSeq(v, 1, Len(v)) = v /\ Len(v) \in Nat BY <3>2, WholeBegin, SeqFacts
    <3>4. Begins(v, v) BY <3>3 DEF Begins
    <3> QED BY <3>4 DEF v
  <2> QED BY <2>5, <2>7, <2>8, <2>9, Zenon DEF Says
<1> QED BY <1>9, <1>10

-----------------------------------------------------------------------------
(* The reports that are written. *)

SuccessOf(meant, data) ==
    \E agent, vm_id, extra :
       /\ IsSeq(agent) /\ IsSeq(vm_id) /\ GoodExtra(extra)
       /\ meant = success(agent, vm_id, extra) /\ data = Extras(SuccessPairs(agent, vm_id, extra))
FailureOf(meant, data) ==
    \E agent, vm_id, reason, url, extra :
       /\ IsSeq(agent) /\ IsSeq(vm_id) /\ IsSeq(reason) /\ GoodExtra(extra)
       /\ url = <<>> \/ \E l : IsSeq(l) /\ url = <<l>>
       /\ meant = failure(agent, vm_id, reason, url, extra)
       /\ data = Extras(FailurePairs(agent, vm_id, reason, url, extra))

(* The text is what is meant, field by field, without a NUL. *)
Encodes(text, meant) ==
    \E data : /\ text = encode_report(data) /\ \A j \in 1..Len(data) : Good(data[j])
              /\ SuccessOf(meant, data) \/ FailureOf(meant, data)

LEMMA ListedIsSeq ==
    ASSUME NEW meant, NEW data, SuccessOf(meant, data) \/ FailureOf(meant, data)
    PROVE  IsSeq(data) /\ Len(data) # 0
<1>1. CASE SuccessOf(meant, data)
  <2>1. PICK agent, vm_id, extra :
           /\ IsSeq(agent) /\ IsSeq(vm_id) /\ GoodExtra(extra)
           /\ data = Extras(SuccessPairs(agent, vm_id, extra))
    BY <1>1 DEF SuccessOf
  <2> DEFINE P == SuccessPairs(agent, vm_id, extra)
  <2>2. Listed(Extras(P), P) BY <2>1, ListedSuccess
  <2>3. Len(P) = 5 + Len(extra) /\ Len(extra) \in Nat
    <3>1. IsSeq(extra) BY <2>1 DEF GoodExtra
    <3> QED BY <3>1, SuccessPairsAre, SeqFacts
  <2> HIDE DEF P
  <2>4. Len(P) # 0 BY <2>3
  <2> QED BY <2>1, <2>2, <2>4 DEF Listed, P
<1>2. CASE FailureOf(meant, data)
  <2>1. PICK agent, vm_id, reason, url, extra :
           /\ IsSeq(agent) /\ IsSeq(vm_id) /\ IsSeq(reason) /\ GoodExtra(extra)
           /\ url = <<>> \/ \E l : IsSeq(l) /\ url = <<l>>
           /\ data = Extras(FailurePairs(agent, vm_id, reason, url, extra))
    BY <1>2 DEF FailureOf
  <2> DEFINE P == FailurePairs(agent, vm_id, reason, url, extra)
  <2>2. url # <<>> => IsSeq(url[1]) BY <2>1, OneFacts
  <2>3. Listed(Extras(P), P) BY <2>1, <2>2, ListedFailure
  <2>4. Len(P) = Len(extra) + (IF url = <<>> THEN 6 ELSE 7) /\ Len(extra) \in Nat
    <3>1. IsSeq(extra) BY <2>1 DEF GoodExtra
    <3> QED BY <3>1, FailurePairsAre, SeqFacts
  <2> HIDE DEF P
  <2>5. Len(P) # 0 BY <2>4
  <2> QED BY <2>1, <2>3, <2>5 DEF Listed, P
<1> QED BY <1>1, <1>2

LEMMA PlainIs ==
    ASSUME NEW meant, IsSeq(meant.extra), Plain(meant)
    PROVE  PlainExtra(meant.extra)
<1>1. DOMAIN meant.extra = 1..Len(meant.extra) BY SeqFacts
<1> QED BY <1>1 DEF Plain, PlainExtra

LEMMA EncodedSays ==
    ASSUME NEW text, NEW meant, Encodes(text, meant), Plain(meant)
    PROVE  /\ from_str(text) = [ok |-> TRUE, of |-> meant]
           /\ \A n \in 0..Len(text) : SaysOrMalformed(from_str(SubSeq(text, 1, n)), meant)
<1>1. PICK data : /\ text = encode_report(data) /\ \A j \in 1..Len(data) : Good(data[j])
                  /\ SuccessOf(meant, data) \/ FailureOf(meant, data)
  BY DEF Encodes
<1>2. CASE SuccessOf(meant, data)
  <2>1. PICK agent, vm_id, extra :
           /\ IsSeq(agent) /\ IsSeq(vm_id) /\ GoodExtra(extra)
           /\ meant = success(agent, vm_id, extra)
           /\ data = Extras(SuccessPairs(agent, vm_id, extra))
    BY <1>2 DEF SuccessOf
  <2>2. meant.extra = extra BY <2>1 DEF success, Report
  <2>3. PlainExtra(extra) BY <2>1, <2>2, PlainIs DEF GoodExtra
  <2> QED BY <1>1, <2>1, <2>3, SuccessSays
<1>3. CASE FailureOf(meant, data)
  <2>1. PICK agent, vm_id, reason, url, extra :
           /\ IsSeq(agent) /\ IsSeq(vm_id) /\ IsSeq(reason) /\ GoodExtra(extra)
           /\ url = <<>> \/ \E l : IsSeq(l) /\ url = <<l>>
           /\ meant = failure(agent, vm_id, reason, url, extra)
           /\ data = Extras(FailurePairs(agent, vm_id, reason, url, extra))
    BY <1>3 DEF FailureOf
  <2>2. meant.extra = extra BY <2>1 DEF failure, Report
  <2>3. PlainExtra(extra) BY <2>1, <2>2, PlainIs DEF GoodExtra
  <2> QED BY <1>1, <2>1, <2>3, FailureSays
<1> QED BY <1>1, <1>2, <1>3

LEMMA EncodedIsSeq ==
    ASSUME NEW text, NEW meant, Encodes(text, meant)
    PROVE  IsSeq(text)
<1>1. PICK data : /\ text = encode_report(data) /\ \A j \in 1..Len(data) : Good(data[j])
                  /\ SuccessOf(meant, data) \/ FailureOf(meant, data)
  BY DEF Encodes
<1>2. IsSeq(data) /\ Len(data) # 0 BY <1>1, ListedIsSeq
<1> QED BY <1>1, <1>2, WholeValid

LEMMA TextIsSeq ==
    /\ \A s : Text(s) => IsSeq(s)
    /\ \A o : TextOption(o) => o = <<>> \/ (o = <<o[1]>> /\ IsSeq(o[1]))
BY DEF Text, TextOption, IsSeq

(* A report of the command that the store took. *)
LEMMA ReportTypes ==
    ASSUME NEW cmd \in Command, cmd.name \in Reporting
    PROVE  /\ IsSeq(cmd.agent) /\ IsSeq(cmd.raw)
           /\ resolve_vm_id(cmd.vm_id) # <<>> => IsSeq(resolve_vm_id(cmd.vm_id)[1])
           /\ cmd.name = "report_failure" =>
                 /\ IsSeq(cmd.reason)
                 /\ cmd.url = <<>> \/ \E l : IsSeq(l) /\ cmd.url = <<l>>
<1>1. /\ cmd.agent \in Agents /\ cmd.vm_id \in VmIds
      /\ cmd.raw \in Raws \cup {<<>>, <<"k", "=", "v">>}
      /\ cmd.name = "report_failure" => cmd.reason \in Reasons /\ cmd.url \in Urls
  <2>1. cmd \in [name : {"report_success"}, agent : Agents, vm_id : VmIds, raw : Raws, mode : {"safe"}]
               \cup [name : {"report_failure"}, agent : Agents, vm_id : VmIds, reason : Reasons,
                     url : Urls, raw : {<<>>, <<"k", "=", "v">>}, mode : Modes]
    BY DEF Command, Reporting
  <2> QED BY <2>1
<1>2. IsSeq(cmd.agent) BY <1>1, TextsAssumption, TextIsSeq DEF Clean
<1>3. IsSeq(cmd.raw)
  <2>1. \A s \in Raws : IsSeq(s) BY TextsAssumption, TextIsSeq
  <2> QED BY <1>1, <2>1, EmptyIsSeq, ThreeFacts
<1>4. resolve_vm_id(cmd.vm_id) # <<>> => IsSeq(resolve_vm_id(cmd.vm_id)[1])
  <2>1. \A o \in VmIds \cup {Detected} : o = <<>> \/ IsSeq(o[1]) BY TextsAssumption, TextIsSeq
  <2>2. resolve_vm_id(cmd.vm_id) \in VmIds \cup {Detected} BY <1>1 DEF resolve_vm_id
  <2> QED BY <2>1, <2>2
<1>5. cmd.name = "report_failure" => IsSeq(cmd.reason)
  BY <1>1, TextsAssumption, TextIsSeq
<1>6. cmd.name = "report_failure" => cmd.url = <<>> \/ \E l : IsSeq(l) /\ cmd.url = <<l>>
  BY <1>1, TextsAssumption, TextIsSeq
<1> QED BY <1>2, <1>3, <1>4, <1>5, <1>6

LEMMA FieldsAreSeqs ==
    ASSUME NEW data, NEW pairs, Listed(data, pairs)
    PROVE  IsSeq(data) /\ \A j \in 1..Len(data) : IsSeq(data[j])
<1>1. IsSeq(data) /\ Len(data) = Len(pairs) BY DEF Listed
<1>2. ASSUME NEW j \in 1..Len(data) PROVE IsSeq(data[j])
  <2> DEFINE p == pairs[j]
  <2>1. OkPair(p) /\ data[j] = Field(p.key, p.value) BY <1>1 DEF Listed
  <2> HIDE DEF p
  <2>2. IsSeq(p.key) /\ IsSeq(p.value) BY <2>1 DEF OkPair, BareKey
  <2>3. IsSeq(Field(p.key, p.value)) BY <2>2, FieldIs
  <2> QED BY <2>1, <2>3
<1> QED BY <1>1, <1>2

LEMMA ReportedEncodes ==
    ASSUME NEW cmd \in Command, cmd.name \in Reporting, ReportOf(cmd) # <<>>,
           NEW report, report = ReportOf(cmd)[1], "NUL" \notin ToSet(encode(report))
    PROVE  Encodes(encode(report), report)
<1> DEFINE id == resolve_vm_id(cmd.vm_id)
           got == parse_supporting_data(cmd.raw)
           vm_id == id[1]
           extra == got.pairs
<1>1. /\ IsSeq(cmd.agent) /\ IsSeq(cmd.raw) /\ (id # <<>> => IsSeq(vm_id))
      /\ cmd.name = "report_failure" =>
                 /\ IsSeq(cmd.reason)
                 /\ cmd.url = <<>> \/ \E l : IsSeq(l) /\ cmd.url = <<l>>
  BY ReportTypes
<1>2. id # <<>> /\ got.ok /\ ReportOf(cmd) = ReportWith(cmd, id, got)
  BY DEF ReportOf, ReportWith
<1>3. GoodExtra(extra) BY <1>1, <1>2, DataIsGood
<1>4. IsSeq(vm_id) /\ IsSeq(extra) BY <1>1, <1>2, <1>3 DEF GoodExtra
<1>5. CASE cmd.name = "report_success"
  <2> DEFINE P == SuccessPairs(cmd.agent, vm_id, extra)
             data == Extras(P)
  <2>1. report = success(cmd.agent, vm_id, extra)
    <3>1. ReportOf(cmd) = <<success(cmd.agent, vm_id, extra)>> BY <1>2, <1>5 DEF ReportWith
    <3> QED BY <3>1, OneFacts
  <2> HIDE DEF vm_id, extra
  <2>2. encode(report) = encode_report(data) BY <1>4, <2>1, EncodedSuccess
  <2>3. Listed(data, P) BY <1>1, <1>3, <1>4, ListedSuccess
  <2>4. SuccessOf(report, data) BY <1>1, <1>3, <1>4, <2>1, Zenon DEF SuccessOf
  <2> HIDE DEF data
  <2>5. IsSeq(data) /\ \A j \in 1..Len(data) : IsSeq(data[j]) BY <2>3, FieldsAreSeqs
  <2>6. Len(data) # 0 BY <2>4, ListedIsSeq
  <2>7. \A j \in 1..Len(data) : Good(data[j]) BY <2>2, <2>5, <2>6, LettersInText
  <2> QED BY <2>2, <2>4, <2>7, Zenon DEF Encodes
<1>6. CASE cmd.name = "report_failure"
  <2> DEFINE reason == cmd.reason
             url == cmd.url
             P == FailurePairs(cmd.agent, vm_id, reason, url, extra)
             data == Extras(P)
  <2>1. report = failure(cmd.agent, vm_id, reason, url, extra)
    <3>1. ReportOf(cmd) = <<failure(cmd.agent, vm_id, reason, url, extra)>>
      BY <1>2, <1>6 DEF ReportWith
    <3> QED BY <3>1, OneFacts
  <2>0. IsSeq(reason) /\ (url = <<>> \/ \E l : IsSeq(l) /\ url = <<l>>) BY <1>1, <1>6
  <2>a. url # <<>> => IsSeq(url[1]) BY <2>0, OneFacts
  <2> HIDE DEF vm_id, extra, reason, url
  <2>2. encode(report) = encode_report(data) BY <1>4, <2>1, EncodedFailure
  <2>3. Listed(data, P) BY <1>1, <1>3, <1>4, <2>0, <2>a, ListedFailure
  <2>4. FailureOf(report, data) BY <1>1, <1>3, <1>4, <2>0, <2>1, Zenon DEF FailureOf
  <2> HIDE DEF data
  <2>5. IsSeq(data) /\ \A j \in 1..Len(data) : IsSeq(data[j]) BY <2>3, FieldsAreSeqs
  <2>6. Len(data) # 0 BY <2>4, ListedIsSeq
  <2>7. \A j \in 1..Len(data) : Good(data[j]) BY <2>2, <2>5, <2>6, LettersInText
  <2> QED BY <2>2, <2>4, <2>7, Zenon DEF Encodes
<1> QED BY <1>5, <1>6 DEF Reporting

(* The reports of azure-init have no NUL to begin with. *)
PairGood(p) == Good(p.key) /\ Good(p.value)

LEMMA FieldGood ==
    ASSUME NEW key, Good(key), NEW value, Good(value)
    PROVE  Good(Field(key, value))
<1> DEFINE f == Field(key, value)
           k == Len(key)
           v == Len(value)
<1>1. IsSeq(key) /\ IsSeq(value) BY DEF Good
<1>2. IsSeq(f) BY <1>1, FieldIs
<1>3. Len(f) = k + 1 + v BY <1>1, FieldIs
<1>4. \A x \in 1..k : f[x] = key[x] BY <1>1, FieldIs
<1>5. f[k + 1] = "=" BY <1>1, FieldIs
<1>6. \A x \in 1..v : f[k + 1 + x] = value[x] BY <1>1, FieldIs
<1>7. k \in Nat /\ v \in Nat BY <1>1, SeqFacts
<1>8. (\A x \in 1..k : key[x] # "NUL") /\ \A x \in 1..v : value[x] # "NUL" BY DEF Good
<1> HIDE DEF f, k, v
<1>9. ASSUME NEW i \in 1..Len(f) PROVE f[i] # "NUL"
  <2>1. CASE i <= k
    <3>1. i \in 1..k BY <1>3, <1>7, <2>1
    <3> QED BY <1>4, <1>8, <3>1
  <2>2. CASE i = k + 1 BY <1>5, <2>2
  <2>3. CASE i > k + 1
    <3> DEFINE x == i - k - 1
    <3>1. x \in 1..v /\ k + 1 + x = i BY <1>3, <1>7, <2>3
    <3> HIDE DEF x
    <3> QED BY <1>6, <1>8, <3>1
  <2> QED BY <1>3, <1>7, <2>1, <2>2, <2>3
<1>10. Good(f) BY <1>2, <1>9 DEF Good
<1> QED BY <1>10 DEF f

LEMMA WordIsGood == \A l : l # "NUL" => Good(<<l>>)
<1> TAKE l
<1> HAVE l # "NUL"
<1> DEFINE w == <<l>>
<1>1. IsSeq(w) /\ Len(w) = 1 /\ w[1] = l BY OneFacts
<1> HIDE DEF w
<1>2. \A i \in 1..1 : i = 1 OBVIOUS
<1>3. Good(w) BY <1>1, <1>2 DEF Good
<1> QED BY <1>3 DEF w

LEMMA StatedGood ==
    \A name, value : name # "NUL" /\ Good(value) => PairGood(Stated(name, value))
BY WordIsGood DEF PairGood, Stated

LEMMA PairsGood ==
    ASSUME NEW P, IsSeq(P), \A j \in 1..Len(P) : PairGood(P[j])
    PROVE  \A j \in 1..Len(Extras(P)) : Good(Extras(P)[j])
<1>1. /\ Len(Extras(P)) = Len(P)
      /\ \A j \in 1..Len(P) : Extras(P)[j] = Field(P[j].key, P[j].value)
  BY ExtrasAre
<1>2. ASSUME NEW j \in 1..Len(P) PROVE Good(Extras(P)[j])
  <2> DEFINE p == P[j]
  <2>1. Good(p.key) /\ Good(p.value) BY DEF PairGood
  <2>2. Extras(P)[j] = Field(p.key, p.value) BY <1>1
  <2> HIDE DEF p
  <2>3. Good(Field(p.key, p.value)) BY <2>1, FieldGood
  <2> QED BY <2>2, <2>3
<1> QED BY <1>1, <1>2

LEMMA Words == /\ "success" # "NUL" /\ "error" # "NUL" /\ "None" # "NUL" /\ Timestamp # "NUL"
               /\ "result" # "NUL" /\ "agent" # "NUL" /\ "pps_type" # "NUL" /\ "vm_id" # "NUL"
               /\ "timestamp" # "NUL" /\ "reason" # "NUL" /\ "documentation_url" # "NUL"
BY DEF Timestamp

LEMMA SuccessGood ==
    ASSUME NEW agent, Good(agent), NEW vm_id, Good(vm_id), NEW extra, IsSeq(extra),
           \A i \in 1..Len(extra) : PairGood(extra[i]),
           NEW P, P = SuccessPairs(agent, vm_id, extra)
    PROVE  \A j \in 1..Len(Extras(P)) : Good(Extras(P)[j])
<1> DEFINE E == Len(extra)
<1>1. E \in Nat BY SeqFacts
<1>2. /\ IsSeq(P) /\ Len(P) = 5 + E
      /\ P[1] = Stated("result", <<"success">>) /\ P[2] = Stated("agent", agent)
      /\ P[3] = Stated("pps_type", <<"None">>) /\ P[4] = Stated("vm_id", vm_id)
      /\ P[5] = Stated("timestamp", <<Timestamp>>)
      /\ \A x \in 1..E : P[5 + x] = extra[x]
  BY SuccessPairsAre
<1>3. Good(<<"success">>) /\ Good(<<"None">>) /\ Good(<<Timestamp>>) BY Words, WordIsGood
<1>4. PairGood(P[1]) /\ PairGood(P[2]) /\ PairGood(P[3]) /\ PairGood(P[4]) /\ PairGood(P[5])
  BY <1>2, <1>3, Words, StatedGood
<1>5. \A x \in 1..E : PairGood(extra[x]) OBVIOUS
<1> HIDE DEF E
<1>6. ASSUME NEW j \in 1..Len(P) PROVE PairGood(P[j])
  <2>1. CASE j > 5
    <3> DEFINE x == j - 5
    <3>1. x \in 1..E /\ 5 + x = j BY <1>1, <1>2, <2>1
    <3> HIDE DEF x
    <3> QED BY <1>2, <1>5, <3>1
  <2>2. j = 1 \/ j = 2 \/ j = 3 \/ j = 4 \/ j = 5 \/ j > 5 BY <1>1, <1>2
  <2> QED BY <1>4, <2>1, <2>2
<1> QED BY <1>2, <1>6, PairsGood

LEMMA FailureGood ==
    ASSUME NEW agent, Good(agent), NEW vm_id, Good(vm_id), NEW reason, Good(reason),
           NEW link, Good(link), NEW extra, IsSeq(extra),
           \A i \in 1..Len(extra) : PairGood(extra[i]),
           NEW P, P = FailurePairs(agent, vm_id, reason, <<link>>, extra)
    PROVE  \A j \in 1..Len(Extras(P)) : Good(Extras(P)[j])
<1> DEFINE E == Len(extra)
           url == <<link>>
<1>1. E \in Nat BY SeqFacts
<1>u. url # <<>> /\ url[1] = link BY OneFacts, EmptyIsSeq
<1> HIDE DEF url
<1>2. /\ IsSeq(P) /\ Len(P) = E + (IF url = <<>> THEN 6 ELSE 7)
      /\ P[1] = Stated("result", <<"error">>) /\ P[2] = Stated("reason", reason)
      /\ P[3] = Stated("agent", agent)
      /\ \A x \in 1..E : P[3 + x] = extra[x]
      /\ P[E + 4] = Stated("pps_type", <<"None">>) /\ P[E + 5] = Stated("vm_id", vm_id)
      /\ P[E + 6] = Stated("timestamp", <<Timestamp>>)
      /\ url # <<>> => P[E + 7] = Stated("documentation_url", url[1])
  <2>1. P = FailurePairs(agent, vm_id, reason, url, extra) BY DEF url
  <2> QED BY <2>1, FailurePairsAre
<1>3. Good(<<"error">>) /\ Good(<<"None">>) /\ Good(<<Timestamp>>) BY Words, WordIsGood
<1>4. /\ PairGood(P[1]) /\ PairGood(P[2]) /\ PairGood(P[3]) /\ PairGood(P[E + 4])
      /\ PairGood(P[E + 5]) /\ PairGood(P[E + 6]) /\ PairGood(P[E + 7])
  BY <1>2, <1>3, <1>u, Words, StatedGood
<1>5. \A x \in 1..E : PairGood(extra[x]) OBVIOUS
<1> HIDE DEF E
<1>6. ASSUME NEW j \in 1..Len(P) PROVE PairGood(P[j])
  <2>1. CASE j > 3 /\ j <= E + 3
    <3> DEFINE x == j - 3
    <3>1. x \in 1..E /\ 3 + x = j BY <1>1, <1>2, <2>1
    <3> HIDE DEF x
    <3> QED BY <1>2, <1>5, <3>1
  <2>2. \/ j = 1 \/ j = 2 \/ j = 3 \/ (j > 3 /\ j <= E + 3) \/ j = E + 4 \/ j = E + 5 \/ j = E + 6
        \/ j = E + 7
    BY <1>1, <1>2, <1>u
  <2> QED BY <1>4, <2>1, <2>2
<1> QED BY <1>2, <1>6, PairsGood

LEMMA CleanIsGood == \A s : Clean(s) => Good(s)
<1> TAKE s
<1> HAVE Clean(s)
<1>1. IsSeq(s) BY TextIsSeq DEF Clean
<1>2. DOMAIN s = 1..Len(s) BY <1>1, SeqFacts
<1>3. "NUL" \notin ToSet(s) BY DEF Clean
<1> QED BY <1>1, <1>2, <1>3 DEF Good, ToSet

LEMMA CleanPairIs == \A p : CleanPair(p) => OkPair(p) /\ PairGood(p)
<1> TAKE p
<1> HAVE CleanPair(p)
<1> DEFINE key == p.key
           value == p.value
<1>1. /\ p = [key |-> key, value |-> value] /\ Clean(key) /\ Clean(value)
      /\ key # <<>> /\ "=" \notin ToSet(key)
  BY DEF CleanPair
<1>2. Good(key) /\ Good(value) BY <1>1, CleanIsGood
<1> HIDE DEF key, value
<1>3. IsSeq(key) /\ IsSeq(value) BY <1>2 DEF Good
<1>4. DOMAIN key = 1..Len(key) BY <1>3, SeqFacts
<1>5. BareKey(key) BY <1>1, <1>3, <1>4 DEF BareKey, ToSet
<1>6. key = p.key /\ value = p.value BY DEF key, value
<1> QED BY <1>1, <1>2, <1>3, <1>5, <1>6, Zenon DEF OkPair, PairGood

CleanExtra(extra) == GoodExtra(extra) /\ \A i \in 1..Len(extra) : PairGood(extra[i])

LEMMA OptionalIsClean ==
    ASSUME NEW o \in Optional
    PROVE  CleanExtra(o)
<1>1. CASE o = <<>>
  <2>1. IsSeq(o) /\ Len(o) = 0 BY <1>1, EmptyIsSeq
  <2>2. \A i \in 1..Len(o) : FALSE BY <2>1
  <2> QED BY <2>1, <2>2, Zenon DEF CleanExtra, GoodExtra
<1>2. CASE o # <<>>
  <2> DEFINE p == o[1]
  <2>1. o = <<p>> /\ CleanPair(p) BY <1>2, TextsAssumption
  <2>2. OkPair(p) /\ PairGood(p) BY <2>1, CleanPairIs
  <2> HIDE DEF p
  <2>3. IsSeq(o) /\ Len(o) = 1 /\ o[1] = p BY <2>1, OneFacts
  <2>4. \A i \in 1..Len(o) : i = 1 BY <2>3
  <2>5. \A i \in 1..Len(o) : OkPair(o[i]) /\ PairGood(o[i]) BY <2>2, <2>3, <2>4
  <2> QED BY <2>3, <2>5, Zenon DEF CleanExtra, GoodExtra
<1> QED BY <1>1, <1>2

LEMMA DataIsClean ==
    ASSUME NEW e \in Errors, NEW d \in SetToSeqs(e.supporting_data)
    PROVE  CleanExtra(d)
<1> DEFINE S == e.supporting_data
           n == Cardinality(S)
<1>1. IsFiniteSet(S) /\ \A p \in S : CleanPair(p) BY TextsAssumption
<1>2. n \in Nat BY <1>1, FS_CardinalityType
<1>3. d \in [1..n -> S] BY DEF SetToSeqs
<1> HIDE DEF S, n
<1>4. DOMAIN d = 1..n /\ d = [i \in 1..n |-> d[i]] /\ \A i \in 1..n : d[i] \in S BY <1>3
<1>5. IsSeq(d) /\ Len(d) = n BY <1>2, <1>4, SeqByDomain
<1>6. \A i \in 1..n : OkPair(d[i]) /\ PairGood(d[i]) BY <1>1, <1>4, CleanPairIs
<1> QED BY <1>5, <1>6, Zenon DEF CleanExtra, GoodExtra

LEMMA SuccessEncodes ==
    ASSUME NEW agent \in Agents, NEW vm_id, Good(vm_id), NEW extra \in Optional
    PROVE  Encodes(encoded_success_report(agent, vm_id, extra), success(agent, vm_id, extra))
<1> DEFINE P == SuccessPairs(agent, vm_id, extra)
           data == Extras(P)
<1>1. Good(agent) BY TextsAssumption, CleanIsGood
<1>2. CleanExtra(extra) BY OptionalIsClean
<1>3. GoodExtra(extra) /\ IsSeq(extra) /\ \A i \in 1..Len(extra) : PairGood(extra[i])
  BY <1>2 DEF CleanExtra, GoodExtra
<1>4. \A j \in 1..Len(data) : Good(data[j]) BY <1>1, <1>3, SuccessGood
<1>5. encoded_success_report(agent, vm_id, extra) = encode_report(data) BY <1>3, EncodedSuccess
<1>6. IsSeq(agent) /\ IsSeq(vm_id) BY <1>1 DEF Good
<1>7. SuccessOf(success(agent, vm_id, extra), data) BY <1>3, <1>6, Zenon DEF SuccessOf
<1> HIDE DEF data
<1> QED BY <1>4, <1>5, <1>7, Zenon DEF Encodes

LEMMA FailureEncodes ==
    ASSUME NEW agent \in Agents, NEW vm_id, Good(vm_id), NEW e \in Errors,
           NEW extra \in SetToSeqs(e.supporting_data)
    PROVE  Encodes(as_encoded_report(agent, vm_id, e.reason, extra),
                   failure(agent, vm_id, e.reason, <<DocumentationUrl>>, extra))
<1> DEFINE reason == e.reason
           link == DocumentationUrl
           P == FailurePairs(agent, vm_id, reason, <<link>>, extra)
           data == Extras(P)
<1>1. Good(agent) BY TextsAssumption, CleanIsGood
<1>2. Good(reason) BY TextsAssumption, CleanIsGood
<1>3. CleanExtra(extra) BY DataIsClean
<1>4. GoodExtra(extra) /\ IsSeq(extra) /\ \A i \in 1..Len(extra) : PairGood(extra[i])
  BY <1>3 DEF CleanExtra, GoodExtra
<1>5. Good(link)
  <2> DEFINE u == <<"u", "r", "l">>
  <2>1. IsSeq(u) /\ Len(u) = 3 /\ u[1] = "u" /\ u[2] = "r" /\ u[3] = "l" BY ThreeFacts
  <2> HIDE DEF u
  <2>2. \A i \in 1..3 : i = 1 \/ i = 2 \/ i = 3 OBVIOUS
  <2>3. \A i \in 1..3 : u[i] # "NUL" BY <2>1, <2>2
  <2>4. Good(u) BY <2>1, <2>3 DEF Good
  <2> QED BY <2>4 DEF DocumentationUrl, u
<1>6. as_encoded_report(agent, vm_id, reason, extra) = encode_report(data)
  BY <1>4, EncodedElsewhere
<1> HIDE DEF reason, link
<1>7. \A j \in 1..Len(data) : Good(data[j]) BY <1>1, <1>2, <1>4, <1>5, FailureGood
<1>8. IsSeq(agent) /\ IsSeq(vm_id) /\ IsSeq(reason) /\ IsSeq(link) BY <1>1, <1>2, <1>5 DEF Good
<1> DEFINE url == <<link>>
<1>9. url = <<>> \/ \E l : IsSeq(l) /\ url = <<l>> BY <1>8
<1>10. FailureOf(failure(agent, vm_id, reason, url, extra), data)
  BY <1>4, <1>8, <1>9, Zenon DEF FailureOf
<1> HIDE DEF data
<1>11. Encodes(encode_report(data), failure(agent, vm_id, reason, url, extra))
  BY <1>7, <1>10, Zenon DEF Encodes
<1> QED BY <1>6, <1>11 DEF reason, link

LEMMA AzureEncodes ==
    ASSUME NEW report \in SuccessReports \cup FailureReports
    PROVE  Encodes(report.text, report.meant)
<1>1. \A id \in Identities : Good(id)
  <2>1. \A o \in VmIds : o # <<>> => Clean(o[1]) BY TextsAssumption
  <2> QED BY <2>1, CleanIsGood DEF Identities
<1>2. CASE report \in SuccessReports
  <2>1. PICK a \in Agents, id \in Identities, o \in Optional :
           report = [text |-> encoded_success_report(a, id, o), meant |-> success(a, id, o)]
    BY <1>2 DEF SuccessReports
  <2>2. Encodes(encoded_success_report(a, id, o), success(a, id, o)) BY <1>1, SuccessEncodes
  <2> QED BY <2>1, <2>2
<1>3. CASE report \in FailureReports
  <2>1. PICK e \in Errors :
           \E a \in Agents, id \in Identities, d \in SetToSeqs(e.supporting_data) :
              report = [text |-> as_encoded_report(a, id, e.reason, d),
                        meant |-> failure(a, id, e.reason, <<DocumentationUrl>>, d)]
    BY <1>3 DEF FailureReports
  <2>2. PICK a \in Agents, id \in Identities, d \in SetToSeqs(e.supporting_data) :
           report = [text |-> as_encoded_report(a, id, e.reason, d),
                     meant |-> failure(a, id, e.reason, <<DocumentationUrl>>, d)]
    BY <2>1
  <2>3. Encodes(as_encoded_report(a, id, e.reason, d),
                failure(a, id, e.reason, <<DocumentationUrl>>, d))
    BY <1>1, FailureEncodes
  <2> QED BY <2>2, <2>3
<1> QED BY <1>2, <1>3

-----------------------------------------------------------------------------
(* The report that was written last is one that either encoder writes.      *)

Written == newest # NoReport => Encodes(newest.text, newest.meant)

LEMMA InsertedIsValid ==
    ASSUME NEW rec, NEW mode, NEW r \in Insert(rec, mode), r.code = 0
    PROVE  "NUL" \notin ToSet(rec.value)
<1>1. Valid(rec, mode)
  <2> SUFFICES ASSUME ~Valid(rec, mode) PROVE FALSE OBVIOUS
  <2>1. r = Refused BY DEF Insert
  <2> QED BY <2>1, Answers
<1> QED BY <1>1 DEF Valid

LEMMA RunWritten ==
    ASSUME Written, NEW cmd \in Command, run(cmd)
    PROVE  Written'
<1> DEFINE report == IF cmd.name \in Reporting THEN ReportOf(cmd) ELSE <<>>
           text == IF report = <<>> THEN <<>> ELSE encode(report[1])
<1>1. PICK r \in dispatch(cmd, text) :
             newest' = IF report # <<>> /\ r.code = Exit.ok
                       THEN [text |-> text, meant |-> report[1]]
                       ELSE IF SameOfKey(ReportKey, r.pool, pool) THEN newest ELSE NoReport
  BY DEF run
<1>2. CASE report # <<>> /\ r.code = 0
  <2>1. cmd.name \in Reporting /\ report = ReportOf(cmd) /\ text = encode(report[1]) BY <1>2
  <2> HIDE DEF report, text
  <2>2. newest' = [text |-> text, meant |-> report[1]] BY <1>1, <1>2 DEF Exit
  <2>3. r = Refused \/ r \in Insert(Rec(ReportKey, text), cmd.mode) BY <1>1, <2>1, DispatchedOn
  <2>4. r \in Insert(Rec(ReportKey, text), cmd.mode) BY <1>2, <2>3, Answers
  <2>5. Rec(ReportKey, text).value = text BY DEF Rec
  <2>6. "NUL" \notin ToSet(text) BY <1>2, <2>4, <2>5, InsertedIsValid
  <2>7. Encodes(text, report[1]) BY <1>2, <2>1, <2>6, ReportedEncodes
  <2>8. newest'.text = text /\ newest'.meant = report[1] BY <2>2
  <2> QED BY <2>7, <2>8 DEF Written
<1>3. CASE ~(report # <<>> /\ r.code = 0)
  <2> HIDE DEF report, text
  <2>1. newest' = newest \/ newest' = NoReport BY <1>1, <1>3 DEF Exit
  <2> QED BY <2>1 DEF Written, NoReport
<1> QED BY <1>2, <1>3

(* Every report ever written is the encoding of what it means, whichever of *)
(* the two encoders wrote it, and holds no NUL.                            *)
THEOREM ReportsAreEncoded == Spec => []Written
<1>1. Init => Written BY DEF Init, Written
<1>2. Written /\ UNCHANGED vars => Written' BY DEF Written, vars, NoReport
<1>3. Written /\ Next => Written'
  <2> SUFFICES ASSUME Written, Next PROVE Written' OBVIOUS
  <2>1. ASSUME NEW cmd \in Command, run(cmd) PROVE Written' BY <2>1, RunWritten
  <2>2. ASSUME NEW report \in SuccessReports \cup FailureReports, write_provisioning_report(report)
        PROVE  Written'
    <3>1. newest' = report BY <2>2 DEF write_provisioning_report
    <3>2. Encodes(report.text, report.meant) BY AzureEncodes
    <3> QED BY <3>1, <3>2 DEF Written
  <2>3. ASSUME NEW k, NEW v, ForeignAppend(Rec(k, v)) PROVE Written'
    <3>1. newest' = newest \/ newest' = NoReport BY <2>3 DEF ForeignAppend
    <3> QED BY <3>1 DEF Written, NoReport
  <2> QED BY <2>1, <2>2, <2>3 DEF Next
<1> QED BY <1>1, <1>2, <1>3, PTL DEF Spec

(* The report in the pool is the newest one or a beginning of it. *)
LEMMA InPool ==
    ASSUME NewestReportStands, Written, newest # NoReport
    PROVE  \E n \in 0..Len(newest.text) : pool[ReportAt].value = SubSeq(newest.text, 1, n)
<1> DEFINE text == newest.text
<1>1. IsSeq(text) BY EncodedIsSeq DEF Written
<1>2. Limit["safe"] \in Nat BY CliAssumption DEF Modes
<1>3. pool[ReportAt].value \in {text, Truncated(text, Limit["safe"])} BY DEF NewestReportStands
<1> HIDE DEF text
<1>4. Len(text) \in 0..Len(text) /\ text = SubSeq(text, 1, Len(text))
  BY <1>1, SeqFacts, WholeBegin
<1>5. \E n \in 0..Len(text) : Truncated(text, Limit["safe"]) = SubSeq(text, 1, n)
  BY <1>1, <1>2, TruncatedBegins
<1>6. \E n \in 0..Len(text) : pool[ReportAt].value = SubSeq(text, 1, n)
  BY <1>3, <1>4, <1>5, Zenon
<1> QED BY <1>6 DEF text

(* A report that stands whole in the pool is read back as what it means,    *)
(* with any agent, VM id, reason, URL and supporting data: the quoting, the *)
(* splitting and the names of the fields lose nothing.                     *)
THEOREM ReportsAreReadBack == Spec => []ReportReadBack
<1>1. Written => ReportReadBack BY EncodedSays, Zenon DEF Written, ReportReadBack
<1> QED BY ReportsAreEncoded, <1>1, PTL

(* A report that was cut, at any letter, is malformed or says the same but   *)
(* for what ends it, and a failure keeps its supporting data.              *)
THEOREM ACutShows == Spec => []TruncationShows
<1>1. NewestReportStands /\ Written => TruncationShows
  <2> SUFFICES ASSUME NewestReportStands, Written, newest # NoReport, Plain(newest.meant)
               PROVE  SaysOrMalformed(from_str(pool[ReportAt].value), newest.meant)
    BY DEF TruncationShows
  <2>1. PICK n \in 0..Len(newest.text) : pool[ReportAt].value = SubSeq(newest.text, 1, n)
    BY InPool
  <2>2. Encodes(newest.text, newest.meant) BY DEF Written
  <2>3. SaysOrMalformed(from_str(SubSeq(newest.text, 1, n)), newest.meant) BY <2>2, EncodedSays
  <2> QED BY <2>1, <2>3
<1> QED BY ReportsAreEncoded, TheNewestReportStands, <1>1, PTL

-----------------------------------------------------------------------------
(* The reading of --supporting-data, of any text.                          *)

(* Slice keeps the elements of K and no other. *)
LEMMA KeptAre ==
    ASSUME NEW s, IsSeq(s), NEW K
    PROVE  LET t == Slice(s, K) IN
           /\ IsSeq(t)
           /\ \A x \in 1..Len(s) : x \in K => \E n \in 1..Len(t) : t[n] = s[x]
           /\ \A n \in 1..Len(t) : \E x \in 1..Len(s) : x \in K /\ t[n] = s[x]
<1> DEFINE t == Slice(s, K)
           m == Len(s)
<1>1. PICK end : SlicedAt(t, s, K, end) BY Slices
<1> HIDE DEF t
<1>2. m \in Nat BY SeqFacts
<1>3. /\ IsSeq(t) /\ end \in [0..m -> Nat] /\ end[0] = 0 /\ Len(t) = end[m]
      /\ \A x \in 1..m : IF x \in K THEN end[x] = end[x - 1] + 1 /\ t[end[x]] = s[x]
                         ELSE end[x] = end[x - 1]
  BY <1>1 DEF SlicedAt
<1> HIDE DEF m
<1>4. ASSUME NEW x \in 1..m
      PROVE  /\ x \in 0..m /\ x - 1 \in 0..m /\ end[x] \in Nat /\ end[x - 1] \in Nat
             /\ x \in K => end[x] = end[x - 1] + 1 /\ t[end[x]] = s[x]
             /\ x \notin K => end[x] = end[x - 1]
  <2>1. x \in 0..m /\ x - 1 \in 0..m BY <1>2
  <2>2. end[x] \in Nat /\ end[x - 1] \in Nat BY <1>3, <2>1
  <2> QED BY <1>3, <2>1, <2>2
<1>5. \A i \in 0..m : \A j \in 0..m : i <= j => end[i] <= end[j]
  <2>1. \A x \in 1..m : end[x - 1] <= end[x]
    <3> TAKE x \in 1..m
    <3>1. end[x] = end[x - 1] + 1 \/ end[x] = end[x - 1] BY <1>4
    <3>2. end[x - 1] \in Nat BY <1>4
    <3> QED BY <3>1, <3>2
  <2> QED BY <1>2, <1>3, <2>1, Grows
<1>6. ASSUME NEW x \in 1..m, x \in K PROVE \E n \in 1..Len(t) : t[n] = s[x]
  <2> DEFINE n == end[x]
  <2>1. n \in Nat /\ n # 0 /\ t[n] = s[x]
    <3>1. end[x - 1] \in Nat /\ n = end[x - 1] + 1 /\ t[n] = s[x] BY <1>4, <1>6
    <3> QED BY <3>1
  <2>2. n <= Len(t) /\ Len(t) \in Nat
    <3>1. x \in 0..m /\ m \in 0..m /\ x <= m BY <1>2
    <3> QED BY <1>3, <1>5, <3>1
  <2> HIDE DEF n
  <2>3. n \in 1..Len(t) BY <2>1, <2>2
  <2> QED BY <2>1, <2>3
<1>7. ASSUME NEW n \in 1..Len(t) PROVE \E x \in 1..m : x \in K /\ t[n] = s[x]
  <2> DEFINE R == {x \in 0..m : n <= end[x]}
             x == Min(R)
  <2>1. Len(t) \in Nat /\ n \in Nat /\ n # 0 /\ n <= end[m] BY <1>3, SeqFacts
  <2>2. m \in R /\ R \subseteq Nat BY <1>2, <2>1
  <2>3. x \in R /\ \A y \in R : x <= y
    <3> HIDE DEF R
    <3> QED BY <2>2, Least
  <2>4. x \in 0..m /\ n <= end[x] /\ \A y \in 0..m : n <= end[y] => x <= y BY <2>3
  <2> HIDE DEF x, R
  <2>5. x \in 1..m
    <3>1. x # 0 BY <1>3, <2>1, <2>4
    <3> QED BY <1>2, <2>4, <3>1
  <2>6. ~(n <= end[x - 1])
    <3>1. x - 1 \in 0..m /\ ~(x <= x - 1) BY <1>2, <2>5
    <3> QED BY <2>4, <3>1
  <2>7. end[x] \in Nat /\ end[x - 1] \in Nat BY <1>4, <2>5
  <2>8. x \in K
    <3> SUFFICES ASSUME x \notin K PROVE FALSE OBVIOUS
    <3>1. end[x] = end[x - 1] BY <1>4, <2>5
    <3> QED BY <2>4, <2>6, <3>1
  <2>9. end[x] = end[x - 1] + 1 /\ t[end[x]] = s[x] BY <1>4, <2>5, <2>8
  <2>10. end[x] = n BY <2>1, <2>4, <2>6, <2>7, <2>9
  <2> QED BY <2>5, <2>8, <2>9, <2>10
<1> QED BY <1>3, <1>6, <1>7 DEF t, m

(* The first place of some letters, if it is known. *)
LEMMA FirstAt ==
    ASSUME NEW raw, IsSeq(raw), NEW from \in Nat, from # 0, NEW letters, NEW other,
           NEW at \in Nat, from <= at, at <= Len(raw), raw[at] \in letters,
           \A x \in from..(at - 1) : raw[x] \notin letters
    PROVE  FirstOr(Behind(raw, from, letters), other) = at
<1> DEFINE B == Behind(raw, from, letters)
<1>1. Len(raw) \in Nat BY SeqFacts
<1>2. at \in B /\ B \subseteq Nat /\ \A x \in B : from <= x /\ raw[x] \in letters BY <1>1 DEF Behind
<1> HIDE DEF B
<1>3. Min(B) \in B /\ \A x \in B : Min(B) <= x BY <1>2, Least
<1> DEFINE y == Min(B)
<1>4. y \in Nat /\ from <= y /\ y <= at /\ raw[y] \in letters BY <1>2, <1>3
<1>5. FirstOr(B, other) = y BY <1>2 DEF FirstOr
<1> HIDE DEF y
<1>6. y \notin from..(at - 1) BY <1>4
<1>7. y = at BY <1>4, <1>6
<1> QED BY <1>5, <1>7 DEF B

LEMMA FirstNone ==
    ASSUME NEW raw, IsSeq(raw), NEW from \in Nat, from # 0, NEW letters, NEW other,
           \A x \in from..Len(raw) : raw[x] \notin letters
    PROVE  FirstOr(Behind(raw, from, letters), other) = other
<1>1. Behind(raw, from, letters) = {} BY DEF Behind
<1> QED BY <1>1 DEF FirstOr

(* What the first place of some letters is. *)
LEMMA FirstFound ==
    ASSUME NEW raw, IsSeq(raw), NEW from \in Nat, from # 0, NEW letters, NEW other
    PROVE  LET first == FirstOr(Behind(raw, from, letters), other) IN
           \/ first = other /\ \A x \in from..Len(raw) : raw[x] \notin letters
           \/ /\ first \in Nat /\ from <= first /\ first <= Len(raw) /\ raw[first] \in letters
              /\ \A x \in from..(first - 1) : raw[x] \notin letters
<1> DEFINE B == Behind(raw, from, letters)
           y == Min(B)
<1>1. Len(raw) \in Nat BY SeqFacts
<1>2. B \subseteq Nat /\ \A x : x \in B <=> x \in from..Len(raw) /\ raw[x] \in letters
  BY <1>1 DEF Behind
<1> HIDE DEF B
<1>3. CASE B = {}
  <2>1. FirstOr(B, other) = other BY <1>3 DEF FirstOr
  <2>2. \A x \in from..Len(raw) : raw[x] \notin letters BY <1>2, <1>3
  <2> QED BY <2>1, <2>2 DEF B
<1>4. CASE B # {}
  <2>1. FirstOr(B, other) = y BY <1>4 DEF FirstOr
  <2>2. y \in B /\ \A x \in B : y <= x BY <1>2, <1>4, Least
  <2> HIDE DEF y
  <2>3. y \in Nat /\ from <= y /\ y <= Len(raw) /\ raw[y] \in letters BY <1>1, <1>2, <2>2
  <2>4. ASSUME NEW x \in from..(y - 1) PROVE raw[x] \notin letters
    <3>1. x \in from..Len(raw) /\ ~(y <= x) BY <1>1, <2>3
    <3> QED BY <1>2, <2>2, <3>1
  <2> QED BY <2>1, <2>3, <2>4 DEF B
<1> QED BY <1>3, <1>4

(* A value in quotes. *)
InQuotes(q, value) == <<q>> \o value \o <<q>>

LEMMA InQuotesIs ==
    ASSUME NEW q, NEW value, IsSeq(value)
    PROVE  LET w == InQuotes(q, value) IN
           /\ IsSeq(w) /\ Len(w) = Len(value) + 2 /\ w[1] = q /\ w[Len(value) + 2] = q
           /\ \A x \in 1..Len(value) : w[x + 1] = value[x]
<1> DEFINE o == <<q>>
           b == o \o value
           w == b \o o
           m == Len(value)
<1>1. IsSeq(o) /\ Len(o) = 1 /\ o[1] = q BY OneFacts
<1>2. InQuotes(q, value) = w BY DEF InQuotes
<1>3. m \in Nat BY SeqFacts
<1> HIDE DEF o
<1>4. /\ IsSeq(b) /\ Len(b) = Len(o) + Len(value)
      /\ (\A i \in 1..Len(o) : b[i] = o[i]) /\ (\A i \in 1..Len(value) : b[Len(o) + i] = value[i])
  <2>1. IsSeq(o) /\ IsSeq(value) BY <1>1
  <2> QED BY <2>1, ConcatIs
<1> HIDE DEF b
<1>5. /\ IsSeq(w) /\ Len(w) = Len(b) + Len(o)
      /\ (\A i \in 1..Len(b) : w[i] = b[i]) /\ (\A i \in 1..Len(o) : w[Len(b) + i] = o[i])
  <2>1. IsSeq(b) /\ IsSeq(o) BY <1>1, <1>4
  <2> QED BY <2>1, ConcatIs
<1> HIDE DEF w
<1>6. Len(b) = m + 1 /\ Len(w) = m + 2 BY <1>1, <1>3, <1>4, <1>5
<1>7. w[1] = q
  <2>1. 1 \in 1..Len(o) /\ 1 \in 1..Len(b) BY <1>1, <1>3, <1>6
  <2> QED BY <1>1, <1>4, <1>5, <2>1
<1>8. w[m + 2] = q
  <2>1. 1 \in 1..Len(o) /\ Len(b) + 1 = m + 2 BY <1>1, <1>3, <1>6
  <2> QED BY <1>1, <1>5, <2>1
<1>9. ASSUME NEW x \in 1..m PROVE w[x + 1] = value[x]
  <2>1. x + 1 \in 1..Len(b) /\ Len(o) + x = x + 1 BY <1>1, <1>3, <1>6
  <2>2. b[Len(o) + x] = value[x] BY <1>4
  <2> QED BY <1>5, <2>1, <2>2
<1> QED BY <1>2, <1>5, <1>6, <1>7, <1>8, <1>9 DEF m

LEMMA HeadLast ==
    \A s : IsSeq(s) /\ Len(s) # 0 => Head(s) = s[1] /\ Last(s) = s[Len(s)]
<1> TAKE s
<1> HAVE IsSeq(s) /\ Len(s) # 0
<1>1. PICK S : s \in Seq(S) BY DEF IsSeq
<1>2. Head(s) = s[1] BY <1>1
<1> QED BY <1>2 DEF Last

LEMMA UnquoteQuoted ==
    ASSUME NEW q \in QuoteSigns, NEW value, IsSeq(value)
    PROVE  unquote(InQuotes(q, value)) = value
<1> DEFINE w == InQuotes(q, value)
           m == Len(value)
           inner == SubSeq(w, 2, m + 1)
<1>1. /\ IsSeq(w) /\ Len(w) = m + 2 /\ w[1] = q /\ w[m + 2] = q
      /\ \A x \in 1..m : w[x + 1] = value[x]
  BY InQuotesIs
<1>2. m \in Nat BY SeqFacts
<1> HIDE DEF w
<1>3. Head(w) = q /\ Last(w) = q BY <1>1, <1>2, HeadLast
<1>4. unquote(w) = inner
  <2> HIDE DEF m
  <2>1. Len(w) >= 2 /\ Len(w) - 1 = m + 1 BY <1>1, <1>2
  <2> QED BY <1>3, <2>1 DEF unquote
<1>5. IsSeq(inner) /\ Len(inner) = m /\ \A x \in 1..m : inner[x] = w[x + 1]
  <2>1. m + 1 <= Len(w) BY <1>1, <1>2
  <2> HIDE DEF m
  <2> QED BY <1>1, <1>2, <2>1, InnerIs
<1> HIDE DEF inner
<1>6. inner = value BY <1>1, <1>5, SameSeq
<1> QED BY <1>4, <1>6 DEF w

LEMMA UnquoteBare ==
    ASSUME NEW value, value # <<>> => Head(value) \notin QuoteSigns
    PROVE  unquote(value) = value
<1>1. CASE value = <<>>
  <2>1. Len(<<>>) = 0 BY EmptyIsSeq
  <2>2. ~(Len(value) >= 2) BY <1>1, <2>1
  <2> QED BY <2>2 DEF unquote
<1>2. CASE value # <<>> BY <1>2 DEF unquote
<1> QED BY <1>1, <1>2

(* A reading of a field: its key and its value, in quotes or bare. *)
ReadAs(field, key, value) ==
    \/ \E q \in QuoteSigns : q \notin ToSet(value) /\ field = Field(key, InQuotes(q, value))
    \/ /\ field = Field(key, value) /\ "," \notin ToSet(value)
       /\ value # <<>> => Head(value) \notin QuoteSigns

LEMMA ReadsIs ==
    \A field, key, value :
        Reads(field, key, value) <=>
            /\ key # <<>> /\ ToSet(key) \cap {"=", ","} = {}
            /\ ReadAs(field, key, value)
BY DEF Reads, ReadAs, InQuotes

LEMMA NotIn ==
    ASSUME NEW s, IsSeq(s), NEW l
    PROVE  l \notin ToSet(s) <=> \A x \in 1..Len(s) : s[x] # l
<1>1. DOMAIN s = 1..Len(s) BY SeqFacts
<1> QED BY <1>1 DEF ToSet

(* There is one reading at most: what parse_key_value_pair makes of the field. *)
LEMMA ReadIs ==
    ASSUME NEW field, NEW key, IsSeq(key), NEW value, IsSeq(value), Reads(field, key, value)
    PROVE  /\ key # <<>> /\ split_once(field).key = key
           /\ Unquote(split_once(field)) = [key |-> key, value |-> value]
<1>1. key # <<>> /\ ToSet(key) \cap {"=", ","} = {} /\ ReadAs(field, key, value) BY ReadsIs
<1>2. BareKey(key)
  <2>1. "=" \notin ToSet(key) BY <1>1
  <2> QED BY <2>1, NotIn DEF BareKey
<1>3. PICK w : IsSeq(w) /\ field = Field(key, w) /\ unquote(w) = value
  <2>1. ASSUME NEW q \in QuoteSigns, field = Field(key, InQuotes(q, value))
        PROVE  \E w : IsSeq(w) /\ field = Field(key, w) /\ unquote(w) = value
    <3>1. IsSeq(InQuotes(q, value)) BY InQuotesIs
    <3> QED BY <2>1, <3>1, UnquoteQuoted
  <2>2. ASSUME field = Field(key, value), value # <<>> => Head(value) \notin QuoteSigns
        PROVE  \E w : IsSeq(w) /\ field = Field(key, w) /\ unquote(w) = value
    BY <2>2, UnquoteBare
  <2> QED BY <1>1, <2>1, <2>2 DEF ReadAs
<1> DEFINE p == [key |-> key, value |-> w]
<1>4. OkPair(p) BY <1>1, <1>2, <1>3 DEF OkPair
<1>5. split_once(field) = p
  <2>1. p.key = key /\ p.value = w OBVIOUS
  <2> HIDE DEF p
  <2>2. split_once(Field(p.key, p.value)) = p BY <1>4, SplitWhole
  <2> QED BY <1>3, <2>1, <2>2
<1>6. Unquote(p) = [key |-> key, value |-> unquote(w)]
  <2>1. [p EXCEPT !.value = unquote(w)] = [key |-> key, value |-> unquote(w)] OBVIOUS
  <2> QED BY <2>1 DEF Unquote
<1>7. p.key = key OBVIOUS
<1> HIDE DEF p
<1> QED BY <1>1, <1>3, <1>5, <1>6, <1>7

LEMMA SubAt ==
    ASSUME NEW s, IsSeq(s), NEW a \in Nat, a # 0, NEW b \in Nat, a <= b, b <= Len(s) + 1,
           NEW t, t = SubSeq(s, a, b - 1)
    PROVE  /\ IsSeq(t) /\ Len(t) = b - a
           /\ \A x \in 1..(b - a) : t[x] = s[(a - 1) + x]
<1> DEFINE x == a - 1
           y == b - 1
<1>1. Len(s) \in Nat BY SeqFacts
<1>2. x \in Nat /\ y \in Nat /\ x <= y /\ y <= Len(s) /\ x + 1 = a /\ y - x = b - a BY <1>1
<1> HIDE DEF x, y
<1> DEFINE u == SubSeq(s, x + 1, y)
<1>3. t = u BY <1>2 DEF y
<1>4. IsSeq(u) /\ Len(u) = y - x /\ \A i \in 1..(y - x) : u[i] = s[x + i]
  BY <1>2, SubFacts
<1> HIDE DEF u
<1> QED BY <1>2, <1>3, <1>4 DEF x

(* A part of a sequence, possibly without elements. *)
LEMMA SubAny ==
    ASSUME NEW s, IsSeq(s), NEW m \in Nat, m # 0, NEW n \in Nat, n <= Len(s)
    PROVE  IsSeq(SubSeq(s, m, n))
<1>1. Len(s) \in Nat BY SeqFacts
<1>2. CASE m <= n + 1
  <2> DEFINE b == n + 1
  <2>1. b \in Nat /\ m <= b /\ b <= Len(s) + 1 /\ b - 1 = n BY <1>1, <1>2
  <2> HIDE DEF b
  <2>2. IsSeq(SubSeq(s, m, b - 1)) BY <2>1, SubIsSeq
  <2> QED BY <2>1, <2>2
<1>3. CASE n + 1 < m
  <2>1. PICK S : s \in Seq(S) BY DEF IsSeq
  <2>2. SubSeq(s, m, n) = <<>> BY <1>3, <2>1
  <2> QED BY <2>2, EmptyIsSeq
<1> QED BY <1>2, <1>3

LEMMA ReadingIs ==
    ASSUME NEW field, IsSeq(field), NEW r \in ReadingsOf(field)
    PROVE  /\ r = [key |-> r.key, value |-> r.value] /\ IsSeq(r.key) /\ IsSeq(r.value)
           /\ Reads(field, r.key, r.value)
<1>1. /\ r \in [key : Beginnings(field), value : Endings(field)]
      /\ Reads(field, r.key, r.value)
  BY DEF ReadingsOf
<1>2. r = [key |-> r.key, value |-> r.value] /\ r.key \in Beginnings(field) /\ r.value \in Endings(field)
  <2> HIDE DEF Beginnings, Endings
  <2> QED BY <1>1
<1>3. Len(field) \in Nat BY SeqFacts
<1>4. IsSeq(r.key)
  <2>1. PICK n \in 0..Len(field) : r.key = SubSeq(field, 1, n) BY <1>2 DEF Beginnings
  <2>2. n \in Nat /\ n <= Len(field) BY <1>3, <2>1
  <2> QED BY <2>1, <2>2, BeginIs
<1>5. IsSeq(r.value)
  <2>1. PICK m \in 2..(Len(field) + 1), n \in (Len(field) - 1)..Len(field) :
            r.value = SubSeq(field, m, n)
    BY <1>2 DEF Endings
  <2>2. m \in Nat /\ m # 0 /\ n \in Nat /\ n <= Len(field) BY <1>3, <2>1
  <2> QED BY <2>1, <2>2, SubAny
<1> QED BY <1>1, <1>2, <1>4, <1>5

Equals(raw, from) == FirstOr(Behind(raw, from, {"=", ","}), Len(raw) + 1)
BareEnd(raw, equals) == FirstOr(Behind(raw, equals + 1, {","}), Len(raw) + 1)
Closed(raw, equals) == FirstOr(Behind(raw, equals + 2, {raw[equals + 1]}), 0)
BadEnd(raw, closed) == closed = 0 \/ (closed < Len(raw) /\ raw[closed + 1] # ",")

LEMMA FieldEndIs ==
    \A raw, from :
        LET equals == Equals(raw, from)
            bare == equals = Len(raw) \/ raw[equals + 1] \notin QuoteSigns
        IN  FieldEnd(raw, from) =
                IF equals > Len(raw) \/ raw[equals] = "," THEN equals
                ELSE IF bare THEN BareEnd(raw, equals)
                ELSE IF BadEnd(raw, Closed(raw, equals)) THEN 0
                ELSE Closed(raw, equals) + 1
BY Zenon DEF FieldEnd, Equals, BareEnd, Closed, BadEnd

LEMMA KeyOnly ==
    \A raw, from, equals :
        equals = Equals(raw, from) /\ (equals > Len(raw) \/ raw[equals] = ",")
            => FieldEnd(raw, from) = equals
BY FieldEndIs, Zenon

LEMMA BareField ==
    \A raw, from, equals :
        /\ equals = Equals(raw, from) /\ ~(equals > Len(raw)) /\ raw[equals] # ","
        /\ equals = Len(raw) \/ raw[equals + 1] \notin QuoteSigns
        => FieldEnd(raw, from) = BareEnd(raw, equals)
BY FieldEndIs, Zenon

LEMMA QuotedField ==
    \A raw, from, equals :
        /\ equals = Equals(raw, from) /\ ~(equals > Len(raw)) /\ raw[equals] # ","
        /\ equals # Len(raw) /\ raw[equals + 1] \in QuoteSigns
        => FieldEnd(raw, from) = IF BadEnd(raw, Closed(raw, equals)) THEN 0
                                 ELSE Closed(raw, equals) + 1
BY FieldEndIs, Zenon

(* A field of raw: it begins at `from` and a comma or the end is at `to`. *)
FieldAt(raw, from, to) ==
    /\ from \in Nat /\ from # 0 /\ to \in Nat /\ from <= to /\ to <= Len(raw) + 1
    /\ to <= Len(raw) => raw[to] = ","

(* Its '=' is at e, and w is behind it. *)
Laid(raw, from, to, e, w) ==
    /\ e \in Nat /\ from <= e /\ e <= Len(raw) /\ Equals(raw, from) = e /\ raw[e] = "="
    /\ Len(w) \in Nat /\ to = e + 1 + Len(w) /\ \A x \in 1..Len(w) : raw[e + x] = w[x]

FieldIn(raw, from, to) == SubSeq(raw, from, to - 1)
Plainly(key) == \A x \in 1..Len(key) : key[x] # "=" /\ key[x] # ","

LEMMA FieldInIs ==
    ASSUME NEW raw, IsSeq(raw), NEW from, NEW to, FieldAt(raw, from, to)
    PROVE  LET f == FieldIn(raw, from, to) IN
           /\ IsSeq(f) /\ Len(f) = to - from
           /\ \A x \in 1..(to - from) : f[x] = raw[(from - 1) + x]
<1> DEFINE f == SubSeq(raw, from, to - 1)
<1>1. /\ from \in Nat /\ from # 0 /\ to \in Nat /\ from <= to /\ to <= Len(raw) + 1
  BY DEF FieldAt
<1>2. f = SubSeq(raw, from, to - 1) OBVIOUS
<1> HIDE DEF f
<1>3. IsSeq(f) /\ Len(f) = to - from /\ \A x \in 1..(to - from) : f[x] = raw[(from - 1) + x]
  <2>1. IsSeq(f) BY <1>1, <1>2, SubIsSeq
  <2>2. Len(f) = to - from BY <1>1, <1>2, SubAt
  <2>3. \A x \in 1..(to - from) : f[x] = raw[(from - 1) + x] BY <1>1, <1>2, SubAt
  <2> QED BY <2>1, <2>2, <2>3
<1> QED BY <1>3 DEF FieldIn, f

LEMMA Signs ==
    /\ "," # "=" /\ Quote \in QuoteSigns /\ "'" \in QuoteSigns
    /\ "," \notin QuoteSigns /\ "=" \notin QuoteSigns
BY DEF QuoteSigns, Quote

LEMMA LaidOut ==
    ASSUME NEW raw, IsSeq(raw), NEW from, NEW to, FieldAt(raw, from, to),
           NEW key, IsSeq(key), Plainly(key), NEW w, IsSeq(w), FieldIn(raw, from, to) = Field(key, w)
    PROVE  Laid(raw, from, to, from + Len(key), w)
<1> DEFINE f == FieldIn(raw, from, to)
           k == Len(key)
           l == Len(w)
           L == Len(raw)
           e == from + k
<1>1. /\ from \in Nat /\ from # 0 /\ to \in Nat /\ from <= to /\ to <= L + 1
      /\ k \in Nat /\ l \in Nat /\ L \in Nat
  BY SeqFacts DEF FieldAt
<1>2. Len(f) = to - from /\ \A x \in 1..(to - from) : f[x] = raw[(from - 1) + x]
  BY FieldInIs
<1>3. /\ Len(f) = k + 1 + l /\ f[k + 1] = "="
      /\ (\A x \in 1..k : f[x] = key[x]) /\ (\A x \in 1..l : f[k + 1 + x] = w[x])
  <2> DEFINE g == Field(key, w)
  <2>1. f = g OBVIOUS
  <2> HIDE DEF f
  <2>2. /\ Len(g) = k + 1 + l /\ g[k + 1] = "="
        /\ (\A x \in 1..k : g[x] = key[x]) /\ (\A x \in 1..l : g[k + 1 + x] = w[x])
    <3>1. Len(g) = k + 1 + l BY FieldIs
    <3>2. g[k + 1] = "=" BY FieldIs
    <3>3. \A x \in 1..k : g[x] = key[x] BY FieldIs
    <3>4. \A x \in 1..l : g[k + 1 + x] = w[x] BY FieldIs
    <3> QED BY <3>1, <3>2, <3>3, <3>4
  <2> HIDE DEF g
  <2> QED BY <2>1, <2>2
<1> HIDE DEF f, k, l, L
<1>4. to = e + 1 + l /\ e \in Nat /\ from <= e /\ e <= L BY <1>1, <1>2, <1>3
<1>5. raw[e] = "="
  <2>1. k + 1 \in 1..(to - from) /\ (from - 1) + (k + 1) = e BY <1>1, <1>2, <1>3
  <2> QED BY <1>2, <1>3, <2>1
<1>6. ASSUME NEW x \in 1..l PROVE raw[e + x] = w[x]
  <2>1. k + 1 + x \in 1..(to - from) /\ (from - 1) + (k + 1 + x) = e + x
    BY <1>1, <1>2, <1>3
  <2> QED BY <1>2, <1>3, <2>1
<1>7. ASSUME NEW x \in from..(e - 1) PROVE raw[x] # "=" /\ raw[x] # ","
  <2> DEFINE y == x - from + 1
  <2>1. y \in 1..k /\ y \in 1..(to - from) /\ (from - 1) + y = x BY <1>1, <1>2, <1>3, <1>4
  <2> HIDE DEF y
  <2>2. f[y] = key[y] /\ f[y] = raw[x] BY <1>2, <1>3, <2>1
  <2>3. key[y] # "=" /\ key[y] # "," BY <2>1 DEF k, Plainly
  <2> QED BY <2>2, <2>3
<1> HIDE DEF e
<1>8. Equals(raw, from) = e
  <2> DEFINE letters == {"=", ","}
  <2>1. raw[e] \in letters /\ \A x \in from..(e - 1) : raw[x] \notin letters BY <1>5, <1>7
  <2>2. e <= Len(raw) BY <1>4 DEF L
  <2> HIDE DEF letters
  <2>3. FirstOr(Behind(raw, from, letters), Len(raw) + 1) = e
    BY <1>1, <1>4, <2>1, <2>2, FirstAt
  <2> QED BY <2>3 DEF Equals, letters
<1>9. Laid(raw, from, to, e, w) BY <1>1, <1>4, <1>5, <1>6, <1>8 DEF Laid, l, L
<1> QED BY <1>9 DEF e, k

(* A field that can be read ends where it does. *)
LEMMA ReadEndsThere ==
    ASSUME NEW raw, IsSeq(raw), NEW from, NEW to, FieldAt(raw, from, to),
           NEW key, IsSeq(key), NEW value, IsSeq(value),
           Reads(FieldIn(raw, from, to), key, value)
    PROVE  FieldEnd(raw, from) = to
<1> DEFINE f == FieldIn(raw, from, to)
           e == from + Len(key)
           l == Len(value)
           L == Len(raw)
<1>1. ToSet(key) \cap {"=", ","} = {} /\ ReadAs(f, key, value) BY ReadsIs
<1>2. Plainly(key)
  <2>1. "=" \notin ToSet(key) /\ "," \notin ToSet(key) BY <1>1
  <2>2. (\A x \in 1..Len(key) : key[x] # "=") /\ (\A x \in 1..Len(key) : key[x] # ",")
    BY <2>1, NotIn
  <2> QED BY <2>2 DEF Plainly
<1>3. from \in Nat /\ from # 0 /\ to \in Nat /\ to <= L + 1 /\ L \in Nat /\ l \in Nat
  BY SeqFacts DEF FieldAt
<1>4. to <= L => raw[to] = "," BY DEF FieldAt
<1> HIDE DEF L
<1>5. ASSUME f = Field(key, value), "," \notin ToSet(value),
             value # <<>> => Head(value) \notin QuoteSigns
      PROVE  FieldEnd(raw, from) = to
  <2>1. Laid(raw, from, to, e, value) BY <1>2, <1>5, LaidOut
  <2> HIDE DEF e, f
  <2>2. e \in Nat /\ e <= L /\ to = e + 1 + l BY <2>1 DEF Laid, L
  <2>3. e = Equals(raw, from) /\ raw[e] = "=" BY <2>1 DEF Laid
  <2>4. \A x \in 1..l : raw[e + x] = value[x] BY <2>1 DEF Laid
  <2> HIDE DEF l
  <2>5. ~(e > L) /\ raw[e] # ","
    <3>1. ~(e > L) BY <1>3, <2>2
    <3>2. raw[e] # "," BY <2>3, Signs
    <3> QED BY <3>1, <3>2
  <2>6. e = L \/ raw[e + 1] \notin QuoteSigns
    <3>1. CASE value = <<>>
      <4>1. l = 0 BY <3>1, EmptyIsSeq DEF l
      <4>2. to = e + 1 /\ (e # L => to <= L) BY <1>3, <2>2, <4>1
      <4> QED BY <1>4, <4>2, Signs
    <3>2. CASE value # <<>>
      <4>1. l # 0
        <5> SUFFICES ASSUME l = 0 PROVE FALSE OBVIOUS
        <5>1. IsSeq(<<>>) /\ Len(<<>>) = 0 BY EmptyIsSeq
        <5>2. value = <<>> BY <5>1, SameSeq DEF l
        <5> QED BY <3>2, <5>2
      <4>2. 1 \in 1..l BY <1>3, <4>1
      <4>3. Head(value) = value[1] BY <4>1, HeadLast DEF l
      <4> QED BY <1>5, <2>4, <3>2, <4>2, <4>3
    <3> QED BY <3>1, <3>2
  <2>7. FieldEnd(raw, from) = BareEnd(raw, e) BY <2>3, <2>5, <2>6, BareField DEF L
  <2>8. BareEnd(raw, e) = to
    <3> DEFINE s == e + 1
               letters == {","}
    <3>1. s \in Nat /\ s # 0 /\ s <= to BY <1>3, <2>2
    <3>2. ASSUME NEW x \in s..(to - 1) PROVE raw[x] \notin letters
      <4> DEFINE y == x - e
      <4>1. y \in 1..l /\ e + y = x BY <1>3, <2>2
      <4> HIDE DEF y
      <4>2. value[y] # "," BY <1>5, <4>1, NotIn DEF l
      <4>3. raw[x] = value[y] BY <2>4, <4>1
      <4> QED BY <4>2, <4>3
    <3>3. CASE to <= L
      <4>1. raw[to] \in letters BY <1>4, <3>3
      <4>2. to <= Len(raw) BY <3>3 DEF L
      <4> HIDE DEF s, letters
      <4>3. FirstOr(Behind(raw, s, letters), Len(raw) + 1) = to
        BY <1>3, <3>1, <3>2, <4>1, <4>2, FirstAt
      <4> QED BY <4>3 DEF BareEnd, s, letters
    <3>4. CASE ~(to <= L)
      <4>1. to = L + 1 /\ to - 1 = L BY <1>3, <3>4
      <4>2. \A x \in s..L : raw[x] \notin letters BY <3>2, <4>1
      <4> HIDE DEF s, letters
      <4>3. FirstOr(Behind(raw, s, letters), Len(raw) + 1) = Len(raw) + 1
        BY <3>1, <4>2, FirstNone DEF L
      <4> QED BY <4>1, <4>3 DEF BareEnd, s, letters, L
    <3> QED BY <3>3, <3>4
  <2> QED BY <2>7, <2>8
<1>6. ASSUME NEW q \in QuoteSigns, q \notin ToSet(value), f = Field(key, InQuotes(q, value))
      PROVE  FieldEnd(raw, from) = to
  <2> DEFINE w == InQuotes(q, value)
             m == Len(w)
  <2>1. /\ IsSeq(w) /\ m = l + 2 /\ w[1] = q /\ w[l + 2] = q
        /\ \A x \in 1..l : w[x + 1] = value[x]
    BY InQuotesIs
  <2>2. Laid(raw, from, to, e, w) BY <1>2, <1>6, <2>1, LaidOut
  <2> HIDE DEF e, f, w
  <2>3. e \in Nat /\ e <= L /\ to = e + 1 + m BY <2>2 DEF Laid, L
  <2>4. e = Equals(raw, from) /\ raw[e] = "=" BY <2>2 DEF Laid
  <2>5. \A x \in 1..m : raw[e + x] = w[x] BY <2>2 DEF Laid
  <2> HIDE DEF l, m
  <2> DEFINE s == e + 2
             at == to - 1
             letters == {raw[e + 1]}
  <2>6. m = l + 2 BY <2>1
  <2>7. /\ to = e + l + 3 /\ 1 \in 1..m /\ l + 2 \in 1..m /\ at = e + (l + 2)
        /\ e < L /\ s \in Nat /\ s # 0 /\ at \in Nat /\ s <= at /\ at <= L
        /\ at # 0 /\ at + 1 = to /\ (at < L => to <= L) /\ e # L /\ ~(e > L)
    BY <1>3, <2>3, <2>6
  <2>8. raw[e + 1] = q /\ raw[at] = q
    <3>1. raw[e + 1] = w[1] /\ raw[e + (l + 2)] = w[l + 2] BY <2>5, <2>7
    <3>2. w[1] = q /\ w[l + 2] = q BY <2>1
    <3>3. at = e + (l + 2) BY <2>7
    <3> HIDE DEF at
    <3> QED BY <3>1, <3>2, <3>3
  <2>9. raw[e] # "," /\ raw[e + 1] \in QuoteSigns BY <2>4, <2>8, Signs
  <2>10. Closed(raw, e) = at
    <3>1. raw[at] \in letters BY <2>8
    <3>2. ASSUME NEW x \in s..(at - 1) PROVE raw[x] \notin letters
      <4> DEFINE y == x - e - 1
      <4>1. y \in 1..l /\ y + 1 \in 1..m /\ e + (y + 1) = x BY <1>3, <2>3, <2>6
      <4> HIDE DEF y
      <4>2. value[y] # q BY <1>6, <4>1, NotIn DEF l
      <4>3. w[y + 1] = value[y] BY <2>1, <4>1
      <4>4. raw[x] = w[y + 1] BY <2>5, <4>1
      <4> QED BY <2>8, <4>2, <4>3, <4>4
    <3>3. at <= Len(raw) /\ s \in Nat /\ s # 0 /\ at \in Nat /\ s <= at BY <2>7 DEF L
    <3> HIDE DEF s, at, letters
    <3>4. FirstOr(Behind(raw, s, letters), 0) = at BY <3>1, <3>2, <3>3, FirstAt
    <3> QED BY <3>4 DEF Closed, s, letters
  <2>11. ~BadEnd(raw, at) /\ at + 1 = to
    <3>1. at # 0 /\ at + 1 = to /\ (at < L => to <= L) BY <2>7
    <3> HIDE DEF at
    <3>2. at < L => raw[at + 1] = "," BY <1>4, <3>1
    <3> QED BY <3>1, <3>2 DEF BadEnd, L
  <2>12. ~(e > Len(raw)) /\ e # Len(raw) BY <2>7 DEF L
  <2> HIDE DEF at
  <2>13. FieldEnd(raw, from) = IF BadEnd(raw, Closed(raw, e)) THEN 0 ELSE Closed(raw, e) + 1
    BY <2>4, <2>9, <2>12, QuotedField
  <2> QED BY <2>10, <2>11, <2>13
<1> QED BY <1>1, <1>5, <1>6 DEF ReadAs

LEMMA EmptyEndsThere ==
    ASSUME NEW raw, IsSeq(raw), NEW at, FieldAt(raw, at, at)
    PROVE  FieldEnd(raw, at) = at
<1> DEFINE L == Len(raw)
           letters == {"=", ","}
<1>1. at \in Nat /\ at # 0 /\ at <= L + 1 /\ L \in Nat BY SeqFacts DEF FieldAt
<1>2. at <= L => raw[at] = "," BY DEF FieldAt
<1> HIDE DEF L
<1>3. CASE at <= L
  <2>1. raw[at] \in letters /\ raw[at] = "," BY <1>2, <1>3
  <2> HIDE DEF letters
  <2>2. at <= Len(raw) /\ at <= at BY <1>1, <1>3 DEF L
  <2>3. \A x \in at..(at - 1) : raw[x] \notin letters BY <1>1
  <2>4. FirstOr(Behind(raw, at, letters), Len(raw) + 1) = at BY <1>1, <2>1, <2>2, <2>3, FirstAt
  <2>5. Equals(raw, at) = at BY <2>4 DEF Equals, letters
  <2> QED BY <2>1, <2>5, KeyOnly
<1>4. CASE ~(at <= L)
  <2>1. at = L + 1 /\ at > L BY <1>1, <1>4
  <2> HIDE DEF letters
  <2>2. \A x \in at..L : raw[x] \notin letters BY <1>1, <2>1
  <2>3. FirstOr(Behind(raw, at, letters), Len(raw) + 1) = Len(raw) + 1
    BY <1>1, <2>2, FirstNone DEF L
  <2>4. Equals(raw, at) = at BY <2>1, <2>3 DEF Equals, letters, L
  <2>5. at > Len(raw) BY <2>1 DEF L
  <2> QED BY <2>4, <2>5, KeyOnly
<1> QED BY <1>3, <1>4

(* A field ends at a comma or at the end of the text. *)
LEMMA FieldEndsAt ==
    ASSUME NEW raw, IsSeq(raw), NEW from \in Nat, from # 0, from <= Len(raw) + 1,
           FieldEnd(raw, from) # 0
    PROVE  FieldAt(raw, from, FieldEnd(raw, from))
<1> DEFINE to == FieldEnd(raw, from)
           L == Len(raw)
           e == Equals(raw, from)
<1>1. L \in Nat /\ to \in Nat /\ from <= to /\ to <= L + 1 BY FieldEnds, SeqFacts
<1>2. e = L + 1 \/ (e \in Nat /\ from <= e /\ e <= L)
  <2> DEFINE letters == {"=", ","}
  <2>1. e = FirstOr(Behind(raw, from, letters), L + 1) BY DEF Equals
  <2> HIDE DEF letters, e
  <2> QED BY <2>1, FirstIs
<1>3. ASSUME to <= L PROVE raw[to] = ","
  <2>1. CASE e > L \/ raw[e] = ","
    <3>1. to = e BY <2>1, KeyOnly
    <3> HIDE DEF to, e
    <3>2. ~(e > L) BY <1>1, <1>3, <3>1
    <3> QED BY <2>1, <3>1, <3>2
  <2>2. CASE ~(e > L) /\ raw[e] # ","
    <3> DEFINE bare == e = L \/ raw[e + 1] \notin QuoteSigns
    <3>1. CASE bare
      <4> DEFINE letters == {","}
                 s == e + 1
      <4>1. to = FirstOr(Behind(raw, s, letters), L + 1) BY <2>2, <3>1, BareField DEF BareEnd
      <4> HIDE DEF to, e
      <4>2. s \in Nat /\ s # 0 /\ to # L + 1 BY <1>1, <1>2, <1>3
      <4> HIDE DEF s, L, letters
      <4>3. raw[to] \in letters BY <4>1, <4>2, FirstFound
      <4> QED BY <4>3 DEF letters
    <3>2. CASE ~bare
      <4> DEFINE c == Closed(raw, e)
      <4>1. to = IF BadEnd(raw, c) THEN 0 ELSE c + 1 BY <2>2, <3>2, QuotedField
      <4>2. c = 0 \/ (c \in Nat /\ c <= L)
        <5> DEFINE letters == {raw[e + 1]}
                   s == e + 2
        <5>1. c = FirstOr(Behind(raw, s, letters), 0) BY DEF Closed
        <5> HIDE DEF c, to, e
        <5>2. s \in Nat BY <1>1, <1>2
        <5> HIDE DEF s, letters
        <5> QED BY <5>1, <5>2, FirstIs
      <4>3. to # 0 OBVIOUS
      <4> HIDE DEF to, e, c
      <4>4. ~BadEnd(raw, c) /\ to = c + 1 BY <4>1, <4>3
      <4>5. c # 0 /\ ~(c < L /\ raw[c + 1] # ",") BY <4>4 DEF BadEnd
      <4>6. c < L BY <1>1, <1>3, <4>2, <4>4
      <4> QED BY <4>4, <4>5, <4>6
    <3> QED BY <3>1, <3>2
  <2> QED BY <2>1, <2>2
<1> HIDE DEF to
<1>4. FieldAt(raw, from, to) BY <1>1, <1>3 DEF FieldAt, L
<1> QED BY <1>4 DEF to

(* The two sides of a field's '='. *)
KeyOf(f, k) == SubSeq(f, 1, k)
ValueOf(f, k) == SubSeq(f, (k + 1) + 1, Len(f))
SidedAt(f, k) ==
    /\ k \in Nat /\ k + 1 <= Len(f) /\ f[k + 1] = "="
    /\ \A x \in 1..k : f[x] # "=" /\ f[x] # ","

LEMMA SidesAre ==
    ASSUME NEW f, IsSeq(f), NEW k, SidedAt(f, k)
    PROVE  /\ IsSeq(KeyOf(f, k)) /\ Len(KeyOf(f, k)) = k
           /\ \A x \in 1..k : KeyOf(f, k)[x] = f[x]
           /\ IsSeq(ValueOf(f, k)) /\ Len(ValueOf(f, k)) = Len(f) - (k + 1)
           /\ \A x \in 1..(Len(f) - (k + 1)) : ValueOf(f, k)[x] = f[k + 1 + x]
<1> DEFINE n == Len(f)
           a == k + 1
           key == KeyOf(f, k)
           v == ValueOf(f, k)
<1>1. k \in Nat /\ n \in Nat /\ k <= n /\ a \in Nat /\ a <= n
  <2>1. n \in Nat BY SeqFacts
  <2>2. k \in Nat /\ k + 1 <= n BY DEF SidedAt
  <2> HIDE DEF n
  <2> QED BY <2>1, <2>2
<1> HIDE DEF a
<1>2. key = SubSeq(f, 1, k) BY DEF KeyOf
<1>3. v = SubSeq(f, a + 1, n) BY DEF ValueOf, a
<1> HIDE DEF key, v
<1>4. IsSeq(key) /\ Len(key) = k /\ \A x \in 1..k : key[x] = f[x] BY <1>1, <1>2, BeginIs
<1>5. IsSeq(v) /\ Len(v) = n - a /\ \A x \in 1..(n - a) : v[x] = f[a + x]
  <2> DEFINE t == SubSeq(f, a + 1, n)
  <2>1. IsSeq(t) /\ Len(t) = n - a /\ \A x \in 1..(n - a) : t[x] = f[a + x]
    BY <1>1, SubFacts
  <2> HIDE DEF t
  <2> QED BY <1>3, <2>1 DEF t
<1> QED BY <1>4, <1>5 DEF key, v, a

LEMMA BothSides ==
    ASSUME NEW f, IsSeq(f), NEW k, SidedAt(f, k)
    PROVE  f = Field(KeyOf(f, k), ValueOf(f, k))
<1> DEFINE n == Len(f)
           key == KeyOf(f, k)
           v == ValueOf(f, k)
           g == Field(key, v)
           l == Len(v)
<1>1. IsSeq(key) /\ Len(key) = k /\ IsSeq(v) BY SidesAre
<1>2. l = n - (k + 1) /\ \A x \in 1..(n - (k + 1)) : v[x] = f[k + 1 + x] BY SidesAre
<1>3. \A x \in 1..k : key[x] = f[x] BY SidesAre
<1>4. k \in Nat /\ n \in Nat /\ k + 1 <= n /\ f[k + 1] = "=" BY SeqFacts DEF SidedAt
<1> HIDE DEF key, v
<1>5. IsSeq(g) /\ Len(g) = Len(key) + 1 + l BY <1>1, FieldIs
<1>6. \A x \in 1..Len(key) : g[x] = key[x] BY <1>1, FieldIs
<1>7. g[Len(key) + 1] = "=" BY <1>1, FieldIs
<1>8. \A x \in 1..l : g[Len(key) + 1 + x] = v[x]
  <2>1. IsSeq(key) /\ IsSeq(v) BY <1>1
  <2> QED BY <2>1, FieldIs
<1> HIDE DEF n, g, l
<1>9. Len(g) = n BY <1>1, <1>2, <1>4, <1>5
<1>10. ASSUME NEW x \in 1..n PROVE g[x] = f[x]
  <2>1. CASE x \in 1..k BY <1>1, <1>3, <1>6, <2>1
  <2>2. CASE x = k + 1 BY <1>1, <1>4, <1>7, <2>2
  <2>3. CASE x \in (k + 2)..n
    <3> DEFINE y == x - (k + 1)
    <3>1. y \in 1..l /\ y \in 1..(n - (k + 1)) /\ k + 1 + y = x BY <1>2, <1>4, <2>3
    <3> HIDE DEF y
    <3> QED BY <1>1, <1>2, <1>8, <3>1
  <2> QED BY <1>4, <2>1, <2>2, <2>3
<1>11. g = f BY <1>5, <1>9, <1>10, SameSeq DEF n
<1> QED BY <1>11 DEF g, key, v

BareFrom(f, k) ==
    /\ \A x \in k..Len(f) : f[x] # ","
    /\ k <= Len(f) => f[k] \notin QuoteSigns

LEMMA BareReads ==
    ASSUME NEW f, IsSeq(f), NEW k, SidedAt(f, k), k # 0, BareFrom(f, k + 2)
    PROVE  Reads(f, KeyOf(f, k), ValueOf(f, k))
<1> DEFINE n == Len(f)
           key == KeyOf(f, k)
           v == ValueOf(f, k)
           l == Len(v)
<1>1. IsSeq(key) /\ Len(key) = k /\ IsSeq(v) BY SidesAre
<1>2. l = n - (k + 1) /\ \A x \in 1..(n - (k + 1)) : v[x] = f[k + 1 + x] BY SidesAre
<1>3. \A x \in 1..k : key[x] = f[x] BY SidesAre
<1>4. k \in Nat /\ n \in Nat /\ k + 1 <= n BY SeqFacts DEF SidedAt
<1>5. \A x \in 1..k : f[x] # "=" /\ f[x] # "," BY DEF SidedAt
<1>6. f = Field(key, v) BY BothSides
<1> HIDE DEF key, v
<1>7. key # <<>>
  <2> SUFFICES ASSUME key = <<>> PROVE FALSE OBVIOUS
  <2>1. Len(key) = 0 BY EmptyIsSeq
  <2> QED BY <1>1, <2>1
<1>8. "=" \notin ToSet(key) /\ "," \notin ToSet(key)
  <2>1. (\A x \in 1..Len(key) : key[x] # "=") /\ \A x \in 1..Len(key) : key[x] # ","
    BY <1>1, <1>3, <1>5
  <2> QED BY <1>1, <2>1, NotIn
<1>9. "," \notin ToSet(v)
  <2> HIDE DEF n
  <2>0. l = n - (k + 1) BY <1>2
  <2>1. ASSUME NEW x \in 1..l PROVE v[x] # ","
    <3> DEFINE y == k + 1 + x
    <3>1. y \in (k + 2)..n /\ x \in 1..(n - (k + 1)) BY <1>4, <2>0
    <3>2. v[x] = f[y] BY <1>2, <3>1
    <3> HIDE DEF y
    <3> QED BY <3>1, <3>2 DEF n, BareFrom
  <2> QED BY <1>1, <2>1, NotIn
<1>10. v # <<>> => Head(v) \notin QuoteSigns
  <2> SUFFICES ASSUME v # <<>> PROVE Head(v) \notin QuoteSigns OBVIOUS
  <2>1. l # 0
    <3> SUFFICES ASSUME l = 0 PROVE FALSE OBVIOUS
    <3>1. IsSeq(<<>>) /\ Len(<<>>) = 0 BY EmptyIsSeq
    <3>2. \A x \in 1..0 : v[x] = <<>>[x] OBVIOUS
    <3>3. v = <<>> BY <1>1, <3>1, <3>2, SameSeq
    <3> QED BY <3>3
  <2>2. Head(v) = v[1] BY <1>1, <2>1, HeadLast
  <2> HIDE DEF n, l
  <2>0. l = n - (k + 1) BY <1>2
  <2>3. k + 2 <= n /\ 1 \in 1..(n - (k + 1)) /\ k + 1 + 1 = k + 2 BY <1>4, <2>0, <2>1
  <2>4. v[1] = f[k + 2] BY <1>2, <2>3
  <2> QED BY <2>2, <2>3, <2>4 DEF n, BareFrom
<1>11. ReadAs(f, key, v) BY <1>6, <1>9, <1>10 DEF ReadAs
<1> QED BY <1>7, <1>8, <1>11, ReadsIs DEF key, v

(* f[k] is a quote, and the same one, which comes nowhere between, ends f. *)
QuotedFrom(f, k, q) ==
    /\ k + 1 <= Len(f) /\ f[k] = q /\ f[Len(f)] = q
    /\ \A x \in (k + 1)..(Len(f) - 1) : f[x] # q
Inside(f, k) == SubSeq(f, k + 1, Len(f) - 1)

LEMMA KeyReads ==
    ASSUME NEW f, IsSeq(f), NEW k, SidedAt(f, k), k # 0
    PROVE  KeyOf(f, k) # <<>> /\ ToSet(KeyOf(f, k)) \cap {"=", ","} = {}
<1> DEFINE key == KeyOf(f, k)
<1>1. IsSeq(key) /\ Len(key) = k /\ \A x \in 1..k : key[x] = f[x] BY SidesAre
<1>2. \A x \in 1..k : f[x] # "=" /\ f[x] # "," BY DEF SidedAt
<1> HIDE DEF key
<1>3. key # <<>>
  <2> SUFFICES ASSUME key = <<>> PROVE FALSE OBVIOUS
  <2>1. Len(key) = 0 BY EmptyIsSeq
  <2> QED BY <1>1, <2>1
<1>4. "=" \notin ToSet(key) /\ "," \notin ToSet(key)
  <2>1. (\A x \in 1..Len(key) : key[x] # "=") /\ \A x \in 1..Len(key) : key[x] # ","
    BY <1>1, <1>2
  <2> QED BY <1>1, <2>1, NotIn
<1> QED BY <1>3, <1>4 DEF key

LEMMA QuotedReads ==
    ASSUME NEW f, IsSeq(f), NEW k, SidedAt(f, k), k # 0,
           NEW q \in QuoteSigns, QuotedFrom(f, k + 2, q)
    PROVE  /\ IsSeq(Inside(f, k + 2))
           /\ Reads(f, KeyOf(f, k), Inside(f, k + 2))
<1> DEFINE n == Len(f)
           a == k + 3
           key == KeyOf(f, k)
           v == ValueOf(f, k)
           u == Inside(f, k + 2)
           w == InQuotes(q, u)
           l == Len(u)
<1>1. key # <<>> /\ ToSet(key) \cap {"=", ","} = {} BY KeyReads
<1>2. IsSeq(v) /\ Len(v) = n - (k + 1) BY SidesAre
<1>3. \A x \in 1..(n - (k + 1)) : v[x] = f[k + 1 + x] BY SidesAre
<1>4. f = Field(key, v) BY BothSides
<1>5. k \in Nat /\ n \in Nat /\ a <= n /\ a \in Nat /\ a # 0 /\ n <= n + 1 /\ a = k + 2 + 1
  <2>1. k \in Nat /\ n \in Nat BY SeqFacts DEF SidedAt
  <2>2. k + 2 + 1 <= n BY DEF QuotedFrom
  <2> HIDE DEF n
  <2> QED BY <2>1, <2>2
<1>6. f[k + 2] = q /\ f[n] = q BY DEF QuotedFrom
<1>7. \A x \in a..(n - 1) : f[x] # q BY <1>5 DEF QuotedFrom
<1>8. u = SubSeq(f, a, n - 1) BY <1>5 DEF Inside
<1> HIDE DEF u, key, v, a
<1>9. IsSeq(u) BY <1>5, <1>8, SubIsSeq
<1>10. l = n - a BY <1>5, <1>8, SubAt
<1>11. \A x \in 1..(n - a) : u[x] = f[(a - 1) + x] BY <1>5, <1>8, SubAt
<1>12. /\ IsSeq(w) /\ Len(w) = l + 2 /\ w[1] = q /\ w[l + 2] = q
       /\ \A x \in 1..l : w[x + 1] = u[x]
  BY <1>9, InQuotesIs
<1> HIDE DEF l, n, w
<1>13. Len(w) = n - (k + 1) /\ l + 2 = n - (k + 1) BY <1>5, <1>10, <1>12
<1>14. ASSUME NEW x \in 1..(n - (k + 1)) PROVE w[x] = v[x]
  <2>1. v[x] = f[k + 1 + x] BY <1>3
  <2>2. CASE x = 1
    <3>1. k + 1 + x = k + 2 BY <1>5, <2>2
    <3> QED BY <1>6, <1>12, <2>1, <2>2, <3>1
  <2>3. CASE x = n - (k + 1)
    <3>1. k + 1 + x = n BY <1>5, <2>3
    <3> QED BY <1>6, <1>12, <1>13, <2>1, <2>3, <3>1
  <2>4. CASE x # 1 /\ x # n - (k + 1)
    <3> DEFINE y == x - 1
    <3>1. y \in 1..l /\ y \in 1..(n - a) /\ y + 1 = x /\ (a - 1) + y = k + 1 + x
      BY <1>5, <1>10, <2>4
    <3> HIDE DEF y
    <3>2. w[x] = u[y] BY <1>12, <3>1
    <3>3. u[y] = f[k + 1 + x] BY <1>11, <3>1
    <3> QED BY <2>1, <3>2, <3>3
  <2> QED BY <2>2, <2>3, <2>4
<1>15. w = v BY <1>2, <1>12, <1>13, <1>14, SameSeq
<1>16. q \notin ToSet(u)
  <2>1. ASSUME NEW x \in 1..l PROVE u[x] # q
    <3> DEFINE y == (a - 1) + x
    <3>1. y \in a..(n - 1) /\ x \in 1..(n - a) BY <1>5, <1>10
    <3>2. u[x] = f[y] BY <1>11, <3>1
    <3> HIDE DEF y
    <3> QED BY <1>7, <3>1, <3>2
  <2> QED BY <1>9, <2>1, NotIn DEF l
<1>17. ReadAs(f, key, u) BY <1>4, <1>15, <1>16 DEF ReadAs, w
<1>18. Reads(f, key, u) BY <1>1, <1>17, ReadsIs
<1> QED BY <1>9, <1>18 DEF key, u

(* A key and a value that ReadingsOf would find. *)
Readable(f) ==
    \E key \in Beginnings(f), value \in Endings(f) :
        IsSeq(key) /\ IsSeq(value) /\ Reads(f, key, value)

LEMMA FoundThere ==
    ASSUME NEW f, IsSeq(f), NEW k, SidedAt(f, k)
    PROVE  /\ KeyOf(f, k) \in Beginnings(f) /\ ValueOf(f, k) \in Endings(f)
           /\ k + 3 <= Len(f) => Inside(f, k + 2) \in Endings(f)
<1> DEFINE n == Len(f)
<1>1. k \in Nat /\ n \in Nat /\ k + 1 <= n BY SeqFacts DEF SidedAt
<1>2. KeyOf(f, k) \in Beginnings(f)
  <2>1. k \in 0..n
    <3> HIDE DEF n
    <3> QED BY <1>1
  <2> QED BY <2>1 DEF KeyOf, Beginnings
<1>3. ValueOf(f, k) \in Endings(f)
  <2> DEFINE a == (k + 1) + 1
  <2>1. a \in 2..(n + 1) /\ n \in (n - 1)..n
    <3> HIDE DEF n
    <3> QED BY <1>1
  <2>2. ValueOf(f, k) = SubSeq(f, a, n) BY DEF ValueOf
  <2> HIDE DEF a
  <2> QED BY <2>1, <2>2 DEF Endings
<1>4. ASSUME k + 3 <= n PROVE Inside(f, k + 2) \in Endings(f)
  <2> DEFINE a == k + 2 + 1
             b == n - 1
  <2>1. a \in 2..(n + 1) /\ b \in (n - 1)..n
    <3> HIDE DEF n
    <3> QED BY <1>1, <1>4
  <2>2. Inside(f, k + 2) = SubSeq(f, a, b) BY DEF Inside
  <2> HIDE DEF a, b
  <2> QED BY <2>1, <2>2 DEF Endings
<1> QED BY <1>2, <1>3, <1>4

(* Where the '=' of a field is, and what stands before it. *)
LEMMA EqualsFound ==
    ASSUME NEW raw, IsSeq(raw), NEW from \in Nat, from # 0, NEW L, L = Len(raw)
    PROVE  LET e == Equals(raw, from) IN
           /\ e = L + 1 \/ (e \in Nat /\ from <= e /\ e <= L /\ raw[e] \in {"=", ","})
           /\ \A x \in from..L : x < e => raw[x] \notin {"=", ","}
<1> DEFINE e == Equals(raw, from)
           letters == {"=", ","}
<1>1. e = FirstOr(Behind(raw, from, letters), L + 1) BY DEF Equals
<1>2. L \in Nat BY SeqFacts
<1> HIDE DEF e, letters
<1>3. \/ e = L + 1 /\ \A x \in from..L : raw[x] \notin letters
      \/ /\ e \in Nat /\ from <= e /\ e <= L /\ raw[e] \in letters
         /\ \A x \in from..(e - 1) : raw[x] \notin letters
  BY <1>1, FirstFound
<1>4. \A x \in from..L : x < e => raw[x] \notin letters BY <1>2, <1>3
<1> QED BY <1>3, <1>4 DEF e, letters

(* A field that the parser ends, and whose key is not empty, can be read. *)
LEMMA FieldRead ==
    ASSUME NEW raw, IsSeq(raw), NEW from \in Nat, from # 0, from <= Len(raw) + 1,
           FieldEnd(raw, from) # 0,
           split_once(FieldIn(raw, from, FieldEnd(raw, from))).key # <<>>
    PROVE  Readable(FieldIn(raw, from, FieldEnd(raw, from)))
<1> DEFINE to == FieldEnd(raw, from)
           f == FieldIn(raw, from, to)
           L == Len(raw)
           e == Equals(raw, from)
           n == Len(f)
           k == e - from
<1>1. FieldAt(raw, from, to) BY FieldEndsAt
<1>2. L \in Nat /\ to \in Nat /\ from <= to /\ to <= L + 1 BY <1>1, SeqFacts DEF FieldAt
<1>3. e = L + 1 \/ (e \in Nat /\ from <= e /\ e <= L) BY EqualsFound
<1>4. e = L + 1 \/ raw[e] \in {"=", ","} BY EqualsFound
<1>5. \A x \in from..L : x < e => raw[x] # "=" /\ raw[x] # "," BY EqualsFound
<1>6. split_once(f).key # <<>> /\ to # 0 OBVIOUS
<1>7. (e > L \/ raw[e] = ",") => to = e BY KeyOnly
<1>8. ~(e > L) /\ raw[e] # "," /\ (e = L \/ raw[e + 1] \notin QuoteSigns) => to = BareEnd(raw, e)
  BY BareField
<1>9. ~(e > L) /\ raw[e] # "," /\ e # L /\ raw[e + 1] \in QuoteSigns
          => to = IF BadEnd(raw, Closed(raw, e)) THEN 0 ELSE Closed(raw, e) + 1
  BY QuotedField
<1> HIDE DEF to, e
<1>10. IsSeq(f) /\ n = to - from BY <1>1, FieldInIs
<1>11. \A x \in 1..(to - from) : f[x] = raw[(from - 1) + x] BY <1>1, FieldInIs
<1> HIDE DEF f, n, L
<1>12. e <= L /\ e \in Nat /\ from <= e /\ raw[e] = "="
  <2>1. ASSUME to = e PROVE FALSE
    <3>1. ASSUME NEW x \in 1..n PROVE f[x] # "="
      <4> DEFINE y == (from - 1) + x
      <4>1. y \in from..L /\ y < e /\ x \in 1..(to - from) BY <1>2, <1>10, <2>1
      <4>2. f[x] = raw[y] BY <1>11, <4>1
      <4> HIDE DEF y
      <4> QED BY <1>5, <4>1, <4>2
    <3> QED BY <1>6, <1>10, <3>1, SplitShort DEF n
  <2>2. ~(e > L) /\ raw[e] # "," BY <1>7, <2>1
  <2>3. e # L + 1
    <3>1. L + 1 > L BY <1>2
    <3> QED BY <2>2, <3>1
  <2> QED BY <1>3, <1>4, <2>2, <2>3
<1>13. ~(e > L) /\ raw[e] # ","
  <2>1. ~(e > L) BY <1>2, <1>12
  <2> QED BY <1>12, <2>1, Signs
<1> DEFINE bare == e = L \/ raw[e + 1] \notin QuoteSigns
           s == e + 1
           c == Closed(raw, e)
<1>14. ASSUME bare PROVE s <= to /\ \A x \in s..(to - 1) : raw[x] # ","
  <2> DEFINE letters == {","}
  <2>1. to = FirstOr(Behind(raw, s, letters), L + 1) BY <1>8, <1>13, <1>14 DEF BareEnd, L
  <2> HIDE DEF letters
  <2>2. s \in Nat /\ s # 0 /\ s <= L + 1 BY <1>2, <1>12
  <2> HIDE DEF s
  <2>3. \/ to = L + 1 /\ \A x \in s..L : raw[x] \notin letters
        \/ /\ to \in Nat /\ s <= to /\ to <= L /\ raw[to] \in letters
           /\ \A x \in s..(to - 1) : raw[x] \notin letters
    BY <2>1, <2>2, FirstFound DEF L
  <2>4. s <= to /\ \A x \in s..(to - 1) : raw[x] \notin letters BY <1>2, <2>2, <2>3
  <2> QED BY <2>4 DEF letters
<1>15. ASSUME ~bare
       PROVE  /\ c \in Nat /\ e + 2 <= c /\ c <= L /\ to = c + 1
              /\ raw[c] = raw[e + 1] /\ \A x \in (e + 2)..(c - 1) : raw[x] # raw[e + 1]
  <2> DEFINE letters == {raw[e + 1]}
             r == e + 2
  <2>1. to = IF BadEnd(raw, c) THEN 0 ELSE c + 1 BY <1>9, <1>13, <1>15
  <2>2. c # 0 /\ to = c + 1 BY <1>6, <2>1 DEF BadEnd
  <2>3. c = FirstOr(Behind(raw, r, letters), 0) BY DEF Closed
  <2>4. r \in Nat /\ r # 0 BY <1>12
  <2> HIDE DEF c, letters, r
  <2>5. /\ c \in Nat /\ r <= c /\ c <= L /\ raw[c] \in letters
        /\ \A x \in r..(c - 1) : raw[x] \notin letters
    BY <2>2, <2>3, <2>4, FirstFound DEF L
  <2> QED BY <2>2, <2>5 DEF r, letters
<1> HIDE DEF c
<1>16. e + 1 <= to
  <2>1. CASE bare BY <1>14, <2>1
  <2>2. CASE ~bare BY <1>12, <1>15, <2>2
  <2> QED BY <2>1, <2>2
<1>17. k \in Nat /\ k + 1 \in 1..(to - from) /\ k + 1 <= n /\ (from - 1) + (k + 1) = e
  BY <1>2, <1>10, <1>12, <1>16
<1>18. SidedAt(f, k)
  <2>1. f[k + 1] = "=" BY <1>11, <1>12, <1>17
  <2>2. ASSUME NEW x \in 1..k PROVE f[x] # "=" /\ f[x] # ","
    <3> DEFINE y == (from - 1) + x
    <3>1. y \in from..L /\ y < e /\ x \in 1..(to - from) BY <1>2, <1>12, <1>17
    <3>2. f[x] = raw[y] BY <1>11, <3>1
    <3> HIDE DEF y
    <3> QED BY <1>5, <3>1, <3>2
  <2> HIDE DEF k
  <2> QED BY <1>17, <2>1, <2>2 DEF SidedAt, n
<1>19. k # 0
  <2>1. split_once(f).key = SubSeq(f, 1, k)
    <3>1. f[k + 1] = "=" /\ \A x \in 1..k : f[x] # "=" BY <1>18 DEF SidedAt
    <3> DEFINE key == SubSeq(f, 1, k)
               value == SubSeq(f, (k + 1) + 1, Len(f))
    <3>2. split_once(f) = [key |-> key, value |-> value]
      <4> HIDE DEF k
      <4> QED BY <1>10, <1>17, <3>1, SplitLong DEF n
    <3>3. [key |-> key, value |-> value].key = key
      <4> HIDE DEF key, value
      <4> QED OBVIOUS
    <3> QED BY <3>2, <3>3
  <2> HIDE DEF k
  <2>2. IsSeq(SubSeq(f, 1, k)) /\ Len(SubSeq(f, 1, k)) = k
    BY <1>10, <1>18, SidesAre DEF KeyOf
  <2> SUFFICES ASSUME k = 0 PROVE FALSE OBVIOUS
  <2> DEFINE key == SubSeq(f, 1, k)
  <2>3. IsSeq(key) /\ Len(key) = 0 BY <2>2
  <2>4. key # <<>> BY <1>6, <2>1
  <2> HIDE DEF key
  <2>5. key = <<>>
    <3>1. IsSeq(<<>>) /\ Len(<<>>) = 0 BY EmptyIsSeq
    <3>2. \A x \in 1..0 : key[x] = <<>>[x] OBVIOUS
    <3> QED BY <2>3, <3>1, <3>2, SameSeq
  <2> QED BY <2>4, <2>5
<1>20. CASE bare
  <2>1. BareFrom(f, k + 2)
    <3>1. ASSUME NEW x \in (k + 2)..n PROVE f[x] # ","
      <4> DEFINE y == (from - 1) + x
      <4>1. y \in s..(to - 1) /\ x \in 1..(to - from) BY <1>2, <1>10, <1>12
      <4>2. f[x] = raw[y] BY <1>11, <4>1
      <4> HIDE DEF y
      <4> QED BY <1>14, <1>20, <4>1, <4>2
    <3>2. ASSUME k + 2 <= n PROVE f[k + 2] \notin QuoteSigns
      <4>1. e # L /\ k + 2 \in 1..(to - from) /\ (from - 1) + (k + 2) = e + 1
        BY <1>2, <1>10, <1>12, <3>2
      <4>2. f[k + 2] = raw[e + 1] BY <1>11, <4>1
      <4> QED BY <1>20, <4>1, <4>2
    <3> HIDE DEF k
    <3> QED BY <3>1, <3>2 DEF BareFrom, n
  <2> HIDE DEF k
  <2>2. Reads(f, KeyOf(f, k), ValueOf(f, k)) BY <1>10, <1>18, <1>19, <2>1, BareReads
  <2>3. IsSeq(KeyOf(f, k)) /\ IsSeq(ValueOf(f, k)) BY <1>10, <1>18, SidesAre
  <2>4. KeyOf(f, k) \in Beginnings(f) /\ ValueOf(f, k) \in Endings(f) BY <1>10, <1>18, FoundThere
  <2>5. Readable(f) BY <2>2, <2>3, <2>4 DEF Readable
  <2> QED BY <2>5 DEF f, to
<1>21. CASE ~bare
  <2> DEFINE q == raw[e + 1]
  <2>1. q \in QuoteSigns BY <1>21
  <2>2. c \in Nat /\ e + 2 <= c /\ c <= L /\ to = c + 1 /\ raw[c] = q BY <1>15, <1>21
  <2>3. \A x \in (e + 2)..(c - 1) : raw[x] # q BY <1>15, <1>21
  <2> HIDE DEF q
  <2>4. k + 3 <= n BY <1>2, <1>10, <1>12, <2>2
  <2>5. QuotedFrom(f, k + 2, q)
    <3>1. k + 2 \in 1..(to - from) /\ (from - 1) + (k + 2) = e + 1 BY <1>2, <1>12, <2>2
    <3>2. f[k + 2] = q BY <1>11, <3>1 DEF q
    <3>3. n \in 1..(to - from) /\ (from - 1) + n = c BY <1>2, <1>10, <1>12, <2>2
    <3>4. f[n] = q BY <1>11, <2>2, <3>3
    <3>5. ASSUME NEW x \in (k + 2 + 1)..(n - 1) PROVE f[x] # q
      <4> DEFINE y == (from - 1) + x
      <4>1. y \in (e + 2)..(c - 1) /\ x \in 1..(to - from) BY <1>2, <1>10, <1>12, <2>2
      <4>2. f[x] = raw[y] BY <1>11, <4>1
      <4> HIDE DEF y
      <4> QED BY <2>3, <4>1, <4>2
    <3>6. k + 2 + 1 <= n BY <1>17, <2>4
    <3> HIDE DEF k
    <3> QED BY <3>2, <3>4, <3>5, <3>6 DEF QuotedFrom, n
  <2> HIDE DEF k
  <2>6. IsSeq(Inside(f, k + 2)) /\ Reads(f, KeyOf(f, k), Inside(f, k + 2))
    BY <1>10, <1>18, <1>19, <2>1, <2>5, QuotedReads
  <2>7. IsSeq(KeyOf(f, k)) BY <1>10, <1>18, SidesAre
  <2>8. KeyOf(f, k) \in Beginnings(f) /\ Inside(f, k + 2) \in Endings(f)
    BY <1>10, <1>18, <2>4, FoundThere DEF n
  <2>9. Readable(f) BY <2>6, <2>7, <2>8 DEF Readable
  <2> QED BY <2>9 DEF f, to
<1> QED BY <1>20, <1>21

(* What a field is read as is what the parser makes of it, and nothing else. *)
LEMMA OneReading ==
    ASSUME NEW f, IsSeq(f)
    PROVE  /\ Readable(f) => ReadingsOf(f) = {Unquote(split_once(f))}
           /\ ReadingsOf(f) # {} => Readable(f)
           /\ Readable(f) => split_once(f).key # <<>>
<1>1. ASSUME NEW r \in ReadingsOf(f) PROVE r = Unquote(split_once(f)) /\ Readable(f)
  <2>1. /\ r = [key |-> r.key, value |-> r.value] /\ IsSeq(r.key) /\ IsSeq(r.value)
        /\ Reads(f, r.key, r.value)
    BY ReadingIs
  <2>2. r.key \in Beginnings(f) /\ r.value \in Endings(f)
    <3>1. r \in [key : Beginnings(f), value : Endings(f)] BY DEF ReadingsOf
    <3> QED BY <3>1
  <2>3. Unquote(split_once(f)) = [key |-> r.key, value |-> r.value] BY <2>1, ReadIs
  <2>4. Readable(f) BY <2>1, <2>2 DEF Readable
  <2> QED BY <2>1, <2>3, <2>4
<1>2. ASSUME Readable(f)
      PROVE  Unquote(split_once(f)) \in ReadingsOf(f) /\ split_once(f).key # <<>>
  <2>1. PICK key \in Beginnings(f), value \in Endings(f) :
            IsSeq(key) /\ IsSeq(value) /\ Reads(f, key, value)
    BY <1>2 DEF Readable
  <2>2. /\ key # <<>> /\ split_once(f).key = key
        /\ Unquote(split_once(f)) = [key |-> key, value |-> value]
    BY <2>1, ReadIs
  <2> DEFINE r == [key |-> key, value |-> value]
  <2>3. r \in [key : Beginnings(f), value : Endings(f)] /\ r.key = key /\ r.value = value
    <3> HIDE DEF Beginnings, Endings
    <3> QED OBVIOUS
  <2> HIDE DEF r
  <2>4. r \in ReadingsOf(f) BY <2>1, <2>3 DEF ReadingsOf
  <2> QED BY <2>2, <2>4 DEF r
<1> QED BY <1>1, <1>2

(* The sets of n + 1 numbers that can be counted in their order. *)
Counted(n) ==
    \A T \in SUBSET Nat : IsFiniteSet(T) /\ Cardinality(T) = n + 1 => \E e : Ascends(e, n, T)

LEMMA CountedOne == Counted(0)
<1> SUFFICES ASSUME NEW T \in SUBSET Nat, IsFiniteSet(T), Cardinality(T) = 0 + 1
             PROVE  \E e : Ascends(e, 0, T)
  BY DEF Counted
<1>1. PICK x : T = {x}
  <2>1. Cardinality(T) = 1 OBVIOUS
  <2> QED BY <2>1, FS_Singleton
<1> DEFINE e == [i \in 0..0 |-> x]
<1>2. x \in Nat BY <1>1
<1>3. \A i \in 0..0 : i = 0 OBVIOUS
<1>4. e \in [0..0 -> Nat] /\ e[0] = x BY <1>2
<1> HIDE DEF e
<1>5. \A i \in 1..0 : e[i - 1] < e[i] OBVIOUS
<1>6. T = {e[i] : i \in 0..0}
  <2>1. 0 \in 0..0 OBVIOUS
  <2>2. \A z : z \in {e[i] : i \in 0..0} <=> z = x BY <1>3, <1>4, <2>1
  <2>3. {e[i] : i \in 0..0} = {x} BY <2>2
  <2> QED BY <1>1, <2>3
<1> QED BY <1>4, <1>5, <1>6 DEF Ascends

LEMMA CountedMore ==
    ASSUME NEW n \in Nat, n # 0, Counted(n - 1)
    PROVE  Counted(n)
<1> SUFFICES ASSUME NEW T \in SUBSET Nat, IsFiniteSet(T), Cardinality(T) = n + 1
             PROVE  \E e : Ascends(e, n, T)
  BY DEF Counted
<1> DEFINE x == Min(T)
           U == T \ {x}
<1>1. T # {}
  <2> SUFFICES ASSUME T = {} PROVE FALSE OBVIOUS
  <2>1. Cardinality(T) = 0 BY FS_EmptySet
  <2> QED BY <2>1
<1>2. x \in T /\ \A y \in T : x <= y BY <1>1, Least
<1> HIDE DEF x
<1>3. IsFiniteSet(U) /\ Cardinality(U) = (n - 1) + 1
  <2>1. IsFiniteSet(U) BY FS_RemoveElement
  <2>2. Cardinality(U) = Cardinality(T) - 1 BY <1>2, FS_RemoveElement
  <2> QED BY <2>1, <2>2
<1>4. PICK d : Ascends(d, n - 1, U) BY <1>3 DEF Counted
<1>5. d \in [0..(n - 1) -> Nat] /\ \A i \in 1..(n - 1) : d[i - 1] < d[i] BY <1>4 DEF Ascends
<1>6. U = {d[i] : i \in 0..(n - 1)} BY <1>4 DEF Ascends
<1> DEFINE e == [i \in 0..n |-> IF i = 0 THEN x ELSE d[i - 1]]
<1>7. e[0] = x BY <1>2
<1>8. ASSUME NEW i \in 1..n PROVE e[i] = d[i - 1] /\ i - 1 \in 0..(n - 1)
  <2>1. i \in 0..n /\ i # 0 /\ i - 1 \in 0..(n - 1) OBVIOUS
  <2> QED BY <2>1
<1>9. e \in [0..n -> Nat]
  <2>1. ASSUME NEW i \in 0..n PROVE e[i] \in Nat
    <3>1. CASE i = 0 BY <1>2, <3>1
    <3>2. CASE i # 0
      <4>1. i \in 1..n BY <3>2
      <4>2. e[i] = d[i - 1] /\ i - 1 \in 0..(n - 1) BY <1>8, <4>1
      <4> HIDE DEF e
      <4> QED BY <1>5, <4>2
    <3> QED BY <3>1, <3>2
  <2> QED BY <2>1
<1> HIDE DEF e
<1>10. \A i \in 0..(n - 1) : d[i] \in T /\ d[i] # x BY <1>6
<1>11. ASSUME NEW i \in 1..n PROVE e[i - 1] < e[i]
  <2>1. e[i] = d[i - 1] /\ i - 1 \in 0..(n - 1) BY <1>8
  <2>2. CASE i = 1
    <3>1. e[i - 1] = x BY <1>7, <2>2
    <3>2. e[i] \in T /\ e[i] # x BY <1>10, <2>1
    <3>3. x <= e[i] /\ x \in Nat /\ e[i] \in Nat BY <1>2, <3>2
    <3> QED BY <3>1, <3>2, <3>3
  <2>3. CASE i # 1
    <3> DEFINE j == i - 1
    <3>1. j \in 1..n /\ j \in 1..(n - 1) BY <2>3
    <3>2. e[j] = d[j - 1] BY <1>8, <3>1
    <3>3. d[j - 1] < d[j] BY <1>5, <3>1
    <3>4. e[i] = d[j] BY <2>1
    <3> QED BY <3>2, <3>3, <3>4
  <2> QED BY <2>2, <2>3
<1>12. \A z : z \in T <=> z \in {e[i] : i \in 0..n}
  <2>1. ASSUME NEW z \in T PROVE \E i \in 0..n : z = e[i]
    <3>1. CASE z = x
      <4>1. 0 \in 0..n OBVIOUS
      <4> QED BY <1>7, <3>1, <4>1
    <3>2. CASE z # x
      <4>1. z \in U BY <3>2
      <4>2. PICK j \in 0..(n - 1) : z = d[j] BY <1>6, <4>1
      <4> DEFINE i == j + 1
      <4>3. i \in 1..n /\ i \in 0..n /\ i - 1 = j OBVIOUS
      <4> HIDE DEF i
      <4>4. e[i] = d[j] BY <1>8, <4>3
      <4> QED BY <4>2, <4>3, <4>4
    <3> QED BY <3>1, <3>2
  <2>2. ASSUME NEW i \in 0..n PROVE e[i] \in T
    <3>1. CASE i = 0 BY <1>2, <1>7, <3>1
    <3>2. CASE i # 0
      <4>1. i \in 1..n BY <3>2
      <4> QED BY <1>8, <1>10, <4>1
    <3> QED BY <3>1, <3>2
  <2> QED BY <2>1, <2>2
<1>13. T = {e[i] : i \in 0..n} BY <1>12
<1>14. Ascends(e, n, T) BY <1>9, <1>11, <1>13 DEF Ascends
<1> QED BY <1>14

LEMMA CanBeCounted ==
    ASSUME NEW T, T \subseteq Nat, IsFiniteSet(T), T # {}
    PROVE  \E n \in Nat : Cardinality(T) = n + 1 /\ \E e : Ascends(e, n, T)
<1>1. Cardinality(T) \in Nat /\ Cardinality(T) # 0 BY FS_CardinalityType, FS_EmptySet
<1> DEFINE n == Cardinality(T) - 1
           S == {j \in Nat : Counted(j)}
<1>2. n \in Nat /\ Cardinality(T) = n + 1 BY <1>1
<1> HIDE DEF n
<1>3. 0 \in S BY CountedOne
<1>4. \A j \in 1..n : j - 1 \in S => j \in S
  <2> TAKE j \in 1..n
  <2>1. j \in Nat /\ j # 0 BY <1>2
  <2> QED BY <2>1, CountedMore
<1>5. n \in S
  <2> HIDE DEF S
  <2>1. 0..n \subseteq S BY <1>2, <1>3, <1>4, UptoInduction
  <2> QED BY <1>2, <2>1
<1>6. Counted(n) BY <1>5
<1>7. \E e : Ascends(e, n, T) BY <1>2, <1>6 DEF Counted
<1> QED BY <1>2, <1>7

(* The ends of the fields, 0 before the first one. *)
Cuts(raw, e, m) ==
    /\ m \in Nat /\ m # 0 /\ e \in [0..m -> Nat] /\ e[0] = 0 /\ e[m] = Len(raw) + 1
    /\ \A i \in 1..m : FieldAt(raw, e[i - 1] + 1, e[i])
FieldsOf(raw, e, m) == [n \in 1..m |-> FieldIn(raw, e[n - 1] + 1, e[n])]
Commas(raw) == Places(raw, ",")
Bounds(raw, cs) == cs \cup {0, Len(raw) + 1}

LEMMA BetweenIs ==
    ASSUME NEW raw, IsSeq(raw), NEW cs \in SUBSET Commas(raw),
           NEW m \in Nat, NEW e, Ascends(e, m, Bounds(raw, cs))
    PROVE  Between(raw, cs) = FieldsOf(raw, e, m)
<1> DEFINE L == Len(raw)
<1>1. L \in Nat /\ DOMAIN raw = 1..L BY SeqFacts
<1>2. cs \subseteq 1..L BY <1>1 DEF Places, Commas
<1>3. \A j \in 0..m : Nth(Bounds(raw, cs), j + 1) = e[j] BY NthIs
<1>4. Cardinality(Bounds(raw, cs)) = m + 1 BY NthIs
<1>5. Cardinality(cs) + 1 = m
  <2> HIDE DEF L
  <2>1. IsFiniteSet(cs)
    <3>0. 1 \in Int /\ L \in Int BY <1>1
    <3>1. IsFiniteSet(1..L) BY <3>0, FS_Interval
    <3> QED BY <1>2, <3>1, FS_Subset
  <2> DEFINE one == cs \cup {0}
             two == one \cup {L + 1}
  <2>2. 0 \notin cs /\ L + 1 \notin one
    <3>1. 0 \notin 1..L /\ L + 1 \notin 1..L /\ L + 1 # 0 BY <1>1
    <3> QED BY <1>2, <3>1
  <2>3. IsFiniteSet(one) /\ Cardinality(one) = Cardinality(cs) + 1 BY <2>1, <2>2, FS_AddElement
  <2>4. two = Bounds(raw, cs) BY DEF Bounds, L
  <2> HIDE DEF one
  <2>5. Cardinality(two) = Cardinality(one) + 1 BY <2>2, <2>3, FS_AddElement
  <2>6. Cardinality(cs) \in Nat BY <2>1, FS_CardinalityType
  <2> DEFINE k == Cardinality(cs)
  <2>7. k \in Nat /\ (k + 1) + 1 = m + 1 BY <1>4, <2>3, <2>4, <2>5, <2>6
  <2> HIDE DEF two, k
  <2>8. k + 1 = m BY <2>7
  <2> QED BY <2>8 DEF k
<1>6. \A j \in 0..m : Comma(raw, cs, j) = e[j] BY <1>3 DEF Comma, Bounds
<1> DEFINE b(n) == SubSeq(raw, Comma(raw, cs, n - 1) + 1, Comma(raw, cs, n) - 1)
           c(n) == FieldIn(raw, e[n - 1] + 1, e[n])
<1>7. Between(raw, cs) = [n \in 1..m |-> b(n)] BY <1>5 DEF Between
<1>8. \A n \in 1..m : b(n) = c(n)
  <2> TAKE n \in 1..m
  <2>1. n \in 0..m /\ n - 1 \in 0..m
    <3> HIDE DEF b, c
    <3> QED OBVIOUS
  <2>2. Comma(raw, cs, n) = e[n] /\ Comma(raw, cs, n - 1) = e[n - 1] BY <1>6, <2>1
  <2> QED BY <2>2 DEF FieldIn
<1>9. FieldsOf(raw, e, m) = [n \in 1..m |-> c(n)] BY DEF FieldsOf
<1> HIDE DEF b, c
<1> QED BY <1>7, <1>8, <1>9

(* A choice of commas is a sequence of ends. *)
LEMMA ChoiceIsCut ==
    ASSUME NEW raw, IsSeq(raw), NEW cs \in SUBSET Commas(raw)
    PROVE  \E m, e : Cuts(raw, e, m) /\ Between(raw, cs) = FieldsOf(raw, e, m)
<1> DEFINE L == Len(raw)
           T == Bounds(raw, cs)
<1>1. L \in Nat /\ DOMAIN raw = 1..L BY SeqFacts
<1>2. cs \subseteq 1..L /\ \A x \in cs : raw[x] = "," BY <1>1 DEF Places, Commas
<1>3. T = cs \cup {0, L + 1} BY DEF Bounds
<1> HIDE DEF L, T
<1>4. T \subseteq Nat /\ 0 \in T /\ L + 1 \in T
  <2>1. 1..L \subseteq Nat /\ L + 1 \in Nat BY <1>1
  <2>2. cs \subseteq Nat BY <1>2, <2>1
  <2>3. 0 \in Nat OBVIOUS
  <2>4. T \subseteq Nat BY <1>3, <2>1, <2>2, <2>3, Zenon
  <2>5. 0 \in T /\ L + 1 \in T BY <1>3
  <2> QED BY <2>4, <2>5
<1>5. IsFiniteSet(T)
  <2>1. 1 \in Int /\ L \in Int BY <1>1
  <2>2. IsFiniteSet(1..L) BY <2>1, FS_Interval
  <2>3. IsFiniteSet(cs) BY <1>2, <2>2, FS_Subset
  <2> DEFINE one == cs \cup {0}
             two == one \cup {L + 1}
  <2>4. IsFiniteSet(one) BY <2>3, FS_AddElement
  <2>5. T = two BY <1>3
  <2> HIDE DEF one
  <2>6. IsFiniteSet(two) BY <2>4, FS_AddElement
  <2> QED BY <2>5, <2>6
<1>6. PICK m \in Nat : Cardinality(T) = m + 1 /\ \E e : Ascends(e, m, T)
  <2>1. T # {} BY <1>4
  <2> QED BY <1>4, <1>5, <2>1, CanBeCounted
<1>7. PICK e : Ascends(e, m, T) BY <1>6
<1>8. e \in [0..m -> Nat] /\ (\A i \in 1..m : e[i - 1] < e[i]) BY <1>7 DEF Ascends
<1>9. T = {e[i] : i \in 0..m} BY <1>7 DEF Ascends
<1>10. \A i \in 0..m : \A j \in 0..m : i <= j => e[i] <= e[j]
  <2>1. \A i \in 1..m : e[i - 1] <= e[i]
    <3> TAKE i \in 1..m
    <3>1. e[i - 1] \in Nat /\ e[i] \in Nat /\ e[i - 1] < e[i] BY <1>8
    <3> QED BY <3>1
  <2> QED BY <1>8, <2>1, Grows
<1>11. \A i \in 0..m : e[i] \in T /\ e[i] \in Nat /\ (e[i] \in cs \/ e[i] = 0 \/ e[i] = L + 1)
  BY <1>3, <1>8, <1>9
<1>12. e[0] = 0
  <2>1. PICK i \in 0..m : e[i] = 0 BY <1>4, <1>9
  <2>2. 0 \in 0..m /\ 0 <= i OBVIOUS
  <2>3. e[0] <= e[i] /\ e[0] \in Nat BY <1>10, <1>11, <2>2
  <2> QED BY <2>1, <2>3
<1>13. e[m] = L + 1
  <2>1. PICK i \in 0..m : e[i] = L + 1 BY <1>4, <1>9
  <2>2. m \in 0..m /\ i <= m OBVIOUS
  <2>3. e[i] <= e[m] /\ e[m] \in Nat BY <1>10, <1>11, <2>2
  <2>4. e[m] <= L + 1
    <3>1. CASE e[m] \in cs
      <4> DEFINE b == e[m]
      <4>1. b \in 1..L BY <1>2, <3>1
      <4> HIDE DEF b
      <4>2. b <= L + 1 BY <1>1, <4>1
      <4> QED BY <4>2 DEF b
    <3>2. CASE e[m] = 0 BY <1>1, <3>2
    <3>3. CASE e[m] = L + 1 BY <1>1, <3>3
    <3> QED BY <1>11, <2>2, <3>1, <3>2, <3>3
  <2> QED BY <1>1, <2>1, <2>3, <2>4
<1>14. m # 0
  <2> SUFFICES ASSUME m = 0 PROVE FALSE OBVIOUS
  <2>1. e[m] = 0 BY <1>12
  <2> QED BY <1>1, <1>13, <2>1
<1>15. ASSUME NEW i \in 1..m PROVE FieldAt(raw, e[i - 1] + 1, e[i])
  <2> DEFINE a == e[i - 1]
             b == e[i]
  <2>1. i \in 0..m /\ i - 1 \in 0..m OBVIOUS
  <2>2. a < b /\ a \in Nat /\ b \in Nat BY <1>8, <1>11, <2>1
  <2>3. b \in cs \/ b = 0 \/ b = L + 1 BY <1>11, <2>1
  <2> HIDE DEF a, b
  <2>4. b \in cs \/ b = L + 1 BY <2>2, <2>3
  <2>5. b <= L + 1 /\ (b <= L => b \in cs)
    <3>1. b \in cs => b \in 1..L BY <1>2
    <3> QED BY <1>1, <2>2, <2>4, <3>1
  <2>6. b <= L => raw[b] = "," BY <1>2, <2>5
  <2>7. a + 1 \in Nat /\ a + 1 # 0 /\ a + 1 <= b BY <2>2
  <2>8. FieldAt(raw, a + 1, b) BY <2>2, <2>5, <2>6, <2>7 DEF FieldAt, L
  <2> QED BY <2>8 DEF a, b
<1>16. Cuts(raw, e, m) BY <1>8, <1>12, <1>13, <1>14, <1>15 DEF Cuts, L
<1>17. Between(raw, cs) = FieldsOf(raw, e, m) BY <1>7, BetweenIs DEF T
<1> QED BY <1>16, <1>17

(* A sequence of ends is a choice of commas. *)
LEMMA CutIsChoice ==
    ASSUME NEW raw, IsSeq(raw), NEW m, NEW e, Cuts(raw, e, m)
    PROVE  \E cs \in SUBSET Commas(raw) : Between(raw, cs) = FieldsOf(raw, e, m)
<1> DEFINE L == Len(raw)
           cs == {e[i] : i \in 1..(m - 1)}
<1>1. L \in Nat /\ DOMAIN raw = 1..L BY SeqFacts
<1>2. m \in Nat /\ m # 0 /\ e \in [0..m -> Nat] /\ e[0] = 0 /\ e[m] = L + 1 BY DEF Cuts
<1>3. \A i \in 1..m : FieldAt(raw, e[i - 1] + 1, e[i]) BY DEF Cuts
<1> HIDE DEF L
<1>4. ASSUME NEW i \in 1..m
      PROVE  e[i - 1] < e[i] /\ e[i] <= L + 1 /\ (e[i] <= L => raw[e[i]] = ",")
  <2> DEFINE a == e[i - 1]
             b == e[i]
  <2>1. i \in 0..m /\ i - 1 \in 0..m BY <1>2
  <2>2. a \in Nat /\ b \in Nat BY <1>2, <2>1
  <2>3. FieldAt(raw, a + 1, b) BY <1>3
  <2> HIDE DEF a, b
  <2>4. a + 1 <= b /\ b <= L + 1 /\ (b <= L => raw[b] = ",") BY <2>3 DEF FieldAt, L
  <2>5. a < b
    <3>1. a + 1 <= b BY <2>4
    <3> QED BY <2>2, <3>1
  <2> QED BY <2>4, <2>5 DEF a, b
<1>5. \A i \in 0..m : \A j \in 0..m : i <= j => e[i] <= e[j]
  <2>1. \A i \in 1..m : e[i - 1] <= e[i]
    <3> TAKE i \in 1..m
    <3>1. i \in 0..m /\ i - 1 \in 0..m BY <1>2
    <3>2. e[i - 1] \in Nat /\ e[i] \in Nat /\ e[i - 1] < e[i] BY <1>2, <1>4, <3>1
    <3> QED BY <3>2
  <2> QED BY <1>2, <2>1, Grows
<1>6. \A i \in 1..(m - 1) : e[i] \in 1..L /\ raw[e[i]] = ","
  <2> TAKE i \in 1..(m - 1)
  <2> DEFINE j == i + 1
             b == e[i]
             c == e[j]
             a == e[i - 1]
  <2>1. i \in 1..m /\ j \in 1..m /\ j - 1 = i /\ i \in 0..m /\ i - 1 \in 0..m /\ j \in 0..m BY <1>2
  <2> HIDE DEF j
  <2>2. a \in Nat /\ b \in Nat /\ c \in Nat BY <1>2, <2>1
  <2>3. a < b /\ (b <= L => raw[b] = ",") BY <1>4, <2>1
  <2>4. e[j - 1] < e[j] /\ e[j] <= L + 1 BY <1>4, <2>1
  <2>5. b < c /\ c <= L + 1 BY <2>1, <2>4
  <2> HIDE DEF a, b, c
  <2>6. b \in 1..L /\ b <= L
    <3>1. a < b BY <2>3
    <3> QED BY <1>1, <2>2, <2>5, <3>1
  <2> QED BY <2>3, <2>6 DEF b
<1>7. cs \in SUBSET Commas(raw) BY <1>1, <1>6 DEF Commas, Places
<1>8. Ascends(e, m, Bounds(raw, cs))
  <2>1. \A z : z \in Bounds(raw, cs) <=> z \in {e[i] : i \in 0..m}
    <3>1. \A z : z \in Bounds(raw, cs) <=> z \in cs \/ z = 0 \/ z = L + 1 BY DEF Bounds, L
    <3> HIDE DEF cs
    <3>2. ASSUME NEW z \in cs PROVE \E i \in 0..m : z = e[i]
      <4>1. PICK i \in 1..(m - 1) : z = e[i] BY DEF cs
      <4>2. i \in 0..m BY <1>2
      <4> QED BY <4>1, <4>2
    <3>3. 0 \in 0..m /\ m \in 0..m BY <1>2
    <3>4. ASSUME NEW i \in 0..m PROVE e[i] \in cs \/ e[i] = 0 \/ e[i] = L + 1
      <4>1. CASE i = 0 BY <1>2, <4>1
      <4>2. CASE i = m BY <1>2, <4>2
      <4>3. CASE i # 0 /\ i # m
        <5>1. i \in 1..(m - 1) BY <1>2, <4>3
        <5> QED BY <5>1 DEF cs
      <4> QED BY <4>1, <4>2, <4>3
    <3>5. ASSUME NEW z \in Bounds(raw, cs) PROVE z \in {e[i] : i \in 0..m}
      <4>1. \E i \in 0..m : z = e[i] BY <1>2, <3>1, <3>2, <3>3
      <4> QED BY <4>1
    <3>6. ASSUME NEW z \in {e[i] : i \in 0..m} PROVE z \in Bounds(raw, cs)
      <4>1. PICK i \in 0..m : z = e[i] OBVIOUS
      <4> QED BY <3>1, <3>4, <4>1
    <3> QED BY <3>5, <3>6
  <2>2. Bounds(raw, cs) = {e[i] : i \in 0..m} BY <2>1
  <2>3. \A i \in 1..m : e[i - 1] < e[i] BY <1>4
  <2> HIDE DEF cs
  <2> QED BY <1>2, <2>2, <2>3 DEF Ascends
<1> HIDE DEF cs
<1>9. Between(raw, cs) = FieldsOf(raw, e, m) BY <1>2, <1>7, <1>8, BetweenIs
<1> QED BY <1>7, <1>9

(* Every field begins behind the comma that ended the one before it. *)
Walks(raw, spans) ==
    /\ IsSeq(spans) /\ Len(spans) # 0 /\ spans[1].from = 1
    /\ \A i \in 1..Len(spans) : spans[i].to = FieldEnd(raw, spans[i].from)
    /\ \A i \in 1..Len(spans) : i # Len(spans) =>
          spans[i].to \in DOMAIN raw /\ spans[i + 1].from = spans[i].to + 1
Far(raw, spans, n) == Last(spans).to \notin DOMAIN raw \/ n <= Last(spans).to

LEMMA FirstWalks ==
    ASSUME NEW raw, IsSeq(raw)
    PROVE  Walks(raw, <<Span(raw, 1)>>) /\ Far(raw, <<Span(raw, 1)>>, 1)
<1> DEFINE e == Span(raw, 1)
           s == <<e>>
           one == 1
           to == FieldEnd(raw, one)
<1>1. e.from = 1 /\ e.to = to
  <2> HIDE DEF to
  <2>1. e = [from |-> 1, to |-> to] BY DEF Span, to
  <2> HIDE DEF e
  <2> QED BY <2>1
<1>2. one \in Nat /\ one # 0 /\ one <= Len(raw) + 1
  <2>1. Len(raw) \in Nat BY SeqFacts
  <2> QED BY <2>1
<1>3. to = 0 \/ (to \in Nat /\ one <= to)
  <2> HIDE DEF one, to
  <2> QED BY <1>2, FieldEnds DEF to
<1> HIDE DEF e
<1>4. IsSeq(s) /\ Len(s) = 1 /\ s[1] = e BY OneFacts
<1> HIDE DEF s
<1>5. \A i \in 1..1 : i = 1 OBVIOUS
<1>6. Walks(raw, s)
  <2>1. s[1].from = 1 BY <1>1, <1>4
  <2>2. \A i \in 1..1 : s[i].to = FieldEnd(raw, s[i].from)
    <3> HIDE DEF to
    <3>1. s[1].to = FieldEnd(raw, s[1].from) BY <1>1, <1>4 DEF to
    <3> QED BY <1>5, <3>1
  <2>3. 1 # 0 OBVIOUS
  <2> QED BY <1>4, <1>5, <2>1, <2>2, <2>3 DEF Walks
<1>7. Far(raw, s, 1)
  <2>1. Last(s) = e BY <1>4 DEF Last
  <2>2. to = 0 => to \notin DOMAIN raw
    <3>1. DOMAIN raw = 1..Len(raw) /\ Len(raw) \in Nat BY SeqFacts
    <3>2. 0 \notin DOMAIN raw BY <3>1
    <3> QED BY <3>2
  <2> HIDE DEF to
  <2> QED BY <1>1, <1>3, <2>1, <2>2 DEF Far
<1> QED BY <1>6, <1>7 DEF s, e

LEMMA NextWalks ==
    ASSUME NEW raw, IsSeq(raw), NEW spans, Walks(raw, spans), NEW k \in Nat, Far(raw, spans, k)
    PROVE  Walks(raw, NextSpans(raw, spans)) /\ Far(raw, NextSpans(raw, spans), k + 1)
<1> DEFINE n == Len(spans)
           to == spans[n].to
           from == to + 1
           e == Span(raw, from)
           t == Append(spans, e)
           end == FieldEnd(raw, from)
<1>1. IsSeq(spans) /\ n \in Nat /\ n # 0 BY SeqFacts DEF Walks
<1>2. Last(spans) = spans[n] BY DEF Last
<1>3. CASE to \notin DOMAIN raw
  <2>1. NextSpans(raw, spans) = spans BY <1>2, <1>3 DEF NextSpans
  <2>2. Far(raw, spans, k + 1) BY <1>2, <1>3 DEF Far
  <2> QED BY <2>1, <2>2
<1>4. CASE to \in DOMAIN raw
  <2>1. to \in 1..Len(raw) /\ Len(raw) \in Nat BY <1>4, SeqFacts
  <2>2. NextSpans(raw, spans) = t BY <1>2, <1>4 DEF NextSpans
  <2>3. k <= to BY <1>2, <1>4 DEF Far
  <2>4. from \in Nat /\ from # 0 /\ from <= Len(raw) + 1 /\ k + 1 <= from
    <3> HIDE DEF to
    <3> QED BY <2>1, <2>3
  <2>5. from = to + 1 OBVIOUS
  <2> HIDE DEF from
  <2>6. end = 0 \/ (end \in Nat /\ from <= end) BY <2>4, FieldEnds
  <2>7. e.from = from /\ e.to = end
    <3> HIDE DEF end
    <3>1. e = [from |-> from, to |-> end] BY DEF Span, end
    <3> HIDE DEF e
    <3> QED BY <3>1
  <2>8. spans[n].to = to OBVIOUS
  <2> HIDE DEF e, to
  <2>9. IsSeq(t) /\ Len(t) = n + 1 /\ t[n + 1] = e /\ \A i \in 1..n : t[i] = spans[i]
    BY <1>1, AppendFacts
  <2>10. Last(t) = e BY <2>9 DEF Last
  <2> HIDE DEF t
  <2>11. /\ spans[1].from = 1
         /\ \A i \in 1..n : spans[i].to = FieldEnd(raw, spans[i].from)
    BY DEF Walks
  <2>12. \A i \in 1..n : i # n => spans[i].to \in DOMAIN raw /\ spans[i + 1].from = spans[i].to + 1
    BY DEF Walks
  <2> HIDE DEF n
  <2>13. t[1].from = 1
    <3>1. 1 \in 1..n BY <1>1
    <3> QED BY <2>9, <2>11, <3>1
  <2>14. ASSUME NEW i \in 1..(n + 1) PROVE t[i].to = FieldEnd(raw, t[i].from)
    <3>1. CASE i \in 1..n BY <2>9, <2>11, <3>1
    <3>2. CASE i = n + 1
      <4>1. t[i] = e BY <2>9, <3>2
      <4> QED BY <2>7, <4>1 DEF end
    <3> QED BY <1>1, <3>1, <3>2
  <2>15. ASSUME NEW i \in 1..(n + 1), i # n + 1
         PROVE  t[i].to \in DOMAIN raw /\ t[i + 1].from = t[i].to + 1
    <3>1. i \in 1..n BY <1>1, <2>15
    <3>2. t[i] = spans[i] BY <2>9, <3>1
    <3>3. CASE i = n
      <4>1. t[i + 1] = e BY <2>9, <3>3
      <4> QED BY <1>4, <2>5, <2>7, <2>8, <3>2, <3>3, <4>1
    <3>4. CASE i # n
      <4>1. i + 1 \in 1..n BY <1>1, <3>1, <3>4
      <4>2. t[i + 1] = spans[i + 1] BY <2>9, <4>1
      <4> QED BY <2>12, <3>1, <3>2, <3>4, <4>2
    <3> QED BY <3>3, <3>4
  <2>16. Len(t) # 0 BY <1>1, <2>9
  <2>17. Walks(raw, t) BY <2>9, <2>13, <2>14, <2>15, <2>16, Zenon DEF Walks
  <2>18. Far(raw, t, k + 1)
    <3>1. end # 0 => k + 1 <= end
      <4> HIDE DEF end
      <4> QED BY <2>4, <2>6
    <3>2. 0 \notin DOMAIN raw
      <4>1. DOMAIN raw = 1..Len(raw) BY SeqFacts
      <4> QED BY <2>1, <4>1
    <3> HIDE DEF end
    <3> QED BY <2>7, <2>10, <3>1, <3>2 DEF Far
  <2> QED BY <2>2, <2>17, <2>18
<1> QED BY <1>3, <1>4

(* The fields of the parser follow one another, to the end. *)
LEMMA SplitWalks ==
    ASSUME NEW raw, IsSeq(raw)
    PROVE  /\ Walks(raw, split_supporting_data_fields(raw))
           /\ Last(split_supporting_data_fields(raw)).to \notin DOMAIN raw
<1> DEFINE m == Len(raw)
           f == CHOOSE g : Spanning(g, raw, m)
<1>1. m \in Nat /\ DOMAIN raw = 1..m BY SeqFacts
<1>2. Spanning(f, raw, m) BY <1>1, SpansExist
<1>3. split_supporting_data_fields(raw) = f[m]
  BY Zenon DEF split_supporting_data_fields, Spanning, NextSpans
<1> HIDE DEF f, m
<1>4. f[0] = <<Span(raw, 1)>> /\ \A i \in 1..m : f[i] = NextSpans(raw, f[i - 1])
  BY <1>1, <1>2 DEF Spanning
<1> DEFINE S == {i \in Nat : Walks(raw, f[i]) /\ Far(raw, f[i], i + 1)}
<1>5. 0 \in S
  <2>1. 0 + 1 = 1 OBVIOUS
  <2>2. Walks(raw, f[0]) /\ Far(raw, f[0], 0 + 1) BY <1>4, <2>1, FirstWalks
  <2> QED BY <2>2
<1>6. ASSUME NEW i \in 1..m, i - 1 \in S PROVE i \in S
  <2>1. i \in Nat /\ (i - 1) + 1 = i BY <1>1
  <2>2. Walks(raw, f[i - 1]) /\ Far(raw, f[i - 1], i) BY <1>6, <2>1
  <2>3. Walks(raw, f[i]) /\ Far(raw, f[i], i + 1) BY <1>4, <2>1, <2>2, NextWalks
  <2> QED BY <2>1, <2>3
<1>7. 0..m \subseteq S
  <2> HIDE DEF S
  <2> QED BY <1>1, <1>5, <1>6, UptoInduction
<1>8. m \in 0..m BY <1>1
<1>9. Walks(raw, f[m]) /\ Far(raw, f[m], m + 1) BY <1>7, <1>8
<1>10. Last(f[m]).to \notin DOMAIN raw
  <2> DEFINE to == Last(f[m]).to
  <2>1. to \notin DOMAIN raw \/ m + 1 <= to BY <1>9 DEF Far
  <2> HIDE DEF to
  <2>2. to \in 1..m => ~(m + 1 <= to) BY <1>1
  <2>3. to \notin DOMAIN raw BY <1>1, <2>1, <2>2
  <2> QED BY <2>3 DEF to
<1> QED BY <1>3, <1>9, <1>10

EndsOf(spans) == [i \in 0..Len(spans) |-> IF i = 0 THEN 0 ELSE spans[i].to]
SpanFields(raw, spans) == [i \in DOMAIN spans |-> SubSeq(raw, spans[i].from, spans[i].to - 1)]
(* The parser cuts where e does. *)
ParsedAt(raw, e, m) == \A i \in 1..m : FieldEnd(raw, e[i - 1] + 1) = e[i]

(* The fields of a text that is split without an error are cut at commas. *)
LEMMA SplitCuts ==
    ASSUME NEW raw, IsSeq(raw), NEW spans, Walks(raw, spans),
           Last(spans).to \notin DOMAIN raw, Last(spans).to # 0
    PROVE  /\ Cuts(raw, EndsOf(spans), Len(spans))
           /\ ParsedAt(raw, EndsOf(spans), Len(spans))
           /\ SpanFields(raw, spans) = FieldsOf(raw, EndsOf(spans), Len(spans))
<1> DEFINE L == Len(raw)
           n == Len(spans)
           d == EndsOf(spans)
<1>1. L \in Nat /\ DOMAIN raw = 1..L BY SeqFacts
<1>2. n \in Nat /\ n # 0 /\ DOMAIN spans = 1..n BY SeqFacts DEF Walks
<1>3. Last(spans) = spans[n] BY DEF Last
<1>4. /\ spans[1].from = 1 /\ \A i \in 1..n : spans[i].to = FieldEnd(raw, spans[i].from)
      /\ \A i \in 1..n : i # n => spans[i].to \in DOMAIN raw /\ spans[i + 1].from = spans[i].to + 1
  BY DEF Walks
<1>5. d = [i \in 0..n |-> IF i = 0 THEN 0 ELSE spans[i].to] BY DEF EndsOf
<1>6. d[0] = 0 /\ \A i \in 1..n : d[i] = spans[i].to
  <2> HIDE DEF n, d
  <2>1. 0 \in 0..n /\ \A i \in 1..n : i \in 0..n /\ i # 0 BY <1>2
  <2> QED BY <1>5, <2>1
<1>7. spans[n].to \notin DOMAIN raw /\ spans[n].to # 0 BY <1>3
<1> HIDE DEF n, d, L
<1>8. ASSUME NEW i \in 1..n
      PROVE  /\ FieldEnd(raw, d[i - 1] + 1) = d[i] /\ spans[i].from = d[i - 1] + 1
             /\ FieldAt(raw, d[i - 1] + 1, d[i])
  <2> DEFINE a == d[i - 1]
             from == a + 1
  <2>1. spans[i].from = from /\ a \in Nat /\ a <= L
    <3>1. CASE i = 1
      <4>1. a = 0 BY <1>6, <3>1
      <4> HIDE DEF a
      <4>2. from = 1 BY <4>1
      <4> QED BY <1>1, <1>4, <3>1, <4>1, <4>2
    <3>2. CASE i # 1
      <4> DEFINE j == i - 1
      <4>1. j \in 1..n /\ j # n /\ j + 1 = i BY <1>2, <3>2
      <4>2. a = d[j] OBVIOUS
      <4> HIDE DEF j, a
      <4>3. a = spans[j].to BY <1>6, <4>1, <4>2
      <4>4. spans[j].to \in DOMAIN raw /\ spans[j + 1].from = spans[j].to + 1 BY <1>4, <4>1
      <4>5. a \in 1..L BY <1>1, <4>3, <4>4
      <4>6. a \in Nat /\ a <= L BY <1>1, <4>5
      <4> QED BY <4>1, <4>3, <4>4, <4>6
    <3> QED BY <3>1, <3>2
  <2>2. spans[i].to = FieldEnd(raw, spans[i].from) /\ d[i] = spans[i].to BY <1>4, <1>6
  <2>3. from = d[i - 1] + 1 OBVIOUS
  <2>4. from \in Nat /\ from # 0 /\ from <= L + 1
    <3> HIDE DEF a
    <3> QED BY <1>1, <2>1
  <2> HIDE DEF from, a
  <2>5. FieldEnd(raw, from) = d[i] BY <2>1, <2>2
  <2>6. d[i] # 0
    <3>1. CASE i = n BY <1>7, <2>2, <3>1
    <3>2. CASE i # n
      <4>1. spans[i].to \in 1..L BY <1>1, <1>4, <3>2
      <4> QED BY <2>2, <4>1
    <3> QED BY <3>1, <3>2
  <2>7. FieldAt(raw, from, FieldEnd(raw, from)) BY <2>4, <2>5, <2>6, FieldEndsAt DEF L
  <2> QED BY <2>1, <2>3, <2>5, <2>7
<1>9. \A i \in 1..n : d[i] \in Nat /\ d[i] <= L + 1
  <2> TAKE i \in 1..n
  <2>1. FieldAt(raw, d[i - 1] + 1, d[i]) BY <1>8
  <2> QED BY <2>1 DEF FieldAt, L
<1>10. d[n] = L + 1
  <2> DEFINE b == d[n]
  <2>1. n \in 1..n BY <1>2
  <2>2. b \in Nat /\ b <= L + 1 /\ b # 0 /\ b \notin 1..L BY <1>1, <1>6, <1>7, <1>9, <2>1
  <2> HIDE DEF b
  <2>3. b = L + 1 BY <1>1, <2>2
  <2> QED BY <2>3 DEF b
<1>11. d \in [0..n -> Nat]
  <2>1. ASSUME NEW i \in 0..n PROVE d[i] \in Nat
    <3>1. i = 0 \/ i \in 1..n BY <1>2
    <3> QED BY <1>6, <1>9, <3>1
  <2>2. DOMAIN d = 0..n /\ d = [i \in 0..n |-> d[i]] BY <1>5
  <2> QED BY <2>1, <2>2
<1>12. Cuts(raw, d, n) BY <1>2, <1>6, <1>8, <1>10, <1>11 DEF Cuts, L
<1>13. ParsedAt(raw, d, n) BY <1>8 DEF ParsedAt
<1>14. SpanFields(raw, spans) = FieldsOf(raw, d, n)
  <2> DEFINE b(i) == SubSeq(raw, spans[i].from, spans[i].to - 1)
             c(i) == FieldIn(raw, d[i - 1] + 1, d[i])
  <2>1. SpanFields(raw, spans) = [i \in 1..n |-> b(i)] BY <1>2 DEF SpanFields
  <2>2. FieldsOf(raw, d, n) = [i \in 1..n |-> c(i)] BY DEF FieldsOf
  <2>3. \A i \in 1..n : b(i) = c(i)
    <3> TAKE i \in 1..n
    <3>1. spans[i].from = d[i - 1] + 1 /\ d[i] = spans[i].to BY <1>6, <1>8
    <3> QED BY <3>1 DEF FieldIn
  <2> HIDE DEF b, c
  <2> QED BY <2>1, <2>2, <2>3
<1> QED BY <1>12, <1>13, <1>14 DEF d, n

(* Where the parser would cut, it does. *)
LEMMA SameCuts ==
    ASSUME NEW raw, IsSeq(raw), NEW spans, Walks(raw, spans), Last(spans).to \notin DOMAIN raw,
           NEW m, NEW e, Cuts(raw, e, m), ParsedAt(raw, e, m)
    PROVE  Last(spans).to # 0 /\ SpanFields(raw, spans) = FieldsOf(raw, e, m)
<1> DEFINE L == Len(raw)
           n == Len(spans)
<1>1. L \in Nat /\ DOMAIN raw = 1..L BY SeqFacts
<1>2. n \in Nat /\ n # 0 /\ DOMAIN spans = 1..n BY SeqFacts DEF Walks
<1>3. Last(spans) = spans[n] BY DEF Last
<1>4. /\ spans[1].from = 1 /\ \A i \in 1..n : spans[i].to = FieldEnd(raw, spans[i].from)
      /\ \A i \in 1..n : i # n => spans[i].to \in DOMAIN raw /\ spans[i + 1].from = spans[i].to + 1
  BY DEF Walks
<1>5. m \in Nat /\ m # 0 /\ e \in [0..m -> Nat] /\ e[0] = 0 /\ e[m] = L + 1 BY DEF Cuts
<1>6. \A i \in 1..m : FieldAt(raw, e[i - 1] + 1, e[i]) BY DEF Cuts
<1>7. \A i \in 1..m : FieldEnd(raw, e[i - 1] + 1) = e[i] BY DEF ParsedAt
<1>8. spans[n].to \notin DOMAIN raw BY <1>3
<1> HIDE DEF n, L
<1> DEFINE Agree(i) == spans[i].from = e[i - 1] + 1 /\ spans[i].to = e[i]
           S == {i \in Nat : i \in 1..n => Agree(i)}
<1>9. 0 \in S
  <2>1. 0 \notin 1..n OBVIOUS
  <2> QED BY <2>1
<1>10. ASSUME NEW i \in 1..m, i - 1 \in S PROVE i \in S
  <2> SUFFICES ASSUME i \in 1..n PROVE Agree(i) BY <1>5
  <2>1. spans[i].from = e[i - 1] + 1
    <3>1. CASE i = 1
      <4>1. e[i - 1] = 0 BY <1>5, <3>1
      <4>2. e[i - 1] + 1 = 1 BY <4>1
      <4> QED BY <1>4, <3>1, <4>2
    <3>2. CASE i # 1
      <4> DEFINE j == i - 1
      <4>1. j \in 1..n /\ j # n /\ j + 1 = i BY <1>2, <3>2
      <4>2. spans[j].to = e[j] BY <1>10, <4>1
      <4>3. spans[j + 1].from = spans[j].to + 1 BY <1>4, <4>1
      <4>4. e[i - 1] = e[j] OBVIOUS
      <4> HIDE DEF j
      <4> QED BY <4>1, <4>2, <4>3, <4>4
    <3> QED BY <3>1, <3>2
  <2>2. spans[i].to = FieldEnd(raw, spans[i].from) BY <1>4
  <2>3. FieldEnd(raw, e[i - 1] + 1) = e[i] BY <1>7
  <2> QED BY <2>1, <2>2, <2>3
<1>11. 0..m \subseteq S
  <2> HIDE DEF S
  <2> QED BY <1>5, <1>9, <1>10, UptoInduction
<1>12. \A i \in 1..m : i \in 1..n => Agree(i)
  <2> TAKE i \in 1..m
  <2>1. i \in 0..m BY <1>5
  <2> QED BY <1>11, <2>1
<1> HIDE DEF S
<1>13. ~(m < n)
  <2> SUFFICES ASSUME m < n PROVE FALSE OBVIOUS
  <2>1. m \in 1..m /\ m \in 1..n /\ m # n BY <1>2, <1>5
  <2>2. spans[m].to = L + 1 BY <1>5, <1>12, <2>1
  <2>3. spans[m].to \in 1..L BY <1>1, <1>4, <2>1
  <2>4. L + 1 \notin 1..L BY <1>1
  <2> QED BY <2>2, <2>3, <2>4
<1>14. ~(n < m)
  <2> SUFFICES ASSUME n < m PROVE FALSE OBVIOUS
  <2> DEFINE b == e[n]
             a == e[n - 1]
             c == e[n + 1]
             j == n + 1
  <2>1. n \in 1..m /\ n \in 1..n /\ j \in 1..m /\ n \in 0..m /\ n - 1 \in 0..m /\ j \in 0..m /\ j - 1 = n
    BY <1>2, <1>5
  <2>2. a \in Nat /\ b \in Nat /\ c \in Nat BY <1>5, <2>1
  <2>3. FieldAt(raw, a + 1, b) BY <1>6, <2>1
  <2>4. FieldAt(raw, b + 1, c)
    <3>1. FieldAt(raw, e[j - 1] + 1, e[j]) BY <1>6, <2>1
    <3> QED BY <2>1, <3>1
  <2>5. spans[n].to = b BY <1>12, <2>1
  <2> HIDE DEF a, b, c
  <2>6. a + 1 <= b BY <2>3 DEF FieldAt
  <2>7. b + 1 <= c /\ c <= L + 1 BY <2>4 DEF FieldAt, L
  <2>8. b \in 1..L BY <1>1, <2>2, <2>6, <2>7
  <2> QED BY <1>1, <1>8, <2>5, <2>8
<1>15. m = n BY <1>2, <1>5, <1>13, <1>14
<1>16. spans[n].to # 0
  <2>1. n \in 1..n /\ n \in 1..m BY <1>2, <1>15
  <2>2. spans[n].to = e[n] BY <1>12, <2>1
  <2>3. L + 1 # 0 BY <1>1
  <2> QED BY <1>5, <1>15, <2>2, <2>3
<1>17. SpanFields(raw, spans) = FieldsOf(raw, e, m)
  <2> DEFINE b(i) == SubSeq(raw, spans[i].from, spans[i].to - 1)
             c(i) == FieldIn(raw, e[i - 1] + 1, e[i])
  <2>1. SpanFields(raw, spans) = [i \in 1..m |-> b(i)] BY <1>2, <1>15 DEF SpanFields
  <2>2. FieldsOf(raw, e, m) = [i \in 1..m |-> c(i)] BY DEF FieldsOf
  <2>3. \A i \in 1..m : b(i) = c(i)
    <3> TAKE i \in 1..m
    <3>1. spans[i].from = e[i - 1] + 1 /\ spans[i].to = e[i] BY <1>12, <1>15
    <3> QED BY <3>1 DEF FieldIn
  <2> HIDE DEF b, c
  <2> QED BY <2>1, <2>2, <2>3
<1> QED BY <1>3, <1>16, <1>17

Filled(fields) == Slice(fields, {n \in DOMAIN fields : fields[n] # <<>>})
EachRead(parts) == \A n \in DOMAIN parts : ReadingsOf(parts[n]) # {}

LEMMA FullAre ==
    ASSUME NEW fields, IsSeq(fields)
    PROVE  LET t == Filled(fields) IN
           /\ IsSeq(t)
           /\ \A x \in 1..Len(fields) : fields[x] # <<>> => \E n \in 1..Len(t) : t[n] = fields[x]
           /\ \A n \in 1..Len(t) : \E x \in 1..Len(fields) : fields[x] # <<>> /\ t[n] = fields[x]
<1> DEFINE K == {n \in DOMAIN fields : fields[n] # <<>>}
           t == Slice(fields, K)
<1>1. DOMAIN fields = 1..Len(fields) BY SeqFacts
<1>2. \A x \in 1..Len(fields) : x \in K <=> fields[x] # <<>> BY <1>1
<1>3. t = Filled(fields) BY DEF Filled
<1> HIDE DEF K
<1>4. /\ IsSeq(t)
      /\ \A x \in 1..Len(fields) : x \in K => \E n \in 1..Len(t) : t[n] = fields[x]
      /\ \A n \in 1..Len(t) : \E x \in 1..Len(fields) : x \in K /\ t[n] = fields[x]
  BY KeptAre
<1> HIDE DEF t
<1> QED BY <1>2, <1>3, <1>4

LEMMA FieldsOfAre ==
    ASSUME NEW raw, IsSeq(raw), NEW m, NEW e, Cuts(raw, e, m)
    PROVE  LET fields == FieldsOf(raw, e, m) IN
           /\ IsSeq(fields) /\ Len(fields) = m
           /\ \A i \in 1..m : /\ fields[i] = FieldIn(raw, e[i - 1] + 1, e[i])
                              /\ IsSeq(fields[i])
<1> DEFINE fields == FieldsOf(raw, e, m)
           c(i) == FieldIn(raw, e[i - 1] + 1, e[i])
<1>1. m \in Nat /\ \A i \in 1..m : FieldAt(raw, e[i - 1] + 1, e[i]) BY DEF Cuts
<1>2. fields = [i \in 1..m |-> c(i)] BY DEF FieldsOf
<1>3. \A i \in 1..m : IsSeq(c(i))
  <2> TAKE i \in 1..m
  <2>1. FieldAt(raw, e[i - 1] + 1, e[i]) BY <1>1
  <2> QED BY <2>1, FieldInIs
<1> HIDE DEF c, fields
<1>4. DOMAIN fields = 1..m /\ fields = [i \in 1..m |-> fields[i]] BY <1>2
<1>5. IsSeq(fields) /\ Len(fields) = m BY <1>1, <1>4, SeqByDomain
<1>6. \A i \in 1..m : fields[i] = c(i) BY <1>2
<1> QED BY <1>3, <1>5, <1>6 DEF fields, c

LEMMA GoodParsed ==
    ASSUME NEW raw, IsSeq(raw), NEW m, NEW e, Cuts(raw, e, m), EachRead(Filled(FieldsOf(raw, e, m)))
    PROVE  ParsedAt(raw, e, m)
<1> DEFINE fields == FieldsOf(raw, e, m)
           t == Filled(fields)
<1>1. IsSeq(fields) /\ Len(fields) = m BY FieldsOfAre
<1>2. \A i \in 1..m : fields[i] = FieldIn(raw, e[i - 1] + 1, e[i]) BY FieldsOfAre
<1>3. \A i \in 1..m : FieldAt(raw, e[i - 1] + 1, e[i]) BY DEF Cuts
<1>4. \A n \in DOMAIN t : ReadingsOf(t[n]) # {} BY DEF EachRead
<1> HIDE DEF fields
<1>5. IsSeq(t) /\ \A x \in 1..m : fields[x] # <<>> => \E n \in 1..Len(t) : t[n] = fields[x]
  BY <1>1, FullAre
<1> HIDE DEF t
<1>6. DOMAIN t = 1..Len(t) BY <1>5, SeqFacts
<1>7. ASSUME NEW i \in 1..m PROVE FieldEnd(raw, e[i - 1] + 1) = e[i]
  <2> DEFINE from == e[i - 1] + 1
             to == e[i]
             f == FieldIn(raw, from, to)
  <2>1. FieldAt(raw, from, to) BY <1>3
  <2>2. fields[i] = f BY <1>2
  <2> HIDE DEF from, to
  <2>3. IsSeq(f) /\ Len(f) = to - from BY <2>1, FieldInIs
  <2>4. from \in Nat /\ to \in Nat BY <2>1 DEF FieldAt
  <2> HIDE DEF f
  <2>5. CASE f = <<>>
    <3>1. Len(f) = 0 BY <2>5, EmptyIsSeq
    <3>2. from = to BY <2>3, <2>4, <3>1
    <3>3. FieldEnd(raw, from) = to BY <2>1, <3>2, EmptyEndsThere
    <3> QED BY <3>3 DEF from, to
  <2>6. CASE f # <<>>
    <3>1. PICK n \in 1..Len(t) : t[n] = f BY <1>5, <2>2, <2>6
    <3>2. ReadingsOf(f) # {} BY <1>4, <1>6, <3>1
    <3>3. Readable(f) BY <2>3, <3>2, OneReading
    <3>4. PICK key, value : IsSeq(key) /\ IsSeq(value) /\ Reads(f, key, value)
      BY <3>3 DEF Readable
    <3>5. Reads(FieldIn(raw, from, to), key, value) BY <3>4 DEF f
    <3>6. FieldEnd(raw, from) = to BY <2>1, <3>4, <3>5, ReadEndsThere
    <3> QED BY <3>6 DEF from, to
  <2> QED BY <2>5, <2>6
<1> QED BY <1>7 DEF ParsedAt

(* The fields that can be read are read as the parser does. *)
LEMMA ReadAsParsed ==
    ASSUME NEW t, IsSeq(t), \A n \in 1..Len(t) : IsSeq(t[n]) /\ Readable(t[n])
    PROVE  /\ EachRead(t) /\ Pairs(t) = [ok |-> TRUE, pairs |-> Reading(t)]
<1>1. DOMAIN t = 1..Len(t) BY SeqFacts
<1> DEFINE u(n) == Unquote(split_once(t[n]))
           r(n) == CHOOSE x \in ReadingsOf(t[n]) : TRUE
<1>2. ASSUME NEW n \in DOMAIN t
      PROVE  split_once(t[n]).key # <<>> /\ ReadingsOf(t[n]) = {u(n)}
  <2> DEFINE f == t[n]
  <2>1. IsSeq(f) /\ Readable(f) BY <1>1
  <2> HIDE DEF f
  <2>2. split_once(f).key # <<>> /\ ReadingsOf(f) = {Unquote(split_once(f))} BY <2>1, OneReading
  <2> QED BY <2>2 DEF f
<1>3. ASSUME NEW n \in DOMAIN t PROVE r(n) = u(n)
  <2>1. ReadingsOf(t[n]) = {u(n)} BY <1>2
  <2> HIDE DEF u
  <2> QED BY <2>1
<1>4. EachRead(t) BY <1>2 DEF EachRead
<1>5. ~\E n \in DOMAIN t : split_once(t[n]).key = <<>> BY <1>2
<1>6. Pairs(t) = [ok |-> TRUE, pairs |-> [n \in DOMAIN t |-> u(n)]] BY <1>5, Zenon DEF Pairs
<1>7. Reading(t) = [n \in DOMAIN t |-> r(n)] BY DEF Reading
<1> HIDE DEF u, r
<1>8. [n \in DOMAIN t |-> u(n)] = [n \in DOMAIN t |-> r(n)] BY <1>3
<1> QED BY <1>4, <1>6, <1>7, <1>8

(* What the parser makes of the fields that it finds. *)
LEMMA ParseIs ==
    \A raw : LET spans == split_supporting_data_fields(raw) IN
             parse_supporting_data(raw) =
                 IF Last(spans).to = 0 THEN [ok |-> FALSE, pairs |-> <<>>]
                 ELSE Pairs(Filled(SpanFields(raw, spans)))
BY Zenon DEF parse_supporting_data, FromSpans, Filled, SpanFields

LEMMA PartsAre == \A raw, cs : Parts(raw, cs) = Filled(Between(raw, cs))
BY Zenon DEF Parts, Filled

LEMMA ReadingsIs ==
    \A raw : Readings(raw) =
        {Reading(Parts(raw, cs)) : cs \in {ds \in SUBSET Commas(raw) : EachRead(Parts(raw, ds))}}
BY Zenon DEF Readings, Commas, EachRead

(* A way to choose the commas that can be read is the parser's. *)
LEMMA ChoiceIsParsed ==
    ASSUME NEW raw, IsSeq(raw), NEW cs \in SUBSET Commas(raw), EachRead(Parts(raw, cs))
    PROVE  parse_supporting_data(raw) = [ok |-> TRUE, pairs |-> Reading(Parts(raw, cs))]
<1> DEFINE spans == split_supporting_data_fields(raw)
<1>1. PICK m, e : Cuts(raw, e, m) /\ Between(raw, cs) = FieldsOf(raw, e, m) BY ChoiceIsCut
<1> DEFINE fields == FieldsOf(raw, e, m)
           t == Filled(fields)
<1>2. Parts(raw, cs) = t BY <1>1, PartsAre
<1>3. EachRead(t) BY <1>2
<1>4. ParsedAt(raw, e, m) BY <1>1, <1>3, GoodParsed
<1>5. Walks(raw, spans) /\ Last(spans).to \notin DOMAIN raw BY SplitWalks
<1>6. parse_supporting_data(raw) =
          IF Last(spans).to = 0 THEN [ok |-> FALSE, pairs |-> <<>>]
          ELSE Pairs(Filled(SpanFields(raw, spans)))
  BY ParseIs, Zenon
<1> HIDE DEF spans
<1>7. Last(spans).to # 0 /\ SpanFields(raw, spans) = fields BY <1>1, <1>4, <1>5, SameCuts
<1>8. parse_supporting_data(raw) = Pairs(t) BY <1>6, <1>7, Zenon
<1>9. IsSeq(fields) /\ Len(fields) = m /\ \A i \in 1..m : IsSeq(fields[i])
  BY <1>1, FieldsOfAre
<1> HIDE DEF fields
<1>10. IsSeq(t) /\ \A n \in 1..Len(t) : \E x \in 1..m : fields[x] # <<>> /\ t[n] = fields[x]
  BY <1>9, FullAre
<1> HIDE DEF t
<1>11. DOMAIN t = 1..Len(t) BY <1>10, SeqFacts
<1>12. ASSUME NEW n \in 1..Len(t) PROVE IsSeq(t[n]) /\ Readable(t[n])
  <2> DEFINE f == t[n]
  <2>1. IsSeq(f) BY <1>9, <1>10
  <2>2. ReadingsOf(f) # {} BY <1>3, <1>11 DEF EachRead
  <2> HIDE DEF f
  <2>3. Readable(f) BY <2>1, <2>2, OneReading
  <2> QED BY <2>1, <2>3 DEF f
<1>13. Pairs(t) = [ok |-> TRUE, pairs |-> Reading(t)] BY <1>10, <1>12, ReadAsParsed
<1> QED BY <1>2, <1>8, <1>13, Zenon

(* What the parser reads is the reading of a way to choose the commas. *)
LEMMA ParsedIsChoice ==
    ASSUME NEW raw, IsSeq(raw), parse_supporting_data(raw).ok
    PROVE  \E cs \in SUBSET Commas(raw) : EachRead(Parts(raw, cs))
<1> DEFINE spans == split_supporting_data_fields(raw)
           e == EndsOf(spans)
           m == Len(spans)
           fields == FieldsOf(raw, e, m)
           t == Filled(fields)
<1>1. Walks(raw, spans) /\ Last(spans).to \notin DOMAIN raw BY SplitWalks
<1>2. parse_supporting_data(raw) =
          IF Last(spans).to = 0 THEN [ok |-> FALSE, pairs |-> <<>>]
          ELSE Pairs(Filled(SpanFields(raw, spans)))
  BY ParseIs, Zenon
<1> HIDE DEF spans
<1>3. Last(spans).to # 0 /\ Pairs(Filled(SpanFields(raw, spans))).ok
  <2> DEFINE none == [ok |-> FALSE, pairs |-> <<>>]
             some == Pairs(Filled(SpanFields(raw, spans)))
  <2>1. ~none.ok OBVIOUS
  <2>2. parse_supporting_data(raw) = IF Last(spans).to = 0 THEN none ELSE some BY <1>2
  <2> HIDE DEF none, some
  <2>3. Last(spans).to # 0 /\ some.ok BY <2>1, <2>2, Zenon
  <2> QED BY <2>3 DEF some
<1>4. Cuts(raw, e, m) /\ ParsedAt(raw, e, m) /\ SpanFields(raw, spans) = fields
  BY <1>1, <1>3, SplitCuts
<1> HIDE DEF e, m
<1>5. PICK cs \in SUBSET Commas(raw) : Between(raw, cs) = fields BY <1>4, CutIsChoice
<1>6. Parts(raw, cs) = t BY <1>5, PartsAre
<1>7. Pairs(t).ok BY <1>3, <1>4
<1>8. IsSeq(fields) /\ Len(fields) = m BY <1>4, FieldsOfAre
<1>9. \A i \in 1..m : fields[i] = FieldIn(raw, e[i - 1] + 1, e[i]) /\ IsSeq(fields[i])
  BY <1>4, FieldsOfAre
<1> HIDE DEF fields
<1>10. IsSeq(t) /\ \A n \in 1..Len(t) : \E x \in 1..m : fields[x] # <<>> /\ t[n] = fields[x]
  BY <1>8, FullAre
<1> HIDE DEF t
<1>11. DOMAIN t = 1..Len(t) BY <1>10, SeqFacts
<1>12. \A n \in DOMAIN t : split_once(t[n]).key # <<>>
  <2> DEFINE none == [ok |-> FALSE, pairs |-> <<>>]
             Bad == \E n \in DOMAIN t : split_once(t[n]).key = <<>>
  <2>1. ~none.ok OBVIOUS
  <2>2. Bad => Pairs(t) = none BY Zenon DEF Pairs
  <2> HIDE DEF none, Bad
  <2>3. ~Bad BY <1>7, <2>1, <2>2, Zenon
  <2> QED BY <2>3 DEF Bad
<1>13. ASSUME NEW n \in 1..Len(t) PROVE IsSeq(t[n]) /\ Readable(t[n])
  <2>1. PICK x \in 1..m : t[n] = fields[x] BY <1>10
  <2> DEFINE from == e[x - 1] + 1
             to == e[x]
             f == FieldIn(raw, from, to)
  <2>2. t[n] = f /\ IsSeq(f) BY <1>9, <2>1
  <2>3. FieldAt(raw, from, to) /\ FieldEnd(raw, from) = to BY <1>4 DEF Cuts, ParsedAt
  <2>4. split_once(f).key # <<>> BY <1>11, <1>12, <2>2
  <2> HIDE DEF from, to
  <2>5. from \in Nat /\ from # 0 /\ from <= Len(raw) + 1 /\ to # 0
    <3>1. /\ from \in Nat /\ from # 0 /\ to \in Nat /\ from <= to /\ to <= Len(raw) + 1
      BY <2>3 DEF FieldAt
    <3>2. Len(raw) \in Nat BY SeqFacts
    <3> QED BY <3>1, <3>2
  <2>6. Readable(FieldIn(raw, from, FieldEnd(raw, from))) BY <2>3, <2>4, <2>5, FieldRead
  <2> QED BY <2>2, <2>3, <2>6
<1>14. EachRead(t) BY <1>10, <1>13, ReadAsParsed
<1> QED BY <1>5, <1>6, <1>14

(* The readings of a text are the one of the parser, or none. *)
LEMMA ReadingsAre ==
    ASSUME NEW raw, IsSeq(raw)
    PROVE  Readings(raw) = IF parse_supporting_data(raw).ok THEN {parse_supporting_data(raw).pairs}
                           ELSE {}
<1> DEFINE data == parse_supporting_data(raw)
           R(cs) == Reading(Parts(raw, cs))
           CS == {ds \in SUBSET Commas(raw) : EachRead(Parts(raw, ds))}
<1>1. Readings(raw) = {R(cs) : cs \in CS} BY ReadingsIs, Zenon
<1>2. ASSUME NEW cs \in CS PROVE data.ok /\ data.pairs = R(cs)
  <2>1. data = [ok |-> TRUE, pairs |-> R(cs)] BY ChoiceIsParsed
  <2> HIDE DEF data, R
  <2> QED BY <2>1
<1>3. data.ok => CS # {} BY ParsedIsChoice
<1> HIDE DEF data, R, CS
<1>4. Readings(raw) = IF data.ok THEN {data.pairs} ELSE {} BY <1>1, <1>2, <1>3
<1> QED BY <1>4 DEF data

Asked == last.cmd.name \in Reporting => IsSeq(last.cmd.raw)

LEMMA RunAsked ==
    ASSUME Asked, NEW cmd \in Command, run(cmd)
    PROVE  Asked'
<1>1. last'.cmd = cmd
  <2>1. \E before, after, code, out :
            last' = [cmd |-> cmd, before |-> before, after |-> after, code |-> code, out |-> out]
    BY Zenon DEF run
  <2> QED BY <2>1
<1>2. cmd.name \in Reporting => IsSeq(cmd.raw) BY ReportTypes
<1> QED BY <1>1, <1>2 DEF Asked

(* Any text of --supporting-data is read as documented: when some choice of  *)
(* its commas leaves fields that can be read, parse_supporting_data makes    *)
(* that choice, and no other one is possible; when none does, it is refused. *)
THEOREM DataIsRead == Spec => []SupportingDataRead
<1>1. Init => Asked BY DEF Init, Asked, NoCommand, Reporting
<1>2. Asked /\ [Next]_vars => Asked'
  <2> SUFFICES ASSUME Asked, [Next]_vars PROVE Asked'
    OBVIOUS
  <2>1. ASSUME NEW cmd \in Command, run(cmd) PROVE Asked'
    BY <2>1, RunAsked
  <2>2. last' = last => Asked' BY DEF Asked
  <2>3. ASSUME NEW report, write_provisioning_report(report) PROVE last' = last
    BY <2>3 DEF write_provisioning_report, Others
  <2>4. ASSUME NEW r, ForeignAppend(r) PROVE last' = last
    BY <2>4 DEF ForeignAppend, Others
  <2>5. UNCHANGED vars => last' = last BY DEF vars
  <2> QED BY <2>1, <2>2, <2>3, <2>4, <2>5, Zenon DEF Next
<1>3. Asked => SupportingDataRead
  <2> SUFFICES ASSUME last.cmd.name \in Reporting, IsSeq(last.cmd.raw) PROVE SupportingDataRead
    BY DEF Asked, SupportingDataRead
  <2> DEFINE raw == last.cmd.raw
  <2>1. Readings(raw) = IF parse_supporting_data(raw).ok THEN {parse_supporting_data(raw).pairs} ELSE {}
    BY ReadingsAre
  <2> QED BY <2>1, Zenon DEF SupportingDataRead
<1> QED BY <1>1, <1>2, <1>3, PTL DEF Spec
=============================================================================
