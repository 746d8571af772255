--------------------------- MODULE StartupProofs ---------------------------
(***************************************************************************)
(* Proofs about Startup for any configuration sources, filters, ids and    *)
(* answers of sshd: what is read at the start, and what the pool and the    *)
(* wireserver are told of a run.                                           *)
(***************************************************************************)
EXTENDS Startup, TLAPS, WellFoundedInduction, SequenceTheorems

Running == {"command", "ready", "failure", "user_missing"}

(* A layer has taken what its filter lets through, and the one for the     *)
(* report lets it through whenever there is a store.                       *)
LayersInv ==
    /\ layers \in [Layer -> SUBSET Event] /\ seen \in [Layer -> SUBSET Event]
    /\ pc \in {"vm_id", "load", "config_failure", "layers"} => 
            emitted = {} /\ ~stored /\ seen = [l \in Layer |-> {}]
    /\ \A l \in Layer : pc \in Running \cup {"exited"} => seen[l] = emitted \cap layers[l]
    /\ stored => /\ layers["report"] = {"report"}
                 /\ IsUuid(id) => layers["kvp"] = kvp_filter(loaded.config.kvp_filter)

(* A command runs only with a configuration, and nothing is posted before  *)
(* the end.                                                                *)
PostedInv ==
    /\ pc \in {"vm_id", "load", "config_failure", "layers", "exited"} \cup Running
    /\ pc # "exited" => posted = "none"
    /\ pc = "config_failure" => ~loaded.ok
    /\ pc \in {"layers"} \cup Running => loaded.ok
    /\ pc \in Running \ {"command"} => env.command = "run"
    /\ FailuresAreReported

LEMMA EmitInv ==
    ASSUME LayersInv, NEW events \in SUBSET Event, Emit(events),
           UNCHANGED <<layers, stored>>, pc \in Running
    PROVE  /\ seen' \in [Layer -> SUBSET Event]
           /\ \A l \in Layer : seen'[l] = emitted' \cap layers'[l]
BY DEF LayersInv, Emit

LEMMA LayersStep ==
    ASSUME LayersInv, Next
    PROVE  LayersInv'
<1> USE DEF Running
<1>1. CASE get_vm_id \/ load
  BY <1>1 DEF get_vm_id, load, LayersInv
<1>2. CASE show_version \/ config_failure
  <2>1. \A l \in Layer : seen[l] = emitted \cap layers[l]
    BY <1>2 DEF show_version, config_failure, LayersInv
  <2> QED BY <1>2, <2>1 DEF show_version, config_failure, Exit, LayersInv, kvp_filter
<1>3. CASE setup_layers
  <2>1. PICK file_opens \in BOOLEAN, store_opens \in BOOLEAN :
            layers' = layers_in(file_opens, store_opens) /\ stored' = store_opens
    BY <1>3 DEF setup_layers
  <2>2. output_filter("error") \subseteq Event /\ output_filter("info") \subseteq Event
        /\ kvp_filter(loaded.config.kvp_filter) \subseteq Event
    BY ShowsAssumption DEF output_filter, kvp_filter
  <2>3. layers' \in [Layer -> SUBSET Event]
    BY <2>1, <2>2 DEF layers_in, Event
  <2>4. stored' => layers'["report"] = {"report"}
    BY <2>1 DEF layers_in, Layer
  <2>5. UNCHANGED <<env, id, loaded, emitted, seen>> /\ pc' = "command"
        /\ emitted = {} /\ seen = [l \in Layer |-> {}]
    BY <1>3 DEF setup_layers, LayersInv
  <2>6. stored' /\ IsUuid(id) => layers'["kvp"] = kvp_filter(loaded.config.kvp_filter)
    BY <2>1 DEF layers_in, Layer
  <2>7. kvp_filter(loaded.config.kvp_filter)' = kvp_filter(loaded.config.kvp_filter)
    BY <2>5 DEF kvp_filter
  <2> QED BY <2>3, <2>4, <2>5, <2>6, <2>7 DEF LayersInv
<1>4. CASE clean \/ provisioned_already \/ provision \/ report
  <2>1. PICK events \in SUBSET Event : Emit(events)
    BY <1>4 DEF clean, provisioned_already, provision, report, Event
  <2>2. UNCHANGED <<env, id, loaded, layers, stored>> /\ pc \in Running
        /\ pc' \in {"exited", "ready", "failure", "user_missing"}
    BY <1>4 DEF clean, provisioned_already, provision, report, Exit
  <2>3. kvp_filter(loaded.config.kvp_filter)' = kvp_filter(loaded.config.kvp_filter)
    BY <2>2 DEF kvp_filter
  <2> QED BY <2>1, <2>2, <2>3, EmitInv DEF LayersInv
<1> QED BY <1>1, <1>2, <1>3, <1>4 DEF Next

LEMMA PostedStep ==
    ASSUME PostedInv, Next
    PROVE  PostedInv'
<1> USE DEF PostedInv, FailuresAreReported, Mute, Running, Exit
<1>1. CASE get_vm_id BY <1>1 DEF get_vm_id
<1>2. CASE show_version BY <1>2 DEF show_version
<1>3. CASE load BY <1>3 DEF load
<1>4. CASE config_failure BY <1>4 DEF config_failure
<1>5. CASE setup_layers BY <1>5 DEF setup_layers
<1>6. CASE clean BY <1>6 DEF clean
<1>7. CASE provisioned_already BY <1>7 DEF provisioned_already
<1>8. CASE provision BY <1>8 DEF provision, Panics
<1>9. CASE report BY <1>9 DEF report, Panics
<1> QED BY <1>1, <1>2, <1>3, <1>4, <1>5, <1>6, <1>7, <1>8, <1>9 DEF Next

-----------------------------------------------------------------------------
IInv == LayersInv /\ PostedInv

(* IInv is inductive. *)
THEOREM InductiveInvariant == Spec => []IInv
<1>1. Init => IInv
  BY DEF Init, IInv, LayersInv, PostedInv, FailuresAreReported, Running, Layer, Event
<1>2. ASSUME IInv, [Next]_vars PROVE IInv'
  <2>1. CASE Next BY <1>2, <2>1, LayersStep, PostedStep DEF IInv
  <2>2. CASE UNCHANGED vars
    <3>1. LayersInv' BY <1>2, <2>2 DEF IInv, LayersInv, vars, kvp_filter
    <3>2. PostedInv' BY <1>2, <2>2 DEF IInv, PostedInv, FailuresAreReported, Mute, vars
    <3> QED BY <3>1, <3>2 DEF IInv
  <2> QED BY <1>2, <2>1, <2>2
<1> QED BY <1>1, <1>2, PTL DEF Spec

(* A usable filter of the environment decides; an unusable one costs no    *)
(* warning.                                                                *)
THEOREM FiltersTakePrecedence == Spec => []FilterPrecedence
<1>1. ASSUME IInv PROVE FilterPrecedence
  <2> SUFFICES ASSUME stored, IsUuid(id) PROVE FilterPrecedence BY DEF FilterPrecedence
  <2>1. "kvp" \in Layer BY DEF Layer
  <2>2. seen["kvp"] = emitted \cap kvp_filter(loaded.config.kvp_filter)
    BY <1>1, <2>1 DEF IInv, LayersInv, PostedInv, Running
  <2>3. env.kvp \in DOMAIN Shows \ {"blank"} =>
            kvp_filter(loaded.config.kvp_filter) = Shows[env.kvp]
    BY ShowsAssumption DEF kvp_filter
  <2>4. (env.kvp \notin DOMAIN Shows \ {"blank"}
         /\ loaded.config.kvp_filter \notin DOMAIN Shows \ {"blank"}) =>
            kvp_filter(loaded.config.kvp_filter) = Shows["default"]
    BY ShowsAssumption DEF kvp_filter
  <2>5. {"warning", "error"} \subseteq Shows["default"] BY ShowsAssumption
  <2> QED BY <2>2, <2>3, <2>4, <2>5 DEF FilterPrecedence
<1> QED BY InductiveInvariant, <1>1, PTL

(* With a store the pool gets the report, whatever the filters say, and    *)
(* the wireserver is told of failed runs and of nothing else (Mute aside).  *)
THEOREM TheOutcomeIsTold == Spec => []OutcomeIsTold
<1>1. IInv => ReportReaches
  BY DEF IInv, LayersInv, PostedInv, ReportReaches, Running, Layer
<1>2. IInv => FailuresAreReported BY DEF IInv, PostedInv
<1>3. IInv => OutcomeIsTold BY <1>1, <1>2 DEF OutcomeIsTold
<1> QED BY InductiveInvariant, <1>3, PTL

-----------------------------------------------------------------------------
(* What the merge of the sources gives. *)

(* merge_toml_directory's file of number n. *)
MergedAt(figment, path, n, before) ==
    IF n \in DOMAIN path.files /\ path.files[n].toml THEN merge(before, path.files[n].file)
    ELSE before

(* The figments of its recursion up to the file of number n. *)
Merges(f, figment, path, n) ==
    f = [k \in 0..n |-> IF k = 0 THEN figment ELSE MergedAt(figment, path, k, f[k - 1])]

(* The recursion has a solution. *)
LEMMA MergedExists ==
    ASSUME NEW figment, NEW path, NEW N \in Nat
    PROVE  \E f : Merges(f, figment, path, N)
<1> USE DEF Merges
<1> DEFINE Good(n) == \E f : f = [k \in 0..n |->
                IF k = 0 THEN figment ELSE MergedAt(figment, path, k, f[k - 1])]
<1> SUFFICES ASSUME ~Good(N) PROVE FALSE OBVIOUS
<1> DEFINE Bad == {n \in Nat : ~Good(n)}
<1>1. Bad # {} /\ Bad \subseteq Nat OBVIOUS
<1>2. PICK n \in Bad : \A m \in Bad : ~(<<m, n>> \in OpToRel(<, Nat))
  <2> HIDE DEF Bad
  <2> QED BY <1>1, NatLessThanWellFounded, WFMin, Zenon
<1>3. \A m \in Bad : ~(m < n)
  <2> HIDE DEF Good
  <2> QED BY <1>2 DEF OpToRel
<1>4. CASE n = 0
  <2> DEFINE f == [k \in 0..0 |-> figment]
  <2>1. f = [k \in 0..0 |-> IF k = 0 THEN figment ELSE MergedAt(figment, path, k, f[k - 1])]
    OBVIOUS
  <2>2. Good(0) BY <2>1
  <2> QED BY <1>4, <2>2
<1>5. CASE n # 0
  <2>1. n \in Nat /\ n - 1 \in Nat /\ n - 1 < n BY <1>5
  <2>2. Good(n - 1) 
    <3> HIDE DEF Good
    <3> QED BY <1>3, <2>1
  <2>3. PICK f : f = [k \in 0..(n - 1) |->
                IF k = 0 THEN figment ELSE MergedAt(figment, path, k, f[k - 1])]
    BY <2>2
  <2> DEFINE g == [k \in 0..n |-> IF k = n THEN MergedAt(figment, path, n, f[n - 1]) ELSE f[k]]
  <2>4. ASSUME NEW k \in 0..n
        PROVE  g[k] = IF k = 0 THEN figment ELSE MergedAt(figment, path, k, g[k - 1])
    <3>1. CASE k = n
      <4>1. g[k - 1] = f[n - 1] BY <2>1, <3>1
      <4> QED BY <1>5, <3>1, <4>1
    <3>2. CASE k # n
      <4>1. k \in 0..(n - 1) BY <2>1, <3>2
      <4>2. g[k] = f[k] BY <3>2
      <4>3. k # 0 => g[k - 1] = f[k - 1] BY <2>1, <4>1
      <4>4. f[k] = IF k = 0 THEN figment ELSE MergedAt(figment, path, k, f[k - 1])
        BY <2>3, <4>1
      <4> HIDE DEF g
      <4> QED BY <4>2, <4>3, <4>4
    <3> QED BY <3>1, <3>2
  <2>5. g = [k \in 0..n |-> IF k = 0 THEN figment ELSE MergedAt(figment, path, k, g[k - 1])]
    <3> DEFINE h == [k \in 0..n |-> IF k = 0 THEN figment ELSE MergedAt(figment, path, k, g[k - 1])]
    <3>1. \A k \in 0..n : g[k] = h[k] BY <2>4
    <3> QED BY <3>1
  <2>6. Good(n) BY <2>5
  <2> QED BY <2>6
<1> QED BY <1>4, <1>5

(* A figment is what the files of R, each under its rank, amount to, or    *)
(* has failed at a directory.                                              *)
Stands(figment, R, readable) ==
    /\ figment.ok <=> readable /\ \A f \in R : ~f[2].broken
    /\ readable => \A s \in Settings : figment.values[s] = InForce(R, s)

(* A file of a higher rank overrides, and leaves what it does not set. *)
LEMMA MergeStands ==
    ASSUME NEW figment, NEW R, NEW r \in BOOLEAN, Stands(figment, R, r), NEW rank \in Nat, NEW file,
           \A g \in R : g[1] \in Nat /\ g[1] < rank
    PROVE  Stands(merge(figment, file), R \cup {<<rank, file>>}, r)
<1> DEFINE top == <<rank, file>>
           Q == R \cup {top}
           m == merge(figment, file)
<1>1. top[1] = rank /\ top[2] = file OBVIOUS
<1>2. m.ok <=> r /\ \A f \in Q : ~f[2].broken
  <2>1. m.ok <=> (figment.ok /\ ~file.broken) BY DEF merge
  <2> HIDE DEF m, top
  <2> QED BY <1>1, <2>1 DEF Stands
<1>3. ASSUME r, NEW s \in Settings PROVE m.values[s] = InForce(Q, s)
  <2>1. m.values[s] = IF s \in DOMAIN file.sets THEN file.sets[s] ELSE figment.values[s]
    BY DEF merge
  <2>2. figment.values[s] = InForce(R, s) BY <1>3 DEF Stands
  <2> HIDE DEF m, top
  <2>3. CASE s \in DOMAIN file.sets
    <3>1. top \in Setters(Q, s) BY <1>1, <2>3 DEF Setters
    <3>2. \A g \in Setters(Q, s) : g = top \/ (g[1] \in Nat /\ g[1] < rank) BY DEF Setters
    <3>3. \A g \in Setters(Q, s) : g[1] <= top[1] BY <1>1, <3>2
    <3>4. ASSUME NEW f \in Setters(Q, s), \A g \in Setters(Q, s) : g[1] <= f[1]
          PROVE  f = top
      <4>1. rank <= f[1] BY <1>1, <3>1, <3>4
      <4> QED BY <3>2, <4>1
    <3>5. (CHOOSE f \in Setters(Q, s) : \A g \in Setters(Q, s) : g[1] <= f[1]) = top
      <4> DEFINE S == Setters(Q, s)
                 Last1(f) == \A g \in S : g[1] <= f[1]
      <4>1. top \in S /\ Last1(top) BY <3>1, <3>3
      <4>2. \A f \in S : Last1(f) => f = top BY <3>4
      <4> HIDE DEF S, Last1
      <4>3. (CHOOSE f \in S : Last1(f)) = top BY <4>1, <4>2
      <4> QED BY <4>3 DEF S, Last1
    <3> QED BY <1>1, <2>1, <2>3, <3>1, <3>5 DEF InForce
  <2>4. CASE s \notin DOMAIN file.sets
    <3>1. Setters(Q, s) = Setters(R, s) BY <1>1, <2>4 DEF Setters
    <3> QED BY <2>1, <2>2, <2>4, <3>1 DEF InForce
  <2> QED BY <2>3, <2>4
<1> QED BY <1>2, <1>3 DEF Stands

(* A directory adds its toml files in the order of their names. *)
LEMMA DirectoryStands ==
    ASSUME NEW figment, NEW R, NEW r \in BOOLEAN, Stands(figment, R, r), NEW path, NEW above \in Nat,
           path.is = "dir", DOMAIN path.files \subseteq 1..LastName,
           \A g \in R : g[1] \in Nat /\ g[1] <= above
    PROVE  Stands(merge_toml_directory(figment, path), R \cup Tomls(path, above), r)
<1> USE NamesAssumption
<1> DEFINE Upto(n) == {<<above + k, path.files[k].file>> :
                            k \in {m \in DOMAIN path.files : path.files[m].toml /\ m <= n}}
<1> DEFINE Solves(f) == f = [n \in 0..LastName |->
                IF n = 0 THEN figment
                ELSE IF n \in DOMAIN path.files /\ path.files[n].toml
                THEN merge(f[n - 1], path.files[n].file) ELSE f[n - 1]]
           merged == CHOOSE f : Solves(f)
<1>1. Solves(merged)
  <2>1. PICK f : Merges(f, figment, path, LastName) BY MergedExists
  <2>2. Solves(f) BY <2>1 DEF Merges, MergedAt
  <2> HIDE DEF Solves
  <2> QED BY <2>2
<1>2. merge_toml_directory(figment, path) = merged[LastName]
  <2> HIDE DEF merged
  <2>1. merge_toml_directory(figment, path) =
            LET result == merged IN result[LastName]
    BY DEF merge_toml_directory, merged
  <2> QED BY <2>1
<1>3. /\ merged[0] = figment
      /\ \A n \in 1..LastName : merged[n] =
            IF n \in DOMAIN path.files /\ path.files[n].toml
            THEN merge(merged[n - 1], path.files[n].file) ELSE merged[n - 1]
  <2> HIDE DEF merged
  <2> QED BY <1>1
<1> HIDE DEF merged, Solves
<1> DEFINE Good(n) == Stands(merged[n], R \cup Upto(n), r)
<1>4. Good(0)
  <2>1. Upto(0) = {} OBVIOUS
  <2> QED BY <1>3, <2>1
<1>5. ASSUME NEW n \in 1..LastName, Good(n - 1) PROVE Good(n)
  <2>1. CASE n \in DOMAIN path.files /\ path.files[n].toml
    <3>1. Upto(n) = Upto(n - 1) \cup {<<above + n, path.files[n].file>>}
      <4>1. {m \in DOMAIN path.files : path.files[m].toml /\ m <= n} =
                {m \in DOMAIN path.files : path.files[m].toml /\ m <= n - 1} \cup {n}
        BY <2>1
      <4> QED BY <4>1
    <3>2. \A g \in R \cup Upto(n - 1) : g[1] \in Nat /\ g[1] < above + n
      OBVIOUS
    <3>3. Stands(merge(merged[n - 1], path.files[n].file),
                 (R \cup Upto(n - 1)) \cup {<<above + n, path.files[n].file>>}, r)
      <4> HIDE DEF Upto
      <4> QED BY <1>5, <3>2, MergeStands
    <3> HIDE DEF Upto
    <3>4. (R \cup Upto(n - 1)) \cup {<<above + n, path.files[n].file>>} = R \cup Upto(n)
      BY <3>1
    <3> QED BY <1>3, <2>1, <3>3, <3>4
  <2>2. CASE ~(n \in DOMAIN path.files /\ path.files[n].toml)
    <3>1. Upto(n) = Upto(n - 1)
      <4>1. {m \in DOMAIN path.files : path.files[m].toml /\ m <= n} =
                {m \in DOMAIN path.files : path.files[m].toml /\ m <= n - 1}
        BY <2>2
      <4> QED BY <4>1
    <3> HIDE DEF Upto
    <3> QED BY <1>3, <1>5, <2>2, <3>1
  <2> QED BY <2>1, <2>2
<1>6. Good(LastName)
  <2> SUFFICES ASSUME ~Good(LastName) PROVE FALSE OBVIOUS
  <2> DEFINE Bad == {n \in 0..LastName : ~Good(n)}
  <2>1. Bad # {} /\ Bad \subseteq Nat
    <3> HIDE DEF Good
    <3> QED OBVIOUS
  <2>2. PICK n \in Bad : \A m \in Bad : ~(<<m, n>> \in OpToRel(<, Nat))
    <3> HIDE DEF Bad
    <3> QED BY <2>1, NatLessThanWellFounded, WFMin, Zenon
  <2> HIDE DEF Good
  <2>3. \A m \in Bad : ~(m < n)
    <3> HIDE DEF Bad
    <3> QED BY <2>1, <2>2 DEF OpToRel
  <2>4. n # 0 BY <1>4
  <2>5. n \in 1..LastName /\ n - 1 \in 0..LastName /\ n - 1 < n BY <2>4
  <2>6. Good(n - 1) BY <2>3, <2>5
  <2> QED BY <1>5, <2>5, <2>6
<1>7. Upto(LastName) = Tomls(path, above)
  <2>1. {m \in DOMAIN path.files : path.files[m].toml /\ m <= LastName} =
            {m \in DOMAIN path.files : path.files[m].toml}
    OBVIOUS
  <2> QED BY <2>1 DEF Tomls
<1> HIDE DEF Upto
<1> QED BY <1>2, <1>6, <1>7

(* Config::load_from takes every setting from the last source that has it, *)
(* and fails where the sources cannot be had or the types are wrong.       *)
LEMMA LoadTakesTheLast ==
    ASSUME NEW sources \in Sources
    PROVE  LET result == load_from(sources) IN
           /\ result.ok <=> Loads(sources)
           /\ result.ok => \A s \in Settings : result.config[s] = InForce(Ranked(sources), s)
<1> USE NamesAssumption
<1> DEFINE base == merge_base(Defaults, sources.base)
           dropins == merge_toml_directory(base, sources.dropin)
           all == merge_cli(dropins, sources.cli)
           B == Single(sources.base, 0)
           D == B \cup Tomls(sources.dropin, 0)
           F == Single(sources.cli, LastName + 1) \cup Tomls(sources.cli, LastName)
           r == sources.dropin.is # "unreadable"
           q == r /\ sources.cli.is # "unreadable"
<1>1. /\ sources.dropin.is = "dir" => DOMAIN sources.dropin.files \subseteq 1..LastName
      /\ sources.cli.is = "dir" => DOMAIN sources.cli.files \subseteq 1..LastName
  BY SourcesAssumption
<1>2. Stands(Defaults, {}, TRUE) BY DEF Stands, InForce, Setters, Defaults
<1>3. Stands(base, B, TRUE) /\ \A g \in B : g[1] = 0
  <2>1. CASE sources.base.is = "file"
    <3>1. Stands(merge(Defaults, sources.base.file), {} \cup {<<0, sources.base.file>>}, TRUE)
      BY <1>2, MergeStands
    <3>2. B = {} \cup {<<0, sources.base.file>>} BY <2>1 DEF Single
    <3>3. base = merge(Defaults, sources.base.file) BY <2>1 DEF merge_base
    <3>4. Stands(base, B, TRUE)
      <4> HIDE DEF base, B
      <4> QED BY <3>1, <3>2, <3>3
    <3>5. \A g \in B : g[1] = 0 BY <3>2
    <3> HIDE DEF base, B
    <3> QED BY <3>4, <3>5
  <2>2. CASE sources.base.is # "file"
    <3>1. base = Defaults /\ B = {} BY <2>2 DEF merge_base, Single
    <3> HIDE DEF base, B
    <3> QED BY <1>2, <3>1
  <2> QED BY <2>1, <2>2
<1> HIDE DEF base, B
<1>4. Stands(dropins, D, r) /\ \A g \in D : g[1] \in 0..LastName
  <2>1. CASE sources.dropin.is = "dir"
    <3>1. Stands(dropins, D, TRUE)
      <4>1. \A g \in B : g[1] \in Nat /\ g[1] <= 0 BY <1>3
      <4> QED BY <1>1, <1>3, <2>1, <4>1, DirectoryStands
    <3>2. \A g \in Tomls(sources.dropin, 0) : g[1] \in 1..LastName
      BY <1>1, <2>1 DEF Tomls
    <3>3. r = TRUE /\ \A g \in D : g[1] \in 0..LastName BY <1>3, <2>1, <3>2
    <3> HIDE DEF r, dropins, D
    <3> QED BY <3>1, <3>3
  <2>2. CASE sources.dropin.is = "unreadable"
    BY <1>3, <2>2 DEF merge_toml_directory, Tomls, Failed, Stands
  <2>3. CASE sources.dropin.is \notin {"dir", "unreadable"}
    <3>1. dropins = base BY <2>3 DEF merge_toml_directory
    <3>2. D = B /\ r = TRUE BY <2>3 DEF Tomls
    <3>3. \A g \in D : g[1] \in 0..LastName BY <1>3, <3>2
    <3> HIDE DEF r, dropins, D
    <3> QED BY <1>3, <3>1, <3>2, <3>3
  <2> QED BY <2>1, <2>2, <2>3
<1> HIDE DEF dropins, D
<1>5. Stands(all, D \cup F, q)
  <2>1. CASE sources.cli.is = "dir"
    <3>1. F = Tomls(sources.cli, LastName) BY <2>1 DEF Single
    <3>2. all = merge_toml_directory(dropins, sources.cli) BY <2>1 DEF merge_cli
    <3>3. \A g \in D : g[1] \in Nat /\ g[1] <= LastName BY <1>4
    <3>4. Stands(all, D \cup F, r)
      <4>1. r \in BOOLEAN OBVIOUS
      <4> HIDE DEF all, F, r
      <4> QED BY <1>1, <1>4, <2>1, <3>1, <3>2, <3>3, <4>1, DirectoryStands
    <3> QED BY <2>1, <3>4
  <2>2. CASE sources.cli.is = "unreadable"
    BY <2>2 DEF merge_cli, merge_toml_directory, Failed, Stands
  <2>3. CASE sources.cli.is = "file"
    <3>1. F = {<<LastName + 1, sources.cli.file>>} BY <2>3 DEF Single, Tomls
    <3>2. all = merge(dropins, sources.cli.file) BY <2>3 DEF merge_cli, merge_base
    <3>3. \A g \in D : g[1] \in Nat /\ g[1] < LastName + 1 BY <1>4
    <3>4. Stands(all, D \cup F, r)
      <4>1. r \in BOOLEAN OBVIOUS
      <4> HIDE DEF all, F, r
      <4> QED BY <1>4, <3>1, <3>2, <3>3, <4>1, MergeStands
    <3> QED BY <2>3, <3>4
  <2>4. CASE sources.cli.is \notin {"dir", "unreadable", "file"}
    <3>1. F = {} BY <2>4 DEF Single, Tomls
    <3>2. all = dropins BY <2>4 DEF merge_cli, merge_base
    <3> QED BY <1>4, <2>4, <3>1, <3>2
  <2> QED BY <2>1, <2>2, <2>3, <2>4
<1>6. D \cup F = Ranked(sources) BY DEF Ranked, B, D
<1> HIDE DEF all, F
<1> DEFINE config == [s \in Settings |-> all.values[s]]
<1>7. load_from(sources) = IF all.ok /\ IsConfig(config) THEN [ok |-> TRUE, config |-> config]
                           ELSE [ok |-> FALSE, config |-> Default]
  BY DEF load_from, extract, all, dropins, base
<1>8. IsConfig(config) <=> \A s \in Settings : all.values[s] \in Typed[s]
  BY DEF IsConfig
<1> HIDE DEF config
<1>9. load_from(sources).ok <=> all.ok /\ IsConfig(config) BY <1>7
<1>10. load_from(sources).ok => load_from(sources).config = config BY <1>7
<1>11. q <=> {sources.dropin.is, sources.cli.is} \cap {"unreadable"} = {} OBVIOUS
<1>12. /\ all.ok <=> q /\ \A f \in Ranked(sources) : ~f[2].broken
       /\ q => \A s \in Settings : all.values[s] = InForce(Ranked(sources), s)
  BY <1>5, <1>6 DEF Stands
<1> HIDE DEF q
<1>13. load_from(sources).ok <=> Loads(sources)
  BY <1>8, <1>9, <1>11, <1>12 DEF Loads
<1>14. load_from(sources).ok =>
           \A s \in Settings : load_from(sources).config[s] = InForce(Ranked(sources), s)
  BY <1>9, <1>10, <1>12 DEF config
<1> QED BY <1>13, <1>14

-----------------------------------------------------------------------------
(* What was read stands: the id is the one /sys gives, and whatever runs,   *)
(* or succeeded, runs with the configuration of the sources.               *)
ReadInv ==
    /\ env.sources \in Sources /\ env.dmi \in Dmis
    /\ pc # "vm_id" =>
          id = IF status_get_vm_id(env.dmi) = None THEN ZeroId ELSE status_get_vm_id(env.dmi)
    /\ pc \notin {"vm_id", "load", "exited"} \/ loaded.ok => loaded = load_from(env.sources)

(* What is read at the start is not read again. *)
THEOREM ReadInvariant == Spec => []ReadInv
<1>1. Init => ReadInv BY DEF Init, ReadInv
<1>2. ASSUME ReadInv, [Next]_vars PROVE ReadInv'
  <2>1. CASE get_vm_id BY <1>2, <2>1 DEF get_vm_id, ReadInv
  <2>2. CASE load
    <3>1. loaded' = load_from(env.sources) /\ UNCHANGED <<env, id>> /\ pc = "load" BY <2>2 DEF load
    <3> QED BY <1>2, <3>1 DEF ReadInv
  <2>3. CASE show_version BY <1>2, <2>3 DEF show_version, Exit, ReadInv
  <2>4. CASE config_failure \/ setup_layers \/ clean \/ provisioned_already
    BY <1>2, <2>4 DEF config_failure, setup_layers, clean, provisioned_already, Exit, ReadInv
  <2>5. CASE provision \/ report
    <3>1. UNCHANGED <<env, id, loaded>> /\ pc \notin {"vm_id", "load", "exited"} /\ pc' # "vm_id"
      BY <2>5 DEF provision, report, Exit
    <3> QED BY <1>2, <3>1 DEF ReadInv
  <2>6. CASE UNCHANGED vars BY <1>2, <2>6 DEF vars, ReadInv
  <2> QED BY <1>2, <2>1, <2>2, <2>3, <2>4, <2>5, <2>6 DEF Next
<1> QED BY <1>1, <1>2, PTL DEF Spec

(* Every setting is that of the last source that has it, of any files and   *)
(* drop-ins in any order, and the filter of the diagnostics that of the    *)
(* first place that has a usable one; with a source that is broken or a    *)
(* value of another type nothing runs.                                     *)
THEOREM SourcesAreTakenInOrder == Spec => []SourcesTakePrecedence
<1>1. ASSUME ReadInv PROVE LastSourceWins
  BY <1>1, LoadTakesTheLast DEF ReadInv, LastSourceWins
<1> QED BY <1>1, ReadInvariant, FiltersTakePrecedence, PTL DEF SourcesTakePrecedence

-----------------------------------------------------------------------------
(* The place a byte of the swapped id is taken from. *)
From(i) == IF i <= 4 THEN 5 - i ELSE IF i <= 6 THEN 11 - i ELSE IF i <= 8 THEN 15 - i ELSE i

(* A part of the bytes, and a part in reverse. *)
LEMMA PartOf ==
    ASSUME NEW b \in Seq(Nat), NEW m \in 1..Len(b), NEW n \in m..Len(b)
    PROVE  /\ SubSeq(b, m, n) \in Seq(Nat) /\ Len(SubSeq(b, m, n)) = n - m + 1
           /\ \A i \in 1..(n - m + 1) : SubSeq(b, m, n)[i] = b[m + i - 1]
<1>1. m \in Int /\ n \in Int /\ m <= n /\ \A i \in m..n : b[i] \in Nat OBVIOUS
<1> QED BY <1>1, SubSeqProperties

LEMMA ReversedPart ==
    ASSUME NEW b \in Seq(Nat), NEW m \in 1..Len(b), NEW n \in m..Len(b)
    PROVE  LET r == Reverse(SubSeq(b, m, n)) IN
           /\ r \in Seq(Nat) /\ Len(r) = n - m + 1
           /\ \A i \in 1..(n - m + 1) : r[i] = b[n + 1 - i]
<1> DEFINE s == SubSeq(b, m, n)  k == n - m + 1
<1>1. s \in Seq(Nat) /\ Len(s) = k /\ \A i \in 1..k : s[i] = b[m + i - 1] BY PartOf
<1>2. k \in Nat OBVIOUS
<1> DEFINE r == [i \in 1..k |-> s[(k - i) + 1]]
<1>3. Reverse(s) = r BY <1>1 DEF Reverse
<1>4. \A i \in 1..k : (k - i) + 1 \in 1..k /\ m + ((k - i) + 1) - 1 = n + 1 - i
  BY <1>2
<1> HIDE DEF s, k
<1>5. \A i \in 1..k : r[i] \in Nat
  <2>1. \A i \in 1..k : s[i] \in Nat BY <1>1, <1>2
  <2> QED BY <1>2, <1>4, <2>1
<1>6. \A i \in 1..k : r[i] = b[n + 1 - i] BY <1>1, <1>4, ZenonT(60)
<1>7. r \in Seq(Nat) /\ Len(r) = k BY <1>2, <1>5
<1> HIDE DEF r
<1> QED BY <1>3, <1>6, <1>7 DEF s, k

(* Bytes that are where they belong, with more such behind them. *)
LEMMA Extended ==
    ASSUME NEW b, NEW s \in Seq(Nat), NEW t \in Seq(Nat),
           \A i \in 1..Len(s) : s[i] = b[From(i)],
           \A i \in 1..Len(t) : t[i] = b[From(Len(s) + i)]
    PROVE  /\ s \o t \in Seq(Nat) /\ Len(s \o t) = Len(s) + Len(t)
           /\ \A i \in 1..(Len(s) + Len(t)) : (s \o t)[i] = b[From(i)]
<1> DEFINE k == Len(s)  m == Len(t)
<1>1. /\ s \o t \in Seq(Nat) /\ Len(s \o t) = k + m
      /\ \A i \in 1..(k + m) : (s \o t)[i] = IF i <= k THEN s[i] ELSE t[i - k]
  BY ConcatProperties, Zenon
<1>3. k \in Nat /\ m \in Nat OBVIOUS
<1> DEFINE joined == s \o t
<1> HIDE DEF joined, k, m
<1>2. ASSUME NEW i \in 1..(k + m) PROVE joined[i] = b[From(i)]
  <2>1. joined[i] = IF i <= k THEN s[i] ELSE t[i - k] BY <1>1 DEF joined
  <2>2. CASE i <= k
    <3>1. i \in 1..k BY <1>3, <2>2
    <3>2. s[i] = b[From(i)] BY <3>1 DEF k
    <3> QED BY <2>1, <2>2, <3>2
  <2>3. CASE ~(i <= k)
    <3>1. i - k \in 1..m /\ k + (i - k) = i BY <1>3, <2>3
    <3>2. t[i - k] = b[From(k + (i - k))] BY <3>1, Zenon DEF k, m
    <3> QED BY <2>1, <2>3, <3>1, <3>2
  <2> QED BY <2>2, <2>3
<1> QED BY <1>1, <1>2 DEF joined, k, m

LEMMA SwapBytes ==
    ASSUME NEW b \in Seq(Nat), Len(b) = 16
    PROVE  LET swapped == swap_uuid_to_little_endian(b) IN
           /\ swapped \in Seq(Nat) /\ Len(swapped) = 16
           /\ \A i \in 1..16 : swapped[i] = b[From(i)]
<1> DEFINE d1 == Reverse(SubSeq(b, 1, 4))
           d2 == Reverse(SubSeq(b, 5, 6))
           d3 == Reverse(SubSeq(b, 7, 8))
           rest == SubSeq(b, 9, 16)
<1>1. d1 \in Seq(Nat) /\ Len(d1) = 4 - 1 + 1 /\ \A i \in 1..(4 - 1 + 1) : d1[i] = b[4 + 1 - i]
  <2>1. 1 \in 1..Len(b) /\ 4 \in 1..Len(b) OBVIOUS
  <2> QED BY <2>1, ReversedPart, Zenon
<1>2. d2 \in Seq(Nat) /\ Len(d2) = 6 - 5 + 1 /\ \A i \in 1..(6 - 5 + 1) : d2[i] = b[6 + 1 - i]
  <2>1. 5 \in 1..Len(b) /\ 6 \in 5..Len(b) OBVIOUS
  <2> QED BY <2>1, ReversedPart, Zenon
<1>3. d3 \in Seq(Nat) /\ Len(d3) = 8 - 7 + 1 /\ \A i \in 1..(8 - 7 + 1) : d3[i] = b[8 + 1 - i]
  <2>1. 7 \in 1..Len(b) /\ 8 \in 7..Len(b) OBVIOUS
  <2> QED BY <2>1, ReversedPart, Zenon
<1>4. /\ rest \in Seq(Nat) /\ Len(rest) = 16 - 9 + 1
      /\ \A i \in 1..(16 - 9 + 1) : rest[i] = b[9 + i - 1]
  <2>1. 9 \in 1..Len(b) /\ 16 \in 9..Len(b) OBVIOUS
  <2> QED BY <2>1, PartOf, Zenon
<1>5. swap_uuid_to_little_endian(b) = ((d1 \o d2) \o d3) \o rest
  BY DEF swap_uuid_to_little_endian
<1> HIDE DEF d1, d2, d3, rest
<1>6. Len(d1) = 4 /\ \A i \in 1..Len(d1) : d1[i] = b[From(i)] BY <1>1 DEF From
<1>7. Len(d2) = 2 /\ \A i \in 1..Len(d2) : d2[i] = b[From(Len(d1) + i)] BY <1>2, <1>6 DEF From
<1> DEFINE e == d1 \o d2
<1>8. /\ e \in Seq(Nat) /\ Len(e) = Len(d1) + Len(d2)
      /\ \A i \in 1..(Len(d1) + Len(d2)) : e[i] = b[From(i)]
  <2>1. d1 \in Seq(Nat) BY <1>1
  <2>2. d2 \in Seq(Nat) BY <1>2
  <2>3. \A i \in 1..Len(d1) : d1[i] = b[From(i)] BY <1>6
  <2>4. \A i \in 1..Len(d2) : d2[i] = b[From(Len(d1) + i)] BY <1>7
  <2> QED BY ONLY <2>1, <2>2, <2>3, <2>4, Extended
<1> HIDE DEF e
<1>9. Len(e) = 6 /\ \A i \in 1..Len(e) : e[i] = b[From(i)] BY <1>6, <1>7, <1>8
<1>10. Len(d3) = 2 /\ \A i \in 1..Len(d3) : d3[i] = b[From(Len(e) + i)] BY <1>3, <1>9 DEF From
<1> DEFINE g == e \o d3
<1>11. /\ g \in Seq(Nat) /\ Len(g) = Len(e) + Len(d3)
       /\ \A i \in 1..(Len(e) + Len(d3)) : g[i] = b[From(i)]
  <2>1. e \in Seq(Nat) BY <1>8
  <2>2. d3 \in Seq(Nat) BY <1>3
  <2>3. \A i \in 1..Len(e) : e[i] = b[From(i)] BY <1>9
  <2>4. \A i \in 1..Len(d3) : d3[i] = b[From(Len(e) + i)] BY <1>10
  <2> QED BY ONLY <2>1, <2>2, <2>3, <2>4, Extended
<1> HIDE DEF g
<1>12. Len(g) = 8 /\ \A i \in 1..Len(g) : g[i] = b[From(i)] BY <1>9, <1>10, <1>11
<1>13. Len(rest) = 8 /\ \A i \in 1..Len(rest) : rest[i] = b[From(Len(g) + i)]
  BY <1>4, <1>12 DEF From
<1> DEFINE h == g \o rest
<1>14. /\ h \in Seq(Nat) /\ Len(h) = Len(g) + Len(rest)
       /\ \A i \in 1..(Len(g) + Len(rest)) : h[i] = b[From(i)]
  <2>1. g \in Seq(Nat) BY <1>11
  <2>2. rest \in Seq(Nat) BY <1>4
  <2>3. \A i \in 1..Len(g) : g[i] = b[From(i)] BY <1>12
  <2>4. \A i \in 1..Len(rest) : rest[i] = b[From(Len(g) + i)] BY <1>13
  <2> QED BY ONLY <2>1, <2>2, <2>3, <2>4, Extended
<1> HIDE DEF h
<1>15. Len(h) = 16 /\ \A i \in 1..16 : h[i] = b[From(i)] BY <1>12, <1>13, <1>14
<1> QED BY <1>5, <1>14, <1>15 DEF e, g, h

(* Swapping is its own inverse. *)
LEMMA SwapTwice ==
    ASSUME NEW b \in Seq(Nat), Len(b) = 16
    PROVE  swap_uuid_to_little_endian(swap_uuid_to_little_endian(b)) = b
<1> DEFINE once == swap_uuid_to_little_endian(b)
           twice == swap_uuid_to_little_endian(once)
<1>1. once \in Seq(Nat) /\ Len(once) = 16 /\ \A i \in 1..16 : once[i] = b[From(i)]
  BY SwapBytes
<1> HIDE DEF once
<1>2. twice \in Seq(Nat) /\ Len(twice) = 16 /\ \A i \in 1..16 : twice[i] = once[From(i)]
  BY <1>1, SwapBytes
<1> HIDE DEF twice
<1>3. \A i \in 1..16 : From(i) \in 1..16 /\ From(From(i)) = i BY DEF From
<1>4. \A i \in 1..16 : twice[i] = b[i] BY <1>1, <1>2, <1>3
<1>5. twice = b BY <1>2, <1>4, SeqEqual
<1> QED BY <1>5 DEF twice, once

(* The id does not depend on case and white space, swapping is undone by   *)
(* swapping, and the other reader of the id reads the same, for any ids.   *)
THEOREM SameVmHasTheSameId == Spec => []SameVmSameId
<1>1. ASSUME ReadInv PROVE SameVmSameId
  <2> SUFFICES ASSUME pc # "vm_id" PROVE SameVmSameId BY DEF SameVmSameId
  <2> DEFINE dmi == env.dmi
  <2>1. dmi \in Dmis /\ id = IF status_get_vm_id(dmi) = None THEN ZeroId ELSE status_get_vm_id(dmi)
    BY <1>1 DEF ReadInv
  <2> HIDE DEF dmi
  <2>2. \A d : status_get_vm_id(d) = kvp_get_vm_id(d)
    BY DEF status_get_vm_id, kvp_get_vm_id
  <2>3. id = IF kvp_get_vm_id(dmi) = None THEN ZeroId ELSE kvp_get_vm_id(dmi)
    BY <2>1, <2>2
  <2>4. ASSUME NEW other \in Dmis, other.read, dmi.read, other.text.form = dmi.text.form,
               other.text.bytes = dmi.text.bytes, is_vm_gen1(other) = is_vm_gen1(dmi)
        PROVE  kvp_get_vm_id(other) = kvp_get_vm_id(dmi)
    <3>1. trim_to_lowercase(other.text) = trim_to_lowercase(dmi.text)
      BY <2>4 DEF trim_to_lowercase
    <3> QED BY <2>4, <3>1 DEF kvp_get_vm_id
  <2>5. ASSUME is_vm_gen1(dmi), id # ZeroId, IsUuid(id)
        PROVE  swap_uuid_to_little_endian(id.bytes) = dmi.text.bytes
    <3>1. id = kvp_get_vm_id(dmi) /\ id # None BY <2>3, <2>5
    <3>2. trim_to_lowercase(dmi.text).form = dmi.text.form
          /\ trim_to_lowercase(dmi.text).bytes = dmi.text.bytes
      BY DEF trim_to_lowercase, Normal
    <3>3. id = IF ~IsUuid(trim_to_lowercase(dmi.text)) THEN trim_to_lowercase(dmi.text)
               ELSE Normal("hyphenated", swap_uuid_to_little_endian(dmi.text.bytes))
      BY <2>5, <3>1, <3>2 DEF kvp_get_vm_id
    <3>4. IsUuid(dmi.text) BY <2>5, <3>2, <3>3 DEF IsUuid
    <3>5. id.bytes = swap_uuid_to_little_endian(dmi.text.bytes)
      BY <3>2, <3>3, <3>4 DEF IsUuid, Normal
    <3>6. dmi.text.bytes \in Seq(Nat) /\ Len(dmi.text.bytes) = 16
      BY <2>1, <3>4, DmiAssumption DEF Spelling
    <3> QED BY <3>5, <3>6, SwapTwice
  <2> QED BY <2>3, <2>4, <2>5 DEF SameVmSameId, dmi
<1> QED BY <1>1, ReadInvariant, PTL
=============================================================================
