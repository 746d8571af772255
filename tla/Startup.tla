------------------------------ MODULE Startup ------------------------------
(***************************************************************************)
(* One azure-init process from main to its exit (src/main.rs and           *)
(* src/logging.rs): it reads the VM id, loads the configuration, sets up   *)
(* where its events go, and runs a command.  What the command does to the  *)
(* host is in Provisioning, how long its requests take in Acquisition.     *)
(***************************************************************************)
EXTENDS AzureConfig, VmId, SshdConfig

CONSTANTS
    Dmis,       \* what /sys says of the VM
    Sources,    \* configuration sources: base file, drop-ins, --config
    Commands,   \* of "run", "clean", "version"
    LogTexts, KvpTexts,     \* values of AZURE_INIT_LOG and AZURE_INIT_KVP_FILTER
    Shows,      \* for a filter that parses, the kinds of event it lets through
    Sshds       \* what `sshd -G` answers

VARIABLES
    pc,
    env,        \* what the process finds: one of each of the sets above
    id,         \* vm_id
    loaded,     \* the result of Config::load
    layers,     \* the kinds of event each layer takes
    stored,     \* whether the KVP store could be prepared
    emitted,    \* history: events since the layers are set up
    seen,       \* what each layer took
    keys,       \* the path the public keys were written to
    posted,     \* the report sent to the wireserver, "none" before
    exit

vars == <<pc, env, id, loaded, layers, stored, emitted, seen, keys, posted, exit>>

Layer == {"stderr", "file", "kvp", "report"}
Event == {"report", "status", "foreign", "warning", "error"}

(* The program's own filters parse, "unset" is no filter, and the default  *)
(* of the diagnostics begins with WARN.                                    *)
ASSUME ShowsAssumption ==
    /\ Shows \in [DOMAIN Shows -> SUBSET Event]
    /\ {"default", "error", "info"} \subseteq DOMAIN Shows /\ "unset" \notin DOMAIN Shows
    /\ {"warning", "error"} \subseteq Shows["default"]

(* Uuid::parse_str takes no text of fewer or more than 16 bytes. *)
ASSUME DmiAssumption ==
    \A dmi \in Dmis : dmi.text \in Spelling /\ (IsUuid(dmi.text) => Len(dmi.text.bytes) = 16)

ASSUME SourcesAssumption ==
    \A sources \in Sources : \A path \in {sources.dropin, sources.cli} :
        path.is = "dir" => DOMAIN path.files \subseteq 1..LastName

Init ==
    /\ pc = "vm_id" /\ id = None /\ loaded = [ok |-> FALSE, config |-> Default] /\ stored = FALSE
    /\ env \in [dmi : Dmis, sources : Sources, command : Commands,
                log : LogTexts, kvp : KvpTexts, sshd : Sshds]
    /\ layers = [l \in Layer |-> {}] /\ seen = [l \in Layer |-> {}] /\ emitted = {}
    /\ keys = "none" /\ posted = "none" /\ exit = "none"

(* Each layer applies its own filter. *)
Emit(events) ==
    /\ emitted' = emitted \cup events
    /\ seen' = [l \in Layer |-> seen[l] \cup (events \cap layers[l])]

Exit(code) == pc' = "exited" /\ exit' = code

-----------------------------------------------------------------------------
get_vm_id ==
    /\ pc = "vm_id" /\ pc' = "load"
    /\ id' = IF status_get_vm_id(env.dmi) = None THEN ZeroId ELSE status_get_vm_id(env.dmi)
    /\ UNCHANGED <<env, loaded, layers, stored, emitted, seen, keys, posted, exit>>

show_version ==
    /\ pc = "load" /\ env.command = "version"
    /\ Exit("SUCCESS")
    /\ UNCHANGED <<env, id, loaded, layers, stored, emitted, seen, keys, posted>>

load ==
    /\ pc = "load" /\ env.command # "version"
    /\ loaded' = load_from(env.sources)
    /\ pc' = IF loaded'.ok THEN "layers" ELSE "config_failure"
    /\ UNCHANGED <<env, id, layers, stored, emitted, seen, keys, posted, exit>>

(* Any command reports a configuration that does not load, with the        *)
(* default settings and before there are layers that could keep the report. *)
config_failure ==
    /\ pc = "config_failure"
    /\ posted' = "failure"
    /\ Exit("FAILURE")
    /\ UNCHANGED <<env, id, loaded, layers, stored, emitted, seen, keys>>

(* A filter that does not parse, or is not set, gives way to the default. *)
output_filter(default) == Shows[IF env.log \in DOMAIN Shows THEN env.log ELSE default]

(* Environment, configuration, default: the first that is set and parses. *)
kvp_filter(config_filter) ==
    LET usable(text) == text \notin {"unset", "blank"} /\ text \in DOMAIN Shows
    IN  Shows[IF usable(env.kvp) THEN env.kvp
              ELSE IF usable(config_filter) THEN config_filter ELSE "default"]

(* Mutation: the report goes through the diagnostics' layer. *)
layers_in_OneLayer(file_opens, store_opens) ==
    [l \in Layer |->
        CASE l = "stderr" -> output_filter("error")
          [] l = "file" /\ file_opens -> output_filter("info")
          [] l = "kvp" /\ store_opens /\ IsUuid(id) -> kvp_filter(loaded.config.kvp_filter)
          [] l = "report" /\ store_opens /\ IsUuid(id) -> {"report"} \cap kvp_filter(loaded.config.kvp_filter)
          [] OTHER -> {}]

(* A layer that cannot be had is left out and the others stay; the writer  *)
(* refuses an id that is no UUID.                                          *)
layers_in(file_opens, store_opens) ==
    [l \in Layer |->
        CASE l = "stderr" -> output_filter("error")
          [] l = "file" /\ file_opens -> output_filter("info")
          [] l = "kvp" /\ store_opens /\ IsUuid(id) -> kvp_filter(loaded.config.kvp_filter)
          [] l = "report" /\ store_opens -> {"report"}
          [] OTHER -> {}]

setup_layers ==
    /\ pc = "layers" /\ pc' = "command"
    /\ \E file_opens, store_opens \in BOOLEAN :
          /\ store_opens => loaded.config.kvp_diagnostics
          /\ layers' = layers_in(file_opens, store_opens)
          /\ stored' = store_opens
    /\ UNCHANGED <<env, id, loaded, emitted, seen, keys, posted, exit>>

-----------------------------------------------------------------------------
clean ==
    /\ pc = "command" /\ env.command = "clean"
    /\ \/ Emit({"status"}) /\ Exit("SUCCESS")
       \/ Emit({"status", "error"}) /\ Exit("FAILURE")
    /\ UNCHANGED <<env, id, loaded, layers, stored, keys, posted>>

provisioned_already ==
    /\ pc = "command" /\ env.command = "run"
    /\ Emit({"status"}) /\ Exit("SUCCESS")
    /\ UNCHANGED <<env, id, loaded, layers, stored, keys, posted>>

(* Duration::from_secs_f64 panics on a negative number of seconds. *)
Panics(timeouts) == loaded.config[timeouts] = "negative"

(* What provision tells of is on its own crates' targets, or others'. *)
provision ==
    /\ pc = "command" /\ env.command = "run"
    /\ \E others \in SUBSET {"foreign", "warning"} :
          \/ Panics("imds") /\ Emit({"status"} \cup others) /\ Exit("PANIC") /\ UNCHANGED keys
          \/ /\ ~Panics("imds")
             /\ \/ /\ Emit({"status"} \cup others)
                   /\ pc' = "ready"
                   /\ keys' = authorized_keys_path(loaded.config.query_sshd_config, env.sshd,
                                                   loaded.config.authorized_keys_path)
                \/ /\ Emit({"status", "error"} \cup others)
                   /\ pc' \in {"failure", "user_missing"}
                   /\ UNCHANGED keys
             /\ UNCHANGED exit
    /\ UNCHANGED <<env, id, loaded, layers, stored, posted>>

(* _report: the event comes before the request, whose timeouts may panic   *)
(* and whose total of zero leaves no time for a first attempt.  Whether    *)
(* the wireserver is reached changes nothing here.                         *)
report ==
    /\ pc \in {"ready", "failure", "user_missing"}
    /\ Emit({"report", "status"})
    /\ IF Panics("wireserver") THEN Exit("PANIC") /\ UNCHANGED posted
       ELSE /\ posted' = IF loaded.config.wireserver = "zero" THEN posted
                         ELSE IF pc = "ready" THEN "ready" ELSE "failure"
            /\ Exit(CASE pc = "ready" -> "SUCCESS"
                      [] pc = "user_missing" -> "CONFIG"
                      [] OTHER -> "FAILURE")
    /\ UNCHANGED <<env, id, loaded, layers, stored, keys>>

Next ==
    \/ get_vm_id \/ show_version \/ load \/ config_failure \/ setup_layers
    \/ clean \/ provisioned_already \/ provision \/ report

Spec == Init /\ [][Next]_vars

-----------------------------------------------------------------------------
(* The files in the order of the documentation, each under its rank. *)
Tomls(path, above) ==
    IF path.is = "dir"
    THEN {<<above + n, path.files[n].file>> : n \in {m \in DOMAIN path.files : path.files[m].toml}}
    ELSE {}
Single(path, rank) == IF path.is = "file" THEN {<<rank, path.file>>} ELSE {}

Ranked(sources) ==
    Single(sources.base, 0) \cup Tomls(sources.dropin, 0)
        \cup Single(sources.cli, LastName + 1) \cup Tomls(sources.cli, LastName)

(* The value of a setting: that of the last of the files that has one. *)
Setters(files, s) == {f \in files : s \in DOMAIN f[2].sets}
InForce(files, s) ==
    IF Setters(files, s) = {} THEN Default[s]
    ELSE (CHOOSE f \in Setters(files, s) : \A g \in Setters(files, s) : g[1] <= f[1])[2].sets[s]

Loads(sources) ==
    /\ \A f \in Ranked(sources) : ~f[2].broken
    /\ {sources.dropin.is, sources.cli.is} \cap {"unreadable"} = {}
    /\ \A s \in Settings : InForce(Ranked(sources), s) \in Typed[s]

(* doc/configuration.md: "the value from the file processed last will take  *)
(* precedence", defaults first and --config last, and a run does not go on *)
(* when a file is broken or a value that is in force has another type.     *)
LastSourceWins ==
    /\ pc \notin {"vm_id", "load", "exited"} => (loaded.ok <=> Loads(env.sources))
    /\ loaded.ok =>
            /\ Loads(env.sources)
            /\ \A s \in Settings : loaded.config[s] = InForce(Ranked(env.sources), s)

(* A usable AZURE_INIT_KVP_FILTER decides alone what diagnostics are kept;  *)
(* a filter that cannot be used never costs the warnings (kvp_filter).     *)
FilterPrecedence ==
    stored /\ IsUuid(id) =>
        IF env.kvp \in DOMAIN Shows \ {"blank"} THEN seen["kvp"] = emitted \cap Shows[env.kvp]
        ELSE loaded.config.kvp_filter \notin DOMAIN Shows \ {"blank"} =>
                emitted \cap {"warning", "error"} \subseteq seen["kvp"]

(* Every setting, and the filter that has two settings, is taken from the   *)
(* source that comes first by the documentation and can be used.           *)
SourcesTakePrecedence == LastSourceWins /\ FilterPrecedence

(* Whenever there is a store the pool gets the report, whatever the filters *)
(* say, whether or not there is a log file, and for an id the diagnostics  *)
(* refuse; even if the request then panics (setup_layers_in).              *)
ReportReaches ==
    stored /\ "report" \in emitted => "report" \in seen["report"]

(* Case and white space of product_uuid do not change the id, swapping is  *)
(* its own inverse, and the KVP command line takes the same id, or refuses *)
(* where azure-init falls back to zeros (status.rs and vm_id.rs).          *)
SameVmSameId ==
    pc # "vm_id" =>
        /\ id = IF kvp_get_vm_id(env.dmi) = None THEN ZeroId ELSE kvp_get_vm_id(env.dmi)
        /\ \A other \in Dmis :
              (/\ other.read /\ env.dmi.read /\ other.text.form = env.dmi.text.form
               /\ other.text.bytes = env.dmi.text.bytes /\ is_vm_gen1(other) = is_vm_gen1(env.dmi))
                  => kvp_get_vm_id(other) = kvp_get_vm_id(env.dmi)
        /\ is_vm_gen1(env.dmi) /\ id # ZeroId /\ IsUuid(id) =>
              swap_uuid_to_little_endian(id.bytes) = env.dmi.text.bytes

(* Settings that load and cost the wireserver its report: a negative       *)
(* timeout, on which the process panics, and no time for a report.         *)
Mute ==
    loaded.ok /\ (loaded.config.wireserver \in {"negative", "zero"} \/ loaded.config.imds = "negative")

(* Every run that does not succeed, if it panics too, has told the          *)
(* wireserver of a failure, and so has every command whose configuration   *)
(* did not load; nothing else has, and only Mute settings are an excuse.   *)
FailuresAreReported ==
    pc = "exited" =>
        /\ exit # "SUCCESS" /\ (env.command = "run" \/ ~loaded.ok) => posted = "failure" \/ Mute
        /\ posted = "failure" => exit # "SUCCESS" /\ (env.command = "run" \/ ~loaded.ok)

(* How a run ends is told: to the pool when there is a store, and to the    *)
(* wireserver, each in spite of what fails beside it.                      *)
OutcomeIsTold == ReportReaches /\ FailuresAreReported
=============================================================================
