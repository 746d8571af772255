---------------------------- MODULE AzureConfig ----------------------------
(***************************************************************************)
(* Config::load_from (libazureinit/src/config.rs): what figment makes of   *)
(* the defaults, the base file, the drop-in directory and the argument of  *)
(* --config.                                                               *)
(***************************************************************************)
EXTENDS Naturals

CONSTANTS
    Default,    \* Config::default(): a record, setting by setting
    Typed,      \* for each setting the values that deserialize to its type
    LastName    \* file names are 1..LastName, in lexicographic order

ASSUME DefaultAssumption ==
    DOMAIN Typed = DOMAIN Default /\ \A s \in DOMAIN Default : Default[s] \in Typed[s]

ASSUME NamesAssumption == LastName \in Nat

Settings == DOMAIN Default
IsConfig(c) == DOMAIN c = Settings /\ \A s \in Settings : c[s] \in Typed[s]

(* A file: text that is no TOML, or cannot be read, or some settings, each *)
(* with a value of any type; keys Config has not are passed over.          *)
Broken == [broken |-> TRUE, sets |-> <<>>]
File(sets) == [broken |-> FALSE, sets |-> sets]

(* A path: nothing there, a file, a directory of named files that have the *)
(* extension toml or not, or a directory that cannot be read.              *)
Missing == [is |-> "missing"]
IsFile(file) == [is |-> "file", file |-> file]
IsDir(files) == [is |-> "dir", files |-> files]
Unreadable == [is |-> "unreadable"]

-----------------------------------------------------------------------------
(* A figment: the values so far, and whether a source failed.  A directory *)
(* that cannot be read ends load_from, any other failure shows at extract. *)
Defaults == [ok |-> TRUE, values |-> Default]
Failed == [ok |-> FALSE, values |-> Default]

(* Mutation: what is set stays. *)
merge_First(figment, file) ==
    [ok |-> figment.ok /\ ~file.broken, values |-> figment.values]

(* Figment::merge: the new source wins. *)
merge(figment, file) ==
    [ok |-> figment.ok /\ ~file.broken,
     values |-> [s \in Settings |->
                    IF s \in DOMAIN file.sets THEN file.sets[s] ELSE figment.values[s]]]

merge_toml_directory(figment, path) ==
    LET merged[n \in 0..LastName] ==
            IF n = 0 THEN figment
            ELSE IF n \in DOMAIN path.files /\ path.files[n].toml
            THEN merge(merged[n - 1], path.files[n].file)
            ELSE merged[n - 1]
    IN  CASE path.is = "dir" -> merged[LastName]
          [] path.is = "unreadable" -> Failed
          [] OTHER -> figment

merge_base(figment, path) ==
    IF path.is = "file" THEN merge(figment, path.file) ELSE figment

(* A --config path that does not exist is merged as an empty file. *)
merge_cli(figment, path) ==
    IF path.is \in {"dir", "unreadable"} THEN merge_toml_directory(figment, path)
    ELSE merge_base(figment, path)

(* Figment::extract: the types are those of the merged values. *)
extract(figment) ==
    LET config == [s \in Settings |-> figment.values[s]]
    IN  IF figment.ok /\ IsConfig(config) THEN [ok |-> TRUE, config |-> config]
        ELSE [ok |-> FALSE, config |-> Default]

load_from(sources) ==
    extract(merge_cli(merge_toml_directory(merge_base(Defaults, sources.base), sources.dropin),
                      sources.cli))
=============================================================================
