----------------------------- MODULE MCStartup -----------------------------
(* Values of Startup's constants for TLC. *)
EXTENDS Startup, TLC

MCDefault == [kvp_diagnostics |-> TRUE, kvp_filter |-> "unset", imds |-> "positive",
              wireserver |-> "positive", query_sshd_config |-> TRUE,
              authorized_keys_path |-> ".ssh/authorized_keys"]
MCTyped == [kvp_diagnostics |-> BOOLEAN, kvp_filter |-> {"unset", "info", "invalid"},
            imds |-> {"positive", "negative"}, wireserver |-> {"positive", "zero", "negative"},
            query_sshd_config |-> BOOLEAN, authorized_keys_path |-> {".ssh/authorized_keys", "keys"}]

Toml(file) == [toml |-> TRUE, file |-> file]
Other(file) == [toml |-> FALSE, file |-> file]
Mistyped == File([imds |-> "wrong"])
Negative == File([imds |-> "negative"])
Filter(text) == File([kvp_filter |-> text])

(* Files that speak of the same settings, of others, and of what is no     *)
(* setting; that are broken, or mistyped and overridden or not.            *)
MCBases == {Missing, IsFile(Mistyped), IsFile(File([wireserver |-> "negative", misspelled |-> "x"])),
            IsFile(Filter("info"))}
MCDropins == {Missing, IsDir(1 :> Toml(Negative) @@ 2 :> Toml(File([imds |-> "positive"]))),
              IsDir(1 :> Other(Broken) @@ 2 :> Toml(File([query_sshd_config |-> FALSE, wireserver |-> "zero"]))), Unreadable}
MCClis == {Missing, IsFile(Filter("invalid")), IsFile(Broken),
           IsDir(1 :> Toml(File([kvp_diagnostics |-> FALSE])) @@ 2 :> Toml(Negative)),
           IsFile(File([authorized_keys_path |-> "keys", wireserver |-> "positive"]))}
MCSources == [base : MCBases, dropin : MCDropins, cli : MCClis]

MCBytes == <<1, 2, 3, 4, 5, 6, 7, 8, 9, 10, 11, 12, 13, 14, 15, 16>>
Text(form, letters, space) ==
    [form |-> form, bytes |-> MCBytes, letters |-> letters, space |-> space]
Dmi(text, efi) == [read |-> TRUE, text |-> text, efi |-> efi]
MCDmis == {
    [read |-> FALSE, text |-> None, efi |-> {}],
    Dmi(Text("hyphenated", "upper", TRUE), {}), Dmi(Text("hyphenated", "lower", FALSE), {}),
    Dmi(Text("hyphenated", "upper", TRUE), {"dev"}), Dmi(Text("hyphenated", "lower", FALSE), {"sysfs"}),
    Dmi(Text("other", "upper", FALSE), {})}

MCLogTexts == {"invalid", "blank"}
MCKvpTexts == {"unset", "blank", "invalid", "error"}
MCShows == [blank |-> {"error"}, error |-> {"error"}, info |-> Event,
            default |-> {"report", "status", "warning", "error"}]

Keyword(keyword, words) == [keyword |-> keyword, words |-> words]
MCSshds == {
    [succeeds |-> TRUE, reads |-> {"keys1", "keys2"},
     lines |-> <<Keyword("authorizedkeyscommand", <<"none">>), Keyword("authorizedkeysfile", <<"keys1", "keys2">>)>>],
    [succeeds |-> TRUE, reads |-> {}, lines |-> <<Keyword("authorizedkeysfile", <<"%u">>)>>],
    [succeeds |-> FALSE, reads |-> {"keys1"}, lines |-> <<>>]}
=============================================================================
