----------------------------- MODULE SshdConfig -----------------------------
(***************************************************************************)
(* update_sshd_config (libazureinit/src/provision/ssh.rs): the lines of an *)
(* sshd configuration file that speak of PasswordAuthentication, what      *)
(* azure-init makes of them, and which of them sshd obeys.                 *)
(***************************************************************************)
EXTENDS Naturals, Sequences

(* The kinds of line the code and sshd tell apart:                         *)
(*   plain      PasswordAuthentication yes                                 *)
(*   commented  # PasswordAuthentication yes                               *)
(*   marked     PasswordAuthentication yes # added by azure-init           *)
(*   other      any other line that sshd reads                             *)
(*   broken     the first part of a line, which sshd cannot read           *)
(*   glued      a line with a setting written on behind it                 *)
(* The set of the last three is of no account.  eol: the line ends in a    *)
(* newline, as all but the last do.  Match blocks and Include are not      *)
(* modelled: every line is one of the global section.                      *)
Line == [kind : {"plain", "commented", "marked", "other", "broken", "glued"},
         set : {"yes", "no"}, eol : BOOLEAN]

(* Mutation: a Boolean where sshd wants yes or no. *)
Setting_Bool(disable) == IF disable THEN "false" ELSE "true"

Setting(disable) == IF disable THEN "no" ELSE "yes"

Plain(set)  == [kind |-> "plain", set |-> set, eol |-> TRUE]
Marked(set) == [kind |-> "marked", set |-> set, eol |-> TRUE]
BrokenLine  == [kind |-> "broken", set |-> "no", eol |-> FALSE]

(* PASSWORD_REGEX: the whole line is the setting, commented out or not; a  *)
(* comment behind the setting, as azure-init writes it, does not match.    *)
Matched(line) == line.kind \in {"plain", "commented"}

HasMatch(file) == \E i \in DOMAIN file : Matched(file[i])

(* replace_all *)
Replaced(file, set) ==
    [i \in DOMAIN file |-> IF Matched(file[i]) THEN Marked(set) ELSE file[i]]

Unended(file) == file # <<>> /\ ~file[Len(file)].eol

(* What the last line becomes when a line is written on behind it: one     *)
(* that ends in azure-init's comment makes it part of the comment.         *)
Glued(last, eol) ==
    [kind |-> IF last.kind = "marked" THEN "marked" ELSE "glued", set |-> last.set, eol |-> eol]

(* write_all at the end of the file: whether the last line is ended is not *)
(* looked at.                                                              *)
Written(file, line) ==
    IF Unended(file)
    THEN [file EXCEPT ![Len(file)] = Glued(file[Len(file)], line.eol)]
    ELSE Append(file, line)

Appended(file, set) == Written(file, Marked(set))

(* A line of which a failed write left the first part.  One of azure-init  *)
(* that is cut before its comment is a plain setting.                      *)
CutLine(line) ==
    {[kind |-> line.kind, set |-> line.set, eol |-> FALSE], BrokenLine}
    \cup (IF line.kind = "marked"
          THEN {[kind |-> "plain", set |-> line.set, eol |-> FALSE]} ELSE {})

(* What a failed write_all leaves of a file that was empty. *)
Cuts(file) ==
    {SubSeq(file, 1, n) : n \in 0..(Len(file) - 1)}
    \cup UNION {{Append(SubSeq(file, 1, n - 1), line) : line \in CutLine(file[n])}
                   : n \in DOMAIN file}

(* ... and of one it was to add a setting to. *)
AppendCuts(file, set) == {file} \cup {Written(file, line) : line \in CutLine(Marked(set))}

HasBroken(file) == \E i \in DOMAIN file : file[i].kind = "broken"
HasGlued(file)  == \E i \in DOMAIN file : file[i].kind = "glued"

(* sshd takes the first value it reads, and no file with a line it cannot  *)
(* read.  What it makes of a glued line is open.                           *)
Active(file) == {i \in DOMAIN file : file[i].kind \in {"plain", "marked"}}

Effective(file) ==
    IF HasBroken(file) THEN "refused"
    ELSE IF Active(file) = {} THEN "default"
    ELSE file[CHOOSE i \in Active(file) : \A j \in Active(file) : i <= j].set

-----------------------------------------------------------------------------
(* Lines of `sshd -G`: a keyword and the words behind it. *)

(* extract_authorized_keys_file_path: the first word of the first line that *)
(* has one; patterns such as %u stay as they are.                          *)
extract_authorized_keys_file_path(lines) ==
    LET found == {i \in DOMAIN lines : lines[i].keyword = "authorizedkeysfile" /\ lines[i].words # <<>>}
    IN  IF found = {} THEN "none" ELSE lines[CHOOSE i \in found : \A j \in found : i <= j].words[1]

(* provision_ssh: the file the keys go to; sshd is asked if the            *)
(* configuration says so, and the configured path is used if sshd does not *)
(* answer.                                                                 *)
authorized_keys_path(query, sshd, configured) ==
    LET path == extract_authorized_keys_file_path(sshd.lines)
    IN  IF query /\ sshd.succeeds /\ path # "none" THEN path ELSE configured
=============================================================================
