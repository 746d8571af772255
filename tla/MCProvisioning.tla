--------------------------- MODULE MCProvisioning ---------------------------
(* Values of Provisioning's constants for TLC. *)
EXTENDS Provisioning

CONSTANTS v1, v2, u1, u2, h1, h2, k1, k2

(* Two VMs that differ in everything but the password setting. *)
MCMeta ==
    [v \in Vm |-> IF v = v1
        THEN [user |-> u1, host |-> h1, disable |-> TRUE, keys |-> {k1, k2}]
        ELSE [user |-> u2, host |-> h2, disable |-> TRUE, keys |-> {}]]

(* Two VMs that share a user and differ in keys and password setting. *)
MCMetaSshd ==
    [v \in Vm |-> [user |-> u1, host |-> h1, disable |-> v = v1, keys |-> {k1}]]

OtherLine(eol) == [kind |-> "other", set |-> "yes", eol |-> eol]

(* Files as distributions and administrators write them, one of an image   *)
(* taken from a VM that azure-init had configured, and one that does not   *)
(* end in a newline.                                                       *)
MCSshd ==
    {<<>>, <<[kind |-> "commented", set |-> "no", eol |-> TRUE], OtherLine(TRUE)>>,
     <<Marked("no"), Plain("yes")>>, <<OtherLine(FALSE)>>}

(* A file that says nothing of passwords, and one that also lacks the      *)
(* newline at its end.                                                     *)
MCSshdOther   == {<<OtherLine(TRUE)>>}
MCSshdUnended == {<<OtherLine(FALSE)>>}

(* One image. *)
MCSshdOne == {<<Plain("yes")>>}
=============================================================================
