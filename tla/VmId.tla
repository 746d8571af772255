-------------------------------- MODULE VmId --------------------------------
(***************************************************************************)
(* The VM id as azure-init (libazureinit/src/status.rs) and the KVP        *)
(* command line (libazureinit-kvp/src/vm_id.rs) read it, each with code of *)
(* its own.                                                                *)
(***************************************************************************)
EXTENDS Naturals, Sequences, SequencesExt

(* What product_uuid holds: a UUID written with hyphens or without, or     *)
(* other text, with letters of either case and white space around it.      *)
(* An id has this form with "lower" and no white space.                    *)
Spelling == [form : {"hyphenated", "simple", "other", "empty"}, bytes : Seq(Nat),
             letters : {"lower", "upper"}, space : BOOLEAN]

Normal(form, bytes) == [form |-> form, bytes |-> bytes, letters |-> "lower", space |-> FALSE]
None == Normal("empty", <<>>)
ZeroId == Normal("hyphenated", [i \in 1..16 |-> 0])

IsUuid(text) == text.form \in {"hyphenated", "simple"}

trim_to_lowercase(text) == Normal(text.form, text.bytes)

(* is_vm_gen1: neither EFI path exists. *)
is_vm_gen1(dmi) == dmi.efi = {}

(* swap_uuid_to_little_endian: d1, d2 and d3 of four, two and two bytes. *)
swap_uuid_to_little_endian(b) ==
    Reverse(SubSeq(b, 1, 4)) \o Reverse(SubSeq(b, 5, 6)) \o Reverse(SubSeq(b, 7, 8))
        \o SubSeq(b, 9, 16)

(* Mutation: the text is compared and kept as it was read. *)
status_get_vm_id_AsRead(dmi) ==
    IF ~dmi.read \/ dmi.text.form = "empty" THEN None
    ELSE IF is_vm_gen1(dmi) /\ IsUuid(dmi.text)
    THEN Normal("hyphenated", swap_uuid_to_little_endian(dmi.text.bytes))
    ELSE dmi.text

(* get_vm_id of azure-init. *)
status_get_vm_id(dmi) ==
    LET id == trim_to_lowercase(dmi.text)
    IN  IF ~dmi.read \/ id.form = "empty" THEN None
        ELSE IF is_vm_gen1(dmi) /\ IsUuid(id)
        THEN Normal("hyphenated", swap_uuid_to_little_endian(id.bytes))
        ELSE id

(* get_vm_id of the KVP command line. *)
kvp_get_vm_id(dmi) ==
    LET id == trim_to_lowercase(dmi.text)
    IN  IF ~dmi.read \/ id.form = "empty" THEN None
        ELSE IF ~is_vm_gen1(dmi) \/ ~IsUuid(id) THEN id
        ELSE Normal("hyphenated", swap_uuid_to_little_endian(id.bytes))
=============================================================================
