------------------------- MODULE KvpStoreRefinement -------------------------
(***************************************************************************)
(* The file seen by a caller who waits for the locks: while a store        *)
(* process is editing, the records it found; otherwise those in the file.  *)
(***************************************************************************)
EXTENDS KvpStore

(* p edits the file step by step and has not finished.  clear and         *)
(* clear_if_stale change it in one system call.                           *)
MidEdit(p) == Counted(p) /\ Writer(p) /\ pc[p] \notin {"done", "full"}

CommittedPool ==
    IF \E p \in Proc : MidEdit(p)
    THEN snap[CHOOSE p \in Proc : MidEdit(p)]
    ELSE pool

CommittedTorn == torn /\ ~\E p \in Proc : MidEdit(p)

Answer(p) ==
    [is   |-> CASE pc[p] = "done" -> "ok" [] pc[p] = "full" -> "full" [] OTHER -> "none",
     recs |-> IF pc[p] = "done" THEN acc[p] ELSE <<>>]

Atomic == INSTANCE KvpAtomicStore
            WITH store <- CommittedPool, ragged <- CommittedTorn,
                 asked <- call, answer <- [p \in Proc |-> Answer(p)]

(* The step-by-step store implements the atomic one: every call takes     *)
(* effect at one instant before it answers, a dump answers with the       *)
(* records of one instant, and a call that fails leaves one of the states *)
(* store.rs documents ("An I/O failure during a write may leave partial   *)
(* changes").                                                             *)
ImplementsAtomicStore == Atomic!Spec

(* What the mapping needs besides IInv and EditInv: between calls nothing  *)
(* is asked, only a dump collects records, and among the operations that   *)
(* have counted the records only an append that is writing one sees the    *)
(* file end in a part of a record.                                         *)
LinkInv ==
    \A p \in Proc :
        /\ pc[p] = "idle" => call[p] = NoCall
        /\ call[p].op \notin Reading => acc[p] = <<>>
        /\ Counted(p) /\ pc[p] # "appending" => ~torn
=============================================================================
