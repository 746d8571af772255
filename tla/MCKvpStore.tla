----------------------------- MODULE MCKvpStore -----------------------------
(* Values of KvpStore's constants for TLC. *)
EXTENDS KvpStoreRefinement, TLC

CONSTANTS MaxInitial  \* bound: records in the initial pool

MCInitialPools == UNION {[1..n -> Record] : n \in 0..MaxInitial}

(* The empty list and every list of two records with different values. *)
MCBatches ==
    {<<>>} \cup {b \in [1..2 -> Record] : b[1].value # b[2].value}

MCSymmetry == Permutations(Key) \cup Permutations(Value) \cup Permutations(Proc)
=============================================================================
