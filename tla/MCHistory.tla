----------------------------- MODULE MCHistory ------------------------------
(***************************************************************************)
(* History for TLC: what the configurations of its runs need.              *)
(***************************************************************************)
EXTENDS History, TLC

\* For the runs whose properties do not mention printed: no action reads it.
WithoutOutput ==
    <<schema, uploads, lastId, now, stored, pc, hasColumn, record, deletions>>

Symmetry == Permutations(Procs) \union Permutations(Urls)
=============================================================================
