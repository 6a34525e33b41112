---------------------------- MODULE MCFileStore ----------------------------
(***************************************************************************)
(* Two threads and three files, one bigger than the others; a store that is   *)
(* full with two of them and makes space for one.                             *)
(***************************************************************************)
EXTENDS FileStore, TLC

CONSTANT Big

MCSize == [k \in Key |-> IF k = Big THEN 3 ELSE 1]

Symmetry == Permutations(Thread) \cup Permutations(Key \ {Big})

=============================================================================
