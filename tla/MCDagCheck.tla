----------------------------- MODULE MCDagCheck -----------------------------
(***************************************************************************)
(* All the DAGs, and what is none, of two groups with up to two inputs each   *)
(* and three files.                                                           *)
(***************************************************************************)
EXTENDS DagCheck, TLC

Plain == [dependencies : [Group -> [Slot -> File \cup {None}]], outputs : [Group -> SUBSET File],
          provided : SUBSET File, invalid : {{}}, watched : {{}}, unknown : {FALSE}]

(* A group that is not valid and callbacks, each one alone. *)
Odd == [dependencies : {[g \in Group |-> [s \in Slot |-> None]]}, outputs : [Group -> SUBSET File],
        provided : SUBSET File, invalid : SUBSET Group, watched : SUBSET File, unknown : BOOLEAN]

MCDags == Plain \cup Odd

Symmetry == Permutations(Group) \cup Permutations(File) \cup Permutations(Slot)

=============================================================================
