--------------------------- MODULE DagCheckProofs ---------------------------
(***************************************************************************)
(* What check_dag accepts is a DAG and what it refuses is none, for every set *)
(* of groups and files.                                                       *)
(***************************************************************************)
EXTENDS DagCheck, FiniteSetTheorems, TLAPS

(* A group is done when all of its inputs have been visited. *)
Done(g) == Inputs(dag, g) \subseteq drained

(* A file is visited, or about to be, because it was provided or because the     *)
(* group that produces it is done.                                               *)
Seen == drained \cup ready_files
SeenIsProduced ==
    \A f \in Seen : f \in dag.provided \/ \E g \in Group : f \in dag.outputs[g] /\ Done(g)

(* What the two first loops have checked of what they have got to. *)
KnownIsAdded ==
    known_files = (UNION {dag.outputs[g] : g \in Group \ todo_groups}) \cup (dag.provided \ todo_files)
AddedAreDisjoint ==
    /\ \A g \in Group \ todo_groups : g \notin dag.invalid
    /\ \A g, h \in Group \ todo_groups : g # h => dag.outputs[g] \cap dag.outputs[h] = {}
    /\ \A g \in Group \ todo_groups : dag.outputs[g] \cap (dag.provided \ todo_files) = {}

(* The visit starts when they are over, and no file is visited twice. *)
VisitInOrder ==
    /\ todo_files \subseteq dag.provided
    /\ todo_groups # {} => ready_files = {} /\ todo_files = dag.provided
    /\ todo_groups # {} \/ todo_files # {} \/ ready_groups # {} => drained = {} /\ ready_files \subseteq dag.provided \ todo_files
    /\ ready_files \cap drained = {}
    /\ ready_groups \subseteq {g \in Group \ todo_groups : num_dependencies[g] = 0}

(* A set of groups that waits for itself is never entered. *)
NoneDoneInCycle ==
    \A S \in SUBSET Group : WaitsForItself(dag, S) => \A g \in S : ~Done(g)

(* Nothing is forgotten: what was provided and what a done group produces is seen, *)
(* unless the visit has not got to the group.                                      *)
NothingForgotten ==
    /\ dag.provided \subseteq Seen \cup todo_files
    /\ \A g \in Group : Done(g) /\ g \notin todo_groups \cup ready_groups => dag.outputs[g] \subseteq Seen

(* The invariant, before the verdict. *)
IInv ==
    /\ TypeOK
    /\ KnownIsAdded /\ AddedAreDisjoint /\ VisitInOrder
    /\ CountsWhatIsMissing /\ SeenIsProduced /\ NoneDoneInCycle
    /\ NothingForgotten

Inv == /\ dag \in Dag
       /\ verdict = "none" => IInv
       /\ AcceptsOnlyDags /\ RefusesOnlyOthers

-----------------------------------------------------------------------------
(* What a group uses is a finite set of positions. *)
LEMMA UsesFinite ==
    ASSUME NEW d, NEW g, NEW F
    PROVE  /\ IsFiniteSet(Uses(d, g, F))
           /\ Cardinality(Uses(d, g, F)) \in Nat
           /\ Cardinality(Uses(d, g, F)) = 0 <=> Uses(d, g, F) = {}
  BY DagAssumption, FS_Subset, FS_CardinalityType, FS_EmptySet DEF Uses

(* A group waits for nothing when all of its inputs have been visited. *)
LEMMA NothingMissing ==
    ASSUME TypeOK, NEW g \in Group
    PROVE  Uses(dag, g, File \ drained) = {} <=> Done(g)
  BY DagAssumption DEF TypeOK, Dag, Uses, Done, Inputs

-----------------------------------------------------------------------------
(* At the start nothing is known and nothing is visited, and a group of a set   *)
(* that waits for itself has an input.                                          *)
LEMMA InitInv == Init => Inv
<1> SUFFICES ASSUME Init PROVE Inv
  OBVIOUS
<1>1. dag \in Dag /\ TypeOK
  BY DagAssumption DEF Init, TypeOK, Dag
<1>2. NoneDoneInCycle
  BY DEF Init, NoneDoneInCycle, WaitsForItself, Done
<1>3. KnownIsAdded /\ AddedAreDisjoint /\ VisitInOrder /\ CountsWhatIsMissing /\ SeenIsProduced
  BY DEF Init, KnownIsAdded, AddedAreDisjoint, VisitInOrder, CountsWhatIsMissing, SeenIsProduced, Seen
<1>4. NothingForgotten
  BY DEF Init, NothingForgotten
<1> QED  BY <1>1, <1>2, <1>3, <1>4 DEF Inv, IInv, AcceptsOnlyDags, RefusesOnlyOthers, Init

(* A group is added if it shares no output with those before it. *)
LEMMA AddGroupInv ==
    ASSUME IInv, NEW g \in Group, AddGroup(g)
    PROVE  IInv'
<1> USE DEF IInv
<1>0. drained = {} /\ todo_files = dag.provided /\ ready_files = {} /\ todo_groups # {}
  BY DEF VisitInOrder, AddGroup
<1>1. TypeOK'
  BY UsesFinite DEF TypeOK, AddGroup, CountInputs, Dag
<1>2. KnownIsAdded'
  <2>1. Group \ todo_groups' = (Group \ todo_groups) \cup {g}
    BY DEF AddGroup, TypeOK
  <2> QED  BY <2>1 DEF KnownIsAdded, AddGroup
<1>3. AddedAreDisjoint'
  <2>1. \A h \in Group \ todo_groups : dag.outputs[h] \subseteq known_files
    BY DEF KnownIsAdded
  <2>2. \A h \in Group \ todo_groups' : h = g \/ h \in Group \ todo_groups
    BY DEF AddGroup
  <2> QED  BY <1>0, <2>1, <2>2 DEF AddedAreDisjoint, AddGroup
<1>4. CountsWhatIsMissing'
  <2>1. \A h \in Group \ todo_groups' : h = g \/ h \in Group \ todo_groups
    BY DEF AddGroup
  <2>2. File \ drained = File
    BY <1>0
  <2> QED  BY <2>1, <2>2 DEF CountsWhatIsMissing, AddGroup, CountInputs, TypeOK
<1>5. VisitInOrder'
  BY <1>0 DEF VisitInOrder, AddGroup, TypeOK
<1>6. SeenIsProduced' /\ NoneDoneInCycle'
  BY DEF SeenIsProduced, Seen, NoneDoneInCycle, Done, AddGroup
<1>7. NothingForgotten'
  <2>1. ASSUME Done(g) PROVE CountInputs(dag, g) = 0
    <3>1. Uses(dag, g, File) = {}
      <4>1. File \ drained = File
        BY <1>0
      <4> QED  BY <2>1, <4>1, NothingMissing
    <3> QED  BY <3>1, UsesFinite DEF CountInputs, TypeOK
  <2>2. ASSUME NEW h \in Group, Done(h), h \notin todo_groups' \cup ready_groups'
        PROVE  h \notin todo_groups \cup ready_groups
    BY <2>1, <2>2 DEF AddGroup
  <2> QED  BY <2>2 DEF NothingForgotten, Seen, Done, AddGroup
<1> QED  BY <1>1, <1>2, <1>3, <1>4, <1>5, <1>6, <1>7

(* A provided file is added if no group produces it. *)
LEMMA AddFileInv ==
    ASSUME IInv, NEW f \in File, AddFile(f)
    PROVE  IInv'
<1> USE DEF IInv
<1>0. drained = {} /\ todo_groups = {} /\ f \in todo_files /\ f \in dag.provided
  BY DEF VisitInOrder, AddFile
<1>1. TypeOK'
  BY DEF TypeOK, AddFile
<1>2. dag.provided \ todo_files' = (dag.provided \ todo_files) \cup {f}
  BY <1>0 DEF AddFile
<1>3. KnownIsAdded'
  BY <1>2 DEF KnownIsAdded, AddFile
<1>4. AddedAreDisjoint'
  <2>1. \A g \in Group \ todo_groups : f \notin dag.outputs[g]
    BY DEF KnownIsAdded, AddFile
  <2> QED  BY <1>2, <2>1 DEF AddedAreDisjoint, AddFile
<1>5. CountsWhatIsMissing'
  BY DEF CountsWhatIsMissing, AddFile
<1>6. VisitInOrder'
  BY <1>0, <1>2 DEF VisitInOrder, AddFile
<1>7. SeenIsProduced' /\ NoneDoneInCycle'
  BY <1>0 DEF SeenIsProduced, Seen, NoneDoneInCycle, Done, AddFile
<1>8. NothingForgotten'
  BY DEF NothingForgotten, Seen, Done, AddFile
<1> QED  BY <1>1, <1>3, <1>4, <1>5, <1>6, <1>7, <1>8

-----------------------------------------------------------------------------
(* One turn of the visit. *)
LEMMA VisitInv ==
    ASSUME IInv, Visit
    PROVE  IInv'
<1> USE DEF IInv
<1>0. /\ todo_groups = {} /\ todo_files = {} /\ Group \ todo_groups = Group
      /\ dag' = dag /\ todo_groups' = {} /\ todo_files' = {} /\ known_files' = known_files
      /\ drained' = drained \cup ready_files /\ ready_files \cap drained = {}
      /\ verdict' = verdict /\ num_dependencies' = Decremented
  BY DEF Visit, Added, VisitInOrder
<1>1. \A g \in Group : /\ Uses(dag, g, ready_files) \subseteq Uses(dag, g, File \ drained)
                       /\ Uses(dag, g, File \ drained') = Uses(dag, g, File \ drained) \ Uses(dag, g, ready_files)
  BY <1>0 DEF Uses, TypeOK
(* What is subtracted is what was missing. *)
<1>2. \A g \in Group : /\ Decremented[g] = Cardinality(Uses(dag, g, File \ drained'))
                       /\ Decremented[g] \in Nat
  <2> SUFFICES ASSUME NEW g \in Group
               PROVE  /\ Decremented[g] = Cardinality(Uses(dag, g, File \ drained'))
                      /\ Decremented[g] \in Nat
    OBVIOUS
  <2> DEFINE A == Uses(dag, g, File \ drained)
             B == Uses(dag, g, ready_files)
  <2>1. Cardinality(A \ B) = Cardinality(A) - Cardinality(A \cap B)
    BY UsesFinite, FS_Difference
  <2>2. A \cap B = B
    BY <1>1
  <2>3. num_dependencies[g] = Cardinality(A)
    BY <1>0 DEF CountsWhatIsMissing
  <2>4. Decremented[g] = Cardinality(A) - Cardinality(B)
    BY <2>3 DEF Decremented
  <2>5. Decremented[g] = Cardinality(Uses(dag, g, File \ drained'))
    BY <1>1, <2>1, <2>2, <2>4
  <2> QED  BY <2>5, UsesFinite
<1>3. \A g \in Group : /\ num_dependencies[g] = 0 <=> Done(g)
                       /\ Decremented[g] = 0 <=> Done(g)'
  <2> SUFFICES ASSUME NEW g \in Group
               PROVE  /\ num_dependencies[g] = 0 <=> Done(g)
                      /\ Decremented[g] = 0 <=> Done(g)'
    OBVIOUS
  <2>1. num_dependencies[g] = 0 <=> Done(g)
    BY <1>0, UsesFinite, NothingMissing DEF CountsWhatIsMissing
  <2>2. Decremented[g] = 0 <=> Uses(dag, g, File \ drained') = {}
    BY <1>2, UsesFinite
  <2>3. Uses(dag, g, File \ drained') = {} <=> Done(g)'
    BY <1>0, DagAssumption DEF TypeOK, Dag, Uses, Done, Inputs
  <2> QED  BY <2>1, <2>2, <2>3
<1>4. \A g \in NowReady : g \in Group /\ Done(g)'
  BY <1>0, <1>3 DEF NowReady, VisitInOrder, Done, Decremented, Inputs
<1>5. TypeOK'
  <2>1. ready_files' \subseteq File
    BY <1>4 DEF Visit, TypeOK, Dag
  <2>2. num_dependencies' \in [Group -> Nat]
    BY <1>0, <1>2 DEF Decremented
  <2> QED  BY <1>0, <2>1, <2>2 DEF TypeOK, Visit
<1>6. KnownIsAdded' /\ AddedAreDisjoint'
  BY <1>0 DEF KnownIsAdded, AddedAreDisjoint
<1>7. CountsWhatIsMissing'
  BY <1>0, <1>2 DEF CountsWhatIsMissing
<1>8. SeenIsProduced'
  <2>1. \A g \in Group : Done(g) => Done(g)'
    BY <1>0 DEF Done
  <2>2. ASSUME NEW f \in Seen PROVE f \in dag.provided \/ \E g \in Group : f \in dag.outputs[g] /\ Done(g)'
    BY <2>1, <2>2 DEF SeenIsProduced
  <2>3. \A f \in ready_files' : \E g \in Group : f \in dag.outputs[g] /\ Done(g)'
    BY <1>4 DEF Visit
  <2>4. Seen' = Seen \cup ready_files'
    BY <1>0 DEF Seen
  <2> QED  BY <1>0, <2>2, <2>3, <2>4 DEF SeenIsProduced
(* A group that has just become ready has not produced anything before. *)
<1>9. ready_files' \cap drained' = {}
  <2> SUFFICES ASSUME NEW g \in NowReady, NEW f \in dag.outputs[g], f \in Seen PROVE FALSE
    BY <1>0 DEF Visit, Seen
  <2>1. g \in Group /\ f \notin dag.provided
    BY <1>0, <1>4 DEF AddedAreDisjoint
  <2>2. PICK h \in Group : f \in dag.outputs[h] /\ Done(h)
    BY <2>1 DEF SeenIsProduced
  <2>3. h = g
    BY <1>0, <2>1, <2>2 DEF AddedAreDisjoint
  <2>4. g \in ready_groups
    BY <1>3, <2>2, <2>3 DEF NowReady
  <2>5. Seen \subseteq dag.provided
    BY <1>0, <2>4 DEF VisitInOrder, Seen
  <2> QED  BY <2>1, <2>5
<1>10. VisitInOrder'
  BY <1>0, <1>9 DEF VisitInOrder, Visit
(* The input that keeps a group of such a set waiting is produced by another one. *)
<1>11. NoneDoneInCycle'
  <2> SUFFICES ASSUME NEW S \in SUBSET Group, WaitsForItself(dag, S), NEW g \in S, Done(g)'
               PROVE  FALSE
    BY <1>0 DEF NoneDoneInCycle
  <2>1. PICK h \in S : Inputs(dag, g) \cap dag.outputs[h] # {}
    BY DEF WaitsForItself
  <2>2. PICK f \in Inputs(dag, g) : f \in dag.outputs[h]
    BY <2>1
  <2>3. f \in Seen
    BY <1>0, <2>2 DEF Done, Seen
  <2>4. f \notin dag.provided
    BY <1>0, <2>2 DEF AddedAreDisjoint
  <2>5. PICK k \in Group : f \in dag.outputs[k] /\ Done(k)
    BY <2>3, <2>4 DEF SeenIsProduced
  <2>6. k = h
    BY <1>0, <2>2, <2>5 DEF AddedAreDisjoint
  <2> QED  BY <2>5, <2>6 DEF NoneDoneInCycle
(* A group that is done has just become ready, or was done and has been visited. *)
<1>12. NothingForgotten'
  <2>1. Seen' = Seen \cup ready_files'
    BY <1>0 DEF Seen
  <2>2. ASSUME NEW g \in Group, Done(g)' PROVE dag.outputs[g] \subseteq Seen'
    <3>1. CASE g \in NowReady
      BY <2>1, <3>1 DEF Visit
    <3>2. CASE g \notin NowReady
      <4>1. Done(g) /\ g \notin ready_groups
        BY <1>3, <2>2, <3>2 DEF NowReady
      <4> QED  BY <1>0, <2>1, <4>1 DEF NothingForgotten
    <3> QED  BY <3>1, <3>2
  <2> QED  BY <1>0, <2>1, <2>2 DEF NothingForgotten
<1> QED  BY <1>5, <1>6, <1>7, <1>8, <1>10, <1>11, <1>12

-----------------------------------------------------------------------------
(* When everything has been reached, every group is done: its inputs are known, *)
(* and no set of groups waits for itself.                                       *)
LEMMA AcceptedIsDag ==
    ASSUME IInv, Accept
    PROVE  WellFormed(dag)
<1> USE DEF IInv
<1>0. todo_groups = {} /\ todo_files = {} /\ Group \ todo_groups = Group
  BY DEF Accept, Added
<1>1. \A g \in Group : Done(g)
  BY <1>0, UsesFinite, NothingMissing DEF CountsWhatIsMissing, Accept, Unreached
<1>2. known_files = AllFiles(dag)
  BY <1>0 DEF KnownIsAdded, AllFiles
<1>3. \A g \in Group : Inputs(dag, g) \subseteq AllFiles(dag)
  BY <1>1 DEF Done, SeenIsProduced, Seen, AllFiles
<1>4. Acyclic(dag)
  BY <1>1 DEF Acyclic, NoneDoneInCycle
<1>5. OneSource(dag) /\ dag.invalid = {}
  BY <1>0 DEF OneSource, AddedAreDisjoint, TypeOK, Dag
<1> QED  BY <1>2, <1>3, <1>4, <1>5 DEF WellFormed, Accept

(* A group is refused because it is invalid, or produces what another one does. *)
LEMMA RefusedGroup ==
    ASSUME IInv, NEW g \in Group, RejectGroup(g)
    PROVE  ~WellFormed(dag)
<1>1. CASE g \in dag.invalid
  BY <1>1 DEF WellFormed
<1>2. CASE dag.outputs[g] \cap known_files # {}
  <2>1. todo_files = dag.provided /\ g \in todo_groups
    BY DEF IInv, VisitInOrder, RejectGroup
  <2>2. PICK h \in Group \ todo_groups : dag.outputs[g] \cap dag.outputs[h] # {}
    BY <1>2, <2>1 DEF IInv, KnownIsAdded
  <2> QED  BY <2>1, <2>2 DEF WellFormed, OneSource
<1> QED  BY <1>1, <1>2 DEF RejectGroup

(* A provided file is refused because a group produces it. *)
LEMMA RefusedFile ==
    ASSUME IInv, NEW f \in File, RejectFile(f)
    PROVE  ~WellFormed(dag)
<1>1. f \in dag.provided /\ f \in todo_files
  BY DEF IInv, VisitInOrder, RejectFile
<1>2. PICK h \in Group : f \in dag.outputs[h]
  BY <1>1 DEF IInv, KnownIsAdded, RejectFile
<1> QED  BY <1>1, <1>2 DEF WellFormed, OneSource

(* If no input were missing, the groups that were not reached would wait for   *)
(* each other: each waits for a file that is not provided and was not produced. *)
LEMMA RefusedUnreached ==
    ASSUME IInv, NEW g \in Group, RejectUnreached(g)
    PROVE  ~WellFormed(dag)
<1> SUFFICES ASSUME WellFormed(dag) PROVE FALSE
  OBVIOUS
<1>0. /\ todo_groups = {} /\ todo_files = {} /\ ready_groups = {} /\ ready_files = {}
      /\ g \in Unreached /\ Group \ todo_groups = Group
  BY DEF RejectUnreached, Added, Visited
<1>1. \A h \in Group : h \in Unreached <=> ~Done(h)
  BY <1>0, UsesFinite, NothingMissing DEF IInv, CountsWhatIsMissing, Unreached
<1>2. WaitsForItself(dag, Unreached)
  <2> SUFFICES ASSUME NEW h \in Unreached
               PROVE  \E k \in Unreached : Inputs(dag, h) \cap dag.outputs[k] # {}
    BY DEF WaitsForItself
  <2>1. h \in Group /\ ~Done(h)
    BY <1>1 DEF Unreached
  <2>2. PICK f \in Inputs(dag, h) : f \notin drained
    BY <2>1 DEF Done
  <2>3. f \in AllFiles(dag) /\ f \notin dag.provided
    BY <1>0, <2>1, <2>2 DEF WellFormed, IInv, NothingForgotten, Seen
  <2>4. PICK k \in Group : f \in dag.outputs[k]
    BY <2>3 DEF AllFiles
  <2>5. ~Done(k)
    BY <1>0, <2>2, <2>4 DEF IInv, NothingForgotten, Seen
  <2> QED  BY <1>1, <2>2, <2>4, <2>5
<1>3. Unreached \in SUBSET Group
  BY DEF Unreached
<1> QED  BY <1>0, <1>2, <1>3 DEF WellFormed, Acyclic

(* The callbacks are refused because they are about something that is not there. *)
LEMMA RefusedCallback ==
    ASSUME IInv, RejectCallback
    PROVE  ~WellFormed(dag)
<1>1. known_files = AllFiles(dag)
  BY DEF IInv, KnownIsAdded, AllFiles, RejectCallback, Added
<1> QED  BY <1>1 DEF WellFormed, RejectCallback

(* The verdict is right. *)
LEMMA VerdictInv == Spec => []Inv
<1>1. Inv /\ [Next]_vars => Inv'
  <2> SUFFICES ASSUME Inv, [Next]_vars PROVE Inv'
    OBVIOUS
  <2>1. CASE UNCHANGED vars
    <3>1. ASSUME IInv PROVE IInv'
      <4>1. TypeOK' /\ KnownIsAdded' /\ AddedAreDisjoint' /\ VisitInOrder'
        BY <2>1, <3>1 DEF vars, IInv, TypeOK, KnownIsAdded, AddedAreDisjoint, VisitInOrder
      <4>2. CountsWhatIsMissing' /\ SeenIsProduced' /\ NoneDoneInCycle'
        BY <2>1, <3>1 DEF vars, IInv, CountsWhatIsMissing, SeenIsProduced, Seen, NoneDoneInCycle, Done
      <4>3. NothingForgotten'
        BY <2>1, <3>1 DEF vars, IInv, NothingForgotten, Seen, Done
      <4> QED  BY <4>1, <4>2, <4>3 DEF IInv
    <3>2. dag' = dag /\ verdict' = verdict
      BY <2>1 DEF vars
    <3> QED  BY <3>1, <3>2 DEF Inv, AcceptsOnlyDags, RefusesOnlyOthers
  <2>2. ASSUME IInv, IInv', dag' = dag, verdict' = "none" PROVE Inv'
    BY <2>2 DEF Inv, AcceptsOnlyDags, RefusesOnlyOthers
  <2>3. ASSUME NEW g \in Group, AddGroup(g) PROVE Inv'
    BY <2>2, <2>3, AddGroupInv DEF Inv, AddGroup
  <2>4. ASSUME NEW f \in File, AddFile(f) PROVE Inv'
    BY <2>2, <2>4, AddFileInv DEF Inv, AddFile
  <2>5. CASE Visit
    BY <2>2, <2>5, VisitInv DEF Inv, Visit, Added
  <2>6. ASSUME NEW e, Reject(e), e # "none", e = "Ok" <=> WellFormed(dag) PROVE Inv'
    BY <2>6 DEF Inv, Reject, AcceptsOnlyDags, RefusesOnlyOthers
  <2>7. CASE Accept
    BY <2>6, <2>7, AcceptedIsDag DEF Accept, Added, Inv
  <2>8. ASSUME NEW g \in Group, RejectGroup(g) \/ RejectUnreached(g) PROVE Inv'
    BY <2>6, <2>8, RefusedGroup, RefusedUnreached DEF RejectGroup, RejectUnreached, Added, Inv
  <2>9. ASSUME NEW f \in File, RejectFile(f) PROVE Inv'
    BY <2>6, <2>9, RefusedFile DEF RejectFile, Inv
  <2>10. CASE RejectCallback
    BY <2>6, <2>10, RefusedCallback DEF RejectCallback, Added, Inv
  <2> QED  BY <2>1, <2>3, <2>4, <2>5, <2>7, <2>8, <2>9, <2>10 DEF Next
<1> QED  BY InitInv, <1>1, PTL DEF Spec

(* "Validate the DAG checking if all the required pieces are present and they   *)
(* actually make a DAG": for every set of groups and files, a DAG that check_dag *)
(* accepts has one source for each file, no missing files and no cycles.         *)
THEOREM AcceptedAreDags == Spec => []AcceptsOnlyDags
<1>1. Inv => AcceptsOnlyDags
  BY DEF Inv
<1> QED  BY VerdictInv, <1>1, PTL

(* The other direction: whatever the error, a DAG that check_dag refuses has an  *)
(* invalid group, a file from two places, a missing file, a cycle or a callback   *)
(* on something that is not there.                                                *)
THEOREM RefusedAreNoDags == Spec => []RefusesOnlyOthers
<1>1. Inv => RefusesOnlyOthers
  BY DEF Inv
<1> QED  BY VerdictInv, <1>1, PTL

=============================================================================
