------------------------------ MODULE DagCheck ------------------------------
(***************************************************************************)
(* check_dag: the validation of a DAG before the scheduler takes it          *)
(* (check_dag.rs).  It adds the groups, adds the provided files, visits what  *)
(* can be reached and looks for what was not.  The maps of the DAG are        *)
(* iterated in any order.                                                     *)
(***************************************************************************)
EXTENDS Naturals, FiniteSets

CONSTANTS
    Group, File,
    Slot,       \* the positions in the list ExecutionGroup::dependencies
    Dags,       \* the DAGs to be checked
    None

Inputs(d, g)   == {d.dependencies[g][s] : s \in Slot} \ {None}

Dag == [dependencies : [Group -> [Slot -> File \cup {None}]],
        outputs      : [Group -> SUBSET File],
        provided     : SUBSET File,
        invalid      : SUBSET Group,   \* no executions, or the same FIFO or output twice
        watched      : SUBSET File,    \* callbacks on files
        unknown      : BOOLEAN]        \* a callback on an execution that is not there

ASSUME DagAssumption ==
    /\ IsFiniteSet(Slot) /\ None \notin File
    /\ Dags \subseteq Dag

VARIABLES
    dag,
    todo_groups, todo_files,   \* what the first two loops have not got to
    num_dependencies,
    known_files,
    ready_groups, ready_files,
    drained,                   \* history: the files that have been visited
    verdict                    \* none, Ok, or the error

vars == <<dag, todo_groups, todo_files, num_dependencies, known_files, ready_groups,
          ready_files, drained, verdict>>

Init ==
    /\ dag \in Dags
    /\ todo_groups = Group /\ todo_files = dag.provided
    /\ num_dependencies = [g \in Group |-> 0]
    /\ known_files = {} /\ ready_groups = {} /\ ready_files = {} /\ drained = {}
    /\ verdict = "none"

Reject(e) ==
    /\ verdict' = e
    /\ UNCHANGED <<dag, todo_groups, todo_files, num_dependencies, known_files, ready_groups,
                   ready_files, drained>>

(* A file that is used twice by a group counts twice. *)
Uses(d, g, F) == {s \in Slot : d.dependencies[g][s] \in F}
CountSlots(d, g)  == Cardinality(Slot)
CountInputs(d, g) == Cardinality(Uses(d, g, File))

-----------------------------------------------------------------------------
(* "add the executions and check for duplicated UUIDs" *)

AddGroup(g) ==
    /\ verdict = "none" /\ g \in todo_groups
    /\ g \notin dag.invalid /\ dag.outputs[g] \cap known_files = {}
    /\ todo_groups' = todo_groups \ {g}
    /\ known_files' = known_files \cup dag.outputs[g]
    /\ num_dependencies' = [num_dependencies EXCEPT ![g] = CountInputs(dag, g)]
    /\ ready_groups' = IF CountInputs(dag, g) = 0 THEN ready_groups \cup {g} ELSE ready_groups
    /\ UNCHANGED <<dag, todo_files, ready_files, drained, verdict>>

RejectGroup(g) ==
    /\ verdict = "none" /\ g \in todo_groups
    /\ \/ g \in dag.invalid /\ Reject("InvalidGroup")
       \/ g \notin dag.invalid /\ dag.outputs[g] \cap known_files # {} /\ Reject("DuplicateFile")

(* "add the provided files" *)
AddAnyFile(f) ==
    /\ verdict = "none" /\ todo_groups = {} /\ f \in todo_files
    /\ todo_files' = todo_files \ {f}
    /\ known_files' = known_files \cup {f}
    /\ ready_files' = ready_files \cup {f}
    /\ UNCHANGED <<dag, todo_groups, num_dependencies, ready_groups, drained, verdict>>
AddFile(f) ==
    /\ verdict = "none" /\ todo_groups = {} /\ f \in todo_files
    /\ f \notin known_files
    /\ todo_files' = todo_files \ {f}
    /\ known_files' = known_files \cup {f}
    /\ ready_files' = ready_files \cup {f}
    /\ UNCHANGED <<dag, todo_groups, num_dependencies, ready_groups, drained, verdict>>

RejectFile(f) ==
    /\ verdict = "none" /\ todo_groups = {} /\ f \in todo_files
    /\ f \in known_files
    /\ Reject("DuplicateFile")

-----------------------------------------------------------------------------
(* "visit the DAG for finding the unreachable executions / cycles" *)

Added   == verdict = "none" /\ todo_groups = {} /\ todo_files = {}
Visited == ready_groups = {} /\ ready_files = {}

(* One turn of the loop drains the files and then the groups, those that have     *)
(* just become ready too.                                                         *)
Decremented == [g \in Group |-> num_dependencies[g] - Cardinality(Uses(dag, g, ready_files))]
NowReady == ready_groups \cup {g \in Group : num_dependencies[g] # 0 /\ Decremented[g] = 0}

Visit ==
    /\ Added /\ ~Visited
    /\ num_dependencies' = Decremented
    /\ drained' = drained \cup ready_files
    /\ ready_groups' = {}
    /\ ready_files' = UNION {dag.outputs[g] : g \in NowReady}
    /\ UNCHANGED <<dag, todo_groups, todo_files, known_files, verdict>>

-----------------------------------------------------------------------------
(* "search for unreachable execution / cycles", and the callbacks *)

Unreached == {g \in Group : num_dependencies[g] # 0}

(* The verdict is about the first group that was not reached. *)
RejectUnreached(g) ==
    /\ Added /\ Visited /\ g \in Unreached
    /\ Reject(IF Inputs(dag, g) \subseteq known_files THEN "Cycle" ELSE "MissingFile")

RejectCallback ==
    /\ Added /\ Visited /\ Unreached = {}
    /\ \/ ~(dag.watched \subseteq known_files) /\ Reject("MissingFile")
       \/ dag.watched \subseteq known_files /\ dag.unknown /\ Reject("MissingExecution")

Accept ==
    /\ Added /\ Visited /\ Unreached = {}
    /\ dag.watched \subseteq known_files /\ ~dag.unknown
    /\ Reject("Ok")

Next ==
    \/ \E g \in Group : AddGroup(g) \/ RejectGroup(g) \/ RejectUnreached(g)
    \/ \E f \in File : AddFile(f) \/ RejectFile(f)
    \/ Visit \/ RejectCallback \/ Accept

Spec == Init /\ [][Next]_vars

-----------------------------------------------------------------------------
(* What a DAG is *)

AllFiles(d) == d.provided \cup UNION {d.outputs[g] : g \in Group}

(* Each file comes from one place. *)
OneSource(d) ==
    /\ \A g, h \in Group : g # h => d.outputs[g] \cap d.outputs[h] = {}
    /\ \A g \in Group : d.outputs[g] \cap d.provided = {}

(* No set of groups waits for itself. *)
WaitsForItself(d, S) == \A g \in S : \E h \in S : Inputs(d, g) \cap d.outputs[h] # {}
Acyclic(d) == \A S \in SUBSET Group : WaitsForItself(d, S) => S = {}

WellFormed(d) ==
    /\ d.invalid = {} /\ OneSource(d) /\ Acyclic(d)
    /\ \A g \in Group : Inputs(d, g) \subseteq AllFiles(d)
    /\ d.watched \subseteq AllFiles(d) /\ ~d.unknown

-----------------------------------------------------------------------------
(* Properties *)

TypeOK ==
    /\ dag \in Dag
    /\ todo_groups \subseteq Group /\ todo_files \subseteq File
    /\ num_dependencies \in [Group -> Nat]
    /\ known_files \subseteq File /\ ready_groups \subseteq Group
    /\ ready_files \subseteq File /\ drained \subseteq File
    /\ verdict \in {"none", "Ok", "InvalidGroup", "DuplicateFile", "Cycle", "MissingFile", "MissingExecution"}

(* "Validate the DAG checking if all the required pieces are present and they     *)
(* actually make a DAG": what check_dag accepts is what Scheduler.tla assumes.    *)
AcceptsOnlyDags == verdict = "Ok" => WellFormed(dag)

(* And it accepts all of it: a client's good DAG is never refused. *)
RefusesOnlyOthers == verdict \notin {"none", "Ok"} => ~WellFormed(dag)

(* A file is visited once: num_dependencies counts what a group still waits for,  *)
(* and "num_dependencies is going to be negative" never happens.                  *)
CountsWhatIsMissing ==
    \A g \in Group \ todo_groups : num_dependencies[g] = Cardinality(Uses(dag, g, File \ drained))

=============================================================================
