------------------------------- MODULE GenToml -------------------------------
(***************************************************************************)
(* gen/gen.toml (gen_toml.rs): testcases are in groups, a subtask is a     *)
(* group with a score, and groups include each other.                      *)
(*                                                                         *)
(* A file is a record like DefaultGenConfig with its samples; groups and   *)
(* subtasks are the sequences of its tables, copy is how many files a      *)
(* group copies, and of the arguments of a command only the variables they *)
(* use are kept.  A name that is not given is "", arguments that are not   *)
(* given are <<>>.                                                         *)
(***************************************************************************)
EXTENDS CasesGen

\* SamplesConfig: only how many there are.
Samples(num) == [name |-> "samples", num |-> num]

\* TestCase: only the arguments.
DefaultTestCase == [generator |-> "", args |-> {}, group_name |-> "", repeat |-> 0]

\* GroupConfig
DefaultGroup ==
    [name |-> "", repeat |-> 1, generator |-> "", include |-> {}, copy |-> 0,
     testcases |-> <<>>, constants |-> {}]

\* SubtaskConfig
DefaultSubtask ==
    [score |-> 50 * One, validator |-> "", validator_args |-> <<>>] @@ DefaultGroup

\* GenConfig
DefaultGenConfig ==
    [generator |-> "generator", validator |-> "validator",
     validator_args |-> <<{"FILENAME#", "SUBTASK_NAME#"}>>, samples |-> Samples(0),
     groups |-> <<>>, subtasks |-> <<>>, constants |-> {}]

\* CommandLineArguments::instantiate fails on a variable that is not known.
instantiate_fails(args, variables) == ~(args \subseteq variables)

\* detect_validator and get_generator need one source file, among those found.
detect_validator_fails(found, validator) == found[validator] # 1
get_generator_fails(found, generator) == found[generator] # 1

\* The generator and the arguments of a testcase of a group.
TestcaseFails(toml, found, group, tc) ==
    LET generator == CASE tc.generator # "" -> tc.generator
                       [] tc.generator = "" /\ group.generator # "" -> group.generator
                       [] OTHER -> toml.generator
    IN \/ get_generator_fails(found, generator)
       \/ instantiate_fails(tc.args, toml.constants \cup group.constants \cup {"#"})

\* The validator and its arguments, of the k-th subtask.
SubtaskFails(toml, found, k) ==
    LET st == toml.subtasks[k]
        args == IF st.validator_args = <<>> THEN toml.validator_args ELSE st.validator_args
    IN \/ instantiate_fails(args[1], toml.constants \cup st.constants
                                        \cup {"SUBTASK_NAME#", "FILENAME#"})
       \/ detect_validator_fails(found, IF st.validator = "" THEN toml.validator
                                        ELSE st.validator)

\* GroupConfig::resolve_repeats: the repeat of a testcase wins.
resolve_repeats(group) ==
    FlattenSeq([i \in DOMAIN group.testcases |->
        LET tc == group.testcases[i]
        IN [k \in 1..(IF tc.repeat = 0 THEN group.repeat ELSE tc.repeat) |-> tc]])

\* The testcases of a group, and how it is extended.
Members(p, name) == IF name \in DOMAIN p.tcs THEN p.tcs[name] ELSE <<>>
AddTo(p, name, ids) == [p EXCEPT !.tcs = Put(@, name, Members(p, name) \o ids)]

\* The samples make the first group.
NewGroups(samples) ==
    [ok |-> TRUE, count |-> samples.num,
     tcs |-> samples.name :> [i \in 1..samples.num |-> i - 1],
     include |-> samples.name :> {}]

\* process_testcase: in its group, and in the one it names.
process_testcase(p, name, tc) ==
    LET own == AddTo(p, name, <<p.count>>)
        both == IF tc.group_name = "" THEN own ELSE AddTo(own, tc.group_name, <<p.count>>)
    IN [both EXCEPT !.count = @ + 1]

\* process_group
process_group(p, toml, found, group) ==
    LET name == cleanup_subtask_name(group.name)
        copies == [i \in 1..group.copy |-> p.count + i - 1]
        old == IF name \in DOMAIN p.include THEN p.include[name] ELSE {}
        q == [AddTo(p, name, copies) EXCEPT !.count = @ + group.copy,
                                            !.include = Put(@, name, old \cup group.include)]
        tcs == resolve_repeats(group)
    IN IF \/ ~p.ok \/ name = ""
          \/ \E tc \in Range(tcs) : TestcaseFails(toml, found, group, tc)
       THEN Fail(p)
       ELSE FoldLeft(LAMBDA r, tc : process_testcase(r, name, tc), q, tcs)

\* The groups and then the subtasks, in the order of the file.
ProcessGroups(toml, found) ==
    FoldLeft(LAMBDA p, group : process_group(p, toml, found, group),
             NewGroups(toml.samples), toml.groups \o toml.subtasks)

-----------------------------------------------------------------------------
(* The testcases of the subtasks: a search from each of them, in order.    *)

\* The search for the k-th subtask starts.
NewSearch(toml, k) ==
    [stack |-> {cleanup_subtask_name(toml.subtasks[k].name)}, visited |-> {}, testcases |-> <<>>, owned |-> {}]

\* A testcase that has an owner is owned again.
OwnedAgain(tcs, owners) == tcs

\* The first subtask that uses a testcase owns it (testcases_with_owner).
NewlyOwned(tcs, owners) == tcs \ owners

\* One turn of the loop on a name of the stack (the order in which they are
\* popped only matters for the order of the testcases, which are sorted).
visit(p, s, name, owners) ==
    LET popped == [s EXCEPT !.stack = @ \ {name}, !.visited = @ \cup {name}]
    IN CASE name \in s.visited -> [s EXCEPT !.stack = @ \ {name}]
         [] name \notin s.visited /\ name = "*" ->
                [popped EXCEPT !.stack = @ \cup DOMAIN p.tcs]
         [] OTHER ->
                [popped EXCEPT !.stack = @ \cup p.include[name],
                               !.testcases = @ \o p.tcs[name],
                               !.owned = @ \cup NewlyOwned(Range(p.tcs[name]), owners)]

\* A group with no testcases entry is an error; one that only has testcases
\* that name it has no inclusions, and unwrap panics.
VisitFails(p, s, name) == name \notin s.visited \cup {"*"} /\ name \notin DOMAIN p.tcs
VisitPanics(p, s, name) ==
    name \notin s.visited \cup {"*"} /\ name \in DOMAIN p.tcs /\ name \notin DOMAIN p.include

\* The subtask after its search.
TomlSubtask(toml, k, s) ==
    [id |-> k - 1, name |-> cleanup_subtask_name(toml.subtasks[k].name), max_score |-> toml.subtasks[k].score,
     testcases |-> SortSeq(s.testcases, LAMBDA a, b : a < b), owned |-> s.owned]

\* Every testcase must be used.
Unused(p, owners) == (0..(p.count - 1)) \ owners
=============================================================================
