------------------------------- MODULE CasesGen -------------------------------
(***************************************************************************)
(* The files of an IOI task that list its subtasks and testcases:          *)
(* gen/cases.gen (cases_gen.rs), gen/GEN (gen_gen.rs) and the files of     *)
(* input/ (static_inputs.rs).  A file is a sequence of lines; a parser is  *)
(* the fold of its function for one line.  All give TaskInputEntry's: a    *)
(* subtask, or a testcase of the last subtask.                             *)
(*                                                                         *)
(* A line is a record: cmd, name, words (of a list), args (the values of a *)
(* testcase), path and found (the file it names, and whether it is there), *)
(* score and con (a constraint).  Numbers are integers, NotInt is any      *)
(* other word; scores are in tenths.                                       *)
(***************************************************************************)
EXTENDS Integers, Sequences, FiniteSets, FiniteSetsExt, SequencesExt, TLC

CONSTANTS
    Normal,   \* the normal form (NFKC) of a name
    Refused   \* the normal forms that are no identifiers: "", "-a", "*", ...

NotInt == 999     \* a word that is not an integer
One == 10         \* the unit of the scores

\* A path is n for input/input<n>.txt, or one of these.
Elsewhere == -1   \* a file that is not in input/
Spaced == -2      \* one that is not in input/, with a space in its name

Line(cmd) == [cmd |-> cmd, name |-> "", words |-> <<>>, args |-> <<>>, path |-> Elsewhere,
              found |-> TRUE, score |-> 0, con |-> <<>>]

\* cleanup_subtask_name: the normal form, or "" where it fails.
cleanup_subtask_name(id) == IF Normal[id] \in Refused THEN "" ELSE Normal[id]

Fail(p) == [p EXCEPT !.ok = FALSE]
Put(f, key, value) == (key :> value) @@ f

IsSubtask(e) == e.kind = "subtask"
IsTestcase(e) == e.kind = "testcase"
LastIsSubtask(p) == p.result # <<>> /\ IsSubtask(Last(p.result))
TestcaseId(p) == Len(SelectSeq(p.result, IsTestcase))
SubtaskId(p) == Len(SelectSeq(p.result, IsSubtask))

Subtask(id, name, score, validator) ==
    [kind |-> "subtask", id |-> id, name |-> name, max_score |-> score,
     validator |-> validator, dependencies |-> {}]
Testcase(id, generator, args) ==
    [kind |-> "testcase", id |-> id, generator |-> generator, args |-> args, path |-> Elsewhere]

\* A testcase that is a file has no generator.
Static == ""
StaticFile(id, path) == [Testcase(id, Static, <<>>) EXCEPT !.path = path]

-----------------------------------------------------------------------------
(* Constraints.  An operand is a constant (var = "") or a variable; the    *)
(* operators are between the operands.                                     *)

Holds(operator, lhs, rhs) ==
    CASE operator = "<" -> lhs < rhs
      [] operator = "<=" -> lhs <= rhs
      [] operator = "=" -> lhs = rhs
      [] operator = ">" -> lhs > rhs
      [] operator = ">=" -> lhs >= rhs

\* get_val: NotInt if the variable is not defined or not an integer.
get_val(operand, vars) ==
    CASE operand.var = "" -> operand.val
      [] operand.var \in DOMAIN vars -> vars[operand.var]
      [] OTHER -> NotInt

\* Constraint::is_valid, Some(false): a comparison fails before the first
\* operand that has no value.
is_violated(con, vars) ==
    LET val == [i \in DOMAIN con.operands |-> get_val(con.operands[i], vars)]
    IN \E i \in DOMAIN con.operators :
        /\ \A j \in 1..(i + 1) : val[j] # NotInt
        /\ ~Holds(con.operators[i], val[i], val[i + 1])

\* The inequalities of a constraint have the same direction.
SameDirection(con) ==
    ~(\E i, j \in DOMAIN con.operators :
        con.operators[i] \in {"<", "<="} /\ con.operators[j] \in {">", ">="})

-----------------------------------------------------------------------------
(* gen/cases.gen: the commands.                                            *)

NewCasesGen ==
    [ok |-> TRUE, result |-> <<>>, constraints |-> <<>>, subtask_constraints |-> <<>>,
     generators |-> <<>>, validators |-> <<>>, default_generator |-> "",
     default_validator |-> "", current_generator |-> "", subtask_name |-> "",
     names |-> <<>>, deps |-> <<>>]

\* define_gen_val: the first one is the default, unless one has that name.
define_gen_val(p, managers, default, l) ==
    IF ~l.found \/ l.name \in DOMAIN p[managers] THEN Fail(p)
    ELSE [p EXCEPT ![managers] = Put(@, l.name, l.words),
                   ![default] = IF @ = "" \/ l.name = "default" THEN l.name ELSE @]

parse_gen(p, l) ==
    IF SubtaskId(p) = 0 \/ l.name \notin DOMAIN p.generators THEN Fail(p)
    ELSE [p EXCEPT !.current_generator = l.name]

\* get_auto_variables
AutoVariables(p) ==
    {"INPUT", "ST_NUM"} \cup IF p.subtask_name = "" THEN {} ELSE {"ST_NAME"}

\* get_validator fails on a validator, or a variable, that is not known.
ValidatorFails(p, val) ==
    val # "" /\ (val \notin DOMAIN p.validators
                 \/ ~(Range(p.validators[val]) \subseteq AutoVariables(p)))
get_validator(p, val) ==
    [source |-> val,
     args |-> IF val = "" THEN <<>>
              ELSE IF p.validators[val] = <<>> THEN <<"INPUT", "ST_NUM">>
              ELSE p.validators[val]]

parse_val(p, l) ==
    IF SubtaskId(p) = 0 \/ ValidatorFails(p, l.name) \/ ~LastIsSubtask(p) THEN Fail(p)
    ELSE [p EXCEPT !.result[Len(p.result)].validator = get_validator(p, l.name)]

\* A constraint before the first subtask is for all of them.
parse_constraint(p, l) ==
    CASE ~SameDirection(l.con) -> Fail(p)
      [] SameDirection(l.con) /\ SubtaskId(p) = 0 ->
            [p EXCEPT !.constraints = Append(@, l.con)]
      [] OTHER -> [p EXCEPT !.subtask_constraints[SubtaskId(p)] = Append(@, l.con)]

\* The generator goes back to the default one; the validator is the default
\* one, with the number and the name of the new subtask.
parse_subtask(p, l) ==
    LET id == SubtaskId(p)
        q == [p EXCEPT !.current_generator = p.default_generator,
                       !.subtask_constraints = Append(@, <<>>),
                       !.subtask_name = l.name,
                       !.names = IF l.name = "" THEN @ ELSE Put(@, l.name, id)]
    IN IF l.name \in DOMAIN p.names \/ ValidatorFails(q, q.default_validator) THEN Fail(q)
       ELSE [q EXCEPT !.result = Append(@,
                Subtask(id, l.name, l.score, get_validator(q, q.default_validator)))]

parse_st_dep(p, l) ==
    CASE l.words = <<>> -> p
      [] l.words # <<>> /\ ~LastIsSubtask(p) -> Fail(p)
      [] l.words # <<>> /\ LastIsSubtask(p) ->
            LET id == Last(p.result).id
                old == IF id \in DOMAIN p.deps THEN p.deps[id] ELSE {}
            IN [p EXCEPT !.deps = Put(@, id, old \cup Range(l.words))]

parse_copy(p, l) ==
    IF SubtaskId(p) = 0 \/ ~l.found THEN Fail(p)
    ELSE [p EXCEPT !.result = Append(@, StaticFile(TestcaseId(p), l.path))]

\* get_variables: the values of the generator's arguments (the automatic
\* ones are not integers, but for ST_NUM).
get_variables(p, generator, args) ==
    LET names == p.generators[generator]
        given == {i \in DOMAIN names : i <= Len(args)}
    IN [v \in {names[i] : i \in given} |-> args[Max({i \in given : names[i] = v})]]
        @@ ("ST_NUM" :> SubtaskId(p) - 1)

\* Those of the subtask are forgotten.
ConstraintsForAll(p) == Range(p.constraints)

\* The constraints that a testcase has to satisfy where it is.
ConstraintsFor(p) == Range(p.constraints) \cup Range(Last(p.subtask_constraints))

parse_testcase(p, args, generator) ==
    IF \/ SubtaskId(p) = 0 \/ generator = "" \/ generator \notin DOMAIN p.generators
       \/ \E con \in ConstraintsFor(p) : is_violated(con, get_variables(p, generator, args))
    THEN Fail(p)
    ELSE [p EXCEPT !.result = Append(@, Testcase(TestcaseId(p), generator, args))]

parse_run(p, l) == parse_testcase(p, l.args, l.name)

parse_command(p, l) ==
    CASE ~p.ok \/ l.cmd = "comment" -> p
      [] p.ok /\ l.cmd = "GEN path" -> define_gen_val(p, "generators", "default_generator", l)
      [] p.ok /\ l.cmd = "VAL path" -> define_gen_val(p, "validators", "default_validator", l)
      [] p.ok /\ l.cmd = "GEN" -> parse_gen(p, l)
      [] p.ok /\ l.cmd = "VAL" -> parse_val(p, l)
      [] p.ok /\ l.cmd = "CONSTRAINT" -> parse_constraint(p, l)
      [] p.ok /\ l.cmd = "SUBTASK" -> parse_subtask(p, l)
      [] p.ok /\ l.cmd = "STDEP" -> parse_st_dep(p, l)
      [] p.ok /\ l.cmd = "COPY" -> parse_copy(p, l)
      [] p.ok /\ l.cmd = "RUN" -> parse_run(p, l)
      [] p.ok /\ l.cmd = "testcase" -> parse_testcase(p, l.args, p.current_generator)

-----------------------------------------------------------------------------
(* The names of the dependencies are looked up at the end of a file.       *)

UnknownDep(p) ==
    \E id \in DOMAIN p.deps : ~(p.deps[id] \subseteq DOMAIN p.names \cup {"*"})

\* "*" is every subtask.
DepsOf(p, id) ==
    CASE id \notin DOMAIN p.deps -> {}
      [] id \in DOMAIN p.deps /\ "*" \in p.deps[id] -> 0..(SubtaskId(p) - 1)
      [] OTHER -> {p.names[d] : d \in p.deps[id]}

ResolveDeps(p) ==
    IF ~p.ok \/ UnknownDep(p) THEN Fail(p)
    ELSE LET resolved(e) ==
                IF IsSubtask(e) THEN [e EXCEPT !.dependencies = DepsOf(p, e.id)] ELSE e
         IN [p EXCEPT !.result = [i \in DOMAIN @ |-> resolved(@[i])]]

\* CasesGen::new
ParseCases(file) == ResolveDeps(FoldLeft(parse_command, NewCasesGen, file))

-----------------------------------------------------------------------------
(* gen/GEN.                                                                *)

NewGen(found, validator, outputs) ==
    [ok |-> found, result |-> <<>>, default |-> TRUE, validator |-> validator,
     outputs |-> outputs, names |-> <<>>, deps |-> <<>>]

\* A testcase before any subtask is in a default one.
WithDefault(p) ==
    IF p.default
    THEN [p EXCEPT !.default = FALSE,
                   !.result = Append(@, Subtask(0, "", 100 * One, p.validator))]
    ELSE p

\* The name of the last subtask, once.
parse_subtask_name(p, l) ==
    LET name == cleanup_subtask_name(l.name)
    IN IF \/ ~LastIsSubtask(p) \/ name = ""
          \/ Last(p.result).name # "" \/ name \in DOMAIN p.names
       THEN Fail(p)
       ELSE [p EXCEPT !.result[Len(p.result)].name = name,
                      !.names = Put(@, name, Last(p.result).id)]

\* The grammar has digits only for a score, and one word for a path.
OutOfGrammar(l) ==
    \/ l.cmd = "ST" /\ l.score % One # 0
    \/ l.cmd = "COPY" /\ l.path = Spaced

parse_line(p, l) ==
    CASE ~p.ok \/ l.cmd = "comment" -> p
      [] p.ok /\ OutOfGrammar(l) -> Fail(p)
      [] p.ok /\ ~OutOfGrammar(l) /\ l.cmd = "ST" ->
            [p EXCEPT !.default = FALSE,
                      !.result = Append(@, Subtask(SubtaskId(p), "", l.score, p.validator))]
      [] p.ok /\ l.cmd = "STNAME" -> parse_subtask_name(p, l)
      [] p.ok /\ l.cmd = "STDEP" -> IF LastIsSubtask(p) THEN parse_st_dep(p, l) ELSE Fail(p)
      [] p.ok /\ ~OutOfGrammar(l) /\ l.cmd = "COPY" ->
            LET q == WithDefault(p)
            IN [q EXCEPT !.result = Append(@, StaticFile(TestcaseId(q), l.path))]
      [] p.ok /\ l.cmd = "command" /\ p.outputs = "static" -> Fail(p)
      [] p.ok /\ l.cmd = "command" /\ p.outputs # "static" ->
            LET q == WithDefault(p)
            IN [q EXCEPT !.result = Append(@, Testcase(TestcaseId(q), "generator", l.args))]

\* parse_gen_gen; found: there is one generator.  An input cannot be generated
\* if the outputs are files.
parse_gen_gen(file, found, validator, outputs) ==
    ResolveDeps(FoldLeft(parse_line, NewGen(found, validator, outputs), file))

\* The names are left out.
write_no_names(entries) ==
    [i \in DOMAIN entries |->
        IF IsSubtask(entries[i]) THEN [Line("ST") EXCEPT !.score = entries[i].max_score]
        ELSE Line("COPY")]

\* write_gen_gen: the lines of the GEN that goes with the entries of a
\* cases.gen, but for the comments.  A score is written as it is, with its
\* decimals if it has any, and a path with its spaces.
write_gen_gen(entries) ==
    LET lines(e) ==
            CASE IsSubtask(e) ->
                    <<[Line("ST") EXCEPT !.score = e.max_score]>>
                        \o IF e.name = "" THEN <<>>
                           ELSE <<[Line("STNAME") EXCEPT !.name = e.name]>>
              [] IsTestcase(e) /\ e.generator = Static ->
                    <<[Line("COPY") EXCEPT !.path = e.path]>>
              [] OTHER -> <<[Line("command") EXCEPT !.name = e.generator, !.args = e.args]>>
    IN FlattenSeq([i \in DOMAIN entries |-> lines(entries[i])])

-----------------------------------------------------------------------------
\* static_inputs: one subtask with the files input0.txt, input1.txt, ... up to
\* the first that is missing.
static_inputs(inputs, validator) ==
    LET count == Min({i \in 0..(Cardinality(inputs) + 1) : i \notin inputs})
    IN <<Subtask(0, "static-testcases", 100 * One, validator)>>
        \o [i \in 1..count |-> StaticFile(i - 1, i - 1)]
=============================================================================
