------------------------------ MODULE TerryTask ------------------------------
(***************************************************************************)
(* Tasks in the Terry format: for each solution an input is generated,     *)
(* validated if there is a validator, solved and checked, and the checker  *)
(* prints the outcome.  The managers may run the official solution.  The   *)
(* sanity check FuzzChecker adds a generation and a check for each bad     *)
(* output.                                                                 *)
(*                                                                         *)
(* A task is a record: validator and official (whether they are there),    *)
(* compiled (the source files that need a compilation), bad_outputs,       *)
(* solutions.                                                              *)
(***************************************************************************)
EXTENDS IoiTask

\* include_official_solution
IncludeOfficial(t) == IF t.official THEN prepare(t, "official") ELSE {}

\* InputGenerator::generate
TerryGenerateInputs(t) == prepare(t, "generator") \cup IncludeOfficial(t)

\* InputValidator::validate
TerryValidateInputs(t, s) ==
    prepare(t, "validator") \cup IncludeOfficial(t) \cup {<<"generate", s>>}

\* The validation is not waited for.
TerrySolveAtOnce(t, s) == prepare(t, s) \cup {<<"generate", s>>}

\* Solution::solve
TerrySolveInputs(t, s) ==
    prepare(t, s) \cup {<<"generate", s>>}
        \cup IF t.validator THEN {<<"validate", s>>} ELSE {}

\* Checker::check
TerryCheckInputs(t, s) ==
    prepare(t, "checker") \cup IncludeOfficial(t)
        \cup {<<"generate", s>>, <<"solve", s>>}

\* FuzzChecker::pre_hook: an input of its own, and the bad outputs.
FuzzInputs(t, g) ==
    IF g[1] = "fuzz_generate" THEN TerryGenerateInputs(t)
    ELSE prepare(t, "checker") \cup IncludeOfficial(t) \cup {<<"fuzz_generate", "seed">>}

TerryInputs(t, g) ==
    CASE g[1] = "compile" -> {}
      [] g[1] = "generate" -> TerryGenerateInputs(t)
      [] g[1] = "validate" -> TerryValidateInputs(t, g[2])
      [] g[1] = "solve" -> TerrySolveInputs(t, g[2])
      [] g[1] = "check" -> TerryCheckInputs(t, g[2])
      [] g[1] \in {"fuzz_generate", "fuzz_check"} -> FuzzInputs(t, g)

\* TerryTask::build_dag, with the pre-hooks of the sanity checks.
TerryGroups(t) ==
    LET steps == {"generate", "solve", "check"} \cup IF t.validator THEN {"validate"} ELSE {}
        fuzz == IF t.bad_outputs = {} THEN {}
                ELSE {<<"fuzz_generate", "seed">>} \cup {<<"fuzz_check", o>> : o \in t.bad_outputs}
        runs == (steps \X t.solutions) \cup fuzz
    IN runs \cup UNION {TerryInputs(t, g) : g \in runs}

\* ValidatorPresent
TerrySanity(t) == IF t.validator THEN {} ELSE {<<"validator", "not present">>}

\* UIState::new and the messages of build_dag.
NewTerryState(t) ==
    [compilations |-> [f \in t.compiled |-> "Pending"],
     solutions |-> [s \in t.solutions |-> [status |-> "Pending", outcome |-> Unscored]],
     diagnostics |-> TerrySanity(t)]

\* A skipped execution always shows.
process_step_skip(old, status, res, start_status, ok_status) ==
    CASE status = "started" -> start_status
      [] status = "done" -> IF AllGood(res) THEN ok_status ELSE "Failed"
      [] status = "skipped" -> "Skipped"

\* The macro process_step!
process_step(old, status, res, start_status, ok_status) ==
    CASE status = "started" -> start_status
      [] status = "done" -> IF AllGood(res) THEN ok_status ELSE "Failed"
      [] status = "skipped" -> SkippedUnlessFailed(old)

\* UIState::apply on the message of a group; the executions of FuzzChecker
\* send none.
TerryApply(t, u, g, status, res) ==
    CASE g[1] = "compile" -> [u EXCEPT !.compilations[g[2]] = apply_status(status, res)]
      [] g[1] = "generate" -> [u EXCEPT !.solutions[g[2]].status =
            process_step(@, status, res, "Generating", "Generated")]
      [] g[1] = "validate" -> [u EXCEPT !.solutions[g[2]].status =
            process_step(@, status, res, "Validating", "Validated")]
      [] g[1] = "solve" -> [u EXCEPT !.solutions[g[2]].status =
            process_step(@, status, res, "Solving", "Solved")]
      [] g[1] = "check" -> [u EXCEPT !.solutions[g[2]].status =
            process_step(@, status, res, "Checking", "Done")]
      [] OTHER -> u

\* The callback of Checker::check parses what the checker printed, whether it
\* failed or not; a failure of FuzzChecker's executions is a diagnostic.
TerryDone(t, u, g, res, out) ==
    CASE g[1] = "check" -> [u EXCEPT !.solutions[g[2]].outcome = out]
      [] \/ g[1] \in {"compile", "fuzz_generate", "fuzz_check"} /\ ~AllGood(res)
         \/ g[1] = "fuzz_check" /\ out = Invalid -> [u EXCEPT !.diagnostics = @ \cup {g}]
      [] OTHER -> u
=============================================================================
