------------------------------- MODULE IoiTask -------------------------------
(***************************************************************************)
(* Tasks in the IOI format: the executions build_dag adds for a task, what *)
(* their callbacks make of the results (the ScoreManager of a solution),   *)
(* and how the UI state follows the messages.  The operators take the task *)
(* (t), the state of the UI (u) or of a score manager (m) as arguments;    *)
(* TaskEvaluation is the machine that uses them.                           *)
(*                                                                         *)
(* A task is a record: type ("batch", "communication", "interactive"),     *)
(* checker ("diff" or "custom"), processes of the solution, subtasks (a    *)
(* function to records: testcases, times (how often the list of the        *)
(* testcases has each), owned, max_score, validator), generator            *)
(* and output (for each testcase: "custom", "static", "missing" or         *)
(* "none"), aggregator, compiled (the source files that need a             *)
(* compilation), official (the path of the official solution), solutions,  *)
(* symlinks.                                                               *)
(***************************************************************************)
EXTENDS SolutionChecks

CONSTANTS
    One,          \* the score 1.0; scores are multiples of 1/One
    Tolerance,    \* a score this far from 1.0 is not full (0.001)
    Epsilon       \* the scores that count as no points next to a failure (1e-8)

ASSUME ScoresAssumption ==
    /\ One \in Nat /\ Tolerance \in Nat \ {0} /\ Epsilon \in Nat
    /\ Epsilon + Tolerance <= One

Unscored == -1    \* None
Invalid == -2     \* something that is not a number was printed
Diagnosed == -3   \* the checker failed: a diagnostic, and no score
Panic == -4       \* the callback fails, and the evaluation with it

Subtasks(t) == DOMAIN t.subtasks
Testcases(t) == UNION {t.subtasks[st].owned : st \in Subtasks(t)}
OwnerOf(t, tc) == CHOOSE st \in Subtasks(t) : tc \in t.subtasks[st].owned
AllGood(res) == \A i \in DOMAIN res : res[i] = "Success"

-----------------------------------------------------------------------------
(* The executions and what they wait for.                                  *)

\* SourceFile::prepare adds the compilation of a file the first time the file
\* is executed; scripts are provided as they are.
prepare(t, f) == IF f \in t.compiled THEN {<<"compile", f>>} ELSE {}

\* The path the messages of a compilation carry: the official solution is
\* compiled for itself even if it is one of the solutions.
CompiledPath(t, f) == IF f = "official" THEN t.official ELSE f

InputOf(t, tc) == IF t.generator[tc] = "custom" THEN {<<"generate", tc>>} ELSE {}

Validation(t, st, tc) ==
    IF t.subtasks[st].validator THEN {<<"validate", st, tc>>} ELSE {}

\* No validation is waited for.
NoHandle(t, tc) == {}

\* validation_handle: only the validation for the subtask that owns the
\* testcase is waited for.
ValidationHandle(t, tc) == Validation(t, OwnerOf(t, tc), tc)

OutputOf(t, tc) == IF t.output[tc] = "custom" THEN {<<"solve", tc>>} ELSE {}

\* InputGenerator::generate
GeneratorInputs(t, tc) == prepare(t, "generator")

\* InputValidator::validate
ValidatorInputs(t, tc) == prepare(t, "validator") \cup InputOf(t, tc)

\* bind_exec_io!: an execution on a testcase reads its input, and waits for
\* its validation.
BoundIo(t, tc) == InputOf(t, tc) \cup ValidationHandle(t, tc)

\* OutputGenerator::generate
OutputInputs(t, tc) == prepare(t, "official") \cup BoundIo(t, tc)

\* evaluate of the three task types: all the processes are one group.
BatchInputs(t, s, tc) == prepare(t, s) \cup BoundIo(t, tc)
CommunicationInputs(t, s, tc) ==
    prepare(t, s) \cup prepare(t, "scorer") \cup BoundIo(t, tc)
InteractiveInputs(t, s, tc) ==
    prepare(t, "scorer") \cup prepare(t, s) \cup InputOf(t, tc) \cup ValidationHandle(t, tc)

\* Checker::check: diff compares the outputs, a custom checker reads the
\* input as well.
CheckerInputs(t, s, tc) ==
    {<<"evaluate", s, tc>>} \cup OutputOf(t, tc)
        \cup IF t.checker = "diff" THEN {}
             ELSE prepare(t, "scorer") \cup InputOf(t, tc)

Inputs(t, g) ==
    CASE g[1] = "compile" -> {}
      [] g[1] = "generate" -> GeneratorInputs(t, g[2])
      [] g[1] = "validate" -> ValidatorInputs(t, g[3])
      [] g[1] = "solve" -> OutputInputs(t, g[2])
      [] g[1] = "check" -> CheckerInputs(t, g[2], g[3])
      [] g[1] = "evaluate" ->
            CASE t.type = "batch" -> BatchInputs(t, g[2], g[3])
              [] t.type = "communication" -> CommunicationInputs(t, g[2], g[3])
              [] t.type = "interactive" -> InteractiveInputs(t, g[2], g[3])

\* TaskType::prepare_dag: the checker, manager or controller is compiled first.
prepare_dag(t) == IF t.type = "batch" /\ t.checker = "diff" THEN {}
                  ELSE prepare(t, "scorer")

\* IOITask::build_dag: the executions of each owned testcase and of each
\* solution on it, and the validations for the subtasks that only include it
\* (one for each time it is listed; nothing waits for them, so they are one here).
IoiGroups(t) ==
    LET runs == (UNION {InputOf(t, tc) \cup OutputOf(t, tc)
                        \cup {<<"evaluate", s, tc>> : s \in t.solutions}
                        \cup IF t.type = "batch" THEN {<<"check", s, tc>> : s \in t.solutions}
                             ELSE {}
                       : tc \in Testcases(t)})
                \cup (UNION {UNION {Validation(t, st, tc) : tc \in t.subtasks[st].testcases}
                            : st \in Subtasks(t)})
    IN runs \cup (UNION {Inputs(t, g) : g \in runs}) \cup prepare_dag(t)

\* build_dag fails on a static file that is not there.
IoiBuildFails(t) == \E tc \in Testcases(t) : "missing" \in {t.generator[tc], t.output[tc]}

-----------------------------------------------------------------------------
(* What the callbacks on_execution_done make of the results: a score,      *)
(* Unscored, Diagnosed or Panic.  out is what the checker, the manager or  *)
(* the controller printed.                                                 *)

\* The score is given whatever the result.

BatchScore(res) == IF AllGood(res) THEN Unscored ELSE 0

\* The first process that failed, of the solution or the manager, gives 0.
CommunicationScore(res, out) ==
    CASE ~AllGood(res) -> 0
      [] out = Invalid -> Panic
      [] OTHER -> out

\* Only the controller (the first process) decides.
InteractiveScore(res, out) ==
    IF res[1] # "Success" \/ out = Invalid THEN 0 ELSE out

\* Checker::check.  diff returns 1 if the outputs differ; any other code (told
\* apart by an Invalid output) or end is "unreachable!".  A custom checker that
\* failed, or whose score cannot be read, leaves a diagnostic.
CheckerScore(t, res, out) ==
    CASE t.checker = "diff" /\ res[1] = "Success" -> One
      [] t.checker = "diff" /\ res[1] = "ReturnCode" -> IF out = Invalid THEN Panic ELSE 0
      [] t.checker = "diff" /\ res[1] \notin {"Success", "ReturnCode"} -> Panic
      [] t.checker = "custom" -> IF res[1] # "Success" \/ out = Invalid THEN Diagnosed ELSE out

ScoreOfGroup(t, g, res, out) ==
    CASE g[1] = "check" -> CheckerScore(t, res, out)
      [] g[1] = "evaluate" ->
            (CASE t.type = "batch" -> BatchScore(res)
               [] t.type = "communication" -> CommunicationScore(res, out)
               [] t.type = "interactive" -> InteractiveScore(res, out))
      [] OTHER -> Unscored

\* The processes of a group.
Processes(t, g) ==
    IF g[1] # "evaluate" THEN 1
    ELSE CASE t.type = "batch" -> 1
           [] t.type = "communication" -> t.processes + 1
           [] t.type = "interactive" -> 2

-----------------------------------------------------------------------------
(* The score manager of a solution.                                        *)

\* TestcaseScoreAggregator::aggregate on a list that has tc times[tc] times.
aggregate(t, tcs, times, score) ==
    CASE tcs = {} -> One
      [] tcs # {} /\ t.aggregator = "min" -> Min({score[tc] : tc \in tcs})
      [] tcs # {} /\ t.aggregator = "sum" ->
            MapThenSumSet(LAMBDA tc : times[tc] * score[tc], tcs)
                \div MapThenSumSet(LAMBDA tc : times[tc], tcs)

SubtaskScore(t, st, score) ==
    t.subtasks[st].max_score
        * aggregate(t, t.subtasks[st].testcases, t.subtasks[st].times, score)

\* The testcases a subtask only includes are not looked at.
score_owned(t, m) ==
    LET ready == {st \in Subtasks(t) :
                    /\ m.subtasks[st] = Unscored
                    /\ \A tc \in t.subtasks[st].owned : m.testcases[tc] # Unscored}
    IN [m EXCEPT !.subtasks = [st \in Subtasks(t) |->
            IF st \in ready
            THEN t.subtasks[st].max_score
                    * aggregate(t, t.subtasks[st].owned, t.subtasks[st].times, m.testcases)
            ELSE @[st]]]

\* score_subtask of every subtask that has no score yet.
score_subtask(t, m) ==
    LET ready == {st \in Subtasks(t) :
                    /\ m.subtasks[st] = Unscored
                    /\ \A tc \in t.subtasks[st].testcases : m.testcases[tc] # Unscored}
    IN [m EXCEPT !.subtasks = [st \in Subtasks(t) |->
            IF st \in ready THEN SubtaskScore(t, st, m.testcases) ELSE @[st]]]

\* ScoreManager::new: the subtasks with no testcases are scored at once.
NewScoreManager(t) ==
    score_subtask(t, [testcases |-> [tc \in Testcases(t) |-> Unscored],
                      subtasks |-> [st \in Subtasks(t) |-> Unscored]])

\* ScoreManager::score
ManagerScore(t, m, tc, score) == score_subtask(t, [m EXCEPT !.testcases[tc] = score])

\* The score of the task, sent when the last subtask is scored.
TaskScore(t, m) ==
    IF \E st \in Subtasks(t) : m.subtasks[st] = Unscored THEN Unscored
    ELSE MapThenSumSet(LAMBDA st : m.subtasks[st], Subtasks(t))

-----------------------------------------------------------------------------
(* UIState.  The status of a solution on a testcase:                       *)

Completed(status) == status \notin {"Pending", "Solving", "Solved", "Checking"}

\* The execution statuses, and the evaluation status each of them becomes.
FailureStatus ==
    [Failure |-> "RuntimeError", ReturnCode |-> "RuntimeError",
     Signal |-> "RuntimeError",
     TimeLimitExceeded |-> "TimeLimitExceeded",
     SysTimeLimitExceeded |-> "TimeLimitExceeded",
     WallTimeLimitExceeded |-> "WallTimeLimitExceeded",
     MemoryLimitExceeded |-> "MemoryLimitExceeded",
     InternalError |-> "Failed"]

\* ScoreStatus::from_score, with the maximum 1.0
NearOne(score) == One - Tolerance < score /\ score < One + Tolerance
from_score(score) == CASE score = 0 -> "WrongAnswer"
                       [] score # 0 /\ NearOne(score) -> "Accepted"
                       [] score # 0 /\ ~NearOne(score) -> "Partial"

\* UIState::new, and the state after the Pending messages of build_dag.
NewGenerations(t) == [tc \in Testcases(t) |-> "Pending"]
NewSolutionState(t) ==
    [tc \in Testcases(t) |-> [status |-> "Pending", score |-> Unscored, results |-> <<>>]]
NewUIState(t) ==
    [compilations |-> [p \in {CompiledPath(t, f) : f \in t.compiled} |-> "Pending"],
     generations |-> NewGenerations(t),
     testcases |-> [s \in t.solutions |-> NewSolutionState(t)],
     subtasks |-> [s \in t.solutions |-> NewScoreManager(t).subtasks],
     score |-> [s \in t.solutions |-> TaskScore(t, NewScoreManager(t))],
     diagnostics |-> {}]

\* CompilationStatus::apply_status
apply_status(status, res) ==
    CASE status = "started" -> "Running"
      [] status = "done" -> IF AllGood(res) THEN "Done" ELSE "Failed"
      [] status = "skipped" -> "Skipped"

\* A testcase whose generation failed is not shown as skipped.
SkippedUnlessFailed(old) == IF old = "Failed" THEN "Failed" ELSE "Skipped"

ApplyGeneration(u, tc, status, res) ==
    [u EXCEPT !.generations[tc] =
        CASE status = "started" -> "Generating"
          [] status = "done" -> IF AllGood(res) THEN "Generated" ELSE "Failed"
          [] status = "skipped" -> "Skipped"]

\* The validation of a testcase for a subtask that does not own it is ignored.
ApplyValidation(t, u, st, tc, status, res) ==
    IF tc \notin t.subtasks[st].owned THEN u
    ELSE [u EXCEPT !.generations[tc] =
            CASE status = "started" -> "Validating"
              [] status = "done" -> IF AllGood(res) THEN "Validated" ELSE "Failed"
              [] status = "skipped" -> SkippedUnlessFailed(@)]

ApplySolution(u, tc, status, res) ==
    [u EXCEPT !.generations[tc] =
        CASE status = "started" -> "Solving"
          [] status = "done" -> IF AllGood(res) THEN "Solved" ELSE "Failed"
          [] status = "skipped" -> SkippedUnlessFailed(@)]

\* The first one does.
EvaluationStatusOfFirst(res) ==
    IF AllGood(res) THEN "Solved"
    ELSE FailureStatus[res[Min({i \in DOMAIN res : res[i] # "Success"})]]

\* The last process that did not succeed gives the status.
EvaluationStatus(res) ==
    IF AllGood(res) THEN "Solved"
    ELSE FailureStatus[res[Max({i \in DOMAIN res : res[i] # "Success"})]]

ApplyEvaluation(u, s, tc, status, res) ==
    LET old == u.testcases[s][tc]
    IN [u EXCEPT !.testcases[s][tc] =
            CASE status = "started" -> [old EXCEPT !.status = "Solving"]
              [] status = "done" -> [old EXCEPT !.status = EvaluationStatus(res), !.results = res]
              [] status = "skipped" -> [old EXCEPT !.status = "Skipped"]]

ApplyChecker(u, s, tc, status) ==
    IF status = "started" THEN [u EXCEPT !.testcases[s][tc].status = "Checking"] ELSE u

\* The score always decides the status.
ApplyScoreAlways(u, s, tc, score) ==
    LET old == u.testcases[s][tc]
    IN [u EXCEPT !.testcases[s][tc] = [old EXCEPT !.status = from_score(score), !.score = score]]

\* IOITestcaseScore: the status of a failed evaluation stays, but a runtime
\* error next to a first process that succeeded is a wrong answer.
ApplyTestcaseScore(u, s, tc, score) ==
    LET old == u.testcases[s][tc]
        new == CASE ~Completed(old.status) -> from_score(score)
                 [] /\ old.status = "RuntimeError" /\ score <= Epsilon
                    /\ Len(old.results) > 1 /\ old.results[1] = "Success" -> "WrongAnswer"
                 [] OTHER -> old.status
    IN [u EXCEPT !.testcases[s][tc] = [old EXCEPT !.status = new, !.score = score]]

\* IOISubtaskScore and IOITaskScore carry the scores of the manager.
ApplyScores(t, u, s, m) ==
    [u EXCEPT !.subtasks[s] = m.subtasks, !.score[s] = TaskScore(t, m)]

\* UIState::apply on the message of a group.
IoiApply(t, u, g, status, res) ==
    CASE g[1] = "compile" ->
            [u EXCEPT !.compilations[CompiledPath(t, g[2])] = apply_status(status, res)]
      [] g[1] = "generate" -> ApplyGeneration(u, g[2], status, res)
      [] g[1] = "validate" -> ApplyValidation(t, u, g[2], g[3], status, res)
      [] g[1] = "solve" -> ApplySolution(u, g[2], status, res)
      [] g[1] = "evaluate" -> ApplyEvaluation(u, g[2], g[3], status, res)
      [] g[1] = "check" -> ApplyChecker(u, g[2], g[3], status)

\* The callbacks of compilations, generators, validators and checkers report
\* a failure.
Diagnostics(t, u, g, res, score) ==
    IF \/ g[1] \in {"compile", "generate", "validate", "solve"} /\ ~AllGood(res)
       \/ score = Diagnosed
    THEN [u EXCEPT !.diagnostics = @ \cup {g}]
    ELSE u

-----------------------------------------------------------------------------
(* Checks of the solutions on the results of an evaluation.                *)

\* The results of a solution on a subtask.
ResultsOn(t, u, s, st) ==
    {u.testcases[s][tc].status : tc \in t.subtasks[st].testcases}

\* Every testcase has a result the checks can be about.
Judged(t, u, s, st) == ResultsOn(t, u, s, st) \subseteq TestcaseEvaluationResult

\* UIState::run_solution_checks: the outcomes of the checks of a solution.
run_solution_checks(t, u, s, checks) ==
    {[check |-> p[1].result, subtask |-> p[2],
      success |-> CheckHolds(p[1].result, ResultsOn(t, u, s, p[2]))] :
        p \in {q \in checks \X Subtasks(t) :
                q[1].pattern \in {q[2], "*"} /\ Judged(t, u, s, q[2])}}

\* process_solution: the comments for a solution, none if it was not judged on
\* every subtask.
process_solution(t, u, s) ==
    IF \A st \in Subtasks(t) : Judged(t, u, s, st)
    THEN Comments([st \in Subtasks(t) |-> ResultsOn(t, u, s, st)])
    ELSE <<>>
=============================================================================
