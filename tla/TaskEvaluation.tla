--------------------------- MODULE TaskEvaluation ---------------------------
(***************************************************************************)
(* The evaluation of a task (TaskFormat): the DAG is built, its executions *)
(* start, end and are skipped in any order their inputs allow (the         *)
(* scheduler, see DagEvaluation), the callbacks send their messages and    *)
(* the UI state follows them.  Afterwards the tool add-solution-checks may *)
(* write checks in the sources of the solutions of an IOI task.            *)
(*                                                                         *)
(* The messages of an execution are applied to the UI state when they are  *)
(* sent: one thread runs the callbacks and the UI reads one FIFO channel,  *)
(* so the UI only sees the same states later.                              *)
(***************************************************************************)
EXTENDS TerryTask

CONSTANTS
    Tasks,       \* the tasks to evaluate, with the sources of their solutions
    Statuses,    \* how a process of a solution may end
    ToolStatuses,\* how compilers, generators, validators and checkers may end
    Printed,     \* the scores that may be printed; Invalid is something else
    Overwrite    \* the options --overwrite of the tool

ASSUME StatusesAssumption ==
    Statuses \cup ToolStatuses \subseteq {"Success"} \cup DOMAIN FailureStatus
ASSUME PrintedAssumption == Printed \subseteq Nat \cup {Invalid}

\* The tasks the parsers make: each testcase belongs to one subtask, and what
\* a subtask includes belongs to one as well (TaskParsing checks it).
IsIoiTask(t) ==
    /\ t.format = "ioi"
    /\ t.type \in {"batch", "communication", "interactive"}
    /\ t.checker \in {"diff", "custom"} /\ t.aggregator \in {"min", "sum"}
    /\ t.processes \in Nat
    /\ IsFiniteSet(Subtasks(t))
    /\ \A st \in Subtasks(t) :
        /\ IsFiniteSet(t.subtasks[st].testcases)
        /\ t.subtasks[st].times \in [t.subtasks[st].testcases -> Nat \ {0}]
        /\ t.subtasks[st].owned \subseteq t.subtasks[st].testcases
        /\ t.subtasks[st].testcases \subseteq Testcases(t)
        /\ t.subtasks[st].max_score \in Nat
        /\ t.subtasks[st].validator \in BOOLEAN
    /\ \A st1, st2 \in Subtasks(t) :
        st1 # st2 => t.subtasks[st1].owned \cap t.subtasks[st2].owned = {}
IsTerryTask(t) == t.format = "terry" /\ t.validator \in BOOLEAN
ASSUME TasksAssumption == \A t \in Tasks : IsIoiTask(t) \/ IsTerryTask(t)

VARIABLES
    task,     \* the TaskFormat
    phase,    \* "new", "running", "failed", "over", "written"
    exec,     \* for each group of the DAG: its state, results and output
    manager,  \* the ScoreManager of each solution (of an IOI task)
    ui,       \* the UIState
    source    \* the lines of the source of each solution

vars == <<task, phase, exec, manager, ui, source>>

IsIoi == task.format = "ioi"
Groups == IF IsIoi THEN IoiGroups(task) ELSE TerryGroups(task)
InputsOf(g) == IF IsIoi THEN Inputs(task, g) ELSE TerryInputs(task, g)
Apply(u, g, status, res) ==
    IF IsIoi THEN IoiApply(task, u, g, status, res) ELSE TerryApply(task, u, g, status, res)

Waiting == [state |-> "pending", res |-> <<>>, out |-> Unscored]
Succeeded(g) == exec[g].state = "done" /\ AllGood(exec[g].res)
Failed(g) == exec[g].state = "done" /\ ~AllGood(exec[g].res)
Ended(g) == exec[g].state \in {"done", "skipped"}

Init ==
    /\ task \in Tasks
    /\ phase = "new"
    /\ exec = <<>> /\ manager = <<>> /\ ui = <<>>
    /\ source = task.source

\* The checks Solution::new reads from the sources.
ChecksRead == [s \in task.solutions |-> extract_check_list(source[s])]

\* build_dag: the executions, the score managers, the first messages and the
\* diagnostics of the checks that cannot be read and of the sanity checks.
Build ==
    /\ phase = "new"
    /\ UNCHANGED <<task, source>>
    /\ IF IsIoi /\ IoiBuildFails(task)
       THEN phase' = "failed" /\ UNCHANGED <<exec, manager, ui>>
       ELSE /\ phase' = "running"
            /\ exec' = [g \in Groups |-> Waiting]
            /\ IF IsIoi
               THEN /\ manager' = [s \in task.solutions |-> NewScoreManager(task)]
                    /\ ui' = [NewUIState(task) EXCEPT !.diagnostics =
                            {<<"invalid check", s>> : s \in
                                {s \in task.solutions : InvalidChecks(source[s]) # {}}}
                            \cup {<<"no checks", s>> : s \in
                                SolutionsWithNoChecks(ChecksRead, task.symlinks)}
                            \cup {<<"samples", s>> : s \in
                                SolutionsWithSamplesCheck(ChecksRead, task.samples)}]
               ELSE ui' = NewTerryState(task) /\ UNCHANGED manager

\* on_execution_start; an execution found in the cache does not start.
Start(g) ==
    /\ phase = "running"
    /\ exec[g].state = "pending"
    /\ \A h \in InputsOf(g) : Succeeded(h)
    /\ exec' = [exec EXCEPT ![g].state = "started"]
    /\ ui' = Apply(ui, g, "started", <<>>)
    /\ UNCHANGED <<task, phase, manager, source>>

\* The results a group may have, and what its last word may be.
Results(g) ==
    IF g[1] = "evaluate" THEN [1..Processes(task, g) -> Statuses]
    ELSE [{1} -> ToolStatuses]
Outputs(g) ==
    IF g[1] \in {"evaluate", "check", "fuzz_check"} THEN Printed ELSE {Unscored}

\* on_execution_done: the message to the UI, then the callback that scores.
\* If that one fails the client stops.
DoneIoi(g, res, out) ==
    LET score == ScoreOfGroup(task, g, res, out)
        u == Diagnostics(task, Apply(ui, g, "done", res), g, res, score)
        s == g[2]
        tc == g[3]
        m == ManagerScore(task, manager[s], tc, score)
    IN CASE score = Panic ->
                /\ phase' = "failed"
                /\ ui' = IF g[1] = "check" THEN ui ELSE u
                /\ UNCHANGED manager
         [] score >= 0 ->
                /\ manager' = [manager EXCEPT ![s] = m]
                /\ ui' = ApplyScores(task, ApplyTestcaseScore(u, s, tc, score), s, m)
                /\ UNCHANGED phase
         [] OTHER -> ui' = u /\ UNCHANGED <<manager, phase>>

Done(g) ==
    /\ phase = "running"
    /\ exec[g].state \in {"pending", "started"}
    /\ \A h \in InputsOf(g) : Succeeded(h)
    /\ \E res \in Results(g), out \in Outputs(g) :
        /\ exec' = [exec EXCEPT ![g] = [state |-> "done", res |-> res, out |-> out]]
        /\ IF IsIoi THEN DoneIoi(g, res, out)
           ELSE ui' = TerryDone(task, Apply(ui, g, "done", res), g, res, out)
                /\ UNCHANGED <<manager, phase>>
    /\ UNCHANGED <<task, source>>

\* on_execution_skip: an input is not going to be there.
Skip(g) ==
    /\ phase = "running"
    /\ exec[g].state = "pending"
    /\ \E h \in InputsOf(g) : Failed(h) \/ exec[h].state = "skipped"
    /\ exec' = [exec EXCEPT ![g].state = "skipped"]
    /\ ui' = Apply(ui, g, "skipped", <<>>)
    /\ UNCHANGED <<task, phase, manager, source>>

\* The client returns when every group has ended.
Finish ==
    /\ phase = "running"
    /\ \A g \in DOMAIN exec : Ended(g)
    /\ phase' = "over"
    /\ UNCHANGED <<task, exec, manager, ui, source>>

\* The solutions add-solution-checks rewrites.
Rewritten(overwrite) ==
    {s \in task.solutions :
        /\ s \notin task.symlinks
        /\ overwrite \/ ChecksRead[s] = {}
        /\ process_solution(task, ui, s) # <<>>}

\* main_add_solution_checks, with --in-place.
AddSolutionChecks ==
    /\ phase = "over" /\ IsIoi
    /\ phase' = "written"
    /\ \E overwrite \in Overwrite :
        source' = [s \in task.solutions |->
            IF s \in Rewritten(overwrite)
            THEN write_comments_to_file(source[s], process_solution(task, ui, s),
                                        IF overwrite THEN ChecksRead[s] ELSE {})
            ELSE source[s]]
    /\ UNCHANGED <<task, exec, manager, ui>>

Next ==
    \/ Build
    \/ \E g \in DOMAIN exec : Start(g) \/ Done(g) \/ Skip(g)
    \/ Finish
    \/ AddSolutionChecks

Spec == Init /\ [][Next]_vars

-----------------------------------------------------------------------------
(* Properties.                                                             *)

Running == phase \in {"running", "over", "written"}
Over == phase \in {"over", "written"}

\* The score a solution deserves on a testcase, from the results alone.
Deserved(s, tc) ==
    LET e == exec[<<"evaluate", s, tc>>]
        c == exec[<<"check", s, tc>>]
        told(x) == IF x.out = Invalid THEN Unscored ELSE x.out
    IN IF e.state # "done" THEN Unscored
       ELSE CASE task.type = "interactive" ->
                    IF e.res[1] = "Success" /\ e.out # Invalid THEN e.out ELSE 0
              [] task.type # "interactive" /\ ~AllGood(e.res) -> 0
              [] task.type = "communication" /\ AllGood(e.res) -> told(e)
              [] task.type = "batch" /\ AllGood(e.res) ->
                    CASE c.state # "done" -> Unscored
                      [] c.state = "done" /\ task.checker = "diff" ->
                            IF AllGood(c.res) THEN One ELSE 0
                      [] c.state = "done" /\ task.checker = "custom" ->
                            IF AllGood(c.res) THEN told(c) ELSE Unscored

\* The score shown for a solution is the sum over the subtasks of what the
\* solution deserves on all of their testcases, the included ones too, each as
\* often as the subtask lists it (a list of a parser may have a testcase twice,
\* and the sum then counts it twice), and when the evaluation is over a score is shown as soon as every testcase has
\* one, in whatever order the results came (ScoreManager::score).
ScoreIsRight ==
    Running /\ IsIoi => \A s \in task.solutions :
        LET score == [tc \in Testcases(task) |-> Deserved(s, tc)]
        IN /\ ui.score[s] # Unscored =>
                ui.score[s] = MapThenSumSet(LAMBDA st : SubtaskScore(task, st, score),
                                            Subtasks(task))
           /\ (Over /\ \A tc \in Testcases(task) : score[tc] # Unscored) =>
                ui.score[s] # Unscored

\* What is shown of a testcase agrees with its score: points only with
\* Accepted or Partial, Accepted only with the full score up to the tolerance
\* of from_score, Partial only with less or more than that, a wrong answer and
\* no points together, and a limit that was exceeded is shown only if a process
\* exceeded it.  The controller of an interactive task may give points to a
\* solution that failed; up to Epsilon they are shown as a wrong answer.
VerdictMatchesScore ==
    Running /\ IsIoi => \A s \in task.solutions, tc \in Testcases(task) :
        LET v == ui.testcases[s][tc]
            e == exec[<<"evaluate", s, tc>>]
        IN /\ v.score > 0 => \/ v.status \in {"Accepted", "Partial"}
                             \/ task.type = "interactive" /\ ~AllGood(e.res)
           /\ v.status = "Accepted" => NearOne(v.score)
           /\ v.status = "Partial" => v.score > 0 /\ ~NearOne(v.score)
           /\ v.status = "WrongAnswer" =>
                \/ v.score = 0
                \/ v.score <= Epsilon /\ task.type = "interactive" /\ ~AllGood(e.res)
           /\ v.status \in Range(FailureStatus) =>
                \E i \in DOMAIN e.res :
                    e.res[i] # "Success" /\ FailureStatus[e.res[i]] = v.status
           /\ (task.type = "interactive" /\ e.state = "done" /\ e.res[2] \notin {"Success"}
                /\ FailureStatus[e.res[2]] # "RuntimeError") =>
                v.status = FailureStatus[e.res[2]]

\* The steps that make the input of a testcase, or of a Terry solution, in
\* the order in which they depend on each other.
StepsOf(x) ==
    IF IsIoi THEN InputOf(task, x) \cup Validation(task, OwnerOf(task, x), x) \cup OutputOf(task, x)
    ELSE ({"generate", "validate", "solve", "check"} \X {x}) \cap DOMAIN exec
ShownOf(x) == IF IsIoi THEN ui.generations[x] ELSE ui.solutions[x].status
Shown == IF IsIoi THEN Testcases(task) ELSE task.solutions

\* A generator, validator, official solution, Terry solution or checker that
\* failed shows as Failed from then on, whatever is skipped or ends later, and
\* only then; Solved (Done) is shown only when all the steps succeeded, and
\* always when they all did and the evaluation is over.
FailureShown ==
    Running => \A x \in Shown :
        /\ ShownOf(x) = "Failed" <=> \E g \in StepsOf(x) : Failed(g)
        /\ ShownOf(x) = (IF IsIoi THEN "Solved" ELSE "Done") =>
                \A g \in StepsOf(x) : Succeeded(g)
        /\ (Over /\ \A g \in StepsOf(x) : Succeeded(g)) /\ StepsOf(x) # {} =>
                ShownOf(x) \in {"Generated", "Validated", "Solved", "Done"}

\* No solution, official or not, runs on an input before the validator of its
\* subtask has accepted it.
OnlyValidInputs ==
    Running => \A g \in DOMAIN exec :
        g[1] \in {"solve", "evaluate"} /\ exec[g].state \in {"started", "done"} =>
            LET v == CASE ~IsIoi -> <<"validate", g[2]>>
                       [] IsIoi /\ g[1] = "solve" -> <<"validate", OwnerOf(task, g[2]), g[2]>>
                       [] IsIoi /\ g[1] = "evaluate" -> <<"validate", OwnerOf(task, g[3]), g[3]>>
            IN v \in DOMAIN exec => Succeeded(v)

\* The checks that add-solution-checks writes are read back, are about the
\* results they were written for and hold of them, and with --overwrite no
\* old check is left.  A chosen wall-time-limit-exceeded is written but
\* cannot be read (EXTRACT_CHECKS does not know it).
WrittenChecksHold ==
    phase = "written" => \A s \in task.solutions :
        LET read == extract_check_list(source[s])
            was == extract_check_list(task.source[s])
            outcomes == run_solution_checks(task, ui, s, read)
            unread == {st \in Subtasks(task) :
                        MinimalOf(ResultsOn(task, ui, s, st)) = {"WallTimeLimitExceeded"}}
        IN source[s] # task.source[s] =>
            /\ \A st \in Subtasks(task) \ unread :
                Cardinality({c \in read : c.pattern \in {st, "*"}}) = 1
            /\ \A o \in outcomes : o.success
            /\ \A st \in Subtasks(task) : Judged(task, ui, s, st)
            /\ {i \in DOMAIN source[s] : source[s][i].check = ""} # {} =>
                Len(SelectSeq(source[s], LAMBDA l : l.check = ""))
                    = Len(SelectSeq(task.source[s], LAMBDA l : l.check = ""))
            /\ (source[s] # <<>> /\ task.source[s] # <<>>) =>
                source[s][1].shebang = task.source[s][1].shebang

\* The scores export-solution-checks derives from the written checks bound the
\* score the solution got, if a subtask is worth its worst testcase (with the
\* sum of the testcases a wrong answer on one of them still gives points) and
\* only the solution fails (a controller may give points to one that did) and
\* no testcase is worth more than an accepted one.  An accepted testcase may
\* have a little more or less than its points (from_score), and so may the sum.
ExportBoundsScore ==
    phase = "written" => \A s \in task.solutions :
        LET checks == extract_check_list(source[s])
            max_score == [st \in Subtasks(task) |-> One * task.subtasks[st].max_score]
            slack == Tolerance * MapThenSumSet(LAMBDA st : task.subtasks[st].max_score, Subtasks(task))
        IN /\ source[s] # task.source[s]
           /\ task.aggregator = "min" /\ task.type # "interactive"
           /\ ui.score[s] # Unscored
           /\ \A tc \in Testcases(task) : ui.testcases[s][tc].score < One + Tolerance
           => /\ ~ExportFails(checks, Subtasks(task))
              /\ MinScore(checks, max_score) - slack <= ui.score[s]
              /\ ui.score[s] <= MaxScore(checks, max_score) + slack
=============================================================================
