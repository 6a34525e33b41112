------------------------- MODULE MCTaskEvaluation -------------------------
(* Small tasks for TaskEvaluation.                                         *)
EXTENDS TaskEvaluation

Old == CheckLine("accepted", {"small"})
Subtask(tcs, owned, max, val) ==
    [testcases |-> tcs, times |-> [tc \in tcs |-> 1], owned |-> owned, max_score |-> max,
     validator |-> val]

\* Two subtasks, the second of which includes the testcase of the first.
Included == [small |-> Subtask({0}, {0}, 1, TRUE), large |-> Subtask({0, 1}, {1}, 2, TRUE)]
\* The same with no validators.
Unvalidated == [small |-> Subtask({0}, {0}, 1, FALSE), large |-> Subtask({0, 1}, {1}, 2, FALSE)]
\* The included testcase is listed twice.
Twice == [Unvalidated EXCEPT !.large.times = [tc \in {0, 1} |-> 2 - tc]]
\* A subtask with nothing in it.
Empty == [small |-> Subtask({}, {}, 1, FALSE), large |-> Subtask({0}, {0}, 2, TRUE)]

Ioi == [format |-> "ioi", type |-> "batch", checker |-> "custom", processes |-> 1,
        subtasks |-> Included, generator |-> [tc \in {0, 1} |-> "static"],
        output |-> [tc \in {0, 1} |-> "none"], aggregator |-> "min",
        compiled |-> {}, official |-> "official", solutions |-> {"sol"},
        symlinks |-> {}, samples |-> "small", source |-> [sol |-> <<Shebang, Old, Code>>]]

MCTasks ==
  { \* everything is compiled and generated; the official solution is the solution
    [Ioi EXCEPT !.generator = [tc \in {0, 1} |-> "custom"], !.checker = "diff",
                !.output = [tc \in {0, 1} |-> "custom"], !.official = "sol",
                !.compiled = {"sol", "official", "validator"}, !.subtasks = Empty],
    [Ioi EXCEPT !.source = [sol |-> <<Old, Code, CheckLine("wall-time-limit-exceeded", {"small"})>>],
                !.compiled = {"scorer"}],
    [Ioi EXCEPT !.aggregator = "sum", !.subtasks = Twice],
    [Ioi EXCEPT !.checker = "diff", !.output = [tc \in {0, 1} |-> "missing"]],
    [Ioi EXCEPT !.type = "communication", !.processes = 2, !.subtasks = Unvalidated,
                !.source = [sol |-> <<Code>>], !.symlinks = {"sol"}],
    [Ioi EXCEPT !.type = "communication", !.subtasks = Unvalidated,
                !.source = [sol |-> <<Code>>]],
    [Ioi EXCEPT !.type = "interactive", !.subtasks = Unvalidated, !.source = [sol |-> <<>>]],
    [format |-> "terry", validator |-> TRUE, official |-> TRUE,
     compiled |-> {"sol", "official"}, bad_outputs |-> {"bad"}, solutions |-> {"sol", "slow"},
     source |-> <<>>],
    [format |-> "terry", validator |-> FALSE, official |-> FALSE,
     compiled |-> {"checker"}, bad_outputs |-> {}, solutions |-> {"sol"}, source |-> <<>>]}
\* almost nothing, half, a little less and a little more than everything, and too much
MCPrinted == {Invalid, 0, 3, 6, 9, 15, 30}
===========================================================================
