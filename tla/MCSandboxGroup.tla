--------------------------- MODULE MCSandboxGroup ---------------------------
(* A manager and the processes of a solution, a single process, and a typst *)
(* compilation.                                                             *)
EXTENDS SandboxGroup

\* The FIFOs are the standard streams of the executions.
Group(execs, startable, limited, waits) ==
    [execs |-> execs, typst |-> {}, startable |-> startable, limited |-> limited,
     early |-> {}, waits |-> waits, outs |-> execs]
Alone == [e \in {1} |-> {}]
Pair == [e \in {1, 2} |-> {3 - e}]
MCGroups ==
    { Group({1}, {1}, {1}, Alone), Group({1}, {}, {}, Alone),
      [Group({1}, {}, {}, Alone) EXCEPT !.typst = {1}],
      [Group({1, 2}, {1, 2}, {1}, Pair) EXCEPT !.early = {2}],
      [Group({1, 2}, {1, 2}, {}, Pair) EXCEPT !.early = {1, 2}],
      Group({1, 2}, {2}, {}, Pair),
      [Group({1, 2, 3}, {2, 3}, {3}, [e \in 1..3 |-> IF e = 1 THEN {2} ELSE {1}])
        EXCEPT !.outs = {2}] }
=============================================================================
