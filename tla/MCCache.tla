------------------------------ MODULE MCCache ------------------------------
(***************************************************************************)
(* The times, the memory, one hard limit, an ordinary power, two directories  *)
(* and /proc.  A second is two units of time, so that limits are rounded up.  *)
(* The limits vary in two groups, and so do the programs: what they need of   *)
(* the measured resources, and of the others.                                 *)
(***************************************************************************)
EXTENDS Cache

Need(cpu, sys, memory) == [cpu |-> cpu, sys |-> sys, wall |-> cpu, memory |-> memory]
MCUsage == {Need(u[1], u[2], u[3]) : u \in {<<1, 0, 1>>, <<2, 0, 1>>, <<3, 0, 1>>, <<1, 3, 1>>, <<1, 0, 2>>}}

MCPrograms ==
    [need : MCUsage, hard : {[stack |-> 1]}, power : {{}}, ok : {TRUE}]
    \cup [need : {Need(2, 0, 1)}, hard : {[stack |-> 2]},
          power : {{}, {"fork"}, {"dir1"}, {"proc"}}, ok : {TRUE}]
    \cup [need : {Need(2, 0, 1)}, hard : {[stack |-> 1]}, power : {{}}, ok : {FALSE}]

Limits(cpu, sys, memory) ==
    [cpu |-> cpu, sys |-> sys, wall |-> IF sys = Inf THEN Inf ELSE 1, memory |-> memory]
Margins(time, memory) == [cpu |-> time, sys |-> time, wall |-> time, memory |-> memory]

\* limits on the system and the wall time too; margins that differ in time and in
\* memory (the last one wraps around)
MCQueries ==
    {[limit |-> Limits(l[1], l[2], 1), hard |-> [stack |-> 1], power |-> {}, extra |-> Margins(l[3], l[4])] :
          l \in {<<1, Inf, 0, 0>>, <<2, Inf, 0, 0>>, <<1, 3, 0, 0>>, <<1, Inf, 1, 0>>, <<1, Inf, 0, 2>>}}
    \cup [limit : {Limits(Inf, Inf, 1)}, hard : {[stack |-> Inf]},
          power : {{"dir1"}, {"dir2"}, {"dir1", "proc"}, {"fork", "dir1", "dir2"}},
          extra : {Margins(0, 0)}]

=============================================================================
