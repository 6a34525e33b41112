---------------------------- MODULE MCScheduler ----------------------------
(***************************************************************************)
(* Two clients.  The DAG of alice compiles a provided source, runs the      *)
(* executable on a provided input and checks the output: a failed           *)
(* compilation skips two groups in turn, and a failed one may find the      *)
(* input still to come.  The DAG of bob compiles the same source, so its    *)
(* comp2 has the cache key of alice's comp, and has a group without inputs  *)
(* and outputs that no cache mode covers.                                   *)
(***************************************************************************)
EXTENDS Scheduler

(* The constants that depend on the clients and groups of the configuration *)
MCOwner     == [g \in Group |-> IF g \in {"comp2", "probe"} THEN "bob" ELSE "alice"]
MCFileOwner == [f \in File |-> IF f \in {"src2", "exe2"} THEN "bob" ELSE "alice"]
MCProvided  == File \cap {"src", "in", "src2"}
MCDeps == [g \in Group |-> CASE g = "comp" -> {"src"}
                               [] g = "run" -> {"exe", "in"}
                               [] g = "check" -> {"out", "exe"}
                               [] g = "comp2" -> {"src2"}
                               [] g = "probe" -> {}]
MCOuts == [g \in Group |-> CASE g = "comp" -> {"exe", "log"}
                               [] g = "run" -> {"out"}
                               [] g = "comp2" -> {"exe2"}
                               [] OTHER -> {}]
MCKeyOf == [g \in Group |-> CASE g = "run" -> "krun"
                                [] g = "check" -> "kcheck"
                                [] g = "probe" -> "kprobe"
                                [] OTHER -> "kcomp"]
MCExceptTags == [c \in Client |-> IF c = "bob" THEN {"evaluation"} ELSE {}]
MCTagOf      == [g \in Group |-> IF g \in {"run", "probe"} THEN "evaluation" ELSE NoTag]
MCDagPriority == [c \in Client |-> IF c = "alice" THEN 1 ELSE 0]
MCPriority    == [g \in Group |-> IF g \in {"run", "probe"} THEN 0 ELSE 1]

MCEmptyCache == [k \in CacheKey |-> "none"]
MCFullCache  == [k \in CacheKey |-> "ok"]
MCFailCache  == [MCEmptyCache EXCEPT !["krun"] = "fail"]
MCAnyCache   == {MCEmptyCache, MCFullCache, MCFailCache}

=============================================================================
