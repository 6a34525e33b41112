--------------------------- MODULE MCClientSession ---------------------------
(***************************************************************************)
(* A task with a compilation, which needs the source, and an evaluation,     *)
(* which needs the input: the compilation produces a log and the evaluation   *)
(* an output.                                                                 *)
(***************************************************************************)
EXTENDS ClientSession

MCProvided == {"source", "input"}
MCExec     == {"compile", "eval"}
MCProduced == {"log", "output"}
MCNeeds    == [e \in MCExec |-> IF e = "compile" THEN {"source"} ELSE {"input"}]
MCProducer == [f \in MCProduced |-> IF f = "log" THEN "compile" ELSE "eval"]

=============================================================================
