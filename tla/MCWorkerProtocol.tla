-------------------------- MODULE MCWorkerProtocol --------------------------
(***************************************************************************)
(* A compilation, an evaluation whose two inputs have the same content and    *)
(* whose output the server may have, and a check of the two.                  *)
(***************************************************************************)
EXTENDS WorkerProtocol

MCJob  == {"compile", "eval", "check"}
MCFile == {"source", "input", "correct", "exe", "log", "stdout", "score"}
MCKey  == {"main", "text", "empty", "binary"}

MCDeps  == [j \in MCJob |-> CASE j = "compile" -> {"source"}
                              [] j = "eval"    -> {"input", "correct"}
                              [] j = "check"   -> {"source", "input"}]
MCOuts  == [j \in MCJob |-> CASE j = "compile" -> {"exe", "log"}
                              [] j = "eval"    -> {"stdout", "log"}
                              [] j = "check"   -> {"score"}]
MCKeyOf == [f \in MCFile |-> CASE f = "source" -> "main"
                               [] f \in {"input", "correct"} -> "text"
                               [] f = "exe" -> "binary"
                               [] f \in {"log", "stdout", "score"} -> "empty"]

=============================================================================
