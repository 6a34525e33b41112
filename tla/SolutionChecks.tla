--------------------------- MODULE SolutionChecks ---------------------------
(***************************************************************************)
(* The checks a solution carries in the comments of its source             *)
(* ("@check-wrong-answer: subtask ..."): how they are read, what they say  *)
(* of the results of a subtask, how the tool add-solution-checks chooses   *)
(* and writes them, and the scores export-solution-checks derives.         *)
(*                                                                         *)
(* A source file is the sequence of its lines.  A line that holds a check  *)
(* is a record with its result and the subtasks it names ("*" is all of    *)
(* them); of the other lines only the shebang is told apart.               *)
(***************************************************************************)
EXTENDS Integers, Sequences, FiniteSets, FiniteSetsExt, SequencesExt

\* TestcaseEvaluationResult: what can happen to a solution on a testcase.
TestcaseEvaluationResult ==
    {"Accepted", "Partial", "WrongAnswer", "TimeLimitExceeded",
     "WallTimeLimitExceeded", "MemoryLimitExceeded", "RuntimeError"}

proj(res) == CASE res = "Accepted" -> 2
               [] res = "Partial" -> 1
               [] OTHER -> 0

\* partial_cmp(res1, res2) = Less: results of the same rank are not compared.
Less(res1, res2) == proj(res1) < proj(res2)

\* SolutionCheckResult::sorted_all.
SortedAll ==
    <<"accepted", "partial-score", "wrong-answer", "time-limit-exceeded",
      "wall-time-limit-exceeded", "memory-limit-exceeded", "runtime-error",
      "zero">>

minimals(check) ==
    CASE check = "accepted" -> {"Accepted"}
      [] check = "partial-score" -> {"Partial"}
      [] check = "wrong-answer" -> {"WrongAnswer"}
      [] check = "time-limit-exceeded" -> {"TimeLimitExceeded"}
      [] check = "wall-time-limit-exceeded" -> {"WallTimeLimitExceeded"}
      [] check = "memory-limit-exceeded" -> {"MemoryLimitExceeded"}
      [] check = "runtime-error" -> {"RuntimeError"}
      [] check = "zero" -> {"WrongAnswer", "TimeLimitExceeded",
             "WallTimeLimitExceeded", "MemoryLimitExceeded", "RuntimeError"}

\* The results with no smaller one among them.
MinimalOf(outcomes) ==
    {o \in outcomes : \A p \in outcomes : ~Less(p, o)}

\* SolutionCheckResult::check on the set of the results of a subtask.
CheckHolds(check, outcomes) ==
    \/ MinimalOf(outcomes) \cap minimals(check) # {}
    \/ outcomes = {} /\ "Accepted" \in minimals(check)

\* The first check that covers every minimal result.
choose_check_for_subtask(outcomes) ==
    LET fits == {i \in DOMAIN SortedAll :
                    MinimalOf(outcomes) \subseteq minimals(SortedAll[i])}
    IN SortedAll[Min(fits)]

-----------------------------------------------------------------------------
(* Lines of a source file.                                                 *)

Shebang == [check |-> "", on |-> {}, shebang |-> TRUE]
Code == [check |-> "", on |-> {}, shebang |-> FALSE]
CheckLine(check, on) == [check |-> check, on |-> on, shebang |-> FALSE]

\* The results the regular expression EXTRACT_CHECKS accepts; a line with any
\* other one is reported as an invalid check.
Extracted == Range(SortedAll) \ {"wall-time-limit-exceeded"}

\* extract_check_list: one check for each subtask a valid line names, with
\* the number of the line (its code_span).
extract_check_list(source) ==
    UNION {{[result |-> source[i].check, pattern |-> p, line |-> i]
                : p \in source[i].on}
           : i \in {j \in DOMAIN source : source[j].check \in Extracted}}

\* The lines reported as invalid.
InvalidChecks(source) ==
    {i \in DOMAIN source : source[i].check # "" /\ source[i].check \notin Extracted}

\* The comments for a solution, given the results on each subtask: a line for
\* each chosen result, in order, with the subtasks it was chosen for.
Comments(results) ==
    LET chosen == [st \in DOMAIN results |-> choose_check_for_subtask(results[st])]
        line(c) == CheckLine(c, {st \in DOMAIN results : chosen[st] = c})
    IN SelectSeq([i \in DOMAIN SortedAll |-> line(SortedAll[i])],
                 LAMBDA l : l.on # {})

\* The comments are inserted and the old checks left where they are.
write_comments_only(source, comments, to_remove) ==
    LET first == IF source # <<>> /\ source[1].shebang THEN 1 ELSE 0
    IN SubSeq(source, 1, first) \o comments \o SubSeq(source, first + 1, Len(source))

\* write_comments_to_file: the lines of the checks to remove are dropped, the
\* comments are inserted after the shebang of the old content.
write_comments_to_file(source, comments, to_remove) ==
    LET gone == {c.line : c \in to_remove}
        kept == [i \in 1..(Len(source) - Cardinality(gone)) |->
                    source[CHOOSE j \in DOMAIN source \ gone :
                        Cardinality({k \in DOMAIN source \ gone : k <= j}) = i]]
        first == IF source # <<>> /\ source[1].shebang THEN 1 ELSE 0
    IN SubSeq(kept, 1, first) \o comments \o SubSeq(kept, first + 1, Len(kept))

-----------------------------------------------------------------------------
(* export-solution-checks.                                                 *)

\* The check a solution has for a subtask (patterns are names, or "*").
ChecksFor(checks, st) == {c \in checks : c.pattern \in {st, "*"}}

\* extract_solution_checks refuses two checks for a subtask, and patterns
\* that are neither a subtask nor "*".
ExportFails(checks, subtasks) ==
    \/ \E st \in subtasks : Cardinality(ChecksFor(checks, st)) > 1
    \/ \E c \in checks : c.pattern \notin subtasks \cup {"*"}

\* min_score and max_score: what the checks promise of the score.
MinScore(checks, max_score) ==
    MapThenSumSet(LAMBDA st : IF \E c \in ChecksFor(checks, st) : c.result = "accepted"
                              THEN max_score[st] ELSE 0,
                  DOMAIN max_score)

\* Only the accepted subtasks are counted.
MaxScoreAccepted(checks, max_score) ==
    MapThenSumSet(LAMBDA st : IF \A c \in ChecksFor(checks, st) : c.result = "accepted"
                              THEN max_score[st] ELSE 0,
                  DOMAIN max_score)

MaxScore(checks, max_score) ==
    MapThenSumSet(LAMBDA st : IF \A c \in ChecksFor(checks, st) :
                                    c.result \in {"accepted", "partial-score"}
                              THEN max_score[st] ELSE 0,
                  DOMAIN max_score)

-----------------------------------------------------------------------------
(* Sanity checks on the solutions (named subtasks, symlinks are ignored).  *)

SolutionsWithNoChecks(checks, symlinks) ==
    {s \in DOMAIN checks : checks[s] = {} /\ s \notin symlinks}

SolutionsWithSamplesCheck(checks, samples) ==
    {s \in DOMAIN checks : \E c \in checks[s] : c.pattern = samples}
=============================================================================
