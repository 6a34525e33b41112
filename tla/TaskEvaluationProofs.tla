------------------------ MODULE TaskEvaluationProofs ------------------------
(***************************************************************************)
(* Proofs about the evaluation of a task (TaskEvaluation), for every task  *)
(* the parsers make, every result of its executions and every order in     *)
(* which they end.                                                         *)
(*                                                                         *)
(*   ValidInputs          solutions run on validated inputs only           *)
(*   FailuresAreShown     a step that failed is shown as Failed            *)
(*   ScoresAreRight       the score shown is the one deserved              *)
(*   VerdictsMatchScores  what is shown of a testcase agrees with it       *)
(*                                                                         *)
(* ExecInv says what the executions may be, UiOk which shape the UI state  *)
(* has.  On top of them ShownInv relates what is shown of a testcase to    *)
(* its steps, which depend on each other in a chain, and ScoreInv relates  *)
(* the score managers and the verdicts to the results.                     *)
(***************************************************************************)
EXTENDS TaskEvaluation, FiniteSetTheorems, WellFoundedInduction, TLAPS

-----------------------------------------------------------------------------
(* The groups of an IOI task. *)

LEMMA OwnerFacts ==
    ASSUME NEW t, IsIoiTask(t), NEW tc \in Testcases(t)
    PROVE  /\ OwnerOf(t, tc) \in Subtasks(t)
           /\ tc \in t.subtasks[OwnerOf(t, tc)].owned
           /\ tc \in t.subtasks[OwnerOf(t, tc)].testcases
           /\ \A st \in Subtasks(t) : tc \in t.subtasks[st].owned => st = OwnerOf(t, tc)
<1>1. \E st \in Subtasks(t) : tc \in t.subtasks[st].owned
  BY DEF Testcases
<1>2. PICK o : o = OwnerOf(t, tc)
  OBVIOUS
<1>3. o \in Subtasks(t) /\ tc \in t.subtasks[o].owned
  BY <1>1, <1>2 DEF OwnerOf
<1> QED BY <1>2, <1>3 DEF IsIoiTask

\* The groups of each kind.
Compiles(t) == {<<"compile", f>> : f \in t.compiled}
Generates(t) == {<<"generate", tc>> : tc \in {tc \in Testcases(t) : t.generator[tc] = "custom"}}
Validates(t) ==
    UNION {{<<"validate", st, tc>> : tc \in t.subtasks[st].testcases} :
            st \in {st \in Subtasks(t) : t.subtasks[st].validator}}
Solves(t) == {<<"solve", tc>> : tc \in {tc \in Testcases(t) : t.output[tc] = "custom"}}
Evaluates(t) == {<<"evaluate", s, tc>> : s \in t.solutions, tc \in Testcases(t)}
Checks(t) == IF t.type = "batch" THEN {<<"check", s, tc>> : s \in t.solutions, tc \in Testcases(t)} ELSE {}

Runs(t) == Generates(t) \cup Validates(t) \cup Solves(t) \cup Evaluates(t) \cup Checks(t)

LEMMA RunsFacts ==
    ASSUME NEW t, IsIoiTask(t)
    PROVE  IoiGroups(t) = Runs(t) \cup (UNION {Inputs(t, g) : g \in Runs(t)}) \cup prepare_dag(t)
<1> DEFINE Of(tc) == InputOf(t, tc) \cup OutputOf(t, tc)
                        \cup {<<"evaluate", s, tc>> : s \in t.solutions}
                        \cup IF t.type = "batch" THEN {<<"check", s, tc>> : s \in t.solutions}
                             ELSE {}
<1> DEFINE All == (UNION {Of(tc) : tc \in Testcases(t)})
                \cup (UNION {UNION {Validation(t, st, tc) : tc \in t.subtasks[st].testcases}
                            : st \in Subtasks(t)})
<1>1. UNION {Of(tc) : tc \in Testcases(t)} = Generates(t) \cup Solves(t) \cup Evaluates(t) \cup Checks(t)
  <2> DEFINE Four == Generates(t) \cup Solves(t) \cup Evaluates(t) \cup Checks(t)
  <2>1. ASSUME NEW tc \in Testcases(t) PROVE Of(tc) \subseteq Four
    <3>1. InputOf(t, tc) \subseteq Generates(t) /\ OutputOf(t, tc) \subseteq Solves(t)
      BY DEF InputOf, OutputOf, Generates, Solves
    <3>2. {<<"evaluate", s, tc>> : s \in t.solutions} \subseteq Evaluates(t)
      BY DEF Evaluates
    <3>3. t.type = "batch" => {<<"check", s, tc>> : s \in t.solutions} \subseteq Checks(t)
      BY DEF Checks
    <3> QED BY <3>1, <3>2, <3>3
  <2>2. ASSUME NEW g \in Four PROVE \E tc \in Testcases(t) : g \in Of(tc)
    <3>1. g \in Generates(t) => \E tc \in Testcases(t) : g \in InputOf(t, tc)
      BY DEF InputOf, Generates
    <3>2. g \in Solves(t) => \E tc \in Testcases(t) : g \in OutputOf(t, tc)
      BY DEF OutputOf, Solves
    <3>3. g \in Evaluates(t) => \E tc \in Testcases(t) : g \in {<<"evaluate", s, tc>> : s \in t.solutions}
      BY DEF Evaluates
    <3>4. g \in Checks(t) => /\ t.type = "batch"
                             /\ \E tc \in Testcases(t) : g \in {<<"check", s, tc>> : s \in t.solutions}
      BY DEF Checks
    <3> QED BY <2>2, <3>1, <3>2, <3>3, <3>4
  <2> QED BY <2>1, <2>2
<1>2. UNION {UNION {Validation(t, st, tc) : tc \in t.subtasks[st].testcases} : st \in Subtasks(t)}
        = Validates(t)
  BY DEF Validation, Validates
<1>3. All = Runs(t)
  BY <1>1, <1>2 DEF Runs
<1>4. IoiGroups(t) = All \cup (UNION {Inputs(t, g) : g \in All}) \cup prepare_dag(t)
  BY DEF IoiGroups
<1> QED BY <1>3, <1>4

\* What a group of each kind waits for.
LEMMA InputsByKind ==
    ASSUME NEW t
    PROVE  /\ \A f : Inputs(t, <<"compile", f>>) = {}
           /\ \A tc : Inputs(t, <<"generate", tc>>) = GeneratorInputs(t, tc)
           /\ \A st, tc : Inputs(t, <<"validate", st, tc>>) = ValidatorInputs(t, tc)
           /\ \A tc : Inputs(t, <<"solve", tc>>) = OutputInputs(t, tc)
           /\ \A s, tc : Inputs(t, <<"check", s, tc>>) = CheckerInputs(t, s, tc)
           /\ \A s, tc : Inputs(t, <<"evaluate", s, tc>>) =
                CASE t.type = "batch" -> BatchInputs(t, s, tc)
                  [] t.type = "communication" -> CommunicationInputs(t, s, tc)
                  [] t.type = "interactive" -> InteractiveInputs(t, s, tc)
  BY DEF Inputs

LEMMA EvaluationInputs ==
    ASSUME NEW t, IsIoiTask(t), NEW s, NEW tc
    PROVE  /\ InputOf(t, tc) \cup ValidationHandle(t, tc) \subseteq Inputs(t, <<"evaluate", s, tc>>)
           /\ Inputs(t, <<"evaluate", s, tc>>)
                \subseteq prepare(t, s) \cup prepare(t, "scorer") \cup InputOf(t, tc) \cup ValidationHandle(t, tc)
<1>1. t.type \in {"batch", "communication", "interactive"}
  BY DEF IsIoiTask
<1>2. CASE t.type = "batch"
  <2>1. Inputs(t, <<"evaluate", s, tc>>) = BatchInputs(t, s, tc)
    BY <1>2, InputsByKind
  <2> QED BY <2>1 DEF BatchInputs, BoundIo
<1>3. CASE t.type = "communication"
  <2>1. Inputs(t, <<"evaluate", s, tc>>) = CommunicationInputs(t, s, tc)
    BY <1>3, InputsByKind
  <2> QED BY <2>1 DEF CommunicationInputs, BoundIo
<1>4. CASE t.type = "interactive"
  <2>1. Inputs(t, <<"evaluate", s, tc>>) = InteractiveInputs(t, s, tc)
    BY <1>4, InputsByKind
  <2> QED BY <2>1 DEF InteractiveInputs
<1> QED BY <1>1, <1>2, <1>3, <1>4

LEMMA StepGroups ==
    ASSUME NEW t, IsIoiTask(t)
    PROVE  /\ \A f : prepare(t, f) \subseteq Compiles(t)
           /\ prepare_dag(t) \subseteq Compiles(t)
           /\ \A tc \in Testcases(t) :
                /\ InputOf(t, tc) \subseteq Generates(t)
                /\ ValidationHandle(t, tc) \subseteq Validates(t)
                /\ OutputOf(t, tc) \subseteq Solves(t)
<1>1. \A f : prepare(t, f) \subseteq Compiles(t)
  BY DEF prepare, Compiles
<1>2. prepare_dag(t) \subseteq Compiles(t)
  BY <1>1 DEF prepare_dag
<1>3. ASSUME NEW tc \in Testcases(t)
      PROVE  InputOf(t, tc) \subseteq Generates(t) /\ OutputOf(t, tc) \subseteq Solves(t)
  BY DEF InputOf, OutputOf, Generates, Solves
<1>4. ASSUME NEW tc \in Testcases(t)
      PROVE  ValidationHandle(t, tc) \subseteq Validates(t)
  BY OwnerFacts DEF ValidationHandle, Validation, Validates
<1> QED BY <1>1, <1>2, <1>3, <1>4

LEMMA InputsOfRuns ==
    ASSUME NEW t, IsIoiTask(t), NEW g \in Runs(t)
    PROVE  Inputs(t, g) \subseteq Runs(t) \cup Compiles(t)
<1>1. CASE g \in Generates(t)
  <2>1. PICK tc \in Testcases(t) : g = <<"generate", tc>>
    BY <1>1 DEF Generates
  <2> QED BY <2>1, InputsByKind, StepGroups DEF GeneratorInputs
<1>2. CASE g \in Validates(t)
  <2>1. PICK st \in Subtasks(t) : \E tc \in t.subtasks[st].testcases : g = <<"validate", st, tc>>
    BY <1>2 DEF Validates
  <2>0. PICK tc \in t.subtasks[st].testcases : g = <<"validate", st, tc>>
    BY <2>1
  <2>2. tc \in Testcases(t)
    BY DEF IsIoiTask
  <2>3. Inputs(t, g) = ValidatorInputs(t, tc)
    BY <2>0, InputsByKind
  <2> QED BY <2>2, <2>3, StepGroups DEF ValidatorInputs, Runs
<1>3. CASE g \in Solves(t)
  <2>1. PICK tc \in Testcases(t) : g = <<"solve", tc>>
    BY <1>3 DEF Solves
  <2>2. Inputs(t, g) = OutputInputs(t, tc)
    BY <2>1, InputsByKind
  <2> QED BY <2>2, StepGroups DEF OutputInputs, BoundIo, Runs
<1>4. CASE g \in Evaluates(t)
  <2>1. PICK s \in t.solutions, tc \in Testcases(t) : g = <<"evaluate", s, tc>>
    BY <1>4 DEF Evaluates
  <2>2. Inputs(t, g) \subseteq prepare(t, s) \cup prepare(t, "scorer") \cup InputOf(t, tc) \cup ValidationHandle(t, tc)
    BY <2>1, EvaluationInputs
  <2> QED BY <2>2, StepGroups DEF Runs
<1>5. CASE g \in Checks(t)
  <2>1. PICK s \in t.solutions, tc \in Testcases(t) : g = <<"check", s, tc>>
    BY <1>5 DEF Checks
  <2>2. Inputs(t, g) = CheckerInputs(t, s, tc)
    BY <2>1, InputsByKind
  <2>3. <<"evaluate", s, tc>> \in Evaluates(t)
    BY DEF Evaluates
  <2> QED BY <2>2, <2>3, StepGroups DEF CheckerInputs, Runs
<1> QED BY <1>1, <1>2, <1>3, <1>4, <1>5 DEF Runs

LEMMA GroupsByKind ==
    ASSUME NEW t, IsIoiTask(t)
    PROVE  Runs(t) \subseteq IoiGroups(t) /\ IoiGroups(t) \subseteq Runs(t) \cup Compiles(t)
  BY RunsFacts, InputsOfRuns, StepGroups

LEMMA KindOfGroup ==
    ASSUME NEW t, IsIoiTask(t), NEW g \in IoiGroups(t)
    PROVE  /\ g[1] \in {"compile", "generate", "validate", "solve", "evaluate", "check"}
           /\ g[1] = "compile" => g \in Compiles(t)
           /\ g[1] = "generate" => g \in Generates(t)
           /\ g[1] = "validate" => g \in Validates(t)
           /\ g[1] = "solve" => g \in Solves(t)
           /\ g[1] = "evaluate" => g \in Evaluates(t)
           /\ g[1] = "check" => g \in Checks(t)
<1>1. g \in Compiles(t) => g[1] = "compile"
  BY DEF Compiles
<1>2. g \in Generates(t) => g[1] = "generate"
  BY DEF Generates
<1>3. g \in Validates(t) => g[1] = "validate"
  BY DEF Validates
<1>4. g \in Solves(t) => g[1] = "solve"
  BY DEF Solves
<1>5. g \in Evaluates(t) => g[1] = "evaluate"
  BY DEF Evaluates
<1>6. g \in Checks(t) => g[1] = "check"
  BY DEF Checks
<1> QED BY <1>1, <1>2, <1>3, <1>4, <1>5, <1>6, GroupsByKind DEF Runs

-----------------------------------------------------------------------------
(* The groups of a Terry task. *)

TerryKinds(t) == {"generate", "solve", "check"} \cup IF t.validator THEN {"validate"} ELSE {}
TerrySteps(t) == TerryKinds(t) \X t.solutions
Fuzz(t) == IF t.bad_outputs = {} THEN {}
           ELSE {<<"fuzz_generate", "seed">>} \cup {<<"fuzz_check", o>> : o \in t.bad_outputs}

LEMMA TerryInputsByKind ==
    ASSUME NEW t
    PROVE  /\ \A f : TerryInputs(t, <<"compile", f>>) = {}
           /\ \A s : TerryInputs(t, <<"generate", s>>) = TerryGenerateInputs(t)
           /\ \A s : TerryInputs(t, <<"validate", s>>) = TerryValidateInputs(t, s)
           /\ \A s : TerryInputs(t, <<"solve", s>>) = TerrySolveInputs(t, s)
           /\ \A s : TerryInputs(t, <<"check", s>>) = TerryCheckInputs(t, s)
           /\ \A s : TerryInputs(t, <<"fuzz_generate", s>>) = TerryGenerateInputs(t)
           /\ \A o : TerryInputs(t, <<"fuzz_check", o>>) =
                prepare(t, "checker") \cup IncludeOfficial(t) \cup {<<"fuzz_generate", "seed">>}
  BY DEF TerryInputs, FuzzInputs

LEMMA TerryInputsOfSteps ==
    ASSUME NEW t, IsTerryTask(t), NEW g \in TerrySteps(t)
    PROVE  TerryInputs(t, g) \subseteq TerrySteps(t) \cup Compiles(t)
<1>1. \A f : prepare(t, f) \subseteq Compiles(t)
  BY DEF prepare, Compiles
<1>2. IncludeOfficial(t) \subseteq Compiles(t)
  BY <1>1 DEF IncludeOfficial
<1>3. PICK k \in TerryKinds(t), s \in t.solutions : g = <<k, s>>
  BY DEF TerrySteps
<1>4. \A j \in TerryKinds(t) : <<j, s>> \in TerrySteps(t)
  BY DEF TerrySteps
<1>5. CASE k = "generate"
  BY <1>1, <1>2, <1>3, <1>5, TerryInputsByKind DEF TerryGenerateInputs
<1>6. CASE k = "validate"
  <2>1. TerryInputs(t, g) = TerryValidateInputs(t, s)
    BY <1>3, <1>6, TerryInputsByKind
  <2> QED BY <1>1, <1>2, <1>4, <2>1 DEF TerryValidateInputs, TerryKinds
<1>7. CASE k = "solve"
  <2>1. TerryInputs(t, g) = TerrySolveInputs(t, s)
    BY <1>3, <1>7, TerryInputsByKind
  <2> QED BY <1>1, <1>4, <2>1 DEF TerrySolveInputs, TerryKinds
<1>8. CASE k = "check"
  <2>1. TerryInputs(t, g) = TerryCheckInputs(t, s)
    BY <1>3, <1>8, TerryInputsByKind
  <2> QED BY <1>1, <1>2, <1>4, <2>1 DEF TerryCheckInputs, TerryKinds
<1> QED BY <1>5, <1>6, <1>7, <1>8 DEF TerryKinds

LEMMA TerryGroupsByKind ==
    ASSUME NEW t, IsTerryTask(t)
    PROVE  /\ TerrySteps(t) \subseteq TerryGroups(t)
           /\ TerryGroups(t) \subseteq TerrySteps(t) \cup Fuzz(t) \cup Compiles(t)
<1>1. TerryGroups(t) = (TerrySteps(t) \cup Fuzz(t))
                        \cup (UNION {TerryInputs(t, g) : g \in TerrySteps(t) \cup Fuzz(t)})
  BY DEF TerryGroups, TerrySteps, TerryKinds, Fuzz
<1>2. \A f : prepare(t, f) \subseteq Compiles(t)
  BY DEF prepare, Compiles
<1>3. IncludeOfficial(t) \subseteq Compiles(t)
  BY <1>2 DEF IncludeOfficial
<1>4. ASSUME NEW g \in Fuzz(t) PROVE TerryInputs(t, g) \subseteq Fuzz(t) \cup Compiles(t)
  <2>1. <<"fuzz_generate", "seed">> \in Fuzz(t)
    BY DEF Fuzz
  <2>2. CASE g = <<"fuzz_generate", "seed">>
    <3>1. TerryInputs(t, g) = TerryGenerateInputs(t)
      BY <2>2, TerryInputsByKind
    <3> QED BY <1>2, <1>3, <3>1 DEF TerryGenerateInputs
  <2>3. ASSUME NEW o, g = <<"fuzz_check", o>> PROVE TerryInputs(t, g) \subseteq Fuzz(t) \cup Compiles(t)
    <3>1. TerryInputs(t, g) = prepare(t, "checker") \cup IncludeOfficial(t) \cup {<<"fuzz_generate", "seed">>}
      BY <2>3, TerryInputsByKind
    <3> QED BY <1>2, <1>3, <2>1, <3>1
  <2> QED BY <2>2, <2>3 DEF Fuzz
<1> QED BY <1>1, <1>4, TerryInputsOfSteps

LEMMA TerryKindOfGroup ==
    ASSUME NEW t, IsTerryTask(t), NEW g \in TerryGroups(t)
    PROVE  /\ g[1] \in {"compile", "generate", "validate", "solve", "check", "fuzz_generate", "fuzz_check"}
           /\ g[1] \in {"generate", "validate", "solve", "check"} =>
                /\ g = <<g[1], g[2]>> /\ g[2] \in t.solutions
                /\ g[1] = "validate" => t.validator
<1>1. g \in Compiles(t) => g[1] = "compile"
  BY DEF Compiles
<1>2. g \in Fuzz(t) => g[1] \in {"fuzz_generate", "fuzz_check"}
  BY DEF Fuzz
<1>3. ASSUME g \in TerrySteps(t)
      PROVE  /\ g[1] \in {"generate", "validate", "solve", "check"}
             /\ g = <<g[1], g[2]>> /\ g[2] \in t.solutions
             /\ g[1] = "validate" => t.validator
  <2>1. PICK k \in TerryKinds(t), s \in t.solutions : g = <<k, s>>
    BY <1>3 DEF TerrySteps
  <2>2. g[1] = k /\ g[2] = s
    BY <2>1
  <2> QED BY <2>1, <2>2 DEF TerryKinds
<1> QED BY <1>1, <1>2, <1>3, TerryGroupsByKind

-----------------------------------------------------------------------------
(* The executions. *)

ExecOk(g) ==
    /\ DOMAIN exec[g] = {"state", "res", "out"}
    /\ exec[g].state \in {"pending", "started", "done", "skipped"}
    /\ exec[g].state \in {"started", "done"} => \A h \in InputsOf(g) \cap DOMAIN exec : Succeeded(h)
    /\ exec[g].state = "done" => exec[g].res \in Results(g) /\ exec[g].out \in Outputs(g)

ExecInv ==
    /\ task \in Tasks
    /\ Running => DOMAIN exec = Groups /\ \A g \in DOMAIN exec : ExecOk(g)
    /\ Over => \A g \in DOMAIN exec : Ended(g)

\* What a step of a group does to the executions: the group had not ended,
\* and no other one changes.
Moved(g) ==
    /\ exec[g].state \in {"pending", "started"}
    /\ DOMAIN exec' = DOMAIN exec
    /\ \A h \in DOMAIN exec : h # g => exec'[h] = exec[h]
    /\ DOMAIN exec'[g] = {"state", "res", "out"}

LEMMA SameTask ==
    ASSUME task' = task
    PROVE  /\ IsIoi' = IsIoi /\ Groups' = Groups
           /\ \A g : InputsOf(g)' = InputsOf(g) /\ Results(g)' = Results(g) /\ Outputs(g)' = Outputs(g)
  BY DEF IsIoi, Groups, InputsOf, Results, Outputs

LEMMA StartFacts ==
    ASSUME ExecInv, NEW g \in DOMAIN exec, Start(g)
    PROVE  /\ Moved(g) /\ exec'[g].state = "started" /\ exec[g].state = "pending"
           /\ phase = "running" /\ phase' = "running" /\ UNCHANGED <<task, manager, source>>
           /\ \A h \in InputsOf(g) : Succeeded(h)
           /\ ui' = Apply(ui, g, "started", <<>>)
<1>1. ExecOk(g)
  BY DEF ExecInv, Start, Running
<1> QED BY <1>1 DEF Start, ExecOk, Moved

LEMMA SkipFacts ==
    ASSUME ExecInv, NEW g \in DOMAIN exec, Skip(g)
    PROVE  /\ Moved(g) /\ exec'[g].state = "skipped" /\ exec[g].state = "pending"
           /\ phase = "running" /\ phase' = "running" /\ UNCHANGED <<task, manager, source>>
           /\ ui' = Apply(ui, g, "skipped", <<>>)
<1>1. ExecOk(g)
  BY DEF ExecInv, Skip, Running
<1> QED BY <1>1 DEF Skip, ExecOk, Moved

LEMMA DoneIoiPhase ==
    ASSUME NEW g, NEW res, NEW out, DoneIoi(g, res, out)
    PROVE  phase' \in {phase, "failed"}
  BY DEF DoneIoi

LEMMA DoneFacts ==
    ASSUME ExecInv, NEW g \in DOMAIN exec, Done(g)
    PROVE  /\ Moved(g) /\ exec'[g].state = "done"
           /\ exec'[g].res \in Results(g) /\ exec'[g].out \in Outputs(g)
           /\ phase = "running" /\ phase' \in {"running", "failed"} /\ UNCHANGED <<task, source>>
           /\ \A h \in InputsOf(g) : Succeeded(h)
           /\ IF IsIoi THEN DoneIoi(g, exec'[g].res, exec'[g].out)
              ELSE /\ ui' = TerryDone(task, Apply(ui, g, "done", exec'[g].res), g, exec'[g].res, exec'[g].out)
                   /\ UNCHANGED <<manager, phase>>
<1>1. /\ phase = "running" /\ exec[g].state \in {"pending", "started"} /\ UNCHANGED <<task, source>>
      /\ \A h \in InputsOf(g) : Succeeded(h)
  BY DEF Done
<1>2. PICK res \in Results(g), out \in Outputs(g) :
        /\ exec' = [exec EXCEPT ![g] = [state |-> "done", res |-> res, out |-> out]]
        /\ IF IsIoi THEN DoneIoi(g, res, out)
           ELSE ui' = TerryDone(task, Apply(ui, g, "done", res), g, res, out)
                /\ UNCHANGED <<manager, phase>>
  BY DEF Done
<1>3. phase' \in {"running", "failed"}
  BY <1>1, <1>2, DoneIoiPhase
<1>4. exec'[g].state = "done" /\ exec'[g].res = res /\ exec'[g].out = out
  BY <1>2
<1>5. Moved(g)
  BY <1>1, <1>2 DEF Moved
<1> QED BY <1>1, <1>2, <1>3, <1>4, <1>5

\* What has ended stays as it is.
LEMMA EndedStays ==
    ASSUME NEW g, Moved(g)
    PROVE  \A h \in DOMAIN exec :
                /\ Ended(h) => exec'[h] = exec[h]
                /\ Succeeded(h) => Succeeded(h)'
                /\ Failed(h) => Failed(h)'
                /\ h # g => /\ Succeeded(h)' <=> Succeeded(h)
                            /\ Failed(h)' <=> Failed(h)
  BY DEF Moved, Ended, Succeeded, Failed

\* The inputs a group waited for, in the next state.
LEMMA MovedOk ==
    ASSUME ExecInv, NEW g \in DOMAIN exec, Moved(g), task' = task, phase = "running",
           exec'[g].state \in {"pending", "started", "done", "skipped"},
           exec'[g].state \in {"started", "done"} => \A h \in InputsOf(g) : Succeeded(h),
           exec'[g].state = "done" => exec'[g].res \in Results(g) /\ exec'[g].out \in Outputs(g)
    PROVE  DOMAIN exec' = Groups' /\ \A h \in DOMAIN exec' : ExecOk(h)'
<1>1. DOMAIN exec = Groups /\ DOMAIN exec' = DOMAIN exec /\ \A h \in DOMAIN exec : ExecOk(h)
  BY DEF ExecInv, Running, Moved
<1>2. Groups' = Groups /\ \A h : /\ InputsOf(h)' = InputsOf(h)
                                /\ Results(h)' = Results(h) /\ Outputs(h)' = Outputs(h)
  BY SameTask
<1>3. \A h \in DOMAIN exec : Succeeded(h) => Succeeded(h)'
  BY EndedStays
<1>4. ASSUME NEW h \in DOMAIN exec PROVE ExecOk(h)'
  <2>1. CASE h = g
    <3>1. DOMAIN exec'[g] = {"state", "res", "out"}
      BY DEF Moved
    <3> QED BY <1>1, <1>2, <1>3, <2>1, <3>1 DEF ExecOk
  <2>2. CASE h # g
    <3>1. exec'[h] = exec[h] /\ ExecOk(h)
      BY <1>1, <2>2 DEF Moved
    <3> QED BY <1>1, <1>2, <1>3, <3>1 DEF ExecOk
  <2> QED BY <2>1, <2>2
<1> QED BY <1>1, <1>2, <1>4

LEMMA BuildFacts ==
    ASSUME ExecInv, Build, phase' # "failed"
    PROVE  /\ phase' = "running" /\ UNCHANGED <<task, source>> /\ DOMAIN exec' = Groups
           /\ \A g \in Groups : exec'[g] = Waiting
  BY DEF Build

LEMMA ExecInit == Init => ExecInv
  BY DEF Init, ExecInv, Running, Over

LEMMA ExecNext == ExecInv /\ [Next]_vars => ExecInv'
<1> SUFFICES ASSUME ExecInv, [Next]_vars PROVE ExecInv'
  OBVIOUS
<1>1. CASE Build
  <2>1. task' = task /\ phase' \in {"failed", "running"}
    BY <1>1 DEF Build
  <2>2. CASE phase' = "failed"
    BY <2>1, <2>2 DEF ExecInv, Running, Over
  <2>3. CASE phase' # "failed"
    <3>1. Groups' = Groups /\ DOMAIN exec' = Groups /\ \A g \in Groups : exec'[g] = Waiting
      BY <1>1, <2>1, <2>3, BuildFacts, SameTask
    <3>2. \A g \in DOMAIN exec' : ExecOk(g)'
      BY <3>1 DEF ExecOk, Waiting
    <3> QED BY <2>1, <2>3, <3>1, <3>2 DEF ExecInv, Running, Over
  <2> QED BY <2>2, <2>3
<1>2. ASSUME NEW g \in DOMAIN exec, Start(g) PROVE ExecInv'
  <2>1. DOMAIN exec' = Groups' /\ \A h \in DOMAIN exec' : ExecOk(h)'
    BY <1>2, StartFacts, MovedOk
  <2> QED BY <1>2, <2>1, StartFacts DEF ExecInv, Over
<1>3. ASSUME NEW g \in DOMAIN exec, Done(g) PROVE ExecInv'
  <2>1. DOMAIN exec' = Groups' /\ \A h \in DOMAIN exec' : ExecOk(h)'
    BY <1>3, DoneFacts, MovedOk
  <2> QED BY <1>3, <2>1, DoneFacts DEF ExecInv, Over
<1>4. ASSUME NEW g \in DOMAIN exec, Skip(g) PROVE ExecInv'
  <2>1. DOMAIN exec' = Groups' /\ \A h \in DOMAIN exec' : ExecOk(h)'
    BY <1>4, SkipFacts, MovedOk
  <2> QED BY <1>4, <2>1, SkipFacts DEF ExecInv, Over
<1>5. CASE UNCHANGED <<task, exec>> /\ (Running' => Running) /\ (Over' => \A g \in DOMAIN exec : Ended(g))
  <2>1. Groups' = Groups /\ \A h : /\ InputsOf(h)' = InputsOf(h)
                                  /\ Results(h)' = Results(h) /\ Outputs(h)' = Outputs(h)
    BY <1>5, SameTask
  <2>2. \A h : (Succeeded(h)' <=> Succeeded(h)) /\ (Ended(h)' <=> Ended(h))
    BY <1>5 DEF Succeeded, Ended
  <2>3. \A h : ExecOk(h) => ExecOk(h)'
    BY <1>5, <2>1, <2>2 DEF ExecOk
  <2> QED BY <1>5, <2>1, <2>2, <2>3 DEF ExecInv
<1>6. CASE Finish
  BY <1>5, <1>6 DEF Finish, Running
<1>7. CASE AddSolutionChecks
  BY <1>5, <1>7 DEF AddSolutionChecks, Running, Over, ExecInv
<1>8. CASE UNCHANGED vars
  BY <1>5, <1>8 DEF vars, Running, Over, ExecInv
<1> QED BY <1>1, <1>2, <1>3, <1>4, <1>6, <1>7, <1>8 DEF Next

LEMMA WhichTask ==
    ASSUME task \in Tasks
    PROVE  /\ IsIoi => IsIoiTask(task) /\ Groups = IoiGroups(task) /\ \A g : InputsOf(g) = Inputs(task, g)
           /\ ~IsIoi => IsTerryTask(task) /\ Groups = TerryGroups(task) /\ \A g : InputsOf(g) = TerryInputs(task, g)
<1>1. IsIoi => IsIoiTask(task)
  BY TasksAssumption DEF IsIoi, IsTerryTask
<1>2. ~IsIoi => IsTerryTask(task)
  BY TasksAssumption DEF IsIoi, IsIoiTask
<1> QED BY <1>1, <1>2 DEF Groups, InputsOf

LEMMA ValidationIsHandle ==
    ASSUME NEW t, IsIoiTask(t), NEW tc \in Testcases(t),
           <<"validate", OwnerOf(t, tc), tc>> \in IoiGroups(t)
    PROVE  ValidationHandle(t, tc) = {<<"validate", OwnerOf(t, tc), tc>>}
<1>1. PICK o : o = OwnerOf(t, tc)
  OBVIOUS
<1>2. PICK v : v = <<"validate", o, tc>>
  OBVIOUS
<1>3. v \in Validates(t)
  BY <1>1, <1>2, KindOfGroup
<1>4. t.subtasks[o].validator
  BY <1>2, <1>3 DEF Validates
<1> QED BY <1>1, <1>4 DEF ValidationHandle, Validation

LEMMA ExecImpliesValid == ExecInv => OnlyValidInputs
<1> SUFFICES ASSUME ExecInv, Running, NEW g \in DOMAIN exec,
                    g[1] \in {"solve", "evaluate"}, exec[g].state \in {"started", "done"}
             PROVE  LET v == CASE ~IsIoi -> <<"validate", g[2]>>
                               [] IsIoi /\ g[1] = "solve" -> <<"validate", OwnerOf(task, g[2]), g[2]>>
                               [] IsIoi /\ g[1] = "evaluate" -> <<"validate", OwnerOf(task, g[3]), g[3]>>
                    IN v \in DOMAIN exec => Succeeded(v)
  BY DEF OnlyValidInputs
<1>1. DOMAIN exec = Groups /\ \A h \in InputsOf(g) \cap DOMAIN exec : Succeeded(h)
  BY DEF ExecInv, ExecOk
<1>0. task \in Tasks
  BY DEF ExecInv
<1>2. CASE ~IsIoi
  <2>1. IsTerryTask(task) /\ g \in TerryGroups(task) /\ InputsOf(g) = TerryInputs(task, g)
    BY <1>0, <1>1, <1>2, WhichTask
  <2>2. g[1] = "solve" /\ g = <<"solve", g[2]>> /\ g[2] \in task.solutions
    BY <2>1, TerryKindOfGroup
  <2>3. PICK s : s = g[2]
    OBVIOUS
  <2>4. InputsOf(g) = TerrySolveInputs(task, s)
    BY <2>1, <2>2, <2>3, TerryInputsByKind
  <2>5. ASSUME <<"validate", s>> \in DOMAIN exec PROVE Succeeded(<<"validate", s>>)
    <3>1. PICK v : v = <<"validate", s>>
      OBVIOUS
    <3>2. v \in TerryGroups(task) /\ v[1] = "validate"
      BY <1>0, <1>1, <1>2, <2>5, <3>1, WhichTask
    <3>3. task.validator
      BY <2>1, <3>2, TerryKindOfGroup
    <3>4. v \in InputsOf(g)
      BY <2>4, <3>1, <3>3 DEF TerrySolveInputs
    <3> QED BY <1>1, <2>5, <3>1, <3>4
  <2> QED BY <1>2, <2>3, <2>5
<1>3. CASE IsIoi
  <2>1. IsIoiTask(task) /\ Groups = IoiGroups(task) /\ InputsOf(g) = Inputs(task, g)
    BY <1>0, <1>3, WhichTask
  <2>2. PICK tc : /\ tc \in Testcases(task)
                  /\ g[1] = "solve" => tc = g[2] /\ g = <<"solve", tc>>
                  /\ g[1] = "evaluate" => tc = g[3] /\ g = <<"evaluate", g[2], tc>>
    <3>1. CASE g[1] = "solve"
      <4>1. g \in Solves(task)
        BY <1>1, <2>1, <3>1, KindOfGroup
      <4>2. PICK tc \in Testcases(task) : g = <<"solve", tc>>
        BY <4>1 DEF Solves
      <4> QED BY <3>1, <4>2
    <3>2. CASE g[1] = "evaluate"
      <4>1. g \in Evaluates(task)
        BY <1>1, <2>1, <3>2, KindOfGroup
      <4>2. PICK s \in task.solutions, tc \in Testcases(task) : g = <<"evaluate", s, tc>>
        BY <4>1 DEF Evaluates
      <4> QED BY <3>2, <4>2
    <3> QED BY <3>1, <3>2
  <2>3. ValidationHandle(task, tc) \subseteq InputsOf(g)
    <3>1. CASE g[1] = "solve"
      <4>1. InputsOf(g) = OutputInputs(task, tc)
        BY <2>1, <2>2, <3>1, InputsByKind
      <4> QED BY <4>1 DEF OutputInputs, BoundIo
    <3>2. CASE g[1] = "evaluate"
      BY <2>1, <2>2, <3>2, EvaluationInputs
    <3> QED BY <3>1, <3>2
  <2>4. ASSUME <<"validate", OwnerOf(task, tc), tc>> \in DOMAIN exec
        PROVE  Succeeded(<<"validate", OwnerOf(task, tc), tc>>)
    <3>1. ValidationHandle(task, tc) = {<<"validate", OwnerOf(task, tc), tc>>}
      BY <1>1, <2>1, <2>2, <2>4, ValidationIsHandle
    <3> QED BY <1>1, <2>3, <2>4, <3>1
  <2> QED BY <1>3, <2>2, <2>4
<1> QED BY <1>2, <1>3

\* No solution, official or not, runs on an input before the validator of its
\* subtask has accepted it: the validation is one of the inputs of the group
\* (validation_handle), and a group starts when its inputs are there.
THEOREM ValidInputs == Spec => []OnlyValidInputs
<1>1. ExecInv => OnlyValidInputs
  BY ExecImpliesValid
<1> QED BY <1>1, ExecInit, ExecNext, PTL DEF Spec

-----------------------------------------------------------------------------
(* The UI state of an IOI task. *)

IoiUi(t, u) ==
    /\ DOMAIN u = {"compilations", "generations", "testcases", "subtasks", "score", "diagnostics"}
    /\ DOMAIN u.generations = Testcases(t)
    /\ DOMAIN u.testcases = t.solutions
    /\ \A s \in t.solutions :
        /\ DOMAIN u.testcases[s] = Testcases(t)
        /\ \A tc \in Testcases(t) : DOMAIN u.testcases[s][tc] = {"status", "score", "results"}
    /\ DOMAIN u.subtasks = t.solutions /\ DOMAIN u.score = t.solutions

\* Only the state of the generation of tc changes, to new.
OnlyGeneration(t, w, u, tc, new) ==
    /\ IoiUi(t, w) /\ w.testcases = u.testcases /\ w.subtasks = u.subtasks /\ w.score = u.score
    /\ w.generations = [u.generations EXCEPT ![tc] = new]

\* Only the state of the evaluation of s on tc changes, to new.
OnlyEvaluation(t, w, u, s, tc, new) ==
    /\ IoiUi(t, w) /\ w.generations = u.generations /\ w.subtasks = u.subtasks /\ w.score = u.score
    /\ w.testcases = [u.testcases EXCEPT ![s][tc] = new]

\* Nothing the properties are about changes.
SameIoiUi(t, w, u) ==
    /\ IoiUi(t, w) /\ w.generations = u.generations /\ w.subtasks = u.subtasks /\ w.score = u.score
    /\ w.testcases = u.testcases

LEMMA GenerationUpdate ==
    ASSUME NEW t, NEW u, IoiUi(t, u), NEW tc \in Testcases(t), NEW new
    PROVE  OnlyGeneration(t, [u EXCEPT !.generations[tc] = new], u, tc, new)
  BY DEF IoiUi, OnlyGeneration

LEMMA EvaluationUpdate ==
    ASSUME NEW t, NEW u, IoiUi(t, u), NEW s \in t.solutions, NEW tc \in Testcases(t), NEW new,
           DOMAIN new = {"status", "score", "results"}
    PROVE  OnlyEvaluation(t, [u EXCEPT !.testcases[s][tc] = new], u, s, tc, new)
<1>1. PICK w : w = [u EXCEPT !.testcases[s][tc] = new]
  OBVIOUS
<1>2. /\ DOMAIN w = DOMAIN u /\ w.generations = u.generations /\ w.subtasks = u.subtasks
      /\ w.score = u.score /\ w.testcases = [u.testcases EXCEPT ![s][tc] = new]
  BY <1>1 DEF IoiUi
<1>3. PICK v : v = w.testcases
  OBVIOUS
<1>4. /\ DOMAIN v = t.solutions
      /\ \A r \in t.solutions : DOMAIN v[r] = Testcases(t)
      /\ \A r \in t.solutions, c \in Testcases(t) :
            v[r][c] = IF r = s /\ c = tc THEN new ELSE u.testcases[r][c]
  BY <1>2, <1>3 DEF IoiUi
<1>5. \A r \in t.solutions, c \in Testcases(t) : DOMAIN v[r][c] = {"status", "score", "results"}
  BY <1>4 DEF IoiUi
<1> QED BY <1>1, <1>2, <1>3, <1>4, <1>5 DEF IoiUi, OnlyEvaluation

LEMMA OtherUpdate ==
    ASSUME NEW t, NEW u, IoiUi(t, u), NEW new
    PROVE  /\ SameIoiUi(t, [u EXCEPT !.compilations = new], u)
           /\ SameIoiUi(t, [u EXCEPT !.diagnostics = new], u)
           /\ SameIoiUi(t, u, u)
  BY DEF IoiUi, SameIoiUi

LEMMA DiagnosticsFacts ==
    ASSUME NEW t, NEW u, IoiUi(t, u), NEW g, NEW res, NEW score
    PROVE  SameIoiUi(t, Diagnostics(t, u, g, res, score), u)
  BY OtherUpdate DEF Diagnostics

LEMMA ScoresUpdate ==
    ASSUME NEW t, NEW u, IoiUi(t, u), NEW s \in t.solutions, NEW m
    PROVE  LET w == ApplyScores(t, u, s, m)
           IN /\ IoiUi(t, w) /\ w.generations = u.generations /\ w.testcases = u.testcases
              /\ w.score = [u.score EXCEPT ![s] = TaskScore(t, m)]
  BY DEF ApplyScores, IoiUi

\* The messages of each kind of group.
LEMMA ApplyByKind ==
    ASSUME NEW t, IsIoiTask(t), NEW u, IoiUi(t, u), NEW status \in {"started", "done", "skipped"}, NEW res
    PROVE  /\ \A f : SameIoiUi(t, IoiApply(t, u, <<"compile", f>>, status, res), u)
           /\ \A tc \in Testcases(t) : OnlyGeneration(t, IoiApply(t, u, <<"generate", tc>>, status, res), u, tc,
                CASE status = "started" -> "Generating"
                  [] status = "done" -> IF AllGood(res) THEN "Generated" ELSE "Failed"
                  [] status = "skipped" -> "Skipped")
           /\ \A tc \in Testcases(t) : OnlyGeneration(t, IoiApply(t, u, <<"solve", tc>>, status, res), u, tc,
                CASE status = "started" -> "Solving"
                  [] status = "done" -> IF AllGood(res) THEN "Solved" ELSE "Failed"
                  [] status = "skipped" -> SkippedUnlessFailed(u.generations[tc]))
<1>1. \A f : SameIoiUi(t, IoiApply(t, u, <<"compile", f>>, status, res), u)
  <2> SUFFICES ASSUME NEW f PROVE SameIoiUi(t, IoiApply(t, u, <<"compile", f>>, status, res), u)
    OBVIOUS
  <2>1. PICK c : c = [u.compilations EXCEPT ![CompiledPath(t, f)] = apply_status(status, res)]
    OBVIOUS
  <2>2. IoiApply(t, u, <<"compile", f>>, status, res) = [u EXCEPT !.compilations = c]
    BY <2>1 DEF IoiApply
  <2>3. SameIoiUi(t, [u EXCEPT !.compilations = c], u)
    BY OtherUpdate
  <2> QED BY <2>2, <2>3
<1>2. ASSUME NEW tc \in Testcases(t)
      PROVE  OnlyGeneration(t, IoiApply(t, u, <<"generate", tc>>, status, res), u, tc,
                CASE status = "started" -> "Generating"
                  [] status = "done" -> IF AllGood(res) THEN "Generated" ELSE "Failed"
                  [] status = "skipped" -> "Skipped")
  <2>1. IoiApply(t, u, <<"generate", tc>>, status, res) = ApplyGeneration(u, tc, status, res)
    BY DEF IoiApply
  <2> QED BY <2>1, GenerationUpdate DEF ApplyGeneration
<1>3. ASSUME NEW tc \in Testcases(t)
      PROVE  OnlyGeneration(t, IoiApply(t, u, <<"solve", tc>>, status, res), u, tc,
                CASE status = "started" -> "Solving"
                  [] status = "done" -> IF AllGood(res) THEN "Solved" ELSE "Failed"
                  [] status = "skipped" -> SkippedUnlessFailed(u.generations[tc]))
  <2>1. IoiApply(t, u, <<"solve", tc>>, status, res) = ApplySolution(u, tc, status, res)
    BY DEF IoiApply
  <2> QED BY <2>1, GenerationUpdate DEF ApplySolution
<1> QED BY <1>1, <1>2, <1>3

LEMMA ApplyValidationFacts ==
    ASSUME NEW t, IsIoiTask(t), NEW u, IoiUi(t, u), NEW status \in {"started", "done", "skipped"}, NEW res,
           NEW st, NEW tc \in Testcases(t)
    PROVE  LET w == IoiApply(t, u, <<"validate", st, tc>>, status, res)
           IN /\ tc \notin t.subtasks[st].owned => SameIoiUi(t, w, u)
              /\ tc \in t.subtasks[st].owned => OnlyGeneration(t, w, u, tc,
                    CASE status = "started" -> "Validating"
                      [] status = "done" -> IF AllGood(res) THEN "Validated" ELSE "Failed"
                      [] status = "skipped" -> SkippedUnlessFailed(u.generations[tc]))
<1>1. IoiApply(t, u, <<"validate", st, tc>>, status, res) = ApplyValidation(t, u, st, tc, status, res)
  BY DEF IoiApply
<1>2. CASE tc \notin t.subtasks[st].owned
  <2>1. SameIoiUi(t, u, u)
    BY OtherUpdate
  <2> QED BY <1>1, <1>2, <2>1 DEF ApplyValidation
<1>3. CASE tc \in t.subtasks[st].owned
  BY <1>1, <1>3, GenerationUpdate DEF ApplyValidation
<1> QED BY <1>2, <1>3

\* How the state of an evaluation changes with the message of a group.
EvaluationAfter(old, status, res) ==
    CASE status = "started" -> [old EXCEPT !.status = "Solving"]
      [] status = "done" -> [old EXCEPT !.status = EvaluationStatus(res), !.results = res]
      [] status = "skipped" -> [old EXCEPT !.status = "Skipped"]

LEMMA ApplyEvaluationFacts ==
    ASSUME NEW t, IsIoiTask(t), NEW u, IoiUi(t, u), NEW status \in {"started", "done", "skipped"}, NEW res,
           NEW s \in t.solutions, NEW tc \in Testcases(t)
    PROVE  OnlyEvaluation(t, IoiApply(t, u, <<"evaluate", s, tc>>, status, res), u, s, tc,
                          EvaluationAfter(u.testcases[s][tc], status, res))
<1>1. PICK old : old = u.testcases[s][tc]
  OBVIOUS
<1>2. PICK new : new = EvaluationAfter(old, status, res)
  OBVIOUS
<1>3. DOMAIN old = {"status", "score", "results"}
  BY <1>1 DEF IoiUi
<1>4. DOMAIN new = {"status", "score", "results"}
  BY <1>2, <1>3 DEF EvaluationAfter
<1>5. IoiApply(t, u, <<"evaluate", s, tc>>, status, res) = ApplyEvaluation(u, s, tc, status, res)
  BY DEF IoiApply
<1>6. ApplyEvaluation(u, s, tc, status, res) = [u EXCEPT !.testcases[s][tc] = new]
  BY <1>1, <1>2 DEF ApplyEvaluation, EvaluationAfter
<1>7. OnlyEvaluation(t, [u EXCEPT !.testcases[s][tc] = new], u, s, tc, new)
  BY <1>4, EvaluationUpdate
<1> QED BY <1>1, <1>2, <1>5, <1>6, <1>7

LEMMA ApplyCheckerFacts ==
    ASSUME NEW t, IsIoiTask(t), NEW u, IoiUi(t, u), NEW status \in {"started", "done", "skipped"}, NEW res,
           NEW s \in t.solutions, NEW tc \in Testcases(t)
    PROVE  LET w == IoiApply(t, u, <<"check", s, tc>>, status, res)
           IN /\ status # "started" => w = u
              /\ status = "started" => OnlyEvaluation(t, w, u, s, tc, [u.testcases[s][tc] EXCEPT !.status = "Checking"])
<1>1. PICK old : old = u.testcases[s][tc]
  OBVIOUS
<1>2. PICK new : new = [old EXCEPT !.status = "Checking"]
  OBVIOUS
<1>3. DOMAIN old = {"status", "score", "results"}
  BY <1>1 DEF IoiUi
<1>4. DOMAIN new = {"status", "score", "results"}
  BY <1>2, <1>3
<1>5. IoiApply(t, u, <<"check", s, tc>>, status, res) = ApplyChecker(u, s, tc, status)
  BY DEF IoiApply
<1>6. status = "started" => ApplyChecker(u, s, tc, status) = [u EXCEPT !.testcases[s][tc] = new]
  BY <1>1, <1>2 DEF ApplyChecker
<1>7. OnlyEvaluation(t, [u EXCEPT !.testcases[s][tc] = new], u, s, tc, new)
  BY <1>4, EvaluationUpdate
<1>8. status # "started" => ApplyChecker(u, s, tc, status) = u
  BY DEF ApplyChecker
<1> QED BY <1>1, <1>2, <1>5, <1>6, <1>7, <1>8

-----------------------------------------------------------------------------
(* What is shown of the steps of a testcase, or of a Terry solution. *)

Ing == {"Generating", "Validating", "Solving", "Checking"}
OkStatus(kind) == CASE kind = "generate" -> "Generated"
                    [] kind = "validate" -> "Validated"
                    [] kind = "solve" -> "Solved"
                    [] kind = "check" -> "Done"

\* What the message of a step makes of what is shown.
ShowsAs(new, old, g, status, res) ==
    /\ status = "started" => new \in Ing
    /\ status = "done" => new = IF AllGood(res) THEN OkStatus(g[1]) ELSE "Failed"
    /\ status = "skipped" => \/ new = "Failed" /\ old = "Failed"
                             \/ new = "Skipped" /\ (old # "Failed" \/ g[1] = "generate")

IoiSteps(t, x) == InputOf(t, x) \cup Validation(t, OwnerOf(t, x), x) \cup OutputOf(t, x)

LEMMA IoiStepsFacts ==
    ASSUME NEW t, IsIoiTask(t), NEW x \in Testcases(t)
    PROVE  /\ IoiSteps(t, x) \subseteq IoiGroups(t)
           /\ \A g \in IoiSteps(t, x) :
                \/ g = <<"generate", x>> \/ g = <<"validate", OwnerOf(t, x), x>> \/ g = <<"solve", x>>
           /\ \A g \in IoiSteps(t, x) :
                /\ g[1] \in {"generate", "validate", "solve"}
                /\ g[1] = "validate" => g = <<"validate", OwnerOf(t, x), x>>
           /\ <<"generate", x>> \in IoiGroups(t) => <<"generate", x>> \in IoiSteps(t, x)
           /\ <<"validate", OwnerOf(t, x), x>> \in IoiGroups(t) =>
                <<"validate", OwnerOf(t, x), x>> \in IoiSteps(t, x)
           /\ <<"solve", x>> \in IoiGroups(t) => <<"solve", x>> \in IoiSteps(t, x)
<1>1. IoiSteps(t, x) \subseteq IoiGroups(t)
  BY StepGroups, GroupsByKind DEF IoiSteps, ValidationHandle, Runs
<1>2. \A g \in IoiSteps(t, x) :
        \/ g = <<"generate", x>> \/ g = <<"validate", OwnerOf(t, x), x>> \/ g = <<"solve", x>>
  BY DEF IoiSteps, InputOf, Validation, OutputOf
<1>3. ASSUME <<"generate", x>> \in IoiGroups(t) PROVE <<"generate", x>> \in IoiSteps(t, x)
  <2>1. PICK g : g = <<"generate", x>>
    OBVIOUS
  <2>2. g \in Generates(t)
    BY <1>3, <2>1, KindOfGroup
  <2>3. t.generator[x] = "custom"
    BY <2>1, <2>2 DEF Generates
  <2> QED BY <2>3 DEF IoiSteps, InputOf
<1>4. ASSUME <<"solve", x>> \in IoiGroups(t) PROVE <<"solve", x>> \in IoiSteps(t, x)
  <2>1. PICK g : g = <<"solve", x>>
    OBVIOUS
  <2>2. g \in Solves(t)
    BY <1>4, <2>1, KindOfGroup
  <2>3. t.output[x] = "custom"
    BY <2>1, <2>2 DEF Solves
  <2> QED BY <2>3 DEF IoiSteps, OutputOf
<1>5. ASSUME <<"validate", OwnerOf(t, x), x>> \in IoiGroups(t)
      PROVE  <<"validate", OwnerOf(t, x), x>> \in IoiSteps(t, x)
  BY <1>5, ValidationIsHandle DEF IoiSteps, ValidationHandle
<1>6. \A g \in IoiSteps(t, x) :
        /\ g[1] \in {"generate", "validate", "solve"}
        /\ g[1] = "validate" => g = <<"validate", OwnerOf(t, x), x>>
  <2> SUFFICES ASSUME NEW g \in IoiSteps(t, x)
               PROVE  /\ g[1] \in {"generate", "validate", "solve"}
                      /\ g[1] = "validate" => g = <<"validate", OwnerOf(t, x), x>>
    OBVIOUS
  <2>1. CASE g = <<"generate", x>>
    BY <2>1
  <2>2. CASE g = <<"validate", OwnerOf(t, x), x>>
    BY <2>2
  <2>3. CASE g = <<"solve", x>>
    BY <2>3
  <2> QED BY <1>2, <2>1, <2>2, <2>3
<1> QED BY <1>1, <1>2, <1>3, <1>4, <1>5, <1>6

LEMMA IoiShows ==
    ASSUME NEW t, IsIoiTask(t), NEW u, IoiUi(t, u), NEW status \in {"started", "done", "skipped"}, NEW res,
           NEW g \in IoiGroups(t), NEW x \in Testcases(t), NEW w, w = IoiApply(t, u, g, status, res)
    PROVE  /\ g \in IoiSteps(t, x) => ShowsAs(w.generations[x], u.generations[x], g, status, res)
           /\ g \notin IoiSteps(t, x) => w.generations[x] = u.generations[x]
<1> DEFINE G == u.generations
<1>0. DOMAIN G = Testcases(t)
  BY DEF IoiUi
<1>1. CASE g[1] = "compile"
  <2>1. PICK f : g = <<"compile", f>>
    BY <1>1, KindOfGroup DEF Compiles
  <2>2. SameIoiUi(t, w, u)
    BY <2>1, ApplyByKind
  <2>3. g \notin IoiSteps(t, x)
    BY <2>1, IoiStepsFacts
  <2> QED BY <2>2, <2>3 DEF SameIoiUi
<1>2. CASE g[1] = "generate"
  <2>1. g \in Generates(t)
    BY <1>2, KindOfGroup
  <2>2. PICK tc \in Testcases(t) : g = <<"generate", tc>>
    BY <2>1 DEF Generates
  <2>3. PICK new : new = CASE status = "started" -> "Generating"
                           [] status = "done" -> IF AllGood(res) THEN "Generated" ELSE "Failed"
                           [] status = "skipped" -> "Skipped"
    OBVIOUS
  <2>4. w.generations = [G EXCEPT ![tc] = new]
    BY <2>2, <2>3, ApplyByKind DEF OnlyGeneration
  <2>5. CASE tc = x
    <3>1. g \in IoiSteps(t, x)
      BY <2>2, <2>5, IoiStepsFacts
    <3>2. w.generations[x] = new
      BY <1>0, <2>4, <2>5
    <3>3. ShowsAs(new, G[x], g, status, res)
      BY <1>2, <2>3 DEF ShowsAs, Ing, OkStatus
    <3> QED BY <3>1, <3>2, <3>3
  <2>6. CASE tc # x
    <3>1. g \notin IoiSteps(t, x)
      BY <2>2, <2>6, IoiStepsFacts
    <3> QED BY <1>0, <2>4, <2>6, <3>1
  <2> QED BY <2>5, <2>6
<1>3. CASE g[1] = "validate"
  <2>1. g \in Validates(t)
    BY <1>3, KindOfGroup
  <2>2. PICK st \in Subtasks(t) : \E tc \in t.subtasks[st].testcases : g = <<"validate", st, tc>>
    BY <2>1 DEF Validates
  <2>3. PICK tc \in t.subtasks[st].testcases : g = <<"validate", st, tc>>
    BY <2>2
  <2>4. tc \in Testcases(t)
    BY DEF IsIoiTask
  <2>5. CASE tc \notin t.subtasks[st].owned
    <3>1. w.generations = G
      BY <2>3, <2>4, <2>5, ApplyValidationFacts DEF SameIoiUi
    <3>2. g # <<"validate", OwnerOf(t, x), x>>
      BY <2>3, <2>5, OwnerFacts
    <3>3. g \notin IoiSteps(t, x)
      BY <1>3, <3>2, IoiStepsFacts
    <3> QED BY <3>1, <3>3
  <2>6. CASE tc \in t.subtasks[st].owned
    <3>1. PICK new : new = CASE status = "started" -> "Validating"
                             [] status = "done" -> IF AllGood(res) THEN "Validated" ELSE "Failed"
                             [] status = "skipped" -> SkippedUnlessFailed(G[tc])
      OBVIOUS
    <3>2. w.generations = [G EXCEPT ![tc] = new]
      BY <2>3, <2>4, <2>6, <3>1, ApplyValidationFacts DEF OnlyGeneration
    <3>3. st = OwnerOf(t, tc)
      BY <2>4, <2>6, OwnerFacts
    <3>4. CASE tc = x
      <4>1. g \in IoiSteps(t, x)
        BY <2>3, <3>3, <3>4, IoiStepsFacts
      <4>2. w.generations[x] = new
        BY <1>0, <3>2, <3>4
      <4>3. ShowsAs(new, G[x], g, status, res)
        BY <1>3, <3>1, <3>4 DEF ShowsAs, Ing, OkStatus, SkippedUnlessFailed
      <4> QED BY <4>1, <4>2, <4>3
    <3>5. CASE tc # x
      <4>1. g \notin IoiSteps(t, x)
        BY <2>3, <3>5, IoiStepsFacts
      <4> QED BY <1>0, <3>2, <3>5, <4>1
    <3> QED BY <3>4, <3>5
  <2> QED BY <2>5, <2>6
<1>4. CASE g[1] = "solve"
  <2>1. g \in Solves(t)
    BY <1>4, KindOfGroup
  <2>2. PICK tc \in Testcases(t) : g = <<"solve", tc>>
    BY <2>1 DEF Solves
  <2>3. PICK new : new = CASE status = "started" -> "Solving"
                           [] status = "done" -> IF AllGood(res) THEN "Solved" ELSE "Failed"
                           [] status = "skipped" -> SkippedUnlessFailed(G[tc])
    OBVIOUS
  <2>4. w.generations = [G EXCEPT ![tc] = new]
    BY <2>2, <2>3, ApplyByKind DEF OnlyGeneration
  <2>5. CASE tc = x
    <3>1. g \in IoiSteps(t, x)
      BY <2>2, <2>5, IoiStepsFacts
    <3>2. w.generations[x] = new
      BY <1>0, <2>4, <2>5
    <3>3. ShowsAs(new, G[x], g, status, res)
      BY <1>4, <2>3, <2>5 DEF ShowsAs, Ing, OkStatus, SkippedUnlessFailed
    <3> QED BY <3>1, <3>2, <3>3
  <2>6. CASE tc # x
    <3>1. g \notin IoiSteps(t, x)
      BY <2>2, <2>6, IoiStepsFacts
    <3> QED BY <1>0, <2>4, <2>6, <3>1
  <2> QED BY <2>5, <2>6
<1>5. CASE g[1] = "evaluate"
  <2>1. g \in Evaluates(t)
    BY <1>5, KindOfGroup
  <2>2. PICK s \in t.solutions, tc \in Testcases(t) : g = <<"evaluate", s, tc>>
    BY <2>1 DEF Evaluates
  <2>5. OnlyEvaluation(t, w, u, s, tc, EvaluationAfter(u.testcases[s][tc], status, res))
    BY <2>2, ApplyEvaluationFacts
  <2>3. w.generations = G
    BY <2>5 DEF OnlyEvaluation
  <2>4. g \notin IoiSteps(t, x)
    BY <1>5, IoiStepsFacts
  <2> QED BY <2>3, <2>4
<1>6. CASE g[1] = "check"
  <2>1. g \in Checks(t)
    BY <1>6, KindOfGroup
  <2>2. PICK s \in t.solutions, tc \in Testcases(t) : g = <<"check", s, tc>>
    BY <2>1 DEF Checks
  <2>5. status = "started" => OnlyEvaluation(t, w, u, s, tc, [u.testcases[s][tc] EXCEPT !.status = "Checking"])
    BY <2>2, ApplyCheckerFacts
  <2>6. status # "started" => w = u
    BY <2>2, ApplyCheckerFacts
  <2>3. w.generations = G
    BY <2>5, <2>6 DEF OnlyEvaluation
  <2>4. g \notin IoiSteps(t, x)
    BY <1>6, IoiStepsFacts
  <2> QED BY <2>3, <2>4
<1> QED BY <1>1, <1>2, <1>3, <1>4, <1>5, <1>6, KindOfGroup

LEMMA IoiApplyUi ==
    ASSUME NEW t, IsIoiTask(t), NEW u, IoiUi(t, u), NEW status \in {"started", "done", "skipped"}, NEW res,
           NEW g \in IoiGroups(t)
    PROVE  /\ IoiUi(t, IoiApply(t, u, g, status, res))
           /\ IoiApply(t, u, g, status, res).score = u.score
           /\ IoiApply(t, u, g, status, res).subtasks = u.subtasks
           /\ g[1] \notin {"evaluate", "check"} => IoiApply(t, u, g, status, res).testcases = u.testcases
<1>0. PICK w : w = IoiApply(t, u, g, status, res)
  OBVIOUS
<1>7. ASSUME NEW tc, NEW new, OnlyGeneration(t, w, u, tc, new)
      PROVE  IoiUi(t, w) /\ w.score = u.score /\ w.subtasks = u.subtasks /\ w.testcases = u.testcases
  BY <1>7 DEF OnlyGeneration
<1>8. ASSUME NEW s, NEW tc, NEW new, OnlyEvaluation(t, w, u, s, tc, new)
      PROVE  IoiUi(t, w) /\ w.score = u.score /\ w.subtasks = u.subtasks
  BY <1>8 DEF OnlyEvaluation
<1>1. CASE g[1] = "compile"
  <2>1. PICK f : g = <<"compile", f>>
    BY <1>1, KindOfGroup DEF Compiles
  <2>2. SameIoiUi(t, w, u)
    BY <1>0, <2>1, ApplyByKind
  <2> QED BY <1>0, <2>2 DEF SameIoiUi
<1>2. CASE g[1] = "generate"
  <2>1. g \in Generates(t)
    BY <1>2, KindOfGroup
  <2>2. PICK tc \in Testcases(t) : g = <<"generate", tc>>
    BY <2>1 DEF Generates
  <2>3. \E new : OnlyGeneration(t, w, u, tc, new)
    BY <1>0, <2>2, ApplyByKind
  <2> QED BY <1>0, <1>7, <2>3
<1>3. CASE g[1] = "validate"
  <2>1. g \in Validates(t)
    BY <1>3, KindOfGroup
  <2>2. PICK st \in Subtasks(t) : \E tc \in t.subtasks[st].testcases : g = <<"validate", st, tc>>
    BY <2>1 DEF Validates
  <2>3. PICK tc \in t.subtasks[st].testcases : g = <<"validate", st, tc>>
    BY <2>2
  <2>4. tc \in Testcases(t)
    BY DEF IsIoiTask
  <2>5. SameIoiUi(t, w, u) \/ \E new : OnlyGeneration(t, w, u, tc, new)
    BY <1>0, <2>3, <2>4, ApplyValidationFacts
  <2> QED BY <1>0, <1>7, <2>5 DEF SameIoiUi
<1>4. CASE g[1] = "solve"
  <2>1. g \in Solves(t)
    BY <1>4, KindOfGroup
  <2>2. PICK tc \in Testcases(t) : g = <<"solve", tc>>
    BY <2>1 DEF Solves
  <2>3. \E new : OnlyGeneration(t, w, u, tc, new)
    BY <1>0, <2>2, ApplyByKind
  <2> QED BY <1>0, <1>7, <2>3
<1>5. CASE g[1] = "evaluate"
  <2>1. g \in Evaluates(t)
    BY <1>5, KindOfGroup
  <2>2. PICK s \in t.solutions, tc \in Testcases(t) : g = <<"evaluate", s, tc>>
    BY <2>1 DEF Evaluates
  <2>3. \E new : OnlyEvaluation(t, w, u, s, tc, new)
    BY <1>0, <2>2, ApplyEvaluationFacts
  <2> QED BY <1>0, <1>5, <1>8, <2>3
<1>6. CASE g[1] = "check"
  <2>1. g \in Checks(t)
    BY <1>6, KindOfGroup
  <2>2. PICK s \in t.solutions, tc \in Testcases(t) : g = <<"check", s, tc>>
    BY <2>1 DEF Checks
  <2>3. status # "started" => w = u
    BY <1>0, <2>2, ApplyCheckerFacts
  <2>4. status = "started" => OnlyEvaluation(t, w, u, s, tc, [u.testcases[s][tc] EXCEPT !.status = "Checking"])
    BY <1>0, <2>2, ApplyCheckerFacts
  <2> QED BY <1>0, <1>6, <1>8, <2>3, <2>4
<1> QED BY <1>1, <1>2, <1>3, <1>4, <1>5, <1>6, KindOfGroup

-----------------------------------------------------------------------------
(* The UI state of a Terry task. *)

TerryUi(t, u) ==
    /\ DOMAIN u = {"compilations", "solutions", "diagnostics"}
    /\ DOMAIN u.solutions = t.solutions
    /\ \A s \in t.solutions : DOMAIN u.solutions[s] = {"status", "outcome"}

TerryKind == {"generate", "validate", "solve", "check"}

WithStatus(u, s, new) == [u EXCEPT !.solutions[s].status = new]

LEMMA TerryStatusUpdate ==
    ASSUME NEW t, NEW u, TerryUi(t, u), NEW s \in t.solutions, NEW new,
           NEW w, w = WithStatus(u, s, new)
    PROVE  /\ TerryUi(t, w)
           /\ \A x \in t.solutions :
                w.solutions[x].status = IF x = s THEN new ELSE u.solutions[x].status
<1>1. DOMAIN w = DOMAIN u /\ w.solutions = [u.solutions EXCEPT ![s].status = new]
  BY DEF TerryUi, WithStatus
<1>2. PICK v : v = w.solutions
  OBVIOUS
<1>3. /\ DOMAIN v = t.solutions
      /\ \A x \in t.solutions : v[x] = IF x = s THEN [u.solutions[s] EXCEPT !.status = new] ELSE u.solutions[x]
  BY <1>1, <1>2 DEF TerryUi
<1>4. DOMAIN u.solutions[s] = {"status", "outcome"}
  BY DEF TerryUi
<1>5. \A x \in t.solutions : DOMAIN v[x] = {"status", "outcome"}
  BY <1>3 DEF TerryUi
<1>6. v[s].status = new
  BY <1>3, <1>4
<1>7. \A x \in t.solutions : v[x].status = IF x = s THEN new ELSE u.solutions[x].status
  BY <1>3, <1>6
<1> QED BY <1>1, <1>2, <1>3, <1>5, <1>7 DEF TerryUi

LEMMA TerryStep ==
    ASSUME NEW t, NEW u, TerryUi(t, u), NEW s \in t.solutions, NEW k \in TerryKind,
           NEW status \in {"started", "done", "skipped"}, NEW res,
           NEW w, w = TerryApply(t, u, <<k, s>>, status, res)
    PROVE  \E new : /\ w = WithStatus(u, s, new)
                    /\ ShowsAs(new, u.solutions[s].status, <<k, s>>, status, res)
<1> DEFINE old == u.solutions[s].status
<1>1. CASE k = "generate"
  <2>1. PICK new : new = process_step(old, status, res, "Generating", "Generated")
    OBVIOUS
  <2>2. w = WithStatus(u, s, new)
    BY <1>1, <2>1 DEF TerryApply, WithStatus
  <2>3. ShowsAs(new, old, <<k, s>>, status, res)
    BY <1>1, <2>1 DEF ShowsAs, Ing, OkStatus, process_step, SkippedUnlessFailed
  <2> QED BY <2>2, <2>3
<1>2. CASE k = "validate"
  <2>1. PICK new : new = process_step(old, status, res, "Validating", "Validated")
    OBVIOUS
  <2>2. w = WithStatus(u, s, new)
    BY <1>2, <2>1 DEF TerryApply, WithStatus
  <2>3. ShowsAs(new, old, <<k, s>>, status, res)
    BY <1>2, <2>1 DEF ShowsAs, Ing, OkStatus, process_step, SkippedUnlessFailed
  <2> QED BY <2>2, <2>3
<1>3. CASE k = "solve"
  <2>1. PICK new : new = process_step(old, status, res, "Solving", "Solved")
    OBVIOUS
  <2>2. w = WithStatus(u, s, new)
    BY <1>3, <2>1 DEF TerryApply, WithStatus
  <2>3. ShowsAs(new, old, <<k, s>>, status, res)
    BY <1>3, <2>1 DEF ShowsAs, Ing, OkStatus, process_step, SkippedUnlessFailed
  <2> QED BY <2>2, <2>3
<1>4. CASE k = "check"
  <2>1. PICK new : new = process_step(old, status, res, "Checking", "Done")
    OBVIOUS
  <2>2. w = WithStatus(u, s, new)
    BY <1>4, <2>1 DEF TerryApply, WithStatus
  <2>3. ShowsAs(new, old, <<k, s>>, status, res)
    BY <1>4, <2>1 DEF ShowsAs, Ing, OkStatus, process_step, SkippedUnlessFailed
  <2> QED BY <2>2, <2>3
<1> QED BY <1>1, <1>2, <1>3, <1>4 DEF TerryKind

LEMMA TerryShows ==
    ASSUME NEW t, IsTerryTask(t), NEW u, TerryUi(t, u), NEW g \in TerryGroups(t),
           NEW status \in {"started", "done", "skipped"}, NEW res,
           NEW w, w = TerryApply(t, u, g, status, res)
    PROVE  /\ TerryUi(t, w)
           /\ \A x \in t.solutions :
                /\ g \in TerryKind \X {x} => ShowsAs(w.solutions[x].status, u.solutions[x].status, g, status, res)
                /\ g \notin TerryKind \X {x} => w.solutions[x].status = u.solutions[x].status
<1>1. CASE g[1] \in TerryKind
  <2>1. PICK k \in TerryKind, s \in t.solutions : g = <<k, s>>
    BY <1>1, TerryKindOfGroup DEF TerryKind
  <2>2. PICK new : /\ w = WithStatus(u, s, new)
                   /\ ShowsAs(new, u.solutions[s].status, <<k, s>>, status, res)
    <3>1. w = TerryApply(t, u, <<k, s>>, status, res)
      BY <2>1
    <3> QED BY <3>1, TerryStep
  <2>3. /\ TerryUi(t, w)
        /\ \A x \in t.solutions : w.solutions[x].status = IF x = s THEN new ELSE u.solutions[x].status
    BY <2>2, TerryStatusUpdate
  <2>4. \A x : g \in TerryKind \X {x} <=> x = s
    BY <2>1
  <2> QED BY <2>1, <2>2, <2>3, <2>4
<1>2. CASE g[1] \notin TerryKind
  <2>1. \A x : g \notin TerryKind \X {x}
    BY <1>2
  <2>2. CASE g[1] = "compile"
    <3>1. PICK c : c = [u.compilations EXCEPT ![g[2]] = apply_status(status, res)]
      OBVIOUS
    <3>2. w = [u EXCEPT !.compilations = c]
      BY <2>2, <3>1 DEF TerryApply
    <3>3. w.solutions = u.solutions /\ DOMAIN w = DOMAIN u
      BY <3>2 DEF TerryUi
    <3> QED BY <2>1, <3>3 DEF TerryUi
  <2>3. CASE g[1] # "compile"
    <3>1. w = u
      BY <1>2, <2>3 DEF TerryApply, TerryKind
    <3> QED BY <2>1, <3>1
  <2> QED BY <2>2, <2>3
<1> QED BY <1>1, <1>2

LEMMA TerryDoneFacts ==
    ASSUME NEW t, IsTerryTask(t), NEW u, TerryUi(t, u), NEW g \in TerryGroups(t), NEW res, NEW out,
           NEW w, w = TerryDone(t, u, g, res, out)
    PROVE  /\ TerryUi(t, w)
           /\ \A x \in t.solutions : w.solutions[x].status = u.solutions[x].status
<1>1. CASE g[1] = "check"
  <2>1. PICK s \in t.solutions : s = g[2]
    BY <1>1, TerryKindOfGroup
  <2>2. w = [u EXCEPT !.solutions[s].outcome = out]
    BY <1>1, <2>1 DEF TerryDone
  <2>3. DOMAIN w = DOMAIN u /\ w.solutions = [u.solutions EXCEPT ![s].outcome = out]
    BY <2>2 DEF TerryUi
  <2>4. PICK v : v = w.solutions
    OBVIOUS
  <2>5. /\ DOMAIN v = t.solutions
        /\ \A x \in t.solutions : v[x] = IF x = s THEN [u.solutions[s] EXCEPT !.outcome = out] ELSE u.solutions[x]
    BY <2>3, <2>4 DEF TerryUi
  <2>6. DOMAIN u.solutions[s] = {"status", "outcome"}
    BY DEF TerryUi
  <2>7. \A x \in t.solutions : DOMAIN v[x] = {"status", "outcome"}
    BY <2>5 DEF TerryUi
  <2>8. v[s].status = u.solutions[s].status
    BY <2>5, <2>6
  <2> QED BY <2>3, <2>4, <2>5, <2>7, <2>8 DEF TerryUi
<1>2. CASE g[1] # "check"
  <2>1. w = u \/ \E d : w = [u EXCEPT !.diagnostics = d]
    BY <1>2 DEF TerryDone
  <2>2. w.solutions = u.solutions /\ DOMAIN w = DOMAIN u
    BY <2>1 DEF TerryUi
  <2> QED BY <2>2 DEF TerryUi
<1> QED BY <1>1, <1>2

-----------------------------------------------------------------------------
(* The end of a group of an IOI task. *)

\* Its record after a score.
ScoredAs(old, score) ==
    [old EXCEPT !.status = CASE ~Completed(old.status) -> from_score(score)
                             [] /\ old.status = "RuntimeError" /\ score <= Epsilon
                                /\ Len(old.results) > 1 /\ old.results[1] = "Success" -> "WrongAnswer"
                             [] OTHER -> old.status,
                !.score = score]

LEMMA ScoreOfOthers ==
    ASSUME NEW t, NEW g, NEW res, NEW out, g[1] \notin {"evaluate", "check"}
    PROVE  ScoreOfGroup(t, g, res, out) = Unscored
  BY DEF ScoreOfGroup

\* The group of a score.
LEMMA ScoredGroup ==
    ASSUME NEW t, IsIoiTask(t), NEW g \in IoiGroups(t), NEW res, NEW out, ScoreOfGroup(t, g, res, out) >= 0
    PROVE  /\ g[1] \in {"evaluate", "check"}
           /\ g[2] \in t.solutions /\ g[3] \in Testcases(t) /\ g = <<g[1], g[2], g[3]>>
<1>1. g[1] \in {"evaluate", "check"}
  BY ScoreOfOthers DEF Unscored
<1>2. g \in Evaluates(t) \/ g \in Checks(t)
  BY <1>1, KindOfGroup
<1>3. PICK s \in t.solutions, tc \in Testcases(t) : g = <<"evaluate", s, tc>> \/ g = <<"check", s, tc>>
  BY <1>2 DEF Evaluates, Checks
<1> QED BY <1>1, <1>3

LEMMA TestcaseScoreUpdate ==
    ASSUME NEW t, NEW u, IoiUi(t, u), NEW s \in t.solutions, NEW tc \in Testcases(t), NEW score
    PROVE  OnlyEvaluation(t, ApplyTestcaseScore(u, s, tc, score), u, s, tc, ScoredAs(u.testcases[s][tc], score))
<1>1. PICK old : old = u.testcases[s][tc]
  OBVIOUS
<1>2. PICK new : new = ScoredAs(old, score)
  OBVIOUS
<1>3. DOMAIN old = {"status", "score", "results"}
  BY <1>1 DEF IoiUi
<1>4. DOMAIN new = {"status", "score", "results"}
  BY <1>2, <1>3 DEF ScoredAs
<1>5. ApplyTestcaseScore(u, s, tc, score) = [u EXCEPT !.testcases[s][tc] = new]
  BY <1>1, <1>2 DEF ApplyTestcaseScore, ScoredAs
<1>6. OnlyEvaluation(t, [u EXCEPT !.testcases[s][tc] = new], u, s, tc, new)
  BY <1>4, EvaluationUpdate
<1> QED BY <1>1, <1>2, <1>5, <1>6

\* What the callback does to the scores: w is the UI state after the message.
Scored(w, s, tc, score) ==
    /\ manager' = [manager EXCEPT ![s] = ManagerScore(task, manager[s], tc, score)]
    /\ ui'.testcases = [w.testcases EXCEPT ![s][tc] = ScoredAs(w.testcases[s][tc], score)]
    /\ ui'.score = [ui.score EXCEPT ![s] = TaskScore(task, ManagerScore(task, manager[s], tc, score))]
NotScored(w) == manager' = manager /\ ui'.testcases = w.testcases /\ ui'.score = ui.score

LEMMA DoneIoiFacts ==
    ASSUME NEW g \in IoiGroups(task), IsIoiTask(task), IoiUi(task, ui), IsIoi,
           NEW res, NEW out, DoneIoi(g, res, out), phase = "running", phase' # "failed",
           NEW w, w = IoiApply(task, ui, g, "done", res),
           NEW score, score = ScoreOfGroup(task, g, res, out)
    PROVE  /\ score # Panic
           /\ IoiUi(task, ui') /\ ui'.generations = w.generations
           /\ score >= 0 => Scored(w, g[2], g[3], score)
           /\ ~(score >= 0) => NotScored(w)
<1>1. Apply(ui, g, "done", res) = w
  BY DEF Apply
<1>2. PICK u : u = Diagnostics(task, w, g, res, score)
  OBVIOUS
<1>3. PICK s : s = g[2]
  OBVIOUS
<1>4. PICK tc : tc = g[3]
  OBVIOUS
<1>5. PICK m : m = ManagerScore(task, manager[s], tc, score)
  OBVIOUS
<1>6. CASE score = Panic
  <2>1. phase' = "failed"
    BY <1>6 DEF DoneIoi, Panic
  <2> QED BY <2>1
<1>7. IoiUi(task, w) /\ w.score = ui.score
  BY IoiApplyUi
<1>8. SameIoiUi(task, u, w)
  BY <1>2, <1>7, DiagnosticsFacts
<1>9. CASE score # Panic /\ score >= 0
  <2>1. /\ manager' = [manager EXCEPT ![s] = m]
        /\ ui' = ApplyScores(task, ApplyTestcaseScore(u, s, tc, score), s, m)
    BY <1>1, <1>2, <1>3, <1>4, <1>5, <1>9 DEF DoneIoi
  <2>2. s \in task.solutions /\ tc \in Testcases(task)
    BY <1>3, <1>4, <1>9, ScoredGroup
  <2>3. PICK v : v = ApplyTestcaseScore(u, s, tc, score)
    OBVIOUS
  <2>4. OnlyEvaluation(task, v, u, s, tc, ScoredAs(u.testcases[s][tc], score))
    BY <1>8, <2>2, <2>3, TestcaseScoreUpdate DEF SameIoiUi
  <2>5. /\ IoiUi(task, v) /\ v.generations = w.generations /\ v.score = w.score
        /\ v.testcases = [w.testcases EXCEPT ![s][tc] = ScoredAs(w.testcases[s][tc], score)]
    BY <1>8, <2>4 DEF OnlyEvaluation, SameIoiUi
  <2>6. ui' = ApplyScores(task, v, s, m)
    BY <2>1, <2>3
  <2>7. /\ IoiUi(task, ui') /\ ui'.generations = v.generations /\ ui'.testcases = v.testcases
        /\ ui'.score = [v.score EXCEPT ![s] = TaskScore(task, m)]
    BY <2>2, <2>5, <2>6, ScoresUpdate
  <2>8. Scored(w, s, tc, score)
    BY <1>5, <1>7, <2>1, <2>5, <2>7 DEF Scored
  <2> QED BY <1>3, <1>4, <1>9, <2>5, <2>7, <2>8
<1>10. CASE score # Panic /\ ~(score >= 0)
  <2>1. ui' = u /\ manager' = manager
    BY <1>1, <1>2, <1>10 DEF DoneIoi
  <2> QED BY <1>7, <1>8, <1>10, <2>1 DEF SameIoiUi, NotScored
<1> QED BY <1>6, <1>9, <1>10

-----------------------------------------------------------------------------
(* The UI state of the task. *)

UiOk == Running => IF IsIoi THEN IoiUi(task, ui) ELSE TerryUi(task, ui)

LEMMA NewUiFacts ==
    ASSUME NEW t
    PROVE  /\ IsIoiTask(t) => IoiUi(t, NewUIState(t)) 
           /\ IsTerryTask(t) => TerryUi(t, NewTerryState(t))
           /\ \A tc \in Testcases(t) : NewUIState(t).generations[tc] = "Pending"
           /\ \A s \in t.solutions : NewTerryState(t).solutions[s].status = "Pending"
<1>1. IoiUi(t, NewUIState(t))
  BY DEF IoiUi, NewUIState, NewGenerations, NewSolutionState
<1>2. TerryUi(t, NewTerryState(t))
  BY DEF TerryUi, NewTerryState
<1>3. \A tc \in Testcases(t) : NewUIState(t).generations[tc] = "Pending"
  BY DEF NewUIState, NewGenerations
<1>4. \A s \in t.solutions : NewTerryState(t).solutions[s].status = "Pending"
  BY DEF NewTerryState
<1> QED BY <1>1, <1>2, <1>3, <1>4

LEMMA BuildUi ==
    ASSUME ExecInv, Build, phase' # "failed"
    PROVE  /\ IsIoi => /\ SameIoiUi(task, ui', NewUIState(task))
                       /\ manager' = [s \in task.solutions |-> NewScoreManager(task)]
           /\ ~IsIoi => ui' = NewTerryState(task)
<1>1. CASE IsIoi
  <2>1. /\ \E d : ui' = [NewUIState(task) EXCEPT !.diagnostics = d]
        /\ manager' = [s \in task.solutions |-> NewScoreManager(task)]
    BY <1>1 DEF Build
  <2>2. IoiUi(task, NewUIState(task))
    BY <1>1, WhichTask, NewUiFacts DEF ExecInv
  <2>3. PICK u : u = NewUIState(task)
    OBVIOUS
  <2>4. PICK d : ui' = [u EXCEPT !.diagnostics = d]
    BY <2>1, <2>3
  <2>5. SameIoiUi(task, [u EXCEPT !.diagnostics = d], u)
    BY <2>2, <2>3, OtherUpdate
  <2> QED BY <1>1, <2>1, <2>3, <2>4, <2>5
<1>2. CASE ~IsIoi
  BY <1>2 DEF Build
<1> QED BY <1>1, <1>2

\* What the step of g with this status does to the UI.
UiAfter(g, status, res) ==
    /\ IsIoi => /\ IoiUi(task, ui')
                /\ ui'.generations = IoiApply(task, ui, g, status, res).generations
    /\ ~IsIoi => /\ TerryUi(task, ui')
                 /\ \A x \in task.solutions :
                        ui'.solutions[x].status = TerryApply(task, ui, g, status, res).solutions[x].status

LEMMA MessageUi ==
    ASSUME ExecInv, UiOk, phase = "running", NEW g \in DOMAIN exec,
           NEW status \in {"started", "skipped"}, ui' = Apply(ui, g, status, <<>>)
    PROVE  UiAfter(g, status, <<>>)
<1>1. DOMAIN exec = Groups /\ task \in Tasks
  BY DEF ExecInv, Running
<1>2. CASE IsIoi
  <2>1. IsIoiTask(task) /\ g \in IoiGroups(task) /\ IoiUi(task, ui)
    BY <1>1, <1>2, WhichTask DEF UiOk, Running
  <2>2. ui' = IoiApply(task, ui, g, status, <<>>)
    BY <1>2 DEF Apply
  <2>3. IoiUi(task, ui')
    BY <2>1, <2>2, IoiApplyUi
  <2> QED BY <1>2, <2>2, <2>3 DEF UiAfter
<1>3. CASE ~IsIoi
  <2>1. IsTerryTask(task) /\ g \in TerryGroups(task) /\ TerryUi(task, ui)
    BY <1>1, <1>3, WhichTask DEF UiOk, Running
  <2>2. ui' = TerryApply(task, ui, g, status, <<>>)
    BY <1>3 DEF Apply
  <2>3. TerryUi(task, ui')
    BY <2>1, <2>2, TerryShows
  <2> QED BY <1>3, <2>2, <2>3 DEF UiAfter
<1> QED BY <1>2, <1>3

LEMMA DoneUi ==
    ASSUME ExecInv, UiOk, NEW g \in DOMAIN exec, Done(g), phase' # "failed"
    PROVE  UiAfter(g, "done", exec'[g].res)
<1>1. DOMAIN exec = Groups /\ task \in Tasks /\ phase = "running"
  BY DoneFacts DEF ExecInv, Running
<1>2. PICK res : res = exec'[g].res
  OBVIOUS
<1>3. PICK out : out = exec'[g].out
  OBVIOUS
<1>4. CASE IsIoi
  <2>1. IsIoiTask(task) /\ g \in IoiGroups(task) /\ IoiUi(task, ui)
    BY <1>1, <1>4, WhichTask DEF UiOk, Running
  <2>2. DoneIoi(g, res, out)
    BY <1>2, <1>3, <1>4, DoneFacts
  <2>4. PICK w : w = IoiApply(task, ui, g, "done", res)
    OBVIOUS
  <2>5. PICK score : score = ScoreOfGroup(task, g, res, out)
    OBVIOUS
  <2>6. IoiUi(task, ui') /\ ui'.generations = w.generations
    BY <1>1, <1>4, <2>1, <2>2, <2>4, <2>5, DoneIoiFacts
  <2>3. IoiUi(task, ui') /\ ui'.generations = IoiApply(task, ui, g, "done", res).generations
    BY <2>4, <2>6
  <2> QED BY <1>2, <1>4, <2>3 DEF UiAfter
<1>5. CASE ~IsIoi
  <2>1. IsTerryTask(task) /\ g \in TerryGroups(task) /\ TerryUi(task, ui)
    BY <1>1, <1>5, WhichTask DEF UiOk, Running
  <2>2. PICK w : w = TerryApply(task, ui, g, "done", res)
    OBVIOUS
  <2>3. Apply(ui, g, "done", res) = w
    BY <1>5, <2>2 DEF Apply
  <2>4. ui' = TerryDone(task, w, g, res, out)
    BY <1>2, <1>3, <1>5, <2>3, DoneFacts
  <2>5. TerryUi(task, w)
    BY <2>1, <2>2, TerryShows
  <2>6. TerryUi(task, ui') /\ \A x \in task.solutions : ui'.solutions[x].status = w.solutions[x].status
    BY <2>1, <2>4, <2>5, TerryDoneFacts
  <2> QED BY <1>2, <1>5, <2>2, <2>6 DEF UiAfter
<1> QED BY <1>4, <1>5

LEMMA UiInit == Init => UiOk
  BY DEF Init, UiOk, Running

LEMMA UiNext == ExecInv /\ UiOk /\ [Next]_vars => UiOk'
<1> SUFFICES ASSUME ExecInv, UiOk, [Next]_vars, Running' PROVE IF IsIoi' THEN IoiUi(task', ui') ELSE TerryUi(task', ui')
  BY DEF UiOk
<1>0. task' = task => IsIoi' = IsIoi
  BY SameTask
<1>1. CASE Build
  <2>1. phase' # "failed"
    BY DEF Running
  <2>2. task' = task
    BY <1>1 DEF Build
  <2>3. IsIoi => IoiUi(task, ui')
    BY <1>1, <2>1, BuildUi DEF SameIoiUi
  <2>4. ~IsIoi => TerryUi(task, ui')
    BY <1>1, <2>1, BuildUi, NewUiFacts, WhichTask DEF ExecInv
  <2> QED BY <1>0, <2>2, <2>3, <2>4
<1>2. ASSUME NEW g \in DOMAIN exec, NEW status, NEW res, UiAfter(g, status, res), task' = task
      PROVE  IF IsIoi' THEN IoiUi(task', ui') ELSE TerryUi(task', ui')
  BY <1>0, <1>2 DEF UiAfter
<1>3. ASSUME NEW g \in DOMAIN exec, Start(g) PROVE UiAfter(g, "started", <<>>) /\ task' = task
  BY <1>3, StartFacts, MessageUi
<1>4. ASSUME NEW g \in DOMAIN exec, Skip(g) PROVE UiAfter(g, "skipped", <<>>) /\ task' = task
  BY <1>4, SkipFacts, MessageUi
<1>5. ASSUME NEW g \in DOMAIN exec, Done(g) PROVE UiAfter(g, "done", exec'[g].res) /\ task' = task
  BY <1>5, DoneFacts, DoneUi DEF Running
<1>6. CASE UNCHANGED <<task, ui>> /\ Running
  BY <1>0, <1>6 DEF UiOk
<1>7. CASE Finish
  BY <1>6, <1>7 DEF Finish, Running
<1>8. CASE AddSolutionChecks
  BY <1>6, <1>8 DEF AddSolutionChecks, Running
<1>9. CASE UNCHANGED vars
  BY <1>6, <1>9 DEF vars, Running
<1> QED BY <1>1, <1>2, <1>3, <1>4, <1>5, <1>7, <1>8, <1>9 DEF Next

-----------------------------------------------------------------------------
(* FailureShown *)

\* What is shown of a testcase (of a Terry solution), and why.
ShownOk(x) ==
    /\ ShownOf(x) \in {"Pending", "Failed", "Skipped", "Generated", "Validated", "Solved", "Done"} \cup Ing
    /\ ShownOf(x) = "Failed" <=> \E g \in StepsOf(x) : Failed(g)
    /\ ShownOf(x) = (IF IsIoi THEN "Solved" ELSE "Done") => \A g \in StepsOf(x) : Succeeded(g)
    /\ ShownOf(x) \in Ing => \E g \in StepsOf(x) : exec[g].state = "started"
    /\ ShownOf(x) = "Skipped" => \E g \in StepsOf(x) : exec[g].state = "skipped"
    /\ ShownOf(x) = "Pending" => \A g \in StepsOf(x) : exec[g].state = "pending"

ShownInv == Running => \A x \in Shown : ShownOk(x)

\* The steps, in their order.
Rank(g) == CASE g[1] = "generate" -> 1
             [] g[1] = "validate" -> 2
             [] g[1] = "solve" -> 3
             [] g[1] = "check" -> 4

LEMMA IoiChain ==
    ASSUME NEW t, IsIoiTask(t), NEW x \in Testcases(t), NEW g \in IoiSteps(t, x), NEW h \in IoiSteps(t, x),
           Rank(g) < Rank(h)
    PROVE  g \in Inputs(t, h)
<1>1. PICK o : o = OwnerOf(t, x)
  OBVIOUS
<1>2. /\ g = <<"generate", x>> \/ g = <<"validate", o, x>> \/ g = <<"solve", x>>
      /\ h = <<"generate", x>> \/ h = <<"validate", o, x>> \/ h = <<"solve", x>>
  BY <1>1, IoiStepsFacts
<1>3. /\ g = <<"generate", x>> => g \in InputOf(t, x) /\ Rank(g) = 1
      /\ g = <<"validate", o, x>> => g \in ValidationHandle(t, x) /\ Rank(g) = 2
      /\ g = <<"solve", x>> => Rank(g) = 3
  <2>1. CASE g = <<"generate", x>>
    BY <2>1 DEF Rank, IoiSteps, InputOf, Validation, OutputOf
  <2>2. CASE g = <<"validate", o, x>>
    BY <1>1, <2>2 DEF Rank, IoiSteps, InputOf, Validation, ValidationHandle, OutputOf
  <2>3. CASE g = <<"solve", x>>
    BY <2>3 DEF Rank
  <2>4. g = <<"generate", x>> => g # <<"validate", o, x>> /\ g # <<"solve", x>>
    OBVIOUS
  <2>5. g = <<"validate", o, x>> => g # <<"solve", x>>
    OBVIOUS
  <2> QED BY <1>2, <2>1, <2>2, <2>3, <2>4, <2>5
<1>4. CASE h = <<"generate", x>>
  <2>1. Rank(h) = 1
    BY <1>4 DEF Rank
  <2> QED BY <1>2, <1>3, <2>1
<1>5. CASE h = <<"validate", o, x>>
  <2>1. Rank(h) = 2
    BY <1>5 DEF Rank
  <2>2. Inputs(t, h) = ValidatorInputs(t, x)
    BY <1>5, InputsByKind
  <2>3. InputOf(t, x) \subseteq Inputs(t, h)
    BY <2>2 DEF ValidatorInputs
  <2> QED BY <1>2, <1>3, <2>1, <2>3
<1>6. CASE h = <<"solve", x>>
  <2>1. Rank(h) = 3
    BY <1>6 DEF Rank
  <2>2. Inputs(t, h) = OutputInputs(t, x)
    BY <1>6, InputsByKind
  <2>3. InputOf(t, x) \subseteq Inputs(t, h) /\ ValidationHandle(t, x) \subseteq Inputs(t, h)
    BY <2>2 DEF OutputInputs, BoundIo
  <2> QED BY <1>2, <1>3, <2>1, <2>3
<1> QED BY <1>2, <1>4, <1>5, <1>6

LEMMA StepsFacts ==
    ASSUME ExecInv, Running, NEW x \in Shown
    PROVE  /\ StepsOf(x) \subseteq DOMAIN exec
           /\ \A g \in StepsOf(x) :
                /\ g[1] \in TerryKind
                /\ IsIoi => g[1] # "check"
           /\ \A g, h \in StepsOf(x) : g[1] = h[1] => g = h
<1>1. DOMAIN exec = Groups /\ task \in Tasks
  BY DEF ExecInv
<1>2. CASE IsIoi
  <2>1. IsIoiTask(task) /\ DOMAIN exec = IoiGroups(task) /\ x \in Testcases(task)
    BY <1>1, <1>2, WhichTask DEF Shown
  <2>2. StepsOf(x) = IoiSteps(task, x)
    BY <1>2 DEF StepsOf, IoiSteps
  <2>3. /\ IoiSteps(task, x) \subseteq IoiGroups(task)
        /\ \A g \in IoiSteps(task, x) : g[1] \in TerryKind /\ g[1] # "check"
    BY <2>1, IoiStepsFacts DEF TerryKind
  <2>4. ASSUME NEW g \in IoiSteps(task, x), NEW h \in IoiSteps(task, x), g[1] = h[1] PROVE g = h
    <3>1. PICK o : o = OwnerOf(task, x)
      OBVIOUS
    <3>2. /\ g = <<"generate", x>> \/ g = <<"validate", o, x>> \/ g = <<"solve", x>>
          /\ h = <<"generate", x>> \/ h = <<"validate", o, x>> \/ h = <<"solve", x>>
      BY <2>1, <3>1, IoiStepsFacts
    <3>3. /\ g = <<"generate", x>> => g[1] = "generate"
          /\ g = <<"validate", o, x>> => g[1] = "validate"
          /\ g = <<"solve", x>> => g[1] = "solve"
      OBVIOUS
    <3>4. /\ h = <<"generate", x>> => h[1] = "generate"
          /\ h = <<"validate", o, x>> => h[1] = "validate"
          /\ h = <<"solve", x>> => h[1] = "solve"
      OBVIOUS
    <3> QED BY <2>4, <3>2, <3>3, <3>4
  <2> QED BY <2>1, <2>2, <2>3, <2>4
<1>3. CASE ~IsIoi
  <2>1. StepsOf(x) = (TerryKind \X {x}) \cap DOMAIN exec
    BY <1>3 DEF StepsOf, TerryKind
  <2> QED BY <1>3, <2>1
<1> QED BY <1>2, <1>3

LEMMA TerryChain ==
    ASSUME ExecInv, Running, ~IsIoi, NEW x \in task.solutions,
           NEW g \in StepsOf(x), NEW h \in StepsOf(x), Rank(g) < Rank(h),
           \A i \in InputsOf(h) \cap DOMAIN exec : Succeeded(i)
    PROVE  Succeeded(g)
<1>1. IsTerryTask(task) /\ DOMAIN exec = TerryGroups(task) /\ \A k : InputsOf(k) = TerryInputs(task, k)
  BY WhichTask DEF ExecInv
<1>2. PICK j \in TerryKind : g = <<j, x>>
  BY DEF StepsOf, TerryKind
<1>3. PICK k \in TerryKind : h = <<k, x>>
  BY DEF StepsOf, TerryKind
<1>4. g \in DOMAIN exec /\ h \in DOMAIN exec
  BY DEF StepsOf
<1>5. j = "validate" => task.validator
  BY <1>1, <1>2, <1>4, TerryKindOfGroup
<1>6. /\ j = "generate" => Rank(g) = 1
      /\ j = "validate" => Rank(g) = 2
      /\ j = "solve" => Rank(g) = 3
      /\ j = "check" => Rank(g) = 4
  BY <1>2 DEF Rank
<1>7. /\ k = "generate" => Rank(h) = 1
      /\ k = "validate" => Rank(h) = 2
      /\ k = "solve" => Rank(h) = 3
      /\ k = "check" => Rank(h) = 4
  BY <1>3 DEF Rank
<1>8. CASE k = "generate"
  BY <1>6, <1>7, <1>8 DEF TerryKind
<1>9. CASE k = "validate"
  <2>1. j = "generate"
    BY <1>6, <1>7, <1>9 DEF TerryKind
  <2>2. InputsOf(h) = TerryValidateInputs(task, x)
    BY <1>1, <1>3, <1>9, TerryInputsByKind
  <2>3. g \in InputsOf(h)
    BY <1>2, <2>1, <2>2 DEF TerryValidateInputs
  <2> QED BY <1>4, <2>3
<1>10. CASE k = "solve"
  <2>1. j \in {"generate", "validate"}
    BY <1>6, <1>7, <1>10 DEF TerryKind
  <2>2. InputsOf(h) = TerrySolveInputs(task, x)
    BY <1>1, <1>3, <1>10, TerryInputsByKind
  <2>3. g \in InputsOf(h)
    BY <1>2, <1>5, <2>1, <2>2 DEF TerrySolveInputs
  <2> QED BY <1>4, <2>3
<1>11. CASE k = "check"
  <2>1. j \in {"generate", "validate", "solve"}
    BY <1>6, <1>7, <1>11 DEF TerryKind
  <2>2. InputsOf(h) = TerryCheckInputs(task, x)
    BY <1>1, <1>3, <1>11, TerryInputsByKind
  <2>3. CASE j # "validate"
    <3>1. g \in InputsOf(h)
      BY <1>2, <2>1, <2>2, <2>3 DEF TerryCheckInputs
    <3> QED BY <1>4, <3>1
  <2>4. CASE j = "validate"
    <3>1. PICK s : s = <<"solve", x>>
      OBVIOUS
    <3>2. s \in TerrySteps(task)
      BY <3>1 DEF TerrySteps, TerryKinds
    <3>3. s \in DOMAIN exec
      BY <1>1, <3>2, TerryGroupsByKind
    <3>4. s \in InputsOf(h)
      BY <2>2, <3>1 DEF TerryCheckInputs
    <3>5. Succeeded(s)
      BY <3>3, <3>4
    <3>6. \A i \in InputsOf(s) \cap DOMAIN exec : Succeeded(i)
      BY <3>3, <3>5 DEF ExecInv, ExecOk, Succeeded
    <3>7. InputsOf(s) = TerrySolveInputs(task, x)
      BY <1>1, <3>1, TerryInputsByKind
    <3>8. g \in InputsOf(s)
      BY <1>2, <1>5, <2>4, <3>7 DEF TerrySolveInputs
    <3> QED BY <1>4, <3>6, <3>8
  <2> QED BY <2>3, <2>4
<1> QED BY <1>8, <1>9, <1>10, <1>11 DEF TerryKind

\* A step waits for all the steps before it.
LEMMA Chain ==
    ASSUME ExecInv, Running, NEW x \in Shown,
           NEW g \in StepsOf(x), NEW h \in StepsOf(x), Rank(g) < Rank(h),
           \A i \in InputsOf(h) \cap DOMAIN exec : Succeeded(i)
    PROVE  Succeeded(g)
<1>1. CASE IsIoi
  <2>1. IsIoiTask(task) /\ InputsOf(h) = Inputs(task, h) /\ x \in Testcases(task)
    BY <1>1, WhichTask DEF ExecInv, Shown
  <2>2. StepsOf(x) = IoiSteps(task, x)
    BY <1>1 DEF StepsOf, IoiSteps
  <2>3. g \in InputsOf(h)
    BY <2>1, <2>2, IoiChain
  <2> QED BY <2>3, StepsFacts
<1>2. CASE ~IsIoi
  BY <1>2, TerryChain DEF Shown
<1> QED BY <1>1, <1>2

\* What a step g of x finds: the steps after it have not started, and if g
\* starts or ends the ones before it have succeeded.
LEMMA Neighbours ==
    ASSUME ExecInv, Running, NEW x \in Shown, NEW g \in StepsOf(x),
           exec[g].state \in {"pending", "started"}
    PROVE  /\ \A h \in StepsOf(x) : Rank(g) < Rank(h) => exec[h].state \notin {"started", "done"}
           /\ (\A i \in InputsOf(g) : Succeeded(i)) =>
                \A h \in StepsOf(x) : Rank(h) < Rank(g) => Succeeded(h)
           /\ \A h \in StepsOf(x) : h # g => Rank(g) < Rank(h) \/ Rank(h) < Rank(g)
           /\ \A h \in StepsOf(x) : g[1] = "generate" /\ h # g => Rank(g) < Rank(h)
           /\ \A h \in StepsOf(x) :
                g[1] = (IF IsIoi THEN "solve" ELSE "check") /\ h # g => Rank(h) < Rank(g)
<1>1. ASSUME NEW h \in StepsOf(x), Rank(g) < Rank(h), exec[h].state \in {"started", "done"} PROVE FALSE
  <2>1. \A i \in InputsOf(h) \cap DOMAIN exec : Succeeded(i)
    BY <1>1, StepsFacts DEF ExecInv, ExecOk
  <2>2. Succeeded(g)
    BY <1>1, <2>1, Chain
  <2> QED BY <2>2 DEF Succeeded
<1>2. ASSUME \A i \in InputsOf(g) : Succeeded(i), NEW h \in StepsOf(x), Rank(h) < Rank(g) PROVE Succeeded(h)
  BY <1>2, Chain
<1>3. ASSUME NEW h \in StepsOf(x), h # g
      PROVE  /\ Rank(g) < Rank(h) \/ Rank(h) < Rank(g)
             /\ g[1] = "generate" => Rank(g) < Rank(h)
             /\ g[1] = (IF IsIoi THEN "solve" ELSE "check") => Rank(h) < Rank(g)
  <2>1. g[1] # h[1] /\ g[1] \in TerryKind /\ h[1] \in TerryKind /\ (IsIoi => g[1] # "check" /\ h[1] # "check")
    BY <1>3, StepsFacts
  <2> QED BY <2>1 DEF Rank, TerryKind
<1> QED BY <1>1, <1>2, <1>3

LEMMA StepsSame ==
    ASSUME task' = task, DOMAIN exec' = DOMAIN exec
    PROVE  Shown' = Shown /\ \A x : StepsOf(x)' = StepsOf(x)
  BY DEF Shown, StepsOf, IsIoi

LEMMA OtherShown ==
    ASSUME ExecInv, phase = "running", task' = task, NEW x \in Shown, ShownOk(x), NEW g, Moved(g),
           g \notin StepsOf(x), ShownOf(x)' = ShownOf(x)
    PROVE  ShownOk(x)'
<1>1. StepsOf(x)' = StepsOf(x) /\ IsIoi' = IsIoi
  BY StepsSame, SameTask DEF Moved
<1>2. StepsOf(x) \subseteq DOMAIN exec
  BY StepsFacts DEF Running
<1>3. \A h \in StepsOf(x) : exec'[h] = exec[h]
  BY <1>2 DEF Moved
<1>4. \A h \in StepsOf(x) : (Succeeded(h)' <=> Succeeded(h)) /\ (Failed(h)' <=> Failed(h))
  BY <1>3 DEF Succeeded, Failed
<1> QED BY <1>1, <1>3, <1>4 DEF ShownOk

LEMMA StepShown ==
    ASSUME ExecInv, phase = "running", task' = task, NEW x \in Shown, ShownOk(x), NEW g \in StepsOf(x), Moved(g),
           NEW status \in {"started", "done", "skipped"}, exec'[g].state = status,
           status # "skipped" => \A h \in InputsOf(g) : Succeeded(h),
           ShowsAs(ShownOf(x)', ShownOf(x), g, status, exec'[g].res)
    PROVE  ShownOk(x)'
<1> DEFINE S == StepsOf(x)
<1>1. StepsOf(x)' = S /\ IsIoi' = IsIoi
  BY StepsSame, SameTask DEF Moved
<1>2. S \subseteq DOMAIN exec /\ g[1] \in TerryKind /\ (IsIoi => g[1] # "check")
  BY StepsFacts DEF Running
<1>3. exec[g].state \in {"pending", "started"}
  BY DEF Moved
<1>4. ASSUME NEW h \in S, h # g
      PROVE  /\ Succeeded(h)' <=> Succeeded(h)
             /\ Failed(h)' <=> Failed(h)
  BY <1>2, <1>4, EndedStays
<1>5. ~Failed(g) /\ (status # "done" => ~Failed(g)')
  BY <1>3 DEF Failed
<1>6. \A h \in S : Rank(g) < Rank(h) => ~Failed(h)
  BY <1>3, Neighbours DEF Running, Failed
<1>7. status # "skipped" => \A h \in S : Rank(h) < Rank(g) => Succeeded(h)
  BY <1>3, Neighbours DEF Running
<1>8. \A h \in S : Succeeded(h) => ~Failed(h)
  BY DEF Succeeded, Failed
<1>9. \A h \in S : h # g => Rank(g) < Rank(h) \/ Rank(h) < Rank(g)
  BY <1>3, Neighbours DEF Running
<1>10. status # "skipped" => \A h \in S : h # g => ~Failed(h)'
  BY <1>4, <1>6, <1>7, <1>8, <1>9
<1>11. CASE status = "started"
  <2>1. ShownOf(x)' \in Ing
    BY <1>11 DEF ShowsAs
  <2>2. \A h \in S : ~Failed(h)'
    BY <1>5, <1>10, <1>11
  <2>3. \E h \in S : exec'[h].state = "started"
    BY <1>11
  <2> QED BY <1>1, <2>1, <2>2, <2>3 DEF ShownOk, Ing
<1>12. CASE status = "done" /\ AllGood(exec'[g].res)
  <2>1. ShownOf(x)' = OkStatus(g[1])
    BY <1>12 DEF ShowsAs
  <2>2. Succeeded(g)' /\ ~Failed(g)'
    BY <1>12 DEF Succeeded, Failed
  <2>3. \A h \in S : ~Failed(h)'
    BY <1>10, <1>12, <2>2
  <2>4. ASSUME ShownOf(x)' = (IF IsIoi THEN "Solved" ELSE "Done") PROVE \A h \in S : Succeeded(h)'
    <3>1. g[1] = (IF IsIoi THEN "solve" ELSE "check")
      BY <1>2, <2>1, <2>4 DEF OkStatus, TerryKind
    <3>2. \A h \in S : h # g => Rank(h) < Rank(g)
      BY <1>3, <3>1, Neighbours DEF Running
    <3> QED BY <1>4, <1>7, <1>12, <2>2, <3>2
  <2>5. ShownOf(x)' \in {"Generated", "Validated", "Solved", "Done"}
    BY <1>2, <2>1 DEF OkStatus, TerryKind
  <2> QED BY <1>1, <2>3, <2>4, <2>5 DEF ShownOk, Ing
<1>13. CASE status = "done" /\ ~AllGood(exec'[g].res)
  <2>1. ShownOf(x)' = "Failed" /\ Failed(g)'
    BY <1>13 DEF ShowsAs, Failed
  <2> QED BY <1>1, <2>1 DEF ShownOk, Ing
<1>14. CASE status = "skipped" /\ ShownOf(x)' = "Failed" /\ ShownOf(x) = "Failed"
  <2>1. PICK h \in S : Failed(h)
    BY <1>14 DEF ShownOk
  <2>2. Failed(h)'
    BY <1>4, <1>5, <2>1
  <2> QED BY <1>1, <1>14, <2>2 DEF ShownOk, Ing
<1>15. CASE /\ status = "skipped" /\ ShownOf(x)' = "Skipped"
            /\ ShownOf(x) # "Failed" \/ g[1] = "generate"
  <2>1. \A h \in S : ~Failed(h)
    <3>1. CASE ShownOf(x) # "Failed"
      BY <3>1 DEF ShownOk
    <3>2. CASE g[1] = "generate"
      <4>1. \A h \in S : h # g => Rank(g) < Rank(h)
        BY <1>3, <3>2, Neighbours DEF Running
      <4> QED BY <1>5, <1>6, <4>1
    <3> QED BY <1>15, <3>1, <3>2
  <2>2. \A h \in S : ~Failed(h)'
    BY <1>4, <1>5, <1>15, <2>1
  <2>3. \E h \in S : exec'[h].state = "skipped"
    BY <1>15
  <2> QED BY <1>1, <1>15, <2>2, <2>3 DEF ShownOk, Ing
<1> QED BY <1>11, <1>12, <1>13, <1>14, <1>15 DEF ShowsAs

LEMMA ShownAfter ==
    ASSUME ExecInv, UiOk, ShownInv, phase = "running", task' = task, NEW g \in DOMAIN exec, Moved(g),
           NEW status \in {"started", "done", "skipped"}, exec'[g].state = status,
           status # "skipped" => \A h \in InputsOf(g) : Succeeded(h),
           NEW res, status = "done" => res = exec'[g].res, UiAfter(g, status, res)
    PROVE  ShownInv'
<1>1. Shown' = Shown /\ Running /\ IsIoi' = IsIoi
  BY StepsSame, SameTask DEF Moved, Running
<1>2. SUFFICES ASSUME NEW x \in Shown PROVE ShownOk(x)'
  BY <1>1 DEF ShownInv
<1>3. ShownOk(x)
  BY <1>1 DEF ShownInv
<1>4. DOMAIN exec = Groups /\ task \in Tasks
  BY <1>1 DEF ExecInv
<1>5. /\ g \in StepsOf(x) => ShowsAs(ShownOf(x)', ShownOf(x), g, status, res)
      /\ g \notin StepsOf(x) => ShownOf(x)' = ShownOf(x)
  <2>1. CASE IsIoi
    <3>1. IsIoiTask(task) /\ g \in IoiGroups(task) /\ IoiUi(task, ui) /\ x \in Testcases(task)
      BY <1>1, <1>4, <2>1, WhichTask DEF UiOk, Shown
    <3>2. PICK w : w = IoiApply(task, ui, g, status, res)
      OBVIOUS
    <3>3. ShownOf(x)' = w.generations[x] /\ ShownOf(x) = ui.generations[x] /\ StepsOf(x) = IoiSteps(task, x)
      BY <1>1, <2>1, <3>2 DEF UiAfter, ShownOf, StepsOf, IoiSteps
    <3> QED BY <3>1, <3>2, <3>3, IoiShows
  <2>2. CASE ~IsIoi
    <3>1. IsTerryTask(task) /\ g \in TerryGroups(task) /\ TerryUi(task, ui) /\ x \in task.solutions
      BY <1>1, <1>4, <2>2, WhichTask DEF UiOk, Shown
    <3>2. PICK w : w = TerryApply(task, ui, g, status, res)
      OBVIOUS
    <3>3. /\ ShownOf(x)' = w.solutions[x].status /\ ShownOf(x) = ui.solutions[x].status
          /\ g \in StepsOf(x) <=> g \in TerryKind \X {x}
      BY <1>1, <2>2, <3>1, <3>2 DEF UiAfter, ShownOf, StepsOf, TerryKind
    <3> QED BY <3>1, <3>2, <3>3, TerryShows
  <2> QED BY <2>1, <2>2
<1>6. CASE g \notin StepsOf(x)
  BY <1>3, <1>5, <1>6, OtherShown
<1>7. CASE g \in StepsOf(x)
  <2>1. ShowsAs(ShownOf(x)', ShownOf(x), g, status, exec'[g].res)
    BY <1>5, <1>7 DEF ShowsAs
  <2> QED BY <1>3, <1>7, <2>1, StepShown
<1> QED BY <1>6, <1>7

LEMMA ShownInit == Init => ShownInv
  BY DEF Init, ShownInv, Running

LEMMA ShownNext == ExecInv /\ UiOk /\ ShownInv /\ [Next]_vars => ShownInv'
<1> SUFFICES ASSUME ExecInv, UiOk, ShownInv, [Next]_vars, Running' PROVE ShownInv'
  BY DEF ShownInv
<1>1. CASE Build
  <2>1. phase' # "failed"
    BY DEF Running
  <2>2. task' = task /\ task \in Tasks
    BY <1>1 DEF Build, ExecInv
  <2>3. DOMAIN exec' = Groups' /\ (\A g \in DOMAIN exec' : exec'[g] = Waiting) /\ IsIoi' = IsIoi
    BY <1>1, <2>1, <2>2, BuildFacts, SameTask
  <2>4. ExecInv' /\ Running'
    BY ExecNext
  <2>5. ASSUME NEW x \in Shown' PROVE ShownOk(x)'
    <3>1. ShownOf(x)' = "Pending"
      <4>1. CASE IsIoi
        <5>1. x \in Testcases(task) /\ ShownOf(x)' = ui'.generations[x]
          BY <2>2, <2>3, <2>5, <4>1 DEF Shown, ShownOf
        <5>2. ui'.generations = NewUIState(task).generations
          BY <1>1, <2>1, <4>1, BuildUi DEF SameIoiUi
        <5> QED BY <5>1, <5>2, NewUiFacts
      <4>2. CASE ~IsIoi
        <5>1. x \in task.solutions /\ ShownOf(x)' = ui'.solutions[x].status
          BY <2>2, <2>3, <2>5, <4>2 DEF Shown, ShownOf
        <5>2. ui' = NewTerryState(task)
          BY <1>1, <2>1, <4>2, BuildUi
        <5> QED BY <5>1, <5>2, NewUiFacts
      <4> QED BY <4>1, <4>2
    <3>2. StepsOf(x)' \subseteq DOMAIN exec'
      <4>1. (ExecInv /\ Running /\ x \in Shown => StepsOf(x) \subseteq DOMAIN exec)'
        BY StepsFacts, PTL
      <4> QED BY <2>4, <2>5, <4>1
    <3>3. \A g \in StepsOf(x)' : exec'[g].state = "pending"
      BY <2>3, <3>2 DEF Waiting
    <3>4. \A g \in StepsOf(x)' : ~Failed(g)'
      BY <3>3 DEF Failed
    <3> QED BY <3>1, <3>3, <3>4 DEF ShownOk, Ing
  <2> QED BY <2>5 DEF ShownInv
<1>2. ASSUME NEW g \in DOMAIN exec, Start(g) PROVE ShownInv'
  <2>1. UiAfter(g, "started", <<>>)
    BY <1>2, StartFacts, MessageUi
  <2> QED BY <1>2, <2>1, StartFacts, ShownAfter
<1>3. ASSUME NEW g \in DOMAIN exec, Done(g) PROVE ShownInv'
  <2>1. UiAfter(g, "done", exec'[g].res)
    BY <1>3, DoneUi DEF Running
  <2> QED BY <1>3, <2>1, DoneFacts, ShownAfter
<1>4. ASSUME NEW g \in DOMAIN exec, Skip(g) PROVE ShownInv'
  <2>1. UiAfter(g, "skipped", <<>>)
    BY <1>4, SkipFacts, MessageUi
  <2> QED BY <1>4, <2>1, SkipFacts, ShownAfter
<1>5. CASE UNCHANGED <<task, exec, ui>> /\ Running
  <2>1. Shown' = Shown /\ IsIoi' = IsIoi /\ \A x : StepsOf(x)' = StepsOf(x) /\ ShownOf(x)' = ShownOf(x)
    BY <1>5, StepsSame, SameTask DEF ShownOf
  <2>2. \A g : (Failed(g)' <=> Failed(g)) /\ (Succeeded(g)' <=> Succeeded(g))
    BY <1>5 DEF Failed, Succeeded
  <2>3. \A x : ShownOk(x) => ShownOk(x)'
    BY <1>5, <2>1, <2>2 DEF ShownOk
  <2> QED BY <1>5, <2>1, <2>3 DEF ShownInv
<1>6. CASE Finish
  BY <1>5, <1>6 DEF Finish, Running
<1>7. CASE AddSolutionChecks
  BY <1>5, <1>7 DEF AddSolutionChecks, Running
<1>8. CASE UNCHANGED vars
  BY <1>5, <1>8 DEF vars, Running
<1> QED BY <1>1, <1>2, <1>3, <1>4, <1>6, <1>7, <1>8 DEF Next

LEMMA ShownImplies == ExecInv /\ ShownInv => FailureShown
<1> SUFFICES ASSUME ExecInv, Running, NEW x \in Shown, ShownOk(x)
             PROVE  /\ ShownOf(x) = "Failed" <=> \E g \in StepsOf(x) : Failed(g)
                    /\ ShownOf(x) = (IF IsIoi THEN "Solved" ELSE "Done") =>
                            \A g \in StepsOf(x) : Succeeded(g)
                    /\ (Over /\ \A g \in StepsOf(x) : Succeeded(g)) /\ StepsOf(x) # {} =>
                            ShownOf(x) \in {"Generated", "Validated", "Solved", "Done"}
  BY DEF ShownInv, FailureShown
<1>1. ASSUME \A g \in StepsOf(x) : Succeeded(g), StepsOf(x) # {}
      PROVE  ShownOf(x) \in {"Generated", "Validated", "Solved", "Done"}
  <2>1. \A g \in StepsOf(x) : exec[g].state = "done" /\ ~Failed(g)
    BY <1>1 DEF Succeeded, Failed
  <2> QED BY <1>1, <2>1 DEF ShownOk
<1> QED BY <1>1 DEF ShownOk

\* A generator, validator, official solution, Terry solution or checker that
\* failed shows as Failed from then on, whatever is skipped or ends later, and
\* only then; the last status is shown only if all the steps succeeded
\* (UIState::apply of both formats).
THEOREM FailuresAreShown == Spec => []FailureShown
<1> DEFINE I == ExecInv /\ UiOk /\ ShownInv
<1>1. Init => I
  BY ExecInit, UiInit, ShownInit
<1>2. I /\ [Next]_vars => I'
  BY ExecNext, UiNext, ShownNext
<1>3. I => FailureShown
  BY ShownImplies
<1> QED BY <1>1, <1>2, <1>3, PTL DEF Spec

-----------------------------------------------------------------------------
(* Sums over finite sets. *)

\* The order in which a fold takes the elements of a set, and the function it
\* computes with, for the subsets of a set.
Taken(s) == CHOOSE x \in s : TRUE
Sums(g, val, T) == g = [s \in SUBSET T |-> IF s = {} THEN 0 ELSE val[Taken(s)] + g[s \ {Taken(s)}]]
SumOf(val, T) == (CHOOSE g : Sums(g, val, T))[T]

LEMMA TakenFacts == ASSUME NEW s, s # {} PROVE Taken(s) \in s
  BY DEF Taken

LEMMA SumsFacts ==
    ASSUME NEW val, NEW T, NEW g, Sums(g, val, T)
    PROVE  \A s \in SUBSET T : g[s] = IF s = {} THEN 0 ELSE val[Taken(s)] + g[s \ {Taken(s)}]
<1>1. g = [r \in SUBSET T |-> IF r = {} THEN 0 ELSE val[Taken(r)] + g[r \ {Taken(r)}]]
  BY DEF Sums
<1> QED BY <1>1

(* A set of finite sets has one that strictly contains no other. *)
LEMMA LeastSet ==
    ASSUME NEW M, M # {}, \A s \in M : IsFiniteSet(s)
    PROVE  \E s \in M : \A r \in M : r \subseteq s => r = s
<1>1. PICK U : U = UNION M
  OBVIOUS
<1>2. M \subseteq FiniteSubsetsOf(U)
  BY <1>1 DEF FiniteSubsetsOf
<1>3. PICK s \in M : \A r \in M : ~(<<r, s>> \in StrictSubsetOrdering(U))
  BY <1>2, FS_StrictSubsetOrderingWellFounded, WFMin
<1>4. ASSUME NEW r \in M, r \subseteq s PROVE r = s
  <2>1. <<r, s>> \in (SUBSET U) \X (SUBSET U)
    BY <1>1
  <2> QED BY <1>3, <1>4, <2>1 DEF StrictSubsetOrdering
<1> QED BY <1>4

(* Two such functions agree wherever both are defined. *)
LEMMA SumsAgree ==
    ASSUME NEW val, NEW S, NEW T, NEW g, NEW h, Sums(g, val, S), Sums(h, val, T), NEW s, s \subseteq S \cap T, IsFiniteSet(s)
    PROVE  g[s] = h[s]
<1>8. \A q \in SUBSET S : g[q] = IF q = {} THEN 0 ELSE val[Taken(q)] + g[q \ {Taken(q)}]
  <2>1. Sums(g, val, S)
    OBVIOUS
  <2> QED BY <2>1, SumsFacts
<1>9. \A q \in SUBSET T : h[q] = IF q = {} THEN 0 ELSE val[Taken(q)] + h[q \ {Taken(q)}]
  <2>1. Sums(h, val, T)
    OBVIOUS
  <2> QED BY <2>1, SumsFacts
<1> DEFINE M == {r \in SUBSET s : g[r] # h[r]}
<1>1. SUFFICES ASSUME M # {} PROVE FALSE
  OBVIOUS
<1>2. \A r \in M : IsFiniteSet(r)
  BY FS_Subset
<1>3. PICK r \in M : \A q \in M : q \subseteq r => q = r
  <2> HIDE DEF M
  <2> QED BY <1>1, <1>2, LeastSet
<1>4. /\ g[r] = IF r = {} THEN 0 ELSE val[Taken(r)] + g[r \ {Taken(r)}]
      /\ h[r] = IF r = {} THEN 0 ELSE val[Taken(r)] + h[r \ {Taken(r)}]
  BY <1>8, <1>9
<1>5. r # {} /\ Taken(r) \in r
  BY <1>4, TakenFacts
<1>6. r \ {Taken(r)} \notin M
  BY <1>3, <1>5
<1>7. g[r \ {Taken(r)}] = h[r \ {Taken(r)}]
  BY <1>6
<1> QED BY <1>4, <1>5, <1>7

(* The subsets of a finite set have their sums. *)
LEMMA SumsExist == ASSUME NEW val, NEW T, IsFiniteSet(T) PROVE \E g : Sums(g, val, T)
<1> DEFINE M == {s \in SUBSET T : ~\E g : Sums(g, val, s)}
<1>1. SUFFICES ASSUME M # {} PROVE FALSE
  OBVIOUS
<1>2. \A r \in M : IsFiniteSet(r)
  BY FS_Subset
<1>3. PICK r \in M : \A q \in M : q \subseteq r => q = r
  <2> HIDE DEF M
  <2> QED BY <1>1, <1>2, LeastSet
<1> DEFINE Of(s) == (CHOOSE g : Sums(g, val, s))[s]
<1> DEFINE Rest(s) == IF s = {} THEN 0 ELSE val[Taken(s)] + Of(s \ {Taken(s)})
<1> DEFINE G == [s \in SUBSET r |-> Rest(s)]
<1>4. \A s \in SUBSET r : s # r => Sums(CHOOSE g : Sums(g, val, s), val, s) /\ IsFiniteSet(s)
  <2> SUFFICES ASSUME NEW s \in SUBSET r, s # r
               PROVE  Sums(CHOOSE g : Sums(g, val, s), val, s) /\ IsFiniteSet(s)
    OBVIOUS
  <2>1. s \notin M /\ IsFiniteSet(s)
    BY <1>2, <1>3, FS_Subset
  <2>2. \E g : Sums(g, val, s)
    BY <2>1
  <2> QED  BY <2>1, <2>2
<1>5. ASSUME NEW s \in SUBSET r, s # r PROVE G[s] = Of(s)
  <2> DEFINE g == CHOOSE g : Sums(g, val, s)
  <2>1. Sums(g, val, s) /\ G[s] = Rest(s)
    BY <1>4, <1>5
  <2>2. CASE s = {}
    BY <2>1, <2>2, SumsFacts
  <2>3. CASE s # {}
    <3> DEFINE q == s \ {Taken(s)}
    <3> DEFINE h == CHOOSE g_1 : Sums(g_1, val, q)
    <3>1. q \subseteq s /\ q # s /\ q \subseteq r /\ q # r
      BY <2>3, TakenFacts
    <3>2. Sums(h, val, q) /\ IsFiniteSet(q)
      BY <1>4, <3>1
    <3>3. h[q] = g[q]
      <4> HIDE DEF q, h, g
      <4> QED BY <2>1, <3>1, <3>2, SumsAgree
    <3>4. g[s] = val[Taken(s)] + g[q]
      <4> HIDE DEF g
      <4> QED BY <2>1, <2>3, SumsFacts
    <3> QED BY <2>1, <2>3, <3>3, <3>4
  <2> QED BY <2>2, <2>3
<1>6. Sums(G, val, r)
  <2>1. ASSUME NEW s \in SUBSET r PROVE G[s] = IF s = {} THEN 0 ELSE val[Taken(s)] + G[s \ {Taken(s)}]
    <3>1. CASE s = {}
      BY <3>1
    <3>2. CASE s # {}
      <4>1. s \ {Taken(s)} \in SUBSET r /\ s \ {Taken(s)} # r
        BY <3>2, TakenFacts
      <4>2. G[s \ {Taken(s)}] = Of(s \ {Taken(s)})
        BY <1>5, <4>1
      <4>3. G[s] = val[Taken(s)] + Of(s \ {Taken(s)})
        BY <3>2
      <4> QED BY <3>2, <4>2, <4>3
    <3> QED BY <3>1, <3>2
  <2>2. G = [s \in SUBSET r |-> G[s]]
    OBVIOUS
  <2> HIDE DEF G
  <2> QED BY <2>1, <2>2 DEF Sums
<1> QED BY <1>3, <1>6


\* A sum depends on the values it adds.
LEMMA SumSame ==
    ASSUME NEW val, NEW other, NEW T, IsFiniteSet(T), \A x \in T : val[x] = other[x]
    PROVE  SumOf(val, T) = SumOf(other, T)
<1>1. PICK g : g = CHOOSE h : Sums(h, val, T)
  OBVIOUS
<1>2. PICK h : h = CHOOSE k : Sums(k, other, T)
  OBVIOUS
<1>3. Sums(g, val, T) /\ Sums(h, other, T)
  BY <1>1, <1>2, SumsExist
<1>4. \A s \in SUBSET T : s # {} => val[Taken(s)] = other[Taken(s)]
  BY TakenFacts
<1>5. Sums(g, other, T)
  BY <1>3, <1>4 DEF Sums
<1>6. g[T] = h[T]
  BY <1>3, <1>5, SumsAgree
<1> QED BY <1>1, <1>2, <1>6 DEF SumOf

LEMMA SumNat ==
    ASSUME NEW val, NEW T, IsFiniteSet(T), \A x \in T : val[x] \in Nat
    PROVE  SumOf(val, T) \in Nat /\ (T # {} /\ (\A x \in T : val[x] # 0) => SumOf(val, T) # 0)
<1>1. PICK g : g = CHOOSE h : Sums(h, val, T)
  OBVIOUS
<1>2. Sums(g, val, T)
  BY <1>1, SumsExist
<1> DEFINE M == {s \in SUBSET T : g[s] \notin Nat}
<1>3. ASSUME M # {} PROVE FALSE
  <2>1. \A r \in M : IsFiniteSet(r)
    BY FS_Subset
  <2>2. PICK r \in M : \A q \in M : q \subseteq r => q = r
    <3> HIDE DEF M
    <3> QED BY <1>3, <2>1, LeastSet
  <2>6. \A s \in SUBSET T : g[s] = IF s = {} THEN 0 ELSE val[Taken(s)] + g[s \ {Taken(s)}]
    BY <1>2, SumsFacts
  <2>3. g[r] = IF r = {} THEN 0 ELSE val[Taken(r)] + g[r \ {Taken(r)}]
    BY <2>6
  <2>4. r # {} /\ Taken(r) \in r
    BY <2>3, TakenFacts
  <2>5. r \ {Taken(r)} \notin M
    BY <2>2, <2>4
  <2> QED BY <2>3, <2>4, <2>5
<1>4. \A s \in SUBSET T : g[s] \in Nat
  BY <1>3
<1>5. ASSUME T # {}, \A x \in T : val[x] # 0 PROVE g[T] # 0
  <2>1. g[T] = val[Taken(T)] + g[T \ {Taken(T)}]
    BY <1>2, <1>5, SumsFacts
  <2>2. Taken(T) \in T
    BY <1>5, TakenFacts
  <2>3. g[T \ {Taken(T)}] \in Nat /\ val[Taken(T)] \in Nat /\ val[Taken(T)] # 0
    BY <1>4, <1>5, <2>2
  <2> QED BY <2>1, <2>3
<1> QED BY <1>1, <1>4, <1>5 DEF SumOf

\* The sums of the model.
LEMMA SumOfFunction ==
    ASSUME NEW val, NEW T
    PROVE  MapThenSumSet(LAMBDA x : val[x], T) = SumOf(val, T)
  BY DEF MapThenSumSet, MapThenFoldSet, SumOf, Sums, Taken

SubtaskSum(t, score, T) == MapThenSumSet(LAMBDA st : SubtaskScore(t, st, score), T)

LEMMA SumOfSubtasks ==
    ASSUME NEW t, NEW score, NEW T, IsFiniteSet(T),
           NEW val, \A st \in T : val[st] = SubtaskScore(t, st, score)
    PROVE  SubtaskSum(t, score, T) = SumOf(val, T)
<1> DEFINE Is(g) == g = [s \in SUBSET T |-> IF s = {} THEN 0
                            ELSE SubtaskScore(t, Taken(s), score) + g[s \ {Taken(s)}]]
<1>1. SubtaskSum(t, score, T) = (CHOOSE g : Is(g))[T]
  BY DEF SubtaskSum, MapThenSumSet, MapThenFoldSet, Taken
<1>2. \A s \in SUBSET T : s # {} => SubtaskScore(t, Taken(s), score) = val[Taken(s)]
  BY TakenFacts
<1>3. \A g : Is(g) <=> Sums(g, val, T)
  BY <1>2 DEF Sums
<1> HIDE DEF Is
<1>4. PICK g : g = CHOOSE h : Is(h)
  OBVIOUS
<1>5. PICK h : h = CHOOSE k : Sums(k, val, T)
  OBVIOUS
<1>6. Sums(h, val, T)
  BY <1>5, SumsExist
<1>7. Is(g)
  BY <1>3, <1>4, <1>6
<1>8. Sums(g, val, T)
  BY <1>3, <1>7
<1>9. g[T] = h[T]
  BY <1>6, <1>8, SumsAgree
<1> QED BY <1>1, <1>4, <1>5, <1>9 DEF SumOf

WeightedSum(times, score, T) == MapThenSumSet(LAMBDA tc : times[tc] * score[tc], T)

LEMMA SumOfWeighted ==
    ASSUME NEW times, NEW score, NEW T, IsFiniteSet(T),
           NEW val, \A tc \in T : val[tc] = times[tc] * score[tc]
    PROVE  WeightedSum(times, score, T) = SumOf(val, T)
<1> DEFINE Is(g) == g = [s \in SUBSET T |-> IF s = {} THEN 0
                            ELSE (times[Taken(s)] * score[Taken(s)]) + g[s \ {Taken(s)}]]
<1>1. WeightedSum(times, score, T) = (CHOOSE g : Is(g))[T]
  BY DEF WeightedSum, MapThenSumSet, MapThenFoldSet, Taken
<1>2. \A s \in SUBSET T : s # {} => times[Taken(s)] * score[Taken(s)] = val[Taken(s)]
  BY TakenFacts
<1>3. \A g : Is(g) <=> Sums(g, val, T)
  BY <1>2 DEF Sums
<1> HIDE DEF Is
<1>4. PICK g : g = CHOOSE h : Is(h)
  OBVIOUS
<1>5. PICK h : h = CHOOSE k : Sums(k, val, T)
  OBVIOUS
<1>6. Sums(h, val, T)
  BY <1>5, SumsExist
<1>7. Is(g)
  BY <1>3, <1>4, <1>6
<1>8. Sums(g, val, T)
  BY <1>3, <1>7
<1>9. g[T] = h[T]
  BY <1>6, <1>8, SumsAgree
<1> QED BY <1>1, <1>4, <1>5, <1>9 DEF SumOf

LEMMA LeastNatural == ASSUME NEW S, S \subseteq Nat, S # {} PROVE \E x \in S : \A y \in S : x <= y
<1>1. PICK x \in S : \A y \in S : ~(<<y, x>> \in OpToRel(<, Nat))
  BY NatLessThanWellFounded, WFMin
<1>2. ASSUME NEW y \in S PROVE x <= y
  <2>1. x \in Nat /\ y \in Nat
    OBVIOUS
  <2>2. y < x => <<y, x>> \in OpToRel(<, Nat)
    BY <2>1 DEF OpToRel
  <2>3. ~(y < x)
    BY <1>1, <2>2, Zenon
  <2> QED BY <2>1, <2>3
<1> QED BY <1>2

LEMMA MinFacts == ASSUME NEW S, S \subseteq Nat, S # {} PROVE Min(S) \in S
  BY LeastNatural DEF Min

LEMMA MaxFacts ==
    ASSUME NEW n \in Nat, NEW S, S \subseteq 1..n, S # {}
    PROVE  Max(S) \in S /\ \A y \in S : y <= Max(S)
<1>1. PICK T : T = {n - i : i \in S}
  OBVIOUS
<1>0. \A i \in S : n - i \in Nat
  OBVIOUS
<1>2. T \subseteq Nat /\ T # {}
  BY <1>0, <1>1
<1>3. PICK x \in T : \A y \in T : x <= y
  BY <1>2, LeastNatural
<1>4. PICK i \in S : x = n - i
  BY <1>1
<1>5. \A y \in S : i >= y
  <2> SUFFICES ASSUME NEW y \in S PROVE i >= y
    OBVIOUS
  <2>1. n - y \in T
    BY <1>1
  <2>2. n - i <= n - y
    BY <1>3, <1>4, <2>1
  <2> QED BY <2>2
<1>6. \E m \in S : \A y \in S : m >= y
  BY <1>5
<1>7. PICK m : m = Max(S)
  OBVIOUS
<1>8. m \in S /\ \A y \in S : m >= y
  BY <1>6, <1>7 DEF Max
<1>9. \A y \in S : y \in Nat
  OBVIOUS
<1> QED BY <1>7, <1>8, <1>9

-----------------------------------------------------------------------------
(* The score manager. *)

\* A subtask gets its score from its testcases only.
LEMMA SubtaskScoreSame ==
    ASSUME NEW t, IsIoiTask(t), NEW st \in Subtasks(t), NEW f, NEW h,
           \A tc \in t.subtasks[st].testcases : f[tc] = h[tc]
    PROVE  SubtaskScore(t, st, f) = SubtaskScore(t, st, h)
<1>1. PICK tcs : tcs = t.subtasks[st].testcases
  OBVIOUS
<1>2. IsFiniteSet(tcs) /\ t.aggregator \in {"min", "sum"}
  BY <1>1 DEF IsIoiTask
<1>3. PICK times : times = t.subtasks[st].times
  OBVIOUS
<1>4. PICK val : val = [tc \in tcs |-> times[tc] * f[tc]]
  OBVIOUS
<1>5. WeightedSum(times, f, tcs) = SumOf(val, tcs) /\ WeightedSum(times, h, tcs) = SumOf(val, tcs)
  <2>1. \A tc \in tcs : val[tc] = times[tc] * f[tc] /\ val[tc] = times[tc] * h[tc]
    BY <1>1, <1>4
  <2> QED BY <1>2, <2>1, SumOfWeighted
<1>6. {f[tc] : tc \in tcs} = {h[tc] : tc \in tcs}
  BY <1>1
<1>7. aggregate(t, tcs, times, f) = aggregate(t, tcs, times, h)
  <2>1. WeightedSum(times, f, tcs) = WeightedSum(times, h, tcs)
    BY <1>5
  <2>2. MapThenSumSet(LAMBDA tc : times[tc] * f[tc], tcs) = MapThenSumSet(LAMBDA tc : times[tc] * h[tc], tcs)
    BY <2>1 DEF WeightedSum
  <2> QED BY <1>2, <1>6, <2>2 DEF aggregate
<1> QED BY <1>1, <1>3, <1>7 DEF SubtaskScore

LEMMA SubtaskScoreNat ==
    ASSUME NEW t, IsIoiTask(t), NEW st \in Subtasks(t), NEW f,
           \A tc \in t.subtasks[st].testcases : f[tc] \in Nat
    PROVE  SubtaskScore(t, st, f) \in Nat
<1>1. PICK tcs : tcs = t.subtasks[st].testcases
  OBVIOUS
<1>2. IsFiniteSet(tcs) /\ t.aggregator \in {"min", "sum"} /\ t.subtasks[st].max_score \in Nat
  BY <1>1 DEF IsIoiTask
<1>3. PICK times \in [tcs -> Nat \ {0}] : times = t.subtasks[st].times
  BY <1>1 DEF IsIoiTask
<1>4. PICK val : val = [tc \in tcs |-> times[tc] * f[tc]]
  OBVIOUS
<1>5. aggregate(t, tcs, times, f) \in Nat
  <2>1. CASE tcs = {}
    BY <2>1, ScoresAssumption DEF aggregate
  <2>2. CASE tcs # {} /\ t.aggregator = "min"
    <3>1. PICK S : S = {f[tc] : tc \in tcs}
      OBVIOUS
    <3>2. S \subseteq Nat /\ S # {}
      BY <1>1, <2>2, <3>1
    <3>3. Min(S) \in Nat
      BY <3>2, MinFacts
    <3>4. aggregate(t, tcs, times, f) = Min(S)
      BY <2>2, <3>1 DEF aggregate
    <3> QED BY <3>3, <3>4
  <2>3. CASE tcs # {} /\ t.aggregator = "sum"
    <3>1. PICK n : n = SumOf(times, tcs)
      OBVIOUS
    <3>2. n \in Nat /\ n # 0
      BY <1>2, <2>3, <3>1, SumNat
    <3>3. PICK k : k = SumOf(val, tcs)
      OBVIOUS
    <3>4. k \in Nat
      <4>1. ASSUME NEW tc \in tcs PROVE val[tc] \in Nat
        <5>1. PICK a \in Nat, b \in Nat : a = times[tc] /\ b = f[tc]
          BY <1>1
        <5>2. a * b \in Nat
          OBVIOUS
        <5> QED BY <1>4, <5>1, <5>2
      <4> QED BY <1>2, <3>3, <4>1, SumNat
    <3>5. WeightedSum(times, f, tcs) = k
      BY <1>2, <1>4, <3>3, SumOfWeighted
    <3>6. MapThenSumSet(LAMBDA tc : times[tc], tcs) = n
      BY <3>1, SumOfFunction
    <3>7. MapThenSumSet(LAMBDA tc : times[tc] * f[tc], tcs) = k
      BY <3>5 DEF WeightedSum
    <3>8. aggregate(t, tcs, times, f) = k \div n
      BY <2>3, <3>6, <3>7 DEF aggregate
    <3>9. k \div n \in Nat
      BY <3>2, <3>4
    <3> QED BY <3>8, <3>9
  <2> QED BY <1>2, <2>1, <2>2, <2>3
<1>6. PICK a \in Nat : a = aggregate(t, tcs, times, f)
  BY <1>5
<1>7. PICK b \in Nat : b = t.subtasks[st].max_score
  BY <1>2
<1>8. b * a \in Nat
  OBVIOUS
<1> QED BY <1>1, <1>3, <1>6, <1>7, <1>8 DEF SubtaskScore

\* The subtasks have the scores of their testcases, as soon as they all have one.
SubtasksScored(t, m) ==
    \A st \in Subtasks(t) : m.subtasks[st] =
        IF \E tc \in t.subtasks[st].testcases : m.testcases[tc] = Unscored
        THEN Unscored ELSE SubtaskScore(t, st, m.testcases)

ManagerOk(t, m) ==
    /\ DOMAIN m = {"testcases", "subtasks"}
    /\ DOMAIN m.testcases = Testcases(t) /\ DOMAIN m.subtasks = Subtasks(t)
    /\ SubtasksScored(t, m)

\* score_subtask on a manager whose testcases are val and whose subtasks are sub.
LEMMA ScoreSubtaskFacts ==
    ASSUME NEW t, NEW m, DOMAIN m = {"testcases", "subtasks"}, DOMAIN m.subtasks = Subtasks(t),
           NEW r, r = score_subtask(t, m)
    PROVE  /\ DOMAIN r = {"testcases", "subtasks"} /\ DOMAIN r.subtasks = Subtasks(t)
           /\ r.testcases = m.testcases
           /\ \A st \in Subtasks(t) : r.subtasks[st] =
                IF /\ m.subtasks[st] = Unscored
                   /\ \A tc \in t.subtasks[st].testcases : m.testcases[tc] # Unscored
                THEN SubtaskScore(t, st, m.testcases) ELSE m.subtasks[st]
<1> DEFINE Ready == {st \in Subtasks(t) :
                        /\ m.subtasks[st] = Unscored
                        /\ \A tc \in t.subtasks[st].testcases : m.testcases[tc] # Unscored}
<1>1. PICK ready : ready = Ready
  OBVIOUS
<1>2. PICK sub : sub = [st \in Subtasks(t) |->
            IF st \in ready THEN SubtaskScore(t, st, m.testcases) ELSE m.subtasks[st]]
  OBVIOUS
<1>3. r = [m EXCEPT !.subtasks = sub]
  BY <1>1, <1>2 DEF score_subtask
<1>4. DOMAIN r = {"testcases", "subtasks"} /\ r.subtasks = sub /\ r.testcases = m.testcases
  BY <1>3
<1>5. DOMAIN sub = Subtasks(t)
  BY <1>2
<1>6. \A st \in Subtasks(t) : sub[st] =
        IF /\ m.subtasks[st] = Unscored
           /\ \A tc \in t.subtasks[st].testcases : m.testcases[tc] # Unscored
        THEN SubtaskScore(t, st, m.testcases) ELSE m.subtasks[st]
  BY <1>1, <1>2
<1> QED BY <1>4, <1>5, <1>6

LEMMA ManagerScoreFacts ==
    ASSUME NEW t, IsIoiTask(t), NEW m, ManagerOk(t, m), NEW tc \in Testcases(t), m.testcases[tc] = Unscored,
           NEW score, score # Unscored, NEW r, r = ManagerScore(t, m, tc, score)
    PROVE  ManagerOk(t, r) /\ r.testcases = [m.testcases EXCEPT ![tc] = score]
<1>1. PICK k : k = [m EXCEPT !.testcases[tc] = score]
  OBVIOUS
<1>2. /\ DOMAIN k = {"testcases", "subtasks"} /\ k.subtasks = m.subtasks
      /\ k.testcases = [m.testcases EXCEPT ![tc] = score]
  BY <1>1 DEF ManagerOk
<1>3. r = score_subtask(t, k)
  BY <1>1 DEF ManagerScore
<1>4. DOMAIN k.subtasks = Subtasks(t)
  BY <1>2 DEF ManagerOk
<1>5. /\ DOMAIN r = {"testcases", "subtasks"} /\ DOMAIN r.subtasks = Subtasks(t)
      /\ r.testcases = k.testcases
      /\ \A st \in Subtasks(t) : r.subtasks[st] =
            IF /\ k.subtasks[st] = Unscored
               /\ \A c \in t.subtasks[st].testcases : k.testcases[c] # Unscored
            THEN SubtaskScore(t, st, k.testcases) ELSE k.subtasks[st]
  <2>1. DOMAIN k = {"testcases", "subtasks"}
    BY <1>2
  <2> QED BY <2>1, <1>3, <1>4, ScoreSubtaskFacts
<1>6. PICK f : f = m.testcases
  OBVIOUS
<1>7. PICK h : h = r.testcases
  OBVIOUS
<1>8. DOMAIN h = Testcases(t) /\ h[tc] = score /\ \A c \in Testcases(t) : c # tc => h[c] = f[c]
  BY <1>2, <1>5, <1>6, <1>7 DEF ManagerOk
<1>9. ASSUME NEW st \in Subtasks(t)
      PROVE  r.subtasks[st] = IF \E c \in t.subtasks[st].testcases : h[c] = Unscored
                              THEN Unscored ELSE SubtaskScore(t, st, h)
  <2>1. t.subtasks[st].testcases \subseteq Testcases(t)
    BY DEF IsIoiTask
  <2>2. m.subtasks[st] = IF \E c \in t.subtasks[st].testcases : f[c] = Unscored
                         THEN Unscored ELSE SubtaskScore(t, st, f)
    BY <1>6 DEF ManagerOk, SubtasksScored
  <2>3. r.subtasks[st] = IF m.subtasks[st] = Unscored /\ \A c \in t.subtasks[st].testcases : h[c] # Unscored
                         THEN SubtaskScore(t, st, h) ELSE m.subtasks[st]
    BY <1>2, <1>5, <1>7
  <2>4. CASE \E c \in t.subtasks[st].testcases : h[c] = Unscored
    <3>1. \E c \in t.subtasks[st].testcases : f[c] = Unscored
      BY <1>8, <2>1, <2>4
    <3> QED BY <2>2, <2>3, <2>4, <3>1
  <2>5. CASE ~\E c \in t.subtasks[st].testcases : h[c] = Unscored
    <3>1. CASE m.subtasks[st] = Unscored
      BY <2>3, <2>5, <3>1
    <3>2. CASE m.subtasks[st] # Unscored
      <4>1. \A c \in t.subtasks[st].testcases : f[c] # Unscored
        BY <2>2, <3>2
      <4>2. tc \notin t.subtasks[st].testcases
        BY <1>6, <4>1
      <4>3. \A c \in t.subtasks[st].testcases : f[c] = h[c]
        BY <1>8, <2>1, <4>2
      <4>4. SubtaskScore(t, st, f) = SubtaskScore(t, st, h)
        BY <4>3, SubtaskScoreSame
      <4> QED BY <2>2, <2>3, <2>5, <3>2, <4>1, <4>4
    <3> QED BY <3>1, <3>2
  <2> QED BY <2>4, <2>5
<1> QED BY <1>2, <1>5, <1>7, <1>8, <1>9 DEF ManagerOk, SubtasksScored

LEMMA NewManagerFacts ==
    ASSUME NEW t, IsIoiTask(t)
    PROVE  /\ ManagerOk(t, NewScoreManager(t))
           /\ \A tc \in Testcases(t) : NewScoreManager(t).testcases[tc] = Unscored
<1>1. PICK k : k = [testcases |-> [tc \in Testcases(t) |-> Unscored], subtasks |-> [st \in Subtasks(t) |-> Unscored]]
  OBVIOUS
<1>2. /\ DOMAIN k = {"testcases", "subtasks"}
      /\ DOMAIN k.subtasks = Subtasks(t) /\ DOMAIN k.testcases = Testcases(t)
      /\ \A st \in Subtasks(t) : k.subtasks[st] = Unscored
      /\ \A tc \in Testcases(t) : k.testcases[tc] = Unscored
  BY <1>1
<1>3. PICK r : r = score_subtask(t, k)
  OBVIOUS
<1>4. NewScoreManager(t) = r
  BY <1>1, <1>3 DEF NewScoreManager
<1>5. /\ DOMAIN r = {"testcases", "subtasks"} /\ DOMAIN r.subtasks = Subtasks(t)
      /\ r.testcases = k.testcases
      /\ \A st \in Subtasks(t) : r.subtasks[st] =
            IF /\ k.subtasks[st] = Unscored
               /\ \A c \in t.subtasks[st].testcases : k.testcases[c] # Unscored
            THEN SubtaskScore(t, st, k.testcases) ELSE k.subtasks[st]
  BY <1>2, <1>3, ScoreSubtaskFacts
<1>6. SubtasksScored(t, r)
  BY <1>2, <1>5 DEF SubtasksScored
<1> QED BY <1>2, <1>4, <1>5, <1>6 DEF ManagerOk

-----------------------------------------------------------------------------
(* What a solution deserves on a testcase, from the groups e and c that      *)
(* evaluate it and check its output.                                         *)

Told(x) == IF x.out = Invalid THEN Unscored ELSE x.out
DeservedFrom(t, e, c) ==
    IF e.state # "done" THEN Unscored
    ELSE CASE t.type = "interactive" ->
                IF e.res[1] = "Success" /\ e.out # Invalid THEN e.out ELSE 0
           [] t.type # "interactive" /\ ~AllGood(e.res) -> 0
           [] t.type = "communication" /\ AllGood(e.res) -> Told(e)
           [] t.type = "batch" /\ AllGood(e.res) ->
                CASE c.state # "done" -> Unscored
                  [] c.state = "done" /\ t.checker = "diff" -> IF AllGood(c.res) THEN One ELSE 0
                  [] c.state = "done" /\ t.checker = "custom" ->
                        IF AllGood(c.res) THEN Told(c) ELSE Unscored

LEMMA DeservedIsFrom ==
    ASSUME NEW s, NEW tc
    PROVE  Deserved(s, tc) = DeservedFrom(task, exec[<<"evaluate", s, tc>>], exec[<<"check", s, tc>>])
  BY DEF Deserved, DeservedFrom, Told

\* By the type of the task and by what has ended.
LEMMA DeservedByCase ==
    ASSUME NEW t, NEW e, NEW c
    PROVE  /\ e.state # "done" => DeservedFrom(t, e, c) = Unscored
           /\ (e.state = "done" /\ t.type = "interactive") =>
                DeservedFrom(t, e, c) = IF e.res[1] = "Success" /\ e.out # Invalid THEN e.out ELSE 0
           /\ (e.state = "done" /\ t.type # "interactive" /\ ~AllGood(e.res)) => DeservedFrom(t, e, c) = 0
           /\ (e.state = "done" /\ t.type = "communication" /\ AllGood(e.res)) => DeservedFrom(t, e, c) = Told(e)
           /\ (e.state = "done" /\ t.type = "batch" /\ AllGood(e.res) /\ c.state # "done") =>
                DeservedFrom(t, e, c) = Unscored
           /\ (e.state = "done" /\ t.type = "batch" /\ AllGood(e.res) /\ c.state = "done" /\ t.checker = "diff") =>
                DeservedFrom(t, e, c) = IF AllGood(c.res) THEN One ELSE 0
           /\ (e.state = "done" /\ t.type = "batch" /\ AllGood(e.res) /\ c.state = "done" /\ t.checker = "custom") =>
                DeservedFrom(t, e, c) = IF AllGood(c.res) THEN Told(c) ELSE Unscored
<1>1. e.state # "done" => DeservedFrom(t, e, c) = Unscored
  BY DEF DeservedFrom
<1>2. (e.state = "done" /\ t.type = "interactive") =>
        DeservedFrom(t, e, c) = IF e.res[1] = "Success" /\ e.out # Invalid THEN e.out ELSE 0
  BY DEF DeservedFrom
<1>3. (e.state = "done" /\ t.type # "interactive" /\ ~AllGood(e.res)) => DeservedFrom(t, e, c) = 0
  BY DEF DeservedFrom
<1>4. (e.state = "done" /\ t.type = "communication" /\ AllGood(e.res)) => DeservedFrom(t, e, c) = Told(e)
  BY DEF DeservedFrom
<1>5. (e.state = "done" /\ t.type = "batch" /\ AllGood(e.res) /\ c.state # "done") =>
        DeservedFrom(t, e, c) = Unscored
  BY DEF DeservedFrom
<1>6. (e.state = "done" /\ t.type = "batch" /\ AllGood(e.res) /\ c.state = "done" /\ t.checker = "diff") =>
        DeservedFrom(t, e, c) = IF AllGood(c.res) THEN One ELSE 0
  BY DEF DeservedFrom
<1>7. (e.state = "done" /\ t.type = "batch" /\ AllGood(e.res) /\ c.state = "done" /\ t.checker = "custom") =>
        DeservedFrom(t, e, c) = IF AllGood(c.res) THEN Told(c) ELSE Unscored
  BY DEF DeservedFrom
<1> QED BY <1>1, <1>2, <1>3, <1>4, <1>5, <1>6, <1>7

\* The statuses of the evaluations that failed.
Failures == {"RuntimeError", "TimeLimitExceeded", "WallTimeLimitExceeded", "MemoryLimitExceeded", "Failed"}

LEMMA FailureStatusFacts ==
    /\ \A x \in DOMAIN FailureStatus : FailureStatus[x] \in Failures
    /\ Range(FailureStatus) \subseteq Failures
<1>1. DOMAIN FailureStatus = {"Failure", "ReturnCode", "Signal", "TimeLimitExceeded", "SysTimeLimitExceeded",
                              "WallTimeLimitExceeded", "MemoryLimitExceeded", "InternalError"}
  BY DEF FailureStatus
<1>2. ASSUME NEW x \in DOMAIN FailureStatus PROVE FailureStatus[x] \in Failures
  BY <1>1 DEF FailureStatus, Failures
<1> QED BY <1>2 DEF Range

\* The status of an evaluation that failed is the one of a process that did.
LEMMA FailedStatus ==
    ASSUME NEW n \in Nat, NEW res \in [1..n -> Statuses], ~AllGood(res)
    PROVE  /\ EvaluationStatus(res) \in Failures
           /\ \E i \in DOMAIN res : res[i] # "Success" /\ FailureStatus[res[i]] = EvaluationStatus(res)
           /\ (n = 2 /\ res[2] # "Success") => EvaluationStatus(res) = FailureStatus[res[2]]
<1>1. PICK bad : bad = {i \in DOMAIN res : res[i] # "Success"}
  OBVIOUS
<1>2. bad \subseteq 1..n /\ bad # {}
  BY <1>1 DEF AllGood
<1>3. PICK k : k = Max(bad)
  OBVIOUS
<1>4. k \in bad /\ \A y \in bad : y <= k
  BY <1>2, <1>3, MaxFacts
<1>5. EvaluationStatus(res) = FailureStatus[res[k]]
  BY <1>1, <1>3 DEF EvaluationStatus
<1>6. res[k] \in DOMAIN FailureStatus
  BY <1>1, <1>4, StatusesAssumption
<1>7. (n = 2 /\ res[2] # "Success") => k = 2
  <2> SUFFICES ASSUME n = 2, res[2] # "Success" PROVE k = 2
    OBVIOUS
  <2>1. 2 \in bad
    BY <1>1
  <2>2. k \in 1..2 /\ 2 <= k
    BY <1>2, <1>4, <2>1
  <2> QED BY <2>2
<1>8. EvaluationStatus(res) \in Failures
  BY <1>5, <1>6, FailureStatusFacts
<1>9. k \in DOMAIN res /\ res[k] # "Success"
  BY <1>1, <1>4
<1> QED BY <1>5, <1>7, <1>8, <1>9

-----------------------------------------------------------------------------
(* The state v of an evaluation in the UI and its score n in the manager.     *)

CellOk(t, e, c, v, n) ==
    /\ v.score = DeservedFrom(t, e, c) /\ n = DeservedFrom(t, e, c)
    /\ e.state # "done" => v.status \in {"Pending", "Solving", "Skipped"}
    /\ (e.state = "done" /\ AllGood(e.res)) =>
         IF v.score = Unscored THEN v.status \in {"Solved", "Checking"} ELSE v.status = from_score(v.score)
    /\ (e.state = "done" /\ ~AllGood(e.res)) =>
         /\ v.score # Unscored
         /\ \/ v.status = EvaluationStatus(e.res)
            \/ v.status = "WrongAnswer" /\ v.score <= Epsilon /\ EvaluationStatus(e.res) = "RuntimeError"

\* The evaluation starts or is skipped.
LEMMA CellWaits ==
    ASSUME NEW t, NEW e, NEW c, NEW v, NEW n, CellOk(t, e, c, v, n), DOMAIN v = {"status", "score", "results"},
           NEW f, e.state # "done", f.state # "done",
           NEW new \in {"Solving", "Skipped"}, NEW w, w = [v EXCEPT !.status = new]
    PROVE  CellOk(t, f, c, w, n)
<1>1. w.score = v.score /\ w.status = new
  OBVIOUS
<1>2. DeservedFrom(t, e, c) = Unscored /\ DeservedFrom(t, f, c) = Unscored
  BY DeservedByCase
<1> QED BY <1>1, <1>2 DEF CellOk

\* The scores of an evaluation that is done.
LEMMA EvaluationScore ==
    ASSUME NEW t, IsIoiTask(t), NEW e, NEW c, e.state = "done", e.out \in Nat \cup {Invalid},
           t.type = "batch" => c.state # "done",
           NEW s, NEW tc, NEW score, score = ScoreOfGroup(t, <<"evaluate", s, tc>>, e.res, e.out), score # Panic
    PROVE  /\ score >= 0 => DeservedFrom(t, e, c) = score
           /\ ~(score >= 0) => DeservedFrom(t, e, c) = Unscored /\ AllGood(e.res)
<1>1. score = CASE t.type = "batch" -> BatchScore(e.res)
               [] t.type = "communication" -> CommunicationScore(e.res, e.out)
               [] t.type = "interactive" -> InteractiveScore(e.res, e.out)
  BY DEF ScoreOfGroup
<1>2. PICK r : r = e.res
  OBVIOUS
<1>3. PICK out : out = e.out
  OBVIOUS
<1>4. CASE t.type = "batch"
  <2>1. score = IF AllGood(r) THEN Unscored ELSE 0
    BY <1>1, <1>2, <1>4 DEF BatchScore
  <2>2. AllGood(r) => DeservedFrom(t, e, c) = Unscored
    BY <1>2, <1>4, DeservedByCase
  <2>3. ~AllGood(r) => DeservedFrom(t, e, c) = 0
    BY <1>2, <1>4, DeservedByCase
  <2>4. AllGood(r) => ~(score >= 0)
    BY <2>1 DEF Unscored
  <2> QED BY <1>2, <2>1, <2>2, <2>3, <2>4
<1>5. CASE t.type = "communication"
  <2>1. score = CommunicationScore(r, out)
    BY <1>1, <1>2, <1>3, <1>5
  <2>2. ~AllGood(r) => score = 0
    BY <2>1 DEF CommunicationScore
  <2>3. AllGood(r) => score = out /\ out # Invalid
    BY <2>1 DEF CommunicationScore, Panic, Invalid
  <2>4. ~AllGood(r) => DeservedFrom(t, e, c) = 0
    BY <1>2, <1>5, DeservedByCase
  <2>5. AllGood(r) => DeservedFrom(t, e, c) = Told(e)
    BY <1>2, <1>5, DeservedByCase
  <2>6. out # Invalid => Told(e) = out /\ out \in Nat
    BY <1>3 DEF Told
  <2>7. score \in Nat
    BY <2>2, <2>3, <2>6
  <2> QED BY <2>2, <2>3, <2>4, <2>5, <2>6, <2>7
<1>6. CASE t.type = "interactive"
  <2>1. score = IF r[1] # "Success" \/ out = Invalid THEN 0 ELSE out
    BY <1>1, <1>2, <1>3, <1>6 DEF InteractiveScore
  <2>2. DeservedFrom(t, e, c) = IF r[1] = "Success" /\ out # Invalid THEN out ELSE 0
    BY <1>2, <1>3, <1>6, DeservedByCase
  <2>3. score \in Nat
    BY <1>3, <2>1
  <2> QED BY <2>1, <2>2, <2>3
<1> QED BY <1>4, <1>5, <1>6 DEF IsIoiTask

\* The scores of a checker that is done.
LEMMA CheckerScoreFacts ==
    ASSUME NEW t, IsIoiTask(t), t.type = "batch", NEW e, NEW c, e.state = "done", AllGood(e.res),
           c.state = "done", DOMAIN c.res = {1}, c.out \in Nat \cup {Invalid},
           NEW s, NEW tc, NEW score, score = ScoreOfGroup(t, <<"check", s, tc>>, c.res, c.out), score # Panic
    PROVE  /\ score >= 0 => DeservedFrom(t, e, c) = score
           /\ ~(score >= 0) => DeservedFrom(t, e, c) = Unscored
<1>1. score = CheckerScore(t, c.res, c.out)
  BY DEF ScoreOfGroup
<1>2. PICK r : r = c.res
  OBVIOUS
<1>3. PICK out : out = c.out
  OBVIOUS
<1>4. AllGood(r) <=> r[1] = "Success"
  BY <1>2 DEF AllGood
<1>5. CASE t.checker = "diff"
  <2>1. DeservedFrom(t, e, c) = IF AllGood(r) THEN One ELSE 0
    BY <1>2, <1>5, DeservedByCase
  <2>2. score \in {One, 0} /\ (r[1] = "Success" => score = One) /\ (r[1] # "Success" => score = 0)
    BY <1>1, <1>2, <1>5 DEF CheckerScore
  <2> QED BY <1>4, <2>1, <2>2, ScoresAssumption
<1>6. CASE t.checker = "custom"
  <2>1. DeservedFrom(t, e, c) = IF AllGood(r) THEN Told(c) ELSE Unscored
    BY <1>2, <1>6, DeservedByCase
  <2>2. score = IF r[1] # "Success" \/ out = Invalid THEN Diagnosed ELSE out
    BY <1>1, <1>2, <1>3, <1>6 DEF CheckerScore
  <2>3. Told(c) = IF out = Invalid THEN Unscored ELSE out
    BY <1>3 DEF Told
  <2>4. CASE r[1] # "Success" \/ out = Invalid
    <3>1. ~(score >= 0)
      BY <2>2, <2>4 DEF Diagnosed
    <3>2. DeservedFrom(t, e, c) = Unscored
      BY <1>4, <2>1, <2>3, <2>4
    <3> QED BY <3>1, <3>2
  <2>5. CASE r[1] = "Success" /\ out # Invalid
    <3>1. score = out /\ DeservedFrom(t, e, c) = out
      BY <1>4, <2>1, <2>2, <2>3, <2>5
    <3>2. out \in Nat
      BY <1>3, <2>5
    <3> QED BY <3>1, <3>2
  <2> QED BY <2>4, <2>5
<1> QED BY <1>5, <1>6 DEF IsIoiTask

LEMMA ScoredAsFacts ==
    ASSUME NEW old, DOMAIN old = {"status", "score", "results"}, NEW score, NEW r, r = ScoredAs(old, score)
    PROVE  /\ r.score = score
           /\ ~Completed(old.status) => r.status = from_score(score)
           /\ Completed(old.status) =>
                \/ r.status = old.status
                \/ r.status = "WrongAnswer" /\ old.status = "RuntimeError" /\ score <= Epsilon
<1>1. PICK new : new = CASE ~Completed(old.status) -> from_score(score)
                         [] /\ old.status = "RuntimeError" /\ score <= Epsilon
                            /\ Len(old.results) > 1 /\ old.results[1] = "Success" -> "WrongAnswer"
                         [] OTHER -> old.status
  OBVIOUS
<1>2. r = [old EXCEPT !.status = new, !.score = score]
  BY <1>1 DEF ScoredAs
<1>3. r.score = score /\ r.status = new
  BY <1>2
<1>4. PICK many \in BOOLEAN : many <=> Len(old.results) > 1 /\ old.results[1] = "Success"
  OBVIOUS
<1>5. Completed("RuntimeError")
  BY DEF Completed
<1>6. new = CASE ~Completed(old.status) -> from_score(score)
              [] old.status = "RuntimeError" /\ score <= Epsilon /\ many -> "WrongAnswer"
              [] OTHER -> old.status
  BY <1>1, <1>4
<1>7. ~Completed(old.status) => new = from_score(score)
  BY <1>5, <1>6
<1>8. Completed(old.status) =>
        new = old.status \/ (new = "WrongAnswer" /\ old.status = "RuntimeError" /\ score <= Epsilon)
  <2> SUFFICES ASSUME Completed(old.status)
               PROVE  new = old.status \/ (new = "WrongAnswer" /\ old.status = "RuntimeError" /\ score <= Epsilon)
    OBVIOUS
  <2>1. CASE old.status = "RuntimeError" /\ score <= Epsilon /\ many
    BY <1>6, <2>1
  <2>2. CASE ~(old.status = "RuntimeError" /\ score <= Epsilon /\ many)
    BY <1>6, <2>2 DEF Completed
  <2> QED BY <2>1, <2>2
<1> QED BY <1>3, <1>7, <1>8

\* The evaluation is done.
LEMMA CellEvaluated ==
    ASSUME NEW t, IsIoiTask(t), NEW e, NEW c, NEW v, NEW n, CellOk(t, e, c, v, n),
           DOMAIN v = {"status", "score", "results"},
           e.state # "done", NEW f, f.state = "done", f.out \in Nat \cup {Invalid},
           NEW k \in Nat, f.res \in [1..k -> Statuses], t.type = "batch" => c.state # "done",
           NEW s, NEW tc, NEW score, score = ScoreOfGroup(t, <<"evaluate", s, tc>>, f.res, f.out), score # Panic,
           NEW x, x = EvaluationAfter(v, "done", f.res)
    PROVE  /\ n = Unscored
           /\ score >= 0 => CellOk(t, f, c, ScoredAs(x, score), score)
           /\ ~(score >= 0) => CellOk(t, f, c, x, n)
<1>1. n = Unscored /\ v.score = Unscored
  BY DeservedByCase DEF CellOk
<1>2. /\ score >= 0 => DeservedFrom(t, f, c) = score
      /\ ~(score >= 0) => DeservedFrom(t, f, c) = Unscored /\ AllGood(f.res)
  BY EvaluationScore
<1>3. x = [v EXCEPT !.status = EvaluationStatus(f.res), !.results = f.res]
  BY DEF EvaluationAfter
<1>4. DOMAIN x = {"status", "score", "results"} /\ x.status = EvaluationStatus(f.res) /\ x.score = Unscored
  BY <1>1, <1>3
<1>5. AllGood(f.res) => x.status = "Solved"
  BY <1>4 DEF EvaluationStatus
<1>6. ~AllGood(f.res) => EvaluationStatus(f.res) \in Failures
  BY FailedStatus
<1>7. CASE score >= 0
  <2>1. PICK r : r = ScoredAs(x, score)
    OBVIOUS
  <2>2. /\ r.score = score
        /\ ~Completed(x.status) => r.status = from_score(score)
        /\ Completed(x.status) =>
                \/ r.status = x.status
                \/ r.status = "WrongAnswer" /\ x.status = "RuntimeError" /\ score <= Epsilon
    BY <1>4, <2>1, ScoredAsFacts
  <2>3. score # Unscored
    BY <1>7 DEF Unscored
  <2>4. AllGood(f.res) => r.status = from_score(score)
    BY <1>5, <2>2 DEF Completed
  <2>5. ~AllGood(f.res) => \/ r.status = EvaluationStatus(f.res)
                           \/ r.status = "WrongAnswer" /\ score <= Epsilon /\ EvaluationStatus(f.res) = "RuntimeError"
    BY <1>4, <1>6, <2>2 DEF Completed, Failures
  <2>6. CellOk(t, f, c, r, score)
    BY <1>2, <1>7, <2>2, <2>3, <2>4, <2>5 DEF CellOk
  <2> QED BY <1>1, <1>7, <2>1, <2>6
<1>8. CASE ~(score >= 0)
  <2>1. CellOk(t, f, c, x, n)
    BY <1>1, <1>2, <1>4, <1>5, <1>8 DEF CellOk
  <2> QED BY <1>1, <1>8, <2>1
<1> QED BY <1>7, <1>8

\* The check does not matter, or is not done.
LEMMA CellSame ==
    ASSUME NEW t, IsIoiTask(t), NEW e, NEW c, NEW v, NEW n, CellOk(t, e, c, v, n), NEW d,
           t.type = "batch" => c = d \/ (c.state # "done" /\ d.state # "done")
    PROVE  CellOk(t, e, d, v, n)
<1>1. DeservedFrom(t, e, c) = DeservedFrom(t, e, d)
  <2>1. CASE e.state # "done" \/ t.type # "batch" \/ ~AllGood(e.res)
    BY <2>1, DeservedByCase DEF IsIoiTask
  <2>2. CASE e.state = "done" /\ t.type = "batch" /\ AllGood(e.res)
    BY <2>2, DeservedByCase
  <2> QED BY <2>1, <2>2
<1> QED BY <1>1 DEF CellOk

\* The check starts.
LEMMA CellChecking ==
    ASSUME NEW t, IsIoiTask(t), t.type = "batch", NEW e, NEW c, NEW v, NEW n, CellOk(t, e, c, v, n),
           DOMAIN v = {"status", "score", "results"}, e.state = "done", AllGood(e.res),
           NEW d, c.state # "done", d.state # "done", NEW w, w = [v EXCEPT !.status = "Checking"]
    PROVE  CellOk(t, e, d, w, n)
<1>1. DeservedFrom(t, e, c) = Unscored /\ DeservedFrom(t, e, d) = Unscored
  BY DeservedByCase
<1>2. w.score = v.score /\ w.status = "Checking"
  OBVIOUS
<1> QED BY <1>1, <1>2 DEF CellOk

\* The check is done.
LEMMA CellChecked ==
    ASSUME NEW t, IsIoiTask(t), t.type = "batch", NEW e, NEW c, NEW v, NEW n, CellOk(t, e, c, v, n),
           DOMAIN v = {"status", "score", "results"}, e.state = "done", AllGood(e.res),
           NEW d, c.state # "done", d.state = "done", DOMAIN d.res = {1}, d.out \in Nat \cup {Invalid},
           NEW s, NEW tc, NEW score, score = ScoreOfGroup(t, <<"check", s, tc>>, d.res, d.out), score # Panic
    PROVE  /\ n = Unscored
           /\ score >= 0 => CellOk(t, e, d, ScoredAs(v, score), score)
           /\ ~(score >= 0) => CellOk(t, e, d, v, n)
<1>1. DeservedFrom(t, e, c) = Unscored
  BY DeservedByCase
<1>2. n = Unscored /\ v.score = Unscored /\ v.status \in {"Solved", "Checking"}
  BY <1>1 DEF CellOk
<1>3. /\ score >= 0 => DeservedFrom(t, e, d) = score
      /\ ~(score >= 0) => DeservedFrom(t, e, d) = Unscored
  BY CheckerScoreFacts
<1>4. CASE score >= 0
  <2>1. PICK r : r = ScoredAs(v, score)
    OBVIOUS
  <2>2. r.score = score /\ (~Completed(v.status) => r.status = from_score(score))
    BY <2>1, ScoredAsFacts
  <2>3. r.status = from_score(score) /\ score # Unscored
    BY <1>2, <1>4, <2>2 DEF Completed, Unscored
  <2>4. CellOk(t, e, d, r, score)
    BY <1>3, <1>4, <2>2, <2>3 DEF CellOk
  <2> QED BY <1>2, <1>4, <2>1, <2>4
<1>5. CASE ~(score >= 0)
  <2>1. CellOk(t, e, d, v, n)
    BY <1>2, <1>3, <1>5 DEF CellOk
  <2> QED BY <1>2, <1>5, <2>1
<1> QED BY <1>4, <1>5

-----------------------------------------------------------------------------
(* The scores and the verdicts of the evaluation of an IOI task.              *)

Cell(s, tc) == CellOk(task, exec[<<"evaluate", s, tc>>], exec[<<"check", s, tc>>],
                      ui.testcases[s][tc], manager[s].testcases[tc])
ManagersOk ==
    /\ DOMAIN manager = task.solutions
    /\ \A s \in task.solutions : ManagerOk(task, manager[s]) /\ ui.score[s] = TaskScore(task, manager[s])
ScoresOk == ManagersOk /\ \A s \in task.solutions, tc \in Testcases(task) : Cell(s, tc)

ScoreInv == Running /\ IsIoi => ScoresOk

\* A step changes the state of one evaluation in the UI, or its score.
ShowsCell(w, s, tc, new) ==
    \A x \in task.solutions, y \in Testcases(task) :
        w.testcases[x][y] = IF x = s /\ y = tc THEN new ELSE ui.testcases[x][y]
UiCell(s, tc, new) == ShowsCell(ui', s, tc, new)
ManagerCell(s, tc, n) ==
    /\ ManagersOk'
    /\ \A x \in task.solutions, y \in Testcases(task) :
        manager'[x].testcases[y] = IF x = s /\ y = tc THEN n ELSE manager[x].testcases[y]

LEMMA OneEvaluation ==
    ASSUME IoiUi(task, ui), NEW w, NEW s \in task.solutions, NEW tc \in Testcases(task), NEW new,
           OnlyEvaluation(task, w, ui, s, tc, new)
    PROVE  ShowsCell(w, s, tc, new)
<1>1. PICK f : f = ui.testcases
  OBVIOUS
<1>2. PICK h : h = w.testcases
  OBVIOUS
<1>3. DOMAIN f = task.solutions /\ \A x \in task.solutions : DOMAIN f[x] = Testcases(task)
  BY <1>1 DEF IoiUi
<1>4. h = [f EXCEPT ![s][tc] = new]
  BY <1>1, <1>2 DEF OnlyEvaluation
<1>5. \A x \in task.solutions, y \in Testcases(task) :
        h[x][y] = IF x = s /\ y = tc THEN new ELSE f[x][y]
  BY <1>3, <1>4
<1> QED BY <1>1, <1>2, <1>5 DEF ShowsCell

\* The callback scores the evaluation that the message changed to old.
LEMMA ScoredCell ==
    ASSUME NEW w, IoiUi(task, w), NEW s \in task.solutions, NEW tc \in Testcases(task), NEW old, NEW score,
           ShowsCell(w, s, tc, old), Scored(w, s, tc, score)
    PROVE  UiCell(s, tc, ScoredAs(old, score))
<1>1. PICK f : f = w.testcases
  OBVIOUS
<1>2. PICK h : h = ui'.testcases
  OBVIOUS
<1>3. PICK new : new = ScoredAs(old, score)
  OBVIOUS
<1>4. DOMAIN f = task.solutions /\ \A x \in task.solutions : DOMAIN f[x] = Testcases(task)
  BY <1>1 DEF IoiUi
<1>5. f[s][tc] = old
  BY <1>1 DEF ShowsCell
<1>6. h = [f EXCEPT ![s][tc] = new]
  BY <1>1, <1>2, <1>3, <1>5 DEF Scored
<1>7. \A x \in task.solutions, y \in Testcases(task) :
        h[x][y] = IF x = s /\ y = tc THEN new ELSE f[x][y]
  BY <1>4, <1>6
<1>8. \A x \in task.solutions, y \in Testcases(task) :
        h[x][y] = IF x = s /\ y = tc THEN new ELSE ui.testcases[x][y]
  BY <1>1, <1>7 DEF ShowsCell
<1> QED BY <1>2, <1>3, <1>8 DEF UiCell, ShowsCell

LEMMA ManagerStays ==
    ASSUME ManagersOk, task' = task, manager' = manager, ui'.score = ui.score, NEW s, NEW tc
    PROVE  ManagerCell(s, tc, manager[s].testcases[tc])
<1>1. ManagersOk'
  BY DEF ManagersOk
<1> QED BY <1>1 DEF ManagerCell

LEMMA ManagerMoves ==
    ASSUME ManagersOk, IsIoiTask(task), task' = task, IoiUi(task, ui),
           NEW s \in task.solutions, NEW tc \in Testcases(task),
           manager[s].testcases[tc] = Unscored, NEW score, score # Unscored, NEW w, Scored(w, s, tc, score)
    PROVE  ManagerCell(s, tc, score)
<1>1. PICK m : m = manager[s]
  OBVIOUS
<1>2. PICK r : r = ManagerScore(task, m, tc, score)
  OBVIOUS
<1>3. manager' = [manager EXCEPT ![s] = r] /\ ui'.score = [ui.score EXCEPT ![s] = TaskScore(task, r)]
  BY <1>1, <1>2 DEF Scored
<1>4. ManagerOk(task, m) /\ m.testcases[tc] = Unscored
  BY <1>1 DEF ManagersOk
<1>5. ManagerOk(task, r) /\ r.testcases = [m.testcases EXCEPT ![tc] = score]
  BY <1>2, <1>4, ManagerScoreFacts
<1>6. DOMAIN manager = task.solutions /\ DOMAIN ui.score = task.solutions
  BY DEF ManagersOk, IoiUi
<1>7. /\ DOMAIN manager' = task.solutions /\ manager'[s] = r /\ ui'.score[s] = TaskScore(task, r)
      /\ \A x \in task.solutions : x # s => manager'[x] = manager[x] /\ ui'.score[x] = ui.score[x]
  BY <1>3, <1>6
<1>8. ASSUME NEW x \in task.solutions PROVE ManagerOk(task, manager'[x]) /\ ui'.score[x] = TaskScore(task, manager'[x])
  BY <1>5, <1>7 DEF ManagersOk
<1>9. ManagersOk'
  BY <1>7, <1>8 DEF ManagersOk
<1>10. DOMAIN m.testcases = Testcases(task)
  BY <1>4 DEF ManagerOk
<1>11. ASSUME NEW y \in Testcases(task) PROVE r.testcases[y] = IF y = tc THEN score ELSE m.testcases[y]
  BY <1>5, <1>10
<1>12. ASSUME NEW x \in task.solutions, NEW y \in Testcases(task)
       PROVE  manager'[x].testcases[y] = IF x = s /\ y = tc THEN score ELSE manager[x].testcases[y]
  BY <1>1, <1>7, <1>11
<1> QED BY <1>9, <1>12 DEF ManagerCell

\* The groups of the evaluations.
LEMMA CellGroups ==
    ASSUME ExecInv, Running, IsIoi, NEW s \in task.solutions, NEW tc \in Testcases(task)
    PROVE  /\ IsIoiTask(task) /\ DOMAIN exec = IoiGroups(task)
           /\ <<"evaluate", s, tc>> \in DOMAIN exec
           /\ task.type = "batch" => <<"check", s, tc>> \in DOMAIN exec
<1>1. IsIoiTask(task) /\ DOMAIN exec = IoiGroups(task)
  BY WhichTask DEF ExecInv
<1>2. Runs(task) \subseteq IoiGroups(task)
  BY <1>1, GroupsByKind
<1>3. <<"evaluate", s, tc>> \in Runs(task)
  BY DEF Runs, Evaluates
<1>4. task.type = "batch" => <<"check", s, tc>> \in Runs(task)
  BY DEF Runs, Checks
<1> QED BY <1>1, <1>2, <1>3, <1>4

\* The step of a group of one evaluation.
LEMMA CellMoves ==
    ASSUME ExecInv, Running, IsIoi, ScoresOk, task' = task, NEW g, Moved(g),
           NEW k \in {"evaluate", "check"}, NEW s \in task.solutions, NEW tc \in Testcases(task), g = <<k, s, tc>>,
           NEW new, UiCell(s, tc, new), NEW n, ManagerCell(s, tc, n),
           CellOk(task, exec'[<<"evaluate", s, tc>>], exec'[<<"check", s, tc>>], new, n)
    PROVE  ScoresOk'
<1>1. ASSUME NEW x \in task.solutions, NEW y \in Testcases(task) PROVE Cell(x, y)'
  <2>1. CASE x = s /\ y = tc
    <3>1. ui'.testcases[x][y] = new /\ manager'[x].testcases[y] = n
      BY <2>1 DEF UiCell, ShowsCell, ManagerCell
    <3> QED BY <2>1, <3>1 DEF Cell
  <2>2. CASE ~(x = s /\ y = tc)
    <3>1. ui'.testcases[x][y] = ui.testcases[x][y] /\ manager'[x].testcases[y] = manager[x].testcases[y]
      BY <2>2 DEF UiCell, ShowsCell, ManagerCell
    <3>2. PICK e : e = <<"evaluate", x, y>>
      OBVIOUS
    <3>3. PICK c : c = <<"check", x, y>>
      OBVIOUS
    <3>4. e # g /\ c # g
      BY <2>2, <3>2, <3>3
    <3>5. exec'[e] = exec[e] /\ (task.type = "batch" => exec'[c] = exec[c])
      BY <3>2, <3>3, <3>4, CellGroups DEF Moved
    <3>6. CellOk(task, exec[e], exec[c], ui.testcases[x][y], manager[x].testcases[y])
      BY <3>2, <3>3 DEF ScoresOk, Cell
    <3>7. CellOk(task, exec[e], exec'[c], ui.testcases[x][y], manager[x].testcases[y])
      BY <3>5, <3>6, CellSame, CellGroups
    <3> QED BY <3>1, <3>2, <3>3, <3>5, <3>7 DEF Cell
  <2> QED BY <2>1, <2>2
<1> QED BY <1>1 DEF ScoresOk, ManagerCell

LEMMA OtherMoves ==
    ASSUME ExecInv, Running, IsIoi, ScoresOk, task' = task, NEW g, Moved(g), g[1] \notin {"evaluate", "check"},
           ui'.testcases = ui.testcases, ui'.score = ui.score, manager' = manager
    PROVE  ScoresOk'
<1>1. ASSUME NEW x \in task.solutions, NEW y \in Testcases(task) PROVE Cell(x, y)'
  <2>1. PICK e : e = <<"evaluate", x, y>>
    OBVIOUS
  <2>2. PICK c : c = <<"check", x, y>>
    OBVIOUS
  <2>3. e # g /\ c # g
    BY <2>1, <2>2
  <2>4. exec'[e] = exec[e] /\ (task.type = "batch" => exec'[c] = exec[c])
    BY <2>1, <2>2, <2>3, CellGroups DEF Moved
  <2>5. CellOk(task, exec[e], exec[c], ui.testcases[x][y], manager[x].testcases[y])
    BY <2>1, <2>2 DEF ScoresOk, Cell
  <2>6. CellOk(task, exec[e], exec'[c], ui.testcases[x][y], manager[x].testcases[y])
    BY <2>4, <2>5, CellSame, CellGroups
  <2> QED BY <2>1, <2>2, <2>4, <2>6 DEF Cell
<1>2. ManagersOk'
  BY DEF ScoresOk, ManagersOk
<1> QED BY <1>1, <1>2 DEF ScoresOk

\* A check waits for the evaluation.
LEMMA CheckedEvaluation ==
    ASSUME ExecInv, Running, IsIoi, NEW s \in task.solutions, NEW tc \in Testcases(task), task.type = "batch"
    PROVE  /\ <<"evaluate", s, tc>> \in InputsOf(<<"check", s, tc>>)
           /\ exec[<<"check", s, tc>>].state = "done" => Succeeded(<<"evaluate", s, tc>>)
<1>1. PICK e : e = <<"evaluate", s, tc>>
  OBVIOUS
<1>2. PICK c : c = <<"check", s, tc>>
  OBVIOUS
<1>3. e \in DOMAIN exec /\ c \in DOMAIN exec
  BY <1>1, <1>2, CellGroups
<1>4. Inputs(task, c) = CheckerInputs(task, s, tc)
  BY <1>2, InputsByKind
<1>5. e \in CheckerInputs(task, s, tc)
  BY <1>1 DEF CheckerInputs
<1>6. e \in InputsOf(c)
  BY <1>4, <1>5, WhichTask DEF ExecInv
<1>7. exec[c].state = "done" => Succeeded(e)
  BY <1>3, <1>6 DEF ExecInv, ExecOk
<1> QED BY <1>1, <1>2, <1>6, <1>7

\* A message that a group has started or is skipped.
LEMMA MessageScores ==
    ASSUME ExecInv, UiOk, IsIoi, ScoresOk, phase = "running", NEW g \in DOMAIN exec, Moved(g),
           NEW status \in {"started", "skipped"}, exec'[g].state = status,
           status = "started" => \A h \in InputsOf(g) : Succeeded(h),
           UNCHANGED <<task, manager>>, ui' = Apply(ui, g, status, <<>>)
    PROVE  ScoresOk'
<1>1. Running
  BY DEF Running
<1>2. IsIoiTask(task) /\ g \in IoiGroups(task) /\ IoiUi(task, ui)
  BY <1>1, WhichTask DEF UiOk, ExecInv
<1>3. PICK w : w = IoiApply(task, ui, g, status, <<>>)
  OBVIOUS
<1>4. ui' = w
  BY <1>3 DEF Apply
<1>5. w.score = ui.score /\ (g[1] \notin {"evaluate", "check"} => w.testcases = ui.testcases)
  BY <1>2, <1>3, IoiApplyUi
<1>6. ManagersOk
  BY DEF ScoresOk
<1>7. CASE g[1] = "evaluate"
  <2>1. g \in Evaluates(task)
    BY <1>2, <1>7, KindOfGroup
  <2>2. PICK s \in task.solutions, tc \in Testcases(task) : g = <<"evaluate", s, tc>>
    BY <2>1 DEF Evaluates
  <2>3. PICK v : v = ui.testcases[s][tc]
    OBVIOUS
  <2>4. PICK new : new = EvaluationAfter(v, status, <<>>)
    OBVIOUS
  <2>5. OnlyEvaluation(task, w, ui, s, tc, new)
    BY <1>2, <1>3, <2>2, <2>3, <2>4, ApplyEvaluationFacts
  <2>6. UiCell(s, tc, new)
    BY <1>2, <1>4, <2>5, OneEvaluation DEF UiCell
  <2>7. PICK n : n = manager[s].testcases[tc]
    OBVIOUS
  <2>8. ManagerCell(s, tc, n)
    BY <1>4, <1>5, <1>6, <2>7, ManagerStays
  <2>9. PICK c : c = <<"check", s, tc>>
    OBVIOUS
  <2>10. CellOk(task, exec[g], exec[c], v, n) /\ DOMAIN v = {"status", "score", "results"}
    BY <1>2, <2>2, <2>3, <2>7, <2>9 DEF ScoresOk, Cell, IoiUi
  <2>11. \E x \in {"Solving", "Skipped"} : new = [v EXCEPT !.status = x]
    BY <2>4 DEF EvaluationAfter
  <2>12. exec[g].state # "done" /\ exec'[g].state # "done"
    BY DEF Moved
  <2>13. CellOk(task, exec'[g], exec[c], new, n)
    BY <2>10, <2>11, <2>12, CellWaits
  <2>14. task.type = "batch" => exec[c] = exec'[c]
    BY <1>1, <2>2, <2>9, CellGroups DEF Moved
  <2>15. CellOk(task, exec'[g], exec'[c], new, n)
    BY <1>2, <2>13, <2>14, CellSame
  <2> QED BY <1>1, <2>2, <2>6, <2>8, <2>9, <2>15, CellMoves
<1>8. CASE g[1] = "check"
  <2>1. g \in Checks(task)
    BY <1>2, <1>8, KindOfGroup
  <2>2. PICK s \in task.solutions, tc \in Testcases(task) : g = <<"check", s, tc>>
    BY <2>1 DEF Checks
  <2>3. task.type = "batch"
    BY <2>1 DEF Checks
  <2>4. PICK v : v = ui.testcases[s][tc]
    OBVIOUS
  <2>5. PICK n : n = manager[s].testcases[tc]
    OBVIOUS
  <2>6. ManagerCell(s, tc, n)
    BY <1>4, <1>5, <1>6, <2>5, ManagerStays
  <2>7. PICK e : e = <<"evaluate", s, tc>>
    OBVIOUS
  <2>8. CellOk(task, exec[e], exec[g], v, n) /\ DOMAIN v = {"status", "score", "results"}
    BY <1>2, <2>2, <2>4, <2>5, <2>7 DEF ScoresOk, Cell, IoiUi
  <2>9. exec[g].state # "done" /\ exec'[g].state # "done"
    BY DEF Moved
  <2>10. exec'[e] = exec[e]
    BY <1>1, <2>2, <2>7, CellGroups DEF Moved
  <2>11. CASE status = "started"
    <3>1. PICK new : new = [v EXCEPT !.status = "Checking"]
      OBVIOUS
    <3>2. OnlyEvaluation(task, w, ui, s, tc, new)
      BY <1>2, <1>3, <2>2, <2>4, <2>11, <3>1, ApplyCheckerFacts
    <3>3. UiCell(s, tc, new)
      BY <1>2, <1>4, <3>2, OneEvaluation DEF UiCell
    <3>4. Succeeded(e)
      BY <1>1, <2>2, <2>3, <2>7, <2>11, CheckedEvaluation
    <3>5. CellOk(task, exec[e], exec'[g], new, n)
      BY <1>2, <2>3, <2>8, <2>9, <3>1, <3>4, CellChecking DEF Succeeded
    <3> QED BY <1>1, <2>2, <2>6, <2>7, <2>10, <3>3, <3>5, CellMoves
  <2>12. CASE status = "skipped"
    <3>1. w = ui
      BY <1>2, <1>3, <2>2, <2>12, ApplyCheckerFacts
    <3>2. UiCell(s, tc, v)
      BY <1>4, <2>4, <3>1 DEF UiCell, ShowsCell
    <3>3. CellOk(task, exec[e], exec'[g], v, n)
      BY <1>2, <2>8, <2>9, CellSame
    <3> QED BY <1>1, <2>2, <2>6, <2>7, <2>10, <3>2, <3>3, CellMoves
  <2> QED BY <2>11, <2>12
<1>9. CASE g[1] \notin {"evaluate", "check"}
  BY <1>1, <1>4, <1>5, <1>9, OtherMoves
<1> QED BY <1>7, <1>8, <1>9

\* What the results of an evaluation or of a check may be.
LEMMA ResultsFacts ==
    ASSUME IsIoiTask(task), NEW s, NEW tc, NEW res, NEW out
    PROVE  /\ (res \in Results(<<"evaluate", s, tc>>) /\ out \in Outputs(<<"evaluate", s, tc>>)) =>
                /\ \E k \in Nat : res \in [1..k -> Statuses] /\ (task.type = "interactive" => k = 2)
                /\ out \in Nat \cup {Invalid}
           /\ (res \in Results(<<"check", s, tc>>) /\ out \in Outputs(<<"check", s, tc>>)) =>
                DOMAIN res = {1} /\ out \in Nat \cup {Invalid}
<1>1. PICK k : k = Processes(task, <<"evaluate", s, tc>>)
  OBVIOUS
<1>2. k = CASE task.type = "batch" -> 1
           [] task.type = "communication" -> task.processes + 1
           [] task.type = "interactive" -> 2
  BY <1>1 DEF Processes
<1>3. k \in Nat /\ (task.type = "interactive" => k = 2)
  BY <1>2 DEF IsIoiTask
<1>4. Results(<<"evaluate", s, tc>>) = [1..k -> Statuses] /\ Outputs(<<"evaluate", s, tc>>) = Printed
  BY <1>1 DEF Results, Outputs
<1>5. Results(<<"check", s, tc>>) = [{1} -> ToolStatuses] /\ Outputs(<<"check", s, tc>>) = Printed
  BY DEF Results, Outputs
<1>6. Printed \subseteq Nat \cup {Invalid}
  BY PrintedAssumption
<1>7. (res \in Results(<<"evaluate", s, tc>>) /\ out \in Outputs(<<"evaluate", s, tc>>)) =>
        /\ \E j \in Nat : res \in [1..j -> Statuses] /\ (task.type = "interactive" => j = 2)
        /\ out \in Nat \cup {Invalid}
  BY <1>3, <1>4, <1>6
<1>8. (res \in Results(<<"check", s, tc>>) /\ out \in Outputs(<<"check", s, tc>>)) =>
        DOMAIN res = {1} /\ out \in Nat \cup {Invalid}
  BY <1>5, <1>6
<1> QED BY <1>7, <1>8

LEMMA DoneScores ==
    ASSUME ExecInv, UiOk, IsIoi, ScoresOk, NEW g \in DOMAIN exec, Done(g), phase' # "failed"
    PROVE  ScoresOk'
<1>1. phase = "running" /\ Running /\ Moved(g) /\ task' = task /\ exec'[g].state = "done"
  BY DoneFacts DEF Running
<1>2. IsIoiTask(task) /\ g \in IoiGroups(task) /\ IoiUi(task, ui)
  BY <1>1, WhichTask DEF UiOk, ExecInv
<1>3. PICK f : f = exec'[g]
  OBVIOUS
<1>4. /\ DoneIoi(g, f.res, f.out) /\ f.state = "done" /\ f.res \in Results(g) /\ f.out \in Outputs(g)
      /\ \A h \in InputsOf(g) : Succeeded(h)
  BY <1>1, <1>3, DoneFacts
<1>5. PICK w : w = IoiApply(task, ui, g, "done", f.res)
  OBVIOUS
<1>6. PICK score : score = ScoreOfGroup(task, g, f.res, f.out)
  OBVIOUS
<1>7. /\ score # Panic
      /\ score >= 0 => Scored(w, g[2], g[3], score)
      /\ ~(score >= 0) => NotScored(w)
  BY <1>1, <1>2, <1>4, <1>5, <1>6, DoneIoiFacts
<1>8. IoiUi(task, w) /\ w.score = ui.score /\ (g[1] \notin {"evaluate", "check"} => w.testcases = ui.testcases)
  BY <1>2, <1>5, IoiApplyUi
<1>9. ManagersOk /\ (score >= 0 => score # Unscored)
  BY DEF ScoresOk, Unscored
<1>10. CASE g[1] = "evaluate"
  <2>1. g \in Evaluates(task)
    BY <1>2, <1>10, KindOfGroup
  <2>2. PICK s \in task.solutions, tc \in Testcases(task) : g = <<"evaluate", s, tc>>
    BY <2>1 DEF Evaluates
  <2>3. PICK v : v = ui.testcases[s][tc]
    OBVIOUS
  <2>4. PICK x : x = EvaluationAfter(v, "done", f.res)
    OBVIOUS
  <2>5. OnlyEvaluation(task, w, ui, s, tc, x)
    BY <1>2, <1>5, <2>2, <2>3, <2>4, ApplyEvaluationFacts
  <2>6. ShowsCell(w, s, tc, x)
    BY <1>2, <2>5, OneEvaluation
  <2>7. PICK n : n = manager[s].testcases[tc]
    OBVIOUS
  <2>8. PICK c : c = <<"check", s, tc>>
    OBVIOUS
  <2>9. CellOk(task, exec[g], exec[c], v, n) /\ DOMAIN v = {"status", "score", "results"}
    BY <1>2, <2>2, <2>3, <2>7, <2>8 DEF ScoresOk, Cell, IoiUi
  <2>10. exec[g].state # "done"
    BY <1>1 DEF Moved
  <2>11. task.type = "batch" => exec[c].state # "done" /\ exec[c] = exec'[c]
    <3> SUFFICES ASSUME task.type = "batch" PROVE exec[c].state # "done" /\ exec[c] = exec'[c]
      OBVIOUS
    <3>1. exec[c].state = "done" => Succeeded(g)
      BY <1>1, <2>2, <2>8, CheckedEvaluation
    <3>2. exec[c] = exec'[c]
      BY <1>1, <2>2, <2>8, CellGroups DEF Moved
    <3> QED BY <2>10, <3>1, <3>2 DEF Succeeded
  <2>12. f.out \in Nat \cup {Invalid} /\ \E k \in Nat : f.res \in [1..k -> Statuses]
    BY <1>2, <1>4, <2>2, ResultsFacts
  <2>13. PICK k \in Nat : f.res \in [1..k -> Statuses]
    BY <2>12
  <2>14. score = ScoreOfGroup(task, <<"evaluate", s, tc>>, f.res, f.out)
    BY <1>6, <2>2
  <2>15. /\ n = Unscored
         /\ score >= 0 => CellOk(task, f, exec[c], ScoredAs(x, score), score)
         /\ ~(score >= 0) => CellOk(task, f, exec[c], x, n)
    BY <1>2, <1>4, <1>7, <2>4, <2>9, <2>10, <2>11, <2>12, <2>13, <2>14, CellEvaluated
  <2>16. g[2] = s /\ g[3] = tc
    BY <2>2
  <2>17. CASE score >= 0
    <3>1. Scored(w, s, tc, score)
      BY <1>7, <2>16, <2>17
    <3>2. PICK new : new = ScoredAs(x, score)
      OBVIOUS
    <3>3. UiCell(s, tc, new)
      BY <1>8, <2>6, <3>1, <3>2, ScoredCell
    <3>4. ManagerCell(s, tc, score)
      BY <1>1, <1>2, <1>9, <2>7, <2>15, <2>17, <3>1, ManagerMoves
    <3>5. CellOk(task, f, exec[c], new, score)
      BY <2>15, <2>17, <3>2
    <3>6. CellOk(task, f, exec'[c], new, score)
      BY <1>2, <2>11, <3>5, CellSame
    <3> QED BY <1>1, <1>3, <2>2, <2>8, <3>3, <3>4, <3>6, CellMoves
  <2>18. CASE ~(score >= 0)
    <3>1. manager' = manager /\ ui'.testcases = w.testcases /\ ui'.score = ui.score
      BY <1>7, <2>18 DEF NotScored
    <3>2. UiCell(s, tc, x)
      BY <2>6, <3>1 DEF UiCell, ShowsCell
    <3>3. ManagerCell(s, tc, n)
      BY <1>1, <1>9, <2>7, <3>1, ManagerStays
    <3>4. CellOk(task, f, exec'[c], x, n)
      BY <1>2, <2>11, <2>15, <2>18, CellSame
    <3> QED BY <1>1, <1>3, <2>2, <2>8, <3>2, <3>3, <3>4, CellMoves
  <2> QED BY <2>17, <2>18
<1>11. CASE g[1] = "check"
  <2>1. g \in Checks(task)
    BY <1>2, <1>11, KindOfGroup
  <2>2. PICK s \in task.solutions, tc \in Testcases(task) : g = <<"check", s, tc>>
    BY <2>1 DEF Checks
  <2>3. task.type = "batch"
    BY <2>1 DEF Checks
  <2>4. PICK v : v = ui.testcases[s][tc]
    OBVIOUS
  <2>5. w = ui
    BY <1>2, <1>5, <2>2, ApplyCheckerFacts
  <2>6. ShowsCell(w, s, tc, v)
    BY <2>4, <2>5 DEF ShowsCell
  <2>7. PICK n : n = manager[s].testcases[tc]
    OBVIOUS
  <2>8. PICK e : e = <<"evaluate", s, tc>>
    OBVIOUS
  <2>9. CellOk(task, exec[e], exec[g], v, n) /\ DOMAIN v = {"status", "score", "results"}
    BY <1>2, <2>2, <2>4, <2>7, <2>8 DEF ScoresOk, Cell, IoiUi
  <2>10. exec[g].state # "done" /\ exec'[e] = exec[e]
    BY <1>1, <2>2, <2>8, CellGroups DEF Moved
  <2>11. exec[e].state = "done" /\ AllGood(exec[e].res)
    BY <1>1, <1>4, <2>2, <2>3, <2>8, CheckedEvaluation DEF Succeeded
  <2>12. f.out \in Nat \cup {Invalid} /\ DOMAIN f.res = {1}
    BY <1>2, <1>4, <2>2, ResultsFacts
  <2>13. score = ScoreOfGroup(task, <<"check", s, tc>>, f.res, f.out)
    BY <1>6, <2>2
  <2>14. /\ n = Unscored
         /\ score >= 0 => CellOk(task, exec[e], f, ScoredAs(v, score), score)
         /\ ~(score >= 0) => CellOk(task, exec[e], f, v, n)
    BY <1>2, <1>4, <1>7, <2>3, <2>9, <2>10, <2>11, <2>12, <2>13, CellChecked
  <2>15. g[2] = s /\ g[3] = tc
    BY <2>2
  <2>16. CASE score >= 0
    <3>1. Scored(w, s, tc, score)
      BY <1>7, <2>15, <2>16
    <3>2. PICK new : new = ScoredAs(v, score)
      OBVIOUS
    <3>3. UiCell(s, tc, new)
      BY <1>8, <2>6, <3>1, <3>2, ScoredCell
    <3>4. ManagerCell(s, tc, score)
      BY <1>1, <1>2, <1>9, <2>7, <2>14, <2>16, <3>1, ManagerMoves
    <3>5. CellOk(task, exec'[e], f, new, score)
      BY <2>10, <2>14, <2>16, <3>2
    <3> QED BY <1>1, <1>3, <2>2, <2>8, <3>3, <3>4, <3>5, CellMoves
  <2>17. CASE ~(score >= 0)
    <3>1. manager' = manager /\ ui'.testcases = w.testcases /\ ui'.score = ui.score
      BY <1>7, <2>17 DEF NotScored
    <3>2. UiCell(s, tc, v)
      BY <2>6, <3>1 DEF UiCell, ShowsCell
    <3>3. ManagerCell(s, tc, n)
      BY <1>1, <1>9, <2>7, <3>1, ManagerStays
    <3>4. CellOk(task, exec'[e], f, v, n)
      BY <2>10, <2>14, <2>17
    <3> QED BY <1>1, <1>3, <2>2, <2>8, <3>2, <3>3, <3>4, CellMoves
  <2> QED BY <2>16, <2>17
<1>12. CASE g[1] \notin {"evaluate", "check"}
  <2>1. ~(score >= 0)
    BY <1>6, <1>12, ScoreOfOthers DEF Unscored
  <2>2. manager' = manager /\ ui'.testcases = ui.testcases /\ ui'.score = ui.score
    BY <1>7, <1>8, <1>12, <2>1 DEF NotScored
  <2> QED BY <1>1, <1>12, <2>2, OtherMoves
<1> QED BY <1>10, <1>11, <1>12

LEMMA BuildScores ==
    ASSUME ExecInv, Build, phase' # "failed", IsIoi
    PROVE  ScoresOk'
<1>1. IsIoiTask(task) /\ Groups = IoiGroups(task)
  BY WhichTask DEF ExecInv
<1>2. task' = task /\ DOMAIN exec' = Groups /\ \A g \in Groups : exec'[g] = Waiting
  BY BuildFacts
<1>3. PICK u : u = NewUIState(task)
  OBVIOUS
<1>4. SameIoiUi(task, ui', u) /\ manager' = [s \in task.solutions |-> NewScoreManager(task)]
  BY <1>3, BuildUi
<1>5. PICK m : m = NewScoreManager(task)
  OBVIOUS
<1>6. ManagerOk(task, m) /\ \A tc \in Testcases(task) : m.testcases[tc] = Unscored
  BY <1>1, <1>5, NewManagerFacts
<1>7. u.score = [s \in task.solutions |-> TaskScore(task, m)]
  BY <1>3, <1>5 DEF NewUIState
<1>8. u.testcases = [s \in task.solutions |-> NewSolutionState(task)]
  BY <1>3 DEF NewUIState
<1>9. ui'.score = u.score /\ ui'.testcases = u.testcases
  BY <1>4 DEF SameIoiUi
<1>10. ManagersOk'
  <2>1. DOMAIN manager' = task.solutions /\ \A s \in task.solutions : manager'[s] = m
    BY <1>4, <1>5
  <2>2. \A s \in task.solutions : ui'.score[s] = TaskScore(task, m)
    BY <1>7, <1>9
  <2> QED BY <1>2, <1>6, <2>1, <2>2 DEF ManagersOk
<1>11. ASSUME NEW s \in task.solutions, NEW tc \in Testcases(task) PROVE Cell(s, tc)'
  <2>1. PICK e : e = <<"evaluate", s, tc>>
    OBVIOUS
  <2>2. e \in Runs(task)
    BY <2>1 DEF Runs, Evaluates
  <2>3. e \in Groups
    BY <1>1, <2>2, GroupsByKind
  <2>4. exec'[e].state = "pending"
    BY <1>2, <2>3 DEF Waiting
  <2>5. PICK c : c = exec'[<<"check", s, tc>>]
    OBVIOUS
  <2>6. PICK v : v = ui'.testcases[s][tc]
    OBVIOUS
  <2>7. v.status = "Pending" /\ v.score = Unscored
    BY <1>8, <1>9, <2>6 DEF NewSolutionState
  <2>8. manager'[s].testcases[tc] = Unscored
    BY <1>4, <1>5, <1>6
  <2>9. DeservedFrom(task, exec'[e], c) = Unscored
    BY <2>4, DeservedByCase
  <2>10. CellOk(task, exec'[e], c, v, Unscored)
    BY <2>4, <2>7, <2>9 DEF CellOk
  <2> QED BY <1>2, <2>1, <2>5, <2>6, <2>8, <2>10 DEF Cell
<1> QED BY <1>2, <1>10, <1>11 DEF ScoresOk

LEMMA ScoreInit == Init => ScoreInv
  BY DEF Init, ScoreInv, Running

LEMMA ScoreNext == ExecInv /\ UiOk /\ ScoreInv /\ [Next]_vars => ScoreInv'
<1> SUFFICES ASSUME ExecInv, UiOk, ScoreInv, [Next]_vars, Running', IsIoi' PROVE ScoresOk'
  BY DEF ScoreInv
<1>0. phase' # "failed"
  BY DEF Running
<1>1. CASE Build
  <2>1. IsIoi
    BY <1>1 DEF Build, IsIoi
  <2> QED BY <1>0, <1>1, <2>1, BuildScores
<1>2. ASSUME NEW g \in DOMAIN exec, Start(g) PROVE ScoresOk'
  <2>1. /\ Moved(g) /\ exec'[g].state = "started" /\ phase = "running" /\ UNCHANGED <<task, manager>>
        /\ \A h \in InputsOf(g) : Succeeded(h)
        /\ ui' = Apply(ui, g, "started", <<>>)
    BY <1>2, StartFacts
  <2>2. IsIoi /\ ScoresOk
    BY <2>1 DEF IsIoi, ScoreInv, Running
  <2> QED BY <2>1, <2>2, MessageScores
<1>3. ASSUME NEW g \in DOMAIN exec, Skip(g) PROVE ScoresOk'
  <2>1. /\ Moved(g) /\ exec'[g].state = "skipped" /\ phase = "running" /\ UNCHANGED <<task, manager>>
        /\ ui' = Apply(ui, g, "skipped", <<>>)
    BY <1>3, SkipFacts
  <2>2. IsIoi /\ ScoresOk
    BY <2>1 DEF IsIoi, ScoreInv, Running
  <2> QED BY <2>1, <2>2, MessageScores
<1>4. ASSUME NEW g \in DOMAIN exec, Done(g) PROVE ScoresOk'
  <2>1. phase = "running" /\ task' = task
    BY <1>4, DoneFacts
  <2>2. IsIoi /\ ScoresOk
    BY <2>1 DEF IsIoi, ScoreInv, Running
  <2> QED BY <1>0, <1>4, <2>2, DoneScores
<1>5. CASE UNCHANGED <<task, exec, manager, ui>> /\ Running
  <2>1. ScoresOk
    BY <1>5 DEF IsIoi, ScoreInv
  <2> QED BY <1>5, <2>1 DEF ScoresOk, ManagersOk, Cell
<1>6. CASE Finish
  BY <1>5, <1>6 DEF Finish, Running
<1>7. CASE AddSolutionChecks
  BY <1>5, <1>7 DEF AddSolutionChecks, Running
<1>8. CASE UNCHANGED vars
  BY <1>5, <1>8 DEF vars, Running
<1> QED BY <1>1, <1>2, <1>3, <1>4, <1>6, <1>7, <1>8 DEF Next

\* What a solution deserves is a score or none.
LEMMA DeservedType ==
    ASSUME ExecInv, Running, IsIoi, NEW s \in task.solutions, NEW tc \in Testcases(task)
    PROVE  Deserved(s, tc) \in Nat \cup {Unscored}
<1>1. PICK e : e = exec[<<"evaluate", s, tc>>]
  OBVIOUS
<1>2. PICK c : c = exec[<<"check", s, tc>>]
  OBVIOUS
<1>3. IsIoiTask(task)
  BY CellGroups
<1>4. e.state = "done" => e.out \in Nat \cup {Invalid}
  <2>1. ExecOk(<<"evaluate", s, tc>>)
    BY CellGroups DEF ExecInv
  <2> QED BY <1>1, <1>3, <2>1, ResultsFacts DEF ExecOk
<1>5. (task.type = "batch" /\ c.state = "done") => c.out \in Nat \cup {Invalid}
  <2> SUFFICES ASSUME task.type = "batch", c.state = "done" PROVE c.out \in Nat \cup {Invalid}
    OBVIOUS
  <2>1. ExecOk(<<"check", s, tc>>)
    BY CellGroups DEF ExecInv
  <2> QED BY <1>2, <1>3, <2>1, ResultsFacts DEF ExecOk
<1>6. DeservedFrom(task, e, c) \in Nat \cup {Unscored}
  <2>1. CASE e.state # "done"
    BY <2>1, DeservedByCase
  <2>2. CASE e.state = "done" /\ task.type = "interactive"
    BY <1>4, <2>2, DeservedByCase
  <2>3. CASE e.state = "done" /\ task.type # "interactive" /\ ~AllGood(e.res)
    BY <2>3, DeservedByCase
  <2>4. CASE e.state = "done" /\ task.type = "communication" /\ AllGood(e.res)
    BY <1>4, <2>4, DeservedByCase DEF Told
  <2>5. CASE e.state = "done" /\ task.type = "batch" /\ AllGood(e.res)
    <3>1. CASE c.state # "done"
      BY <2>5, <3>1, DeservedByCase
    <3>2. CASE c.state = "done" /\ task.checker = "diff"
      BY <2>5, <3>2, DeservedByCase, ScoresAssumption
    <3>3. CASE c.state = "done" /\ task.checker = "custom"
      BY <1>5, <2>5, <3>3, DeservedByCase DEF Told
    <3> QED BY <1>3, <3>1, <3>2, <3>3 DEF IsIoiTask
  <2> QED BY <1>3, <2>1, <2>2, <2>3, <2>4, <2>5 DEF IsIoiTask
<1> QED BY <1>1, <1>2, <1>6, DeservedIsFrom

LEMMA ScoreImplies == ExecInv /\ ScoreInv => ScoreIsRight
<1> SUFFICES ASSUME ExecInv, ScoreInv, Running, IsIoi, NEW s \in task.solutions,
                    NEW score, score = [tc \in Testcases(task) |-> Deserved(s, tc)]
             PROVE  /\ ui.score[s] # Unscored =>
                        ui.score[s] = MapThenSumSet(LAMBDA st : SubtaskScore(task, st, score), Subtasks(task))
                    /\ (Over /\ \A tc \in Testcases(task) : score[tc] # Unscored) => ui.score[s] # Unscored
  BY DEF ScoreIsRight
<1>1. ScoresOk /\ ManagersOk
  BY DEF ScoreInv, ScoresOk
<1>2. IsIoiTask(task)
  BY WhichTask DEF ExecInv
<1>3. PICK m : m = manager[s]
  OBVIOUS
<1>4. ManagerOk(task, m) /\ ui.score[s] = TaskScore(task, m)
  BY <1>1, <1>3 DEF ManagersOk
<1>5. PICK T : T = Subtasks(task)
  OBVIOUS
<1>6. IsFiniteSet(T) /\ \A st \in T : task.subtasks[st].testcases \subseteq Testcases(task)
  BY <1>2, <1>5 DEF IsIoiTask
<1>7. ASSUME NEW tc \in Testcases(task) PROVE m.testcases[tc] = score[tc] /\ score[tc] \in Nat \cup {Unscored}
  <2>1. Cell(s, tc)
    BY <1>1 DEF ScoresOk
  <2>2. manager[s].testcases[tc] = Deserved(s, tc)
    BY <2>1, DeservedIsFrom DEF Cell, CellOk
  <2>3. Deserved(s, tc) \in Nat \cup {Unscored}
    BY DeservedType
  <2> QED BY <1>3, <2>2, <2>3
<1>8. PICK val : val = m.subtasks
  OBVIOUS
<1>9. ASSUME NEW st \in T
      PROVE  val[st] = IF \E tc \in task.subtasks[st].testcases : score[tc] = Unscored
                       THEN Unscored ELSE SubtaskScore(task, st, score)
  <2>1. PICK tcs : tcs = task.subtasks[st].testcases
    OBVIOUS
  <2>2. \A tc \in tcs : m.testcases[tc] = score[tc]
    BY <1>6, <1>7, <2>1
  <2>3. PICK f : f = m.testcases
    OBVIOUS
  <2>4. SubtaskScore(task, st, f) = SubtaskScore(task, st, score)
    BY <1>2, <1>5, <2>1, <2>2, <2>3, SubtaskScoreSame
  <2>5. val[st] = IF \E tc \in tcs : f[tc] = Unscored THEN Unscored ELSE SubtaskScore(task, st, f)
    BY <1>4, <1>5, <1>8, <2>1, <2>3 DEF ManagerOk, SubtasksScored
  <2> QED BY <2>1, <2>2, <2>3, <2>4, <2>5
<1>10. MapThenSumSet(LAMBDA st : val[st], T) = SumOf(val, T)
  BY SumOfFunction
<1>11. ui.score[s] = IF \E st \in T : val[st] = Unscored THEN Unscored ELSE SumOf(val, T)
  BY <1>4, <1>5, <1>8, <1>10 DEF TaskScore
<1>12. ASSUME ui.score[s] # Unscored
       PROVE  ui.score[s] = MapThenSumSet(LAMBDA st : SubtaskScore(task, st, score), Subtasks(task))
  <2>1. \A st \in T : val[st] # Unscored
    BY <1>11, <1>12
  <2>2. \A st \in T : val[st] = SubtaskScore(task, st, score)
    BY <1>9, <2>1
  <2>3. SubtaskSum(task, score, T) = SumOf(val, T)
    BY <1>6, <2>2, SumOfSubtasks
  <2>4. ui.score[s] = SumOf(val, T)
    BY <1>11, <2>1
  <2>5. ui.score[s] = SubtaskSum(task, score, Subtasks(task))
    BY <1>5, <2>3, <2>4
  <2> QED BY <2>5 DEF SubtaskSum
<1>13. ASSUME \A tc \in Testcases(task) : score[tc] # Unscored PROVE ui.score[s] # Unscored
  <2>1. ASSUME NEW st \in T PROVE val[st] \in Nat
    <3>1. \A tc \in task.subtasks[st].testcases : score[tc] \in Nat
      BY <1>6, <1>7, <1>13
    <3>2. SubtaskScore(task, st, score) \in Nat
      BY <1>2, <1>5, <3>1, SubtaskScoreNat
    <3>3. ~\E tc \in task.subtasks[st].testcases : score[tc] = Unscored
      BY <1>6, <1>13
    <3> QED BY <1>9, <3>2, <3>3
  <2>2. SumOf(val, T) \in Nat
    BY <1>6, <2>1, SumNat
  <2>3. \A st \in T : val[st] # Unscored
    BY <2>1 DEF Unscored
  <2>4. ui.score[s] = SumOf(val, T)
    BY <1>11, <2>3
  <2> QED BY <2>2, <2>4 DEF Unscored
<1> QED BY <1>12, <1>13

\* What CellOk says of the verdict, for an evaluation e of the task t.
LEMMA CellVerdict ==
    ASSUME NEW t, IsIoiTask(t), NEW e, NEW c, NEW v, NEW n, CellOk(t, e, c, v, n),
           DeservedFrom(t, e, c) \in Nat \cup {Unscored}, NEW k \in Nat,
           e.state = "done" => e.res \in [1..k -> Statuses] /\ (t.type = "interactive" => k = 2)
    PROVE  /\ v.score > 0 => v.status \in {"Accepted", "Partial"} \/ (t.type = "interactive" /\ ~AllGood(e.res))
           /\ v.status = "Accepted" => NearOne(v.score)
           /\ v.status = "Partial" => v.score > 0 /\ ~NearOne(v.score)
           /\ v.status = "WrongAnswer" =>
                \/ v.score = 0
                \/ v.score <= Epsilon /\ t.type = "interactive" /\ ~AllGood(e.res)
           /\ v.status \in Range(FailureStatus) =>
                \E i \in DOMAIN e.res : e.res[i] # "Success" /\ FailureStatus[e.res[i]] = v.status
           /\ (t.type = "interactive" /\ e.state = "done" /\ e.res[2] # "Success"
                /\ FailureStatus[e.res[2]] # "RuntimeError") => v.status = FailureStatus[e.res[2]]
<1>1. v.score \in Nat \cup {Unscored}
  BY DEF CellOk
<1>2. CASE e.state # "done"
  <2>1. v.status \in {"Pending", "Solving", "Skipped"} /\ v.score = Unscored
    BY <1>2, DeservedByCase DEF CellOk
  <2>2. ~(v.score > 0)
    BY <2>1 DEF Unscored
  <2>3. v.status \notin Range(FailureStatus)
    BY <2>1, FailureStatusFacts DEF Failures
  <2> QED BY <1>2, <2>1, <2>2, <2>3
<1>3. CASE e.state = "done" /\ AllGood(e.res)
  <2>1. IF v.score = Unscored THEN v.status \in {"Solved", "Checking"} ELSE v.status = from_score(v.score)
    BY <1>3 DEF CellOk
  <2>2. v.score = Unscored => ~(v.score > 0)
    BY DEF Unscored
  <2>3. /\ from_score(v.score) \in {"WrongAnswer", "Accepted", "Partial"}
        /\ from_score(v.score) = "WrongAnswer" => v.score = 0
        /\ from_score(v.score) = "Accepted" => NearOne(v.score)
        /\ from_score(v.score) = "Partial" => v.score # 0 /\ ~NearOne(v.score)
        /\ v.score = 0 => from_score(v.score) = "WrongAnswer"
    BY DEF from_score
  <2>4. v.status \notin Range(FailureStatus)
    BY <2>1, <2>3, FailureStatusFacts DEF Failures
  <2>5. v.score > 0 => v.status \in {"Accepted", "Partial"}
    <3>1. v.score > 0 => v.score # 0
      BY <1>1, <2>2
    <3>2. v.score > 0 => from_score(v.score) \in {"Accepted", "Partial"}
      <4>1. v.score # 0 => from_score(v.score) \in {"Accepted", "Partial"}
        BY DEF from_score
      <4> QED BY <3>1, <4>1
    <3> QED BY <2>1, <2>2, <3>2
  <2>6. t.type = "interactive" => e.res[2] = "Success"
    <3> SUFFICES ASSUME t.type = "interactive" PROVE e.res[2] = "Success"
      OBVIOUS
    <3>1. DOMAIN e.res = 1..2
      BY <1>3
    <3> QED BY <1>3, <3>1 DEF AllGood
  <2>7. v.status = "Accepted" => NearOne(v.score)
    BY <2>1, <2>3
  <2>9. v.status = "Partial" => v.score > 0 /\ ~NearOne(v.score)
    <3>1. v.status = "Partial" => v.score # Unscored /\ v.score # 0 /\ ~NearOne(v.score)
      BY <2>1, <2>3
    <3> QED BY <1>1, <3>1
  <2>8. v.status = "WrongAnswer" => v.score = 0
    BY <2>1, <2>3
  <2> QED BY <2>4, <2>5, <2>6, <2>7, <2>8, <2>9
<1>4. CASE e.state = "done" /\ ~AllGood(e.res)
  <2>1. \/ v.status = EvaluationStatus(e.res)
        \/ v.status = "WrongAnswer" /\ v.score <= Epsilon /\ EvaluationStatus(e.res) = "RuntimeError"
    BY <1>4 DEF CellOk
  <2>2. /\ EvaluationStatus(e.res) \in Failures
        /\ \E i \in DOMAIN e.res : e.res[i] # "Success" /\ FailureStatus[e.res[i]] = EvaluationStatus(e.res)
        /\ (k = 2 /\ e.res[2] # "Success") => EvaluationStatus(e.res) = FailureStatus[e.res[2]]
    BY <1>4, FailedStatus
  <2>3. v.score > 0 => t.type = "interactive"
    <3>1. t.type # "interactive" => v.score = 0
      BY <1>4, DeservedByCase DEF CellOk
    <3> QED BY <3>1
  <2>4. /\ v.status \notin {"Accepted", "Partial"}
        /\ v.status = "WrongAnswer" => v.score = 0 \/ (v.score <= Epsilon /\ t.type = "interactive")
    <3>1. t.type # "interactive" => v.score = 0
      BY <1>4, DeservedByCase DEF CellOk
    <3> QED BY <2>1, <2>2, <3>1 DEF Failures
  <2>5. v.status \in Range(FailureStatus) => v.status = EvaluationStatus(e.res)
    BY <2>1, FailureStatusFacts DEF Failures
  <2>6. (t.type = "interactive" /\ e.res[2] # "Success" /\ FailureStatus[e.res[2]] # "RuntimeError") =>
            v.status = FailureStatus[e.res[2]]
    BY <1>4, <2>1, <2>2
  <2> QED BY <1>4, <2>2, <2>3, <2>4, <2>5, <2>6
<1> QED BY <1>2, <1>3, <1>4

LEMMA VerdictImplies == ExecInv /\ ScoreInv => VerdictMatchesScore
<1> SUFFICES ASSUME ExecInv, ScoreInv, Running, IsIoi, NEW s \in task.solutions, NEW tc \in Testcases(task),
                    NEW v, v = ui.testcases[s][tc], NEW e, e = exec[<<"evaluate", s, tc>>]
             PROVE  /\ v.score > 0 => \/ v.status \in {"Accepted", "Partial"}
                                      \/ task.type = "interactive" /\ ~AllGood(e.res)
                    /\ v.status = "Accepted" => NearOne(v.score)
                    /\ v.status = "Partial" => v.score > 0 /\ ~NearOne(v.score)
                    /\ v.status = "WrongAnswer" =>
                         \/ v.score = 0
                         \/ v.score <= Epsilon /\ task.type = "interactive" /\ ~AllGood(e.res)
                    /\ v.status \in Range(FailureStatus) =>
                         \E i \in DOMAIN e.res : e.res[i] # "Success" /\ FailureStatus[e.res[i]] = v.status
                    /\ (task.type = "interactive" /\ e.state = "done" /\ e.res[2] \notin {"Success"}
                         /\ FailureStatus[e.res[2]] # "RuntimeError") => v.status = FailureStatus[e.res[2]]
  BY DEF VerdictMatchesScore
<1>1. IsIoiTask(task)
  BY CellGroups
<1>2. PICK c : c = exec[<<"check", s, tc>>]
  OBVIOUS
<1>3. PICK n : n = manager[s].testcases[tc]
  OBVIOUS
<1>4. CellOk(task, e, c, v, n)
  BY <1>2, <1>3 DEF ScoreInv, ScoresOk, Cell
<1>5. DeservedFrom(task, e, c) \in Nat \cup {Unscored}
  BY <1>2, DeservedIsFrom, DeservedType
<1>6. \E k \in Nat : e.state = "done" => e.res \in [1..k -> Statuses] /\ (task.type = "interactive" => k = 2)
  <2>1. ExecOk(<<"evaluate", s, tc>>)
    BY CellGroups DEF ExecInv
  <2>2. CASE e.state = "done"
    <3>1. e.res \in Results(<<"evaluate", s, tc>>) /\ e.out \in Outputs(<<"evaluate", s, tc>>)
      BY <2>1, <2>2 DEF ExecOk
    <3>2. \E k \in Nat : e.res \in [1..k -> Statuses] /\ (task.type = "interactive" => k = 2)
      BY <1>1, <3>1, ResultsFacts
    <3> QED BY <3>2
  <2>3. CASE e.state # "done"
    <3>1. 0 \in Nat
      OBVIOUS
    <3> QED BY <2>3, <3>1
  <2> QED BY <2>2, <2>3
<1>7. PICK k \in Nat : e.state = "done" => e.res \in [1..k -> Statuses] /\ (task.type = "interactive" => k = 2)
  BY <1>6
<1> QED BY <1>1, <1>4, <1>5, <1>7, CellVerdict

\* The score shown for a solution is the sum over the subtasks of what it
\* deserves on their testcases, the included ones too, in whatever order the
\* results came, and it is there when the evaluation is over and every
\* testcase has a score (ScoreManager::score and UIState::apply).
THEOREM ScoresAreRight == Spec => []ScoreIsRight
<1>1. Init => ExecInv /\ UiOk /\ ScoreInv
  BY ExecInit, UiInit, ScoreInit
<1>2. ExecInv /\ UiOk /\ ScoreInv /\ [Next]_vars => (ExecInv /\ UiOk /\ ScoreInv)'
  BY ExecNext, UiNext, ScoreNext
<1>3. ExecInv /\ ScoreInv => ScoreIsRight
  BY ScoreImplies
<1> QED BY <1>1, <1>2, <1>3, PTL DEF Spec

\* What is shown of a testcase agrees with its score and with the results of
\* the processes: points only with Accepted or Partial, a wrong answer and no
\* points together, a limit only if a process exceeded it (the statuses of
\* UIState::apply on IOIEvaluation and IOITestcaseScore).
THEOREM VerdictsMatchScores == Spec => []VerdictMatchesScore
<1>1. Init => ExecInv /\ UiOk /\ ScoreInv
  BY ExecInit, UiInit, ScoreInit
<1>2. ExecInv /\ UiOk /\ ScoreInv /\ [Next]_vars => (ExecInv /\ UiOk /\ ScoreInv)'
  BY ExecNext, UiNext, ScoreNext
<1>3. ExecInv /\ ScoreInv => VerdictMatchesScore
  BY VerdictImplies
<1> QED BY <1>1, <1>2, <1>3, PTL DEF Spec
=============================================================================
