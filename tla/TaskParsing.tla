----------------------------- MODULE TaskParsing -----------------------------
(***************************************************************************)
(* The directory of an IOI task: the author writes it, IOITask::new reads  *)
(* it (italian_yaml or italian_toml) and writes gen/GEN and task.yaml,     *)
(* build_dag writes the inputs and the outputs, clean removes what was     *)
(* generated, and the task is read again.                                  *)
(*                                                                         *)
(* disk is what the directory holds: format ("cases", "GEN", "static" or   *)
(* "toml": the file that lists the testcases), orig (task.yaml.orig), yaml *)
(* and gen (task.yaml and gen/GEN), input and output (the files of input/  *)
(* and output/ by number), bin, exe (the programs written next to their    *)
(* sources in check/), found (how many source files find each program),    *)
(* score_type and toml (gen.toml).  A file is "none", "ours" (it was       *)
(* generated, with the cookie if it has one) or "user".                    *)
(***************************************************************************)
EXTENDS GenToml

CONSTANTS
    Disks,    \* the directories an author may start from
    Slots,    \* for each format, the lines that may be at each place of its file
    MaxRuns   \* how many times the task is read

ASSUME RunsAssumption == MaxRuns \in Nat \ {0}

VARIABLES
    disk,     \* the directory
    file,     \* the lines of gen/cases.gen, or of the author's gen/GEN
    written,  \* the lines of the gen/GEN that was generated
    phase,    \* "edit", "closing", "search", "parsed", "cleaned", "failed", "panicked"
    work,     \* the local state of the function that is reading
    task,     \* the last IOITask
    first,    \* the first one
    runs      \* how many times the task was read

vars == <<disk, file, written, phase, work, task, first, runs>>

None == <<>>

-----------------------------------------------------------------------------
(* What is found in the directory.                                         *)

\* find_source_file: none, one, or too many.
Found(d, program) == d.found[program]

\* parse_interactive_task_data and parse_communication_task_data.
IsInteractive(d) == Found(d, "controller") = 1
IsCommunication(d) == Found(d, "manager") = 1

\* parse_batch_task_data of italian_yaml, and of italian_toml: that one needs
\* an official solution.
YamlBatchFails(d) == Found(d, "checker") > 1 \/ Found(d, "solution") > 1
TomlBatchFails(d) == Found(d, "checker") > 1 \/ Found(d, "solution") # 1

\* A task has a controller, a manager or neither, and not several of them.
TaskType(d) ==
    CASE \/ Found(d, "controller") > 1 \/ Found(d, "manager") > 1
         \/ IsInteractive(d) /\ IsCommunication(d) -> "failed"
      [] IsInteractive(d) /\ Found(d, "manager") = 0 -> "interactive"
      [] IsCommunication(d) /\ Found(d, "controller") = 0 -> "communication"
      [] OTHER -> IF IF d.format = "toml" THEN TomlBatchFails(d) ELSE YamlBatchFails(d)
                  THEN "failed" ELSE "batch"

\* detect_output_generator
OutputsOf(d) ==
    CASE TaskType(d) # "batch" -> "none"
      [] TaskType(d) = "batch" /\ Found(d, "solution") = 1 -> "custom"
      [] OTHER -> "static"

\* detect_validator
DetectFails(d) == Found(d, "validator") > 1
DetectedValidator(d) ==
    IF Found(d, "validator") = 0 THEN [source |-> "", args |-> <<>>]
    ELSE [source |-> "validator", args |-> <<"INPUT", "ST_NUM + 1">>]

\* A gen/GEN is read even if there is a gen/cases.gen.
ReadGenFirst(d) == IF d.gen # "none" THEN "GEN" ELSE d.format

\* Which file lists the testcases.
ReadFrom(d) == d.format

\* IOITask::new, and parse_task, need a configuration.
HasConfig(d) == d.format = "toml" \/ d.orig \/ d.yaml # "none"

\* Path::exists, for the lines of a file.
Exists(d, path) == path \in DOMAIN d.input => d.input[path] # "none"
Looked(d, lines) ==
    [i \in DOMAIN lines |-> [lines[i] EXCEPT !.found = @ /\ Exists(d, lines[i].path)]]

\* The entries: the result of one of the three parsers.
Entries(d) ==
    LET gen == IF d.format = "GEN" THEN file ELSE written
    IN CASE ReadFrom(d) = "cases" -> ParseCases(Looked(d, file))
         [] ReadFrom(d) = "GEN" ->
                parse_gen_gen(gen, Found(d, "generator") = 1 /\ ~DetectFails(d),
                              DetectedValidator(d), OutputsOf(d))
         [] ReadFrom(d) = "static" ->
                [ok |-> ~DetectFails(d),
                 result |-> static_inputs({i \in DOMAIN d.input : d.input[i] # "none"},
                                          DetectedValidator(d))]

\* The cookie is not looked for.
CanAlwaysWrite(old) == TRUE

\* is_tm_deletable
CanWrite(old) == old \in {"none", "ours"}

\* The subtask that a testcase is under.
Over(entries, i) == entries[Max({j \in 1..i : IsSubtask(entries[j])})].id

\* The map of the subtasks that parse_task makes of the entries.
Assemble(entries) ==
    [id \in {e.id : e \in {f \in Range(entries) : IsSubtask(f)}} |->
        LET e == CHOOSE f \in Range(entries) : IsSubtask(f) /\ f.id = id
            tcs == {entries[i].id : i \in {j \in DOMAIN entries :
                        IsTestcase(entries[j]) /\ Over(entries, j) = id}}
        IN [id |-> id, name |-> e.name, max_score |-> e.max_score,
            validator |-> e.validator, dependencies |-> e.dependencies,
            testcases |-> tcs, owned |-> tcs]]

-----------------------------------------------------------------------------
(* Actions.                                                                *)

Init ==
    /\ disk \in Disks
    /\ file = <<>> /\ written = <<>>
    /\ phase = "edit"
    /\ work = None /\ task = None /\ first = None
    /\ runs = 0

\* The author writes a line.
Edit ==
    /\ phase = "edit"
    /\ Len(file) < Len(Slots[disk.format])
    /\ \E l \in Slots[disk.format][Len(file) + 1] : file' = Append(file, l)
    /\ UNCHANGED <<disk, written, phase, work, task, first, runs>>

Readable ==
    /\ runs < MaxRuns
    /\ phase \in {"parsed", "cleaned"} \/ (phase = "edit" /\ Len(file) = Len(Slots[disk.format]))

ReadFails ==
    phase' = "failed" /\ work' = None /\ UNCHANGED <<disk, written>>

\* italian_yaml::parse_task up to the loop on the dependencies: a gen/GEN is
\* written next to gen/cases.gen.
ParseYaml(dry) ==
    LET e == Entries(disk)
        gen == ReadFrom(disk) = "cases" /\ ~dry /\ CanWrite(disk.gen)
    IN IF ~HasConfig(disk) \/ TaskType(disk) = "failed" \/ ~e.ok THEN ReadFails
       ELSE /\ phase' = "closing"
            /\ work' = [dry |-> dry, entries |-> e.result, subtasks |-> Assemble(e.result),
                        todo |-> DOMAIN Assemble(e.result), updated |-> FALSE]
            /\ disk' = IF gen THEN [disk EXCEPT !.gen = "ours"] ELSE disk
            /\ written' = IF gen THEN write_gen_gen(e.result) ELSE written

\* italian_toml::parse_task up to the loop on the subtasks.
ParseToml(dry) ==
    LET p == ProcessGroups(disk.toml, disk.found)
    IN IF TaskType(disk) = "failed" \/ ~p.ok \/ SubtaskFails(disk.toml, disk.found, 1) THEN ReadFails
       ELSE /\ phase' = "search"
            /\ work' = [dry |-> dry, groups |-> p, k |-> 1, owners |-> {}, subtasks |-> <<>>,
                        search |-> NewSearch(disk.toml, 1)]
            /\ UNCHANGED <<disk, written>>

Parse(dry) ==
    /\ Readable
    /\ runs' = runs + 1
    /\ IF disk.format = "toml" THEN ParseToml(dry) ELSE ParseYaml(dry)
    /\ UNCHANGED <<file, task, first>>

\* What a subtask has after its dependencies were added to it.
Extended(subtasks, st) ==
    subtasks[st].testcases \cup UNION {subtasks[d].testcases : d \in subtasks[st].dependencies}

\* One turn of the inner loop (the order of the map is any order).
Extend(st) ==
    /\ phase = "closing"
    /\ st \in work.todo
    /\ LET tcs == Extended(work.subtasks, st)
       IN work' = [work EXCEPT !.todo = @ \ {st}, !.subtasks[st].testcases = tcs,
                               !.updated = @ \/ tcs # work.subtasks[st].testcases]
    /\ UNCHANGED <<disk, file, written, phase, task, first, runs>>

\* One round is enough.
OneRound(w) == FALSE

\* The loop goes on as long as something was added.
Again(w) == w.updated

NextRound ==
    /\ phase = "closing"
    /\ work.todo = {} /\ Again(work)
    /\ work' = [work EXCEPT !.todo = DOMAIN work.subtasks, !.updated = FALSE]
    /\ UNCHANGED <<disk, file, written, phase, task, first, runs>>

\* testcase_score_aggregator
Aggregator(d, subtasks) ==
    CASE d.score_type # "" -> d.score_type
      [] d.score_type = "" /\ d.format # "toml" /\ Cardinality(DOMAIN subtasks) = 1 -> "sum"
      [] OTHER -> "min"

Keep(t) == task' = t /\ first' = IF first = None THEN t ELSE first

\* The end of italian_yaml::parse_task: task.yaml is written if there is a
\* task.yaml.orig, and only if it was not changed by hand; the validator is
\* looked for again.
FinishYaml ==
    /\ phase = "closing"
    /\ work.todo = {} /\ ~Again(work)
    /\ work' = None
    /\ LET deps == \E st \in DOMAIN work.subtasks : work.subtasks[st].dependencies # {}
       IN IF ~disk.orig /\ deps
          THEN phase' = "failed" /\ UNCHANGED <<disk, task, first>>
          ELSE /\ disk' = IF disk.orig /\ CanWrite(disk.yaml) /\ ~work.dry
                          THEN [disk EXCEPT !.yaml = "ours"] ELSE disk
               /\ IF DetectFails(disk) THEN phase' = "failed" /\ UNCHANGED <<task, first>>
                  ELSE /\ phase' = "parsed"
                       /\ Keep([type |-> TaskType(disk), outputs |-> OutputsOf(disk),
                                aggregator |-> Aggregator(disk, work.subtasks),
                                entries |-> work.entries, subtasks |-> work.subtasks])
    /\ UNCHANGED <<file, written, runs>>

\* One turn of the search of the testcases of a subtask.
Search(name) ==
    /\ phase = "search"
    /\ name \in work.search.stack
    /\ CASE VisitFails(work.groups, work.search, name) -> phase' = "failed" /\ work' = None
         [] VisitPanics(work.groups, work.search, name) -> phase' = "panicked" /\ work' = None
         [] OTHER -> /\ work' = [work EXCEPT !.search = visit(work.groups, @, name, work.owners)]
                     /\ UNCHANGED phase
    /\ UNCHANGED <<disk, file, written, task, first, runs>>

\* The subtask is ready; after the last one italian_toml::parse_task writes
\* task.yaml.
EndSearch ==
    /\ phase = "search"
    /\ work.search.stack = {}
    /\ LET k == work.k
           sts == Append(work.subtasks, TomlSubtask(disk.toml, k, work.search))
           owners == work.owners \cup work.search.owned
       IN CASE k < Len(disk.toml.subtasks) /\ ~SubtaskFails(disk.toml, disk.found, k + 1) ->
                    /\ work' = [work EXCEPT !.k = k + 1, !.subtasks = sts, !.owners = owners,
                                            !.search = NewSearch(disk.toml, k + 1)]
                    /\ UNCHANGED <<disk, phase, task, first>>
            [] \/ k < Len(disk.toml.subtasks) /\ SubtaskFails(disk.toml, disk.found, k + 1)
               \/ k = Len(disk.toml.subtasks) /\ Unused(work.groups, owners) # {} ->
                    phase' = "failed" /\ work' = None /\ UNCHANGED <<disk, task, first>>
            [] OTHER ->
                    /\ phase' = "parsed"
                    /\ work' = None
                    /\ disk' = IF work.dry THEN disk ELSE [disk EXCEPT !.yaml = "ours"]
                    /\ Keep([type |-> TaskType(disk), outputs |-> OutputsOf(disk),
                             aggregator |-> Aggregator(disk, sts),
                             groups |-> work.groups, subtasks |-> sts])
    /\ UNCHANGED <<file, written, runs>>

\* The testcases of the task, and the path of each that is a file (the files
\* of a gen.toml are not in input/).
Ids == IF disk.format = "toml" THEN 0..(task.groups.count - 1)
       ELSE {e.id : e \in {f \in Range(task.entries) : IsTestcase(f)}}
StaticPaths ==
    IF disk.format = "toml" THEN <<>>
    ELSE LET static == {e \in Range(task.entries) : IsTestcase(e) /\ e.generator = Static}
         IN [tc \in {e.id : e \in static} |-> (CHOOSE e \in static : e.id = tc).path]

\* The input of a testcase is written to input/, over what is there; writing
\* a file of input/ over itself changes nothing.
WritesInput(tc) == tc \in DOMAIN StaticPaths => StaticPaths[tc] # tc

\* So is its output, empty for a task that has none; the author's outputs are
\* written over themselves.
WritesOutput == task.outputs # "static"

\* The program that build_dag always writes next to its source.
Program ==
    CASE task.type = "interactive" -> {"controller"}
      [] task.type = "communication" -> {"manager"}
      [] OTHER -> IF Found(disk, "checker") = 1 THEN {"checker"} ELSE {}

\* build_dag, without --dry-run, and the evaluation of a solution: the inputs,
\* the outputs and the programs; those in bin/ only if copy_exe is set.  A file
\* that should be there and is not is an error.
Evaluate(copy_exe) ==
    /\ phase = "parsed"
    /\ Ids # {} /\ Ids \subseteq DOMAIN disk.input
    /\ \A tc \in DOMAIN StaticPaths : Exists(disk, StaticPaths[tc])
    /\ task.outputs = "static" => \A tc \in Ids : disk.output[tc] # "none"
    /\ disk' = [disk EXCEPT
            !.input = [i \in DOMAIN @ |-> IF i \in Ids /\ WritesInput(i) THEN "ours" ELSE @[i]],
            !.output = [i \in DOMAIN @ |-> IF i \in Ids /\ WritesOutput THEN "ours" ELSE @[i]],
            !.exe = [p \in DOMAIN @ |-> IF p \in Program THEN "ours" ELSE @[p]],
            !.bin = @ \/ copy_exe]
    /\ UNCHANGED <<file, written, phase, work, task, first, runs>>

\* The files of input/ and output/ that clean keeps: those that are the static
\* file of a testcase, where the one of the output is looked at only if the
\* input is not static.
KeptInputs == Range(StaticPaths)
KeptOutputs == IF task.outputs = "static" THEN Ids \ DOMAIN StaticPaths ELSE {}

\* The checker of a batch task is removed; controllers and managers stay.
CleanedExe(d) ==
    IF task.type = "batch" /\ Found(d, "checker") = 1
    THEN [d.exe EXCEPT !["checker"] = "none"] ELSE d.exe

\* gen/GEN and task.yaml are removed if they were generated from another file.
CleanedGen(d) == IF d.format = "cases" /\ d.gen = "ours" THEN "none" ELSE d.gen
CleanedYaml(d) ==
    IF (d.orig \/ d.format = "toml") /\ d.yaml = "ours" THEN "none" ELSE d.yaml

\* IOITask::clean
Clean ==
    /\ phase = "parsed"
    /\ phase' = "cleaned"
    /\ disk' = [disk EXCEPT
            !.input = [i \in DOMAIN @ |-> IF i \in KeptInputs THEN @[i] ELSE "none"],
            !.output = [i \in DOMAIN @ |-> IF i \in KeptOutputs THEN @[i] ELSE "none"],
            !.bin = FALSE, !.exe = CleanedExe(disk),
            !.gen = CleanedGen(disk), !.yaml = CleanedYaml(disk)]
    /\ UNCHANGED <<file, written, work, task, first, runs>>

Next ==
    \/ Edit
    \/ \E dry \in BOOLEAN : Parse(dry)
    \/ phase = "closing" /\ \E st \in work.todo : Extend(st)
    \/ NextRound
    \/ FinishYaml
    \/ phase = "search" /\ \E name \in work.search.stack : Search(name)
    \/ EndSearch
    \/ \E copy_exe \in BOOLEAN : Evaluate(copy_exe)
    \/ Clean

Spec == Init /\ [][Next]_vars

-----------------------------------------------------------------------------
(* Properties.                                                             *)

Parsed == phase \in {"parsed", "cleaned"}
IsToml == disk.format = "toml"

\* What is reached from x by steps of a relation on finitely many things.
Reached(x, all, step(_)) ==
    {y \in all : \A S \in SUBSET all : (x \in S /\ \A z \in S : step(z) \subseteq S) => y \in S}

\* The testcases of a subtask are those of every subtask that it depends on,
\* or of every group that it includes, directly or not: the loops of
\* parse_task and of gen_toml::parse find all of them and nothing else,
\* whatever the order, and also when the dependencies have a cycle.  An include
\* of "*" in a gen.toml is left out: the documentation has it stand for the groups
\* and subtasks that come before, the code for all (README, Disagreements).
SubtasksClosed ==
    Parsed => \A i \in DOMAIN task.subtasks :
        LET st == task.subtasks[i]
        IN IF ~IsToml
           THEN st.testcases = UNION {task.subtasks[j].owned :
                    j \in Reached(i, DOMAIN task.subtasks,
                                  LAMBDA j : task.subtasks[j].dependencies)}
           ELSE LET names == DOMAIN task.groups.tcs
                    reached == Reached(st.name, names, LAMBDA n : task.groups.include[n] \cap names)
                IN (\A n \in reached : "*" \notin task.groups.include[n]) =>
                    Range(st.testcases) = UNION {Range(task.groups.tcs[n]) : n \in reached}

\* Every testcase is owned by exactly one subtask, which has it, and that is
\* the one it was written under, or (gen.toml) the first that uses it.
\* build_dag runs the testcases by their owner, so one with no owner would
\* never run and one with two would run twice.
OwnedOnce ==
    Parsed => \A tc \in Ids :
        /\ Cardinality({i \in DOMAIN task.subtasks : tc \in task.subtasks[i].owned}) = 1
        /\ \A i \in DOMAIN task.subtasks :
            tc \in task.subtasks[i].owned =>
                IF IsToml THEN i = Min({j \in DOMAIN task.subtasks :
                                            tc \in Range(task.subtasks[j].testcases)})
                ELSE tc \in task.subtasks[i].testcases

\* The lines of gen/cases.gen, read as its documentation says: the generator
\* of a testcase, from the lines before it.
LastOf(S) == IF S = {} THEN 0 ELSE Max(S)
Before(i, cmds) == {j \in 1..(i - 1) : file[j].cmd \in cmds}
StartOf(i) == LastOf(Before(i, {"SUBTASK"}))
DefaultAt(i) ==
    LET defs == Before(i, {"GEN path"})
    IN CASE defs = {} -> ""
         [] \E j \in defs : file[j].name = "default" -> "default"
         [] OTHER -> file[Min(defs)].name
GeneratorAt(i) ==
    LET use == LastOf(Before(i, {"GEN"}))
    IN CASE file[i].cmd = "RUN" -> file[i].name
         [] file[i].cmd # "RUN" /\ use > StartOf(i) -> file[use].name
         [] OTHER -> DefaultAt(StartOf(i))
Definition(name) ==
    file[CHOOSE j \in DOMAIN file : file[j].cmd = "GEN path" /\ file[j].name = name].words
ValuesAt(i) ==
    LET words == Definition(GeneratorAt(i))
    IN [v \in {words[k] : k \in {k \in DOMAIN words : k <= Len(file[i].args)}} |->
            file[i].args[CHOOSE k \in DOMAIN words : words[k] = v]]

\* In a gen/cases.gen that was accepted, no generated testcase breaks a
\* constraint that stands before it, before the first subtask or in its own,
\* and the testcase uses the generator that was chosen in its subtask, or else
\* the default one.
ConstraintsHold ==
    Parsed /\ disk.format = "cases" =>
        \A i \in DOMAIN file : file[i].cmd \in {"testcase", "RUN"} =>
            /\ \A j \in Before(i, {"CONSTRAINT"}) :
                (StartOf(j) = 0 \/ StartOf(j) = StartOf(i)) => ~is_violated(file[j].con, ValuesAt(i))
            /\ LET tcs == SelectSeq(task.entries, IsTestcase)
                   nth == Cardinality(Before(i, {"testcase", "RUN", "COPY"})) + 1
               IN tcs[nth].generator = GeneratorAt(i)

\* The subtasks of a list of entries, with the number of their testcases.
Shape(entries) ==
    {[id |-> s.id, score |-> s.max_score, name |-> s.name, testcases |-> Cardinality(s.owned)] :
        s \in Range(Assemble(entries))}

\* What gen/cases.gen may have and gen/GEN may not: a score with decimals, a
\* path with spaces, and names that are no identifiers.
OnlyInCases(l) ==
    \/ l.cmd = "SUBTASK" /\ l.score % One # 0
    \/ l.cmd = "SUBTASK" /\ l.name # "" /\ cleanup_subtask_name(l.name) # l.name
    \/ l.cmd = "COPY" /\ l.path = Spaced

\* The gen/GEN that is generated for cmsImportTask can be read, and lists the
\* same subtasks, with their scores and names, and as many testcases as
\* gen/cases.gen, unless gen/cases.gen has a score with decimals, a path with
\* spaces or a name that gen/GEN may not have: those are written all the same
\* (README, Disagreements).
GenGenFaithful ==
    Parsed /\ disk.format = "cases" /\ disk.gen = "ours"
        /\ (\A i \in DOMAIN file : ~OnlyInCases(file[i])) =>
        LET back == parse_gen_gen(written, TRUE, DetectedValidator(disk), "custom")
        IN back.ok /\ Shape(back.result) = Shape(task.entries)

\* A task that is read again, after its files were generated or cleaned, is
\* the same task: nothing that was generated is taken for what the author wrote.
ReadAgainSame == Parsed => task = first

\* The author's files of input/ and output/ that the task uses: the input of a
\* testcase, unless another testcase has its number, and the output of a
\* testcase whose input is generated.
UsedInput(i) == i \in KeptInputs /\ (i \in Ids => ~WritesInput(i))
UsedOutput(i) == i \in KeptOutputs

\* What the author wrote is not touched: gen/GEN and task.yaml ("Removing or
\* changing the line above will prevent task-maker from touching this file
\* again") and the files of input/ and output/ that the task uses; and clean
\* removes what was generated, and leaves a task that can be read.
\* Left out, because the code does otherwise (README, Disagreements): a task.yaml
\* next to a gen.toml, which is overwritten; the files of input/ and output/ that
\* the task does not use, or that have the number of a testcase, and the outputs of
\* static inputs, which are overwritten or removed; the compiled controller and
\* manager, which clean leaves there.
OnlyGeneratedTouched ==
    [][/\ disk.gen = "user" => disk'.gen = "user"
       /\ disk.yaml = "user" /\ ~IsToml => disk'.yaml = "user"
       /\ \A i \in DOMAIN disk.input :
            /\ disk.input[i] = "user" /\ (phase = "parsed" => UsedInput(i)) => disk'.input[i] = "user"
            /\ disk.output[i] = "user" /\ (phase = "parsed" => UsedOutput(i)) => disk'.output[i] = "user"
       /\ phase' = "cleaned" =>
            /\ \A i \in DOMAIN disk.input :
                /\ disk'.input[i] = "ours" => i \in Range(StaticPaths)
                /\ disk'.output[i] # "ours"
            /\ "ours" \notin {disk'.gen, disk'.yaml, disk'.exe["checker"]}
            /\ ~disk'.bin /\ HasConfig(disk')]_vars
=============================================================================
