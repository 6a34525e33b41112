---------------------------- MODULE MCTaskParsing ----------------------------
(* Small directories of IOI tasks: every format, with files that are right  *)
(* and files that are wrong.                                                *)
EXTENDS TaskParsing

\* "Y" stands for another way to write "y".
MCNormal ==
    ("Y" :> "y") @@ [n \in {"bad!", "x", "y", "g", "h", "s", "t", "u", "z"} |-> n]

Named(cmd, name) == [Line(cmd) EXCEPT !.name = name]
Constraint(operands, operators) ==
    [Line("CONSTRAINT") EXCEPT !.con = [operands |-> operands, operators |-> operators]]
Val(n) == [var |-> "", val |-> n]
Var(v) == [var |-> v, val |-> NotInt]
Values(cmd, args) == [Line(cmd) EXCEPT !.args = args]
SubtaskLine(name, score) == [Named("SUBTASK", name) EXCEPT !.score = score]
Deps(names) == [Line("STDEP") EXCEPT !.words = names]
Copy(path) == [Line("COPY") EXCEPT !.path = path]
Missing(l) == [l EXCEPT !.found = FALSE]
Blank == Line("comment")

CasesSlots ==
    << {[Named("GEN path", "a") EXCEPT !.words = <<"N">>]},
       {[Named("GEN path", "default") EXCEPT !.words = <<"M", "N">>], Blank,
        Named("GEN path", "a")},
       {[Named("VAL path", "v") EXCEPT !.words = <<"INPUT", "ST_NAME">>],
        Constraint(<<Val(1), Var("N"), Val(2)>>, <<"<=", "<=">>),
        Constraint(<<Val(1), Var("N"), Val(2)>>, <<"<=", ">">>), Blank},
       {SubtaskLine("x", 400), SubtaskLine("", 405)},
       {Named("GEN", "a"), Constraint(<<Var("N"), Val(2)>>, <<"<">>), Named("VAL", "v"),
        Deps(<<"y">>), Deps(<<"*">>), Blank},
       {[Values("RUN", <<2>>) EXCEPT !.name = "a"], Values("testcase", <<1, 2>>),
        Values("testcase", <<1>>), Copy(0)},
       {SubtaskLine("y", 600), SubtaskLine("x", 600), Constraint(<<Var("N"), Val(2)>>, <<"<">>)},
       {Deps(<<"x">>), Named("VAL", "w"), Blank},
       {Values("testcase", <<2, 2>>), Blank, Missing(Line("COPY")), Copy(Spaced),
        [Values("RUN", <<NotInt>>) EXCEPT !.name = "b"]},
       {SubtaskLine("", 0), Blank},
       {Deps(<<"y">>), Deps(<<"q">>), Blank} >>

GenSlots ==
    << {[Line("ST") EXCEPT !.score = 400], Blank},
       {Named("STNAME", "x"), Named("STNAME", "bad!"), Blank},
       {Values("command", <<1>>), Deps(<<"y">>), Blank},
       {[Line("ST") EXCEPT !.score = 600], [Line("ST") EXCEPT !.score = 605], Copy(1)},
       {Named("STNAME", "Y"), Named("STNAME", "x"), Blank},
       {Deps(<<"x">>), Deps(<<"*">>), Deps(<<"Y">>), Blank},
       {Values("command", <<2>>), Copy(Elsewhere), Copy(2), Blank} >>

MCSlots == ("cases" :> CasesSlots) @@ ("GEN" :> GenSlots) @@ [f \in {"static", "toml"} |-> <<>>]

-----------------------------------------------------------------------------

Tc(repeat, group_name) ==
    [DefaultTestCase EXCEPT !.repeat = repeat, !.group_name = group_name, !.args = {"N", "#"}]
Group(name, include, copy, testcases) ==
    [DefaultSubtask EXCEPT !.name = name, !.include = include, !.copy = copy,
                           !.testcases = testcases]
Toml(groups, subtasks) ==
    [DefaultGenConfig EXCEPT !.groups = groups, !.subtasks = subtasks, !.constants = {"N"},
                             !.samples = [Samples(1) EXCEPT !.name = "s"]]

Tomls ==
    { \* a chain of groups, with a cycle and a testcase in two groups
      Toml(<<Group("g", {"h"}, 0, <<Tc(2, "")>>), Group("h", {"g"}, 1, <<Tc(0, "g")>>)>>,
           <<Group("t", {"s", "g"}, 0, <<Tc(0, "")>>), Group("u", {"*"}, 0, <<>>)>>),
      \* everything, and then everything again
      Toml(<<>>, <<Group("t", {"*"}, 1, <<>>), Group("u", {"t"}, 0, <<Tc(0, "t")>>)>>),
      \* a group that was never declared
      Toml(<<>>, <<Group("t", {"g", "s"}, 1, <<>>)>>),
      \* one that is only named by a testcase
      Toml(<<>>, <<Group("t", {"g", "s"}, 0, <<Tc(0, "g")>>)>>),
      \* samples that no subtask uses
      Toml(<<Group("g", {}, 1, <<>>)>>, <<Group("t", {"g"}, 0, <<>>)>>),
      \* a name, a validator, a generator and two variables that are wrong
      Toml(<<Group("bad!", {}, 1, <<>>)>>, <<Group("t", {"*"}, 0, <<>>)>>),
      Toml(<<>>, <<Group("t", {"s"}, 0, <<>>),
                   [Group("u", {}, 1, <<>>) EXCEPT !.validator = "other"]>>),
      Toml(<<>>, <<Group("t", {"s"}, 0, <<[Tc(0, "") EXCEPT !.generator = "other"]>>)>>),
      Toml(<<>>, <<Group("t", {"s"}, 0, <<[Tc(0, "") EXCEPT !.args = {"M"}]>>)>>),
      Toml(<<>>, <<[Group("t", {"s"}, 0, <<Tc(0, "")>>) EXCEPT !.validator_args = <<{"#"}>>]>>),
      \* variables and generators of a group
      Toml(<<>>, <<[Group("t", {"s"}, 0, <<[Tc(0, "") EXCEPT !.args = {"M"}]>>) EXCEPT
                        !.constants = {"M"}, !.generator = "validator",
                        !.validator_args = <<{"M"}>>]>>) }

Only(S) == [i \in 0..3 |-> IF i \in S THEN "user" ELSE "none"]
Files(n) == Only({i \in 0..3 : i < n})
Programs(one) ==
    [p \in {"controller", "manager", "checker", "solution", "validator", "generator", "other"} |->
        IF p \in one THEN 1 ELSE 0]
NoToml == <<>>

Disk(format) ==
    [format |-> format, orig |-> TRUE, yaml |-> "none", gen |-> "none", input |-> Files(0),
     output |-> Files(0), bin |-> FALSE,
     exe |-> [p \in {"checker", "controller", "manager"} |-> "none"], found |-> Programs({"solution", "generator"}),
     score_type |-> "", toml |-> NoToml]
TomlDisk(t) ==
    [Disk("toml") EXCEPT !.orig = FALSE, !.toml = t, !.found["validator"] = 1, !.input = Only({3})]

CasesDisks ==
    { [Disk("cases") EXCEPT !.input = Only({0, 3})],
      [Disk("cases") EXCEPT !.orig = FALSE, !.yaml = "user", !.gen = "user", !.output = Files(4),
                            !.found = Programs({"checker"})] }
GenDisks ==
    { [Disk("GEN") EXCEPT !.gen = "user", !.found["validator"] = 1, !.score_type = "sum",
                          !.input = Only({1, 2})],
      [Disk("GEN") EXCEPT !.gen = "user", !.orig = FALSE, !.yaml = "user",
                          !.found = Programs({"generator"}), !.output = Files(2),
                          !.input = Only({2})] }
StaticDisks ==
    { [Disk("static") EXCEPT !.input = Only({0, 1, 3}), !.found["checker"] = 1],
      [Disk("static") EXCEPT !.input = Files(1), !.found["manager"] = 1, !.yaml = "user"],
      [Disk("static") EXCEPT !.input = Files(1), !.found["controller"] = 1, !.orig = FALSE],
      [Disk("static") EXCEPT !.found["validator"] = 2],
      [Disk("static") EXCEPT !.found["checker"] = 2],
      [Disk("static") EXCEPT !.found["manager"] = 1, !.found["controller"] = 1] }
TomlDisks ==
    {TomlDisk(t) : t \in Tomls}
        \cup {[TomlDisk(t) EXCEPT !.found["solution"] = 0] : t \in Tomls}

\* The outputs of a task with no official solution are written by hand.
StaticOutputs ==
    {[Disk("static") EXCEPT !.input = Files(n), !.output = Files(n),
                            !.found = Programs({}), !.orig = FALSE, !.yaml = "user"] : n \in 1..3}

MCDisks == CasesDisks \cup GenDisks \cup StaticDisks \cup StaticOutputs \cup TomlDisks

=============================================================================
