---------------------------- MODULE SandboxGroup ----------------------------
(***************************************************************************)
(* The executions of a group in a worker (worker/mod.rs, execution_unit/): *)
(* each has a sandbox, a directory and a thread that runs a process in it. *)
(* The processes talk through FIFOs.  The manager of the group collects    *)
(* the results and, when one is not a success, kills the other sandboxes;  *)
(* the worker may be told to kill the job.                                 *)
(*                                                                         *)
(* group says what the executions are: execs, typst (those that are done   *)
(* by task-maker itself), startable (the executable is found), limited     *)
(* (there is a limit on the wall time), early (those that are given their  *)
(* FIFOs as arguments, and may end without opening them), waits (the       *)
(* executions that have to open a FIFO before an execution can go on) and  *)
(* outs (who has outputs).                                                 *)
(***************************************************************************)
EXTENDS Integers, Sequences, FiniteSets, TLC

CONSTANTS
    Groups,   \* the groups that may be run
    Tries     \* how many times kill looks for the PID

ASSUME TriesAssumption == Tries \in Nat \ {0}

VARIABLES
    group,
    thread,   \* "start", "spawn", "wait", "ended", "over": where the thread of a sandbox is
    proc,     \* "none", "up", "open" (its FIFO), "dead", "closed": the process
    raw,      \* how it ended
    pid,      \* whether box_pid is set
    tried,    \* tried_to_kill
    term,     \* whether SIGTERM was sent to a process that was alive
    chan,     \* the results that the manager has not received
    manager,  \* the manager: where it is and what it is working on
    results,
    killer,   \* the thread of the worker that was told to kill the job
    box,      \* what of a sandbox is in use: its directory is there as long as anything is
    outputs,  \* the outputs, as they were found
    sent      \* the files that were sent to the server

vars == <<group, thread, proc, raw, pid, tried, term, chan, manager, results, killer, box,
          outputs, sent>>
procVars == <<thread, proc, raw, pid>>

Execs == group.execs
Alive(e) == proc[e] \in {"up", "open"}
NoResult == [status |-> "none", was_killed |-> FALSE]
Idle == [todo |-> {}, target |-> 0, tries |-> 0]

\* Sandbox::new makes the directory and touches the outputs; the worker, the manager
\* and the thread have the sandbox.
NewBox == {"worker", "manager", "thread"}

\* Some of them give it up; the last one drops the directory.
Drop(e, users) == box[e] \ users

\* execute_job
Init ==
    /\ group \in Groups
    /\ thread = [e \in Execs |-> "start"] /\ proc = [e \in Execs |-> "none"]
    /\ raw = [e \in Execs |-> [end |-> "none", over |-> FALSE]]
    /\ pid = [e \in Execs |-> FALSE] /\ tried = [e \in Execs |-> FALSE]
    /\ term = [e \in Execs |-> FALSE]
    /\ chan = <<>> /\ results = [e \in Execs |-> NoResult]
    /\ manager = [at |-> "receive", index |-> 0, result |-> NoResult, kill |-> Idle]
    /\ killer = [at |-> "idle", kill |-> Idle]
    /\ box = [e \in Execs |-> NewBox]
    /\ outputs = [e \in Execs |-> "none"] /\ sent = [e \in Execs |-> "none"]

-----------------------------------------------------------------------------
(* The sandboxes.                                                          *)

\* The raw results of a process: its end, and whether a limit was exceeded.
Raw(end, over) == [end |-> end, over |-> over]

\* build_command fails, and nothing is spawned, if the executable is not found or
\* is not one.
CanStart(e) == e \in group.startable

\* A typst compilation is done by the thread itself.
TypstResults == {Raw(end, FALSE) : end \in {"exit0", "failure"}}

\* ExecutionUnit::run: how it ends before any process is there.
RunSandbox(e) ==
    /\ thread[e] = "start"
    /\ \/ /\ e \in group.typst
          /\ \E r \in TypstResults : raw' = [raw EXCEPT ![e] = r]
          /\ thread' = [thread EXCEPT ![e] = "ended"]
       \/ /\ e \notin group.typst /\ ~CanStart(e)
          /\ raw' = [raw EXCEPT ![e] = Raw("error", FALSE)]
          /\ thread' = [thread EXCEPT ![e] = "ended"]
       \/ /\ e \notin group.typst /\ CanStart(e)
          /\ thread' = [thread EXCEPT ![e] = "spawn"]
          /\ UNCHANGED raw
    /\ UNCHANGED <<group, proc, pid, tried, term, chan, manager, results, killer, box, outputs, sent>>

\* tools_sandbox_internal: the process is spawned, and then its PID is stored.
Spawn(e) ==
    /\ thread[e] = "spawn" /\ proc[e] = "none"
    /\ proc' = [proc EXCEPT ![e] = "up"]
    /\ UNCHANGED <<group, thread, raw, pid, tried, term, chan, manager, results, killer, box,
                   outputs, sent>>
StorePid(e) ==
    /\ thread[e] = "spawn" /\ proc[e] # "none"
    /\ thread' = [thread EXCEPT ![e] = "wait"] /\ pid' = [pid EXCEPT ![e] = TRUE]
    /\ UNCHANGED <<group, proc, raw, tried, term, chan, manager, results, killer, box, outputs, sent>>

\* The process opens its FIFO.
Open(e) ==
    /\ proc[e] = "up"
    /\ proc' = [proc EXCEPT ![e] = "open"]
    /\ UNCHANGED <<group, thread, raw, pid, tried, term, chan, manager, results, killer, box,
                   outputs, sent>>

Dies(e, r) ==
    /\ proc' = [proc EXCEPT ![e] = IF @ = "open" THEN "closed" ELSE "dead"]
    /\ raw' = [raw EXCEPT ![e] = r]
    /\ UNCHANGED <<group, thread, pid, tried, term, chan, manager, results, killer, box, outputs, sent>>

\* A process ends, if it does not wait for another one: it exits, or is stopped by
\* a signal (also by a SIGKILL that is not ours), within the margin of its limits.
\* One that opens its FIFOs by itself may end before it does.
Ends(e) ==
    /\ \/ proc[e] = "up" /\ e \in group.early
       \/ proc[e] = "open" /\ \A f \in group.waits[e] : proc[f] \in {"open", "closed"}
    /\ \E end \in {"exit0", "exit1", "signal9", "signal11"}, over \in BOOLEAN :
        (over => e \in group.limited) /\ Dies(e, Raw(end, over))

\* The sandbox itself fails, and there is no result: run_sandbox is an error, or the
\* result cannot be read.
SandboxFails(e) ==
    /\ Alive(e)
    /\ Dies(e, Raw("error", FALSE))

\* The sandbox stops it at its limit.
LimitHit(e) ==
    /\ Alive(e) /\ e \in group.limited
    /\ Dies(e, Raw("killed", TRUE))

\* After SIGTERM the sandbox kills the process; before it is ready for the signal
\* it dies of it, and has no result.
Terminated(e) ==
    /\ Alive(e) /\ term[e]
    /\ \E end \in {"signal9", "killed", "error"} :
        /\ end = "error" => proc[e] = "up"
        /\ Dies(e, Raw(end, FALSE))

Wait(e) ==
    /\ thread[e] = "wait" /\ ~Alive(e)
    /\ thread' = [thread EXCEPT ![e] = "ended"]
    /\ UNCHANGED <<group, proc, raw, pid, tried, term, chan, manager, results, killer, box,
                   outputs, sent>>

\* Any SIGKILL is taken for one of ours.
WasKilledBySignal(end, tried_to_kill) == end \in {"killed", "signal9"}

\* was_killed of the SandboxResult.
WasKilled(end, tried_to_kill) == end = "killed" \/ (end = "signal9" /\ tried_to_kill)

\* compute_execution_result and Execution::status: the limits come first.
StatusOf(r) ==
    CASE r.end = "error" -> "InternalError"
      [] r.end = "failure" -> "Failure"
      [] r.end \notin {"error", "failure"} /\ r.over -> "LimitExceeded"
      [] r.end \in {"exit1", "killed"} /\ ~r.over -> "ReturnCode"
      [] r.end \in {"signal9", "signal11"} /\ ~r.over -> "Signal"
      [] r.end = "exit0" /\ ~r.over -> "Success"

\* spawn_sandbox: the result is sent to the manager, and the thread ends.
SendResult(e) ==
    /\ thread[e] = "ended"
    /\ thread' = [thread EXCEPT ![e] = "over"]
    /\ chan' = Append(chan, [index |-> e, result |->
                [status |-> StatusOf(raw[e]), was_killed |-> WasKilled(raw[e].end, tried[e])]])
    /\ box' = [box EXCEPT ![e] = Drop(e, {"thread"})]
    /\ UNCHANGED <<group, proc, raw, pid, tried, term, manager, results, killer, outputs, sent>>

-----------------------------------------------------------------------------
(* Sandbox::kill, one sandbox after the other.                             *)

\* tried_to_kill is set, a typst compilation cannot be killed.
StartKill(k, e) ==
    [todo |-> k.todo \ {e}, target |-> IF e \in group.typst THEN 0 ELSE e, tries |-> Tries]

\* One look at the PID: it is not set yet, or the sandbox is told.
LookForPid(k) ==
    IF pid[k.target] \/ k.tries = 1 THEN [k EXCEPT !.target = 0, !.tries = 0]
    ELSE [k EXCEPT !.tries = @ - 1]

KillNext(k, e) ==
    /\ k.target = 0 /\ e \in k.todo /\ \A f \in k.todo : e <= f
    /\ tried' = IF e \in group.typst THEN tried ELSE [tried EXCEPT ![e] = TRUE]
    /\ UNCHANGED term
KillLook(k) ==
    /\ k.target # 0
    /\ term' = [term EXCEPT ![k.target] = @ \/ (pid[k.target] /\ Alive(k.target))]
    /\ UNCHANGED tried
Killed(k) == k.todo = {} /\ k.target = 0

\* WorkerServerMessage::KillJob, or the server is gone: all the sandboxes, with the
\* lock of the job held.
KillJob ==
    /\ killer.at = "idle" /\ manager.at # "over"
    /\ killer' = [at |-> "killing", kill |-> [Idle EXCEPT !.todo = Execs]]
    /\ UNCHANGED <<group, procVars, tried, term, chan, manager, results, box, outputs, sent>>
KillJobStep ==
    /\ killer.at = "killing"
    /\ \/ \E e \in killer.kill.todo :
            KillNext(killer.kill, e) /\ killer' = [killer EXCEPT !.kill = StartKill(@, e)]
       \/ KillLook(killer.kill) /\ killer' = [killer EXCEPT !.kill = LookForPid(@)]
       \/ /\ Killed(killer.kill)
          /\ killer' = [killer EXCEPT !.at = "done"] /\ UNCHANGED <<tried, term>>
    /\ UNCHANGED <<group, procVars, chan, manager, results, box, outputs, sent>>

-----------------------------------------------------------------------------
(* The manager of the group.                                               *)

\* Nobody is killed.
KillNobody(index) == {}

\* "do not kill the current process", nor those that have a result.
ToKill(index) == {e \in Execs : e # index /\ results[e] = NoResult}

Receive ==
    /\ manager.at = "receive" /\ chan # <<>>
    /\ chan' = Tail(chan)
    /\ LET got == Head(chan)
       IN manager' = [at |-> "kill", index |-> got.index, result |-> got.result,
                      kill |-> [Idle EXCEPT !.todo =
                            IF got.result.status = "Success" THEN {} ELSE ToKill(got.index)]]
    /\ UNCHANGED <<group, procVars, tried, term, results, killer, box, outputs, sent>>

ManagerKill ==
    /\ manager.at = "kill"
    /\ \/ \E e \in manager.kill.todo :
            KillNext(manager.kill, e) /\ manager' = [manager EXCEPT !.kill = StartKill(@, e)]
       \/ KillLook(manager.kill) /\ manager' = [manager EXCEPT !.kill = LookForPid(@)]
    /\ UNCHANGED <<group, procVars, chan, results, killer, box, outputs, sent>>

\* The directory, and the files that setup put in it, are still there.
Present(e) == box[e] # {}

\* What is read from a file of a directory.
ReadFrom(e) == IF Present(e) THEN "content" ELSE "lost"

\* A file that is not there is an empty output.
get_result_outputs(e) ==
    IF e \in group.outs THEN [outputs EXCEPT ![e] = ReadFrom(e)] ELSE outputs

\* The result is stored.  With one execution the manager gives its sandbox up.
Collect ==
    /\ manager.at = "kill" /\ Killed(manager.kill)
    /\ LET e == manager.index
       IN /\ results' = [results EXCEPT ![e] = manager.result]
          /\ outputs' = get_result_outputs(e)
          /\ box' = IF Execs = {e} THEN [box EXCEPT ![e] = Drop(e, {"manager"})] ELSE box
    /\ manager' = [manager EXCEPT !.at =
            IF \E e \in Execs \ {manager.index} : results[e] = NoResult THEN "receive" ELSE "join"]
    /\ UNCHANGED <<group, procVars, tried, term, chan, killer, sent>>

\* The threads are joined and WorkerDone is sent.
SendDone ==
    /\ manager.at = "join"
    /\ \A e \in Execs : thread[e] = "over"
    /\ manager' = [manager EXCEPT !.at = "finalize"]
    /\ UNCHANGED <<group, procVars, tried, term, chan, results, killer, box, outputs, sent>>

\* The job is forgotten before its files are sent.
AskFilesAndForget ==
    /\ manager.at = "finalize"
    /\ manager' = [manager EXCEPT !.at = "send"]
    /\ box' = [e \in Execs |-> Drop(e, {"worker"})]
    /\ UNCHANGED <<group, procVars, tried, term, chan, results, killer, outputs, sent>>

\* finalize_job: the server asks for some of the outputs, or is gone.
AskFiles ==
    /\ manager.at = "finalize"
    /\ \E next \in {"send", "reset"} : manager' = [manager EXCEPT !.at = next]
    /\ UNCHANGED <<group, procVars, tried, term, chan, results, killer, box, outputs, sent>>
SendFile(e) ==
    /\ manager.at = "send" /\ e \in group.outs /\ sent[e] = "none"
    /\ sent' = [sent EXCEPT ![e] = ReadFrom(e)]
    /\ UNCHANGED <<group, procVars, tried, term, chan, manager, results, killer, box, outputs>>
FilesSent ==
    /\ manager.at = "send"
    /\ manager' = [manager EXCEPT !.at = "reset"]
    /\ UNCHANGED <<group, procVars, tried, term, chan, results, killer, box, outputs, sent>>

\* The job is reset, with the lock; the manager returns and the sandboxes are dropped.
Reset ==
    /\ manager.at = "reset" /\ killer.at # "killing"
    /\ manager' = [manager EXCEPT !.at = "over"]
    /\ box' = [e \in Execs |-> Drop(e, {"worker", "manager"})]
    /\ UNCHANGED <<group, procVars, tried, term, chan, results, killer, outputs, sent>>

Next ==
    \/ \E e \in Execs : RunSandbox(e) \/ Spawn(e) \/ StorePid(e) \/ Open(e) \/ Ends(e)
                        \/ SandboxFails(e) \/ LimitHit(e) \/ Terminated(e) \/ Wait(e) \/ SendResult(e)
    \/ KillJob \/ KillJobStep
    \/ Receive \/ ManagerKill \/ Collect \/ SendDone
    \/ AskFiles \/ FilesSent \/ Reset
    \/ \E e \in Execs : SendFile(e)

\* The threads go on, and so do the processes that can: those that have no limit are
\* supposed to end.
Fairness ==
    /\ \A e \in UNION {g.execs : g \in Groups} :
        WF_vars(e \in Execs /\ (RunSandbox(e) \/ Spawn(e) \/ StorePid(e) \/ Open(e) \/ Ends(e)
                                \/ LimitHit(e) \/ Terminated(e) \/ Wait(e) \/ SendResult(e)))
    /\ WF_vars(KillJobStep)
    /\ WF_vars(Receive \/ ManagerKill \/ Collect \/ SendDone \/ AskFiles \/ FilesSent \/ Reset)

Spec == Init /\ [][Next]_vars
FairSpec == Spec /\ Fairness

-----------------------------------------------------------------------------
(* Properties.                                                             *)

\* If a group fails, and nobody told the worker to kill it, then some execution
\* that was not sent a SIGTERM has a status that is not a success and is not shown
\* as killed, unless it went over a limit: whatever the order of the results and of
\* the kills, the one that made the group fail is not taken for one of its victims.
SomebodyBlamed ==
    /\ manager.at \in {"join", "finalize", "send", "reset", "over"} /\ killer.at = "idle"
    /\ \E e \in Execs : results[e].status # "Success"
    => \E e \in Execs :
        /\ ~term[e] /\ results[e].status # "Success"
        /\ results[e].was_killed => results[e].status = "LimitExceeded"

\* The directory of a sandbox is there as long as its outputs are read, by
\* get_result_outputs and when they are sent to the server, and is dropped in the
\* end (without --keep-sandboxes): a file that is gone would be taken for an empty
\* output.
BoxInUse ==
    /\ \A e \in Execs : outputs[e] # "lost" /\ sent[e] # "lost"
    /\ manager.at = "over" => \A e \in Execs : box[e] = {}

\* A process that kill did not tell, since it never saw its PID.
GivenUp(e) == tried[e] /\ ~term[e]

\* A process that waits for one that ended, with a success, before it opened its
\* FIFO: nobody kills it.
Deserted(e) ==
    \E f \in group.waits[e] : proc[f] = "dead" /\ StatusOf(raw[f]) = "Success"

\* Every group ends, also if its processes wait for each other and one of them is
\* not there any more: the failure of one kills the others, and a limit on the wall
\* time stops the one that has it.  A process with no such limit (a task with no
\* time limit) may block for ever in the two cases that are left out: it waits for one that
\* exited with 0 before it opened its FIFO, or kill lost hope of finding its PID
\* (README, Disagreements).
Blocked == \E e \in Execs \ group.limited : Alive(e) /\ (GivenUp(e) \/ Deserted(e))
GroupEnds == <>(manager.at = "over") \/ <>[]Blocked
=============================================================================
