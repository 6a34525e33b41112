----------------------------- MODULE FindBadCase -----------------------------
(***************************************************************************)
(* The tool find-bad-case (tools/find_bad_case): it evaluates a solution on  *)
(* batches of random testcases until one makes it fail.  The main thread      *)
(* prepares a batch, evaluates it and starts again; a thread per batch        *)
(* forwards the messages of the evaluation to the one global UI thread, which *)
(* looks for a bad score, and the ctrl-c handler may stop everything.  They   *)
(* share SharedUIState and the sender to the current executor, each under a   *)
(* lock.                                                                      *)
(*                                                                           *)
(* The executor is what Scheduler and TaskEvaluation detail: here it makes    *)
(* the testcases of a batch go through their steps, and ends when all did or  *)
(* when it was asked to stop.  What the UI only shows (the statuses, the      *)
(* progress) is left out, and so are the messages that change nothing else.   *)
(***************************************************************************)
EXTENDS Integers, Sequences, FiniteSets

CONSTANTS
    BatchSize,    \* opt.batch_size
    MaxBatches,   \* bound on the batches: after the last one main waits for a reason to stop
    Tasks,        \* the tasks of the instance, see Groups
    Local,        \* the executor is a thread of the tool, not a server
    None

ASSUME FindBadCaseAssumption ==
    /\ BatchSize \in Nat \ {0} /\ MaxBatches \in Nat \ {0}
    /\ Tasks \subseteq {"batch", "communication", "static", "terry"}
    /\ Local \in BOOLEAN /\ None \notin Nat

VARIABLES
    task,             \* what find_task returns
    main,             \* where the main thread is
    batch_index, last_batch, should_stop, failing_testcase, errored_testcase,
    poisoned,         \* the UI thread panicked holding the lock of SharedUIState
    sender,           \* current_executor_sender is Some
    executor,         \* none, idle (before Evaluate), uploading, busy, lost, panicked
    stop,             \* the executor got a Stop
    stage,            \* how far each testcase of the batch is
    written,          \* the files in the working directory
    ui_receiver,      \* messages of the evaluation, for the forwarding thread
    channel,          \* messages for the global UI
    ui,               \* the global UI thread: running, finished, panicked
    batches,          \* how many batches the UI has seen
    ctrlc,            \* the handler: idle, pressed (should_stop is set), done
    copied            \* the files copied to fuzz/bad-cases

shared  == <<batch_index, last_batch, should_stop, failing_testcase, errored_testcase, poisoned>>
exec    == <<executor, stop, stage>>
uiVars  == <<ui, batches>>
vars == <<task, main, shared, sender, exec, written, ui_receiver, channel, uiVars, ctrlc, copied>>

-----------------------------------------------------------------------------
(* The batches *)

TestcaseId == 0..(MaxBatches * BatchSize - 1)

(* The testcases of a batch have ids no other batch has. *)
IdInBatch(b, index) == index
TestcaseIdOf(b, index) == b * BatchSize + index

Testcases(b) == {TestcaseIdOf(b, index) : index \in 0..(BatchSize - 1)}

(* A batch needs a testcase with a generator as a template. *)
PatchTaskFails == task \in {"static", "terry"}

(* The groups with a tag that patch_dag counts: only in a batch task there is a *)
(* checker of its own for each testcase.                                        *)
Groups == IF task = "batch" THEN {"evaluation", "checking"} ELSE {"evaluation"}
PatchDagFails == BatchSize * Cardinality(Groups) # BatchSize * 2

(* The files patch_dag redirects to the working directory are those of the steps *)
(* that ended.  The correct output, which no property needs, is left out.        *)
Redirected(t) ==
    {t} \X ((IF stage[t] = "pending" THEN {} ELSE {"input"}) \cup
            (IF stage[t] \in {"solved", "crashed", "right", "wrong"} THEN {"output"} ELSE {}))

(* A failed generation or validation is one kind of message. *)
Msg(type, t, ok) == [type |-> type, testcase |-> t, ok |-> ok]

(* SharedUIState and UIState when the tool starts *)
Init ==
    /\ task \in Tasks
    /\ main = "batch"
    /\ batch_index = 0 /\ last_batch = {} /\ should_stop = FALSE
    /\ failing_testcase = None /\ errored_testcase = None /\ poisoned = FALSE
    /\ sender = FALSE /\ executor = "none" /\ stop = FALSE
    /\ stage = [t \in TestcaseId |-> "none"]
    /\ written = {}
    /\ ui_receiver = <<>> /\ channel = <<>>
    /\ ui = "running" /\ batches = 0
    /\ ctrlc = "idle" /\ copied = {}

-----------------------------------------------------------------------------
(* The main thread *)

threads == <<uiVars, ctrlc, channel>>

(* The batch is prepared and shared.  A poisoned lock is a panic. *)
StartBatch ==
    /\ main = "batch" /\ ~PatchTaskFails
    /\ IF poisoned
       THEN main' = "panicked" /\ UNCHANGED last_batch
       ELSE main' = "building" /\ last_batch' = Testcases(batch_index)
    /\ UNCHANGED <<task, batch_index, should_stop, failing_testcase, errored_testcase, poisoned,
                   sender, exec, written, ui_receiver, copied, threads>>

(* The DAG is built, which tells the UI of the task, and an executor is started. *)
BuildDag ==
    /\ main = "building" /\ ~PatchDagFails
    /\ main' = "starting"
    /\ ui_receiver' = <<Msg("IOITask", None, TRUE)>>
    /\ sender' = TRUE
    /\ executor' = "idle" /\ stop' = FALSE
    /\ stage' = [t \in TestcaseId |-> IF t \in last_batch THEN "pending" ELSE stage[t]]
    /\ UNCHANGED <<task, shared, written, copied, threads>>

(* An error of find_task, of a patch or of the executor ends the tool. *)
SetupFails ==
    /\ \/ main = "batch" /\ PatchTaskFails
       \/ main = "building" /\ PatchDagFails
    /\ main' = "failed"
    /\ UNCHANGED <<task, shared, sender, exec, written, ui_receiver, copied, threads>>

(* evaluate sends the DAG, and the executor asks for the files it does not have. *)
(* A client manager that got a Stop before the DAG panics, and nobody answers.   *)
Evaluate ==
    /\ main = "starting"
    /\ main' = "evaluating"
    /\ executor' \in IF stop THEN {"lost"} ELSE {"uploading", "busy"}
    /\ UNCHANGED <<task, shared, sender, stop, stage, written, ui_receiver, copied, threads>>

(* The last file that was asked for is sent.  After a Stop that came meanwhile    *)
(* the client manager panics: on the next piece of a file, with the scheduler     *)
(* still at work, or on the next file, when it was told that the client is gone.  *)
UploadEnds ==
    /\ main = "evaluating" /\ executor = "uploading"
    /\ executor' = IF stop THEN "panicked" ELSE "busy"
    /\ UNCHANGED <<task, main, shared, sender, stop, stage, written, ui_receiver, copied, threads>>

Over(t) == stage[t] \in {"broken", "crashed", "right", "wrong"}

(* The final Done: the files are written, and evaluate returns.  A client manager *)
(* that panicked does not tell the executor to exit.                              *)
EvaluateReturns ==
    /\ main = "evaluating" /\ executor \in {"busy", "panicked"}
    /\ stop \/ \A t \in last_batch : Over(t)
    /\ main' = "evaluated"
    /\ executor' = IF executor = "busy" THEN "none" ELSE executor
    /\ written' = written \cup UNION {Redirected(t) : t \in last_batch}
    /\ UNCHANGED <<task, shared, sender, stop, stage, ui_receiver, copied, threads>>

(* evaluate fails, for instance because a file cannot be written, or sent to a *)
(* client manager that panicked.                                               *)
EvaluateFails ==
    /\ main = "evaluating"
    /\ main' = IF poisoned THEN "panicked" ELSE "failed"
    /\ should_stop' = (should_stop \/ ~poisoned)
    /\ UNCHANGED <<task, batch_index, last_batch, failing_testcase, errored_testcase, poisoned,
                   sender, exec, written, ui_receiver, copied, threads>>

TakeSender ==
    /\ main = "evaluated"
    /\ main' = "joining"
    /\ sender' = FALSE
    /\ UNCHANGED <<task, shared, exec, written, ui_receiver, copied, threads>>

(* A local executor is joined, and then the forwarding thread, which ends when it *)
(* has forwarded everything.                                                      *)
ExecutorExits == Local => executor # "panicked"
JoinNothing ==
    /\ main = "joining" /\ ExecutorExits
    /\ main' = "checking"
    /\ UNCHANGED <<task, shared, sender, exec, written, ui_receiver, copied, threads>>
JoinUIThread ==
    /\ main = "joining" /\ ExecutorExits /\ ui_receiver = <<>>
    /\ main' = "checking"
    /\ UNCHANGED <<task, shared, sender, exec, written, ui_receiver, copied, threads>>

(* A local executor may have failed, which is a panic. *)
ExecutorFailed ==
    /\ main = "joining" /\ Local /\ ExecutorExits
    /\ main' = "panicked"
    /\ UNCHANGED <<task, shared, sender, exec, written, ui_receiver, copied, threads>>

CheckShouldStop ==
    /\ main = "checking"
    /\ \/ /\ poisoned
          /\ main' = "panicked"
          /\ UNCHANGED <<batch_index, channel>>
       \/ /\ ~poisoned /\ should_stop
          /\ main' = "finishing"
          /\ channel' = Append(channel, Msg("Finish", None, TRUE))
          /\ UNCHANGED batch_index
       \/ /\ ~poisoned /\ ~should_stop /\ batch_index + 1 < MaxBatches
          /\ main' = "batch"
          /\ batch_index' = batch_index + 1
          /\ UNCHANGED channel
    /\ UNCHANGED <<task, last_batch, should_stop, failing_testcase, errored_testcase, poisoned,
                   sender, exec, written, ui_receiver, uiVars, ctrlc, copied>>

(* The global UI is joined, and copy_testcase needs the input. *)
Finish ==
    /\ main = "finishing" /\ ui # "running"
    /\ main' = IF ui = "panicked" \/ (failing_testcase # None /\
                                      <<failing_testcase, "input">> \notin written)
               THEN "failed" ELSE "over"
    /\ copied' = IF main' = "over" THEN {w \in written : w[1] = failing_testcase} ELSE {}
    /\ UNCHANGED <<task, shared, sender, exec, written, ui_receiver, threads>>

Main == \/ StartBatch \/ BuildDag \/ SetupFails \/ Evaluate \/ UploadEnds \/ EvaluateReturns
        \/ TakeSender \/ JoinUIThread \/ CheckShouldStop \/ Finish
Failures == EvaluateFails \/ ExecutorFailed

-----------------------------------------------------------------------------
(* The executor: a step of a testcase ends, and the callbacks, which evaluate   *)
(* calls, tell the UI.  It may begin before all the files are there.             *)

StepEnds(t, from, to, msgs) ==
    /\ main = "evaluating" /\ executor \in {"uploading", "busy", "panicked"} /\ stage[t] = from
    /\ stage' = [stage EXCEPT ![t] = to]
    /\ ui_receiver' = ui_receiver \o msgs
    /\ UNCHANGED <<task, main, shared, sender, executor, stop, written, copied, threads>>

(* The generator and the validator *)
Prepared(t, ok) == StepEnds(t, "pending", IF ok THEN "validated" ELSE "broken",
                            IF ok THEN <<>> ELSE <<Msg("IOIGeneration", t, FALSE)>>)
(* A solution that crashes has its score without a checker. *)
Solved(t, ok) == StepEnds(t, "validated", IF ok THEN "solved" ELSE "crashed",
                          IF ok THEN <<>> ELSE <<Msg("IOITestcaseScore", t, FALSE)>>)
Checked(t, ok) == StepEnds(t, "solved", IF ok THEN "right" ELSE "wrong",
                           <<Msg("IOITestcaseScore", t, ok)>>)

Executor == \E t \in TestcaseId, ok \in BOOLEAN :
                Prepared(t, ok) \/ Solved(t, ok) \/ Checked(t, ok)

-----------------------------------------------------------------------------
(* The UI threads and the ctrl-c handler *)

(* The thread of the batch forwards a message to the global UI. *)
Forward ==
    /\ ui_receiver # <<>>
    /\ ui_receiver' = Tail(ui_receiver)
    /\ channel' = Append(channel, Head(ui_receiver))
    /\ UNCHANGED <<task, main, shared, sender, exec, written, uiVars, ctrlc, copied>>

(* A Stop reaches the current executor, if there is one. *)
StopEvaluation == stop' = (stop \/ sender)

Receives(type) == ui = "running" /\ channel # <<>> /\ Head(channel).type = type
uiRest == <<task, main, batch_index, last_batch, sender, executor, stage, written, ui_receiver,
            ctrlc, copied>>

ApplyTask ==
    /\ Receives("IOITask")
    /\ channel' = Tail(channel)
    /\ batches' = batches + 1
    /\ UNCHANGED <<should_stop, failing_testcase, errored_testcase, poisoned, stop, ui, uiRest>>

(* A testcase that could not be generated is looked up in last_batch: if main    *)
(* has already replaced it the thread panics with the lock held.                 *)
ApplyGeneration ==
    LET m == Head(channel) IN
    /\ Receives("IOIGeneration")
    /\ channel' = Tail(channel)
    /\ ui' = IF batches = 0 \/ m.testcase \notin last_batch THEN "panicked" ELSE ui
    /\ poisoned' = (poisoned \/ (batches > 0 /\ ui' = "panicked"))
    /\ errored_testcase' = IF ui' = "panicked" THEN errored_testcase ELSE m.testcase
    /\ UNCHANGED <<should_stop, failing_testcase, stop, batches, uiRest>>

(* A score that is not 1: the testcase is remembered, if it is of the last batch, *)
(* and everything is told to stop.                                                *)
ScoreForgetsToStop ==
    LET m == Head(channel) IN
    /\ Receives("IOITestcaseScore")
    /\ channel' = Tail(channel)
    /\ failing_testcase' = IF m.ok THEN failing_testcase
                           ELSE IF m.testcase \in last_batch THEN m.testcase ELSE None
    /\ IF m.ok THEN UNCHANGED stop ELSE StopEvaluation
    /\ UNCHANGED <<should_stop, errored_testcase, poisoned, ui, batches, uiRest>>
ApplyTestcaseScore ==
    LET m == Head(channel) IN
    /\ Receives("IOITestcaseScore")
    /\ channel' = Tail(channel)
    /\ ui' = IF batches = 0 THEN "panicked" ELSE ui
    /\ IF m.ok \/ batches = 0
       THEN UNCHANGED <<failing_testcase, should_stop, stop>>
       ELSE /\ failing_testcase' = IF m.testcase \in last_batch THEN m.testcase ELSE None
            /\ should_stop' = TRUE
            /\ StopEvaluation
    /\ UNCHANGED <<errored_testcase, poisoned, batches, uiRest>>

ApplyFinish ==
    /\ Receives("Finish")
    /\ channel' = Tail(channel)
    /\ ui' = "finished"
    /\ UNCHANGED <<should_stop, failing_testcase, errored_testcase, poisoned, stop, batches, uiRest>>

GlobalUI == ApplyTask \/ ApplyGeneration \/ ApplyTestcaseScore \/ ApplyFinish

(* ctrl-c, once.  The two locks are taken one after the other. *)
CtrlC ==
    /\ ctrlc = "idle" /\ ~poisoned
    /\ ctrlc' = "pressed"
    /\ should_stop' = TRUE
    /\ UNCHANGED <<task, main, batch_index, last_batch, failing_testcase, errored_testcase, poisoned,
                   sender, exec, written, ui_receiver, channel, uiVars, copied>>
CtrlCStop ==
    /\ ctrlc = "pressed"
    /\ ctrlc' = "done"
    /\ StopEvaluation
    /\ UNCHANGED <<task, main, shared, sender, executor, stage, written, ui_receiver, channel, uiVars,
                   copied>>

Ended == main \in {"over", "failed", "panicked"}

(* The process ends with its main thread. *)
Next == ~Ended /\ (Main \/ Failures \/ Executor \/ Forward \/ GlobalUI \/ CtrlC \/ CtrlCStop)

Spec == Init /\ [][Next]_vars

(* Each thread goes on while it can; ctrl-c and failures may never come. *)
FairSpec == /\ Spec
            /\ WF_vars(~Ended /\ Main) /\ WF_vars(~Ended /\ Executor) /\ WF_vars(~Ended /\ Forward)
            /\ WF_vars(~Ended /\ GlobalUI) /\ WF_vars(~Ended /\ CtrlCStop)

-----------------------------------------------------------------------------
(* Properties *)

Bad(t) == stage[t] \in {"crashed", "wrong"}

(* The testcase the tool remembers, and shows with its seed, is one the solution *)
(* failed on, although last_batch may already be a later batch when its score    *)
(* is applied; and when the tool is over its input was copied.                   *)
ReportedIsBad ==
    failing_testcase # None =>
        /\ Bad(failing_testcase)
        /\ main \in {"finishing", "over"} => <<failing_testcase, "input">> \in written
        /\ main = "over" => <<failing_testcase, "input">> \in copied

(* "No bad case found" is said of a bad testcase only if main had replaced its    *)
(* batch when its score was applied.                                              *)
FoundUnlessLate ==
    main = "over" /\ failing_testcase = None => \A t \in last_batch : ~Bad(t)

(* A Stop reached the client manager before the DAG, or before all the files it   *)
(* asked for, and it panicked.                                                    *)
StopLost == executor \in {"lost", "panicked"}

(* The search ends once a bad case was found, or after ctrl-c, whether the Stop    *)
(* comes between two batches, while one is evaluated, or never.  Left out is a    *)
(* Stop that comes before Evaluate or during the uploads: the client manager       *)
(* panics, and evaluate, or the join of a local executor, may wait for ever        *)
(* (README, Disagreements).                                                        *)
SearchEnds ==
    (should_stop \/ \E t \in TestcaseId : Bad(t)) ~> (Ended \/ StopLost)

=============================================================================
