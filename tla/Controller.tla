----------------------------- MODULE Controller -----------------------------
(***************************************************************************)
(* A controlled job (worker/controller.rs): a controller asks for processes  *)
(* of a solution, which are started on demand and talk to it.                *)
(*                                                                           *)
(* The sandbox manager answers the requests of the controller.  Each process *)
(* has a thread that runs its sandbox.  The sandboxes are started by the     *)
(* keeper, a process of its own which has all the pipes: the threads write   *)
(* configurations to its standard input, and a thread reads what it says and *)
(* finds the sandbox by its number, which is how many were started before.   *)
(*                                                                           *)
(* Process 0 is the controller, the others are solutions.                    *)
(***************************************************************************)
EXTENDS Integers, Sequences

CONSTANTS
    Limit,        \* process_limit
    MaxRequests,  \* bound on the requests of the controller
    MayKill       \* the server may kill the job

ASSUME ControllerAssumption ==
    /\ Limit \in Nat /\ MaxRequests \in Nat
    /\ MayKill \in BOOLEAN

Proc     == 0..Limit
Outcome  == {"ok", "fail"}
Request  == {"START_SOLUTION", "unknown", "garbled"}
Line     == [type : {"started", "DONE"}, num : Proc]

VARIABLES
    \* the sandbox manager, and what it shares with the worker
    manager,              \* where it is
    next_process_index,
    solution_result,      \* the State of the job
    controller_result,
    exited,               \* processes whose flag in State::exited is set
    sandboxes,            \* current_sandboxes
    job_should_terminate,
    signalled,            \* the sandboxes that were told to stop
    \* the threads that run the sandboxes
    thread,
    mailbox,              \* the channel of each thread
    senders_and_pids,     \* whose channel and pid has each number
    pids,                 \* the threads whose sandbox has a known pid
    \* the keeper and the thread that listens to it
    lines,                \* the configurations on their way to the keeper
    child_stdin,          \* it is open
    started,              \* whose configuration has each number
    box,                  \* the processes the keeper started
    said,                 \* what the keeper said and its thread has not read
    keeper,
    pipes,                \* the numbers whose pipes are known
    \* the controller
    opened,               \* it has opened the two FIFOs
    requests, asked,      \* lines on their way to the manager, and how many in all
    closed                \* it has closed its output

managed == <<next_process_index, solution_result, controller_result, exited, sandboxes>>
running == <<thread, mailbox, senders_and_pids>>
kept    == <<lines, started, box, said, keeper>>
control == <<opened, requests, asked, closed>>
vars == <<manager, managed, job_should_terminate, signalled, running, pids, kept, child_stdin, pipes, control>>

(* The controller's sandbox is made and its thread is started. *)
Init ==
    /\ manager = "opening" /\ next_process_index = 0
    /\ solution_result = "ok" /\ controller_result = "none"
    /\ exited = {} /\ sandboxes = {0}
    /\ job_should_terminate = FALSE /\ signalled = {}
    /\ thread = [i \in Proc |-> IF i = 0 THEN "starting" ELSE "none"]
    /\ mailbox = [i \in Proc |-> "none"]
    /\ senders_and_pids = <<>> /\ pids = {}
    /\ lines = <<>> /\ child_stdin = TRUE
    /\ started = <<>> /\ box = [i \in Proc |-> "none"] /\ said = <<>> /\ keeper = "running"
    /\ pipes = {}
    /\ opened = FALSE /\ requests = <<>> /\ asked = 0 /\ closed = FALSE

Alive(n) == box[n] = "running"
(* Sandbox::kill gives up on a sandbox without a pid. *)
Kill(S) == signalled' = signalled \cup (S \cap pids)

-----------------------------------------------------------------------------
(* The threads that run the sandboxes: run_sandbox and ControllerKeeper::run *)

RunPush(i) ==
    /\ thread[i] = "starting"
    /\ senders_and_pids' = Append(senders_and_pids, i)
    /\ thread' = [thread EXCEPT ![i] = "pushed"]
    /\ UNCHANGED <<manager, managed, job_should_terminate, signalled, mailbox, pids, kept, child_stdin, pipes, control>>

(* The write fails if the keeper is gone: nobody reads the lines any more. *)
RunWrite(i) ==
    /\ thread[i] = "pushed"
    /\ lines' = Append(lines, i)
    /\ mailbox' = IF keeper = "failed" THEN [mailbox EXCEPT ![i] = "fail"] ELSE mailbox
    /\ thread' = [thread EXCEPT ![i] = "waiting"]
    /\ UNCHANGED <<manager, managed, job_should_terminate, signalled, senders_and_pids, pids,
                   started, box, said, keeper, child_stdin, pipes, control>>

(* build_command fails: the keeper never hears of the sandbox. *)
RunFails(i) ==
    /\ thread[i] = "starting"
    /\ mailbox' = [mailbox EXCEPT ![i] = "fail"]
    /\ thread' = [thread EXCEPT ![i] = "waiting"]
    /\ UNCHANGED <<manager, managed, job_should_terminate, signalled, senders_and_pids, pids, kept, child_stdin, pipes, control>>

(* "Merge result with the cumulative solution_result." *)
MergedLast(old, new) == new
Merged(old, new) == IF new = "ok" THEN old ELSE new
RunMerge(i) ==
    /\ thread[i] = "waiting" /\ mailbox[i] # "none"
    /\ IF i = 0 THEN controller_result' = mailbox[i] /\ UNCHANGED solution_result
                ELSE solution_result' = Merged(solution_result, mailbox[i]) /\ UNCHANGED controller_result
    /\ exited' = exited \cup {i}
    /\ thread' = [thread EXCEPT ![i] = "merged"]
    /\ UNCHANGED <<manager, next_process_index, sandboxes, job_should_terminate, signalled, mailbox,
                   senders_and_pids, pids, kept, child_stdin, pipes, control>>

RunEnd(i) ==
    /\ thread[i] = "merged"
    /\ job_should_terminate' = (job_should_terminate \/ mailbox[i] # "ok" \/ i = 0)
    /\ thread' = [thread EXCEPT ![i] = "ended"]
    /\ UNCHANGED <<manager, managed, signalled, mailbox, senders_and_pids, pids, kept, child_stdin, pipes, control>>

-----------------------------------------------------------------------------
(* The keeper: controller_keeper_inner *)

(* The first configuration is the controller's, the n-th one has the n-th pipes. *)
KeeperStart ==
    /\ keeper = "running" /\ lines # <<>> /\ Len(started) \in Proc
    /\ lines' = Tail(lines)
    /\ started' = Append(started, Head(lines))
    /\ box' = [box EXCEPT ![Len(started)] = "running"]
    /\ said' = Append(said, [type |-> "started", num |-> Len(started)])
    /\ UNCHANGED <<manager, managed, job_should_terminate, signalled, running, pids, keeper, child_stdin, pipes, control>>

(* It cannot start a process, or look after one that ended, and panics: the       *)
(* processes go on without it.                                                     *)
KeeperFails ==
    /\ keeper = "running" /\ (lines # <<>> \/ \E n \in Proc : box[n] \in Outcome)
    /\ keeper' = "failed"
    /\ UNCHANGED <<manager, managed, job_should_terminate, signalled, running, pids, lines, started, box, said,
                   child_stdin, pipes, control>>

KeeperDone(n) ==
    /\ keeper = "running" /\ box[n] \in Outcome
    /\ box' = [box EXCEPT ![n] = IF @ = "ok" THEN "said ok" ELSE "said fail"]
    /\ said' = Append(said, [type |-> "DONE", num |-> n])
    /\ UNCHANGED <<manager, managed, job_should_terminate, signalled, running, pids, lines, started, keeper,
                   child_stdin, pipes, control>>

(* The manager closes the standard input, or drops it with the keeper: each thread *)
(* holds the keeper until it has its result.                                       *)
StdinClosed ==
    \/ ~child_stdin
    \/ manager = "gone" /\ \A i \in sandboxes : thread[i] \in {"merged", "ended"}
RunningBoxes == {n \in Proc : box[n] \in {"running"} \cup Outcome}
KeeperExit ==
    /\ keeper = "running" /\ StdinClosed /\ lines = <<>> /\ RunningBoxes = {}
    /\ keeper' = "exited"
    /\ UNCHANGED <<manager, managed, job_should_terminate, signalled, running, pids, lines, started, box, said,
                   child_stdin, pipes, control>>

(* The thread that listens to the keeper.  A number without a sender is a panic. *)
OwnerOf(n) == senders_and_pids[n + 1]
HearStarted ==
    /\ said # <<>> /\ Head(said).type = "started" /\ Head(said).num < Len(senders_and_pids)
    /\ said' = Tail(said)
    /\ pids' = pids \cup {OwnerOf(Head(said).num)}
    /\ pipes' = pipes \cup {Head(said).num}
    /\ UNCHANGED <<manager, managed, job_should_terminate, signalled, running, lines, started, box, keeper,
                   child_stdin, control>>

HearDone ==
    /\ said # <<>> /\ Head(said).type = "DONE" /\ Head(said).num < Len(senders_and_pids)
    /\ said' = Tail(said)
    /\ mailbox' = [mailbox EXCEPT ![OwnerOf(Head(said).num)] =
                       IF box[Head(said).num] = "said ok" THEN "ok" ELSE "fail"]
    /\ UNCHANGED <<manager, managed, job_should_terminate, signalled, thread, senders_and_pids, pids, lines, started,
                   box, keeper, child_stdin, pipes, control>>

KeeperOver == keeper \in {"exited", "failed"} /\ said = <<>>

-----------------------------------------------------------------------------
(* The processes: the controller opens its FIFOs, talks, closes them, and  *)
(* everybody ends.                                                         *)
ControllerOpens ==
    /\ Alive(0) /\ ~opened /\ opened' = TRUE
    /\ UNCHANGED <<manager, managed, job_should_terminate, signalled, running, pids, kept, child_stdin, pipes,
                   requests, asked, closed>>

ControllerAsks(r) ==
    /\ Alive(0) /\ opened /\ ~closed /\ asked < MaxRequests
    /\ requests' = Append(requests, r) /\ asked' = asked + 1
    /\ UNCHANGED <<manager, managed, job_should_terminate, signalled, running, pids, kept, child_stdin, pipes,
                   opened, closed>>

ControllerCloses ==
    /\ Alive(0) /\ opened /\ ~closed /\ closed' = TRUE
    /\ UNCHANGED <<manager, managed, job_should_terminate, signalled, running, pids, kept, child_stdin, pipes,
                   opened, requests, asked>>

Ends(n, o) ==
    /\ Alive(n)
    /\ box' = [box EXCEPT ![n] = o]
    /\ closed' = (closed \/ n = 0)
    /\ UNCHANGED <<manager, managed, job_should_terminate, signalled, running, pids, lines, started, said, keeper,
                   child_stdin, pipes, opened, requests, asked>>

(* KillJob, in the worker. *)
KillJob ==
    /\ MayKill /\ manager \notin {"answered", "gone"}
    /\ Kill(sandboxes)
    /\ UNCHANGED <<manager, managed, job_should_terminate, running, pids, kept, child_stdin, pipes, control>>

-----------------------------------------------------------------------------
(* The sandbox manager *)

Goes(where) == manager' = where

(* It opens the FIFOs, which waits for the controller. *)
Open ==
    /\ manager = "opening" /\ opened
    /\ Goes("reading")
    /\ UNCHANGED <<managed, job_should_terminate, signalled, running, pids, kept, child_stdin, pipes, control>>

Reads(r) == manager = "reading" /\ requests # <<>> /\ Head(requests) = r /\ requests' = Tail(requests)

(* "START_SOLUTION" *)
StartSolution ==
    LET i == next_process_index + 1 IN
    /\ Reads("START_SOLUTION")
    /\ next_process_index < Limit /\ ~job_should_terminate
    /\ next_process_index' = i
    /\ sandboxes' = sandboxes \cup {i}
    /\ thread' = [thread EXCEPT ![i] = "starting"]
    /\ Goes("waiting")
    /\ UNCHANGED <<solution_result, controller_result, exited, job_should_terminate, signalled, mailbox,
                   senders_and_pids, pids, kept, child_stdin, pipes, opened, asked, closed>>

(* "Exit the loop without starting a solution." *)
StartRefused ==
    /\ Reads("START_SOLUTION")
    /\ next_process_index < Limit /\ job_should_terminate
    /\ next_process_index' = next_process_index + 1
    /\ Goes("terminating")
    /\ UNCHANGED <<solution_result, controller_result, exited, sandboxes, job_should_terminate, signalled, running,
                   pids, kept, child_stdin, pipes, opened, asked, closed>>

(* ensure_controller!: too many solutions, or an unknown request. *)
Misbehaves ==
    /\ \/ /\ Reads("START_SOLUTION") /\ next_process_index >= Limit
          /\ next_process_index' = next_process_index + 1
       \/ /\ Reads("unknown") /\ UNCHANGED next_process_index
    /\ Kill({0})
    /\ Goes("terminating")
    /\ UNCHANGED <<solution_result, controller_result, exited, sandboxes, job_should_terminate, running, pids, kept, child_stdin, pipes, opened, asked, closed>>

(* The line is no text, or the sandbox cannot be made: it panics. *)
StartFails ==
    /\ \/ Reads("garbled") /\ UNCHANGED next_process_index
       \/ /\ Reads("START_SOLUTION") /\ next_process_index < Limit
          /\ next_process_index' = next_process_index + 1
    /\ Goes("gone")
    /\ UNCHANGED <<solution_result, controller_result, exited, sandboxes, job_should_terminate, signalled, running,
                   pids, kept, child_stdin, pipes, opened, asked, closed>>

ReadEnd ==
    /\ manager = "reading" /\ requests = <<>> /\ closed
    /\ Goes("terminating")
    /\ UNCHANGED <<managed, job_should_terminate, signalled, running, pids, kept, child_stdin, pipes, control>>

(* wait_for_pipes, and the answer. *)
AnswerAtOnce ==
    /\ manager = "waiting" /\ Alive(0)
    /\ Goes("reading")
    /\ UNCHANGED <<managed, job_should_terminate, signalled, running, pids, kept, child_stdin, pipes, control>>
Answer ==
    /\ manager = "waiting" /\ next_process_index \in pipes /\ Alive(0)
    /\ Goes("reading")
    /\ UNCHANGED <<managed, job_should_terminate, signalled, running, pids, kept, child_stdin, pipes, control>>

(* "Controller disappeared while writing START_SOLUTION response": it returns (or *)
(* panics, after any other error).                                                 *)
BrokenPipe ==
    /\ manager = "waiting" /\ next_process_index \in pipes /\ ~Alive(0)
    /\ Goes("gone")
    /\ UNCHANGED <<managed, job_should_terminate, signalled, running, pids, kept, child_stdin, pipes, control>>

TerminateOpen ==
    /\ manager = "terminating"
    /\ Goes("killing")
    /\ UNCHANGED <<managed, job_should_terminate, signalled, running, pids, kept, child_stdin, pipes, control>>
Terminate ==
    /\ manager = "terminating" /\ child_stdin' = FALSE
    /\ Goes("killing")
    /\ UNCHANGED <<managed, job_should_terminate, signalled, running, pids, kept, pipes, control>>

(* "Kill still-running solutions if this was a failure, or if the controller   *)
(* exited."                                                                     *)
KillRest ==
    /\ manager = "killing"
    /\ IF job_should_terminate THEN Kill(sandboxes \ exited) ELSE UNCHANGED signalled
    /\ Goes("joining")
    /\ UNCHANGED <<managed, job_should_terminate, running, pids, kept, child_stdin, pipes, control>>

(* The threads are joined, then the keeper, and the result is sent. *)
SendDone ==
    /\ manager = "joining"
    /\ \A i \in sandboxes : thread[i] = "ended"
    /\ KeeperOver
    /\ Goes("answered")
    /\ UNCHANGED <<managed, job_should_terminate, signalled, running, pids, kept, child_stdin, pipes, control>>

-----------------------------------------------------------------------------
Thread(i) == RunPush(i) \/ RunWrite(i) \/ RunMerge(i) \/ RunEnd(i)
Keeper    == KeeperStart \/ (\E n \in Proc : KeeperDone(n)) \/ KeeperExit
Listener  == HearStarted \/ HearDone
Manager   == \/ Open \/ StartSolution \/ StartRefused \/ Misbehaves \/ StartFails \/ ReadEnd \/ Answer \/ BrokenPipe
             \/ Terminate \/ KillRest \/ SendDone

Next ==
    \/ \E i \in Proc : Thread(i) \/ RunFails(i)
    \/ Keeper \/ KeeperFails \/ Listener \/ Manager
    \/ ControllerOpens \/ ControllerCloses \/ (\E r \in Request : ControllerAsks(r))
    \/ \E n \in Proc : \E o \in Outcome : Ends(n, o)
    \/ KillJob

Spec == Init /\ [][Next]_vars

(* The threads and the keeper are not stopped, and the processes end: they have  *)
(* limits.                                                                        *)
FairSpec ==
    /\ Spec
    /\ \A i \in Proc : WF_vars(Thread(i)) /\ WF_vars(Ends(i, "ok") \/ Ends(i, "fail"))
    /\ WF_vars(Keeper) /\ WF_vars(Listener) /\ WF_vars(Manager) /\ WF_vars(ControllerOpens)

-----------------------------------------------------------------------------
(* Properties *)

(* Nothing but the order of two writes, under two locks, says which sandbox a      *)
(* number of the keeper is about: its pid, its pipes and its result.  And no index *)
(* is out of range: neither the keeper nor its thread panics, and nobody writes to *)
(* a standard input that is gone.                                                  *)
KeeperInSync ==
    /\ Len(started) <= Len(senders_and_pids)
    /\ \A n \in 1..Len(started) : started[n] = senders_and_pids[n]
    /\ Len(started) + Len(lines) <= Limit + 1
    /\ \A i \in Proc : thread[i] = "pushed" => child_stdin

(* "contains the results of all the executions inside the group": when the results *)
(* are sent all the processes that were started are over, and the result of the    *)
(* solution is good if those of all its processes are.                             *)
VerdictComplete ==
    manager = "answered" =>
        /\ controller_result = mailbox[0] /\ controller_result # "none"
        /\ \A i \in sandboxes : mailbox[i] # "none" /\ ~Alive(i)
        /\ solution_result = "ok" <=> \A i \in sandboxes \ {0} : mailbox[i] = "ok"

(* The manager never waits for ever, whatever the processes do and in whichever    *)
(* order they end: the job is answered, but in three cases (README, Disagreements): *)
(* the manager gave up ("gone": the controller disappears while it is answered, or  *)
(* an error of a request); what the manager is waiting for failed before it was     *)
(* there (it opens the FIFOs of a controller that will not, or waits for the pipes  *)
(* of a process that was never started); or the keeper failed, which nobody notices. *)
NeverCame ==
    \/ \E i \in Proc : thread[i] # "starting" /\ thread[i] # "none"
                        /\ \A n \in 1..Len(senders_and_pids) : senders_and_pids[n] # i
    \/ ~opened /\ started # <<>> /\ ~Alive(0)
JobEnds == <>(manager \in {"answered", "gone"} \/ NeverCame \/ keeper = "failed")

=============================================================================
