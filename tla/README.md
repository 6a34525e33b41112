# TLA+ models of task-maker-rust

This directory holds a verification project for task-maker-rust, its server
and the formats of its tasks: TLA+ modules translated from the Rust sources, TLC
configurations that check them on small instances, and TLAPS proofs of the
properties that matter most for every size of the system.  `PROJECT.json` is the
machine-readable index: which definition models which lines, which run checks
which property, which mutant shows that a property can fail.

## The system

A *client* (`client.rs`) sends a DAG of execution groups to an *executor*.  The
executor is a set of threads that talk over channels:

    client  <-->  client manager  -->  scheduler  -->  binder  -->  client
                  (executor.rs)        (scheduler.rs)  (executor.rs)
                                        |    ^
                                        v    |
                                   worker manager  <-->  worker  <-->  sandboxes
                                (worker_manager.rs)   (worker/mod.rs)

| component | state | operations | what is hard | correct when |
|---|---|---|---|---|
| scheduler | DAG data per client, one priority heap, the workers and their jobs, the cache | one handler per message; recursive completion of groups and files | recursion inside loops, several clients sharing heap, workers and cache, workers and clients that disappear | no group is lost or done twice, inputs are there when a group starts, everything asked for is reported once, the end is announced |
| client, client manager, binder | files still missing, what was asked, ready files | upload, download, status, stop | two threads writing to one channel that switches to raw file mode; late answers | all the requested files arrive, the session ends on both sides |
| worker manager, worker | the current job, missing inputs, the sandboxes, the list of outputs to send | get work, fetch inputs, run, send outputs, kill | a kill or a disconnection at any point of the exchange | every job is answered once or given back |
| execution units | the sandboxes of a group, their processes, PIDs, directories and results | start, wait, kill, collect | a thread per process, kills that race the start of a process, processes that wait for each other | the group ends, the culprit is blamed, no directory is dropped while it is used |
| controller | the processes of a controlled job, their channels, pids and pipes, the merged result | start a solution on request, merge, kill, answer | a manager, a thread per process, the keeper and its listener; processes that end in any order | numbers mean the same to worker and keeper, the result covers every process, the job is answered |
| DAG check | - | one traversal | - | a DAG is accepted iff it is well formed |
| file store | files on disk, reference counts, index with access times | get, store, flush, drop | threads that store and flush, a crash between rename and index, eviction of files in use | a handle always points to a complete file |
| cache | entries per key | insert, get | limits that are compatible only in part | a hit is what running would have given |
| evaluation of a task (IOI, Terry), its UI state, solution checks | the executions, the score manager of each solution, the status of testcases, subtasks, solutions; the comments of the sources | build the DAG, one callback per execution, write and read the checks | results in any order, partial failures, testcases in several subtasks | the score and the verdicts are the ones the results give, failures stay visible, inputs are validated first |
| task formats | the lines read so far: subtasks, generators, validators, constraints; the task directory | parse, generate `gen/GEN` and `task.yaml`, clean | line-driven state that is reset in part, dependencies with cycles, generated files next to written ones | subtasks have the testcases they depend on, each owned once; only what was generated is touched |
| find-bad-case | the batch, what was found, the UI threads, the sender to the executor | prepare, evaluate and collect a batch; stop | a UI that lags behind the main thread, stops at any time | what is reported is bad, the search ends |
| languages, statements, sanity checks, diagnostics, rendering, CLI and the other tools | mostly none | - | - | out of scope (Not modelled) |

The hazards found while reading, with their lines, are listed in
`PROJECT.json`.

`DagEvaluation` is what the scheduler promises to its clients: `Scheduler` is shown to
implement it, and `TaskEvaluation` assumes no more than it of the order in which the
executions of a task start and end.  `ClientSession`, `WorkerProtocol` and `SandboxGroup` each detail
one of the actors around the scheduler and check what `Scheduler` takes for granted of them.

The comments of the modules quote the sources.  `tlc -workers 2 -config X.cfg M`
runs one configuration and `tlapm M.tla` one module of proofs.

## Scheduler

`Scheduler.tla` models `scheduler.rs`: one action per incoming message
(`HandleEvaluateDAG`, `HandleFileReady`, `HandleWorkerResult`,
`HandleWorkerConnected`, `HandleWorkerDisconnected`, `HandleClientDisconnected`,
`Exit`) and one per call the handlers make (`CheckCompletion`, `FileSuccess`,
`FileFailed`, `ExecCompleted` with `cache_execution`, `ScheduleCached`,
`AssignJob`).  The recursion of the code is an explicit `stack` of pending calls:
a handler pushes the calls it will make, in the code's order, and the next
message is read only when the stack is empty.  This keeps every intermediate
state of a handler, which is where the recursion can go wrong, without
`RECURSIVE` operators, so that the module can be proved about.  A loop over a
`HashMap` is a frame with the set still to visit: all the orders are explored.

The maps kept per client are one map over all the groups, whose UUIDs are unique;
the heap is a bag of `(group, priority)` entries; the cache is the result stored
under a key, one key for the groups whose commands, limits and inputs are the
same.  `FlushOutputs` (external) is another thread that makes the file store
forget the outputs of a cached execution.  `handle_status_request` only reads
the state.  A worker that sends the wrong number of results ends the scheduler (`scheduler.rs:397`, "it should
never happen"); a worker of this repository sends one per execution, so this is left out.

`DagEvaluation.tla` is what the scheduler promises, in one page: a group ends
once, when its producers have succeeded; it is skipped only when one of them did
not; an evaluation is announced when all the groups have ended, or when the
client leaves.  It knows nothing of queues, workers, calls or caches.

### Runs

* `scheduler_two` (`MCSchedulerTwo.cfg`): two clients with a group in common in
  the cache, two workers, one that may die, one client that may leave, an
  executor that may stop.  Checks the safety invariants and
  the refinement of `DagEvaluation`.  Two of each are enough for every pairwise
  interference: two clients for the shared heap and cache, two workers for a job
  done twice, a producer and a consumer for a wake-up.
* `scheduler_one` (`MCSchedulerOne.cfg`): one client whose DAG has a provided
  file, workers that stay.  Checks, under fairness, that each evaluation is
  announced.  With a worker that dies, or with two clients, it is not
  (Disagreements).

Bounds: the sets in the cfg files and nothing else; the state space is finite
because every group ends once and each worker dies at most once.

Fairness (`FairSpec`): the scheduler thread never blocks inside a handler
(`WF(Call)`), an upload that was asked for arrives, workers that are connected
ask for work and answer.  Deaths, departures, exits and flushes have no fairness.

### Proofs

`SchedulerProofs.tla` proves, for every set of clients, workers, groups and files
and every DAG that satisfies `DagAssumption` (what `check_dag` accepts) and
`ConfigAssumption`, that the following hold in every reachable state: `TypeOK`,
`GroupLifecycle`, `ReadyQueueConsistent`, `WorkerJobsConsistent`,
`InputsAvailable`, `NoLostWakeup`, `CallsConsistent` and `Reports`, and that the scheduler
implements `DagEvaluation`.

The inductive invariant `SchedulerInv` is the conjunction of those seven and
`NothingBeforeDag` (nothing is known of a client before its DAG).  None is
inductive alone: that a completed group is nowhere else needs the pending calls
to be distinct (`CallsConsistent`); that a waiting group is woken needs the
producer of the file to be somewhere (`GroupLifecycle`); that the result of a
worker is the result of a running group needs `WorkerJobsConsistent`, and so on.
There is one lemma per action, and one step per conjunct the action can disturb;
lemmas on sequences of calls (what pushing, popping and replacing the top of the
stack does to the groups and files the calls mention) are shared by all of them.
The refinement follows from the invariant action by action: `ExecCompleted` is a
completion, `FileFailed` is a skip, `CheckCompletion` and the departure of a
client are announcements, everything else is a stutter.

`Reports` has an invariant of its own on top of `SchedulerInv`, `ReportsInv`: a file that was
not announced is announced by at most one pending call (`FilesOnce`); the outputs of a group that
was executed are there as long as its client is (`OutputsKept`), so `send_file` finds them; each
watched file that was produced was sent or a pending call is about to (`FilesReported`); and an
evaluation is announced when all of its groups have ended (`AnnouncedLast`).  The first two are
needed because `send_file` is one of several recursive calls that are pending when a group
ends, and the third holds only if the handles of the second are not dropped in between.

Only model-checked: `EvaluationCompletes` (liveness under fairness is out of the prover's reach).

## Client session

`ClientSession.tla` models one client (`client.rs`, with the status poller and the
ctrl-c handler of `context.rs`) and the two executor threads that talk to it
(`executor.rs`): the client manager, which reads its messages, and the binder,
which forwards what the scheduler says.  Both directions of the connection are
FIFO channels with two writers each.  A file is a `ProvideFile` followed by raw
pieces and an empty one, each sent by a separate step, so that another writer can
come in between.  The scheduler is the part of `Scheduler.tla` the client can see:
notifications, files, `EvaluationDone` whenever completion is checked and holds.
The client manager sends the scheduler what `Scheduler.tla` assumes: the DAG, then its
files, nothing after `ClientDisconnected`.

The end of a session is part of the model: which senders are dropped when
(`UpClosed`), what the client manager tells the scheduler when its loop ends
(`LastMessages`), and that an error it returns is a panic that tells nobody.
A file the client asks for is known to the server as long as the scheduler has
the client's data, and may be unknown afterwards.

`long_running` tells a server from a local executor, which shares its file store with
the client (`InClientStore`) and exits with it; both start the behaviours of the one run.
A ctrl-c may come at any time, also before `Evaluate` (`MgrEvaluateStopped`) and in the
middle of an upload: the manager panics and nobody is told (`ManagerLost`).  The connection
to a server may break at any time (`Disconnect`), and what is on its way may be lost: `evaluate` then
returns `Ok` (`Return`) or, if it was sending, an error.

* `session` (`MCSession.cfg`): a local executor or a server, one urgent file, one execution
  that may be skipped, one poll, one ctrl-c, a DAG that may be refused, callbacks that may
  fail, a connection that may break.  `AllDelivered`: a client that returns has got every file that was
  produced and heard of every execution, each once, unless it stopped, the connection broke or it got
  a second `Done` (`dones`); the last two make `evaluate` return `Ok` with files missing
  (Disagreements).  `SessionEnds` and `TearDown`, under weak
  fairness of the four threads (each is a loop around a blocking receive): `evaluate`
  returns, and then the executor is told to exit or the scheduler forgets the client.
  They leave out a manager that panicked (`StopLost`, `ManagerLost`), and `TearDown` the client whose `evaluate` failed
  (Disagreements).

Bounds: two provided and two produced files, two executions, one piece per file,
one poll, one ctrl-c.  A race needs one message between two pieces of one file,
and a wrong count needs one file asked for and one not.

## Worker protocol

`WorkerProtocol.tla` models one worker (`worker/mod.rs`), its sandbox thread, the
worker manager and the thread the manager starts for the worker
(`worker_manager.rs`), and what the scheduler does with one worker.  The two
directions of the connection are FIFO channels with two writers each: the worker
manager and the worker's thread in one, the worker and its sandbox thread in the
other.  As in `ClientSession` a file is a header and pieces sent one by one.  A file
has an identity and a content (`KeyOf`): inputs are asked for by content and outputs
by identity.  The sandboxes of a job are one step, since the server sees only the
`WorkerDone` at their end.

`WorkerDies` is the death of the worker's process or of its connection at any time;
what was sent before is still received.  A send to a worker that is gone may succeed
or fail, as it may on a socket.  What `Scheduler.tla` takes for granted about a
worker (a result is about the job the scheduler thinks it is doing, and comes before
the next request for work) is checked here (`ViewIsRight`).
What the code answers with a panic or an early return (a job for a worker that has one, a
file nobody asked for, a message between two pieces of an output) has no action: a thread that
got one would be stuck, against `JobsAnswered` and `ShutDown`.

* `worker`: the worker may die, clients may leave and the scheduler may exit, at any
  time.  Safety, and under weak fairness of every thread each job is answered, unless
  the worker dies or its client leaves (`JobsAnswered`), and after an exit the worker
  and its thread end (`ShutDown`).

A death during the collection of the outputs is not announced to the scheduler
(Disagreements), and `KillJob` and `Exit` may come between the pieces of an input.

`WorkerProtocolProofs.tla` proves `ViewIsRight` for every set of jobs, inputs, outputs and contents
and every number of pieces, with deaths, departures and exits or without, from
`WorkerAssumption`.  Apart from types, it assumes that the server has the inputs of the jobs and that
a job has finitely many of them.  `ViewIsRight` speaks of the scheduler and of the worker, which are
four channels apart, so the inductive invariant says what is in between.  It follows two tokens.  The *readiness* of the
worker is in at most one place (`OnePlace`): a `GetWork`, a `WorkerConnected`, the scheduler, a
`WorkerJob`, a `Work`, or the job it is doing.  The *result* of a job is in at most one place
(`OneResult`): a `WorkerDone`, the thread that collects its outputs, or a `WorkerResult`, and not before
the job was done.  `Busy` ties them together: as long as the result is somewhere, or a job is on its
way to a worker that is alive, the scheduler takes the worker for busy, with that job.  `Channels` has the order of the messages
to the scheduler (a result is before the next announcement, nothing follows a disconnection),
`SandboxInv` why the list of the outputs meets the sandbox thread that waits for it, and `LostLast` why nothing is under
way when a disconnection is read.  Most actions move no token and share one lemma (`QuietStep`); the
others have a lemma each.

Bounds: three jobs, of which one has two inputs with the same content and two have
outputs with the same content; one piece per file; one worker, since workers share
only the scheduler (in `Scheduler.tla`) and the worker manager's loop.



## Check of a DAG

`DagCheck.tla` models `check_dag.rs`, one action per iteration of its loops
(`AddGroup`, `AddFile`, `Visit`) and one per early return.  The maps of the DAG are
iterated in any order.  A group lists its inputs with repetitions, which is why the
counter of missing inputs counts positions (`Slot`) and not files.  The reference
definition, `WellFormed`, says that each file has one source, that no input is
missing and that the groups can be ordered.

* `dag_check`: every DAG, and everything that is none, with two groups of two inputs
  and three files.  `AcceptsOnlyDags` and `RefusesOnlyOthers`.
  Two groups are enough for a cycle, a self-loop and a group downstream of one;
  three files for an input that is used twice beside a missing one.

`DagCheckProofs.tla` proves `AcceptsOnlyDags` and `RefusesOnlyOthers` for every set of groups,
files and positions.  The inductive invariant relates the counters to the inputs that were not
visited, says why a file was visited (it was provided, or its producer has all its
inputs) and that no group of a set that waits for itself is ever done
(`NoneDoneInCycle`), which is what makes an accepted DAG acyclic.
For the other direction it says that nothing is forgotten (`NothingForgotten`): what was provided,
and what a group that has all its inputs produces, is visited or about to be, so that the groups
which are never reached lack a file or wait for each other.
This is what `SchedulerProofs` assumes of a DAG.


## Cache

`Cache.tla` models `task-maker-cache` for one key: the commands, arguments and inputs
are the same, the limits are not.  There is one deterministic program, chosen
initially: what it needs of each resource, what it must be allowed to do, and whether it
succeeds then.  The sandbox stops it when it goes over a limit by more than the
margin (`extra_time`, `extra_memory`): `build_command` adds the limits on the user and
the system time (`CpuLimit`), or takes the one that is given, and rounds a time up to
seconds (`Ceil`).  `Execution::status` compares what was measured, each time by itself,
with the limit without the margin.  A limit is one of four kinds: *measured* (times,
memory: with a margin; memory is unsigned), *hard* (no margin), a *power* (a boolean
flag, in the direction in which it allows more) and a *directory*.
`is_compatible` is translated with the direction of each comparison; the unsigned
difference of two margins wraps around.

The actions are a miss, after which the execution runs, the end of a run, an internal
error, which is not inserted, a flush of the file store, the end of the process
(`store` and `load`) and its death.  A hit changes nothing: the properties quantify
over the hits that are possible in a state.

* `cache`: `HitIsRight` is the claim of the crate's documentation, for limits that
  `is_compatible` can compare (`Comparable`): a hit says success exactly when a run
  would succeed.  `NoNeedlessRun` is the other direction: what the documentation
  calls *less restrictive* is a hit.  Each conjunct of `Comparable` is needed: without
  it TLC shows a wrong hit (Disagreements).  Bounds: two entries, two runs at the same
  time, one restart; a hit depends on one entry, a replacement on two.

`StorageProofs.tla` proves `HitIsRight` and `NoNeedlessRun` of `CacheSpec` for every set of resources, every
program and every limit.  The invariant is that each entry, in memory and in the file, is what a
run with its limits gives (`Honest`); the heart is the lemma `LooserSucceeds`: what
succeeds with some limits succeeds with limits that are less restrictive, which for the time
of the processor holds only if both give a limit on the same times.  `NoNeedlessRun` needs,
beside it, that what the documentation calls less restrictive is what `is_compatible` finds to be
so (`LessRestrictiveIsCompatible`).

Abstractions: groups of one execution (for more the code takes the conjunction over
the executions); of the hard limits the sandbox enforces only the stack.


## File store

`FileStore.tla` models `task-maker-store`.  The files on disk, the index and the table
of the locked files are separate: the index and the table have a mutex, the disk has none,
and a step of the model is what a thread does between two accesses to one of them.
`store` takes the handle first, looks whether the file is there, writes a temporary
file, renames it, adds it to the index and may flush; `get` looks whether the file
is there, touches the index and makes the handle.  The flush holds both mutexes, pops
the entries from the heap, removes the files that are not locked and keeps the others.
A process ends by dropping the store, which flushes and saves the index, or is killed
between any two steps; the index is loaded by the next one.

* `store`: `StoredHandleKeepsFile` (a file that was stored is there as long as a handle
  is alive) and `TotalIsSum` (the size that decides about flushes, which is only ever
  adjusted, is the size of the indexed files, also after a crash).  Two threads,
  three files of which one alone fills the store, one restart: a flush
  with a file in use, one that may go and one that is being written needs no more.

A handle that `get` returned is left out: its file may be flushed between the check
and the handle (Disagreements).

`StorageProofs.tla` proves `StoredHandleKeepsFile` for every number of threads,
files and restarts and every size.  The property is inductive together with the types:
what makes it work is that the handle comes before the check, so that a flush, which
holds the table of the locked files, either sees it or is over.

It also proves `TotalIsSum`.  The invariant (`IndexInv`) adds that the queue of a
flush holds indexed files, each of them once, so that a flush subtracts each size once, and
that the index in the file names each file once, for a restart.  A sum over a set is a fold, which the
provers do not unfold; the lemmas about sums (`SumsExist`, `SumsAgree`, `SumAdd`, `SumOfRest`) take
the smallest set for which they would fail (`LeastSet`, from `WFMin` over the strict subsets of a
finite set), an induction without an induction rule.

A flush that cannot find the directory of the store (`index.rs:175`) is left out (Disagreements).
The integrity check of the code is disabled and not modelled, and neither is the lock
file that keeps other processes out.


## Controller

`Controller.tla` models a controlled job (`worker/controller.rs`).  Five kinds of
actors share its state: the *sandbox manager*, which reads the requests of the
controller from a FIFO; one *thread per sandbox* (`run_sandbox`), which pushes its
channel, writes a configuration to the keeper and waits; the *keeper*, a process of its
own that starts the sandboxes and says when they start and end; the thread that
*listens* to it; and the *processes*.  Process 0 is the controller, process `i` the
`i`-th process of the solution; `senders_and_pids` and `started` are the two orders in which
the worker and the keeper number the sandboxes.

* `controller`: the two numberings never diverge and no index is out of range
  (`KeeperInSync`), which rests on the manager waiting for the pipes before it reads
  the next request (the mutant does not wait); the result that is sent is that of all
  the processes (`VerdictComplete`); and the manager always gets to its end (`JobEnds`),
  with the exceptions that the property names: the manager gave up (the controller is gone when it is
  answered, or a request cannot be read or its sandbox not be made), the sandbox that the
  manager waits for failed before it was there, or the keeper failed (`KeeperFails`), which nobody notices.
  Bounds: two processes, three requests, so that the limit is exceeded by one.

`ControllerProofs.tla` proves `KeeperInSync` and `VerdictComplete` for every limit on the processes and
every bound on the requests.  The two numberings agree because both are the order of the processes (`Numbered`: the
`n`-th entry is process `n - 1`, counting the configurations on their way to the keeper); this is
inductive because a thread that has pushed its channel and not written its configuration is the
last one (`LastIsStarting`, `WrittenUnlessPushed`), which in turn holds because the manager reads a request only when the
previous process has its pipes, which the keeper has started (`OneAtATime`, `HeardIsStarted`).  The verdict needs
that the end of a process is said once and that its result does not change after it was heard (`SaidOnce`), and what the threads have merged so far
(`MergedResults`).

Fairness: the threads, the keeper and its listener are scheduled, tabox opens the
FIFOs of a process that is running, and every process ends, because its time is limited.
A kill is recorded (`signalled`) but nothing depends on its success: `Sandbox::kill` gives
up without a pid and after five attempts.  The second's delay before a kill is left out, and so are the errors
of `std::thread::spawn` and of the set-up of the job (`controller.rs:369-478`).


## Sandboxes of a group

`SandboxGroup.tla` models the executions of one group in a worker (`worker/mod.rs` from `execute_job` to
`finalize_job`, `execution_unit/`, `sandbox_runner.rs`): a thread per sandbox, the processes, which
open FIFOs and wait for their partners, the manager that collects the results and kills the
rest after a failure, and the worker's thread that is told to kill the job.  `kill` sets
`tried_to_kill`, looks `Tries` times for the PID and sends a SIGTERM; the process may not exist yet, may
just have ended by itself, or may be stopped at a limit at the same time.  A process that gets its FIFOs
as arguments (`early`) may end before it opens them, and a sandbox may fail without a result (`SandboxFails`).  The directory of a
sandbox is there as long as one of its owners is (the job, the manager, the thread).

* `sandbox` (`MCSandbox.cfg`): a single process, with and without an executable, a typst
  compilation, pairs that wait for each other, with and without a wall time limit, and three
  processes of which one cannot start.  `SomebodyBlamed`, `BoxInUse` and `GroupEnds`.

`SandboxGroupProofs.tla` proves `BoxInUse` and `SomebodyBlamed` for every group.  The worker owns the directories
until the manager is over, and by then the threads were joined and gave up theirs (`WorkerHasBox`,
`JoinedThreads`).  For the blame the invariant has two phases: before the manager has received a failure nobody was told to
stop and no result can look like a kill, unless of a process over its limit (`NobodyTold`); from then on the
execution whose failure it was is never told to stop, and its result stays (`Spared`).  `OneResult`, that the result of an execution is
in the channel, in the hands of the manager or collected, and once, is what the second phase rests on.

Fairness: threads go on; a process ends, unless it waits for the other end of a FIFO, and one that was
told to stop or is over a wall time limit is stopped.  `Blocked` has the two exceptions of `GroupEnds`: a process without a wall time limit that a kill gave
up (`GivenUp`), or that waits for one that exited with 0 before it opened its FIFO (`Deserted`).

Left out: `--keep-sandboxes`, with which the directories stay (`sandbox.rs:590`); the internal error of an execution
whose output cannot be read (`worker/mod.rs:685`); a `WorkerDone` that cannot be sent, after which the manager
panics (`worker/mod.rs:566`), which `WorkerProtocol` covers as the death of the worker; the outputs of a typst
compilation are in memory, which differs from a directory only in a group of several executions, and those are never typst.
Bounds: two looks for the PID instead of five, since they differ only in how long they wait.


## Evaluation of a task

`TaskEvaluation.tla` evaluates one task.  `IoiTask.tla` and `TerryTask.tla` say, for a format,
which executions the DAG has and what each waits for (`Groups`, `Inputs`), what the callbacks
of an execution do (the messages they send, the scores they give to the `ScoreManager`) and what
each message does to the UI state (`process_step`, `IoiApply`, `TerryApply`).  The executions
start, end and are skipped in every order that `DagEvaluation` allows, and end in
every way the cfg lists.  `SolutionChecks.tla` is `solution.rs` with the two tools that write and
export the checks: the partial order of the results, `minimals`, the choice of a check, the lines of
the source file before and after, and what is read back from them.

A score is an integer out of `One`; `Tolerance` and `Epsilon` are the 0.001 of `from_score` and the 1e-8
of `ui_state.rs` in the same unit, and the proofs hold for all values.  The list of the testcases of a
subtask is a set with multiplicities (`times`), since some parsers list a testcase twice.  The name and the text of messages, the resources and the
files that are written are left out; what a program prints as a score is one of `Printed` or
`Invalid`.  Messages are applied when they are sent: one thread runs the callbacks and the UI
reads one FIFO channel.

* `task` (`MCTask.cfg`): nine tasks of every type (batch with both checkers, communication with one
  and two processes, interactive, Terry; with and without compilers, generators, validators;
  a subtask that includes another, one that lists a testcase twice, an empty one, both aggregators).  `ScoreIsRight` compares
  the score shown with one computed from the results alone; `VerdictMatchesScore` what is shown
  of a testcase with its score, up to the tolerances, and with the processes that failed; `FailureShown` says that
  failures stay visible whatever is skipped afterwards, `OnlyValidInputs` that nothing
  runs on an input that was not accepted; `WrittenChecksHold` and `ExportBoundsScore` follow a check from
  the results through the source file to the exported bounds.  The bounds hold up to the tolerance of
  `from_score`, if no score is above it: a checker may print a score above 1, which is a partial one.

Bounds: two subtasks and testcases, one of them shared; one solution (the IOI state has nothing
that solutions share) or two (Terry).  Only safety: that executions end is `EvaluationCompletes`.

### Proofs

`TaskEvaluationProofs.tla` proves the first four of these for every task, every number of subtasks,
testcases, solutions and processes, and every way they may end.  The assumptions are about what is
evaluated: `TasksAssumption` (every testcase is owned by exactly one subtask and what a subtask includes
is owned by some subtask, which `TaskParsing` checks of the parsers as `OwnedOnce` and `SubtasksClosed`;
the subtasks and their testcases are finite), `StatusesAssumption` and `PrintedAssumption` (a program
prints a score that is not negative, or something else), `ScoresAssumption` (`Epsilon` is below what
counts as full).

* `ExecInv`: the executions are those of the DAG, one that has started or ended had all its inputs, its
  results are possible ones, and when the evaluation is over all have ended.  `OnlyValidInputs` follows,
  because the validation for the owner is among the inputs of each execution that reads the testcase.
* `UiOk`: the shape of the UI state, which every message keeps.
* `ShownInv`: `FailureShown` is not inductive, since a step may end while another one is shown.  The
  invariant says which step explains each status (started, skipped, failed).  The steps of a testcase are
  a chain (`Rank`, `Chain`): a step waits for all that come before it, so when one starts or ends the
  later ones have not, and a skip after a failure finds the failure shown.
* `ScoreInv`: for each solution and testcase (`CellOk`) the score in the UI and the one in the manager are
  the one deserved, and the status follows from it and from the results; each manager has scored exactly
  the subtasks whose testcases all have a score (`ManagerOk`), from those scores.  A testcase is scored
  at most once, because its check waits for its evaluation to succeed, so a subtask is never scored
  with a value that changes later.  `ScoreIsRight` and `VerdictMatchesScore` follow.  The sums of the
  community modules are folds that take the elements of a set in an unspecified order; the lemmas on `SumOf`
  show by minimal counterexample that they are defined and depend only on the values they add.

`WrittenChecksHold` and `ExportBoundsScore` stay with TLC: they are about sequences of lines that
`SelectSeq` filters, an induction over the lines.


## Task formats

`TaskParsing.tla` is the life of a task directory: the author writes it line by line, it is read,
`gen/GEN` and `task.yaml` are generated, the inputs and outputs are written, `clean` removes what
was generated, and the task is read again.  `CasesGen.tla` has the state machines of
`gen/cases.gen` and `gen/GEN`, one operator per command, as a fold over the lines, and the writer of
`gen/GEN`; `GenToml.tla` has `gen.toml` after deserialisation: groups, inclusions, copies, repeats,
validators and the variables of the arguments.  A line is a record of what the grammar
extracts from it, with scores in tenths, since the grammar of `gen/GEN` has no decimals, and paths that are
in `input/`, elsewhere, or have a space.  A file on disk is absent, `"ours"` (generated, with the cookie) or the `"user"`'s.
An evaluation writes the inputs, the outputs (empty ones for a task that has none) and the programs in `check/`,
and with `--copy-exe` those in `bin/`.  The copies of a `gen.toml` are taken to be outside `input/`.
The fixed point of the dependencies and the search of the included groups take one step per
iteration, in every order of the maps.

* `formats` (`MCFormats.cfg`): 1 to 6 alternatives at each of eleven lines of a
  `cases.gen` and seven of a `GEN`, right and wrong ones, eleven `gen.toml` and nine directories
  with static inputs or conflicting programs, each read twice.  `SubtasksClosed` compares the loops
  with a transitive closure; `OwnedOnce` says that each testcase has one owner; `ConstraintsHold`
  reads the lines the way the documentation describes them, by looking backwards from a testcase, where
  the code carries a state forward; `GenGenFaithful` reads the generated `gen/GEN` back, unless `gen/cases.gen` has something that
  its grammar does not;
  `ReadAgainSame` and `OnlyGeneratedTouched` are about the directory.
  `SubtasksClosed` leaves out an include of `"*"` in a `gen.toml`, for which code and documentation
  differ.

Bounds: three subtasks (a dependency through another, a cycle), four testcases, two reads: the
second one sees everything the first generated, and a third would see the same.


## find-bad-case

`FindBadCase.tla` models `tools/find_bad_case`: the main thread prepares a batch of random testcases (whose
ids go on from batch to batch), evaluates it and starts again; a thread per batch forwards the
messages of the evaluation to one UI thread, which outlives the batches, looks for a bad score
and stops everything; ctrl-c sets a flag and then stops the evaluation.  `last_batch`,
`should_stop` and what was found are shared under a lock; the sender to the current executor is there
only while a batch is evaluated.  The executor is abstract: testcases go through their steps and
it ends when all did, or after a Stop.  It first takes the DAG and its files (`"uploading"`, until
`UploadEnds`); a Stop that overtakes `Evaluate` or comes in the middle of an upload makes its client manager panic, as in `ClientSession`
(`"lost"`, then `"panicked"` for the thread).  With `Local` the main thread joins the executor and gets the error.

* `find_bad_case` (`MCFindBadCase.cfg`): two batches of two testcases on every kind of task.
  `ReportedIsBad`, `FoundUnlessLate` and, under weak fairness of the threads, `SearchEnds`.
  Two batches are what the UI needs to be late, two testcases what it needs to confuse one with
  another or to find two at once.

`FindBadCaseProofs.tla` proves `ReportedIsBad` and `FoundUnlessLate` for every number and size of the
batches.  The UI thread may be several batches late, so the invariant orders the messages: in the channel to the UI those
about bad testcases of the last batch come after those of older batches (`OldFirst`), which is why a testcase of the last batch that was found
is not forgotten for an older one; a bad testcase of the last batch is found or its message is on its way
(`NotLost`); and what the tool remembers is bad and of the last batch, or its input is written already (`Remembered`).
That ids are not used twice is arithmetic on `BatchSize` (`TestcasesDiffer`).



## Disagreements

Where the code does not do what a comment, a message or the documentation says, or where it
goes wrong, as met while modelling.  The properties of the runs are stated for what is left, and say
what they leave out.

### Server

| what | where | how to see it |
|---|---|---|
| A client whose last group is completed from the cache while the message of another client is handled is never told that its evaluation is over. | `scheduler.rs:776` | `EvaluationCompletes` and `FairSpec` with the constants of `MCSchedulerTwo.cfg`, `MayDie = {}` and `MayExit = FALSE` |
| The job of a dead worker goes back to the queue, but a free worker gets it only when the next message arrives. | `scheduler.rs:438` | `MayDie = {w1}` in `MCSchedulerOne.cfg`: `EvaluationCompletes` |
| If a worker dies while its outputs are collected, or while an input is sent, the scheduler is not told and the job is never done. | `worker_manager.rs:200` | `WorkerDies` in `WorkerProtocol` while the thread is receiving |
| `get` may return a handle to a file that was flushed meanwhile. | `task-maker-store/src/lib.rs:309` | `StoredHandleKeepsFile` for the handles of `get` |
| The answer to a status poll can arrive between two pieces of a file; the client panics. | `executor.rs:417`, `proto.rs:158` | `RecvPiece` in `ClientSession` |
| The end of an evaluation is announced again when a provided file arrives after it. The second `Done`, with no files, resets the counter of the client, which leaves without the files it is waiting for; the client manager, which is sending them, panics and the scheduler keeps the client's data. | `scheduler.rs:353`, `client.rs:202` | drop `dones = 1` from `AllDelivered`, `dones > 1` from `ManagerLost` |
| A client that loses the connection returns `Ok` although files are missing; a client manager that was receiving or sending a file panics and the scheduler is not told. | `client.rs:204`, `executor.rs:221` | drop `~lost` from `AllDelivered`, `lost` from `ManagerLost` |
| A ctrl-c before `Evaluate`, or while a file is being uploaded, makes the client manager panic; neither the client nor the scheduler is told. | `executor.rs:364`, `context.rs:241` | drop `ManagerLost` from `SessionEnds` |
| A callback that fails makes the client return with the ctrl-c sender still there: a local executor waits for ever. | `client.rs:128`, `context.rs:299` | add `"failed"` to `TearDown` |
| After a `Stop` the scheduler forgets the client, so the callbacks of what was not over are never called; `proto.rs:64` says that they are called as usual. | `scheduler.rs:447` | drop `~stopped` from `AllDelivered` in `MCSession.cfg`'s run |
| A flush removes the most recently used file first: the entries are ordered by access time and `BinaryHeap` is a max-heap. | `index.rs:157` | `Popped` in `FileStore` |
| The cache returns a stored failure where a run would succeed, if the margin of the query is smaller and its limit larger; entries with incomparable `extra_readable_dirs`, or that differ in `mount_proc` or `permissive`, count as compatible. A success with limits on both the user and the system time is returned for the same limit on one of them alone, with which the sandbox stops the program earlier, since it adds the two. | `entry.rs:202`, `:227`, `execution_unit/sandbox.rs:360` | drop one conjunct of `Comparable` in `Cache`: `HitIsRight` |
| `check_dag` reports a cycle for groups that wait for a missing file. | `check_dag.rs:26` | `RejectUnreached` in `DagCheck` |
| "Kill still-running solutions if this was a failure, or if the controller exited": the end of the controller's output is read before its exit is known, so the solutions are not killed. | `controller.rs:679`, `:687` | in `Controller`, `ReadEnd`, `Terminate` and `KillRest` before `RunEnd(0)` |
| If the controller ends while `START_SOLUTION` is being answered, the manager returns `Ok` and the server never gets the `WorkerDone` of the job. | `controller.rs:666`, `proto.rs:102` | drop `"gone"` from `JobEnds` |
| A line of the controller that is not UTF-8, or a sandbox that cannot be made, panics the manager, with the same effect. | `controller.rs:608`, `:625` | the same |
| The keeper panics if it cannot start a process; the senders of the results stay alive, so the threads wait for ever. | `controller.rs:150-201`, `:343` | drop `keeper = "failed"` from `JobEnds` |
| The manager waits for ever for a sandbox that fails before its process is there. | `controller.rs:574`, `:655` | drop `NeverCame` from `JobEnds` |
| `KillJob` or `Exit` can come between the pieces of an input of a worker. | `worker_manager.rs:123` | the two writers of the channel in `WorkerProtocol` |
| `kill` gives up after a second without a PID: a group without a wall time limit then waits for ever for a process whose partner is dead. | `sandbox.rs:208` | drop `GivenUp` from `Blocked` in `SandboxGroup` |
| A solution of a communication task that gets its FIFOs as arguments and exits with 0 before it opens them is a success, so nobody is killed, and a partner without a wall time limit waits for it for ever. | `worker/mod.rs:534`, `ioi/dag/task_type/communication.rs:122`, `:154` | drop `Deserted` from `Blocked` |
| If the base directory of the store cannot be found after a file was flushed, the flush returns early and the entries of the index that were in its heap are gone. | `index.rs:175` | not modelled |
| A SIGTERM that arrives before the sandbox process handles it makes the result of a victim an internal error; `box_pid` is never reset, so that a late kill may reach another process with the same PID. | `sandbox.rs:224` | `Terminated`, `ManagerKill` in `SandboxGroup` |

### Formats

| what | where |
|---|---|
| The parser of `gen.toml` overwrites the author's `task.yaml` without looking for the cookie, and writes that "Removing or changing the line above will prevent task-maker from touching this file again." | `italian_toml/mod.rs:105` |
| `clean` deletes outputs that were written by hand if the input is static too: the pattern looks only at the path of the input ("Clean the task folder removing the files that can be generated automatically.", `:426`). | `ioi/mod.rs:446` |
| `include = ["*"]` includes the groups and subtasks that come later too; `docs/ioi-task-format.typ:206` says "all previously defined groups and subtasks". | `gen_toml.rs:447` |
| A group that exists only because a testcase names it panics when a subtask includes it. | `gen_toml.rs:462` |
| A testcase in two included groups is listed twice among the testcases of the subtask, so the sum aggregator counts it twice. | `gen_toml.rs:456` |
| Subtask names are normalised but the names in `#STDEP` are not; those of `gen/cases.gen` are not checked at all. | `gen_gen.rs`, `cases_gen.rs:520` |
| The generated `gen/GEN` may hold a score with decimals (`:SUBTASK 10.5`) or a `#COPY` path with spaces, which its grammar cannot read (`GEN.pest:12`, `:14`), and has no `#STDEP`. | `cases_gen.rs:242`, `:246` |
| Files in `input/` that the author wrote and no testcase uses, or that have the number of a testcase with another input, are overwritten by an evaluation and removed by `clean`. | `ioi/dag/input_generator.rs:95`, `ioi/mod.rs:428` |
| `clean` compares the `copy` paths of a `gen.toml`, relative to the task, with absolute paths, so that a copied file of `input/` is removed. | `gen_toml.rs:350`, `ioi/mod.rs:448` |
| The compiled `check/manager` and `check/controller` are written and never removed by `clean`; the compiled checker is. | `italian_yaml/mod.rs:929`, `:968`, `ioi/mod.rs:476` |
| A task without outputs gets an empty `output/output<n>.txt` for each testcase. | `ioi/dag/output_generator.rs:43`, `:119` |
| `gen/GEN` and `task.yaml` are written before the parser may still fail. | `italian_yaml/mod.rs`, `cases_gen.rs:222` |

### Evaluation and tools

| what | where |
|---|---|
| The status of a testcase depends on the order of the messages: `Skipped` is lost when another step of the testcase ends or starts later. | `ioi/ui_state.rs:496`, `terry/ui_state.rs` |
| "prioritize _solution_ failures" does not hold for communication tasks, whose last result is the manager's, and `:640` takes the first one for it. | `ioi/ui_state.rs:556` |
| A custom checker that crashes leaves its testcase in `Checking` and the solution without a score. | `ioi/dag/checker.rs`, `ioi/mod.rs:606` |
| `wall-time-limit-exceeded` is written by add-solution-checks but not read: the pattern lacks it. | `solution.rs:299` |
| The exported maximum is too small for the sum aggregator and for the points of an interactive controller, for a checker that prints more than 1, and by the tolerance of `from_score`. | `export_solution_checks.rs` |
| add-solution-checks writes checks for the samples, which a sanity check then warns about. | `add_solution_checks.rs`, `ioi/sanity_checks/sol.rs` |
| The outcome of a Terry checker is taken even if the checker failed. | `terry/dag/mod.rs` |
| In find-bad-case the UI may be a batch behind: a bad testcase is then lost, or replaced by nothing; one that could not be generated makes the UI panic with the lock held. | `find_bad_case/state.rs:229` |
| A Stop between setting the sender and `Evaluate`, or while the files are uploaded, makes the client manager panic: find-bad-case then hangs, or fails when it joins the local executor. | `find_bad_case/mod.rs:175`, `:199`, `executor.rs:395` |
| find-bad-case expects two groups per testcase and a "checking" group, which only batch tasks have. | `find_bad_case/dag.rs` |


## Proved and checked

Proved with TLAPS, for every value of the constants that satisfies the named assumptions:

| module | what |
|---|---|
| `SchedulerProofs` | `GroupLifecycle`, `WorkerJobsConsistent`, `InputsAvailable`, `NoLostWakeup`, `Reports`, and the refinement of `DagEvaluation` |
| `WorkerProtocolProofs` | `ViewIsRight`, which `Scheduler` takes for granted |
| `DagCheckProofs` | `AcceptsOnlyDags`, which `SchedulerProofs` assumes, and `RefusesOnlyOthers` |
| `SandboxGroupProofs` | `BoxInUse`, `SomebodyBlamed` |
| `ControllerProofs` | `KeeperInSync`, `VerdictComplete` |
| `StorageProofs` | `StoredHandleKeepsFile` and `TotalIsSum` of the file store, `HitIsRight` and `NoNeedlessRun` of the cache |
| `TaskEvaluationProofs` | `ScoreIsRight`, `VerdictMatchesScore`, `FailureShown`, `OnlyValidInputs` |
| `FindBadCaseProofs` | `ReportedIsBad`, `FoundUnlessLate` |

The sections above give the inductive invariants; each was checked by TLC on the instance of its
run before it was proved.  Checked by TLC only, on the instances of the cfg files:

* liveness (`EvaluationCompletes`, `SessionEnds`, `TearDown`, `JobsAnswered`, `ShutDown`, `JobEnds`,
  `GroupEnds`, `SearchEnds`): fairness and `ENABLED` are out of the prover's reach;
* `WrittenChecksHold` and `ExportBoundsScore` of `TaskEvaluation`, and the invariants of `TaskParsing`: the checks
  written in a source file and the parsers are recursive functions over the lines of a file, which
  would be an induction over data;
* `AllDelivered`: the order of the messages on four channels, two of them with two writers, would need an
  invariant of the size of the module;
* `OnlyGeneratedTouched`: an action property of the parsers, whose steps are recursive functions.

Each property has a mutant in `PROJECT.json`: a definition of the model changed the way a
plausible bug would change the code, for which TLC finds the property violated.

## Plan

Done: the scheduler and its proofs, the client session, the worker protocol, the sandboxes of a
group, the controller, the DAG check, the file store and the cache with their proofs, the
evaluation of IOI and Terry tasks, the solution checks, the task formats and find-bad-case.

The worker protocol, the controller, the sandboxes, the evaluation of a task and find-bad-case have proofs too.

Next: `eval_server` (a queue of evaluations
behind HTTP); the accept loop of the executor with several clients.

## Not modelled

* Rendering (`ui/print.rs`, `ui/curses.rs`, the `finish_ui`s), diagnostics, command line
  options: output without state.
* Command lines of compilers, names of files, TeX and Typst templates, booklets: data and text.
* Sanity checks other than the one of the solution checks: independent predicates on the task
  directory.
* `fuzz_checker` drives an external fuzzer; `eval_server`, `copy_competition_files` and the other
  tools are short programs around the library.
* The grammars (pest), YAML, TOML and bincode, the ductile channels and tabox are libraries; the models take what
  they return.
* The set-up of connections: the listener of a server receives the first message of a client
  before it accepts the next one, so one that says nothing holds up the others.
