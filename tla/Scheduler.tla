------------------------------ MODULE Scheduler ------------------------------
(***************************************************************************)
(* The scheduler of task-maker-exec (scheduler.rs): one thread that owns    *)
(* the DAGs of the connected clients, hands ready execution groups to the   *)
(* workers and completes from the cache whatever it can.                    *)
(*                                                                          *)
(* The thread reads one message at a time, and a handler is a tree of       *)
(* mutually recursive calls: exec_completed -> file_success ->              *)
(* schedule_cached -> exec_completed -> ...  The recursion is modelled by   *)
(* an explicit stack of pending calls.  A message is handled only when the  *)
(* stack is empty, which is exact: the handlers share no state with other   *)
(* threads.  A loop over a HashMap or a HashSet is a frame that holds the   *)
(* set still to visit, so every iteration order is explored.                *)
(*                                                                          *)
(* Execution groups and files have globally unique UUIDs, so the maps the   *)
(* code keeps per client are kept here as one map over all the groups or    *)
(* files; the part of client c is the restriction to Owner[g] = c.          *)
(***************************************************************************)
EXTENDS Naturals, Sequences, FiniteSets

CONSTANTS
    Client, Worker, Group, File, CacheKey, Tag,
    NoJob,            \* the None of ConnectedWorker::current_job
    NoTag,            \* the None of ExecutionGroup::tag
    Owner,            \* the client that sent a group
    FileOwner,        \* the client whose DAG names a file
    Provided,         \* the files the clients provide (dag.provided_files)
    Deps, Outs,       \* ExecutionGroup::dependencies() and outputs()
    WatchedGroups,    \* callbacks.executions of the clients
    WatchedFiles,     \* callbacks.files of the clients
    KeyOf,            \* the cache key of a group: two groups with the same
                      \* commands, limits and input contents share it
    NoCache,          \* the clients whose CacheMode is Nothing
    ExceptTags,       \* the tags of a client's CacheMode::Except, {} for Everything
    TagOf,            \* ExecutionGroup::tag
    DagPriority,      \* dag.config.priority of a client
    Priority,         \* ExecutionGroup::priority
    HighPriority,     \* HIGH_PRIORITY
    InitCaches,       \* what the cache loaded from disk may hold
    MayLeave,         \* the clients that may disconnect
    MayDie,           \* the workers that may disconnect
    MayExit           \* whether the executor may ask the scheduler to exit

Result == {"ok", "fail", "internal"}
Cached == {"none", "ok", "fail"}

(* What check_dag guarantees of a DAG the scheduler is given, and what the   *)
(* UUIDs guarantee across DAGs: a file has one producer, an input of a group *)
(* belongs to the same DAG and is provided or produced.                      *)
ASSUME DagAssumption ==
    /\ Owner \in [Group -> Client]
    /\ FileOwner \in [File -> Client]
    /\ Provided \subseteq File
    /\ Deps \in [Group -> SUBSET File]
    /\ Outs \in [Group -> SUBSET File]
    /\ \A g \in Group : \A f \in Deps[g] \cup Outs[g] : FileOwner[f] = Owner[g]
    /\ \A g \in Group : Outs[g] \cap Provided = {}
    /\ \A g, h \in Group : g # h => Outs[g] \cap Outs[h] = {}
    /\ \A g \in Group : \A f \in Deps[g] :
            f \in Provided \/ \E h \in Group : f \in Outs[h]

ASSUME ConfigAssumption ==
    /\ WatchedGroups \subseteq Group
    /\ WatchedFiles \subseteq File
    /\ KeyOf \in [Group -> CacheKey]
    /\ NoCache \subseteq Client
    /\ ExceptTags \in [Client -> SUBSET Tag]
    /\ TagOf \in [Group -> Tag \cup {NoTag}]
    /\ NoTag \notin Tag
    /\ NoJob \notin Group
    /\ HighPriority \in Nat
    /\ DagPriority \in [Client -> 0..HighPriority]
    /\ Priority \in [Group -> Nat]
    /\ InitCaches \subseteq [CacheKey -> Cached]
    /\ MayLeave \subseteq Client
    /\ MayDie \subseteq Worker
    /\ MayExit \in BOOLEAN

VARIABLES
    \* Scheduler and SchedulerClientData
    clients,            \* the keys of Scheduler::clients
    missing_deps,       \* files a group still waits for; an entry is removed as
                        \* soon as it is empty, so {} stands for no entry
    ready_groups,
    running_groups,
    file_handles,       \* files whose handle a live client's data holds
    ready_execs,        \* the BinaryHeap, as the number of copies of each entry
    connected_workers,  \* the keys of Scheduler::connected_workers
    current_job,        \* ConnectedWorker::current_job
    cache,              \* the result stored under each key
    stack,              \* pending calls of the handler that is running
    exited,             \* run has returned
    \* what surrounds the scheduler
    gone,               \* clients whose ClientDisconnected was handled
    pending_files,      \* provided files whose FileReady was not handled yet
    dead,               \* workers whose WorkerDisconnected was handled
    sent_job,           \* the WorkerJob last sent to a worker and not answered
    killed,             \* workers told to stop the job they are doing
    \* what the clients have been told
    verdict,            \* how a group ended
    notified,           \* ExecutionDone and ExecutionSkipped sent for a group
    sent_files,         \* FileReady messages sent for a file
    eval_done           \* EvaluationDone messages sent to a client

sched == <<clients, missing_deps, ready_groups, running_groups, file_handles,
           ready_execs, connected_workers, current_job>>
env   == <<gone, pending_files, dead, sent_job, killed>>
told  == <<verdict, notified, sent_files, eval_done>>
vars  == <<sched, cache, stack, exited, env, told>>

-----------------------------------------------------------------------------
(* Derived state *)

Verdict == Result \cup {"none", "skipped"}
DagPrio == {DagPriority[c] : c \in Client} \cup {HighPriority}
Entry   == Group \X DagPrio

GroupsOf(c) == {g \in Group : Owner[g] = c}
FilesOf(c)  == {f \in File : FileOwner[f] = c}
InputOf(f)  == {g \in Group : f \in Deps[g]}

Waiting == {g \in Group : missing_deps[g] # {}}

IsDoneIgnoringWaiting(c) == GroupsOf(c) \cap (ready_groups \cup running_groups) = {}
IsDoneIgnoringRunning(c) == GroupsOf(c) \cap (ready_groups \cup Waiting) = {}

IsDone(c) == GroupsOf(c) \cap (ready_groups \cup running_groups \cup Waiting) = {}

IsCacheable(g) == /\ Owner[g] \notin NoCache
                  /\ TagOf[g] \notin ExceptTags[Owner[g]]

CacheHit(g) == IsCacheable(g) /\ cache[KeyOf[g]] # "none"

Queued == {e \in Entry : ready_execs[e] > 0}

(* BinaryHeap::pop returns a maximum of (dag priority, priority, uuid,      *)
(* client); the UUIDs are random, so any entry maximal in the first two.    *)
Heavier(e, d) == \/ e[2] > d[2]
                 \/ e[2] = d[2] /\ Priority[e[1]] > Priority[d[1]]
MaxEntries == {e \in Queued : \A d \in Queued : ~Heavier(d, e)}

Push(S, p) == [e \in Entry |->
                  IF e[1] \in S /\ e[2] = p THEN ready_execs[e] + 1 ELSE ready_execs[e]]

(* Calls still to be made *)
Hit   == [group : Group, result : Result, outputs : SUBSET File]
Frame ==
    [op : {"schedule_cached", "assign_jobs"}]
    \cup [op : {"check_completion"}, client : Client]
    \cup [op : {"file_success", "file_failed"}, client : Client, files : SUBSET File]
    \cup [op : {"exec_completed"}, hits : SUBSET Hit, from : {"worker", "cache"}]

ScheduleCachedCall == [op |-> "schedule_cached"]
AssignJobsCall     == [op |-> "assign_jobs"]
CheckCompletionCall(c) == [op |-> "check_completion", client |-> c]
FilesCall(op, c, S) == [op |-> op, client |-> c, files |-> S]
CompletedCall(S, from) == [op |-> "exec_completed", hits |-> S, from |-> from]

Idle == stack = <<>> /\ ~exited
Calling(op) == stack # <<>> /\ Head(stack).op = op

Init ==
    /\ clients = {}
    /\ missing_deps = [g \in Group |-> {}]
    /\ ready_groups = {}
    /\ running_groups = {}
    /\ file_handles = {}
    /\ ready_execs = [e \in Entry |-> 0]
    /\ connected_workers = {}
    /\ current_job = [w \in Worker |-> NoJob]
    /\ cache \in InitCaches
    /\ stack = <<>>
    /\ exited = FALSE
    /\ gone = {}
    /\ pending_files = Provided
    /\ dead = {}
    /\ sent_job = [w \in Worker |-> NoJob]
    /\ killed = {}
    /\ verdict = [g \in Group |-> "none"]
    /\ notified = [g \in Group |-> 0]
    /\ sent_files = [f \in File |-> 0]
    /\ eval_done = [c \in Client |-> 0]

-----------------------------------------------------------------------------
(* Handlers of the incoming messages *)

(* A client sends one DAG, before any of its files and before it leaves. *)
HandleEvaluateDAG(c) ==
    LET free == {g \in GroupsOf(c) : Deps[g] = {}} IN
    /\ Idle
    /\ c \notin clients \cup gone
    /\ clients' = clients \cup {c}
    /\ missing_deps' = [g \in Group |-> IF Owner[g] = c THEN Deps[g] ELSE missing_deps[g]]
    /\ ready_groups' = ready_groups \cup free
    /\ ready_execs' = Push(free, DagPriority[c])
    /\ stack' = <<CheckCompletionCall(c), ScheduleCachedCall, AssignJobsCall>>
    /\ UNCHANGED <<running_groups, file_handles, connected_workers, current_job,
                   cache, exited, env, told>>

(* The client manager sends nothing after ClientDisconnected, so the branch  *)
(* of the code for a client that is gone is not reachable.                   *)
HandleFileReady(c, f) ==
    /\ Idle
    /\ c \in clients
    /\ f \in pending_files \cap FilesOf(c)
    /\ pending_files' = pending_files \ {f}
    /\ file_handles' = file_handles \cup {f}
    /\ stack' = <<FilesCall("file_success", c, {f}), CheckCompletionCall(c)>>
    /\ UNCHANGED <<clients, missing_deps, ready_groups, running_groups, ready_execs,
                   connected_workers, current_job, cache, exited,
                   gone, dead, sent_job, killed, told>>

(* A result names the worker and not the job: it is taken for the result of  *)
(* the worker's current_job.  The outputs of a job that was executed are     *)
(* all there, after an internal error some may be missing.                   *)
HandleWorkerResult(w, r) ==
    /\ Idle
    /\ w \notin dead
    /\ sent_job[w] # NoJob
    /\ sent_job' = [sent_job EXCEPT ![w] = NoJob]
    /\ killed' = killed \ {w}
    /\ connected_workers' = connected_workers \ {w}
    /\ current_job' = [current_job EXCEPT ![w] = NoJob]
    /\ LET g == current_job[w] IN
       IF w \notin connected_workers \/ g = NoJob
       THEN UNCHANGED <<running_groups, stack>>
       ELSE IF Owner[g] \notin clients
       THEN /\ stack' = <<AssignJobsCall, CheckCompletionCall(Owner[g])>>
            /\ UNCHANGED running_groups
       ELSE /\ running_groups' = running_groups \ {g}
            /\ \E outs \in (IF r = "internal" THEN SUBSET Outs[sent_job[w]]
                                             ELSE {Outs[sent_job[w]]}) :
                 stack' = <<CompletedCall({[group |-> g, result |-> r, outputs |-> outs]}, "worker"),
                            AssignJobsCall, CheckCompletionCall(Owner[g])>>
    /\ UNCHANGED <<clients, missing_deps, ready_groups, file_handles, ready_execs,
                   cache, exited, gone, pending_files, dead, told>>

(* Sent for each GetWork: when the worker starts and after each job. *)
HandleWorkerConnected(w) ==
    /\ Idle
    /\ w \notin dead \cup connected_workers
    /\ connected_workers' = connected_workers \cup {w}
    /\ current_job' = [current_job EXCEPT ![w] = NoJob]
    /\ stack' = <<AssignJobsCall>>
    /\ UNCHANGED <<clients, missing_deps, ready_groups, running_groups, file_handles,
                   ready_execs, cache, exited, env, told>>

(* The job of a worker that failed, to be scheduled again if its client is   *)
(* still there.                                                              *)
Rescheduled(w) == {g \in Group : /\ w \in connected_workers
                                 /\ current_job[w] = g
                                 /\ Owner[g] \in clients}

HandleWorkerDisconnected(w) ==
    /\ Idle
    /\ w \in MayDie \ dead
    /\ dead' = dead \cup {w}
    /\ sent_job' = [sent_job EXCEPT ![w] = NoJob]
    /\ killed' = killed \ {w}
    /\ connected_workers' = connected_workers \ {w}
    /\ current_job' = [current_job EXCEPT ![w] = NoJob]
    /\ ready_execs' = Push(Rescheduled(w), HighPriority)
    /\ ready_groups' = ready_groups \cup Rescheduled(w)
    /\ running_groups' = running_groups \ Rescheduled(w)
    /\ UNCHANGED <<clients, missing_deps, file_handles, cache, stack, exited,
                   gone, pending_files, told>>

(* The heap without the entries of the clients that are not in live *)
EntriesOf(live) == [e \in Entry |-> IF Owner[e[1]] \in live THEN ready_execs[e] ELSE 0]

(* The workers doing a job of client c *)
NoWorkers(c) == {}
WorkersFor(c) == {w \in connected_workers : current_job[w] \in GroupsOf(c)}

HandleClientDisconnected(c) ==
    /\ Idle
    /\ c \in MayLeave \ gone
    /\ gone' = gone \cup {c}
    /\ eval_done' = [eval_done EXCEPT ![c] =
                        IF c \in clients /\ ~IsDone(c) THEN @ + 1 ELSE @]
    /\ clients' = clients \ {c}
    /\ missing_deps' = [g \in Group |-> IF Owner[g] = c THEN {} ELSE missing_deps[g]]
    /\ ready_groups' = ready_groups \ GroupsOf(c)
    /\ running_groups' = running_groups \ GroupsOf(c)
    /\ file_handles' = file_handles \ FilesOf(c)
    /\ ready_execs' = EntriesOf(clients \ {c})
    /\ killed' = killed \cup WorkersFor(c)
    /\ UNCHANGED <<connected_workers, current_job, cache, stack, exited,
                   pending_files, dead, sent_job, verdict, notified, sent_files>>

Exit ==
    /\ Idle
    /\ MayExit
    /\ exited' = TRUE
    /\ UNCHANGED <<sched, cache, stack, env, told>>

-----------------------------------------------------------------------------
(* The calls a handler makes *)

(* Only the client of the message is looked at. *)
CheckCompletion ==
    /\ Calling("check_completion")
    /\ LET c == Head(stack).client IN
       eval_done' = [eval_done EXCEPT ![c] =
                        IF c \in clients /\ IsDone(c) THEN @ + 1 ELSE @]
    /\ stack' = Tail(stack)
    /\ UNCHANGED <<sched, cache, exited, env, verdict, notified, sent_files>>

(* send_file: to the client, if it asked for the file and the file exists. *)
SendFile(f) ==
    sent_files' = [sent_files EXCEPT ![f] =
                      IF FileOwner[f] \in clients /\ f \in WatchedFiles \cap file_handles
                      THEN @ + 1 ELSE @]

(* The groups f was the last missing file of *)
WokenWithoutEntry(f) == {g \in InputOf(f) : missing_deps[g] \subseteq {f}}
Woken(f) == {g \in InputOf(f) : missing_deps[g] = {f}}

(* The calls at the end of file_success, not made for a file nobody reads *)
WakeWithoutAssign(f) == IF FileOwner[f] \in clients /\ InputOf(f) # {}
                        THEN <<ScheduleCachedCall>> ELSE <<>>
WakeCalls(f) == IF FileOwner[f] \in clients /\ InputOf(f) # {}
                THEN <<ScheduleCachedCall, AssignJobsCall>> ELSE <<>>

(* file_success for one of the files of the loop. *)
FileSuccess(f) ==
    LET top   == Head(stack)
        rest  == <<FilesCall("file_success", top.client, top.files \ {f})>> \o Tail(stack)
    IN
    /\ Calling("file_success") /\ f \in top.files
    /\ SendFile(f)
    /\ missing_deps' = [g \in Group |-> missing_deps[g] \ {f}]
    /\ ready_groups' = ready_groups \cup Woken(f)
    /\ ready_execs' = Push(Woken(f), HighPriority)
    /\ stack' = WakeCalls(f) \o rest
    /\ UNCHANGED <<clients, running_groups, file_handles, connected_workers, current_job,
                   cache, exited, env, verdict, notified, eval_done>>

(* The groups that cannot be executed without f: "do not skip the same        *)
(* execution twice".                                                         *)
SkippedIfReady(f) == InputOf(f) \cap ready_groups
Skipped(f) == InputOf(f) \cap Waiting

(* The files that fail with the groups in S *)
FailedFiles(S) == UNION {Outs[g] : g \in S}

(* file_failed for one of the files of the loop: the groups that wait for it *)
(* are skipped, and their outputs fail in turn.                              *)
FileFailed(f) ==
    LET top     == Head(stack)
        rest    == <<FilesCall("file_failed", top.client, top.files \ {f})>> \o Tail(stack)
        skipped == Skipped(f)
    IN
    /\ Calling("file_failed") /\ f \in top.files
    /\ SendFile(f)
    /\ missing_deps' = [g \in Group |-> IF g \in skipped THEN {} ELSE missing_deps[g]]
    /\ verdict' = [g \in Group |-> IF g \in skipped THEN "skipped" ELSE verdict[g]]
    /\ notified' = [g \in Group |-> IF g \in skipped \cap WatchedGroups
                                    THEN notified[g] + 1 ELSE notified[g]]
    /\ stack' = <<FilesCall("file_failed", top.client, FailedFiles(skipped))>> \o rest
    /\ UNCHANGED <<clients, ready_groups, running_groups, file_handles, ready_execs,
                   connected_workers, current_job, cache, exited, env, eval_done>>

(* What becomes of the outputs of a group that ended with result r *)
SuccessUnlessInternal(r) == IF r = "internal" THEN "file_failed" ELSE "file_success"
OutputsCall(r) == IF r = "ok" THEN "file_success" ELSE "file_failed"

PendingHits == IF Calling("exec_completed") THEN Head(stack).hits ELSE {}

(* exec_completed, with cache_execution, for one completed group. *)
ExecCompleted(h) ==
    LET top  == Head(stack)
        g    == h.group
        rest == <<CompletedCall(top.hits \ {h}, top.from)>> \o Tail(stack)
    IN
    /\ Calling("exec_completed") /\ h \in top.hits
    /\ IF Owner[g] \notin clients
       THEN /\ stack' = rest
            /\ UNCHANGED <<verdict, notified, file_handles, cache>>
       ELSE /\ verdict' = [verdict EXCEPT ![g] = h.result]
            /\ notified' = [notified EXCEPT ![g] = IF g \in WatchedGroups THEN @ + 1 ELSE @]
            /\ file_handles' = file_handles \cup h.outputs
            /\ cache' = IF top.from = "cache" \/ h.result = "internal" THEN cache
                        ELSE [cache EXCEPT ![KeyOf[g]] = h.result]
            /\ stack' = <<FilesCall(OutputsCall(h.result), Owner[g], Outs[g]),
                          ScheduleCachedCall>> \o rest
    /\ UNCHANGED <<clients, missing_deps, ready_groups, running_groups, ready_execs,
                   connected_workers, current_job, exited, env, sent_files, eval_done>>

(* The end of a loop over files or over cache hits. *)
EndLoop ==
    /\ \/ Calling("file_success") /\ Head(stack).files = {}
       \/ Calling("file_failed") /\ Head(stack).files = {}
       \/ Calling("exec_completed") /\ Head(stack).hits = {}
    /\ stack' = Tail(stack)
    /\ UNCHANGED <<sched, cache, exited, env, told>>

(* All the ready groups with a cached result, of whichever client, leave the *)
(* queue at once and are completed one after the other.                      *)
ScheduleCached ==
    LET hits == {g \in Group : /\ \E e \in Queued : e[1] = g
                               /\ Owner[g] \in clients
                               /\ CacheHit(g)}
    IN
    /\ Calling("schedule_cached")
    /\ ready_execs' = [e \in Entry |-> IF Owner[e[1]] \in clients /\ e[1] \notin hits
                                       THEN ready_execs[e] ELSE 0]
    /\ ready_groups' = ready_groups \ hits
    /\ stack' = <<CompletedCall({[group |-> g, result |-> cache[KeyOf[g]], outputs |-> Outs[g]] :
                                    g \in hits}, "cache")>> \o Tail(stack)
    /\ UNCHANGED <<clients, missing_deps, running_groups, file_handles, connected_workers,
                   current_job, cache, exited, env, told>>

FreeWorkers == {w \in connected_workers : current_job[w] = NoJob}

(* One turn of the loop of assign_jobs: worker w gets the heaviest entry.    *)
(* A job is marked as the worker's even if its client is gone, and then no   *)
(* message is sent.                                                          *)
AssignJob(w, e) ==
    LET g == e[1] IN
    /\ Calling("assign_jobs")
    /\ w \in FreeWorkers
    /\ e \in MaxEntries
    /\ ready_execs' = [ready_execs EXCEPT ![e] = @ - 1]
    /\ current_job' = [current_job EXCEPT ![w] = g]
    /\ IF Owner[g] \in clients
       THEN /\ ready_groups' = ready_groups \ {g}
            /\ running_groups' = running_groups \cup {g}
            /\ sent_job' = [sent_job EXCEPT ![w] = g]
       ELSE UNCHANGED <<ready_groups, running_groups, sent_job>>
    /\ UNCHANGED <<clients, missing_deps, file_handles, connected_workers, cache, stack,
                   exited, gone, pending_files, dead, killed, told>>

EndAssignJobs ==
    /\ Calling("assign_jobs")
    /\ FreeWorkers = {} \/ Queued = {}
    /\ stack' = Tail(stack)
    /\ UNCHANGED <<sched, cache, exited, env, told>>

-----------------------------------------------------------------------------
(* The groups exec_completed is still to be called for *)
Calls(s) == {s[i] : i \in DOMAIN s}
HitGroups(t) == IF t.op = "exec_completed" THEN {h.group : h \in t.hits} ELSE {}
CompletingIn(s) == UNION {HitGroups(t) : t \in Calls(s)}
Completing == CompletingIn(stack)

(* The files file_success or file_failed is still to be called for *)
FrameFiles(t) == IF t.op \in {"file_success", "file_failed"} THEN t.files ELSE {}
FilesIn(s) == UNION {FrameFiles(t) : t \in Calls(s)}

(* Another thread makes the file store drop the outputs of a cached          *)
(* execution, so that Cache::get misses.  A file is not dropped while a       *)
(* handle to it is alive.                                                     *)
FlushOutputs(k) ==
    /\ ~exited
    /\ cache[k] # "none"
    /\ \E g \in Group : KeyOf[g] = k /\ Outs[g] # {}
    /\ \A g \in Group : KeyOf[g] = k => Outs[g] \cap file_handles = {} /\ g \notin Completing
    /\ cache' = [cache EXCEPT ![k] = "none"]
    /\ UNCHANGED <<sched, stack, exited, env, told>>

(* The scheduler handles a message that is in its channel. *)
Receive ==
    \/ \E c \in Client : HandleEvaluateDAG(c)
    \/ \E c \in Client, f \in File : HandleFileReady(c, f)
    \/ \E w \in Worker, r \in Result : HandleWorkerResult(w, r)
    \/ \E w \in Worker : HandleWorkerConnected(w)
    \/ \E w \in Worker : HandleWorkerDisconnected(w)
    \/ \E c \in Client : HandleClientDisconnected(c)
    \/ Exit

(* The scheduler makes the next pending call. *)
Call ==
    \/ CheckCompletion
    \/ \E f \in File : FileSuccess(f)
    \/ \E f \in File : FileFailed(f)
    \/ \E h \in PendingHits : ExecCompleted(h)
    \/ EndLoop
    \/ ScheduleCached
    \/ \E w \in Worker, e \in Entry : AssignJob(w, e)
    \/ EndAssignJobs

Next == Receive \/ Call \/ \E k \in CacheKey : FlushOutputs(k)

Spec == Init /\ [][Next]_vars

(* The scheduler thread makes its calls and reads its channel, clients upload *)
(* the files they are asked for, workers ask for work and return results.     *)
FairSpec ==
    /\ Spec
    /\ WF_vars(Call)
    /\ \A c \in Client, f \in File : WF_vars(HandleFileReady(c, f))
    /\ \A w \in Worker : /\ WF_vars(HandleWorkerConnected(w))
                         /\ WF_vars(\E r \in Result : HandleWorkerResult(w, r))

-----------------------------------------------------------------------------
(* Properties *)

TypeOK ==
    /\ clients \subseteq Client
    /\ missing_deps \in [Group -> SUBSET File]
    /\ ready_groups \subseteq Group
    /\ running_groups \subseteq Group
    /\ file_handles \subseteq File
    /\ ready_execs \in [Entry -> Nat]
    /\ connected_workers \subseteq Worker
    /\ current_job \in [Worker -> Group \cup {NoJob}]
    /\ cache \in [CacheKey -> Cached]
    /\ stack \in Seq(Frame)
    /\ exited \in BOOLEAN
    /\ gone \subseteq Client
    /\ pending_files \subseteq File
    /\ dead \subseteq Worker
    /\ sent_job \in [Worker -> Group \cup {NoJob}]
    /\ killed \subseteq Worker
    /\ verdict \in [Group -> Verdict]
    /\ notified \in [Group -> Nat]
    /\ sent_files \in [File -> Nat]
    /\ eval_done \in [Client -> Nat]

Ended == {g \in Group : verdict[g] # "none"}

(* A group of a live client is in exactly one place: waiting for files,      *)
(* ready, running, being completed, or ended.  None is lost by a handler,    *)
(* by a cache hit or by the death of a worker, and none is in two places.    *)
GroupLifecycle ==
    /\ \A g \in Group : Owner[g] \in clients =>
            g \in Waiting \cup ready_groups \cup running_groups \cup Completing \cup Ended
    /\ \A g \in Group : Owner[g] \notin clients =>
            g \notin Waiting \cup ready_groups \cup running_groups \cup Completing
    /\ Waiting \cap (ready_groups \cup running_groups \cup Completing \cup Ended) = {}
    /\ ready_groups \cap (running_groups \cup Completing \cup Ended) = {}
    /\ running_groups \cap (Completing \cup Ended) = {}
    /\ Completing \cap Ended = {}

(* The heap shared by all the clients and the ready_groups each client keeps *)
(* as "a fast lookup" agree: one entry for each ready group, none for a      *)
(* client that is gone.                                                      *)
ReadyQueueConsistent ==
    /\ \A e \in Queued : ready_execs[e] = 1 /\ e[1] \in ready_groups
    /\ \A g \in ready_groups : \E e \in Queued : e[1] = g
    /\ \A d, e \in Queued : d[1] = e[1] => d = e

(* The job a worker is doing is the one the scheduler thinks it is doing     *)
(* (results do not name their job), no job is done by two workers, running   *)
(* is the same as held by a worker, and a worker that does the job of a      *)
(* client that is gone has been told to stop it.                             *)
WorkerJobsConsistent ==
    /\ \A w \in Worker : current_job[w] = sent_job[w]
    /\ \A w \in Worker : sent_job[w] # NoJob => w \in connected_workers
    /\ \A g \in running_groups : \E w \in Worker : current_job[w] = g
    /\ \A w \in Worker : current_job[w] # NoJob =>
            IF Owner[current_job[w]] \in clients
            THEN current_job[w] \in running_groups ELSE w \in killed
    /\ \A v, w \in Worker : current_job[v] = current_job[w] => v = w \/ current_job[w] = NoJob

Produced(f, vs) == \E h \in Group : f \in Outs[h] /\ verdict[h] \in vs

(* The scheduler has the file, and it is a good one: provided by the client  *)
(* or the output of a group that succeeded.                                  *)
Good(f) == f \in file_handles /\ (f \in Provided \/ Produced(f, {"ok"}))

(* A group is ready, runs or is completed only when all of its inputs are    *)
(* good: a missing one would be a panic ("Unknown file key").  A waiting     *)
(* group waits exactly for those of its inputs that it cannot use yet.       *)
InputsAvailable ==
    /\ \A g \in ready_groups \cup running_groups \cup Completing : \A f \in Deps[g] : Good(f)
    /\ \A g \in Waiting : \A f \in Deps[g] \ missing_deps[g] : Good(f)
    /\ \A g \in Group : missing_deps[g] \subseteq Deps[g]

(* The pending calls never contradict each other: a group is completed by    *)
(* one of them only, success is announced for good files, failure for the    *)
(* outputs of groups that failed or were skipped, and completion is checked  *)
(* when nothing is left to complete.                                         *)
FrameConsistent(t) ==
    /\ t.op = "file_success" => \A f \in t.files : Good(f)
    /\ t.op = "file_failed" => \A f \in t.files : Produced(f, {"fail", "internal", "skipped"})
    /\ t.op = "exec_completed" =>
            \A h \in t.hits : /\ \A k \in t.hits : h.group = k.group => h = k
                              /\ h.result = "ok" => h.outputs = Outs[h.group]
HitsDistinct(s) == \A i, j \in DOMAIN s : i # j => HitGroups(s[i]) \cap HitGroups(s[j]) = {}
ChecksLast(s) == \A i, j \in DOMAIN s : i < j /\ s[i].op = "check_completion" =>
                                           s[j].op \in {"schedule_cached", "assign_jobs"}
CallsConsistent ==
    /\ \A t \in Calls(stack) : FrameConsistent(t)
    /\ HitsDistinct(stack)
    /\ ChecksLast(stack)

(* Nothing happened yet for a client that has not sent its DAG. *)
NothingBeforeDag ==
    /\ clients \cap gone = {}
    /\ pending_files \subseteq Provided
    /\ \A g \in Ended : Owner[g] \in clients \cup gone
    /\ \A w \in Worker : current_job[w] # NoJob => Owner[current_job[w]] \in clients \cup gone
    /\ \A f \in Provided \ pending_files : FileOwner[f] \in clients \cup gone

(* No lost wake-up: each file a group waits for is still going to be         *)
(* announced, by the client, by a call that is pending or by the group that  *)
(* produces it.                                                              *)
NoLostWakeup ==
    \A g \in Waiting : \A f \in missing_deps[g] :
        \/ f \in pending_files
        \/ f \in FilesIn(stack)
        \/ \E h \in Waiting \cup ready_groups \cup running_groups \cup Completing : f \in Outs[h]

(* Nothing is reported twice: a watched group is either done or skipped, and *)
(* once; a watched file is sent once.                                        *)
ReportedOnce ==
    /\ \A g \in Group : notified[g] = IF g \in WatchedGroups \cap Ended THEN 1 ELSE 0
    /\ \A f \in File : sent_files[f] \leq 1

(* When a client is told that the evaluation is done everything it asked for *)
(* has been reported: each group, and each file that was produced.           *)
ReportComplete ==
    \A c \in clients : eval_done[c] > 0 =>
        /\ \A g \in GroupsOf(c) \cap WatchedGroups : notified[g] = 1
        /\ \A f \in FilesOf(c) \cap WatchedFiles :
                Produced(f, {"ok", "fail"}) => sent_files[f] = 1

(* What the client hears of its evaluation: once, and all of it by the end. *)
Reports == ReportedOnce /\ ReportComplete

(* The evaluation of a client that stays is eventually announced as done. *)
EvaluationCompletes ==
    \A c \in Client : c \in clients ~> eval_done[c] > 0 \/ c \in gone

(* The scheduler implements what it promises to the clients. *)
Dag == INSTANCE DagEvaluation WITH live <- clients,
                                   announced <- {c \in Client : eval_done[c] > 0}
ImplementsDagEvaluation == Dag!DagSpec

=============================================================================
