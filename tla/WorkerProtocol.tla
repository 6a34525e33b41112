--------------------------- MODULE WorkerProtocol ---------------------------
(***************************************************************************)
(* One worker and the server's side of its connection: the worker manager and *)
(* the thread it starts for the worker (worker_manager.rs), the worker and the *)
(* thread of its sandboxes (worker/mod.rs), and what the scheduler does with   *)
(* one worker.                                                                 *)
(*                                                                             *)
(* The channel to the worker has two writers, the worker manager (jobs, kills, *)
(* exit) and the worker's thread (files).  The channel from the worker has two *)
(* as well, the worker (requests of inputs) and the sandbox thread (results).  *)
(* A file is sent as a ProvideFile, raw pieces and an empty piece.             *)
(***************************************************************************)
EXTENDS Naturals, Sequences, FiniteSets

CONSTANTS
    Job, File, Key,
    Deps, Outs,       \* the inputs and the outputs of a job
    KeyOf,            \* the content of a file: two files may have the same
    WorkerHas,        \* what is in the worker's store at the start
    ServerHas,        \* what is in the server's store at the start
    Pieces,           \* non-empty raw pieces of each file
    MayDie,           \* the worker's process may die
    MayStop,          \* the clients may leave
    MayExit,          \* the scheduler may exit
    NoJob, NoKey

ASSUME WorkerAssumption ==
    /\ Deps \in [Job -> SUBSET File] /\ Outs \in [Job -> SUBSET File]
    /\ \A j \in Job : IsFiniteSet(Deps[j])
    /\ KeyOf \in [File -> Key]
    /\ WorkerHas \subseteq Key
    /\ {KeyOf[f] : f \in UNION {Deps[j] : j \in Job}} \subseteq ServerHas /\ ServerHas \subseteq Key
    /\ Pieces \in Nat
    /\ {MayDie, MayStop, MayExit} \subseteq BOOLEAN
    /\ NoJob \notin Job /\ NoKey \notin Key

VARIABLES
    \* the scheduler
    view,           \* what the scheduler knows of the worker: absent, free, busy
    view_job,       \* and the job it gave it
    todo,           \* jobs to be done
    answered,       \* results received for a job
    stopped,        \* jobs whose client left
    sched_up,       \* the scheduler is running
    sched_in,
    \* the worker manager
    wm,             \* running, failed, exited
    known,          \* the worker is in connected_workers
    wm_in,
    \* the thread of the worker in the worker manager
    wt,             \* receiving, sending, collecting, storing, ended, failed
    wt_job,         \* the job whose outputs are being collected
    wt_left,        \* files to collect, or pieces to send
    server_files,
    \* the connection
    to_worker, from_worker,
    \* the worker
    worker,         \* start, receiving, storing, leaving, over, failed, dead
    job,            \* WorkerCurrentJob::current_job
    missing_deps,   \* its missing inputs, by content
    w_file,         \* the file being stored
    w_files,        \* the worker's store
    asked,          \* WorkerCurrentJob::server_asked_files: none, open, filled, dropped
    sandbox,        \* the sandbox thread: idle, running, waiting, sending, ended
    killed,         \* the sandboxes were killed
    to_send,        \* the outputs the server asked for, still to be sent
    sb_left         \* pieces of the current one still to send

schedVars  == <<view, view_job, todo, answered, stopped, sched_up>>
wmVars     == <<wm, known>>
wtVars     == <<wt, wt_job, wt_left, server_files>>
workerVars == <<worker, job, missing_deps, w_file, w_files, asked>>
sandVars   == <<sandbox, killed, to_send, sb_left>>
vars == <<schedVars, sched_in, wmVars, wm_in, wtVars, to_worker, from_worker, workerVars, sandVars>>

Msg(t)       == [type |-> t, job |-> NoJob, key |-> NoKey, files |-> {}]
JobMsg(t, j) == [Msg(t) EXCEPT !.job = j]
KeyMsg(t, k) == [Msg(t) EXCEPT !.key = k]
Piece(left)  == IF left = 1 THEN Msg("eof") ELSE Msg("data")
IsRaw(m)     == m.type \in {"data", "eof"}

Receives(chan, t) == chan # <<>> /\ Head(chan).type = t
Orders(S) == {s \in [1..Cardinality(S) -> S] : \A i, j \in DOMAIN s : s[i] = s[j] => i = j}

WorkerAlive == worker \notin {"over", "failed", "dead"}
ThreadOver  == wt \in {"ended", "failed"}

Init ==
    /\ view = "absent" /\ view_job = NoJob /\ todo = Job
    /\ answered = [j \in Job |-> 0] /\ stopped = {} /\ sched_up = TRUE /\ sched_in = <<>>
    /\ wm = "running" /\ known = TRUE /\ wm_in = <<>>
    /\ wt = "receiving" /\ wt_job = NoJob /\ wt_left = 0 /\ server_files = ServerHas
    /\ to_worker = <<>> /\ from_worker = <<>>
    /\ worker = "start" /\ job = NoJob /\ missing_deps = {} /\ w_file = NoKey
    /\ w_files = WorkerHas /\ asked = "none"
    /\ sandbox = "idle" /\ killed = FALSE /\ to_send = {} /\ sb_left = 0

-----------------------------------------------------------------------------
(* The scheduler, for one worker; see Scheduler.tla *)

(* A message to the worker manager; the scheduler ends if nobody receives it. *)
Tell(m) == IF wm = "failed" THEN sched_up' = FALSE /\ UNCHANGED wm_in
           ELSE wm_in' = Append(wm_in, m) /\ UNCHANGED sched_up

notScheduler == <<wmVars, wtVars, to_worker, from_worker, workerVars, sandVars>>

SchedConnected ==
    /\ sched_up /\ Receives(sched_in, "WorkerConnected")
    /\ sched_in' = Tail(sched_in)
    /\ view' = "free"
    /\ UNCHANGED <<view_job, todo, answered, stopped, sched_up, wm_in, notScheduler>>

SchedAssign(j) ==
    /\ sched_up /\ view = "free" /\ j \in todo
    /\ view' = "busy" /\ view_job' = j
    /\ todo' = todo \ {j}
    /\ Tell(JobMsg("WorkerJob", j))
    /\ UNCHANGED <<answered, stopped, sched_in, notScheduler>>

SchedResult ==
    /\ sched_up /\ Receives(sched_in, "WorkerResult")
    /\ sched_in' = Tail(sched_in)
    /\ view' = "absent" /\ view_job' = NoJob
    /\ answered' = [j \in Job |-> IF j = view_job THEN answered[j] + 1 ELSE answered[j]]
    /\ UNCHANGED <<todo, stopped, sched_up, wm_in, notScheduler>>

(* The job goes back to the queue, unless its client left. *)
SchedDisconnected ==
    /\ sched_up /\ Receives(sched_in, "WorkerDisconnected")
    /\ sched_in' = Tail(sched_in)
    /\ view' = "absent" /\ view_job' = NoJob
    /\ todo' = todo \cup ({view_job} \ (stopped \cup {NoJob}))
    /\ UNCHANGED <<answered, stopped, sched_up, wm_in, notScheduler>>

(* The client of job j leaves: a worker that is doing it is told to stop. *)
SchedStop(j) ==
    /\ MayStop /\ sched_up /\ j \notin stopped
    /\ stopped' = stopped \cup {j}
    /\ todo' = todo \ {j}
    /\ IF view_job = j THEN Tell(JobMsg("StopWorkerJob", j)) ELSE UNCHANGED <<sched_up, wm_in>>
    /\ UNCHANGED <<view, view_job, answered, sched_in, notScheduler>>

SchedExit ==
    /\ MayExit /\ sched_up
    /\ sched_up' = FALSE
    /\ wm_in' = Append(wm_in, Msg("Exit"))
    /\ UNCHANGED <<view, view_job, todo, answered, stopped, sched_in, notScheduler>>

-----------------------------------------------------------------------------
(* The worker manager *)

notManager == <<schedVars, sched_in, wtVars, from_worker, workerVars, sandVars>>

(* A job or a kill is forwarded to the worker if it is still known. *)
WmForward ==
    /\ wm = "running" /\ (Receives(wm_in, "WorkerJob") \/ Receives(wm_in, "StopWorkerJob"))
    /\ wm_in' = Tail(wm_in)
    /\ to_worker' = IF ~known THEN to_worker
                    ELSE Append(to_worker, JobMsg(IF Head(wm_in).type = "WorkerJob" THEN "Work"
                                                  ELSE "KillJob", Head(wm_in).job))
    /\ UNCHANGED <<wmVars, notManager>>

(* The connection of a worker that is gone is closed and the send may fail: the *)
(* error ends the worker manager.                                               *)
WmSendFails ==
    /\ wm = "running" /\ (Receives(wm_in, "WorkerJob") \/ Receives(wm_in, "StopWorkerJob"))
    /\ known /\ ~WorkerAlive
    /\ wm' = "failed"
    /\ UNCHANGED <<known, wm_in, to_worker, notManager>>

WmDisconnected ==
    /\ wm = "running" /\ Receives(wm_in, "WorkerDisconnected")
    /\ wm_in' = Tail(wm_in)
    /\ known' = FALSE
    /\ UNCHANGED <<wm, to_worker, notManager>>

WmExit ==
    /\ wm = "running" /\ Receives(wm_in, "Exit")
    /\ wm_in' = Tail(wm_in)
    /\ wm' = "exited"
    /\ to_worker' = IF known THEN Append(to_worker, Msg("Exit")) ELSE to_worker
    /\ UNCHANGED <<known, notManager>>

-----------------------------------------------------------------------------
(* The thread of the worker in the worker manager: worker_thread *)

notThread == <<schedVars, wmVars, workerVars, sandVars>>

(* The thread leaves its loop: the scheduler, if it is there, and the worker    *)
(* manager are told.                                                            *)
EndThread ==
    /\ wt' = "ended"
    /\ sched_in' = IF sched_up THEN Append(sched_in, Msg("WorkerDisconnected")) ELSE sched_in
    /\ wm_in' = Append(wm_in, Msg("WorkerDisconnected"))

WtGetWork ==
    /\ wt = "receiving" /\ Receives(from_worker, "GetWork")
    /\ from_worker' = Tail(from_worker)
    /\ IF sched_up
       THEN /\ sched_in' = Append(sched_in, Msg("WorkerConnected"))
            /\ UNCHANGED <<wt, wm_in>>
       ELSE EndThread
    /\ UNCHANGED <<wt_job, wt_left, server_files, to_worker, notThread>>

WtAskFile ==
    /\ wt = "receiving" /\ Receives(from_worker, "AskFile")
    /\ from_worker' = Tail(from_worker)
    /\ to_worker' = Append(to_worker, KeyMsg("ProvideFile", Head(from_worker).key))
    /\ wt' = "sending" /\ wt_left' = Pieces + 1
    /\ UNCHANGED <<wt_job, server_files, sched_in, wm_in, notThread>>

WtSendPiece ==
    /\ wt = "sending"
    /\ to_worker' = Append(to_worker, Piece(wt_left))
    /\ wt_left' = wt_left - 1
    /\ wt' = IF wt_left = 1 THEN "receiving" ELSE "sending"
    /\ UNCHANGED <<wt_job, server_files, sched_in, wm_in, from_worker, notThread>>

(* The scheduler is told the result once all the outputs are there. *)
ReportResult(j) ==
    IF sched_up
    THEN /\ sched_in' = Append(sched_in, JobMsg("WorkerResult", j))
         /\ wt' = "receiving"
         /\ UNCHANGED wm_in
    ELSE EndThread

(* The missing outputs are asked for. *)
AskOnlyMissing ==
    LET m == Head(from_worker)
        missing == {f \in m.files : KeyOf[f] \notin server_files}
    IN
    /\ wt = "receiving" /\ Receives(from_worker, "WorkerDone")
    /\ from_worker' = Tail(from_worker)
    /\ to_worker' = IF missing = {} THEN to_worker
                    ELSE Append(to_worker, [Msg("AskFiles") EXCEPT !.files = missing])
    /\ wt_job' = m.job /\ wt_left' = Cardinality(missing)
    /\ IF missing = {} THEN ReportResult(m.job)
       ELSE wt' = "collecting" /\ UNCHANGED <<sched_in, wm_in>>
    /\ UNCHANGED <<server_files, notThread>>
ReportBeforeFiles ==
    LET m == Head(from_worker)
        missing == {f \in m.files : KeyOf[f] \notin server_files}
    IN
    /\ wt = "receiving" /\ Receives(from_worker, "WorkerDone")
    /\ from_worker' = Tail(from_worker)
    /\ to_worker' = Append(to_worker, [Msg("AskFiles") EXCEPT !.files = missing])
    /\ wt_job' = m.job /\ wt_left' = Cardinality(missing)
    /\ IF missing = {} THEN ReportResult(m.job)
       ELSE /\ wt' = "collecting"
            /\ sched_in' = Append(sched_in, JobMsg("WorkerResult", m.job))
            /\ UNCHANGED wm_in
    /\ UNCHANGED <<server_files, notThread>>
WtWorkerDone ==
    LET m == Head(from_worker)
        missing == {f \in m.files : KeyOf[f] \notin server_files}
    IN
    /\ wt = "receiving" /\ Receives(from_worker, "WorkerDone")
    /\ from_worker' = Tail(from_worker)
    /\ to_worker' = Append(to_worker, [Msg("AskFiles") EXCEPT !.files = missing])
    /\ wt_job' = m.job /\ wt_left' = Cardinality(missing)
    /\ IF missing = {} THEN ReportResult(m.job)
       ELSE wt' = "collecting" /\ UNCHANGED <<sched_in, wm_in>>
    /\ UNCHANGED <<server_files, notThread>>

(* The store shows the file when it is complete; with one worker nobody looks     *)
(* before.                                                                        *)
WtProvideFile ==
    /\ wt = "collecting" /\ Receives(from_worker, "ProvideFile")
    /\ from_worker' = Tail(from_worker)
    /\ wt' = "storing"
    /\ server_files' = server_files \cup {Head(from_worker).key}
    /\ UNCHANGED <<wt_job, wt_left, to_worker, sched_in, wm_in, notThread>>

WtStorePiece ==
    /\ wt = "storing" /\ from_worker # <<>> /\ IsRaw(Head(from_worker))
    /\ from_worker' = Tail(from_worker)
    /\ IF Head(from_worker).type = "data"
       THEN UNCHANGED <<wt, wt_left, sched_in, wm_in>>
       ELSE /\ wt_left' = wt_left - 1
            /\ IF wt_left = 1 THEN ReportResult(wt_job)
               ELSE wt' = "collecting" /\ UNCHANGED <<sched_in, wm_in>>
    /\ UNCHANGED <<wt_job, server_files, to_worker, notThread>>

(* The errors that end the thread without telling anybody: a file that the      *)
(* store has dropped since its client left, a send to a worker that is gone, and *)
(* the end of the connection while the outputs are being collected.  For an      *)
(* unexpected message there is no action: the thread would be stuck, and ShutDown *)
(* and JobsAnswered would not hold.                                              *)
WtFails ==
    /\ \/ wt = "receiving" /\ Receives(from_worker, "AskFile") /\ view_job \in stopped
       \/ wt = "sending" /\ ~WorkerAlive
       \/ wt = "receiving" /\ ~WorkerAlive
             /\ (Receives(from_worker, "AskFile") \/ Receives(from_worker, "WorkerDone"))
       \/ wt \in {"collecting", "storing"} /\ from_worker = <<>> /\ ~WorkerAlive
    /\ wt' = "failed"
    /\ UNCHANGED <<wt_job, wt_left, server_files, sched_in, wm_in, to_worker, from_worker, notThread>>

WtClosed ==
    /\ wt = "receiving" /\ from_worker = <<>> /\ ~WorkerAlive
    /\ EndThread
    /\ UNCHANGED <<wt_job, wt_left, server_files, to_worker, from_worker, notThread>>

-----------------------------------------------------------------------------
(* The worker: work *)

notWorker == <<schedVars, sched_in, wmVars, wm_in, wtVars>>

WorkerStart ==
    /\ worker = "start"
    /\ worker' = "receiving"
    /\ from_worker' = Append(from_worker, Msg("GetWork"))
    /\ UNCHANGED <<job, missing_deps, w_file, w_files, asked, to_worker, sandVars, notWorker>>

MissingInputs(j) == {i \in Deps[j] : KeyOf[i] \notin w_files}
MissingKeys(j)   == {KeyOf[i] : i \in MissingInputs(j)}

(* "ask the file only once" *)
FilesToAsk(j)  == Orders(MissingKeys(j))

(* start_job: execute_job, or execute_controlled_job, starts the sandbox thread. *)
StartJob == sandbox' = "running" /\ killed' = FALSE /\ asked' = "open"

(* The previous sandbox thread is joined first. *)
WorkerWork ==
    LET j == Head(to_worker).job IN
    /\ worker = "receiving" /\ Receives(to_worker, "Work")
    /\ job = NoJob
    /\ sandbox \in {"idle", "ended"}
    /\ to_worker' = Tail(to_worker)
    /\ \E s \in FilesToAsk(j) :
            from_worker' = from_worker \o [n \in DOMAIN s |-> KeyMsg("AskFile", s[n])]
    /\ job' = j
    /\ missing_deps' = MissingKeys(j)
    /\ IF MissingKeys(j) = {} THEN StartJob
       ELSE sandbox' = "idle" /\ UNCHANGED <<killed, asked>>
    /\ UNCHANGED <<worker, w_file, w_files, to_send, sb_left, notWorker>>

WorkerProvideFile ==
    /\ worker = "receiving" /\ Receives(to_worker, "ProvideFile")
    /\ to_worker' = Tail(to_worker)
    /\ worker' = "storing"
    /\ w_file' = Head(to_worker).key
    /\ UNCHANGED <<job, missing_deps, w_files, asked, from_worker, sandVars, notWorker>>

(* The last piece of a file: the job starts when nothing is missing any more. *)
WorkerStorePiece ==
    /\ worker = "storing" /\ to_worker # <<>> /\ IsRaw(Head(to_worker))
    /\ to_worker' = Tail(to_worker)
    /\ Head(to_worker).type = "eof" => w_file \in missing_deps
    /\ IF Head(to_worker).type = "data"
       THEN UNCHANGED <<worker, missing_deps, w_file, w_files, asked, sandbox, killed>>
       ELSE /\ worker' = "receiving"
            /\ w_files' = w_files \cup {w_file}
            /\ missing_deps' = missing_deps \ {w_file}
            /\ w_file' = NoKey
            /\ IF missing_deps' = {} THEN StartJob ELSE UNCHANGED <<sandbox, killed, asked>>
    /\ UNCHANGED <<job, from_worker, to_send, sb_left, notWorker>>

(* A message in the middle of a file is a panic that ends the worker.  A job while *)
(* it has one and a file it did not ask for would be too; here they have no action *)
(* and would leave it stuck, against ShutDown and JobsAnswered.                    *)
WorkerFails ==
    /\ worker = "storing" /\ to_worker # <<>> /\ ~IsRaw(Head(to_worker))
    /\ worker' = "failed"
    /\ UNCHANGED <<job, missing_deps, w_file, w_files, asked, to_worker, from_worker, sandVars, notWorker>>

HasSandboxes == sandbox \in {"running", "waiting", "sending"}

(* Only the job that is named is killed, and only if it has sandboxes already. *)
WorkerKillJob ==
    /\ worker = "receiving" /\ Receives(to_worker, "KillJob")
    /\ to_worker' = Tail(to_worker)
    /\ killed' = (killed \/ (HasSandboxes /\ job = Head(to_worker).job))
    /\ UNCHANGED <<workerVars, from_worker, sandbox, to_send, sb_left, notWorker>>

(* The list is passed to the sandbox thread; without one it is ignored. *)
WorkerAskFiles ==
    /\ worker = "receiving" /\ Receives(to_worker, "AskFiles")
    /\ to_worker' = Tail(to_worker)
    /\ asked' = IF asked = "open" THEN "filled" ELSE asked
    /\ to_send' = IF asked = "open" THEN Head(to_worker).files ELSE to_send
    /\ UNCHANGED <<worker, job, missing_deps, w_file, w_files, from_worker, sandbox, killed, sb_left,
                   notWorker>>

(* On Exit the sender of the list is dropped, so that the sandbox thread does not *)
(* wait for it.                                                                   *)
ExitWithoutDropping ==
    /\ worker = "receiving" /\ Receives(to_worker, "Exit")
    /\ to_worker' = Tail(to_worker)
    /\ worker' = "leaving"
    /\ UNCHANGED <<job, missing_deps, w_file, w_files, asked, from_worker, sandVars, notWorker>>
WorkerExit ==
    /\ worker = "receiving" /\ Receives(to_worker, "Exit")
    /\ to_worker' = Tail(to_worker)
    /\ worker' = "leaving"
    /\ asked' = IF asked = "open" THEN "dropped" ELSE asked
    /\ UNCHANGED <<job, missing_deps, w_file, w_files, from_worker, sandVars, notWorker>>

WorkerLeaves ==
    /\ worker = "leaving" /\ sandbox \in {"idle", "ended"}
    /\ worker' = "over"
    /\ UNCHANGED <<job, missing_deps, w_file, w_files, asked, to_worker, from_worker, sandVars, notWorker>>

(* The process of the worker, or its connection, dies: the sandboxes are killed. *)
WorkerDies ==
    /\ MayDie /\ WorkerAlive
    /\ worker' = "dead"
    /\ UNCHANGED <<job, missing_deps, w_file, w_files, asked, to_worker, from_worker, sandVars, notWorker>>

-----------------------------------------------------------------------------
(* The sandbox thread: sandbox_group_manager and finalize_job *)

notSandbox == <<worker, missing_deps, w_file, w_files, asked, to_worker, notWorker>>

SandboxDone ==
    /\ WorkerAlive /\ sandbox = "running"
    /\ sandbox' = "waiting"
    /\ from_worker' = Append(from_worker, [JobMsg("WorkerDone", job) EXCEPT !.files = Outs[job]])
    /\ UNCHANGED <<job, killed, to_send, sb_left, notSandbox>>

SandboxSend(f) ==
    /\ WorkerAlive /\ sandbox = "waiting" /\ asked = "filled" /\ f \in to_send
    /\ sandbox' = "sending"
    /\ to_send' = to_send \ {f}
    /\ sb_left' = Pieces + 1
    /\ from_worker' = Append(from_worker, KeyMsg("ProvideFile", KeyOf[f]))
    /\ UNCHANGED <<job, killed, notSandbox>>

SandboxSendPiece ==
    /\ WorkerAlive /\ sandbox = "sending"
    /\ from_worker' = Append(from_worker, Piece(sb_left))
    /\ sb_left' = sb_left - 1
    /\ sandbox' = IF sb_left = 1 THEN "waiting" ELSE "sending"
    /\ UNCHANGED <<job, killed, to_send, notSandbox>>

(* The worker is reset and asks for more work, all under the lock. *)
SandboxFinish ==
    /\ WorkerAlive /\ sandbox = "waiting" /\ asked = "filled" /\ to_send = {}
    /\ sandbox' = "ended"
    /\ job' = NoJob
    /\ killed' = FALSE
    /\ from_worker' = Append(from_worker, Msg("GetWork"))
    /\ UNCHANGED <<to_send, sb_left, notSandbox>>

(* The server is going down: no list, no more work. *)
SandboxAbort ==
    /\ WorkerAlive /\ sandbox = "waiting" /\ asked = "dropped"
    /\ sandbox' = "ended"
    /\ job' = NoJob
    /\ killed' = FALSE
    /\ UNCHANGED <<to_send, sb_left, from_worker, notSandbox>>

-----------------------------------------------------------------------------
Scheduler == \/ SchedConnected \/ SchedResult \/ SchedDisconnected
             \/ \E j \in Job : SchedAssign(j)
Leave     == SchedExit \/ \E j \in Job : SchedStop(j)
Manager   == WmForward \/ WmDisconnected \/ WmExit
Thread    == \/ WtGetWork \/ WtAskFile \/ WtSendPiece \/ WtWorkerDone \/ WtProvideFile
             \/ WtStorePiece \/ WtFails \/ WtClosed
Worker    == \/ WorkerStart \/ WorkerWork \/ WorkerProvideFile \/ WorkerStorePiece \/ WorkerFails
             \/ WorkerKillJob \/ WorkerAskFiles \/ WorkerExit \/ WorkerLeaves
Sandbox   == \/ SandboxDone \/ SandboxSendPiece \/ SandboxFinish \/ SandboxAbort
             \/ \E f \in File : SandboxSend(f)

Next == Scheduler \/ Leave \/ Manager \/ WmSendFails \/ Thread \/ Worker \/ WorkerDies \/ Sandbox

Spec == Init /\ [][Next]_vars

(* Each thread is a loop around a blocking receive, and the sandboxes end: they *)
(* have time limits.                                                            *)
FairSpec == /\ Spec
            /\ WF_vars(Scheduler) /\ WF_vars(Manager) /\ WF_vars(Thread)
            /\ WF_vars(Worker) /\ WF_vars(Sandbox)

-----------------------------------------------------------------------------
(* Properties *)

(* What Scheduler.tla takes for granted.  A result does not name its job: it      *)
(* reaches the scheduler while the scheduler still thinks that the worker is doing *)
(* that job.  A worker is free for the scheduler, or has announced that it is,    *)
(* only when it has finished its job and sent all of its outputs.                 *)
ViewIsRight ==
    /\ \A n \in DOMAIN sched_in : sched_in[n].type = "WorkerResult" =>
            view = "busy" /\ view_job = sched_in[n].job
    /\ \A j \in Job : answered[j] \leq 1
    /\ WorkerAlive /\ (view = "free" \/ \E n \in DOMAIN sched_in : sched_in[n].type = "WorkerConnected") =>
            job = NoJob /\ ~HasSandboxes

(* Every job is answered, unless its client leaves, the scheduler exits or the    *)
(* worker is lost.                                                                *)
JobsAnswered == <>(\A j \in Job : answered[j] = 1 \/ j \in stopped \/ ~sched_up \/ ~WorkerAlive
                                                  \/ wt = "failed")

(* When the scheduler exits the worker and its thread end, whatever else happens. *)
ShutDown == ~sched_up ~> ~WorkerAlive /\ ThreadOver

=============================================================================
