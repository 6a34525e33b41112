---------------------------- MODULE ClientSession ----------------------------
(***************************************************************************)
(* The session of one client with the executor: the client (client.rs) with  *)
(* its status poller and its ctrl-c handler (context.rs), the client manager *)
(* and the binder, two threads of the executor (executor.rs), and an          *)
(* abstraction of the scheduler that keeps what Scheduler.tla tells a client. *)
(*                                                                           *)
(* The two directions of the connection are FIFO channels that carry messages *)
(* and, after a ProvideFile, the raw pieces of a file up to an empty one.     *)
(* Each direction has two writers: the client and its poller (or ctrl-c) up,  *)
(* the client manager and the binder down.                                    *)
(***************************************************************************)
EXTENDS Integers, Sequences, FiniteSets

CONSTANTS
    Provided,         \* dag.provided_files
    ServerHas,        \* those already in the file store of the server
    Exec,             \* the executions of the DAG, all with callbacks
    Needs,            \* the provided files an execution waits for
    Skippable,        \* the executions that may be skipped
    Produced,         \* the produced files with a callback
    Producer,         \* the execution that produces a file
    Urgent,           \* callbacks.urgent_files
    ClientHas,        \* produced files already in the file store of a remote client
    Pieces,           \* non-empty raw pieces of each file
    Executors,        \* the executors of the instance: a set of values of long_running
    CheckDag,         \* the answers check_dag may give: a set of Booleans
    CallbackMayFail,  \* whether a callback of the client may return an error
    MayStop,          \* whether the user may press ctrl-c (once)
    MayLose,          \* whether the connection to a server may be lost
    MaxPolls,         \* bound on the Status messages of the poller
    None, NoFile

ASSUME SessionAssumption ==
    /\ ServerHas \subseteq Provided
    /\ Needs \in [Exec -> SUBSET Provided]
    /\ Skippable \subseteq Exec
    /\ Producer \in [Produced -> Exec]
    /\ Urgent \subseteq Produced
    /\ ClientHas \subseteq Produced
    /\ Provided \cap Produced = {}
    /\ NoFile \notin Provided \cup Produced
    /\ None \notin Nat
    /\ Pieces \in Nat /\ MaxPolls \in Nat
    /\ {CallbackMayFail, MayStop, MayLose} \cup Executors \cup CheckDag \subseteq BOOLEAN

VARIABLES
    long_running,   \* of the executor: a server, not a local executor
    client,         \* start, running, uploading, receiving, and how evaluate ended:
                    \* returned, aborted (after an Error), failed, panicked
    missing_files,  \* the counter of the loop of evaluate
    handling,       \* the file being uploaded or received
    up_left,        \* raw pieces of it still to send, the empty one included
    delivered,      \* how many times a file was given to its callbacks
    notified,       \* how many times the callbacks of an execution were called
    dones,          \* how many Done messages it has received
    ctrlc,          \* the ctrl-c handler owns a sender
    stopped,        \* ctrl-c was pressed
    polls,          \* Status messages sent
    up, down,       \* the channels
    lost,           \* the connection is broken
    manager,        \* receiving, storing, sending, closing, ended, panicked
    mgr_file,       \* the file being stored or sent
    mgr_left,       \* raw pieces of it still to send
    scheduler,      \* the client manager still has the sender of the scheduler
    sched_in,       \* messages to the scheduler
    dag,            \* none, live, gone: the client in the scheduler
    files_in,       \* provided files the scheduler has
    ended,          \* executions that are over
    produced,       \* produced files the scheduler announced
    exited,         \* the scheduler has exited
    bind_in,        \* messages from the scheduler to the binder
    ready_files,    \* the binder's files for the final Done
    bind_left       \* raw pieces of the urgent file the binder is sending

clientVars == <<client, missing_files, handling, up_left, delivered, notified, dones>>
userVars   == <<ctrlc, stopped, polls>>
mgrVars    == <<manager, mgr_file, mgr_left, scheduler>>
schedVars  == <<dag, files_in, ended, produced, exited>>
bindVars   == <<ready_files, bind_left>>
vars == <<long_running, lost, clientVars, userVars, up, down, mgrVars, sched_in, schedVars, bind_in, bindVars>>

File == Provided \cup Produced

(* A local executor shares its file store with the client. *)
InClientStore == IF long_running THEN ClientHas ELSE Produced

Msg(t)        == [type |-> t, file |-> NoFile, set |-> {}]
FileMsg(t, f) == [type |-> t, file |-> f, set |-> {}]
SetMsg(t, S)  == [type |-> t, file |-> NoFile, set |-> S]

(* ChannelFileSender sends the pieces of a file and then an empty one. *)
Piece(left) == IF left = 1 THEN Msg("eof") ELSE Msg("data")

Receives(chan, t) == chan # <<>> /\ Head(chan).type = t

ClientOver  == client \in {"returned", "aborted", "failed", "panicked"}
ManagerOver == manager \in {"ended", "panicked"}

(* All the senders of the client are gone.  A remote client ends its process;  *)
(* a local one still owns the sender of the ctrl-c handler, unless it was      *)
(* dropped at the end of execute.                                              *)
UpClosed == lost \/ (ClientOver /\ (long_running \/ ~ctrlc))

(* A message to a manager that is over is lost.  The send fails if the two are in *)
(* one process, and may fail if they are not.                                     *)
SendUp(ms) == up' = IF ManagerOver \/ lost THEN up ELSE up \o ms
MaySend    == ~lost /\ (ManagerOver => long_running)
MayNotSend == lost \/ ManagerOver

SendDown(ms) == down' = IF lost THEN down ELSE down \o ms

Init ==
    /\ long_running \in Executors
    /\ client = "start" /\ missing_files = None /\ handling = NoFile /\ up_left = 0
    /\ delivered = [f \in Produced |-> 0]
    /\ notified = [e \in Exec |-> 0] /\ dones = 0
    /\ ctrlc = TRUE /\ stopped = FALSE /\ polls = 0
    /\ up = <<>> /\ down = <<>> /\ lost = FALSE
    /\ manager = "receiving" /\ mgr_file = NoFile /\ mgr_left = 0 /\ scheduler = TRUE
    /\ sched_in = <<>>
    /\ dag = "none" /\ files_in = {} /\ ended = {} /\ produced = {} /\ exited = FALSE
    /\ bind_in = <<>> /\ ready_files = {} /\ bind_left = 0

-----------------------------------------------------------------------------
(* The client *)

serverSide == <<long_running, lost, mgrVars, sched_in, schedVars, bind_in, bindVars>>

(* start_evaluation *)
StartEvaluation ==
    /\ client = "start" /\ MaySend
    /\ client' = "running"
    /\ SendUp(<<Msg("Evaluate")>>)
    /\ UNCHANGED <<missing_files, handling, up_left, delivered, notified, dones, userVars, down,
                   serverSide>>

(* The loop receives another message only while something is missing. *)
Looping == client = "running" /\ missing_files # 0

(* The file is sent while the lock file_mode is held. *)
RecvAskFile ==
    /\ Looping /\ Receives(down, "AskFile") /\ MaySend
    /\ client' = "uploading"
    /\ handling' = Head(down).file
    /\ up_left' = Pieces + 1
    /\ down' = Tail(down)
    /\ SendUp(<<FileMsg("ProvideFile", Head(down).file)>>)
    /\ UNCHANGED <<missing_files, delivered, notified, dones, userVars, serverSide>>

SendPiece ==
    /\ client = "uploading" /\ MaySend
    /\ SendUp(<<Piece(up_left)>>)
    /\ up_left' = up_left - 1
    /\ client' = IF up_left = 1 THEN "running" ELSE "uploading"
    /\ handling' = IF up_left = 1 THEN NoFile ELSE handling
    /\ UNCHANGED <<missing_files, delivered, notified, dones, userVars, down, serverSide>>

(* The counter is decremented before the content is received. *)
RecvProvideFile ==
    /\ Looping /\ Receives(down, "ProvideFile")
    /\ client' = "receiving"
    /\ handling' = Head(down).file
    /\ missing_files' = IF missing_files = None THEN None ELSE missing_files - 1
    /\ down' = Tail(down)
    /\ UNCHANGED <<up_left, delivered, notified, dones, userVars, up, serverSide>>

(* process_provided_file on a ChannelFileIterator: anything but a raw piece,   *)
(* the end of the connection too, is a panic ("deserialize error").            *)
RecvPiece ==
    /\ client = "receiving" /\ (down # <<>> \/ lost)
    /\ down' = IF down = <<>> THEN down ELSE Tail(down)
    /\ client' = CASE Receives(down, "data") -> "receiving"
                   [] Receives(down, "eof")  -> "running"
                   [] OTHER                  -> "panicked"
    /\ handling' = IF client' = "running" THEN NoFile ELSE handling
    /\ delivered' = IF client' = "running" THEN [delivered EXCEPT ![handling] = @ + 1]
                                           ELSE delivered
    /\ UNCHANGED <<missing_files, up_left, notified, dones, userVars, up, serverSide>>

(* NotifyDone and NotifySkip *)
RecvNotify ==
    /\ Looping /\ Receives(down, "Notify")
    /\ down' = Tail(down)
    /\ notified' = [e \in Exec |-> IF e \in Head(down).set THEN notified[e] + 1 ELSE notified[e]]
    /\ UNCHANGED <<client, missing_files, handling, up_left, delivered, dones, userVars, up, serverSide>>

RecvStatus ==
    /\ Looping /\ Receives(down, "Status")
    /\ down' = Tail(down)
    /\ UNCHANGED <<clientVars, userVars, up, serverSide>>

(* evaluate leaves the loop; if the Stop cannot be sent it returns an error. *)
RecvError ==
    /\ Looping /\ Receives(down, "Error")
    /\ down' = Tail(down)
    /\ \/ MaySend /\ client' = "aborted" /\ ctrlc' = FALSE
       \/ MayNotSend /\ client' = "failed" /\ UNCHANGED ctrlc
    /\ SendUp(<<Msg("Stop")>>)
    /\ UNCHANGED <<missing_files, handling, up_left, delivered, notified, dones, stopped, polls, serverSide>>

Orders(S) == {s \in [1..Cardinality(S) -> S] : \A i, j \in DOMAIN s : s[i] = s[j] => i = j}
FileMsgs(t, s) == [i \in DOMAIN s |-> FileMsg(t, s[i])]

(* The files that are in the client's store are given to the callbacks, the    *)
(* others are asked for.                                                       *)
CountNothing(S) == 0
CountMissing(S) == Cardinality(S)
RecvDone ==
    LET asked == Head(down).set \ InClientStore IN
    /\ Looping /\ Receives(down, "Done") /\ (asked # {} => MaySend)
    /\ down' = Tail(down)
    /\ dones' = dones + 1
    /\ delivered' = [f \in Produced |-> IF f \in Head(down).set \cap InClientStore
                                        THEN delivered[f] + 1 ELSE delivered[f]]
    /\ missing_files' = CountMissing(asked)
    /\ \E s \in Orders(asked) : SendUp(FileMsgs("AskFile", s))
    /\ UNCHANGED <<client, handling, up_left, notified, userVars, serverSide>>

(* The end of the loop, because nothing is missing or because recv fails ("Connection *)
(* closed"), and of execute, which drops the ctrl-c sender.  Both return Ok.          *)
Return ==
    /\ client = "running"
    /\ missing_files = 0 \/ (down = <<>> /\ lost)
    /\ client' = "returned"
    /\ ctrlc' = FALSE
    /\ UNCHANGED <<missing_files, handling, up_left, delivered, notified, dones, stopped, polls,
                   up, down, serverSide>>

(* evaluate returns an error, because a callback or a send fails: execute sends *)
(* a Stop and returns without dropping the sender of the ctrl-c handler.        *)
SendFails ==
    /\ MayNotSend
    /\ \/ client \in {"start", "uploading"}
       \/ Looping /\ Receives(down, "AskFile")
       \/ Looping /\ Receives(down, "Done") /\ Head(down).set \ InClientStore # {}
CallbackFails ==
    /\ CallbackMayFail
    /\ \/ client \in {"start", "receiving"}
       \/ Looping /\ (Receives(down, "Notify") \/ Receives(down, "Status"))
       \/ Looping /\ Receives(down, "Done") /\ Head(down).set \cap InClientStore # {}
(* The files of a Done that were asked for before the error *)
AskedSoFar == IF Looping /\ Receives(down, "Done") THEN SUBSET (Head(down).set \ InClientStore) ELSE {{}}
Fail ==
    /\ SendFails \/ CallbackFails
    /\ client' = "failed"
    /\ \E S \in AskedSoFar : \E s \in Orders(S) : SendUp(FileMsgs("AskFile", s) \o <<Msg("Stop")>>)
    /\ UNCHANGED <<missing_files, handling, up_left, delivered, notified, dones, userVars, down, serverSide>>

(* The status poller; it takes the lock file_mode. *)
PollAnytime ==
    /\ client \in {"running", "uploading", "receiving"}
    /\ polls < MaxPolls
    /\ polls' = polls + 1
    /\ SendUp(<<Msg("Status")>>)
    /\ UNCHANGED <<clientVars, ctrlc, stopped, down, serverSide>>
Poll ==
    /\ client \in {"running", "receiving"}
    /\ polls < MaxPolls
    /\ polls' = polls + 1
    /\ SendUp(<<Msg("Status")>>)
    /\ UNCHANGED <<clientVars, ctrlc, stopped, down, serverSide>>

(* The ctrl-c handler; it does not take the lock, and does not wait for Evaluate. *)
CtrlC ==
    /\ MayStop /\ ~stopped /\ ctrlc
    /\ stopped' = TRUE
    /\ SendUp(<<Msg("Stop")>>)
    /\ UNCHANGED <<clientVars, ctrlc, polls, down, serverSide>>

-----------------------------------------------------------------------------
(* The client manager: handle_client_messages.  An error it returns is a panic  *)
(* of its thread, which then tells the scheduler nothing any more.              *)

clientSide == <<long_running, lost, clientVars, userVars, bind_in, bindVars, schedVars>>

(* The thread ends normally: ClientDisconnected if it was not sent already, and *)
(* Exit if the executor is a local one.                                         *)
EndWithoutExit == IF scheduler THEN <<Msg("ClientDisconnected")>> ELSE <<>>
LastMessages == (IF scheduler THEN <<Msg("ClientDisconnected")>> ELSE <<>>)
                \o (IF long_running THEN <<>> ELSE <<Msg("Exit")>>)

(* The files that are already there are not announced. *)
EvaluateForgetsReady ==
    /\ manager = "receiving" /\ Receives(up, "Evaluate") /\ scheduler /\ TRUE \in CheckDag
    /\ up' = Tail(up)
    /\ \E s \in Orders(Provided \ ServerHas) : SendDown(FileMsgs("AskFile", s))
    /\ sched_in' = Append(sched_in, Msg("EvaluateDAG"))
    /\ UNCHANGED <<mgrVars, clientSide>>

(* The files the server does not have are asked for; then the scheduler gets    *)
(* the DAG, and then the files that are there.                                  *)
MgrEvaluate ==
    /\ manager = "receiving" /\ Receives(up, "Evaluate") /\ scheduler /\ TRUE \in CheckDag
    /\ up' = Tail(up)
    /\ \E s \in Orders(Provided \ ServerHas) : SendDown(FileMsgs("AskFile", s))
    /\ \E s \in Orders(ServerHas) :
            sched_in' = sched_in \o <<Msg("EvaluateDAG")>> \o FileMsgs("FileReady", s)
    /\ UNCHANGED <<mgrVars, clientSide>>

(* After a Stop the scheduler is gone: the files are asked for, and then the    *)
(* manager panics.                                                              *)
MgrEvaluateStopped ==
    /\ manager = "receiving" /\ Receives(up, "Evaluate") /\ ~scheduler /\ TRUE \in CheckDag
    /\ up' = Tail(up)
    /\ \E s \in Orders(Provided \ ServerHas) : SendDown(FileMsgs("AskFile", s))
    /\ manager' = "panicked"
    /\ UNCHANGED <<mgr_file, mgr_left, scheduler, sched_in, clientSide>>

MgrInvalidDag ==
    /\ manager = "receiving" /\ Receives(up, "Evaluate") /\ FALSE \in CheckDag
    /\ up' = Tail(up)
    /\ SendDown(<<Msg("Error")>>)
    /\ manager' = "closing"
    /\ UNCHANGED <<mgr_file, mgr_left, scheduler, sched_in, clientSide>>

MgrProvideFile ==
    /\ manager = "receiving" /\ Receives(up, "ProvideFile")
    /\ up' = Tail(up)
    /\ manager' = "storing"
    /\ mgr_file' = Head(up).file
    /\ UNCHANGED <<mgr_left, scheduler, down, sched_in, clientSide>>

(* FileStore::store reads the channel: anything but a raw piece, and the end of *)
(* the connection, is a panic.  When the file is complete the scheduler is told, *)
(* which is an error after a Stop.                                              *)
MgrStore ==
    /\ manager = "storing" /\ (up # <<>> \/ UpClosed)
    /\ up' = IF up = <<>> THEN up ELSE Tail(up)
    /\ manager' = CASE Receives(up, "data") -> "storing"
                    [] Receives(up, "eof") /\ scheduler -> "receiving"
                    [] OTHER -> "panicked"
    /\ sched_in' = IF manager' = "receiving" THEN Append(sched_in, FileMsg("FileReady", mgr_file))
                                             ELSE sched_in
    /\ mgr_file' = IF manager' = "storing" THEN mgr_file ELSE NoFile
    /\ UNCHANGED <<mgr_left, scheduler, down, clientSide>>

(* The scheduler keeps handles of the produced files until the client leaves;   *)
(* after that the store may have dropped them.                                  *)
MgrAskFile ==
    /\ manager = "receiving" /\ Receives(up, "AskFile")
    /\ up' = Tail(up)
    /\ \/ /\ SendDown(<<FileMsg("ProvideFile", Head(up).file)>>)
          /\ manager' = "sending" /\ mgr_file' = Head(up).file /\ mgr_left' = Pieces + 1
       \/ /\ dag = "gone"
          /\ SendDown(<<Msg("Error")>>)
          /\ UNCHANGED <<manager, mgr_file, mgr_left>>
    /\ UNCHANGED <<scheduler, sched_in, clientSide>>

MgrSendPiece ==
    /\ manager = "sending"
    /\ SendDown(<<Piece(mgr_left)>>)
    /\ mgr_left' = mgr_left - 1
    /\ manager' = IF mgr_left = 1 THEN "receiving" ELSE "sending"
    /\ mgr_file' = IF mgr_left = 1 THEN NoFile ELSE mgr_file
    /\ UNCHANGED <<scheduler, up, sched_in, clientSide>>

(* A remote client that is over closes the connection, and a send may fail. *)
MgrSendFails ==
    /\ \/ manager = "sending"
       \/ manager = "receiving" /\ (Receives(up, "AskFile") \/ Receives(up, "Evaluate"))
    /\ long_running /\ (ClientOver \/ lost)
    /\ manager' = "panicked"
    /\ UNCHANGED <<mgr_file, mgr_left, scheduler, up, down, sched_in, clientSide>>

MgrStatus ==
    /\ manager = "receiving" /\ Receives(up, "Status")
    /\ up' = Tail(up)
    /\ sched_in' = IF scheduler THEN Append(sched_in, Msg("Status")) ELSE sched_in
    /\ UNCHANGED <<mgrVars, down, clientSide>>

MgrStop ==
    /\ manager = "receiving" /\ Receives(up, "Stop")
    /\ up' = Tail(up)
    /\ scheduler' = FALSE
    /\ sched_in' = IF scheduler THEN Append(sched_in, Msg("ClientDisconnected")) ELSE sched_in
    /\ UNCHANGED <<manager, mgr_file, mgr_left, down, clientSide>>

(* The loop is left, and the thread ends. *)
MgrClosed ==
    /\ manager = "closing" \/ (manager = "receiving" /\ up = <<>> /\ UpClosed)
    /\ manager' = "ended"
    /\ scheduler' = FALSE
    /\ sched_in' = sched_in \o LastMessages
    /\ UNCHANGED <<mgr_file, mgr_left, up, down, clientSide>>

-----------------------------------------------------------------------------
(* What the scheduler tells this client; see Scheduler.tla *)

otherThreads == <<long_running, lost, clientVars, userVars, up, down, mgrVars, bindVars>>

(* check_completion, appended to the messages ms of a handler *)
WithCompletion(ms, over) ==
    bind_in' = bind_in \o ms \o (IF over THEN <<Msg("EvaluationDone")>> ELSE <<>>)

SchedEvaluateDAG ==
    /\ ~exited /\ Receives(sched_in, "EvaluateDAG")
    /\ sched_in' = Tail(sched_in)
    /\ dag' = "live"
    /\ WithCompletion(<<>>, ended = Exec)
    /\ UNCHANGED <<files_in, ended, produced, exited, otherThreads>>

(* Completion is checked for each file, also after the evaluation is over. *)
SchedFileReady ==
    /\ ~exited /\ Receives(sched_in, "FileReady")
    /\ sched_in' = Tail(sched_in)
    /\ files_in' = files_in \cup {Head(sched_in).file}
    /\ WithCompletion(<<>>, dag = "live" /\ ended = Exec)
    /\ UNCHANGED <<dag, ended, produced, exited, otherThreads>>

(* An execution is over: its callback, its files, and maybe the evaluation. *)
SchedExecution(e, ok) ==
    LET outs == IF ok THEN {f \in Produced : Producer[f] = e} ELSE {} IN
    /\ ~exited /\ dag = "live" /\ e \notin ended
    /\ IF ok THEN Needs[e] \subseteq files_in ELSE e \in Skippable
    /\ ended' = ended \cup {e}
    /\ produced' = produced \cup outs
    /\ \E s \in Orders(outs) :
            WithCompletion(<<SetMsg("Notify", {e})>> \o FileMsgs("FileReady", s), ended' = Exec)
    /\ UNCHANGED <<sched_in, dag, files_in, exited, otherThreads>>

SchedStatus ==
    /\ ~exited /\ Receives(sched_in, "Status")
    /\ sched_in' = Tail(sched_in)
    /\ WithCompletion(<<Msg("Status")>>, FALSE)
    /\ UNCHANGED <<schedVars, otherThreads>>

SchedClientDisconnected ==
    /\ ~exited /\ Receives(sched_in, "ClientDisconnected")
    /\ sched_in' = Tail(sched_in)
    /\ dag' = "gone"
    /\ WithCompletion(<<>>, dag = "live" /\ ended # Exec)
    /\ UNCHANGED <<files_in, ended, produced, exited, otherThreads>>

SchedExit ==
    /\ ~exited /\ Receives(sched_in, "Exit")
    /\ exited' = TRUE
    /\ sched_in' = Tail(sched_in)
    /\ UNCHANGED <<dag, files_in, ended, produced, bind_in, otherThreads>>

-----------------------------------------------------------------------------
(* The binder: handle_scheduler_messages.  Its sends may fail, and then it goes *)
(* on with the next message.                                                    *)

notBinder == <<long_running, lost, clientVars, userVars, up, mgrVars, sched_in, schedVars>>

BindForward ==
    /\ bind_left = 0 /\ (Receives(bind_in, "Notify") \/ Receives(bind_in, "Status"))
    /\ bind_in' = Tail(bind_in)
    /\ SendDown(<<Head(bind_in)>>)
    /\ UNCHANGED <<bindVars, notBinder>>

BindFileReady ==
    /\ bind_left = 0 /\ Receives(bind_in, "FileReady")
    /\ bind_in' = Tail(bind_in)
    /\ LET f == Head(bind_in).file IN
       IF f \in Urgent
       THEN /\ SendDown(<<FileMsg("ProvideFile", f)>>)
            /\ bind_left' = Pieces + 1
            /\ UNCHANGED ready_files
       ELSE /\ ready_files' = ready_files \cup {f}
            /\ UNCHANGED <<down, bind_left>>
    /\ UNCHANGED notBinder

BindSendPiece ==
    /\ bind_left > 0
    /\ SendDown(<<Piece(bind_left)>>)
    /\ bind_left' = bind_left - 1
    /\ UNCHANGED <<ready_files, bind_in, notBinder>>

BindDone ==
    /\ bind_left = 0 /\ Receives(bind_in, "EvaluationDone")
    /\ bind_in' = Tail(bind_in)
    /\ SendDown(<<SetMsg("Done", ready_files)>>)
    /\ ready_files' = {}
    /\ UNCHANGED <<bind_left, notBinder>>

-----------------------------------------------------------------------------
Client ==
    \/ StartEvaluation \/ RecvAskFile \/ SendPiece \/ RecvProvideFile \/ RecvPiece
    \/ RecvNotify \/ RecvStatus \/ RecvError \/ RecvDone \/ Return
Manager ==
    \/ MgrEvaluate \/ MgrEvaluateStopped \/ MgrInvalidDag \/ MgrProvideFile \/ MgrStore \/ MgrAskFile
    \/ MgrSendPiece \/ MgrStatus \/ MgrStop \/ MgrClosed
SchedulerThread ==
    \/ SchedEvaluateDAG \/ SchedFileReady \/ SchedStatus \/ SchedClientDisconnected \/ SchedExit
    \/ \E e \in Exec, ok \in BOOLEAN : SchedExecution(e, ok)
Binder == BindForward \/ BindFileReady \/ BindSendPiece \/ BindDone

(* The connection to a server breaks: what is on its way may be lost. *)
Disconnect ==
    /\ MayLose /\ long_running /\ ~lost /\ ~ClientOver
    /\ lost' = TRUE
    /\ \E m \in 0..Len(up), n \in 0..Len(down) : up' = SubSeq(up, 1, m) /\ down' = SubSeq(down, 1, n)
    /\ UNCHANGED <<long_running, clientVars, userVars, mgrVars, sched_in, schedVars, bind_in, bindVars>>

Next == Disconnect \/ Client \/ Fail \/ Poll \/ CtrlC \/ Manager \/ MgrSendFails \/ SchedulerThread \/ Binder

Spec == Init /\ [][Next]_vars

(* Each thread goes on while it can.  A send that fails is seen: the client     *)
(* that cannot send returns.  Errors of callbacks, the poller and ctrl-c may    *)
(* never happen.                                                                *)
FairSpec == /\ Spec
            /\ WF_vars(Client) /\ WF_vars(SendFails /\ Fail)
            /\ WF_vars(Manager) /\ WF_vars(SchedulerThread) /\ WF_vars(Binder)

-----------------------------------------------------------------------------
(* Properties *)

(* evaluate, "storing the files from the server": a client that returned without *)
(* an error has got every file that was produced and has been told of every       *)
(* execution, each once.  Three cases are left out, in which it may not have: it  *)
(* asked the server to stop; the connection broke, after which evaluate returns   *)
(* Ok all the same; and a second Done, which resets the counter of what is        *)
(* missing.                                                                       *)
AllDelivered == client = "returned" /\ ~stopped /\ ~lost /\ dones = 1 =>
                    /\ \A f \in Produced : delivered[f] = IF f \in produced THEN 1 ELSE 0
                    /\ \A e \in Exec : notified[e] = 1

(* A Stop of ctrl-c before Evaluate or in the middle of an upload makes the      *)
(* manager panic, and then nobody tells the scheduler nor the client.  So does   *)
(* the end of the connection while a file is on its way, or of a client that     *)
(* left after a second Done, but the client sees it.                             *)
StopLost    == stopped /\ manager = "panicked"
ManagerLost == (stopped \/ lost \/ dones > 1) /\ manager = "panicked"

(* evaluate returns, also if the connection is lost, unless ctrl-c made the      *)
(* manager panic.                                                                *)
SessionEnds == <>(ClientOver \/ StopLost)

(* "if not in long running mode, the first client should tear down the executor" *)
(* and a client that left a server is forgotten by the scheduler: unless ctrl-c, *)
(* a broken connection or a second Done made the manager panic, and for a client *)
(* whose evaluate returned no error.                                             *)
TearDown == client \in {"returned", "aborted"} ~>
                ManagerLost \/ IF long_running THEN dag # "live" ELSE exited

=============================================================================
