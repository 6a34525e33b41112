------------------------- MODULE SandboxGroupProofs -------------------------
(***************************************************************************)
(* The directories of the sandboxes and the blame for a failure, for every   *)
(* group of executions, whatever is killed and in whichever order the         *)
(* results arrive.                                                            *)
(***************************************************************************)
EXTENDS SandboxGroup, TLAPS

Users  == {"worker", "manager", "thread"}
Closed == {"finalize", "send", "reset", "over"}

(* The directories.  Somebody has the sandbox until the manager is over: the   *)
(* worker.  Then the threads have given theirs up, since they were joined.      *)
BoxTypes ==
    /\ box \in [Execs -> SUBSET Users]
    /\ DOMAIN outputs = Execs /\ DOMAIN sent = Execs /\ DOMAIN thread = Execs
WorkerHasBox == manager.at # "over" => \A e \in Execs : "worker" \in box[e]
JoinedThreads ==
    /\ \A e \in Execs : thread[e] = "over" => "thread" \notin box[e]
    /\ manager.at \in Closed => \A e \in Execs : thread[e] = "over"
BoxInv == BoxTypes /\ WorkerHasBox /\ JoinedThreads /\ BoxInUse

-----------------------------------------------------------------------------
(* How a process may have ended, as long as nobody was told to stop: a process *)
(* that was killed had exceeded a limit.                                        *)
RawEnd == {"exit0", "exit1", "signal9", "signal11", "killed", "error", "failure"}
Status == {"InternalError", "Failure", "LimitExceeded", "ReturnCode", "Signal", "Success"}
Result == [status : Status, was_killed : BOOLEAN]
Blamed(r) == r \in Result /\ (r.was_killed => r.status = "LimitExceeded")
Message == [index : Execs, result : Result]

Types ==
    /\ thread \in [Execs -> {"start", "spawn", "wait", "ended", "over"}]
    /\ proc \in [Execs -> {"none", "up", "open", "dead", "closed"}]
    /\ raw \in [Execs -> [end : RawEnd \cup {"none"}, over : BOOLEAN]]
    /\ pid \in [Execs -> BOOLEAN] /\ tried \in [Execs -> BOOLEAN] /\ term \in [Execs -> BOOLEAN]
    /\ results \in [Execs -> Result \cup {NoResult}]
    /\ chan \in Seq(Message)
    /\ manager \in [at : {"receive", "kill", "join"} \cup Closed, index : Execs \cup {0},
                    result : Result \cup {NoResult},
                    kill : [todo : SUBSET Execs, target : Execs \cup {0}, tries : Int]]
    /\ killer \in [at : {"idle", "killing", "done"},
                   kill : [todo : SUBSET Execs, target : Execs \cup {0}, tries : Int]]

(* A thread that waits, or has ended, has a process, or its end. *)
EndsAreKnown ==
    \A e \in Execs :
        /\ proc[e] \in {"dead", "closed"} \/ thread[e] \in {"ended", "over"} => raw[e].end \in RawEnd
        /\ thread[e] = "wait" => proc[e] # "none"

(* An execution has one result: to be received, in the hands of the manager or  *)
(* collected.                                                                    *)
OneResult ==
    /\ \A e \in Execs : results[e] # NoResult => thread[e] = "over"
    /\ \A n \in 1..Len(chan) : /\ thread[chan[n].index] = "over"
                               /\ results[chan[n].index] = NoResult
                               /\ manager.at = "kill" => chan[n].index # manager.index
    /\ \A m, n \in 1..Len(chan) : chan[m].index = chan[n].index => m = n
    /\ manager.at = "kill" => /\ manager.index \in Execs /\ manager.result \in Result
                              /\ thread[manager.index] = "over"
                              /\ results[manager.index] = NoResult
    /\ manager.at \in {"join"} \cup Closed => \A e \in Execs : results[e] # NoResult

(* Before the first failure is received nobody was told to stop ... *)
NobodyTold ==
    /\ \A e \in Execs : ~tried[e] /\ ~term[e]
    /\ manager.kill.todo = {} /\ manager.kill.target = 0
    /\ \A e \in Execs : results[e] # NoResult => results[e].status = "Success"
    /\ manager.at = "kill" => manager.result.status = "Success"
    /\ \A e \in Execs : raw[e].end = "killed" => raw[e].over
    /\ \A n \in 1..Len(chan) : Blamed(chan[n].result)

(* ... and then the one whose failure it was is never told. *)
Spared(e) ==
    /\ ~term[e] /\ e \notin manager.kill.todo
    /\ manager.kill.target # 0 => manager.kill.target # e
    /\ \/ /\ results[e] # NoResult /\ results[e].status # "Success" /\ Blamed(results[e])
       \/ /\ manager.at = "kill" /\ manager.index = e
          /\ manager.result.status # "Success" /\ Blamed(manager.result)

Shape == Types /\ EndsAreKnown /\ OneResult
BlameInv == killer.at = "idle" => NobodyTold \/ \E e \in Execs : Spared(e)

-----------------------------------------------------------------------------
(* The threads of the sandboxes and their processes. *)
BoxStep(e) == \/ RunSandbox(e) \/ Spawn(e) \/ StorePid(e) \/ Open(e) \/ Ends(e)
              \/ SandboxFails(e) \/ LimitHit(e) \/ Terminated(e) \/ Wait(e)

LEMMA RawFacts ==
    /\ Raw("error", FALSE) \in [end : RawEnd, over : BOOLEAN]
    /\ \A r \in TypstResults : r \in [end : RawEnd, over : BOOLEAN]
<1>1. \A x \in RawEnd : Raw(x, FALSE) \in [end : RawEnd, over : BOOLEAN]
  BY DEF Raw
<1>2. \A r \in TypstResults : \E x \in {"exit0", "failure"} : r = Raw(x, FALSE)
  BY DEF TypstResults
<1>3. \A x \in {"exit0", "failure", "error"} : x \in RawEnd
  BY DEF RawEnd
<1> QED  BY <1>1, <1>2, <1>3

(* Such a step changes its own execution, and gives it an end when it is over. *)
LEMMA BoxStepFacts ==
    ASSUME Shape, NEW e \in Execs, BoxStep(e)
    PROVE  /\ UNCHANGED <<group, tried, term, chan, manager, results, killer, box, outputs, sent>>
           /\ thread' \in [Execs -> {"start", "spawn", "wait", "ended", "over"}]
           /\ pid' \in [Execs -> BOOLEAN]
           /\ proc' \in [Execs -> {"none", "up", "open", "dead", "closed"}]
           /\ raw' \in [Execs -> [end : RawEnd \cup {"none"}, over : BOOLEAN]]
           /\ \A f \in Execs \ {e} : /\ thread'[f] = thread[f] /\ proc'[f] = proc[f]
                                     /\ raw'[f] = raw[f]
           /\ thread[e] = "over" => thread'[e] = "over"
           /\ thread'[e] = "over" => thread[e] = "over"
           /\ proc'[e] \in {"dead", "closed"} \/ thread'[e] \in {"ended", "over"} => raw'[e].end \in RawEnd
           /\ thread'[e] = "wait" => proc'[e] # "none"
<1> USE DEF Shape, Types, RawEnd
<1>1. CASE RunSandbox(e)
  <2>1. thread[e] = "start" /\ proc' = proc
    BY <1>1 DEF RunSandbox
  <2>2. \/ thread' = [thread EXCEPT ![e] = "spawn"] /\ raw' = raw
        \/ /\ thread' = [thread EXCEPT ![e] = "ended"]
           /\ \E r \in [end : RawEnd, over : BOOLEAN] : raw' = [raw EXCEPT ![e] = r]
    BY <1>1, RawFacts DEF RunSandbox
  <2>3. CASE thread' = [thread EXCEPT ![e] = "spawn"] /\ raw' = raw
    BY <1>1, <2>1, <2>3 DEF EndsAreKnown, RunSandbox
  <2>4. CASE thread' = [thread EXCEPT ![e] = "ended"]
    <3>1. PICK r \in [end : RawEnd, over : BOOLEAN] : raw' = [raw EXCEPT ![e] = r]
      <4>1. thread'[e] = "ended"
        BY <2>4
      <4>2. thread' # [thread EXCEPT ![e] = "spawn"]
        BY <4>1
      <4> QED  BY <2>2, <4>2
    <3>2. /\ raw' \in [Execs -> [end : RawEnd \cup {"none"}, over : BOOLEAN]]
          /\ raw'[e].end \in RawEnd /\ \A f \in Execs \ {e} : raw'[f] = raw[f]
      BY <3>1
    <3>3. /\ thread' \in [Execs -> {"start", "spawn", "wait", "ended", "over"}]
          /\ thread'[e] = "ended" /\ \A f \in Execs \ {e} : thread'[f] = thread[f]
      BY <2>4
    <3>4. UNCHANGED <<group, proc, pid, tried, term, chan, manager, results, killer, box, outputs, sent>>
      BY <1>1 DEF RunSandbox
    <3>5. /\ pid' \in [Execs -> BOOLEAN]
          /\ proc' \in [Execs -> {"none", "up", "open", "dead", "closed"}]
      BY <3>4
    <3> HIDE DEF Shape, Types, RawEnd
    <3> QED  BY <2>1, <3>2, <3>3, <3>4, <3>5
  <2> HIDE DEF Shape, Types, RawEnd
  <2> QED  BY <2>2, <2>3, <2>4
<1>2. CASE Spawn(e) \/ StorePid(e) \/ Open(e) \/ Wait(e)
  <2>1. CASE Spawn(e)
    BY <2>1 DEF Spawn, EndsAreKnown
  <2>2. CASE StorePid(e)
    BY <2>2 DEF StorePid, EndsAreKnown, Alive
  <2>3. CASE Open(e)
    BY <2>3 DEF Open, EndsAreKnown, Alive
  <2>4. CASE Wait(e)
    BY <2>4 DEF Wait, EndsAreKnown, Alive
  <2> QED  BY <1>2, <2>1, <2>2, <2>3, <2>4
<1>3. CASE Ends(e)
  BY <1>3 DEF Ends, Dies, Raw, EndsAreKnown
<1>4. CASE LimitHit(e)
  BY <1>4 DEF LimitHit, Dies, Raw, EndsAreKnown
<1>5. CASE Terminated(e)
  BY <1>5 DEF Terminated, Dies, Raw, EndsAreKnown
<1>6. CASE SandboxFails(e)
  BY <1>6 DEF SandboxFails, Dies, Raw, EndsAreKnown
<1> QED  BY <1>1, <1>2, <1>3, <1>4, <1>5, <1>6 DEF BoxStep

LEMMA ChanFacts ==
    ASSUME Shape
    PROVE  /\ Len(chan) \in Nat
           /\ \A n \in 1..Len(chan) : chan[n].index \in Execs /\ chan[n].result \in Result
<1>1. chan \in Seq(Message)
  BY DEF Shape, Types
<1>2. Len(chan) \in Nat /\ \A n \in 1..Len(chan) : chan[n] \in Message
  BY <1>1
<1> QED  BY <1>2 DEF Message

LEMMA BoxStepShape == ASSUME Shape, NEW e \in Execs, BoxStep(e) PROVE Shape'
<1>1. Execs' = Execs /\ Message' = Message
  BY BoxStepFacts DEF Execs, Message
<1>2. Types'
  BY <1>1, BoxStepFacts DEF Shape, Types
<1>3. EndsAreKnown'
  BY <1>1, BoxStepFacts DEF Shape, EndsAreKnown
<1>4. OneResult'
  <2>1. \A f \in Execs : thread[f] = "over" => thread'[f] = "over"
    BY BoxStepFacts
  <2>2. \A n \in 1..Len(chan) : chan[n].index \in Execs
    BY ChanFacts
  <2>3. UNCHANGED <<chan, manager, results>>
    BY BoxStepFacts
  <2> QED  BY <1>1, <2>1, <2>2, <2>3 DEF Shape, OneResult
<1> QED  BY <1>2, <1>3, <1>4 DEF Shape

(* The status of an end is one of the statuses. *)
LEMMA StatusFacts ==
    ASSUME NEW r \in [end : RawEnd, over : BOOLEAN]
    PROVE  /\ StatusOf(r) \in Status
           /\ r.end = "killed" /\ r.over => StatusOf(r) = "LimitExceeded"
  BY DEF StatusOf, RawEnd, Status

(* A result is sent once. *)
LEMMA SendFacts ==
    ASSUME Shape, NEW e \in Execs, SendResult(e)
    PROVE  \E r \in Result :
             /\ r = [status |-> StatusOf(raw[e]), was_killed |-> WasKilled(raw[e].end, tried[e])]
             /\ chan' = Append(chan, [index |-> e, result |-> r])
             /\ chan' \in Seq(Message)
             /\ Len(chan) \in Nat /\ Len(chan') = Len(chan) + 1
             /\ \A n \in 1..Len(chan) : chan'[n] = chan[n]
             /\ chan'[Len(chan) + 1] = [index |-> e, result |-> r]
<1> DEFINE r == [status |-> StatusOf(raw[e]), was_killed |-> WasKilled(raw[e].end, tried[e])]
           m == [index |-> e, result |-> r]
<1>1. raw[e] \in [end : RawEnd, over : BOOLEAN]
  BY DEF Shape, Types, EndsAreKnown, SendResult
<1>2. r \in Result
  <2>1. StatusOf(raw[e]) \in Status
    BY <1>1, StatusFacts
  <2>2. WasKilled(raw[e].end, tried[e]) \in BOOLEAN
    BY DEF WasKilled, Shape, Types
  <2> QED  BY <2>1, <2>2 DEF Result
<1>3. m \in Message
  BY <1>2 DEF Message
<1>4. chan \in Seq(Message) /\ chan' = Append(chan, m)
  BY DEF Shape, Types, SendResult
<1> HIDE DEF m
<1>5. /\ chan' \in Seq(Message) /\ Len(chan) \in Nat
      /\ Len(chan') = Len(chan) + 1 /\ \A n \in 1..Len(chan) : chan'[n] = chan[n]
      /\ chan'[Len(chan) + 1] = m
  BY <1>3, <1>4
<1> USE DEF m
<1> QED  BY <1>2, <1>4, <1>5

LEMMA SendShape == ASSUME Shape, NEW e \in Execs, SendResult(e) PROVE Shape'
<1>1. /\ Execs' = Execs /\ Message' = Message
      /\ UNCHANGED <<proc, raw, pid, tried, term, results, manager, killer>>
  BY DEF Execs, Message, SendResult
<1>2. /\ thread' \in [Execs -> {"start", "spawn", "wait", "ended", "over"}]
      /\ thread[e] = "ended" /\ thread'[e] = "over"
      /\ \A f \in Execs \ {e} : thread'[f] = thread[f]
  BY DEF Shape, Types, SendResult
<1>3. PICK r \in Result :
             /\ chan' \in Seq(Message)
             /\ Len(chan) \in Nat /\ Len(chan') = Len(chan) + 1
             /\ \A n \in 1..Len(chan) : chan'[n] = chan[n]
             /\ chan'[Len(chan) + 1] = [index |-> e, result |-> r]
  BY SendFacts
<1>4. Types'
  BY <1>1, <1>2, <1>3 DEF Shape, Types
<1>5. EndsAreKnown'
  BY <1>1, <1>2 DEF Shape, EndsAreKnown
<1>6. /\ results[e] = NoResult /\ manager.at = "kill" => manager.index # e
      /\ \A n \in 1..Len(chan) : chan[n].index # e
  BY <1>2 DEF Shape, OneResult
<1>7. OneResult'
  <2>1. \A n \in 1..Len(chan') : \/ n \in 1..Len(chan) /\ chan'[n] = chan[n]
                                 \/ n = Len(chan) + 1 /\ chan'[n].index = e
    BY <1>3
  <2>2. \A n \in 1..Len(chan') : /\ thread'[chan'[n].index] = "over"
                                 /\ results[chan'[n].index] = NoResult
                                 /\ manager.at = "kill" => chan'[n].index # manager.index
    BY <1>2, <1>6, <2>1, ChanFacts DEF Shape, OneResult
  <2>3. \A m, n \in 1..Len(chan') : chan'[m].index = chan'[n].index => m = n
    BY <1>6, <2>1 DEF Shape, OneResult
  <2>4. \A f \in Execs : thread[f] = "over" => thread'[f] = "over"
    BY <1>2
  <2> QED  BY <1>1, <2>2, <2>3, <2>4 DEF Shape, OneResult
<1> QED  BY <1>4, <1>5, <1>7 DEF Shape

-----------------------------------------------------------------------------
(* A step of a kill keeps to what is to be killed. *)
KillState == [todo : SUBSET Execs, target : Execs \cup {0}, tries : Int]
KillStep(k, l) ==
    \/ \E e \in k.todo : KillNext(k, e) /\ l = StartKill(k, e)
    \/ KillLook(k) /\ l = LookForPid(k)

LEMMA KillFacts ==
    ASSUME Shape, NEW k \in KillState, NEW l, KillStep(k, l)
    PROVE  /\ l \in KillState
           /\ tried' \in [Execs -> BOOLEAN] /\ term' \in [Execs -> BOOLEAN]
           /\ l.todo \subseteq k.todo
           /\ l.target # 0 => l.target \in k.todo \cup {k.target}
           /\ \A e \in Execs : term'[e] # term[e] => k.target # 0 /\ k.target = e
<1> USE DEF KillState
<1>1. ASSUME NEW e \in k.todo, KillNext(k, e), l = StartKill(k, e)
      PROVE  /\ l \in KillState /\ tried' \in [Execs -> BOOLEAN] /\ UNCHANGED term
             /\ l.todo \subseteq k.todo /\ l.target \in {0, e}
  BY <1>1, TriesAssumption DEF KillNext, StartKill, Shape, Types
<1>2. ASSUME KillLook(k), l = LookForPid(k)
      PROVE  /\ l \in KillState /\ UNCHANGED tried /\ term' \in [Execs -> BOOLEAN]
             /\ l.todo = k.todo /\ l.target \in {0, k.target} /\ k.target # 0
             /\ \A e \in Execs : e # k.target => term'[e] = term[e]
  <2>1. l \in KillState /\ l.todo = k.todo /\ l.target \in {0, k.target}
    <3>1. /\ k.todo \in SUBSET Execs /\ k.target \in Execs \cup {0}
          /\ k.tries \in Int /\ k.tries - 1 \in Int
      OBVIOUS
    <3>2. \/ l = [todo |-> k.todo, target |-> 0, tries |-> 0]
          \/ l = [todo |-> k.todo, target |-> k.target, tries |-> k.tries - 1]
      BY <1>2 DEF LookForPid
    <3> QED  BY <3>1, <3>2
  <2>2. k.target \in Execs /\ k.target # 0 /\ UNCHANGED tried
    BY <1>2 DEF KillLook
  <2>3. (term[k.target] \/ (pid[k.target] /\ Alive(k.target))) \in BOOLEAN
    OBVIOUS
  <2>4. term' \in [Execs -> BOOLEAN] /\ \A e \in Execs : e # k.target => term'[e] = term[e]
    BY <1>2, <2>2, <2>3 DEF KillLook, Shape, Types
  <2> QED  BY <2>1, <2>2, <2>4
<1> QED  BY <1>1, <1>2 DEF KillStep, Shape, Types

(* A kill of the worker, or of the manager. *)
LEMMA KillerShape == ASSUME Shape, KillJob \/ KillJobStep PROVE Shape'
<1>1. /\ Execs' = Execs /\ Message' = Message
      /\ UNCHANGED <<thread, proc, raw, pid, chan, manager, results>>
  BY DEF Execs, Message, KillJob, KillJobStep, procVars
<1>2. killer' \in [at : {"idle", "killing", "done"}, kill : KillState]
      /\ tried' \in [Execs -> BOOLEAN] /\ term' \in [Execs -> BOOLEAN]
  <2>0. killer \in [at : {"idle", "killing", "done"}, kill : KillState]
    BY DEF Shape, Types, KillState
  <2>1. CASE KillJob
    BY <2>1 DEF KillJob, KillState, Idle, Shape, Types
  <2>2. CASE KillJobStep /\ Killed(killer.kill) /\ killer' = [killer EXCEPT !.at = "done"] /\ UNCHANGED <<tried, term>>
    BY <2>0, <2>2 DEF Shape, Types
  <2>3. ASSUME NEW l, KillStep(killer.kill, l), killer' = [killer EXCEPT !.kill = l]
        PROVE  killer' \in [at : {"idle", "killing", "done"}, kill : KillState]
               /\ tried' \in [Execs -> BOOLEAN] /\ term' \in [Execs -> BOOLEAN]
    <3>1. killer.kill \in KillState
      BY <2>0
    <3>2. l \in KillState /\ tried' \in [Execs -> BOOLEAN] /\ term' \in [Execs -> BOOLEAN]
      BY <2>3, <3>1, KillFacts
    <3> QED  BY <2>0, <2>3, <3>2
  <2> QED  BY <2>1, <2>2, <2>3 DEF KillJobStep, KillStep
<1>3. Types'
  BY <1>1, <1>2 DEF Shape, Types, KillState
<1>4. EndsAreKnown' /\ OneResult'
  BY <1>1 DEF Shape, EndsAreKnown, OneResult
<1> QED  BY <1>3, <1>4 DEF Shape

LEMMA ManagerKillFacts ==
    ASSUME Shape, ManagerKill
    PROVE  \E l \in KillState :
             /\ manager' = [manager EXCEPT !.kill = l] /\ manager.kill \in KillState
             /\ KillStep(manager.kill, l)
             /\ tried' \in [Execs -> BOOLEAN] /\ term' \in [Execs -> BOOLEAN]
<1>1. PICK l : manager' = [manager EXCEPT !.kill = l] /\ KillStep(manager.kill, l)
  BY DEF ManagerKill, KillStep
<1>2. manager.kill \in KillState
  BY DEF Shape, Types, KillState
<1> QED  BY <1>1, <1>2, KillFacts

(* The manager. *)
ManagerState == [at : {"receive", "kill", "join"} \cup Closed, index : Execs \cup {0},
                 result : Result \cup {NoResult}, kill : KillState]
LEMMA ManagerKillShape == ASSUME Shape, ManagerKill PROVE Shape'
<1>1. /\ Execs' = Execs /\ Message' = Message
      /\ UNCHANGED <<thread, proc, raw, pid, chan, killer, results>>
  BY DEF Execs, Message, ManagerKill, procVars
<1>2. manager \in ManagerState
  BY DEF Shape, Types, ManagerState, KillState
<1>3. PICK l \in KillState : manager' = [manager EXCEPT !.kill = l]
  BY ManagerKillFacts
<1>4. /\ manager' \in ManagerState /\ manager'.at = manager.at /\ manager'.index = manager.index
      /\ manager'.result = manager.result
  BY <1>2, <1>3 DEF ManagerState
<1>5. tried' \in [Execs -> BOOLEAN] /\ term' \in [Execs -> BOOLEAN]
  BY ManagerKillFacts
<1>6. Types'
  BY <1>1, <1>4, <1>5 DEF Shape, Types, ManagerState, KillState
<1>7. EndsAreKnown' /\ OneResult'
  BY <1>1, <1>4 DEF Shape, EndsAreKnown, OneResult
<1> QED  BY <1>6, <1>7 DEF Shape

LEMMA ReceiveFacts ==
    ASSUME Shape, Receive
    PROVE  /\ manager.at = "receive" /\ 1 \in 1..Len(chan) /\ Head(chan) = chan[1]
           /\ chan[1].index \in Execs /\ chan[1].result \in Result
           /\ chan' \in Seq(Message) /\ Len(chan') = Len(chan) - 1
           /\ \A n \in 1..Len(chan') : chan'[n] = chan[n + 1] /\ n + 1 \in 1..Len(chan) /\ n + 1 # 1
           /\ manager' \in ManagerState
           /\ manager'.at = "kill" /\ manager'.index = chan[1].index
           /\ manager'.result = chan[1].result
           /\ manager'.kill.target = 0
           /\ manager'.kill.todo = IF chan[1].result.status = "Success" THEN {} ELSE ToKill(chan[1].index)
           /\ UNCHANGED <<group, thread, proc, raw, pid, tried, term, results, killer, box, outputs, sent>>
<1>1. chan \in Seq(Message) /\ chan # <<>> /\ chan' = Tail(chan)
  BY DEF Shape, Types, Receive
<1>2. /\ 1 \in 1..Len(chan) /\ Head(chan) = chan[1]
      /\ chan' \in Seq(Message) /\ Len(chan') = Len(chan) - 1
      /\ \A n \in 1..Len(chan') : chan'[n] = chan[n + 1] /\ n + 1 \in 1..Len(chan) /\ n + 1 # 1
  BY <1>1
<1>3. chan[1].index \in Execs /\ chan[1].result \in Result
  BY <1>2, ChanFacts
<1>4. [Idle EXCEPT !.todo = IF chan[1].result.status = "Success" THEN {} ELSE ToKill(chan[1].index)]
        \in KillState
  BY DEF Idle, KillState, ToKill
<1>5. /\ manager' \in ManagerState
      /\ manager'.at = "kill" /\ manager'.index = chan[1].index
      /\ manager'.result = chan[1].result
      /\ manager'.kill.target = 0
      /\ manager'.kill.todo = IF chan[1].result.status = "Success" THEN {} ELSE ToKill(chan[1].index)
  BY <1>2, <1>3, <1>4 DEF Receive, ManagerState, Idle
<1> QED  BY <1>2, <1>3, <1>5 DEF Receive, procVars

LEMMA ReceiveShape == ASSUME Shape, Receive PROVE Shape'
<1>1. Execs' = Execs /\ Message' = Message
  BY DEF Execs, Message, Receive
<1>2. Types'
  BY <1>1, ReceiveFacts DEF Shape, Types, ManagerState, KillState
<1>3. EndsAreKnown'
  BY <1>1, ReceiveFacts DEF Shape, EndsAreKnown
<1>4. OneResult'
  <2>1. \A m, n \in 1..Len(chan') : chan'[m].index = chan'[n].index => m + 1 = n + 1
    BY ReceiveFacts DEF Shape, OneResult
  <2>2. \A m, n \in 1..Len(chan') : m + 1 = n + 1 => m = n
    OBVIOUS
  <2>3. \A n \in 1..Len(chan') : chan'[n].index # chan[1].index
    BY ReceiveFacts DEF Shape, OneResult
  <2>4. \A n \in 1..Len(chan') : /\ thread[chan'[n].index] = "over"
                                 /\ results[chan'[n].index] = NoResult
    BY ReceiveFacts DEF Shape, OneResult
  <2>5. thread[chan[1].index] = "over" /\ results[chan[1].index] = NoResult
    BY ReceiveFacts DEF Shape, OneResult
  <2>6. manager'.at \notin {"join"} \cup Closed
    BY ReceiveFacts DEF Closed
  <2> QED  BY <1>1, <2>1, <2>2, <2>3, <2>4, <2>5, <2>6, ReceiveFacts DEF Shape, OneResult
<1> QED  BY <1>2, <1>3, <1>4 DEF Shape

(* The rest of the manager moves on when every result is there. *)
MovesOn == SendDone \/ AskFiles \/ FilesSent \/ Reset

LEMMA CollectFacts ==
    ASSUME Shape, Collect
    PROVE  /\ manager.at = "kill" /\ manager.index \in Execs /\ manager.result \in Result
           /\ manager.result # NoResult /\ manager.kill.todo = {} /\ manager.kill.target = 0
           /\ results' = [results EXCEPT ![manager.index] = manager.result]
           /\ results' \in [Execs -> Result \cup {NoResult}]
           /\ manager' \in ManagerState
           /\ manager'.index = manager.index /\ manager'.kill = manager.kill
           /\ manager'.result = manager.result
           /\ manager'.at = IF \E e \in Execs \ {manager.index} : results[e] = NoResult
                            THEN "receive" ELSE "join"
           /\ UNCHANGED <<group, thread, proc, raw, pid, tried, term, chan, killer, sent>>
<1>1. /\ manager.at = "kill" /\ manager.index \in Execs /\ manager.result \in Result
      /\ manager.kill.todo = {} /\ manager.kill.target = 0
  BY DEF Collect, Killed, Shape, OneResult
<1>2. manager.result # NoResult
  BY <1>1 DEF Result, Status, NoResult
<1>3. results' = [results EXCEPT ![manager.index] = manager.result]
  BY DEF Collect
<1>4. results' \in [Execs -> Result \cup {NoResult}]
  BY <1>1, <1>3 DEF Shape, Types
<1>5. manager \in ManagerState
  BY DEF Shape, Types, ManagerState, KillState
<1>6. PICK x \in {"receive", "join"} :
        /\ manager' = [manager EXCEPT !.at = x]
        /\ x = IF \E e \in Execs \ {manager.index} : results[e] = NoResult THEN "receive" ELSE "join"
  BY DEF Collect
<1>7. /\ manager' \in ManagerState /\ manager'.at = x
      /\ manager'.index = manager.index /\ manager'.kill = manager.kill
      /\ manager'.result = manager.result
  BY <1>5, <1>6 DEF ManagerState
<1> QED  BY <1>1, <1>2, <1>3, <1>4, <1>6, <1>7 DEF Collect, procVars

LEMMA CollectShape == ASSUME Shape, Collect PROVE Shape'
<1>1. Execs' = Execs /\ Message' = Message
  BY DEF Execs, Message, Collect
<1>2. Types'
  BY <1>1, CollectFacts DEF Shape, Types, ManagerState, KillState
<1>3. EndsAreKnown'
  BY <1>1, CollectFacts DEF Shape, EndsAreKnown
<1>4. OneResult'
  <2>1. /\ \A e \in Execs : results'[e] = IF e = manager.index THEN manager.result ELSE results[e]
        /\ manager'.at # "kill" /\ manager'.at \notin Closed
        /\ thread[manager.index] = "over"
    BY CollectFacts DEF Shape, OneResult, Types, Closed
  <2>2. \A e \in Execs : results'[e] # NoResult => thread'[e] = "over"
    BY <2>1, CollectFacts DEF Shape, OneResult
  <2>3. \A n \in 1..Len(chan) : thread[chan[n].index] = "over" /\ results'[chan[n].index] = NoResult
    BY <2>1, CollectFacts, ChanFacts DEF Shape, OneResult
  <2>4. manager'.at = "join" => \A e \in Execs : results'[e] # NoResult
    BY <2>1, CollectFacts
  <2> QED  BY <1>1, <2>1, <2>2, <2>3, <2>4, CollectFacts DEF Shape, OneResult
<1> QED  BY <1>2, <1>3, <1>4 DEF Shape

LEMMA MovesOnFacts ==
    ASSUME Shape, MovesOn
    PROVE  /\ manager.at \in {"join", "finalize", "send", "reset"}
           /\ manager' \in ManagerState /\ manager'.at \in Closed
           /\ manager'.index = manager.index /\ manager'.kill = manager.kill
           /\ UNCHANGED <<group, thread, proc, raw, pid, tried, term, chan, results, killer,
                          outputs, sent>>
<1>1. manager \in ManagerState
  BY DEF Shape, Types, ManagerState, KillState
<1>2. PICK x \in Closed : manager' = [manager EXCEPT !.at = x]
  BY DEF MovesOn, SendDone, AskFiles, FilesSent, Reset, Closed
<1>3. /\ manager' \in ManagerState /\ manager'.at \in Closed
      /\ manager'.index = manager.index /\ manager'.kill = manager.kill
  BY <1>1, <1>2 DEF ManagerState
<1> QED  BY <1>3 DEF MovesOn, SendDone, AskFiles, FilesSent, Reset, procVars

LEMMA MovesOnShape == ASSUME Shape, MovesOn PROVE Shape'
<1>1. Execs' = Execs /\ Message' = Message
  BY MovesOnFacts DEF Execs, Message
<1>2. Types'
  BY <1>1, MovesOnFacts DEF Shape, Types, ManagerState, KillState
<1>3. EndsAreKnown'
  BY <1>1, MovesOnFacts DEF Shape, EndsAreKnown
<1>4. OneResult'
  BY <1>1, MovesOnFacts DEF Shape, OneResult, Closed
<1> QED  BY <1>2, <1>3, <1>4 DEF Shape

LEMMA SendFileShape == ASSUME Shape, NEW e \in Execs, SendFile(e) PROVE Shape'
<1>1. /\ Execs' = Execs /\ Message' = Message
      /\ UNCHANGED <<thread, proc, raw, pid, tried, term, chan, manager, results, killer>>
  BY DEF Execs, Message, SendFile, procVars
<1> QED  BY <1>1 DEF Shape, Types, EndsAreKnown, OneResult

(* Every state has the shape. *)
LEMMA InitShape == Init => Shape
<1> SUFFICES ASSUME Init PROVE Shape
  OBVIOUS
<1>1. /\ thread \in [Execs -> {"start", "spawn", "wait", "ended", "over"}]
      /\ proc \in [Execs -> {"none", "up", "open", "dead", "closed"}]
      /\ raw \in [Execs -> [end : RawEnd \cup {"none"}, over : BOOLEAN]]
      /\ pid \in [Execs -> BOOLEAN] /\ tried \in [Execs -> BOOLEAN] /\ term \in [Execs -> BOOLEAN]
      /\ results \in [Execs -> Result \cup {NoResult}]
  BY DEF Init
<1>2. chan \in Seq(Message)
  BY DEF Init
<1>3. Idle \in KillState
  BY DEF Idle, KillState
<1>4. manager \in ManagerState /\ manager.at = "receive"
  BY <1>3 DEF Init, ManagerState
<1>5. killer \in [at : {"idle", "killing", "done"}, kill : KillState]
  BY <1>3 DEF Init
<1>6. Types
  BY <1>1, <1>2, <1>4, <1>5 DEF Types, ManagerState, KillState
<1>7. EndsAreKnown
  BY DEF Init, EndsAreKnown
<1>8. OneResult
  BY <1>4 DEF Init, OneResult, Closed
<1> QED  BY <1>6, <1>7, <1>8 DEF Shape

LEMMA NextShape == Shape /\ [Next]_vars => Shape'
<1>1. ASSUME Shape, UNCHANGED vars PROVE Shape'
  BY <1>1 DEF vars, Shape, Types, EndsAreKnown, OneResult, Execs, Message
<1> QED  BY <1>1, BoxStepShape, SendShape, KillerShape, ReceiveShape, ManagerKillShape,
            CollectShape, MovesOnShape, SendFileShape DEF Next, BoxStep, MovesOn

-----------------------------------------------------------------------------
(* The directories. *)
LEMMA InitBox == Init => BoxInv
<1> SUFFICES ASSUME Init PROVE BoxInv
  OBVIOUS
<1>1. \A e \in Execs : box[e] = Users /\ outputs[e] = "none" /\ sent[e] = "none" /\ thread[e] = "start"
  BY DEF Init, NewBox, Users
<1>2. manager.at = "receive"
  BY DEF Init
<1>3. BoxTypes
  BY DEF BoxTypes, Init, NewBox, Users
<1> QED  BY <1>1, <1>2, <1>3 DEF BoxInv, WorkerHasBox, JoinedThreads, BoxInUse, Users, Closed

(* A step that leaves the directories, and the threads that are over, alone. *)
LEMMA BoxAlone ==
    ASSUME BoxInv, UNCHANGED <<group, box, outputs, sent>>,
           DOMAIN thread' = Execs,
           \A e \in Execs : thread'[e] = "over" <=> thread[e] = "over",
           manager'.at = manager.at \/ (manager.at # "over" /\ manager'.at \notin Closed)
    PROVE  BoxInv'
<1>1. Execs' = Execs
  BY DEF Execs
<1>2. manager'.at # "over" => manager.at # "over"
  BY DEF Closed
<1>3. manager'.at \in Closed => manager.at \in Closed
  OBVIOUS
<1>4. manager'.at = "over" => manager.at = "over"
  BY DEF Closed
<1> QED  BY <1>1, <1>2, <1>3, <1>4 DEF BoxInv, BoxTypes, WorkerHasBox, JoinedThreads, BoxInUse

LEMMA SendBox == ASSUME Shape, BoxInv, NEW e \in Execs, SendResult(e) PROVE BoxInv'
<1>1. /\ Execs' = Execs /\ UNCHANGED <<outputs, sent, manager>>
      /\ box' = [box EXCEPT ![e] = box[e] \ {"thread"}]
      /\ thread[e] = "ended" /\ thread' = [thread EXCEPT ![e] = "over"]
  BY DEF Execs, SendResult, Drop
<1>2. manager.at \notin Closed
  BY <1>1 DEF BoxInv, JoinedThreads
<1>3. BoxTypes'
  BY <1>1 DEF BoxInv, BoxTypes
<1>4. WorkerHasBox'
  BY <1>1 DEF BoxInv, BoxTypes, WorkerHasBox
<1>5. JoinedThreads'
  BY <1>1, <1>2 DEF BoxInv, BoxTypes, JoinedThreads
<1>6. BoxInUse'
  BY <1>1, <1>2 DEF BoxInv, BoxInUse, Closed
<1> QED  BY <1>3, <1>4, <1>5, <1>6 DEF BoxInv

LEMMA CollectBox == ASSUME Shape, BoxInv, Collect PROVE BoxInv'
<1>1. Execs' = Execs /\ UNCHANGED <<thread, sent>>
  BY CollectFacts DEF Execs
<1>2. manager.at = "kill" /\ manager'.at \notin Closed /\ manager.index \in Execs
  BY CollectFacts DEF Closed
<1>3. "worker" \in box[manager.index]
  BY <1>2 DEF BoxInv, WorkerHasBox
<1>4. \/ box' = box
      \/ box' = [box EXCEPT ![manager.index] = box[manager.index] \ {"manager"}]
  BY DEF Collect, Drop
<1>5. outputs' = outputs \/ outputs' = [outputs EXCEPT ![manager.index] = "content"]
  BY <1>3 DEF Collect, get_result_outputs, ReadFrom, Present
<1>6. BoxTypes'
  BY <1>1, <1>4, <1>5 DEF BoxInv, BoxTypes
<1>7. WorkerHasBox'
  BY <1>1, <1>2, <1>4 DEF BoxInv, BoxTypes, WorkerHasBox
<1>8. JoinedThreads'
  BY <1>1, <1>2, <1>4 DEF BoxInv, BoxTypes, JoinedThreads
<1>9. BoxInUse'
  BY <1>1, <1>2, <1>5 DEF BoxInv, BoxTypes, BoxInUse, Closed
<1> QED  BY <1>6, <1>7, <1>8, <1>9 DEF BoxInv

LEMMA MovesOnBox == ASSUME Shape, BoxInv, MovesOn PROVE BoxInv'
<1>1. Execs' = Execs /\ UNCHANGED <<thread, outputs, sent>>
  BY MovesOnFacts DEF Execs
<1>2. \A e \in Execs : thread[e] = "over"
  BY DEF MovesOn, SendDone, AskFiles, FilesSent, Reset, BoxInv, JoinedThreads, Closed
<1>3. manager \in ManagerState
  BY DEF Shape, Types, ManagerState, KillState
<1>4. CASE Reset
  <2>1. box' = [e \in Execs |-> box[e] \ {"worker", "manager"}]
    BY <1>4 DEF Reset, Drop
  <2>2. \A e \in Execs : box[e] \ {"worker", "manager"} = {}
    BY <1>2 DEF BoxInv, BoxTypes, JoinedThreads, Users
  <2>3. manager'.at = "over"
    BY <1>3, <1>4 DEF Reset, ManagerState
  <2> QED  BY <1>1, <1>2, <2>1, <2>2, <2>3
           DEF BoxInv, BoxTypes, WorkerHasBox, JoinedThreads, BoxInUse
<1>5. CASE SendDone \/ AskFiles \/ FilesSent
  <2>1. box' = box /\ manager.at # "over" /\ manager'.at # "over"
    BY <1>3, <1>5 DEF SendDone, AskFiles, FilesSent, ManagerState
  <2> QED  BY <1>1, <1>2, <2>1
           DEF BoxInv, BoxTypes, WorkerHasBox, JoinedThreads, BoxInUse
<1> QED  BY <1>4, <1>5 DEF MovesOn

LEMMA SendFileBox == ASSUME Shape, BoxInv, NEW e \in Execs, SendFile(e) PROVE BoxInv'
<1>1. /\ Execs' = Execs /\ UNCHANGED <<thread, box, outputs, manager>>
      /\ manager.at = "send" /\ sent' = [sent EXCEPT ![e] = ReadFrom(e)]
  BY DEF Execs, SendFile, procVars
<1>2. ReadFrom(e) = "content"
  BY <1>1 DEF ReadFrom, Present, BoxInv, WorkerHasBox
<1> QED  BY <1>1, <1>2 DEF BoxInv, BoxTypes, WorkerHasBox, JoinedThreads, BoxInUse

LEMMA NextBox == Shape /\ BoxInv /\ [Next]_vars => BoxInv'
<1> SUFFICES ASSUME Shape, BoxInv, [Next]_vars PROVE BoxInv'
  OBVIOUS
<1>0. DOMAIN thread = Execs
  BY DEF BoxInv, BoxTypes
<1>1. ASSUME NEW e \in Execs, BoxStep(e) PROVE BoxInv'
  <2>1. /\ UNCHANGED <<group, box, outputs, sent, manager>> /\ DOMAIN thread' = Execs
        /\ \A f \in Execs : thread'[f] = "over" <=> thread[f] = "over"
    BY <1>1, BoxStepFacts
  <2> QED  BY <2>1, BoxAlone
<1>2. CASE KillJob \/ KillJobStep
  <2>1. UNCHANGED <<group, box, outputs, sent, thread, manager>>
    BY <1>2 DEF KillJob, KillJobStep, procVars
  <2> QED  BY <1>0, <2>1, BoxAlone
<1>3. CASE Receive
  <2>1. /\ UNCHANGED <<group, box, outputs, sent, thread>>
        /\ manager.at # "over" /\ manager'.at \notin Closed
    BY <1>3, ReceiveFacts DEF Closed
  <2> QED  BY <1>0, <2>1, BoxAlone
<1>4. CASE ManagerKill
  <2>1. UNCHANGED <<group, box, outputs, sent, thread>>
    BY <1>4 DEF ManagerKill, procVars
  <2>2. manager \in ManagerState
    BY DEF Shape, Types, ManagerState, KillState
  <2>3. manager'.at = manager.at
    BY <1>4, <2>2, ManagerKillFacts DEF ManagerState
  <2> QED  BY <1>0, <2>1, <2>3, BoxAlone
<1>5. CASE UNCHANGED vars
  BY <1>0, <1>5, BoxAlone DEF vars
<1> QED  BY <1>1, <1>2, <1>3, <1>4, <1>5, SendBox, CollectBox, MovesOnBox, SendFileBox
         DEF Next, BoxStep, MovesOn

(* The directory of a sandbox is there whenever the manager reads an output of *)
(* it or sends one to the server, and is dropped when the manager is over, for *)
(* every group and every order of the ends, the kills and the results.          *)
THEOREM BoxesStayInUse == Spec => []BoxInUse
<1>1. Init => Shape /\ BoxInv
  BY InitShape, InitBox
<1>2. Shape /\ BoxInv /\ [Next]_vars => Shape' /\ BoxInv'
  BY NextShape, NextBox
<1>3. Shape /\ BoxInv => BoxInUse
  BY DEF BoxInv
<1> QED  BY <1>1, <1>2, <1>3, PTL DEF Spec

-----------------------------------------------------------------------------
(* The blame. *)

(* As long as nobody is told, a process that is killed went over its limit. *)
LEMMA NobodyToldBoxStep ==
    ASSUME Shape, NEW e \in Execs, BoxStep(e), NobodyTold
    PROVE  \A f \in Execs : raw'[f].end = "killed" => raw'[f].over
<1>1. \A f \in Execs \ {e} : raw'[f] = raw[f]
  BY BoxStepFacts
<1>2. raw \in [Execs -> [end : RawEnd \cup {"none"}, over : BOOLEAN]]
  BY DEF Shape, Types
<1>3. raw'[e].end = "killed" => raw'[e].over
  <2>1. CASE RunSandbox(e)
    <3>1. \/ raw' = raw
          \/ \E x \in {"exit0", "failure", "error"} : raw' = [raw EXCEPT ![e] = Raw(x, FALSE)]
      BY <2>1 DEF RunSandbox, TypstResults
    <3> QED  BY <1>2, <3>1 DEF Raw, NobodyTold
  <2>2. CASE Spawn(e) \/ StorePid(e) \/ Open(e) \/ Wait(e)
    BY <2>2 DEF Spawn, StorePid, Open, Wait, NobodyTold
  <2>3. CASE Ends(e)
    BY <1>2, <2>3 DEF Ends, Dies, Raw
  <2>4. CASE LimitHit(e)
    BY <1>2, <2>4 DEF LimitHit, Dies, Raw
  <2>5. CASE Terminated(e)
    BY <2>5 DEF Terminated, NobodyTold
  <2>6. CASE SandboxFails(e)
    BY <1>2, <2>6 DEF SandboxFails, Dies, Raw
  <2> QED  BY <2>1, <2>2, <2>3, <2>4, <2>5, <2>6 DEF BoxStep
<1> QED  BY <1>1, <1>3 DEF NobodyTold

LEMMA BoxStepBlame == ASSUME Shape, BlameInv, NEW e \in Execs, BoxStep(e) PROVE BlameInv'
<1>1. Execs' = Execs /\ UNCHANGED <<tried, term, chan, manager, results, killer>>
  BY BoxStepFacts DEF Execs
<1>2. NobodyTold => NobodyTold'
  BY <1>1, NobodyToldBoxStep DEF NobodyTold
<1>3. \A f \in Execs : Spared(f) => Spared(f)'
  BY <1>1 DEF Spared
<1> QED  BY <1>1, <1>2, <1>3 DEF BlameInv

(* Its result is not shown as one of a victim, then. *)
LEMMA SendBlame == ASSUME Shape, BlameInv, NEW e \in Execs, SendResult(e) PROVE BlameInv'
<1>1. Execs' = Execs /\ UNCHANGED <<raw, tried, term, manager, results, killer>>
  BY DEF Execs, SendResult
<1>2. PICK r \in Result :
             /\ r = [status |-> StatusOf(raw[e]), was_killed |-> WasKilled(raw[e].end, tried[e])]
             /\ Len(chan) \in Nat /\ Len(chan') = Len(chan) + 1
             /\ \A n \in 1..Len(chan) : chan'[n] = chan[n]
             /\ chan'[Len(chan) + 1] = [index |-> e, result |-> r]
  BY SendFacts
<1>3. ASSUME NobodyTold PROVE NobodyTold'
  <2>1. raw[e] \in [end : RawEnd, over : BOOLEAN]
    BY DEF Shape, Types, EndsAreKnown, SendResult
  <2>2. WasKilled(raw[e].end, tried[e]) => raw[e].end = "killed" /\ raw[e].over
    BY <1>3 DEF WasKilled, NobodyTold
  <2>3. Blamed(r)
    BY <1>2, <2>1, <2>2, StatusFacts DEF Blamed
  <2>4. \A n \in 1..Len(chan') : Blamed(chan'[n].result)
    <3>1. \A n \in 1..Len(chan') : n \in 1..Len(chan) \/ n = Len(chan) + 1
      BY <1>2
    <3>2. chan'[Len(chan) + 1].result = r
      BY <1>2
    <3> QED  BY <1>2, <1>3, <2>3, <3>1, <3>2 DEF NobodyTold
  <2> QED  BY <1>1, <1>3, <2>4 DEF NobodyTold
<1>4. \A f \in Execs : Spared(f) => Spared(f)'
  BY <1>1 DEF Spared
<1> QED  BY <1>1, <1>3, <1>4 DEF BlameInv

(* The manager kills the others when it receives a failure. *)
LEMMA ReceiveBlame == ASSUME Shape, BlameInv, Receive PROVE BlameInv'
<1>1. Execs' = Execs
  BY ReceiveFacts DEF Execs
<1>2. ASSUME NobodyTold, chan[1].result.status = "Success" PROVE NobodyTold'
  <2>1. \A n \in 1..Len(chan') : Blamed(chan'[n].result)
    BY <1>2, ReceiveFacts DEF NobodyTold
  <2> QED  BY <1>1, <1>2, <2>1, ReceiveFacts DEF NobodyTold
<1>3. ASSUME NobodyTold, chan[1].result.status # "Success",
             NEW e \in Execs, chan[1].index = e
      PROVE  Spared(e)'
  <2>1. Blamed(manager'.result) /\ manager'.result.status # "Success"
    BY <1>3, ReceiveFacts DEF NobodyTold
  <2>2. e \notin manager'.kill.todo
    BY <1>3, ReceiveFacts DEF ToKill
  <2>3. ~term'[e]
    BY <1>3, ReceiveFacts DEF NobodyTold
  <2>4. manager'.kill.target = 0 /\ manager'.at = "kill" /\ manager'.index = e
    BY <1>3, ReceiveFacts
  <2> QED  BY <2>1, <2>2, <2>3, <2>4 DEF Spared, Blamed
<1>4. \A f \in Execs : Spared(f) => Spared(f)'
  <2> SUFFICES ASSUME NEW f \in Execs, Spared(f) PROVE Spared(f)'
    OBVIOUS
  <2>1. results[f] # NoResult /\ results[f].status # "Success" /\ Blamed(results[f]) /\ ~term[f]
    BY ReceiveFacts DEF Spared
  <2>2. f \notin manager'.kill.todo
    BY <2>1, ReceiveFacts DEF ToKill
  <2> QED  BY <2>1, <2>2, ReceiveFacts DEF Spared
<1> QED  BY <1>1, <1>2, <1>3, <1>4, ReceiveFacts DEF BlameInv

(* It does not kill the one that failed. *)
LEMMA ManagerKillBlame == ASSUME Shape, BlameInv, ManagerKill PROVE BlameInv'
<1>1. Execs' = Execs /\ UNCHANGED <<results, killer, chan, raw>>
  BY DEF Execs, ManagerKill, procVars
<1>2. manager \in ManagerState
  BY DEF Shape, Types, ManagerState, KillState
<1>3. PICK l \in KillState : /\ manager' = [manager EXCEPT !.kill = l]
                             /\ manager.kill \in KillState /\ KillStep(manager.kill, l)
  BY ManagerKillFacts
<1>4. /\ manager'.at = manager.at /\ manager'.index = manager.index
      /\ manager'.result = manager.result /\ manager'.kill = l
  BY <1>2, <1>3 DEF ManagerState
<1>5. /\ l.todo \subseteq manager.kill.todo
      /\ l.target # 0 => l.target \in manager.kill.todo \cup {manager.kill.target}
      /\ \A e \in Execs : term'[e] # term[e] => manager.kill.target # 0 /\ manager.kill.target = e
  BY <1>3, KillFacts
<1>6. ~NobodyTold
  BY <1>3 DEF NobodyTold, KillStep, KillNext, KillLook
<1>7. \A e \in Execs : Spared(e) => Spared(e)'
  <2> SUFFICES ASSUME NEW e \in Execs, Spared(e) PROVE Spared(e)'
    OBVIOUS
  <2>1. e \notin manager'.kill.todo
    BY <1>4, <1>5 DEF Spared
  <2>2. manager'.kill.target # 0 => manager'.kill.target # e
    BY <1>4, <1>5 DEF Spared
  <2>3. ~term'[e]
    BY <1>5 DEF Spared
  <2> QED  BY <1>1, <1>4, <2>1, <2>2, <2>3 DEF Spared, Blamed
<1> QED  BY <1>1, <1>6, <1>7 DEF BlameInv

LEMMA CollectBlame == ASSUME Shape, BlameInv, Collect PROVE BlameInv'
<1>1. Execs' = Execs
  BY CollectFacts DEF Execs
<1>2. \A e \in Execs : results'[e] = IF e = manager.index THEN manager.result ELSE results[e]
  BY CollectFacts DEF Shape, Types
<1>3. manager'.at # "kill"
  BY CollectFacts
<1>4. ASSUME NobodyTold PROVE NobodyTold'
  <2>1. manager.result.status = "Success"
    BY <1>4, CollectFacts DEF NobodyTold
  <2> QED  BY <1>1, <1>2, <1>3, <1>4, <2>1, CollectFacts DEF NobodyTold
<1>5. ASSUME NEW e \in Execs, Spared(e) PROVE Spared(e)'
  <2>1. e # manager.index => results'[e] # NoResult /\ results'[e].status # "Success" /\ Blamed(results'[e])
    BY <1>2, <1>5 DEF Spared
  <2>2. ASSUME e = manager.index
        PROVE  results'[e] # NoResult /\ results'[e].status # "Success" /\ Blamed(results'[e])
    <3>1. results[e] = NoResult
      BY <2>2, CollectFacts DEF Shape, OneResult
    <3>2. results'[e] = manager.result
      BY <1>2, <2>2
    <3> QED  BY <1>5, <3>1, <3>2, CollectFacts DEF Spared
  <2>3. ~term'[e] /\ e \notin manager'.kill.todo /\ manager'.kill.target = 0
    BY <1>5, CollectFacts DEF Spared
  <2> QED  BY <2>1, <2>2, <2>3 DEF Spared, Blamed
<1> QED  BY <1>1, <1>4, <1>5, CollectFacts DEF BlameInv

LEMMA NextBlame == Shape /\ BlameInv /\ [Next]_vars => BlameInv'
<1> SUFFICES ASSUME Shape, BlameInv, [Next]_vars PROVE BlameInv'
  OBVIOUS
<1>1. CASE MovesOn
  <2>1. manager.at # "kill" /\ manager'.at # "kill"
    BY <1>1, MovesOnFacts DEF Closed
  <2>2. Execs' = Execs
    BY <1>1, MovesOnFacts DEF Execs
  <2>3. NobodyTold => NobodyTold'
    BY <1>1, <2>1, <2>2, MovesOnFacts DEF NobodyTold
  <2>4. \A e \in Execs : Spared(e) => Spared(e)'
    BY <1>1, <2>1, MovesOnFacts DEF Spared
  <2> QED  BY <1>1, <2>2, <2>3, <2>4, MovesOnFacts DEF BlameInv
<1>2. CASE UNCHANGED vars \/ \E e \in Execs : SendFile(e)
  <2>1. UNCHANGED <<group, raw, tried, term, chan, manager, results, killer>>
    BY <1>2 DEF vars, SendFile, procVars
  <2> QED  BY <2>1 DEF BlameInv, NobodyTold, Spared, Execs
<1>3. CASE KillJob \/ KillJobStep
  <2>1. killer \in [at : {"idle", "killing", "done"}, kill : KillState]
    BY DEF Shape, Types, KillState
  <2>2. CASE KillJob
    BY <2>2 DEF KillJob, BlameInv
  <2>3. CASE KillJobStep
    <3>1. \E l : killer' = [killer EXCEPT !.kill = l] \/ killer' = [killer EXCEPT !.at = "done"]
      BY <2>3 DEF KillJobStep
    <3>2. killer'.at # "idle"
      BY <2>1, <2>3, <3>1 DEF KillJobStep
    <3> QED  BY <3>2 DEF BlameInv
  <2> QED  BY <1>3, <2>2, <2>3
<1> QED  BY <1>1, <1>2, <1>3, BoxStepBlame, SendBlame, ReceiveBlame, ManagerKillBlame, CollectBlame
         DEF Next, BoxStep, MovesOn

LEMMA InitBlame == Init => BlameInv
<1> SUFFICES ASSUME Init PROVE NobodyTold
  BY DEF BlameInv
<1>1. /\ \A e \in Execs : ~tried[e] /\ ~term[e] /\ results[e] = NoResult /\ raw[e].end = "none"
      /\ manager.kill.todo = {} /\ manager.kill.target = 0 /\ manager.at = "receive"
      /\ Len(chan) = 0
  BY DEF Init, Idle
<1> QED  BY <1>1 DEF NobodyTold

(* When a group that nobody was told to kill has failed, some execution that   *)
(* was not sent a SIGTERM has a failure that is not shown as a kill, unless it *)
(* went over a limit: the culprit is never taken for one of its victims, for    *)
(* every group, every order of the results and every race of the kills.          *)
THEOREM FailureIsBlamed == Spec => []SomebodyBlamed
<1>1. Init => Shape /\ BlameInv
  BY InitShape, InitBlame
<1>2. Shape /\ BlameInv /\ [Next]_vars => Shape' /\ BlameInv'
  BY NextShape, NextBlame
<1>3. ASSUME Shape, BlameInv, manager.at \in {"join", "finalize", "send", "reset", "over"},
             killer.at = "idle", NEW e \in Execs, results[e].status # "Success"
      PROVE  \E f \in Execs : /\ ~term[f] /\ results[f].status # "Success"
                              /\ results[f].was_killed => results[f].status = "LimitExceeded"
  <2>1. results[e] # NoResult
    BY <1>3 DEF Shape, OneResult, Closed
  <2>2. ~NobodyTold
    BY <1>3, <2>1 DEF NobodyTold
  <2>3. manager.at # "kill"
    BY <1>3
  <2> QED  BY <1>3, <2>2, <2>3 DEF BlameInv, Spared, Blamed
<1>4. Shape /\ BlameInv => SomebodyBlamed
  BY <1>3 DEF SomebodyBlamed
<1> QED  BY <1>1, <1>2, <1>4, PTL DEF Spec
=============================================================================
