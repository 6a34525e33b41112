-------------------------- MODULE ControllerProofs --------------------------
(***************************************************************************)
(* The keeper and the worker agree on the number of each sandbox, and the    *)
(* result of a controlled job is that of all its processes, for every limit   *)
(* on the processes and whatever the controller asks.                         *)
(***************************************************************************)
EXTENDS Controller, TLAPS

ThreadState == {"none", "starting", "pushed", "waiting", "merged", "ended"}
Said        == {"said ok", "said fail"}
BoxState    == {"none", "running"} \cup Outcome \cup Said
Early       == {"opening", "reading", "waiting"}
Late        == {"terminating", "killing", "joining", "answered", "gone"}

Types ==
    /\ thread \in [Proc -> ThreadState]
    /\ mailbox \in [Proc -> {"none"} \cup Outcome]
    /\ box \in [Proc -> BoxState]
    /\ senders_and_pids \in Seq(Proc) /\ lines \in Seq(Proc) /\ started \in Seq(Proc)
    /\ said \in Seq(Line)
    /\ sandboxes \subseteq Proc /\ pipes \subseteq Proc
    /\ next_process_index \in Nat
    /\ manager \in Early \cup Late
    /\ opened \in BOOLEAN /\ child_stdin \in BOOLEAN

(* The numbers are given in the order of the processes: to whom sends a         *)
(* configuration, to the configurations on their way, to those that arrived.    *)
Numbered ==
    /\ \A n \in 1..Len(senders_and_pids) : senders_and_pids[n] = n - 1
    /\ \A n \in 1..Len(started) : started[n] = n - 1
    /\ \A n \in 1..Len(lines) : lines[n] = Len(started) + n - 1
    /\ Len(senders_and_pids) <= Limit + 1

(* A thread that has not written its configuration is the last one. *)
LastIsStarting ==
    \A i \in Proc :
        /\ i < Len(senders_and_pids) => thread[i] # "none"
        /\ thread[i] = "starting" => Len(senders_and_pids) = i
        /\ thread[i] = "pushed" => Len(senders_and_pids) = i + 1
WrittenUnlessPushed ==
    Len(started) + Len(lines) =
        IF \E i \in Proc : thread[i] = "pushed" THEN Len(senders_and_pids) - 1
        ELSE Len(senders_and_pids)

(* The manager starts a process when the one before it has its pipes, or has     *)
(* opened its FIFOs if it is the controller.                                      *)
OneAtATime ==
    /\ \A i \in Proc : thread[i] \in {"starting", "pushed"} =>
            /\ manager \in {"opening", "waiting"}
            /\ next_process_index = i
    /\ manager \in Early => /\ next_process_index <= Limit
                            /\ sandboxes = 0..next_process_index
                            /\ Len(senders_and_pids) <= next_process_index + 1
                            /\ child_stdin
    /\ manager = "opening" => next_process_index = 0
    /\ manager = "reading" => Len(senders_and_pids) = next_process_index + 1
    /\ opened => started # <<>>

(* What the keeper says is about a process it has started. *)
HeardIsStarted ==
    /\ \A n \in Proc : box[n] # "none" <=> n < Len(started)
    /\ \A m \in 1..Len(said) : said[m].num < Len(started)
    /\ \A n \in pipes : n < Len(started)

(* The end of a process is said once, and once it was heard nothing changes.     *)
(* A process that the keeper never heard of has failed, and so has one whose      *)
(* configuration is written when the keeper is gone.                              *)
NotRead(i) == keeper = "failed" /\ i >= Len(started)
SaidOnce ==
    /\ \A m \in 1..Len(said) : said[m].type = "DONE" =>
            box[said[m].num] \in Said /\ mailbox[said[m].num] = "none"
    /\ \A m, n \in 1..Len(said) :
            said[m].type = "DONE" /\ said[n].type = "DONE" /\ said[m].num = said[n].num => m = n
    /\ \A i \in Proc : mailbox[i] # "none" =>
            box[i] \in Said \/ i >= Len(senders_and_pids) \/ NotRead(i)
    /\ \A i \in Proc : thread[i] \in {"none", "starting", "pushed"} => mailbox[i] = "none"

(* The threads that have merged their results, and what they have merged. *)
MergedResults ==
    /\ 0 \in sandboxes
    /\ \A i \in Proc : thread[i] # "none" <=> i \in sandboxes
    /\ \A i \in Proc : thread[i] \in {"merged", "ended"} => mailbox[i] # "none"
    /\ thread[0] \in {"merged", "ended"} => controller_result = mailbox[0]
    /\ solution_result = "ok" <=>
            \A i \in Proc \ {0} : thread[i] \in {"merged", "ended"} => mailbox[i] = "ok"
    /\ manager = "answered" => \A i \in sandboxes : thread[i] = "ended"

IInv == /\ Types
        /\ Numbered /\ LastIsStarting /\ WrittenUnlessPushed /\ OneAtATime
        /\ HeardIsStarted /\ SaidOnce /\ MergedResults

-----------------------------------------------------------------------------
(* Sequences, at their ends. *)
LEMMA AppendFacts ==
    ASSUME NEW S, NEW s \in Seq(S), NEW e \in S
    PROVE  /\ Append(s, e) \in Seq(S) /\ Len(Append(s, e)) = Len(s) + 1
           /\ \A n \in 1..Len(s) : Append(s, e)[n] = s[n]
           /\ Append(s, e)[Len(s) + 1] = e
  OBVIOUS

LEMMA TailFacts ==
    ASSUME NEW S, NEW s \in Seq(S), s # <<>>
    PROVE  /\ Head(s) = s[1] /\ Head(s) \in S
           /\ Tail(s) \in Seq(S) /\ Len(s) \in Nat \ {0} /\ Len(Tail(s)) = Len(s) - 1
           /\ \A n \in 1..(Len(s) - 1) : Tail(s)[n] = s[n + 1]
  OBVIOUS

LEMMA ProcFacts ==
    ASSUME Types
    PROVE  /\ 0 \in Proc /\ Proc \subseteq Nat
           /\ \A n \in 1..Len(said) : said[n].num \in Proc /\ said[n].type \in {"started", "DONE"}
<1>1. said \in Seq(Line)
  BY DEF Types
<1>2. \A n \in 1..Len(said) : said[n] \in Line
  BY <1>1
<1> QED  BY <1>2, ControllerAssumption DEF Line, Proc

LEMMA LenFacts ==
    ASSUME IInv
    PROVE  /\ Len(senders_and_pids) \in Nat /\ Len(started) \in Nat /\ Len(lines) \in Nat
           /\ Len(started) <= Len(senders_and_pids)
           /\ Len(started) + Len(lines) <= Len(senders_and_pids)
<1>1. Len(senders_and_pids) \in Nat /\ Len(started) \in Nat /\ Len(lines) \in Nat
  BY DEF IInv, Types
<1> QED  BY <1>1 DEF IInv, WrittenUnlessPushed

(* A step that touches nothing of this. *)
proved == <<thread, mailbox, box, senders_and_pids, lines, started, said, sandboxes, pipes,
            next_process_index, manager, opened, child_stdin, solution_result, controller_result, keeper>>
LEMMA Untouched == ASSUME IInv, UNCHANGED proved PROVE IInv'
<1> USE DEF proved, IInv
<1>1. Types' /\ Numbered' /\ LastIsStarting' /\ WrittenUnlessPushed'
  BY DEF Types, Numbered, LastIsStarting, WrittenUnlessPushed
<1>2. OneAtATime'
  BY DEF OneAtATime
<1>3. HeardIsStarted'
  BY DEF HeardIsStarted
<1>4. SaidOnce'
  BY DEF SaidOnce, NotRead
<1>5. MergedResults'
  BY DEF MergedResults
<1> QED  BY <1>1, <1>2, <1>3, <1>4, <1>5

-----------------------------------------------------------------------------
(* The threads.  One that is starting is the only one that is, and its number  *)
(* is the next.                                                                *)
LEMMA StartingFacts ==
    ASSUME IInv, NEW i \in Proc, thread[i] = "starting"
    PROVE  /\ Len(senders_and_pids) = i /\ next_process_index = i
           /\ manager \in {"opening", "waiting"}
           /\ \A j \in Proc \ {i} : thread[j] \notin {"starting", "pushed"}
           /\ Len(started) + Len(lines) = Len(senders_and_pids)
           /\ mailbox[i] = "none"
<1>1. Len(senders_and_pids) = i /\ next_process_index = i /\ manager \in {"opening", "waiting"}
  BY DEF IInv, LastIsStarting, OneAtATime
<1>2. \A j \in Proc \ {i} : thread[j] \notin {"starting", "pushed"}
  BY <1>1 DEF IInv, OneAtATime
<1>3. \A j \in Proc : thread[j] # "pushed"
  BY <1>2
<1> QED  BY <1>1, <1>2, <1>3 DEF IInv, WrittenUnlessPushed, SaidOnce, NotRead

LEMMA PushInv == ASSUME IInv, NEW i \in Proc, RunPush(i) PROVE IInv'
<1>1. /\ Len(senders_and_pids) = i /\ next_process_index = i /\ manager \in {"opening", "waiting"}
      /\ \A j \in Proc \ {i} : thread[j] \notin {"starting", "pushed"}
      /\ Len(started) + Len(lines) = Len(senders_and_pids) /\ mailbox[i] = "none"
  BY StartingFacts DEF RunPush
<1>2. /\ senders_and_pids' \in Seq(Proc) /\ Len(senders_and_pids') = Len(senders_and_pids) + 1
      /\ \A n \in 1..Len(senders_and_pids) : senders_and_pids'[n] = senders_and_pids[n]
      /\ senders_and_pids'[Len(senders_and_pids) + 1] = i
  BY AppendFacts DEF IInv, Types, RunPush
<1>3. /\ thread' \in [Proc -> ThreadState] /\ thread'[i] = "pushed" /\ thread[i] = "starting"
      /\ \A j \in Proc \ {i} : thread'[j] = thread[j]
  BY DEF IInv, Types, RunPush, ThreadState
<1>4. /\ UNCHANGED <<mailbox, box, lines, started, said, sandboxes, pipes>>
      /\ UNCHANGED <<next_process_index, manager, opened, child_stdin, solution_result, controller_result, keeper>>
  BY DEF RunPush, managed, kept, control
<1>5. Len(senders_and_pids) \in Nat /\ Len(started) \in Nat /\ Len(lines) \in Nat /\ Limit \in Nat
      /\ i \in Nat /\ next_process_index \in Nat /\ Proc \subseteq Nat
  BY ControllerAssumption DEF IInv, Types, Proc
<1>6. Types'
  BY <1>2, <1>3, <1>4 DEF IInv, Types
<1>7. Numbered'
  <2>1. Len(senders_and_pids) + 1 <= Limit + 1
    BY <1>1, <1>5 DEF Proc
  <2>2. ASSUME NEW n \in 1..Len(senders_and_pids') PROVE senders_and_pids'[n] = n - 1
    <3>1. CASE n \in 1..Len(senders_and_pids)
      BY <1>2, <3>1 DEF IInv, Numbered
    <3>2. CASE n = Len(senders_and_pids) + 1
      BY <1>1, <1>2, <1>5, <3>2
    <3> QED  BY <1>2, <1>5, <3>1, <3>2
  <2>3. Len(senders_and_pids') <= Limit + 1
    BY <1>2, <2>1
  <2> QED  BY <1>4, <2>2, <2>3 DEF IInv, Numbered
<1>8. LastIsStarting' /\ WrittenUnlessPushed'
  <2>1. \A j \in Proc : j < Len(senders_and_pids') => thread'[j] # "none"
    BY <1>1, <1>2, <1>3, <1>5 DEF IInv, LastIsStarting
  <2> QED  BY <1>1, <1>2, <1>3, <1>4, <1>5, <2>1 DEF LastIsStarting, WrittenUnlessPushed
<1>9. OneAtATime'
  BY <1>1, <1>2, <1>3, <1>4, <1>5 DEF IInv, OneAtATime
<1>10. HeardIsStarted'
  BY <1>4 DEF IInv, HeardIsStarted
<1>11. SaidOnce'
  <2>1. ASSUME NEW j \in Proc, mailbox[j] # "none", box[j] \notin Said, ~NotRead(j)
        PROVE  j >= Len(senders_and_pids')
    <3>1. j # i /\ j >= i /\ Len(senders_and_pids') = i + 1
      BY <1>1, <1>2, <2>1 DEF IInv, SaidOnce, NotRead
    <3> QED  BY <1>5, <3>1
  <2>2. \A j \in Proc : thread'[j] \in {"none", "starting", "pushed"} => mailbox[j] = "none"
    BY <1>1, <1>3 DEF IInv, SaidOnce, NotRead
  <2> QED  BY <1>4, <2>1, <2>2 DEF IInv, SaidOnce, NotRead
<1>12. MergedResults'
  BY <1>1, <1>3, <1>4, ProcFacts DEF IInv, MergedResults
<1> QED  BY <1>6, <1>7, <1>8, <1>9, <1>10, <1>11, <1>12 DEF IInv

LEMMA WriteInv == ASSUME IInv, NEW i \in Proc, RunWrite(i) PROVE IInv'
<1>1. /\ Len(senders_and_pids) = i + 1 /\ next_process_index = i /\ manager \in {"opening", "waiting"}
      /\ Len(started) + Len(lines) = Len(senders_and_pids) - 1
  BY DEF IInv, LastIsStarting, OneAtATime, WrittenUnlessPushed, RunWrite
<1>2. \A j \in Proc \ {i} : thread[j] \notin {"starting", "pushed"}
  BY <1>1 DEF IInv, OneAtATime
<1>3. /\ lines' \in Seq(Proc) /\ Len(lines') = Len(lines) + 1
      /\ \A n \in 1..Len(lines) : lines'[n] = lines[n]
      /\ lines'[Len(lines) + 1] = i
  BY AppendFacts DEF IInv, Types, RunWrite
<1>4. /\ thread' \in [Proc -> ThreadState] /\ thread'[i] = "waiting" /\ thread[i] = "pushed"
      /\ \A j \in Proc \ {i} : thread'[j] = thread[j]
  BY DEF IInv, Types, RunWrite, ThreadState
<1>5. /\ UNCHANGED <<box, senders_and_pids, started, said, sandboxes, pipes>>
      /\ UNCHANGED <<next_process_index, manager, opened, child_stdin, solution_result, controller_result, keeper>>
  BY DEF RunWrite, managed, control
<1>15. /\ mailbox' \in [Proc -> {"none"} \cup Outcome] /\ mailbox[i] = "none"
       /\ \A j \in Proc \ {i} : mailbox'[j] = mailbox[j]
       /\ mailbox'[i] # "none" => keeper = "failed"
  BY <1>4 DEF IInv, Types, SaidOnce, RunWrite, Outcome
<1>6. Len(senders_and_pids) \in Nat /\ Len(started) \in Nat /\ Len(lines) \in Nat /\ Limit \in Nat /\ i \in Nat
  BY ControllerAssumption DEF IInv, Types, Proc
<1>7. Types'
  BY <1>3, <1>4, <1>5, <1>15 DEF IInv, Types
<1>8. Numbered'
  <2>1. ASSUME NEW n \in 1..Len(lines') PROVE lines'[n] = Len(started') + n - 1
    <3>1. CASE n \in 1..Len(lines)
      BY <1>3, <1>5, <3>1 DEF IInv, Numbered
    <3>2. CASE n = Len(lines) + 1
      BY <1>1, <1>3, <1>5, <1>6, <3>2
    <3> QED  BY <1>3, <1>6, <3>1, <3>2
  <2> QED  BY <1>5, <2>1 DEF IInv, Numbered
<1>9. LastIsStarting'
  BY <1>4, <1>5 DEF IInv, LastIsStarting
<1>10. WrittenUnlessPushed'
  BY <1>1, <1>2, <1>3, <1>4, <1>5, <1>6 DEF WrittenUnlessPushed
<1>11. OneAtATime'
  BY <1>4, <1>5 DEF IInv, OneAtATime
<1>12. HeardIsStarted'
  BY <1>5 DEF IInv, HeardIsStarted
<1>13. SaidOnce'
  <2>1. i >= Len(started) /\ \A m \in 1..Len(said) : said[m].num # i
    BY <1>1, <1>6 DEF IInv, HeardIsStarted
  <2> QED  BY <1>4, <1>5, <1>15, <2>1, ProcFacts DEF IInv, SaidOnce, NotRead
<1>14. MergedResults'
  BY <1>4, <1>5, <1>15, ProcFacts DEF IInv, MergedResults
<1> QED  BY <1>7, <1>8, <1>9, <1>10, <1>11, <1>12, <1>13, <1>14 DEF IInv

(* A thread that fails before it pushes leaves its number free, for ever. *)
LEMMA FailsInv == ASSUME IInv, NEW i \in Proc, RunFails(i) PROVE IInv'
<1>1. /\ Len(senders_and_pids) = i /\ next_process_index = i
      /\ \A j \in Proc \ {i} : thread[j] \notin {"starting", "pushed"}
      /\ Len(started) + Len(lines) = Len(senders_and_pids) /\ mailbox[i] = "none"
  BY StartingFacts DEF RunFails
<1>2. /\ thread' \in [Proc -> ThreadState] /\ thread'[i] = "waiting" /\ thread[i] = "starting"
      /\ \A j \in Proc \ {i} : thread'[j] = thread[j]
  BY DEF IInv, Types, RunFails, ThreadState
<1>3. /\ mailbox' \in [Proc -> {"none"} \cup Outcome] /\ mailbox'[i] = "fail"
      /\ \A j \in Proc \ {i} : mailbox'[j] = mailbox[j]
  BY DEF IInv, Types, RunFails, Outcome
<1>4. /\ UNCHANGED <<lines, box, senders_and_pids, started, said, sandboxes, pipes>>
      /\ UNCHANGED <<next_process_index, manager, opened, child_stdin, solution_result, controller_result, keeper>>
  BY DEF RunFails, managed, kept, control
<1>5. Len(senders_and_pids) \in Nat /\ Len(started) \in Nat /\ Len(lines) \in Nat
  BY DEF IInv, Types
<1>6. Types' /\ Numbered'
  BY <1>2, <1>3, <1>4 DEF IInv, Types, Numbered
<1>7. LastIsStarting' /\ WrittenUnlessPushed'
  BY <1>1, <1>2, <1>4 DEF IInv, LastIsStarting, WrittenUnlessPushed
<1>8. OneAtATime'
  BY <1>2, <1>4 DEF IInv, OneAtATime
<1>9. HeardIsStarted'
  BY <1>4 DEF IInv, HeardIsStarted
<1>10. SaidOnce'
  <2>1. \A m \in 1..Len(said) : said[m].num # i
    BY <1>1, <1>5 DEF IInv, HeardIsStarted, Types, Line
  <2>2. i >= Len(senders_and_pids)
    BY <1>1, <1>5
  <2> QED  BY <1>2, <1>3, <1>4, <2>1, <2>2, ProcFacts DEF IInv, SaidOnce, NotRead
<1>11. MergedResults'
  BY <1>2, <1>3, <1>4, ProcFacts DEF IInv, MergedResults
<1> QED  BY <1>6, <1>7, <1>8, <1>9, <1>10, <1>11 DEF IInv

LEMMA MergeInv == ASSUME IInv, NEW i \in Proc, RunMerge(i) \/ RunEnd(i) PROVE IInv'
<1>1. /\ thread' \in [Proc -> ThreadState]
      /\ thread'[i] \in {"merged", "ended"} /\ thread[i] \in {"waiting", "merged"} /\ mailbox[i] # "none"
      /\ \A j \in Proc \ {i} : thread'[j] = thread[j]
  <2>1. CASE RunMerge(i)
    BY <2>1 DEF IInv, Types, RunMerge, ThreadState
  <2>2. CASE RunEnd(i)
    BY <2>2 DEF IInv, Types, MergedResults, RunEnd, ThreadState
  <2> QED  BY <2>1, <2>2
<1>2. /\ UNCHANGED <<mailbox, lines, box, senders_and_pids, started, said, sandboxes, pipes>>
      /\ UNCHANGED <<next_process_index, manager, opened, child_stdin, keeper>>
  BY DEF RunMerge, RunEnd, managed, kept, control
<1>3. Types' /\ Numbered'
  BY <1>1, <1>2 DEF IInv, Types, Numbered
<1>4. LastIsStarting' /\ WrittenUnlessPushed'
  BY <1>1, <1>2 DEF IInv, LastIsStarting, WrittenUnlessPushed
<1>5. OneAtATime'
  BY <1>1, <1>2 DEF IInv, OneAtATime
<1>6. HeardIsStarted'
  BY <1>2 DEF IInv, HeardIsStarted
<1>7. SaidOnce'
  BY <1>1, <1>2 DEF IInv, SaidOnce, NotRead
<1>8. MergedResults'
  <2>1. thread[i] # "ended" /\ i \in sandboxes
    BY <1>1 DEF IInv, MergedResults
  <2>2. thread'[0] \in {"merged", "ended"} => controller_result' = mailbox[0]
    BY <1>1, ProcFacts DEF IInv, MergedResults, RunMerge, RunEnd, managed
  <2>3. solution_result' = "ok" <=>
            \A j \in Proc \ {0} : thread'[j] \in {"merged", "ended"} => mailbox[j] = "ok"
    <3>1. CASE RunMerge(i) /\ i # 0
      BY <1>1, <3>1 DEF IInv, MergedResults, RunMerge, Merged
    <3>2. CASE RunMerge(i) /\ i = 0
      BY <1>1, <3>2 DEF IInv, MergedResults, RunMerge
    <3>3. CASE RunEnd(i)
      <4>1. thread[i] = "merged" /\ UNCHANGED solution_result
        BY <3>3 DEF RunEnd, managed
      <4> QED  BY <1>1, <4>1 DEF IInv, MergedResults
    <3> QED  BY <3>1, <3>2, <3>3
  <2>4. manager # "answered"
    BY <2>1 DEF IInv, MergedResults
  <2> QED  BY <1>1, <1>2, <2>1, <2>2, <2>3, <2>4 DEF IInv, MergedResults
<1> QED  BY <1>3, <1>4, <1>5, <1>6, <1>7, <1>8 DEF IInv

-----------------------------------------------------------------------------
(* The keeper.  The configuration it reads is that of the process whose number  *)
(* it takes.                                                                    *)
LEMMA KeeperStartInv == ASSUME IInv, KeeperStart PROVE IInv'
<1> DEFINE n == Len(started)
           l == [type |-> "started", num |-> n]
<1>0. keeper # "failed"
  BY DEF KeeperStart
<1>1. /\ lines # <<>> /\ n \in Proc /\ n \in Nat /\ Len(lines) \in Nat \ {0} /\ Len(said) \in Nat
      /\ Len(senders_and_pids) \in Nat
  BY TailFacts DEF IInv, Types, KeeperStart
<1>2. /\ Head(lines) = lines[1] /\ Head(lines) \in Proc
      /\ lines' \in Seq(Proc) /\ Len(lines') = Len(lines) - 1
      /\ \A k \in 1..(Len(lines) - 1) : lines'[k] = lines[k + 1]
  BY <1>1, TailFacts DEF IInv, Types, KeeperStart
<1>3. lines[1] = n
  BY <1>1 DEF IInv, Numbered
<1>4. /\ started' \in Seq(Proc) /\ Len(started') = n + 1
      /\ \A k \in 1..n : started'[k] = started[k]
      /\ started'[n + 1] = n
  BY <1>2, <1>3, AppendFacts DEF IInv, Types, KeeperStart
<1>5. /\ box' \in [Proc -> BoxState] /\ box'[n] = "running"
      /\ \A k \in Proc \ {n} : box'[k] = box[k]
  BY <1>1 DEF IInv, Types, KeeperStart, BoxState
<1>6. /\ said' \in Seq(Line) /\ Len(said') = Len(said) + 1
      /\ \A k \in 1..Len(said) : said'[k] = said[k]
      /\ said'[Len(said) + 1] = l
  <2>1. l \in Line
    BY <1>1 DEF Line
  <2> QED  BY <2>1, AppendFacts DEF IInv, Types, KeeperStart
<1>7. /\ UNCHANGED <<thread, mailbox, senders_and_pids, sandboxes, pipes, manager>>
      /\ UNCHANGED <<next_process_index, opened, child_stdin, solution_result, controller_result, keeper>>
  BY DEF KeeperStart, managed, running, control
<1>8. n < Len(senders_and_pids) /\ mailbox[n] = "none" /\ box[n] = "none"
  <2>1. n < Len(senders_and_pids)
    BY <1>1 DEF IInv, WrittenUnlessPushed
  <2>2. box[n] = "none"
    BY <1>1 DEF IInv, HeardIsStarted
  <2>3. box[n] \notin Said /\ ~(n >= Len(senders_and_pids))
    BY <1>1, <2>1, <2>2 DEF Said
  <2>4. mailbox[n] = "none"
    BY <1>0, <1>1, <2>3 DEF IInv, SaidOnce, NotRead
  <2> QED  BY <2>1, <2>2, <2>4
<1>9. Types'
  BY <1>2, <1>4, <1>5, <1>6, <1>7 DEF IInv, Types
<1>10. Numbered'
  <2>1. \A k \in 1..Len(started') : started'[k] = k - 1
    BY <1>1, <1>4 DEF IInv, Numbered
  <2>2. \A k \in 1..Len(lines') : lines'[k] = Len(started') + k - 1
    BY <1>1, <1>2, <1>4 DEF IInv, Numbered
  <2> QED  BY <1>7, <2>1, <2>2 DEF IInv, Numbered
<1>11. LastIsStarting'
  BY <1>7 DEF IInv, LastIsStarting
<1>12. WrittenUnlessPushed'
  <2>1. Len(started') + Len(lines') = Len(started) + Len(lines)
    BY <1>1, <1>2, <1>4
  <2> QED  BY <1>7, <2>1 DEF IInv, WrittenUnlessPushed
<1>13. OneAtATime'
  BY <1>1, <1>4, <1>7 DEF IInv, OneAtATime
<1>14. HeardIsStarted'
  <2>1. \A k \in Proc : box'[k] # "none" <=> k < n + 1
    BY <1>1, <1>5, ProcFacts DEF IInv, HeardIsStarted
  <2>2. \A m \in 1..Len(said') : said'[m].num < n + 1
    <3>1. ASSUME NEW m \in 1..Len(said) PROVE said'[m].num < n + 1
      <4>1. said'[m] = said[m] /\ said[m].num < n /\ said[m].num \in Nat /\ n \in Nat
        BY <1>1, <1>6, ProcFacts DEF IInv, HeardIsStarted
      <4> QED  BY <4>1
    <3>2. said'[Len(said) + 1].num < n + 1
      BY <1>1, <1>6
    <3>3. \A m \in 1..Len(said') : m \in 1..Len(said) \/ m = Len(said) + 1
      BY <1>6
    <3> QED  BY <3>1, <3>2, <3>3
  <2>3. \A k \in pipes : k < n + 1
    BY <1>1, ProcFacts DEF IInv, HeardIsStarted, Types
  <2> QED  BY <1>4, <1>7, <2>1, <2>2, <2>3 DEF HeardIsStarted
<1>15. SaidOnce'
  <2>1. \A m \in 1..Len(said') : said'[m].type = "DONE" => m \in 1..Len(said) /\ said'[m] = said[m]
    BY <1>1, <1>6
  <2>2. \A m \in 1..Len(said) : said[m].num # n
    BY <1>1 DEF IInv, HeardIsStarted
  <2>3. \A m \in 1..Len(said') : said'[m].type = "DONE" =>
            box'[said'[m].num] \in Said /\ mailbox'[said'[m].num] = "none"
    BY <1>5, <1>7, <2>1, <2>2, ProcFacts DEF IInv, SaidOnce, NotRead
  <2>4. \A m, k \in 1..Len(said') :
            said'[m].type = "DONE" /\ said'[k].type = "DONE" /\ said'[m].num = said'[k].num => m = k
    BY <2>1 DEF IInv, SaidOnce, NotRead
  <2>5. \A k \in Proc : mailbox'[k] # "none" => box'[k] \in Said \/ k >= Len(senders_and_pids')
    BY <1>0, <1>5, <1>7, <1>8 DEF IInv, SaidOnce, NotRead
  <2> QED  BY <1>7, <2>3, <2>4, <2>5 DEF IInv, SaidOnce, NotRead
<1>16. MergedResults'
  BY <1>7 DEF IInv, MergedResults
<1> QED  BY <1>9, <1>10, <1>11, <1>12, <1>13, <1>14, <1>15, <1>16 DEF IInv

LEMMA KeeperDoneInv == ASSUME IInv, NEW n \in Proc, KeeperDone(n) PROVE IInv'
<1> DEFINE l == [type |-> "DONE", num |-> n]
<1>0. keeper # "failed"
  BY DEF KeeperDone
<1>1. /\ box' \in [Proc -> BoxState] /\ box[n] \in Outcome /\ box'[n] \in Said
      /\ \A k \in Proc \ {n} : box'[k] = box[k]
  BY DEF IInv, Types, KeeperDone, BoxState, Said
<1>2. box[n] \notin Said /\ box[n] # "none" /\ box'[n] # "none"
  BY <1>1 DEF Outcome, Said
<1>3. /\ said' \in Seq(Line) /\ Len(said') = Len(said) + 1 /\ Len(said) \in Nat
      /\ \A k \in 1..Len(said) : said'[k] = said[k]
      /\ said'[Len(said) + 1] = l
  <2>1. l \in Line
    BY DEF Line
  <2>2. said \in Seq(Line) /\ said' = Append(said, l)
    BY DEF IInv, Types, KeeperDone
  <2> QED  BY <2>1, <2>2, AppendFacts
<1>4. /\ UNCHANGED <<thread, mailbox, senders_and_pids, lines, started, sandboxes, pipes, manager>>
      /\ UNCHANGED <<next_process_index, opened, child_stdin, solution_result, controller_result, keeper>>
  BY DEF KeeperDone, managed, running, control
<1>5. n < Len(started)
  BY <1>2 DEF IInv, HeardIsStarted
<1>6. mailbox[n] = "none"
  <2>1. n \in Nat
    BY ProcFacts DEF IInv
  <2>2. ~(n >= Len(senders_and_pids))
    BY <1>5, <2>1, LenFacts
  <2> QED  BY <1>0, <1>2, <2>2 DEF IInv, SaidOnce, NotRead
<1>7. Types' /\ Numbered' /\ LastIsStarting' /\ WrittenUnlessPushed'
  BY <1>1, <1>3, <1>4 DEF IInv, Types, Numbered, LastIsStarting, WrittenUnlessPushed
<1>8. OneAtATime'
  BY <1>4 DEF IInv, OneAtATime
<1>9. HeardIsStarted'
  BY <1>1, <1>2, <1>3, <1>4, <1>5 DEF IInv, HeardIsStarted
<1>10. SaidOnce'
  <2>1. \A m \in 1..Len(said) : said[m].type = "DONE" => said[m].num # n
    BY <1>2 DEF IInv, SaidOnce, NotRead
  <2>2. \A m \in 1..Len(said') : \/ m = Len(said) + 1 /\ said'[m] = l
                                 \/ m \in 1..Len(said) /\ said'[m] = said[m]
    BY <1>3
  <2>3. \A m \in 1..Len(said') : said'[m].type = "DONE" =>
            box'[said'[m].num] \in Said /\ mailbox'[said'[m].num] = "none"
    BY <1>1, <1>4, <1>6, <2>1, <2>2, ProcFacts DEF IInv, SaidOnce, NotRead
  <2>4. \A m, k \in 1..Len(said') :
            said'[m].type = "DONE" /\ said'[k].type = "DONE" /\ said'[m].num = said'[k].num => m = k
    BY <2>1, <2>2 DEF IInv, SaidOnce, NotRead
  <2>5. \A k \in Proc : mailbox'[k] # "none" => box'[k] \in Said \/ k >= Len(senders_and_pids')
    BY <1>0, <1>1, <1>4 DEF IInv, SaidOnce, NotRead
  <2> QED  BY <1>4, <2>3, <2>4, <2>5 DEF IInv, SaidOnce, NotRead
<1>11. MergedResults'
  BY <1>4 DEF IInv, MergedResults
<1> QED  BY <1>7, <1>8, <1>9, <1>10, <1>11 DEF IInv

(* The thread that listens takes a line.  The others are as they were. *)
LEMMA HeadOfSaid ==
    ASSUME IInv, said # <<>>, said' = Tail(said)
    PROVE  /\ Head(said) = said[1] /\ Head(said).num \in Proc /\ Head(said).num < Len(started)
           /\ OwnerOf(Head(said).num) = Head(said).num
           /\ said' \in Seq(Line) /\ Len(said) \in Nat \ {0} /\ Len(said') = Len(said) - 1
           /\ \A m \in 1..Len(said') : said'[m] = said[m + 1] /\ m + 1 \in 1..Len(said)
<1>1. /\ Head(said) = said[1] /\ said' \in Seq(Line) /\ Len(said) \in Nat \ {0}
      /\ Len(said') = Len(said) - 1 /\ \A m \in 1..(Len(said) - 1) : said'[m] = said[m + 1]
  BY TailFacts DEF IInv, Types
<1>2. 1 \in 1..Len(said)
  BY <1>1
<1>3. said[1].num \in Proc /\ said[1].num < Len(started)
  BY <1>2, ProcFacts DEF IInv, HeardIsStarted
<1>4. said[1].num + 1 \in 1..Len(senders_and_pids)
  <2>1. said[1].num \in Nat
    BY <1>3, ProcFacts DEF IInv
  <2> QED  BY <1>3, <2>1, LenFacts
<1>5. OwnerOf(said[1].num) = said[1].num
  <2>1. said[1].num \in Nat
    BY <1>3, ProcFacts DEF IInv
  <2> QED  BY <1>4, <2>1 DEF IInv, Numbered, OwnerOf
<1> QED  BY <1>1, <1>3, <1>5

LEMMA HearStartedInv == ASSUME IInv, HearStarted PROVE IInv'
<1>1. /\ said # <<>> /\ said' = Tail(said)
      /\ UNCHANGED <<thread, mailbox, box, senders_and_pids, lines, started, sandboxes, manager>>
      /\ UNCHANGED <<next_process_index, opened, child_stdin, solution_result, controller_result>>
      /\ keeper' = keeper /\ pipes' = pipes \cup {Head(said).num}
  BY DEF HearStarted, managed, running, control
<1>2. Types' /\ Numbered' /\ LastIsStarting' /\ WrittenUnlessPushed'
  BY <1>1, HeadOfSaid DEF IInv, Types, Numbered, LastIsStarting, WrittenUnlessPushed
<1>3. OneAtATime'
  BY <1>1 DEF IInv, OneAtATime
<1>4. HeardIsStarted'
  BY <1>1, HeadOfSaid DEF IInv, HeardIsStarted
<1>5. SaidOnce'
  <2>1. \A m, k \in 1..Len(said') : m + 1 = k + 1 => m = k
    OBVIOUS
  <2> QED  BY <1>1, <2>1, HeadOfSaid DEF IInv, SaidOnce, NotRead
<1>6. MergedResults'
  BY <1>1 DEF IInv, MergedResults
<1> QED  BY <1>2, <1>3, <1>4, <1>5, <1>6 DEF IInv

LEMMA HearDoneInv == ASSUME IInv, HearDone PROVE IInv'
<1> DEFINE n == Head(said).num
<1>1. /\ said # <<>> /\ said' = Tail(said) /\ said[1].type = "DONE"
      /\ UNCHANGED <<thread, pipes, box, senders_and_pids, lines, started, sandboxes, manager>>
      /\ UNCHANGED <<next_process_index, opened, child_stdin, solution_result, controller_result, keeper>>
  BY HeadOfSaid DEF HearDone, managed, control
<1>2. /\ mailbox' \in [Proc -> {"none"} \cup Outcome] /\ mailbox'[n] # "none"
      /\ \A k \in Proc \ {n} : mailbox'[k] = mailbox[k]
  <2>1. n \in Proc /\ OwnerOf(n) = n
    BY <1>1, HeadOfSaid
  <2> QED  BY <2>1 DEF HearDone, IInv, Types, Outcome
<1>3. /\ n = said[1].num /\ n \in Proc /\ 1 \in 1..Len(said)
      /\ box[n] \in Said /\ mailbox[n] = "none"
  BY <1>1, HeadOfSaid DEF IInv, SaidOnce, NotRead
<1>4. thread[n] \notin {"none", "starting", "pushed", "merged", "ended"}
  <2>1. thread[n] \notin {"merged", "ended"}
    BY <1>3 DEF IInv, MergedResults
  <2>2. n < Len(started) /\ n \in Nat
    BY <1>1, <1>3, HeadOfSaid, ProcFacts DEF IInv
  <2>3. n < Len(senders_and_pids)
    BY <2>2, LenFacts
  <2>4. thread[n] \notin {"none", "starting"}
    BY <1>3, <2>2, <2>3, LenFacts DEF IInv, LastIsStarting
  <2>5. thread[n] # "pushed"
    <3>1. SUFFICES ASSUME thread[n] = "pushed" PROVE FALSE
      OBVIOUS
    <3>2. Len(started) + Len(lines) = Len(senders_and_pids) - 1 /\ Len(senders_and_pids) = n + 1
      BY <1>3, <3>1 DEF IInv, WrittenUnlessPushed, LastIsStarting
    <3> QED  BY <2>2, <3>2, LenFacts
  <2> QED  BY <2>1, <2>4, <2>5
<1>5. Types' /\ Numbered' /\ LastIsStarting' /\ WrittenUnlessPushed'
  BY <1>1, <1>2, HeadOfSaid DEF IInv, Types, Numbered, LastIsStarting, WrittenUnlessPushed
<1>6. OneAtATime'
  BY <1>1 DEF IInv, OneAtATime
<1>7. HeardIsStarted'
  BY <1>1, HeadOfSaid DEF IInv, HeardIsStarted
<1>8. SaidOnce'
  <2>1. \A m \in 1..Len(said') : said'[m] = said[m + 1] /\ m + 1 \in 1..Len(said) /\ m + 1 # 1
    BY <1>1, HeadOfSaid
  <2>2. \A m \in 1..Len(said') : said'[m].type = "DONE" => said'[m].num # n
    BY <1>1, <1>3, <2>1 DEF IInv, SaidOnce, NotRead
  <2>3. \A m \in 1..Len(said') : said'[m].type = "DONE" =>
            box'[said'[m].num] \in Said /\ mailbox'[said'[m].num] = "none"
    BY <1>1, <1>2, <2>1, <2>2, ProcFacts DEF IInv, SaidOnce, NotRead
  <2>4. \A m, k \in 1..Len(said') :
            said'[m].type = "DONE" /\ said'[k].type = "DONE" /\ said'[m].num = said'[k].num => m = k
    <3> SUFFICES ASSUME NEW m \in 1..Len(said'), NEW k \in 1..Len(said'),
                        said'[m].type = "DONE", said'[k].type = "DONE", said'[m].num = said'[k].num
                 PROVE  m = k
      OBVIOUS
    <3>1. m + 1 = k + 1
      BY <2>1 DEF IInv, SaidOnce, NotRead
    <3> QED  BY <3>1
  <2> QED  BY <1>1, <1>2, <1>3, <1>4, <2>3, <2>4 DEF IInv, SaidOnce, NotRead
<1>9. MergedResults'
  BY <1>1, <1>2, <1>3, <1>4, ProcFacts DEF IInv, MergedResults
<1> QED  BY <1>5, <1>6, <1>7, <1>8, <1>9 DEF IInv

-----------------------------------------------------------------------------
(* The processes. *)
LEMMA EndsInv == ASSUME IInv, NEW n \in Proc, NEW o \in Outcome, Ends(n, o) PROVE IInv'
<1>1. /\ box' \in [Proc -> BoxState] /\ box[n] = "running" /\ box'[n] \in Outcome
      /\ \A k \in Proc \ {n} : box'[k] = box[k]
  BY DEF IInv, Types, Ends, Alive, BoxState
<1>2. box[n] \notin Said /\ box'[n] # "none"
  BY <1>1 DEF Outcome, Said
<1>3. /\ UNCHANGED <<thread, mailbox, senders_and_pids, lines, started, said, sandboxes, pipes, manager>>
      /\ UNCHANGED <<next_process_index, opened, child_stdin, solution_result, controller_result, keeper>>
  BY DEF Ends, managed, running
<1>4. Types' /\ Numbered' /\ LastIsStarting' /\ WrittenUnlessPushed'
  BY <1>1, <1>3 DEF IInv, Types, Numbered, LastIsStarting, WrittenUnlessPushed
<1>5. OneAtATime'
  BY <1>3 DEF IInv, OneAtATime
<1>6. HeardIsStarted'
  BY <1>1, <1>2, <1>3 DEF IInv, HeardIsStarted
<1>7. SaidOnce'
  BY <1>1, <1>2, <1>3, ProcFacts DEF IInv, SaidOnce, NotRead
<1>8. MergedResults'
  BY <1>3 DEF IInv, MergedResults
<1> QED  BY <1>4, <1>5, <1>6, <1>7, <1>8 DEF IInv

(* A controller that opens its FIFOs was started. *)
LEMMA OpensInv == ASSUME IInv, ControllerOpens PROVE IInv'
<1>1. /\ UNCHANGED <<thread, mailbox, senders_and_pids, lines, started, said, sandboxes, pipes, manager>>
      /\ UNCHANGED <<next_process_index, box, child_stdin, solution_result, controller_result>>
      /\ opened' = TRUE /\ keeper' = keeper
  BY DEF ControllerOpens, managed, running, kept
<1>2. started # <<>>
  <2>1. 0 < Len(started)
    BY ProcFacts DEF IInv, HeardIsStarted, ControllerOpens, Alive
  <2> QED  BY <2>1
<1>3. Types' /\ Numbered' /\ LastIsStarting' /\ WrittenUnlessPushed'
  BY <1>1 DEF IInv, Types, Numbered, LastIsStarting, WrittenUnlessPushed
<1>4. OneAtATime'
  BY <1>1, <1>2 DEF IInv, OneAtATime
<1>5. HeardIsStarted'
  BY <1>1 DEF IInv, HeardIsStarted
<1>6. SaidOnce'
  BY <1>1 DEF IInv, SaidOnce, NotRead
<1>7. MergedResults'
  BY <1>1 DEF IInv, MergedResults
<1> QED  BY <1>3, <1>4, <1>5, <1>6, <1>7 DEF IInv

-----------------------------------------------------------------------------
(* The manager.  When it goes on after an answer, the last process has written  *)
(* its configuration.                                                           *)
LEMMA LastHasStarted ==
    ASSUME IInv, manager \in Early, next_process_index < Len(started)
    PROVE  /\ Len(senders_and_pids) = next_process_index + 1
           /\ \A i \in Proc : thread[i] \notin {"starting", "pushed"}
<1>1. next_process_index \in Nat /\ Len(senders_and_pids) <= next_process_index + 1
  BY DEF IInv, Types, OneAtATime
<1>2. Len(senders_and_pids) = next_process_index + 1
  BY <1>1, LenFacts
<1>3. ASSUME NEW i \in Proc, thread[i] = "starting" PROVE FALSE
  <2>1. Len(senders_and_pids) = i /\ next_process_index = i
    BY <1>3 DEF IInv, LastIsStarting, OneAtATime
  <2> QED  BY <1>1, <1>2, <2>1
<1>4. ASSUME NEW i \in Proc, thread[i] = "pushed" PROVE FALSE
  <2>1. Len(started) + Len(lines) = Len(senders_and_pids) - 1
    BY <1>4 DEF IInv, WrittenUnlessPushed
  <2> QED  BY <1>1, <1>2, <2>1, LenFacts
<1> QED  BY <1>2, <1>3, <1>4

(* Where the manager leaves to, if no thread is starting. *)
LEMMA MovesInv ==
    ASSUME IInv, \A i \in Proc : thread[i] \notin {"starting", "pushed"},
           UNCHANGED <<thread, mailbox, senders_and_pids, lines, started, said, sandboxes, pipes, box>>,
           UNCHANGED <<opened, solution_result, controller_result, keeper>>,
           manager' \in {"reading"} \cup Late, next_process_index' \in Nat, child_stdin' \in BOOLEAN,
           manager' = "reading" =>
                /\ manager \in Early /\ next_process_index' = next_process_index
                /\ child_stdin' = child_stdin /\ Len(senders_and_pids) = next_process_index + 1,
           manager' = "answered" => \A i \in sandboxes : thread[i] = "ended"
    PROVE  IInv'
<1>1. Types' /\ Numbered' /\ LastIsStarting' /\ WrittenUnlessPushed'
  BY DEF IInv, Types, Numbered, LastIsStarting, WrittenUnlessPushed, Early
<1>2. OneAtATime'
  BY DEF IInv, OneAtATime, Early, Late
<1>3. HeardIsStarted'
  BY DEF IInv, HeardIsStarted
<1>4. SaidOnce'
  BY DEF IInv, SaidOnce, NotRead
<1>5. MergedResults'
  BY DEF IInv, MergedResults
<1> QED  BY <1>1, <1>2, <1>3, <1>4, <1>5 DEF IInv

(* A thread is started when the others have written their configurations: its   *)
(* number is the number of its process.                                         *)
LEMMA StartSolutionInv == ASSUME IInv, StartSolution PROVE IInv'
<1> DEFINE i == next_process_index + 1
<1>1. manager = "reading" /\ next_process_index < Limit /\ next_process_index \in Nat /\ Limit \in Nat
  BY ControllerAssumption DEF IInv, Types, StartSolution, Reads
<1>2. i \in Proc
  BY <1>1 DEF Proc
<1>3. /\ \A j \in Proc : thread[j] \notin {"starting", "pushed"}
      /\ Len(senders_and_pids) = next_process_index + 1 /\ child_stdin
      /\ sandboxes = 0..next_process_index
  BY <1>1 DEF IInv, OneAtATime, Early
<1>4. /\ thread' \in [Proc -> ThreadState] /\ thread'[i] = "starting"
      /\ \A j \in Proc \ {i} : thread'[j] = thread[j]
  BY <1>2 DEF IInv, Types, StartSolution, ThreadState
<1>5. /\ manager' = "waiting" /\ next_process_index' = next_process_index + 1
      /\ sandboxes' = sandboxes \cup {next_process_index + 1}
      /\ UNCHANGED <<mailbox, senders_and_pids, lines, started, said, pipes, box>>
      /\ UNCHANGED <<opened, child_stdin, solution_result, controller_result, keeper>>
  BY DEF StartSolution, Goes, kept
<1>6. thread[i] = "none"
  <2>1. i \notin sandboxes
    BY <1>1, <1>3
  <2> QED  BY <1>2, <2>1 DEF IInv, MergedResults
<1>7. Types' /\ Numbered'
  BY <1>1, <1>2, <1>4, <1>5 DEF IInv, Types, Numbered, Early
<1>8. LastIsStarting'
  BY <1>3, <1>4, <1>5 DEF IInv, LastIsStarting
<1>9. WrittenUnlessPushed'
  <2>1. \A j \in Proc : thread[j] # "pushed" /\ thread'[j] # "pushed"
    BY <1>3, <1>4
  <2> QED  BY <1>5, <2>1 DEF IInv, WrittenUnlessPushed
<1>10. OneAtATime'
  <2>1. sandboxes' = 0..(next_process_index + 1)
    BY <1>1, <1>3, <1>5
  <2>2. Len(senders_and_pids') <= next_process_index' + 1 /\ next_process_index' <= Limit
    BY <1>1, <1>3, <1>5
  <2> QED  BY <1>3, <1>4, <1>5, <2>1, <2>2 DEF IInv, OneAtATime
<1>11. HeardIsStarted'
  BY <1>5 DEF IInv, HeardIsStarted
<1>12. SaidOnce'
  BY <1>4, <1>5, <1>6 DEF IInv, SaidOnce, NotRead
<1>13. MergedResults'
  BY <1>2, <1>4, <1>5, <1>6, ProcFacts DEF IInv, MergedResults
<1> QED  BY <1>7, <1>8, <1>9, <1>10, <1>11, <1>12, <1>13 DEF IInv

LEMMA ManagerInv == ASSUME IInv, Manager PROVE IInv'
<1>0. next_process_index \in Nat /\ child_stdin \in BOOLEAN
  BY DEF IInv, Types
<1>1. manager \notin {"opening", "waiting"} => \A i \in Proc : thread[i] \notin {"starting", "pushed"}
  BY DEF IInv, OneAtATime
<1>2. CASE Open
  <2>1. next_process_index < Len(started)
    <3>1. started # <<>> /\ next_process_index = 0
      BY <1>2 DEF IInv, OneAtATime, Open
    <3>2. Len(started) # 0
      BY <3>1 DEF IInv, Types
    <3> QED  BY <3>1, <3>2, LenFacts
  <2>2. manager \in Early
    BY <1>2 DEF Open, Early
  <2>3. /\ UNCHANGED <<thread, mailbox, senders_and_pids, lines, started, said, sandboxes, pipes, box>>
        /\ UNCHANGED <<opened, solution_result, controller_result, keeper, next_process_index, child_stdin>>
        /\ manager' = "reading"
    BY <1>2 DEF Open, Goes, managed, running, kept, control
  <2> QED  BY <1>0, <2>1, <2>2, <2>3, LastHasStarted, MovesInv
<1>3. CASE Answer \/ BrokenPipe
  <2>1. next_process_index < Len(started)
    BY <1>3 DEF Answer, BrokenPipe, IInv, HeardIsStarted
  <2>2. manager \in Early
    BY <1>3 DEF Answer, BrokenPipe, Early
  <2>3. /\ UNCHANGED <<thread, mailbox, senders_and_pids, lines, started, said, sandboxes, pipes, box>>
        /\ UNCHANGED <<opened, solution_result, controller_result, keeper, next_process_index, child_stdin>>
        /\ manager' \in {"reading", "gone"}
    BY <1>3 DEF Answer, BrokenPipe, Goes, managed, running, kept, control
  <2>4. manager' \in {"reading"} \cup Late /\ manager' # "answered"
    BY <2>3 DEF Late
  <2> QED  BY <1>0, <2>1, <2>2, <2>3, <2>4, LastHasStarted, MovesInv
<1>4. CASE StartSolution
  BY <1>4, StartSolutionInv
<1>5. CASE StartRefused \/ Misbehaves \/ ReadEnd
  <2>1. /\ UNCHANGED <<thread, mailbox, senders_and_pids, lines, started, said, sandboxes, pipes, box>>
        /\ UNCHANGED <<opened, solution_result, controller_result, keeper, child_stdin>>
        /\ manager = "reading" /\ manager' = "terminating" /\ next_process_index' \in Nat
    BY <1>0, <1>5 DEF StartRefused, Misbehaves, ReadEnd, Reads, Goes, managed, running, kept, control
  <2>2. manager' \in {"reading"} \cup Late /\ manager' \notin {"reading", "answered"}
    BY <2>1 DEF Late
  <2> QED  BY <1>0, <1>1, <2>1, <2>2, MovesInv
<1>8. CASE StartFails
  <2>1. /\ UNCHANGED <<thread, mailbox, senders_and_pids, lines, started, said, sandboxes, pipes, box>>
        /\ UNCHANGED <<opened, solution_result, controller_result, keeper, child_stdin>>
        /\ manager = "reading" /\ manager' = "gone" /\ next_process_index' \in Nat
    <3>1. next_process_index' \in Nat /\ manager = "reading"
      BY <1>0, <1>8 DEF StartFails, Reads
    <3> QED  BY <1>8, <3>1 DEF StartFails, Goes, running, kept
  <2>2. manager' \in {"reading"} \cup Late /\ manager' \notin {"reading", "answered"}
    BY <2>1 DEF Late
  <2> QED  BY <1>0, <1>1, <2>1, <2>2, MovesInv
<1>6. CASE Terminate \/ KillRest
  <2>1. /\ UNCHANGED <<thread, mailbox, senders_and_pids, lines, started, said, sandboxes, pipes, box>>
        /\ UNCHANGED <<opened, solution_result, controller_result, keeper, next_process_index>>
        /\ manager \in {"terminating", "killing"} /\ manager' \in {"killing", "joining"}
        /\ child_stdin' \in BOOLEAN
    BY <1>0, <1>6 DEF Terminate, KillRest, Goes, managed, running, kept, control
  <2>2. manager' \in {"reading"} \cup Late /\ manager' \notin {"reading", "answered"}
    BY <2>1 DEF Late
  <2> QED  BY <1>0, <1>1, <2>1, <2>2, MovesInv
<1>7. CASE SendDone
  <2>1. /\ UNCHANGED <<thread, mailbox, senders_and_pids, lines, started, said, sandboxes, pipes, box>>
        /\ UNCHANGED <<opened, solution_result, controller_result, keeper, next_process_index, child_stdin>>
        /\ manager = "joining" /\ manager' = "answered"
        /\ \A i \in sandboxes : thread[i] = "ended"
    BY <1>7 DEF SendDone, Goes, managed, running, kept, control
  <2>2. manager' \in {"reading"} \cup Late /\ manager' # "reading"
    BY <2>1 DEF Late
  <2> QED  BY <1>0, <1>1, <2>1, <2>2, MovesInv
<1> QED  BY <1>2, <1>3, <1>4, <1>5, <1>6, <1>7, <1>8 DEF Manager

-----------------------------------------------------------------------------
LEMMA InitInv == Init => IInv
<1> SUFFICES ASSUME Init PROVE IInv
  OBVIOUS
<1>1. 0 \in Proc /\ Proc \subseteq Nat
  BY ControllerAssumption DEF Proc
<1>2. Types
  BY <1>1 DEF Init, Types, ThreadState, BoxState, Outcome, Early, Late
<1>3. Numbered /\ LastIsStarting
  BY <1>1, ControllerAssumption DEF Init, Numbered, LastIsStarting
<1>4. WrittenUnlessPushed
  BY DEF Init, WrittenUnlessPushed
<1>5. OneAtATime
  <2>1. {0} = 0..0
    OBVIOUS
  <2> QED  BY <1>1, <2>1, ControllerAssumption DEF Init, OneAtATime
<1>6. HeardIsStarted /\ SaidOnce
  BY <1>1 DEF Init, HeardIsStarted, SaidOnce, NotRead
<1>7. MergedResults
  BY <1>1 DEF Init, MergedResults
<1> QED  BY <1>2, <1>3, <1>4, <1>5, <1>6, <1>7 DEF IInv

(* The end of the keeper, which changes nothing else. *)
LEMMA KeeperEndsInv == ASSUME IInv, KeeperExit \/ KeeperFails PROVE IInv'
<1>1. /\ UNCHANGED <<thread, mailbox, box, senders_and_pids, lines, started, said, sandboxes, pipes>>
      /\ UNCHANGED <<next_process_index, manager, opened, child_stdin, solution_result, controller_result>>
      /\ keeper # "failed"
  BY DEF KeeperExit, KeeperFails, managed, running, control
<1>2. Types' /\ Numbered' /\ LastIsStarting' /\ WrittenUnlessPushed'
  BY <1>1 DEF IInv, Types, Numbered, LastIsStarting, WrittenUnlessPushed
<1>3. OneAtATime' /\ HeardIsStarted'
  BY <1>1 DEF IInv, OneAtATime, HeardIsStarted
<1>4. SaidOnce'
  BY <1>1 DEF IInv, SaidOnce, NotRead
<1>5. MergedResults'
  BY <1>1 DEF IInv, MergedResults
<1> QED  BY <1>2, <1>3, <1>4, <1>5 DEF IInv

LEMMA NextInv == IInv /\ [Next]_vars => IInv'
<1> SUFFICES ASSUME IInv, [Next]_vars PROVE IInv'
  OBVIOUS
<1>1. ASSUME NEW i \in Proc, Thread(i) \/ RunFails(i) PROVE IInv'
  BY <1>1, PushInv, WriteInv, MergeInv, FailsInv DEF Thread
<1>2. CASE Keeper \/ KeeperFails
  BY <1>2, KeeperStartInv, KeeperDoneInv, KeeperEndsInv DEF Keeper
<1>3. CASE Listener
  BY <1>3, HearStartedInv, HearDoneInv DEF Listener
<1>4. CASE Manager
  BY <1>4, ManagerInv
<1>5. CASE ControllerOpens
  BY <1>5, OpensInv
<1>6. CASE ControllerCloses \/ (\E r \in Request : ControllerAsks(r))
  <2>1. UNCHANGED proved
    BY <1>6 DEF ControllerCloses, ControllerAsks, proved, managed, running, kept
  <2> QED  BY <2>1, Untouched
<1>7. ASSUME NEW n \in Proc, NEW o \in Outcome, Ends(n, o) PROVE IInv'
  BY <1>7, EndsInv
<1>8. CASE KillJob
  BY <1>8, Untouched DEF KillJob, proved, managed, running, kept, control
<1>9. CASE UNCHANGED vars
  BY <1>9, Untouched DEF vars, proved, managed, running, kept, control
<1> QED  BY <1>1, <1>2, <1>3, <1>4, <1>5, <1>6, <1>7, <1>8, <1>9 DEF Next

LEMMA ControllerInvariant == Spec => []IInv
  BY InitInv, NextInv, PTL DEF Spec

(* "The n-th configuration has the n-th pipes": the number by which the keeper and *)
(* the worker know a sandbox is given by two lists, of which each side keeps one.  *)
(* They agree, whatever the controller asks and whichever process fails, and the   *)
(* keeper has pipes for all that it is asked to start.                             *)
THEOREM KeeperStaysInSync == Spec => []KeeperInSync
<1>1. IInv => KeeperInSync
  <2> SUFFICES ASSUME IInv PROVE KeeperInSync
    OBVIOUS
  <2>1. \A n \in 1..Len(started) : started[n] = senders_and_pids[n]
    <3>1. \A n \in 1..Len(started) : n \in 1..Len(senders_and_pids)
      BY LenFacts
    <3> QED  BY <3>1 DEF IInv, Numbered
  <2>2. Len(started) + Len(lines) <= Limit + 1
    BY LenFacts, ControllerAssumption DEF IInv, Numbered
  <2>3. \A i \in Proc : thread[i] = "pushed" => child_stdin
    BY DEF IInv, OneAtATime, Early
  <2> QED  BY <2>1, <2>2, <2>3, LenFacts DEF KeeperInSync
<1> QED  BY <1>1, ControllerInvariant, PTL

(* When the results of a controlled job are sent, all the processes that were     *)
(* started are over, each has merged its own result and none was overwritten: the *)
(* solution is successful exactly if all of its processes are.                     *)
THEOREM VerdictsAreComplete == Spec => []VerdictComplete
<1>1. IInv => VerdictComplete
  <2> SUFFICES ASSUME IInv, manager = "answered" PROVE VerdictComplete
    BY DEF VerdictComplete
  <2>1. sandboxes \subseteq Proc /\ \A i \in sandboxes : thread[i] = "ended" /\ mailbox[i] # "none"
    BY DEF IInv, Types, MergedResults
  <2>2. \A i \in Proc \ sandboxes : thread[i] \notin {"merged", "ended"}
    BY DEF IInv, MergedResults
  <2>3. \A i \in sandboxes : ~Alive(i)
    <3>1. SUFFICES ASSUME NEW i \in sandboxes, box[i] = "running" PROVE FALSE
      BY DEF Alive
    <3>2. (i >= Len(senders_and_pids) \/ i >= Len(started)) /\ i < Len(started) /\ i \in Nat
      BY <2>1, <3>1, ProcFacts DEF IInv, SaidOnce, NotRead, HeardIsStarted, Said
    <3> QED  BY <3>2, LenFacts
  <2>4. 0 \in sandboxes
    BY DEF IInv, MergedResults
  <2> QED  BY <2>1, <2>2, <2>3, <2>4 DEF VerdictComplete, IInv, MergedResults
<1> QED  BY <1>1, ControllerInvariant, PTL
=============================================================================
