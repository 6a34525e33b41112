-------------------------- MODULE FindBadCaseProofs --------------------------
(***************************************************************************)
(* The testcase that find-bad-case reports, for every number and size of the *)
(* batches, whichever thread is late.                                         *)
(***************************************************************************)
EXTENDS FindBadCase, TLAPS

Stage == {"none", "pending", "validated", "solved", "broken", "crashed", "right", "wrong"}
Place == {"batch", "building", "starting", "evaluating", "evaluated", "joining", "checking",
          "finishing", "over", "failed", "panicked"}
Message == [type : {"IOITask", "IOIGeneration", "IOITestcaseScore", "Finish"},
            testcase : TestcaseId \cup {None}, ok : BOOLEAN]

Types ==
    /\ main \in Place /\ batch_index \in 0..(MaxBatches - 1)
    /\ last_batch \in SUBSET TestcaseId
    /\ failing_testcase \in TestcaseId \cup {None}
    /\ stage \in [TestcaseId -> Stage]
    /\ ui_receiver \in Seq(Message) /\ channel \in Seq(Message)
    /\ ui \in {"running", "finished", "panicked"}

-----------------------------------------------------------------------------
(* The batches.  A testcase that is being evaluated is of the last batch, and   *)
(* a testcase of a batch that was not built yet was not evaluated.               *)
Current == main \notin {"batch", "failed", "panicked"} => last_batch = Testcases(batch_index)
NotBuilt(b) == b > batch_index \/ (b = batch_index /\ main \in {"batch", "building"})
Fresh == \A b \in 0..(MaxBatches - 1) : NotBuilt(b) => \A t \in Testcases(b) : stage[t] = "none"
NoneOrOver(t) == stage[t] = "none" \/ Over(t)
OthersAreOver ==
    /\ \A t \in TestcaseId \ last_batch : NoneOrOver(t)
    /\ main \in {"batch", "building"} => \A t \in TestcaseId : NoneOrOver(t)
    /\ main \in {"evaluated", "joining", "checking"} =>
         should_stop \/ \A t \in last_batch : NoneOrOver(t)
StopIsShared == stop \/ ctrlc = "pressed" => should_stop

(* The inputs of the last batch are there once its evaluation returned, *)
(* and that of the testcase that is remembered.                          *)
Written ==
    main \notin {"starting", "evaluating", "failed", "panicked"} =>
        \A t \in last_batch : Bad(t) => <<t, "input">> \in written
Remembered ==
    failing_testcase # None => /\ Bad(failing_testcase)
                               /\ failing_testcase \in last_batch \/ <<failing_testcase, "input">> \in written

-----------------------------------------------------------------------------
(* The messages of the bad testcases.  Those that are not forwarded are of the  *)
(* last batch; in the channel those of the last batch come after the others, so *)
(* that the UI does not forget a testcase of the last batch for an older one.    *)
BadMsg(m) == m.type = "IOITestcaseScore" /\ ~m.ok
SaysBad(q) == \A n \in 1..Len(q) :
                 BadMsg(q[n]) => q[n].testcase \in TestcaseId /\ Bad(q[n].testcase)
Old(m) == BadMsg(m) /\ m.testcase \notin last_batch
New(m) == BadMsg(m) /\ m.testcase \in last_batch
OldFirst ==
    /\ \A n \in 1..Len(ui_receiver) : ~Old(ui_receiver[n])
    /\ \A m, n \in 1..Len(channel) : m <= n /\ New(channel[m]) => ~Old(channel[n])
    /\ failing_testcase \in last_batch => \A n \in 1..Len(channel) : ~Old(channel[n])
Told(q, t) == \E n \in 1..Len(q) : BadMsg(q[n]) /\ q[n].testcase = t
NotLost ==
    ui # "panicked" =>
        \A t \in last_batch : Bad(t) => \/ failing_testcase \in last_batch
                                        \/ Told(channel, t) \/ Told(ui_receiver, t)

(* Finish is the last message. *)
Drained == main \in {"batch", "building", "checking", "finishing", "over"} => ui_receiver = <<>>
FinishLast ==
    /\ \A n \in 1..Len(ui_receiver) : ui_receiver[n].type # "Finish"
    /\ \A n \in 1..Len(channel) :
         channel[n].type = "Finish" => n = Len(channel) /\ main \in {"finishing", "over", "failed"}
    /\ ui = "finished" => channel = <<>> /\ main \in {"finishing", "over", "failed"}

Batches  == Types /\ Current /\ Fresh /\ OthersAreOver /\ StopIsShared
Messages == SaysBad(ui_receiver) /\ SaysBad(channel) /\ OldFirst /\ NotLost /\ Drained /\ FinishLast
IInv     == Batches /\ Messages /\ Written /\ Remembered /\ ReportedIsBad /\ FoundUnlessLate

-----------------------------------------------------------------------------
(* The ids of the batches. *)
LEMMA Product ==
    ASSUME NEW b \in Nat, NEW c \in Nat, NEW s \in Nat, b < c
    PROVE  /\ b * s \in Nat /\ c * s \in Nat
           /\ b * s + s <= c * s
<1>1. PICK d \in Nat : c = b + 1 + d
  <2>1. c - b - 1 \in Nat /\ c = b + 1 + (c - b - 1)
    OBVIOUS
  <2> QED  BY <2>1
<1>2. (b + 1 + d) * s = b * s + s + d * s
  OBVIOUS
<1>3. d * s \in Nat /\ b * s \in Nat /\ c * s \in Nat
  OBVIOUS
<1> QED  BY <1>1, <1>2, <1>3

LEMMA TestcasesAreIds ==
    ASSUME NEW b \in 0..(MaxBatches - 1)
    PROVE  Testcases(b) \subseteq TestcaseId
<1>1. BatchSize \in Nat /\ MaxBatches \in Nat /\ b \in Nat /\ b < MaxBatches
  BY FindBadCaseAssumption
<1>2. /\ b * BatchSize \in Nat /\ MaxBatches * BatchSize \in Nat
      /\ b * BatchSize + BatchSize <= MaxBatches * BatchSize
  BY <1>1, Product
<1> DEFINE p == b * BatchSize
           q == MaxBatches * BatchSize
<1> HIDE DEF p, q
<1>3. \A i \in 0..(BatchSize - 1) : p + i \in 0..(q - 1)
  BY <1>1, <1>2 DEF p, q
<1> QED  BY <1>3 DEF Testcases, TestcaseIdOf, TestcaseId, p, q

LEMMA TestcasesDiffer ==
    ASSUME NEW b \in 0..(MaxBatches - 1), NEW c \in 0..(MaxBatches - 1), b < c,
           NEW t \in Testcases(b)
    PROVE  t \notin Testcases(c)
<1>1. BatchSize \in Nat /\ b \in Nat /\ c \in Nat
  BY FindBadCaseAssumption
<1>2. /\ b * BatchSize \in Nat /\ c * BatchSize \in Nat
      /\ b * BatchSize + BatchSize <= c * BatchSize
  BY <1>1, Product
<1> DEFINE p == b * BatchSize
           q == c * BatchSize
<1> HIDE DEF p, q
<1>3. \A i, j \in 0..(BatchSize - 1) : p + i # q + j
  BY <1>1, <1>2 DEF p, q
<1> QED  BY <1>3 DEF Testcases, TestcaseIdOf, p, q

-----------------------------------------------------------------------------
(* The queues. *)
LEMMA LenFacts ==
    ASSUME NEW q \in Seq(Message)
    PROVE  Len(q) \in Nat /\ \A n \in 1..Len(q) : q[n] \in Message
  OBVIOUS

LEMMA TailFacts ==
    ASSUME NEW q \in Seq(Message), q # <<>>
    PROVE  /\ Tail(q) \in Seq(Message) /\ Len(q) \in Nat /\ Len(Tail(q)) \in Nat
           /\ Head(q) = q[1] /\ 1 \in 1..Len(q) /\ q[1] \in Message
           /\ Len(Tail(q)) = Len(q) - 1
           /\ \A n \in 1..Len(Tail(q)) : n + 1 \in 1..Len(q) /\ Tail(q)[n] = q[n + 1]
           /\ \A n \in 1..Len(q) : n # 1 => n - 1 \in 1..Len(Tail(q)) /\ Tail(q)[n - 1] = q[n]
<1>1. /\ Tail(q) \in Seq(Message) /\ Len(q) \in Nat /\ Len(q) # 0
      /\ Head(q) = q[1] /\ Len(Tail(q)) = Len(q) - 1
      /\ \A n \in 1..(Len(q) - 1) : Tail(q)[n] = q[n + 1]
  OBVIOUS
<1>2. Len(q) \in Nat /\ 1 \in 1..Len(q) /\ q[1] \in Message
  BY <1>1
<1>3. \A n \in 1..Len(q) : n # 1 => n - 1 \in 1..(Len(q) - 1) /\ (n - 1) + 1 = n
  BY <1>2
<1>4. \A n \in 1..(Len(q) - 1) : n + 1 \in 1..Len(q)
  BY <1>2
<1>5. \A n \in 1..Len(q) : n # 1 => Tail(q)[n - 1] = q[n]
  BY <1>1, <1>3
<1>6. Len(q) - 1 \in Nat
  BY <1>1
<1> QED  BY <1>1, <1>2, <1>3, <1>4, <1>5, <1>6

LEMMA AppendFacts ==
    ASSUME NEW q \in Seq(Message), NEW m \in Message
    PROVE  /\ Append(q, m) \in Seq(Message) /\ Len(q) \in Nat
           /\ Len(Append(q, m)) = Len(q) + 1
           /\ \A n \in 1..Len(q) : n \in 1..(Len(q) + 1) /\ Append(q, m)[n] = q[n]
           /\ Len(q) + 1 \in 1..(Len(q) + 1) /\ Append(q, m)[Len(q) + 1] = m
           /\ \A n \in 1..(Len(q) + 1) : n \in 1..Len(q) \/ n = Len(q) + 1
<1>1. /\ Append(q, m) \in Seq(Message) /\ Len(q) \in Nat
      /\ Len(Append(q, m)) = Len(q) + 1
      /\ \A n \in 1..Len(q) : Append(q, m)[n] = q[n]
      /\ Append(q, m)[Len(q) + 1] = m
  OBVIOUS
<1> QED  BY <1>1

LEMMA ConcatFacts ==
    ASSUME NEW q \in Seq(Message), NEW m \in Message
    PROVE  q \o <<>> = q /\ q \o <<m>> = Append(q, m)
<1>1. q \o <<>> = q
  OBVIOUS
<1>2. q \o <<m>> = Append(q, m)
  OBVIOUS
<1> QED  BY <1>1, <1>2

-----------------------------------------------------------------------------
(* The steps that leave the testcases and the messages alone. *)
evidence == <<last_batch, failing_testcase, stage, ui_receiver, channel, ui>>

LEMMA SameEvidence ==
    ASSUME IInv, UNCHANGED evidence
    PROVE  /\ SaysBad(ui_receiver)' /\ SaysBad(channel)' /\ OldFirst' /\ NotLost'
           /\ \A t : (Bad(t)' <=> Bad(t)) /\ (NoneOrOver(t)' <=> NoneOrOver(t))
<1> USE DEF evidence, Bad, NoneOrOver, Over
<1>1. SaysBad(ui_receiver)' /\ SaysBad(channel)'
  BY DEF IInv, Messages, SaysBad, BadMsg
<1>2. OldFirst'
  BY DEF IInv, Messages, OldFirst, Old, New, BadMsg
<1>3. NotLost'
  BY DEF IInv, Messages, NotLost, Told, BadMsg
<1> QED  BY <1>1, <1>2, <1>3

(* The tool ends with an error. *)
LEMMA MainFails ==
    ASSUME IInv, ~Ended, UNCHANGED <<evidence, batch_index, ctrlc, stop, written>>, main' \in {"failed", "panicked"},
           ui = "finished" => main' = "failed",
           main = "finishing" => main' = "failed",
           should_stop => should_stop'
    PROVE  IInv'
<1>1. Types'
  BY DEF IInv, Batches, Types, Place, evidence
<1>2. Current' /\ StopIsShared'
  BY DEF IInv, Batches, Current, StopIsShared, evidence
<1>3. Fresh'
  BY DEF IInv, Batches, Fresh, NotBuilt, evidence
<1>4. OthersAreOver'
  BY SameEvidence DEF IInv, Batches, OthersAreOver, evidence
<1>5. Written' /\ Drained' /\ FoundUnlessLate'
  BY DEF Written, Drained, FoundUnlessLate
<1>6. Remembered' /\ ReportedIsBad'
  BY SameEvidence DEF IInv, Remembered, ReportedIsBad, evidence
<1>7. FinishLast'
  BY DEF IInv, Messages, FinishLast, evidence, Ended
<1> QED  BY <1>1, <1>2, <1>3, <1>4, <1>5, <1>6, <1>7, SameEvidence DEF IInv, Batches, Messages

(* The main thread goes on: what it must know to be there. *)
LEMMA MainGoesOn ==
    ASSUME IInv, ~Ended, UNCHANGED <<evidence, batch_index, ctrlc, should_stop, written, task>>,
           stop' => should_stop,
           <<main, main'>> \in {<<"starting", "evaluating">>, <<"evaluating", "evaluating">>,
                                <<"evaluated", "joining">>, <<"joining", "checking">>},
           main' = "checking" => ui_receiver = <<>>
    PROVE  IInv'
<1>0. main' \in {"evaluating", "joining", "checking"} /\ main \in {"starting", "evaluating", "evaluated", "joining"}
  OBVIOUS
<1>1. Types'
  BY <1>0 DEF IInv, Batches, Types, Place, evidence
<1>2. Current' /\ StopIsShared'
  BY <1>0 DEF IInv, Batches, Current, StopIsShared, evidence
<1>3. Fresh'
  BY <1>0 DEF IInv, Batches, Fresh, NotBuilt, evidence
<1>4. OthersAreOver'
  BY <1>0, SameEvidence DEF IInv, Batches, OthersAreOver, evidence
<1>5. Written'
  BY <1>0, SameEvidence DEF IInv, Written, evidence
<1>6. Drained' /\ FoundUnlessLate'
  BY <1>0 DEF Drained, FoundUnlessLate, evidence
<1>7. Remembered' /\ ReportedIsBad'
  BY <1>0, SameEvidence DEF IInv, Remembered, ReportedIsBad, evidence
<1>8. FinishLast'
  BY <1>0 DEF IInv, Messages, FinishLast, evidence
<1> QED  BY <1>1, <1>2, <1>3, <1>4, <1>5, <1>6, <1>7, <1>8, SameEvidence DEF IInv, Batches, Messages

-----------------------------------------------------------------------------
(* The main thread. *)

(* The new batch has no testcase that was evaluated. *)
LEMMA NewBatch ==
    ASSUME IInv, main = "batch"
    PROVE  /\ Testcases(batch_index) \subseteq TestcaseId
           /\ \A t \in Testcases(batch_index) : stage[t] = "none" /\ ~Bad(t)
<1>1. batch_index \in 0..(MaxBatches - 1)
  BY DEF IInv, Batches, Types
<1>2. NotBuilt(batch_index)
  BY DEF NotBuilt
<1>3. \A t \in Testcases(batch_index) : stage[t] = "none"
  BY <1>1, <1>2 DEF IInv, Batches, Fresh
<1> QED  BY <1>1, <1>3, TestcasesAreIds DEF Bad

LEMMA StartBatchInv == ASSUME IInv, ~Ended, StartBatch PROVE IInv'
<1>1. CASE poisoned
  <2>1. /\ UNCHANGED <<evidence, batch_index, ctrlc, stop, written, should_stop>>
        /\ main' = "panicked" /\ main = "batch"
    BY <1>1 DEF StartBatch, evidence, exec, threads, uiVars
  <2>2. ui # "finished"
    BY <2>1 DEF IInv, Messages, FinishLast
  <2> QED  BY <2>1, <2>2, MainFails
<1>2. CASE ~poisoned
  <2>1. /\ UNCHANGED <<batch_index, should_stop, stop, executor, stage, written, ui_receiver,
                       failing_testcase, ui, ctrlc, channel>>
        /\ main = "batch" /\ main' = "building" /\ last_batch' = Testcases(batch_index)
    BY <1>2 DEF StartBatch, exec, threads, uiVars
  <2>2. \A t : (Bad(t)' <=> Bad(t)) /\ (NoneOrOver(t)' <=> NoneOrOver(t))
    BY <2>1 DEF Bad, NoneOrOver, Over
  <2>3. \A t \in last_batch' : ~Bad(t)
    BY <2>1, NewBatch
  <2>4. Types'
    BY <2>1, NewBatch DEF IInv, Batches, Types, Place
  <2>5. Current' /\ StopIsShared'
    BY <2>1 DEF IInv, Batches, Current, StopIsShared
  <2>6. Fresh'
    BY <2>1 DEF IInv, Batches, Fresh, NotBuilt
  <2>7. OthersAreOver'
    BY <2>1, <2>2 DEF IInv, Batches, OthersAreOver
  <2>8. SaysBad(ui_receiver)' /\ SaysBad(channel)'
    BY <2>1, <2>2 DEF IInv, Messages, SaysBad, BadMsg
  <2>9. ui_receiver = <<>> /\ Len(ui_receiver) = 0
    BY <2>1 DEF IInv, Messages, Drained
  <2>10. OldFirst'
    <3>1. \A n \in 1..Len(channel) : ~New(channel[n])'
      BY <2>1, <2>3 DEF New, BadMsg, IInv, Messages, SaysBad
    <3>2. failing_testcase \notin last_batch'
      <4>1. None \notin TestcaseId
        BY FindBadCaseAssumption DEF TestcaseId
      <4>2. last_batch' \subseteq TestcaseId
        BY <2>1, NewBatch
      <4> QED  BY <2>3, <4>1, <4>2 DEF IInv, Remembered
    <3> QED  BY <2>1, <2>9, <3>1, <3>2 DEF OldFirst
  <2>11. NotLost' /\ Drained'
    BY <2>1, <2>2, <2>3, <2>9 DEF NotLost, Drained
  <2>12. FinishLast'
    BY <2>1 DEF IInv, Messages, FinishLast
  <2>13. Written' /\ FoundUnlessLate'
    BY <2>1, <2>2, <2>3 DEF Written, FoundUnlessLate
  <2>14. Remembered'
    <3>1. failing_testcase \in last_batch => <<failing_testcase, "input">> \in written \/ ~Bad(failing_testcase)
      BY <2>1 DEF IInv, Written
    <3> QED  BY <2>1, <2>2, <3>1 DEF IInv, Remembered
  <2>15. ReportedIsBad'
    BY <2>1, <2>14 DEF ReportedIsBad, Remembered
  <2> QED  BY <2>4, <2>5, <2>6, <2>7, <2>8, <2>10, <2>11, <2>12, <2>13, <2>14, <2>15
           DEF IInv, Batches, Messages
<1> QED  BY <1>1, <1>2

LEMMA BuildDagInv == ASSUME IInv, ~Ended, BuildDag PROVE IInv'
<1>1. /\ UNCHANGED <<batch_index, last_batch, should_stop, written, failing_testcase, ui, ctrlc, channel>>
      /\ main = "building" /\ main' = "starting" /\ executor' = "idle" /\ stop' = FALSE
      /\ stage' = [t \in TestcaseId |-> IF t \in last_batch THEN "pending" ELSE stage[t]]
  BY DEF BuildDag, exec, threads, uiVars, shared
<1>2. last_batch = Testcases(batch_index) /\ batch_index \in 0..(MaxBatches - 1)
  BY <1>1 DEF IInv, Batches, Types, Current
<1>3. \A t \in last_batch : stage[t] = "none" /\ ~Bad(t)
  <2>1. NotBuilt(batch_index)
    BY <1>1 DEF NotBuilt
  <2> QED  BY <1>2, <2>1 DEF IInv, Batches, Fresh, Bad
<1>4. \A t \in TestcaseId : /\ Bad(t)' <=> Bad(t)
                            /\ t \notin last_batch => stage'[t] = stage[t]
                            /\ stage'[t] \in Stage
  BY <1>1, <1>3 DEF Bad, IInv, Batches, Types, Stage
<1>5. /\ ui_receiver' \in Seq(Message) /\ Len(ui_receiver') = 1
      /\ \A n \in 1..Len(ui_receiver') : ui_receiver'[n].type = "IOITask"
  <2>1. PICK m \in Message : m.type = "IOITask" /\ ui_receiver' = <<m>>
    <3>1. Msg("IOITask", None, TRUE) \in Message /\ Msg("IOITask", None, TRUE).type = "IOITask"
      BY DEF Msg, Message
    <3> QED  BY <3>1 DEF BuildDag
  <2>2. <<m>> \in Seq(Message) /\ Len(<<m>>) = 1 /\ <<m>>[1] = m
    OBVIOUS
  <2> QED  BY <2>1, <2>2
<1>6. Types'
  BY <1>1, <1>4, <1>5 DEF IInv, Batches, Types, Place
<1>7. Current' /\ StopIsShared'
  BY <1>1, <1>2 DEF IInv, Batches, Current, StopIsShared
<1>8. Fresh'
  <2> SUFFICES ASSUME NEW b \in 0..(MaxBatches - 1), NotBuilt(b)', NEW t \in Testcases(b)
               PROVE  stage'[t] = "none"
    BY DEF Fresh
  <2>1. batch_index < b /\ NotBuilt(b)
    BY <1>1, <1>2 DEF NotBuilt
  <2>2. t \notin last_batch
    BY <1>2, <2>1, TestcasesDiffer
  <2>3. t \in TestcaseId /\ stage[t] = "none"
    BY <2>1, TestcasesAreIds DEF IInv, Batches, Fresh
  <2> QED  BY <1>4, <2>2, <2>3
<1>9. OthersAreOver'
  <2>1. \A t \in TestcaseId \ last_batch : NoneOrOver(t)
    BY DEF IInv, Batches, OthersAreOver
  <2>2. \A t \in TestcaseId \ last_batch : NoneOrOver(t)'
    BY <1>4, <2>1 DEF NoneOrOver, Over
  <2> QED  BY <1>1, <2>2 DEF OthersAreOver
<1>10. SaysBad(channel)' /\ SaysBad(ui_receiver)'
  <2>1. \A n \in 1..Len(ui_receiver') : ~BadMsg(ui_receiver'[n])
    BY <1>5 DEF BadMsg
  <2>2. \A n \in 1..Len(channel) : BadMsg(channel[n]) =>
            channel[n].testcase \in TestcaseId /\ stage'[channel[n].testcase] \in {"crashed", "wrong"}
    BY <1>4 DEF IInv, Messages, SaysBad, Bad
  <2> QED  BY <1>1, <2>1, <2>2 DEF SaysBad, BadMsg, Bad
<1>11. OldFirst'
  BY <1>1, <1>5 DEF IInv, Messages, OldFirst, Old, New, BadMsg
<1>12. NotLost' /\ Drained'
  <2>1. \A t \in last_batch : ~Bad(t)'
    BY <1>3, <1>4 DEF IInv, Batches, Types
  <2> QED  BY <1>1, <2>1 DEF NotLost, Drained
<1>13. FinishLast'
  BY <1>1, <1>5 DEF IInv, Messages, FinishLast
<1>14. Written' /\ FoundUnlessLate'
  BY <1>1 DEF Written, FoundUnlessLate
<1>15. Remembered'
  BY <1>1, <1>4 DEF IInv, Batches, Types, Remembered
<1>16. ReportedIsBad'
  BY <1>1, <1>15 DEF ReportedIsBad, Remembered
<1> QED  BY <1>6, <1>7, <1>8, <1>9, <1>10, <1>11, <1>12, <1>13, <1>14, <1>15, <1>16
         DEF IInv, Batches, Messages

LEMMA EvaluateReturnsInv == ASSUME IInv, ~Ended, EvaluateReturns PROVE IInv'
<1>1. /\ UNCHANGED <<evidence, batch_index, ctrlc, should_stop, stop>>
      /\ main = "evaluating" /\ main' = "evaluated"
      /\ written' = written \cup UNION {Redirected(t) : t \in last_batch}
      /\ stop \/ \A t \in last_batch : Over(t)
  BY DEF EvaluateReturns, evidence, threads, uiVars, shared
<1>2. Types'
  BY <1>1 DEF IInv, Batches, Types, Place, evidence
<1>3. Current' /\ StopIsShared'
  BY <1>1 DEF IInv, Batches, Current, StopIsShared, evidence
<1>4. Fresh'
  BY <1>1 DEF IInv, Batches, Fresh, NotBuilt, evidence
<1>5. OthersAreOver'
  <2>1. should_stop \/ \A t \in last_batch : NoneOrOver(t)
    BY <1>1 DEF IInv, Batches, StopIsShared, NoneOrOver
  <2> QED  BY <1>1, <2>1, SameEvidence DEF IInv, Batches, OthersAreOver, evidence
<1>6. Drained' /\ FoundUnlessLate'
  BY <1>1 DEF Drained, FoundUnlessLate
<1>7. FinishLast'
  BY <1>1 DEF IInv, Messages, FinishLast, evidence
<1>8. Written'
  <2>1. \A t \in last_batch : Bad(t) => <<t, "input">> \in Redirected(t)
    BY DEF Redirected, Bad
  <2>2. \A t \in last_batch : Bad(t) => <<t, "input">> \in written'
    BY <1>1, <2>1
  <2> QED  BY <1>1, <2>2, SameEvidence DEF Written, evidence
<1>9. Remembered'
  BY <1>1, SameEvidence DEF IInv, Remembered, evidence
<1>10. ReportedIsBad'
  BY <1>1, <1>9 DEF ReportedIsBad, Remembered
<1> QED  BY <1>1, <1>2, <1>3, <1>4, <1>5, <1>6, <1>7, <1>8, <1>9, <1>10, SameEvidence
         DEF IInv, Batches, Messages

(* Main tells the UI to finish, or goes on with the next batch: then there was no *)
(* reason to stop, so the batch is over.                                           *)
LEMMA CheckShouldStopInv == ASSUME IInv, ~Ended, CheckShouldStop PROVE IInv'
<1>0. UNCHANGED <<last_batch, failing_testcase, stage, ui_receiver, ui, ctrlc, should_stop, stop, executor, written>>
      /\ main = "checking"
  BY DEF CheckShouldStop, uiVars, exec
<1>a. ui # "finished" /\ ui_receiver = <<>>
  BY <1>0 DEF IInv, Messages, FinishLast, Drained
<1>1. CASE main' = "panicked" /\ UNCHANGED <<batch_index, channel>>
  BY <1>0, <1>a, <1>1, MainFails DEF evidence
<1>2. CASE main' = "batch" /\ ~should_stop /\ batch_index + 1 < MaxBatches
           /\ batch_index' = batch_index + 1 /\ UNCHANGED channel
  <2>1. UNCHANGED evidence
    BY <1>0, <1>2 DEF evidence
  <2>2. Types'
    BY <1>0, <1>2, FindBadCaseAssumption DEF IInv, Batches, Types, Place
  <2>3. Current' /\ StopIsShared'
    BY <1>0, <1>2 DEF IInv, Batches, Current, StopIsShared
  <2>4. Fresh'
    <3>1. batch_index \in Int
      BY DEF IInv, Batches, Types
    <3>2. \A b \in 0..(MaxBatches - 1) : NotBuilt(b)' => NotBuilt(b)
      BY <1>0, <1>2, <3>1, FindBadCaseAssumption DEF NotBuilt
    <3> QED  BY <1>0, <3>2 DEF IInv, Batches, Fresh
  <2>5. OthersAreOver'
    BY <1>0, <1>2, <2>1, SameEvidence DEF IInv, Batches, OthersAreOver
  <2>6. Drained' /\ FoundUnlessLate'
    BY <1>0, <1>2, <1>a DEF Drained, FoundUnlessLate
  <2>7. FinishLast'
    BY <1>0, <1>2 DEF IInv, Messages, FinishLast
  <2>8. Written' /\ Remembered' /\ ReportedIsBad'
    BY <1>0, <1>2, <2>1, SameEvidence DEF IInv, Written, Remembered, ReportedIsBad
  <2> QED  BY <2>1, <2>2, <2>3, <2>4, <2>5, <2>6, <2>7, <2>8, SameEvidence DEF IInv, Batches, Messages
<1>3. CASE main' = "finishing" /\ UNCHANGED batch_index
           /\ channel' = Append(channel, Msg("Finish", None, TRUE))
  <2>1. PICK m \in Message : m.type = "Finish" /\ channel' = Append(channel, m)
    <3>1. Msg("Finish", None, TRUE) \in Message /\ Msg("Finish", None, TRUE).type = "Finish"
      BY DEF Msg, Message
    <3> QED  BY <1>3, <3>1
  <2>0. channel \in Seq(Message)
    BY DEF IInv, Batches, Types
  <2>2. /\ channel' \in Seq(Message) /\ Len(channel) \in Nat /\ Len(channel') = Len(channel) + 1
        /\ \A n \in 1..Len(channel) : n \in 1..Len(channel') /\ channel'[n] = channel[n]
        /\ channel'[Len(channel) + 1] = m
        /\ \A n \in 1..Len(channel') : n \in 1..Len(channel) \/ n = Len(channel) + 1
    BY <2>0, <2>1, AppendFacts
  <2>3. ~BadMsg(m)
    BY <2>1 DEF BadMsg
  <2>4. \A t : (Bad(t)' <=> Bad(t)) /\ (NoneOrOver(t)' <=> NoneOrOver(t))
    BY <1>0 DEF Bad, NoneOrOver, Over
  <2>5. Types'
    BY <1>0, <1>3, <2>2 DEF IInv, Batches, Types, Place
  <2>6. Current' /\ StopIsShared'
    BY <1>0, <1>3 DEF IInv, Batches, Current, StopIsShared
  <2>7. Fresh'
    BY <1>0, <1>3 DEF IInv, Batches, Fresh, NotBuilt
  <2>8. OthersAreOver'
    BY <1>0, <1>3, <2>4 DEF IInv, Batches, OthersAreOver
  <2>9. Drained' /\ FoundUnlessLate'
    BY <1>0, <1>3, <1>a DEF Drained, FoundUnlessLate
  <2>10. FinishLast'
    <3>1. \A n \in 1..Len(channel) : channel[n].type # "Finish"
      BY <1>0 DEF IInv, Messages, FinishLast
    <3>2. \A n \in 1..Len(channel') : channel'[n].type = "Finish" => n = Len(channel')
      BY <2>2, <3>1
    <3> QED  BY <1>0, <1>3, <1>a, <3>2 DEF IInv, Messages, FinishLast
  <2>11. Written' /\ Remembered'
    BY <1>0, <1>3, <2>4 DEF IInv, Written, Remembered
  <2>12. ReportedIsBad'
    BY <1>0, <1>3, <2>11 DEF Written, Remembered, ReportedIsBad
  <2>13. SaysBad(ui_receiver)'
    BY <1>0, <2>4 DEF IInv, Messages, SaysBad, BadMsg
  <2>14. SaysBad(channel)'
    BY <1>0, <2>2, <2>3, <2>4 DEF IInv, Messages, SaysBad, BadMsg
  <2>15. OldFirst'
    BY <1>0, <2>2, <2>3 DEF IInv, Messages, OldFirst, Old, New, BadMsg
  <2>16. NotLost'
    <3>1. \A t : Told(channel, t) => Told(channel, t)'
      BY <2>2 DEF Told, BadMsg
    <3> QED  BY <1>0, <2>4, <3>1 DEF IInv, Messages, NotLost, Told
  <2> QED  BY <2>5, <2>6, <2>7, <2>8, <2>9, <2>10, <2>11, <2>12, <2>13, <2>14, <2>15, <2>16
           DEF IInv, Batches, Messages
<1> QED  BY <1>1, <1>2, <1>3 DEF CheckShouldStop

(* The UI is finished, so there is no message that it did not see. *)
LEMMA FinishInv == ASSUME IInv, ~Ended, Finish PROVE IInv'
<1>1. UNCHANGED <<evidence, batch_index, ctrlc, should_stop, stop, executor, written>> /\ main = "finishing"
      /\ ui # "running"
  BY DEF Finish, uiVars, exec, evidence, shared, threads
<1>2. CASE main' = "failed"
  BY <1>1, <1>2, MainFails
<1>3. CASE main' = "over"
  <2>1. ui = "finished" /\ channel = <<>> /\ ui_receiver = <<>>
    BY <1>1, <1>3 DEF Finish, IInv, Batches, Types, Messages, FinishLast, Drained
  <2>2. Types'
    BY <1>1, <1>3 DEF IInv, Batches, Types, Place, evidence
  <2>3. Current' /\ StopIsShared'
    BY <1>1, <1>3 DEF IInv, Batches, Current, StopIsShared, evidence
  <2>4. Fresh'
    BY <1>1, <1>3 DEF IInv, Batches, Fresh, NotBuilt, evidence
  <2>5. OthersAreOver'
    BY <1>1, <1>3, SameEvidence DEF IInv, Batches, OthersAreOver, evidence
  <2>6. Drained' /\ FinishLast'
    BY <1>1, <1>3, <2>1 DEF Drained, IInv, Messages, FinishLast, evidence
  <2>7. Written' /\ Remembered'
    BY <1>1, <1>3, SameEvidence DEF IInv, Written, Remembered, evidence
  <2>8. ReportedIsBad'
    <3>1. failing_testcase # None => <<failing_testcase, "input">> \in written
      BY <1>1, <1>3, <2>1 DEF Finish
    <3>2. copied' = {w \in written : w[1] = failing_testcase}
      BY <1>3 DEF Finish
    <3>3. failing_testcase # None => <<failing_testcase, "input">> \in copied'
      BY <3>1, <3>2
    <3> QED  BY <1>1, <2>7, <3>1, <3>3 DEF ReportedIsBad, Remembered, evidence
  <2>9. FoundUnlessLate'
    <3>1. \A t \in last_batch : Bad(t) => failing_testcase \in last_batch
      BY <2>1 DEF IInv, Messages, NotLost, Told
    <3>2. failing_testcase \in last_batch => failing_testcase # None
      BY FindBadCaseAssumption DEF IInv, Batches, Types, TestcaseId
    <3> QED  BY <1>1, <3>1, <3>2, SameEvidence DEF FoundUnlessLate, evidence
  <2> QED  BY <1>1, <2>2, <2>3, <2>4, <2>5, <2>6, <2>7, <2>8, <2>9, SameEvidence
           DEF IInv, Batches, Messages
<1> QED  BY <1>2, <1>3 DEF Finish

LEMMA MainInv == ASSUME IInv, ~Ended, Main \/ Failures PROVE IInv'
<1>1. CASE SetupFails
  <2>1. UNCHANGED <<evidence, batch_index, ctrlc, should_stop, stop, written>> /\ main' = "failed"
    BY <1>1 DEF SetupFails, uiVars, exec, evidence, shared, threads
  <2> QED  BY <2>1, MainFails
<1>2. CASE EvaluateFails
  <2>1. /\ UNCHANGED <<evidence, batch_index, ctrlc, stop, written>> /\ main' \in {"failed", "panicked"}
        /\ main = "evaluating" /\ (should_stop => should_stop')
    BY <1>2 DEF EvaluateFails, uiVars, exec, evidence, threads
  <2>2. ui # "finished"
    BY <2>1 DEF IInv, Messages, FinishLast
  <2> QED  BY <2>1, <2>2, MainFails
<1>3. CASE ExecutorFailed
  <2>1. /\ UNCHANGED <<evidence, batch_index, ctrlc, stop, written, should_stop>>
        /\ main' = "panicked" /\ main = "joining"
    BY <1>3 DEF ExecutorFailed, uiVars, exec, evidence, threads, shared
  <2>2. ui # "finished"
    BY <2>1 DEF IInv, Messages, FinishLast
  <2> QED  BY <2>1, <2>2, MainFails
<1>4. CASE Evaluate \/ UploadEnds \/ TakeSender \/ JoinUIThread
  <2>1. /\ UNCHANGED <<evidence, batch_index, ctrlc, should_stop, written, task, stop>>
        /\ <<main, main'>> \in {<<"starting", "evaluating">>, <<"evaluating", "evaluating">>,
                                <<"evaluated", "joining">>, <<"joining", "checking">>}
        /\ main' = "checking" => ui_receiver = <<>>
    BY <1>4 DEF Evaluate, UploadEnds, TakeSender, JoinUIThread, uiVars, exec, evidence, threads, shared
  <2>2. stop => should_stop
    BY DEF IInv, Batches, StopIsShared
  <2> QED  BY <2>1, <2>2, MainGoesOn
<1> QED  BY <1>1, <1>2, <1>3, <1>4, StartBatchInv, BuildDagInv, EvaluateReturnsInv,
            CheckShouldStopInv, FinishInv DEF Main, Failures

-----------------------------------------------------------------------------
(* The executor: a testcase of the last batch moves on, and its bad score, if it *)
(* has one, is told.                                                             *)
LEMMA ExecutorFacts ==
    ASSUME IInv, Executor, ~Ended
    PROVE  \E t \in last_batch, to \in Stage \ {"none", "pending"} :
             /\ t \in TestcaseId /\ ~Bad(t) /\ main = "evaluating"
             /\ stage' = [stage EXCEPT ![t] = to]
             /\ \/ ui_receiver' = ui_receiver /\ to \notin {"crashed", "wrong"}
                \/ \E m \in Message :
                     /\ ui_receiver' = Append(ui_receiver, m)
                     /\ m.testcase = t /\ m.type # "Finish"
                     /\ BadMsg(m) <=> to \in {"crashed", "wrong"}
             /\ UNCHANGED <<main, batch_index, last_batch, failing_testcase, channel, ui, ctrlc,
                            should_stop, stop, executor, written>>
<1>1. PICK t \in TestcaseId, ok \in BOOLEAN : Prepared(t, ok) \/ Solved(t, ok) \/ Checked(t, ok)
  BY DEF Executor
<1>2. ui_receiver \in Seq(Message)
  BY DEF IInv, Batches, Types
<1>3. stage[t] \in {"pending", "validated", "solved"} /\ main = "evaluating"
  BY <1>1 DEF Prepared, Solved, Checked, StepEnds
<1>4. t \in last_batch /\ ~Bad(t)
  BY <1>3 DEF IInv, Batches, OthersAreOver, NoneOrOver, Over, Bad
<1>6. UNCHANGED <<main, batch_index, last_batch, failing_testcase, channel, ui, ctrlc,
                  should_stop, stop, executor, written>>
  BY <1>1 DEF Prepared, Solved, Checked, StepEnds, shared, threads, uiVars
<1>7. \A x \in {"IOIGeneration", "IOITestcaseScore"}, y \in BOOLEAN :
        /\ Msg(x, t, y) \in Message /\ Msg(x, t, y).testcase = t /\ Msg(x, t, y).type # "Finish"
        /\ BadMsg(Msg(x, t, y)) <=> (x = "IOITestcaseScore" /\ ~y)
        /\ ui_receiver \o <<Msg(x, t, y)>> = Append(ui_receiver, Msg(x, t, y))
  <2> SUFFICES ASSUME NEW x \in {"IOIGeneration", "IOITestcaseScore"}, NEW y \in BOOLEAN
               PROVE  /\ Msg(x, t, y) \in Message /\ Msg(x, t, y).testcase = t /\ Msg(x, t, y).type # "Finish"
                      /\ BadMsg(Msg(x, t, y)) <=> (x = "IOITestcaseScore" /\ ~y)
                      /\ ui_receiver \o <<Msg(x, t, y)>> = Append(ui_receiver, Msg(x, t, y))
    OBVIOUS
  <2>1. /\ Msg(x, t, y) \in Message /\ Msg(x, t, y).testcase = t /\ Msg(x, t, y).type # "Finish"
        /\ BadMsg(Msg(x, t, y)) <=> (x = "IOITestcaseScore" /\ ~y)
    BY DEF Msg, Message, BadMsg
  <2> QED  BY <1>2, <2>1, ConcatFacts
<1>8. ui_receiver \o <<>> = ui_receiver
  BY <1>2
<1> DEFINE Goal(to) ==
             /\ to \in Stage \ {"none", "pending"} /\ stage' = [stage EXCEPT ![t] = to]
             /\ \/ ui_receiver' = ui_receiver /\ to \notin {"crashed", "wrong"}
                \/ \E m \in Message :
                     /\ ui_receiver' = Append(ui_receiver, m)
                     /\ m.testcase = t /\ m.type # "Finish"
                     /\ BadMsg(m) <=> to \in {"crashed", "wrong"}
<1>9. CASE Prepared(t, ok)
  <2>1. CASE ok
    <3>1. Goal("validated")
      BY <1>8, <1>9, <2>1 DEF Prepared, StepEnds, Stage
    <3> QED  BY <1>3, <1>4, <1>6, <3>1
  <2>2. CASE ~ok
    <3>1. Goal("broken")
      BY <1>7, <1>9, <2>2 DEF Prepared, StepEnds, Stage
    <3> QED  BY <1>3, <1>4, <1>6, <3>1
  <2> QED  BY <2>1, <2>2
<1>10. CASE Solved(t, ok)
  <2>1. CASE ok
    <3>1. Goal("solved")
      BY <1>8, <1>10, <2>1 DEF Solved, StepEnds, Stage
    <3> QED  BY <1>3, <1>4, <1>6, <3>1
  <2>2. CASE ~ok
    <3>1. Goal("crashed")
      BY <1>7, <1>10, <2>2 DEF Solved, StepEnds, Stage
    <3> QED  BY <1>3, <1>4, <1>6, <3>1
  <2> QED  BY <2>1, <2>2
<1>11. CASE Checked(t, ok)
  <2>1. CASE ok
    <3>1. Goal("right")
      BY <1>7, <1>11, <2>1 DEF Checked, StepEnds, Stage
    <3> QED  BY <1>3, <1>4, <1>6, <3>1
  <2>2. CASE ~ok
    <3>1. Goal("wrong")
      BY <1>7, <1>11, <2>2 DEF Checked, StepEnds, Stage
    <3> QED  BY <1>3, <1>4, <1>6, <3>1
  <2> QED  BY <2>1, <2>2
<1> QED  BY <1>1, <1>9, <1>10, <1>11

LEMMA ExecutorInv == ASSUME IInv, ~Ended, Executor PROVE IInv'
<1>1. PICK t \in last_batch, to \in Stage \ {"none", "pending"} :
             /\ t \in TestcaseId /\ ~Bad(t) /\ main = "evaluating"
             /\ stage' = [stage EXCEPT ![t] = to]
             /\ \/ ui_receiver' = ui_receiver /\ to \notin {"crashed", "wrong"}
                \/ \E m \in Message :
                     /\ ui_receiver' = Append(ui_receiver, m)
                     /\ m.testcase = t /\ m.type # "Finish"
                     /\ BadMsg(m) <=> to \in {"crashed", "wrong"}
             /\ UNCHANGED <<main, batch_index, last_batch, failing_testcase, channel, ui, ctrlc,
                            should_stop, stop, executor, written>>
  BY ExecutorFacts
<1>2. /\ ui_receiver \in Seq(Message) /\ stage \in [TestcaseId -> Stage]
      /\ last_batch \subseteq TestcaseId
  BY DEF IInv, Batches, Types
<1>3. /\ \A u \in TestcaseId \ {t} : stage'[u] = stage[u]
      /\ stage'[t] = to /\ stage' \in [TestcaseId -> Stage]
      /\ \A u \in TestcaseId : Bad(u) => stage'[u] \in {"crashed", "wrong"}
  BY <1>1, <1>2 DEF Bad
<1>4. /\ ui_receiver' \in Seq(Message) /\ Len(ui_receiver) \in Nat /\ Len(ui_receiver') \in Nat
      /\ \A n \in 1..Len(ui_receiver) : n \in 1..Len(ui_receiver') /\ ui_receiver'[n] = ui_receiver[n]
      /\ \A n \in 1..Len(ui_receiver') : n \in 1..Len(ui_receiver)
           \/ (/\ ui_receiver'[n].testcase = t /\ ui_receiver'[n].type # "Finish"
               /\ BadMsg(ui_receiver'[n]) => to \in {"crashed", "wrong"})
      /\ to \in {"crashed", "wrong"} =>
           \E n \in 1..Len(ui_receiver') : BadMsg(ui_receiver'[n]) /\ ui_receiver'[n].testcase = t
  <2>1. CASE ui_receiver' = ui_receiver /\ to \notin {"crashed", "wrong"}
    BY <1>2, <2>1, LenFacts
  <2>2. ASSUME NEW m \in Message, ui_receiver' = Append(ui_receiver, m),
               m.testcase = t, m.type # "Finish", BadMsg(m) <=> to \in {"crashed", "wrong"}
        PROVE  <1>4!1
    <3>1. /\ ui_receiver' \in Seq(Message) /\ Len(ui_receiver) \in Nat
          /\ Len(ui_receiver') = Len(ui_receiver) + 1
          /\ \A n \in 1..Len(ui_receiver) : n \in 1..Len(ui_receiver') /\ ui_receiver'[n] = ui_receiver[n]
          /\ \A n \in 1..Len(ui_receiver') : n \in 1..Len(ui_receiver) \/ n = Len(ui_receiver) + 1
          /\ Len(ui_receiver) + 1 \in 1..Len(ui_receiver')
          /\ ui_receiver'[Len(ui_receiver) + 1] = m
      BY <1>2, <2>2, AppendFacts
    <3> QED  BY <2>2, <3>1
  <2> QED  BY <1>1, <2>1, <2>2
<1>5. Types'
  BY <1>1, <1>3, <1>4 DEF IInv, Batches, Types
<1>6. Current' /\ StopIsShared'
  BY <1>1 DEF IInv, Batches, Current, StopIsShared
<1>7. Fresh'
  <2> SUFFICES ASSUME NEW b \in 0..(MaxBatches - 1), NotBuilt(b)', NEW u \in Testcases(b)
               PROVE  stage'[u] = "none"
    BY DEF Fresh
  <2>1. NotBuilt(b) /\ b > batch_index /\ batch_index \in 0..(MaxBatches - 1)
    BY <1>1 DEF NotBuilt, IInv, Batches, Types
  <2>2. last_batch = Testcases(batch_index)
    BY <1>1 DEF IInv, Batches, Current
  <2>3. u # t /\ u \in TestcaseId
    BY <1>1, <2>1, <2>2, TestcasesDiffer, TestcasesAreIds
  <2> QED  BY <1>3, <2>1, <2>3 DEF IInv, Batches, Fresh
<1>8. OthersAreOver'
  <2>1. \A u \in TestcaseId \ last_batch : NoneOrOver(u)
    BY DEF IInv, Batches, OthersAreOver
  <2>2. \A u \in TestcaseId \ last_batch : NoneOrOver(u)'
    BY <1>1, <1>3, <2>1 DEF NoneOrOver, Over
  <2> QED  BY <1>1, <2>2 DEF OthersAreOver
<1>9. SaysBad(channel)'
  BY <1>1, <1>3 DEF IInv, Messages, SaysBad, BadMsg, Bad
<1>10. SaysBad(ui_receiver)'
  <2>1. \A n \in 1..Len(ui_receiver) : BadMsg(ui_receiver[n]) =>
           ui_receiver[n].testcase \in TestcaseId /\ Bad(ui_receiver[n].testcase)
    BY DEF IInv, Messages, SaysBad
  <2>2. \A n \in 1..Len(ui_receiver') : BadMsg(ui_receiver'[n]) =>
           ui_receiver'[n].testcase \in TestcaseId /\ stage'[ui_receiver'[n].testcase] \in {"crashed", "wrong"}
    BY <1>1, <1>3, <1>4, <2>1
  <2> QED  BY <2>2 DEF SaysBad, BadMsg, Bad
<1>11. OldFirst'
  BY <1>1, <1>4 DEF IInv, Messages, OldFirst, Old, New, BadMsg
<1>12. NotLost'
  <2>1. \A u : Told(ui_receiver, u) => Told(ui_receiver, u)'
    BY <1>4 DEF Told, BadMsg
  <2>2. to \in {"crashed", "wrong"} => Told(ui_receiver, t)'
    BY <1>4 DEF Told, BadMsg
  <2>3. \A u \in last_batch : Bad(u)' => Bad(u) \/ (u = t /\ to \in {"crashed", "wrong"})
    BY <1>2, <1>3 DEF Bad
  <2>4. \A u : Told(channel, u)' <=> Told(channel, u)
    BY <1>1 DEF Told, BadMsg
  <2> QED  BY <1>1, <2>1, <2>2, <2>3, <2>4 DEF IInv, Messages, NotLost
<1>13. Drained' /\ Written' /\ FoundUnlessLate'
  BY <1>1 DEF Drained, Written, FoundUnlessLate
<1>14. FinishLast'
  BY <1>1, <1>4 DEF IInv, Messages, FinishLast
<1>15. Remembered'
  BY <1>1, <1>3 DEF IInv, Batches, Types, Remembered, Bad
<1>16. ReportedIsBad'
  BY <1>1, <1>15 DEF ReportedIsBad, Remembered
<1> QED  BY <1>5, <1>6, <1>7, <1>8, <1>9, <1>10, <1>11, <1>12, <1>13, <1>14, <1>15, <1>16
         DEF IInv, Batches, Messages

-----------------------------------------------------------------------------
(* A message is forwarded: it is of the last batch. *)
LEMMA ForwardInv == ASSUME IInv, ~Ended, Forward PROVE IInv'
<1>1. /\ UNCHANGED <<main, batch_index, last_batch, failing_testcase, stage, ui, ctrlc,
                     should_stop, stop, executor, written, copied>>
      /\ ui_receiver # <<>> /\ ui_receiver' = Tail(ui_receiver)
      /\ channel' = Append(channel, Head(ui_receiver))
  BY DEF Forward, uiVars, exec, shared
<1>2. ui_receiver \in Seq(Message) /\ channel \in Seq(Message)
  BY DEF IInv, Batches, Types
<1> DEFINE h == ui_receiver[1]
<1>3. /\ ui_receiver' \in Seq(Message) /\ h \in Message /\ Head(ui_receiver) = h /\ 1 \in 1..Len(ui_receiver)
      /\ \A n \in 1..Len(ui_receiver') : n + 1 \in 1..Len(ui_receiver) /\ ui_receiver'[n] = ui_receiver[n + 1]
      /\ \A n \in 1..Len(ui_receiver) : n # 1 => n - 1 \in 1..Len(ui_receiver') /\ ui_receiver'[n - 1] = ui_receiver[n]
  BY <1>1, <1>2, TailFacts
<1>4. /\ channel' \in Seq(Message) /\ Len(channel) \in Nat /\ Len(channel') = Len(channel) + 1
      /\ \A n \in 1..Len(channel) : n \in 1..Len(channel') /\ channel'[n] = channel[n]
      /\ channel'[Len(channel) + 1] = h /\ Len(channel) + 1 \in 1..Len(channel')
      /\ \A n \in 1..Len(channel') : n \in 1..Len(channel) \/ n = Len(channel) + 1
  BY <1>1, <1>2, <1>3, AppendFacts
<1>5. \A t : (Bad(t)' <=> Bad(t)) /\ (NoneOrOver(t)' <=> NoneOrOver(t))
  BY <1>1 DEF Bad, NoneOrOver, Over
<1>6. /\ BadMsg(h) => h.testcase \in TestcaseId /\ Bad(h.testcase)
      /\ ~Old(h) /\ h.type # "Finish"
  BY <1>3 DEF IInv, Messages, SaysBad, OldFirst, FinishLast
<1> HIDE DEF h
<1>7. main \notin {"batch", "building", "checking", "finishing", "over"}
  BY <1>1 DEF IInv, Messages, Drained
<1>8. Types'
  BY <1>1, <1>3, <1>4 DEF IInv, Batches, Types
<1>9. Current' /\ StopIsShared' /\ Fresh'
  BY <1>1 DEF IInv, Batches, Current, StopIsShared, Fresh, NotBuilt
<1>10. OthersAreOver'
  BY <1>1, <1>5 DEF IInv, Batches, OthersAreOver
<1>11. SaysBad(ui_receiver)'
  BY <1>3, <1>5 DEF IInv, Messages, SaysBad, BadMsg
<1>12. SaysBad(channel)'
  BY <1>4, <1>5, <1>6 DEF IInv, Messages, SaysBad, BadMsg
<1>13. OldFirst'
  <2>1. \A m : (Old(m)' <=> Old(m)) /\ (New(m)' <=> New(m))
    BY <1>1 DEF Old, New, BadMsg
  <2>2. \A n \in 1..Len(ui_receiver') : ~Old(ui_receiver'[n])
    BY <1>3 DEF IInv, Messages, OldFirst
  <2>3. \A m, n \in 1..Len(channel') : m <= n /\ New(channel'[m]) => ~Old(channel'[n])
    <3> SUFFICES ASSUME NEW m \in 1..Len(channel'), NEW n \in 1..Len(channel'), m <= n,
                        New(channel'[m]), n # Len(channel) + 1
                 PROVE  ~Old(channel'[n])
      BY <1>4, <1>6
    <3>1. m \in 1..Len(channel) /\ n \in 1..Len(channel)
      BY <1>4
    <3> QED  BY <1>4, <3>1 DEF IInv, Messages, OldFirst
  <2>4. failing_testcase \in last_batch => \A n \in 1..Len(channel') : ~Old(channel'[n])
    BY <1>4, <1>6 DEF IInv, Messages, OldFirst
  <2> QED  BY <1>1, <2>2, <2>3, <2>4 DEF OldFirst, Old, New, BadMsg
<1>14. NotLost'
  <2>1. \A t : Told(channel, t) => Told(channel, t)'
    BY <1>4 DEF Told, BadMsg
  <2>2. \A t : Told(ui_receiver, t) => Told(ui_receiver, t)' \/ Told(channel, t)'
    <3> SUFFICES ASSUME NEW t, NEW n \in 1..Len(ui_receiver), BadMsg(ui_receiver[n]),
                        ui_receiver[n].testcase = t
                 PROVE  Told(ui_receiver, t)' \/ Told(channel, t)'
      BY DEF Told
    <3>1. CASE n = 1
      BY <1>4, <3>1 DEF Told, BadMsg, h
    <3>2. CASE n # 1
      BY <1>3, <3>2 DEF Told, BadMsg
    <3> QED  BY <3>1, <3>2
  <2> QED  BY <1>1, <1>5, <2>1, <2>2 DEF IInv, Messages, NotLost
<1>15. Drained' /\ FoundUnlessLate'
  BY <1>1, <1>7 DEF Drained, FoundUnlessLate
<1>16. FinishLast'
  <2>1. \A n \in 1..Len(ui_receiver') : ui_receiver'[n].type # "Finish"
    BY <1>3 DEF IInv, Messages, FinishLast
  <2>2. \A n \in 1..Len(channel') : channel'[n].type # "Finish"
    BY <1>1, <1>4, <1>6, <1>7 DEF IInv, Messages, FinishLast, Ended
  <2>3. ui # "finished"
    BY <1>7 DEF IInv, Messages, FinishLast, Ended
  <2> QED  BY <1>1, <2>1, <2>2, <2>3 DEF FinishLast
<1>17. Written' /\ Remembered' /\ ReportedIsBad'
  BY <1>1, <1>5 DEF IInv, Written, Remembered, ReportedIsBad
<1> QED  BY <1>8, <1>9, <1>10, <1>11, <1>12, <1>13, <1>14, <1>15, <1>16, <1>17
         DEF IInv, Batches, Messages

-----------------------------------------------------------------------------
(* The UI takes a message.  What is left to show of each kind of message is that *)
(* the bad score it takes is not lost.                                            *)
Takes == /\ ui = "running" /\ channel # <<>> /\ channel' = Tail(channel)
         /\ UNCHANGED <<main, batch_index, last_batch, stage, written, ui_receiver, ctrlc, executor,
                        copied>>
         /\ should_stop => should_stop'

LEMMA TakesFacts ==
    ASSUME IInv, Takes
    PROVE  /\ channel' \in Seq(Message) /\ channel[1] \in Message /\ Head(channel) = channel[1]
           /\ 1 \in 1..Len(channel) /\ Len(channel) \in Nat /\ Len(channel') \in Nat
           /\ Len(channel') = Len(channel) - 1
           /\ \A n \in 1..Len(channel') : n + 1 \in 1..Len(channel) /\ channel'[n] = channel[n + 1]
           /\ \A n \in 1..Len(channel) : n # 1 => n - 1 \in 1..Len(channel') /\ channel'[n - 1] = channel[n]
<1>1. channel \in Seq(Message) /\ channel # <<>> /\ channel' = Tail(channel)
  BY DEF IInv, Batches, Types, Takes
<1> QED  BY <1>1, TailFacts

LEMMA TakesInv ==
    ASSUME IInv, ~Ended, Takes,
           ui' \in {"running", "finished", "panicked"},
           failing_testcase' \in TestcaseId \cup {None},
           stop' \/ ctrlc = "pressed" => should_stop',
           ui' = "finished" => channel[1].type = "Finish",
           \/ /\ failing_testcase' = failing_testcase
              /\ ui' = "panicked" \/ ~BadMsg(channel[1])
           \/ /\ ui' = "running" /\ BadMsg(channel[1])
              /\ failing_testcase' = IF channel[1].testcase \in last_batch THEN channel[1].testcase ELSE None
    PROVE  IInv'
<1> DEFINE h == channel[1]
<1>0. UNCHANGED <<main, batch_index, last_batch, stage, written, ui_receiver, ctrlc, executor, copied>>
      /\ ui = "running"
  BY DEF Takes
<1>1. \A t : (Bad(t)' <=> Bad(t)) /\ (NoneOrOver(t)' <=> NoneOrOver(t))
  BY <1>0 DEF Bad, NoneOrOver, Over
<1>2. \A m : (Old(m)' <=> Old(m)) /\ (New(m)' <=> New(m))
  BY <1>0 DEF Old, New, BadMsg
<1>3. /\ BadMsg(h) => h.testcase \in TestcaseId /\ Bad(h.testcase)
      /\ h.type = "Finish" => Len(channel) = 1
  BY TakesFacts DEF IInv, Messages, SaysBad, FinishLast
<1>4. None \notin last_batch
  <2>1. None \notin TestcaseId
    BY FindBadCaseAssumption DEF TestcaseId
  <2>2. last_batch \in SUBSET TestcaseId
    BY DEF IInv, Batches, Types
  <2> QED  BY <2>1, <2>2
<1>5. Types'
  BY <1>0, TakesFacts DEF IInv, Batches, Types
<1>6. Current' /\ Fresh' /\ StopIsShared'
  BY <1>0 DEF IInv, Batches, Current, StopIsShared, Fresh, NotBuilt
<1>7. OthersAreOver'
  BY <1>0, <1>1 DEF IInv, Batches, OthersAreOver, Takes
<1>8. SaysBad(ui_receiver)'
  BY <1>0, <1>1 DEF IInv, Messages, SaysBad, BadMsg
<1>9. SaysBad(channel)'
  BY <1>1, TakesFacts DEF IInv, Messages, SaysBad, BadMsg
<1>10. OldFirst'
  <2>1. \A m, n \in 1..Len(channel') : m <= n /\ New(channel'[m]) => ~Old(channel'[n])
    <3> SUFFICES ASSUME NEW m \in 1..Len(channel'), NEW n \in 1..Len(channel'), m <= n, New(channel'[m])
                 PROVE  ~Old(channel'[n])
      OBVIOUS
    <3>1. m + 1 \in 1..Len(channel) /\ n + 1 \in 1..Len(channel) /\ m + 1 <= n + 1
      BY TakesFacts
    <3>2. New(channel[m + 1]) /\ channel'[n] = channel[n + 1]
      BY TakesFacts
    <3> QED  BY <3>1, <3>2 DEF IInv, Messages, OldFirst
  <2>2. failing_testcase' \in last_batch => \A n \in 1..Len(channel') : ~Old(channel'[n])
    <3>1. CASE failing_testcase' = failing_testcase
      BY <3>1, TakesFacts DEF IInv, Messages, OldFirst
    <3>2. CASE New(h)
      <4>1. \A n \in 1..Len(channel) : 1 <= n
        OBVIOUS
      <4>2. \A n \in 1..Len(channel) : ~Old(channel[n])
        BY <3>2, <4>1, TakesFacts DEF IInv, Messages, OldFirst
      <4> QED  BY <4>2, TakesFacts
    <3>3. failing_testcase' # failing_testcase /\ failing_testcase' \in last_batch => New(h)
      BY <1>4 DEF New
    <3> QED  BY <3>1, <3>2, <3>3
  <2> QED  BY <1>0, <1>2, <2>1, <2>2 DEF IInv, Messages, OldFirst
<1>11. NotLost'
  <2> SUFFICES ASSUME ui' # "panicked", NEW t \in last_batch, Bad(t)
               PROVE  failing_testcase' \in last_batch \/ Told(channel, t)' \/ Told(ui_receiver, t)
    BY <1>0, <1>1 DEF NotLost, Told, BadMsg
  <2>1. failing_testcase \in last_batch \/ Told(channel, t) \/ Told(ui_receiver, t)
    BY <1>0 DEF IInv, Messages, NotLost
  <2>2. CASE failing_testcase \in last_batch
    <3>1. ~Old(h)
      BY <2>2, TakesFacts DEF IInv, Messages, OldFirst
    <3> QED  BY <2>2, <3>1 DEF Old
  <2>3. CASE Told(channel, t)
    <3>1. PICK n \in 1..Len(channel) : BadMsg(channel[n]) /\ channel[n].testcase = t
      BY <2>3 DEF Told
    <3>2. CASE n = 1
      BY <3>1, <3>2
    <3>3. CASE n # 1
      <4>1. n - 1 \in 1..Len(channel') /\ channel'[n - 1] = channel[n]
        BY <3>3, TakesFacts
      <4>2. Told(channel, t)'
        BY <3>1, <4>1 DEF Told, BadMsg
      <4> QED  BY <4>2
    <3> QED  BY <3>2, <3>3
  <2> QED  BY <2>1, <2>2, <2>3
<1>12. Drained'
  BY <1>0 DEF IInv, Messages, Drained
<1>13. FinishLast'
  <2>1. \A n \in 1..Len(channel') : channel'[n].type = "Finish" =>
          n = Len(channel') /\ main \in {"finishing", "over", "failed"}
    <3> SUFFICES ASSUME NEW n \in 1..Len(channel'), channel'[n].type = "Finish"
                 PROVE  n = Len(channel') /\ main \in {"finishing", "over", "failed"}
      OBVIOUS
    <3>1. n + 1 \in 1..Len(channel) /\ channel[n + 1].type = "Finish"
      BY TakesFacts
    <3>2. n + 1 = Len(channel) /\ main \in {"finishing", "over", "failed"}
      BY <3>1 DEF IInv, Messages, FinishLast
    <3> QED  BY <3>2, TakesFacts
  <2>2. ASSUME ui' = "finished" PROVE channel' = <<>> /\ main \in {"finishing", "over", "failed"}
    <3>1. h.type = "Finish"
      BY <2>2
    <3>2. Len(channel') = 0
      BY <1>3, <3>1, TakesFacts
    <3>3. main \in {"finishing", "over", "failed"}
      BY <3>1, TakesFacts DEF IInv, Messages, FinishLast
    <3> QED  BY <3>2, <3>3, TakesFacts
  <2> QED  BY <1>0, <2>1, <2>2 DEF IInv, Messages, FinishLast
<1>14. Written'
  BY <1>0, <1>1 DEF IInv, Written
<1>15. Remembered'
  <2>1. CASE failing_testcase' = failing_testcase
    BY <1>0, <1>1, <2>1 DEF IInv, Remembered
  <2>2. CASE failing_testcase' = None
    BY <2>2 DEF Remembered
  <2>3. CASE failing_testcase' = h.testcase /\ h.testcase \in last_batch /\ BadMsg(h)
    <3>1. Bad(h.testcase) /\ failing_testcase' \in last_batch'
      BY <1>0, <1>3, <2>3
    <3> QED  BY <1>0, <2>3, <3>1 DEF Remembered, Bad
  <2> QED  BY <2>1, <2>2, <2>3
<1>16. ReportedIsBad'
  <2>1. main' # "over"
    BY <1>0 DEF Ended
  <2>2. main' = "finishing" => \A t \in last_batch' : Bad(t)' => <<t, "input">> \in written'
    BY <1>14 DEF Written
  <2> QED  BY <1>15, <2>1, <2>2 DEF Remembered, ReportedIsBad
<1>17. FoundUnlessLate'
  BY <1>0 DEF FoundUnlessLate, Ended
<1> QED  BY <1>5, <1>6, <1>7, <1>8, <1>9, <1>10, <1>11, <1>12, <1>13, <1>14, <1>15, <1>16, <1>17
         DEF IInv, Batches, Messages

LEMMA GlobalUIInv == ASSUME IInv, ~Ended, GlobalUI PROVE IInv'
<1>1. Takes
  BY DEF GlobalUI, ApplyTask, ApplyGeneration, ApplyTestcaseScore, ApplyFinish, Receives, Takes, uiRest
<1>2. Head(channel) = channel[1]
  BY <1>1, TakesFacts
<1>3. ui = "running" /\ failing_testcase \in TestcaseId \cup {None} /\ UNCHANGED ctrlc
  BY <1>1 DEF Takes, IInv, Batches, Types
<1>4. stop \/ ctrlc = "pressed" => should_stop
  BY DEF IInv, Batches, StopIsShared
<1>5. CASE ApplyTask \/ ApplyGeneration \/ ApplyFinish
  <2>1. /\ failing_testcase' = failing_testcase /\ ~BadMsg(channel[1])
        /\ ui' \in {"running", "finished", "panicked"} /\ UNCHANGED <<stop, should_stop>>
        /\ ui' = "finished" => channel[1].type = "Finish"
    BY <1>2, <1>3, <1>5 DEF ApplyTask, ApplyGeneration, ApplyFinish, Receives, BadMsg
  <2> QED  BY <1>1, <1>3, <1>4, <2>1, TakesInv
<1>6. CASE ApplyTestcaseScore
  <2>1. ui' \in {"running", "panicked"} /\ channel[1].type = "IOITestcaseScore"
    BY <1>2, <1>3, <1>6 DEF ApplyTestcaseScore, Receives
  <2>2. CASE channel[1].ok \/ batches = 0
    <3>1. /\ failing_testcase' = failing_testcase /\ UNCHANGED <<stop, should_stop>>
          /\ ui' = "panicked" \/ ~BadMsg(channel[1])
      BY <1>2, <1>6, <2>2 DEF ApplyTestcaseScore, BadMsg
    <3> QED  BY <1>1, <1>3, <1>4, <2>1, <3>1, TakesInv
  <2>3. CASE ~(channel[1].ok \/ batches = 0)
    <3>1. /\ failing_testcase' = IF channel[1].testcase \in last_batch THEN channel[1].testcase ELSE None
          /\ should_stop' = TRUE /\ ui' = "running" /\ BadMsg(channel[1])
      BY <1>2, <1>3, <1>6, <2>1, <2>3 DEF ApplyTestcaseScore, BadMsg
    <3>2. failing_testcase' \in TestcaseId \cup {None}
      BY <3>1 DEF IInv, Batches, Types
    <3> QED  BY <1>1, <1>3, <2>1, <3>1, <3>2, TakesInv
  <2> QED  BY <2>2, <2>3
<1> QED  BY <1>5, <1>6 DEF GlobalUI

LEMMA CtrlCInv == ASSUME IInv, ~Ended, CtrlC \/ CtrlCStop PROVE IInv'
<1>1. /\ UNCHANGED <<evidence, main, batch_index, executor, written, copied>>
      /\ should_stop => should_stop'
      /\ stop' \/ ctrlc' = "pressed" => should_stop'
  BY DEF CtrlC, CtrlCStop, StopEvaluation, evidence, exec, shared, uiVars, IInv, Batches, StopIsShared
<1>2. Types' /\ Current' /\ StopIsShared' /\ Fresh'
  BY <1>1 DEF IInv, Batches, Types, Current, StopIsShared, Fresh, NotBuilt, evidence
<1>3. OthersAreOver'
  BY <1>1, SameEvidence DEF IInv, Batches, OthersAreOver, evidence
<1>4. Drained' /\ FinishLast'
  BY <1>1 DEF IInv, Messages, Drained, FinishLast, evidence
<1>5. Written' /\ Remembered' /\ ReportedIsBad' /\ FoundUnlessLate'
  BY <1>1, SameEvidence DEF IInv, Written, Remembered, ReportedIsBad, FoundUnlessLate, evidence
<1> QED  BY <1>1, <1>2, <1>3, <1>4, <1>5, SameEvidence DEF IInv, Batches, Messages

-----------------------------------------------------------------------------
LEMMA InitInv == Init => IInv
<1> SUFFICES ASSUME Init PROVE IInv
  OBVIOUS
<1>1. /\ main = "batch" /\ batch_index = 0 /\ last_batch = {} /\ should_stop = FALSE
      /\ failing_testcase = None /\ executor = "none" /\ stop = FALSE
      /\ stage = [t \in TestcaseId |-> "none"]
      /\ ui = "running" /\ ctrlc = "idle"
  BY DEF Init
<1>2. /\ ui_receiver \in Seq(Message) /\ channel \in Seq(Message)
      /\ Len(ui_receiver) = 0 /\ Len(channel) = 0 /\ ui_receiver = <<>>
  BY DEF Init
<1>3. Types
  BY <1>1, <1>2, FindBadCaseAssumption DEF Types, Place, Stage
<1>4. Current /\ StopIsShared
  BY <1>1 DEF Current, StopIsShared
<1>5. Fresh
  BY <1>1, TestcasesAreIds DEF Fresh
<1>6. OthersAreOver
  BY <1>1 DEF OthersAreOver, NoneOrOver
<1>7. SaysBad(ui_receiver) /\ SaysBad(channel) /\ OldFirst /\ NotLost
  BY <1>1, <1>2 DEF SaysBad, OldFirst, NotLost
<1>8. Drained /\ FinishLast
  BY <1>1, <1>2 DEF Drained, FinishLast
<1>9. Written /\ Remembered /\ ReportedIsBad /\ FoundUnlessLate
  BY <1>1 DEF Written, Remembered, ReportedIsBad, FoundUnlessLate
<1> QED  BY <1>3, <1>4, <1>5, <1>6, <1>7, <1>8, <1>9 DEF IInv, Batches, Messages

LEMMA NextInv == IInv /\ [Next]_vars => IInv'
<1> SUFFICES ASSUME IInv, [Next]_vars PROVE IInv'
  OBVIOUS
<1>1. CASE UNCHANGED vars
  <2>1. UNCHANGED <<evidence, main, batch_index, executor, written, copied, stop, should_stop, ctrlc>>
    BY <1>1 DEF vars, evidence, exec, shared, uiVars
  <2>2. Types' /\ Current' /\ StopIsShared' /\ Fresh'
    BY <2>1 DEF IInv, Batches, Types, Current, StopIsShared, Fresh, NotBuilt, evidence
  <2>3. OthersAreOver'
    BY <2>1, SameEvidence DEF IInv, Batches, OthersAreOver, evidence
  <2>4. Drained' /\ FinishLast'
    BY <2>1 DEF IInv, Messages, Drained, FinishLast, evidence
  <2>5. Written' /\ Remembered' /\ ReportedIsBad' /\ FoundUnlessLate'
    BY <2>1, SameEvidence DEF IInv, Written, Remembered, ReportedIsBad, FoundUnlessLate, evidence
  <2> QED  BY <2>1, <2>2, <2>3, <2>4, <2>5, SameEvidence DEF IInv, Batches, Messages
<1> QED  BY <1>1, MainInv, ExecutorInv, ForwardInv, GlobalUIInv, CtrlCInv DEF Next

(* The testcase that is remembered made the solution fail, and its input is one  *)
(* of the files that are copied, for every number and size of the batches.        *)
THEOREM ReportIsTrue == Spec => []ReportedIsBad
<1>1. IInv => ReportedIsBad
  BY DEF IInv
<1> QED  BY <1>1, InitInv, NextInv, PTL DEF Spec

(* A search that ends without a bad case has none in its last batch: only a       *)
(* testcase whose batch was replaced before its score was applied is forgotten.   *)
THEOREM NoneOfTheLastBatchIsMissed == Spec => []FoundUnlessLate
<1>1. IInv => FoundUnlessLate
  BY DEF IInv
<1> QED  BY <1>1, InitInv, NextInv, PTL DEF Spec
=============================================================================
