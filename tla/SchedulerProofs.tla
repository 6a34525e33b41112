--------------------------- MODULE SchedulerProofs ---------------------------
(***************************************************************************)
(* Theorems about the scheduler, for every set of clients, workers, groups, *)
(* files and every DAG that satisfies DagAssumption.                        *)
(***************************************************************************)
EXTENDS Scheduler, SequenceTheorems, TLAPS

-----------------------------------------------------------------------------
(* Sequences: what the pending calls are after a push or a pop *)

(* Pushing a call on the stack keeps its type. *)
LEMMA PushType ==
    ASSUME NEW S, NEW x \in S, NEW s \in Seq(S)
    PROVE  <<x>> \o s \in Seq(S)
  OBVIOUS

(* The stack without its top and the top itself keep their types. *)
LEMMA PopType ==
    ASSUME NEW S, NEW s \in Seq(S), s # <<>>
    PROVE  Tail(s) \in Seq(S) /\ Head(s) \in S
  OBVIOUS

(* Every call the code makes is a frame. *)
LEMMA CallTypes ==
    /\ ScheduleCachedCall \in Frame
    /\ AssignJobsCall \in Frame
    /\ \A c \in Client : CheckCompletionCall(c) \in Frame
    /\ \A op \in {"file_success", "file_failed"}, c \in Client, S \in SUBSET File :
            FilesCall(op, c, S) \in Frame
    /\ \A S \in SUBSET Hit, from \in {"worker", "cache"} : CompletedCall(S, from) \in Frame
  BY DEF ScheduleCachedCall, AssignJobsCall, CheckCompletionCall, FilesCall,
         CompletedCall, Frame

(* A frame has the fields its operation needs. *)
LEMMA FrameFields ==
    ASSUME NEW t \in Frame
    PROVE  /\ t.op = "check_completion" => t.client \in Client
           /\ t.op \in {"file_success", "file_failed"} =>
                  t.client \in Client /\ t.files \in SUBSET File
           /\ t.op = "exec_completed" => t.hits \in SUBSET Hit /\ t.from \in {"worker", "cache"}
  BY DEF Frame

(* A stack is its top followed by the rest. *)
LEMMA HeadTail ==
    ASSUME NEW S, NEW s \in Seq(S), s # <<>>
    PROVE  s = <<Head(s)>> \o Tail(s) /\ Head(s) \in S /\ Tail(s) \in Seq(S)
  OBVIOUS

(* Two or three calls, pushed one at a time. *)
LEMMA TwoCalls ==
    ASSUME NEW S, NEW a \in S, NEW b \in S
    PROVE  <<a, b>> = <<a>> \o <<b>>
<1>1. <<a, b>> \in Seq(S) /\ <<a>> \o <<b>> \in Seq(S)
  OBVIOUS
<1>2. Len(<<a, b>>) = 2 /\ Len(<<a>> \o <<b>>) = 2
  OBVIOUS
<1>3. \A i \in 1..2 : <<a, b>>[i] = (<<a>> \o <<b>>)[i]
  OBVIOUS
<1> QED BY <1>1, <1>2, <1>3, SeqEqual

(* A sequence of three pending calls: what a handler leaves on the stack. *)
LEMMA ThreeCalls ==
    ASSUME NEW S, NEW a \in S, NEW b \in S, NEW c \in S
    PROVE  <<a, b, c>> = <<a>> \o <<b, c>>
<1>1. <<a, b, c>> \in Seq(S) /\ <<a>> \o <<b, c>> \in Seq(S)
  OBVIOUS
<1>2. Len(<<a, b, c>>) = 3 /\ Len(<<a>> \o <<b, c>>) = 3
  OBVIOUS
<1>3. \A i \in 1..3 : <<a, b, c>>[i] = (<<a>> \o <<b, c>>)[i]
  OBVIOUS
<1> QED BY <1>1, <1>2, <1>3, SeqEqual

(* Indexing a concatenation. *)
LEMMA ConcatIndex ==
    ASSUME NEW S, NEW a \in Seq(S), NEW b \in Seq(S)
    PROVE  /\ DOMAIN a \subseteq Nat /\ DOMAIN b \subseteq Nat /\ Len(a) \in Nat
           /\ DOMAIN (a \o b) \subseteq Nat
           /\ \A i \in DOMAIN a : i \leq Len(a) /\ i \in DOMAIN (a \o b) /\ (a \o b)[i] = a[i]
           /\ \A i \in DOMAIN b : Len(a) + i \in DOMAIN (a \o b) /\ (a \o b)[Len(a) + i] = b[i]
           /\ \A i \in DOMAIN (a \o b) :
                 i \in DOMAIN a \/ \E j \in DOMAIN b : i = Len(a) + j
<1>1. /\ DOMAIN a = 1 .. Len(a) /\ DOMAIN b = 1 .. Len(b)
      /\ DOMAIN (a \o b) = 1 .. (Len(a) + Len(b))
      /\ Len(a) \in Nat /\ Len(b) \in Nat
  OBVIOUS
<1>2. \A i \in DOMAIN a : (a \o b)[i] = a[i]
  OBVIOUS
<1>3. \A i \in DOMAIN b : (a \o b)[Len(a) + i] = b[i]
  OBVIOUS
<1>4. ASSUME NEW i \in DOMAIN (a \o b), i \notin DOMAIN a
      PROVE  \E j \in DOMAIN b : i = Len(a) + j
  <2>1. i - Len(a) \in DOMAIN b /\ i = Len(a) + (i - Len(a))
    BY <1>1, <1>4
  <2> QED BY <2>1
<1> QED BY <1>1, <1>2, <1>3, <1>4

(* The calls of a stack put on top of another one are those of both. *)
LEMMA CallsConcat ==
    ASSUME NEW a \in Seq(Frame), NEW b \in Seq(Frame)
    PROVE  Calls(a \o b) = Calls(a) \cup Calls(b)
<1>1. ASSUME NEW t \in Calls(a \o b) PROVE t \in Calls(a) \cup Calls(b)
  <2>1. PICK i \in DOMAIN (a \o b) : t = (a \o b)[i]
    BY DEF Calls
  <2>2. CASE i \in DOMAIN a
    BY <2>1, <2>2, ConcatIndex DEF Calls
  <2>3. CASE \E j \in DOMAIN b : i = Len(a) + j
    BY <2>1, <2>3, ConcatIndex DEF Calls
  <2> QED BY <2>2, <2>3, ConcatIndex
<1>2. Calls(a) \subseteq Calls(a \o b)
  BY ConcatIndex DEF Calls
<1>3. ASSUME NEW t \in Calls(b) PROVE t \in Calls(a \o b)
  <2>1. PICK i \in DOMAIN b : t = b[i]
    BY DEF Calls
  <2>2. Len(a) + i \in DOMAIN (a \o b) /\ (a \o b)[Len(a) + i] = b[i]
    BY ConcatIndex
  <2> QED BY <2>1, <2>2 DEF Calls
<1> QED BY <1>1, <1>2, <1>3

(* A stack of one call. *)
LEMMA CallsOne == \A t : Calls(<<t>>) = {t}
  BY DEF Calls

(* No calls, one call, or the calls of two stacks: the groups they complete  *)
(* and the files they announce.                                              *)
LEMMA CompletingConcat ==
    ASSUME NEW a \in Seq(Frame), NEW b \in Seq(Frame)
    PROVE  /\ CompletingIn(a \o b) = CompletingIn(a) \cup CompletingIn(b)
           /\ FilesIn(a \o b) = FilesIn(a) \cup FilesIn(b)
  BY CallsConcat DEF CompletingIn, FilesIn

(* The groups that a stack with one call completes. *)
LEMMA CompletingOne ==
    \A t : CompletingIn(<<t>>) = HitGroups(t) /\ FilesIn(<<t>>) = FrameFiles(t)
  BY CallsOne DEF CompletingIn, FilesIn

(* An empty stack completes no group and announces no file. *)
LEMMA CompletingNone == CompletingIn(<<>>) = {} /\ FilesIn(<<>>) = {} /\ Calls(<<>>) = {}
  BY DEF CompletingIn, FilesIn, Calls

(* Two stacks whose hits are distinct, and that share none, can be put one   *)
(* on top of the other; and parts of a stack inherit its distinctness.       *)
LEMMA HitsDistinctConcat ==
    ASSUME NEW a \in Seq(Frame), NEW b \in Seq(Frame)
    PROVE  HitsDistinct(a \o b) <=>
                /\ HitsDistinct(a)
                /\ HitsDistinct(b)
                /\ CompletingIn(a) \cap CompletingIn(b) = {}
<1> DEFINE c == a \o b
<1>0. /\ \A i \in DOMAIN a : i \in DOMAIN c /\ c[i] = a[i]
      /\ \A i \in DOMAIN b : Len(a) + i \in DOMAIN c /\ c[Len(a) + i] = b[i]
      /\ \A i \in DOMAIN c : i \in DOMAIN a \/ \E j \in DOMAIN b : i = Len(a) + j
  BY ConcatIndex
<1>5. /\ \A i \in DOMAIN a, j \in DOMAIN b : i # Len(a) + j
      /\ \A i \in DOMAIN b, j \in DOMAIN b : Len(a) + i = Len(a) + j => i = j
  <2>1. DOMAIN a = 1..Len(a) /\ DOMAIN b = 1..Len(b) /\ Len(a) \in Nat /\ Len(b) \in Nat
    OBVIOUS
  <2> QED BY <2>1
<1> HIDE DEF c
<1>1. ASSUME HitsDistinct(c) PROVE HitsDistinct(a)
  BY <1>0, <1>1 DEF HitsDistinct
<1>2. ASSUME HitsDistinct(c) PROVE HitsDistinct(b)
  <2> SUFFICES ASSUME NEW i \in DOMAIN b, NEW j \in DOMAIN b, i # j
               PROVE  HitGroups(b[i]) \cap HitGroups(b[j]) = {}
    BY DEF HitsDistinct
  <2>1. Len(a) + i # Len(a) + j
    BY <1>5
  <2>2. Len(a) + i \in DOMAIN c /\ Len(a) + j \in DOMAIN c
    BY <1>0
  <2>3. c[Len(a) + i] = b[i] /\ c[Len(a) + j] = b[j]
    BY <1>0
  <2> QED BY <1>2, <2>1, <2>2, <2>3 DEF HitsDistinct
<1>3. ASSUME HitsDistinct(c) PROVE CompletingIn(a) \cap CompletingIn(b) = {}
  <2> SUFFICES ASSUME NEW i \in DOMAIN a, NEW j \in DOMAIN b
               PROVE  HitGroups(a[i]) \cap HitGroups(b[j]) = {}
    BY DEF CompletingIn, Calls
  <2>1. i # Len(a) + j
    BY <1>5
  <2>2. i \in DOMAIN c /\ Len(a) + j \in DOMAIN c
    BY <1>0
  <2>3. c[i] = a[i] /\ c[Len(a) + j] = b[j]
    BY <1>0
  <2> QED BY <1>3, <2>1, <2>2, <2>3 DEF HitsDistinct
<1>4. ASSUME HitsDistinct(a), HitsDistinct(b), CompletingIn(a) \cap CompletingIn(b) = {}
      PROVE  HitsDistinct(c)
  <2> SUFFICES ASSUME NEW i \in DOMAIN c, NEW j \in DOMAIN c, i # j
               PROVE  HitGroups(c[i]) \cap HitGroups(c[j]) = {}
    BY DEF HitsDistinct
  <2>0. \A x \in DOMAIN a, y \in DOMAIN b : HitGroups(a[x]) \cap HitGroups(b[y]) = {}
    BY <1>4 DEF CompletingIn, Calls
  <2>1. CASE i \in DOMAIN a /\ j \in DOMAIN a
    BY <1>0, <1>4, <2>1 DEF HitsDistinct
  <2>2. ASSUME i \in DOMAIN a, NEW y \in DOMAIN b, j = Len(a) + y
        PROVE  HitGroups(c[i]) \cap HitGroups(c[j]) = {}
    BY <1>0, <2>0, <2>2
  <2>3. ASSUME NEW x \in DOMAIN b, i = Len(a) + x, j \in DOMAIN a
        PROVE  HitGroups(c[i]) \cap HitGroups(c[j]) = {}
    BY <1>0, <2>0, <2>3
  <2>4. ASSUME NEW x \in DOMAIN b, i = Len(a) + x, NEW y \in DOMAIN b, j = Len(a) + y
        PROVE  HitGroups(c[i]) \cap HitGroups(c[j]) = {}
    <3>1. c[i] = b[x] /\ c[j] = b[y]
      BY <1>0, <2>4
    <3>2. x # y
      BY <2>4
    <3> QED BY <1>4, <3>1, <3>2 DEF HitsDistinct
  <2> QED BY <1>0, <2>1, <2>2, <2>3, <2>4
<1> QED BY <1>1, <1>2, <1>3, <1>4 DEF c

-----------------------------------------------------------------------------
(* Type correctness *)

(* The types of the constants. *)
LEMMA ConstTypes ==
    /\ Owner \in [Group -> Client]
    /\ FileOwner \in [File -> Client]
    /\ Deps \in [Group -> SUBSET File]
    /\ Outs \in [Group -> SUBSET File]
    /\ KeyOf \in [Group -> CacheKey]
    /\ NoJob \notin Group
  BY DagAssumption, ConfigAssumption

(* Pushing groups on the heap keeps its type. *)
LEMMA PushHeapType ==
    ASSUME TypeOK, NEW S, NEW p
    PROVE  Push(S, p) \in [Entry -> Nat]
  BY DEF TypeOK, Push

(* Every action keeps every variable of the scheduler in its type. *)
LEMMA TypeStep ==
    ASSUME TypeOK, [Next]_vars
    PROVE  TypeOK'
<1>1. ASSUME NEW c \in Client, HandleEvaluateDAG(c) PROVE TypeOK'
  <2>1. stack' \in Seq(Frame)
    BY <1>1, CallTypes DEF HandleEvaluateDAG
  <2>2. ready_execs' \in [Entry -> Nat]
    BY <1>1, PushHeapType DEF HandleEvaluateDAG
  <2> QED BY <1>1, <2>1, <2>2, ConstTypes DEF TypeOK, HandleEvaluateDAG, GroupsOf, env, told
<1>2. ASSUME NEW c \in Client, NEW f \in File, HandleFileReady(c, f) PROVE TypeOK'
  <2>1. stack' \in Seq(Frame)
    <3>1. FilesCall("file_success", c, {f}) \in Frame /\ CheckCompletionCall(c) \in Frame
      BY CallTypes
    <3>2. stack' = <<FilesCall("file_success", c, {f}), CheckCompletionCall(c)>>
      BY <1>2 DEF HandleFileReady
    <3> QED BY <3>1, <3>2
  <2> QED BY <1>2, <2>1 DEF TypeOK, HandleFileReady, told
<1>3. ASSUME NEW w \in Worker, NEW r \in Result, HandleWorkerResult(w, r) PROVE TypeOK'
  <2>1. stack' \in Seq(Frame)
    <3>1. CASE w \notin connected_workers \/ current_job[w] = NoJob
      BY <1>3, <3>1 DEF HandleWorkerResult, TypeOK
    <3>2. CASE current_job[w] # NoJob /\ w \in connected_workers /\ Owner[current_job[w]] \notin clients
      <4>1. Owner[current_job[w]] \in Client
        BY <3>2, ConstTypes DEF TypeOK
      <4>2. AssignJobsCall \in Frame /\ CheckCompletionCall(Owner[current_job[w]]) \in Frame
        BY <4>1, CallTypes
      <4>3. stack' = <<AssignJobsCall, CheckCompletionCall(Owner[current_job[w]])>>
        BY <1>3, <3>2 DEF HandleWorkerResult
      <4> QED BY <4>2, <4>3
    <3>3. CASE current_job[w] # NoJob /\ w \in connected_workers /\ Owner[current_job[w]] \in clients
      <4>1. current_job[w] \in Group /\ sent_job[w] \in Group
        BY <1>3, <3>3 DEF HandleWorkerResult, TypeOK
      <4>2. PICK outs \in SUBSET File :
              stack' = <<CompletedCall({[group |-> current_job[w], result |-> r, outputs |-> outs]}, "worker"),
                         AssignJobsCall, CheckCompletionCall(Owner[current_job[w]])>>
        BY <1>3, <3>3, <4>1, ConstTypes DEF HandleWorkerResult
      <4>3. {[group |-> current_job[w], result |-> r, outputs |-> outs]} \in SUBSET Hit
        BY <4>1 DEF Hit
      <4>4. /\ CompletedCall({[group |-> current_job[w], result |-> r, outputs |-> outs]}, "worker") \in Frame
            /\ AssignJobsCall \in Frame
            /\ CheckCompletionCall(Owner[current_job[w]]) \in Frame
        BY <4>1, <4>3, CallTypes, ConstTypes
      <4> QED BY <4>2, <4>4
    <3> QED BY <3>1, <3>2, <3>3
  <2>2. running_groups' \subseteq Group
    BY <1>3 DEF HandleWorkerResult, TypeOK
  <2> QED BY <1>3, <2>1, <2>2 DEF TypeOK, HandleWorkerResult, told
<1>4. ASSUME NEW w \in Worker, HandleWorkerConnected(w) PROVE TypeOK'
  <2>1. stack' \in Seq(Frame)
    BY <1>4, CallTypes DEF HandleWorkerConnected
  <2> QED BY <1>4, <2>1 DEF TypeOK, HandleWorkerConnected, env, told
<1>5. ASSUME NEW w \in Worker, HandleWorkerDisconnected(w) PROVE TypeOK'
  <2>1. ready_execs' \in [Entry -> Nat]
    BY <1>5, PushHeapType DEF HandleWorkerDisconnected
  <2> QED BY <1>5, <2>1 DEF TypeOK, HandleWorkerDisconnected, Rescheduled, told
<1>6. ASSUME NEW c \in Client, HandleClientDisconnected(c) PROVE TypeOK'
  BY <1>6 DEF TypeOK, HandleClientDisconnected, EntriesOf, WorkersFor
<1>7. ASSUME Exit PROVE TypeOK'
  BY <1>7 DEF TypeOK, Exit, sched, env, told
<1>8. ASSUME CheckCompletion PROVE TypeOK'
  <2>1. Head(stack).client \in Client /\ stack' \in Seq(Frame)
    BY <1>8, PopType, FrameFields DEF CheckCompletion, Calling, TypeOK
  <2> QED BY <1>8, <2>1 DEF TypeOK, CheckCompletion, sched, env
<1>9. ASSUME NEW f \in File, FileSuccess(f) PROVE TypeOK'
  <2>1. Head(stack) \in Frame /\ Tail(stack) \in Seq(Frame) /\ Head(stack).op = "file_success"
    BY <1>9, PopType DEF FileSuccess, Calling, TypeOK
  <2>2. FilesCall("file_success", Head(stack).client, Head(stack).files \ {f}) \in Frame
    BY <2>1, FrameFields, CallTypes
  <2>3. WakeCalls(f) \in Seq(Frame)
    BY CallTypes DEF WakeCalls
  <2>4. stack' \in Seq(Frame)
    BY <1>9, <2>1, <2>2, <2>3, PushType DEF FileSuccess
  <2>5. ready_execs' \in [Entry -> Nat]
    BY <1>9, PushHeapType DEF FileSuccess
  <2>6. sent_files' \in [File -> Nat]
    BY <1>9 DEF TypeOK, FileSuccess, SendFile
  <2>7. ready_groups' \subseteq Group /\ missing_deps' \in [Group -> SUBSET File]
    BY <1>9 DEF TypeOK, FileSuccess, Woken, InputOf
  <2> QED BY <1>9, <2>4, <2>5, <2>6, <2>7 DEF TypeOK, FileSuccess, env
<1>10. ASSUME NEW f \in File, FileFailed(f) PROVE TypeOK'
  <2>1. Head(stack) \in Frame /\ Tail(stack) \in Seq(Frame) /\ Head(stack).op = "file_failed"
    BY <1>10, PopType DEF FileFailed, Calling, TypeOK
  <2>2. FilesCall("file_failed", Head(stack).client, Head(stack).files \ {f}) \in Frame
    BY <2>1, FrameFields, CallTypes
  <2>3. FailedFiles(Skipped(f)) \in SUBSET File
    BY ConstTypes DEF FailedFiles, Skipped, InputOf
  <2>4. FilesCall("file_failed", Head(stack).client, FailedFiles(Skipped(f))) \in Frame
    BY <2>1, <2>3, FrameFields, CallTypes
  <2>5. stack' \in Seq(Frame)
    BY <1>10, <2>1, <2>2, <2>4, PushType DEF FileFailed
  <2>6. sent_files' \in [File -> Nat]
    BY <1>10 DEF TypeOK, FileFailed, SendFile
  <2>7. /\ missing_deps' \in [Group -> SUBSET File]
        /\ verdict' \in [Group -> Verdict]
        /\ notified' \in [Group -> Nat]
    BY <1>10 DEF TypeOK, FileFailed, Verdict
  <2> QED BY <1>10, <2>5, <2>6, <2>7 DEF TypeOK, FileFailed, env
<1>11. ASSUME NEW h \in PendingHits, ExecCompleted(h) PROVE TypeOK'
  <2>1. Head(stack) \in Frame /\ Tail(stack) \in Seq(Frame) /\ Head(stack).op = "exec_completed"
    BY <1>11, PopType DEF ExecCompleted, Calling, TypeOK
  <2>2. /\ h \in Hit
        /\ CompletedCall(Head(stack).hits \ {h}, Head(stack).from) \in Frame
    BY <1>11, <2>1, FrameFields, CallTypes DEF ExecCompleted
  <2>3. h.group \in Group /\ h.result \in Result /\ h.outputs \subseteq File
    BY <2>2 DEF Hit
  <2>4. FilesCall(OutputsCall(h.result), Owner[h.group], Outs[h.group]) \in Frame
    BY <2>3, CallTypes, ConstTypes DEF OutputsCall
  <2>5. CASE Owner[h.group] \notin clients
    <3>1. stack' = <<CompletedCall(Head(stack).hits \ {h}, Head(stack).from)>> \o Tail(stack)
      BY <1>11, <2>5 DEF ExecCompleted
    <3>2. stack' \in Seq(Frame)
      BY <2>1, <2>2, <3>1, PushType
    <3> QED BY <1>11, <2>5, <3>2 DEF TypeOK, ExecCompleted, env
  <2>6. CASE Owner[h.group] \in clients
    <3>1. stack' \in Seq(Frame)
      <4>1. stack' = <<FilesCall(OutputsCall(h.result), Owner[h.group], Outs[h.group]),
                       ScheduleCachedCall>>
                     \o (<<CompletedCall(Head(stack).hits \ {h}, Head(stack).from)>>
                     \o Tail(stack))
        BY <1>11, <2>6 DEF ExecCompleted
      <4>2. ScheduleCachedCall \in Frame
        BY CallTypes
      <4>3. <<FilesCall(OutputsCall(h.result), Owner[h.group], Outs[h.group]),
              ScheduleCachedCall>> \in Seq(Frame)
        BY <2>4, <4>2
      <4> QED BY <2>1, <2>2, <4>1, <4>3, PushType
    <3>2. cache' \in [CacheKey -> Cached]
      BY <1>11, <2>3, <2>6, ConstTypes DEF TypeOK, ExecCompleted, Cached, Result
    <3>3. verdict' \in [Group -> Verdict]
      BY <1>11, <2>3, <2>6 DEF TypeOK, ExecCompleted, Verdict
    <3>5. notified' \in [Group -> Nat]
      BY <1>11, <2>3, <2>6 DEF TypeOK, ExecCompleted
    <3>4. file_handles' \subseteq File
      BY <1>11, <2>3, <2>6 DEF TypeOK, ExecCompleted
    <3> QED BY <1>11, <3>1, <3>2, <3>3, <3>4, <3>5 DEF TypeOK, ExecCompleted, env
  <2> QED BY <2>5, <2>6
<1>12. ASSUME EndLoop PROVE TypeOK'
  BY <1>12, PopType DEF TypeOK, EndLoop, Calling, sched, env, told
<1>13. ASSUME ScheduleCached PROVE TypeOK'
  <2> DEFINE hits == {g \in Group : /\ \E e \in Queued : e[1] = g
                                    /\ Owner[g] \in clients
                                    /\ CacheHit(g)}
             recs == {[group |-> g, result |-> cache[KeyOf[g]], outputs |-> Outs[g]] : g \in hits}
  <2>1. recs \in SUBSET Hit
    BY ConstTypes DEF Hit, CacheHit, TypeOK, Cached, Result
  <2>2. CompletedCall(recs, "cache") \in Frame
    BY <2>1, CallTypes
  <2>3. stack' \in Seq(Frame)
    BY <1>13, <2>2, PopType, PushType DEF ScheduleCached, Calling, TypeOK
  <2> QED BY <1>13, <2>3 DEF TypeOK, ScheduleCached, env, told
<1>14. ASSUME NEW w \in Worker, NEW e \in Entry, AssignJob(w, e) PROVE TypeOK'
  <2>1. ready_execs' \in [Entry -> Nat]
    BY <1>14 DEF TypeOK, AssignJob, MaxEntries, Queued
  <2>2. e[1] \in Group
    BY DEF Entry
  <2>3. current_job' \in [Worker -> Group \cup {NoJob}]
    BY <1>14, <2>2 DEF TypeOK, AssignJob
  <2>4. /\ ready_groups' \subseteq Group
        /\ running_groups' \subseteq Group
        /\ sent_job' \in [Worker -> Group \cup {NoJob}]
    BY <1>14, <2>2 DEF TypeOK, AssignJob
  <2> QED BY <1>14, <2>1, <2>3, <2>4 DEF TypeOK, AssignJob, told
<1>15. ASSUME EndAssignJobs PROVE TypeOK'
  BY <1>15, PopType DEF TypeOK, EndAssignJobs, Calling, sched, env, told
<1>16. ASSUME NEW k \in CacheKey, FlushOutputs(k) PROVE TypeOK'
  BY <1>16 DEF TypeOK, FlushOutputs, Cached, sched, env, told
<1>17. ASSUME UNCHANGED vars PROVE TypeOK'
  BY <1>17 DEF TypeOK, vars, sched, env, told
<1> QED
  BY <1>1, <1>2, <1>3, <1>4, <1>5, <1>6, <1>7, <1>8, <1>9, <1>10, <1>11, <1>12, <1>13,
     <1>14, <1>15, <1>16, <1>17 DEF Next, Receive, Call

(* The variables of the scheduler keep their types in every behaviour. *)
THEOREM TypeCorrect == Spec => []TypeOK
<1>1. Init => TypeOK
  <2> SUFFICES ASSUME Init PROVE TypeOK
    OBVIOUS
  <2>1. stack \in Seq(Frame)
    BY DEF Init
  <2>2. cache \in [CacheKey -> Cached] /\ pending_files \subseteq File
    BY DagAssumption, ConfigAssumption DEF Init
  <2> QED BY <2>1, <2>2 DEF Init, TypeOK, Verdict
<1>2. TypeOK /\ [Next]_vars => TypeOK'
  BY TypeStep
<1> QED BY <1>1, <1>2, PTL DEF Spec

-----------------------------------------------------------------------------
(* The inductive invariant *)

(* The groups are where they should be, the queue and the workers agree with *)
(* them, inputs are available and awaited, and the pending calls fit.        *)
SchedulerInv ==
    /\ TypeOK
    /\ GroupLifecycle
    /\ ReadyQueueConsistent
    /\ WorkerJobsConsistent
    /\ InputsAvailable
    /\ NoLostWakeup
    /\ CallsConsistent
    /\ NothingBeforeDag

(* One call, or none, cannot complete a group twice. *)
LEMMA HitsDistinctOne == \A t : HitsDistinct(<<t>>)
  BY DEF HitsDistinct

(* An empty stack has no two calls that complete the same group. *)
LEMMA HitsDistinctNone == HitsDistinct(<<>>)
  BY DEF HitsDistinct

(* What the calls other than exec_completed complete and announce. *)
LEMMA PlainCalls ==
    /\ HitGroups(ScheduleCachedCall) = {} /\ FrameFiles(ScheduleCachedCall) = {}
    /\ HitGroups(AssignJobsCall) = {} /\ FrameFiles(AssignJobsCall) = {}
    /\ \A c : HitGroups(CheckCompletionCall(c)) = {} /\ FrameFiles(CheckCompletionCall(c)) = {}
    /\ FrameConsistent(ScheduleCachedCall)
    /\ FrameConsistent(AssignJobsCall)
    /\ \A c : FrameConsistent(CheckCompletionCall(c))
  BY DEF HitGroups, FrameFiles, FrameConsistent, ScheduleCachedCall, AssignJobsCall,
         CheckCompletionCall

(* The fields of a pending file_success or file_failed. *)
LEMMA FilesCallView ==
    \A op \in {"file_success", "file_failed"} : \A c, S :
        HitGroups(FilesCall(op, c, S)) = {} /\ FrameFiles(FilesCall(op, c, S)) = S
  BY DEF HitGroups, FrameFiles, FilesCall

(* The fields of a pending exec_completed. *)
LEMMA CompletedCallView ==
    \A S, from : /\ HitGroups(CompletedCall(S, from)) = {h.group : h \in S}
                 /\ FrameFiles(CompletedCall(S, from)) = {}
  BY DEF HitGroups, FrameFiles, CompletedCall

(* The calls file_success makes at its end. *)
LEMMA WakeCallsView ==
    ASSUME NEW f
    PROVE  /\ WakeCalls(f) \in Seq(Frame)
           /\ CompletingIn(WakeCalls(f)) = {} /\ FilesIn(WakeCalls(f)) = {}
           /\ HitsDistinct(WakeCalls(f))
           /\ \A t \in Calls(WakeCalls(f)) : FrameConsistent(t)
<1>1. CASE WakeCalls(f) = <<>>
  BY <1>1, CompletingNone, HitsDistinctNone
<1>2. CASE WakeCalls(f) = <<ScheduleCachedCall, AssignJobsCall>>
  <2>1. /\ WakeCalls(f) = <<ScheduleCachedCall>> \o <<AssignJobsCall>>
        /\ <<ScheduleCachedCall>> \in Seq(Frame) /\ <<AssignJobsCall>> \in Seq(Frame)
    <3>1. ScheduleCachedCall \in Frame /\ AssignJobsCall \in Frame
      BY CallTypes
    <3> QED BY <1>2, <3>1, TwoCalls
  <2>2. PICK u \in Seq(Frame), v \in Seq(Frame) :
            u = <<ScheduleCachedCall>> /\ v = <<AssignJobsCall>>
    BY <2>1
  <2>3. /\ CompletingIn(u) = {} /\ FilesIn(u) = {} /\ HitsDistinct(u) /\ Calls(u) = {ScheduleCachedCall}
        /\ CompletingIn(v) = {} /\ FilesIn(v) = {} /\ HitsDistinct(v) /\ Calls(v) = {AssignJobsCall}
    BY <2>2, CompletingOne, PlainCalls, HitsDistinctOne, CallsOne
  <2>4. /\ u \o v \in Seq(Frame) /\ CompletingIn(u \o v) = {} /\ FilesIn(u \o v) = {}
        /\ Calls(u \o v) = {ScheduleCachedCall, AssignJobsCall}
    <3>1. u \o v \in Seq(Frame)
      OBVIOUS
    <3>2. /\ CompletingIn(u \o v) = CompletingIn(u) \cup CompletingIn(v)
          /\ FilesIn(u \o v) = FilesIn(u) \cup FilesIn(v)
      BY CompletingConcat
    <3>3. Calls(u \o v) = Calls(u) \cup Calls(v)
      BY CallsConcat
    <3> QED BY <2>3, <3>1, <3>2, <3>3
  <2>5. HitsDistinct(u \o v)
    BY <2>3, HitsDistinctConcat
  <2>6. WakeCalls(f) = u \o v
    BY <2>1, <2>2
  <2> QED BY <2>4, <2>5, <2>6, PlainCalls
<1> QED BY <1>1, <1>2 DEF WakeCalls

(* Everything the invariant says of a stack, in terms of its top. *)
LEMMA PushView ==
    ASSUME NEW t \in Frame, NEW r \in Seq(Frame)
    PROVE  /\ <<t>> \o r \in Seq(Frame)
           /\ CompletingIn(<<t>> \o r) = HitGroups(t) \cup CompletingIn(r)
           /\ FilesIn(<<t>> \o r) = FrameFiles(t) \cup FilesIn(r)
           /\ Calls(<<t>> \o r) = {t} \cup Calls(r)
           /\ HitsDistinct(<<t>> \o r) <=>
                HitsDistinct(r) /\ HitGroups(t) \cap CompletingIn(r) = {}
<1>1. <<t>> \in Seq(Frame)
  OBVIOUS
<1>2. <<t>> \o r \in Seq(Frame)
  OBVIOUS
<1>3. CompletingIn(<<t>>) = HitGroups(t) /\ FilesIn(<<t>>) = FrameFiles(t)
  BY CompletingOne
<1>4. Calls(<<t>>) = {t} /\ HitsDistinct(<<t>>)
  BY CallsOne, HitsDistinctOne
<1>5. /\ CompletingIn(<<t>> \o r) = HitGroups(t) \cup CompletingIn(r)
      /\ FilesIn(<<t>> \o r) = FrameFiles(t) \cup FilesIn(r)
  BY <1>1, <1>3, CompletingConcat
<1>6. Calls(<<t>> \o r) = {t} \cup Calls(r)
  BY <1>1, <1>4, CallsConcat
<1>7. HitsDistinct(<<t>> \o r) <=>
            HitsDistinct(r) /\ HitGroups(t) \cap CompletingIn(r) = {}
  BY <1>1, <1>3, <1>4, HitsDistinctConcat
<1> QED BY <1>2, <1>5, <1>6, <1>7

(* Completion is checked last, also after a call is pushed. *)
LEMMA ChecksLastPush ==
    ASSUME NEW t \in Frame, NEW r \in Seq(Frame)
    PROVE  ChecksLast(<<t>> \o r) <=>
              /\ ChecksLast(r)
              /\ t.op = "check_completion" =>
                    \A v \in Calls(r) : v.op \in {"schedule_cached", "assign_jobs"}
<1> DEFINE s == <<t>> \o r
<1>1. /\ s \in Seq(Frame) /\ 1 \in DOMAIN s /\ s[1] = t
      /\ DOMAIN r \subseteq Nat \ {0} /\ DOMAIN s \subseteq Nat \ {0}
      /\ \A i \in DOMAIN r : i + 1 \in DOMAIN s /\ s[i + 1] = r[i]
      /\ \A i \in DOMAIN s : i # 1 => i - 1 \in DOMAIN r /\ s[i] = r[i - 1]
  OBVIOUS
<1> HIDE DEF s
<1>2. ASSUME ChecksLast(s) PROVE ChecksLast(r)
  <2> SUFFICES ASSUME NEW i \in DOMAIN r, NEW j \in DOMAIN r, i < j, r[i].op = "check_completion"
               PROVE  r[j].op \in {"schedule_cached", "assign_jobs"}
    BY DEF ChecksLast
  <2>1. i + 1 < j + 1
    BY <1>1
  <2> QED BY <1>1, <1>2, <2>1 DEF ChecksLast
<1>3. ASSUME ChecksLast(s), t.op = "check_completion", NEW j \in DOMAIN r
      PROVE  r[j].op \in {"schedule_cached", "assign_jobs"}
  <2>1. 1 < j + 1
    BY <1>1
  <2> QED BY <1>1, <1>3, <2>1 DEF ChecksLast
<1>4. ASSUME ChecksLast(r), t.op = "check_completion" =>
                    \A v \in Calls(r) : v.op \in {"schedule_cached", "assign_jobs"}
      PROVE  ChecksLast(s)
  <2> SUFFICES ASSUME NEW i \in DOMAIN s, NEW j \in DOMAIN s, i < j, s[i].op = "check_completion"
               PROVE  s[j].op \in {"schedule_cached", "assign_jobs"}
    BY DEF ChecksLast
  <2>1. j # 1 /\ j - 1 \in DOMAIN r /\ s[j] = r[j - 1]
    BY <1>1
  <2>2. CASE i = 1
    BY <1>1, <1>4, <2>1, <2>2 DEF Calls
  <2>3. CASE i # 1
    <3>1. i - 1 \in DOMAIN r /\ s[i] = r[i - 1] /\ i - 1 < j - 1
      BY <1>1, <2>3
    <3> QED BY <1>4, <2>1, <3>1 DEF ChecksLast
  <2> QED BY <2>2, <2>3
<1> QED BY <1>2, <1>3, <1>4 DEF s, Calls

(* The calls at the end of file_success are not checks. *)
LEMMA WakeCallsPush ==
    ASSUME NEW f, NEW n \in Seq(Frame), ChecksLast(n)
    PROVE  ChecksLast(WakeCalls(f) \o n)
<1>1. CASE WakeCalls(f) = <<>>
  <2>1. <<>> \o n = n
    BY ConcatEmptySeq
  <2> QED BY <1>1, <2>1
<1>2. CASE WakeCalls(f) = <<ScheduleCachedCall, AssignJobsCall>>
  <2>1. ScheduleCachedCall \in Frame /\ AssignJobsCall \in Frame
    BY CallTypes
  <2>2. /\ <<ScheduleCachedCall>> \in Seq(Frame) /\ <<AssignJobsCall>> \in Seq(Frame)
        /\ <<AssignJobsCall>> \o n \in Seq(Frame)
    BY <2>1
  <2>3. WakeCalls(f) \o n = <<ScheduleCachedCall>> \o (<<AssignJobsCall>> \o n)
    BY <1>2, <2>1, <2>2, TwoCalls, ConcatAssociative
  <2>4. ScheduleCachedCall.op # "check_completion" /\ AssignJobsCall.op # "check_completion"
    BY DEF ScheduleCachedCall, AssignJobsCall
  <2>5. ChecksLast(<<AssignJobsCall>> \o n)
    BY <2>1, <2>4, ChecksLastPush
  <2>6. ChecksLast(<<ScheduleCachedCall>> \o (<<AssignJobsCall>> \o n))
    BY <2>1, <2>2, <2>4, <2>5, ChecksLastPush
  <2> QED BY <2>3, <2>6
<1> QED BY <1>1, <1>2 DEF WakeCalls

(* file_success keeps the invariant: the groups it wakes leave missing_deps  *)
(* and enter the queue, and all of their inputs are good.                    *)
LEMMA FileSuccessStep ==
    ASSUME SchedulerInv, NEW f \in File, FileSuccess(f), TypeOK'
    PROVE  SchedulerInv'
<1>0. PICK t \in Frame, r \in Seq(Frame) :
         stack = <<t>> \o r /\ t = Head(stack) /\ r = Tail(stack)
  BY HeadTail DEF FileSuccess, Calling, SchedulerInv, TypeOK
<1>1. PICK u \in Frame : u = FilesCall("file_success", t.client, t.files \ {f})
  BY <1>0, FrameFields, CallTypes DEF FileSuccess, Calling
<1>15. /\ t.op = "file_success" /\ f \in t.files
       /\ stack' = WakeCalls(f) \o (<<u>> \o r)
  BY <1>0, <1>1 DEF FileSuccess, Calling
<1>2. /\ CompletingIn(stack') = CompletingIn(stack)
      /\ FilesIn(stack) \subseteq FilesIn(stack') \cup {f}
      /\ HitsDistinct(stack')
      /\ Calls(stack') = Calls(WakeCalls(f)) \cup {u} \cup Calls(r)
      /\ Calls(stack) = {t} \cup Calls(r)
  <2>1. HitsDistinct(<<t>> \o r)
    BY <1>0 DEF SchedulerInv, CallsConsistent
  <2>2. PICK p \in Seq(Frame) : p = WakeCalls(f) /\ CompletingIn(p) = {} /\ HitsDistinct(p)
    BY WakeCallsView
  <2>3. Calls(stack) = {t} \cup Calls(r)
    BY <1>0, PushView
  <2>4. HitGroups(t) = {} /\ HitGroups(u) = {} /\ FrameFiles(u) = FrameFiles(t) \ {f}
    <3>1. HitGroups(t) = {} /\ FrameFiles(t) = t.files
      BY <1>15 DEF HitGroups, FrameFiles
    <3>2. HitGroups(u) = {} /\ FrameFiles(u) = t.files \ {f}
      BY <1>1, FilesCallView
    <3> QED BY <3>1, <3>2
  <2>5. /\ CompletingIn(stack) = HitGroups(t) \cup CompletingIn(r)
        /\ FilesIn(stack) = FrameFiles(t) \cup FilesIn(r)
    BY <1>0, PushView
  <2>6. PICK q \in Seq(Frame) : q = <<u>> \o r
    BY PushView
  <2>7. /\ CompletingIn(q) = HitGroups(u) \cup CompletingIn(r)
        /\ FilesIn(q) = FrameFiles(u) \cup FilesIn(r)
        /\ Calls(q) = {u} \cup Calls(r)
    BY <2>6, PushView
  <2>8. HitsDistinct(q)
    <3>1. HitsDistinct(r)
      BY <2>1, PushView
    <3> QED BY <2>4, <2>6, <3>1, PushView
  <2>9. /\ CompletingIn(p \o q) = CompletingIn(p) \cup CompletingIn(q)
        /\ FilesIn(p \o q) = FilesIn(p) \cup FilesIn(q)
    BY CompletingConcat
  <2>10. HitsDistinct(p \o q)
    BY <2>2, <2>8, HitsDistinctConcat
  <2>11. Calls(p \o q) = Calls(p) \cup Calls(q)
    BY CallsConcat
  <2>12. stack' = p \o q
    BY <1>15, <2>2, <2>6
  <2>13. CompletingIn(stack') = CompletingIn(stack)
    BY <2>2, <2>4, <2>5, <2>7, <2>9, <2>12
  <2>14. FilesIn(stack) \subseteq FilesIn(stack') \cup {f}
    BY <2>4, <2>5, <2>7, <2>9, <2>12
  <2> QED BY <2>2, <2>3, <2>7, <2>10, <2>11, <2>12, <2>13, <2>14
<1>3. Waiting' = Waiting \ Woken(f) /\ Woken(f) \subseteq Waiting
  <2>1. \A g \in Group : missing_deps'[g] = missing_deps[g] \ {f}
    BY DEF FileSuccess
  <2>2. \A g \in Group : f \in missing_deps[g] => g \in InputOf(f)
    BY DEF InputOf, SchedulerInv, InputsAvailable
  <2>3. Woken(f) = {g \in Group : missing_deps[g] = {f}}
    BY <2>2 DEF Woken, InputOf
  <2> QED BY <2>1, <2>3 DEF Waiting
<1>4. UNCHANGED <<clients, running_groups, file_handles, verdict, gone, pending_files,
                  current_job, sent_job, killed, connected_workers>>
      /\ ready_groups' = ready_groups \cup Woken(f)
  BY DEF FileSuccess, env
<1>5. Ended' = Ended /\ Completing' = Completing
  BY <1>2, <1>4 DEF Ended, Completing
<1>6. \A x : Good(x)' <=> Good(x)
  BY <1>4 DEF Good, Produced
<1>7. Good(f)
  BY <1>2, <1>15 DEF SchedulerInv, CallsConsistent, FrameConsistent
<1>8. GroupLifecycle'
  BY <1>3, <1>4, <1>5 DEF SchedulerInv, GroupLifecycle
<1>9. ReadyQueueConsistent'
  <2>1. \A e \in Entry : e[1] \in Woken(f) => ready_execs[e] = 0
    BY <1>3 DEF SchedulerInv, GroupLifecycle, ReadyQueueConsistent, Queued, TypeOK
  <2>2. \A e \in Entry : ready_execs'[e] =
            IF e[1] \in Woken(f) /\ e[2] = HighPriority THEN ready_execs[e] + 1 ELSE ready_execs[e]
    BY DEF FileSuccess, Push
  <2>3. \A g \in Woken(f) : <<g, HighPriority>> \in Entry
    BY DEF Entry, DagPrio, Woken, InputOf
  <2>4. \A e \in Entry : e = <<e[1], e[2]>>
    BY DEF Entry
  <2>5. Queued' = Queued \cup {e \in Entry : e[1] \in Woken(f) /\ e[2] = HighPriority}
    BY <2>1, <2>2 DEF Queued, SchedulerInv, TypeOK
  <2>6. \A e \in Queued' : ready_execs'[e] = 1 /\ e[1] \in ready_groups'
    BY <1>4, <2>1, <2>2, <2>5 DEF SchedulerInv, ReadyQueueConsistent, Queued
  <2>7. \A g \in ready_groups' : \E e \in Queued' : e[1] = g
    <3>1. ASSUME NEW g \in ready_groups PROVE \E e \in Queued' : e[1] = g
      BY <2>5 DEF SchedulerInv, ReadyQueueConsistent
    <3>2. ASSUME NEW g \in Woken(f) PROVE \E e \in Queued' : e[1] = g
      <4>1. <<g, HighPriority>> \in Queued' /\ <<g, HighPriority>>[1] = g
        BY <2>3, <2>5
      <4> QED BY <4>1
    <3> QED BY <1>4, <3>1, <3>2
  <2>8. \A d, e \in Queued' : d[1] = e[1] => d = e
    BY <2>1, <2>4, <2>5 DEF SchedulerInv, ReadyQueueConsistent, Queued
  <2> QED BY <2>6, <2>7, <2>8 DEF ReadyQueueConsistent
<1>10. WorkerJobsConsistent'
  BY <1>4 DEF SchedulerInv, WorkerJobsConsistent
<1>11. InputsAvailable'
  <2>1. \A g \in Group : missing_deps'[g] = missing_deps[g] \ {f}
    BY DEF FileSuccess
  <2>2. ASSUME NEW g \in (ready_groups \cup running_groups \cup Completing)', NEW x \in Deps[g]
        PROVE  Good(x)'
    <3>1. CASE g \in Woken(f)
      <4>1. g \in Waiting /\ missing_deps[g] = {f}
        BY <1>3, <3>1 DEF Woken
      <4> QED BY <1>6, <1>7, <2>2, <4>1 DEF SchedulerInv, InputsAvailable
    <3>2. CASE g \in ready_groups \cup running_groups \cup Completing
      BY <1>6, <2>2, <3>2 DEF SchedulerInv, InputsAvailable
    <3> QED BY <1>4, <1>5, <2>2, <3>1, <3>2
  <2>3. ASSUME NEW g \in Waiting', NEW x \in Deps[g] \ missing_deps'[g]
        PROVE  Good(x)'
    BY <1>3, <1>6, <1>7, <2>1, <2>3 DEF SchedulerInv, InputsAvailable, Waiting
  <2>4. \A g \in Group : missing_deps'[g] \subseteq Deps[g]
    BY <2>1 DEF SchedulerInv, InputsAvailable
  <2> QED BY <2>2, <2>3, <2>4 DEF InputsAvailable
<1>12. NoLostWakeup'
  <2> SUFFICES ASSUME NEW g \in Waiting', NEW x \in missing_deps'[g]
               PROVE  \/ x \in pending_files'
                      \/ x \in FilesIn(stack')
                      \/ \E h \in (Waiting \cup ready_groups \cup running_groups \cup Completing)' :
                            x \in Outs[h]
    BY DEF NoLostWakeup
  <2>1. g \in Waiting /\ x \in missing_deps[g] /\ x # f
    BY <1>3 DEF FileSuccess, Waiting
  <2>2. \/ x \in pending_files
        \/ x \in FilesIn(stack)
        \/ \E h \in Waiting \cup ready_groups \cup running_groups \cup Completing : x \in Outs[h]
    BY <2>1 DEF SchedulerInv, NoLostWakeup
  <2>3. (Waiting \cup ready_groups \cup running_groups \cup Completing)'
            = Waiting \cup ready_groups \cup running_groups \cup Completing
    BY <1>3, <1>4, <1>5
  <2> QED BY <1>2, <1>4, <2>1, <2>2, <2>3
<1>13. CallsConsistent'
  <2>1. \A v : FrameConsistent(v)' <=> FrameConsistent(v)
    BY <1>4, <1>6 DEF FrameConsistent, Produced
  <2>2. FrameConsistent(u)
    BY <1>1, <1>2, <1>15 DEF SchedulerInv, CallsConsistent, FrameConsistent, FilesCall
  <2>3. \A v \in Calls(stack') : FrameConsistent(v)
    BY <1>2, <2>2, WakeCallsView DEF SchedulerInv, CallsConsistent
  <2>4. ChecksLast(r)
    BY <1>0, ChecksLastPush DEF SchedulerInv, CallsConsistent
  <2>5. u \in Frame /\ u.op = "file_success"
    BY <1>1 DEF FilesCall
  <2>6. ChecksLast(<<u>> \o r) /\ <<u>> \o r \in Seq(Frame)
    BY <2>4, <2>5, ChecksLastPush
  <2>7. ChecksLast(stack')
    BY <1>15, <2>6, WakeCallsPush
  <2> QED BY <1>2, <2>1, <2>3, <2>7 DEF CallsConsistent
<1>14. NothingBeforeDag'
  BY <1>4, <1>5 DEF SchedulerInv, NothingBeforeDag
<1> QED
  BY <1>8, <1>9, <1>10, <1>11, <1>12, <1>13, <1>14 DEF SchedulerInv

(* Steps that change nothing the invariant speaks of but the calls pending:  *)
(* a call that completes and announces nothing returns.                      *)
LEMMA ReturnStep ==
    ASSUME SchedulerInv, TypeOK', UNCHANGED <<sched, env, verdict>>,
           NEW t \in Frame, NEW r \in Seq(Frame), stack = <<t>> \o r, stack' = r,
           HitGroups(t) = {}, FrameFiles(t) = {}
    PROVE  SchedulerInv'
<1>1. /\ UNCHANGED <<clients, missing_deps, ready_groups, running_groups, file_handles,
                     ready_execs, connected_workers, current_job>>
      /\ UNCHANGED <<gone, pending_files, dead, sent_job, killed, verdict>>
  BY DEF sched, env
<1>2. /\ CompletingIn(stack) = HitGroups(t) \cup CompletingIn(r)
      /\ FilesIn(stack) = FrameFiles(t) \cup FilesIn(r)
      /\ Calls(stack) = {t} \cup Calls(r)
      /\ HitsDistinct(stack) => HitsDistinct(r)
  BY PushView
<1>3. /\ CompletingIn(stack') = CompletingIn(stack)
      /\ FilesIn(stack') = FilesIn(stack)
      /\ Calls(stack') \subseteq Calls(stack)
      /\ HitsDistinct(stack) => HitsDistinct(stack')
  BY <1>2
<1>4. ChecksLast(stack) => ChecksLast(stack')
  BY ChecksLastPush
<1>5. Ended' = Ended /\ Completing' = Completing /\ Waiting' = Waiting /\ Queued' = Queued
  BY <1>1, <1>3 DEF Ended, Completing, Waiting, Queued
<1>6. \A x : Good(x)' <=> Good(x)
  BY <1>1 DEF Good, Produced
<1>7. \A v : FrameConsistent(v)' <=> FrameConsistent(v)
  BY <1>1, <1>6 DEF FrameConsistent, Produced
<1>8. GroupLifecycle'
  BY <1>1, <1>5 DEF SchedulerInv, GroupLifecycle
<1>9. ReadyQueueConsistent'
  BY <1>1, <1>5 DEF SchedulerInv, ReadyQueueConsistent
<1>10. WorkerJobsConsistent'
  BY <1>1 DEF SchedulerInv, WorkerJobsConsistent
<1>11. InputsAvailable'
  BY <1>1, <1>5, <1>6 DEF SchedulerInv, InputsAvailable
<1>12. NoLostWakeup'
  BY <1>1, <1>3, <1>5 DEF SchedulerInv, NoLostWakeup
<1>13. CallsConsistent'
  BY <1>3, <1>4, <1>7 DEF SchedulerInv, CallsConsistent
<1>14. NothingBeforeDag'
  BY <1>1, <1>5 DEF SchedulerInv, NothingBeforeDag
<1> QED BY <1>8, <1>9, <1>10, <1>11, <1>12, <1>13, <1>14 DEF SchedulerInv

(* check_completion, the end of a loop over files or hits, and the end of    *)
(* assign_jobs.                                                              *)
LEMMA ReturningStep ==
    ASSUME SchedulerInv, TypeOK', CheckCompletion \/ EndLoop \/ EndAssignJobs
    PROVE  SchedulerInv'
<1>1. stack \in Seq(Frame) /\ stack # <<>>
  BY DEF CheckCompletion, EndLoop, EndAssignJobs, Calling, SchedulerInv, TypeOK
<1>2. PICK t \in Frame, r \in Seq(Frame) :
         stack = <<t>> \o r /\ t = Head(stack) /\ r = Tail(stack)
  BY <1>1, HeadTail
<1>3. \/ t.op \in {"check_completion", "assign_jobs"}
      \/ t.op \in {"file_success", "file_failed"} /\ t.files = {}
      \/ t.op = "exec_completed" /\ t.hits = {}
  BY <1>2 DEF CheckCompletion, EndLoop, EndAssignJobs, Calling
<1>4. HitGroups(t) = {} /\ FrameFiles(t) = {}
  BY <1>3 DEF HitGroups, FrameFiles
<1>5. stack' = r /\ UNCHANGED <<sched, env, verdict>>
  BY <1>2 DEF CheckCompletion, EndLoop, EndAssignJobs, told
<1> QED BY <1>2, <1>4, <1>5, ReturnStep

(* Steps that leave all of it alone: Exit, the file store forgetting the      *)
(* outputs of a cached execution, and stuttering.                             *)
LEMMA SameStep ==
    ASSUME SchedulerInv, TypeOK', UNCHANGED <<sched, stack, env, verdict>>
    PROVE  SchedulerInv'
<1>1. /\ UNCHANGED <<clients, missing_deps, ready_groups, running_groups, file_handles,
                     ready_execs, connected_workers, current_job>>
      /\ UNCHANGED <<gone, pending_files, dead, sent_job, killed, verdict, stack>>
  BY DEF sched, env
<1>5. Ended' = Ended /\ Completing' = Completing /\ Waiting' = Waiting /\ Queued' = Queued
  BY <1>1 DEF Ended, Completing, Waiting, Queued
<1>6. \A x : Good(x)' <=> Good(x)
  BY <1>1 DEF Good, Produced
<1>7. \A v : FrameConsistent(v)' <=> FrameConsistent(v)
  BY <1>1, <1>6 DEF FrameConsistent, Produced
<1>8. GroupLifecycle'
  BY <1>1, <1>5 DEF SchedulerInv, GroupLifecycle
<1>9. ReadyQueueConsistent'
  BY <1>1, <1>5 DEF SchedulerInv, ReadyQueueConsistent
<1>10. WorkerJobsConsistent'
  BY <1>1 DEF SchedulerInv, WorkerJobsConsistent
<1>11. InputsAvailable'
  BY <1>1, <1>5, <1>6 DEF SchedulerInv, InputsAvailable
<1>12. NoLostWakeup'
  BY <1>1, <1>5 DEF SchedulerInv, NoLostWakeup
<1>13. CallsConsistent'
  BY <1>1, <1>7 DEF SchedulerInv, CallsConsistent
<1>14. NothingBeforeDag'
  BY <1>1, <1>5 DEF SchedulerInv, NothingBeforeDag
<1> QED BY <1>8, <1>9, <1>10, <1>11, <1>12, <1>13, <1>14 DEF SchedulerInv

(* file_failed keeps the invariant: the groups it skips end, and the files    *)
(* they would have produced are announced as failed.                          *)
LEMMA FileFailedStep ==
    ASSUME SchedulerInv, NEW f \in File, FileFailed(f), TypeOK'
    PROVE  SchedulerInv'
<1>1. PICK t \in Frame, r \in Seq(Frame) :
         stack = <<t>> \o r /\ t = Head(stack) /\ r = Tail(stack)
  BY HeadTail DEF FileFailed, Calling, SchedulerInv, TypeOK
<1>2. t.op = "file_failed" /\ f \in t.files
  BY <1>1 DEF FileFailed, Calling
<1>3. t.client \in Client /\ t.files \in SUBSET File /\ FailedFiles(Skipped(f)) \in SUBSET File
  BY <1>2, FrameFields, ConstTypes DEF FailedFiles, Skipped, InputOf
<1>4. PICK u \in Frame : u = FilesCall("file_failed", t.client, t.files \ {f})
  BY <1>3, CallTypes
<1>5. PICK a \in Frame : a = FilesCall("file_failed", t.client, FailedFiles(Skipped(f)))
  BY <1>3, CallTypes
<1>6. PICK q \in Seq(Frame) : q = <<u>> \o r
  BY PushView
<1>7. stack' = <<a>> \o q
  BY <1>1, <1>4, <1>5, <1>6 DEF FileFailed
<1>8. /\ CompletingIn(stack') = CompletingIn(stack)
      /\ FilesIn(stack') = FailedFiles(Skipped(f)) \cup (t.files \ {f}) \cup FilesIn(r)
      /\ FilesIn(stack) = t.files \cup FilesIn(r)
      /\ HitsDistinct(stack')
      /\ Calls(stack') = {a, u} \cup Calls(r)
      /\ Calls(stack) = {t} \cup Calls(r)
  <2>1. HitGroups(t) = {} /\ FrameFiles(t) = t.files
    BY <1>2 DEF HitGroups, FrameFiles
  <2>2. HitGroups(u) = {} /\ FrameFiles(u) = t.files \ {f}
    BY <1>4, FilesCallView
  <2>3. HitGroups(a) = {} /\ FrameFiles(a) = FailedFiles(Skipped(f))
    BY <1>5, FilesCallView
  <2>4. /\ CompletingIn(stack) = HitGroups(t) \cup CompletingIn(r)
        /\ FilesIn(stack) = FrameFiles(t) \cup FilesIn(r)
        /\ Calls(stack) = {t} \cup Calls(r)
        /\ HitsDistinct(stack) => HitsDistinct(r)
    BY <1>1, PushView
  <2>5. /\ CompletingIn(q) = HitGroups(u) \cup CompletingIn(r)
        /\ FilesIn(q) = FrameFiles(u) \cup FilesIn(r)
        /\ Calls(q) = {u} \cup Calls(r)
        /\ HitsDistinct(q) <=> HitsDistinct(r) /\ HitGroups(u) \cap CompletingIn(r) = {}
    BY <1>6, PushView
  <2>6. /\ CompletingIn(stack') = HitGroups(a) \cup CompletingIn(q)
        /\ FilesIn(stack') = FrameFiles(a) \cup FilesIn(q)
        /\ Calls(stack') = {a} \cup Calls(q)
        /\ HitsDistinct(stack') <=> HitsDistinct(q) /\ HitGroups(a) \cap CompletingIn(q) = {}
    BY <1>7, PushView
  <2>7. HitsDistinct(stack)
    BY DEF SchedulerInv, CallsConsistent
  <2>8. HitsDistinct(stack')
    BY <2>2, <2>3, <2>4, <2>5, <2>6, <2>7
  <2>9. CompletingIn(stack') = CompletingIn(stack)
    BY <2>1, <2>2, <2>3, <2>4, <2>5, <2>6
  <2>10. FilesIn(stack') = FailedFiles(Skipped(f)) \cup (t.files \ {f}) \cup FilesIn(r)
    BY <2>2, <2>3, <2>5, <2>6
  <2> QED BY <2>1, <2>4, <2>5, <2>6, <2>8, <2>9, <2>10
<1>9. /\ UNCHANGED <<clients, ready_groups, running_groups, file_handles, ready_execs,
                     connected_workers, current_job, gone, pending_files, dead, sent_job, killed>>
      /\ \A g \in Group : missing_deps'[g] = IF g \in Skipped(f) THEN {} ELSE missing_deps[g]
      /\ \A g \in Group : verdict'[g] = IF g \in Skipped(f) THEN "skipped" ELSE verdict[g]
  BY DEF FileFailed, env
<1>10. /\ Skipped(f) \subseteq Waiting /\ Waiting' = Waiting \ Skipped(f)
       /\ Ended' = Ended \cup Skipped(f) /\ Completing' = Completing /\ Queued' = Queued
  <2>1. Skipped(f) \subseteq Waiting
    BY DEF Skipped
  <2>2. Waiting' = Waiting \ Skipped(f)
    BY <1>9 DEF Waiting
  <2>3. Ended' = Ended \cup Skipped(f)
    BY <1>9, <2>1 DEF Ended, Waiting
  <2>4. Completing' = Completing /\ Queued' = Queued
    BY <1>8, <1>9 DEF Completing, Queued
  <2> QED BY <2>1, <2>2, <2>3, <2>4
<1>11. \A g \in Skipped(f) : g \in Group /\ verdict[g] = "none"
  BY <1>10 DEF SchedulerInv, GroupLifecycle, Ended, Waiting
<1>12. \A x : Good(x)' <=> Good(x)
  BY <1>9, <1>11 DEF Good, Produced
<1>13. \A x : Produced(x, {"fail", "internal", "skipped"})
                => Produced(x, {"fail", "internal", "skipped"})'
  BY <1>9 DEF Produced
<1>14. \A x \in FailedFiles(Skipped(f)) : Produced(x, {"fail", "internal", "skipped"})'
  BY <1>9, <1>11 DEF Produced, FailedFiles
<1>15. GroupLifecycle'
  BY <1>9, <1>10 DEF SchedulerInv, GroupLifecycle
<1>16. ReadyQueueConsistent'
  BY <1>9, <1>10 DEF SchedulerInv, ReadyQueueConsistent
<1>17. WorkerJobsConsistent'
  BY <1>9 DEF SchedulerInv, WorkerJobsConsistent
<1>18. InputsAvailable'
  BY <1>9, <1>10, <1>12 DEF SchedulerInv, InputsAvailable, Waiting
<1>19. NoLostWakeup'
  <2> SUFFICES ASSUME NEW g \in Waiting', NEW x \in missing_deps'[g]
               PROVE  \/ x \in pending_files'
                      \/ x \in FilesIn(stack')
                      \/ \E h \in (Waiting \cup ready_groups \cup running_groups \cup Completing)' :
                            x \in Outs[h]
    BY DEF NoLostWakeup
  <2>1. g \in Waiting /\ g \notin Skipped(f) /\ x \in missing_deps[g]
    BY <1>9, <1>10 DEF Waiting
  <2>2. x # f
    BY <2>1 DEF SchedulerInv, InputsAvailable, Skipped, InputOf, Waiting
  <2>3. \/ x \in pending_files
        \/ x \in FilesIn(stack)
        \/ \E h \in Waiting \cup ready_groups \cup running_groups \cup Completing : x \in Outs[h]
    BY <2>1 DEF SchedulerInv, NoLostWakeup
  <2>4. CASE \E h \in Skipped(f) : x \in Outs[h]
    BY <1>8, <2>4 DEF FailedFiles
  <2>5. CASE x \in FilesIn(stack)
    BY <1>8, <2>2, <2>5
  <2> QED BY <1>9, <1>10, <2>3, <2>4, <2>5
<1>20. CallsConsistent'
  <2>1. \A v \in Calls(stack) : FrameConsistent(v)
    BY DEF SchedulerInv, CallsConsistent
  <2>2. ASSUME NEW v, FrameConsistent(v) PROVE FrameConsistent(v)'
    BY <1>12, <1>13, <2>2 DEF FrameConsistent
  <2>3. FrameConsistent(u)
    BY <1>2, <1>4, <1>8, <2>1 DEF FrameConsistent, FilesCall
  <2>4. FrameConsistent(a)'
    BY <1>5, <1>14 DEF FrameConsistent, FilesCall
  <2>5. \A v \in Calls(stack') : FrameConsistent(v)'
    BY <1>8, <2>1, <2>2, <2>3, <2>4
  <2>6. ChecksLast(r)
    BY <1>1, ChecksLastPush DEF SchedulerInv, CallsConsistent
  <2>7. a.op = "file_failed" /\ u.op = "file_failed"
    BY <1>4, <1>5 DEF FilesCall
  <2>8. ChecksLast(q)
    BY <1>6, <2>6, <2>7, ChecksLastPush
  <2>9. ChecksLast(stack')
    BY <1>7, <2>7, <2>8, ChecksLastPush
  <2> QED BY <1>8, <2>5, <2>9 DEF CallsConsistent
<1>21. NothingBeforeDag'
  BY <1>9, <1>10 DEF SchedulerInv, NothingBeforeDag, GroupLifecycle, Waiting
<1> QED
  BY <1>15, <1>16, <1>17, <1>18, <1>19, <1>20, <1>21 DEF SchedulerInv

(* exec_completed keeps the invariant: the group ends, and its outputs are   *)
(* announced, as good files only if the group succeeded.                     *)
LEMMA ExecCompletedStep ==
    ASSUME SchedulerInv, NEW h \in PendingHits, ExecCompleted(h), TypeOK'
    PROVE  SchedulerInv'
<1>1. PICK t \in Frame, r \in Seq(Frame) :
         stack = <<t>> \o r /\ t = Head(stack) /\ r = Tail(stack)
  BY HeadTail DEF ExecCompleted, Calling, SchedulerInv, TypeOK
<1>2. t.op = "exec_completed" /\ h \in t.hits
  BY <1>1 DEF ExecCompleted, Calling
<1>3. h \in Hit /\ t.hits \in SUBSET Hit /\ t.from \in {"worker", "cache"}
  BY <1>2, FrameFields
<1>4. PICK g \in Group : g = h.group
  BY <1>3 DEF Hit
<1>5. h.result \in Result /\ OutputsCall(h.result) \in {"file_success", "file_failed"}
  BY <1>3 DEF Hit, OutputsCall
<1>6. PICK u \in Frame : u = CompletedCall(t.hits \ {h}, t.from)
  BY <1>3, CallTypes
<1>7. PICK a \in Frame : a = FilesCall(OutputsCall(h.result), Owner[g], Outs[g])
  BY <1>5, ConstTypes, CallTypes
<1>8. PICK b \in Frame : b = ScheduleCachedCall
  BY CallTypes
<1>9. PICK q \in Seq(Frame) : q = <<u>> \o r
  BY PushView
<1>10. PICK p \in Seq(Frame) : p = <<b>> \o q
  BY PushView
<1>11. /\ HitGroups(t) = {k.group : k \in t.hits} /\ FrameFiles(t) = {}
       /\ HitGroups(u) = {k.group : k \in t.hits \ {h}} /\ FrameFiles(u) = {}
       /\ HitGroups(a) = {} /\ FrameFiles(a) = Outs[g]
       /\ HitGroups(b) = {} /\ FrameFiles(b) = {}
  <2>1. HitGroups(t) = {k.group : k \in t.hits} /\ FrameFiles(t) = {}
    BY <1>2 DEF HitGroups, FrameFiles
  <2>2. HitGroups(u) = {k.group : k \in t.hits \ {h}} /\ FrameFiles(u) = {}
    BY <1>6, CompletedCallView
  <2>3. HitGroups(a) = {} /\ FrameFiles(a) = Outs[g]
    BY <1>5, <1>7, FilesCallView
  <2>4. HitGroups(b) = {} /\ FrameFiles(b) = {}
    BY <1>8, PlainCalls
  <2> QED BY <2>1, <2>2, <2>3, <2>4
<1>12. /\ CompletingIn(stack) = HitGroups(t) \cup CompletingIn(r)
       /\ FilesIn(stack) = FrameFiles(t) \cup FilesIn(r)
       /\ Calls(stack) = {t} \cup Calls(r)
       /\ HitsDistinct(stack) <=> HitsDistinct(r) /\ HitGroups(t) \cap CompletingIn(r) = {}
  BY <1>1, PushView
<1>13. HitsDistinct(stack) /\ FrameConsistent(t)
  BY <1>12 DEF SchedulerInv, CallsConsistent
<1>14. HitGroups(t) = HitGroups(u) \cup {g} /\ g \notin HitGroups(u)
  <2>1. \A k \in t.hits : k.group = h.group => k = h
    BY <1>2, <1>13 DEF FrameConsistent
  <2> QED BY <1>2, <1>4, <1>11, <2>1
<1>15. g \in Completing /\ Owner[g] \in clients /\ verdict[g] = "none"
  BY <1>12, <1>14 DEF SchedulerInv, GroupLifecycle, Completing, Ended
<1>16. stack' = <<a>> \o p
  <2>1. stack' = <<a, b>> \o q
    BY <1>1, <1>4, <1>6, <1>7, <1>8, <1>9, <1>15 DEF ExecCompleted
  <2>2. <<a, b>> = <<a>> \o <<b>>
    BY TwoCalls
  <2>3. (<<a>> \o <<b>>) \o q = <<a>> \o (<<b>> \o q)
    BY ConcatAssociative
  <2> QED BY <1>10, <2>1, <2>2, <2>3
<1>17. /\ CompletingIn(q) = HitGroups(u) \cup CompletingIn(r)
       /\ FilesIn(q) = FrameFiles(u) \cup FilesIn(r)
       /\ Calls(q) = {u} \cup Calls(r)
       /\ HitsDistinct(q) <=> HitsDistinct(r) /\ HitGroups(u) \cap CompletingIn(r) = {}
  BY <1>9, PushView
<1>18. /\ CompletingIn(p) = HitGroups(b) \cup CompletingIn(q)
       /\ FilesIn(p) = FrameFiles(b) \cup FilesIn(q)
       /\ Calls(p) = {b} \cup Calls(q)
       /\ HitsDistinct(p) <=> HitsDistinct(q) /\ HitGroups(b) \cap CompletingIn(q) = {}
  BY <1>10, PushView
<1>19. /\ CompletingIn(stack') = HitGroups(a) \cup CompletingIn(p)
       /\ FilesIn(stack') = FrameFiles(a) \cup FilesIn(p)
       /\ Calls(stack') = {a} \cup Calls(p)
       /\ HitsDistinct(stack') <=> HitsDistinct(p) /\ HitGroups(a) \cap CompletingIn(p) = {}
  BY <1>16, PushView
<1>20. HitsDistinct(stack')
  BY <1>11, <1>12, <1>13, <1>14, <1>17, <1>18, <1>19
<1>21. Completing' = Completing \ {g} /\ FilesIn(stack') = FilesIn(stack) \cup Outs[g]
  <2>1. CompletingIn(stack) = HitGroups(t) \cup CompletingIn(r) /\ g \notin CompletingIn(r)
    BY <1>12, <1>13, <1>14
  <2>2. CompletingIn(stack') = HitGroups(u) \cup CompletingIn(r)
    BY <1>11, <1>17, <1>18, <1>19
  <2>3. CompletingIn(stack') = CompletingIn(stack) \ {g}
    BY <1>14, <2>1, <2>2
  <2>4. FilesIn(stack') = FilesIn(stack) \cup Outs[g]
    BY <1>11, <1>12, <1>17, <1>18, <1>19
  <2> QED BY <2>3, <2>4 DEF Completing
<1>22. /\ UNCHANGED <<clients, missing_deps, ready_groups, running_groups, ready_execs,
                      connected_workers, current_job, gone, pending_files, dead, sent_job, killed>>
       /\ \A k \in Group : verdict'[k] = IF k = g THEN h.result ELSE verdict[k]
       /\ file_handles' = file_handles \cup h.outputs
  BY <1>4, <1>15 DEF ExecCompleted, env, SchedulerInv, TypeOK
<1>23. Waiting' = Waiting /\ Queued' = Queued /\ Ended' = Ended \cup {g}
  BY <1>5, <1>22 DEF Waiting, Queued, Ended, Result
<1>24. \A x, vs : Produced(x, vs) /\ "none" \notin vs => Produced(x, vs)'
  BY <1>15, <1>22 DEF Produced
<1>25. \A x : Good(x) => Good(x)'
  BY <1>22, <1>24 DEF Good
<1>26. ASSUME h.result = "ok", NEW x \in Outs[g] PROVE Good(x)'
  <2>1. h.outputs = Outs[g]
    BY <1>2, <1>4, <1>13, <1>26 DEF FrameConsistent
  <2> QED BY <1>22, <1>26, <2>1 DEF Good, Produced
<1>27. ASSUME h.result # "ok", NEW x \in Outs[g]
       PROVE  Produced(x, {"fail", "internal", "skipped"})'
  BY <1>5, <1>22, <1>27 DEF Produced, Result
<1>28. GroupLifecycle'
  BY <1>15, <1>21, <1>22, <1>23 DEF SchedulerInv, GroupLifecycle
<1>29. ReadyQueueConsistent'
  BY <1>22, <1>23 DEF SchedulerInv, ReadyQueueConsistent
<1>30. WorkerJobsConsistent'
  BY <1>22 DEF SchedulerInv, WorkerJobsConsistent
<1>31. InputsAvailable'
  BY <1>21, <1>22, <1>23, <1>25 DEF SchedulerInv, InputsAvailable
<1>32. NoLostWakeup'
  <2> SUFFICES ASSUME NEW k \in Waiting', NEW x \in missing_deps'[k]
               PROVE  \/ x \in pending_files'
                      \/ x \in FilesIn(stack')
                      \/ \E m \in (Waiting \cup ready_groups \cup running_groups \cup Completing)' :
                            x \in Outs[m]
    BY DEF NoLostWakeup
  <2>1. \/ x \in pending_files
        \/ x \in FilesIn(stack)
        \/ \E m \in Waiting \cup ready_groups \cup running_groups \cup Completing : x \in Outs[m]
    BY <1>22, <1>23 DEF SchedulerInv, NoLostWakeup
  <2> QED BY <1>21, <1>22, <1>23, <2>1
<1>33. CallsConsistent'
  <2>1. \A v \in Calls(stack) : FrameConsistent(v)
    BY DEF SchedulerInv, CallsConsistent
  <2>2. ASSUME NEW v, FrameConsistent(v) PROVE FrameConsistent(v)'
    BY <1>24, <1>25, <2>2 DEF FrameConsistent
  <2>3. FrameConsistent(u)
    BY <1>2, <1>6, <1>13 DEF FrameConsistent, CompletedCall
  <2>4. FrameConsistent(a)'
    <3>1. CASE h.result = "ok"
      BY <1>7, <1>26, <3>1 DEF FrameConsistent, FilesCall, OutputsCall
    <3>2. CASE h.result # "ok"
      BY <1>7, <1>27, <3>2 DEF FrameConsistent, FilesCall, OutputsCall
    <3> QED BY <3>1, <3>2
  <2>5. FrameConsistent(b)
    BY <1>8, PlainCalls
  <2>6. \A v \in Calls(stack') : FrameConsistent(v)'
    BY <1>12, <1>17, <1>18, <1>19, <2>1, <2>2, <2>3, <2>4, <2>5
  <2>7. ChecksLast(r)
    BY <1>1, ChecksLastPush DEF SchedulerInv, CallsConsistent
  <2>8. u.op # "check_completion" /\ b.op # "check_completion" /\ a.op # "check_completion"
    BY <1>5, <1>6, <1>7, <1>8 DEF FilesCall, CompletedCall, ScheduleCachedCall
  <2>9. ChecksLast(q)
    BY <1>9, <2>7, <2>8, ChecksLastPush
  <2>10. ChecksLast(p)
    BY <1>10, <2>8, <2>9, ChecksLastPush
  <2>11. ChecksLast(stack')
    BY <1>16, <2>8, <2>10, ChecksLastPush
  <2> QED BY <1>20, <2>6, <2>11 DEF CallsConsistent
<1>34. NothingBeforeDag'
  BY <1>15, <1>22, <1>23 DEF SchedulerInv, NothingBeforeDag
<1> QED
  BY <1>28, <1>29, <1>30, <1>31, <1>32, <1>33, <1>34 DEF SchedulerInv

(* schedule_cached keeps the invariant: the groups that leave the queue are  *)
(* those exec_completed is going to be called for.                           *)
LEMMA ScheduleCachedStep ==
    ASSUME SchedulerInv, ScheduleCached, TypeOK'
    PROVE  SchedulerInv'
<1>1. PICK t \in Frame, r \in Seq(Frame) :
         stack = <<t>> \o r /\ t = Head(stack) /\ r = Tail(stack)
  BY HeadTail DEF ScheduleCached, Calling, SchedulerInv, TypeOK
<1>2. PICK hits \in SUBSET Group :
         hits = {g \in Group : /\ \E e \in Queued : e[1] = g
                               /\ Owner[g] \in clients
                               /\ CacheHit(g)}
  OBVIOUS
<1>3. PICK recs : recs = {[group |-> g, result |-> cache[KeyOf[g]], outputs |-> Outs[g]] : g \in hits}
  OBVIOUS
<1>4. /\ recs \in SUBSET Hit /\ {k.group : k \in recs} = hits
      /\ \A k, m \in recs : k.group = m.group => k = m
      /\ \A k \in recs : k.outputs = Outs[k.group]
  <2>1. recs \in SUBSET Hit
    BY <1>2, <1>3, ConstTypes DEF Hit, CacheHit, SchedulerInv, TypeOK, Cached, Result
  <2>2. /\ \A k \in recs : /\ k.group \in hits
                           /\ k = [group |-> k.group, result |-> cache[KeyOf[k.group]],
                                   outputs |-> Outs[k.group]]
        /\ \A g \in hits : \E k \in recs : k.group = g
    <3>1. ASSUME NEW k \in recs
          PROVE  /\ k.group \in hits
                 /\ k = [group |-> k.group, result |-> cache[KeyOf[k.group]],
                         outputs |-> Outs[k.group]]
      <4>1. PICK g \in hits :
               k = [group |-> g, result |-> cache[KeyOf[g]], outputs |-> Outs[g]]
        BY <1>3
      <4>2. k.group = g
        BY <4>1
      <4> QED BY <4>1, <4>2
    <3>2. ASSUME NEW g \in hits PROVE \E k \in recs : k.group = g
      <4>1. [group |-> g, result |-> cache[KeyOf[g]], outputs |-> Outs[g]] \in recs
        BY <1>3
      <4> QED BY <4>1
    <3> QED BY <3>1, <3>2
  <2>3. {k.group : k \in recs} = hits
    BY <2>2
  <2>4. ASSUME NEW k \in recs, NEW m \in recs, k.group = m.group PROVE k = m
    BY <2>2, <2>4
  <2>5. ASSUME NEW k \in recs PROVE k.outputs = Outs[k.group]
    BY <2>2
  <2> QED BY <2>1, <2>3, <2>4, <2>5
<1>5. PICK a \in Frame : a = CompletedCall(recs, "cache")
  BY <1>4, CallTypes
<1>6. /\ stack' = <<a>> \o r
      /\ ready_groups' = ready_groups \ hits
      /\ ready_execs' = [e \in Entry |-> IF Owner[e[1]] \in clients /\ e[1] \notin hits
                                         THEN ready_execs[e] ELSE 0]
  BY <1>1, <1>2, <1>3, <1>5 DEF ScheduleCached
<1>7. UNCHANGED <<clients, missing_deps, running_groups, file_handles, connected_workers,
                  current_job, gone, pending_files, dead, sent_job, killed, verdict>>
  BY DEF ScheduleCached, env, told
<1>8. /\ HitGroups(t) = {} /\ FrameFiles(t) = {}
      /\ HitGroups(a) = hits /\ FrameFiles(a) = {}
  <2>1. HitGroups(t) = {} /\ FrameFiles(t) = {}
    BY <1>1 DEF ScheduleCached, Calling, HitGroups, FrameFiles
  <2>2. HitGroups(a) = hits /\ FrameFiles(a) = {}
    BY <1>4, <1>5, CompletedCallView
  <2> QED BY <2>1, <2>2
<1>9. /\ CompletingIn(stack) = HitGroups(t) \cup CompletingIn(r)
      /\ FilesIn(stack) = FrameFiles(t) \cup FilesIn(r)
      /\ Calls(stack) = {t} \cup Calls(r)
      /\ HitsDistinct(stack) => HitsDistinct(r)
  BY <1>1, PushView
<1>10. /\ CompletingIn(stack') = HitGroups(a) \cup CompletingIn(r)
       /\ FilesIn(stack') = FrameFiles(a) \cup FilesIn(r)
       /\ Calls(stack') = {a} \cup Calls(r)
       /\ HitsDistinct(stack') <=> HitsDistinct(r) /\ HitGroups(a) \cap CompletingIn(r) = {}
  BY <1>6, PushView
<1>11. /\ Completing' = Completing \cup hits /\ FilesIn(stack') = FilesIn(stack)
       /\ Completing = CompletingIn(r)
  BY <1>8, <1>9, <1>10 DEF Completing
<1>12. hits \subseteq ready_groups
  BY <1>2 DEF SchedulerInv, ReadyQueueConsistent
<1>13. /\ Queued' = {e \in Queued : e[1] \notin hits}
       /\ \A e \in Queued' : ready_execs'[e] = ready_execs[e]
  <2>1. \A e \in Queued : Owner[e[1]] \in clients
    BY DEF SchedulerInv, ReadyQueueConsistent, GroupLifecycle, TypeOK
  <2> QED BY <1>6, <2>1 DEF Queued
<1>14. Waiting' = Waiting /\ Ended' = Ended
  BY <1>7 DEF Waiting, Ended
<1>15. \A x : Good(x)' <=> Good(x)
  BY <1>7 DEF Good, Produced
<1>16. GroupLifecycle'
  BY <1>6, <1>7, <1>11, <1>12, <1>14 DEF SchedulerInv, GroupLifecycle
<1>17. ReadyQueueConsistent'
  <2>1. \A e \in Queued' : ready_execs'[e] = 1 /\ e[1] \in ready_groups'
    BY <1>6, <1>13 DEF SchedulerInv, ReadyQueueConsistent
  <2>2. ASSUME NEW g \in ready_groups' PROVE \E e \in Queued' : e[1] = g
    <3>1. PICK e \in Queued : e[1] = g
      BY <1>6 DEF SchedulerInv, ReadyQueueConsistent
    <3> QED BY <1>6, <1>13, <3>1
  <2>3. \A d, e \in Queued' : d[1] = e[1] => d = e
    BY <1>13 DEF SchedulerInv, ReadyQueueConsistent
  <2> QED BY <2>1, <2>2, <2>3 DEF ReadyQueueConsistent
<1>18. WorkerJobsConsistent'
  BY <1>7 DEF SchedulerInv, WorkerJobsConsistent
<1>19. InputsAvailable'
  BY <1>6, <1>7, <1>11, <1>12, <1>14, <1>15 DEF SchedulerInv, InputsAvailable
<1>20. NoLostWakeup'
  <2>1. (Waiting \cup ready_groups \cup running_groups \cup Completing)'
            = Waiting \cup ready_groups \cup running_groups \cup Completing
    BY <1>6, <1>7, <1>11, <1>12, <1>14
  <2> QED BY <1>7, <1>11, <1>14, <2>1 DEF SchedulerInv, NoLostWakeup
<1>21. CallsConsistent'
  <2>1. \A v : FrameConsistent(v)' <=> FrameConsistent(v)
    BY <1>7, <1>15 DEF FrameConsistent, Produced
  <2>2. FrameConsistent(a)
    BY <1>4, <1>5 DEF FrameConsistent, CompletedCall
  <2>3. \A v \in Calls(stack') : FrameConsistent(v)
    BY <1>9, <1>10, <2>2 DEF SchedulerInv, CallsConsistent
  <2>4. HitsDistinct(stack')
    <3>1. hits \cap CompletingIn(r) = {} /\ HitsDistinct(r)
      BY <1>9, <1>11, <1>12 DEF SchedulerInv, GroupLifecycle, CallsConsistent
    <3> QED BY <1>8, <1>10, <3>1
  <2>5. ChecksLast(r)
    BY <1>1, ChecksLastPush DEF SchedulerInv, CallsConsistent
  <2>6. a.op # "check_completion"
    BY <1>5 DEF CompletedCall
  <2>7. ChecksLast(stack')
    BY <1>6, <2>5, <2>6, ChecksLastPush
  <2> QED BY <2>1, <2>3, <2>4, <2>7 DEF CallsConsistent
<1>22. NothingBeforeDag'
  BY <1>7, <1>14 DEF SchedulerInv, NothingBeforeDag
<1> QED
  BY <1>16, <1>17, <1>18, <1>19, <1>20, <1>21, <1>22 DEF SchedulerInv

(* assign_jobs keeps the invariant: the one entry of the group leaves the    *)
(* queue and the group runs on the worker, and on no other.                  *)
LEMMA AssignJobStep ==
    ASSUME SchedulerInv, NEW w \in Worker, NEW e \in Entry, AssignJob(w, e), TypeOK'
    PROVE  SchedulerInv'
<1>1. PICK g \in Group : g = e[1]
  BY DEF Entry
<1>2. e \in Queued /\ ready_execs[e] = 1 /\ g \in ready_groups /\ Owner[g] \in clients
  <2>1. e \in Queued
    BY DEF AssignJob, MaxEntries
  <2> QED BY <1>1, <2>1 DEF SchedulerInv, ReadyQueueConsistent, GroupLifecycle
<1>3. /\ w \in connected_workers /\ current_job[w] = NoJob
      /\ ready_execs' = [ready_execs EXCEPT ![e] = @ - 1]
      /\ current_job' = [current_job EXCEPT ![w] = g]
      /\ sent_job' = [sent_job EXCEPT ![w] = g]
      /\ ready_groups' = ready_groups \ {g}
      /\ running_groups' = running_groups \cup {g}
  BY <1>1, <1>2 DEF AssignJob, FreeWorkers
<1>4. UNCHANGED <<clients, missing_deps, file_handles, connected_workers, stack,
                  gone, pending_files, dead, killed, verdict>>
  BY DEF AssignJob, told
<1>5. Waiting' = Waiting /\ Ended' = Ended /\ Completing' = Completing
  BY <1>4 DEF Waiting, Ended, Completing
<1>6. /\ Queued' = Queued \ {e}
      /\ \A d \in Queued' : ready_execs'[d] = ready_execs[d]
  BY <1>2, <1>3 DEF Queued, SchedulerInv, TypeOK
<1>7. \A v \in Worker : current_job[v] # g
  BY <1>2, ConstTypes DEF SchedulerInv, GroupLifecycle, WorkerJobsConsistent
<1>8. \A x : Good(x)' <=> Good(x)
  BY <1>4 DEF Good, Produced
<1>9. GroupLifecycle'
  BY <1>2, <1>3, <1>4, <1>5 DEF SchedulerInv, GroupLifecycle
<1>10. ReadyQueueConsistent'
  BY <1>1, <1>2, <1>3, <1>6 DEF SchedulerInv, ReadyQueueConsistent
<1>11. WorkerJobsConsistent'
  <2>1. /\ \A v \in Worker : current_job'[v] = IF v = w THEN g ELSE current_job[v]
        /\ \A v \in Worker : sent_job'[v] = IF v = w THEN g ELSE sent_job[v]
    BY <1>3 DEF SchedulerInv, TypeOK
  <2>2. /\ \A v \in Worker : current_job'[v] = sent_job'[v]
        /\ \A v \in Worker : sent_job'[v] # NoJob => v \in connected_workers'
    BY <1>3, <1>4, <2>1 DEF SchedulerInv, WorkerJobsConsistent
  <2>3. ASSUME NEW k \in running_groups' PROVE \E v \in Worker : current_job'[v] = k
    <3>1. CASE k = g
      BY <2>1, <3>1
    <3>2. CASE k \in running_groups
      <4>1. PICK v \in Worker : current_job[v] = k
        BY <3>2 DEF SchedulerInv, WorkerJobsConsistent
      <4>2. v # w
        BY <1>3, <3>2, <4>1, ConstTypes DEF SchedulerInv, TypeOK
      <4> QED BY <2>1, <4>1, <4>2
    <3> QED BY <1>3, <3>1, <3>2
  <2>4. ASSUME NEW v \in Worker, current_job'[v] # NoJob
        PROVE  IF Owner[current_job'[v]] \in clients'
               THEN current_job'[v] \in running_groups' ELSE v \in killed'
    BY <1>2, <1>3, <1>4, <2>1, <2>4 DEF SchedulerInv, WorkerJobsConsistent
  <2>5. \A u, v \in Worker : current_job'[u] = current_job'[v] => u = v \/ current_job'[v] = NoJob
    BY <1>7, <2>1 DEF SchedulerInv, WorkerJobsConsistent
  <2> QED BY <2>2, <2>3, <2>4, <2>5 DEF WorkerJobsConsistent
<1>12. InputsAvailable'
  BY <1>2, <1>3, <1>4, <1>5, <1>8 DEF SchedulerInv, InputsAvailable
<1>13. NoLostWakeup'
  BY <1>2, <1>3, <1>4, <1>5 DEF SchedulerInv, NoLostWakeup
<1>14. CallsConsistent'
  <2>1. \A v : FrameConsistent(v)' <=> FrameConsistent(v)
    BY <1>4, <1>8 DEF FrameConsistent, Produced
  <2> QED BY <1>4, <2>1 DEF SchedulerInv, CallsConsistent
<1>15. NothingBeforeDag'
  <2>1. \A v \in Worker : current_job'[v] = IF v = w THEN g ELSE current_job[v]
    BY <1>3 DEF SchedulerInv, TypeOK
  <2> QED BY <1>2, <1>4, <1>5, <2>1 DEF SchedulerInv, NothingBeforeDag
<1> QED
  BY <1>9, <1>10, <1>11, <1>12, <1>13, <1>14, <1>15 DEF SchedulerInv

-----------------------------------------------------------------------------
(* The handlers of messages start with no call pending *)

(* The calls of a stack of three. *)
LEMMA CallsOfThree == ASSUME NEW a, NEW b, NEW c PROVE Calls(<<a, b, c>>) = {a, b, c}
<1>1. PICK s : s = <<a, b, c>>
  OBVIOUS
<1>2. DOMAIN s = {1, 2, 3} /\ s[1] = a /\ s[2] = b /\ s[3] = c
  BY <1>1
<1>3. Calls(s) = {a, b, c}
  BY <1>2, Zenon DEF Calls
<1> QED  BY <1>1, <1>3, Zenon

(* What one, two or three calls complete and announce. *)
LEMMA FewCalls ==
    ASSUME NEW a, NEW b, NEW c
    PROVE  /\ Calls(<<a>>) = {a} /\ Calls(<<a, b>>) = {a, b} /\ Calls(<<a, b, c>>) = {a, b, c}
           /\ HitsDistinct(<<a>>) /\ ChecksLast(<<a>>)
           /\ HitGroups(b) = {} => HitsDistinct(<<a, b>>)
           /\ HitGroups(b) = {} /\ HitGroups(c) = {} => HitsDistinct(<<a, b, c>>)
           /\ a.op # "check_completion" => ChecksLast(<<a, b>>)
           /\ a.op # "check_completion" /\ b.op # "check_completion" => ChecksLast(<<a, b, c>>)
           /\ {b.op, c.op} \subseteq {"schedule_cached", "assign_jobs"} => ChecksLast(<<a, b, c>>)
<1>1. /\ DOMAIN <<a>> = {1} /\ DOMAIN <<a, b>> = {1, 2} /\ DOMAIN <<a, b, c>> = {1, 2, 3}
      /\ <<a>>[1] = a /\ <<a, b>>[1] = a /\ <<a, b>>[2] = b
      /\ <<a, b, c>>[1] = a /\ <<a, b, c>>[2] = b /\ <<a, b, c>>[3] = c
  OBVIOUS
<1>2. Calls(<<a>>) = {a}
  BY CallsOne
<1>3. Calls(<<a, b>>) = {a, b}
  BY <1>1 DEF Calls
<1>4. Calls(<<a, b, c>>) = {a, b, c}
  BY CallsOfThree, Zenon
<1>5. HitsDistinct(<<a>>) /\ ChecksLast(<<a>>)
  BY <1>1 DEF HitsDistinct, ChecksLast
<1>6. HitGroups(b) = {} => HitsDistinct(<<a, b>>)
  BY <1>1 DEF HitsDistinct
<1>7. HitGroups(b) = {} /\ HitGroups(c) = {} => HitsDistinct(<<a, b, c>>)
  BY <1>1 DEF HitsDistinct
<1>8. a.op # "check_completion" => ChecksLast(<<a, b>>)
  BY <1>1 DEF ChecksLast
<1>9. a.op # "check_completion" /\ b.op # "check_completion" => ChecksLast(<<a, b, c>>)
  BY <1>1 DEF ChecksLast
<1>10. {b.op, c.op} \subseteq {"schedule_cached", "assign_jobs"} => ChecksLast(<<a, b, c>>)
  BY <1>1 DEF ChecksLast
<1> QED BY <1>2, <1>3, <1>4, <1>5, <1>6, <1>7, <1>8, <1>9, <1>10

(* With no call pending nothing is being completed or announced. *)
LEMMA IdleView ==
    ASSUME Idle
    PROVE  stack = <<>> /\ Completing = {} /\ FilesIn(stack) = {} /\ Calls(stack) = {}
  BY CompletingNone DEF Idle, Completing, Calls

(* Calls that complete and announce nothing. *)
LEMMA PlainStack ==
    ASSUME NEW s, \A v \in Calls(s) : v \in {ScheduleCachedCall, AssignJobsCall}
                                                \cup {CheckCompletionCall(c) : c \in Client}
    PROVE  /\ CompletingIn(s) = {} /\ FilesIn(s) = {}
           /\ \A v \in Calls(s) : v.op \in {"schedule_cached", "assign_jobs", "check_completion"}
<1>1. \A v \in Calls(s) : HitGroups(v) = {} /\ FrameFiles(v) = {}
  BY PlainCalls
<1>2. \A v \in Calls(s) : v.op \in {"schedule_cached", "assign_jobs", "check_completion"}
  BY DEF ScheduleCachedCall, AssignJobsCall, CheckCompletionCall
<1> QED BY <1>1, <1>2 DEF CompletingIn, FilesIn

(* A worker asks for work: its current_job was None already. *)
LEMMA WorkerConnectedStep ==
    ASSUME SchedulerInv, NEW w \in Worker, HandleWorkerConnected(w), TypeOK'
    PROVE  SchedulerInv'
<1>1. stack' = <<AssignJobsCall>> /\ Calls(stack') = {AssignJobsCall}
  BY FewCalls DEF HandleWorkerConnected
<1>2. Completing = {} /\ FilesIn(stack) = {} /\ Calls(stack) = {}
  BY IdleView DEF HandleWorkerConnected
<1>3. /\ CompletingIn(stack') = {} /\ FilesIn(stack') = {}
      /\ \A v \in Calls(stack') : v.op \in {"schedule_cached", "assign_jobs", "check_completion"}
  BY <1>1, PlainStack
<1>4. /\ UNCHANGED <<clients, missing_deps, ready_groups, running_groups, file_handles,
                     ready_execs, gone, pending_files, dead, sent_job, killed, verdict>>
      /\ connected_workers' = connected_workers \cup {w}
  BY DEF HandleWorkerConnected, env, told
<1>5. current_job' = current_job
  <2>1. current_job[w] = NoJob
    BY DEF HandleWorkerConnected, SchedulerInv, WorkerJobsConsistent
  <2>2. current_job' = [current_job EXCEPT ![w] = NoJob]
    BY DEF HandleWorkerConnected
  <2> QED BY <2>1, <2>2 DEF SchedulerInv, TypeOK
<1>6. Waiting' = Waiting /\ Ended' = Ended /\ Completing' = {} /\ Queued' = Queued
  BY <1>3, <1>4 DEF Waiting, Ended, Completing, Queued
<1>7. \A x : Good(x)' <=> Good(x)
  BY <1>4 DEF Good, Produced
<1>8. GroupLifecycle'
  BY <1>2, <1>4, <1>6 DEF SchedulerInv, GroupLifecycle
<1>9. ReadyQueueConsistent'
  BY <1>4, <1>6 DEF SchedulerInv, ReadyQueueConsistent
<1>10. WorkerJobsConsistent'
  BY <1>4, <1>5 DEF SchedulerInv, WorkerJobsConsistent
<1>11. InputsAvailable'
  BY <1>2, <1>4, <1>6, <1>7 DEF SchedulerInv, InputsAvailable
<1>12. NoLostWakeup'
  BY <1>2, <1>4, <1>6 DEF SchedulerInv, NoLostWakeup
<1>13. CallsConsistent'
  <2>1. \A v \in Calls(stack') : FrameConsistent(v)'
    BY <1>3 DEF FrameConsistent
  <2>2. HitsDistinct(stack') /\ ChecksLast(stack')
    BY <1>1, FewCalls
  <2> QED BY <2>1, <2>2 DEF CallsConsistent
<1>14. NothingBeforeDag'
  BY <1>4, <1>5, <1>6 DEF SchedulerInv, NothingBeforeDag
<1> QED
  BY <1>8, <1>9, <1>10, <1>11, <1>12, <1>13, <1>14 DEF SchedulerInv

(* A client uploads a file it provides: from now on the file is good, and    *)
(* the call of file_success will wake the groups that wait for it.           *)
LEMMA FileReadyStep ==
    ASSUME SchedulerInv, NEW c \in Client, NEW f \in File, HandleFileReady(c, f), TypeOK'
    PROVE  SchedulerInv'
<1>1. PICK a : a = FilesCall("file_success", c, {f})
  OBVIOUS
<1>2. PICK b : b = CheckCompletionCall(c)
  OBVIOUS
<1>3. stack' = <<a, b>> /\ Calls(stack') = {a, b}
  <2>1. stack' = <<a, b>>
    BY <1>1, <1>2 DEF HandleFileReady
  <2> QED BY <2>1, FewCalls
<1>4. Completing = {} /\ FilesIn(stack) = {} /\ Calls(stack) = {}
  BY IdleView DEF HandleFileReady
<1>5. HitGroups(a) = {} /\ FrameFiles(a) = {f} /\ HitGroups(b) = {} /\ FrameFiles(b) = {}
  BY <1>1, <1>2, FilesCallView, PlainCalls
<1>6. CompletingIn(stack') = {} /\ FilesIn(stack') = {f}
  BY <1>3, <1>5 DEF CompletingIn, FilesIn
<1>7. /\ UNCHANGED <<clients, missing_deps, ready_groups, running_groups, ready_execs,
                     connected_workers, current_job, gone, dead, sent_job, killed, verdict>>
      /\ pending_files' = pending_files \ {f} /\ file_handles' = file_handles \cup {f}
      /\ c \in clients /\ f \in pending_files /\ FileOwner[f] = c
  BY DEF HandleFileReady, told, FilesOf
<1>8. Waiting' = Waiting /\ Ended' = Ended /\ Completing' = {} /\ Queued' = Queued
  BY <1>6, <1>7 DEF Waiting, Ended, Completing, Queued
<1>9. (\A x : Good(x) => Good(x)') /\ Good(f)'
  <2>1. f \in Provided
    BY <1>7 DEF SchedulerInv, NothingBeforeDag
  <2> QED BY <1>7, <2>1 DEF Good, Produced
<1>10. GroupLifecycle'
  BY <1>4, <1>7, <1>8 DEF SchedulerInv, GroupLifecycle
<1>11. ReadyQueueConsistent'
  BY <1>7, <1>8 DEF SchedulerInv, ReadyQueueConsistent
<1>12. WorkerJobsConsistent'
  BY <1>7 DEF SchedulerInv, WorkerJobsConsistent
<1>13. InputsAvailable'
  BY <1>4, <1>7, <1>8, <1>9 DEF SchedulerInv, InputsAvailable
<1>14. NoLostWakeup'
  BY <1>4, <1>6, <1>7, <1>8 DEF SchedulerInv, NoLostWakeup
<1>15. CallsConsistent'
  <2>1. FrameConsistent(a)'
    BY <1>1, <1>9 DEF FrameConsistent, FilesCall
  <2>2. FrameConsistent(b)'
    BY <1>2 DEF FrameConsistent, CheckCompletionCall
  <2>3. a.op # "check_completion"
    BY <1>1 DEF FilesCall
  <2>4. HitsDistinct(stack') /\ ChecksLast(stack')
    BY <1>3, <1>5, <2>3, FewCalls
  <2> QED BY <1>3, <2>1, <2>2, <2>4 DEF CallsConsistent
<1>16. NothingBeforeDag'
  BY <1>7, <1>8 DEF SchedulerInv, NothingBeforeDag
<1> QED
  BY <1>10, <1>11, <1>12, <1>13, <1>14, <1>15, <1>16 DEF SchedulerInv

(* A client sends its DAG: nothing of it was known before, each input of its *)
(* groups is a file the client has not uploaded yet or the output of another *)
(* of its groups.                                                            *)
LEMMA EvaluateDAGStep ==
    ASSUME SchedulerInv, NEW c \in Client, HandleEvaluateDAG(c), TypeOK'
    PROVE  SchedulerInv'
<1>1. PICK free \in SUBSET Group : free = {g \in GroupsOf(c) : Deps[g] = {}}
  BY DEF GroupsOf
<1>2. stack' = <<CheckCompletionCall(c), ScheduleCachedCall, AssignJobsCall>>
      /\ Calls(stack') = {CheckCompletionCall(c), ScheduleCachedCall, AssignJobsCall}
  BY FewCalls DEF HandleEvaluateDAG
<1>3. Completing = {} /\ FilesIn(stack) = {} /\ Calls(stack) = {}
  BY IdleView DEF HandleEvaluateDAG
<1>4. /\ CompletingIn(stack') = {} /\ FilesIn(stack') = {}
      /\ \A v \in Calls(stack') : v.op \in {"schedule_cached", "assign_jobs", "check_completion"}
  BY <1>2, PlainStack
<1>5. /\ UNCHANGED <<running_groups, file_handles, connected_workers, current_job,
                     gone, pending_files, dead, sent_job, killed, verdict>>
      /\ c \notin clients /\ c \notin gone
      /\ clients' = clients \cup {c}
      /\ ready_groups' = ready_groups \cup free
      /\ \A g \in Group : missing_deps'[g] = IF Owner[g] = c THEN Deps[g] ELSE missing_deps[g]
      /\ ready_execs' = Push(free, DagPriority[c])
  BY <1>1 DEF HandleEvaluateDAG, env, told
<1>6. /\ Ended' = Ended /\ Completing' = {}
      /\ Waiting' = Waiting \cup (GroupsOf(c) \ free)
      /\ \A g \in GroupsOf(c) : g \notin Waiting \cup ready_groups \cup running_groups \cup Ended
      /\ free \subseteq GroupsOf(c)
  <2>1. Ended' = Ended /\ Completing' = {}
    BY <1>4, <1>5 DEF Ended, Completing
  <2>2. \A g \in GroupsOf(c) : g \notin Waiting \cup ready_groups \cup running_groups \cup Ended
    BY <1>5 DEF SchedulerInv, GroupLifecycle, NothingBeforeDag, GroupsOf
  <2>3. Waiting' = Waiting \cup (GroupsOf(c) \ free)
    BY <1>1, <1>5, <2>2 DEF Waiting, GroupsOf
  <2> QED BY <1>1, <2>1, <2>2, <2>3
<1>7. \A x : Good(x)' <=> Good(x)
  BY <1>5 DEF Good, Produced
<1>8. GroupLifecycle'
  BY <1>3, <1>5, <1>6 DEF SchedulerInv, GroupLifecycle, GroupsOf
<1>9. ReadyQueueConsistent'
  <2>1. \A e \in Entry : e[1] \in free => ready_execs[e] = 0
    BY <1>6 DEF SchedulerInv, ReadyQueueConsistent, Queued, TypeOK
  <2>2. \A e \in Entry : ready_execs'[e] =
            IF e[1] \in free /\ e[2] = DagPriority[c] THEN ready_execs[e] + 1 ELSE ready_execs[e]
    BY <1>5 DEF Push
  <2>3. \A g \in free : <<g, DagPriority[c]>> \in Entry
    BY DEF Entry, DagPrio
  <2>4. \A e \in Entry : e = <<e[1], e[2]>>
    BY DEF Entry
  <2>5. Queued' = Queued \cup {e \in Entry : e[1] \in free /\ e[2] = DagPriority[c]}
    BY <2>1, <2>2 DEF Queued, SchedulerInv, TypeOK
  <2>6. \A e \in Queued' : ready_execs'[e] = 1 /\ e[1] \in ready_groups'
    BY <1>5, <2>1, <2>2, <2>5 DEF SchedulerInv, ReadyQueueConsistent, Queued
  <2>7. \A g \in ready_groups' : \E e \in Queued' : e[1] = g
    <3>1. ASSUME NEW g \in ready_groups PROVE \E e \in Queued' : e[1] = g
      BY <2>5 DEF SchedulerInv, ReadyQueueConsistent
    <3>2. ASSUME NEW g \in free PROVE \E e \in Queued' : e[1] = g
      <4>1. <<g, DagPriority[c]>> \in Queued' /\ <<g, DagPriority[c]>>[1] = g
        BY <2>3, <2>5
      <4> QED BY <4>1
    <3> QED BY <1>5, <3>1, <3>2
  <2>8. \A d, e \in Queued' : d[1] = e[1] => d = e
    BY <2>1, <2>4, <2>5 DEF SchedulerInv, ReadyQueueConsistent, Queued
  <2> QED BY <2>6, <2>7, <2>8 DEF ReadyQueueConsistent
<1>10. WorkerJobsConsistent'
  <2>1. \A w \in Worker : current_job[w] # NoJob => Owner[current_job[w]] # c
    BY <1>5 DEF SchedulerInv, NothingBeforeDag
  <2> QED BY <1>5, <2>1 DEF SchedulerInv, WorkerJobsConsistent
<1>11. InputsAvailable'
  <2>1. ASSUME NEW g \in (ready_groups \cup running_groups \cup Completing)', NEW x \in Deps[g]
        PROVE  Good(x)'
    BY <1>1, <1>3, <1>5, <1>6, <1>7, <2>1 DEF SchedulerInv, InputsAvailable
  <2>2. ASSUME NEW g \in Waiting', NEW x \in Deps[g] \ missing_deps'[g] PROVE Good(x)'
    BY <1>5, <1>6, <1>7, <2>2 DEF SchedulerInv, InputsAvailable, Waiting, GroupsOf
  <2>3. \A g \in Group : missing_deps'[g] \subseteq Deps[g]
    BY <1>5 DEF SchedulerInv, InputsAvailable
  <2> QED BY <2>1, <2>2, <2>3 DEF InputsAvailable
<1>12. NoLostWakeup'
  <2> SUFFICES ASSUME NEW g \in Waiting', NEW x \in missing_deps'[g]
               PROVE  \/ x \in pending_files'
                      \/ \E h \in (Waiting \cup ready_groups \cup running_groups \cup Completing)' :
                            x \in Outs[h]
    BY DEF NoLostWakeup
  <2>1. CASE Owner[g] = c
    <3>1. g \in Group /\ x \in Deps[g] /\ FileOwner[x] = c
      BY <1>5, <2>1, DagAssumption DEF Waiting
    <3>2. CASE x \in Provided
      BY <1>5, <3>1, <3>2 DEF SchedulerInv, NothingBeforeDag
    <3>3. CASE \E h \in Group : x \in Outs[h]
      <4>1. PICK h \in Group : x \in Outs[h]
        BY <3>3
      <4>2. h \in GroupsOf(c)
        BY <3>1, <4>1, DagAssumption DEF GroupsOf
      <4> QED BY <1>5, <1>6, <4>1, <4>2
    <3> QED BY <3>1, <3>2, <3>3, DagAssumption
  <2>2. CASE Owner[g] # c
    <3>1. g \in Waiting /\ x \in missing_deps[g]
      BY <1>5, <2>2 DEF Waiting
    <3>2. \/ x \in pending_files
          \/ \E h \in Waiting \cup ready_groups \cup running_groups \cup Completing : x \in Outs[h]
      BY <1>3, <3>1 DEF SchedulerInv, NoLostWakeup
    <3> QED BY <1>3, <1>5, <1>6, <3>2
  <2> QED BY <2>1, <2>2
<1>13. CallsConsistent'
  <2>1. \A v \in Calls(stack') : FrameConsistent(v)'
    BY <1>4 DEF FrameConsistent
  <2>2. HitsDistinct(stack')
    BY <1>2, FewCalls, PlainCalls
  <2>3. ChecksLast(stack')
    BY <1>2, FewCalls DEF ScheduleCachedCall, AssignJobsCall
  <2> QED BY <2>1, <2>2, <2>3 DEF CallsConsistent
<1>14. NothingBeforeDag'
  BY <1>5, <1>6 DEF SchedulerInv, NothingBeforeDag
<1> QED
  BY <1>8, <1>9, <1>10, <1>11, <1>12, <1>13, <1>14 DEF SchedulerInv

(* A worker returns a result: it is the result of the job the scheduler      *)
(* thinks the worker is doing, and the group goes from running to being      *)
(* completed, unless its client is gone.                                     *)
LEMMA WorkerResultStep ==
    ASSUME SchedulerInv, NEW w \in Worker, NEW res \in Result, HandleWorkerResult(w, res), TypeOK'
    PROVE  SchedulerInv'
<1>1. PICK g \in Group : g = current_job[w] /\ g = sent_job[w] /\ w \in connected_workers
  BY ConstTypes DEF HandleWorkerResult, SchedulerInv, WorkerJobsConsistent, TypeOK
<1>2. Completing = {} /\ FilesIn(stack) = {} /\ Calls(stack) = {}
  BY IdleView DEF HandleWorkerResult
<1>3. /\ UNCHANGED <<clients, missing_deps, ready_groups, file_handles, ready_execs,
                     gone, pending_files, dead, verdict>>
      /\ \A v \in Worker : sent_job'[v] = IF v = w THEN NoJob ELSE sent_job[v]
      /\ \A v \in Worker : current_job'[v] = IF v = w THEN NoJob ELSE current_job[v]
      /\ killed' = killed \ {w} /\ connected_workers' = connected_workers \ {w}
  BY DEF HandleWorkerResult, told, SchedulerInv, TypeOK
<1>4. Waiting' = Waiting /\ Ended' = Ended /\ Queued' = Queued
  BY <1>3 DEF Waiting, Ended, Queued
<1>5. \A x : Good(x)' <=> Good(x)
  BY <1>3 DEF Good, Produced
<1>6. ReadyQueueConsistent' /\ NothingBeforeDag'
  <2>1. ReadyQueueConsistent'
    BY <1>3, <1>4 DEF SchedulerInv, ReadyQueueConsistent
  <2>2. NothingBeforeDag'
    BY <1>3, <1>4 DEF SchedulerInv, NothingBeforeDag
  <2> QED BY <2>1, <2>2
<1>7. g # NoJob
  BY ConstTypes
<1>8. CASE Owner[g] \notin clients
  <2>1. stack' = <<AssignJobsCall, CheckCompletionCall(Owner[g])>> /\ running_groups' = running_groups
    BY <1>1, <1>7, <1>8 DEF HandleWorkerResult
  <2>2. Calls(stack') = {AssignJobsCall, CheckCompletionCall(Owner[g])}
    BY <2>1, FewCalls
  <2>3. /\ CompletingIn(stack') = {} /\ FilesIn(stack') = {}
        /\ \A v \in Calls(stack') : v.op \in {"schedule_cached", "assign_jobs", "check_completion"}
    BY <2>2, PlainStack, ConstTypes
  <2>4. g \notin running_groups /\ Completing' = {}
    BY <1>8, <2>3 DEF SchedulerInv, GroupLifecycle, Completing
  <2>5. GroupLifecycle'
    BY <1>2, <1>3, <1>4, <2>1, <2>4 DEF SchedulerInv, GroupLifecycle
  <2>6. WorkerJobsConsistent'
    <3>1. /\ \A v \in Worker : current_job'[v] = sent_job'[v]
          /\ \A v \in Worker : sent_job'[v] # NoJob => v \in connected_workers'
      BY <1>3 DEF SchedulerInv, WorkerJobsConsistent
    <3>2. ASSUME NEW k \in running_groups' PROVE \E v \in Worker : current_job'[v] = k
      BY <1>1, <1>3, <2>1, <2>4, <3>2 DEF SchedulerInv, WorkerJobsConsistent
    <3>3. ASSUME NEW v \in Worker, current_job'[v] # NoJob
          PROVE  IF Owner[current_job'[v]] \in clients'
                 THEN current_job'[v] \in running_groups' ELSE v \in killed'
      BY <1>3, <2>1, <3>3 DEF SchedulerInv, WorkerJobsConsistent
    <3>4. \A u, v \in Worker : current_job'[u] = current_job'[v] => u = v \/ current_job'[v] = NoJob
      BY <1>3 DEF SchedulerInv, WorkerJobsConsistent
    <3> QED BY <3>1, <3>2, <3>3, <3>4 DEF WorkerJobsConsistent
  <2>7. InputsAvailable'
    BY <1>2, <1>3, <1>4, <1>5, <2>1, <2>4 DEF SchedulerInv, InputsAvailable
  <2>8. NoLostWakeup'
    BY <1>2, <1>3, <1>4, <2>1, <2>4 DEF SchedulerInv, NoLostWakeup
  <2>9. CallsConsistent'
    <3>1. \A v \in Calls(stack') : FrameConsistent(v)'
      BY <2>3 DEF FrameConsistent
    <3>2. HitsDistinct(stack')
      BY <2>1, FewCalls, PlainCalls
    <3>3. ChecksLast(stack')
      BY <2>1, FewCalls DEF AssignJobsCall
    <3> QED BY <3>1, <3>2, <3>3 DEF CallsConsistent
  <2> QED BY <1>6, <2>5, <2>6, <2>7, <2>8, <2>9 DEF SchedulerInv
<1>9. CASE Owner[g] \in clients
  <2>1. PICK outs \in SUBSET Outs[g] :
           /\ res # "internal" => outs = Outs[g]
           /\ stack' = <<CompletedCall({[group |-> g, result |-> res, outputs |-> outs]}, "worker"),
                         AssignJobsCall, CheckCompletionCall(Owner[g])>>
    BY <1>1, <1>7, <1>9 DEF HandleWorkerResult
  <2>2. PICK h : h = [group |-> g, result |-> res, outputs |-> outs]
    OBVIOUS
  <2>3. PICK a : a = CompletedCall({h}, "worker")
    OBVIOUS
  <2>4. stack' = <<a, AssignJobsCall, CheckCompletionCall(Owner[g])>>
    BY <2>1, <2>2, <2>3
  <2>5. Calls(stack') = {a, AssignJobsCall, CheckCompletionCall(Owner[g])}
    <3>1. PICK b, d : b = AssignJobsCall /\ d = CheckCompletionCall(Owner[g])
      OBVIOUS
    <3>2. Calls(<<a, b, d>>) = {a, b, d}
      <4>1. /\ DOMAIN <<a, b, d>> = {1, 2, 3}
            /\ <<a, b, d>>[1] = a /\ <<a, b, d>>[2] = b /\ <<a, b, d>>[3] = d
        OBVIOUS
      <4> QED BY <4>1 DEF Calls
    <3> QED BY <2>4, <3>1, <3>2
  <2>6. /\ HitGroups(a) = {g} /\ FrameFiles(a) = {}
        /\ HitGroups(AssignJobsCall) = {} /\ FrameFiles(AssignJobsCall) = {}
        /\ HitGroups(CheckCompletionCall(Owner[g])) = {}
        /\ FrameFiles(CheckCompletionCall(Owner[g])) = {}
    <3>1. HitGroups(a) = {k.group : k \in {h}} /\ FrameFiles(a) = {}
      BY <2>3, CompletedCallView
    <3>2. h.group = g
      BY <2>2
    <3> QED BY <3>1, <3>2, PlainCalls
  <2>7. CompletingIn(stack') = {g} /\ FilesIn(stack') = {}
    BY <2>5, <2>6 DEF CompletingIn, FilesIn
  <2>8. running_groups' = running_groups \ {g} /\ g \in running_groups /\ Completing' = {g}
    <3>1. running_groups' = running_groups \ {g}
      BY <1>1, <1>7, <1>9 DEF HandleWorkerResult
    <3>2. g \in running_groups
      BY <1>1, <1>7, <1>9 DEF SchedulerInv, WorkerJobsConsistent
    <3> QED BY <2>7, <3>1, <3>2 DEF Completing
  <2>9. GroupLifecycle'
    BY <1>2, <1>3, <1>4, <1>9, <2>8 DEF SchedulerInv, GroupLifecycle
  <2>10. WorkerJobsConsistent'
    <3>1. /\ \A v \in Worker : current_job'[v] = sent_job'[v]
          /\ \A v \in Worker : sent_job'[v] # NoJob => v \in connected_workers'
      BY <1>3 DEF SchedulerInv, WorkerJobsConsistent
    <3>2. ASSUME NEW k \in running_groups' PROVE \E v \in Worker : current_job'[v] = k
      BY <1>1, <1>3, <2>8, <3>2 DEF SchedulerInv, WorkerJobsConsistent
    <3>3. ASSUME NEW v \in Worker, current_job'[v] # NoJob
          PROVE  IF Owner[current_job'[v]] \in clients'
                 THEN current_job'[v] \in running_groups' ELSE v \in killed'
      BY <1>1, <1>3, <2>8, <3>3 DEF SchedulerInv, WorkerJobsConsistent
    <3>4. \A u, v \in Worker : current_job'[u] = current_job'[v] => u = v \/ current_job'[v] = NoJob
      BY <1>3 DEF SchedulerInv, WorkerJobsConsistent
    <3> QED BY <3>1, <3>2, <3>3, <3>4 DEF WorkerJobsConsistent
  <2>11. InputsAvailable'
    BY <1>2, <1>3, <1>4, <1>5, <2>8 DEF SchedulerInv, InputsAvailable
  <2>12. NoLostWakeup'
    <3>1. (Waiting \cup ready_groups \cup running_groups \cup Completing)'
              = Waiting \cup ready_groups \cup running_groups \cup Completing
      BY <1>2, <1>3, <1>4, <2>8
    <3> QED BY <1>2, <1>3, <1>4, <3>1 DEF SchedulerInv, NoLostWakeup
  <2>13. CallsConsistent'
    <3>1. FrameConsistent(a)'
      <4>1. h.result = "ok" => h.outputs = Outs[h.group]
        BY <2>1, <2>2
      <4> QED BY <2>3, <4>1 DEF FrameConsistent, CompletedCall
    <3>2. FrameConsistent(AssignJobsCall)' /\ FrameConsistent(CheckCompletionCall(Owner[g]))'
      BY DEF FrameConsistent, AssignJobsCall, CheckCompletionCall
    <3>3. HitsDistinct(stack')
      BY <2>4, <2>6, FewCalls
    <3>4. a.op # "check_completion" /\ AssignJobsCall.op # "check_completion"
      BY <2>3 DEF CompletedCall, AssignJobsCall
    <3>5. ChecksLast(stack')
      BY <2>4, <3>4, FewCalls
    <3> QED BY <2>5, <3>1, <3>2, <3>3, <3>5 DEF CallsConsistent
  <2> QED BY <1>6, <2>9, <2>10, <2>11, <2>12, <2>13 DEF SchedulerInv
<1> QED BY <1>8, <1>9

(* A worker dies: its job goes back to the queue with one entry, unless the  *)
(* client of the job is gone.                                                *)
LEMMA WorkerDisconnectedStep ==
    ASSUME SchedulerInv, NEW w \in Worker, HandleWorkerDisconnected(w), TypeOK'
    PROVE  SchedulerInv'
<1>1. Completing = {} /\ FilesIn(stack) = {} /\ Calls(stack) = {} /\ stack' = stack
  BY IdleView DEF HandleWorkerDisconnected
<1>2. PICK S \in SUBSET Group : S = Rescheduled(w)
  BY DEF Rescheduled
<1>3. /\ UNCHANGED <<clients, missing_deps, file_handles, gone, pending_files, verdict>>
      /\ \A v \in Worker : sent_job'[v] = IF v = w THEN NoJob ELSE sent_job[v]
      /\ \A v \in Worker : current_job'[v] = IF v = w THEN NoJob ELSE current_job[v]
      /\ killed' = killed \ {w} /\ connected_workers' = connected_workers \ {w}
      /\ ready_groups' = ready_groups \cup S
      /\ running_groups' = running_groups \ S
      /\ ready_execs' = Push(S, HighPriority)
  BY <1>2 DEF HandleWorkerDisconnected, told, SchedulerInv, TypeOK
<1>4. /\ S \subseteq running_groups
      /\ \A g \in S : current_job[w] = g
      /\ current_job[w] \in running_groups => current_job[w] \in S
  <2>1. \A g \in S : g \in Group /\ g # NoJob /\ current_job[w] = g /\ Owner[g] \in clients
    BY <1>2, ConstTypes DEF Rescheduled
  <2>2. S \subseteq running_groups
    BY <2>1 DEF SchedulerInv, WorkerJobsConsistent
  <2>3. ASSUME current_job[w] \in running_groups PROVE current_job[w] \in S
    <3>1. current_job[w] \in Group /\ current_job[w] # NoJob /\ Owner[current_job[w]] \in clients
      BY <2>3, ConstTypes DEF SchedulerInv, TypeOK, GroupLifecycle
    <3>2. w \in connected_workers
      BY <3>1 DEF SchedulerInv, WorkerJobsConsistent
    <3> QED BY <1>2, <3>1, <3>2 DEF Rescheduled
  <2> QED BY <2>1, <2>2, <2>3
<1>5. Waiting' = Waiting /\ Ended' = Ended /\ Completing' = {}
  BY <1>1, <1>3 DEF Waiting, Ended, Completing
<1>6. \A x : Good(x)' <=> Good(x)
  BY <1>3 DEF Good, Produced
<1>7. GroupLifecycle'
  BY <1>1, <1>3, <1>4, <1>5 DEF SchedulerInv, GroupLifecycle
<1>8. ReadyQueueConsistent'
  <2>1. \A e \in Entry : e[1] \in S => ready_execs[e] = 0
    BY <1>4 DEF SchedulerInv, GroupLifecycle, ReadyQueueConsistent, Queued, TypeOK
  <2>2. \A e \in Entry : ready_execs'[e] =
            IF e[1] \in S /\ e[2] = HighPriority THEN ready_execs[e] + 1 ELSE ready_execs[e]
    BY <1>3 DEF Push
  <2>3. \A g \in S : <<g, HighPriority>> \in Entry
    BY DEF Entry, DagPrio
  <2>4. \A e \in Entry : e = <<e[1], e[2]>>
    BY DEF Entry
  <2>5. Queued' = Queued \cup {e \in Entry : e[1] \in S /\ e[2] = HighPriority}
    BY <2>1, <2>2 DEF Queued, SchedulerInv, TypeOK
  <2>6. \A e \in Queued' : ready_execs'[e] = 1 /\ e[1] \in ready_groups'
    BY <1>3, <2>1, <2>2, <2>5 DEF SchedulerInv, ReadyQueueConsistent, Queued
  <2>7. \A g \in ready_groups' : \E e \in Queued' : e[1] = g
    <3>1. ASSUME NEW g \in ready_groups PROVE \E e \in Queued' : e[1] = g
      BY <2>5 DEF SchedulerInv, ReadyQueueConsistent
    <3>2. ASSUME NEW g \in S PROVE \E e \in Queued' : e[1] = g
      <4>1. <<g, HighPriority>> \in Queued' /\ <<g, HighPriority>>[1] = g
        BY <2>3, <2>5
      <4> QED BY <4>1
    <3> QED BY <1>3, <3>1, <3>2
  <2>8. \A d, e \in Queued' : d[1] = e[1] => d = e
    BY <2>1, <2>4, <2>5 DEF SchedulerInv, ReadyQueueConsistent, Queued
  <2> QED BY <2>6, <2>7, <2>8 DEF ReadyQueueConsistent
<1>9. WorkerJobsConsistent'
  <2>1. /\ \A v \in Worker : current_job'[v] = sent_job'[v]
        /\ \A v \in Worker : sent_job'[v] # NoJob => v \in connected_workers'
    BY <1>3 DEF SchedulerInv, WorkerJobsConsistent
  <2>2. ASSUME NEW k \in running_groups' PROVE \E v \in Worker : current_job'[v] = k
    <3>1. PICK v \in Worker : current_job[v] = k
      BY <1>3 DEF SchedulerInv, WorkerJobsConsistent
    <3>2. v # w
      BY <1>3, <1>4, <3>1
    <3> QED BY <1>3, <3>1, <3>2
  <2>3. ASSUME NEW v \in Worker, current_job'[v] # NoJob
        PROVE  IF Owner[current_job'[v]] \in clients'
               THEN current_job'[v] \in running_groups' ELSE v \in killed'
    <3>1. v # w /\ current_job'[v] = current_job[v]
      BY <1>3, <2>3
    <3>2. current_job[v] \notin S
      BY <1>4, <2>3, <3>1 DEF SchedulerInv, WorkerJobsConsistent
    <3>3. IF Owner[current_job[v]] \in clients
          THEN current_job[v] \in running_groups ELSE v \in killed
      BY <2>3, <3>1 DEF SchedulerInv, WorkerJobsConsistent
    <3> QED BY <1>3, <3>1, <3>2, <3>3
  <2>4. \A u, v \in Worker : current_job'[u] = current_job'[v] => u = v \/ current_job'[v] = NoJob
    BY <1>3 DEF SchedulerInv, WorkerJobsConsistent
  <2> QED BY <2>1, <2>2, <2>3, <2>4 DEF WorkerJobsConsistent
<1>10. InputsAvailable'
  BY <1>1, <1>3, <1>4, <1>5, <1>6 DEF SchedulerInv, InputsAvailable
<1>11. NoLostWakeup'
  <2>1. (Waiting \cup ready_groups \cup running_groups \cup Completing)'
            = Waiting \cup ready_groups \cup running_groups \cup Completing
    BY <1>1, <1>3, <1>4, <1>5
  <2> QED BY <1>1, <1>3, <1>5, <2>1 DEF SchedulerInv, NoLostWakeup
<1>12. CallsConsistent'
  <2>1. \A v : FrameConsistent(v)' <=> FrameConsistent(v)
    BY <1>3, <1>6 DEF FrameConsistent, Produced
  <2> QED BY <1>1, <2>1 DEF SchedulerInv, CallsConsistent
<1>13. NothingBeforeDag'
  BY <1>3, <1>5 DEF SchedulerInv, NothingBeforeDag
<1> QED
  BY <1>7, <1>8, <1>9, <1>10, <1>11, <1>12, <1>13 DEF SchedulerInv

(* A client leaves: its groups and files go, the workers that do its jobs    *)
(* are told to stop, and no group of another client used any of them.        *)
LEMMA ClientDisconnectedStep ==
    ASSUME SchedulerInv, NEW c \in Client, HandleClientDisconnected(c), TypeOK'
    PROVE  SchedulerInv'
<1>1. Completing = {} /\ FilesIn(stack) = {} /\ Calls(stack) = {} /\ stack' = stack
  BY IdleView DEF HandleClientDisconnected
<1>2. /\ UNCHANGED <<connected_workers, current_job, pending_files, dead, sent_job, verdict>>
      /\ gone' = gone \cup {c} /\ clients' = clients \ {c}
      /\ \A g \in Group : missing_deps'[g] = IF Owner[g] = c THEN {} ELSE missing_deps[g]
      /\ ready_groups' = ready_groups \ GroupsOf(c)
      /\ running_groups' = running_groups \ GroupsOf(c)
      /\ file_handles' = file_handles \ FilesOf(c)
      /\ ready_execs' = EntriesOf(clients \ {c})
      /\ killed' = killed \cup WorkersFor(c)
  BY DEF HandleClientDisconnected
<1>3. Waiting' = Waiting \ GroupsOf(c) /\ Ended' = Ended /\ Completing' = {}
  BY <1>1, <1>2 DEF Waiting, Ended, Completing, GroupsOf
<1>4. \A x : Good(x) /\ FileOwner[x] # c => Good(x)'
  BY <1>2 DEF Good, Produced, FilesOf
<1>5. /\ Queued' = {e \in Queued : e[1] \notin GroupsOf(c)}
      /\ \A e \in Queued' : ready_execs'[e] = ready_execs[e]
  <2>1. \A e \in Queued : e[1] \in Group /\ Owner[e[1]] \in clients
    BY DEF SchedulerInv, ReadyQueueConsistent, GroupLifecycle, TypeOK
  <2>2. \A e \in Entry : ready_execs'[e] =
            IF Owner[e[1]] \in clients \ {c} THEN ready_execs[e] ELSE 0
    BY <1>2 DEF EntriesOf
  <2>3. \A e \in Entry : e[1] \in GroupsOf(c) <=> Owner[e[1]] = c
    BY DEF Entry, GroupsOf
  <2> QED BY <2>1, <2>2, <2>3 DEF Queued
<1>6. GroupLifecycle'
  BY <1>1, <1>2, <1>3 DEF SchedulerInv, GroupLifecycle, GroupsOf
<1>7. ReadyQueueConsistent'
  <2>1. \A e \in Queued' : ready_execs'[e] = 1 /\ e[1] \in ready_groups'
    BY <1>2, <1>5 DEF SchedulerInv, ReadyQueueConsistent
  <2>2. ASSUME NEW g \in ready_groups' PROVE \E e \in Queued' : e[1] = g
    <3>1. PICK e \in Queued : e[1] = g
      BY <1>2 DEF SchedulerInv, ReadyQueueConsistent
    <3> QED BY <1>2, <1>5, <3>1
  <2>3. \A d, e \in Queued' : d[1] = e[1] => d = e
    BY <1>5 DEF SchedulerInv, ReadyQueueConsistent
  <2> QED BY <2>1, <2>2, <2>3 DEF ReadyQueueConsistent
<1>8. WorkerJobsConsistent'
  <2>1. ASSUME NEW v \in Worker, current_job'[v] # NoJob
        PROVE  IF Owner[current_job'[v]] \in clients'
               THEN current_job'[v] \in running_groups' ELSE v \in killed'
    <3>1. /\ current_job'[v] = current_job[v] /\ current_job[v] \in Group
          /\ v \in connected_workers
      BY <1>2, <2>1 DEF SchedulerInv, TypeOK, WorkerJobsConsistent
    <3>2. IF Owner[current_job[v]] \in clients
          THEN current_job[v] \in running_groups ELSE v \in killed
      BY <2>1, <3>1 DEF SchedulerInv, WorkerJobsConsistent
    <3> QED BY <1>2, <3>1, <3>2 DEF WorkersFor, GroupsOf
  <2>2. \A k \in running_groups' : \E v \in Worker : current_job'[v] = k
    BY <1>2 DEF SchedulerInv, WorkerJobsConsistent
  <2>3. /\ \A v \in Worker : current_job'[v] = sent_job'[v]
        /\ \A v \in Worker : sent_job'[v] # NoJob => v \in connected_workers'
        /\ \A u, v \in Worker : current_job'[u] = current_job'[v] => u = v \/ current_job'[v] = NoJob
    BY <1>2 DEF SchedulerInv, WorkerJobsConsistent
  <2> QED BY <2>1, <2>2, <2>3 DEF WorkerJobsConsistent
<1>9. \A g \in Group : g \notin GroupsOf(c) => \A x \in Deps[g] \cup Outs[g] : FileOwner[x] # c
  BY DagAssumption DEF GroupsOf
<1>10. InputsAvailable'
  <2>1. ASSUME NEW g \in (ready_groups \cup running_groups \cup Completing)', NEW x \in Deps[g]
        PROVE  Good(x)'
    <3>1. g \in ready_groups \cup running_groups /\ g \in Group /\ g \notin GroupsOf(c)
      BY <1>2, <1>3, <2>1 DEF SchedulerInv, TypeOK
    <3> QED BY <1>4, <1>9, <2>1, <3>1 DEF SchedulerInv, InputsAvailable
  <2>2. ASSUME NEW g \in Waiting', NEW x \in Deps[g] \ missing_deps'[g] PROVE Good(x)'
    <3>1. g \in Waiting /\ g \in Group /\ g \notin GroupsOf(c) /\ missing_deps'[g] = missing_deps[g]
      BY <1>2, <1>3 DEF Waiting, GroupsOf
    <3> QED BY <1>4, <1>9, <2>2, <3>1 DEF SchedulerInv, InputsAvailable
  <2>3. \A g \in Group : missing_deps'[g] \subseteq Deps[g]
    BY <1>2 DEF SchedulerInv, InputsAvailable
  <2> QED BY <2>1, <2>2, <2>3 DEF InputsAvailable
<1>11. NoLostWakeup'
  <2> SUFFICES ASSUME NEW g \in Waiting', NEW x \in missing_deps'[g]
               PROVE  \/ x \in pending_files'
                      \/ \E h \in (Waiting \cup ready_groups \cup running_groups \cup Completing)' :
                            x \in Outs[h]
    BY DEF NoLostWakeup
  <2>1. g \in Waiting /\ g \in Group /\ g \notin GroupsOf(c) /\ x \in missing_deps[g]
    BY <1>2, <1>3 DEF Waiting, GroupsOf
  <2>2. FileOwner[x] # c
    BY <1>9, <2>1 DEF SchedulerInv, InputsAvailable
  <2>3. CASE \E h \in Waiting \cup ready_groups \cup running_groups : x \in Outs[h]
    <3>1. PICK h \in Waiting \cup ready_groups \cup running_groups : x \in Outs[h]
      BY <2>3
    <3>2. h \in Group /\ h \notin GroupsOf(c)
      <4>1. h \in Group
        BY DEF SchedulerInv, TypeOK, Waiting
      <4>2. FileOwner[x] = Owner[h]
        BY <3>1, <4>1, DagAssumption
      <4> QED BY <2>2, <4>1, <4>2 DEF GroupsOf
    <3> QED BY <1>2, <1>3, <3>1, <3>2
  <2>4. CASE x \in pending_files
    BY <1>2, <2>4
  <2> QED BY <1>1, <2>1, <2>3, <2>4 DEF SchedulerInv, NoLostWakeup
<1>12. CallsConsistent'
  BY <1>1 DEF SchedulerInv, CallsConsistent
<1>13. NothingBeforeDag'
  <2>1. \A g \in Group : Owner[g] \in clients \cup gone => Owner[g] \in (clients \cup gone)'
    BY <1>2
  <2> QED BY <1>2, <1>3 DEF SchedulerInv, NothingBeforeDag
<1> QED
  BY <1>6, <1>7, <1>8, <1>10, <1>11, <1>12, <1>13 DEF SchedulerInv

-----------------------------------------------------------------------------
(* The invariant holds in every behaviour *)

(* Before the first message nothing is anywhere. *)
LEMMA InitInv == Init => SchedulerInv
<1> SUFFICES ASSUME Init PROVE SchedulerInv
  OBVIOUS
<1>1. TypeOK
  <2>1. stack \in Seq(Frame)
    BY DEF Init
  <2>2. cache \in [CacheKey -> Cached] /\ pending_files \subseteq File
    BY DagAssumption, ConfigAssumption DEF Init
  <2> QED BY <2>1, <2>2 DEF Init, TypeOK, Verdict
<1>2. /\ clients = {} /\ ready_groups = {} /\ running_groups = {} /\ gone = {}
      /\ stack = <<>> /\ pending_files = Provided
      /\ \A g \in Group : missing_deps[g] = {} /\ verdict[g] = "none"
      /\ \A e \in Entry : ready_execs[e] = 0
      /\ \A w \in Worker : current_job[w] = NoJob /\ sent_job[w] = NoJob
  BY DEF Init
<1>3. Waiting = {} /\ Ended = {} /\ Queued = {} /\ Completing = {} /\ Calls(stack) = {}
  BY <1>2, CompletingNone DEF Waiting, Ended, Queued, Completing, Calls
<1>4. GroupLifecycle /\ ReadyQueueConsistent /\ NoLostWakeup
  BY <1>2, <1>3 DEF GroupLifecycle, ReadyQueueConsistent, NoLostWakeup
<1>5. WorkerJobsConsistent /\ InputsAvailable /\ NothingBeforeDag
  BY <1>2, <1>3 DEF WorkerJobsConsistent, InputsAvailable, NothingBeforeDag
<1>6. CallsConsistent
  BY <1>2, <1>3, HitsDistinctNone DEF CallsConsistent, ChecksLast
<1> QED BY <1>1, <1>4, <1>5, <1>6 DEF SchedulerInv

(* Every step keeps the invariant, one lemma for each action. *)
LEMMA InvStep ==
    ASSUME SchedulerInv, [Next]_vars
    PROVE  SchedulerInv'
<1>1. TypeOK'
  BY TypeStep DEF SchedulerInv
<1>2. ASSUME NEW c \in Client, HandleEvaluateDAG(c) PROVE SchedulerInv'
  BY <1>1, <1>2, EvaluateDAGStep
<1>3. ASSUME NEW c \in Client, NEW f \in File, HandleFileReady(c, f) PROVE SchedulerInv'
  BY <1>1, <1>3, FileReadyStep
<1>4. ASSUME NEW w \in Worker, NEW r \in Result, HandleWorkerResult(w, r) PROVE SchedulerInv'
  BY <1>1, <1>4, WorkerResultStep
<1>5. ASSUME NEW w \in Worker, HandleWorkerConnected(w) PROVE SchedulerInv'
  BY <1>1, <1>5, WorkerConnectedStep
<1>6. ASSUME NEW w \in Worker, HandleWorkerDisconnected(w) PROVE SchedulerInv'
  BY <1>1, <1>6, WorkerDisconnectedStep
<1>7. ASSUME NEW c \in Client, HandleClientDisconnected(c) PROVE SchedulerInv'
  BY <1>1, <1>7, ClientDisconnectedStep
<1>8. ASSUME Exit PROVE SchedulerInv'
  BY <1>1, <1>8, SameStep DEF Exit, told
<1>9. ASSUME CheckCompletion \/ EndLoop \/ EndAssignJobs PROVE SchedulerInv'
  BY <1>1, <1>9, ReturningStep
<1>10. ASSUME NEW f \in File, FileSuccess(f) PROVE SchedulerInv'
  BY <1>1, <1>10, FileSuccessStep
<1>11. ASSUME NEW f \in File, FileFailed(f) PROVE SchedulerInv'
  BY <1>1, <1>11, FileFailedStep
<1>12. ASSUME NEW h \in PendingHits, ExecCompleted(h) PROVE SchedulerInv'
  BY <1>1, <1>12, ExecCompletedStep
<1>13. ASSUME ScheduleCached PROVE SchedulerInv'
  BY <1>1, <1>13, ScheduleCachedStep
<1>14. ASSUME NEW w \in Worker, NEW e \in Entry, AssignJob(w, e) PROVE SchedulerInv'
  BY <1>1, <1>14, AssignJobStep
<1>15. ASSUME NEW k \in CacheKey, FlushOutputs(k) PROVE SchedulerInv'
  BY <1>1, <1>15, SameStep DEF FlushOutputs, told
<1>16. ASSUME UNCHANGED vars PROVE SchedulerInv'
  BY <1>1, <1>16, SameStep DEF vars, told
<1> QED
  BY <1>2, <1>3, <1>4, <1>5, <1>6, <1>7, <1>8, <1>9, <1>10, <1>11, <1>12, <1>13,
     <1>14, <1>15, <1>16 DEF Next, Receive, Call

(* The invariant of the scheduler holds in every state it can reach. *)
THEOREM SchedulerInvariant == Spec => []SchedulerInv
<1>1. SchedulerInv /\ [Next]_vars => SchedulerInv'
  BY InvStep
<1> QED BY <1>1, InitInv, PTL DEF Spec

(* No group is lost or in two places: whatever the messages and their order, *)
(* each group of a live client waits, is ready, runs, is being completed or  *)
(* has ended, and only one of these.                                         *)
THEOREM GroupsNeverLost == Spec => []GroupLifecycle
<1>1. SchedulerInv => GroupLifecycle
  BY DEF SchedulerInv
<1> QED BY <1>1, SchedulerInvariant, PTL

(* The heap and the ready groups of the clients never disagree. *)
THEOREM QueueConsistent == Spec => []ReadyQueueConsistent
<1>1. SchedulerInv => ReadyQueueConsistent
  BY DEF SchedulerInv
<1> QED BY <1>1, SchedulerInvariant, PTL

(* A result is never attributed to the wrong job, no job runs twice at the   *)
(* same time, and the job of a client that is gone is being stopped.         *)
THEOREM JobsConsistent == Spec => []WorkerJobsConsistent
<1>1. SchedulerInv => WorkerJobsConsistent
  BY DEF SchedulerInv
<1> QED BY <1>1, SchedulerInvariant, PTL

(* No group is started before its inputs are there and good. *)
THEOREM InputsReady == Spec => []InputsAvailable
<1>1. SchedulerInv => InputsAvailable
  BY DEF SchedulerInv
<1> QED BY <1>1, SchedulerInvariant, PTL

(* No group waits for a file nobody is going to announce. *)
THEOREM WakeupsNeverLost == Spec => []NoLostWakeup
<1>1. SchedulerInv => NoLostWakeup
  BY DEF SchedulerInv
<1> QED BY <1>1, SchedulerInvariant, PTL

(* The calls pending in a handler never contradict each other. *)
THEOREM PendingCallsConsistent == Spec => []CallsConsistent
<1>1. SchedulerInv => CallsConsistent
  BY DEF SchedulerInv
<1> QED BY <1>1, SchedulerInvariant, PTL

-----------------------------------------------------------------------------
(* The scheduler implements DagEvaluation *)

(* The clients that were told, in terms of the counter. *)
LEMMA AnnouncedStep ==
    ASSUME eval_done' = eval_done
    PROVE  {c \in Client : eval_done[c] > 0}' = {c \in Client : eval_done[c] > 0}
  OBVIOUS

(* Completion is announced when nothing is left to complete, so when is_done *)
(* says that no group waits, is ready or runs, all of them have ended.       *)
LEMMA CheckAnnounces ==
    ASSUME SchedulerInv, CheckCompletion
    PROVE  [Dag!DagNext]_(Dag!dagvars)
<1>1. PICK t \in Frame, r \in Seq(Frame) :
         stack = <<t>> \o r /\ t = Head(stack) /\ r = Tail(stack)
  BY HeadTail DEF CheckCompletion, Calling, SchedulerInv, TypeOK
<1>2. t.op = "check_completion"
  BY <1>1 DEF CheckCompletion, Calling
<1>3. PICK c \in Client : c = t.client
  BY <1>2, FrameFields
<1>4. /\ eval_done' = [eval_done EXCEPT ![c] = IF c \in clients /\ IsDone(c) THEN @ + 1 ELSE @]
      /\ UNCHANGED <<clients, gone, verdict>>
  BY <1>1, <1>3 DEF CheckCompletion, sched, env
<1>5. CASE ~(c \in clients /\ IsDone(c))
  <2>1. eval_done' = eval_done
    BY <1>4, <1>5 DEF SchedulerInv, TypeOK
  <2> QED BY <1>4, <2>1, AnnouncedStep DEF Dag!dagvars
<1>6. CASE c \in clients /\ IsDone(c)
  <2>1. Completing = {}
    <3>1. \A v \in Calls(r) : v.op \in {"schedule_cached", "assign_jobs"}
      BY <1>1, <1>2, ChecksLastPush DEF SchedulerInv, CallsConsistent
    <3>2. CompletingIn(r) = {}
      BY <3>1 DEF CompletingIn, HitGroups
    <3>3. HitGroups(t) = {}
      BY <1>2 DEF HitGroups
    <3>4. CompletingIn(stack) = HitGroups(t) \cup CompletingIn(r)
      BY <1>1, PushView
    <3> QED BY <3>2, <3>3, <3>4 DEF Completing
  <2>2. \A g \in Group : Owner[g] = c => verdict[g] # "none"
    BY <1>6, <2>1 DEF SchedulerInv, GroupLifecycle, IsDone, GroupsOf, Ended
  <2>3. {x \in Client : eval_done[x] > 0}' = {x \in Client : eval_done[x] > 0} \cup {c}
    BY <1>4, <1>6 DEF SchedulerInv, TypeOK
  <2>4. Dag!Announce(c)
    BY <1>4, <1>6, <2>2, <2>3 DEF Dag!Announce
  <2> QED BY <2>4 DEF Dag!DagNext
<1> QED BY <1>5, <1>6

(* A group ends only when the groups it depends on succeeded. *)
LEMMA CompletedFinishes ==
    ASSUME SchedulerInv, NEW h \in PendingHits, ExecCompleted(h)
    PROVE  [Dag!DagNext]_(Dag!dagvars)
<1>1. PICK t \in Frame, r \in Seq(Frame) :
         stack = <<t>> \o r /\ t = Head(stack) /\ r = Tail(stack)
  BY HeadTail DEF ExecCompleted, Calling, SchedulerInv, TypeOK
<1>2. t.op = "exec_completed" /\ h \in t.hits
  BY <1>1 DEF ExecCompleted, Calling
<1>3. h \in Hit
  BY <1>2, FrameFields
<1>4. PICK g \in Group : g = h.group
  BY <1>3 DEF Hit
<1>5. h.result \in {"ok", "fail", "internal"}
  BY <1>3 DEF Hit, Result
<1>6. g \in Completing
  <2>1. g \in HitGroups(t)
    BY <1>2, <1>4 DEF HitGroups
  <2>2. CompletingIn(stack) = HitGroups(t) \cup CompletingIn(r)
    BY <1>1, PushView
  <2> QED BY <2>1, <2>2 DEF Completing
<1>7. Owner[g] \in clients /\ verdict[g] = "none"
  BY <1>6 DEF SchedulerInv, GroupLifecycle, Ended
<1>8. \A k \in Dag!Producers(g) : verdict[k] = "ok"
  <2> SUFFICES ASSUME NEW k \in Group, NEW x \in Outs[k] \cap Deps[g] PROVE verdict[k] = "ok"
    BY DEF Dag!Producers
  <2>1. Good(x)
    BY <1>6 DEF SchedulerInv, InputsAvailable
  <2>2. x \notin Provided
    BY DagAssumption
  <2>3. PICK m \in Group : x \in Outs[m] /\ verdict[m] = "ok"
    BY <2>1, <2>2 DEF Good, Produced
  <2>4. m = k
    BY <2>3, DagAssumption
  <2> QED BY <2>3, <2>4
<1>9. verdict' = [verdict EXCEPT ![g] = h.result] /\ UNCHANGED <<clients, gone, eval_done>>
  BY <1>4, <1>7 DEF ExecCompleted, env
<1>10. Dag!Finish(g, h.result)
  BY <1>7, <1>8, <1>9, AnnouncedStep DEF Dag!Finish
<1> QED BY <1>5, <1>10 DEF Dag!DagNext

(* A group is skipped only when one it depends on did not succeed. *)
LEMMA FailedSkips ==
    ASSUME SchedulerInv, NEW f \in File, FileFailed(f)
    PROVE  [Dag!DagNext]_(Dag!dagvars)
<1>1. PICK t \in Frame, r \in Seq(Frame) :
         stack = <<t>> \o r /\ t = Head(stack) /\ r = Tail(stack)
  BY HeadTail DEF FileFailed, Calling, SchedulerInv, TypeOK
<1>2. t.op = "file_failed" /\ f \in t.files
  BY <1>1 DEF FileFailed, Calling
<1>3. Produced(f, {"fail", "internal", "skipped"})
  <2>1. Calls(stack) = {t} \cup Calls(r)
    BY <1>1, PushView
  <2> QED BY <1>2, <2>1 DEF SchedulerInv, CallsConsistent, FrameConsistent
<1>4. PICK k \in Group : f \in Outs[k] /\ verdict[k] \in {"fail", "internal", "skipped"}
  BY <1>3 DEF Produced
<1>5. PICK S \in SUBSET Group : S = Skipped(f)
  BY DEF Skipped, InputOf
<1>6. \A g \in S : /\ Owner[g] \in clients /\ verdict[g] = "none"
                   /\ k \in Dag!Producers(g)
  <2>1. \A g \in S : g \in Waiting /\ f \in Deps[g]
    BY <1>5 DEF Skipped, InputOf
  <2> QED BY <1>4, <2>1 DEF SchedulerInv, GroupLifecycle, Ended, Dag!Producers
<1>7. /\ verdict' = [g \in Group |-> IF g \in S THEN "skipped" ELSE verdict[g]]
      /\ UNCHANGED <<clients, gone, eval_done>>
  BY <1>5 DEF FileFailed, env
<1>8. Dag!Skip(S)
  BY <1>4, <1>6, <1>7, AnnouncedStep DEF Dag!Skip
<1> QED BY <1>8 DEF Dag!DagNext

(* The DAG of a client is accepted once, and a client leaves once. *)
LEMMA ClientSteps ==
    ASSUME SchedulerInv, NEW c \in Client,
           HandleEvaluateDAG(c) \/ HandleClientDisconnected(c)
    PROVE  [Dag!DagNext]_(Dag!dagvars)
<1>1. CASE HandleEvaluateDAG(c)
  <2>1. /\ c \notin clients \cup gone /\ clients' = clients \cup {c}
        /\ UNCHANGED <<gone, verdict, eval_done>>
    BY <1>1 DEF HandleEvaluateDAG, env, told
  <2>2. Dag!Submit(c)
    BY <2>1, AnnouncedStep DEF Dag!Submit
  <2> QED BY <2>2 DEF Dag!DagNext
<1>2. CASE HandleClientDisconnected(c)
  <2>1. /\ c \notin gone /\ clients' = clients \ {c} /\ gone' = gone \cup {c}
        /\ UNCHANGED verdict
        /\ eval_done' = [eval_done EXCEPT ![c] = IF c \in clients /\ ~IsDone(c) THEN @ + 1 ELSE @]
    BY <1>2 DEF HandleClientDisconnected
  <2>2. \/ {x \in Client : eval_done[x] > 0}' = {x \in Client : eval_done[x] > 0}
        \/ {x \in Client : eval_done[x] > 0}' = {x \in Client : eval_done[x] > 0} \cup {c}
    BY <2>1 DEF SchedulerInv, TypeOK
  <2>3. Dag!Leave(c)
    BY <2>1, <2>2 DEF Dag!Leave
  <2> QED BY <2>3 DEF Dag!DagNext
<1> QED BY <1>1, <1>2

(* The scheduler keeps its promise to the clients: every step of it is a     *)
(* step of DagEvaluation or changes nothing a client can tell.               *)
THEOREM Refinement == Spec => ImplementsDagEvaluation
<1>1. Init => Dag!DagInit
  BY DEF Init, Dag!DagInit
<1>2. SchedulerInv /\ [Next]_vars => [Dag!DagNext]_(Dag!dagvars)
  <2> SUFFICES ASSUME SchedulerInv, [Next]_vars PROVE [Dag!DagNext]_(Dag!dagvars)
    OBVIOUS
  <2>1. ASSUME UNCHANGED <<clients, gone, verdict, eval_done>>
        PROVE  [Dag!DagNext]_(Dag!dagvars)
    BY <2>1, AnnouncedStep DEF Dag!dagvars
  <2>2. ASSUME NEW c \in Client, HandleEvaluateDAG(c) \/ HandleClientDisconnected(c)
        PROVE  [Dag!DagNext]_(Dag!dagvars)
    BY <2>2, ClientSteps
  <2>3. ASSUME NEW c \in Client, NEW f \in File, HandleFileReady(c, f)
        PROVE  [Dag!DagNext]_(Dag!dagvars)
    BY <2>1, <2>3 DEF HandleFileReady, told
  <2>4. ASSUME NEW w \in Worker, NEW r \in Result, HandleWorkerResult(w, r)
        PROVE  [Dag!DagNext]_(Dag!dagvars)
    BY <2>1, <2>4 DEF HandleWorkerResult, told
  <2>5. ASSUME NEW w \in Worker, HandleWorkerConnected(w) \/ HandleWorkerDisconnected(w)
        PROVE  [Dag!DagNext]_(Dag!dagvars)
    BY <2>1, <2>5 DEF HandleWorkerConnected, HandleWorkerDisconnected, env, told
  <2>6. ASSUME CheckCompletion PROVE [Dag!DagNext]_(Dag!dagvars)
    BY <2>6, CheckAnnounces
  <2>7. ASSUME NEW f \in File, FileSuccess(f) PROVE [Dag!DagNext]_(Dag!dagvars)
    BY <2>1, <2>7 DEF FileSuccess, env
  <2>8. ASSUME NEW f \in File, FileFailed(f) PROVE [Dag!DagNext]_(Dag!dagvars)
    BY <2>8, FailedSkips
  <2>9. ASSUME NEW h \in PendingHits, ExecCompleted(h) PROVE [Dag!DagNext]_(Dag!dagvars)
    BY <2>9, CompletedFinishes
  <2>10. ASSUME NEW w \in Worker, NEW e \in Entry, AssignJob(w, e)
         PROVE  [Dag!DagNext]_(Dag!dagvars)
    BY <2>1, <2>10 DEF AssignJob, told
  <2>11. ASSUME EndLoop \/ ScheduleCached \/ EndAssignJobs \/ Exit
         PROVE  [Dag!DagNext]_(Dag!dagvars)
    BY <2>1, <2>11 DEF EndLoop, ScheduleCached, EndAssignJobs, Exit, sched, env, told
  <2>12. ASSUME NEW k \in CacheKey, FlushOutputs(k) PROVE [Dag!DagNext]_(Dag!dagvars)
    BY <2>1, <2>12 DEF FlushOutputs, sched, env, told
  <2>13. ASSUME UNCHANGED vars PROVE [Dag!DagNext]_(Dag!dagvars)
    BY <2>1, <2>13 DEF vars, sched, env, told
  <2> QED
    BY <2>2, <2>3, <2>4, <2>5, <2>6, <2>7, <2>8, <2>9, <2>10, <2>11, <2>12, <2>13
       DEF Next, Receive, Call
<1> QED
  BY <1>1, <1>2, SchedulerInvariant, PTL DEF Spec, ImplementsDagEvaluation, Dag!DagSpec


-----------------------------------------------------------------------------
(* What the clients are told *)

(* A file is announced by one of the pending calls only, and was not sent        *)
(* before; a file that will be announced later, by the client or by the group    *)
(* that produces it, is not announced yet.                                       *)
FilesDistinct(s) == \A i, j \in DOMAIN s : i # j => FrameFiles(s[i]) \cap FrameFiles(s[j]) = {}
Untold(f) == sent_files[f] = 0 /\ f \notin FilesIn(stack)
FilesOnce ==
    /\ FilesDistinct(stack)
    /\ \A f \in FilesIn(stack) : sent_files[f] = 0
    /\ \A f \in pending_files : Untold(f)
    /\ \A g \in Group \ Ended : \A f \in Outs[g] : Untold(f)

(* A group that was executed has all of its outputs, and their handles are kept  *)
(* as long as its client is there: send_file finds them.                         *)
Executed(f) == Produced(f, {"ok", "fail"})
HitsHaveOutputs(t) ==
    t.op = "exec_completed" =>
        \A h \in t.hits : h.result \in {"ok", "fail"} => h.outputs = Outs[h.group]
OutputsKept ==
    /\ \A t \in Calls(stack) : HitsHaveOutputs(t)
    /\ \A f \in File : FileOwner[f] \in clients /\ Executed(f) => f \in file_handles

(* So each watched file that was produced is sent, or a pending call will do it. *)
FilesReported ==
    \A f \in WatchedFiles : FileOwner[f] \in clients /\ Executed(f) =>
        sent_files[f] = 1 \/ f \in FilesIn(stack)

(* The evaluation is announced when everything of it has ended. *)
AnnouncedLast ==
    \A c \in Client : eval_done[c] > 0 =>
        /\ c \in clients \cup gone
        /\ c \in clients =>
            /\ \A g \in GroupsOf(c) : g \in Ended
            /\ \A f \in FilesOf(c) \cap WatchedFiles : Executed(f) => sent_files[f] = 1

ReportsInv == ReportedOnce /\ FilesOnce /\ OutputsKept /\ FilesReported /\ AnnouncedLast

(* The files announced by a stack, in terms of its top. *)
LEMMA FilesPush ==
    ASSUME NEW t \in Frame, NEW r \in Seq(Frame)
    PROVE  FilesDistinct(<<t>> \o r) <=>
              FilesDistinct(r) /\ FrameFiles(t) \cap FilesIn(r) = {}
<1> DEFINE s == <<t>> \o r
<1>1. /\ s \in Seq(Frame) /\ 1 \in DOMAIN s /\ s[1] = t
      /\ DOMAIN r \subseteq Nat \ {0} /\ DOMAIN s \subseteq Nat \ {0}
      /\ \A i \in DOMAIN r : i + 1 \in DOMAIN s /\ s[i + 1] = r[i]
      /\ \A i \in DOMAIN s : i # 1 => i - 1 \in DOMAIN r /\ s[i] = r[i - 1]
  OBVIOUS
<1> HIDE DEF s
<1>2. ASSUME FilesDistinct(s), NEW i \in DOMAIN r, NEW j \in DOMAIN r, i # j
      PROVE  FrameFiles(r[i]) \cap FrameFiles(r[j]) = {}
  <2>1. i + 1 # j + 1
    BY <1>1, <1>2
  <2> QED BY <1>1, <1>2, <2>1 DEF FilesDistinct
<1>3. ASSUME FilesDistinct(s), NEW j \in DOMAIN r
      PROVE  FrameFiles(t) \cap FrameFiles(r[j]) = {}
  <2>1. 1 # j + 1
    BY <1>1
  <2> QED BY <1>1, <1>3, <2>1 DEF FilesDistinct
<1>4. ASSUME FilesDistinct(r), FrameFiles(t) \cap FilesIn(r) = {},
             NEW i \in DOMAIN s, NEW j \in DOMAIN s, i # j
      PROVE  FrameFiles(s[i]) \cap FrameFiles(s[j]) = {}
  <2>0. \A k \in DOMAIN r : FrameFiles(t) \cap FrameFiles(r[k]) = {}
    BY <1>4 DEF FilesIn, Calls
  <2>1. CASE i = 1
    BY <1>1, <1>4, <2>0, <2>1
  <2>2. CASE j = 1
    BY <1>1, <1>4, <2>0, <2>2
  <2>3. CASE i # 1 /\ j # 1
    <3>1. i - 1 \in DOMAIN r /\ s[i] = r[i - 1] /\ j - 1 \in DOMAIN r /\ s[j] = r[j - 1] /\ i - 1 # j - 1
      BY <1>1, <1>4, <2>3
    <3> QED BY <1>4, <3>1 DEF FilesDistinct
  <2> QED BY <2>1, <2>2, <2>3
<1>5. FilesDistinct(s) => FilesDistinct(r)
  BY <1>2 DEF FilesDistinct
<1>6. FilesDistinct(s) => FrameFiles(t) \cap FilesIn(r) = {}
  BY <1>3 DEF FilesIn, Calls
<1>7. FilesDistinct(r) /\ FrameFiles(t) \cap FilesIn(r) = {} => FilesDistinct(s)
  BY <1>4 DEF FilesDistinct
<1> QED BY <1>5, <1>6, <1>7 DEF s

(* No calls, or a few of which only the first announces files. *)
LEMMA FewFiles ==
    ASSUME NEW a, NEW b, NEW c
    PROVE  /\ FilesDistinct(<<>>) /\ FilesDistinct(<<a>>)
           /\ FrameFiles(b) = {} => FilesDistinct(<<a, b>>)
           /\ FrameFiles(b) = {} /\ FrameFiles(c) = {} => FilesDistinct(<<a, b, c>>)
<1>1. /\ DOMAIN <<a>> = {1} /\ DOMAIN <<a, b>> = {1, 2} /\ DOMAIN <<a, b, c>> = {1, 2, 3}
      /\ <<a>>[1] = a /\ <<a, b>>[1] = a /\ <<a, b>>[2] = b
      /\ <<a, b, c>>[1] = a /\ <<a, b, c>>[2] = b /\ <<a, b, c>>[3] = c
  OBVIOUS
<1>2. FilesDistinct(<<>>)
  BY DEF FilesDistinct
<1>3. FilesDistinct(<<a>>)
  BY <1>1 DEF FilesDistinct
<1>4. FrameFiles(b) = {} => FilesDistinct(<<a, b>>)
  BY <1>1 DEF FilesDistinct
<1>5. FrameFiles(b) = {} /\ FrameFiles(c) = {} => FilesDistinct(<<a, b, c>>)
  BY <1>1 DEF FilesDistinct
<1> QED BY <1>2, <1>3, <1>4, <1>5

(* The calls at the end of file_success announce nothing. *)
LEMMA WakeCallsFiles ==
    ASSUME NEW f, NEW n \in Seq(Frame), FilesDistinct(n)
    PROVE  /\ FilesDistinct(WakeCalls(f) \o n) /\ FilesIn(WakeCalls(f) \o n) = FilesIn(n)
           /\ Calls(WakeCalls(f) \o n) \subseteq {ScheduleCachedCall, AssignJobsCall} \cup Calls(n)
<1>1. CASE WakeCalls(f) = <<>>
  <2>1. <<>> \o n = n
    BY ConcatEmptySeq
  <2> QED BY <1>1, <2>1
<1>2. CASE WakeCalls(f) = <<ScheduleCachedCall, AssignJobsCall>>
  <2>1. ScheduleCachedCall \in Frame /\ AssignJobsCall \in Frame
    BY CallTypes
  <2>2. /\ <<ScheduleCachedCall>> \in Seq(Frame) /\ <<AssignJobsCall>> \in Seq(Frame)
        /\ <<AssignJobsCall>> \o n \in Seq(Frame)
    BY <2>1
  <2>3. WakeCalls(f) \o n = <<ScheduleCachedCall>> \o (<<AssignJobsCall>> \o n)
    BY <1>2, <2>1, <2>2, TwoCalls, ConcatAssociative
  <2>4. FrameFiles(ScheduleCachedCall) = {} /\ FrameFiles(AssignJobsCall) = {}
    BY PlainCalls
  <2>5. /\ FilesDistinct(<<AssignJobsCall>> \o n) /\ FilesIn(<<AssignJobsCall>> \o n) = FilesIn(n)
        /\ Calls(<<AssignJobsCall>> \o n) = {AssignJobsCall} \cup Calls(n)
    <3>1. FilesDistinct(<<AssignJobsCall>> \o n)
      BY <2>1, <2>4, FilesPush
    <3>2. FilesIn(<<AssignJobsCall>> \o n) = FrameFiles(AssignJobsCall) \cup FilesIn(n)
      BY <2>1, PushView
    <3>3. Calls(<<AssignJobsCall>> \o n) = {AssignJobsCall} \cup Calls(n)
      BY <2>1, PushView
    <3> QED BY <2>4, <3>1, <3>2, <3>3
  <2> DEFINE m == <<AssignJobsCall>> \o n
  <2>6. m \in Seq(Frame)
    BY <2>2
  <2> HIDE DEF m
  <2>7. /\ FilesDistinct(<<ScheduleCachedCall>> \o m) <=> FilesDistinct(m)
        /\ FilesIn(<<ScheduleCachedCall>> \o m) = FilesIn(m)
        /\ Calls(<<ScheduleCachedCall>> \o m) = {ScheduleCachedCall} \cup Calls(m)
    <3>1. FilesDistinct(<<ScheduleCachedCall>> \o m) <=> FilesDistinct(m)
      <4>1. FilesDistinct(<<ScheduleCachedCall>> \o m) <=>
                FilesDistinct(m) /\ FrameFiles(ScheduleCachedCall) \cap FilesIn(m) = {}
        BY <2>1, <2>6, FilesPush
      <4> QED BY <2>4, <4>1
    <3>2. FilesIn(<<ScheduleCachedCall>> \o m) = FrameFiles(ScheduleCachedCall) \cup FilesIn(m)
      BY <2>1, <2>6, PushView
    <3>3. Calls(<<ScheduleCachedCall>> \o m) = {ScheduleCachedCall} \cup Calls(m)
      BY <2>1, <2>6, PushView
    <3> QED BY <2>4, <3>1, <3>2, <3>3
  <2> QED BY <2>3, <2>5, <2>7 DEF m
<1> QED BY <1>1, <1>2 DEF WakeCalls

(* Calls other than exec_completed have no outputs. *)
LEMMA PlainHits ==
    /\ HitsHaveOutputs(ScheduleCachedCall) /\ HitsHaveOutputs(AssignJobsCall)
    /\ \A c : HitsHaveOutputs(CheckCompletionCall(c))
    /\ \A op \in {"file_success", "file_failed"} : \A c, S : HitsHaveOutputs(FilesCall(op, c, S))
  BY DEF HitsHaveOutputs, ScheduleCachedCall, AssignJobsCall, CheckCompletionCall, FilesCall

(* Steps that tell the clients nothing. *)
LEMMA QuietStep ==
    ASSUME ReportsInv,
           UNCHANGED <<clients, gone, file_handles, verdict, notified, sent_files, eval_done,
                       pending_files>>,
           FilesIn(stack') = FilesIn(stack), FilesDistinct(stack'),
           \A t \in Calls(stack') : HitsHaveOutputs(t)
    PROVE  ReportsInv'
<1>1. Ended' = Ended /\ \A f : Executed(f)' <=> Executed(f)
  BY DEF Ended, Executed, Produced
<1>2. ReportedOnce'
  BY <1>1 DEF ReportsInv, ReportedOnce
<1>3. FilesOnce'
  BY <1>1 DEF ReportsInv, FilesOnce, Untold
<1>4. OutputsKept'
  BY <1>1 DEF ReportsInv, OutputsKept, HitsHaveOutputs
<1>5. FilesReported'
  BY <1>1 DEF ReportsInv, FilesReported
<1>6. AnnouncedLast'
  BY <1>1 DEF ReportsInv, AnnouncedLast
<1> QED BY <1>2, <1>3, <1>4, <1>5, <1>6 DEF ReportsInv

(* A call that announces no file returns. *)
LEMMA ReturnReports ==
    ASSUME SchedulerInv, ReportsInv, EndLoop \/ EndAssignJobs PROVE ReportsInv'
<1>1. PICK t \in Frame, r \in Seq(Frame) :
         stack = <<t>> \o r /\ t = Head(stack) /\ r = Tail(stack)
  BY HeadTail DEF EndLoop, EndAssignJobs, Calling, SchedulerInv, TypeOK
<1>2. FrameFiles(t) = {}
  BY <1>1 DEF EndLoop, EndAssignJobs, Calling, FrameFiles
<1>3. stack' = r /\ UNCHANGED <<clients, gone, file_handles, verdict, notified, sent_files,
                                eval_done, pending_files>>
  BY <1>1 DEF EndLoop, EndAssignJobs, sched, env, told
<1>4. FilesIn(stack) = FrameFiles(t) \cup FilesIn(r) /\ Calls(stack) = {t} \cup Calls(r)
  BY <1>1, PushView
<1>5. FilesDistinct(r)
  BY <1>1, FilesPush DEF ReportsInv, FilesOnce
<1>6. \A v \in Calls(r) : HitsHaveOutputs(v)
  BY <1>4 DEF ReportsInv, OutputsKept
<1>7. FilesIn(stack') = FilesIn(stack)
  BY <1>2, <1>3, <1>4
<1> QED BY <1>3, <1>5, <1>6, <1>7, QuietStep

(* A job is assigned, and what leaves the calls alone. *)
LEMMA SameStackReports ==
    ASSUME ReportsInv, UNCHANGED <<stack, clients, gone, file_handles, verdict, notified,
                                   sent_files, eval_done, pending_files>>
    PROVE  ReportsInv'
<1>1. FilesDistinct(stack) /\ \A t \in Calls(stack) : HitsHaveOutputs(t)
  BY DEF ReportsInv, FilesOnce, OutputsKept
<1> QED BY <1>1, QuietStep

(* The groups with a cached result have the outputs that were cached. *)
LEMMA CachedReports == ASSUME SchedulerInv, ReportsInv, ScheduleCached PROVE ReportsInv'
<1>1. PICK t \in Frame, r \in Seq(Frame) :
         stack = <<t>> \o r /\ t = Head(stack) /\ r = Tail(stack)
  BY HeadTail DEF ScheduleCached, Calling, SchedulerInv, TypeOK
<1>2. FrameFiles(t) = {}
  BY <1>1 DEF ScheduleCached, Calling, FrameFiles
<1>3. PICK H : stack' = <<CompletedCall({[group |-> g, result |-> cache[KeyOf[g]], outputs |-> Outs[g]] : g \in H}, "cache")>> \o r
               /\ H \subseteq Group /\ \A g \in H : cache[KeyOf[g]] # "none"
  <2> DEFINE H == {g \in Group : /\ \E e \in Queued : e[1] = g
                                 /\ Owner[g] \in clients
                                 /\ CacheHit(g)}
  <2>1. H \subseteq Group /\ \A g \in H : cache[KeyOf[g]] # "none"
    BY DEF CacheHit
  <2>2. stack' = <<CompletedCall({[group |-> g, result |-> cache[KeyOf[g]], outputs |-> Outs[g]] : g \in H}, "cache")>> \o r
    BY <1>1 DEF ScheduleCached
  <2> HIDE DEF H
  <2> QED BY <2>1, <2>2
<1> DEFINE S == {[group |-> g, result |-> cache[KeyOf[g]], outputs |-> Outs[g]] : g \in H}
           u == CompletedCall(S, "cache")
<1>4. u \in Frame
  <2>1. S \in SUBSET Hit
    <3>1. \A g \in H : cache[KeyOf[g]] \in Result /\ Outs[g] \in SUBSET File
      BY <1>3, ConstTypes DEF SchedulerInv, TypeOK, Cached, Result
    <3> QED BY <1>3, <3>1 DEF Hit
  <2> HIDE DEF S
  <2> QED BY <2>1, CallTypes
<1>5. HitsHaveOutputs(u)
  BY DEF HitsHaveOutputs, CompletedCall
<1>6. FrameFiles(u) = {}
  BY CompletedCallView
<1>a. stack' = <<u>> \o r
  BY <1>3
<1> HIDE DEF u
<1>7. FilesIn(stack) = FrameFiles(t) \cup FilesIn(r) /\ Calls(stack) = {t} \cup Calls(r)
  BY <1>1, PushView
<1>8. FilesIn(stack') = FrameFiles(u) \cup FilesIn(r) /\ Calls(stack') = {u} \cup Calls(r)
  BY <1>a, <1>4, PushView
<1>9. FilesDistinct(r)
  BY <1>1, FilesPush DEF ReportsInv, FilesOnce
<1>10. FilesDistinct(stack')
  <2>1. FilesDistinct(<<u>> \o r) <=> FilesDistinct(r) /\ FrameFiles(u) \cap FilesIn(r) = {}
    BY <1>4, FilesPush
  <2> QED BY <1>a, <1>6, <1>9, <2>1
<1>11. \A v \in Calls(stack') : HitsHaveOutputs(v)
  BY <1>5, <1>7, <1>8 DEF ReportsInv, OutputsKept
<1>12. UNCHANGED <<clients, gone, file_handles, verdict, notified, sent_files, eval_done, pending_files>>
  BY DEF ScheduleCached, env, told
<1>13. FilesIn(stack') = FilesIn(stack)
  BY <1>2, <1>6, <1>7, <1>8
<1> QED BY <1>10, <1>11, <1>12, <1>13, QuietStep

(* A worker returns a result: with all the outputs, if the job was executed. *)
LEMMA WorkerReports ==
    ASSUME SchedulerInv, ReportsInv, NEW w \in Worker,
           (\E x \in Result : HandleWorkerResult(w, x)) \/ HandleWorkerConnected(w) \/ HandleWorkerDisconnected(w)
    PROVE  ReportsInv'
<1>1. /\ UNCHANGED <<clients, gone, file_handles, verdict, notified, sent_files, eval_done, pending_files>>
      /\ Idle
  BY DEF HandleWorkerResult, HandleWorkerConnected, HandleWorkerDisconnected, env, told
<1>2. stack = <<>> /\ FilesIn(stack) = {}
  BY <1>1, IdleView
<1>3. CASE stack' = stack
  BY <1>1, <1>3, SameStackReports
<1>4. CASE stack' = <<AssignJobsCall>>
  <2>1. Calls(stack') = {AssignJobsCall} /\ FilesDistinct(stack')
    BY <1>4, FewCalls, FewFiles
  <2>2. FilesIn(stack') = {}
    BY <2>1, PlainCalls DEF FilesIn
  <2> QED BY <1>1, <1>2, <2>1, <2>2, PlainHits, QuietStep
<1>5. ASSUME NEW c \in Client, stack' = <<AssignJobsCall, CheckCompletionCall(c)>>
      PROVE  ReportsInv'
  <2>1. Calls(stack') = {AssignJobsCall, CheckCompletionCall(c)}
    BY <1>5, FewCalls
  <2>2. FilesDistinct(stack')
    BY <1>5, FewFiles, PlainCalls
  <2>3. FilesIn(stack') = {}
    BY <2>1, PlainCalls DEF FilesIn
  <2> QED BY <1>1, <1>2, <2>1, <2>2, <2>3, PlainHits, QuietStep
<1>6. ASSUME NEW g \in Group, NEW x \in Result, NEW outs, x \in {"ok", "fail"} => outs = Outs[g],
             stack' = <<CompletedCall({[group |-> g, result |-> x, outputs |-> outs]}, "worker"),
                        AssignJobsCall, CheckCompletionCall(Owner[g])>>
      PROVE  ReportsInv'
  <2> DEFINE u == CompletedCall({[group |-> g, result |-> x, outputs |-> outs]}, "worker")
  <2>1. HitsHaveOutputs(u)
    BY <1>6 DEF HitsHaveOutputs, CompletedCall
  <2>2. FrameFiles(u) = {}
    BY CompletedCallView
  <2> HIDE DEF u
  <2>3. stack' = <<u, AssignJobsCall, CheckCompletionCall(Owner[g])>>
    BY <1>6 DEF u
  <2>4. Calls(stack') = {u, AssignJobsCall, CheckCompletionCall(Owner[g])}
    <3>1. PICK b, c : b = AssignJobsCall /\ c = CheckCompletionCall(Owner[g])
      OBVIOUS
    <3>2. PICK s : s = <<u, b, c>>
      OBVIOUS
    <3>3. DOMAIN s = {1, 2, 3} /\ s[1] = u /\ s[2] = b /\ s[3] = c
      BY <3>2
    <3>4. Calls(s) = {u, b, c}
      BY <3>3 DEF Calls
    <3> QED BY <2>3, <3>1, <3>2, <3>4
  <2>5. FilesDistinct(stack')
    <3>1. FrameFiles(AssignJobsCall) = {} /\ FrameFiles(CheckCompletionCall(Owner[g])) = {}
      BY PlainCalls
    <3>2. FilesDistinct(<<u, AssignJobsCall, CheckCompletionCall(Owner[g])>>)
      BY <3>1, FewFiles
    <3> QED BY <2>3, <3>2
  <2>6. FilesIn(stack') = {}
    BY <2>2, <2>4, PlainCalls DEF FilesIn
  <2> QED BY <1>1, <1>2, <2>1, <2>4, <2>5, <2>6, PlainHits, QuietStep
<1>7. ASSUME NEW x \in Result, HandleWorkerResult(w, x) PROVE ReportsInv'
  <2>1. CASE w \notin connected_workers \/ current_job[w] = NoJob
    BY <1>3, <1>7, <2>1 DEF HandleWorkerResult
  <2>2. CASE ~(w \notin connected_workers \/ current_job[w] = NoJob)
    <3>1. PICK g \in Group : g = current_job[w]
      BY <2>2 DEF SchedulerInv, TypeOK
    <3>2. sent_job[w] = g /\ Owner[g] \in Client
      BY <3>1, ConstTypes DEF SchedulerInv, WorkerJobsConsistent
    <3>3. CASE Owner[g] \notin clients
      BY <1>5, <1>7, <2>2, <3>1, <3>2, <3>3 DEF HandleWorkerResult
    <3>4. CASE Owner[g] \in clients
      <4>1. PICK outs \in (IF x = "internal" THEN SUBSET Outs[sent_job[w]] ELSE {Outs[sent_job[w]]}) :
                 stack' = <<CompletedCall({[group |-> g, result |-> x, outputs |-> outs]}, "worker"),
                            AssignJobsCall, CheckCompletionCall(Owner[g])>>
        BY <1>7, <2>2, <3>1, <3>4 DEF HandleWorkerResult
      <4>2. x \in {"ok", "fail"} => outs = Outs[g]
        BY <3>2, <4>1
      <4> QED BY <1>6, <4>1, <4>2
    <3> QED BY <3>3, <3>4
  <2> QED BY <2>1, <2>2
<1>8. CASE HandleWorkerConnected(w)
  BY <1>4, <1>8 DEF HandleWorkerConnected
<1>9. CASE HandleWorkerDisconnected(w)
  BY <1>3, <1>9 DEF HandleWorkerDisconnected
<1> QED BY <1>7, <1>8, <1>9

(* A file is sent, by file_success or by file_failed: once, since it was still  *)
(* to be announced; the outputs of the groups skipped with it come next.        *)
LEMMA SendReports ==
    ASSUME SchedulerInv, ReportsInv, NEW f \in File, f \in FilesIn(stack),
           NEW S \in SUBSET Waiting, SendFile(f),
           UNCHANGED <<clients, gone, file_handles, eval_done, pending_files>>,
           \A g \in Group : verdict'[g] = IF g \in S THEN "skipped" ELSE verdict[g],
           \A g \in Group : notified'[g] = IF g \in S \cap WatchedGroups
                                           THEN notified[g] + 1 ELSE notified[g],
           FilesIn(stack') = FailedFiles(S) \cup (FilesIn(stack) \ {f}),
           FilesDistinct(stack'),
           \A t \in Calls(stack') : HitsHaveOutputs(t)
    PROVE  ReportsInv'
<1>1. S \subseteq Group /\ S \cap Ended = {}
  BY DEF SchedulerInv, GroupLifecycle, Waiting
<1>2. Ended' = Ended \cup S
  BY <1>1 DEF Ended
<1>3. \A x : Executed(x)' <=> Executed(x)
  BY <1>1 DEF Executed, Produced, Ended
<1>4. /\ sent_files[f] = 0
      /\ sent_files'[f] = IF FileOwner[f] \in clients /\ f \in WatchedFiles \cap file_handles
                          THEN 1 ELSE 0
      /\ \A x \in File : x # f => sent_files'[x] = sent_files[x]
  <2>1. sent_files[f] = 0
    BY DEF ReportsInv, FilesOnce
  <2> QED BY <2>1 DEF SendFile, SchedulerInv, TypeOK
<1>5. ReportedOnce'
  <2>1. \A x \in File : sent_files'[x] \leq 1
    BY <1>4 DEF ReportsInv, ReportedOnce
  <2>2. ASSUME NEW g \in Group
        PROVE  notified'[g] = IF g \in WatchedGroups \cap Ended' THEN 1 ELSE 0
    <3>1. notified[g] = IF g \in WatchedGroups \cap Ended THEN 1 ELSE 0
      BY DEF ReportsInv, ReportedOnce
    <3> QED BY <1>1, <1>2, <3>1
  <2> QED BY <2>1, <2>2 DEF ReportedOnce
<1>6. \A g \in Group \ Ended : \A x \in Outs[g] : x \in File /\ sent_files[x] = 0 /\ x \notin FilesIn(stack) /\ x # f
  BY ConstTypes DEF ReportsInv, FilesOnce, Untold
<1>7. \A x \in pending_files : x \in File /\ x \in Provided /\ sent_files[x] = 0 /\ x \notin FilesIn(stack) /\ x # f
  BY ConstTypes DEF ReportsInv, FilesOnce, Untold, SchedulerInv, NothingBeforeDag, TypeOK
<1>8. FilesOnce'
  <2>1. ASSUME NEW x \in FilesIn(stack') PROVE sent_files'[x] = 0
    <3>1. CASE x \in FailedFiles(S)
      BY <1>1, <1>4, <1>6, <3>1 DEF FailedFiles
    <3>2. CASE x \in FilesIn(stack) \ {f}
      <4>1. sent_files[x] = 0
        BY <3>2 DEF ReportsInv, FilesOnce
      <4>2. CASE x \in File
        BY <1>4, <3>2, <4>1, <4>2
      <4>3. CASE x \notin File
        <5>1. \A v \in Frame : FrameFiles(v) \subseteq File
          BY FrameFields DEF FrameFiles
        <5>2. \A v \in Calls(stack) : v \in Frame
          BY DEF Calls, SchedulerInv, TypeOK
        <5>3. FilesIn(stack) \subseteq File
          BY <5>1, <5>2 DEF FilesIn
        <5> QED BY <3>2, <4>3, <5>3
      <4> QED BY <4>2, <4>3
    <3> QED BY <3>1, <3>2
  <2>2. ASSUME NEW x \in pending_files PROVE Untold(x)'
    <3>1. x \notin FailedFiles(S)
      BY <1>1, <1>7, DagAssumption DEF FailedFiles
    <3> QED BY <1>4, <1>7, <3>1 DEF Untold
  <2>3. ASSUME NEW g \in Group \ Ended', NEW x \in Outs[g] PROVE Untold(x)'
    <3>1. g \notin Ended /\ g \notin S
      BY <1>2
    <3>2. x \notin FailedFiles(S)
      BY <1>1, <3>1, DagAssumption DEF FailedFiles
    <3> QED BY <1>4, <1>6, <3>1, <3>2 DEF Untold
  <2> QED BY <2>1, <2>2, <2>3 DEF FilesOnce
<1>9. OutputsKept'
  BY <1>3 DEF ReportsInv, OutputsKept, HitsHaveOutputs
<1>10. FilesReported'
  <2> SUFFICES ASSUME NEW x \in WatchedFiles, FileOwner[x] \in clients, Executed(x)
               PROVE  sent_files'[x] = 1 \/ x \in FilesIn(stack')
    BY <1>3 DEF FilesReported
  <2>1. x \in File
    BY ConfigAssumption
  <2>2. sent_files[x] = 1 \/ x \in FilesIn(stack)
    BY DEF ReportsInv, FilesReported
  <2>3. x \in file_handles
    BY <2>1 DEF ReportsInv, OutputsKept
  <2> QED BY <1>4, <2>1, <2>2, <2>3
<1>11. AnnouncedLast'
  <2> SUFFICES ASSUME NEW c \in Client, eval_done[c] > 0
               PROVE  /\ c \in clients \cup gone
                      /\ c \in clients =>
                          /\ \A g \in GroupsOf(c) : g \in Ended'
                          /\ \A x \in FilesOf(c) \cap WatchedFiles :
                                Executed(x) => sent_files'[x] = 1
    BY <1>3 DEF AnnouncedLast
  <2>1. /\ c \in clients \cup gone
        /\ c \in clients =>
              /\ \A g \in GroupsOf(c) : g \in Ended
              /\ \A x \in FilesOf(c) \cap WatchedFiles : Executed(x) => sent_files[x] = 1
    BY DEF ReportsInv, AnnouncedLast
  <2> QED BY <1>2, <1>4, <2>1 DEF FilesOf
<1> QED BY <1>5, <1>8, <1>9, <1>10, <1>11 DEF ReportsInv

(* file_success sends its file. *)
LEMMA SuccessReports ==
    ASSUME SchedulerInv, ReportsInv, NEW f \in File, FileSuccess(f) PROVE ReportsInv'
<1>1. PICK t \in Frame, r \in Seq(Frame) :
         stack = <<t>> \o r /\ t = Head(stack) /\ r = Tail(stack)
  BY HeadTail DEF FileSuccess, Calling, SchedulerInv, TypeOK
<1>2. t.op = "file_success" /\ f \in t.files /\ FrameFiles(t) = t.files
  BY <1>1 DEF FileSuccess, Calling, FrameFiles
<1>3. t.client \in Client /\ t.files \in SUBSET File
  BY <1>2, FrameFields
<1>4. PICK u \in Frame : u = FilesCall("file_success", t.client, t.files \ {f})
  BY <1>3, CallTypes
<1>5. FrameFiles(u) = t.files \ {f} /\ HitsHaveOutputs(u)
  BY <1>4, FilesCallView, PlainHits
<1>6. PICK q \in Seq(Frame) : q = <<u>> \o r
  BY PushView
<1>7. stack' = WakeCalls(f) \o q
  BY <1>1, <1>4, <1>6 DEF FileSuccess
<1>8. FilesIn(stack) = t.files \cup FilesIn(r) /\ Calls(stack) = {t} \cup Calls(r)
  <2>1. FilesIn(stack) = FrameFiles(t) \cup FilesIn(r) /\ Calls(stack) = {t} \cup Calls(r)
    BY <1>1, PushView
  <2> QED BY <1>2, <2>1
<1>9. FilesIn(q) = (t.files \ {f}) \cup FilesIn(r) /\ Calls(q) = {u} \cup Calls(r)
  BY <1>5, <1>6, PushView
<1>10. FilesDistinct(r) /\ t.files \cap FilesIn(r) = {}
  BY <1>1, <1>2, FilesPush DEF ReportsInv, FilesOnce
<1>11. FilesDistinct(q)
  <2>1. FilesDistinct(q) <=> FilesDistinct(r) /\ FrameFiles(u) \cap FilesIn(r) = {}
    BY <1>6, FilesPush
  <2> QED BY <1>5, <1>10, <2>1
<1>12. /\ FilesDistinct(stack') /\ FilesIn(stack') = FilesIn(q)
       /\ Calls(stack') \subseteq {ScheduleCachedCall, AssignJobsCall} \cup Calls(q)
  BY <1>7, <1>11, WakeCallsFiles
<1>13. \A v \in Calls(stack') : HitsHaveOutputs(v)
  BY <1>5, <1>8, <1>9, <1>12, PlainHits DEF ReportsInv, OutputsKept
<1>14. FilesIn(stack') = FailedFiles({}) \cup (FilesIn(stack) \ {f})
  <2>1. FailedFiles({}) = {}
    BY DEF FailedFiles
  <2> QED BY <1>2, <1>8, <1>9, <1>10, <1>12, <2>1
<1>15. /\ SendFile(f)
       /\ UNCHANGED <<clients, gone, file_handles, eval_done, pending_files, verdict, notified>>
  BY DEF FileSuccess, env
<1>16. PICK S \in SUBSET Waiting : S = {}
  OBVIOUS
<1>17. f \in FilesIn(stack)
  BY <1>2, <1>8
<1>18. /\ \A g \in Group : verdict'[g] = IF g \in S THEN "skipped" ELSE verdict[g]
       /\ \A g \in Group : notified'[g] = IF g \in S \cap WatchedGroups
                                          THEN notified[g] + 1 ELSE notified[g]
  BY <1>15, <1>16
<1> QED BY <1>12, <1>13, <1>14, <1>15, <1>16, <1>17, <1>18, SendReports

(* file_failed sends its file too, if there is one, and skips the groups that   *)
(* wait for it.                                                                 *)
LEMMA FailedReports ==
    ASSUME SchedulerInv, ReportsInv, NEW f \in File, FileFailed(f) PROVE ReportsInv'
<1>1. PICK t \in Frame, r \in Seq(Frame) :
         stack = <<t>> \o r /\ t = Head(stack) /\ r = Tail(stack)
  BY HeadTail DEF FileFailed, Calling, SchedulerInv, TypeOK
<1>2. t.op = "file_failed" /\ f \in t.files /\ FrameFiles(t) = t.files
  BY <1>1 DEF FileFailed, Calling, FrameFiles
<1>3. t.client \in Client /\ t.files \in SUBSET File /\ FailedFiles(Skipped(f)) \in SUBSET File
  BY <1>2, FrameFields, ConstTypes DEF FailedFiles, Skipped, InputOf
<1>4. PICK S \in SUBSET Waiting : S = Skipped(f)
  BY DEF Skipped
<1>5. PICK u \in Frame : u = FilesCall("file_failed", t.client, t.files \ {f})
  BY <1>3, CallTypes
<1>6. PICK a \in Frame : a = FilesCall("file_failed", t.client, FailedFiles(S))
  BY <1>3, <1>4, CallTypes
<1>7. PICK q \in Seq(Frame) : q = <<u>> \o r
  BY PushView
<1>8. stack' = <<a>> \o q
  BY <1>1, <1>4, <1>5, <1>6, <1>7 DEF FileFailed
<1>9. /\ FrameFiles(u) = t.files \ {f} /\ HitsHaveOutputs(u)
      /\ FrameFiles(a) = FailedFiles(S) /\ HitsHaveOutputs(a)
  BY <1>5, <1>6, FilesCallView, PlainHits
<1>10. FilesIn(stack) = t.files \cup FilesIn(r) /\ Calls(stack) = {t} \cup Calls(r)
  <2>1. FilesIn(stack) = FrameFiles(t) \cup FilesIn(r) /\ Calls(stack) = {t} \cup Calls(r)
    BY <1>1, PushView
  <2> QED BY <1>2, <2>1
<1>11. FilesIn(q) = (t.files \ {f}) \cup FilesIn(r) /\ Calls(q) = {u} \cup Calls(r)
  BY <1>7, <1>9, PushView
<1>12. FilesIn(stack') = FailedFiles(S) \cup FilesIn(q) /\ Calls(stack') = {a} \cup Calls(q)
  BY <1>8, <1>9, PushView
<1>13. FilesDistinct(r) /\ t.files \cap FilesIn(r) = {}
  BY <1>1, <1>2, FilesPush DEF ReportsInv, FilesOnce
<1>14. FilesDistinct(q)
  <2>1. FilesDistinct(q) <=> FilesDistinct(r) /\ FrameFiles(u) \cap FilesIn(r) = {}
    BY <1>7, FilesPush
  <2> QED BY <1>9, <1>13, <2>1
<1>15. FilesDistinct(stack')
  <2>1. FilesDistinct(<<a>> \o q) <=> FilesDistinct(q) /\ FrameFiles(a) \cap FilesIn(q) = {}
    BY FilesPush
  <2>2. \A g \in S : g \in Group \ Ended
    BY DEF SchedulerInv, GroupLifecycle, Waiting
  <2>3. FailedFiles(S) \cap FilesIn(stack) = {}
    BY <2>2 DEF FailedFiles, ReportsInv, FilesOnce, Untold
  <2> QED BY <1>8, <1>9, <1>10, <1>11, <1>14, <2>1, <2>3
<1>16. \A v \in Calls(stack') : HitsHaveOutputs(v)
  BY <1>9, <1>10, <1>11, <1>12 DEF ReportsInv, OutputsKept
<1>17. FilesIn(stack') = FailedFiles(S) \cup (FilesIn(stack) \ {f}) /\ f \in FilesIn(stack)
  BY <1>2, <1>10, <1>11, <1>12, <1>13
<1>18. /\ SendFile(f)
       /\ UNCHANGED <<clients, gone, file_handles, eval_done, pending_files>>
       /\ \A g \in Group : verdict'[g] = IF g \in S THEN "skipped" ELSE verdict[g]
       /\ \A g \in Group : notified'[g] = IF g \in S \cap WatchedGroups
                                          THEN notified[g] + 1 ELSE notified[g]
  BY <1>4 DEF FileFailed, env
<1> QED BY <1>15, <1>16, <1>17, <1>18, SendReports

(* exec_completed reports its group, which had not ended, and its outputs are   *)
(* going to be announced: none of them was before.                              *)
LEMMA CompletedReports ==
    ASSUME SchedulerInv, ReportsInv, NEW h \in PendingHits, ExecCompleted(h) PROVE ReportsInv'
<1>1. PICK t \in Frame, r \in Seq(Frame) :
         stack = <<t>> \o r /\ t = Head(stack) /\ r = Tail(stack)
  BY HeadTail DEF ExecCompleted, Calling, SchedulerInv, TypeOK
<1>2. t.op = "exec_completed" /\ h \in t.hits /\ FrameFiles(t) = {}
  BY <1>1 DEF ExecCompleted, Calling, FrameFiles
<1>3. h \in Hit /\ t.hits \in SUBSET Hit /\ t.from \in {"worker", "cache"}
  BY <1>2, FrameFields
<1>4. PICK g \in Group : g = h.group
  BY <1>3 DEF Hit
<1>5. h.result \in Result /\ OutputsCall(h.result) \in {"file_success", "file_failed"}
  BY <1>3 DEF Hit, OutputsCall
<1>6. PICK u \in Frame : u = CompletedCall(t.hits \ {h}, t.from)
  BY <1>3, CallTypes
<1>7. PICK a \in Frame : a = FilesCall(OutputsCall(h.result), Owner[g], Outs[g])
  BY <1>5, ConstTypes, CallTypes
<1>8. PICK b \in Frame : b = ScheduleCachedCall
  BY CallTypes
<1>9. PICK q \in Seq(Frame) : q = <<u>> \o r
  BY PushView
<1>10. PICK p \in Seq(Frame) : p = <<b>> \o q
  BY PushView
<1>11. FrameFiles(u) = {} /\ FrameFiles(a) = Outs[g] /\ FrameFiles(b) = {}
  <2>1. FrameFiles(u) = {}
    BY <1>6, CompletedCallView
  <2>2. FrameFiles(a) = Outs[g]
    BY <1>5, <1>7, FilesCallView
  <2>3. FrameFiles(b) = {}
    BY <1>8, PlainCalls
  <2> QED BY <2>1, <2>2, <2>3
<1>12. /\ FilesIn(stack) = FrameFiles(t) \cup FilesIn(r)
       /\ Calls(stack) = {t} \cup Calls(r)
       /\ CompletingIn(stack) = HitGroups(t) \cup CompletingIn(r)
  BY <1>1, PushView
<1>13. g \notin Ended /\ Owner[g] \in clients
  <2>1. g \in HitGroups(t)
    BY <1>2, <1>4 DEF HitGroups
  <2> QED BY <1>12, <2>1 DEF SchedulerInv, GroupLifecycle, Completing
<1>14. stack' = <<a>> \o p
  <2>1. stack' = <<a, b>> \o q
    BY <1>1, <1>4, <1>6, <1>7, <1>8, <1>9, <1>13 DEF ExecCompleted
  <2>2. <<a, b>> = <<a>> \o <<b>>
    BY TwoCalls
  <2>3. (<<a>> \o <<b>>) \o q = <<a>> \o (<<b>> \o q)
    BY ConcatAssociative
  <2> QED BY <1>10, <2>1, <2>2, <2>3
<1>15. /\ FilesIn(q) = FrameFiles(u) \cup FilesIn(r)
       /\ Calls(q) = {u} \cup Calls(r)
       /\ FilesDistinct(q) <=> FilesDistinct(r) /\ FrameFiles(u) \cap FilesIn(r) = {}
  BY <1>9, PushView, FilesPush
<1>16. /\ FilesIn(p) = FrameFiles(b) \cup FilesIn(q)
       /\ Calls(p) = {b} \cup Calls(q)
       /\ FilesDistinct(p) <=> FilesDistinct(q) /\ FrameFiles(b) \cap FilesIn(q) = {}
  BY <1>10, PushView, FilesPush
<1>17. /\ FilesIn(stack') = FrameFiles(a) \cup FilesIn(p)
       /\ Calls(stack') = {a} \cup Calls(p)
       /\ FilesDistinct(stack') <=> FilesDistinct(p) /\ FrameFiles(a) \cap FilesIn(p) = {}
  BY <1>14, PushView, FilesPush
<1>18. FilesIn(stack') = Outs[g] \cup FilesIn(stack) /\ FilesIn(p) = FilesIn(stack)
  BY <1>2, <1>11, <1>12, <1>15, <1>16, <1>17
<1>19. \A x \in Outs[g] : sent_files[x] = 0 /\ x \notin FilesIn(stack)
  BY <1>13 DEF ReportsInv, FilesOnce, Untold
<1>20. FilesDistinct(stack')
  <2>1. FilesDistinct(r)
    BY <1>1, FilesPush DEF ReportsInv, FilesOnce
  <2>2. FilesDistinct(p)
    BY <1>11, <1>15, <1>16, <2>1
  <2>3. FrameFiles(a) \cap FilesIn(p) = {}
    BY <1>11, <1>18, <1>19
  <2> QED BY <1>17, <2>2, <2>3
<1>21. \A v \in Calls(stack') : HitsHaveOutputs(v)
  <2>1. \A v \in Calls(stack) : HitsHaveOutputs(v)
    BY DEF ReportsInv, OutputsKept
  <2>2. HitsHaveOutputs(u)
    BY <1>2, <1>6, <1>12, <2>1 DEF HitsHaveOutputs, CompletedCall
  <2>3. HitsHaveOutputs(a) /\ HitsHaveOutputs(b)
    BY <1>5, <1>7, <1>8, PlainHits
  <2> QED BY <1>12, <1>15, <1>16, <1>17, <2>1, <2>2, <2>3
<1>22. /\ UNCHANGED <<clients, gone, pending_files, sent_files, eval_done>>
       /\ \A k \in Group : verdict'[k] = IF k = g THEN h.result ELSE verdict[k]
       /\ \A k \in Group : notified'[k] = IF k = g /\ k \in WatchedGroups
                                          THEN notified[k] + 1 ELSE notified[k]
       /\ file_handles' = file_handles \cup h.outputs
  BY <1>4, <1>13 DEF ExecCompleted, env, SchedulerInv, TypeOK
<1>23. Ended' = Ended \cup {g}
  BY <1>5, <1>22 DEF Ended, Result
<1>24. \A x : Executed(x)' => \/ Executed(x)
                              \/ x \in Outs[g] /\ h.result \in {"ok", "fail"}
  BY <1>22 DEF Executed, Produced
<1>25. h.result \in {"ok", "fail"} => h.outputs = Outs[g]
  BY <1>2, <1>4, <1>12 DEF ReportsInv, OutputsKept, HitsHaveOutputs
<1>26. ReportedOnce'
  <2>1. \A x \in File : sent_files'[x] \leq 1
    BY <1>22 DEF ReportsInv, ReportedOnce
  <2>2. ASSUME NEW k \in Group
        PROVE  notified'[k] = IF k \in WatchedGroups \cap Ended' THEN 1 ELSE 0
    <3>1. notified[k] = IF k \in WatchedGroups \cap Ended THEN 1 ELSE 0
      BY DEF ReportsInv, ReportedOnce
    <3> QED BY <1>13, <1>22, <1>23, <3>1
  <2> QED BY <2>1, <2>2 DEF ReportedOnce
<1>27. FilesOnce'
  <2>1. \A x \in FilesIn(stack') : sent_files'[x] = 0
    BY <1>18, <1>19, <1>22 DEF ReportsInv, FilesOnce
  <2>2. ASSUME NEW x \in pending_files' PROVE Untold(x)'
    <3>1. x \notin Outs[g]
      BY <1>22, DagAssumption DEF SchedulerInv, NothingBeforeDag
    <3>2. Untold(x)
      BY <1>22 DEF ReportsInv, FilesOnce
    <3> QED BY <1>18, <1>22, <3>1, <3>2 DEF Untold
  <2>3. ASSUME NEW k \in Group \ Ended', NEW x \in Outs[k] PROVE Untold(x)'
    <3>1. k # g /\ k \notin Ended
      BY <1>23
    <3>2. x \notin Outs[g]
      BY <3>1, DagAssumption
    <3>3. Untold(x)
      BY <3>1 DEF ReportsInv, FilesOnce
    <3> QED BY <1>18, <1>22, <3>2, <3>3 DEF Untold
  <2> QED BY <1>20, <2>1, <2>2, <2>3 DEF FilesOnce
<1>28. OutputsKept'
  <2>1. ASSUME NEW x \in File, FileOwner[x] \in clients, Executed(x)' PROVE x \in file_handles'
    BY <1>22, <1>24, <1>25, <2>1 DEF ReportsInv, OutputsKept
  <2> QED BY <1>21, <1>22, <2>1 DEF OutputsKept, HitsHaveOutputs
<1>29. FilesReported'
  BY <1>18, <1>22, <1>24 DEF ReportsInv, FilesReported
<1>30. AnnouncedLast'
  <2> SUFFICES ASSUME NEW c \in Client, eval_done[c] > 0
               PROVE  /\ c \in clients \cup gone
                      /\ c \in clients =>
                          /\ \A k \in GroupsOf(c) : k \in Ended'
                          /\ \A x \in FilesOf(c) \cap WatchedFiles :
                                Executed(x)' => sent_files[x] = 1
    BY <1>22 DEF AnnouncedLast
  <2>1. /\ c \in clients \cup gone
        /\ c \in clients =>
              /\ \A k \in GroupsOf(c) : k \in Ended
              /\ \A x \in FilesOf(c) \cap WatchedFiles : Executed(x) => sent_files[x] = 1
    BY DEF ReportsInv, AnnouncedLast
  <2>2. c \in clients => Owner[g] # c
    BY <1>13, <2>1 DEF GroupsOf
  <2>3. \A x \in Outs[g] : FileOwner[x] = Owner[g]
    BY DagAssumption
  <2> QED BY <1>23, <1>24, <2>1, <2>2, <2>3 DEF FilesOf
<1> QED BY <1>26, <1>27, <1>28, <1>29, <1>30 DEF ReportsInv

(* The end of the evaluation is announced when all the groups of the client     *)
(* have ended and no call that sends a file is pending.                         *)
LEMMA CheckReports == ASSUME SchedulerInv, ReportsInv, CheckCompletion PROVE ReportsInv'
<1>1. PICK t \in Frame, r \in Seq(Frame) :
         stack = <<t>> \o r /\ t = Head(stack) /\ r = Tail(stack)
  BY HeadTail DEF CheckCompletion, Calling, SchedulerInv, TypeOK
<1>2. t.op = "check_completion"
  BY <1>1 DEF CheckCompletion, Calling
<1>3. PICK c \in Client : c = t.client
  BY <1>2, FrameFields
<1>4. /\ eval_done' = [eval_done EXCEPT ![c] = IF c \in clients /\ IsDone(c) THEN @ + 1 ELSE @]
      /\ stack' = r
      /\ UNCHANGED <<clients, gone, file_handles, verdict, notified, sent_files, pending_files>>
  BY <1>1, <1>3 DEF CheckCompletion, sched, env
<1>5. /\ CompletingIn(stack) = HitGroups(t) \cup CompletingIn(r)
      /\ FilesIn(stack) = FrameFiles(t) \cup FilesIn(r)
      /\ Calls(stack) = {t} \cup Calls(r)
  BY <1>1, PushView
<1>6. HitGroups(t) = {} /\ FrameFiles(t) = {}
  BY <1>2 DEF HitGroups, FrameFiles
<1>7. \A v \in Calls(r) : v.op \in {"schedule_cached", "assign_jobs"}
  BY <1>1, <1>2, ChecksLastPush DEF SchedulerInv, CallsConsistent
<1>8. CompletingIn(r) = {} /\ FilesIn(r) = {}
  BY <1>7 DEF CompletingIn, HitGroups, FilesIn, FrameFiles
<1>9. Completing = {} /\ FilesIn(stack) = {} /\ FilesIn(stack') = {}
  BY <1>4, <1>5, <1>6, <1>8 DEF Completing
<1>10. Ended' = Ended /\ \A f : Executed(f)' <=> Executed(f)
  BY <1>4 DEF Ended, Executed, Produced
<1>11. ReportedOnce'
  BY <1>4, <1>10 DEF ReportsInv, ReportedOnce
<1>12. FilesOnce'
  <2>1. FilesDistinct(stack')
    BY <1>1, <1>4, FilesPush DEF ReportsInv, FilesOnce
  <2> QED BY <1>4, <1>9, <1>10, <2>1 DEF ReportsInv, FilesOnce, Untold
<1>13. OutputsKept'
  BY <1>4, <1>5, <1>10 DEF ReportsInv, OutputsKept, HitsHaveOutputs
<1>14. FilesReported'
  BY <1>4, <1>9, <1>10 DEF ReportsInv, FilesReported
<1>15. AnnouncedLast'
  <2> SUFFICES ASSUME NEW d \in Client, eval_done'[d] > 0
               PROVE  /\ d \in clients \cup gone
                      /\ d \in clients =>
                          /\ \A g \in GroupsOf(d) : g \in Ended
                          /\ \A f \in FilesOf(d) \cap WatchedFiles :
                                Executed(f) => sent_files[f] = 1
    BY <1>4, <1>10 DEF AnnouncedLast
  <2>1. CASE eval_done[d] > 0
    BY <2>1 DEF ReportsInv, AnnouncedLast
  <2>2. CASE ~(eval_done[d] > 0)
    <3>1. d = c /\ c \in clients /\ IsDone(c)
      BY <1>4, <2>2 DEF SchedulerInv, TypeOK
    <3>2. \A g \in GroupsOf(c) : g \in Ended
      BY <1>9, <3>1 DEF SchedulerInv, GroupLifecycle, IsDone, GroupsOf
    <3>3. \A f \in FilesOf(c) \cap WatchedFiles : Executed(f) => sent_files[f] = 1
      BY <1>9, <3>1 DEF ReportsInv, FilesReported, FilesOf
    <3> QED BY <3>1, <3>2, <3>3
  <2> QED BY <2>1, <2>2
<1> QED BY <1>11, <1>12, <1>13, <1>14, <1>15 DEF ReportsInv

(* A client that sends its DAG has been told nothing, and nothing of it ran.    *)
LEMMA EvaluateReports ==
    ASSUME SchedulerInv, ReportsInv, NEW c \in Client, HandleEvaluateDAG(c) PROVE ReportsInv'
<1>1. /\ Idle /\ c \notin clients \cup gone /\ clients' = clients \cup {c}
      /\ stack' = <<CheckCompletionCall(c), ScheduleCachedCall, AssignJobsCall>>
      /\ UNCHANGED <<gone, file_handles, pending_files, verdict, notified, sent_files, eval_done>>
  BY DEF HandleEvaluateDAG, env, told
<1>2. stack = <<>> /\ FilesIn(stack) = {}
  BY <1>1, IdleView
<1>3. Calls(stack') = {CheckCompletionCall(c), ScheduleCachedCall, AssignJobsCall}
  BY <1>1, CallsOfThree, Zenon
<1>4. FilesIn(stack') = {} /\ \A v \in Calls(stack') : HitsHaveOutputs(v)
  BY <1>3, PlainCalls, PlainHits DEF FilesIn
<1>5. FilesDistinct(stack')
  BY <1>1, FewFiles, PlainCalls
<1>6. Ended' = Ended /\ \A f : Executed(f)' <=> Executed(f)
  BY <1>1 DEF Ended, Executed, Produced
<1>7. \A f : Executed(f) => FileOwner[f] # c
  <2> SUFFICES ASSUME NEW f, Executed(f) PROVE FileOwner[f] # c
    OBVIOUS
  <2>1. PICK g \in Group : f \in Outs[g] /\ verdict[g] \in {"ok", "fail"}
    BY DEF Executed, Produced
  <2>2. FileOwner[f] = Owner[g] /\ g \in Ended
    BY <2>1, DagAssumption DEF Ended
  <2> QED BY <1>1, <2>2 DEF SchedulerInv, NothingBeforeDag
<1>8. ~(eval_done[c] > 0)
  BY <1>1 DEF ReportsInv, AnnouncedLast
<1>9. ReportedOnce'
  BY <1>1, <1>6 DEF ReportsInv, ReportedOnce
<1>10. FilesOnce'
  BY <1>1, <1>2, <1>4, <1>5, <1>6 DEF ReportsInv, FilesOnce, Untold
<1>11. OutputsKept'
  BY <1>1, <1>4, <1>6, <1>7 DEF ReportsInv, OutputsKept, HitsHaveOutputs
<1>12. FilesReported'
  BY <1>1, <1>2, <1>4, <1>6, <1>7 DEF ReportsInv, FilesReported
<1>13. AnnouncedLast'
  BY <1>1, <1>6, <1>8 DEF ReportsInv, AnnouncedLast
<1> QED BY <1>9, <1>10, <1>11, <1>12, <1>13 DEF ReportsInv

(* A provided file is announced when it arrives, and not before; no group       *)
(* produces it.                                                                 *)
LEMMA FileReadyReports ==
    ASSUME SchedulerInv, ReportsInv, NEW c \in Client, NEW f \in File, HandleFileReady(c, f)
    PROVE  ReportsInv'
<1>1. /\ Idle /\ f \in pending_files
      /\ pending_files' = pending_files \ {f} /\ file_handles' = file_handles \cup {f}
      /\ stack' = <<FilesCall("file_success", c, {f}), CheckCompletionCall(c)>>
      /\ UNCHANGED <<clients, gone, verdict, notified, sent_files, eval_done>>
  BY DEF HandleFileReady, told
<1>2. stack = <<>> /\ FilesIn(stack) = {}
  BY <1>1, IdleView
<1>3. PICK a, b : a = FilesCall("file_success", c, {f}) /\ b = CheckCompletionCall(c)
  OBVIOUS
<1>4. FrameFiles(a) = {f} /\ HitsHaveOutputs(a)
  BY <1>3, FilesCallView, PlainHits
<1>5. FrameFiles(b) = {} /\ HitsHaveOutputs(b)
  BY <1>3, PlainCalls, PlainHits
<1>6. stack' = <<a, b>>
  BY <1>1, <1>3
<1>7. Calls(stack') = {a, b}
  BY <1>6, FewCalls
<1>8. FilesDistinct(stack')
  BY <1>5, <1>6, FewFiles
<1>9. FilesIn(stack') = {f} /\ \A v \in Calls(stack') : HitsHaveOutputs(v)
  BY <1>4, <1>5, <1>7 DEF FilesIn
<1>10. Ended' = Ended /\ \A x : Executed(x)' <=> Executed(x)
  BY <1>1 DEF Ended, Executed, Produced
<1>11. sent_files[f] = 0
  BY <1>1 DEF ReportsInv, FilesOnce, Untold
<1>12. \A g \in Group : f \notin Outs[g]
  BY <1>1, DagAssumption DEF SchedulerInv, NothingBeforeDag
<1>13. ReportedOnce'
  BY <1>1, <1>10 DEF ReportsInv, ReportedOnce
<1>14. FilesOnce'
  BY <1>1, <1>2, <1>8, <1>9, <1>10, <1>11, <1>12 DEF ReportsInv, FilesOnce, Untold
<1>15. OutputsKept'
  BY <1>1, <1>9, <1>10 DEF ReportsInv, OutputsKept, HitsHaveOutputs
<1>16. FilesReported'
  BY <1>1, <1>2, <1>9, <1>10 DEF ReportsInv, FilesReported
<1>17. AnnouncedLast'
  BY <1>1, <1>10 DEF ReportsInv, AnnouncedLast
<1> QED BY <1>13, <1>14, <1>15, <1>16, <1>17 DEF ReportsInv

(* Whatever a client that leaves is told, it is not there any more. *)
LEMMA DisconnectedReports ==
    ASSUME SchedulerInv, ReportsInv, NEW c \in Client, HandleClientDisconnected(c)
    PROVE  ReportsInv'
<1>1. /\ clients' = clients \ {c} /\ gone' = gone \cup {c}
      /\ file_handles' = file_handles \ FilesOf(c)
      /\ eval_done' = [eval_done EXCEPT ![c] = IF c \in clients /\ ~IsDone(c) THEN @ + 1 ELSE @]
      /\ UNCHANGED <<stack, pending_files, verdict, notified, sent_files>>
  BY DEF HandleClientDisconnected
<1>2. Ended' = Ended /\ \A x : Executed(x)' <=> Executed(x)
  BY <1>1 DEF Ended, Executed, Produced
<1>3. \A d \in Client : d # c => eval_done'[d] = eval_done[d]
  BY <1>1 DEF SchedulerInv, TypeOK
<1>4. ReportedOnce'
  BY <1>1, <1>2 DEF ReportsInv, ReportedOnce
<1>5. FilesOnce'
  BY <1>1, <1>2 DEF ReportsInv, FilesOnce, Untold
<1>6. OutputsKept'
  BY <1>1, <1>2 DEF ReportsInv, OutputsKept, HitsHaveOutputs, FilesOf
<1>7. FilesReported'
  BY <1>1, <1>2 DEF ReportsInv, FilesReported
<1>8. AnnouncedLast'
  BY <1>1, <1>2, <1>3 DEF ReportsInv, AnnouncedLast
<1> QED BY <1>4, <1>5, <1>6, <1>7, <1>8 DEF ReportsInv

(* At the start nothing was said and nothing is pending. *)
LEMMA InitReports == Init => ReportsInv
<1> SUFFICES ASSUME Init PROVE ReportsInv
  OBVIOUS
<1>1. FilesIn(stack) = {} /\ Calls(stack) = {} /\ FilesDistinct(stack)
  BY CompletingNone, FewFiles DEF Init
<1>2. Ended = {} /\ \A f : ~Executed(f)
  BY DEF Init, Ended, Executed, Produced
<1>3. ReportedOnce
  BY <1>2 DEF Init, ReportedOnce
<1>4. FilesOnce
  BY <1>1, ConstTypes, DagAssumption DEF Init, FilesOnce, Untold
<1>5. OutputsKept /\ FilesReported /\ AnnouncedLast
  BY <1>1, <1>2 DEF Init, OutputsKept, FilesReported, AnnouncedLast
<1> QED BY <1>3, <1>4, <1>5 DEF ReportsInv

(* Each step of the scheduler keeps what is said to the clients right. *)
LEMMA ReportsStep == ASSUME SchedulerInv, ReportsInv, [Next]_vars PROVE ReportsInv'
<1>1. ASSUME NEW c \in Client, HandleEvaluateDAG(c) PROVE ReportsInv'
  BY <1>1, EvaluateReports
<1>2. ASSUME NEW c \in Client, NEW f \in File, HandleFileReady(c, f) PROVE ReportsInv'
  BY <1>2, FileReadyReports
<1>3. ASSUME NEW w \in Worker, \/ \E r \in Result : HandleWorkerResult(w, r)
                               \/ HandleWorkerConnected(w)
                               \/ HandleWorkerDisconnected(w)
      PROVE  ReportsInv'
  BY <1>3, WorkerReports
<1>4. ASSUME NEW c \in Client, HandleClientDisconnected(c) PROVE ReportsInv'
  BY <1>4, DisconnectedReports
<1>5. ASSUME CheckCompletion PROVE ReportsInv'
  BY <1>5, CheckReports
<1>6. ASSUME EndLoop \/ EndAssignJobs PROVE ReportsInv'
  BY <1>6, ReturnReports
<1>7. ASSUME NEW f \in File, FileSuccess(f) PROVE ReportsInv'
  BY <1>7, SuccessReports
<1>8. ASSUME NEW f \in File, FileFailed(f) PROVE ReportsInv'
  BY <1>8, FailedReports
<1>9. ASSUME NEW h \in PendingHits, ExecCompleted(h) PROVE ReportsInv'
  BY <1>9, CompletedReports
<1>10. ASSUME ScheduleCached PROVE ReportsInv'
  BY <1>10, CachedReports
<1>11. ASSUME NEW w \in Worker, NEW e \in Entry, AssignJob(w, e) PROVE ReportsInv'
  BY <1>11, SameStackReports DEF AssignJob, told
<1>12. ASSUME Exit \/ \E k \in CacheKey : FlushOutputs(k) PROVE ReportsInv'
  BY <1>12, SameStackReports DEF Exit, FlushOutputs, sched, env, told
<1>13. ASSUME UNCHANGED vars PROVE ReportsInv'
  BY <1>13, SameStackReports DEF vars, sched, env, told
<1> QED
  BY <1>1, <1>2, <1>3, <1>4, <1>5, <1>6, <1>7, <1>8, <1>9, <1>10, <1>11, <1>12, <1>13
     DEF Next, Receive, Call

(* Nothing is reported twice, and when a client is told that its evaluation is  *)
(* done each group and each file it asked for has been reported to it.          *)
THEOREM ReportsAreRight == Spec => []Reports
<1>1. SchedulerInv /\ ReportsInv /\ [Next]_vars => ReportsInv'
  BY ReportsStep
<1>2. SchedulerInv /\ ReportsInv => Reports
  <2> SUFFICES ASSUME SchedulerInv, ReportsInv PROVE Reports
    OBVIOUS
  <2>1. ReportedOnce
    BY DEF ReportsInv
  <2>2. ASSUME NEW c \in clients, eval_done[c] > 0
        PROVE  /\ \A g \in GroupsOf(c) \cap WatchedGroups : notified[g] = 1
               /\ \A f \in FilesOf(c) \cap WatchedFiles : Executed(f) => sent_files[f] = 1
    <3>1. c \in Client
      BY DEF SchedulerInv, TypeOK
    <3>2. /\ \A g \in GroupsOf(c) : g \in Ended
          /\ \A f \in FilesOf(c) \cap WatchedFiles : Executed(f) => sent_files[f] = 1
      BY <2>2, <3>1 DEF ReportsInv, AnnouncedLast
    <3>3. \A g \in GroupsOf(c) \cap WatchedGroups : notified[g] = 1
      BY <2>1, <3>2 DEF ReportedOnce, GroupsOf
    <3> QED BY <3>2, <3>3
  <2>3. ReportComplete
    BY <2>2 DEF ReportComplete, Executed
  <2> QED BY <2>1, <2>3 DEF Reports
<1> QED BY <1>1, <1>2, InitReports, SchedulerInvariant, PTL DEF Spec
=============================================================================
