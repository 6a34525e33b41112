------------------------ MODULE WorkerProtocolProofs ------------------------
(***************************************************************************)
(* The scheduler's view of a worker is right (ViewIsRight), whatever the      *)
(* jobs, the files and the failures: proved from an inductive invariant.      *)
(*                                                                            *)
(* The argument follows two tokens.  The worker's readiness is in one place   *)
(* at a time: a GetWork, a WorkerConnected, the scheduler, a WorkerJob, a     *)
(* Work or the job the worker is doing.  The result of a job is in one place  *)
(* at a time as well: a WorkerDone, the thread that collects its outputs or a *)
(* WorkerResult.  The two are related: as long as the result is somewhere     *)
(* the scheduler takes the worker for busy with that job.                     *)
(***************************************************************************)
EXTENDS WorkerProtocol, FiniteSetTheorems, TLAPS

Kind == {"GetWork", "AskFile", "WorkerDone", "ProvideFile", "data", "eof", "Work", "KillJob",
         "AskFiles", "Exit", "WorkerJob", "StopWorkerJob", "WorkerConnected", "WorkerResult",
         "WorkerDisconnected"}
Message == [type : Kind, job : Job \cup {NoJob}, key : Key \cup {NoKey}, files : SUBSET File]

Types ==
    /\ view \in {"absent", "free", "busy"} /\ view_job \in Job \cup {NoJob}
    /\ todo \subseteq Job /\ answered \in [Job -> Nat] /\ sched_up \in BOOLEAN
    /\ wm \in {"running", "failed", "exited"} /\ known \in BOOLEAN
    /\ wt \in {"receiving", "sending", "collecting", "storing", "ended", "failed"}
    /\ wt_job \in Job \cup {NoJob}
    /\ worker \in {"start", "receiving", "storing", "leaving", "over", "failed", "dead"}
    /\ job \in Job \cup {NoJob} /\ w_file \in Key \cup {NoKey}
    /\ asked \in {"none", "open", "filled", "dropped"}
    /\ sandbox \in {"idle", "running", "waiting", "sending", "ended"}
    /\ to_send \subseteq File
    /\ sched_in \in Seq(Message) /\ wm_in \in Seq(Message)
    /\ to_worker \in Seq(Message) /\ from_worker \in Seq(Message)

(* What a channel holds *)
Has(chan, t)     == \E n \in DOMAIN chan : chan[n].type = t
Once(chan, t)    == \A n, m \in DOMAIN chan : chan[n].type = t /\ chan[m].type = t => n = m
About(chan, t, j) == \A n \in DOMAIN chan : chan[n].type = t => chan[n].job = j

Asking    == Has(from_worker, "GetWork")
Announced == Has(sched_in, "WorkerConnected")
Given     == Has(wm_in, "WorkerJob")
Sent      == Has(to_worker, "Work")
Done      == Has(from_worker, "WorkerDone")
Collecting == wt \in {"collecting", "storing"}
Reported  == Has(sched_in, "WorkerResult")
Listed    == Has(to_worker, "AskFiles")
Lost      == Has(sched_in, "WorkerDisconnected")

Doing    == job # NoJob /\ sandbox \in {"idle", "running"}
DoneWith == job # NoJob /\ sandbox \in {"waiting", "sending"}

(* The order of the messages to the scheduler *)
Ordered(s) ==
    /\ \A n, m \in DOMAIN s : s[n].type = "WorkerResult" /\ s[m].type = "WorkerConnected" => n < m
    /\ \A n \in DOMAIN s : s[n].type = "WorkerDisconnected" => n = Len(s)

(* Each message that carries a token is there once; a result is before the       *)
(* announcement of the worker that returned it, and nothing follows the end.     *)
Channels ==
    /\ Once(from_worker, "GetWork") /\ Once(from_worker, "WorkerDone")
    /\ Once(sched_in, "WorkerConnected") /\ Once(sched_in, "WorkerResult")
    /\ Once(wm_in, "WorkerJob")
    /\ Once(to_worker, "Work") /\ Once(to_worker, "AskFiles")
    /\ Ordered(sched_in)

(* The worker is ready, or is given a job, in one place. *)
OnePlace ==
    /\ worker = "start" => ~Asking /\ ~Announced /\ view = "absent" /\ ~Given /\ ~Sent /\ job = NoJob
    /\ Asking => ~Announced /\ view # "free" /\ ~Given /\ ~Sent /\ job = NoJob
    /\ Announced => view # "free" /\ ~Given /\ ~Sent /\ job = NoJob
    /\ view = "free" => ~Given /\ ~Sent /\ job = NoJob
    /\ Given => ~Sent /\ job = NoJob
    /\ Sent => job = NoJob

(* So is the result of a job, which comes after it was done. *)
OneResult ==
    /\ Done => ~Collecting /\ ~Reported /\ ~Listed
    /\ Collecting => ~Reported
    /\ view = "free" \/ Given \/ Sent \/ Doing => ~Done /\ ~Collecting /\ ~Reported
    /\ Asking => ~Done
    /\ Announced => ~Done /\ ~Collecting

(* The sandbox thread does the job of the worker, and waits for the list of the  *)
(* outputs that the result asks for.                                             *)
SandboxInv ==
    /\ HasSandboxes => job # NoJob
    /\ missing_deps # {} => job # NoJob /\ sandbox = "idle"
    /\ sandbox = "ended" => job = NoJob
    /\ WorkerAlive /\ asked = "dropped" => worker = "leaving"
    /\ WorkerAlive /\ sandbox = "running" =>
            asked = IF worker = "leaving" THEN "dropped" ELSE "open"
    /\ WorkerAlive /\ (Done \/ Listed) =>
            IF worker = "leaving" THEN sandbox \in {"waiting", "ended"} /\ asked = "dropped"
                                  ELSE sandbox = "waiting" /\ asked = "open"

(* The scheduler takes the worker for busy from when it gives it a job to when it *)
(* reads the result, and with that job.                                           *)
Busy ==
    /\ view = "busy" <=> view_job # NoJob
    /\ Done \/ Collecting \/ Reported => view = "busy"
    /\ WorkerAlive /\ (Given \/ Sent \/ Doing) => view = "busy"
    /\ Announced /\ view = "busy" => Reported
    /\ ~ThreadOver /\ (Asking \/ DoneWith) /\ view = "busy" => Done \/ Collecting \/ Reported
    /\ About(from_worker, "WorkerDone", view_job)
    /\ Collecting => wt_job = view_job
    /\ About(sched_in, "WorkerResult", view_job)
    /\ WorkerAlive => About(wm_in, "WorkerJob", view_job) /\ About(to_worker, "Work", view_job)
    /\ WorkerAlive /\ Doing => job = view_job

(* The thread ends when the worker is gone and all it sent was read, unless the  *)
(* scheduler is not there.                                                       *)
LostLast ==
    /\ wt = "ended" /\ sched_up => from_worker = <<>> /\ ~WorkerAlive
    /\ Lost => wt = "ended" /\ from_worker = <<>> /\ ~WorkerAlive

(* A job that is still to be answered is not answered. *)
Unanswered ==
    /\ \A j \in todo : answered[j] = 0 /\ j # view_job
    /\ view_job # NoJob => answered[view_job] = 0
    /\ \A j \in Job : answered[j] \leq 1

IInv == Types /\ Channels /\ OnePlace /\ OneResult /\ SandboxInv /\ Busy /\ LostLast /\ Unanswered

-----------------------------------------------------------------------------
(* Messages and channels *)

(* The messages are messages, of the type they are made for. *)
LEMMA Messages ==
    ASSUME NEW t \in Kind
    PROVE  /\ Msg(t) \in Message /\ Msg(t).type = t
           /\ \A j \in Job \cup {NoJob} :
                JobMsg(t, j) \in Message /\ JobMsg(t, j).type = t /\ JobMsg(t, j).job = j
           /\ \A k \in Key \cup {NoKey} : KeyMsg(t, k) \in Message /\ KeyMsg(t, k).type = t
           /\ \A S \in SUBSET File : /\ [Msg(t) EXCEPT !.files = S] \in Message
                                     /\ [Msg(t) EXCEPT !.files = S].type = t
           /\ \A j \in Job \cup {NoJob}, S \in SUBSET File :
                /\ [JobMsg(t, j) EXCEPT !.files = S] \in Message
                /\ [JobMsg(t, j) EXCEPT !.files = S].type = t
                /\ [JobMsg(t, j) EXCEPT !.files = S].job = j
<1>1. Msg(t) \in Message /\ Msg(t).type = t
  BY DEF Msg, Message
<1>2. ASSUME NEW j \in Job \cup {NoJob}
      PROVE  JobMsg(t, j) \in Message /\ JobMsg(t, j).type = t /\ JobMsg(t, j).job = j
  <2>1. JobMsg(t, j) = [type |-> t, job |-> j, key |-> NoKey, files |-> {}]
    BY DEF JobMsg, Msg
  <2> QED BY <2>1 DEF Message
<1>3. ASSUME NEW k \in Key \cup {NoKey}
      PROVE  KeyMsg(t, k) \in Message /\ KeyMsg(t, k).type = t
  <2>1. KeyMsg(t, k) = [type |-> t, job |-> NoJob, key |-> k, files |-> {}]
    BY DEF KeyMsg, Msg
  <2> QED BY <2>1 DEF Message
<1>4. ASSUME NEW S \in SUBSET File
      PROVE  [Msg(t) EXCEPT !.files = S] \in Message /\ [Msg(t) EXCEPT !.files = S].type = t
  <2>1. [Msg(t) EXCEPT !.files = S] = [type |-> t, job |-> NoJob, key |-> NoKey, files |-> S]
    BY DEF Msg
  <2> QED BY <2>1 DEF Message
<1>5. ASSUME NEW j \in Job \cup {NoJob}, NEW S \in SUBSET File
      PROVE  /\ [JobMsg(t, j) EXCEPT !.files = S] \in Message
             /\ [JobMsg(t, j) EXCEPT !.files = S].type = t
             /\ [JobMsg(t, j) EXCEPT !.files = S].job = j
  <2>0. JobMsg(t, j) = [type |-> t, job |-> j, key |-> NoKey, files |-> {}]
    BY DEF JobMsg, Msg
  <2>1. [JobMsg(t, j) EXCEPT !.files = S] = [type |-> t, job |-> j, key |-> NoKey, files |-> S]
    BY <2>0
  <2> QED BY <2>1 DEF Message
<1> QED BY <1>1, <1>2, <1>3, <1>4, <1>5

(* A piece of a file is data or the end of it. *)
LEMMA PieceView == \A n : Piece(n) \in Message /\ IsRaw(Piece(n))
<1>1. /\ Msg("eof") \in Message /\ Msg("eof").type = "eof"
      /\ Msg("data") \in Message /\ Msg("data").type = "data"
  BY Messages DEF Kind
<1> QED BY <1>1 DEF Piece, IsRaw

(* A message is added at the end of a channel. *)
LEMMA Adding ==
    ASSUME NEW s \in Seq(Message), NEW m \in Message, NEW t
    PROVE  /\ Append(s, m) \in Seq(Message) /\ Append(s, m) # <<>>
           /\ Has(Append(s, m), t) <=> Has(s, t) \/ m.type = t
           /\ Once(s, t) /\ (m.type = t => ~Has(s, t)) => Once(Append(s, m), t)
           /\ \A j : About(s, t, j) /\ (m.type = t => m.job = j) => About(Append(s, m), t, j)
<1> DEFINE a == Append(s, m)
<1>1. /\ a \in Seq(Message) /\ a # <<>> /\ Len(s) \in Nat
      /\ DOMAIN s = 1..Len(s) /\ DOMAIN a = 1..(Len(s) + 1)
      /\ a[Len(s) + 1] = m /\ \A n \in DOMAIN s : a[n] = s[n]
  OBVIOUS
<1> HIDE DEF a
<1>2. \A n \in DOMAIN a : n = Len(s) + 1 \/ n \in DOMAIN s
  BY <1>1
<1>3. DOMAIN s \subseteq DOMAIN a /\ Len(s) + 1 \in DOMAIN a
  BY <1>1
<1>4. Has(a, t) <=> Has(s, t) \/ m.type = t
  BY <1>1, <1>2, <1>3 DEF Has
<1>5. Once(s, t) /\ (m.type = t => ~Has(s, t)) => Once(a, t)
  BY <1>1, <1>2 DEF Once, Has
<1>6. \A j : About(s, t, j) /\ (m.type = t => m.job = j) => About(a, t, j)
  BY <1>1, <1>2 DEF About
<1> QED BY <1>1, <1>4, <1>5, <1>6 DEF a

(* A message is taken from a channel. *)
LEMMA Taking ==
    ASSUME NEW s \in Seq(Message), s # <<>>, NEW t
    PROVE  /\ Tail(s) \in Seq(Message) /\ Head(s) \in Message
           /\ Has(Tail(s), t) => Has(s, t)
           /\ Has(s, t) => Head(s).type = t \/ Has(Tail(s), t)
           /\ Head(s).type = t => Has(s, t)
           /\ Once(s, t) => Once(Tail(s), t)
           /\ Once(s, t) /\ Head(s).type = t => ~Has(Tail(s), t)
           /\ \A j : About(s, t, j) =>
                About(Tail(s), t, j) /\ (Head(s).type = t => Head(s).job = j)
<1> DEFINE a == Tail(s)
<1>1. /\ a \in Seq(Message) /\ Head(s) \in Message /\ Len(s) \in Nat /\ Len(s) > 0
      /\ DOMAIN s = 1..Len(s) /\ DOMAIN a = 1..(Len(s) - 1)
      /\ s[1] = Head(s) /\ \A n \in DOMAIN a : a[n] = s[n + 1]
  OBVIOUS
<1> HIDE DEF a
<1>2. \A n \in DOMAIN a : n + 1 \in DOMAIN s /\ n + 1 # 1
  BY <1>1
<1>3. 1 \in DOMAIN s /\ \A n \in DOMAIN s : n = 1 \/ (n - 1 \in DOMAIN a /\ a[n - 1] = s[n])
  BY <1>1
<1>4. Has(a, t) => Has(s, t)
  BY <1>1, <1>2 DEF Has
<1>5. Has(s, t) => Head(s).type = t \/ Has(a, t)
  BY <1>1, <1>3 DEF Has
<1>6. Head(s).type = t => Has(s, t)
  BY <1>1, <1>3 DEF Has
<1>7. Once(s, t) => Once(a, t)
  <2> SUFFICES ASSUME Once(s, t), NEW n \in DOMAIN a, NEW m \in DOMAIN a,
                      a[n].type = t, a[m].type = t
               PROVE  n = m
    BY DEF Once
  <2>1. n + 1 = m + 1
    BY <1>1, <1>2 DEF Once
  <2> QED BY <1>1, <2>1
<1>8. Once(s, t) /\ Head(s).type = t => ~Has(a, t)
  BY <1>1, <1>2, <1>3 DEF Once, Has
<1>9. \A j : About(s, t, j) => About(a, t, j) /\ (Head(s).type = t => Head(s).job = j)
  BY <1>1, <1>2, <1>3 DEF About
<1> QED BY <1>1, <1>4, <1>5, <1>6, <1>7, <1>8, <1>9 DEF a

(* The order of the messages to the scheduler is kept. *)
LEMMA OrderAdding ==
    ASSUME NEW s \in Seq(Message), NEW m \in Message, Ordered(s), ~Has(s, "WorkerDisconnected"),
           m.type = "WorkerResult" => ~Has(s, "WorkerConnected")
    PROVE  Ordered(Append(s, m))
<1> DEFINE a == Append(s, m)
<1>1. /\ Len(s) \in Nat /\ Len(a) = Len(s) + 1
      /\ DOMAIN s = 1..Len(s) /\ DOMAIN a = 1..(Len(s) + 1)
      /\ a[Len(s) + 1] = m /\ \A n \in DOMAIN s : a[n] = s[n]
  OBVIOUS
<1> HIDE DEF a
<1>2. \A n \in DOMAIN a : n = Len(s) + 1 \/ n \in DOMAIN s
  BY <1>1
<1>3. ASSUME NEW n \in DOMAIN a, a[n].type = "WorkerDisconnected" PROVE n = Len(a)
  BY <1>1, <1>2, <1>3 DEF Has
<1>4. ASSUME NEW n \in DOMAIN a, NEW k \in DOMAIN a,
             a[n].type = "WorkerResult", a[k].type = "WorkerConnected"
      PROVE  n < k
  <2>1. CASE n \in DOMAIN s /\ k \in DOMAIN s
    BY <1>1, <1>4, <2>1 DEF Ordered
  <2>2. CASE k = Len(s) + 1
    BY <1>1, <1>2, <1>4, <2>2
  <2>3. CASE n = Len(s) + 1 /\ k \in DOMAIN s
    BY <1>1, <1>4, <2>3 DEF Has
  <2> QED BY <1>2, <2>1, <2>2, <2>3
<1> QED BY <1>3, <1>4 DEF Ordered, a

(* A WorkerConnected that is read comes after no result, and nothing comes after *)
(* a WorkerDisconnected.                                                         *)
LEMMA OrderTaking ==
    ASSUME NEW s \in Seq(Message), s # <<>>, Ordered(s)
    PROVE  /\ Ordered(Tail(s))
           /\ Head(s).type = "WorkerConnected" => ~Has(s, "WorkerResult")
           /\ Head(s).type = "WorkerDisconnected" => Tail(s) = <<>>
<1> DEFINE a == Tail(s)
<1>1. /\ a \in Seq(Message) /\ Len(s) \in Nat /\ Len(s) > 0 /\ Len(a) = Len(s) - 1
      /\ DOMAIN s = 1..Len(s) /\ DOMAIN a = 1..(Len(s) - 1)
      /\ s[1] = Head(s) /\ \A n \in DOMAIN a : a[n] = s[n + 1]
  OBVIOUS
<1> HIDE DEF a
<1>2. Len(a) = 0 => a = <<>>
  BY <1>1
<1>3. \A n \in DOMAIN a : n \in Nat /\ n + 1 \in DOMAIN s
  BY <1>1
<1>4. 1 \in DOMAIN s
  BY <1>1
<1>5. ASSUME NEW n \in DOMAIN a, a[n].type = "WorkerDisconnected" PROVE n = Len(a)
  <2>1. n + 1 = Len(s)
    BY <1>1, <1>3, <1>5 DEF Ordered
  <2> QED BY <1>1, <1>3, <2>1
<1>6. ASSUME NEW n \in DOMAIN a, NEW k \in DOMAIN a,
             a[n].type = "WorkerResult", a[k].type = "WorkerConnected"
      PROVE  n < k
  <2>1. n + 1 < k + 1
    BY <1>1, <1>3, <1>6 DEF Ordered
  <2> QED BY <1>3, <2>1
<1>7. Head(s).type = "WorkerConnected" => ~Has(s, "WorkerResult")
  <2> SUFFICES ASSUME s[1].type = "WorkerConnected", NEW n \in DOMAIN s,
                      s[n].type = "WorkerResult"
               PROVE  FALSE
    BY <1>1 DEF Has
  <2>1. n < 1
    BY <1>4 DEF Ordered
  <2> QED BY <1>1, <2>1
<1>8. Head(s).type = "WorkerDisconnected" => Len(s) = 1
  BY <1>1, <1>4 DEF Ordered
<1> QED BY <1>1, <1>2, <1>5, <1>6, <1>7, <1>8 DEF Ordered, a

(* The messages that carry no token *)
Token == {"GetWork", "WorkerDone", "Work", "AskFiles", "WorkerJob"}
SameTokens(s, r) ==
    \A t \in Token : /\ Has(r, t) <=> Has(s, t)
                     /\ Once(s, t) => Once(r, t)
                     /\ \A j : About(s, t, j) => About(r, t, j)

(* They leave the tokens of a channel alone. *)
LEMMA SameAdding ==
    ASSUME NEW s \in Seq(Message), NEW m \in Message, m.type \notin Token
    PROVE  SameTokens(s, Append(s, m))
<1> SUFFICES ASSUME NEW t \in Token
             PROVE  /\ Has(Append(s, m), t) <=> Has(s, t)
                    /\ Once(s, t) => Once(Append(s, m), t)
                    /\ \A j : About(s, t, j) => About(Append(s, m), t, j)
  BY DEF SameTokens
<1>1. m.type # t
  OBVIOUS
<1> QED BY <1>1, Adding

(* So does reading one of them. *)
LEMMA SameTaking ==
    ASSUME NEW s \in Seq(Message), s # <<>>, Head(s).type \notin Token
    PROVE  SameTokens(s, Tail(s))
<1> SUFFICES ASSUME NEW t \in Token
             PROVE  /\ Has(Tail(s), t) <=> Has(s, t)
                    /\ Once(s, t) => Once(Tail(s), t)
                    /\ \A j : About(s, t, j) => About(Tail(s), t, j)
  BY DEF SameTokens
<1>1. Head(s).type # t
  OBVIOUS
<1> QED BY <1>1, Taking

(* A message that is not there is about anything. *)
LEMMA Nothing == \A s, t : ~Has(s, t) => Once(s, t) /\ \A j : About(s, t, j)
  BY DEF Has, Once, About

(* A channel that is not used. *)
LEMMA SameChannel == \A s : SameTokens(s, s)
  BY DEF SameTokens

(* The requests of the missing inputs of a job are messages without a token. *)
LEMMA Requests ==
    ASSUME NEW j \in Job, NEW s \in FilesToAsk(j), NEW c \in Seq(Message)
    PROVE  /\ c \o [n \in DOMAIN s |-> KeyMsg("AskFile", s[n])] \in Seq(Message)
           /\ SameTokens(c, c \o [n \in DOMAIN s |-> KeyMsg("AskFile", s[n])])
<1> DEFINE K == MissingKeys(j)
           q == [n \in DOMAIN s |-> KeyMsg("AskFile", s[n])]
           r == c \o q
<1>1. K \subseteq Key /\ IsFiniteSet(K)
  <2>1. MissingInputs(j) \subseteq Deps[j] /\ IsFiniteSet(Deps[j]) /\ Deps[j] \subseteq File
    BY WorkerAssumption DEF MissingInputs
  <2>2. IsFiniteSet(MissingInputs(j))
    BY <2>1, FS_Subset
  <2>3. IsFiniteSet({KeyOf[i] : i \in MissingInputs(j)})
    <3> DEFINE S == MissingInputs(j)
               T == {KeyOf[i] : i \in S}
               h == [i \in S |-> KeyOf[i]]
    <3>1. h \in [S -> T] /\ \A t \in T : \E i \in S : h[i] = t
      OBVIOUS
    <3>2. h \in Surjection(S, T)
      BY <3>1 DEF Surjection
    <3> HIDE DEF S, T, h
    <3>3. IsFiniteSet(T)
      BY <2>2, <3>2, FS_Surjection DEF S
    <3> QED BY <3>3 DEF T, S
  <2>4. \A i \in MissingInputs(j) : KeyOf[i] \in Key
    BY <2>1, WorkerAssumption
  <2> QED BY <2>3, <2>4 DEF MissingKeys
<1>2. PICK l \in Nat : l = Cardinality(K)
  BY <1>1, FS_CardinalityType
<1>3. s \in [1..l -> K]
  BY <1>2 DEF FilesToAsk, Orders
<1>4. \A n \in 1..l : KeyMsg("AskFile", s[n]) \in Message /\ KeyMsg("AskFile", s[n]).type = "AskFile"
  <2>1. \A n \in 1..l : s[n] \in Key \cup {NoKey}
    BY <1>1, <1>3
  <2>2. "AskFile" \in Kind
    BY DEF Kind
  <2> QED BY <2>1, <2>2, Messages
<1>5. q \in [1..l -> Message] /\ \A n \in 1..l : q[n].type = "AskFile"
  BY <1>3, <1>4
<1>6. q \in Seq(Message) /\ Len(q) = l
  <2>1. DOMAIN q = 1..l /\ \A n \in 1..l : q[n] \in Message
    BY <1>5
  <2> HIDE DEF q
  <2> QED BY <1>2, <1>5
<1> HIDE DEF q
<1>7. /\ r \in Seq(Message) /\ Len(c) \in Nat
      /\ DOMAIN c = 1..Len(c) /\ DOMAIN r = 1..(Len(c) + l)
      /\ \A n \in DOMAIN c : r[n] = c[n]
      /\ \A n \in 1..(Len(c) + l) : n > Len(c) => r[n] = q[n - Len(c)]
  BY <1>6
<1> HIDE DEF r
<1>8. \A n \in DOMAIN r : n \in DOMAIN c \/ r[n].type = "AskFile"
  <2> SUFFICES ASSUME NEW n \in DOMAIN r, n \notin DOMAIN c PROVE r[n].type = "AskFile"
    OBVIOUS
  <2>1. n > Len(c) /\ n - Len(c) \in 1..l
    BY <1>7
  <2> QED BY <1>5, <1>7, <2>1
<1>9. DOMAIN c \subseteq DOMAIN r
  BY <1>7
<1>10. SameTokens(c, r)
  <2> SUFFICES ASSUME NEW t \in Token
               PROVE  /\ Has(r, t) <=> Has(c, t)
                      /\ Once(c, t) => Once(r, t)
                      /\ \A k : About(c, t, k) => About(r, t, k)
    BY DEF SameTokens
  <2>1. t # "AskFile"
    BY DEF Token
  <2>2. \A n \in DOMAIN r : r[n].type = t => n \in DOMAIN c
    BY <1>8, <2>1
  <2>3. Has(r, t) <=> Has(c, t)
    BY <1>7, <1>9, <2>2 DEF Has
  <2>4. Once(c, t) => Once(r, t)
    BY <1>7, <2>2 DEF Once
  <2>5. \A k : About(c, t, k) => About(r, t, k)
    BY <1>7, <2>2 DEF About
  <2> QED BY <2>3, <2>4, <2>5
<1> QED BY <1>7, <1>10 DEF r, q

-----------------------------------------------------------------------------
(* The steps that move no token *)

(* They keep the invariant. *)
LEMMA QuietStep ==
    ASSUME IInv, Types', UNCHANGED <<view, view_job, answered, job, missing_deps, sched_in, wt_job>>,
           todo' \subseteq todo, sched_up' => sched_up,
           SameTokens(from_worker, from_worker'), SameTokens(to_worker, to_worker'),
           SameTokens(wm_in, wm_in'),
           from_worker = <<>> /\ ~WorkerAlive => from_worker' = <<>>,
           Collecting' => Collecting, Collecting => Collecting' \/ ThreadOver',
           wt = "ended" <=> wt' = "ended", ThreadOver => ThreadOver',
           worker' = "start" => worker = "start",
           WorkerAlive' => WorkerAlive /\ (worker' = "leaving" <=> worker = "leaving") /\ UNCHANGED asked,
           sandbox' = sandbox \/ (~Done /\ ~Listed /\ {sandbox, sandbox'} \subseteq {"waiting", "sending"})
    PROVE  IInv'
<1>1. /\ Asking' <=> Asking
      /\ Announced' <=> Announced
      /\ Given' <=> Given
      /\ Sent' <=> Sent
      /\ Done' <=> Done
      /\ Reported' <=> Reported
      /\ Listed' <=> Listed
      /\ Lost' <=> Lost
  BY DEF SameTokens, Token, Asking, Announced, Given, Sent, Done, Reported, Listed, Lost
<1>2. Channels'
  BY DEF IInv, Channels, SameTokens, Token
<1>3. OnePlace'
  BY <1>1 DEF IInv, OnePlace
<1>4. OneResult'
  BY <1>1 DEF IInv, OneResult, Doing
<1>5. SandboxInv'
  BY <1>1 DEF IInv, SandboxInv, HasSandboxes
<1>6. Busy'
  <2>1. /\ About(from_worker', "WorkerDone", view_job)
        /\ WorkerAlive' => About(wm_in', "WorkerJob", view_job) /\ About(to_worker', "Work", view_job)
    BY DEF IInv, Busy, SameTokens, Token
  <2> QED BY <1>1, <2>1 DEF IInv, Busy, Doing, DoneWith, ThreadOver, Collecting
<1>7. LostLast'
  BY <1>1 DEF IInv, LostLast
<1>8. Unanswered'
  BY DEF IInv, Unanswered
<1> QED BY <1>2, <1>3, <1>4, <1>5, <1>6, <1>7, <1>8 DEF IInv

-----------------------------------------------------------------------------
(* Types *)

(* The fields of a message. *)
LEMMA Fields ==
    \A m \in Message : m.job \in Job \cup {NoJob} /\ m.key \in Key \cup {NoKey} /\ m.files \subseteq File
  BY DEF Message

(* The kinds of messages are kinds. *)
LEMMA Kinds ==
    ASSUME NEW t \in {"GetWork", "WorkerConnected", "WorkerDisconnected", "Exit", "WorkerJob",
                      "StopWorkerJob", "Work", "KillJob", "ProvideFile", "AskFiles",
                      "WorkerResult", "WorkerDone"}
    PROVE  t \in Kind
  BY DEF Kind

(* The job that the worker reads is the one the scheduler gave it. *)
LEMMA WorkRead ==
    ASSUME IInv, WorkerWork
    PROVE  /\ view = "busy" /\ view_job \in Job /\ Head(to_worker).job = view_job
           /\ Sent /\ Once(to_worker, "Work") /\ to_worker # <<>>
<1>1. to_worker # <<>> /\ Head(to_worker).type = "Work" /\ WorkerAlive /\ to_worker \in Seq(Message)
  BY DEF WorkerWork, Receives, WorkerAlive, IInv, Types
<1>2. Sent
  BY <1>1, Taking DEF Sent
<1>3. About(to_worker, "Work", view_job) /\ view = "busy" /\ view_job \in Job /\ Once(to_worker, "Work")
  BY <1>1, <1>2 DEF IInv, Busy, Types, Channels
<1> QED BY <1>1, <1>2, <1>3, Taking

(* The scheduler and the worker manager *)
LEMMA SchedulerTypes ==
    ASSUME IInv, Scheduler \/ Leave \/ Manager \/ WmSendFails PROVE Types'
<1> USE DEF IInv, Types
<1>1. CASE SchedConnected
  <2>1. sched_in' \in Seq(Message)
    BY <1>1, Taking DEF SchedConnected, Receives
  <2> QED BY <1>1, <2>1 DEF SchedConnected, notScheduler, wmVars, wtVars, workerVars, sandVars
<1>2. CASE SchedResult
  <2>1. sched_in' \in Seq(Message)
    BY <1>2, Taking DEF SchedResult, Receives
  <2>2. answered' \in [Job -> Nat]
    BY <1>2 DEF SchedResult
  <2> QED BY <1>2, <2>1, <2>2 DEF SchedResult, notScheduler, wmVars, wtVars, workerVars, sandVars
<1>3. CASE SchedDisconnected
  <2>1. sched_in' \in Seq(Message)
    BY <1>3, Taking DEF SchedDisconnected, Receives
  <2>2. todo' \subseteq Job
    BY <1>3 DEF SchedDisconnected
  <2> QED BY <1>3, <2>1, <2>2 DEF SchedDisconnected, notScheduler, wmVars, wtVars, workerVars, sandVars
<1>4. ASSUME NEW m \in Message, Tell(m) PROVE wm_in' \in Seq(Message) /\ sched_up' \in BOOLEAN
  BY <1>4, Adding DEF Tell
<1>5. ASSUME NEW j \in Job, SchedAssign(j) PROVE Types'
  <2>1. JobMsg("WorkerJob", j) \in Message
    BY Kinds, Messages
  <2>2. wm_in' \in Seq(Message) /\ sched_up' \in BOOLEAN
    BY <1>4, <1>5, <2>1 DEF SchedAssign
  <2> QED BY <1>5, <2>2 DEF SchedAssign, notScheduler, wmVars, wtVars, workerVars, sandVars
<1>6. ASSUME NEW j \in Job, SchedStop(j) PROVE Types'
  <2>1. JobMsg("StopWorkerJob", j) \in Message
    BY Kinds, Messages
  <2>2. wm_in' \in Seq(Message) /\ sched_up' \in BOOLEAN
    BY <1>4, <1>6, <2>1 DEF SchedStop
  <2> QED BY <1>6, <2>2 DEF SchedStop, notScheduler, wmVars, wtVars, workerVars, sandVars
<1>7. CASE SchedExit
  <2>1. wm_in' \in Seq(Message)
    BY <1>7, Kinds, Messages, Adding DEF SchedExit
  <2>2. sched_up' \in BOOLEAN
    BY <1>7 DEF SchedExit
  <2> QED BY <1>7, <2>1, <2>2 DEF SchedExit, notScheduler, wmVars, wtVars, workerVars, sandVars
<1>8. CASE WmForward
  <2>1. wm_in' \in Seq(Message) /\ Head(wm_in) \in Message
    BY <1>8, Taking DEF WmForward, Receives
  <2>2. \A j \in Job \cup {NoJob} : JobMsg("Work", j) \in Message /\ JobMsg("KillJob", j) \in Message
    BY Kinds, Messages
  <2>3. to_worker' \in Seq(Message)
    BY <1>8, <2>1, <2>2, Fields, Adding DEF WmForward
  <2>4. UNCHANGED <<view, view_job, todo, answered, sched_up, wm, known, wt, wt_job, worker, job, w_file, asked,
                    sandbox, to_send, sched_in, from_worker>>
    BY <1>8 DEF WmForward, notManager, schedVars, wmVars, wtVars, workerVars, sandVars
  <2> QED BY <2>1, <2>3, <2>4
<1>9. CASE WmSendFails
  BY <1>9 DEF WmSendFails, notManager, schedVars, wmVars, wtVars, workerVars, sandVars
<1>10. CASE WmDisconnected
  <2>1. wm_in' \in Seq(Message)
    BY <1>10, Taking DEF WmDisconnected, Receives
  <2>2. known' \in BOOLEAN
    BY <1>10 DEF WmDisconnected
  <2> QED BY <1>10, <2>1, <2>2 DEF WmDisconnected, notManager, schedVars, wmVars, wtVars, workerVars, sandVars
<1>11. CASE WmExit
  <2>1. wm_in' \in Seq(Message)
    BY <1>11, Taking DEF WmExit, Receives
  <2>2. to_worker' \in Seq(Message)
    BY <1>11, Kinds, Messages, Adding DEF WmExit
  <2>3. wm' = "exited" /\ UNCHANGED <<view, view_job, todo, answered, sched_up, known, wt, wt_job, worker, job,
                                      w_file, asked, sandbox, to_send, sched_in, from_worker>>
    BY <1>11 DEF WmExit, notManager, schedVars, wmVars, wtVars, workerVars, sandVars
  <2> QED BY <2>1, <2>2, <2>3
<1> QED BY <1>1, <1>2, <1>3, <1>5, <1>6, <1>7, <1>8, <1>9, <1>10, <1>11 DEF Scheduler, Leave, Manager

(* The thread of the worker in the worker manager *)
LEMMA ThreadTypes == ASSUME IInv, Thread PROVE Types'
<1> USE DEF IInv, Types
<1>1. ASSUME EndThread
      PROVE  wt' = "ended" /\ sched_in' \in Seq(Message) /\ wm_in' \in Seq(Message)
  BY <1>1, Kinds, Messages, Adding DEF EndThread
<1>2. ASSUME NEW j \in Job \cup {NoJob}, ReportResult(j)
      PROVE  wt' \in {"receiving", "ended"} /\ sched_in' \in Seq(Message) /\ wm_in' \in Seq(Message)
  <2>1. JobMsg("WorkerResult", j) \in Message
    BY Kinds, Messages
  <2> QED BY <1>1, <1>2, <2>1, Adding DEF ReportResult
<1>3. from_worker # <<>> => Tail(from_worker) \in Seq(Message) /\ Head(from_worker) \in Message
  BY Taking
<1>4. CASE WtGetWork
  <2>0. Append(sched_in, Msg("WorkerConnected")) \in Seq(Message)
    BY Kinds, Messages, Adding
  <2>1. wt' \in {"receiving", "ended"} /\ sched_in' \in Seq(Message) /\ wm_in' \in Seq(Message)
    BY <1>1, <1>4, <2>0 DEF WtGetWork
  <2> QED BY <1>3, <1>4, <2>1 DEF WtGetWork, Receives, notThread, schedVars, wmVars, workerVars, sandVars
<1>5. CASE WtAskFile
  <2>0. KeyMsg("ProvideFile", Head(from_worker).key) \in Message
    <3>1. Head(from_worker).key \in Key \cup {NoKey}
      BY <1>3, <1>5, Fields DEF WtAskFile, Receives
    <3> QED BY <3>1, Kinds, Messages
  <2>1. to_worker' \in Seq(Message)
    BY <1>5, <2>0, Adding DEF WtAskFile
  <2> QED BY <1>3, <1>5, <2>1 DEF WtAskFile, Receives, notThread, schedVars, wmVars, workerVars, sandVars
<1>6. CASE WtSendPiece
  <2>1. to_worker' \in Seq(Message)
    BY <1>6, PieceView, Adding DEF WtSendPiece
  <2> QED BY <1>6, <2>1 DEF WtSendPiece, notThread, schedVars, wmVars, workerVars, sandVars
<1>7. CASE WtWorkerDone
  <2>1. Head(from_worker) \in Message /\ from_worker' \in Seq(Message)
    BY <1>3, <1>7 DEF WtWorkerDone, Receives
  <2> DEFINE S == {f \in Head(from_worker).files : KeyOf[f] \notin server_files}
  <2>2. S \in SUBSET File
    BY <2>1, Fields
  <2>3. [Msg("AskFiles") EXCEPT !.files = S] \in Message
    BY <2>2, Kinds, Messages
  <2>4. to_worker' = Append(to_worker, [Msg("AskFiles") EXCEPT !.files = S])
    BY <1>7 DEF WtWorkerDone
  <2> HIDE DEF S
  <2>5. to_worker' \in Seq(Message)
    BY <2>3, <2>4, Adding
  <2>6. PICK j \in Job \cup {NoJob} : j = Head(from_worker).job
    BY <2>1, Fields
  <2>7. ReportResult(j) \/ (wt' = "collecting" /\ UNCHANGED <<sched_in, wm_in>>)
    BY <1>7, <2>6 DEF WtWorkerDone
  <2>8. /\ wt' \in {"receiving", "ended", "collecting"}
        /\ sched_in' \in Seq(Message) /\ wm_in' \in Seq(Message)
    BY <1>2, <2>7
  <2> QED BY <1>7, <2>1, <2>5, <2>6, <2>8 DEF WtWorkerDone, notThread, schedVars, wmVars, workerVars, sandVars
<1>8. CASE WtProvideFile
  BY <1>3, <1>8 DEF WtProvideFile, Receives, notThread, schedVars, wmVars, workerVars, sandVars
<1>9. CASE WtStorePiece
  <2>1. \/ wt' = "collecting" /\ UNCHANGED <<sched_in, wm_in>>
        \/ UNCHANGED <<wt, sched_in, wm_in>>
        \/ ReportResult(wt_job)
    BY <1>9 DEF WtStorePiece
  <2>2. /\ wt' \in {"receiving", "ended", "collecting", wt}
        /\ sched_in' \in Seq(Message) /\ wm_in' \in Seq(Message)
    BY <1>2, <2>1
  <2> QED BY <1>3, <1>9, <2>2 DEF WtStorePiece, notThread, schedVars, wmVars, workerVars, sandVars
<1>10. CASE WtFails
  BY <1>10 DEF WtFails, notThread, schedVars, wmVars, workerVars, sandVars
<1>11. CASE WtClosed
  BY <1>1, <1>11 DEF WtClosed, notThread, schedVars, wmVars, workerVars, sandVars
<1> QED BY <1>4, <1>5, <1>6, <1>7, <1>8, <1>9, <1>10, <1>11 DEF Thread

(* The worker and the thread of its sandboxes *)
LEMMA WorkerTypes == ASSUME IInv, Worker \/ WorkerDies \/ Sandbox PROVE Types'
<1> USE DEF IInv, Types
<1>1. to_worker # <<>> => Tail(to_worker) \in Seq(Message) /\ Head(to_worker) \in Message
  BY Taking
<1>2. \A m \in Message : Append(from_worker, m) \in Seq(Message)
  BY Adding
<1>3. Msg("GetWork") \in Message
  BY Kinds, Messages
<1>4. CASE WorkerStart
  <2>1. from_worker' \in Seq(Message)
    BY <1>2, <1>3, <1>4 DEF WorkerStart
  <2> QED BY <1>4, <2>1 DEF WorkerStart, notWorker, schedVars, wmVars, wtVars, sandVars
<1>5. CASE WorkerWork
  <2>1. PICK j \in Job : j = Head(to_worker).job
    BY <1>5, WorkRead
  <2>2. PICK s \in FilesToAsk(j) : from_worker' = from_worker \o [n \in DOMAIN s |-> KeyMsg("AskFile", s[n])]
    BY <1>5, <2>1 DEF WorkerWork
  <2>3. from_worker' \in Seq(Message)
    BY <2>2, Requests
  <2>4. to_worker' \in Seq(Message)
    BY <1>1, <1>5 DEF WorkerWork, Receives
  <2>5. /\ job' = j /\ sandbox' \in {"idle", "running"} /\ asked' \in {"open", asked}
        /\ UNCHANGED <<view, view_job, todo, answered, sched_up, wm, known, wt, wt_job, worker, w_file,
                       to_send, sched_in, wm_in>>
    BY <1>5, <2>1 DEF WorkerWork, StartJob, notWorker, schedVars, wmVars, wtVars
  <2> QED BY <2>3, <2>4, <2>5
<1>6. CASE WorkerProvideFile
  <2>1. w_file' \in Key \cup {NoKey} /\ to_worker' \in Seq(Message)
    BY <1>1, <1>6, Fields DEF WorkerProvideFile, Receives
  <2> QED BY <1>6, <2>1 DEF WorkerProvideFile, notWorker, schedVars, wmVars, wtVars, sandVars
<1>7. CASE WorkerStorePiece
  <2>1. to_worker' \in Seq(Message)
    BY <1>1, <1>7 DEF WorkerStorePiece
  <2>2. /\ worker' \in {worker, "receiving"} /\ w_file' \in {w_file, NoKey}
        /\ sandbox' \in {sandbox, "running"} /\ asked' \in {"open", asked}
        /\ UNCHANGED <<view, view_job, todo, answered, sched_up, wm, known, wt, wt_job, job,
                       to_send, sched_in, wm_in, from_worker>>
    BY <1>7 DEF WorkerStorePiece, StartJob, notWorker, schedVars, wmVars, wtVars
  <2> QED BY <2>1, <2>2
<1>8. CASE WorkerFails \/ WorkerLeaves \/ WorkerDies
  BY <1>8 DEF WorkerFails, WorkerLeaves, WorkerDies, notWorker, schedVars, wmVars, wtVars, sandVars
<1>9. CASE WorkerKillJob
  <2>1. to_worker' \in Seq(Message)
    BY <1>1, <1>9 DEF WorkerKillJob, Receives
  <2> QED BY <1>9, <2>1 DEF WorkerKillJob, notWorker, schedVars, wmVars, wtVars, workerVars
<1>10. CASE WorkerAskFiles
  <2>1. to_worker' \in Seq(Message) /\ Head(to_worker).files \subseteq File
    BY <1>1, <1>10, Fields DEF WorkerAskFiles, Receives
  <2>2. to_send' \subseteq File /\ asked' \in {asked, "filled"}
    BY <1>10, <2>1 DEF WorkerAskFiles
  <2> QED BY <1>10, <2>1, <2>2 DEF WorkerAskFiles, notWorker, schedVars, wmVars, wtVars
<1>11. CASE WorkerExit
  <2>1. to_worker' \in Seq(Message)
    BY <1>1, <1>11 DEF WorkerExit, Receives
  <2> QED BY <1>11, <2>1 DEF WorkerExit, notWorker, schedVars, wmVars, wtVars, sandVars
<1>12. CASE SandboxDone
  <2>1. job \in Job
    BY <1>12 DEF SandboxDone, SandboxInv, HasSandboxes
  <2>2. PICK S \in SUBSET File : S = Outs[job]
    BY <2>1, WorkerAssumption
  <2>3. [JobMsg("WorkerDone", job) EXCEPT !.files = S] \in Message
    BY <2>1, <2>2, Kinds, Messages
  <2>4. from_worker' \in Seq(Message)
    BY <1>2, <1>12, <2>2, <2>3 DEF SandboxDone
  <2> QED BY <1>12, <2>4 DEF SandboxDone, notSandbox, notWorker, schedVars, wmVars, wtVars
<1>13. ASSUME NEW f \in File, SandboxSend(f) PROVE Types'
  <2>1. KeyOf[f] \in Key \cup {NoKey}
    BY WorkerAssumption
  <2>2. KeyMsg("ProvideFile", KeyOf[f]) \in Message
    BY <2>1, Kinds, Messages
  <2>3. from_worker' \in Seq(Message)
    BY <1>2, <1>13, <2>2 DEF SandboxSend
  <2> QED BY <1>13, <2>3 DEF SandboxSend, notSandbox, notWorker, schedVars, wmVars, wtVars
<1>14. CASE SandboxSendPiece
  <2>1. from_worker' \in Seq(Message)
    BY <1>2, <1>14, PieceView DEF SandboxSendPiece
  <2> QED BY <1>14, <2>1 DEF SandboxSendPiece, notSandbox, notWorker, schedVars, wmVars, wtVars
<1>15. CASE SandboxFinish
  <2>1. from_worker' \in Seq(Message)
    BY <1>2, <1>3, <1>15 DEF SandboxFinish
  <2> QED BY <1>15, <2>1 DEF SandboxFinish, notSandbox, notWorker, schedVars, wmVars, wtVars
<1>16. CASE SandboxAbort
  BY <1>16 DEF SandboxAbort, notSandbox, notWorker, schedVars, wmVars, wtVars
<1> QED BY <1>4, <1>5, <1>6, <1>7, <1>8, <1>9, <1>10, <1>11, <1>12, <1>13, <1>14, <1>15, <1>16
        DEF Worker, Sandbox

(* Types are kept. *)
LEMMA TypeStep == ASSUME IInv, [Next]_vars PROVE Types'
<1>1. CASE UNCHANGED vars
  BY <1>1 DEF IInv, Types, vars, schedVars, wmVars, wtVars, workerVars, sandVars
<1> QED BY <1>1, SchedulerTypes, ThreadTypes, WorkerTypes DEF Next

-----------------------------------------------------------------------------
(* The steps of each component that move no token *)

(* The scheduler stops a job or exits, the worker manager forwards that or hears *)
(* that the worker is gone.                                                      *)
LEMMA ManagerQuiet ==
    ASSUME IInv, Types',
           \/ Leave \/ WmSendFails \/ WmDisconnected \/ WmExit
           \/ WmForward /\ Receives(wm_in, "StopWorkerJob")
    PROVE  IInv'
<1>1. wm_in \in Seq(Message) /\ to_worker \in Seq(Message)
  BY DEF IInv, Types
<1>2. /\ UNCHANGED <<view, view_job, answered, job, missing_deps, sched_in, wt_job, from_worker, wt,
                     worker, asked, sandbox>>
      /\ todo' \subseteq todo /\ (sched_up' => sched_up)
  <2>1. ASSUME NEW m, Tell(m) PROVE sched_up' => sched_up
    BY <2>1 DEF Tell
  <2>2. ASSUME NEW j \in Job, SchedStop(j)
        PROVE  sched_up' => sched_up
    BY <2>1, <2>2 DEF SchedStop
  <2> QED BY <2>2 DEF Leave, SchedStop, SchedExit, WmForward, WmSendFails, WmDisconnected, WmExit,
                  notScheduler, notManager, schedVars, wmVars, wtVars, workerVars, sandVars
<1>3. ASSUME NEW t \in {"StopWorkerJob", "Exit", "WorkerDisconnected"}, Receives(wm_in, t)
      PROVE  SameTokens(wm_in, Tail(wm_in))
  BY <1>1, <1>3, SameTaking DEF Receives, Token
<1>4. SameTokens(wm_in, wm_in')
  <2>1. CASE wm_in' = wm_in
    BY <2>1, SameChannel
  <2>2. ASSUME NEW m \in Message, m.type \notin Token, wm_in' = Append(wm_in, m)
        PROVE  SameTokens(wm_in, wm_in')
    BY <1>1, <2>2, SameAdding
  <2>3. ASSUME NEW j \in Job, SchedStop(j) PROVE SameTokens(wm_in, wm_in')
    <3>1. JobMsg("StopWorkerJob", j) \in Message /\ JobMsg("StopWorkerJob", j).type = "StopWorkerJob"
      BY Kinds, Messages
    <3>2. wm_in' = wm_in \/ wm_in' = Append(wm_in, JobMsg("StopWorkerJob", j))
      BY <2>3 DEF SchedStop, Tell
    <3> QED BY <2>1, <2>2, <3>1, <3>2 DEF Token
  <2>4. CASE SchedExit
    <3>1. Msg("Exit") \in Message /\ Msg("Exit").type = "Exit"
      BY Kinds, Messages
    <3> QED BY <2>2, <2>4, <3>1 DEF SchedExit, Token
  <2>5. CASE WmSendFails
    BY <2>1, <2>5 DEF WmSendFails
  <2>6. CASE WmDisconnected
    BY <1>3, <2>6 DEF WmDisconnected
  <2>7. CASE WmExit
    BY <1>3, <2>7 DEF WmExit
  <2>8. CASE WmForward /\ Receives(wm_in, "StopWorkerJob")
    BY <1>3, <2>8 DEF WmForward
  <2> QED BY <2>3, <2>4, <2>5, <2>6, <2>7, <2>8 DEF Leave
<1>5. SameTokens(to_worker, to_worker')
  <2>1. CASE to_worker' = to_worker
    BY <2>1, SameChannel
  <2>2. CASE WmExit /\ known
    <3>1. Msg("Exit") \in Message /\ Msg("Exit").type \notin Token
      BY Kinds, Messages DEF Token
    <3> QED BY <1>1, <2>2, <3>1, SameAdding DEF WmExit
  <2>3. CASE WmForward /\ Receives(wm_in, "StopWorkerJob") /\ known
    <3>1. PICK j \in Job \cup {NoJob} : j = Head(wm_in).job
      BY <1>1, <2>3, Taking, Fields DEF Receives
    <3>2. JobMsg("KillJob", j) \in Message /\ JobMsg("KillJob", j).type \notin Token
      BY Kinds, Messages DEF Token
    <3>3. to_worker' = Append(to_worker, JobMsg("KillJob", j))
      BY <2>3, <3>1 DEF WmForward, Receives
    <3> QED BY <1>1, <3>2, <3>3, SameAdding
  <2> QED BY <2>1, <2>2, <2>3 DEF Leave, SchedStop, SchedExit, WmForward, WmSendFails, WmDisconnected,
                                  WmExit, notScheduler, notManager
<1>6. SameTokens(from_worker, from_worker')
  BY <1>2, SameChannel
<1>7. Collecting' <=> Collecting
  BY <1>2 DEF Collecting
<1>8. ThreadOver' <=> ThreadOver
  BY <1>2 DEF ThreadOver
<1>9. WorkerAlive' <=> WorkerAlive
  BY <1>2 DEF WorkerAlive
<1> QED BY <1>2, <1>4, <1>5, <1>6, <1>7, <1>8, <1>9, QuietStep

(* The thread of the worker sends a file or receives an output, or fails. *)
LEMMA ThreadQuiet ==
    ASSUME IInv, Types',
           \/ WtAskFile \/ WtSendPiece \/ WtProvideFile \/ WtFails
           \/ WtStorePiece /\ wt' \in {"collecting", "storing"} /\ UNCHANGED <<sched_in, wm_in>>
    PROVE  IInv'
<1>1. from_worker \in Seq(Message) /\ to_worker \in Seq(Message)
  BY DEF IInv, Types
<1>2. UNCHANGED <<view, view_job, answered, job, missing_deps, sched_in, wt_job, wm_in, worker, asked,
                  sandbox, todo, sched_up>>
  BY DEF WtAskFile, WtSendPiece, WtProvideFile, WtFails, WtStorePiece, notThread, schedVars, wmVars,
         workerVars, sandVars
<1>3. /\ wt # "ended" /\ wt' # "ended" /\ ~ThreadOver
      /\ Collecting' => Collecting
      /\ Collecting => Collecting' \/ ThreadOver'
  BY DEF WtAskFile, WtSendPiece, WtProvideFile, WtFails, WtStorePiece, Collecting, ThreadOver
<1>4. SameTokens(from_worker, from_worker')
  <2>1. CASE from_worker' = from_worker
    BY <2>1, SameChannel
  <2>2. CASE from_worker # <<>> /\ from_worker' = Tail(from_worker) /\ Head(from_worker).type \notin Token
    BY <1>1, <2>2, SameTaking
  <2>3. CASE WtAskFile
    BY <2>2, <2>3 DEF WtAskFile, Receives, Token
  <2>4. CASE WtProvideFile
    BY <2>2, <2>4 DEF WtProvideFile, Receives, Token
  <2>5. CASE WtStorePiece
    BY <2>2, <2>5 DEF WtStorePiece, IsRaw, Token
  <2>6. CASE WtSendPiece \/ WtFails
    BY <2>1, <2>6 DEF WtSendPiece, WtFails
  <2> QED BY <2>3, <2>4, <2>5, <2>6
<1>5. SameTokens(to_worker, to_worker')
  <2>1. CASE to_worker' = to_worker
    BY <2>1, SameChannel
  <2>2. CASE WtAskFile
    <3>1. PICK k \in Key \cup {NoKey} : k = Head(from_worker).key
      BY <1>1, <2>2, Taking, Fields DEF WtAskFile, Receives
    <3>2. KeyMsg("ProvideFile", k) \in Message /\ KeyMsg("ProvideFile", k).type \notin Token
      BY Kinds, Messages DEF Token
    <3> QED BY <1>1, <2>2, <3>1, <3>2, SameAdding DEF WtAskFile
  <2>3. CASE WtSendPiece
    <3>1. Piece(wt_left) \in Message /\ Piece(wt_left).type \notin Token
      BY PieceView DEF IsRaw, Token
    <3> QED BY <1>1, <2>3, <3>1, SameAdding DEF WtSendPiece
  <2> QED BY <2>1, <2>2, <2>3 DEF WtProvideFile, WtFails, WtStorePiece
<1>6. SameTokens(wm_in, wm_in')
  BY <1>2, SameChannel
<1>7. from_worker = <<>> => from_worker' = <<>>
  BY DEF WtAskFile, WtSendPiece, WtProvideFile, WtFails, WtStorePiece, Receives
<1>8. WorkerAlive' <=> WorkerAlive
  BY <1>2 DEF WorkerAlive
<1> QED BY <1>2, <1>3, <1>4, <1>5, <1>6, <1>7, <1>8, QuietStep

(* The worker receives a part of a file or a kill, or is over. *)
LEMMA WorkerQuiet ==
    ASSUME IInv, Types',
           \/ WorkerProvideFile \/ WorkerFails \/ WorkerKillJob \/ WorkerLeaves \/ WorkerDies
           \/ WorkerStorePiece /\ Head(to_worker).type = "data"
    PROVE  IInv'
<1>1. to_worker \in Seq(Message)
  BY DEF IInv, Types
<1>2. UNCHANGED <<view, view_job, answered, job, missing_deps, sched_in, wt_job, wm_in, asked,
                  sandbox, todo, sched_up, wt, from_worker>>
  BY DEF WorkerProvideFile, WorkerFails, WorkerKillJob, WorkerLeaves, WorkerDies, WorkerStorePiece,
         notWorker, schedVars, wmVars, wtVars, workerVars, sandVars
<1>3. /\ worker' # "start" \/ worker' = worker
      /\ WorkerAlive' => WorkerAlive /\ (worker' = "leaving" <=> worker = "leaving")
  BY DEF WorkerProvideFile, WorkerFails, WorkerKillJob, WorkerLeaves, WorkerDies, WorkerStorePiece,
         workerVars, WorkerAlive
<1>4. SameTokens(to_worker, to_worker')
  <2>1. CASE to_worker' = to_worker
    BY <2>1, SameChannel
  <2>2. CASE to_worker # <<>> /\ to_worker' = Tail(to_worker) /\ Head(to_worker).type \notin Token
    BY <1>1, <2>2, SameTaking
  <2>3. CASE WorkerProvideFile
    BY <2>2, <2>3 DEF WorkerProvideFile, Receives, Token
  <2>4. CASE WorkerKillJob
    BY <2>2, <2>4 DEF WorkerKillJob, Receives, Token
  <2>5. CASE WorkerStorePiece
    BY <2>2, <2>5 DEF WorkerStorePiece, IsRaw, Token
  <2> QED BY <2>1, <2>3, <2>4, <2>5 DEF WorkerFails, WorkerLeaves, WorkerDies
<1>5. SameTokens(wm_in, wm_in') /\ SameTokens(from_worker, from_worker')
  BY <1>2, SameChannel
<1>6. Collecting' <=> Collecting
  BY <1>2 DEF Collecting
<1>7. ThreadOver' <=> ThreadOver
  BY <1>2 DEF ThreadOver
<1> QED BY <1>2, <1>3, <1>4, <1>5, <1>6, <1>7, QuietStep

(* The sandbox thread sends the outputs it was asked for. *)
LEMMA SandboxQuiet ==
    ASSUME IInv, Types', SandboxSendPiece \/ \E f \in File : SandboxSend(f)
    PROVE  IInv'
<1>1. from_worker \in Seq(Message)
  BY DEF IInv, Types
<1>2. UNCHANGED <<view, view_job, answered, job, missing_deps, sched_in, wt_job, wm_in, asked,
                  todo, sched_up, wt, to_worker, worker>>
  BY DEF SandboxSendPiece, SandboxSend, notSandbox, notWorker, schedVars, wmVars, wtVars
<1>3. WorkerAlive /\ ~Done /\ ~Listed /\ {sandbox, sandbox'} \subseteq {"waiting", "sending"}
  BY DEF SandboxSendPiece, SandboxSend, IInv, SandboxInv
<1>4. SameTokens(from_worker, from_worker')
  <2>1. CASE SandboxSendPiece
    <3>1. Piece(sb_left) \in Message /\ Piece(sb_left).type \notin Token
      BY PieceView DEF IsRaw, Token
    <3> QED BY <1>1, <2>1, <3>1, SameAdding DEF SandboxSendPiece
  <2>2. ASSUME NEW f \in File, SandboxSend(f) PROVE SameTokens(from_worker, from_worker')
    <3>1. PICK k \in Key \cup {NoKey} : k = KeyOf[f]
      BY WorkerAssumption
    <3>2. KeyMsg("ProvideFile", k) \in Message /\ KeyMsg("ProvideFile", k).type \notin Token
      BY Kinds, Messages DEF Token
    <3> QED BY <1>1, <2>2, <3>1, <3>2, SameAdding DEF SandboxSend
  <2> QED BY <2>1, <2>2
<1>5. SameTokens(wm_in, wm_in') /\ SameTokens(to_worker, to_worker')
  BY <1>2, SameChannel
<1>6. Collecting' <=> Collecting
  BY <1>2 DEF Collecting
<1>7. ThreadOver' <=> ThreadOver
  BY <1>2 DEF ThreadOver
<1>8. WorkerAlive' <=> WorkerAlive
  BY <1>2 DEF WorkerAlive
<1> QED BY <1>2, <1>3, <1>4, <1>5, <1>6, <1>7, <1>8, QuietStep

-----------------------------------------------------------------------------
(* The scheduler moves the tokens *)

(* The worker is announced when the result it returned before was read. *)
LEMMA ConnectedStep == ASSUME IInv, Types', SchedConnected PROVE IInv'
<1>1. /\ sched_in \in Seq(Message) /\ sched_in # <<>> /\ sched_in' = Tail(sched_in)
      /\ Head(sched_in).type = "WorkerConnected" /\ view' = "free"
  BY DEF SchedConnected, Receives, IInv, Types
<1>2. UNCHANGED <<view_job, todo, answered, sched_up, wm_in, wt, wt_job, to_worker, from_worker,
                  worker, job, missing_deps, asked, sandbox>>
  BY DEF SchedConnected, notScheduler, wmVars, wtVars, workerVars, sandVars
<1>3. Announced /\ ~Announced'
  BY <1>1, Taking DEF Announced, IInv, Channels
<1>4. ~Reported /\ Ordered(sched_in')
  BY <1>1, OrderTaking DEF Reported, IInv, Channels
<1>5. ~Reported' /\ (Lost' => Lost)
  BY <1>1, <1>4, Taking DEF Reported, Lost
<1>6. view = "absent" /\ view_job = NoJob
  BY <1>3, <1>4 DEF IInv, OnePlace, Busy, Types
<1>7. ~Given /\ ~Sent /\ job = NoJob /\ ~Asking /\ worker # "start" /\ ~Done /\ ~Collecting
  BY <1>3, <1>6 DEF IInv, OnePlace, Busy
<1>8. /\ Asking' <=> Asking
      /\ Given' <=> Given
      /\ Sent' <=> Sent
      /\ Done' <=> Done
      /\ Listed' <=> Listed
      /\ Collecting' <=> Collecting
      /\ WorkerAlive' <=> WorkerAlive
  BY <1>2 DEF Asking, Given, Sent, Done, Listed, Collecting, WorkerAlive
<1>9. Channels'
  BY <1>1, <1>2, <1>4, Taking DEF IInv, Channels
<1>10. OnePlace' /\ OneResult'
  BY <1>1, <1>2, <1>3, <1>5, <1>7, <1>8 DEF OnePlace, OneResult, Doing
<1>11. SandboxInv'
  BY <1>2, <1>8 DEF IInv, SandboxInv, HasSandboxes
<1>12. About(sched_in', "WorkerResult", view_job)
  BY <1>5, Nothing DEF Reported
<1>13. Busy'
  BY <1>1, <1>2, <1>3, <1>5, <1>6, <1>7, <1>8, <1>12 DEF IInv, Busy, Doing
<1>14. LostLast'
  BY <1>2, <1>5, <1>8 DEF IInv, LostLast
<1>15. Unanswered'
  BY <1>2 DEF IInv, Unanswered
<1> QED BY <1>9, <1>10, <1>11, <1>13, <1>14, <1>15 DEF IInv

(* A job is given to a free worker, or the scheduler ends. *)
LEMMA AssignStep == ASSUME IInv, Types', NEW j \in Job, SchedAssign(j) PROVE IInv'
<1>1. /\ view = "free" /\ j \in todo /\ view' = "busy" /\ view_job' = j
      /\ todo' = todo \ {j} /\ wm_in \in Seq(Message) /\ j # NoJob
  BY WorkerAssumption DEF SchedAssign, IInv, Types
<1>2. UNCHANGED <<sched_in, answered, wt, wt_job, to_worker, from_worker,
                  worker, job, missing_deps, asked, sandbox>>
  BY DEF SchedAssign, notScheduler, wmVars, wtVars, workerVars, sandVars
<1>3. JobMsg("WorkerJob", j) \in Message /\ JobMsg("WorkerJob", j).type = "WorkerJob"
      /\ JobMsg("WorkerJob", j).job = j
  BY Kinds, Messages
<1>4. PICK m \in Message : m = JobMsg("WorkerJob", j)
  BY <1>3
<1>5. (sched_up' => sched_up) /\ (wm_in' = wm_in \/ wm_in' = Append(wm_in, m))
  BY <1>4 DEF SchedAssign, Tell
<1>6. /\ ~Given /\ ~Sent /\ job = NoJob /\ ~Asking /\ ~Announced /\ worker # "start"
      /\ ~Done /\ ~Collecting /\ ~Reported
  BY <1>1 DEF IInv, OnePlace, OneResult
<1>7. Once(wm_in', "WorkerJob") /\ About(wm_in', "WorkerJob", j)
  <2>1. Once(wm_in, "WorkerJob") /\ About(wm_in, "WorkerJob", j)
    BY <1>6, Nothing DEF Given
  <2>2. /\ Once(Append(wm_in, m), "WorkerJob")
        /\ About(Append(wm_in, m), "WorkerJob", j)
    BY <1>1, <1>3, <1>4, <1>6, <2>1, Adding DEF Given
  <2> QED BY <1>5, <2>1, <2>2
<1>8. /\ Asking' <=> Asking
      /\ Announced' <=> Announced
      /\ Reported' <=> Reported
      /\ Lost' <=> Lost
      /\ Sent' <=> Sent
      /\ Done' <=> Done
      /\ Listed' <=> Listed
      /\ Collecting' <=> Collecting
      /\ WorkerAlive' <=> WorkerAlive
  BY <1>2 DEF Asking, Announced, Reported, Lost, Sent, Done, Listed, Collecting, WorkerAlive
<1>9. Channels'
  BY <1>2, <1>7 DEF IInv, Channels
<1>10. OnePlace' /\ OneResult'
  BY <1>1, <1>2, <1>6, <1>8 DEF OnePlace, OneResult, Doing
<1>11. SandboxInv'
  BY <1>2, <1>8 DEF IInv, SandboxInv, HasSandboxes
<1>12. /\ About(from_worker, "WorkerDone", j) /\ About(sched_in, "WorkerResult", j)
       /\ About(to_worker, "Work", j)
  BY <1>6, Nothing DEF Done, Reported, Sent
<1>13. Busy'
  BY <1>1, <1>2, <1>6, <1>7, <1>8, <1>12 DEF Busy, Doing, DoneWith
<1>14. LostLast'
  BY <1>2, <1>5, <1>8 DEF IInv, LostLast
<1>15. Unanswered'
  BY <1>1, <1>2 DEF IInv, Unanswered
<1> QED BY <1>9, <1>10, <1>11, <1>13, <1>14, <1>15 DEF IInv

(* A result is read: it is the one of the job of the worker. *)
LEMMA ResultStep == ASSUME IInv, Types', SchedResult PROVE IInv'
<1>1. /\ sched_in \in Seq(Message) /\ sched_in # <<>> /\ sched_in' = Tail(sched_in)
      /\ Head(sched_in).type = "WorkerResult" /\ view' = "absent" /\ view_job' = NoJob
  BY DEF SchedResult, Receives, IInv, Types
<1>2. UNCHANGED <<todo, sched_up, wm_in, wt, wt_job, to_worker, from_worker,
                  worker, job, missing_deps, asked, sandbox>>
  BY DEF SchedResult, notScheduler, wmVars, wtVars, workerVars, sandVars
<1>3. Reported /\ ~Reported'
  BY <1>1, Taking DEF Reported, IInv, Channels
<1>4. Ordered(sched_in') /\ (Announced' => Announced) /\ (Lost' => Lost)
  BY <1>1, OrderTaking, Taking DEF Announced, Lost, IInv, Channels
<1>5. view = "busy" /\ view_job \in Job
  BY <1>3 DEF IInv, Busy, Types
<1>6. ~Given /\ ~Sent /\ ~Doing /\ ~Done /\ ~Collecting
  BY <1>3 DEF IInv, OneResult
<1>7. /\ Asking' <=> Asking
      /\ Given' <=> Given
      /\ Sent' <=> Sent
      /\ Done' <=> Done
      /\ Listed' <=> Listed
      /\ Collecting' <=> Collecting
      /\ Doing' <=> Doing
      /\ WorkerAlive' <=> WorkerAlive
  BY <1>2 DEF Asking, Given, Sent, Done, Listed, Collecting, WorkerAlive, Doing
<1>8. Channels'
  BY <1>1, <1>2, <1>4, Taking DEF IInv, Channels
<1>9. OnePlace' /\ OneResult'
  BY <1>1, <1>2, <1>3, <1>4, <1>6, <1>7 DEF IInv, OnePlace, OneResult
<1>10. SandboxInv'
  BY <1>2, <1>7 DEF IInv, SandboxInv, HasSandboxes
<1>11. /\ About(from_worker, "WorkerDone", NoJob) /\ About(sched_in', "WorkerResult", NoJob)
       /\ About(to_worker, "Work", NoJob) /\ About(wm_in, "WorkerJob", NoJob)
  BY <1>3, <1>6, Nothing DEF Done, Reported, Sent, Given
<1>12. Busy'
  BY <1>1, <1>2, <1>3, <1>6, <1>7, <1>11 DEF Busy
<1>13. LostLast'
  BY <1>2, <1>4, <1>7 DEF IInv, LostLast
<1>14. Unanswered'
  <2>1. \A j \in Job : answered'[j] = IF j = view_job THEN 1 ELSE answered[j]
    BY <1>5, WorkerAssumption DEF SchedResult, IInv, Types, Unanswered
  <2>2. \A j \in todo : j \in Job /\ j # NoJob
    BY WorkerAssumption DEF IInv, Types
  <2>3. \A j \in Job : answered'[j] \leq 1
    BY <2>1 DEF IInv, Unanswered
  <2> QED BY <1>1, <1>2, <2>1, <2>2, <2>3 DEF IInv, Unanswered
<1> QED BY <1>8, <1>9, <1>10, <1>12, <1>13, <1>14 DEF IInv

(* The worker was lost: nothing of it is under way. *)
LEMMA DisconnectedStep == ASSUME IInv, Types', SchedDisconnected PROVE IInv'
<1>1. /\ sched_in \in Seq(Message) /\ sched_in # <<>> /\ sched_in' = Tail(sched_in)
      /\ Head(sched_in).type = "WorkerDisconnected" /\ view' = "absent" /\ view_job' = NoJob
      /\ todo' = todo \cup ({view_job} \ (stopped \cup {NoJob}))
  BY DEF SchedDisconnected, Receives, IInv, Types
<1>2. UNCHANGED <<answered, sched_up, wm_in, wt, wt_job, to_worker, from_worker,
                  worker, job, missing_deps, asked, sandbox>>
  BY DEF SchedDisconnected, notScheduler, wmVars, wtVars, workerVars, sandVars
<1>3. sched_in' = <<>>
  BY <1>1, OrderTaking DEF IInv, Channels
<1>4. Lost
  BY <1>1, Taking DEF Lost
<1>5. wt = "ended" /\ from_worker = <<>> /\ ~WorkerAlive
  BY <1>4 DEF IInv, LostLast
<1>6. \A t : ~Has(<<>>, t)
  BY DEF Has
<1>7. ~Asking /\ ~Done /\ ~Collecting
  BY <1>5, <1>6 DEF Asking, Done, Collecting
<1>8. ~Announced' /\ ~Reported' /\ ~Lost'
  BY <1>3, <1>6 DEF Announced, Reported, Lost
<1>9. /\ Asking' <=> Asking
      /\ Given' <=> Given
      /\ Sent' <=> Sent
      /\ Done' <=> Done
      /\ Listed' <=> Listed
      /\ Collecting' <=> Collecting
      /\ WorkerAlive' <=> WorkerAlive
  BY <1>2 DEF Asking, Given, Sent, Done, Listed, Collecting, WorkerAlive
<1>10. Channels'
  <2>1. Ordered(<<>>)
    BY DEF Ordered
  <2> QED BY <1>2, <1>3, <1>6, <2>1, Nothing DEF IInv, Channels
<1>11. OnePlace' /\ OneResult'
  BY <1>1, <1>2, <1>7, <1>8, <1>9 DEF IInv, OnePlace, OneResult
<1>12. SandboxInv'
  BY <1>2, <1>9 DEF IInv, SandboxInv, HasSandboxes
<1>13. About(from_worker, "WorkerDone", NoJob) /\ About(sched_in', "WorkerResult", NoJob)
  BY <1>3, <1>5, <1>6, Nothing
<1>14. Busy'
  BY <1>1, <1>2, <1>5, <1>7, <1>8, <1>9, <1>13 DEF Busy
<1>15. LostLast'
  BY <1>2, <1>8, <1>9 DEF IInv, LostLast
<1>16. Unanswered'
  <2>1. \A j \in todo' : answered[j] = 0 /\ j # NoJob
    BY <1>1, WorkerAssumption DEF IInv, Types, Unanswered
  <2> QED BY <1>1, <1>2, <2>1 DEF IInv, Unanswered
<1> QED BY <1>10, <1>11, <1>12, <1>14, <1>15, <1>16 DEF IInv

(* The worker manager forwards a job, unless the worker is gone. *)
LEMMA ForwardStep ==
    ASSUME IInv, Types', WmForward, Receives(wm_in, "WorkerJob") PROVE IInv'
<1>1. /\ wm_in \in Seq(Message) /\ wm_in # <<>> /\ wm_in' = Tail(wm_in)
      /\ Head(wm_in).type = "WorkerJob" /\ to_worker \in Seq(Message)
  BY DEF WmForward, Receives, IInv, Types
<1>2. UNCHANGED <<view, view_job, todo, answered, sched_up, sched_in, wt, wt_job, from_worker,
                  worker, job, missing_deps, asked, sandbox>>
  BY DEF WmForward, notManager, schedVars, wmVars, wtVars, workerVars, sandVars
<1>3. Given /\ ~Given' /\ Once(wm_in', "WorkerJob")
  BY <1>1, Taking DEF Given, IInv, Channels
<1>4. PICK j \in Job \cup {NoJob} : j = Head(wm_in).job
  BY <1>1, Taking, Fields
<1>5. /\ JobMsg("Work", j) \in Message /\ JobMsg("Work", j).type = "Work"
      /\ JobMsg("Work", j).job = j
  BY Kinds, Messages
<1>6. PICK m \in Message : m = JobMsg("Work", j)
  BY <1>5
<1>7. to_worker' = to_worker \/ to_worker' = Append(to_worker, m)
  BY <1>1, <1>4, <1>6 DEF WmForward
<1>8. ~Sent /\ job = NoJob /\ ~Asking /\ ~Announced /\ view # "free" /\ worker # "start"
      /\ ~Done /\ ~Collecting /\ ~Reported
  BY <1>3 DEF IInv, OnePlace, OneResult
<1>9. WorkerAlive => j = view_job
  BY <1>1, <1>4, Taking DEF IInv, Busy
<1>10. /\ Once(to_worker', "Work") /\ Once(to_worker', "AskFiles") /\ (Listed' <=> Listed)
       /\ WorkerAlive => About(to_worker', "Work", view_job)
  <2>1. /\ Once(to_worker, "Work") /\ Once(to_worker, "AskFiles") /\ ~Has(to_worker, "Work")
        /\ About(to_worker, "Work", j)
    BY <1>8, Nothing DEF IInv, Channels, Sent
  <2>2. /\ Once(Append(to_worker, m), "Work") /\ About(Append(to_worker, m), "Work", j)
        /\ Once(Append(to_worker, m), "AskFiles")
        /\ Has(Append(to_worker, m), "AskFiles") <=> Has(to_worker, "AskFiles")
    BY <1>1, <1>5, <1>6, <2>1, Adding
  <2> QED BY <1>7, <1>9, <2>1, <2>2 DEF Listed
<1>11. /\ Asking' <=> Asking
       /\ Announced' <=> Announced
       /\ Reported' <=> Reported
       /\ Lost' <=> Lost
       /\ Done' <=> Done
       /\ Collecting' <=> Collecting
       /\ WorkerAlive' <=> WorkerAlive
  BY <1>2 DEF Asking, Announced, Reported, Lost, Done, Collecting, WorkerAlive
<1>12. Channels'
  BY <1>2, <1>3, <1>10 DEF IInv, Channels
<1>13. OnePlace' /\ OneResult'
  BY <1>2, <1>3, <1>8, <1>11 DEF IInv, OnePlace, OneResult, Doing
<1>14. SandboxInv'
  BY <1>2, <1>10, <1>11 DEF IInv, SandboxInv, HasSandboxes
<1>15. About(wm_in', "WorkerJob", view_job)
  BY <1>3, Nothing DEF Given
<1>16. Busy'
  BY <1>2, <1>3, <1>8, <1>10, <1>11, <1>15 DEF IInv, Busy, Doing, DoneWith, ThreadOver
<1>17. LostLast'
  BY <1>2, <1>11 DEF IInv, LostLast
<1>18. Unanswered'
  BY <1>2 DEF IInv, Unanswered
<1> QED BY <1>12, <1>13, <1>14, <1>16, <1>17, <1>18 DEF IInv

-----------------------------------------------------------------------------
(* The thread of the worker moves the tokens *)

(* A channel from which a message is taken has no more of any token. *)
Fewer(s, r) ==
    \A t \in Token : /\ Has(r, t) => Has(s, t)
                     /\ Once(s, t) => Once(r, t)
                     /\ \A j : About(s, t, j) => About(r, t, j)

(* Reading a message. *)
LEMMA FewerTaking == ASSUME NEW s \in Seq(Message), s # <<>> PROVE Fewer(s, Tail(s))
  BY Taking DEF Fewer

(* The thread leaves its loop: what it was doing is lost. *)
LEMMA EndStep ==
    ASSUME IInv, Types', EndThread, ~ThreadOver,
           UNCHANGED <<view, view_job, todo, answered, sched_up, worker, job, missing_deps, asked, sandbox>>,
           Fewer(from_worker, from_worker'),
           Sent' <=> Sent, Once(to_worker', "Work"), Once(to_worker', "AskFiles"),
           \A j : About(to_worker, "Work", j) => About(to_worker', "Work", j),
           Listed' => Listed \/ Done, Done' => ~Listed',
           sched_up => from_worker' = <<>> /\ ~WorkerAlive
    PROVE  IInv'
<1>1. /\ sched_in \in Seq(Message) /\ wm_in \in Seq(Message)
      /\ Msg("WorkerDisconnected") \in Message /\ Msg("WorkerDisconnected").type = "WorkerDisconnected"
  BY Kinds, Messages DEF IInv, Types
<1>2. PICK m \in Message : m = Msg("WorkerDisconnected")
  BY <1>1
<1>3. /\ wt' = "ended" /\ ThreadOver' /\ ~Collecting'
      /\ wm_in' = Append(wm_in, m)
      /\ sched_in' = IF sched_up THEN Append(sched_in, m) ELSE sched_in
  BY <1>2 DEF EndThread, ThreadOver, Collecting
<1>4. ~Lost
  BY DEF IInv, LostLast, ThreadOver
<1>5. SameTokens(wm_in, wm_in')
  BY <1>1, <1>2, <1>3, SameAdding DEF Token
<1>6. /\ Announced' <=> Announced
      /\ Reported' <=> Reported
      /\ Once(sched_in', "WorkerConnected") /\ Once(sched_in', "WorkerResult")
      /\ About(sched_in', "WorkerResult", view_job)
      /\ Ordered(sched_in')
      /\ Lost' => sched_up
  <2>0. /\ Once(sched_in, "WorkerConnected") /\ Once(sched_in, "WorkerResult")
        /\ About(sched_in, "WorkerResult", view_job) /\ Ordered(sched_in)
    BY DEF IInv, Channels, Busy
  <2>1. CASE ~sched_up
    BY <1>3, <1>4, <2>0, <2>1 DEF Announced, Reported, Lost
  <2>2. CASE sched_up
    <3>1. /\ Has(Append(sched_in, m), "WorkerConnected") <=> Has(sched_in, "WorkerConnected")
          /\ Has(Append(sched_in, m), "WorkerResult") <=> Has(sched_in, "WorkerResult")
          /\ Once(Append(sched_in, m), "WorkerConnected") /\ Once(Append(sched_in, m), "WorkerResult")
          /\ About(Append(sched_in, m), "WorkerResult", view_job)
      BY <1>1, <1>2, <2>0, Adding
    <3>2. Ordered(Append(sched_in, m))
      BY <1>1, <1>2, <1>4, <2>0, OrderAdding DEF Lost
    <3> QED BY <1>3, <2>2, <3>1, <3>2 DEF Announced, Reported
  <2> QED BY <2>1, <2>2
<1>7. /\ Given' <=> Given
      /\ Asking' => Asking
      /\ Done' => Done
      /\ Doing' <=> Doing
      /\ WorkerAlive' <=> WorkerAlive
  BY <1>5 DEF SameTokens, Fewer, Token, Given, Asking, Done, Doing, WorkerAlive
<1>8. /\ Once(from_worker', "GetWork") /\ Once(from_worker', "WorkerDone") /\ Once(wm_in', "WorkerJob")
      /\ About(from_worker', "WorkerDone", view_job)
      /\ WorkerAlive => About(wm_in', "WorkerJob", view_job) /\ About(to_worker', "Work", view_job)
  BY <1>5 DEF SameTokens, Fewer, Token, IInv, Channels, Busy
<1>9. Channels'
  BY <1>6, <1>8 DEF Channels
<1>10. OnePlace'
  BY <1>6, <1>7 DEF IInv, OnePlace
<1>11. OneResult'
  BY <1>3, <1>6, <1>7 DEF IInv, OneResult
<1>12. SandboxInv'
  BY <1>7 DEF IInv, SandboxInv, HasSandboxes
<1>13. Busy'
  BY <1>3, <1>6, <1>7, <1>8 DEF IInv, Busy
<1>14. LostLast'
  BY <1>3, <1>6, <1>7 DEF LostLast
<1>15. Unanswered'
  BY DEF IInv, Unanswered
<1> QED BY <1>9, <1>10, <1>11, <1>12, <1>13, <1>14, <1>15 DEF IInv

(* The thread closes when the worker is gone. *)
LEMMA ClosedStep == ASSUME IInv, Types', WtClosed PROVE IInv'
<1>1. /\ UNCHANGED <<view, view_job, todo, answered, sched_up, worker, job, missing_deps, asked, sandbox,
                     from_worker, to_worker>>
      /\ EndThread /\ ~ThreadOver /\ from_worker = <<>> /\ ~WorkerAlive
  BY DEF WtClosed, ThreadOver, notThread, schedVars, wmVars, workerVars, sandVars
<1>2. Fewer(from_worker, from_worker')
  BY <1>1 DEF Fewer
<1>3. /\ Sent' <=> Sent
      /\ Listed' <=> Listed
      /\ Done' <=> Done
      /\ Once(to_worker', "Work") /\ Once(to_worker', "AskFiles")
  BY <1>1 DEF Sent, Listed, Done, IInv, Channels
<1>4. Done' => ~Listed'
  BY <1>3 DEF IInv, OneResult
<1> QED BY <1>1, <1>2, <1>3, <1>4, EndStep

(* The worker asks for work: the scheduler hears of it, if it is there. *)
LEMMA GetWorkStep == ASSUME IInv, Types', WtGetWork PROVE IInv'
<1>1. /\ from_worker \in Seq(Message) /\ from_worker # <<>> /\ from_worker' = Tail(from_worker)
      /\ Head(from_worker).type = "GetWork" /\ wt = "receiving" /\ sched_in \in Seq(Message)
  BY DEF WtGetWork, Receives, IInv, Types
<1>2. UNCHANGED <<view, view_job, todo, answered, sched_up, worker, job, missing_deps, asked, sandbox,
                  to_worker, wt_job>>
  BY DEF WtGetWork, notThread, schedVars, wmVars, workerVars, sandVars
<1>3. Asking /\ ~Asking' /\ Once(from_worker', "GetWork")
  BY <1>1, Taking DEF Asking, IInv, Channels
<1>4. Fewer(from_worker, from_worker')
  BY <1>1, FewerTaking
<1>5. /\ Sent' <=> Sent
      /\ Listed' <=> Listed
      /\ Done' => Done
      /\ Once(to_worker', "Work") /\ Once(to_worker', "AskFiles")
      /\ ~Collecting /\ ~Lost /\ ~ThreadOver
  BY <1>1, <1>2, <1>4
     DEF Fewer, Token, Sent, Listed, Done, IInv, Channels, Collecting, LostLast, ThreadOver
<1>6. Done' => ~Listed'
  BY <1>5 DEF IInv, OneResult
<1>7. CASE ~sched_up
  <2>1. EndThread
    BY <1>7 DEF WtGetWork
  <2> QED BY <1>2, <1>4, <1>5, <1>6, <1>7, <2>1, EndStep
<1>8. CASE sched_up
  <2>1. /\ Msg("WorkerConnected") \in Message /\ Msg("WorkerConnected").type = "WorkerConnected"
        /\ sched_in' = Append(sched_in, Msg("WorkerConnected")) /\ UNCHANGED <<wt, wm_in>>
    BY <1>8, Kinds, Messages DEF WtGetWork
  <2>2. PICK m \in Message : m = Msg("WorkerConnected")
    BY <2>1
  <2>3. ~Announced /\ view # "free" /\ ~Given /\ ~Sent /\ job = NoJob /\ ~Done /\ worker # "start"
    BY <1>3 DEF IInv, OnePlace, OneResult
  <2>4. /\ Announced' /\ (Reported' <=> Reported) /\ ~Lost'
        /\ Once(sched_in', "WorkerConnected") /\ Once(sched_in', "WorkerResult")
        /\ About(sched_in', "WorkerResult", view_job)
    <3>1. /\ Once(sched_in, "WorkerConnected") /\ Once(sched_in, "WorkerResult")
          /\ About(sched_in, "WorkerResult", view_job) /\ ~Has(sched_in, "WorkerConnected")
          /\ ~Has(sched_in, "WorkerDisconnected")
      BY <1>5, <2>3 DEF IInv, Channels, Busy, Announced, Lost
    <3>2. /\ Has(Append(sched_in, m), "WorkerConnected")
          /\ Has(Append(sched_in, m), "WorkerResult") <=> Has(sched_in, "WorkerResult")
          /\ ~Has(Append(sched_in, m), "WorkerDisconnected")
          /\ Once(Append(sched_in, m), "WorkerConnected") /\ Once(Append(sched_in, m), "WorkerResult")
          /\ About(Append(sched_in, m), "WorkerResult", view_job)
      BY <1>1, <2>1, <2>2, <3>1, Adding
    <3> QED BY <2>1, <2>2, <3>2 DEF Announced, Reported, Lost
  <2>5. Ordered(sched_in')
    BY <1>1, <1>5, <2>1, <2>2, OrderAdding DEF IInv, Channels, Lost
  <2>6. /\ Once(from_worker', "WorkerDone") /\ About(from_worker', "WorkerDone", view_job)
    BY <1>4 DEF Fewer, Token, IInv, Channels, Busy
  <2>7. /\ Given' <=> Given
        /\ Collecting' <=> Collecting
        /\ WorkerAlive' <=> WorkerAlive
    BY <1>2, <2>1 DEF Given, Collecting, WorkerAlive
  <2>8. Channels'
    BY <1>2, <1>3, <2>1, <2>4, <2>5, <2>6 DEF IInv, Channels
  <2>9. OnePlace' /\ OneResult'
    BY <1>2, <1>3, <1>5, <2>3, <2>4, <2>7 DEF OnePlace, OneResult, Doing
  <2>10. SandboxInv'
    BY <1>2, <1>5, <2>7 DEF IInv, SandboxInv, HasSandboxes
  <2>11. view = "busy" => Reported
    BY <1>3, <1>5, <2>3 DEF IInv, Busy
  <2>12. Busy'
    BY <1>2, <1>3, <1>5, <2>1, <2>3, <2>4, <2>6, <2>7, <2>11 DEF IInv, Busy, Doing, DoneWith
  <2>13. LostLast'
    BY <1>1, <2>1, <2>4 DEF LostLast
  <2>14. Unanswered'
    BY <1>2 DEF IInv, Unanswered
  <2> QED BY <2>8, <2>9, <2>10, <2>12, <2>13, <2>14 DEF IInv
<1> QED BY <1>7, <1>8

(* A result is reported once nothing is missing, and nothing comes before it. *)
LEMMA ReportStep ==
    ASSUME IInv, Types', Done \/ Collecting, ~ThreadOver, ReportResult(view_job), ~Done', sched_up,
           UNCHANGED <<view, view_job, todo, answered, sched_up, worker, job, missing_deps, asked, sandbox>>,
           Fewer(from_worker, from_worker'),
           Sent' <=> Sent, Once(to_worker', "Work"), Once(to_worker', "AskFiles"),
           \A j : About(to_worker, "Work", j) => About(to_worker', "Work", j),
           Listed' => Listed \/ Done
    PROVE  IInv'
<1>1. /\ view = "busy" /\ view_job \in Job /\ ~Given /\ ~Sent /\ ~Doing /\ ~Announced /\ ~Reported /\ ~Lost
  BY DEF IInv, Types, OneResult, Busy, LostLast, ThreadOver
<1>2. /\ sched_in \in Seq(Message)
      /\ JobMsg("WorkerResult", view_job) \in Message /\ JobMsg("WorkerResult", view_job).type = "WorkerResult"
      /\ JobMsg("WorkerResult", view_job).job = view_job
  BY <1>1, Kinds, Messages DEF IInv, Types
<1>3. PICK m \in Message : m = JobMsg("WorkerResult", view_job)
  BY <1>2
<1>4. sched_in' = Append(sched_in, m) /\ wt' = "receiving" /\ wm_in' = wm_in
  BY <1>3 DEF ReportResult
<1>5. /\ Reported' /\ ~Announced' /\ ~Lost'
      /\ Once(sched_in', "WorkerConnected") /\ Once(sched_in', "WorkerResult")
      /\ About(sched_in', "WorkerResult", view_job)
  <2>1. /\ Once(sched_in, "WorkerConnected") /\ Once(sched_in, "WorkerResult")
        /\ About(sched_in, "WorkerResult", view_job) /\ ~Has(sched_in, "WorkerConnected")
        /\ ~Has(sched_in, "WorkerDisconnected") /\ ~Has(sched_in, "WorkerResult")
    BY <1>1 DEF IInv, Channels, Busy, Announced, Reported, Lost
  <2>2. /\ Has(Append(sched_in, m), "WorkerResult")
        /\ ~Has(Append(sched_in, m), "WorkerConnected")
        /\ ~Has(Append(sched_in, m), "WorkerDisconnected")
        /\ Once(Append(sched_in, m), "WorkerConnected") /\ Once(Append(sched_in, m), "WorkerResult")
        /\ About(Append(sched_in, m), "WorkerResult", view_job)
    BY <1>2, <1>3, <2>1, Adding
  <2> QED BY <1>4, <2>2 DEF Announced, Reported, Lost
<1>6. Ordered(sched_in')
  BY <1>1, <1>2, <1>4, OrderAdding DEF IInv, Channels, Lost, Announced
<1>7. /\ Once(from_worker', "GetWork") /\ Once(from_worker', "WorkerDone")
      /\ About(from_worker', "WorkerDone", view_job) /\ (Asking' => Asking)
  BY DEF Fewer, Token, IInv, Channels, Busy, Asking
<1>8. /\ Given' <=> Given
      /\ Doing' <=> Doing
      /\ WorkerAlive' <=> WorkerAlive
      /\ ~Collecting' /\ ~ThreadOver'
  BY <1>4 DEF Given, Doing, Collecting, WorkerAlive, ThreadOver
<1>9. Channels'
  BY <1>4, <1>5, <1>6, <1>7 DEF IInv, Channels
<1>10. OnePlace' /\ OneResult'
  BY <1>1, <1>5, <1>7, <1>8 DEF IInv, OnePlace, OneResult
<1>11. SandboxInv'
  BY <1>8 DEF IInv, SandboxInv, HasSandboxes
<1>12. Busy'
  BY <1>1, <1>4, <1>5, <1>7, <1>8 DEF IInv, Busy
<1>13. LostLast'
  BY <1>4, <1>5 DEF LostLast
<1>14. Unanswered'
  BY DEF IInv, Unanswered
<1> QED BY <1>9, <1>10, <1>11, <1>12, <1>13, <1>14 DEF IInv

(* The last output is stored: the result is reported. *)
LEMMA StoredStep ==
    ASSUME IInv, Types', WtStorePiece, ReportResult(wt_job) PROVE IInv'
<1>1. /\ from_worker \in Seq(Message) /\ from_worker # <<>> /\ from_worker' = Tail(from_worker)
      /\ IsRaw(Head(from_worker)) /\ wt = "storing"
      /\ UNCHANGED <<view, view_job, todo, answered, sched_up, worker, job, missing_deps, asked, sandbox,
                     to_worker>>
  BY DEF WtStorePiece, notThread, schedVars, wmVars, workerVars, sandVars, IInv, Types
<1>2. Collecting /\ ~ThreadOver /\ ~Done /\ wt_job = view_job
  BY <1>1 DEF Collecting, ThreadOver, IInv, OneResult, Busy
<1>3. Fewer(from_worker, from_worker')
  BY <1>1, FewerTaking
<1>4. /\ Sent' <=> Sent
      /\ Listed' <=> Listed
      /\ ~Done'
      /\ Once(to_worker', "Work") /\ Once(to_worker', "AskFiles")
  BY <1>1, <1>2, <1>3 DEF Fewer, Token, Sent, Listed, Done, IInv, Channels
<1>5. CASE sched_up
  BY <1>1, <1>2, <1>3, <1>4, <1>5, ReportStep
<1>6. CASE ~sched_up
  <2>1. EndThread
    BY <1>6 DEF ReportResult
  <2> QED BY <1>1, <1>2, <1>3, <1>4, <1>6, <2>1, EndStep
<1> QED BY <1>5, <1>6

(* The result of a job arrives: it is the job that the scheduler gave the worker. *)
LEMMA DoneStep == ASSUME IInv, Types', WtWorkerDone PROVE IInv'
<1> DEFINE missing == {f \in Head(from_worker).files : KeyOf[f] \notin server_files}
<1>1. /\ from_worker \in Seq(Message) /\ from_worker # <<>> /\ from_worker' = Tail(from_worker)
      /\ Head(from_worker).type = "WorkerDone" /\ wt = "receiving" /\ to_worker \in Seq(Message)
  BY DEF WtWorkerDone, Receives, IInv, Types
<1>2. UNCHANGED <<view, view_job, todo, answered, sched_up, worker, job, missing_deps, asked, sandbox>>
  BY DEF WtWorkerDone, notThread, schedVars, wmVars, workerVars, sandVars
<1>3. Done /\ ~Done' /\ Once(from_worker', "WorkerDone")
  BY <1>1, Taking DEF Done, IInv, Channels
<1>4. Head(from_worker).job = view_job
  BY <1>1, Taking DEF IInv, Busy
<1>5. Fewer(from_worker, from_worker')
  BY <1>1, FewerTaking
<1>6. PICK S \in SUBSET File : S = missing
  BY <1>1, Taking, Fields
<1>7. [Msg("AskFiles") EXCEPT !.files = S] \in Message
      /\ [Msg("AskFiles") EXCEPT !.files = S].type = "AskFiles"
  BY Kinds, Messages
<1>8. PICK m \in Message : m = [Msg("AskFiles") EXCEPT !.files = S]
  BY <1>7
<1>9. /\ to_worker' = Append(to_worker, m) /\ wt_job' = view_job
      /\ \/ S = {} /\ ReportResult(view_job)
         \/ S # {} /\ wt' = "collecting" /\ UNCHANGED <<sched_in, wm_in>>
  BY <1>4, <1>6, <1>8 DEF WtWorkerDone
<1>10. /\ view = "busy" /\ view_job \in Job /\ ~Given /\ ~Sent /\ ~Doing /\ ~Announced /\ ~Reported /\ ~Lost
       /\ ~Asking /\ ~Listed /\ ~Collecting /\ ~ThreadOver
  BY <1>1, <1>3 DEF IInv, Types, OneResult, Busy, LostLast, ThreadOver
<1>11. /\ Sent' <=> Sent
       /\ Listed' /\ Once(to_worker', "Work") /\ Once(to_worker', "AskFiles")
       /\ \A j : About(to_worker, "Work", j) => About(to_worker', "Work", j)
  <2>1. Once(to_worker, "Work") /\ Once(to_worker, "AskFiles") /\ ~Has(to_worker, "AskFiles")
    BY <1>10 DEF IInv, Channels, Listed
  <2>2. m.type = "AskFiles"
    BY <1>7, <1>8
  <2>3. /\ Has(Append(to_worker, m), "AskFiles") /\ Once(Append(to_worker, m), "AskFiles")
    BY <1>1, <2>1, <2>2, Adding
  <2>4. /\ Has(Append(to_worker, m), "Work") <=> Has(to_worker, "Work")
        /\ Once(Append(to_worker, m), "Work")
        /\ \A j : About(to_worker, "Work", j) => About(Append(to_worker, m), "Work", j)
    BY <1>1, <2>1, <2>2, Adding
  <2> QED BY <1>9, <2>3, <2>4 DEF Sent, Listed
<1>12. CASE S = {} /\ sched_up
  BY <1>2, <1>3, <1>5, <1>9, <1>10, <1>11, <1>12, ReportStep
<1>13. CASE S = {} /\ ~sched_up
  <2>1. EndThread
    BY <1>9, <1>13 DEF ReportResult
  <2> QED BY <1>2, <1>3, <1>5, <1>10, <1>11, <1>13, <2>1, EndStep
<1>14. CASE S # {}
  <2>1. wt' = "collecting" /\ UNCHANGED <<sched_in, wm_in>>
    BY <1>9, <1>14
  <2>2. /\ Announced' <=> Announced
        /\ Reported' <=> Reported
        /\ Lost' <=> Lost
        /\ Given' <=> Given
        /\ Doing' <=> Doing
        /\ WorkerAlive' <=> WorkerAlive
        /\ Collecting' /\ ~ThreadOver'
    BY <1>2, <2>1 DEF Announced, Reported, Lost, Given, Doing, Collecting, WorkerAlive, ThreadOver
  <2>3. /\ Once(from_worker', "GetWork") /\ About(from_worker', "WorkerDone", view_job) /\ ~Asking'
    BY <1>5, <1>10 DEF Fewer, Token, IInv, Channels, Busy, Asking
  <2>4. Channels'
    BY <1>3, <1>11, <2>1, <2>3 DEF IInv, Channels
  <2>5. OnePlace' /\ OneResult'
    BY <1>2, <1>3, <1>10, <1>11, <2>2, <2>3 DEF IInv, OnePlace, OneResult
  <2>6. SandboxInv'
    BY <1>2, <1>3, <2>2 DEF IInv, SandboxInv, HasSandboxes
  <2>7. Busy'
    BY <1>2, <1>9, <1>10, <1>11, <2>1, <2>2, <2>3 DEF IInv, Busy
  <2>8. LostLast'
    BY <1>10, <2>1, <2>2 DEF LostLast
  <2>9. Unanswered'
    BY <1>2 DEF IInv, Unanswered
  <2> QED BY <2>4, <2>5, <2>6, <2>7, <2>8, <2>9 DEF IInv
<1> QED BY <1>12, <1>13, <1>14

-----------------------------------------------------------------------------
(* The worker and its sandbox thread move the tokens *)

(* The worker asks for work for the first time. *)
LEMMA StartStep == ASSUME IInv, Types', WorkerStart PROVE IInv'
<1>1. /\ from_worker \in Seq(Message) /\ worker = "start" /\ worker' = "receiving"
      /\ from_worker' = Append(from_worker, Msg("GetWork"))
      /\ Msg("GetWork") \in Message /\ Msg("GetWork").type = "GetWork"
  BY Kinds, Messages DEF WorkerStart, IInv, Types
<1>2. UNCHANGED <<view, view_job, todo, answered, sched_up, sched_in, wm_in, wt, wt_job, to_worker,
                  job, missing_deps, asked, sandbox>>
  BY DEF WorkerStart, notWorker, schedVars, wmVars, wtVars, sandVars
<1>3. PICK m \in Message : m = Msg("GetWork")
  BY <1>1
<1>4. /\ ~Asking /\ ~Announced /\ view = "absent" /\ ~Given /\ ~Sent /\ job = NoJob
      /\ WorkerAlive /\ WorkerAlive'
  BY <1>1 DEF IInv, OnePlace, WorkerAlive
<1>5. ~Done /\ ~Listed /\ ~Lost /\ ~(wt = "ended" /\ sched_up)
  BY <1>1, <1>4 DEF IInv, SandboxInv, HasSandboxes, LostLast
<1>6. /\ Asking' /\ Once(from_worker', "GetWork") /\ ~Done'
  BY <1>1, <1>3, <1>4, <1>5, Adding, Nothing DEF Asking, Done
<1>7. Once(from_worker', "WorkerDone") /\ About(from_worker', "WorkerDone", view_job)
  BY <1>6, Nothing DEF Done
<1>8. /\ Announced' <=> Announced
      /\ Reported' <=> Reported
      /\ Lost' <=> Lost
      /\ Given' <=> Given
      /\ Sent' <=> Sent
      /\ Listed' <=> Listed
      /\ Collecting' <=> Collecting
  BY <1>2 DEF Announced, Reported, Lost, Given, Sent, Listed, Collecting
<1>9. Channels'
  BY <1>2, <1>6, <1>7 DEF IInv, Channels
<1>10. OnePlace' /\ OneResult'
  BY <1>1, <1>2, <1>4, <1>5, <1>6, <1>8 DEF IInv, OnePlace, OneResult, Doing
<1>11. SandboxInv'
  BY <1>1, <1>2, <1>4, <1>5, <1>6, <1>8 DEF IInv, SandboxInv, HasSandboxes
<1>12. Busy'
  BY <1>2, <1>4, <1>6, <1>7, <1>8 DEF IInv, Busy, Doing
<1>13. LostLast'
  BY <1>2, <1>5, <1>8 DEF LostLast
<1>14. Unanswered'
  BY <1>2 DEF IInv, Unanswered
<1> QED BY <1>9, <1>10, <1>11, <1>12, <1>13, <1>14 DEF IInv

(* The worker takes the job that the scheduler gave it. *)
LEMMA WorkStep == ASSUME IInv, Types', WorkerWork PROVE IInv'
<1>1. PICK j \in Job : j = view_job /\ j = Head(to_worker).job
  BY WorkRead
<1>2. /\ view = "busy" /\ Sent /\ Once(to_worker, "Work") /\ to_worker # <<>>
      /\ to_worker \in Seq(Message) /\ from_worker \in Seq(Message) /\ j # NoJob
  BY WorkRead, WorkerAssumption DEF IInv, Types
<1>3. /\ to_worker' = Tail(to_worker) /\ Head(to_worker).type = "Work" /\ job' = j
      /\ worker = "receiving" /\ job = NoJob /\ sandbox \in {"idle", "ended"}
      /\ \/ missing_deps' = {} /\ sandbox' = "running" /\ asked' = "open"
         \/ sandbox' = "idle" /\ asked' = asked
  BY <1>1 DEF WorkerWork, Receives, StartJob
<1>4. UNCHANGED <<view, view_job, todo, answered, sched_up, sched_in, wm_in, wt, wt_job, worker>>
  BY DEF WorkerWork, notWorker, schedVars, wmVars, wtVars
<1>5. PICK s \in FilesToAsk(j) : from_worker' = from_worker \o [n \in DOMAIN s |-> KeyMsg("AskFile", s[n])]
  BY <1>1 DEF WorkerWork
<1>6. SameTokens(from_worker, from_worker')
  BY <1>2, <1>5, Requests
<1>7. ~Sent' /\ Once(to_worker', "Work") /\ Once(to_worker', "AskFiles") /\ (Listed' => Listed)
  BY <1>2, <1>3, Taking DEF Sent, Listed, IInv, Channels
<1>8. /\ ~Asking /\ ~Announced /\ ~Given /\ WorkerAlive /\ WorkerAlive'
      /\ ~Done /\ ~Collecting /\ ~Reported
  BY <1>2, <1>3, <1>4 DEF IInv, OnePlace, OneResult, WorkerAlive
<1>9. ~Listed /\ asked # "dropped" /\ ~Lost /\ ~(wt = "ended" /\ sched_up)
  BY <1>3, <1>8 DEF IInv, SandboxInv, LostLast
<1>10. /\ Asking' <=> Asking
       /\ Done' <=> Done
       /\ Announced' <=> Announced
       /\ Reported' <=> Reported
       /\ Lost' <=> Lost
       /\ Given' <=> Given
       /\ Collecting' <=> Collecting
       /\ Doing' /\ ~DoneWith'
  BY <1>2, <1>3, <1>4, <1>6
     DEF SameTokens, Token, Asking, Done, Announced, Reported, Lost, Given, Collecting, Doing, DoneWith
<1>11. Channels'
  BY <1>4, <1>6, <1>7 DEF SameTokens, Token, IInv, Channels
<1>12. OnePlace' /\ OneResult'
  BY <1>2, <1>3, <1>4, <1>7, <1>8, <1>9, <1>10 DEF OnePlace, OneResult
<1>13. SandboxInv'
  BY <1>2, <1>3, <1>4, <1>7, <1>8, <1>9, <1>10 DEF SandboxInv, HasSandboxes
<1>14. /\ About(from_worker', "WorkerDone", view_job) /\ About(to_worker', "Work", view_job)
       /\ About(wm_in', "WorkerJob", view_job)
  BY <1>7, <1>8, <1>10, Nothing DEF Done, Sent, Given
<1>15. Busy'
  BY <1>1, <1>2, <1>3, <1>4, <1>7, <1>8, <1>10, <1>14 DEF IInv, Busy
<1>16. LostLast'
  BY <1>4, <1>9, <1>10 DEF LostLast
<1>17. Unanswered'
  BY <1>4 DEF IInv, Unanswered
<1> QED BY <1>11, <1>12, <1>13, <1>15, <1>16, <1>17 DEF IInv

(* The steps of the worker and of the sandbox thread that leave the tokens of the *)
(* channels alone, but for the list of the outputs                                *)
LEMMA InsideStep ==
    ASSUME IInv, Types', WorkerAlive, WorkerAlive', SandboxInv',
           UNCHANGED <<view, view_job, todo, answered, sched_up, sched_in, wm_in, wt, wt_job, from_worker>>,
           worker' # "start", job' \in {job, NoJob}, Doing' => Doing, DoneWith' => DoneWith,
           Sent' <=> Sent, Listed' => Listed, Once(to_worker', "Work"), Once(to_worker', "AskFiles"),
           \A j : About(to_worker, "Work", j) => About(to_worker', "Work", j)
    PROVE  IInv'
<1>1. /\ Asking' <=> Asking
      /\ Done' <=> Done
      /\ Announced' <=> Announced
      /\ Reported' <=> Reported
      /\ Lost' <=> Lost
      /\ Given' <=> Given
      /\ Collecting' <=> Collecting
  BY DEF Asking, Done, Announced, Reported, Lost, Given, Collecting
<1>2. Doing' => job' = job
  BY DEF Doing
<1>3. Channels'
  BY DEF IInv, Channels
<1>4. OnePlace'
  BY <1>1 DEF IInv, OnePlace
<1>5. OneResult'
  BY <1>1 DEF IInv, OneResult
<1>6. Busy'
  BY <1>1, <1>2 DEF IInv, Busy, ThreadOver
<1>7. LostLast'
  BY <1>1 DEF IInv, LostLast
<1>8. Unanswered'
  BY DEF IInv, Unanswered
<1> QED BY <1>3, <1>4, <1>5, <1>6, <1>7, <1>8 DEF IInv

(* A file is complete: the job may start. *)
LEMMA CompleteStep ==
    ASSUME IInv, Types', WorkerStorePiece, Head(to_worker).type = "eof" PROVE IInv'
<1>1. /\ to_worker \in Seq(Message) /\ to_worker # <<>> /\ to_worker' = Tail(to_worker)
      /\ worker = "storing" /\ worker' = "receiving" /\ missing_deps # {}
      /\ missing_deps' \subseteq missing_deps
      /\ \/ missing_deps' = {} /\ sandbox' = "running" /\ asked' = "open"
         \/ sandbox' = sandbox /\ asked' = asked
  BY DEF WorkerStorePiece, StartJob, IInv, Types
<1>2. UNCHANGED <<view, view_job, todo, answered, sched_up, sched_in, wm_in, wt, wt_job, from_worker, job>>
  BY DEF WorkerStorePiece, notWorker, schedVars, wmVars, wtVars
<1>3. job # NoJob /\ sandbox = "idle" /\ WorkerAlive /\ WorkerAlive' /\ asked # "dropped" /\ ~Done /\ ~Listed
  BY <1>1 DEF IInv, SandboxInv, WorkerAlive
<1>4. SameTokens(to_worker, to_worker')
  BY <1>1, SameTaking DEF Token
<1>5. /\ Sent' <=> Sent
      /\ Listed' <=> Listed
      /\ Done' <=> Done
      /\ Once(to_worker', "Work") /\ Once(to_worker', "AskFiles")
      /\ \A j : About(to_worker, "Work", j) => About(to_worker', "Work", j)
  BY <1>2, <1>4 DEF SameTokens, Token, Sent, Listed, Done, IInv, Channels
<1>6. (Doing' => Doing) /\ (DoneWith' => DoneWith)
  BY <1>1, <1>2, <1>3 DEF Doing, DoneWith
<1>7. SandboxInv'
  BY <1>1, <1>2, <1>3, <1>5 DEF SandboxInv, HasSandboxes
<1> QED BY <1>1, <1>2, <1>3, <1>5, <1>6, <1>7, InsideStep

(* The list of the outputs arrives while the sandbox thread waits for it. *)
LEMMA ListStep == ASSUME IInv, Types', WorkerAskFiles PROVE IInv'
<1>1. /\ to_worker \in Seq(Message) /\ to_worker # <<>> /\ to_worker' = Tail(to_worker)
      /\ Head(to_worker).type = "AskFiles" /\ worker = "receiving"
      /\ asked' = IF asked = "open" THEN "filled" ELSE asked
  BY DEF WorkerAskFiles, Receives, IInv, Types
<1>2. UNCHANGED <<view, view_job, todo, answered, sched_up, sched_in, wm_in, wt, wt_job, from_worker, job,
                  worker, missing_deps, sandbox>>
  BY DEF WorkerAskFiles, notWorker, schedVars, wmVars, wtVars
<1>3. Listed /\ ~Listed'
  BY <1>1, Taking DEF Listed, IInv, Channels
<1>4. /\ Sent' <=> Sent
      /\ Once(to_worker', "Work") /\ Once(to_worker', "AskFiles")
      /\ \A j : About(to_worker, "Work", j) => About(to_worker', "Work", j)
  BY <1>1, Taking DEF Sent, IInv, Channels
<1>5. WorkerAlive /\ WorkerAlive' /\ ~Done /\ (Done' <=> Done)
  BY <1>1, <1>2, <1>3 DEF WorkerAlive, Done, IInv, OneResult
<1>6. sandbox = "waiting" /\ asked = "open"
  BY <1>1, <1>3, <1>5 DEF IInv, SandboxInv
<1>7. SandboxInv'
  BY <1>1, <1>2, <1>3, <1>5, <1>6 DEF IInv, SandboxInv, HasSandboxes
<1>8. (Doing' <=> Doing) /\ (DoneWith' <=> DoneWith)
  BY <1>2 DEF Doing, DoneWith
<1> QED BY <1>1, <1>2, <1>3, <1>4, <1>5, <1>7, <1>8, InsideStep

(* The worker is told to exit, and drops the list the sandbox thread waits for. *)
LEMMA ExitStep == ASSUME IInv, Types', WorkerExit PROVE IInv'
<1>1. /\ to_worker \in Seq(Message) /\ to_worker # <<>> /\ to_worker' = Tail(to_worker)
      /\ Head(to_worker).type = "Exit" /\ worker = "receiving" /\ worker' = "leaving"
      /\ asked' = IF asked = "open" THEN "dropped" ELSE asked
  BY DEF WorkerExit, Receives, IInv, Types
<1>2. UNCHANGED <<view, view_job, todo, answered, sched_up, sched_in, wm_in, wt, wt_job, from_worker, job,
                  missing_deps, sandbox>>
  BY DEF WorkerExit, notWorker, schedVars, wmVars, wtVars, sandVars
<1>3. SameTokens(to_worker, to_worker')
  BY <1>1, SameTaking DEF Token
<1>4. /\ Sent' <=> Sent
      /\ Listed' <=> Listed
      /\ Done' <=> Done
      /\ Once(to_worker', "Work") /\ Once(to_worker', "AskFiles")
      /\ \A j : About(to_worker, "Work", j) => About(to_worker', "Work", j)
  BY <1>2, <1>3 DEF SameTokens, Token, Sent, Listed, Done, IInv, Channels
<1>5. WorkerAlive /\ WorkerAlive'
  BY <1>1 DEF WorkerAlive
<1>6. SandboxInv'
  BY <1>1, <1>2, <1>4, <1>5 DEF IInv, SandboxInv, HasSandboxes
<1>7. (Doing' <=> Doing) /\ (DoneWith' <=> DoneWith)
  BY <1>2 DEF Doing, DoneWith
<1> QED BY <1>1, <1>2, <1>4, <1>5, <1>6, <1>7, InsideStep

(* The sandbox thread gives up when the worker is leaving. *)
LEMMA AbortStep == ASSUME IInv, Types', SandboxAbort PROVE IInv'
<1>1. /\ UNCHANGED <<view, view_job, todo, answered, sched_up, sched_in, wm_in, wt, wt_job, from_worker,
                     to_worker, worker, missing_deps, asked>>
      /\ sandbox = "waiting" /\ asked = "dropped" /\ sandbox' = "ended" /\ job' = NoJob /\ WorkerAlive
  BY DEF SandboxAbort, notSandbox, notWorker, schedVars, wmVars, wtVars
<1>2. worker = "leaving" /\ missing_deps = {} /\ WorkerAlive'
  BY <1>1 DEF IInv, SandboxInv, WorkerAlive
<1>3. /\ Sent' <=> Sent
      /\ Listed' <=> Listed
      /\ Done' <=> Done
      /\ Once(to_worker', "Work") /\ Once(to_worker', "AskFiles")
  BY <1>1 DEF Sent, Listed, Done, IInv, Channels
<1>4. SandboxInv'
  BY <1>1, <1>2, <1>3 DEF SandboxInv, HasSandboxes
<1>5. ~Doing' /\ ~DoneWith'
  BY <1>1 DEF Doing, DoneWith
<1> QED BY <1>1, <1>2, <1>3, <1>4, <1>5, InsideStep

(* The sandboxes of the job end. *)
LEMMA JobDoneStep == ASSUME IInv, Types', SandboxDone PROVE IInv'
<1>1. /\ UNCHANGED <<view, view_job, todo, answered, sched_up, sched_in, wm_in, wt, wt_job,
                     to_worker, worker, missing_deps, asked, job>>
      /\ sandbox = "running" /\ sandbox' = "waiting" /\ WorkerAlive /\ from_worker \in Seq(Message)
  BY DEF SandboxDone, notSandbox, notWorker, schedVars, wmVars, wtVars, IInv, Types
<1>2. job \in Job /\ job # NoJob /\ Doing /\ missing_deps = {}
  BY <1>1, WorkerAssumption DEF IInv, Types, SandboxInv, HasSandboxes, Doing
<1>3. /\ view = "busy" /\ job = view_job /\ ~Done /\ ~Collecting /\ ~Reported
      /\ ~Asking /\ ~Announced /\ ~Given /\ ~Sent /\ worker # "start"
  BY <1>1, <1>2 DEF IInv, OnePlace, OneResult, Busy
<1>4. ~Listed /\ ~Lost /\ ~(wt = "ended" /\ sched_up)
  BY <1>1 DEF IInv, SandboxInv, LostLast
<1>5. PICK S \in SUBSET File : S = Outs[job]
  BY <1>2, WorkerAssumption
<1>6. /\ [JobMsg("WorkerDone", job) EXCEPT !.files = S] \in Message
      /\ [JobMsg("WorkerDone", job) EXCEPT !.files = S].type = "WorkerDone"
      /\ [JobMsg("WorkerDone", job) EXCEPT !.files = S].job = job
  <2>1. PICK t \in Kind : t = "WorkerDone"
    BY Kinds
  <2>2. PICK j \in Job \cup {NoJob} : j = job
    BY <1>2
  <2>3. /\ [JobMsg(t, j) EXCEPT !.files = S] \in Message
        /\ [JobMsg(t, j) EXCEPT !.files = S].type = t
        /\ [JobMsg(t, j) EXCEPT !.files = S].job = j
    BY Messages
  <2> QED BY <2>1, <2>2, <2>3
<1>7. PICK m \in Message : m = [JobMsg("WorkerDone", job) EXCEPT !.files = S]
  BY <1>6
<1>8. from_worker' = Append(from_worker, m) /\ m.type = "WorkerDone" /\ m.job = view_job
  BY <1>3, <1>5, <1>6, <1>7 DEF SandboxDone
<1>9. ~Asking' /\ Once(from_worker', "GetWork")
  <2>1. ~Has(from_worker', "GetWork")
    BY <1>1, <1>3, <1>8, Adding DEF Asking
  <2> QED BY <2>1, Nothing DEF Asking
<1>10. Done' /\ Once(from_worker', "WorkerDone") /\ About(from_worker', "WorkerDone", view_job)
  <2>1. /\ ~Has(from_worker, "WorkerDone")
        /\ Once(from_worker, "WorkerDone") /\ About(from_worker, "WorkerDone", view_job)
    BY <1>3, Nothing DEF Done
  <2>2. /\ Has(Append(from_worker, m), "WorkerDone") /\ Once(Append(from_worker, m), "WorkerDone")
        /\ About(Append(from_worker, m), "WorkerDone", view_job)
    BY <1>1, <1>8, <2>1, Adding
  <2> QED BY <1>8, <2>2 DEF Done
<1>11. /\ Announced' <=> Announced
       /\ Reported' <=> Reported
       /\ Lost' <=> Lost
       /\ Given' <=> Given
       /\ Sent' <=> Sent
       /\ Listed' <=> Listed
       /\ Collecting' <=> Collecting
       /\ WorkerAlive' <=> WorkerAlive
       /\ ~Doing'
  BY <1>1 DEF Announced, Reported, Lost, Given, Sent, Listed, Collecting, WorkerAlive, Doing
<1>12. Channels'
  BY <1>1, <1>9, <1>10 DEF IInv, Channels
<1>13. OnePlace' /\ OneResult'
  BY <1>1, <1>3, <1>4, <1>9, <1>11 DEF OnePlace, OneResult
<1>14. SandboxInv'
  BY <1>1, <1>2, <1>11 DEF IInv, SandboxInv, HasSandboxes
<1>15. Busy'
  BY <1>1, <1>3, <1>9, <1>10, <1>11 DEF IInv, Busy
<1>16. LostLast'
  BY <1>1, <1>4, <1>11 DEF LostLast
<1>17. Unanswered'
  BY <1>1 DEF IInv, Unanswered
<1> QED BY <1>12, <1>13, <1>14, <1>15, <1>16, <1>17 DEF IInv

(* The outputs are sent: the worker asks for more work. *)
LEMMA FinishStep == ASSUME IInv, Types', SandboxFinish PROVE IInv'
<1>1. /\ UNCHANGED <<view, view_job, todo, answered, sched_up, sched_in, wm_in, wt, wt_job,
                     to_worker, worker, missing_deps, asked>>
      /\ sandbox = "waiting" /\ sandbox' = "ended" /\ WorkerAlive /\ asked = "filled" /\ job' = NoJob
      /\ from_worker \in Seq(Message) /\ from_worker' = Append(from_worker, Msg("GetWork"))
      /\ Msg("GetWork") \in Message /\ Msg("GetWork").type = "GetWork"
  BY Kinds, Messages DEF SandboxFinish, notSandbox, notWorker, schedVars, wmVars, wtVars, IInv, Types
<1>2. PICK m \in Message : m = Msg("GetWork")
  BY <1>1
<1>3. job # NoJob /\ DoneWith /\ missing_deps = {} /\ ~Done /\ ~Listed /\ ~Lost /\ ~(wt = "ended" /\ sched_up)
  BY <1>1 DEF IInv, SandboxInv, HasSandboxes, DoneWith, LostLast
<1>4. ~Asking /\ ~Announced /\ view # "free" /\ ~Given /\ ~Sent /\ worker # "start"
  BY <1>3 DEF IInv, OnePlace
<1>5. Asking' /\ Once(from_worker', "GetWork") /\ ~Done'
  BY <1>1, <1>2, <1>3, <1>4, Adding, Nothing DEF Asking, Done
<1>6. Once(from_worker', "WorkerDone") /\ About(from_worker', "WorkerDone", view_job)
  BY <1>5, Nothing DEF Done
<1>7. /\ Announced' <=> Announced
      /\ Reported' <=> Reported
      /\ Lost' <=> Lost
      /\ Given' <=> Given
      /\ Sent' <=> Sent
      /\ Listed' <=> Listed
      /\ Collecting' <=> Collecting
      /\ WorkerAlive' <=> WorkerAlive
      /\ ThreadOver' <=> ThreadOver
      /\ ~Doing' /\ ~DoneWith'
  BY <1>1 DEF Announced, Reported, Lost, Given, Sent, Listed, Collecting, WorkerAlive, ThreadOver, Doing,
              DoneWith
<1>8. Channels'
  BY <1>1, <1>5, <1>6 DEF IInv, Channels
<1>9. OnePlace' /\ OneResult'
  BY <1>1, <1>3, <1>4, <1>5, <1>7 DEF IInv, OnePlace, OneResult
<1>10. SandboxInv'
  BY <1>1, <1>3, <1>5, <1>7 DEF SandboxInv, HasSandboxes
<1>11. ~ThreadOver /\ view = "busy" => Collecting \/ Reported
  BY <1>3 DEF IInv, Busy
<1>12. Busy'
  BY <1>1, <1>3, <1>4, <1>5, <1>6, <1>7, <1>11 DEF IInv, Busy
<1>13. LostLast'
  BY <1>1, <1>3, <1>7 DEF LostLast
<1>14. Unanswered'
  BY <1>1 DEF IInv, Unanswered
<1> QED BY <1>8, <1>9, <1>10, <1>12, <1>13, <1>14 DEF IInv

-----------------------------------------------------------------------------
(* The invariant holds *)

(* It holds at the start: nothing is under way. *)
LEMMA InitIInv == Init => IInv
<1> SUFFICES ASSUME Init PROVE IInv
  OBVIOUS
<1>1. \A t : ~Has(<<>>, t)
  BY DEF Has
<1>2. /\ ~Asking /\ ~Announced /\ ~Given /\ ~Sent /\ ~Done /\ ~Reported /\ ~Listed /\ ~Lost
      /\ ~Collecting
  BY <1>1 DEF Init, Asking, Announced, Given, Sent, Done, Reported, Listed, Lost, Collecting
<1>3. Types
  BY WorkerAssumption DEF Init, Types
<1>4. Channels
  <2>1. Ordered(<<>>)
    BY DEF Ordered
  <2> QED BY <1>1, <2>1, Nothing DEF Init, Channels
<1>5. OnePlace /\ OneResult /\ SandboxInv /\ LostLast
  BY <1>2 DEF Init, OnePlace, OneResult, Doing, SandboxInv, HasSandboxes, LostLast
<1>6. Busy
  <2>1. \A t, j : About(<<>>, t, j)
    BY <1>1, Nothing
  <2> QED BY <1>2, <2>1 DEF Init, Busy, Doing
<1>7. Unanswered
  BY WorkerAssumption DEF Init, Unanswered
<1> QED BY <1>3, <1>4, <1>5, <1>6, <1>7 DEF IInv

(* A piece that the thread stores is one of several, or the last one. *)
LEMMA StoreStep == ASSUME IInv, Types', WtStorePiece PROVE IInv'
<1>1. \/ wt' \in {"collecting", "storing"} /\ UNCHANGED <<sched_in, wm_in>>
      \/ ReportResult(wt_job)
  BY DEF WtStorePiece
<1> QED BY <1>1, ThreadQuiet, StoredStep

(* Every step keeps it. *)
LEMMA InvStep == ASSUME IInv, [Next]_vars PROVE IInv'
<1>1. Types'
  BY TypeStep
<1>2. CASE UNCHANGED vars
  <2>1. /\ UNCHANGED <<view, view_job, answered, job, missing_deps, sched_in, wt_job, wm_in, asked,
                       todo, sched_up, wt, to_worker, from_worker, worker, sandbox>>
    BY <1>2 DEF vars, schedVars, wmVars, wtVars, workerVars, sandVars
  <2>2. /\ SameTokens(wm_in, wm_in') /\ SameTokens(to_worker, to_worker')
        /\ SameTokens(from_worker, from_worker')
    BY <2>1, SameChannel
  <2>3. /\ Collecting' <=> Collecting
        /\ ThreadOver' <=> ThreadOver
        /\ WorkerAlive' <=> WorkerAlive
    BY <2>1 DEF Collecting, ThreadOver, WorkerAlive
  <2> QED BY <1>1, <2>1, <2>2, <2>3, QuietStep
<1>3. CASE Scheduler
  BY <1>1, <1>3, ConnectedStep, AssignStep, ResultStep, DisconnectedStep DEF Scheduler
<1>4. CASE Leave \/ WmSendFails
  BY <1>1, <1>4, ManagerQuiet
<1>5. CASE Manager
  <2>1. CASE WmForward
    BY <1>1, <2>1, ForwardStep, ManagerQuiet DEF WmForward
  <2> QED BY <1>1, <1>5, <2>1, ManagerQuiet DEF Manager
<1>6. CASE Thread
  BY <1>1, <1>6, GetWorkStep, DoneStep, ClosedStep, StoreStep, ThreadQuiet DEF Thread
<1>7. CASE Worker \/ WorkerDies
  <2>1. CASE WorkerStorePiece
    BY <1>1, <2>1, CompleteStep, WorkerQuiet DEF WorkerStorePiece, IsRaw
  <2> QED BY <1>1, <1>7, <2>1, StartStep, WorkStep, ListStep, ExitStep, WorkerQuiet DEF Worker
<1>8. CASE Sandbox
  BY <1>1, <1>8, JobDoneStep, FinishStep, AbortStep, SandboxQuiet DEF Sandbox
<1> QED BY <1>2, <1>3, <1>4, <1>5, <1>6, <1>7, <1>8 DEF Next

(* The scheduler's view of its worker is right, with any jobs and files, whatever *)
(* the order of the steps of the scheduler, of the two threads of the server, of  *)
(* the worker and of its sandboxes, and whenever the worker dies, a client leaves *)
(* or the scheduler exits: a result that handle_worker_job_finished reads belongs *)
(* to the job it thinks the worker is doing, a job is answered at most once, and  *)
(* a worker that is announced as free has ended its job and its sandboxes.        *)
THEOREM SchedulersViewIsRight == Spec => []ViewIsRight
<1>1. Init => IInv
  BY InitIInv
<1>2. IInv /\ [Next]_vars => IInv'
  BY InvStep
<1>3. IInv => ViewIsRight
  <2> SUFFICES ASSUME IInv PROVE ViewIsRight
    OBVIOUS
  <2>1. \A n \in DOMAIN sched_in : sched_in[n].type = "WorkerResult" =>
            view = "busy" /\ view_job = sched_in[n].job
    BY DEF IInv, Busy, Reported, Has, About
  <2>2. \A j \in Job : answered[j] \leq 1
    BY DEF IInv, Unanswered
  <2>3. ASSUME view = "free" \/ Announced PROVE job = NoJob /\ ~HasSandboxes
    BY <2>3 DEF IInv, OnePlace, SandboxInv
  <2> QED BY <2>1, <2>2, <2>3 DEF ViewIsRight, Announced, Has
<1> QED BY <1>1, <1>2, <1>3, PTL DEF Spec
=============================================================================
