------------------------------- MODULE Cache -------------------------------
(***************************************************************************)
(* The cache of the executions (task-maker-cache).  A key stands for the     *)
(* command, the arguments and the content of the inputs of an execution: the *)
(* entries of different keys have nothing to do with each other, so there is *)
(* one key here, and one program, which is deterministic.                    *)
(*                                                                           *)
(* The entries of a key differ in the limits of the execution.  The question *)
(* is whether the result of a run with some limits may be used for others.   *)
(***************************************************************************)
EXTENDS Integers, Sequences, FiniteSets, FiniteSetsExt

CONSTANTS
    Measured,    \* limits with a margin, on what the sandbox measures: times and memory
    CpuTime, SysTime, \* those of them that the sandbox counts together
    WallTime,    \* the other time
    Second,      \* the units of time in a second
    Unsigned,    \* those of them that are unsigned integers: memory
    Hard,        \* the other limits: nofile, fsize, memlock, stack
    Power,       \* what an execution may be allowed: processes, new files, /tmp, directories
    Directory,   \* those of them that are directories
    Ignored,     \* those of them that is_compatible does not look at: /proc, any syscall
    Programs,    \* what the program may be like
    Queries,     \* the limits that an execution may have
    Inf,         \* no limit
    Usage,       \* what may be measured
    MaxEntries,  \* bound on the entries of the key
    MaxRunning,  \* bound on the executions that run at the same time
    MaxLoads     \* bound on the processes that end

(* What a program uses when nothing stops it, and whether it succeeds. *)
Program == [need : Usage, hard : [Hard -> Nat], power : SUBSET Power, ok : BOOLEAN]

Limit == Nat \cup {Inf}
Query == [limit : [Measured -> Limit], hard : [Hard -> Limit], power : SUBSET Power,
          extra : [Measured -> Nat]]

ASSUME CacheAssumption ==
    /\ {CpuTime, SysTime, WallTime} \subseteq Measured /\ CpuTime # SysTime
    /\ Unsigned \subseteq Measured \ {CpuTime, SysTime, WallTime} /\ Second \in Nat \ {0}
    /\ Usage \subseteq [Measured -> Nat]
    /\ Directory \subseteq Power /\ Ignored \subseteq Power /\ Directory \cap Ignored = {}
    /\ Programs \subseteq Program /\ Queries \subseteq Query
    /\ Inf \notin Int
    /\ MaxEntries \in Nat /\ MaxRunning \in Nat /\ MaxLoads \in Nat

Status  == {"Success", "Failure", "LimitExceeded"}
Content == {"complete", "partial"}
Entry   == [query : Query, status : Status, used : Usage, output : Content]

VARIABLES
    program,
    entries,    \* the entries of the key, oldest first
    running,    \* the executions that were not in the cache
    stored_outputs,  \* the outputs that are still in the file store
    dirty,
    cache_file,
    loads       \* how many processes have ended and the next one has loaded the file

cacheVars == <<program, entries, running, stored_outputs, dirty, cache_file, loads>>

CacheInit ==
    /\ program \in Programs
    /\ entries = <<>> /\ cache_file = <<>> /\ dirty = FALSE
    /\ running = {} /\ stored_outputs = {} /\ loads = 0

-----------------------------------------------------------------------------
(* Execution::status: a limit that was exceeded comes before anything else. *)
WithinLimit(q, used) == \A r \in Measured : q.limit[r] = Inf \/ used[r] <= q.limit[r]
StatusOf(q, status, used) == IF WithinLimit(q, used) THEN status ELSE "LimitExceeded"

(* The sandbox gets one limit on the user and the system time together: their sum, or *)
(* the one of them that is given.  A limit on a time is rounded up to whole seconds.  *)
CpuLimit(q) ==
    IF q.limit[CpuTime] = Inf THEN q.limit[SysTime]
    ELSE IF q.limit[SysTime] = Inf THEN q.limit[CpuTime]
    ELSE q.limit[CpuTime] + q.limit[SysTime]
Ceil(t) == ((t + Second - 1) \div Second) * Second

(* It stops a program that goes over a limit by more than the margin, and lets it   *)
(* fail when it needs what it has not got.                                          *)
OverCpu(q, used) ==
    CpuLimit(q) # Inf /\ used[CpuTime] + used[SysTime] > Ceil(CpuLimit(q) + q.extra[CpuTime])
OverOther(q, used, r) ==
    /\ q.limit[r] # Inf
    /\ used[r] > IF r = WallTime THEN Ceil(q.limit[r] + q.extra[r]) ELSE q.limit[r] + q.extra[r]
Over(q, used) == OverCpu(q, used) \/ \E r \in Measured \ {CpuTime, SysTime} : OverOther(q, used, r)
Stopped(p, q) == Over(q, p.need)
Allowed(p, q) ==
    /\ p.power \subseteq q.power
    /\ \A r \in Hard : q.hard[r] = Inf \/ p.hard[r] <= q.hard[r]
Finishes(p, q) == p.ok /\ Allowed(p, q) /\ ~Stopped(p, q)

(* What is measured is what it needs or, if it does not get to its end, less; if it *)
(* was only stopped, it is more than what the sandbox stops it at.                  *)
MayUse(p, q, used) ==
    /\ \A r \in Measured : used[r] <= p.need[r]
    /\ Finishes(p, q) => used = p.need
    /\ p.ok /\ Allowed(p, q) /\ Stopped(p, q) => Over(q, used)

(* The result the worker computes. *)
Executed(p, q, used) ==
    [query  |-> q,
     status |-> StatusOf(q, IF Finishes(p, q) THEN "Success" ELSE "Failure", used),
     used   |-> used,
     output |-> IF Finishes(p, q) THEN "complete" ELSE "partial"]

-----------------------------------------------------------------------------
(* CacheEntry::is_compatible *)

(* check_limit!: nothing is $left + $extra > $right, None being infinite.  An        *)
(* unsigned sum that is negative wraps around and is greater than any limit.         *)
Below(left, extra, right)  == right = Inf \/ (left # Inf /\ left + extra < right)
AtMost(left, extra, right) == right = Inf \/ (left # Inf /\ left + extra <= right)
AtMostUnsigned(left, extra, right) ==
    right = Inf \/ (left # Inf /\ left + extra >= 0 /\ left + extra <= right)

(* check_limits!: $left is nowhere less restrictive than $right. *)
CheckMeasured(left, right) ==
    \A r \in Measured :
        LET extra == left.extra[r] - right.extra[r]
        IN  IF r \in Unsigned THEN AtMostUnsigned(left.limit[r], extra, right.limit[r])
                              ELSE AtMost(left.limit[r], extra, right.limit[r])
CheckHard(left, right)  == \A r \in Hard : AtMost(left.hard[r], 0, right.hard[r])
CheckPower(left, right) == left.power \ (Directory \cup Ignored) \subseteq right.power
Dirs(q) == q.power \cap Directory
CheckDirs(left, right) == ~(Dirs(left) # Dirs(right) /\ Dirs(right) \subseteq Dirs(left))
CheckLimits(left, right) ==
    CheckMeasured(left, right) /\ CheckHard(left, right) /\ CheckPower(left, right) /\ CheckDirs(left, right)

CompatibleWithLooser(e, q) == CheckLimits(e.query, q)
IsCompatible(e, q) ==
    IF e.status = "Success" THEN CheckLimits(e.query, q) ELSE CheckLimits(q, e.query)

-----------------------------------------------------------------------------
(* Cache::get: an entry can be used if its outputs are still there and its limits   *)
(* are compatible, and the first one is taken.  Its status is computed again.       *)
Candidates(q) == {i \in DOMAIN entries : entries[i].output \in stored_outputs /\ IsCompatible(entries[i], q)}
HitStatus(e, q) == StatusOf(q, e.status, e.used)

(* schedule_cached finds nothing, and the execution is given to a worker.  A hit    *)
(* changes nothing here.                                                            *)
Miss(q) ==
    /\ Candidates(q) = {} /\ q \notin running
    /\ Cardinality(running) < MaxRunning
    /\ running' = running \cup {q}
    /\ UNCHANGED <<program, entries, stored_outputs, dirty, cache_file, loads>>

(* Cache::insert: "Do not insert duplicated keys, replace if the limits are the      *)
(* same."  The margins are not limits.                                               *)
SameLimits(d, e) == d.query.limit = e.query.limit /\ d.query.hard = e.query.hard /\ d.query.power = e.query.power
Inserted(e) ==
    LET same == {i \in DOMAIN entries : SameLimits(entries[i], e)}
    IN  IF same = {} THEN Append(entries, e) ELSE [entries EXCEPT ![Min(same)] = e]

Finish(q, used) ==
    /\ q \in running /\ MayUse(program, q, used)
    /\ entries' = Inserted(Executed(program, q, used)) /\ Len(entries') <= MaxEntries
    /\ running' = running \ {q}
    /\ stored_outputs' = stored_outputs \cup {Executed(program, q, used).output}
    /\ dirty' = TRUE
    /\ UNCHANGED <<program, cache_file, loads>>

(* cache_execution: the group is not inserted if a result is an internal error. *)
InternalError(q) ==
    /\ q \in running
    /\ running' = running \ {q}
    /\ UNCHANGED <<program, entries, stored_outputs, dirty, cache_file, loads>>

(* The file store flushes an output. *)
Flush(c) ==
    /\ c \in stored_outputs
    /\ stored_outputs' = stored_outputs \ {c}
    /\ UNCHANGED <<program, entries, running, dirty, cache_file, loads>>

(* The cache is dropped: CacheFile::store and, in the next process, load. *)
DropAndLoad ==
    /\ running = {} /\ loads < MaxLoads
    /\ loads' = loads + 1
    /\ cache_file' = IF dirty THEN entries ELSE cache_file
    /\ entries' = cache_file' /\ dirty' = FALSE
    /\ UNCHANGED <<program, running, stored_outputs>>

(* The process is killed, or the next one is of another version. *)
Lost ==
    /\ loads < MaxLoads /\ loads' = loads + 1
    /\ entries' \in {cache_file, <<>>} /\ dirty' = FALSE
    /\ running' = {}
    /\ UNCHANGED <<program, stored_outputs, cache_file>>

CacheNext ==
    \/ \E q \in Queries : Miss(q) \/ InternalError(q)
    \/ \E q \in Queries : \E used \in Usage : Finish(q, used)
    \/ \E c \in Content : Flush(c)
    \/ DropAndLoad \/ Lost

CacheSpec == CacheInit /\ [][CacheNext]_cacheVars

-----------------------------------------------------------------------------
(* Properties *)

Succeeds(p, q) == Finishes(p, q) /\ WithinLimit(q, p.need)

(* Limits that is_compatible can compare: the margins are the same; a limit on one of  *)
(* the user and the system time is not compared with limits on both, as the sandbox    *)
(* then counts otherwise; one has all the directories of the other; and what it does   *)
(* not look at is the same.                                                            *)
CpuGiven(q) == {r \in {CpuTime, SysTime} : q.limit[r] # Inf}
Comparable(d, q) ==
    /\ d.extra = q.extra
    /\ CpuGiven(d) = CpuGiven(q) \/ CpuGiven(d) = {} \/ CpuGiven(q) = {}
    /\ Dirs(d) \subseteq Dirs(q) \/ Dirs(q) \subseteq Dirs(d)
    /\ d.power \cap Ignored = q.power \cap Ignored

(* "if E1 was successful with L1 and L2 is less restrictive than L1, E2 will be    *)
(* successful; if E1 wasn't successful with L1 and L1 is less restrictive than L2, *)
(* E2 won't be successful": a hit, on whichever entry with limits that can be      *)
(* compared, says what a run would say.  For the others it may not: build_command  *)
(* adds the limits on the user and the system time, is_compatible takes each alone.*)
HitIsRight ==
    \A q \in Queries : \A i \in Candidates(q) : Comparable(entries[i].query, q) =>
        /\ HitStatus(entries[i], q) = "Success" <=> Succeeds(program, q)
        /\ HitStatus(entries[i], q) = "Success" => entries[i].output = "complete"

(* "L1 is less restrictive than L2 if there is no limit on L1 that is more         *)
(* restrictive than the corresponding one in L2."                                  *)
LessRestrictive(d, q) ==
    /\ \A r \in Measured : d.limit[r] = Inf \/ (q.limit[r] # Inf /\ d.limit[r] >= q.limit[r])
    /\ \A r \in Hard : d.hard[r] = Inf \/ (q.hard[r] # Inf /\ d.hard[r] >= q.hard[r])
    /\ q.power \subseteq d.power

(* What is known is used: an execution is not run if there is an entry that says   *)
(* how it ends, and above all not a second time.                                   *)
NoNeedlessRun ==
    \A q \in Queries : \A i \in DOMAIN entries :
        /\ entries[i].output \in stored_outputs /\ entries[i].query.extra = q.extra
        /\ IF entries[i].status = "Success" THEN LessRestrictive(q, entries[i].query)
                                            ELSE LessRestrictive(entries[i].query, q)
        => Candidates(q) # {}

=============================================================================
