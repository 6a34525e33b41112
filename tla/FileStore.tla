----------------------------- MODULE FileStore -----------------------------
(***************************************************************************)
(* The store of files by content (task-maker-store): the threads that store *)
(* files, look them up and hold handles to them, the flush that makes space  *)
(* and the index that survives the process.                                  *)
(*                                                                           *)
(* The files on disk, the index and the table of the locked files are three  *)
(* things: the last two have a mutex each, the first one has none.  A step is *)
(* what a thread does between two accesses to something shared.              *)
(***************************************************************************)
EXTENDS Integers, SequencesExt

CONSTANTS
    Thread, Key,
    Size,               \* the size of the file with a content
    MaxSize, MinSize,   \* max_store_size and min_store_size
    MaxRestarts,        \* how often the process ends, by itself or not
    NoKey

ASSUME StoreAssumption ==
    /\ Size \in [Key -> Nat]
    /\ MaxSize \in Nat /\ MinSize \in Nat /\ MaxRestarts \in Nat
    /\ NoKey \notin Key

VARIABLES
    files,        \* what is on disk
    known_files,  \* the index: least recently accessed first
    total_size,
    saved,        \* the index file
    handles,      \* the live handles: who holds one, of what and whence
    pc,           \* what a thread is doing
    arg,          \* and with which file
    queue,        \* the heap of the flush that is running
    open,         \* the store has not been dropped
    restarts      \* how often the process has ended

process == <<open, restarts>>

vars == <<files, known_files, total_size, saved, handles, pc, arg, queue, process>>

index == <<known_files, total_size>>

Handle == [thread : Thread, key : Key, by : {"store", "get"}]
HandleOf(t, k, w) == [thread |-> t, key |-> k, by |-> w]

(* LockedFiles::ref_counts has the key. *)
Locked(k) == \E h \in handles : h.key = k

Sum(S) == FoldSet(LAMBDA k, n : n + Size[k], 0, S)

IndexFree  == \A t \in Thread : pc[t] \notin {"flushing", "saving"}
LockedFree == \A t \in Thread : pc[t] # "flushing"

Init ==
    /\ files = {} /\ handles = {}
    /\ known_files = <<>> /\ total_size = 0
    /\ saved = [known_files |-> <<>>, total_size |-> 0]
    /\ pc = [t \in Thread |-> "idle"]
    /\ arg = [t \in Thread |-> NoKey]
    /\ queue = <<>> /\ open = TRUE /\ restarts = 0

Goes(t, where) == pc' = [pc EXCEPT ![t] = where]
Returns(t) == Goes(t, "idle") /\ arg' = [arg EXCEPT ![t] = NoKey]

(* A thread opens a file it has a handle of only with Clone. *)
Holds(t, k) == \E h \in handles : h.thread = t /\ h.key = k

-----------------------------------------------------------------------------
(* store *)

(* The handle comes first, "to avoid racing while writing". *)
StoreLock(t, k) ==
    /\ open /\ pc[t] = "idle" /\ ~Holds(t, k)
    /\ LockedFree
    /\ handles' = handles \cup {HandleOf(t, k, "store")}
    /\ arg' = [arg EXCEPT ![t] = k]
    /\ Goes(t, "storing")
    /\ UNCHANGED <<files, index, saved, queue, process>>

StoreExists(t) ==
    /\ pc[t] = "storing" /\ arg[t] \in files
    /\ Returns(t)
    /\ UNCHANGED <<files, index, saved, handles, queue, process>>

StoreWrite(t) ==
    /\ pc[t] = "storing" /\ arg[t] \notin files
    /\ Goes(t, "writing")
    /\ UNCHANGED <<files, index, saved, handles, arg, queue, process>>

(* The content cannot be written: the handle is dropped with the error. *)
StoreFails(t) ==
    /\ pc[t] = "writing" /\ LockedFree
    /\ handles' = handles \ {HandleOf(t, arg[t], "store")}
    /\ Returns(t)
    /\ UNCHANGED <<files, index, saved, queue, process>>

(* The temporary file gets its name in one step. *)
StoreRename(t) ==
    /\ pc[t] = "writing"
    /\ files' = files \cup {arg[t]}
    /\ Goes(t, "renamed")
    /\ UNCHANGED <<index, saved, handles, arg, queue, process>>

(* FileStoreIndex::add: a file that is known already is only touched. *)
Touched(k) == Append(RemoveFirst(known_files, k), k)
AddTwice(k) ==
    /\ known_files' = Touched(k)
    /\ total_size' = total_size + Size[k]
Add(k) ==
    /\ known_files' = Touched(k)
    /\ total_size' = IF Contains(known_files, k) THEN total_size ELSE total_size + Size[k]

(* maybe_flush: both mutexes are taken. *)
MaybeFlush(t) ==
    /\ LockedFree
    /\ IF total_size' >= MaxSize
       THEN Goes(t, "flushing") /\ queue' = known_files'
       ELSE Goes(t, "saving") /\ UNCHANGED queue

StoreIndex(t) ==
    /\ pc[t] = "renamed" /\ IndexFree
    /\ Add(arg[t])
    /\ MaybeFlush(t)
    /\ UNCHANGED <<files, saved, handles, arg, process>>

-----------------------------------------------------------------------------
(* flush: one turn of its loop, and its end *)

(* What the heap gives: the entry with the greatest last_access. *)
Popped == queue[Len(queue)]

FlushAnything ==
    /\ files' = files \ {Popped}
    /\ known_files' = RemoveFirst(known_files, Popped)
    /\ total_size' = total_size - Size[Popped]
FlushPopped ==
    IF Locked(Popped) THEN UNCHANGED <<files, index>>
    ELSE /\ files' = files \ {Popped}
         /\ known_files' = RemoveFirst(known_files, Popped)
         /\ total_size' = total_size - Size[Popped]

FlushOne(t) ==
    /\ pc[t] = "flushing" /\ total_size > MinSize /\ queue # <<>>
    /\ FlushPopped
    /\ queue' = SubSeq(queue, 1, Len(queue) - 1)
    /\ UNCHANGED <<saved, handles, pc, arg, process>>

FlushEnd(t) ==
    /\ pc[t] = "flushing" /\ (total_size <= MinSize \/ queue = <<>>)
    /\ queue' = <<>>
    /\ Goes(t, "saving")
    /\ UNCHANGED <<files, index, saved, handles, arg, process>>

(* FileStoreIndex::store: a temporary file and a rename.  The handle is returned. *)
Save(t) ==
    /\ pc[t] = "saving"
    /\ saved' = [known_files |-> known_files, total_size |-> total_size]
    /\ Returns(t)
    /\ UNCHANGED <<files, index, handles, queue, process>>

-----------------------------------------------------------------------------
(* get *)

GetFound(t, k) ==
    /\ open /\ pc[t] = "idle" /\ k \in files /\ ~Holds(t, k)
    /\ arg' = [arg EXCEPT ![t] = k]
    /\ Goes(t, "found")
    /\ UNCHANGED <<files, index, saved, handles, queue, process>>

GetTouch(t) ==
    /\ pc[t] = "found" /\ IndexFree
    /\ known_files' = IF Contains(known_files, arg[t]) THEN Touched(arg[t]) ELSE known_files
    /\ Goes(t, "touched")
    /\ UNCHANGED <<files, total_size, saved, handles, arg, queue, process>>

GetHandle(t) ==
    /\ pc[t] = "touched" /\ LockedFree
    /\ handles' = handles \cup {HandleOf(t, arg[t], "get")}
    /\ Returns(t)
    /\ UNCHANGED <<files, index, saved, queue, process>>

-----------------------------------------------------------------------------
(* Handles *)

Clone(h, t) ==
    /\ LockedFree /\ pc[h.thread] = "idle" /\ pc[t] = "idle"
    /\ ~Holds(t, h.key)
    /\ handles' = handles \cup {[h EXCEPT !.thread = t]}
    /\ UNCHANGED <<files, index, saved, pc, arg, queue, process>>

Drop(h) ==
    /\ LockedFree /\ pc[h.thread] = "idle"
    /\ handles' = handles \ {h}
    /\ UNCHANGED <<files, index, saved, pc, arg, queue, process>>

-----------------------------------------------------------------------------
(* The process *)

(* The drop of the store: a last flush, if it is needed, and the index is saved. *)
Close(t) ==
    /\ open /\ restarts < MaxRestarts
    /\ \A u \in Thread : pc[u] = "idle"
    /\ open' = FALSE
    /\ UNCHANGED index
    /\ MaybeFlush(t)
    /\ UNCHANGED <<files, saved, handles, arg, restarts>>

(* The process ends, or is killed, at any time, and another one opens the store: *)
(* only the files and the saved index are left, and not even that if it is of     *)
(* another version.                                                               *)
Restart ==
    /\ restarts < MaxRestarts
    /\ restarts' = restarts + 1
    /\ open' = TRUE
    /\ \E i \in {saved, [known_files |-> <<>>, total_size |-> 0]} :
            known_files' = i.known_files /\ total_size' = i.total_size
    /\ handles' = {}
    /\ pc' = [t \in Thread |-> "idle"]
    /\ arg' = [t \in Thread |-> NoKey]
    /\ queue' = <<>>
    /\ UNCHANGED <<files, saved>>

Next ==
    \/ \E t \in Thread :
          \/ \E k \in Key : StoreLock(t, k) \/ GetFound(t, k)
          \/ StoreExists(t) \/ StoreWrite(t) \/ StoreFails(t) \/ StoreRename(t) \/ StoreIndex(t)
          \/ FlushOne(t) \/ FlushEnd(t) \/ Save(t)
          \/ GetTouch(t) \/ GetHandle(t)
          \/ Close(t)
    \/ \E h \in handles : Drop(h) \/ \E t \in Thread : Clone(h, t)
    \/ Restart

Spec == Init /\ [][Next]_vars

-----------------------------------------------------------------------------
(* Properties *)

(* store has returned the handle, or is about to without looking at the disk again. *)
Stored(h) == h.by = "store" /\ (arg[h.thread] = h.key => pc[h.thread] \notin {"storing", "writing"})

(* "until this handle is dropped the FileStore will not flush away the file", for *)
(* the handles that come from store.                                              *)
StoredHandleKeepsFile == \A h \in handles : Stored(h) => h.key \in files

(* total_size, which is only ever adjusted, is the size of the known files: no     *)
(* file is counted twice, and u64 never goes below zero.                           *)
TotalIsSum ==
    /\ \A i, j \in DOMAIN known_files : known_files[i] = known_files[j] => i = j
    /\ total_size = Sum(Range(known_files))
    /\ saved.total_size = Sum(Range(saved.known_files))

=============================================================================
