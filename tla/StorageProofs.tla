--------------------------- MODULE StorageProofs ---------------------------
(***************************************************************************)
(* Theorems about what outlives an evaluation, the file store and the cache,  *)
(* each by itself.                                                            *)
(*                                                                           *)
(* The file store: a handle that store returned keeps its file, and           *)
(* total_size is the size of the files of the index, for every number of      *)
(* threads and files, whatever is flushed and however often the process ends. *)
(*                                                                           *)
(* The cache: a hit is right, for all the limits and whatever the program     *)
(* needs, and what is known is not run again.                                 *)
(***************************************************************************)
EXTENDS FileStore, Cache, FiniteSetTheorems, WellFoundedInduction, TLAPS

(* What the proof needs of the types. *)
Types ==
    /\ handles \subseteq Handle
    /\ DOMAIN pc = Thread /\ DOMAIN arg = Thread
    /\ \A t \in Thread : pc[t] \in {"found", "touched"} => arg[t] \in Key

(* The invariant is inductive with them: between StoreLock and the look at the  *)
(* disk the handle is there and the file need not be.                           *)
IInv == Types /\ StoredHandleKeepsFile

(* The steps of store.  The handles that are not those of its file are not affected. *)
LEMMA StoreSteps ==
    ASSUME IInv, NEW t \in Thread,
           \/ \E k \in Key : StoreLock(t, k)
           \/ StoreExists(t) \/ StoreWrite(t) \/ StoreFails(t) \/ StoreRename(t) \/ StoreIndex(t)
    PROVE  IInv'
<1>1. ASSUME NEW k \in Key, StoreLock(t, k) PROVE IInv'
  BY <1>1 DEF IInv, Types, StoredHandleKeepsFile, Stored, StoreLock, Handle, HandleOf, Goes
<1>2. CASE StoreExists(t)
  BY <1>2 DEF IInv, Types, StoredHandleKeepsFile, Stored, StoreExists, Handle, Returns, Goes
<1>3. CASE StoreWrite(t)
  BY <1>3 DEF IInv, Types, StoredHandleKeepsFile, Stored, StoreWrite, Handle, Goes
<1>4. CASE StoreFails(t)
  BY <1>4 DEF IInv, Types, StoredHandleKeepsFile, Stored, StoreFails, Handle, HandleOf, Returns, Goes
<1>5. CASE StoreRename(t)
  BY <1>5 DEF IInv, Types, StoredHandleKeepsFile, Stored, StoreRename, Handle, Goes
<1>6. CASE StoreIndex(t)
  BY <1>6 DEF IInv, Types, StoredHandleKeepsFile, Stored, StoreIndex, MaybeFlush, Handle, Goes
<1> QED  BY <1>1, <1>2, <1>3, <1>4, <1>5, <1>6

(* A flush removes only what nobody has a handle of. *)
LEMMA FlushSteps ==
    ASSUME IInv, NEW t \in Thread,
           FlushOne(t) \/ FlushEnd(t) \/ Save(t) \/ Close(t)
    PROVE  IInv'
<1>1. CASE FlushOne(t)
  <2>1. \A h \in handles : h.key \in files => h.key \in files'
    BY <1>1 DEF FlushOne, FlushPopped, Locked
  <2> QED  BY <1>1, <2>1 DEF IInv, Types, StoredHandleKeepsFile, Stored, FlushOne
<1>2. CASE FlushEnd(t)
  BY <1>2 DEF IInv, Types, StoredHandleKeepsFile, Stored, FlushEnd, Handle, Goes
<1>3. CASE Save(t)
  BY <1>3 DEF IInv, Types, StoredHandleKeepsFile, Stored, Save, Handle, Returns, Goes
<1>4. CASE Close(t)
  BY <1>4 DEF IInv, Types, StoredHandleKeepsFile, Stored, Close, MaybeFlush, Handle, Goes
<1> QED  BY <1>1, <1>2, <1>3, <1>4

(* get gives handles of its own, about which nothing is claimed. *)
LEMMA GetSteps ==
    ASSUME IInv, NEW t \in Thread,
           (\E k \in Key : GetFound(t, k)) \/ GetTouch(t) \/ GetHandle(t)
    PROVE  IInv'
<1>1. ASSUME NEW k \in Key, GetFound(t, k) PROVE IInv'
  BY <1>1 DEF IInv, Types, StoredHandleKeepsFile, Stored, GetFound, Handle, Goes
<1>2. CASE GetTouch(t)
  BY <1>2 DEF IInv, Types, StoredHandleKeepsFile, Stored, GetTouch, Handle, Goes
<1>3. CASE GetHandle(t)
  BY <1>3 DEF IInv, Types, StoredHandleKeepsFile, Stored, GetHandle, Handle, HandleOf, Returns, Goes
<1> QED  BY <1>1, <1>2, <1>3

(* A clone is made of a handle of a thread that is not storing. *)
LEMMA HandleSteps ==
    ASSUME IInv, NEW h \in handles,
           Drop(h) \/ \E t \in Thread : Clone(h, t)
    PROVE  IInv'
<1>1. CASE Drop(h)
  BY <1>1 DEF IInv, Types, StoredHandleKeepsFile, Stored, Drop
<1>2. ASSUME NEW t \in Thread, Clone(h, t) PROVE IInv'
  <2>1. h.thread \in Thread /\ h.key \in Key /\ h.by \in {"store", "get"}
    BY DEF IInv, Types, Handle
  <2>2. h.by = "store" => h.key \in files
    BY <1>2 DEF IInv, StoredHandleKeepsFile, Stored, Clone
  <2>3. handles' \subseteq Handle
    BY <1>2, <2>1 DEF IInv, Types, Clone, Handle
  <2> QED  BY <1>2, <2>1, <2>2, <2>3 DEF IInv, Types, StoredHandleKeepsFile, Stored, Clone, Handle
<1> QED  BY <1>1, <1>2

(* A process that starts has no handles. *)
LEMMA RestartStep == ASSUME IInv, Restart PROVE IInv'
  BY DEF IInv, Types, StoredHandleKeepsFile, Stored, Restart

(* "until this handle is dropped the FileStore will not flush away the file": the *)
(* file of a handle that FileStore::store returned is on disk as long as the      *)
(* handle, or a clone of it, lives.                                               *)
THEOREM StoredHandlesKeepFiles == Spec => []StoredHandleKeepsFile
<1>1. Init => IInv
  BY DEF Init, IInv, Types, StoredHandleKeepsFile
<1>2. IInv /\ [Next]_vars => IInv'
  <2> SUFFICES ASSUME IInv, [Next]_vars PROVE IInv'
    OBVIOUS
  <2>1. CASE Next
    BY <2>1, StoreSteps, FlushSteps, GetSteps, HandleSteps, RestartStep DEF Next
  <2>2. CASE UNCHANGED vars
    BY <2>2 DEF vars, index, process, IInv, Types, StoredHandleKeepsFile, Stored
  <2> QED  BY <2>1, <2>2
<1>3. IInv => StoredHandleKeepsFile
  BY DEF IInv
<1> QED  BY <1>1, <1>2, <1>3, PTL DEF Spec

-----------------------------------------------------------------------------
(* Sums over finite sets *)

(* The order in which a fold takes the elements of a set, and the function it     *)
(* computes with, for the subsets of a set.                                       *)
Taken(s) == CHOOSE x \in s : TRUE
Sums(g, T) == g = [s \in SUBSET T |-> IF s = {} THEN 0 ELSE g[s \ {Taken(s)}] + Size[Taken(s)]]

(* Sum, with its folds unfolded. *)
LEMMA SumIsFold == ASSUME NEW T PROVE Sum(T) = (CHOOSE g : Sums(g, T))[T]
  BY DEF Sum, FoldSet, MapThenFoldSet, Sums, Taken

LEMMA TakenFacts == ASSUME NEW s, s # {} PROVE Taken(s) \in s
  BY DEF Taken

LEMMA SumsFacts ==
    ASSUME NEW T, NEW g, Sums(g, T), NEW s \in SUBSET T
    PROVE  g[s] = IF s = {} THEN 0 ELSE g[s \ {Taken(s)}] + Size[Taken(s)]
<1>1. g = [r \in SUBSET T |-> IF r = {} THEN 0 ELSE g[r \ {Taken(r)}] + Size[Taken(r)]]
  BY DEF Sums
<1> QED BY <1>1

(* A set of finite sets has one that strictly contains no other. *)
LEMMA LeastSet ==
    ASSUME NEW M, M # {}, \A s \in M : IsFiniteSet(s)
    PROVE  \E s \in M : \A r \in M : r \subseteq s => r = s
<1>1. PICK U : U = UNION M
  OBVIOUS
<1>2. M \subseteq FiniteSubsetsOf(U)
  BY <1>1 DEF FiniteSubsetsOf
<1>3. PICK s \in M : \A r \in M : ~(<<r, s>> \in StrictSubsetOrdering(U))
  BY <1>2, FS_StrictSubsetOrderingWellFounded, WFMin
<1>4. ASSUME NEW r \in M, r \subseteq s PROVE r = s
  <2>1. <<r, s>> \in (SUBSET U) \X (SUBSET U)
    BY <1>1
  <2> QED BY <1>3, <1>4, <2>1 DEF StrictSubsetOrdering
<1> QED BY <1>4

(* Two such functions agree wherever both are defined. *)
LEMMA SumsAgree ==
    ASSUME NEW S, NEW T, NEW g, NEW h, Sums(g, S), Sums(h, T), NEW s, s \subseteq S \cap T, IsFiniteSet(s)
    PROVE  g[s] = h[s]
<1> DEFINE M == {r \in SUBSET s : g[r] # h[r]}
<1>1. SUFFICES ASSUME M # {} PROVE FALSE
  OBVIOUS
<1>2. \A r \in M : IsFiniteSet(r)
  BY FS_Subset
<1>3. PICK r \in M : \A q \in M : q \subseteq r => q = r
  <2> HIDE DEF M
  <2> QED BY <1>1, <1>2, LeastSet
<1>4. /\ g[r] = IF r = {} THEN 0 ELSE g[r \ {Taken(r)}] + Size[Taken(r)]
      /\ h[r] = IF r = {} THEN 0 ELSE h[r \ {Taken(r)}] + Size[Taken(r)]
  BY SumsFacts
<1>5. r # {} /\ Taken(r) \in r
  BY <1>4, TakenFacts
<1>6. r \ {Taken(r)} \notin M
  BY <1>3, <1>5
<1>7. g[r \ {Taken(r)}] = h[r \ {Taken(r)}]
  BY <1>6
<1> QED BY <1>4, <1>5, <1>7

(* The subsets of a finite set have their sums. *)
LEMMA SumsExist == ASSUME NEW T, IsFiniteSet(T) PROVE \E g : Sums(g, T)
<1> DEFINE M == {s \in SUBSET T : ~\E g : Sums(g, s)}
<1>1. SUFFICES ASSUME M # {} PROVE FALSE
  OBVIOUS
<1>2. \A r \in M : IsFiniteSet(r)
  BY FS_Subset
<1>3. PICK r \in M : \A q \in M : q \subseteq r => q = r
  <2> HIDE DEF M
  <2> QED BY <1>1, <1>2, LeastSet
<1> DEFINE Of(s) == (CHOOSE g : Sums(g, s))[s]
<1> DEFINE Rest(s) == IF s = {} THEN 0 ELSE Of(s \ {Taken(s)}) + Size[Taken(s)]
<1> DEFINE G == [s \in SUBSET r |-> Rest(s)]
<1>4. \A s \in SUBSET r : s # r => Sums(CHOOSE g : Sums(g, s), s) /\ IsFiniteSet(s)
  <2> SUFFICES ASSUME NEW s \in SUBSET r, s # r
               PROVE  Sums(CHOOSE g : Sums(g, s), s) /\ IsFiniteSet(s)
    OBVIOUS
  <2>1. s \notin M /\ IsFiniteSet(s)
    BY <1>2, <1>3, FS_Subset
  <2>2. \E g : Sums(g, s)
    BY <2>1
  <2> QED  BY <2>1, <2>2
<1>5. ASSUME NEW s \in SUBSET r, s # r PROVE G[s] = Of(s)
  <2> DEFINE g == CHOOSE g : Sums(g, s)
  <2>1. Sums(g, s) /\ G[s] = Rest(s)
    BY <1>4, <1>5
  <2>2. CASE s = {}
    BY <2>1, <2>2, SumsFacts
  <2>3. CASE s # {}
    <3> DEFINE q == s \ {Taken(s)}
    <3> DEFINE h == CHOOSE g_1 : Sums(g_1, q)
    <3>1. q \subseteq s /\ q # s /\ q \subseteq r /\ q # r
      BY <2>3, TakenFacts
    <3>2. Sums(h, q) /\ IsFiniteSet(q)
      BY <1>4, <3>1
    <3>3. h[q] = g[q]
      <4> HIDE DEF q, h, g
      <4> QED BY <2>1, <3>1, <3>2, SumsAgree
    <3>4. g[s] = g[q] + Size[Taken(s)]
      <4> HIDE DEF g
      <4> QED BY <2>1, <2>3, SumsFacts
    <3> QED BY <2>1, <2>3, <3>3, <3>4
  <2> QED BY <2>2, <2>3
<1>6. Sums(G, r)
  <2>1. ASSUME NEW s \in SUBSET r PROVE G[s] = IF s = {} THEN 0 ELSE G[s \ {Taken(s)}] + Size[Taken(s)]
    <3>1. CASE s = {}
      BY <3>1
    <3>2. CASE s # {}
      <4>1. s \ {Taken(s)} \in SUBSET r /\ s \ {Taken(s)} # r
        BY <3>2, TakenFacts
      <4>2. G[s \ {Taken(s)}] = Of(s \ {Taken(s)})
        BY <1>5, <4>1
      <4>3. G[s] = Of(s \ {Taken(s)}) + Size[Taken(s)]
        BY <3>2
      <4> QED BY <3>2, <4>2, <4>3
    <3> QED BY <3>1, <3>2
  <2>2. G = [s \in SUBSET r |-> G[s]]
    OBVIOUS
  <2> HIDE DEF G
  <2> QED BY <2>1, <2>2 DEF Sums
<1> QED BY <1>3, <1>6

(* Sum is such a function, for each finite set its own. *)
LEMMA SumFacts ==
    ASSUME NEW T, IsFiniteSet(T)
    PROVE  Sum(T) = IF T = {} THEN 0 ELSE Sum(T \ {Taken(T)}) + Size[Taken(T)]
<1> DEFINE q == T \ {Taken(T)}
<1>1. PICK g : g = CHOOSE h : Sums(h, T)
  OBVIOUS
<1>2. PICK h : h = CHOOSE f : Sums(f, q)
  OBVIOUS
<1>3. IsFiniteSet(q)
  BY FS_Subset
<1>4. Sums(g, T) /\ Sums(h, q)
  BY <1>1, <1>2, <1>3, SumsExist
<1>5. Sum(T) = g[T] /\ Sum(q) = h[q]
  BY <1>1, <1>2, SumIsFold
<1>6. g[T] = IF T = {} THEN 0 ELSE g[q] + Size[Taken(T)]
  BY <1>4, SumsFacts
<1>7. g[q] = h[q]
  BY <1>3, <1>4, SumsAgree
<1> QED BY <1>5, <1>6, <1>7

(* The order does not matter. *)
LEMMA SumOfRest ==
    ASSUME NEW T, T \subseteq Key, IsFiniteSet(T)
    PROVE  Sum(T) \in Nat /\ \A k \in T : Sum(T) = Sum(T \ {k}) + Size[k]
<1> DEFINE Right(s) == Sum(s) \in Nat /\ \A k \in s : Sum(s) = Sum(s \ {k}) + Size[k]
<1> DEFINE M == {s \in SUBSET T : ~Right(s)}
<1>1. SUFFICES ASSUME M # {} PROVE FALSE
  OBVIOUS
<1>2. \A r \in M : IsFiniteSet(r)
  BY FS_Subset
<1>3. PICK r \in M : \A q \in M : q \subseteq r => q = r
  <2> HIDE DEF M
  <2> QED BY <1>1, <1>2, LeastSet
<1>4. ASSUME NEW q, q \subseteq r, q # r PROVE Right(q)
  BY <1>3, <1>4
<1>5. r \subseteq Key /\ IsFiniteSet(r)
  BY <1>2
<1>6. CASE r = {}
  <2>1. Sum(r) = 0
    BY <1>5, <1>6, SumFacts
  <2> QED BY <1>3, <1>6, <2>1
<1>7. CASE r # {}
  <2>1. PICK c \in r : c = Taken(r)
    BY <1>7, TakenFacts
  <2>2. Sum(r) = Sum(r \ {c}) + Size[c]
    BY <1>5, <1>7, <2>1, SumFacts
  <2>3. Right(r \ {c})
    BY <1>4
  <2>4. Size[c] \in Nat
    BY <1>5, StoreAssumption
  <2>5. ASSUME NEW k \in r PROVE Sum(r) = Sum(r \ {k}) + Size[k]
    <3>1. CASE k = c
      BY <2>2, <3>1
    <3>2. CASE k # c
      <4>1. Right(r \ {k}) /\ Right(r \ {c, k})
        BY <1>4
      <4>2. (r \ {k}) \ {c} = r \ {c, k} /\ (r \ {c}) \ {k} = r \ {c, k}
        OBVIOUS
      <4>3. /\ Sum(r \ {k}) = Sum(r \ {c, k}) + Size[c]
            /\ Sum(r \ {c}) = Sum(r \ {c, k}) + Size[k]
            /\ Sum(r \ {c, k}) \in Nat
        BY <2>3, <3>2, <4>1, <4>2
      <4>4. Size[k] \in Nat
        BY <1>5, StoreAssumption
      <4> QED BY <2>2, <2>4, <4>3, <4>4
    <3> QED BY <3>1, <3>2
  <2>6. Right(r)
    BY <2>2, <2>3, <2>4, <2>5
  <2> QED BY <1>3, <2>6
<1> QED BY <1>6, <1>7

(* Another element adds its size. *)
LEMMA SumAdd ==
    ASSUME NEW T, T \subseteq Key, IsFiniteSet(T), NEW k \in Key, k \notin T
    PROVE  Sum(T \cup {k}) = Sum(T) + Size[k] /\ Sum(T) \in Nat
<1>1. IsFiniteSet(T \cup {k})
  BY FS_AddElement
<1>2. (T \cup {k}) \ {k} = T
  OBVIOUS
<1>3. Sum(T \cup {k}) = Sum((T \cup {k}) \ {k}) + Size[k]
  BY <1>1, SumOfRest
<1> QED  BY <1>2, <1>3, SumOfRest

-----------------------------------------------------------------------------
(* Sequences of files *)

(* A sequence in which nothing is twice. *)
Distinct(s) == \A i, j \in DOMAIN s : s[i] = s[j] => i = j

(* A file that is there once is removed where it is ... *)
LEMMA FirstIndex ==
    ASSUME NEW s \in Seq(Key), Distinct(s), NEW i \in 1..Len(s)
    PROVE  RemoveFirst(s, s[i]) = RemoveAt(s, i)
<1>1. PICK k : k = s[i]
  OBVIOUS
<1>2. {j \in 1..Len(s) : s[j] = k} = {i}
  BY <1>1 DEF Distinct
<1>3. Min({i}) = i
  BY DEF Min
<1>4. SelectInSeq(s, LAMBDA v : v = k) = i
  BY <1>2, <1>3 DEF SelectInSeq
<1>5. RemoveFirst(s, k) = RemoveAt(s, i)
  BY <1>1, <1>4 DEF RemoveFirst
<1> QED  BY <1>1, <1>5

(* ... those after it move up, *)
LEMMA RemoveAtFacts ==
    ASSUME NEW s \in Seq(Key), NEW i \in 1..Len(s)
    PROVE  /\ RemoveAt(s, i) \in Seq(Key) /\ Len(RemoveAt(s, i)) = Len(s) - 1
           /\ \A j \in 1..Len(s) - 1 : RemoveAt(s, i)[j] = IF j < i THEN s[j] ELSE s[j + 1]
<1>1. PICK a : a = SubSeq(s, 1, i - 1)
  OBVIOUS
<1>2. PICK b : b = SubSeq(s, i + 1, Len(s))
  OBVIOUS
<1>3. a \in Seq(Key) /\ Len(a) = i - 1 /\ \A j \in 1..i - 1 : a[j] = s[j]
  BY <1>1
<1>4. b \in Seq(Key) /\ Len(b) = Len(s) - i /\ \A j \in 1..Len(s) - i : b[j] = s[i + j]
  BY <1>2
<1>5. PICK c : c = a \o b
  OBVIOUS
<1>6. RemoveAt(s, i) = c /\ c \in Seq(Key) /\ Len(c) = Len(s) - 1
  <2>1. RemoveAt(s, i) = c
    BY <1>1, <1>2, <1>5 DEF RemoveAt
  <2>2. a \in Seq(Key) /\ b \in Seq(Key)
    BY <1>3, <1>4
  <2>3. c \in Seq(Key) /\ Len(c) = Len(a) + Len(b)
    BY <1>5, <2>2
  <2> QED  BY <1>3, <1>4, <2>1, <2>3
<1>7. ASSUME NEW j \in 1..Len(s) - 1, j < i PROVE c[j] = s[j]
  <2>1. c[j] = a[j]
    BY <1>3, <1>4, <1>5, <1>7
  <2> QED  BY <1>3, <1>7, <2>1
<1>8. ASSUME NEW j \in 1..Len(s) - 1, ~(j < i) PROVE c[j] = s[j + 1]
  <2>1. PICK m : m = j - (i - 1)
    OBVIOUS
  <2>2. m \in 1..Len(s) - i /\ i + m = j + 1 /\ j = Len(a) + m
    BY <1>3, <1>8, <2>1
  <2>3. c[j] = b[m]
    BY <1>3, <1>4, <1>5, <2>2
  <2>4. b[m] = s[i + m]
    BY <1>4, <2>2
  <2> QED  BY <2>2, <2>3, <2>4
<1> QED  BY <1>6, <1>7, <1>8

(* and the others are all still there. *)
LEMMA RemoveFacts ==
    ASSUME NEW s \in Seq(Key), Distinct(s), NEW k
    PROVE  /\ RemoveFirst(s, k) \in Seq(Key)
           /\ Distinct(RemoveFirst(s, k))
           /\ Range(RemoveFirst(s, k)) = Range(s) \ {k}
<1>1. CASE \A i \in 1..Len(s) : s[i] # k
  <2>1. RemoveFirst(s, k) = s
    BY <1>1 DEF RemoveFirst
  <2>2. k \notin Range(s)
    BY <1>1 DEF Range
  <2> QED  BY <2>1, <2>2
<1>2. ASSUME NEW i \in 1..Len(s), s[i] = k
      PROVE  /\ RemoveFirst(s, k) \in Seq(Key)
             /\ Distinct(RemoveFirst(s, k))
             /\ Range(RemoveFirst(s, k)) = Range(s) \ {k}
  <2>1. PICK r : r = RemoveFirst(s, k)
    OBVIOUS
  <2>2. /\ r \in Seq(Key) /\ Len(r) = Len(s) - 1
        /\ \A j \in 1..Len(s) - 1 : r[j] = IF j < i THEN s[j] ELSE s[j + 1]
    BY <1>2, <2>1, FirstIndex, RemoveAtFacts
  <2>3. DOMAIN r = 1..Len(s) - 1 /\ DOMAIN s = 1..Len(s) /\ Len(s) \in Nat
    BY <2>2
  <2>4. Distinct(r)
    <3> SUFFICES ASSUME NEW m \in DOMAIN r, NEW n \in DOMAIN r, m < n PROVE r[m] # r[n]
      BY <2>3 DEF Distinct
    <3>1. PICK x \in DOMAIN s : r[m] = s[x] /\ x <= m + 1 /\ (m < i => x = m)
      <4>1. CASE m < i
        BY <2>2, <2>3, <4>1
      <4>2. CASE ~(m < i)
        BY <2>2, <2>3, <4>2
      <4> QED  BY <4>1, <4>2
    <3>2. PICK y \in DOMAIN s : r[n] = s[y] /\ y >= n /\ (~(n < i) => y = n + 1)
      <4>1. CASE n < i
        BY <2>2, <2>3, <4>1
      <4>2. CASE ~(n < i)
        BY <2>2, <2>3, <4>2
      <4> QED  BY <4>1, <4>2
    <3>3. x # y
      BY <2>3, <3>1, <3>2
    <3> QED  BY <3>1, <3>2, <3>3 DEF Distinct
  <2>5. ASSUME NEW j \in DOMAIN r PROVE r[j] \in Range(s) \ {k}
    <3>1. CASE j < i
      BY <1>2, <2>2, <2>3, <3>1 DEF Distinct, Range
    <3>2. CASE j >= i
      BY <1>2, <2>2, <2>3, <3>2 DEF Distinct, Range
    <3> QED  BY <2>3, <3>1, <3>2
  <2>6. ASSUME NEW j \in DOMAIN s, s[j] # k PROVE s[j] \in Range(r)
    <3>1. CASE j < i
      BY <2>2, <2>3, <3>1 DEF Range
    <3>2. CASE j > i
      <4>1. j - 1 \in 1..Len(s) - 1 /\ ~(j - 1 < i) /\ (j - 1) + 1 = j
        BY <2>3, <3>2
      <4>2. r[j - 1] = s[j]
        BY <2>2, <4>1
      <4> QED  BY <2>3, <4>1, <4>2 DEF Range
    <3> QED  BY <1>2, <2>3, <2>6, <3>1, <3>2
  <2>7. Range(r) = Range(s) \ {k}
    BY <2>5, <2>6 DEF Range
  <2> QED  BY <2>1, <2>2, <2>4, <2>7
<1> QED  BY <1>1, <1>2

(* A file that was not there becomes the last. *)
LEMMA AppendFacts ==
    ASSUME NEW s \in Seq(Key), Distinct(s), NEW k \in Key, k \notin Range(s)
    PROVE  /\ Append(s, k) \in Seq(Key)
           /\ Distinct(Append(s, k))
           /\ Range(Append(s, k)) = Range(s) \cup {k}
<1>1. PICK r : r = Append(s, k)
  OBVIOUS
<1>2. /\ r \in Seq(Key) /\ DOMAIN r = 1..Len(s) + 1 /\ DOMAIN s = 1..Len(s) /\ Len(s) \in Nat
      /\ r[Len(s) + 1] = k /\ \A j \in 1..Len(s) : r[j] = s[j]
  BY <1>1
<1>3. \A j \in DOMAIN s : s[j] # k
  BY DEF Range
<1>4. Distinct(r)
  BY <1>2, <1>3 DEF Distinct
<1>5. Range(r) = Range(s) \cup {k}
  <2>1. \A j \in DOMAIN r : r[j] \in Range(s) \cup {k}
    BY <1>2 DEF Range
  <2>2. \A j \in DOMAIN s : s[j] \in Range(r)
    BY <1>2 DEF Range
  <2>3. k \in Range(r)
    BY <1>2 DEF Range
  <2> QED  BY <2>1, <2>2, <2>3 DEF Range
<1> QED  BY <1>1, <1>2, <1>4, <1>5

(* What is left of the heap of a flush. *)
LEMMA FrontFacts ==
    ASSUME NEW s \in Seq(Key), Distinct(s), s # <<>>
    PROVE  /\ s[Len(s)] \in Range(s)
           /\ SubSeq(s, 1, Len(s) - 1) \in Seq(Key)
           /\ Distinct(SubSeq(s, 1, Len(s) - 1))
           /\ Range(SubSeq(s, 1, Len(s) - 1)) \subseteq Range(s) \ {s[Len(s)]}
<1>1. PICK r : r = SubSeq(s, 1, Len(s) - 1)
  OBVIOUS
<1>2. Len(s) \in 1..Len(s) /\ DOMAIN s = 1..Len(s) /\ Len(s) \in Nat
  OBVIOUS
<1>3. r \in Seq(Key) /\ DOMAIN r = 1..Len(s) - 1 /\ \A j \in 1..Len(s) - 1 : r[j] = s[j]
  BY <1>1, <1>2
<1>4. Distinct(r)
  BY <1>2, <1>3 DEF Distinct
<1>5. Range(r) \subseteq Range(s) \ {s[Len(s)]}
  BY <1>2, <1>3 DEF Distinct, Range
<1>6. s[Len(s)] \in Range(s)
  BY <1>2 DEF Range
<1> QED  BY <1>1, <1>3, <1>4, <1>5, <1>6

(* The index has finitely many files. *)
LEMMA RangeFinite == ASSUME NEW s \in Seq(Key) PROVE Range(s) \subseteq Key /\ IsFiniteSet(Range(s))
<1>1. DOMAIN s = 1..Len(s) /\ Len(s) \in Nat
  OBVIOUS
<1>2. s \in [1..Len(s) -> Range(s)] /\ \A x \in Range(s) : \E i \in 1..Len(s) : s[i] = x
  BY <1>1 DEF Range
<1>3. s \in Surjection(1..Len(s), Range(s))
  BY <1>2 DEF Surjection
<1>4. IsFiniteSet(1..Len(s))
  BY <1>1, FS_Interval
<1>5. IsFiniteSet(Range(s))
  BY <1>3, <1>4, FS_Surjection
<1> QED  BY <1>1, <1>5 DEF Range

-----------------------------------------------------------------------------
(* The index *)

(* What the index is made of, and that a flush only takes what is in it, once. *)
IndexTypes ==
    /\ known_files \in Seq(Key) /\ queue \in Seq(Key) /\ saved.known_files \in Seq(Key)
    /\ Distinct(saved.known_files) /\ Distinct(queue)
    /\ Range(queue) \subseteq Range(known_files)
    /\ DOMAIN arg = Thread /\ DOMAIN pc = Thread
    /\ \A t \in Thread : pc[t] \in {"storing", "writing", "renamed", "found", "touched"} => arg[t] \in Key

IndexInv == IndexTypes /\ TotalIsSum

(* A touch: the range gets the file, if it has not got it. *)
LEMMA TouchedFacts ==
    ASSUME IndexInv, NEW k \in Key
    PROVE  /\ Touched(k) \in Seq(Key) /\ Distinct(Touched(k))
           /\ Range(Touched(k)) = Range(known_files) \cup {k}
<1>1. known_files \in Seq(Key) /\ Distinct(known_files)
  BY DEF IndexInv, IndexTypes, TotalIsSum, Distinct
<1>2. PICK r : r = RemoveFirst(known_files, k)
  OBVIOUS
<1>3. r \in Seq(Key) /\ Distinct(r) /\ Range(r) = Range(known_files) \ {k}
  BY <1>1, <1>2, RemoveFacts
<1>4. /\ Append(r, k) \in Seq(Key) /\ Distinct(Append(r, k))
      /\ Range(Append(r, k)) = Range(r) \cup {k}
  BY <1>3, AppendFacts
<1> QED  BY <1>2, <1>3, <1>4 DEF Touched

LEMMA ContainsRange == ASSUME NEW s \in Seq(Key), NEW k PROVE Contains(s, k) <=> k \in Range(s)
  BY DEF Contains, Range

(* A new file is counted, one that is known already is not counted again. *)
LEMMA AddInv ==
    ASSUME IndexInv, NEW t \in Thread, StoreIndex(t) PROVE IndexInv'
<1>1. PICK k \in Key : k = arg[t]
  BY DEF IndexInv, IndexTypes, StoreIndex
<1>2. known_files' = Touched(k) /\ UNCHANGED <<saved, arg>> /\ pc[t] = "renamed"
  BY <1>1 DEF StoreIndex, Add
<1>3. /\ known_files' \in Seq(Key) /\ Distinct(known_files')
      /\ Range(known_files') = Range(known_files) \cup {k}
  BY <1>2, TouchedFacts
<1>4. Range(known_files) \subseteq Key /\ IsFiniteSet(Range(known_files))
  BY RangeFinite DEF IndexInv, IndexTypes
<1>5. total_size' = Sum(Range(known_files'))
  <2>1. total_size = Sum(Range(known_files))
    BY DEF IndexInv, TotalIsSum
  <2>2. total_size' = IF k \in Range(known_files) THEN total_size ELSE total_size + Size[k]
    BY <1>1, ContainsRange DEF StoreIndex, Add, IndexInv, IndexTypes
  <2>3. CASE k \in Range(known_files)
    <3>1. Range(known_files') = Range(known_files)
      BY <1>3, <2>3
    <3> QED  BY <2>1, <2>2, <2>3, <3>1
  <2>4. CASE k \notin Range(known_files)
    BY <1>3, <1>4, <2>1, <2>2, <2>4, SumAdd
  <2> QED  BY <2>3, <2>4
<1>6. /\ queue' \in Seq(Key) /\ Distinct(queue') /\ Range(queue') \subseteq Range(known_files')
      /\ DOMAIN pc' = Thread /\ \A u \in Thread : u # t => pc'[u] = pc[u]
      /\ pc'[t] \in {"flushing", "saving"}
  <2>1. CASE queue' = known_files' /\ pc' = [pc EXCEPT ![t] = "flushing"]
    BY <1>3, <2>1 DEF IndexInv, IndexTypes
  <2>2. CASE queue' = queue /\ pc' = [pc EXCEPT ![t] = "saving"]
    BY <1>3, <2>2 DEF IndexInv, IndexTypes
  <2> QED  BY <2>1, <2>2 DEF StoreIndex, MaybeFlush, Goes
<1>7. IndexTypes'
  BY <1>2, <1>3, <1>6 DEF IndexInv, IndexTypes
<1>8. TotalIsSum'
  BY <1>2, <1>3, <1>5 DEF IndexInv, TotalIsSum, Distinct
<1> QED  BY <1>7, <1>8 DEF IndexInv

(* A file is popped once, and is in the index: its size is taken away once. *)
LEMMA FlushInv ==
    ASSUME IndexInv, NEW t \in Thread, FlushOne(t) PROVE IndexInv'
<1>1. /\ queue # <<>> /\ queue' = SubSeq(queue, 1, Len(queue) - 1) /\ UNCHANGED <<saved, pc, arg>>
  BY DEF FlushOne
<1>2. PICK k : k = Popped
  OBVIOUS
<1>3. /\ k \in Range(queue) /\ queue' \in Seq(Key) /\ Distinct(queue')
      /\ Range(queue') \subseteq Range(queue) \ {k}
  BY <1>1, <1>2, FrontFacts DEF IndexInv, IndexTypes, Popped
<1>4. known_files \in Seq(Key) /\ Distinct(known_files) /\ total_size = Sum(Range(known_files))
  BY DEF IndexInv, IndexTypes, TotalIsSum, Distinct
<1>5. Range(queue) \subseteq Range(known_files)
  BY DEF IndexInv, IndexTypes
<1>6. Range(known_files) \subseteq Key /\ IsFiniteSet(Range(known_files))
  BY <1>4, RangeFinite
<1>7. /\ known_files' \in Seq(Key) /\ Distinct(known_files')
      /\ Range(queue') \subseteq Range(known_files')
      /\ total_size' = Sum(Range(known_files'))
  <2>1. CASE Locked(k)
    <3>1. known_files' = known_files /\ total_size' = total_size
      BY <1>2, <2>1 DEF FlushOne, FlushPopped, index
    <3> QED  BY <1>3, <1>4, <1>5, <3>1
  <2>2. CASE ~Locked(k)
    <3>1. known_files' = RemoveFirst(known_files, k) /\ total_size' = total_size - Size[k]
      BY <1>2, <2>2 DEF FlushOne, FlushPopped
    <3>2. /\ known_files' \in Seq(Key) /\ Distinct(known_files')
          /\ Range(known_files') = Range(known_files) \ {k}
      BY <1>4, <3>1, RemoveFacts
    <3>3. Sum(Range(known_files)) = Sum(Range(known_files) \ {k}) + Size[k]
      BY <1>3, <1>5, <1>6, SumOfRest
    <3>4. IsFiniteSet(Range(known_files) \ {k})
      BY <1>6, FS_Subset
    <3>5. Sum(Range(known_files) \ {k}) \in Nat
      BY <1>6, <3>4, SumOfRest
    <3>6. Size[k] \in Nat
      BY <1>3, <1>5, <1>6, StoreAssumption
    <3>7. total_size' = Sum(Range(known_files) \ {k})
      BY <1>4, <3>1, <3>3, <3>5, <3>6
    <3> QED  BY <1>3, <1>5, <3>2, <3>7
  <2> QED  BY <2>1, <2>2
<1>8. IndexTypes'
  BY <1>1, <1>3, <1>7 DEF IndexInv, IndexTypes
<1>9. TotalIsSum'
  BY <1>1, <1>7 DEF IndexInv, TotalIsSum, Distinct
<1> QED  BY <1>8, <1>9 DEF IndexInv

(* get changes the order of the files, and not which they are. *)
LEMMA TouchInv == ASSUME IndexInv, NEW t \in Thread, GetTouch(t) PROVE IndexInv'
<1>1. PICK k \in Key : k = arg[t]
  BY DEF IndexInv, IndexTypes, GetTouch
<1>2. /\ UNCHANGED <<saved, arg, queue, total_size>> /\ pc' = [pc EXCEPT ![t] = "touched"]
      /\ pc[t] = "found"
  BY DEF GetTouch, Goes
<1>3. known_files' = IF k \in Range(known_files) THEN Touched(k) ELSE known_files
  BY <1>1, ContainsRange DEF GetTouch, IndexInv, IndexTypes
<1>4. known_files' \in Seq(Key) /\ Distinct(known_files') /\ Range(known_files') = Range(known_files)
  <2>1. CASE k \in Range(known_files)
    <3>1. known_files' = Touched(k) /\ Range(known_files) \cup {k} = Range(known_files)
      BY <1>3, <2>1
    <3> QED  BY <3>1, TouchedFacts
  <2>2. CASE k \notin Range(known_files)
    BY <1>3, <2>2 DEF IndexInv, IndexTypes, TotalIsSum, Distinct
  <2> QED  BY <2>1, <2>2
<1>5. IndexTypes'
  BY <1>2, <1>4 DEF IndexInv, IndexTypes
<1>6. TotalIsSum'
  BY <1>2, <1>4 DEF IndexInv, TotalIsSum, Distinct
<1> QED  BY <1>5, <1>6 DEF IndexInv

LEMMA EmptyIndex == <<>> \in Seq(Key) /\ Distinct(<<>>) /\ Range(<<>>) = {} /\ Sum({}) = 0
<1>1. Sum({}) = 0
  BY FS_EmptySet, SumFacts
<1> QED  BY <1>1 DEF Distinct, Range

(* The index that is read was right when it was saved. *)
LEMMA RestartInv == ASSUME IndexInv, Restart PROVE IndexInv'
<1>1. /\ queue' = <<>> /\ saved' = saved /\ DOMAIN pc' = Thread /\ DOMAIN arg' = Thread
      /\ \A t \in Thread : pc'[t] = "idle"
  BY DEF Restart
<1>2. /\ known_files' \in Seq(Key) /\ Distinct(known_files') /\ total_size' = Sum(Range(known_files'))
  <2>1. CASE known_files' = saved.known_files /\ total_size' = saved.total_size
    BY <2>1 DEF IndexInv, IndexTypes, TotalIsSum
  <2>2. CASE known_files' = <<>> /\ total_size' = 0
    BY <2>2, EmptyIndex
  <2> QED  BY <2>1, <2>2 DEF Restart
<1>3. IndexTypes'
  BY <1>1, <1>2, EmptyIndex DEF IndexInv, IndexTypes
<1>4. TotalIsSum'
  BY <1>1, <1>2 DEF IndexInv, TotalIsSum, Distinct
<1> QED  BY <1>3, <1>4 DEF IndexInv

LEMMA SaveInv == ASSUME IndexInv, NEW t \in Thread, Save(t) PROVE IndexInv'
<1>1. /\ saved'.known_files = known_files /\ saved'.total_size = total_size
      /\ UNCHANGED <<known_files, total_size, queue>>
      /\ pc' = [pc EXCEPT ![t] = "idle"] /\ DOMAIN arg' = Thread
      /\ \A u \in Thread : u # t => arg'[u] = arg[u]
  BY DEF Save, index, Returns, Goes, IndexInv, IndexTypes
<1>2. IndexTypes'
  BY <1>1 DEF IndexInv, IndexTypes, TotalIsSum, Distinct
<1>3. TotalIsSum'
  BY <1>1 DEF IndexInv, TotalIsSum, Distinct
<1> QED  BY <1>2, <1>3 DEF IndexInv

(* A flush starts with what is in the index. *)
LEMMA CloseInv == ASSUME IndexInv, NEW t \in Thread, Close(t) PROVE IndexInv'
<1>1. UNCHANGED <<known_files, total_size, saved, arg>>
  BY DEF Close, index
<1>2. \/ queue' = known_files' /\ pc' = [pc EXCEPT ![t] = "flushing"]
      \/ queue' = queue /\ pc' = [pc EXCEPT ![t] = "saving"]
  BY DEF Close, MaybeFlush, Goes
<1>3. /\ DOMAIN pc' = Thread /\ \A u \in Thread : u # t => pc'[u] = pc[u]
      /\ pc'[t] \in {"flushing", "saving"}
  BY <1>2 DEF IndexInv, IndexTypes
<1>4. queue' \in Seq(Key) /\ Distinct(queue') /\ Range(queue') \subseteq Range(known_files')
  BY <1>1, <1>2 DEF IndexInv, IndexTypes, TotalIsSum, Distinct
<1>5. IndexTypes'
  BY <1>1, <1>3, <1>4 DEF IndexInv, IndexTypes
<1>6. TotalIsSum'
  BY <1>1 DEF IndexInv, TotalIsSum
<1> QED  BY <1>5, <1>6 DEF IndexInv

(* The other steps leave the index alone. *)
LEMMA OtherSteps ==
    ASSUME IndexInv,
           \/ \E t \in Thread : \/ \E k \in Key : StoreLock(t, k) \/ GetFound(t, k)
                                \/ StoreExists(t) \/ StoreWrite(t) \/ StoreFails(t) \/ StoreRename(t)
                                \/ FlushEnd(t) \/ GetHandle(t)
           \/ \E h \in handles : Drop(h) \/ \E t \in Thread : Clone(h, t)
           \/ UNCHANGED vars
    PROVE  IndexInv'
<1>1. UNCHANGED <<known_files, total_size, saved>>
  BY DEF StoreLock, GetFound, StoreExists, StoreWrite, StoreFails, StoreRename, FlushEnd, GetHandle,
         Drop, Clone, index, vars
<1>2. queue' \in {queue, <<>>}
  BY DEF StoreLock, GetFound, StoreExists, StoreWrite, StoreFails, StoreRename, FlushEnd, GetHandle,
         Drop, Clone, vars
<1>3. /\ DOMAIN arg' = Thread /\ DOMAIN pc' = Thread
      /\ \A t \in Thread : pc'[t] \in {"storing", "writing", "renamed", "found", "touched"} => arg'[t] \in Key
  <2> DEFINE Args == /\ DOMAIN arg' = Thread /\ DOMAIN pc' = Thread
                     /\ \A t \in Thread : pc'[t] \in {"storing", "writing", "renamed", "found", "touched"}
                                              => arg'[t] \in Key
  <2>1. ASSUME NEW t \in Thread, NEW k \in Key, StoreLock(t, k) \/ GetFound(t, k) PROVE Args
    BY <2>1 DEF StoreLock, GetFound, Goes, IndexInv, IndexTypes
  <2>2. ASSUME NEW t \in Thread, StoreExists(t) \/ StoreFails(t) \/ GetHandle(t) PROVE Args
    BY <2>2 DEF StoreExists, StoreFails, GetHandle, Returns, Goes, IndexInv, IndexTypes
  <2>3. ASSUME NEW t \in Thread, StoreWrite(t) \/ StoreRename(t) \/ FlushEnd(t) PROVE Args
    BY <2>3 DEF StoreWrite, StoreRename, FlushEnd, Goes, IndexInv, IndexTypes
  <2>4. CASE UNCHANGED <<pc, arg>>
    BY <2>4 DEF IndexInv, IndexTypes
  <2>5. ASSUME NEW h \in handles, Drop(h) \/ \E t \in Thread : Clone(h, t) PROVE UNCHANGED <<pc, arg>>
    BY <2>5 DEF Drop, Clone
  <2>6. CASE UNCHANGED vars
    BY <2>4, <2>6 DEF vars
  <2> QED  BY <2>1, <2>2, <2>3, <2>4, <2>5, <2>6
<1>4. IndexTypes'
  BY <1>1, <1>2, <1>3, EmptyIndex DEF IndexInv, IndexTypes
<1>5. TotalIsSum'
  BY <1>1 DEF IndexInv, TotalIsSum
<1> QED  BY <1>4, <1>5 DEF IndexInv

(* The inductive invariant, for the initial state and each step. *)
LEMMA IndexInit == Init => IndexInv
<1> SUFFICES ASSUME Init PROVE IndexInv
  OBVIOUS
<1>1. /\ known_files = <<>> /\ queue = <<>> /\ total_size = 0
      /\ saved.known_files = <<>> /\ saved.total_size = 0
      /\ DOMAIN pc = Thread /\ DOMAIN arg = Thread /\ \A t \in Thread : pc[t] = "idle"
  BY DEF Init
<1>2. IndexTypes
  BY <1>1, EmptyIndex DEF IndexTypes
<1>3. TotalIsSum
  BY <1>1, EmptyIndex DEF TotalIsSum, Distinct
<1> QED  BY <1>2, <1>3 DEF IndexInv

LEMMA IndexNext == IndexInv /\ [Next]_vars => IndexInv'
<1> SUFFICES ASSUME IndexInv, [Next]_vars PROVE IndexInv'
  OBVIOUS
<1>1. \/ \E t \in Thread : StoreIndex(t) \/ FlushOne(t) \/ Save(t) \/ GetTouch(t) \/ Close(t)
      \/ Restart
      \/ \E t \in Thread : \/ \E k \in Key : StoreLock(t, k) \/ GetFound(t, k)
                           \/ StoreExists(t) \/ StoreWrite(t) \/ StoreFails(t) \/ StoreRename(t)
                           \/ FlushEnd(t) \/ GetHandle(t)
      \/ \E h \in handles : Drop(h) \/ \E t \in Thread : Clone(h, t)
      \/ UNCHANGED vars
  BY DEF Next
<1> QED  BY <1>1, AddInv, FlushInv, SaveInv, TouchInv, CloseInv, RestartInv, OtherSteps

(* total_size is the sum of the sizes of the known files, each counted once, in  *)
(* the index and in the saved one: what FileStoreIndex::add adds and flush takes  *)
(* away always match, over any number of processes, so that the u64 never goes    *)
(* below zero and maybe_flush compares the right number with the limits.          *)
THEOREM TotalSizeIsSum == Spec => []TotalIsSum
<1>1. IndexInv => TotalIsSum
  BY DEF IndexInv
<1> QED  BY <1>1, IndexInit, IndexNext, PTL DEF Spec

-----------------------------------------------------------------------------
(* The cache *)

(* An entry is what a run with its limits gave. *)
Honest(e) ==
    /\ e.query \in Query /\ e.used \in Usage
    /\ MayUse(program, e.query, e.used)
    /\ e = Executed(program, e.query, e.used)

CacheInv ==
    /\ program \in Program
    /\ running \subseteq Queries
    /\ \A i \in DOMAIN entries : Honest(entries[i])
    /\ \A i \in DOMAIN cache_file : Honest(cache_file[i])
    /\ entries \in Seq(Entry) /\ cache_file \in Seq(Entry)

-----------------------------------------------------------------------------
(* Rounding a time up does not change an order. *)
LEMMA CeilMonotone ==
    ASSUME NEW x \in Nat, NEW y \in Nat, x <= y
    PROVE  Ceil(x) \in Nat /\ Ceil(x) <= Ceil(y) /\ x <= Ceil(x)
<1>0. Second \in Nat /\ Second > 0
  BY CacheAssumption
<1>1. PICK u \in Nat, v \in Nat : u = x + Second - 1 /\ v = y + Second - 1 /\ u <= v
  BY <1>0
<1>2. PICK a \in Nat, i \in Nat : a = u \div Second /\ u = Second * a + i /\ i < Second
  BY <1>0, <1>1
<1>3. PICK b \in Nat, j \in Nat : b = v \div Second /\ v = Second * b + j /\ j < Second
  BY <1>0, <1>1
<1>4. a <= b
  <2> SUFFICES ASSUME a >= b + 1 PROVE FALSE
    BY <1>2, <1>3
  <2>1. Second * a >= Second * (b + 1) /\ Second * (b + 1) = Second * b + Second
    BY <1>0, <1>2, <1>3
  <2> QED  BY <1>0, <1>1, <1>2, <1>3, <2>1
<1>5. Ceil(x) = Second * a /\ Ceil(y) = Second * b
  BY <1>0, <1>1, <1>2, <1>3 DEF Ceil
<1>6. Second * a <= Second * b /\ Second * a \in Nat
  BY <1>0, <1>2, <1>3, <1>4
<1>7. x <= Second * a
  BY <1>0, <1>1, <1>2, <1>6
<1> QED  BY <1>5, <1>6, <1>7

(* What succeeds with some limits succeeds with less restrictive ones: the heart *)
(* of is_compatible.                                                             *)
LEMMA LooserSucceeds ==
    ASSUME NEW p \in Program, NEW a \in Query, NEW b \in Query,
           CheckLimits(a, b), Comparable(a, b) \/ Comparable(b, a), Succeeds(p, a)
    PROVE  Succeeds(p, b)
<1> USE CacheAssumption
<1>0. /\ p.need \in [Measured -> Nat] /\ p.hard \in [Hard -> Nat] /\ p.power \subseteq Power
      /\ a.limit \in [Measured -> Limit] /\ b.limit \in [Measured -> Limit]
      /\ a.hard \in [Hard -> Limit] /\ b.hard \in [Hard -> Limit]
      /\ a.extra \in [Measured -> Nat] /\ b.extra \in [Measured -> Nat] /\ a.extra = b.extra
      /\ a.power \subseteq Power /\ b.power \subseteq Power
  BY DEF Program, Query, Comparable
<1>1. ASSUME NEW r \in Measured, b.limit[r] # Inf
      PROVE  /\ a.limit[r] \in Nat /\ b.limit[r] \in Nat /\ a.limit[r] <= b.limit[r]
             /\ p.need[r] \in Nat /\ p.need[r] <= b.limit[r]
  <2>1. a.limit[r] # Inf /\ a.limit[r] <= b.limit[r]
    <3>1. a.limit[r] \in Limit /\ b.limit[r] \in Limit /\ a.extra[r] - b.extra[r] = 0
      BY <1>0
    <3>2. AtMost(a.limit[r], 0, b.limit[r])
      BY <3>1 DEF CheckLimits, CheckMeasured, AtMostUnsigned, AtMost
    <3> QED  BY <1>1, <3>1, <3>2 DEF AtMost, Limit
  <2>2. p.need[r] <= a.limit[r]
    BY <2>1 DEF Succeeds, WithinLimit
  <2> QED  BY <1>0, <1>1, <2>1, <2>2 DEF Limit
<1>2. ~Stopped(p, b) /\ WithinLimit(b, p.need)
  <2>1. WithinLimit(b, p.need)
    BY <1>1 DEF WithinLimit
  <2>2. ASSUME NEW r \in Measured, OverOther(b, p.need, r) PROVE FALSE
    <3>1. b.limit[r] # Inf
      BY <2>2 DEF OverOther
    <3>2. b.limit[r] \in Nat /\ b.extra[r] \in Nat /\ p.need[r] \in Nat /\ p.need[r] <= b.limit[r]
      BY <1>0, <1>1, <3>1
    <3>3. PICK t \in Nat : t = b.limit[r] + b.extra[r] /\ p.need[r] <= t
      BY <3>2
    <3>4. Ceil(t) \in Nat /\ t <= Ceil(t)
      BY <3>3, CeilMonotone
    <3> QED  BY <2>2, <3>2, <3>3, <3>4 DEF OverOther
  <2>3. ASSUME OverCpu(b, p.need) PROVE FALSE
    <3>0. CpuTime \in Measured /\ SysTime \in Measured
      OBVIOUS
    <3>1. CpuGiven(b) # {}
      BY <2>3, <3>0 DEF OverCpu, CpuLimit, CpuGiven
    <3>2. CpuGiven(a) # {}
      BY <1>1, <3>0, <3>1 DEF CpuGiven
    <3>3. CpuGiven(a) = CpuGiven(b)
      BY <3>1, <3>2 DEF Comparable
    <3>4. (a.limit[CpuTime] = Inf <=> b.limit[CpuTime] = Inf) /\ (a.limit[SysTime] = Inf <=> b.limit[SysTime] = Inf)
      BY <3>3 DEF CpuGiven
    <3>5. CpuLimit(a) \in Nat /\ CpuLimit(b) \in Nat /\ CpuLimit(a) <= CpuLimit(b)
      <4>1. CASE b.limit[CpuTime] = Inf
        BY <1>1, <2>3, <3>0, <3>4, <4>1 DEF CpuLimit, OverCpu
      <4>2. CASE b.limit[CpuTime] # Inf /\ b.limit[SysTime] = Inf
        BY <1>1, <3>0, <3>4, <4>2 DEF CpuLimit
      <4>3. CASE b.limit[CpuTime] # Inf /\ b.limit[SysTime] # Inf
        <5>1. /\ a.limit[CpuTime] \in Nat /\ b.limit[CpuTime] \in Nat /\ a.limit[CpuTime] <= b.limit[CpuTime]
              /\ a.limit[SysTime] \in Nat /\ b.limit[SysTime] \in Nat /\ a.limit[SysTime] <= b.limit[SysTime]
          BY <1>1, <3>0, <4>3
        <5>2. /\ CpuLimit(a) = a.limit[CpuTime] + a.limit[SysTime]
              /\ CpuLimit(b) = b.limit[CpuTime] + b.limit[SysTime]
          BY <3>4, <4>3 DEF CpuLimit
        <5> QED  BY <5>1, <5>2
      <4> QED  BY <4>1, <4>2, <4>3
    <3>6. PICK m \in Nat, n \in Nat : /\ m = CpuLimit(a) + a.extra[CpuTime]
                                      /\ n = CpuLimit(b) + b.extra[CpuTime] /\ m <= n
      <4>1. a.extra[CpuTime] \in Nat /\ a.extra[CpuTime] = b.extra[CpuTime]
        BY <1>0, <3>0
      <4> QED  BY <3>5, <4>1
    <3>7. Ceil(m) \in Nat /\ Ceil(n) \in Nat /\ Ceil(m) <= Ceil(n)
      BY <3>6, CeilMonotone
    <3>8. ~OverCpu(a, p.need) /\ CpuLimit(a) # Inf
      BY <3>5 DEF Succeeds, Finishes, Stopped, Over
    <3>9. p.need[CpuTime] \in Nat /\ p.need[SysTime] \in Nat
      BY <1>0, <3>0
    <3> QED  BY <2>3, <3>6, <3>7, <3>8, <3>9 DEF OverCpu
  <2> QED  BY <2>1, <2>2, <2>3 DEF Stopped, Over
<1>3. \A r \in Hard : b.hard[r] = Inf \/ p.hard[r] <= b.hard[r]
  <2> SUFFICES ASSUME NEW r \in Hard, b.hard[r] # Inf PROVE p.hard[r] <= b.hard[r]
    OBVIOUS
  <2>0. a.hard[r] \in Limit /\ b.hard[r] \in Nat /\ p.hard[r] \in Nat
    BY <1>0 DEF Limit
  <2>1. AtMost(a.hard[r], 0, b.hard[r])
    BY DEF CheckLimits, CheckHard
  <2>2. a.hard[r] \in Nat /\ a.hard[r] <= b.hard[r]
    BY <2>0, <2>1 DEF AtMost, Limit
  <2>3. p.hard[r] <= a.hard[r]
    BY <2>2 DEF Succeeds, Finishes, Allowed
  <2> QED  BY <2>0, <2>2, <2>3
<1>4. a.power \subseteq b.power
  <2>1. Dirs(a) \subseteq Dirs(b)
    BY DEF CheckLimits, CheckDirs, Comparable
  <2>2. a.power \cap Ignored \subseteq b.power
    BY DEF Comparable
  <2> QED  BY <2>1, <2>2 DEF CheckLimits, CheckPower, Dirs
<1> QED  BY <1>2, <1>3, <1>4 DEF Succeeds, Finishes, Allowed

(* The status of a run says whether it succeeds. *)
LEMMA StatusIsTruth ==
    ASSUME NEW e, program \in Program, Honest(e)
    PROVE  /\ e.status = "Success" <=> Succeeds(program, e.query)
           /\ e.status = "Success" => e.output = "complete" /\ e.used = program.need
  BY DEF Honest, Executed, StatusOf, MayUse, Succeeds, Finishes, WithinLimit

LEMMA HitFromEntry ==
    ASSUME NEW e, program \in Program, Honest(e), NEW q \in Query,
           IsCompatible(e, q), Comparable(e.query, q)
    PROVE  /\ HitStatus(e, q) = "Success" <=> Succeeds(program, q)
           /\ HitStatus(e, q) = "Success" => e.output = "complete"
<1>0. e.query \in Query
  BY DEF Honest
<1>1. CASE e.status = "Success"
  <2>1. Succeeds(program, q)
    BY <1>0, <1>1, StatusIsTruth, LooserSucceeds DEF IsCompatible
  <2> QED  BY <1>1, <2>1, StatusIsTruth DEF HitStatus, StatusOf, Succeeds
<1>2. CASE e.status # "Success"
  <2>1. ~Succeeds(program, q)
    BY <1>0, <1>2, StatusIsTruth, LooserSucceeds DEF IsCompatible
  <2> QED  BY <1>2, <2>1 DEF HitStatus, StatusOf
<1> QED  BY <1>1, <1>2

-----------------------------------------------------------------------------
(* What a run gives is an entry. *)
LEMMA ExecutedIsHonest ==
    ASSUME CacheInv, NEW q \in Queries, NEW used \in Usage, MayUse(program, q, used)
    PROVE  Honest(Executed(program, q, used)) /\ Executed(program, q, used) \in Entry
  BY CacheAssumption DEF CacheInv, Honest, Executed, Entry, Status, Content, StatusOf

(* An insertion leaves the other entries alone. *)
LEMMA InsertedAreHonest ==
    ASSUME CacheInv, NEW e \in Entry, Honest(e)
    PROVE  /\ Inserted(e) \in Seq(Entry)
           /\ \A i \in DOMAIN Inserted(e) : Honest(Inserted(e)[i])
<1> DEFINE same == {i \in DOMAIN entries : SameLimits(entries[i], e)}
<1>0. entries \in Seq(Entry) /\ \A i \in DOMAIN entries : Honest(entries[i])
  BY DEF CacheInv
<1>1. CASE same = {}
  <2>1. Inserted(e) = Append(entries, e)
    BY <1>1 DEF Inserted
  <2> QED  BY <1>0, <2>1
<1>2. CASE same # {}
  <2> DEFINE n == Min(same)
  <2>1. Inserted(e) = [entries EXCEPT ![n] = e]
    BY <1>2 DEF Inserted
  <2> HIDE DEF n
  <2>2. DOMAIN entries = 1..Len(entries) /\ Len(entries) \in Nat
    BY <1>0
  <2>3. DOMAIN Inserted(e) = DOMAIN entries
    BY <2>1
  <2>4. \A i \in DOMAIN entries : Inserted(e)[i] = e \/ Inserted(e)[i] = entries[i]
    BY <2>1
  <2>5. \A i \in DOMAIN entries : entries[i] \in Entry
    BY <1>0, <2>2
  <2>6. Inserted(e) \in [1..Len(entries) -> Entry]
    BY <2>1, <2>2, <2>5
  <2>7. Inserted(e) \in Seq(Entry)
    BY <2>2, <2>6
  <2> QED  BY <1>0, <2>3, <2>4, <2>7
<1> QED  BY <1>1, <1>2

(* Every entry, in memory and in the file, is what a run with its limits gave. *)
LEMMA EntriesAreHonest == CacheSpec => []CacheInv
<1>1. CacheInit => CacheInv
  BY CacheAssumption DEF CacheInit, CacheInv
<1>2. CacheInv /\ [CacheNext]_cacheVars => CacheInv'
  <2> SUFFICES ASSUME CacheInv, [CacheNext]_cacheVars PROVE CacheInv'
    OBVIOUS
  <2>0. ASSUME program' = program, NEW s \in Seq(Entry), \A i \in DOMAIN s : Honest(s[i])
        PROVE  \A i \in DOMAIN s : Honest(s[i])'
    BY <2>0 DEF Honest
  <2>1. ASSUME NEW q \in Queries, Miss(q) \/ InternalError(q) PROVE CacheInv'
    BY <2>1, <2>0 DEF CacheInv, Miss, InternalError, Honest
  <2>2. ASSUME NEW q \in Queries, NEW used \in Usage, Finish(q, used) PROVE CacheInv'
    <3>1. /\ entries' \in Seq(Entry) /\ \A i \in DOMAIN entries' : Honest(entries'[i])
      BY <2>2, ExecutedIsHonest, InsertedAreHonest DEF Finish
    <3> QED  BY <2>2, <3>1 DEF CacheInv, Finish, Honest
  <2>3. ASSUME NEW c \in Content, Flush(c) PROVE CacheInv'
    BY <2>3 DEF CacheInv, Flush, Honest
  <2>4. CASE DropAndLoad
    <3>1. /\ entries' \in Seq(Entry) /\ \A i \in DOMAIN entries' : Honest(entries'[i])
          /\ cache_file' = entries'
      BY <2>4 DEF CacheInv, DropAndLoad
    <3> QED  BY <2>4, <3>1 DEF CacheInv, DropAndLoad, Honest
  <2>5. CASE Lost
    <3>1. entries' \in Seq(Entry) /\ \A i \in DOMAIN entries' : Honest(entries'[i])
      <4>1. CASE entries' = cache_file
        BY <4>1 DEF CacheInv
      <4>2. CASE entries' = <<>>
        BY <4>2
      <4> QED  BY <2>5, <4>1, <4>2 DEF Lost
    <3> QED  BY <2>5, <3>1 DEF CacheInv, Lost, Honest
  <2>6. CASE UNCHANGED cacheVars
    BY <2>6 DEF CacheInv, cacheVars, Honest
  <2> QED  BY <2>1, <2>2, <2>3, <2>4, <2>5, <2>6 DEF CacheNext
<1> QED  BY <1>1, <1>2, PTL DEF CacheSpec

(* "The algorithm for extending a cache entry for a different limit": whatever the *)
(* program needs and whatever the limits are, as long as they can be compared, a    *)
(* hit says success exactly when a run would succeed.                               *)
THEOREM HitsAreRight == CacheSpec => []HitIsRight
<1>1. CacheInv => HitIsRight
  BY CacheAssumption, HitFromEntry DEF CacheInv, HitIsRight, Candidates
<1> QED  BY <1>1, EntriesAreHonest, PTL

-----------------------------------------------------------------------------
(* What the documentation calls less restrictive, is_compatible finds to be so. *)
LEMMA LessRestrictiveIsCompatible ==
    ASSUME NEW a \in Query, NEW b \in Query, a.extra = b.extra, LessRestrictive(b, a)
    PROVE  CheckLimits(a, b)
<1> USE CacheAssumption
<1>0. /\ a.limit \in [Measured -> Limit] /\ b.limit \in [Measured -> Limit]
      /\ a.hard \in [Hard -> Limit] /\ b.hard \in [Hard -> Limit]
      /\ a.extra \in [Measured -> Nat]
  BY DEF Query
<1>1. CheckMeasured(a, b)
  <2> SUFFICES ASSUME NEW r \in Measured
               PROVE  /\ AtMost(a.limit[r], a.extra[r] - b.extra[r], b.limit[r])
                      /\ AtMostUnsigned(a.limit[r], a.extra[r] - b.extra[r], b.limit[r])
    BY DEF CheckMeasured
  <2>1. /\ a.limit[r] \in Limit /\ b.limit[r] \in Limit /\ a.extra[r] - b.extra[r] = 0
    BY <1>0
  <2>2. b.limit[r] = Inf \/ (a.limit[r] # Inf /\ b.limit[r] >= a.limit[r])
    BY DEF LessRestrictive
  <2> QED  BY <2>1, <2>2 DEF AtMost, AtMostUnsigned, Limit
<1>2. CheckHard(a, b)
  <2> SUFFICES ASSUME NEW r \in Hard PROVE AtMost(a.hard[r], 0, b.hard[r])
    BY DEF CheckHard
  <2>1. a.hard[r] \in Limit /\ b.hard[r] \in Limit
    BY <1>0
  <2>2. b.hard[r] = Inf \/ (a.hard[r] # Inf /\ b.hard[r] >= a.hard[r])
    BY DEF LessRestrictive
  <2> QED  BY <2>1, <2>2 DEF AtMost, Limit
<1>3. CheckPower(a, b) /\ CheckDirs(a, b)
  BY DEF LessRestrictive, CheckPower, CheckDirs, Dirs
<1> QED  BY <1>1, <1>2, <1>3 DEF CheckLimits

(* The other direction: an execution whose end is known, because an entry whose    *)
(* outputs are there succeeded with limits that are not less restrictive or failed *)
(* with limits that are not more, is never given to a worker by schedule_cached.   *)
THEOREM KnownIsUsed == CacheSpec => []NoNeedlessRun
<1>1. CacheInv => NoNeedlessRun
  <2> SUFFICES ASSUME CacheInv, NEW q \in Queries, NEW i \in DOMAIN entries,
                      entries[i].output \in stored_outputs, entries[i].query.extra = q.extra,
                      IF entries[i].status = "Success" THEN LessRestrictive(q, entries[i].query)
                                                       ELSE LessRestrictive(entries[i].query, q)
               PROVE  i \in Candidates(q)
    BY DEF NoNeedlessRun
  <2>1. entries[i].query \in Query /\ q \in Query
    BY CacheAssumption DEF CacheInv, Honest
  <2>2. IsCompatible(entries[i], q)
    BY <2>1, LessRestrictiveIsCompatible DEF IsCompatible
  <2> QED  BY <2>2 DEF Candidates
<1> QED  BY <1>1, EntriesAreHonest, PTL

=============================================================================
