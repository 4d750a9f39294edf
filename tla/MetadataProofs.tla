--------------------------- MODULE MetadataProofs ---------------------------
(***************************************************************************)
(* Proofs about MetadataBuffers, for any objects and tags and any number   *)
(* of buffers and entries: who owns a buffer, and what a lock protects.    *)
(*                                                                         *)
(* OneOwner is nearly inductive.  It needs the range of the pointers, so   *)
(* that NULL is no buffer and the allocator's choice is a buffer that is   *)
(* not live, and the contents of the buffers, so that a request for room   *)
(* is never met by an object that has no buffer.                           *)
(***************************************************************************)
EXTENDS MetadataBuffers, TLAPS

\* The pointers of the objects are NULL or buffers of the allocator.
Pointers ==
    /\ mBuffer \in [Objects -> {NULL} \cup (1..MaxBuffers)]
    /\ live \subseteq 1..MaxBuffers

Content == [tags : Seq(Tags), cap : Nat]
Contents == \A b \in live : heap[b] \in Content

Locks == mLocked \in [Objects -> BOOLEAN]

Owned == Pointers /\ Contents /\ OneOwner
IInv == Owned /\ Locks

\* What Cleared(o) leaves of the heap: all but the object's buffer.
LEMMA ClearedHeap ==
    ASSUME Owned, MaxBuffers \in Nat, NEW o \in Objects
    PROVE  /\ DOMAIN Cleared(o) = live \ {mBuffer[o]}
           /\ \A x \in live \ {mBuffer[o]} : Cleared(o)[x] = heap[x]
<1>1. CASE mBuffer[o] = NULL
  <2>1. NULL \notin live
    BY DEF Owned, Pointers, NULL
  <2> QED BY <1>1, <2>1 DEF Cleared, live
<1>2. CASE mBuffer[o] # NULL
  BY <1>2 DEF Cleared, Freed, live
<1> QED BY <1>1, <1>2

\* An allocation gives a buffer that is not live.
LEMMA FreshBuffer ==
    ASSUME Owned, CanAllocate
    PROVE  Fresh \in (1..MaxBuffers) \ live
<1>1. \E b \in 1..MaxBuffers : b \notin live
  BY DEF Owned, Pointers, CanAllocate
<1> QED BY <1>1 DEF Fresh

\* The initial state has neither buffers nor locks.
LEMMA InitInvariant == Init => IInv
<1> SUFFICES ASSUME Init PROVE IInv
  OBVIOUS
<1>1. live = {}
  BY DEF Init, live
<1> QED BY <1>1 DEF Init, IInv, Owned, Locks, Pointers, Contents, OneOwner, NULL

\* Every live buffer has an owner: the last part of OneOwner, read one buffer at
\* a time.
LEMMA OwnersOfBuffer ==
    ASSUME OneOwner
    PROVE  \A x : x \in live <=>
               x \in raw \/ x \in lost \/ (x # NULL /\ \E o \in Objects : mBuffer[o] = x)
BY DEF OneOwner

\* The same argument backwards, for the state after a step.
LEMMA OwnersAfterStep ==
    ASSUME \A x : x \in live' <=>
               x \in raw' \/ x \in lost' \/ (x # NULL /\ \E o \in Objects : mBuffer'[o] = x)
    PROVE  live' = raw' \cup lost' \cup ({mBuffer'[o] : o \in Objects} \ {NULL})
OBVIOUS

\* A step that only moves pointers: what clear() of object o leaves in the heap,
\* when o then points to b, which was the caller's or is NULL.
LEMMA PointedElsewhere ==
    ASSUME Owned, MaxBuffers \in Nat, NEW o \in Objects, NEW b \in raw \cup {NULL},
           heap' = Cleared(o), Point(o, b), raw' = raw \ {b}, lost' = lost
    PROVE  Owned'
<1>1. mBuffer \in [Objects -> {NULL} \cup (1..MaxBuffers)] /\ live \subseteq 1..MaxBuffers
  BY DEF Owned, Pointers
<1>2. mBuffer' = [mBuffer EXCEPT ![o] = b]
  BY DEF Point
<1>3. live' = live \ {mBuffer[o]} /\ \A x \in live' : heap'[x] = heap[x]
  BY ClearedHeap DEF live
<1>4. OneOwner /\ NULL \notin live /\ NULL \notin raw
  BY <1>1 DEF Owned, OneOwner, NULL
<1>5. Pointers'
  BY <1>1, <1>2, <1>3, <1>4 DEF Pointers, OneOwner
<1>6. Contents'
  BY <1>3 DEF Owned, Contents
<1>7. live' = raw' \cup lost' \cup ({mBuffer'[p] : p \in Objects} \ {NULL})
  <2>1. \A x : x \in live' <=>
            x \in raw' \/ x \in lost' \/ (x # NULL /\ \E p \in Objects : mBuffer'[p] = x)
    BY <1>1, <1>2, <1>3, <1>4, OwnersOfBuffer DEF OneOwner
  <2> QED BY <2>1, OwnersAfterStep
<1>8. OneOwner'
  BY <1>1, <1>2, <1>3, <1>4, <1>7 DEF OneOwner
<1> QED BY <1>5, <1>6, <1>8 DEF Owned

\* A step that gives object o a new buffer in place of its own.
LEMMA NewBuffer ==
    ASSUME Owned, MaxBuffers \in Nat, NEW o \in Objects, CanAllocate, NEW c \in Content,
           heap' = With(Cleared(o), Fresh, c), Point(o, Fresh), raw' = raw, lost' = lost
    PROVE  Owned'
<1>1. mBuffer \in [Objects -> {NULL} \cup (1..MaxBuffers)] /\ live \subseteq 1..MaxBuffers
  BY DEF Owned, Pointers
<1> DEFINE f == Fresh
<1>2. mBuffer' = [mBuffer EXCEPT ![o] = f] /\ f \in 1..MaxBuffers /\ f \notin live /\ f # NULL
  BY FreshBuffer DEF Point, NULL
<1>3. /\ live' = (live \ {mBuffer[o]}) \cup {f}
      /\ \A x \in live' : heap'[x] = IF x = f THEN c ELSE heap[x]
  BY <1>2, ClearedHeap DEF live, With
<1> HIDE DEF f
<1>4. OneOwner /\ NULL \notin live
  BY <1>1 DEF Owned, NULL
<1>5. Pointers'
  BY <1>1, <1>2, <1>3 DEF Pointers
<1>6. Contents'
  BY <1>3 DEF Owned, Contents
<1>7. live' = raw' \cup lost' \cup ({mBuffer'[p] : p \in Objects} \ {NULL})
  <2>1. \A x : x \in live' <=>
            x \in raw' \/ x \in lost' \/ (x # NULL /\ \E p \in Objects : mBuffer'[p] = x)
    BY <1>1, <1>2, <1>3, <1>4, OwnersOfBuffer DEF OneOwner
  <2> QED BY <2>1, OwnersAfterStep
<1>8. OneOwner'
  BY <1>1, <1>2, <1>3, <1>4, <1>7 DEF OneOwner
<1> QED BY <1>5, <1>6, <1>8 DEF Owned

\* A step that changes the tags in the buffer of object o.
LEMMA StoredInPlace ==
    ASSUME Owned, MaxBuffers \in Nat, NEW o \in Objects, mBuffer[o] # NULL, NEW tags \in Seq(Tags),
           heap' = With(heap, mBuffer[o], [heap[mBuffer[o]] EXCEPT !.tags = tags]),
           mBuffer' = mBuffer, raw' = raw, lost' = lost
    PROVE  Owned'
<1>1. mBuffer[o] \in live
  BY DEF Owned, OneOwner
<1>2. live' = live
  BY <1>1 DEF live, With
<1>3. heap'[mBuffer[o]] \in Content /\ \A x \in live \ {mBuffer[o]} : heap'[x] = heap[x]
  <2>1. heap[mBuffer[o]] \in [tags : Seq(Tags), cap : Nat]
    BY <1>1 DEF Owned, Contents, Content
  <2>2. heap'[mBuffer[o]] = [heap[mBuffer[o]] EXCEPT !.tags = tags]
    BY <1>1 DEF With, live
  <2>3. heap'[mBuffer[o]] \in Content
    BY <2>1, <2>2 DEF Content
  <2>4. \A x \in live \ {mBuffer[o]} : heap'[x] = heap[x]
    BY DEF With, live
  <2> QED BY <2>3, <2>4
<1>4. Contents'
  BY <1>2, <1>3 DEF Owned, Contents
<1>5. Pointers' /\ OneOwner'
  BY <1>2 DEF Owned, Pointers, OneOwner
<1> QED BY <1>4, <1>5 DEF Owned

\* A step that moves the buffer of object o to the caller or to the lost ones.
LEMMA Detached ==
    ASSUME Owned, MaxBuffers \in Nat, NEW o \in Objects, heap' = heap, Point(o, NULL),
           \/ raw' = raw \cup ({mBuffer[o]} \ {NULL}) /\ lost' = lost
           \/ raw' = raw /\ lost' = lost \cup ({mBuffer[o]} \ {NULL})
    PROVE  Owned'
<1>1. mBuffer \in [Objects -> {NULL} \cup (1..MaxBuffers)] /\ live \subseteq 1..MaxBuffers
  BY DEF Owned, Pointers
<1>2. mBuffer' = [mBuffer EXCEPT ![o] = NULL] /\ live' = live
  BY DEF Point, live
<1>3. OneOwner /\ NULL \notin live
  BY <1>1 DEF Owned, NULL
<1>4. Pointers' /\ Contents'
  BY <1>1, <1>2 DEF Owned, Pointers, Contents
<1>5. live' = raw' \cup lost' \cup ({mBuffer'[p] : p \in Objects} \ {NULL})
  <2>1. \A x : x \in live' <=>
            x \in raw' \/ x \in lost' \/ (x # NULL /\ \E p \in Objects : mBuffer'[p] = x)
    BY <1>1, <1>2, <1>3, OwnersOfBuffer DEF OneOwner
  <2> QED BY <2>1, OwnersAfterStep
<1>6. OneOwner'
  BY <1>1, <1>2, <1>3, <1>5 DEF OneOwner
<1> QED BY <1>4, <1>6 DEF Owned

\* resizeIfNeeded() and the change that follows it.
LEMMA ResizeKeeps ==
    ASSUME Owned, MaxBuffers \in Nat, NEW o \in Objects, NEW extra \in Nat, NEW tags \in Seq(Tags),
           ResizeAndStore(o, extra, tags), raw' = raw
    PROVE  Owned'
<1>1. CASE extra <= Room(mBuffer[o]) /\ heap' = With(heap, mBuffer[o], [heap[mBuffer[o]] EXCEPT !.tags = tags])
           /\ UNCHANGED <<mBuffer, lost>>
  <2>1. mBuffer[o] # NULL
    BY <1>1 DEF Room
  <2> QED BY <1>1, <2>1, StoredInPlace
<1>2. CASE /\ CanAllocate
           /\ heap' = With(Cleared(o), Fresh, [tags |-> tags, cap |-> 2 * (Len(TagsOf(mBuffer[o])) + extra)])
           /\ Point(o, Fresh)
           /\ UNCHANGED lost
  <2>1. TagsOf(mBuffer[o]) \in Seq(Tags)
    BY DEF TagsOf, Owned, OneOwner, Contents, Content
  <2>2. [tags |-> tags, cap |-> 2 * (Len(TagsOf(mBuffer[o])) + extra)] \in Content
    BY <2>1 DEF Content
  <2> QED BY <1>2, <2>2, NewBuffer
<1>3. CASE Point(o, NULL) /\ lost' = lost \cup ({mBuffer[o]} \ {NULL}) /\ UNCHANGED heap
  BY <1>3, Detached
<1> QED BY <1>1, <1>2, <1>3 DEF ResizeAndStore

\* swap() exchanges two owners.
LEMMA SwapKeeps ==
    ASSUME Owned, MaxBuffers \in Nat, NEW o \in Objects, NEW p \in Objects, Swap(o, p)
    PROVE  Owned'
<1>1. mBuffer \in [Objects -> {NULL} \cup (1..MaxBuffers)] /\ OneOwner
  BY DEF Owned, Pointers
<1>2. /\ mBuffer' = [mBuffer EXCEPT ![o] = mBuffer[p], ![p] = mBuffer[o]]
      /\ live' = live /\ heap' = heap /\ raw' = raw /\ lost' = lost
  BY DEF Swap, live
<1>3. Pointers' /\ Contents'
  BY <1>1, <1>2 DEF Owned, Pointers, Contents
<1>4. \A q \in Objects : mBuffer'[q] = IF q = p THEN mBuffer[o] ELSE IF q = o THEN mBuffer[p] ELSE mBuffer[q]
  BY <1>1, <1>2
<1>5. live' = raw' \cup lost' \cup ({mBuffer'[q] : q \in Objects} \ {NULL})
  <2>1. \A x : x \in live' <=>
            x \in raw' \/ x \in lost' \/ (x # NULL /\ \E q \in Objects : mBuffer'[q] = x)
    BY <1>1, <1>2, <1>4, OwnersOfBuffer
  <2> QED BY <2>1, OwnersAfterStep
<1>6. OneOwner'
  BY <1>1, <1>2, <1>4, <1>5 DEF OneOwner
<1> QED BY <1>3, <1>6 DEF Owned

\* acquire() from another object: clear(), and its buffer unless it is locked.
LEMMA AcquireFromKeeps ==
    ASSUME Owned, MaxBuffers \in Nat, NEW o \in Objects, NEW p \in Objects, AcquireFrom(o, p)
    PROVE  Owned'
<1>1. CASE mLocked[p]
  <2>1. Point(o, NULL) /\ heap' = Cleared(o) /\ raw' = raw /\ lost' = lost
    BY <1>1 DEF AcquireFrom, Point
  <2>2. raw' = raw \ {NULL}
    BY <2>1 DEF Owned, Pointers, OneOwner, NULL
  <2> QED BY <2>1, <2>2, PointedElsewhere
<1>2. CASE ~mLocked[p]
  <2>1. /\ mBuffer \in [Objects -> {NULL} \cup (1..MaxBuffers)]
        /\ live \subseteq 1..MaxBuffers /\ OneOwner /\ NULL \notin live
    BY DEF Owned, Pointers, NULL
  <2>2. /\ mBuffer' = [mBuffer EXCEPT ![o] = mBuffer[p], ![p] = NULL]
        /\ raw' = raw /\ lost' = lost /\ o # p
    BY <1>2 DEF AcquireFrom
  <2>3. live' = live \ {mBuffer[o]} /\ \A x \in live' : heap'[x] = heap[x]
    BY ClearedHeap DEF AcquireFrom, live
  <2>4. \A q \in Objects : mBuffer'[q] = IF q = p THEN NULL ELSE IF q = o THEN mBuffer[p] ELSE mBuffer[q]
    BY <2>1, <2>2
  <2>5. Pointers' /\ Contents'
    BY <2>1, <2>2, <2>3 DEF Owned, Pointers, Contents
  <2>6. live' = raw' \cup lost' \cup ({mBuffer'[q] : q \in Objects} \ {NULL})
    <3>1. \A x : x \in live' <=>
              x \in raw' \/ x \in lost' \/ (x # NULL /\ \E q \in Objects : mBuffer'[q] = x)
      BY <2>1, <2>2, <2>3, <2>4, OwnersOfBuffer DEF OneOwner
    <3> QED BY <3>1, OwnersAfterStep
  <2>7. OneOwner'
    BY <2>1, <2>2, <2>3, <2>4, <2>6 DEF OneOwner
  <2> QED BY <2>5, <2>7 DEF Owned
<1> QED BY <1>1, <1>2

\* The caller frees one of its own buffers.
LEMMA FreeRawKeeps ==
    ASSUME Owned, MaxBuffers \in Nat, NEW b \in raw, FreeRaw(b)
    PROVE  Owned'
<1>1. /\ mBuffer \in [Objects -> {NULL} \cup (1..MaxBuffers)]
      /\ live \subseteq 1..MaxBuffers /\ OneOwner /\ NULL \notin live
  BY DEF Owned, Pointers, NULL
<1>2. /\ mBuffer' = mBuffer /\ raw' = raw \ {b} /\ lost' = lost
      /\ live' = live \ {b} /\ \A x \in live' : heap'[x] = heap[x]
  BY DEF FreeRaw, Freed, live
<1>3. Pointers' /\ Contents'
  BY <1>1, <1>2 DEF Owned, Pointers, Contents
<1>4. live' = raw' \cup lost' \cup ({mBuffer'[q] : q \in Objects} \ {NULL})
  <2>1. \A x : x \in live' <=>
            x \in raw' \/ x \in lost' \/ (x # NULL /\ \E q \in Objects : mBuffer'[q] = x)
    BY <1>1, <1>2, OwnersOfBuffer DEF OneOwner
  <2> QED BY <2>1, OwnersAfterStep
<1>5. OneOwner'
  BY <1>1, <1>2, <1>4 DEF OneOwner
<1> QED BY <1>3, <1>5 DEF Owned

\* clear() and its callers that leave the object without a buffer, or with a new one.
LEMMA ClearKeeps ==
    ASSUME Owned, MaxBuffers \in Nat, NEW o \in Objects,
           heap' = Cleared(o), Point(o, NULL), raw' = raw, lost' = lost
    PROVE  Owned'
<1>1. raw' = raw \ {NULL}
  BY DEF Owned, Pointers, OneOwner, NULL
<1> QED BY <1>1, PointedElsewhere

\* Every action preserves the ownership of the buffers.
LEMMA NextKeepsOwned ==
    ASSUME IInv, MaxBuffers \in Nat, Next
    PROVE  Owned'
<1> USE DEF IInv
<1>1. ASSUME NEW o \in Objects, GetAndLock(o) \/ Unlock(o)
      PROVE  Owned'
  <2>1. UNCHANGED <<mBuffer, raw, heap, lost>>
    BY <1>1 DEF GetAndLock, Unlock
  <2> QED BY <2>1 DEF Owned, Pointers, Contents, OneOwner, live
<1>2. ASSUME NEW o \in Objects, Release(o)
      PROVE  Owned'
  <2>1. heap' = heap /\ Point(o, NULL) /\ raw' = raw \cup ({mBuffer[o]} \ {NULL}) /\ lost' = lost
    BY <1>2 DEF Release
  <2> QED BY <2>1, Detached
<1>3. ASSUME NEW o \in Objects, Clear(o)
      PROVE  Owned'
  BY <1>3, ClearKeeps DEF Clear
<1>4. ASSUME NEW o \in Objects, Destroy(o)
      PROVE  Owned'
  <2>1. [tags |-> <<>>, cap |-> 1] \in Content
    BY DEF Content
  <2> QED BY <1>4, <2>1, ClearKeeps, NewBuffer DEF Destroy
<1>5. ASSUME NEW o \in Objects, ReadFromParcel(o)
      PROVE  Owned'
  <2>1. \A tag \in Tags : [tags |-> <<tag>>, cap |-> 1] \in Content
    BY DEF Content
  <2> QED BY <1>5, <2>1, ClearKeeps, NewBuffer DEF ReadFromParcel
<1>6. ASSUME NEW o \in Objects, NEW p \in Objects, Assign(o, p)
      PROVE  Owned'
  <2> DEFINE tags == heap[mBuffer[p]].tags
             c == [tags |-> tags, cap |-> Len(tags)]
  <2>1. CASE mBuffer[p] # NULL /\ CanAllocate /\ heap' = With(Cleared(o), Fresh, c) /\ Point(o, Fresh)
    <3>1. tags \in Seq(Tags)
      BY <2>1 DEF Owned, OneOwner, Contents, Content
    <3>2. c \in Content
      BY <3>1 DEF Content
    <3>3. raw' = raw /\ lost' = lost
      BY <1>6 DEF Assign
    <3> HIDE DEF c
    <3> QED BY <2>1, <3>2, <3>3, NewBuffer
  <2>2. CASE heap' = Cleared(o) /\ Point(o, NULL)
    BY <1>6, <2>2, ClearKeeps DEF Assign
  <2> QED BY <1>6, <2>1, <2>2 DEF Assign
<1>7. ASSUME NEW o \in Objects, NEW p \in Objects, AcquireFrom(o, p) \/ Swap(o, p)
      PROVE  Owned'
  BY <1>7, AcquireFromKeeps, SwapKeeps
<1>8. \A o \in Objects : TagsOf(mBuffer[o]) \in Seq(Tags)
  BY DEF TagsOf, Owned, OneOwner, Contents, Content
<1>9. ASSUME NEW o \in Objects, NEW p \in Objects, AppendFrom(o, p)
      PROVE  Owned'
  <2> DEFINE extra == Len(TagsOf(mBuffer[p]))
             all == TagsOf(mBuffer[o]) \o TagsOf(mBuffer[p])
  <2>1. extra \in Nat /\ all \in Seq(Tags)
    BY <1>8
  <2>2. ResizeAndStore(o, extra, all) /\ raw' = raw
    BY <1>9 DEF AppendFrom
  <2> HIDE DEF extra, all
  <2> QED BY <2>1, <2>2, ResizeKeeps
<1>10. ASSUME NEW o \in Objects, NEW tag \in Tags, Update(o, tag)
       PROVE  Owned'
  <2> DEFINE tags == TagsOf(mBuffer[o])
             all == IF Contains(tags, tag) THEN tags ELSE Append(tags, tag)
  <2>1. all \in Seq(Tags)
    BY <1>8
  <2>2. ResizeAndStore(o, 1, all) /\ raw' = raw
    BY <1>10 DEF Update
  <2> HIDE DEF all
  <2> QED BY <2>1, <2>2, ResizeKeeps
<1>11. ASSUME NEW o \in Objects, NEW tag \in Tags, Erase(o, tag)
       PROVE  Owned'
  <2> DEFINE tags == heap[mBuffer[o]].tags
  <2>1. mBuffer[o] # NULL /\ mBuffer' = mBuffer /\ raw' = raw /\ lost' = lost
    BY <1>11 DEF Erase
  <2>2. tags \in Seq(Tags)
    BY <2>1 DEF Owned, OneOwner, Contents, Content
  <2>3. PICK i \in DOMAIN tags :
             heap' = With(heap, mBuffer[o], [heap[mBuffer[o]] EXCEPT !.tags = RemoveAt(@, i)])
    BY <1>11 DEF Erase
  <2> DEFINE left == RemoveAt(tags, i)
  <2>4. left \in Seq(Tags)
    BY <2>2 DEF RemoveAt
  <2>5. heap' = With(heap, mBuffer[o], [heap[mBuffer[o]] EXCEPT !.tags = left])
    BY <2>3
  <2> HIDE DEF left
  <2> QED BY <2>1, <2>4, <2>5, StoredInPlace
<1>12. ASSUME NEW o \in Objects, NEW b \in raw, AcquireRaw(o, b)
       PROVE  Owned'
  BY <1>12, PointedElsewhere DEF AcquireRaw
<1>13. ASSUME NEW b \in raw, FreeRaw(b)
       PROVE  Owned'
  BY <1>13, FreeRawKeeps
<1> QED BY <1>1, <1>2, <1>3, <1>4, <1>5, <1>6, <1>7, <1>9, <1>10, <1>11, <1>12, <1>13 DEF Next

\* Only getAndLock(), unlock() and the end of an object change a lock.
LEMMA NextKeepsLocks ==
    ASSUME Locks, Next
    PROVE  Locks'
<1>1. \/ mLocked' = mLocked
      \/ \E o \in Objects : mLocked' = [mLocked EXCEPT ![o] = TRUE]
      \/ \E o \in Objects : mLocked' = [mLocked EXCEPT ![o] = FALSE]
  BY DEF Next, GetAndLock, Unlock, Release, Clear, Destroy, ReadFromParcel, Assign, AcquireFrom,
         Swap, AppendFrom, Update, Erase, AcquireRaw, FreeRaw
<1> QED BY <1>1 DEF Locks

\* The inductive invariant, for every number of buffers.
LEMMA Invariance ==
    ASSUME MaxBuffers \in Nat
    PROVE  Spec => []IInv
<1>1. IInv /\ [Next]_vars => IInv'
  <2>1. ASSUME IInv, Next PROVE IInv'
    BY <2>1, NextKeepsOwned, NextKeepsLocks DEF IInv
  <2>2. ASSUME IInv, UNCHANGED vars PROVE IInv'
    BY <2>2 DEF vars, IInv, Owned, Locks, Pointers, Contents, OneOwner, live
  <2> QED BY <2>1, <2>2
<1> QED BY InitInvariant, <1>1, PTL DEF Spec

\* Whatever the objects do, and whenever the allocator fails, every live buffer
\* has one owner and no owner holds a freed one.
THEOREM BuffersHaveOneOwner ==
    ASSUME MaxBuffers \in Nat
    PROVE  Spec => []OneOwner
<1>1. IInv => OneOwner
  BY DEF IInv, Owned
<1> QED BY Invariance, <1>1, PTL

-----------------------------------------------------------------------------
\* What a lock promises for one object and one step.
Kept(q) ==
    /\ mBuffer'[q] = mBuffer[q]
    /\ mBuffer[q] # NULL => mBuffer[q] \in live' /\ heap'[mBuffer[q]] = heap[mBuffer[q]]

\* What replaces or drops the buffer of one object leaves the others theirs.
LEMMA OthersKeepTheirs ==
    ASSUME IInv, MaxBuffers \in Nat, NEW o \in Objects, NEW q \in Objects, q # o,
           NEW b, Point(o, b),
           \/ heap' = Cleared(o)
           \/ CanAllocate /\ \E c : heap' = With(Cleared(o), Fresh, c)
           \/ heap' = heap
    PROVE  Kept(q)
<1>1. mBuffer'[q] = mBuffer[q]
  BY DEF Point, IInv, Owned, Pointers
<1>2. ASSUME mBuffer[q] # NULL
      PROVE  mBuffer[q] \in live' /\ heap'[mBuffer[q]] = heap[mBuffer[q]]
  <2>1. mBuffer[q] \in live \ {mBuffer[o]}
    BY <1>2 DEF IInv, Owned, OneOwner
  <2>2. mBuffer[q] \in DOMAIN Cleared(o) /\ Cleared(o)[mBuffer[q]] = heap[mBuffer[q]]
    BY <2>1, ClearedHeap DEF IInv
  <2>3. CASE heap' = Cleared(o)
    BY <2>2, <2>3 DEF live
  <2>4. CASE CanAllocate /\ \E c : heap' = With(Cleared(o), Fresh, c)
    <3>1. Fresh # mBuffer[q]
      BY <2>1, <2>4, FreshBuffer DEF IInv
    <3> QED BY <2>2, <2>4, <3>1 DEF live, With
  <2>5. CASE heap' = heap
    BY <2>1, <2>5 DEF live
  <2> QED BY <2>3, <2>4, <2>5
<1> QED BY <1>1, <1>2 DEF Kept

\* So does a change inside the buffer of one object.
LEMMA OthersUntouched ==
    ASSUME IInv, NEW o \in Objects, NEW q \in Objects, q # o, mBuffer' = mBuffer,
           NEW c, heap' = With(heap, mBuffer[o], c)
    PROVE  Kept(q)
<1>1. ASSUME mBuffer[q] # NULL
      PROVE  mBuffer[q] \in live /\ mBuffer[q] # mBuffer[o]
  BY <1>1 DEF IInv, Owned, OneOwner
<1> QED BY <1>1 DEF Kept, live, With

\* resizeIfNeeded() concerns one object.
LEMMA ResizeKeepsOthers ==
    ASSUME IInv, MaxBuffers \in Nat, NEW o \in Objects, NEW q \in Objects, q # o,
           NEW extra, NEW tags, ResizeAndStore(o, extra, tags)
    PROVE  Kept(q)
BY OthersKeepTheirs, OthersUntouched DEF ResizeAndStore

\* A locked object keeps its buffer and what is in it, in every action.
LEMMA NextKeepsLocked ==
    ASSUME IInv, MaxBuffers \in Nat, Next, NEW q \in Objects, mLocked[q], mLocked'[q]
    PROVE  Kept(q)
<1>1. mLocked \in [Objects -> BOOLEAN] /\ mBuffer \in [Objects -> {NULL} \cup (1..MaxBuffers)]
  BY DEF IInv, Locks, Owned, Pointers
<1>2. mBuffer[q] # NULL => mBuffer[q] \in live
  BY DEF IInv, Owned, OneOwner
<1>3. ASSUME NEW o \in Objects, GetAndLock(o) \/ Unlock(o)
      PROVE  Kept(q)
  <2>1. mBuffer' = mBuffer /\ heap' = heap
    BY <1>3 DEF GetAndLock, Unlock
  <2> QED BY <2>1, <1>2 DEF Kept, live
<1>4. ASSUME NEW o \in Objects, Release(o) \/ Clear(o) \/ ReadFromParcel(o)
      PROVE  Kept(q)
  <2>1. q # o
    BY <1>4 DEF Release, Clear, ReadFromParcel
  <2> QED BY <1>4, <2>1, OthersKeepTheirs DEF Release, Clear, ReadFromParcel
<1>5. ASSUME NEW o \in Objects, Destroy(o)
      PROVE  Kept(q)
  <2>1. q # o
    BY <1>1, <1>5 DEF Destroy
  <2> QED BY <1>5, <2>1, OthersKeepTheirs DEF Destroy
<1>6. ASSUME NEW o \in Objects, NEW p \in Objects, Assign(o, p)
      PROVE  Kept(q)
  <2>1. q # o
    BY <1>6 DEF Assign
  <2> QED BY <1>6, <2>1, OthersKeepTheirs DEF Assign
<1>7. ASSUME NEW o \in Objects, NEW p \in Objects, AcquireFrom(o, p)
      PROVE  Kept(q)
  <2>1. q # o /\ heap' = Cleared(o)
    BY <1>7 DEF AcquireFrom
  <2>2. mBuffer'[q] = mBuffer[q]
    BY <1>1, <1>7, <2>1 DEF AcquireFrom
  <2>3. ASSUME mBuffer[q] # NULL
        PROVE  mBuffer[q] \in live \ {mBuffer[o]}
    BY <2>1, <2>3 DEF IInv, Owned, OneOwner
  <2> QED BY <2>1, <2>2, <2>3, ClearedHeap DEF Kept, live, IInv
<1>8. ASSUME NEW o \in Objects, NEW p \in Objects, Swap(o, p)
      PROVE  Kept(q)
  <2>1. q # o /\ q # p /\ heap' = heap
    BY <1>8 DEF Swap
  <2>2. mBuffer'[q] = mBuffer[q]
    BY <1>1, <1>8, <2>1 DEF Swap
  <2> QED BY <1>2, <2>1, <2>2 DEF Kept, live
<1>9. ASSUME NEW o \in Objects, NEW p \in Objects, AppendFrom(o, p)
      PROVE  Kept(q)
  BY <1>9, ResizeKeepsOthers DEF AppendFrom
<1>10. ASSUME NEW o \in Objects, NEW tag \in Tags, Update(o, tag)
       PROVE  Kept(q)
  BY <1>10, ResizeKeepsOthers DEF Update
<1>11. ASSUME NEW o \in Objects, NEW tag \in Tags, Erase(o, tag)
       PROVE  Kept(q)
  <2>1. q # o /\ mBuffer' = mBuffer /\ \E c : heap' = With(heap, mBuffer[o], c)
    BY <1>11, Zenon DEF Erase
  <2> QED BY <2>1, OthersUntouched
<1>12. ASSUME NEW o \in Objects, NEW b \in raw, AcquireRaw(o, b)
       PROVE  Kept(q)
  BY <1>12, OthersKeepTheirs DEF AcquireRaw
<1>13. ASSUME NEW b \in raw, FreeRaw(b)
       PROVE  Kept(q)
  <2>1. mBuffer' = mBuffer /\ heap' = [x \in live \ {b} |-> heap[x]]
    BY <1>13 DEF FreeRaw, Freed
  <2>2. mBuffer[q] # NULL => mBuffer[q] \in live \ {b}
    BY <1>13 DEF IInv, Owned, OneOwner
  <2> QED BY <2>1, <2>2 DEF Kept, live
<1> QED BY <1>3, <1>4, <1>5, <1>6, <1>7, <1>8, <1>9, <1>10, <1>11, <1>12, <1>13 DEF Next

\* The pointer that getAndLock() returned, and what it points to, outlive
\* everything but unlock() and the end of the object itself.
THEOREM LocksProtectBuffers ==
    ASSUME MaxBuffers \in Nat
    PROVE  Spec => LockedBufferStays
<1> DEFINE Stays == \A o \in Objects : mLocked[o] /\ mLocked'[o] =>
                        /\ mBuffer'[o] = mBuffer[o]
                        /\ mBuffer[o] # NULL => mBuffer[o] \in live' /\ heap'[mBuffer[o]] = heap[mBuffer[o]]
<1>1. IInv /\ Next => Stays
  BY NextKeepsLocked DEF Kept
<1>2. IInv /\ [Next]_vars => [Stays]_vars
  BY <1>1 DEF vars
<1> QED BY Invariance, <1>2, PTL DEF Spec, LockedBufferStays
=============================================================================
