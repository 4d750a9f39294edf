--------------------------- MODULE MetadataBuffers ---------------------------
(***************************************************************************)
(* CameraMetadata (libmocha/camera/CameraMetadata.cpp): who owns the       *)
(* camera_metadata_t buffers that objects allocate, clone, acquire,        *)
(* release, swap and outgrow, and what getAndLock() protects.              *)
(*                                                                         *)
(* A buffer holds the tags of its entries, in order, and room for some     *)
(* number of them; the data of the entries is not represented.  The        *)
(* allocator (external) may fail.                                          *)
(***************************************************************************)
EXTENDS Integers, Sequences, SequencesExt

CONSTANTS
    Objects,       \* CameraMetadata objects
    Tags,
    MaxBuffers,    \* bound: live buffers
    MaxEntries     \* bound: entries of a buffer

VARIABLES
    mBuffer,   \* each object's buffer, or NULL
    mLocked,   \* each object's lock
    raw,       \* the buffers the caller owns
    heap,      \* the live buffers: tags and capacity
    lost       \* history: the buffers resizeIfNeeded() dropped for want of memory

vars == <<mBuffer, mLocked, raw, heap, lost>>

NULL == 0
live == DOMAIN heap
Fresh == CHOOSE b \in 1..MaxBuffers : b \notin live
CanAllocate == live # 1..MaxBuffers

Init ==
    /\ mBuffer = [o \in Objects |-> NULL]
    /\ mLocked = [o \in Objects |-> FALSE]
    /\ raw = {} /\ heap = <<>> /\ lost = {}

Point(o, b) == mBuffer' = [mBuffer EXCEPT ![o] = b]

\* free_camera_metadata(): the heap without buffer b, and with a new one.
Freed(b) == [x \in live \ {b} |-> heap[x]]
With(h, b, content) == [x \in DOMAIN h \cup {b} |-> IF x = b THEN content ELSE h[x]]

\* clear(): what it leaves of the heap.
Cleared(o) == IF mBuffer[o] = NULL THEN heap ELSE Freed(mBuffer[o])

-----------------------------------------------------------------------------
\* getAndLock()
GetAndLock(o) ==
    /\ mLocked' = [mLocked EXCEPT ![o] = TRUE]
    /\ UNCHANGED <<mBuffer, raw, heap, lost>>

\* unlock() with the pointer getAndLock() gave; any other changes nothing.
Unlock(o) ==
    /\ mLocked[o]
    /\ mLocked' = [mLocked EXCEPT ![o] = FALSE]
    /\ UNCHANGED <<mBuffer, raw, heap, lost>>

\* operator=, copying from p: nothing when the object is locked or p has the
\* same buffer, the object's own or NULL.
Assign(o, p) ==
    /\ ~mLocked[o] /\ mBuffer[p] # mBuffer[o]
    /\ \/ /\ mBuffer[p] # NULL /\ CanAllocate
          /\ LET tags == heap[mBuffer[p]].tags
             IN  heap' = With(Cleared(o), Fresh, [tags |-> tags, cap |-> Len(tags)])
          /\ Point(o, Fresh)
       \/ heap' = Cleared(o) /\ Point(o, NULL)          \* of NULL, or no memory
    /\ UNCHANGED <<mLocked, raw, lost>>

\* release() that forgets to forget.
Release_Keeps(o) ==
    /\ ~mLocked[o] /\ mBuffer[o] # NULL
    /\ raw' = raw \cup {mBuffer[o]}
    /\ UNCHANGED <<mBuffer, mLocked, heap, lost>>

Release(o) ==
    /\ ~mLocked[o] /\ mBuffer[o] # NULL
    /\ raw' = raw \cup {mBuffer[o]}
    /\ Point(o, NULL)
    /\ UNCHANGED <<mLocked, heap, lost>>

Clear(o) ==
    /\ ~mLocked[o]
    /\ heap' = Cleared(o)
    /\ Point(o, NULL)
    /\ UNCHANGED <<mLocked, raw, lost>>

\* ~CameraMetadata(), lock or no lock, and the object constructed anew, empty or
\* with room for an entry.
Destroy(o) ==
    /\ mLocked' = [mLocked EXCEPT ![o] = FALSE]
    /\ \/ heap' = Cleared(o) /\ Point(o, NULL)
       \/ /\ CanAllocate
          /\ heap' = With(Cleared(o), Fresh, [tags |-> <<>>, cap |-> 1])
          /\ Point(o, Fresh)
    /\ UNCHANGED <<raw, lost>>

\* acquire(camera_metadata_t *) of a buffer the caller owns
AcquireRaw(o, b) ==
    /\ ~mLocked[o] /\ b \in raw
    /\ heap' = Cleared(o)
    /\ Point(o, b)
    /\ raw' = raw \ {b}
    /\ UNCHANGED <<mLocked, lost>>

\* acquire(CameraMetadata &): a locked p releases nothing, and the object ends
\* up without its own buffer all the same.
AcquireFrom(o, p) ==
    /\ ~mLocked[o] /\ o # p
    /\ heap' = Cleared(o)
    /\ mBuffer' = IF mLocked[p] THEN [mBuffer EXCEPT ![o] = NULL]
                  ELSE [mBuffer EXCEPT ![o] = mBuffer[p], ![p] = NULL]
    /\ UNCHANGED <<mLocked, raw, lost>>

\* Only this object's lock is looked at.
Swap_OneLock(o, p) ==
    /\ ~mLocked[o]
    /\ mBuffer' = [mBuffer EXCEPT ![o] = mBuffer[p], ![p] = mBuffer[o]]
    /\ UNCHANGED <<mLocked, raw, heap, lost>>

\* swap()
Swap(o, p) ==
    /\ ~mLocked[o] /\ ~mLocked[p]
    /\ mBuffer' = [mBuffer EXCEPT ![o] = mBuffer[p], ![p] = mBuffer[o]]
    /\ UNCHANGED <<mLocked, raw, heap, lost>>

TagsOf(b) == IF b = NULL THEN <<>> ELSE heap[b].tags
Room(b) == IF b = NULL THEN -1 ELSE heap[b].cap - Len(heap[b].tags)

\* resizeIfNeeded() and then the change: room for twice what is wanted, and the
\* old buffer is forgotten before the new one is known to exist.
ResizeAndStore(o, extra, tags) ==
    LET b == mBuffer[o] IN
    \/ /\ extra <= Room(b)
       /\ heap' = With(heap, b, [heap[b] EXCEPT !.tags = tags])
       /\ UNCHANGED <<mBuffer, lost>>
    \/ /\ extra > Room(b)
       /\ \/ /\ CanAllocate
             /\ heap' = With(Cleared(o), Fresh,
                             [tags |-> tags, cap |-> 2 * (Len(TagsOf(b)) + extra)])
             /\ Point(o, Fresh)
             /\ UNCHANGED lost
          \/ /\ Point(o, NULL)
             /\ lost' = lost \cup ({b} \ {NULL})
             /\ UNCHANGED heap

\* append(): the duplicates stay; append_camera_metadata() copes with no room.
AppendFrom(o, p) ==
    /\ ~mLocked[o] /\ mBuffer[p] # NULL
    /\ Len(TagsOf(mBuffer[o]) \o TagsOf(mBuffer[p])) <= MaxEntries
    /\ o # p
    /\ ResizeAndStore(o, Len(TagsOf(mBuffer[p])), TagsOf(mBuffer[o]) \o TagsOf(mBuffer[p]))
    /\ UNCHANGED <<mLocked, raw>>

\* update(): room for one more entry is made even for a tag that is there.
Update(o, tag) ==
    LET tags == TagsOf(mBuffer[o]) IN
    /\ ~mLocked[o] /\ Len(tags) < MaxEntries
    /\ ResizeAndStore(o, 1, IF Contains(tags, tag) THEN tags ELSE Append(tags, tag))
    /\ UNCHANGED <<mLocked, raw>>

\* erase() of the entry found, which need not be the first of its tag once
\* the entries are sorted
Erase(o, tag) ==
    /\ ~mLocked[o] /\ mBuffer[o] # NULL
    /\ LET b == mBuffer[o] IN
       \E i \in DOMAIN heap[b].tags :
          /\ heap[b].tags[i] = tag
          /\ heap' = With(heap, b, [heap[b] EXCEPT !.tags = RemoveAt(@, i)])
    /\ UNCHANGED <<mBuffer, mLocked, raw, lost>>

\* readFromParcel(): "Metadata is unchanged" when the read fails; a parcel may
\* hold no metadata.
ReadFromParcel(o) ==
    /\ ~mLocked[o]
    /\ \/ /\ CanAllocate
          /\ \E tag \in Tags : heap' = With(Cleared(o), Fresh, [tags |-> <<tag>>, cap |-> 1])
          /\ Point(o, Fresh)
       \/ heap' = Cleared(o) /\ Point(o, NULL)
    /\ UNCHANGED <<mLocked, raw, lost>>

\* The caller frees a buffer of its own.
FreeRaw(b) ==
    /\ b \in raw
    /\ raw' = raw \ {b}
    /\ heap' = Freed(b)
    /\ UNCHANGED <<mBuffer, mLocked, lost>>

Next ==
    \/ \E o \in Objects : \/ GetAndLock(o) \/ Unlock(o) \/ Release(o) \/ Clear(o)
                          \/ Destroy(o) \/ ReadFromParcel(o)
    \/ \E o, p \in Objects : Assign(o, p) \/ AcquireFrom(o, p) \/ Swap(o, p) \/ AppendFrom(o, p)
    \/ \E o \in Objects, tag \in Tags : Update(o, tag) \/ Erase(o, tag)
    \/ \E o \in Objects, b \in raw : AcquireRaw(o, b)
    \/ \E b \in raw : FreeRaw(b)

Spec == Init /\ [][Next]_vars

-----------------------------------------------------------------------------
(* Properties *)

\* Every live buffer has exactly one owner, an object or the caller, and no
\* owner holds a buffer that was freed: through every clone, acquire, release,
\* swap and resize.  Only a resize without memory loses one.
OneOwner ==
    /\ \A o \in Objects : mBuffer[o] # NULL => mBuffer[o] \in live \ (raw \cup lost)
    /\ \A o, p \in Objects : o # p /\ mBuffer[o] # NULL => mBuffer[o] # mBuffer[p]
    /\ raw \subseteq live \ lost
    /\ live = raw \cup lost \cup ({mBuffer[o] : o \in Objects} \ {NULL})

\* The pointer getAndLock() returns stays good, and what it points to stays as it
\* is, until unlock() or the end of the object, whatever the other objects do.
LockedBufferStays ==
    [][\A o \in Objects : mLocked[o] /\ mLocked'[o] =>
          /\ mBuffer'[o] = mBuffer[o]
          /\ mBuffer[o] # NULL => mBuffer[o] \in live' /\ heap'[mBuffer[o]] = heap[mBuffer[o]]]_vars
=============================================================================
