--------------------------------- MODULE IpcShm ---------------------------------
(***************************************************************************)
(* Shared memory segments (kernel/ipc.c) over the page allocator: a table  *)
(* of segments found by key, with a reference count.  System calls run     *)
(* with interrupts off, so each operation is one step.                     *)
(*                                                                         *)
(* handles is history: how often each client attached each segment without *)
(* detaching, and the extent it was given.                                 *)
(***************************************************************************)
EXTENDS PMM

CONSTANTS
  IPC_SHM_MAX_SEGMENTS,
  Clients,
  Keys,
  Kernel,        \* the blocks the kernel holds when system calls start
  Disciplined,   \* does every client detach only what it attached?
  MaxRefs        \* bound on the attachments of one segment

ASSUME ShmAssumption ==
  /\ IPC_SHM_MAX_SEGMENTS \in Nat \ {0}
  /\ Kernel \subseteq 0 .. MaxBlocks - 1
  /\ 0 \in Kernel
  /\ Keys # {}
  /\ Disciplined \in BOOLEAN
  /\ MaxRefs \in Nat

VARIABLES shm_segments, handles

shmvars == <<phase, bitmap, used_blocks, live, reserved, shm_segments, handles>>

Ids == 0 .. IPC_SHM_MAX_SEGMENTS - 1

NoExtent == [addr |-> 0, size |-> 0]

\* ipc_init clears active and ref_count; the other fields start as zero.
Empty(key) == [active |-> FALSE, key |-> key, extent |-> NoExtent, ref_count |-> 0]

Active == { i \in Ids : shm_segments[i].active }

ShmInit ==
  /\ phase = "run"
  /\ bitmap = Kernel
  /\ reserved = Kernel
  /\ used_blocks = Cardinality(Kernel)
  /\ live = {}
  /\ shm_segments = [i \in Ids |-> Empty(CHOOSE k \in Keys : TRUE)]
  /\ handles = {}

--------------------------------------------------------------------------------

\* ipc_shm_lookup_key: the ids it may return; at most one (KeyFindsOne).
ipc_shm_lookup_key(key) == { i \in Active : shm_segments[i].key = key }

\* A create that does not look for the key first.
CreateWithoutLookup(key, size) ==
  /\ size # 0
  /\ Active # Ids
  /\ pmm_alloc_region(size)
  /\ \E e \in live' \ live :
       shm_segments' = [shm_segments EXCEPT ![Min(Ids \ Active)] =
                          [active |-> TRUE, key |-> key, extent |-> e, ref_count |-> 0]]
  /\ UNCHANGED handles

\* ipc_shm_create for a key that has no segment: the first free slot and a fresh
\* region.  An existing key, a full table or a full pool changes nothing.
ipc_shm_create(key, size) ==
  /\ size # 0
  /\ ipc_shm_lookup_key(key) = {}
  /\ Active # Ids
  /\ pmm_alloc_region(size)
  /\ \E e \in live' \ live :
       shm_segments' = [shm_segments EXCEPT ![Min(Ids \ Active)] =
                          [active |-> TRUE, key |-> key, extent |-> e, ref_count |-> 0]]
  /\ UNCHANGED handles

\* The attachments client c has to segment i, as numbered handles.
HandlesOf(c, i) == { h \in handles : h.client = c /\ h.id = i }

ipc_shm_attach(c, id) ==
  /\ id \in Active
  /\ shm_segments[id].ref_count < MaxRefs
  /\ shm_segments' = [shm_segments EXCEPT ![id].ref_count = @ + 1]
  /\ handles' = handles \cup { [client |-> c, id |-> id,
                                n |-> Cardinality(HandlesOf(c, id)),
                                extent |-> shm_segments[id].extent] }
  /\ UNCHANGED vars

\* ipc_shm_detach takes an id and does not ask who attached.
ipc_shm_detach(c, id) ==
  /\ id \in Active
  /\ Disciplined => HandlesOf(c, id) # {}
  /\ shm_segments' = [shm_segments EXCEPT ![id].ref_count = IF @ > 0 THEN @ - 1 ELSE 0]
  /\ handles' = { h \in handles : ~ (h.client = c /\ h.id = id
                                     /\ h.n = Cardinality(HandlesOf(c, id)) - 1) }
  /\ UNCHANGED vars

\* A destroy that returns the first page of the segment only.
DestroyFirstPage(id) ==
  /\ id \in Active
  /\ shm_segments[id].ref_count = 0
  /\ phase = "run"
  /\ UnsetBlocks({BlockOf(shm_segments[id].extent)})
  /\ live' = live \ {shm_segments[id].extent}
  /\ shm_segments' = [shm_segments EXCEPT ![id].active = FALSE, ![id].ref_count = 0]
  /\ UNCHANGED <<phase, reserved, handles>>

\* ipc_shm_destroy refuses while the count is positive.
ipc_shm_destroy(id) ==
  /\ id \in Active
  /\ shm_segments[id].ref_count = 0
  /\ pmm_free_region(shm_segments[id].extent)
  /\ shm_segments' = [shm_segments EXCEPT ![id].active = FALSE, ![id].ref_count = 0]
  /\ UNCHANGED handles

\* Other users of the page allocator.
OtherAllocates == pmm_alloc_block /\ UNCHANGED <<shm_segments, handles>>

OtherFrees ==
  /\ \E e \in live \ { shm_segments[i].extent : i \in Active } : pmm_free_block(e)
  /\ UNCHANGED <<shm_segments, handles>>

ShmNext ==
  \/ \E key \in Keys, size \in Sizes : ipc_shm_create(key, size)
  \/ \E c \in Clients, id \in Ids : ipc_shm_attach(c, id) \/ ipc_shm_detach(c, id)
  \/ \E id \in Ids : ipc_shm_destroy(id)
  \/ OtherAllocates
  \/ OtherFrees

ShmSpec == ShmInit /\ [][ShmNext]_shmvars

--------------------------------------------------------------------------------
(* Properties. *)

\* The types of the segment table; a slot that is not in use has no references,
\* so the next create starts from zero whoever used the slot before.
ShmTypeOK ==
  /\ shm_segments \in [Ids -> [active : BOOLEAN, key : Keys, extent : Extent,
                               ref_count : 0 .. MaxRefs]]
  /\ \A i \in Ids \ Active : shm_segments[i].ref_count = 0

\* Every active segment owns a region of its own: ids of different segments never
\* give out the same memory.
SegmentsBacked ==
  \A i \in Active :
    /\ shm_segments[i].extent \in live
    /\ \A j \in Active \ {i} : shm_segments[j].extent # shm_segments[i].extent

\* A key names at most one segment ("SysV shmget semantics", ipc.c:45), so two
\* clients that use the same key share memory.
KeyFindsOne == \A key \in Keys : Cardinality(ipc_shm_lookup_key(key)) <= 1

\* "the safety value here is the validated, refcounted handle" (ipc.h:38): memory
\* a client is attached to is neither freed nor given to another segment.
AttachedBacked ==
  \A h \in handles : h.id \in Active /\ shm_segments[h.id].extent = h.extent

\* What the segment table does to the page allocator is something the allocator
\* allows: in particular it frees only what it holds, exactly once.
UsesPool == [][Next]_vars

\* The segment table of ipc.c: every key names one segment, every segment has
\* memory of its own, and a client's handle stays good until it detaches.
ShmSound == ShmTypeOK /\ SegmentsBacked /\ KeyFindsOne /\ AttachedBacked
================================================================================
