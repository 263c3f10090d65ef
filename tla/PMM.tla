---------------------------------- MODULE PMM ----------------------------------
(***************************************************************************)
(* The physical memory manager's low pool (kernel/pmm.c): one bit per 4 KB *)
(* block below max_blocks, a counter of the set bits, first-fit search.    *)
(*                                                                         *)
(* The bitmap is the set of blocks whose bit is 1.  Addresses and sizes    *)
(* are bytes below AddrLimit, the 2^32 of uint32_t.  kernel_main() drives  *)
(* the pool through three phases: "mmap" (everything is used, the type-1   *)
(* memory-map entries are released), "reserve" (kernel, modules, bitmap    *)
(* and heap are taken back) and "run" (blocks and regions come and go).    *)
(*                                                                         *)
(* live and reserved are history: the extents a caller holds and may give  *)
(* back, and the blocks the kernel took for good.                          *)
(***************************************************************************)
EXTENDS Integers, FiniteSets, FiniteSetsExt

CONSTANTS
  MaxBlocks,   \* max_blocks
  AddrLimit,   \* one more than the largest uint32_t
  Extents,     \* the (addr, size) arguments of mark_usable and reserve
  Sizes        \* the arguments of pmm_alloc_region

PAGE_SIZE == 4096

ByteAddr == 0 .. AddrLimit - 1

ASSUME PMMAssumption ==
  /\ MaxBlocks \in Nat \ {0}
  /\ AddrLimit \in Nat
  \* detect_memory_size() never returns more than 0xFFFFF000.
  /\ (MaxBlocks + 1) * PAGE_SIZE <= AddrLimit
  /\ Extents \subseteq [addr : ByteAddr, size : ByteAddr]
  /\ Sizes \subseteq ByteAddr

VARIABLES phase, bitmap, used_blocks, live, reserved

vars == <<phase, bitmap, used_blocks, live, reserved>>

Blocks == 0 .. MaxBlocks - 1

Extent == [addr : ByteAddr, size : ByteAddr]

--------------------------------------------------------------------------------
(* Address arithmetic. *)

\* uint32_t addition of two values below the limit.
Add32(x, y) == IF x + y >= AddrLimit THEN x + y - AddrLimit ELSE x + y

align_down(v) == (v \div PAGE_SIZE) * PAGE_SIZE

align_up(v) ==
  IF v > AddrLimit - 1 - (PAGE_SIZE - 1)
  THEN AddrLimit - 1
  ELSE ((v + PAGE_SIZE - 1) \div PAGE_SIZE) * PAGE_SIZE

\* The blocks pmm_reserve_region and pmm_free_region visit: both round outward,
\* and set_block/unset_block ignore a block at or past max_blocks.
RegionBlocks(base, size) ==
  { b \in Blocks : /\ align_down(base) \div PAGE_SIZE <= b
                   /\ b < align_up(Add32(base, size)) \div PAGE_SIZE }

BlocksOf(e) == RegionBlocks(e.addr, e.size)

BlockOf(e) == e.addr \div PAGE_SIZE

Needed(size) == align_up(size) \div PAGE_SIZE

FreeBlocks == Blocks \ bitmap

\* The starts of the free runs of n blocks; the search skips block 0.
RunStarts(n) ==
  { s \in 1 .. MaxBlocks - 1 : /\ s + n <= MaxBlocks
                               /\ \A b \in s .. s + n - 1 : b \notin bitmap }

--------------------------------------------------------------------------------
(* The two ways the bitmap changes: set_block and unset_block count a block *)
(* only when its bit flips.                                                 *)

SetBlocks(S) ==
  /\ bitmap' = bitmap \cup S
  /\ used_blocks' = used_blocks + Cardinality(S \ bitmap)

UnsetBlocks(S) ==
  /\ bitmap' = bitmap \ S
  /\ used_blocks' = used_blocks - Cardinality(S \cap bitmap)

--------------------------------------------------------------------------------
(* Boot. *)

\* pmm_init: every block starts used.
Init ==
  /\ phase = "mmap"
  /\ bitmap = Blocks
  /\ used_blocks = MaxBlocks
  /\ live = {}
  /\ reserved = {}

\* pmm_mark_usable_region, called for each type-1 entry of the memory map.
pmm_mark_usable_region(e) ==
  /\ phase = "mmap"
  /\ UnsetBlocks(BlocksOf(e))
  /\ UNCHANGED <<phase, live, reserved>>

\* pmm_reserve_region(0, bitmap_addr + bitmap size): kernel, modules, bitmap.
ReserveLow(e) ==
  /\ phase = "mmap"
  /\ e.addr = 0
  /\ e.size > 0
  /\ phase' = "reserve"
  /\ SetBlocks(BlocksOf(e))
  /\ reserved' = BlocksOf(e)
  /\ UNCHANGED live

\* pmm_reserve_region for the boot modules and, in kheap_init, for the heap.
pmm_reserve_region(e) ==
  /\ phase = "reserve"
  /\ SetBlocks(BlocksOf(e))
  /\ reserved' = reserved \cup BlocksOf(e)
  /\ UNCHANGED <<phase, live>>

BootDone ==
  /\ phase = "reserve"
  /\ phase' = "run"
  /\ UNCHANGED <<bitmap, used_blocks, live, reserved>>

--------------------------------------------------------------------------------
(* Run time.  A call that finds nothing returns 0 and changes nothing.     *)

\* The address 0 of block 0 is the failure value, so a caller would drop it.
pmm_alloc_block ==
  /\ phase = "run"
  /\ FreeBlocks # {}
  /\ LET b == Min(FreeBlocks) IN
       /\ SetBlocks({b})
       /\ live' = IF b = 0 THEN live
                  ELSE live \cup {[addr |-> b * PAGE_SIZE, size |-> PAGE_SIZE]}
  /\ UNCHANGED <<phase, reserved>>

\* A search that compares with <= instead of <: the run is one block short.
AllocRegionShort(size) ==
  /\ phase = "run"
  /\ size > 0
  /\ RunStarts(Needed(size) - 1) # {}
  /\ LET s == Min(RunStarts(Needed(size) - 1)) IN
       /\ SetBlocks((s .. s + Needed(size) - 1) \cap Blocks)
       /\ live' = live \cup {[addr |-> s * PAGE_SIZE, size |-> size]}
  /\ UNCHANGED <<phase, reserved>>

pmm_alloc_region(size) ==
  /\ phase = "run"
  /\ size > 0
  /\ RunStarts(Needed(size)) # {}
  /\ LET s == Min(RunStarts(Needed(size))) IN
       /\ SetBlocks(s .. s + Needed(size) - 1)
       /\ live' = live \cup {[addr |-> s * PAGE_SIZE, size |-> size]}
  /\ UNCHANGED <<phase, reserved>>

\* pmm_free_block(ptr): task_kill_current() returns a stack page.
pmm_free_block(e) ==
  /\ phase = "run"
  /\ e.size = PAGE_SIZE
  /\ UnsetBlocks({BlockOf(e)} \cap Blocks)
  /\ live' = live \ {e}
  /\ UNCHANGED <<phase, reserved>>

\* pmm_free_region(base, size): ipc_shm_destroy() returns a segment.
pmm_free_region(e) ==
  /\ phase = "run"
  /\ UnsetBlocks(BlocksOf(e))
  /\ live' = live \ {e}
  /\ UNCHANGED <<phase, reserved>>

\* llm_load_model_module() reserves the buffer llm_load_model_file() allocated:
\* from then on nobody frees it.
ReserveModel(e) ==
  /\ phase = "run"
  /\ SetBlocks(BlocksOf(e))
  /\ reserved' = reserved \cup BlocksOf(e)
  /\ live' = live \ {e}
  /\ UNCHANGED phase

Next ==
  \/ \E e \in Extents : \/ pmm_mark_usable_region(e)
                        \/ ReserveLow(e)
                        \/ pmm_reserve_region(e)
  \/ BootDone
  \/ pmm_alloc_block
  \/ \E size \in Sizes : pmm_alloc_region(size)
  \/ \E e \in live : \/ pmm_free_block(e)
                     \/ pmm_free_region(e)
                     \/ ReserveModel(e)

Spec == Init /\ [][Next]_vars

--------------------------------------------------------------------------------
(* Properties. *)

\* The types of the pool's state.
TypeOK ==
  /\ phase \in {"mmap", "reserve", "run"}
  /\ bitmap \subseteq Blocks
  /\ used_blocks \in Nat
  /\ live \subseteq Extent
  /\ reserved \subseteq Blocks

\* used_blocks, which pmm_get_stats and the model loader's "insufficient
\* memory" test rely on, is the number of set bits after any mix of
\* overlapping reservations and releases.
CountExact == used_blocks = Cardinality(bitmap)

\* What a caller holds stays marked used until that caller returns it.
LiveBacked == \A e \in live : BlocksOf(e) \subseteq bitmap

\* No block belongs to two callers.
LiveDisjoint == \A e, f \in live : e # f => BlocksOf(e) \cap BlocksOf(f) = {}

\* Kernel, modules, bitmap, heap and a loaded model are never handed out, and
\* no release of a caller's region reaches into them.
ReservedHeld ==
  /\ reserved \subseteq bitmap
  /\ \A e \in live : BlocksOf(e) \cap reserved = {}

\* Block 0, whose address is the allocators' failure value, is never free once
\* the low reservation is made, so pmm_alloc_block never loses a block to the
\* confusion of "block 0" with "out of memory".
NullNeverFree == phase # "mmap" => 0 \in bitmap

\* The pool as its callers rely on it: pmm_get_stats counts exactly the set bits,
\* a block has one holder and stays marked for it, boot reservations are never
\* handed out, and address 0 always means failure.
PoolSound == TypeOK /\ CountExact /\ LiveBacked /\ LiveDisjoint /\ ReservedHeld /\ NullNeverFree
================================================================================
