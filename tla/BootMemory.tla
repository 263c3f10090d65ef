------------------------------ MODULE BootMemory ------------------------------
(***************************************************************************)
(* How kernel_main() lays out low memory: the memory map is released into  *)
(* the PMM, the kernel image, the boot modules, the PMM bitmap and the     *)
(* heap are taken back, page tables and drivers allocate, and finally      *)
(* boot_modules_load() puts the language model in place.                   *)
(*                                                                         *)
(* The boot loader's choices (memory map, module placement, end of the     *)
(* kernel image) are fixed by Init.  The heap and model constants of the   *)
(* code are scaled by the MC module; their order is kept.                  *)
(***************************************************************************)
EXTENDS PMM

CONSTANTS
  MemoryMaps,      \* sets of entries [base, length, type]
  ModuleLists,     \* sets of modules [start, end, model]
  KernelEnds,      \* addresses of kernel_end
  HEAP_MIN_START, HEAP_SIZE,
  MODEL_ADDR,      \* 0x2000000, where fat32_find_model and boot_modules_load put a file
  DiskModelSizes   \* sizes of model.mklm on the disk; {} when there is none

VARIABLES mmap, mods, kernel_end, todo, step, heap, model

bootvars == <<mmap, mods, kernel_end, todo, step, heap, model>>

None == [addr |-> 0, size |-> 0]

Available == 1   \* Multiboot's type of usable RAM

--------------------------------------------------------------------------------
(* The values kernel_main computes before it touches the PMM. *)

\* base + length saturates; the end is rounded up to a page, at most
\* 0xFFFFF000 (here AddrLimit - PAGE_SIZE).
detect_memory_size ==
  LET ends == { Min({e.base + e.length, AddrLimit - 1}) : e \in mmap }
      top == AddrLimit - PAGE_SIZE
  IN IF Max(ends) >= top THEN top ELSE align_up(Max(ends))

\* The first page boundary past the kernel image and every module.
reserve_kernel_and_modules ==
  align_up(Max({kernel_end} \cup { m.end : m \in mods }))

pmm_get_bitmap_size == ((MaxBlocks + 31) \div 32) * 4

LowEnd == reserve_kernel_and_modules + pmm_get_bitmap_size

\* The part of a memory-map entry that lies below mem_size.
Clipped(e) ==
  LET mem_size == MaxBlocks * PAGE_SIZE
  IN [addr |-> e.base, size |-> Min({e.length, mem_size - e.base})]

\* kheap_init places the heap at the floor or past everything the boot loader
\* left behind, whichever is higher.
HeapStart(min_start) == align_up(Max({min_start, HEAP_MIN_START}))

\* The loader leaves the kernel and the modules, with room for the bitmap and the
\* heap behind them, below the addresses that a PC gives to its devices.
ASSUME BootAssumption ==
  /\ \A map \in MemoryMaps : map \subseteq [base : Nat, length : Nat, type : Nat]
  /\ \A list \in ModuleLists : \A m \in list : m.start \in Nat /\ m.end \in Nat /\ m.start <= m.end
  /\ KernelEnds \subseteq Nat
  /\ HEAP_MIN_START \in Nat /\ HEAP_SIZE \in Nat \ {0}
  /\ \A x \in KernelEnds \cup { m.end : m \in UNION ModuleLists } :
       HeapStart(align_up(x) + pmm_get_bitmap_size) + HEAP_SIZE < AddrLimit

--------------------------------------------------------------------------------

BootInit ==
  /\ Init
  /\ mmap \in MemoryMaps
  /\ mods \in ModuleLists
  /\ kernel_end \in KernelEnds
  /\ todo = mmap
  /\ step = "free_usable"
  /\ heap = None
  /\ model = None
  /\ detect_memory_size = MaxBlocks * PAGE_SIZE

\* Every entry is released, whatever its type.
FreeAny(e) ==
  /\ step = "free_usable"
  /\ e \in todo
  /\ todo' = todo \ {e}
  /\ IF e.base < MaxBlocks * PAGE_SIZE /\ e.length > 0
     THEN pmm_mark_usable_region(Clipped(e))
     ELSE UNCHANGED vars
  /\ UNCHANGED <<mmap, mods, kernel_end, step, heap, model>>

\* One entry of free_usable_memory's loop.
FreeUsable(e) ==
  /\ step = "free_usable"
  /\ e \in todo
  /\ todo' = todo \ {e}
  /\ IF e.base < MaxBlocks * PAGE_SIZE /\ e.length > 0 /\ e.type = Available
     THEN pmm_mark_usable_region(Clipped(e))
     ELSE UNCHANGED vars
  /\ UNCHANGED <<mmap, mods, kernel_end, step, heap, model>>

\* pmm_reserve_region(0, bitmap_addr + pmm_get_bitmap_size()).
ReserveBelowBitmap ==
  /\ step = "free_usable"
  /\ todo = {}
  /\ ReserveLow([addr |-> 0, size |-> LowEnd])
  /\ todo' = mods
  /\ step' = "modules"
  /\ UNCHANGED <<mmap, mods, kernel_end, heap, model>>

\* One module of reserve_multiboot_modules' loop.
ReserveModule(m) ==
  /\ step = "modules"
  /\ m \in todo
  /\ todo' = todo \ {m}
  /\ pmm_reserve_region([addr |-> m.start, size |-> m.end - m.start])
  /\ UNCHANGED <<mmap, mods, kernel_end, step, heap, model>>

\* A heap that is only initialised, never taken from the PMM.
HeapNotReserved ==
  /\ step = "modules"
  /\ todo = {}
  /\ heap' = [addr |-> HeapStart(LowEnd), size |-> HEAP_SIZE]
  /\ step' = "heap"
  /\ UNCHANGED <<phase, bitmap, used_blocks, live, reserved>>
  /\ UNCHANGED <<mmap, mods, kernel_end, todo, model>>

kheap_init ==
  /\ step = "modules"
  /\ todo = {}
  /\ heap' = [addr |-> HeapStart(LowEnd), size |-> HEAP_SIZE]
  /\ pmm_reserve_region(heap')
  /\ step' = "heap"
  /\ UNCHANGED <<mmap, mods, kernel_end, todo, model>>

\* The layout is fixed; pmm_init_high, vmm_init and the drivers start to
\* allocate.
EnterRun ==
  /\ step = "heap"
  /\ BootDone
  /\ step' = "run"
  /\ UNCHANGED <<mmap, mods, kernel_end, todo, heap, model>>

\* pmm_init_high's bitmap, vmm_init's tables, the NIC and USB rings, task stacks.
KernelAllocates ==
  /\ step \in {"run", "ready"}
  /\ \/ pmm_alloc_block
     \/ \E size \in Sizes : pmm_alloc_region(size)
  /\ UNCHANGED bootvars

\* Every page is counted, whether its bit flips or not.
LoadModelModuleRecounted(m) ==
  /\ step = "run"
  /\ m \in mods
  /\ m.model
  /\ model' = [addr |-> m.start, size |-> m.end - m.start]
  /\ bitmap' = bitmap \cup BlocksOf(model')
  /\ used_blocks' = used_blocks + Cardinality(BlocksOf(model'))
  /\ reserved' = reserved \cup BlocksOf(model')
  /\ step' = "ready"
  /\ UNCHANGED <<phase, live, mmap, mods, kernel_end, todo, heap>>

\* boot_modules_load: a model module stays where the boot loader put it, and
\* llm_load_model_module reserves its pages once more.
LoadModelModule(m) ==
  /\ step = "run"
  /\ m \in mods
  /\ m.model
  /\ model' = [addr |-> m.start, size |-> m.end - m.start]
  /\ SetBlocks(BlocksOf(model'))
  /\ reserved' = reserved \cup BlocksOf(model')
  /\ step' = "ready"
  /\ UNCHANGED <<phase, live, mmap, mods, kernel_end, todo, heap>>

\* boot_modules_load without a model module: fat32_find_model, then
\* extfs_load_file, read the file to a fixed address and reserve its pages.
LoadModelFile(size) ==
  /\ step = "run"
  /\ \A m \in mods : ~ m.model
  /\ model' = [addr |-> MODEL_ADDR, size |-> size]
  /\ SetBlocks(BlocksOf(model'))
  /\ reserved' = reserved \cup BlocksOf(model')
  /\ step' = "ready"
  /\ UNCHANGED <<phase, live, mmap, mods, kernel_end, todo, heap>>

\* No model module, and no file that can be read: boot goes on without a model.
NoModel ==
  /\ step = "run"
  /\ \A m \in mods : ~ m.model
  /\ step' = "ready"
  /\ UNCHANGED <<vars, mmap, mods, kernel_end, todo, heap, model>>

BootNext ==
  \/ \E e \in mmap : FreeUsable(e)
  \/ ReserveBelowBitmap
  \/ \E m \in mods : ReserveModule(m)
  \/ kheap_init
  \/ EnterRun
  \/ KernelAllocates
  \/ \E m \in mods : LoadModelModule(m)
  \/ \E size \in DiskModelSizes : LoadModelFile(size)
  \/ NoModel

BootSpec == BootInit /\ [][BootNext]_<<vars, bootvars>>

--------------------------------------------------------------------------------
(* Properties. *)

Overlap(a, b) ==
  /\ a.addr < b.addr + b.size
  /\ b.addr < a.addr + a.size

ModuleExtent(m) == [addr |-> m.start, size |-> m.end - m.start]

\* The heap window is clear of the kernel image, of the PMM bitmap and of every
\* boot module, wherever the loader put them ("a large GGUF model module can
\* never overlap the heap window either", main.c).
HeapClear ==
  heap # None =>
    /\ heap.addr >= LowEnd
    /\ \A m \in mods : ~ Overlap(heap, ModuleExtent(m))

\* Page tables, rings and stacks never land in the heap, in a module, or in the
\* kernel image and its bitmap: the order "reserve, then allocate" holds.
AllocationsClear ==
  \A e \in live :
    /\ ~ Overlap(e, heap)
    /\ e.addr >= LowEnd
    /\ \A m \in mods : ~ Overlap(e, ModuleExtent(m))

\* Every block the boot leaves free has RAM in it: pmm_free_region rounds the
\* usable entries outward, and never as far as a page the memory map does not
\* mention as RAM at all.
FreeTouchesUsable ==
  \A b \in Blocks \ bitmap :
    \E e \in mmap : /\ e.type = Available
                    /\ Overlap([addr |-> b * PAGE_SIZE, size |-> PAGE_SIZE],
                               [addr |-> e.base, size |-> e.length])

\* "PMM usa Multiboot memory map para liberar solo RAM usable" (TASKS.md): a
\* free block holds no byte that the memory map reports as something else.  It
\* does not hold when an entry is not page aligned (PageAlignedMaps = FALSE).
FreeOnlyUsable ==
  step \in {"run", "ready"} =>
  \A b \in Blocks \ bitmap :
    \A e \in mmap : e.type # Available =>
      ~ Overlap([addr |-> b * PAGE_SIZE, size |-> PAGE_SIZE],
                [addr |-> e.base, size |-> e.length])

\* "32MB mark, bypassing small heap." (fat32.c): the buffer a model file is read
\* into shares no byte with the heap.
ModelBypassesHeap == model # None => ~ Overlap(model, heap)

\* The boot layout: neither the heap nor anything the page allocator hands out
\* later shares a byte with the kernel image, its bitmap, a module or each other.
LayoutClear == HeapClear /\ AllocationsClear
================================================================================
