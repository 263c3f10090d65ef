-------------------------------- MODULE HighMem --------------------------------
(***************************************************************************)
(* Memory above 4 GB: the high pool of kernel/pmm.c, and the page-list     *)
(* buffers of kernel/highmem.c that are read and written through a one-    *)
(* page window.                                                            *)
(*                                                                         *)
(* The pool numbers its blocks 0, 1, ... across the usable memory-map      *)
(* entries; a caller holds physical addresses.  Byte addresses are scaled: *)
(* PageBytes bytes to a page, FourGB the first high address.               *)
(*                                                                         *)
(* flat is history: the bytes each buffer would hold were it one array.    *)
(***************************************************************************)
EXTENDS Integers, Sequences, FiniteSets, FiniteSetsExt

CONSTANTS
  PageBytes,      \* PAGE_SIZE
  FourGB,         \* 0x100000000
  MaxRegions,     \* PMM_MAX_MEMORY_REGIONS
  MemoryMap,      \* a sequence of [base, length, type], pairwise disjoint
  Buffers,        \* the hbuf_t objects
  BufSizes,       \* the sizes asked of hbuf_alloc
  Sum32           \* one more than the largest uint32_t, scaled

ASSUME HighAssumption ==
  /\ PageBytes \in Nat \ {0}
  /\ FourGB \in Nat \ {0}
  /\ FourGB % PageBytes = 0
  /\ MaxRegions \in Nat
  /\ BufSizes \subseteq 0 .. Sum32 - 1

VARIABLES
  entry,      \* how many map entries are recorded; then the pool is in use
  regions,    \* high_pool_regions
  total,      \* high_pool_total_blocks
  allocatable, \* the bitmap is not NULL
  high_bitmap, \* the set of indices whose bit is 1
  used,       \* high_pool_used_blocks
  buf,        \* the hbuf_t of each client
  ram,        \* the bytes above 4 GB
  flat,
  result      \* the last return value of hbuf_alloc

hmvars == <<entry, regions, total, allocatable, high_bitmap, used, buf, ram, flat, result>>

Zeroed == [pages |-> <<>>, page_count |-> 0, size |-> 0]

\* An hbuf_t on the stack before the first call: whatever was there.
Uninitialized == [pages |-> <<>>, page_count |-> 1, size |-> 1]

Live(b) == buf[b].pages # <<>>

--------------------------------------------------------------------------------
(* Recording the memory map. *)

align_down_phys(a) == (a \div PageBytes) * PageBytes

align_up_phys(a) == align_down_phys(a + PageBytes - 1)

\* The part of a map entry the pool can use: above 4 GB, whole pages only.
RegionOf(e) ==
  LET end  == e.base + e.length
      base == align_up_phys(Max({e.base, FourGB}))
  IN  [base |-> base, blocks |-> (align_down_phys(end) - base) \div PageBytes, first |-> total]

\* pmm_record_high_memory_region.  An entry below 4 GB, one that is not usable,
\* one without a whole page, and one too many for the table, add nothing.
pmm_record_high_memory_region ==
  /\ entry < Len(MemoryMap)
  /\ entry' = entry + 1
  /\ LET e == MemoryMap[entry + 1]
         r == RegionOf(e)
         pooled == /\ e.length # 0
                   /\ e.base + e.length > FourGB
                   /\ e.type = 1
                   /\ r.blocks > 0
                   /\ Len(regions) < MaxRegions
     IN  /\ regions' = IF pooled THEN Append(regions, r) ELSE regions
         /\ total' = IF pooled THEN total + r.blocks ELSE total
  /\ UNCHANGED <<allocatable, high_bitmap, used, buf, ram, flat, result>>

\* pmm_init_high: the bitmap comes from the low pool, which may have no room.
pmm_init_high ==
  /\ entry = Len(MemoryMap)
  /\ entry' = entry + 1
  /\ allocatable' \in IF total = 0 THEN {FALSE} ELSE BOOLEAN
  /\ UNCHANGED <<regions, total, high_bitmap, used, buf, ram, flat, result>>

Booted == entry > Len(MemoryMap)

--------------------------------------------------------------------------------
(* One block at a time.  A pool p is [bits, used]. *)

high_block_index_to_phys(i) ==
  LET r == CHOOSE r \in { regions[k] : k \in DOMAIN regions } :
             r.first <= i /\ i < r.first + r.blocks
  IN  r.base + (i - r.first) * PageBytes

high_phys_to_block_index(phys) ==
  { regions[k].first + (phys - regions[k].base) \div PageBytes :
      k \in { k \in DOMAIN regions :
                /\ regions[k].base <= phys
                /\ phys < regions[k].base + regions[k].blocks * PageBytes
                /\ (phys - regions[k].base) % PageBytes = 0 } }

Unset(p) == (0 .. total - 1) \ p.bits

\* pmm_alloc_high_block when there is a bitmap and a free block.
pmm_alloc_high_block(p) == [bits |-> p.bits \cup {Min(Unset(p))}, used |-> p.used + 1]

pmm_free_high_block(p, phys) ==
  LET i == high_phys_to_block_index(phys) \cap p.bits
  IN  [bits |-> p.bits \ i, used |-> p.used - Cardinality(i)]

FreePages(p, pages) ==
  LET f[n \in 0 .. Len(pages)] ==
        IF n = 0 THEN p ELSE pmm_free_high_block(f[n - 1], pages[n])
  IN  f[Len(pages)]

--------------------------------------------------------------------------------
(* Buffers. *)

HighBytes == FourGB .. Max({ e.base + e.length : e \in { MemoryMap[k] : k \in DOMAIN MemoryMap } }
                           \cup {FourGB + 1}) - 1

HighInit ==
  /\ entry = 0
  /\ regions = <<>>
  /\ total = 0
  /\ allocatable = FALSE
  /\ high_bitmap = {}
  /\ used = 0
  /\ buf = [b \in Buffers |-> Uninitialized]
  /\ ram = [a \in HighBytes |-> 0]
  /\ flat = [b \in Buffers |-> <<>>]
  /\ result = 1

\* (size + PAGE_SIZE - 1) / PAGE_SIZE in uint32_t.
PageCount(size) == ((size + PageBytes - 1) % Sum32) \div PageBytes

\* Where byte o of a buffer lies.
ByteOf(h, o) == h.pages[(o \div PageBytes) + 1] + (o % PageBytes)

\* The bytes a buffer finds in its pages: hbuf_alloc does not clear them.
Contents(h) ==
  [o \in 1 .. h.size |-> IF o <= Len(h.pages) * PageBytes THEN ram[ByteOf(h, o - 1)] ELSE 0]

\* The loop of hbuf_alloc: the pages obtained before the pool ran out.
AllocPages(p, count) ==
  LET f[n \in 0 .. count] ==
        IF n = 0 THEN [pool |-> p, pages |-> <<>>]
        ELSE LET s == f[n - 1] IN
             IF Len(s.pages) < n - 1 \/ ~ allocatable \/ Unset(s.pool) = {} THEN s
             ELSE [pool  |-> pmm_alloc_high_block(s.pool),
                   pages |-> Append(s.pages, high_block_index_to_phys(Min(Unset(s.pool))))]
  IN  f[count]

Pool == [bits |-> high_bitmap, used |-> used]

SetPool(p) ==
  /\ high_bitmap' = p.bits
  /\ used' = p.used

\* An allocation that keeps the pages it got before the pool ran out.
AllocNoRollback(b, size, heap) ==
  /\ Booted
  /\ ~ Live(b)
  /\ LET count == PageCount(size)
         s == AllocPages(Pool, count)
         ok == size # 0 /\ count # 0 /\ heap /\ Len(s.pages) = count
     IN  /\ SetPool(IF size # 0 /\ count # 0 /\ heap THEN s.pool ELSE Pool)
         /\ result' = IF ok THEN 1 ELSE 0
         /\ buf' = IF ok THEN [buf EXCEPT ![b] = [pages |-> s.pages, page_count |-> count,
                                                  size |-> size]] ELSE buf
         /\ flat' = IF ok THEN [flat EXCEPT ![b] = Contents(buf'[b])] ELSE flat
  /\ UNCHANGED <<entry, regions, total, allocatable, ram>>

\* hbuf_alloc.  heap says whether kmalloc finds room; kmalloc(0) is NULL.  When
\* the pool runs out the pages obtained so far go back.
hbuf_alloc(b, size, heap) ==
  /\ Booted
  /\ ~ Live(b)
  /\ LET count == PageCount(size)
         s == AllocPages(Pool, count)
         tried == size # 0 /\ count # 0 /\ heap
         ok == tried /\ Len(s.pages) = count
     IN  /\ SetPool(IF ok THEN s.pool ELSE IF tried THEN FreePages(s.pool, s.pages) ELSE Pool)
         /\ result' = IF ok THEN 1 ELSE 0
         /\ buf' = IF ok THEN [buf EXCEPT ![b] = [pages |-> s.pages, page_count |-> count,
                                                  size |-> size]] ELSE buf
         /\ flat' = IF ok THEN [flat EXCEPT ![b] = Contents(buf'[b])] ELSE flat
  /\ UNCHANGED <<entry, regions, total, allocatable, ram>>

hbuf_free(b) ==
  /\ Live(b)
  /\ SetPool(FreePages(Pool, buf[b].pages))
  /\ buf' = [buf EXCEPT ![b] = Zeroed]
  /\ flat' = [flat EXCEPT ![b] = <<>>]
  /\ UNCHANGED <<entry, regions, total, allocatable, ram, result>>

\* Pieces that are cut at the length of a page, not at the end of one.
ChunksUncut(offset, len) ==
  LET f[remaining \in 0 .. len] ==
        IF remaining = 0 THEN {}
        ELSE LET pos   == offset + len - remaining
                 chunk == Min({PageBytes, remaining})
             IN  { [page |-> pos \div PageBytes, off |-> pos % PageBytes,
                    at |-> len - remaining, n |-> chunk] } \cup f[remaining - chunk]
  IN  f[len]

\* The loop of hbuf_copy: page, offset in the page, offset in the caller's
\* memory, and length of each piece.
Chunks(offset, len) ==
  LET f[remaining \in 0 .. len] ==
        IF remaining = 0 THEN {}
        ELSE LET pos   == offset + len - remaining
                 chunk == Min({PageBytes - (pos % PageBytes), remaining})
             IN  { [page |-> pos \div PageBytes, off |-> pos % PageBytes,
                    at |-> len - remaining, n |-> chunk] } \cup f[remaining - chunk]
  IN  f[len]

\* hbuf_write of in[0 .. len - 1]: each piece through the window to its page.
hbuf_write(b, offset, in) ==
  /\ Live(b)
  /\ offset + Len(in) <= buf[b].size
  /\ ram' = [a \in HighBytes |->
       LET hit == { c \in Chunks(offset, Len(in)) :
                      /\ buf[b].pages[c.page + 1] + c.off <= a
                      /\ a < buf[b].pages[c.page + 1] + c.off + c.n }
       IN  IF hit = {} THEN ram[a]
           ELSE LET c == CHOOSE c \in hit : TRUE
                IN  in[c.at + (a - buf[b].pages[c.page + 1] - c.off) + 1]]
  /\ flat' = [flat EXCEPT ![b] = [o \in 1 .. buf[b].size |->
                IF offset < o /\ o <= offset + Len(in) THEN in[o - offset] ELSE @[o]]]
  /\ UNCHANGED <<entry, regions, total, allocatable, high_bitmap, used, buf, result>>

\* System call 40.  With a block it writes that block and returns it; without
\* one it writes the page five pages above 4 GB.
pae_test ==
  /\ Booted
  /\ LET none == ~ allocatable \/ Unset(Pool) = {}
         page == IF none THEN FourGB + 5 * PageBytes
                 ELSE high_block_index_to_phys(Min(Unset(Pool)))
     IN  ram' = [a \in HighBytes |-> IF page <= a /\ a < page + PageBytes THEN 2 ELSE ram[a]]
  /\ UNCHANGED <<entry, regions, total, allocatable, high_bitmap, used, buf, flat, result>>

Input(first, len) == [k \in 1 .. len |-> (first + k) % 2]

HighNext ==
  \/ pmm_record_high_memory_region
  \/ pmm_init_high
  \/ \E b \in Buffers, size \in BufSizes, heap \in BOOLEAN : hbuf_alloc(b, size, heap)
  \/ \E b \in Buffers : hbuf_free(b)
  \/ \E b \in Buffers : \E offset \in 0 .. buf[b].size, first \in {0, 1} :
       \E len \in 0 .. buf[b].size : hbuf_write(b, offset, Input(first, len))
  \/ pae_test

HighSpec == HighInit /\ [][HighNext]_hmvars

--------------------------------------------------------------------------------
(* Properties. *)

\* The types of the pool's and the buffers' state.
HighTypeOK ==
  /\ high_bitmap \subseteq 0 .. total - 1
  /\ used \in 0 .. total
  /\ Len(regions) <= MaxRegions
  /\ \A b \in Buffers : Len(buf[b].pages) <= total

\* The pages of all live buffers.
Held == UNION { { <<b, k>> : k \in DOMAIN buf[b].pages } : b \in Buffers }

\* No page is lost and none is counted twice: the set bits are the indices of the
\* pages the live buffers hold, whatever allocation failed half way, and the
\* counter is their number.
PoolAccounts ==
  /\ used = Cardinality(Held)
  /\ high_bitmap = UNION { high_phys_to_block_index(buf[h[1]].pages[h[2]]) : h \in Held }

\* Every page handed out lies inside one usable entry of the memory map.
PagesUsable ==
  \A h \in Held : \E k \in DOMAIN MemoryMap :
    LET e == MemoryMap[k] page == buf[h[1]].pages[h[2]]
    IN  /\ e.type = 1
        /\ Max({e.base, FourGB}) <= page
        /\ page + PageBytes <= e.base + e.length

\* A buffer behaves as one array of bytes: what is read back is what was last
\* written at that offset, across page boundaries, regions that are not
\* contiguous, and pages that earlier buffers used.
ReadsBack ==
  \A b \in Buffers : Live(b) =>
    \A o \in 0 .. buf[b].size - 1 : ram[ByteOf(buf[b], o)] = flat[b][o + 1]

\* "Returns 1 on success, 0 if high memory is unavailable or exhausted (buf is
\* left zeroed either way)" (highmem.h:17).  It does not hold: the size stays set.
FailureZeroes ==
  [][\A b \in Buffers, size \in BufSizes, heap \in BOOLEAN :
       hbuf_alloc(b, size, heap) /\ size # 0 /\ result' = 0 => buf'[b] = Zeroed]_hmvars

\* hbuf_alloc and hbuf_free lose no page of the pool and hand out only RAM the
\* memory map offers above 4 GB, also when an allocation fails half way.
HighSound == HighTypeOK /\ PoolAccounts /\ PagesUsable
================================================================================
