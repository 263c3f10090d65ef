--------------------------------- MODULE Kheap ---------------------------------
(***************************************************************************)
(* The kernel heap (kernel/kheap.c): a list of blocks in one window of     *)
(* HEAP_SIZE bytes, each a header of 16 bytes and its payload; first fit,  *)
(* split on allocation, coalesce with both neighbours on release.          *)
(*                                                                         *)
(* hdr maps the offset of each header of the list to the header.  Offsets  *)
(* are relative to heap_phys_start.  The search of kmalloc and the search  *)
(* for the predecessor in kfree follow the next fields; Tiling says that   *)
(* this visits the headers in the order of their addresses, so "the first" *)
(* is the one at the least offset.                                         *)
(*                                                                         *)
(* A header that was merged away stays in memory with its magic number and *)
(* with is_free = 1, so kfree ignores a pointer to it as it does a pointer *)
(* to no header at all: neither is in the domain of hdr.                   *)
(***************************************************************************)
EXTENDS Integers

CONSTANTS
  HEAP_SIZE,
  SizeLimit,   \* one more than the largest size_t
  Requests,    \* arguments of kmalloc
  Pointers     \* arguments of kfree, as offsets

HDR == 16      \* sizeof(header_t)

ASSUME KheapAssumption ==
  /\ HEAP_SIZE \in Nat
  /\ HEAP_SIZE % 4 = 0
  /\ HEAP_SIZE >= HDR + 4
  /\ SizeLimit \in Nat
  /\ SizeLimit % 4 = 0
  /\ SizeLimit > HEAP_SIZE
  /\ Requests \subseteq 0 .. SizeLimit - 1
  /\ Pointers \subseteq Int

VARIABLE hdr

NULL == -1

Offsets == 0 .. HEAP_SIZE - 1

Header == [size : Nat, free : BOOLEAN, next : Offsets \cup {NULL}]

\* size_t arithmetic: (size + 3) & ~3, modulo 2^32.
align4(size) ==
  IF size + 3 >= SizeLimit THEN 0 ELSE ((size + 3) \div 4) * 4

\* Where the block after a would start.
End(h, a) == a + HDR + h[a].size

--------------------------------------------------------------------------------
(* Operations on the list. *)

\* The blocks kmalloc may use for n bytes.
Fits(h, n) == { a \in DOMAIN h : h[a].free /\ h[a].size >= n }

\* A block is split when the remainder holds a header and one word.
Splits(h, a, n) == h[a].size >= n + HDR + 4

\* The offset of the remainder's header.
Rest(h, a, n) == a + HDR + n

\* The list after kmalloc(n) took block a.
Taken(h, a, n) ==
  IF Splits(h, a, n)
  THEN LET b == Rest(h, a, n) IN
       [x \in DOMAIN h \cup {b} |->
          IF x = a THEN [size |-> n, free |-> FALSE, next |-> b]
          ELSE IF x = b THEN [size |-> h[a].size - n - HDR, free |-> TRUE,
                              next |-> h[a].next]
          ELSE h[x]]
  ELSE [h EXCEPT ![a].free = FALSE]

\* coalesce_forward's condition: a and the block after it are both free.
Mergeable(h, a) == h[a].free /\ h[a].next # NULL /\ h[h[a].next].free

\* One round of coalesce_forward.
Merged(h, a) ==
  LET n == h[a].next IN
  [x \in DOMAIN h \ {n} |->
     IF x = a THEN [size |-> h[a].size + HDR + h[n].size, free |-> TRUE,
                    next |-> h[n].next]
     ELSE h[x]]

\* coalesce_forward.  Its loop ends after one round: Coalesced would not hold
\* after kfree if a second one were needed.
CoalesceForward(h, a) == IF Mergeable(h, a) THEN Merged(h, a) ELSE h

Released(h, a) == [h EXCEPT ![a].free = TRUE]

\* Coalescing with the successor only.
FreedForwardOnly(h, a) == CoalesceForward(Released(h, a), a)

\* A release that merges into the predecessor without asking whether it is free.
FreedIntoUsed(h, a) ==
  LET h1 == CoalesceForward(Released(h, a), a)
      preds == { p \in DOMAIN h1 : h1[p].next = a }
  IN IF preds = {} THEN h1 ELSE Merged(h1, CHOOSE p \in preds : TRUE)

\* The list after kfree released block a: merge with the successor, then let the
\* predecessor, if there is one, merge with a.
Freed(h, a) ==
  LET h1 == CoalesceForward(Released(h, a), a)
      preds == { p \in DOMAIN h1 : h1[p].next = a }
  IN IF preds = {} THEN h1 ELSE CoalesceForward(h1, CHOOSE p \in preds : TRUE)

--------------------------------------------------------------------------------

\* kheap_init: one free block.
HeapInit == hdr = [x \in {0} |-> [size |-> HEAP_SIZE - HDR, free |-> TRUE, next |-> NULL]]

\* kmalloc(size): the first block that fits.  A request that nothing fits returns
\* NULL and changes nothing.
kmalloc(size) ==
  LET n == align4(size) IN
  /\ n # 0
  /\ \E a \in Fits(hdr, n) :
       /\ \A b \in Fits(hdr, n) : a <= b
       /\ hdr' = Taken(hdr, a, n)

\* The used header a pointer names, as ptr_to_header and kfree's test find it.
Names(ptr) == { a \in DOMAIN hdr : a + HDR = ptr /\ ~ hdr[a].free }

\* kfree(ptr): a pointer to no used block is ignored.
kfree(ptr) ==
  IF Names(ptr) = {} THEN UNCHANGED hdr
  ELSE hdr' = Freed(hdr, ptr - HDR)

HeapNext ==
  \/ \E size \in Requests : kmalloc(size)
  \/ \E ptr \in Pointers : kfree(ptr)

HeapSpec == HeapInit /\ [][HeapNext]_hdr

--------------------------------------------------------------------------------
(* Properties. *)

\* h is a map from aligned offsets to headers with at least one aligned word.
Typed(h) ==
  /\ DOMAIN h \subseteq Offsets
  /\ h \in [DOMAIN h -> Header]
  /\ \A a \in DOMAIN h : a % 4 = 0 /\ h[a].size % 4 = 0 /\ h[a].size >= 4

\* The block at a ends at its successor, or at the end of the heap.
Linked(h, a) ==
  \/ h[a].next = NULL /\ End(h, a) = HEAP_SIZE
  \/ h[a].next \in DOMAIN h /\ h[a].next = End(h, a)

Tiles(h) ==
  /\ 0 \in DOMAIN h
  /\ \A a \in DOMAIN h : Linked(h, a)
  /\ \A a, b \in DOMAIN h : a < b => End(h, a) <= b

\* Every block is a header with a payload of at least one aligned word: kmalloc's
\* split never leaves an empty remainder.
HeapTypeOK == Typed(hdr)

\* The blocks tile the window: each next field is the end of its block, the last
\* block ends where the heap ends, and no block lies inside another.  Splits and
\* merges lose no byte and create none.
Tiling == Tiles(hdr)

\* "free-block coalescing" (README.md): two free blocks are never neighbours, so
\* coalesce_forward's one pass in each direction is enough.
Coalesced == \A a \in DOMAIN hdr : ~ Mergeable(hdr, a)

\* When everything was returned the heap is again the single block of
\* kheap_init: no sequence of calls fragments it for good.
NoLeak == (\A a \in DOMAIN hdr : hdr[a].free) => DOMAIN hdr = {0}

\* The payloads in use, as ranges.
Owned == { [lo |-> a + HDR, hi |-> End(hdr, a)] :
             a \in { x \in DOMAIN hdr : ~ hdr[x].free } }

A == INSTANCE Allocator WITH Lo <- 0, Hi <- HEAP_SIZE, owned <- Owned

\* kmalloc and kfree implement the abstract allocator.
Implements == A!Spec

\* kmalloc and kfree keep the list of headers a partition of the window with no
\* two free neighbours, whatever was split and merged before.
HeapSound == HeapTypeOK /\ Tiling /\ Coalesced
================================================================================
