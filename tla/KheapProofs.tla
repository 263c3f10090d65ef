------------------------------ MODULE KheapProofs ------------------------------
(***************************************************************************)
(* Proofs about Kheap for every heap size: the blocks always tile the      *)
(* window, free neighbours are always merged, and kmalloc and kfree        *)
(* implement the abstract allocator.                                       *)
(***************************************************************************)
EXTENDS Kheap, TLAPS

\* The inductive invariant.
HeapInv == HeapTypeOK /\ Tiling /\ Coalesced

--------------------------------------------------------------------------------
(* What the operations on the list preserve. *)

\* The fields of a header, and where a block ends.
LEMMA HeaderFields ==
  ASSUME NEW h, Typed(h), NEW a \in DOMAIN h
  PROVE  /\ a \in Nat /\ a < HEAP_SIZE /\ a % 4 = 0
         /\ h[a].size \in Nat /\ h[a].size % 4 = 0 /\ h[a].size >= 4
         /\ h[a].free \in BOOLEAN
         /\ h[a].next \in Offsets \cup {NULL}
         /\ End(h, a) \in Nat
         /\ End(h, a) >= a + 20
BY KheapAssumption DEF Typed, Header, Offsets, End, HDR

\* Marking a block free moves nothing.
LEMMA ReleasedShape ==
  ASSUME NEW h, Typed(h), Tiles(h), NEW a \in DOMAIN h
  PROVE  /\ Typed(Released(h, a))
         /\ Tiles(Released(h, a))
         /\ DOMAIN Released(h, a) = DOMAIN h
         /\ Released(h, a)[a].free
         /\ \A x \in DOMAIN h : /\ Released(h, a)[x].size = h[x].size
                                /\ Released(h, a)[x].next = h[x].next
                                /\ x # a => Released(h, a)[x] = h[x]
<1> DEFINE g == Released(h, a)
<1>1. /\ DOMAIN g = DOMAIN h
      /\ g[a] = [h[a] EXCEPT !.free = TRUE]
      /\ \A x \in DOMAIN h : x # a => g[x] = h[x]
  BY DEF Released, Typed
<1>2. h[a] \in Header /\ g[a] \in Header
  BY <1>1 DEF Typed, Header
<1>3. /\ g[a].size = h[a].size
      /\ g[a].next = h[a].next
      /\ g[a].free
  BY <1>1, <1>2 DEF Header
<1>4. \A x \in DOMAIN h : g[x].size = h[x].size /\ g[x].next = h[x].next
  BY <1>1, <1>3
<1>5. g \in [DOMAIN g -> Header]
  BY <1>1, <1>2 DEF Typed, Released
<1> HIDE DEF g
<1>6. Typed(g)
  BY <1>1, <1>4, <1>5 DEF Typed
<1>7. Tiles(g)
  BY <1>1, <1>4 DEF Tiles, Linked, End
<1> QED
  BY <1>1, <1>3, <1>4, <1>6, <1>7 DEF g

\* A successor that coalesce_forward swallows is a block that starts where the
\* block at a ends.
LEMMA Successor ==
  ASSUME NEW h, Typed(h), Tiles(h), NEW a \in DOMAIN h, h[a].next # NULL
  PROVE  h[a].next \in DOMAIN h /\ h[a].next = End(h, a) /\ a < h[a].next
BY HeaderFields DEF Tiles, Linked

\* One round of coalesce_forward keeps the tiling: the block grows to where the
\* swallowed one ended.
LEMMA MergedShape ==
  ASSUME NEW h, Typed(h), Tiles(h), NEW a \in DOMAIN h, Mergeable(h, a),
         NEW g, g = Merged(h, a)
  PROVE  /\ Typed(g)
         /\ Tiles(g)
         /\ DOMAIN g = DOMAIN h \ {h[a].next}
         /\ a \in DOMAIN g
         /\ g[a].free
         /\ g[a].next = h[h[a].next].next
         /\ \A x \in DOMAIN h \ {h[a].next} : x # a => g[x] = h[x]
<1> DEFINE n == h[a].next
<1>1. n \in DOMAIN h /\ n = End(h, a) /\ a < n
  BY Successor DEF Mergeable
<1>2. /\ DOMAIN g = DOMAIN h \ {n}
      /\ g[a].size = h[a].size + HDR + h[n].size
      /\ g[a].free = TRUE
      /\ g[a].next = h[n].next
      /\ \A x \in DOMAIN h \ {n} : x # a => g[x] = h[x]
      /\ g = [x \in DOMAIN g |-> g[x]]
  BY <1>1, HeaderFields DEF Merged
<1>3. g[a] = [size |-> h[a].size + HDR + h[n].size, free |-> TRUE, next |-> h[n].next]
  BY <1>1, HeaderFields DEF Merged
<1>4. End(g, a) = End(h, n)
  BY <1>1, <1>2, HeaderFields DEF End, HDR
<1>5. \A x \in DOMAIN g : x # a => g[x] = h[x] /\ End(g, x) = End(h, x)
  BY <1>2 DEF End
<1>6. g[a] \in Header
  <2>1. h[a].size + HDR + h[n].size \in Nat
    BY <1>1, HeaderFields DEF HDR
  <2>2. h[n].next \in Offsets \cup {NULL}
    BY <1>1, HeaderFields
  <2> QED
    BY <1>3, <2>1, <2>2 DEF Header
<1>7. \A x \in DOMAIN g : g[x] \in Header
  BY <1>2, <1>5, <1>6 DEF Typed
<1>8. (h[a].size + HDR + h[n].size) % 4 = 0 /\ h[a].size + HDR + h[n].size >= 4
  BY <1>1, HeaderFields DEF HDR
<1> HIDE DEF n
<1>9. Typed(g)
  <2>1. g \in [DOMAIN g -> Header]
    BY <1>2, <1>7
  <2> QED
    BY <2>1, <1>2, <1>5, <1>8 DEF Typed
<1>10. \A x \in DOMAIN g : Linked(g, x)
  <2> SUFFICES ASSUME NEW x \in DOMAIN g
               PROVE  Linked(g, x)
    OBVIOUS
  <2>1. CASE x = a
    <3>1. Linked(h, n)
      BY <1>1 DEF Tiles
    <3>2. h[n].next # n
      BY <1>1, Successor, HeaderFields DEF NULL
    <3> QED
      BY <2>1, <3>1, <3>2, <1>2, <1>4 DEF Linked
  <2>2. CASE x # a
    <3>1. Linked(h, x) /\ x \in DOMAIN h
      BY <1>2 DEF Tiles
    <3>2. h[x].next # n
      <4>1. ASSUME h[x].next = n
            PROVE  FALSE
        <5>1. End(h, x) = n /\ End(h, a) = n
          BY <3>1, <4>1, <1>1, HeaderFields DEF Linked, NULL
        <5>2. a < x \/ x < a
          BY <2>2, <3>1, HeaderFields
        <5>3. End(h, a) <= x \/ End(h, x) <= a
          BY <5>2, <3>1 DEF Tiles
        <5> QED
          BY <5>1, <5>3, <3>1, <1>1, HeaderFields
      <4> QED
        BY <4>1
    <3>3. x # a => (h[x].next \in DOMAIN h => h[x].next \in DOMAIN g)
      BY <3>2, <1>2
    <3> QED
      BY <2>2, <3>1, <3>3, <1>5 DEF Linked
  <2> QED
    BY <2>1, <2>2
<1>11. \A x, y \in DOMAIN g : x < y => End(g, x) <= y
  <2> SUFFICES ASSUME NEW x \in DOMAIN g, NEW y \in DOMAIN g, x < y
               PROVE  End(g, x) <= y
    OBVIOUS
  <2>1. x \in DOMAIN h /\ y \in DOMAIN h /\ x # n /\ y # n
    BY <1>2
  <2>2. End(h, x) <= y
    BY <2>1 DEF Tiles
  <2>3. CASE x = a
    <3>1. n < y
      BY <2>1, <2>2, <2>3, <1>1, HeaderFields
    <3> QED
      BY <3>1, <2>1, <2>3, <1>1, <1>4 DEF Tiles
  <2>4. CASE x # a
    BY <2>2, <2>4, <1>5
  <2> QED
    BY <2>3, <2>4
<1>12. Tiles(g)
  <2>1. 0 \in DOMAIN g
    BY <1>1, <1>2, HeaderFields DEF Tiles
  <2> QED
    BY <2>1, <1>10, <1>11 DEF Tiles
<1> QED
  BY <1>1, <1>2, <1>9, <1>12, HeaderFields DEF n

\* The two ways a block may still have a free neighbour while kfree(a) works: it
\* is a itself, or it is the block before a.
OnlyAround(h, a) == \A x \in DOMAIN h : Mergeable(h, x) => x = a \/ h[x].next = a

OnlyBefore(h, a) == \A x \in DOMAIN h : Mergeable(h, x) => h[x].next = a

\* Two blocks never have the same successor.
LEMMA OnePredecessor ==
  ASSUME NEW h, Typed(h), Tiles(h), NEW x \in DOMAIN h, NEW y \in DOMAIN h,
         h[x].next # NULL, h[x].next = h[y].next
  PROVE  x = y
<1>1. End(h, x) = End(h, y)
  BY Successor
<1>2. x < y => End(h, x) <= y
  BY DEF Tiles
<1>3. y < x => End(h, y) <= x
  BY DEF Tiles
<1> QED
  BY <1>1, <1>2, <1>3, HeaderFields

\* After kfree's first coalesce_forward only the block before a can still have a
\* free neighbour.
LEMMA ForwardPass ==
  ASSUME NEW h, Typed(h), Tiles(h), NEW a \in DOMAIN h, h[a].free, OnlyAround(h, a)
  PROVE  LET g == CoalesceForward(h, a)
         IN /\ Typed(g) /\ Tiles(g)
            /\ a \in DOMAIN g /\ g[a].free
            /\ OnlyBefore(g, a)
            /\ DOMAIN g \subseteq DOMAIN h
            /\ \A x \in DOMAIN h : ~ h[x].free => x \in DOMAIN g
            /\ \A x \in DOMAIN g : x # a => g[x] = h[x]
<1> DEFINE g == CoalesceForward(h, a)
<1>1. CASE ~ Mergeable(h, a)
  BY <1>1 DEF CoalesceForward, OnlyAround, OnlyBefore
<1>2. CASE Mergeable(h, a)
  <2> DEFINE n == h[a].next
  <2>1. g = Merged(h, a)
    BY <1>2 DEF CoalesceForward
  <2> HIDE DEF g
  <2>2. /\ Typed(g) /\ Tiles(g) /\ DOMAIN g = DOMAIN h \ {n}
        /\ a \in DOMAIN g /\ g[a].free /\ g[a].next = h[n].next
        /\ \A x \in DOMAIN h \ {n} : x # a => g[x] = h[x]
    <3>1. /\ Typed(g) /\ Tiles(g) /\ DOMAIN g = DOMAIN h \ {h[a].next}
          /\ a \in DOMAIN g /\ g[a].free /\ g[a].next = h[h[a].next].next
      BY <1>2, <2>1, MergedShape
    <3>2. \A x \in DOMAIN h \ {h[a].next} : x # a => g[x] = h[x]
      BY <2>1 DEF Merged
    <3> QED
      BY <3>1, <3>2
  <2>3. n \in DOMAIN h /\ h[n].free /\ n # a /\ n = End(h, a)
    BY <1>2, Successor, HeaderFields DEF Mergeable
  <2>4. ~ Mergeable(h, n)
    <3>1. ASSUME Mergeable(h, n)
          PROVE  FALSE
      <4>1. h[n].next = a
        BY <2>3, <3>1 DEF OnlyAround
      <4>2. n < h[n].next /\ a < n
        BY <2>3, <3>1, <1>2, Successor DEF Mergeable
      <4> QED
        BY <4>1, <4>2, <2>3, HeaderFields
    <3> QED
      BY <3>1
  <2> HIDE DEF n
  <2>5. ASSUME NEW x \in DOMAIN g, Mergeable(g, x)
        PROVE  g[x].next = a
    <3>1. x # a
      <4>1. ASSUME x = a
            PROVE  FALSE
        <5>1. h[n].next # NULL /\ g[h[n].next].free
          BY <4>1, <2>2, <2>5 DEF Mergeable
        <5>2. h[n].next \in DOMAIN h /\ n < h[n].next
          BY <5>1, <2>3, Successor
        <5>3. h[n].next # n /\ h[n].next # a
          BY <5>2, <2>3, HeaderFields
        <5>4. h[h[n].next].free
          BY <5>1, <5>2, <5>3, <2>2
        <5> QED
          BY <5>1, <5>4, <2>3, <2>4 DEF Mergeable
      <4> QED
        BY <4>1
    <3>2. x \in DOMAIN h /\ g[x] = h[x] /\ x # n
      BY <3>1, <2>2
    <3>3. CASE g[x].next = a
      BY <3>3
    <3>4. CASE g[x].next # a
      <4>1. h[x].next # NULL /\ h[x].next \in DOMAIN g
        BY <3>2, <2>2, <2>5, Successor DEF Mergeable
      <4>2. g[h[x].next] = h[h[x].next]
        BY <4>1, <3>2, <3>4, <2>2
      <4>3. Mergeable(h, x)
        BY <4>2, <3>2, <2>5 DEF Mergeable
      <4> QED
        BY <4>3, <3>1, <3>2, <3>4 DEF OnlyAround
    <3> QED
      BY <3>3, <3>4
  <2> QED
    BY <2>2, <2>3, <2>5 DEF OnlyBefore, g, n
<1> QED
  BY <1>1, <1>2

\* kfree keeps the tiling, merges whatever can be merged, and leaves every other
\* block in use as it was.
LEMMA FreedShape ==
  ASSUME NEW h, Typed(h), Tiles(h), NEW a \in DOMAIN h, ~ h[a].free,
         \A x \in DOMAIN h : ~ Mergeable(h, x)
  PROVE  LET f == Freed(h, a)
         IN /\ Typed(f) /\ Tiles(f)
            /\ \A x \in DOMAIN f : ~ Mergeable(f, x)
            /\ \A x \in DOMAIN f : ~ f[x].free =>
                 x \in DOMAIN h /\ x # a /\ f[x] = h[x]
            /\ \A x \in DOMAIN h : ~ h[x].free /\ x # a =>
                 x \in DOMAIN f /\ f[x] = h[x]
<1> DEFINE r == Released(h, a)
           g == CoalesceForward(r, a)
           preds == { p \in DOMAIN g : g[p].next = a }
           f == Freed(h, a)
<1>1. /\ Typed(r) /\ Tiles(r) /\ DOMAIN r = DOMAIN h /\ r[a].free
      /\ \A x \in DOMAIN h : r[x].next = h[x].next /\ (x # a => r[x] = h[x])
  BY ReleasedShape
<1>2. f = IF preds = {} THEN g ELSE CoalesceForward(g, CHOOSE p \in preds : TRUE)
  BY DEF Freed
<1> HIDE DEF r
<1>3. OnlyAround(r, a)
  BY <1>1, Successor DEF OnlyAround, Mergeable
<1>4. /\ Typed(g) /\ Tiles(g) /\ a \in DOMAIN g /\ g[a].free /\ OnlyBefore(g, a)
      /\ DOMAIN g \subseteq DOMAIN r
      /\ \A x \in DOMAIN r : ~ r[x].free => x \in DOMAIN g
      /\ \A x \in DOMAIN g : x # a => g[x] = r[x]
  BY <1>1, <1>3, ForwardPass
<1> HIDE DEF g, f
<1>5. CASE preds = {}
  <2>1. f = g
    BY <1>2, <1>5
  <2>2. \A x \in DOMAIN g : ~ Mergeable(g, x)
    BY <1>4, <1>5 DEF OnlyBefore
  <2> QED
    BY <2>1, <2>2, <1>1, <1>4 DEF f
<1>6. CASE preds # {}
  <2> DEFINE p == CHOOSE q \in preds : TRUE
  <2>1. p \in DOMAIN g /\ g[p].next = a /\ f = CoalesceForward(g, p)
    BY <1>2, <1>6
  <2> HIDE DEF p, preds
  <2>2. p # a /\ a # NULL
    BY <2>1, <1>4, HeaderFields, Successor DEF NULL
  <2>3. \A x \in DOMAIN g : Mergeable(g, x) => x = p
    BY <2>1, <2>2, <1>4, OnePredecessor DEF OnlyBefore
  <2>4. CASE ~ g[p].free
    <3>1. f = g
      BY <2>1, <2>4 DEF CoalesceForward, Mergeable
    <3>2. \A x \in DOMAIN g : ~ Mergeable(g, x)
      BY <2>3, <2>4 DEF Mergeable
    <3> QED
      BY <3>1, <3>2, <1>1, <1>4 DEF f
  <2>5. CASE g[p].free
    <3>1. Mergeable(g, p)
      BY <2>1, <2>2, <2>5, <1>4 DEF Mergeable
    <3>2. f = Merged(g, p)
      BY <2>1, <3>1 DEF CoalesceForward
    <3>3. /\ Typed(f) /\ Tiles(f) /\ DOMAIN f = DOMAIN g \ {a}
          /\ p \in DOMAIN f /\ f[p].free /\ f[p].next = g[a].next
          /\ \A x \in DOMAIN g \ {a} : x # p => f[x] = g[x]
      BY <2>1, <3>1, <3>2, <1>4, MergedShape
    <3>4. ~ Mergeable(g, a)
      BY <2>2, <2>3, <1>4
    <3>5. ASSUME NEW x \in DOMAIN f, Mergeable(f, x)
          PROVE  FALSE
      <4>1. f[x].next # NULL /\ f[x].next \in DOMAIN f /\ x < f[x].next
        BY <3>3, <3>5, Successor DEF Mergeable
      <4>2. CASE x = p
        <5>1. g[a].next # NULL /\ g[a].next \in DOMAIN f /\ g[a].next # p
          BY <4>1, <4>2, <3>3, HeaderFields
        <5>2. g[g[a].next].free
          BY <5>1, <4>2, <3>3, <3>5 DEF Mergeable
        <5> QED
          BY <5>1, <5>2, <3>4, <1>4 DEF Mergeable
      <4>3. CASE x # p
        <5>1. x \in DOMAIN g /\ f[x] = g[x]
          BY <4>3, <3>3
        <5>2. CASE f[x].next = p
          <6>1. g[x].next = p /\ g[p].free /\ g[x].free /\ g[x].next # NULL
            BY <5>1, <5>2, <2>5, <3>5, <4>1 DEF Mergeable
          <6> QED
            BY <6>1, <5>1, <4>3, <2>3 DEF Mergeable
        <5>3. CASE f[x].next # p
          <6>1. f[f[x].next] = g[f[x].next]
            BY <5>3, <4>1, <3>3
          <6> QED
            BY <6>1, <5>1, <4>3, <3>5, <2>3 DEF Mergeable
        <5> QED
          BY <5>2, <5>3
      <4> QED
        BY <4>2, <4>3
    <3>6. \A x \in DOMAIN f : ~ f[x].free => x # p /\ x # a /\ x \in DOMAIN g /\ f[x] = g[x]
      BY <3>3
    <3>7. \A x \in DOMAIN g : ~ g[x].free => x # p /\ x # a /\ x \in DOMAIN f /\ f[x] = g[x]
      BY <3>3, <2>5, <1>4
    <3> QED
      BY <3>3, <3>5, <3>6, <3>7, <1>1, <1>4 DEF f
  <2> QED
    BY <2>4, <2>5
<1> QED
  BY <1>5, <1>6

\* kmalloc keeps the tiling: a split cuts the block into the part handed out and
\* a free remainder, and nothing else changes.
LEMMA TakenShape ==
  ASSUME NEW h, Typed(h), Tiles(h),
         NEW n \in Nat, n % 4 = 0, n > 0,
         NEW a \in Fits(h, n),
         \A x \in DOMAIN h : ~ Mergeable(h, x),
         NEW g, g = Taken(h, a, n)
  PROVE  /\ Typed(g) /\ Tiles(g)
         /\ \A x \in DOMAIN g : ~ Mergeable(g, x)
         /\ a \in DOMAIN g /\ ~ g[a].free
         /\ a \in DOMAIN h /\ h[a].free
         /\ \A x \in DOMAIN h : ~ h[x].free => x # a /\ x \in DOMAIN g /\ g[x] = h[x]
         /\ \A x \in DOMAIN g : ~ g[x].free /\ x # a => x \in DOMAIN h /\ g[x] = h[x]
<1>1. a \in DOMAIN h /\ h[a].free /\ h[a].size >= n /\ h[a] \in Header
  BY DEF Fits, Typed
<1>2. CASE ~ Splits(h, a, n)
  <2>1. g = [h EXCEPT ![a].free = FALSE]
    BY <1>2 DEF Taken
  <2>2. DOMAIN g = DOMAIN h /\ \A x \in DOMAIN h : x # a => g[x] = h[x]
    BY <2>1, <1>1 DEF Typed
  <2>3. g[a].size = h[a].size /\ g[a].next = h[a].next /\ g[a].free = FALSE
    BY <2>1, <1>1 DEF Typed, Header
  <2>4. g \in [DOMAIN g -> Header]
    <3>1. [h[a] EXCEPT !.free = FALSE] \in Header
      BY <1>1 DEF Header
    <3>2. h \in [DOMAIN h -> Header]
      BY DEF Typed
    <3> QED
      BY <3>1, <3>2, <2>1
  <2>5. \A x \in DOMAIN h : g[x].size = h[x].size /\ g[x].next = h[x].next
    BY <2>2, <2>3
  <2>6. Typed(g)
    BY <2>2, <2>4, <2>5 DEF Typed
  <2>7. Tiles(g)
    BY <2>2, <2>5 DEF Tiles, Linked, End
  <2>8. ASSUME NEW x \in DOMAIN g, Mergeable(g, x)
        PROVE  FALSE
    <3>1. x # a /\ g[x].next # a /\ g[x] = h[x]
      BY <2>2, <2>3, <2>8 DEF Mergeable
    <3>2. h[x].next \in DOMAIN h
      BY <3>1, <2>2, <2>8, Successor DEF Mergeable
    <3> QED
      BY <3>1, <3>2, <2>2, <2>8 DEF Mergeable
  <2> QED
    BY <1>1, <2>2, <2>3, <2>6, <2>7, <2>8
<1>3. CASE Splits(h, a, n)
  <2> DEFINE b == a + HDR + n
  <2>1. /\ h[a].size >= n + 20
        /\ b \in Nat /\ b % 4 = 0 /\ a < b
        /\ b + 20 <= End(h, a)
        /\ End(h, a) <= HEAP_SIZE
    <3>1. h[a].size >= n + 20
      BY <1>3 DEF Splits, HDR
    <3>2. End(h, a) <= HEAP_SIZE
      <4>1. CASE h[a].next = NULL
        <5>1. h[a].next \notin DOMAIN h
          BY <4>1, HeaderFields DEF NULL
        <5> QED
          BY <5>1, <1>1, KheapAssumption DEF Tiles, Linked
      <4>2. CASE h[a].next # NULL
        BY <4>2, <1>1, Successor, HeaderFields, KheapAssumption
      <4> QED
        BY <4>1, <4>2
    <3> QED
      BY <3>1, <3>2, <1>1, HeaderFields DEF HDR, End
  <2>2. b \notin DOMAIN h
    <3>1. ASSUME b \in DOMAIN h
          PROVE  FALSE
      <4>1. End(h, a) <= b
        BY <3>1, <2>1, <1>1 DEF Tiles
      <4> QED
        BY <4>1, <2>1, <1>1, HeaderFields
    <3> QED
      BY <3>1
  <2>3. /\ DOMAIN g = DOMAIN h \cup {b}
        /\ g[a] = [size |-> n, free |-> FALSE, next |-> b]
        /\ g[b] = [size |-> h[a].size - n - HDR, free |-> TRUE, next |-> h[a].next]
        /\ \A x \in DOMAIN h : x # a => g[x] = h[x]
        /\ g = [x \in DOMAIN g |-> g[x]]
    BY <1>1, <1>3, <2>1, <2>2, HeaderFields DEF Taken, Rest
  <2> DEFINE m == h[a].size - n - HDR
  <2>4. m \in Nat /\ m % 4 = 0 /\ m >= 4
    BY <1>1, <2>1, HeaderFields DEF HDR
  <2>5. b \in Offsets
    BY <2>1, <1>1, HeaderFields, KheapAssumption DEF Offsets
  <2>6. g[a] \in Header /\ g[b] \in Header
    BY <2>3, <2>4, <2>5, <1>1, HeaderFields DEF Header
  <2>7. End(g, a) = b /\ End(g, b) = End(h, a)
    BY <2>3, <2>1, <1>1, HeaderFields DEF End, HDR
  <2>8. \A x \in DOMAIN h : x # a => g[x] = h[x] /\ End(g, x) = End(h, x)
    BY <2>3 DEF End
  <2> HIDE DEF b, m
  <2>9. Typed(g)
    <3>1. g \in [DOMAIN g -> Header]
      BY <2>3, <2>6 DEF Typed
    <3>2. \A x \in DOMAIN g : x % 4 = 0 /\ g[x].size % 4 = 0 /\ g[x].size >= 4
      <4>1. a % 4 = 0 /\ g[a].size % 4 = 0 /\ g[a].size >= 4
        BY <2>3, <1>1, HeaderFields
      <4>2. b % 4 = 0 /\ g[b].size % 4 = 0 /\ g[b].size >= 4
        BY <2>1, <2>3, <2>4 DEF m
      <4> QED
        BY <4>1, <4>2, <2>3, HeaderFields
    <3> QED
      BY <3>1, <3>2, <2>3, <2>5 DEF Typed
  <2>10. \A x \in DOMAIN g : Linked(g, x)
    <3>1. Linked(g, a)
      BY <2>3, <2>7 DEF Linked
    <3>2. Linked(g, b)
      BY <2>3, <2>7, <1>1 DEF Linked, Tiles
    <3>3. \A x \in DOMAIN h : x # a => Linked(g, x)
      BY <2>3, <2>8 DEF Linked, Tiles
    <3> QED
      BY <3>1, <3>2, <3>3, <2>3
  <2>11. \A x, y \in DOMAIN g : x < y => End(g, x) <= y
    <3> SUFFICES ASSUME NEW x \in DOMAIN g, NEW y \in DOMAIN g, x < y
                 PROVE  End(g, x) <= y
      OBVIOUS
    <3>1. CASE x = a
      <4>1. y = b \/ (y \in DOMAIN h /\ End(h, a) <= y)
        BY <3>1, <2>3, <1>1 DEF Tiles
      <4> QED
        BY <4>1, <3>1, <2>1, <2>7, <1>1, HeaderFields
    <3>2. CASE x = b
      <4>1. y \in DOMAIN h /\ a < y
        BY <3>2, <2>1, <2>3, <1>1, HeaderFields
      <4>2. End(h, a) <= y
        BY <4>1, <1>1 DEF Tiles
      <4> QED
        BY <4>2, <3>2, <2>7
    <3>3. CASE x # a /\ x # b
      <4>1. x \in DOMAIN h /\ End(g, x) = End(h, x)
        BY <3>3, <2>3, <2>8
      <4>2. CASE y = b
        <5>1. x < a
          <6>1. ASSUME a < x
                PROVE  FALSE
            <7>1. End(h, a) <= x
              BY <6>1, <4>1, <1>1 DEF Tiles
            <7> QED
              BY <7>1, <4>1, <4>2, <2>1, <1>1, HeaderFields
          <6> QED
            BY <6>1, <3>3, <4>1, <1>1, HeaderFields
        <5>2. End(h, x) <= a
          BY <5>1, <4>1, <1>1 DEF Tiles
        <5> QED
          BY <5>2, <4>1, <4>2, <2>1, <1>1, HeaderFields
      <4>3. CASE y # b
        BY <4>1, <4>3, <2>3 DEF Tiles
      <4> QED
        BY <4>2, <4>3
    <3> QED
      BY <3>1, <3>2, <3>3
  <2>12. Tiles(g)
    BY <2>3, <2>10, <2>11 DEF Tiles
  <2>13. ASSUME NEW x \in DOMAIN g, Mergeable(g, x)
         PROVE  FALSE
    <3>1. x # a /\ g[x].next # a /\ g[x].next # NULL
      BY <2>3, <2>13 DEF Mergeable
    <3>2. CASE x = b
      <4>1. h[a].next # NULL /\ h[a].next \in DOMAIN h /\ h[a].next # a
        BY <3>1, <3>2, <2>3, <1>1, Successor
      <4>2. h[h[a].next].free
        BY <4>1, <3>2, <2>3, <2>13 DEF Mergeable
      <4> QED
        BY <4>1, <4>2, <1>1 DEF Mergeable
    <3>3. CASE x # b
      <4>1. x \in DOMAIN h /\ g[x] = h[x]
        BY <3>1, <3>3, <2>3
      <4>2. h[x].next \in DOMAIN h
        BY <4>1, <3>1, Successor
      <4>3. g[h[x].next] = h[h[x].next]
        BY <4>1, <4>2, <3>1, <2>3
      <4> QED
        BY <4>1, <4>3, <2>13 DEF Mergeable
    <3> QED
      BY <3>2, <3>3
  <2> QED
    BY <1>1, <2>2, <2>3, <2>9, <2>12, <2>13
<1> QED
  BY <1>2, <1>3

--------------------------------------------------------------------------------
(* The invariant. *)

\* kmalloc rounds a size up to a multiple of four.
LEMMA Align4Fact ==
  ASSUME NEW size \in Nat
  PROVE  align4(size) \in Nat /\ align4(size) % 4 = 0
BY KheapAssumption DEF align4

\* kheap_init makes one free block of the whole window.
LEMMA InitHeap == HeapInit => HeapInv
<1> SUFFICES ASSUME HeapInit PROVE HeapInv
  OBVIOUS
<1>1. DOMAIN hdr = {0} /\ hdr[0] = [size |-> HEAP_SIZE - HDR, free |-> TRUE, next |-> NULL]
  BY DEF HeapInit
<1>2. HEAP_SIZE - HDR \in Nat /\ (HEAP_SIZE - HDR) % 4 = 0 /\ HEAP_SIZE - HDR >= 4
  BY KheapAssumption DEF HDR
<1>3. hdr[0] \in Header
  BY <1>1, <1>2 DEF Header
<1>4. HeapTypeOK
  <2>1. DOMAIN hdr \subseteq Offsets
    BY <1>1, KheapAssumption DEF Offsets, HDR
  <2>2. hdr \in [DOMAIN hdr -> Header]
    BY <1>1, <1>3 DEF HeapInit
  <2>3. hdr[0].size = HEAP_SIZE - HDR
    BY <1>1
  <2> QED
    BY <1>1, <1>2, <2>1, <2>2, <2>3 DEF HeapTypeOK, Typed
<1>5. Tiling
  BY <1>1, <1>2, KheapAssumption DEF Tiling, Tiles, Linked, End, HDR
<1>6. Coalesced
  BY <1>1 DEF Coalesced, Mergeable
<1> QED
  BY <1>4, <1>5, <1>6 DEF HeapInv

\* What a call of kmalloc that succeeds does, whatever it was asked for.
LEMMA MallocStep ==
  ASSUME HeapInv, NEW size \in Requests, kmalloc(size)
  PROVE  \E a \in DOMAIN hdr :
           /\ HeapInv'
           /\ hdr[a].free /\ a \in DOMAIN hdr' /\ ~ hdr'[a].free
           /\ \A x \in DOMAIN hdr : ~ hdr[x].free =>
                x # a /\ x \in DOMAIN hdr' /\ hdr'[x] = hdr[x]
           /\ \A x \in DOMAIN hdr' : ~ hdr'[x].free /\ x # a =>
                x \in DOMAIN hdr /\ hdr'[x] = hdr[x]
<1> DEFINE n == align4(size)
<1>1. size \in Nat
  BY KheapAssumption
<1>2. n \in Nat /\ n % 4 = 0 /\ n > 0
  BY <1>1, Align4Fact DEF kmalloc
<1>3. PICK a \in Fits(hdr, n) : hdr' = Taken(hdr, a, n)
  BY DEF kmalloc
<1> HIDE DEF n
<1>4. Typed(hdr) /\ Tiles(hdr) /\ \A x \in DOMAIN hdr : ~ Mergeable(hdr, x)
  BY DEF HeapInv, HeapTypeOK, Tiling, Coalesced
<1>5. /\ Typed(hdr') /\ Tiles(hdr')
      /\ \A x \in DOMAIN hdr' : ~ Mergeable(hdr', x)
      /\ a \in DOMAIN hdr' /\ ~ hdr'[a].free
      /\ a \in DOMAIN hdr /\ hdr[a].free
      /\ \A x \in DOMAIN hdr : ~ hdr[x].free => x # a /\ x \in DOMAIN hdr' /\ hdr'[x] = hdr[x]
      /\ \A x \in DOMAIN hdr' : ~ hdr'[x].free /\ x # a => x \in DOMAIN hdr /\ hdr'[x] = hdr[x]
  BY <1>2, <1>3, <1>4, TakenShape
<1>6. HeapInv'
  BY <1>5 DEF HeapInv, HeapTypeOK, Tiling, Coalesced
<1> QED
  BY <1>5, <1>6

\* What a call of kfree that names a block in use does.
LEMMA FreeStep ==
  ASSUME HeapInv, NEW ptr \in Pointers, kfree(ptr), hdr' # hdr
  PROVE  \E a \in DOMAIN hdr :
           /\ HeapInv'
           /\ ~ hdr[a].free
           /\ \A x \in DOMAIN hdr : ~ hdr[x].free /\ x # a =>
                x \in DOMAIN hdr' /\ hdr'[x] = hdr[x]
           /\ \A x \in DOMAIN hdr' : ~ hdr'[x].free =>
                x \in DOMAIN hdr /\ x # a /\ hdr'[x] = hdr[x]
<1>1. PICK a \in DOMAIN hdr : a + HDR = ptr /\ ~ hdr[a].free
  BY DEF kfree, Names
<1>2. Typed(hdr) /\ Tiles(hdr) /\ \A x \in DOMAIN hdr : ~ Mergeable(hdr, x)
  BY DEF HeapInv, HeapTypeOK, Tiling, Coalesced
<1>3. ptr - HDR = a
  BY <1>1, <1>2, HeaderFields, KheapAssumption DEF HDR
<1>4. hdr' = Freed(hdr, a)
  BY <1>1, <1>3 DEF kfree
<1>5. /\ Typed(hdr') /\ Tiles(hdr')
      /\ \A x \in DOMAIN hdr' : ~ Mergeable(hdr', x)
      /\ \A x \in DOMAIN hdr' : ~ hdr'[x].free => x \in DOMAIN hdr /\ x # a /\ hdr'[x] = hdr[x]
      /\ \A x \in DOMAIN hdr : ~ hdr[x].free /\ x # a => x \in DOMAIN hdr' /\ hdr'[x] = hdr[x]
  BY <1>1, <1>2, <1>4, FreedShape
<1>6. HeapInv'
  BY <1>5 DEF HeapInv, HeapTypeOK, Tiling, Coalesced
<1> QED
  BY <1>1, <1>5, <1>6

\* kmalloc and kfree keep the invariant of the heap.
LEMMA StepHeap == HeapInv /\ [HeapNext]_hdr => HeapInv'
<1> SUFFICES ASSUME HeapInv, [HeapNext]_hdr PROVE HeapInv'
  OBVIOUS
<1>1. CASE hdr' = hdr
  BY <1>1 DEF HeapInv, HeapTypeOK, Tiling, Coalesced
<1>2. ASSUME NEW size \in Requests, kmalloc(size)
      PROVE  HeapInv'
  BY <1>2, MallocStep
<1>3. ASSUME NEW ptr \in Pointers, kfree(ptr), hdr' # hdr
      PROVE  HeapInv'
  BY <1>3, FreeStep
<1> QED
  BY <1>1, <1>2, <1>3 DEF HeapNext

\* The three facts that kmalloc and kfree maintain together, for every heap size
\* and every sequence of calls.
THEOREM HeapInvariant == HeapSpec => []HeapInv
<1>1. HeapInit => HeapInv
  BY InitHeap
<1>2. HeapInv /\ [HeapNext]_hdr => HeapInv'
  BY StepHeap
<1> QED
  BY <1>1, <1>2, PTL DEF HeapSpec

\* Every block always has a payload of at least one aligned word.
THEOREM HeapTyped == HeapSpec => []HeapTypeOK
<1>1. HeapInv => HeapTypeOK
  BY DEF HeapInv
<1> QED
  BY <1>1, HeapInvariant, PTL

\* The blocks always tile the window: splitting and coalescing lose no byte.
THEOREM HeapTiled == HeapSpec => []Tiling
<1>1. HeapInv => Tiling
  BY DEF HeapInv
<1> QED
  BY <1>1, HeapInvariant, PTL

\* kfree's one pass in each direction always leaves no two free neighbours.
THEOREM HeapCoalesced == HeapSpec => []Coalesced
<1>1. HeapInv => Coalesced
  BY DEF HeapInv
<1> QED
  BY <1>1, HeapInvariant, PTL

\* All of it together, as the runs check it: after any sequence of kmalloc and
\* kfree the headers are well formed, tile the window and are fully merged.
THEOREM HeapIsSound == HeapSpec => []HeapSound
<1>1. HeapInv => HeapSound
  BY DEF HeapInv, HeapSound
<1> QED
  BY <1>1, HeapInvariant, PTL

\* When nothing is in use the heap is the single block kheap_init made: a block
\* other than the first would have a free predecessor.
THEOREM HeapNoLeak == HeapSpec => []NoLeak
<1>1. HeapInv => NoLeak
  <2> SUFFICES ASSUME HeapInv, \A a \in DOMAIN hdr : hdr[a].free,
                      NEW b \in DOMAIN hdr, b # 0
               PROVE  FALSE
    BY DEF NoLeak, HeapInv, Tiling, Tiles
  <2>1. Typed(hdr) /\ Tiles(hdr) /\ 0 \in DOMAIN hdr
    BY DEF HeapInv, HeapTypeOK, Tiling, Tiles
  <2>2. hdr[0].next = NULL
    BY <2>1, Successor DEF HeapInv, Coalesced, Mergeable
  <2>3. NULL \notin DOMAIN hdr
    BY <2>1, HeaderFields DEF NULL
  <2>4. End(hdr, 0) = HEAP_SIZE
    BY <2>1, <2>2, <2>3 DEF Tiles, Linked
  <2>5. End(hdr, 0) <= b
    BY <2>1, HeaderFields DEF Tiles
  <2> QED
    BY <2>1, <2>4, <2>5, HeaderFields, KheapAssumption
<1> QED
  BY <1>1, HeapInvariant, PTL

--------------------------------------------------------------------------------
(* Refinement. *)

\* The range of a block in use.
LEMMA OwnedRange ==
  ASSUME NEW h, Typed(h), Tiles(h), NEW a \in DOMAIN h
  PROVE  /\ 0 <= a + HDR /\ a + HDR < End(h, a) /\ End(h, a) <= HEAP_SIZE
         /\ \A b \in DOMAIN h : b # a =>
              End(h, a) <= b + HDR \/ End(h, b) <= a + HDR
<1>1. End(h, a) <= HEAP_SIZE
  <2>1. CASE h[a].next = NULL
    <3>1. h[a].next \notin DOMAIN h
      BY <2>1, HeaderFields DEF NULL
    <3> QED
      BY <3>1, KheapAssumption DEF Tiles, Linked
  <2>2. CASE h[a].next # NULL
    BY <2>2, Successor, HeaderFields, KheapAssumption
  <2> QED
    BY <2>1, <2>2
<1>2. a + HDR < End(h, a) /\ 0 <= a + HDR
  BY HeaderFields DEF End, HDR
<1>3. ASSUME NEW b \in DOMAIN h, b # a
      PROVE  End(h, a) <= b + HDR \/ End(h, b) <= a + HDR
  <2>1. a < b \/ b < a
    BY <1>3, HeaderFields
  <2>2. End(h, a) <= b \/ End(h, b) <= a
    BY <2>1, <1>3 DEF Tiles
  <2> QED
    BY <2>2, <1>3, HeaderFields DEF HDR
<1> QED
  BY <1>1, <1>2, <1>3

\* A successful kmalloc is a Take of the abstract allocator.
LEMMA MallocTakes ==
  ASSUME HeapInv, NEW size \in Requests, kmalloc(size)
  PROVE  \E r \in Owned' : A!Take(r)
<1>1. PICK a \in DOMAIN hdr :
           /\ HeapInv'
           /\ hdr[a].free /\ a \in DOMAIN hdr' /\ ~ hdr'[a].free
           /\ \A x \in DOMAIN hdr : ~ hdr[x].free =>
                x # a /\ x \in DOMAIN hdr' /\ hdr'[x] = hdr[x]
           /\ \A x \in DOMAIN hdr' : ~ hdr'[x].free /\ x # a =>
                x \in DOMAIN hdr /\ hdr'[x] = hdr[x]
  BY MallocStep
<1> DEFINE r == [lo |-> a + HDR, hi |-> End(hdr', a)]
<1>2. Typed(hdr') /\ Tiles(hdr')
  BY <1>1 DEF HeapInv, HeapTypeOK, Tiling
<1>3. A!InSpace(r)
  BY <1>1, <1>2, OwnedRange DEF A!InSpace
<1>4. ASSUME NEW s \in Owned
      PROVE  A!Apart(r, s)
  <2>1. PICK b \in DOMAIN hdr : ~ hdr[b].free /\ s = [lo |-> b + HDR, hi |-> End(hdr, b)]
    BY <1>4 DEF Owned
  <2>2. b # a /\ b \in DOMAIN hdr' /\ End(hdr', b) = End(hdr, b)
    BY <1>1, <2>1 DEF End
  <2>3. End(hdr', a) <= b + HDR \/ End(hdr', b) <= a + HDR
    BY <2>2, <1>1, <1>2, OwnedRange
  <2> QED
    BY <2>1, <2>2, <2>3 DEF A!Apart
<1>5. Owned' = Owned \cup {r}
  <2>1. ASSUME NEW s \in Owned'
        PROVE  s \in Owned \cup {r}
    <3>1. PICK b \in DOMAIN hdr' : ~ hdr'[b].free /\ s = [lo |-> b + HDR, hi |-> End(hdr', b)]
      BY <2>1 DEF Owned
    <3>2. CASE b = a
      BY <3>1, <3>2
    <3>3. CASE b # a
      <4>1. b \in DOMAIN hdr /\ ~ hdr[b].free /\ End(hdr', b) = End(hdr, b)
        BY <1>1, <3>1, <3>3 DEF End
      <4> QED
        BY <4>1, <3>1 DEF Owned
    <3> QED
      BY <3>2, <3>3
  <2>2. ASSUME NEW s \in Owned
        PROVE  s \in Owned'
    <3>1. PICK b \in DOMAIN hdr : ~ hdr[b].free /\ s = [lo |-> b + HDR, hi |-> End(hdr, b)]
      BY <2>2 DEF Owned
    <3>2. b \in DOMAIN hdr' /\ ~ hdr'[b].free /\ End(hdr', b) = End(hdr, b)
      BY <1>1, <3>1 DEF End
    <3> QED
      BY <3>1, <3>2 DEF Owned
  <2>3. r \in Owned'
    BY <1>1 DEF Owned
  <2> QED
    BY <2>1, <2>2, <2>3
<1> HIDE DEF r
<1> QED
  BY <1>3, <1>4, <1>5 DEF A!Take

\* A kfree that changes the heap is a Give of the abstract allocator.
LEMMA FreeGives ==
  ASSUME HeapInv, NEW ptr \in Pointers, kfree(ptr), hdr' # hdr
  PROVE  \E r \in Owned : A!Give(r)
<1>1. PICK a \in DOMAIN hdr :
           /\ ~ hdr[a].free
           /\ \A x \in DOMAIN hdr : ~ hdr[x].free /\ x # a =>
                x \in DOMAIN hdr' /\ hdr'[x] = hdr[x]
           /\ \A x \in DOMAIN hdr' : ~ hdr'[x].free =>
                x \in DOMAIN hdr /\ x # a /\ hdr'[x] = hdr[x]
  BY FreeStep
<1> DEFINE r == [lo |-> a + HDR, hi |-> End(hdr, a)]
<1>2. r \in Owned
  BY <1>1 DEF Owned
<1>3. Owned' = Owned \ {r}
  <2>1. ASSUME NEW s \in Owned'
        PROVE  s \in Owned \ {r}
    <3>1. PICK b \in DOMAIN hdr' : ~ hdr'[b].free /\ s = [lo |-> b + HDR, hi |-> End(hdr', b)]
      BY <2>1 DEF Owned
    <3>2. b \in DOMAIN hdr /\ b # a /\ ~ hdr[b].free /\ End(hdr', b) = End(hdr, b)
      BY <1>1, <3>1 DEF End
    <3>3. a \in Nat /\ b \in Nat
      BY <3>2, HeaderFields DEF HeapInv, HeapTypeOK
    <3>4. s.lo # r.lo
      BY <3>1, <3>2, <3>3 DEF HDR
    <3> QED
      BY <3>1, <3>2, <3>4 DEF Owned
  <2>2. ASSUME NEW s \in Owned, s # r
        PROVE  s \in Owned'
    <3>1. PICK b \in DOMAIN hdr : ~ hdr[b].free /\ s = [lo |-> b + HDR, hi |-> End(hdr, b)]
      BY <2>2 DEF Owned
    <3>2. b # a
      BY <3>1, <2>2
    <3>3. b \in DOMAIN hdr' /\ ~ hdr'[b].free /\ End(hdr', b) = End(hdr, b)
      BY <1>1, <3>1, <3>2 DEF End
    <3> QED
      BY <3>1, <3>3 DEF Owned
  <2> HIDE DEF r
  <2> QED
    BY <2>1, <2>2
<1> HIDE DEF r
<1> QED
  BY <1>2, <1>3 DEF A!Give

\* kmalloc and kfree implement the abstract allocator: no two live allocations
\* ever overlap, every one is nonempty and inside the heap, and a release gives
\* back exactly the range that was handed out.
THEOREM HeapImplements == HeapSpec => Implements
<1>1. HeapInit => A!Init
  BY DEF HeapInit, A!Init, Owned
<1>2. HeapInv /\ [HeapNext]_hdr => [A!Next]_Owned
  <2> SUFFICES ASSUME HeapInv, [HeapNext]_hdr
               PROVE  [A!Next]_Owned
    OBVIOUS
  <2>1. CASE hdr' = hdr
    BY <2>1 DEF Owned, End
  <2>2. ASSUME NEW size \in Requests, kmalloc(size)
        PROVE  A!Next
    BY <2>2, MallocTakes DEF A!Next
  <2>3. ASSUME NEW ptr \in Pointers, kfree(ptr), hdr' # hdr
        PROVE  A!Next
    BY <2>3, FreeGives DEF A!Next
  <2> QED
    BY <2>1, <2>2, <2>3 DEF HeapNext
<1> QED
  BY <1>1, <1>2, HeapInvariant, PTL DEF HeapSpec, Implements, A!Spec
================================================================================
