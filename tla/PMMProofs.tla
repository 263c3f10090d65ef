------------------------------- MODULE PMMProofs -------------------------------
(***************************************************************************)
(* Proofs about PMM for every pool size: the counter is exact, what is     *)
(* reserved stays reserved, and no block ever has two holders.             *)
(***************************************************************************)
EXTENDS PMM, FiniteSetTheorems, TLAPS

\* A held extent is a positive number of bytes, page aligned, inside the pool.
LiveShape ==
  \A e \in live : /\ e.size > 0
                  /\ e.addr % PAGE_SIZE = 0
                  /\ e.addr + e.size <= MaxBlocks * PAGE_SIZE

\* Nothing is held before run time; nothing is reserved before the low
\* reservation; the low reservation includes block 0.
PhaseInv ==
  /\ phase # "run" => live = {}
  /\ IF phase = "mmap" THEN reserved = {} ELSE 0 \in reserved

\* The inductive invariant.
PoolInv ==
  /\ TypeOK
  /\ CountExact
  /\ LiveShape
  /\ LiveBacked
  /\ LiveDisjoint
  /\ ReservedHeld
  /\ PhaseInv

--------------------------------------------------------------------------------
(* Counting set bits. *)

\* Every set of blocks is finite.
LEMMA BlocksFinite ==
  ASSUME NEW S, S \subseteq Blocks
  PROVE  IsFiniteSet(S) /\ Cardinality(S) \in Nat
<1>1. IsFiniteSet(Blocks)
  BY PMMAssumption, FS_Interval DEF Blocks
<1> QED
  BY <1>1, FS_Subset, FS_CardinalityType

\* Setting bits adds exactly the bits that were clear.
LEMMA CountSet ==
  ASSUME NEW B, NEW S, B \subseteq Blocks, S \subseteq Blocks
  PROVE  Cardinality(B \cup S) = Cardinality(B) + Cardinality(S \ B)
<1>1. IsFiniteSet(B) /\ IsFiniteSet(S \ B)
  BY BlocksFinite
<1>2. /\ B \cup S = B \cup (S \ B)
      /\ B \cap (S \ B) = {}
  OBVIOUS
<1>3. Cardinality(B \cup (S \ B))
        = Cardinality(B) + Cardinality(S \ B) - Cardinality(B \cap (S \ B))
  BY <1>1, FS_Union
<1>4. Cardinality(B) \in Nat /\ Cardinality(S \ B) \in Nat
  BY BlocksFinite
<1> QED
  BY <1>2, <1>3, <1>4, FS_EmptySet

\* Clearing bits subtracts exactly the bits that were set.
LEMMA CountUnset ==
  ASSUME NEW B, NEW S, B \subseteq Blocks
  PROVE  Cardinality(B \ S) = Cardinality(B) - Cardinality(S \cap B)
<1>1. IsFiniteSet(B)
  BY BlocksFinite
<1>2. S \cap B = B \cap S
  OBVIOUS
<1>3. Cardinality(B \ S) = Cardinality(B) - Cardinality(B \cap S)
  BY <1>1, FS_Difference, Zenon
<1> QED
  BY <1>2, <1>3, Zenon

\* pmm_set_block over a set of blocks keeps the counter exact.
LEMMA SetBlocksStep ==
  ASSUME TypeOK, CountExact, NEW S, S \subseteq Blocks, SetBlocks(S)
  PROVE  /\ bitmap' = bitmap \cup S
         /\ bitmap' \subseteq Blocks
         /\ used_blocks' \in Nat
         /\ CountExact'
<1>1. bitmap' = bitmap \cup S /\ bitmap' \subseteq Blocks
  BY DEF SetBlocks, TypeOK
<1>2. Cardinality(bitmap \cup S) = Cardinality(bitmap) + Cardinality(S \ bitmap)
  BY CountSet DEF TypeOK
<1>3. used_blocks' = Cardinality(bitmap')
  BY <1>1, <1>2 DEF SetBlocks, CountExact
<1> QED
  BY <1>1, <1>3, BlocksFinite DEF CountExact

\* pmm_unset_block over a set of blocks keeps the counter exact.
LEMMA UnsetBlocksStep ==
  ASSUME TypeOK, CountExact, NEW S, UnsetBlocks(S)
  PROVE  /\ bitmap' = bitmap \ S
         /\ bitmap' \subseteq Blocks
         /\ used_blocks' \in Nat
         /\ CountExact'
<1>1. bitmap' = bitmap \ S /\ bitmap' \subseteq Blocks
  BY DEF UnsetBlocks, TypeOK
<1>2. Cardinality(bitmap \ S) = Cardinality(bitmap) - Cardinality(S \cap bitmap)
  BY CountUnset DEF TypeOK
<1>3. used_blocks' = Cardinality(bitmap')
  BY <1>1, <1>2 DEF UnsetBlocks, CountExact
<1> QED
  BY <1>1, <1>3, BlocksFinite DEF CountExact

--------------------------------------------------------------------------------
(* First fit. *)

\* A nonempty set of naturals has a least element, and Min returns it.
LEMMA MinOfNat ==
  ASSUME NEW S, S \subseteq Nat, S # {}
  PROVE  Min(S) \in S /\ \A x \in S : Min(S) <= x
<1> DEFINE R == OpToRel(<, Nat)
<1>1. IsWellFoundedOn(R, Nat)
  BY NatLessThanWellFounded
<1>2. \A x, y \in Nat : y < x => <<y, x>> \in R
  BY Zenon DEF OpToRel
<1> HIDE DEF R
<1>3. PICK m \in S : \A y \in S : ~ (<<y, m>> \in R)
  BY <1>1, WFMin
<1>4. ASSUME NEW y \in S PROVE m <= y
  <2>1. y \in Nat /\ m \in Nat
    OBVIOUS
  <2>2. ~ (y < m)
    BY <1>2, <1>3, <2>1, Zenon
  <2> QED
    BY <2>1, <2>2
<1> QED
  BY <1>4 DEF Min

\* The blocks an allocation of a run covers are the run.
LEMMA RunIsRegion ==
  ASSUME NEW s \in 1 .. MaxBlocks - 1, NEW size \in ByteAddr, size > 0,
         s + Needed(size) <= MaxBlocks
  PROVE  /\ RegionBlocks(s * PAGE_SIZE, size) = s .. s + Needed(size) - 1
         /\ Needed(size) \in Nat \ {0}
         /\ s .. s + Needed(size) - 1 \subseteq Blocks
         /\ [addr |-> s * PAGE_SIZE, size |-> size] \in Extent
         /\ s * PAGE_SIZE + size <= MaxBlocks * PAGE_SIZE
         /\ (s * PAGE_SIZE) % PAGE_SIZE = 0
<1> DEFINE n == Needed(size)
<1>1. /\ MaxBlocks \in Nat /\ AddrLimit \in Nat
      /\ (MaxBlocks + 1) * 4096 <= AddrLimit
      /\ size \in Nat /\ size < AddrLimit /\ s \in Nat
  BY PMMAssumption DEF ByteAddr, PAGE_SIZE
<1>2. n = (size + 4095) \div 4096
  <2>1. CASE size > AddrLimit - 1 - 4095
    <3>1. n = (AddrLimit - 1) \div 4096
      BY <2>1 DEF Needed, align_up, PAGE_SIZE
    <3> QED
      BY <1>1, <3>1
  <2>2. CASE ~ (size > AddrLimit - 1 - 4095)
    <3>1. n = (((size + 4095) \div 4096) * 4096) \div 4096
      BY <1>1, <2>2 DEF Needed, align_up, PAGE_SIZE
    <3> QED
      BY <1>1, <3>1
  <2> QED
    BY <2>1, <2>2
<1>3. n \in Nat /\ n > 0 /\ s + n <= MaxBlocks /\ size <= n * 4096
  BY <1>1, <1>2
<1>4. s * 4096 + size <= MaxBlocks * 4096
  BY <1>1, <1>3
<1>5. Add32(s * PAGE_SIZE, size) = s * 4096 + size
  BY <1>1, <1>4 DEF Add32, PAGE_SIZE
<1>6. align_up(s * 4096 + size) \div 4096 = s + n
  BY <1>1, <1>2, <1>3, <1>4 DEF align_up, PAGE_SIZE
<1>7. align_down(s * PAGE_SIZE) \div PAGE_SIZE = s
  BY <1>1 DEF align_down, PAGE_SIZE
<1>8. RegionBlocks(s * PAGE_SIZE, size) = { b \in Blocks : s <= b /\ b < s + n }
  BY <1>5, <1>6, <1>7 DEF RegionBlocks, PAGE_SIZE
<1>9. { b \in Blocks : s <= b /\ b < s + n } = s .. s + n - 1
  BY <1>1, <1>3 DEF Blocks
<1>10. s .. s + n - 1 \subseteq Blocks
  BY <1>1, <1>3 DEF Blocks
<1>11. [addr |-> s * PAGE_SIZE, size |-> size] \in Extent
  BY <1>1, <1>4 DEF Extent, ByteAddr, PAGE_SIZE
<1>12. (s * PAGE_SIZE) % PAGE_SIZE = 0
  BY <1>1 DEF PAGE_SIZE
<1>13. s * PAGE_SIZE + size <= MaxBlocks * PAGE_SIZE
  BY <1>4 DEF PAGE_SIZE
<1>14. Needed(size) \in Nat \ {0}
  BY <1>3
<1>15. RegionBlocks(s * PAGE_SIZE, size) = s .. s + Needed(size) - 1
  BY <1>8, <1>9
<1> QED
  BY <1>10, <1>11, <1>12, <1>13, <1>14, <1>15

--------------------------------------------------------------------------------
(* The invariant. *)

\* The region operators only name blocks of the pool.
LEMMA RegionInPool == \A e : BlocksOf(e) \subseteq Blocks
  BY DEF BlocksOf, RegionBlocks

\* A one-page extent that starts on a page boundary is one block.
LEMMA PageIsBlock ==
  ASSUME NEW e \in Extent, e.size = PAGE_SIZE, e.addr % PAGE_SIZE = 0,
         e.addr + e.size <= MaxBlocks * PAGE_SIZE
  PROVE  {BlockOf(e)} \cap Blocks = BlocksOf(e)
<1>1. /\ MaxBlocks \in Nat /\ AddrLimit \in Nat
      /\ (MaxBlocks + 1) * 4096 <= AddrLimit
      /\ e.addr \in Nat /\ e.addr % 4096 = 0
      /\ e.addr + 4096 <= MaxBlocks * 4096
  BY PMMAssumption DEF Extent, ByteAddr, PAGE_SIZE
<1> DEFINE b == e.addr \div 4096
<1>2. b \in Nat /\ e.addr = b * 4096 /\ b < MaxBlocks
  BY <1>1
<1>3. Add32(e.addr, e.size) = e.addr + 4096
  BY <1>1 DEF Add32, PAGE_SIZE
<1>4. align_up(e.addr + 4096) \div 4096 = b + 1
  BY <1>1, <1>2 DEF align_up, PAGE_SIZE
<1>5. align_down(e.addr) \div 4096 = b
  BY <1>1, <1>2 DEF align_down, PAGE_SIZE
<1>6. BlocksOf(e) = { x \in Blocks : b <= x /\ x < b + 1 }
  BY <1>3, <1>4, <1>5 DEF BlocksOf, RegionBlocks, PAGE_SIZE
<1>7. { x \in Blocks : b <= x /\ x < b + 1 } = {b} \cap Blocks
  BY <1>2 DEF Blocks
<1>8. BlockOf(e) = b
  BY DEF BlockOf, PAGE_SIZE
<1> QED
  BY <1>6, <1>7, <1>8

\* The pool after pmm_init satisfies the invariant.
LEMMA InitInv == Init => PoolInv
<1> SUFFICES ASSUME Init PROVE PoolInv
  OBVIOUS
<1>1. Cardinality(Blocks) = MaxBlocks
  BY PMMAssumption, FS_Interval DEF Blocks
<1>2. TypeOK
  BY PMMAssumption DEF Init, TypeOK
<1>3. CountExact
  BY <1>1 DEF Init, CountExact
<1>4. LiveShape /\ LiveBacked /\ LiveDisjoint /\ ReservedHeld /\ PhaseInv
  BY DEF Init, LiveShape, LiveBacked, LiveDisjoint, ReservedHeld, PhaseInv
<1> QED
  BY <1>2, <1>3, <1>4 DEF PoolInv

\* Taking a fresh extent whose blocks were free keeps the invariant.
LEMMA TakeExtent ==
  ASSUME PoolInv, phase = "run", UNCHANGED <<phase, reserved>>,
         NEW e \in Extent, e.size > 0, e.addr % PAGE_SIZE = 0,
         e.addr + e.size <= MaxBlocks * PAGE_SIZE,
         BlocksOf(e) \cap bitmap = {},
         SetBlocks(BlocksOf(e)), live' = live \cup {e}
  PROVE  PoolInv'
<1> USE DEF PoolInv
<1>1. /\ bitmap' = bitmap \cup BlocksOf(e)
      /\ bitmap' \subseteq Blocks
      /\ used_blocks' \in Nat
      /\ CountExact'
  BY SetBlocksStep, RegionInPool
<1>2. TypeOK'
  BY <1>1 DEF TypeOK
<1>3. LiveShape'
  BY DEF LiveShape
<1>4. LiveBacked'
  BY <1>1 DEF LiveBacked
<1>5. \A f \in live : BlocksOf(f) \cap BlocksOf(e) = {}
  BY DEF LiveBacked
<1>6. LiveDisjoint'
  BY <1>5 DEF LiveDisjoint
<1>7. BlocksOf(e) \cap reserved = {}
  BY DEF ReservedHeld
<1>8. ReservedHeld'
  BY <1>1, <1>7 DEF ReservedHeld
<1>9. PhaseInv'
  BY DEF PhaseInv
<1> QED
  BY <1>1, <1>2, <1>3, <1>4, <1>6, <1>8, <1>9

\* Giving back one held extent keeps the invariant.
LEMMA ReturnExtent ==
  ASSUME PoolInv, phase = "run", UNCHANGED <<phase, reserved>>,
         NEW e \in live, UnsetBlocks(BlocksOf(e)), live' = live \ {e}
  PROVE  PoolInv'
<1> USE DEF PoolInv
<1>1. /\ bitmap' = bitmap \ BlocksOf(e)
      /\ bitmap' \subseteq Blocks
      /\ used_blocks' \in Nat
      /\ CountExact'
  BY UnsetBlocksStep
<1>2. TypeOK'
  BY <1>1 DEF TypeOK
<1>3. LiveShape' /\ LiveDisjoint' /\ PhaseInv'
  BY DEF LiveShape, LiveDisjoint, PhaseInv
<1>4. LiveBacked'
  BY <1>1 DEF LiveBacked, LiveDisjoint
<1>5. ReservedHeld'
  BY <1>1 DEF ReservedHeld
<1> QED
  BY <1>1, <1>2, <1>3, <1>4, <1>5

\* Reserving blocks for good, none of them in a caller's hands, keeps the
\* invariant.
LEMMA ReserveBlocks ==
  ASSUME PoolInv, NEW S, S \subseteq Blocks, SetBlocks(S),
         live' \subseteq live, \A f \in live' : BlocksOf(f) \cap S = {},
         reserved' = reserved \cup S,
         phase' \in {"reserve", "run"},
         phase' # "run" => live' = {}, 0 \in reserved'
  PROVE  PoolInv'
<1> USE DEF PoolInv
<1>1. /\ bitmap' = bitmap \cup S
      /\ bitmap' \subseteq Blocks
      /\ used_blocks' \in Nat
      /\ CountExact'
  BY SetBlocksStep
<1>2. TypeOK'
  BY <1>1 DEF TypeOK
<1>3. LiveShape' /\ LiveDisjoint' /\ PhaseInv'
  BY DEF LiveShape, LiveDisjoint, PhaseInv
<1>4. LiveBacked'
  BY <1>1 DEF LiveBacked
<1>5. ReservedHeld'
  BY <1>1 DEF ReservedHeld
<1> QED
  BY <1>1, <1>2, <1>3, <1>4, <1>5

\* Every call preserves the invariant.
LEMMA StepInv == PoolInv /\ [Next]_vars => PoolInv'
<1> SUFFICES ASSUME PoolInv, [Next]_vars PROVE PoolInv'
  OBVIOUS
<1> USE DEF PoolInv
<1>1. ASSUME NEW e \in Extents, pmm_mark_usable_region(e) PROVE PoolInv'
  <2>1. /\ bitmap' = bitmap \ BlocksOf(e)
        /\ bitmap' \subseteq Blocks
        /\ used_blocks' \in Nat
        /\ CountExact'
    BY <1>1, UnsetBlocksStep DEF pmm_mark_usable_region
  <2>2. live' = {} /\ live = {} /\ phase' = phase /\ phase = "mmap" /\ reserved' = reserved
    BY <1>1 DEF pmm_mark_usable_region, PhaseInv
  <2>3. reserved = {}
    BY <2>2 DEF PhaseInv
  <2> QED
    BY <2>1, <2>2, <2>3
    DEF TypeOK, LiveShape, LiveBacked, LiveDisjoint, ReservedHeld, PhaseInv
<1>2. ASSUME NEW e \in Extents, ReserveLow(e) PROVE PoolInv'
  <2>1. live = {} /\ live' = {}
    BY <1>2 DEF ReserveLow, PhaseInv
  <2>2. reserved = {}
    BY <1>2 DEF ReserveLow, PhaseInv
  <2>3. 0 \in BlocksOf(e)
    <3>1. e.addr = 0 /\ e.size \in Nat /\ e.size > 0 /\ e.size < AddrLimit
      BY <1>2, PMMAssumption DEF ReserveLow, ByteAddr
    <3>2. /\ MaxBlocks \in Nat \ {0} /\ AddrLimit \in Nat
          /\ (MaxBlocks + 1) * 4096 <= AddrLimit
      BY PMMAssumption DEF PAGE_SIZE
    <3>3. Add32(e.addr, e.size) = e.size
      BY <3>1, <3>2 DEF Add32
    <3>4. align_up(e.size) \div 4096 > 0
      BY <3>1, <3>2 DEF align_up, PAGE_SIZE
    <3>5. align_down(0) \div 4096 = 0
      BY DEF align_down, PAGE_SIZE
    <3> QED
      BY <3>1, <3>2, <3>3, <3>4, <3>5 DEF BlocksOf, RegionBlocks, Blocks, PAGE_SIZE
  <2>4. reserved' = reserved \cup BlocksOf(e)
    BY <1>2, <2>2 DEF ReserveLow
  <2> QED
    BY <1>2, <2>1, <2>3, <2>4, RegionInPool, ReserveBlocks DEF ReserveLow
<1>3. ASSUME NEW e \in Extents, pmm_reserve_region(e) PROVE PoolInv'
  <2>1. live = {} /\ live' = {} /\ 0 \in reserved /\ phase' = "reserve"
    BY <1>3 DEF pmm_reserve_region, PhaseInv
  <2> QED
    BY <1>3, <2>1, RegionInPool, ReserveBlocks DEF pmm_reserve_region
<1>4. CASE BootDone
  BY <1>4 DEF BootDone, TypeOK, CountExact, LiveShape, LiveBacked, LiveDisjoint,
              ReservedHeld, PhaseInv, BlocksOf, RegionBlocks
<1>5. CASE pmm_alloc_block
  <2> DEFINE b == Min(FreeBlocks)
             e == [addr |-> b * PAGE_SIZE, size |-> PAGE_SIZE]
  <2>1. FreeBlocks \subseteq Nat /\ FreeBlocks # {}
    BY <1>5, PMMAssumption DEF pmm_alloc_block, FreeBlocks, Blocks
  <2>2. b \in Blocks /\ b \notin bitmap
    BY <2>1, MinOfNat DEF FreeBlocks
  <2>3. b # 0
    BY <1>5, <2>2 DEF pmm_alloc_block, PhaseInv, ReservedHeld
  <2>4. Needed(PAGE_SIZE) = 1
    BY PMMAssumption DEF Needed, align_up, PAGE_SIZE
  <2>5. b \in 1 .. MaxBlocks - 1 /\ b + Needed(PAGE_SIZE) <= MaxBlocks
    BY <2>2, <2>3, <2>4, PMMAssumption DEF Blocks
  <2>6. PAGE_SIZE \in ByteAddr /\ PAGE_SIZE > 0
    BY PMMAssumption DEF ByteAddr, PAGE_SIZE
  <2>7. /\ BlocksOf(e) = b .. b + Needed(PAGE_SIZE) - 1
        /\ e \in Extent
        /\ e.addr % PAGE_SIZE = 0
        /\ e.addr + e.size <= MaxBlocks * PAGE_SIZE
    BY <2>5, <2>6, RunIsRegion DEF BlocksOf
  <2>8. BlocksOf(e) = {b}
    BY <2>2, <2>4, <2>7, PMMAssumption DEF Blocks
  <2>9. SetBlocks(BlocksOf(e)) /\ live' = live \cup {e}
    BY <1>5, <2>3, <2>8 DEF pmm_alloc_block
  <2>10. BlocksOf(e) \cap bitmap = {}
    BY <2>2, <2>8
  <2> HIDE DEF e
  <2>11. phase = "run" /\ UNCHANGED <<phase, reserved>> /\ e.size > 0
    BY <1>5, <2>6 DEF pmm_alloc_block, e
  <2> QED
    BY <2>7, <2>9, <2>10, <2>11, TakeExtent
<1>6. ASSUME NEW size \in Sizes, pmm_alloc_region(size) PROVE PoolInv'
  <2> DEFINE n == Needed(size)
             s == Min(RunStarts(n))
             e == [addr |-> s * PAGE_SIZE, size |-> size]
  <2>1. RunStarts(n) \subseteq Nat /\ RunStarts(n) # {}
    BY <1>6, PMMAssumption DEF pmm_alloc_region, RunStarts
  <2>2. s \in RunStarts(n)
    BY <2>1, MinOfNat
  <2>3. /\ s \in 1 .. MaxBlocks - 1 /\ s + n <= MaxBlocks
        /\ \A x \in s .. s + n - 1 : x \notin bitmap
    BY <2>2 DEF RunStarts
  <2>4. size \in ByteAddr /\ size > 0
    BY <1>6, PMMAssumption DEF pmm_alloc_region
  <2>5. /\ BlocksOf(e) = s .. s + n - 1
        /\ e \in Extent
        /\ e.addr % PAGE_SIZE = 0
        /\ e.addr + e.size <= MaxBlocks * PAGE_SIZE
    BY <2>3, <2>4, RunIsRegion DEF BlocksOf
  <2>6. SetBlocks(BlocksOf(e)) /\ live' = live \cup {e}
    BY <1>6, <2>5 DEF pmm_alloc_region
  <2>7. BlocksOf(e) \cap bitmap = {}
    BY <2>3, <2>5
  <2> HIDE DEF e
  <2>8. phase = "run" /\ UNCHANGED <<phase, reserved>> /\ e.size > 0
    BY <1>6, <2>4 DEF pmm_alloc_region, e
  <2> QED
    BY <2>5, <2>6, <2>7, <2>8, TakeExtent
<1>7. ASSUME NEW e \in live, pmm_free_block(e) PROVE PoolInv'
  <2>1. e \in Extent /\ e.size = PAGE_SIZE
    BY <1>7 DEF pmm_free_block, TypeOK
  <2>2. {BlockOf(e)} \cap Blocks = BlocksOf(e)
    BY <2>1, PageIsBlock DEF LiveShape
  <2> QED
    BY <1>7, <2>2, ReturnExtent DEF pmm_free_block
<1>8. ASSUME NEW e \in live, pmm_free_region(e) PROVE PoolInv'
  BY <1>8, ReturnExtent DEF pmm_free_region
<1>9. ASSUME NEW e \in live, ReserveModel(e) PROVE PoolInv'
  <2>1. \A f \in live' : BlocksOf(f) \cap BlocksOf(e) = {}
    BY <1>9 DEF ReserveModel, LiveDisjoint
  <2>2. phase' = "run" /\ live' \subseteq live /\ 0 \in reserved'
    BY <1>9 DEF ReserveModel, PhaseInv
  <2> QED
    BY <1>9, <2>1, <2>2, RegionInPool, ReserveBlocks DEF ReserveModel
<1>10. CASE UNCHANGED vars
  BY <1>10 DEF vars, TypeOK, CountExact, LiveShape, LiveBacked, LiveDisjoint,
               ReservedHeld, PhaseInv, BlocksOf, RegionBlocks
<1> QED
  BY <1>1, <1>2, <1>3, <1>4, <1>5, <1>6, <1>7, <1>8, <1>9, <1>10 DEF Next

--------------------------------------------------------------------------------

\* The inductive invariant holds in every reachable state of every pool.
THEOREM PoolInvariant == Spec => []PoolInv
  BY InitInv, StepInv, PTL DEF Spec

\* The pool's variables keep their types.
THEOREM TypeCorrect == Spec => []TypeOK
<1>1. PoolInv => TypeOK
  BY DEF PoolInv
<1> QED
  BY <1>1, PoolInvariant, PTL

\* used_blocks is the number of set bits whatever order pmm_set_block and
\* pmm_unset_block are called in, and on regions that overlap.
THEOREM CounterExact == Spec => []CountExact
<1>1. PoolInv => CountExact
  BY DEF PoolInv
<1> QED
  BY <1>1, PoolInvariant, PTL

\* No block of the pool is ever held by two callers of pmm_alloc_block and
\* pmm_alloc_region, and what a caller holds stays marked used.
THEOREM ExclusiveHolding == Spec => [](LiveBacked /\ LiveDisjoint)
<1>1. PoolInv => LiveBacked /\ LiveDisjoint
  BY DEF PoolInv
<1> QED
  BY <1>1, PoolInvariant, PTL

\* Kernel, modules, bitmap, heap and loaded models are never handed out.
THEOREM ReservedIsHeld == Spec => []ReservedHeld
<1>1. PoolInv => ReservedHeld
  BY DEF PoolInv
<1> QED
  BY <1>1, PoolInvariant, PTL

\* After the low reservation block 0 is never free, so the 0 that
\* pmm_alloc_block and pmm_alloc_region return always means failure.
THEOREM NullIsUnambiguous == Spec => []NullNeverFree
<1>1. PoolInv => NullNeverFree
  BY DEF PoolInv, PhaseInv, ReservedHeld, NullNeverFree
<1> QED
  BY <1>1, PoolInvariant, PTL

\* All of it together, as the runs check it: the counter, the bitmap, the
\* reservations and the holders of pmm.c agree in every state of every pool.
THEOREM PoolIsSound == Spec => []PoolSound
<1>1. PoolInv => PoolSound
  BY DEF PoolInv, PoolSound, PhaseInv, ReservedHeld, NullNeverFree
<1> QED
  BY <1>1, PoolInvariant, PTL
================================================================================
