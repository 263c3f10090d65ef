-------------------------------- MODULE PMMScan --------------------------------
(***************************************************************************)
(* The loops of kernel/pmm.c as they are written: the word-by-word search  *)
(* of pmm_alloc_block, the run counter of pmm_alloc_region and the run     *)
(* maximum of pmm_largest_free_region_bytes.  PMM states their results as  *)
(* a least element of a set; here the loops are compared with that on      *)
(* every bitmap the pool reaches.                                          *)
(***************************************************************************)
EXTENDS PMM, SequencesExt

CONSTANT WordBits   \* 32: the bits of one bitmap word

ASSUME WordBitsAssumption == WordBits \in Nat \ {0}

NoBlock == -1

\* The bits of word i that are 1.  The bits at and past max_blocks are set by
\* pmm_init and never cleared.
Word(i) ==
  { j \in 0 .. WordBits - 1 : LET b == i * WordBits + j IN
                                b >= MaxBlocks \/ b \in bitmap }

FullWord == 0 .. WordBits - 1

NumWords == (MaxBlocks + WordBits - 1) \div WordBits

\* pmm_alloc_block's search: skip full words, stop at the first clear bit.
AllocBlockScan ==
  LET ScanWord(found, i) ==
        IF found # NoBlock \/ Word(i) = FullWord THEN found
        ELSE LET clear == { j \in FullWord : /\ i * WordBits + j < MaxBlocks
                                             /\ j \notin Word(i) }
             IN IF clear = {} THEN NoBlock ELSE i * WordBits + Min(clear)
  IN FoldLeft(ScanWord, NoBlock, [k \in 1 .. NumWords |-> k - 1])

\* pmm_alloc_region's search.
RegionStepNoReset(acc, block, n) ==
  IF acc.found THEN acc
  ELSE IF block \in bitmap THEN acc
  ELSE LET start == IF acc.len = 0 THEN block ELSE acc.start
       IN [start |-> start, len |-> acc.len + 1, found |-> acc.len + 1 >= n]

RegionStep(acc, block, n) ==
  IF acc.found THEN acc
  ELSE IF block \in bitmap THEN [acc EXCEPT !.len = 0]
  ELSE LET start == IF acc.len = 0 THEN block ELSE acc.start
       IN [start |-> start, len |-> acc.len + 1, found |-> acc.len + 1 >= n]

AllocRegionScan(n) ==
  LET Step(acc, block) == RegionStep(acc, block, n)
      end == FoldLeft(Step, [start |-> 0, len |-> 0, found |-> FALSE],
                      [k \in 1 .. MaxBlocks - 1 |-> k])
  IN IF end.found THEN end.start ELSE NoBlock

\* pmm_largest_free_region_bytes, in blocks.
LargestStep(acc, block) ==
  IF block \in bitmap THEN [acc EXCEPT !.run = 0]
  ELSE [run |-> acc.run + 1, largest |-> Max({acc.largest, acc.run + 1})]

LargestScan ==
  FoldLeft(LargestStep, [run |-> 0, largest |-> 0],
           [k \in 1 .. MaxBlocks - 1 |-> k]).largest

--------------------------------------------------------------------------------

\* pmm_alloc_block's word search finds the lowest free block wherever the pool
\* ends inside a word.
BlockScanIsFirstFit ==
  AllocBlockScan = IF FreeBlocks = {} THEN NoBlock ELSE Min(FreeBlocks)

\* pmm_alloc_region's run counter finds the lowest free run that is long enough.
RegionScanIsFirstFit ==
  \A n \in 1 .. MaxBlocks :
    AllocRegionScan(n) = IF RunStarts(n) = {} THEN NoBlock ELSE Min(RunStarts(n))

\* The memory check of llm_load_model_file is exact: a model that fits in
\* pmm_largest_free_region_bytes() is allocated by the pmm_alloc_region that
\* follows, and one that does not fit would not be.
LargestPredictsAlloc ==
  \A size \in Sizes \ {0} :
    size <= LargestScan * PAGE_SIZE <=> RunStarts(Needed(size)) # {}

\* The three loops over the bitmap words (pmm_alloc_block, pmm_alloc_region,
\* pmm_largest_free_region_bytes) find what they are for, at word boundaries and
\* at the end of the pool too.
ScansExact == BlockScanIsFirstFit /\ RegionScanIsFirstFit /\ LargestPredictsAlloc
================================================================================
