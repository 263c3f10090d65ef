----------------------------- MODULE MCBootMemory -----------------------------
(* One block stands for 4 MB: 60 MB of RAM, heap floor 12 MB, heap 32 MB,  *)
(* model file at 32 MB.  Map entries and modules start on half blocks.     *)
EXTENDS BootMemory

CONSTANTS HeldMax, PageAlignedMaps

Entry(b, l, t) == [base |-> b, length |-> l, type |-> t]

Page(n) == n * PAGE_SIZE
Half == PAGE_SIZE \div 2

AlignedMaps ==
  { { Entry(0, Page(15), 1) },
    { Entry(0, Page(1), 1), Entry(Page(1), Page(1), 2), Entry(Page(2), Page(13), 1) },
    { Entry(0, Page(12), 1), Entry(Page(12), Page(3), 2) } }

UnalignedMaps ==
  { { Entry(0, Page(13) + Half, 1), Entry(Page(13) + Half, Page(1) + Half, 2) } }

MCMemoryMaps == IF PageAlignedMaps THEN AlignedMaps ELSE UnalignedMaps

Module(s, e, m) == [start |-> s, end |-> e, model |-> m]

MCModuleLists ==
  { {},
    { Module(Page(1), Page(1) + Half, FALSE) },
    { Module(Page(2) + Half, Page(5), TRUE) },
    { Module(Page(1), Page(2), FALSE), Module(Page(3), Page(4) + Half, TRUE) } }

MCKernelEnds == { Half, Page(1) }

\* Every extent that the layout can pass to mark_usable or reserve.
MCExtents == [addr : { n * Half : n \in 0 .. 30 },
              size : { n * Half : n \in 0 .. 30 } \cup { n * Half + 4 : n \in 0 .. 30 }]

MCSizes == { 1, Page(1) + 1 }

SmallDiskModels == { Half }

MCDiskModelSizes == { Half, Page(5) }

HeldBound == Cardinality(live) <= HeldMax
================================================================================
