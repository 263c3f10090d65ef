-------------------------------- MODULE MCMemory --------------------------------
(* The allocators and their clients for TLC: the page pool with its scans, the *)
(* heap, the pool above 4 GB, shared memory over the page pool, and ports.     *)
(* One behaviour runs one of them.                                             *)
(*                                                                             *)
(* Pages: six blocks, extents on half-page boundaries, words of four bits.     *)
(* Heap: 120 bytes, up to six blocks.  High memory: two bytes to a page and  *)
(* 4 GB at address 8.  Ipc: two clients, keys and segments, four free blocks;  *)
(* two ports, owners and bodies, three messages to a port, one length too long.*)
EXTENDS PMMScan, Kheap, HighMem, IpcShm, IpcPorts, TLC

CONSTANT HeldMax   \* how many extents callers hold at once

VARIABLE part

memvars == <<part, shmvars, portvars, hdr, hmvars>>

MCExtents ==
  [addr : {0}, size : {2048, 8192}]
    \cup [addr : {6144, 8192, 16384}, size : {4096, 6144}]
    \cup [addr : {4096}, size : {20480}]
MCSizes == {0, 1, 4096, 4097, 12288}
HeldBound == Cardinality(live) <= HeldMax

MCRequests == {0, 1, 12, 40, 84, 104, 199}
MCPointers == { 4 * n : n \in 0 .. 30 } \cup {-4, 18, 200}

\* Below 4 GB; across 4 GB; reserved; without page alignment.  Three pool pages
\* in two pieces, and nothing usable five pages above 4 GB.
SplitMap == << [base |-> 0,  length |-> 6, type |-> 1],
               [base |-> 6,  length |-> 6, type |-> 1],
               [base |-> 12, length |-> 2, type |-> 2],
               [base |-> 15, length |-> 4, type |-> 1],
               [base |-> 22, length |-> 2, type |-> 1] >>
MCBufSizes == {0, 1, 3, 5, 15}

MCKernel == {0, 5}

MemSymmetry == Permutations(Buffers)

MemInit ==
  /\ part \in {"pages", "heap", "high", "shm", "ports"}
  /\ IF part = "shm" THEN ShmInit
     ELSE Init /\ shm_segments = [i \in Ids |-> Empty(CHOOSE k \in Keys : TRUE)] /\ handles = {}
  /\ HeapInit /\ HighInit /\ PortInit

MemNext ==
  /\ UNCHANGED part
  /\ \/ part = "pages" /\ Next /\ UNCHANGED <<shm_segments, handles, portvars, hdr, hmvars>>
     \/ part = "heap" /\ HeapNext /\ UNCHANGED <<shmvars, portvars, hmvars>>
     \/ part = "high" /\ HighNext /\ UNCHANGED <<shmvars, portvars, hdr>>
     \/ part = "shm" /\ ShmNext /\ UNCHANGED <<portvars, hdr, hmvars>>
     \/ part = "ports" /\ PortNext /\ UNCHANGED <<shmvars, hdr, hmvars>>

MemSpec == MemInit /\ [][MemNext]_memvars
================================================================================
