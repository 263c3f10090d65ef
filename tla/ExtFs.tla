--------------------------------- MODULE ExtFs ---------------------------------
(* kernel/extfs.c: loading a file from an ext2 volume.  Block numbers found in *)
(* the inode and in indirect blocks lead to the data; a number of 0 is a hole, *)
(* and any read of the device may fail.  Block offsets are 64-bit in the code, *)
(* so there is no wrap to model.                                               *)
EXTENDS Integers, Sequences, FiniteSets

CONSTANTS
  NDirect,     \* direct block numbers of an inode (12)
  Entries,     \* block numbers in an indirect block
  MaxBlocks,   \* the largest file, in blocks
  DirImages    \* sequences of blocks, each a sequence of directory entries

Double == Entries * Entries
Triple == Double * Entries
NLeaves == NDirect + Entries + Double + Triple

(* The volume.  Data block n of the file is number DataNo(n); the indirect    *)
(* blocks are named by the first leaf below them and their height.            *)
DataNo(n) == <<"data", n>>
NoBlock == <<"hole", 0>>
Node(height, first) == <<height, first>>
Span(height) == CASE height = "single" -> Entries [] height = "double" -> Double [] height = "triple" -> Triple
Below(height) == CASE height = "double" -> "single" [] height = "triple" -> "double"

VARIABLES holes,     \* leaves of the file that have no block
          size,      \* size of the file, in blocks
          dirImage,  \* the blocks of its directory
          at,        \* "lookup", "load", "done" or "failed"
          copied     \* the blocks copied to the caller's buffer

extvars == <<holes, size, dirImage, at, copied>>

\* A subtree without a single data block has no indirect block either.
Allocated(first, span) == \E n \in first .. (first + span - 1) : n \notin holes
PtrTo(height, first) == IF Allocated(first, Span(height)) THEN Node(height, first) ELSE NoBlock
Leaf(n) == IF n \in holes THEN NoBlock ELSE DataNo(n)

\* What the formatting tool wrote: the inode's block numbers and those in a block.
InodeBlockNo(i) == CASE i < NDirect      -> Leaf(i)
                     [] i = NDirect     -> PtrTo("single", NDirect)
                     [] i = NDirect + 1 -> PtrTo("double", NDirect + Entries)
                     [] i = NDirect + 2 -> PtrTo("triple", NDirect + Entries + Double)
BlockNoIn(node, i) ==
  IF node[1] = "single" THEN Leaf(node[2] + i)
  ELSE PtrTo(Below(node[1]), node[2] + i * Span(Below(node[1])))
-------------------------------------------------------------------------------
(* ext_inode_block: bad is the set of blocks that cannot be read *)
Follow(block, i, bad) ==
  IF block = NoBlock \/ block \in bad THEN NoBlock ELSE BlockNoIn(block, i)

\* Variant: the index below a triple indirect block is not reduced.
ext_inode_block_short(logical, bad) ==
  LET single == logical - NDirect
      double == single - Entries
      triple == double - Double
  IN  IF logical < NDirect THEN InodeBlockNo(logical)
      ELSE IF single < Entries THEN Follow(InodeBlockNo(NDirect), single, bad)
      ELSE IF double < Double
      THEN Follow(Follow(InodeBlockNo(NDirect + 1), double \div Entries, bad), double % Entries, bad)
      ELSE Follow(Follow(Follow(InodeBlockNo(NDirect + 2), triple \div Double, bad),
                         triple % Entries, bad), triple % Entries, bad)

ext_inode_block(logical, bad) ==
  LET single == logical - NDirect
      double == single - Entries
      triple == double - Double
      rest == triple % Double
  IN  IF logical < NDirect THEN InodeBlockNo(logical)
      ELSE IF single < Entries THEN Follow(InodeBlockNo(NDirect), single, bad)
      ELSE IF double < Double
      THEN Follow(Follow(InodeBlockNo(NDirect + 1), double \div Entries, bad), double % Entries, bad)
      ELSE IF triple \div Double >= Entries THEN NoBlock
      ELSE Follow(Follow(Follow(InodeBlockNo(NDirect + 2), triple \div Double, bad),
                         rest \div Entries, bad), rest % Entries, bad)

\* A directory entry is [inode, match, fits]: match when its name is the one
\* looked for, fits when rec_len and name_len stay within the block.  An entry
\* that does not fit ends its block, but not the search.
ext_find_entry_in_dir(image) ==
  \E b \in DOMAIN image : \E k \in DOMAIN image[b] :
    /\ image[b][k].inode /\ image[b][k].match
    /\ \A j \in 1 .. k : image[b][j].fits

ExtInit ==
  /\ size \in 0 .. MaxBlocks
  /\ \E lo, hi \in 0 .. NLeaves : holes = lo .. hi \cap 0 .. (NLeaves - 1)
  /\ dirImage \in DirImages
  /\ at = "lookup" /\ copied = <<>>

\* ext_resolve_path on a path of one component; the inode may be unreadable.
ext_resolve_path ==
  /\ at = "lookup"
  /\ \/ ext_find_entry_in_dir(dirImage) /\ at' = "load"
     \/ at' = "failed"
  /\ UNCHANGED <<holes, size, dirImage, copied>>

\* One turn of the loop of extfs_load_file.
extfs_load_file ==
  /\ at = "load"
  /\ \E bad \in {{}, {InodeBlockNo(NDirect)}, {ext_inode_block(Len(copied), {})}} :
       LET phys == ext_inode_block(Len(copied), bad) IN
       IF Len(copied) = size THEN at' = "done" /\ UNCHANGED copied
       ELSE IF phys = NoBlock \/ phys \in bad THEN at' = "failed" /\ UNCHANGED copied
       ELSE copied' = Append(copied, phys) /\ UNCHANGED at
  /\ UNCHANGED <<holes, size, dirImage>>

ExtNext == ext_resolve_path \/ extfs_load_file

ExtSpec == ExtInit /\ [][ExtNext]_extvars
-------------------------------------------------------------------------------
(* Properties *)

\* A load that reports success has copied the file's blocks in order, each from
\* where the volume has it, whatever reads failed on the way; a file with a hole
\* is refused, never filled with something else.
LoadExact ==
  at = "done" => /\ Len(copied) = size
                 /\ \A n \in 0 .. (size - 1) : n \notin holes /\ copied[n + 1] = DataNo(n)
================================================================================
