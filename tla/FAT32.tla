--------------------------------- MODULE FAT32 ---------------------------------
(* kernel/fat32.c: the allocation table, directories with short and long      *)
(* names, and the calls that change the disk.  The calls run one at a time    *)
(* (system calls run with interrupts off), so a call is modelled by the list  *)
(* of sector writes it makes, in order, computed from the disk it finds;      *)
(* Flush carries out one of them and Crash loses the rest.  Sizes are counted *)
(* in units, UnitsPerCluster of them to a cluster.                            *)
EXTENDS Integers, Sequences, FiniteSets, SequencesExt

CONSTANTS
  FatEntries,       \* sectors_per_fat_32 * 128: entries the table describes
  LastCluster,      \* last cluster that has sectors on the device
  SlotsPerCluster,  \* directory entries in a cluster
  UnitsPerCluster,
  Names,            \* path components the callers use
  Short,            \* name -> its 8.3 form, or NoShort
  Long,             \* name -> the text of its long-name fragments
  Sum,              \* 8.3 form -> the one-byte LFN checksum
  Alias,            \* name -> the name whose 8.3 form its entry carries
  NoShort,
  Values, MaxSize,  \* what a write writes, and how much
  Paths,            \* sequences of names
  Formatted,        \* the disks the formatting tool leaves behind
  CrashIn,          \* the calls in which the machine may stop
  MaxCrashes,
  MaxCalls,         \* bound on the calls made
  Absent, Directory

Root == 2
Clusters == 2 .. (FatEntries - 1)
FREE == 0
EOC == FatEntries
Slots == 1 .. SlotsPerCluster
Units == 1 .. UnitsPerCluster

VARIABLES disk,     \* fat: cluster -> FREE, EOC or the next cluster;
                    \* dir: cluster -> its directory entries;
                    \* data: cluster -> its units of file data
          pending,  \* the writes the current call has still to make
          call,     \* the current call
          last,     \* the last call to return, and its result
          store,    \* what every path held when the last call returned
          crashes, calls

fatvars == <<disk, pending, call, last, store, crashes, calls>>

End == [kind |-> "end"]
Deleted == [kind |-> "deleted"]
Entry(kind, name, first, size) ==
  [kind |-> kind, name |-> name, first |-> first, size |-> size]
Fragment(order, isLast, sum, text) ==
  [kind |-> "lfn", order |-> order, last |-> isLast, sum |-> sum, text |-> text]
-------------------------------------------------------------------------------
(* The allocation table *)

ValidCluster(c) == c >= 2 /\ c < EOC

\* The clusters a walk from c meets after those of met; a walk round a cycle
\* meets nothing new.
RECURSIVE Walk(_, _, _)
Walk(d, c, met) == IF ~ValidCluster(c) \/ Contains(met, c) THEN met
                ELSE Walk(d, d.fat[c], Append(met, c))
Chain(d, c) == Walk(d, c, <<>>)

LeastOf(S) == CHOOSE x \in S : \A y \in S : x <= y

FindFreeCluster(f) ==
  LET free == {c \in Clusters : f[c] = FREE}
  IN  IF free = {} THEN EOC ELSE LeastOf(free)

\* Variant: the mark of a chain's end is stored as a free entry.
SetClusterNoEnd(c, v) == [at |-> "fat", c |-> c, v |-> IF v = EOC THEN FREE ELSE v]

SetCluster(c, v) == [at |-> "fat", c |-> c, v |-> v]
WriteEntryAt(c, i, e) == [at |-> "slot", c |-> c, i |-> i, v |-> e]
WriteDirectory(c, s) == [at |-> "dir", c |-> c, v |-> s]
WriteData(c, u) == [at |-> "data", c |-> c, v |-> u]
-------------------------------------------------------------------------------
(* Directories *)

LfnReset == [active |-> FALSE, valid |-> FALSE, sum |-> 0, parts |-> <<>>]

LfnFeed(st, e) ==
  LET st1 == IF e.last
             THEN [active |-> TRUE, valid |-> TRUE, sum |-> e.sum, parts |-> [o \in {} |-> ""]]
             ELSE st
  IN  IF ~st1.active THEN st
      ELSE [st1 EXCEPT !.valid = @ /\ e.sum = st1.sum,
                       !.parts = [o \in DOMAIN @ \cup {e.order} |->
                                    IF o = e.order THEN e.text ELSE @[o]]]

LfnValidate(st, name) == st.active /\ st.valid /\ Sum[name] = st.sum

\* The assembled name ends at the first fragment that is missing.
LfnText(st) ==
  [o \in 1 .. Cardinality({o \in DOMAIN st.parts : 1 .. o \subseteq DOMAIN st.parts}) |->
     st.parts[o]]

Usable(e) == e.kind \in {"file", "dir"}

Matches(e, st, name) ==
  \/ LfnValidate(st, e.name) /\ LfnText(st) = Long[name]
  \/ Short[name] # NoShort /\ e.name = Short[name]

\* One cluster of a directory, read entry by entry with the long name so far:
\* the usable entries with the name each is paired with, up to the first entry
\* that was never used.
RECURSIVE ScanFrom(_, _, _, _)
ScanFrom(slots, i, lfn, seen) ==
  IF i > SlotsPerCluster THEN [end |-> FALSE, seen |-> seen]
  ELSE CASE slots[i].kind = "end"     -> [end |-> TRUE, seen |-> seen]
         [] slots[i].kind = "lfn"     -> ScanFrom(slots, i + 1, LfnFeed(lfn, slots[i]), seen)
         [] slots[i].kind = "deleted" -> ScanFrom(slots, i + 1, LfnReset, seen)
         [] Usable(slots[i])          -> ScanFrom(slots, i + 1, LfnReset, Append(seen, <<i, lfn>>))
ScanCluster(slots) == ScanFrom(slots, 1, LfnReset, <<>>)

NotFound == [found |-> FALSE]
Hit(d, c, i) == [found |-> TRUE, c |-> c, i |-> i, e |-> d.dir[c][i]]

\* chain: the clusters of the directory still to be searched.
RECURSIVE FindIn(_, _, _)
FindIn(d, chain, name) ==
  IF chain = <<>> THEN NotFound
  ELSE LET c == Head(chain)
           scan == ScanCluster(d.dir[c])
           hits == {scan.seen[j][1] : j \in
                      {j \in DOMAIN scan.seen : Matches(d.dir[c][scan.seen[j][1]], scan.seen[j][2], name)}}
       IN  IF hits # {} THEN Hit(d, c, LeastOf(hits))
           ELSE IF scan.end THEN NotFound
           ELSE FindIn(d, Tail(chain), name)
FindEntryInDir(d, first, name) == FindIn(d, Chain(d, first), name)

\* The slot's index within its own cluster; the cluster is not returned.
RECURSIVE FreeSlotIn(_, _)
FreeSlotIn(d, chain) ==
  IF chain = <<>> THEN 0
  ELSE LET free == {i \in Slots : d.dir[Head(chain)][i].kind \in {"end", "deleted"}}
       IN  IF free # {} THEN LeastOf(free) ELSE FreeSlotIn(d, Tail(chain))
FindFreeSlotInDir(d, first) == FreeSlotIn(d, Chain(d, first))

RECURSIVE ResolveFrom(_, _, _)
ResolveFrom(d, at, path) ==
  IF path = <<>> THEN at
  ELSE IF at.e.kind # "dir" THEN NotFound
  ELSE LET hit == FindEntryInDir(d, at.e.first, Head(path))
       IN  IF hit.found THEN ResolveFrom(d, hit, Tail(path)) ELSE NotFound
ResolvePath(d, path) == ResolveFrom(d, [found |-> TRUE, e |-> Entry("dir", "", Root, 0)], path)

ResolveDirCluster(d, path) ==
  LET at == ResolvePath(d, path)
  IN  IF ~at.found THEN 0 ELSE IF at.e.kind = "dir" THEN at.e.first ELSE 0
-------------------------------------------------------------------------------
(* Reading *)

Min2(a, b) == IF a < b THEN a ELSE b

\* fat32_load_file: NoFile when the chain ends before the recorded size.
NoFile == <<NoShort>>
Contents(d, e) ==
  LET chain == Chain(d, e.first)
  IN  IF Len(chain) * UnitsPerCluster < e.size THEN NoFile
      ELSE [u \in 1 .. e.size |->
              d.data[chain[((u - 1) \div UnitsPerCluster) + 1]][((u - 1) % UnitsPerCluster) + 1]]

LoadFile(d, path) ==
  LET at == ResolvePath(d, path)
  IN  IF ~at.found THEN Absent
      ELSE IF at.e.kind = "dir" THEN Directory ELSE Contents(d, at.e)

\* fat32_ls_path and fat32_get_entry_by_index: the entries in order, each with
\* the text it is shown under.
RECURSIVE ListIn(_, _, _)
ListIn(d, chain, out) ==
  IF chain = <<>> THEN out
  ELSE LET c == Head(chain)
           scan == ScanCluster(d.dir[c])
           shown(i, lfn) == [c |-> c, i |-> i, e |-> d.dir[c][i],
                             long |-> IF LfnValidate(lfn, d.dir[c][i].name) THEN LfnText(lfn) ELSE <<>>]
           here == out \o [j \in DOMAIN scan.seen |-> shown(scan.seen[j][1], scan.seen[j][2])]
       IN  IF scan.end THEN here ELSE ListIn(d, Tail(chain), here)
Listing(d, first) == ListIn(d, Chain(d, first), <<>>)
-------------------------------------------------------------------------------
(* The calls: whether each succeeds, and the writes it makes *)

Refused == [ok |-> FALSE, writes |-> <<>>]
Parent(path) == SubSeq(path, 1, Len(path) - 1)
Name(path) == path[Len(path)]

\* What create and mkdir look for first: a name with an 8.3 form that is not
\* taken, a slot of the parent, and a cluster.
NewPlace(d, path) ==
  LET parent == IF Len(path) = 1 THEN Root ELSE ResolveDirCluster(d, Parent(path))
      slot == IF parent = 0 THEN 0 ELSE FindFreeSlotInDir(d, parent)
      c == FindFreeCluster(d.fat)
  IN  [ok |-> /\ \A k \in DOMAIN path : Short[path[k]] # NoShort
              /\ ~ResolvePath(d, path).found
              /\ parent # 0
              /\ slot # 0 /\ c # EOC,
       parent |-> parent, slot |-> slot, c |-> c]

\* The cluster is taken and filled, then the entry is written.  Its index may be
\* that of a later cluster of the parent, but it goes to the parent's first one.
NewEntry(at, name, kind, fill) ==
  IF ~at.ok THEN Refused
  ELSE [ok |-> TRUE,
        writes |-> <<SetCluster(at.c, EOC)>> \o fill
                   \o <<WriteEntryAt(at.parent, at.slot, Entry(kind, Short[name], at.c, 0))>>]

CreateFile(d, path) == NewEntry(NewPlace(d, path), Name(path), "file", <<>>)

EmptyDirectory(at) ==
  [i \in Slots |-> CASE i = 1 -> Entry("dir", ".", at.c, 0)
                     [] i = 2 -> Entry("dir", "..", at.parent, 0)
                     [] OTHER -> End]

\* Variant: the empty directory is written over its parent.
MkdirOverParent(d, path) ==
  LET at == NewPlace(d, path) IN
  NewEntry(at, Name(path), "dir", <<WriteDirectory(at.parent, EmptyDirectory(at))>>)

Mkdir(d, path) ==
  LET at == NewPlace(d, path) IN
  NewEntry(at, Name(path), "dir", <<WriteDirectory(at.c, EmptyDirectory(at))>>)

DeleteFile(d, path) ==
  LET at == ResolvePath(d, path)
      chain == Chain(d, at.e.first)
  IN  IF ~at.found THEN Refused
      ELSE IF at.e.kind = "dir" THEN Refused
      ELSE [ok |-> TRUE,
            writes |-> [k \in DOMAIN chain |-> SetCluster(chain[k], FREE)]
                       \o <<WriteEntryAt(at.c, at.i, Deleted)>>]

\* fat32_write from offset 0: each cluster of the file gets its share of n units
\* of v; behind the last one a free cluster is linked, then ended.
RECURSIVE WriteFrom(_, _, _, _, _, _, _)
WriteFrom(d, c, f, done, writes, v, n) ==
  LET share == Min2(UnitsPerCluster, n - done)
      put == WriteData(c, [u \in Units |-> IF u <= share THEN v ELSE d.data[c][u]])
      grow == f[c] = EOC /\ done + share < n
      free == FindFreeCluster(f)
  IN  IF done = n \/ ~ValidCluster(c) THEN [written |-> done, writes |-> writes]
      ELSE IF grow /\ free = EOC THEN [written |-> done + share, writes |-> Append(writes, put)]
      ELSE IF grow
      THEN WriteFrom(d, free, [f EXCEPT ![c] = free, ![free] = EOC], done + share,
                     writes \o <<put, SetCluster(c, free), SetCluster(free, EOC)>>, v, n)
      ELSE WriteFrom(d, f[c], f, done + share, Append(writes, put), v, n)
FatWrite(d, first, v, n) == WriteFrom(d, first, d.fat, 0, <<>>, v, n)

\* Variant: a file that grew keeps the size in its entry.
WriteFileSameSize(d, path, v, n) ==
  LET at == ResolvePath(d, path)
      w == FatWrite(d, at.e.first, v, n)
  IN  IF ~at.found THEN Refused
      ELSE IF at.e.kind = "dir" THEN Refused
      ELSE [ok |-> w.written = n, writes |-> w.writes]

WriteFile(d, path, v, n) ==
  LET at == ResolvePath(d, path)
      w == FatWrite(d, at.e.first, v, n)
  IN  IF ~at.found THEN Refused
      ELSE IF at.e.kind = "dir" THEN Refused
      ELSE [ok |-> w.written = n,
            writes |-> w.writes \o
              (IF w.written > at.e.size
               THEN <<WriteEntryAt(at.c, at.i, [at.e EXCEPT !.size = w.written])>> ELSE <<>>)]
-------------------------------------------------------------------------------
\* A sector past the end of the device is not written, and nobody is told.
Apply(d, w) ==
  CASE w.at = "fat" -> [d EXCEPT !.fat[w.c] = w.v]
    [] w.at # "fat" /\ w.c > LastCluster -> d
    [] w.at = "slot" /\ w.c <= LastCluster -> [d EXCEPT !.dir[w.c][w.i] = w.v]
    [] w.at = "dir"  /\ w.c <= LastCluster -> [d EXCEPT !.dir[w.c] = w.v]
    [] w.at = "data" /\ w.c <= LastCluster -> [d EXCEPT !.data[w.c] = w.v]

Canon(path) == [k \in DOMAIN path |-> Alias[path[k]]]
CanonPaths == {p \in Paths : Canon(p) = p}
View(d) == [p \in CanonPaths |-> LoadFile(d, p)]
Idle == pending = <<>>
NoCall == [kind |-> "none", path |-> <<>>, arg |-> <<>>, ok |-> FALSE]

FatInit ==
  /\ disk \in Formatted
  /\ pending = <<>> /\ call = NoCall /\ last = NoCall
  /\ store = View(disk)
  /\ crashes = 0 /\ calls = 0

Call(kind, path, arg, plan) ==
  /\ Idle /\ calls < MaxCalls
  /\ calls' = calls + 1
  /\ \E p \in {plan} : LET c == [kind |-> kind, path |-> Canon(path), arg |-> arg, ok |-> p.ok] IN
       /\ pending' = p.writes
       /\ call' = IF p.writes = <<>> THEN NoCall ELSE c
       /\ last' = IF p.writes = <<>> THEN c ELSE last
  /\ UNCHANGED <<disk, store, crashes>>

Flush ==
  /\ ~Idle
  /\ pending' = Tail(pending)
  /\ last' = IF Len(pending) = 1 THEN call ELSE last
  /\ call' = IF Len(pending) = 1 THEN NoCall ELSE call
  /\ \E d \in {Apply(disk, Head(pending))} :
       disk' = d /\ store' = IF Len(pending) = 1 THEN View(d) ELSE store
  /\ UNCHANGED <<crashes, calls>>

Crash ==
  /\ ~Idle /\ call.kind \in CrashIn /\ crashes < MaxCrashes
  /\ pending' = <<>> /\ call' = NoCall
  /\ last' = [kind |-> "crash", path |-> <<>>, arg |-> <<>>, ok |-> FALSE]
  /\ crashes' = crashes + 1
  /\ store' = View(disk)
  /\ UNCHANGED <<disk, calls>>

FatNext ==
  \/ \E p \in Paths :
       \/ Call("create", p, <<>>, CreateFile(disk, p))
       \/ Call("mkdir", p, <<>>, Mkdir(disk, p))
       \/ Call("delete", p, <<>>, DeleteFile(disk, p))
       \/ \E v \in Values, n \in 0 .. MaxSize : Call("write", p, <<v, n>>, WriteFile(disk, p, v, n))
  \/ Flush
  \/ Crash

FatSpec == FatInit /\ [][FatNext]_fatvars
-------------------------------------------------------------------------------
(* Properties *)

\* Seen between two calls, and after a crash in one of CrashIn, the sectors the
\* driver writes amount to a dictionary of files: every call does to its path
\* what it reports, and a call that fails changes nothing (but a write that
\* runs out of disk, which leaves what it wrote).
FS == INSTANCE FileStore WITH Paths <- CanonPaths
StoresFiles == FS!StoreSpec

\* At every write of a call, so wherever the power fails, the paths the call is
\* not about still read as they did before it began.
BystandersKept ==
  ~Idle => \A p \in CanonPaths \ {call.path} : LoadFile(disk, p) = store[p]

\* The slots of the entries of the root directory and of its subdirectories.
Reachable(d) ==
  LET files(l) == {<<l[k].c, l[k].i>> : k \in {k \in DOMAIN l : l[k].e.name \notin {".", ".."}}}
      inRoot == Listing(d, Root)
  IN  files(inRoot) \cup
      UNION {files(Listing(d, inRoot[k].e.first)) :
               k \in {k \in DOMAIN inRoot : inRoot[k].e.kind = "dir"}}

\* Between calls no cluster belongs to two entries, and the chain of every
\* entry ends with an end mark and is long enough for the recorded size.
ChainsSound ==
  Idle => \A entries \in {{disk.dir[s[1]][s[2]] : s \in Reachable(disk)}} :
    /\ \A e \in entries : \E chain \in {Chain(disk, e.first)} :
         /\ chain # <<>> /\ disk.fat[chain[Len(chain)]] = EOC
         /\ Len(chain) * UnitsPerCluster >= e.size
    /\ \A e1, e2 \in entries : e1 # e2 =>
         ToSet(Chain(disk, e1.first)) \cap ToSet(Chain(disk, e2.first)) = {}

\* A long name finds, and is shown for, only the entry it was written for:
\* fragments a deletion left behind never name another file.  What the listing
\* shows can be opened under the name it shows.
NamesRight ==
  Idle =>
    /\ \A n \in Names : LET at == FindEntryInDir(disk, Root, n) IN
         at.found => at.e.name = Short[Alias[n]]
    /\ \A s \in ToSet(Listing(disk, Root)), n \in Names :
         (IF s.long # <<>> THEN s.long = Long[n] ELSE s.e.name = Short[n])
           => FindEntryInDir(disk, Root, n) = Hit(disk, s.c, s.i)

\* The volume between calls: chains end, are long enough and never shared, and
\* every long name belongs to the entry behind it (lfn_validate, set_cluster).
VolumeSound == ChainsSound /\ NamesRight
================================================================================
