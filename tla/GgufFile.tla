--------------------------------- MODULE GgufFile ---------------------------------
(***************************************************************************)
(* Finding things in a GGUF file: kernel/llm_gguf.c walks the same bytes   *)
(* in four places (gguf_probe, gguf_find_metadata_entry, gguf_skip_value,  *)
(* gguf_get_tensor), each with its own cursor and its own range checks.    *)
(*                                                                         *)
(* A file is a sequence of cells: a length, a count, a type, a dimension,  *)
(* an offset and a character take one cell each (8, 8, 4, 8, 8 and 1 bytes *)
(* there), a 64-bit number two.  Written is what the writer of the file    *)
(* put into it (external); the file on the disk may end early.             *)
(***************************************************************************)
EXTENDS Integers, Sequences, SequencesExt, FiniteSets, FiniteSetsExt

CONSTANTS
  Metas,        \* metadata sections: sequences of [key, type, value]
  Tensors,      \* tensor sections: sequences of [name, dims, offset]
  Alignment,    \* 32
  GGUF_MAGIC,
  MaxEntries,   \* 1000, the most metadata entries or tensors
  MaxMissing    \* how much of a file may be missing

ASSUME GgufAssumption == Alignment \in Nat \ {0}

GGUF_METADATA_UINT32 == 4
GGUF_METADATA_UINT64 == 10
GGUF_METADATA_STRING == 8
GGUF_METADATA_ARRAY == 9

\* A value is a sequence of cells: one, two, a length and characters, or an
\* element type, a count and the elements.
RECURSIVE ValueCells(_, _)
ValueCells(type, v) ==
  CASE type = GGUF_METADATA_UINT32 -> <<v>>
    [] type = GGUF_METADATA_UINT64 -> <<v, 0>>
    [] type = GGUF_METADATA_STRING -> <<Len(v)>> \o v
    [] type = GGUF_METADATA_ARRAY  -> <<v.type, Len(v.items)>>
                          \o FoldLeft(LAMBDA out, x : out \o ValueCells(v.type, x), <<>>, v.items)

Header(w) == <<GGUF_MAGIC, 3, Len(w.tensors), Len(w.meta)>>
MetaCells(m) == <<Len(m.key)>> \o m.key \o <<m.type>> \o ValueCells(m.type, m.value)
TensorCells(t) == <<Len(t.name)>> \o t.name \o <<Len(t.dims)>> \o t.dims \o <<1, t.offset>>

Joined(cells(_), items) == FoldLeft(LAMBDA out, x : out \o cells(x), <<>>, items)
Opening(w) == Header(w) \o Joined(MetaCells, w.meta)
Index(w) == Opening(w) \o Joined(TensorCells, w.tensors)
AlignUp(n) == ((n + Alignment - 1) \div Alignment) * Alignment

Elements(t) == FoldLeft(LAMBDA n, d : n * d, 1, t.dims)
DataSize(w) == Max({0} \cup {w.tensors[i].offset + Elements(w.tensors[i]) : i \in 1 .. Len(w.tensors)})

VARIABLES
  written,     \* [meta, tensors] as written
  base,        \* the cells of the file
  size,        \* how many of them there are
  gguf_probe_cache   \* the last successful probe of this file

ggufvars == <<written, base, size, gguf_probe_cache>>

--------------------------------------------------------------------------------
(* The cursor: where it is, whether every range check held so far. *)

At(ptr) == [ok |-> TRUE, ptr |-> ptr]
No == [ok |-> FALSE, ptr |-> 0]

gguf_range_ok(offset, need) == offset <= size /\ need <= size - offset

Past(c, need) == IF c.ok /\ gguf_range_ok(c.ptr, need) THEN At(c.ptr + need) ELSE No

\* A cell that is there to be read, at offset p.
Cell(p) == base[p + 1]

\* A length at the cursor and that many cells behind it.
PastText(c) == IF ~Past(c, 1).ok THEN No ELSE Past(Past(c, 1), Cell(c.ptr))

\* gguf_skip_value: the cursor behind a value of this type.
RECURSIVE gguf_skip_value(_, _)
RECURSIVE SkipItems(_, _, _)
gguf_skip_value(c, type) ==
  CASE type = GGUF_METADATA_UINT32 -> Past(c, 1)
    [] type = GGUF_METADATA_UINT64 -> Past(c, 2)
    [] type = GGUF_METADATA_STRING -> PastText(c)
    [] type = GGUF_METADATA_ARRAY  -> IF ~Past(c, 2).ok THEN No
                        ELSE SkipItems(Past(c, 2), Cell(c.ptr), Cell(c.ptr + 1))
    [] OTHER -> No
SkipItems(c, type, n) ==
  IF ~c.ok \/ n = 0 THEN c ELSE SkipItems(gguf_skip_value(c, type), type, n - 1)

\* The cursor behind a key and the type that follows it.
PastKey(c) == Past(PastText(c), 1)
KeyAt(c) == SubSeq(base, c.ptr + 2, c.ptr + 1 + Cell(c.ptr))
PastMeta(c) ==
  IF ~PastKey(c).ok THEN No ELSE gguf_skip_value(PastKey(c), Cell(PastKey(c).ptr - 1))

PastTensor(c) ==
  LET dims == PastText(c)
  IN IF ~Past(dims, 1).ok \/ ~(Cell(dims.ptr) \in 1 .. 4) THEN No
     ELSE Past(Past(Past(dims, 1), Cell(dims.ptr)), 2)

RECURSIVE PastMetas(_, _)
PastMetas(c, n) == IF ~c.ok \/ n = 0 THEN c ELSE PastMetas(PastMeta(c), n - 1)
RECURSIVE PastTensors(_, _)
PastTensors(c, n) == IF ~c.ok \/ n = 0 THEN c ELSE PastTensors(PastTensor(c), n - 1)

Invalid == [valid |-> FALSE, tensor_info_offset |-> 0, data_offset |-> 0]

\* Variant: the data section is taken to begin right behind the index.
ProbedUnaligned ==
  IF size < 4 \/ Cell(0) # GGUF_MAGIC \/ Cell(1) \notin 1 .. 3
       \/ Cell(2) > MaxEntries \/ Cell(3) > MaxEntries
    THEN Invalid
  ELSE LET infos == PastMetas(At(4), Cell(3))
           last == PastTensors(infos, Cell(2))
       IN IF ~last.ok THEN Invalid
          ELSE [valid |-> TRUE, tensor_info_offset |-> infos.ptr, data_offset |-> last.ptr]

\* The walk of gguf_probe, without its cache.
Probed ==
  IF size < 4 \/ Cell(0) # GGUF_MAGIC \/ Cell(1) \notin 1 .. 3
       \/ Cell(2) > MaxEntries \/ Cell(3) > MaxEntries
    THEN Invalid
  ELSE LET infos == PastMetas(At(4), Cell(3))
           last == PastTensors(infos, Cell(2))
           data == AlignUp(last.ptr)
       IN IF ~last.ok \/ data > size THEN Invalid
          ELSE [valid |-> TRUE, tensor_info_offset |-> infos.ptr, data_offset |-> data]

\* gguf_find_metadata_entry: the type and the offset of the value, or {}.
RECURSIVE FindMeta(_, _, _)
FindMeta(c, n, key) ==
  IF n = 0 \/ ~PastKey(c).ok THEN {}
  ELSE IF KeyAt(c) = key
    THEN {[type |-> Cell(PastKey(c).ptr - 1), value_offset |-> PastKey(c).ptr]}
  ELSE IF ~PastMeta(c).ok THEN {} ELSE FindMeta(PastMeta(c), n - 1, key)
gguf_find_metadata_entry(key) == FindMeta(At(4), Cell(3), key)

\* gguf_get_tensor: its place in the data section, or {}.
RECURSIVE FindTensor(_, _, _)
FindTensor(c, n, name) ==
  IF n = 0 \/ ~PastTensor(c).ok THEN {}
  ELSE IF KeyAt(c) # name THEN FindTensor(PastTensor(c), n - 1, name)
  ELSE LET dims == PastText(c).ptr
           count == FoldLeft(LAMBDA k, d : k * d, 1, SubSeq(base, dims + 2, dims + 1 + Cell(dims)))
           offset == Cell(PastTensor(c).ptr - 1)
           data_start == gguf_probe_cache.data_offset + offset
       IN IF data_start > size \/ count > size - data_start THEN {}
          ELSE {[start |-> data_start, count |-> count]}
gguf_get_tensor(name) ==
  FindTensor(At(gguf_probe_cache.tensor_info_offset), Cell(2), name)

--------------------------------------------------------------------------------

GgufInit ==
  /\ written = [meta |-> <<>>, tensors |-> <<>>]
  /\ base = <<>> /\ size = 0
  /\ gguf_probe_cache = Invalid

\* A file is loaded, whole or cut short, and the cache of the last one dropped.
load_file(w, missing) ==
  LET all == Index(w) \o [i \in 1 .. AlignUp(Len(Index(w))) - Len(Index(w)) + DataSize(w) |-> 0]
  IN /\ size = 0
     /\ missing \in 0 .. Len(all) - 1
     /\ written' = w
     /\ base' = SubSeq(all, 1, Len(all) - missing)
     /\ size' = Len(all) - missing
     /\ gguf_probe_cache' = Invalid

\* gguf_probe: a failed walk is not cached.
gguf_probe ==
  /\ size # 0 /\ ~gguf_probe_cache.valid
  /\ gguf_probe_cache' = Probed
  /\ UNCHANGED <<written, base, size>>

GgufNext ==
  \/ \E m \in Metas, t \in Tensors, missing \in 0 .. MaxMissing :
       load_file([meta |-> m, tensors |-> t], missing)
  \/ gguf_probe

GgufSpec == GgufInit /\ [][GgufNext]_ggufvars

--------------------------------------------------------------------------------

\* The four walks agree with the writer: a file is accepted just when its
\* index is all there, and then the tensor index and the data section are
\* where they were written, every key is found at its own value, and a tensor
\* at its own data unless that part of the file is missing.
LookupExact ==
  LET whole == AlignUp(Len(Index(written)))
  IN /\ size # 0 => (Probed.valid <=> size >= whole)
     /\ gguf_probe_cache.valid =>
          /\ gguf_probe_cache.tensor_info_offset = Len(Opening(written))
          /\ gguf_probe_cache.data_offset = whole
          /\ \A i \in 1 .. Len(written.meta) :
               LET m == written.meta[i]
                   before == [written EXCEPT !.meta = SubSeq(@, 1, i - 1)]
               IN gguf_find_metadata_entry(m.key)
                    = {[type |-> m.type, value_offset |-> Len(Opening(before)) + Len(m.key) + 2]}
          /\ \A i \in 1 .. Len(written.tensors) :
               LET t == written.tensors[i]
               IN gguf_get_tensor(t.name)
                    = IF whole + t.offset + Elements(t) <= size
                        THEN {[start |-> whole + t.offset, count |-> Elements(t)]} ELSE {}
================================================================================
