------------------------------- MODULE LlmProofs -------------------------------
(***************************************************************************)
(* Proofs about the model runtime for models of any size: its account of   *)
(* the heap, for any number of callers, and for one caller the rows that   *)
(* an attention reads.                                                     *)
(***************************************************************************)
EXTENDS LlmSession, FiniteSetTheorems, TLAPS

Heaps == [slot : [Slots -> Nat], live : Int]

\* Objects that no pointer of the runtime holds.
Loose(h) == h.live - Cardinality(Held(h, Slots))

\* A heap whose pointers are all for model id: no layer past the model's own, and
\* no cache without a context.
HeapFor(h, id, layers) ==
  /\ h \in Heaps
  /\ \A s \in Slots \ {Scratch} : h.slot[s] \in {0, id}
  /\ \A i \in 1 .. MaxLayers : h.slot[Layer(i)] # 0 => i <= layers
  /\ h.slot[State] = 0 => \A i \in 1 .. MaxLayers : h.slot[Kv(i)] = 0

Busy == {c \in Callers : job[c].pc # "idle"}

Texts == {"none", "tokenizer", "weights", "buffer", "row", "failed", "logits", "timed out",
          "stopped", "text", "NONE", "GGUF_PARSER", "MKRP", "UNKNOWN"}

Jobs == [pc : {"idle", "layer", "failed", "scan"}, mode : {"ask", "logits"}, n : Nat, call : Nat,
         fed : Nat, layer : Nat, generated : Nat, late : BOOLEAN, seen : BOOLEAN, reply : Texts]

SessionType ==
  /\ llm_model \in [id : Nat, backend : {"NONE", "GGUF_GEN", "GGUF_PARSER", "MKRP", "UNKNOWN"},
                    layers : 0 .. MaxLayers, width : Nat \ {0}]
  /\ llm_model.backend = "GGUF_GEN" => llm_model.layers > 0
  /\ llm_model.backend # "NONE" => llm_model.id # 0
  /\ job \in [Callers -> Jobs] /\ abort_requested \in BOOLEAN
  /\ loads \in Nat /\ calls \in Nat

SessionInv ==
  /\ SessionType
  /\ HeapFor(heap, llm_model.id, llm_model.layers)
  /\ Loose(heap) = 2 * Cardinality(Busy)
--------------------------------------------------------------------------------
(* The heap. *)

\* The pointers of the runtime.
LEMMA SlotNames ==
  /\ {Norm, State, Vocab, Scratch, Hbuf} \subseteq Slots
  /\ \A i \in 1 .. MaxLayers : Layer(i) \in Slots /\ Kv(i) \in Slots
BY DEF Slots

\* No two of them are the same.
LEMMA SlotsDiffer ==
  /\ Norm # State /\ Norm # Vocab /\ Norm # Scratch /\ Norm # Hbuf /\ State # Vocab
  /\ State # Scratch /\ State # Hbuf /\ Vocab # Scratch /\ Vocab # Hbuf /\ Scratch # Hbuf
  /\ \A i : Layer(i) \notin {Norm, State, Vocab, Scratch, Hbuf}
  /\ \A i : Kv(i) \notin {Norm, State, Vocab, Scratch, Hbuf}
  /\ \A i, j : Layer(i) # Kv(j)
  /\ \A i, j : Layer(i) = Layer(j) => i = j
BY DEF Norm, State, Vocab, Scratch, Hbuf, Layer, Kv

\* There are finitely many of them.
LEMMA SlotsFinite == IsFiniteSet(Slots)
<1> DEFINE D == 1 .. MaxLayers
<1>1. IsFiniteSet(D)
  BY LlmAssumption, FS_Interval
<1>2. IsFiniteSet({Layer(i) : i \in D})
  <2> DEFINE T == {Layer(i) : i \in D}
             f == [i \in D |-> Layer(i)]
  <2>1. f \in Surjection(D, T)
    BY DEF Surjection
  <2> QED
    BY <1>1, <2>1, FS_Surjection
<1>3. IsFiniteSet({Kv(i) : i \in D})
  <2> DEFINE T == {Kv(i) : i \in D}
             f == [i \in D |-> Kv(i)]
  <2>1. f \in Surjection(D, T)
    BY DEF Surjection
  <2> QED
    BY <1>1, <2>1, FS_Surjection
<1>4. IsFiniteSet({Norm, State, Vocab, Scratch, Hbuf})
  <2>1. IsFiniteSet({Norm} \cup {State})
    BY FS_Singleton, FS_Union
  <2>2. IsFiniteSet(({Norm} \cup {State}) \cup {Vocab})
    BY <2>1, FS_AddElement
  <2>3. IsFiniteSet((({Norm} \cup {State}) \cup {Vocab}) \cup {Scratch})
    BY <2>2, FS_AddElement
  <2>4. IsFiniteSet(((({Norm} \cup {State}) \cup {Vocab}) \cup {Scratch}) \cup {Hbuf})
    BY <2>3, FS_AddElement
  <2>5. {Norm, State, Vocab, Scratch, Hbuf}
          = ((({Norm} \cup {State}) \cup {Vocab}) \cup {Scratch}) \cup {Hbuf}
    OBVIOUS
  <2> QED
    BY <2>4, <2>5
<1> QED
  BY <1>2, <1>3, <1>4, FS_Union DEF Slots

\* So every set of them has a size.
LEMMA SlotSets ==
  ASSUME NEW S, S \subseteq Slots
  PROVE  IsFiniteSet(S) /\ Cardinality(S) \in Nat
BY SlotsFinite, FS_Subset, FS_CardinalityType

\* kmalloc into pointers that were NULL: what is live grows by what is held.
LEMMA MadeIs ==
  ASSUME NEW h \in Heaps, NEW S, S \subseteq Slots, NEW id \in Nat \ {0}, Held(h, S) = {}
  PROVE  /\ Made(h, S, id) \in Heaps /\ Loose(Made(h, S, id)) = Loose(h)
         /\ \A s \in Slots : Made(h, S, id).slot[s] = IF s \in S THEN id ELSE h.slot[s]
<1> DEFINE g == Made(h, S, id)
           A == Held(h, Slots)
<1>1. IsFiniteSet(S) /\ Cardinality(S) \in Nat /\ h.live \in Int /\ \A s \in Slots : h.slot[s] \in Nat
  BY SlotSets DEF Heaps
<1>2. g = [slot |-> [s \in Slots |-> IF s \in S THEN id ELSE h.slot[s]],
           live |-> h.live + Cardinality(S)]
  BY DEF Made
<1>3. g \in Heaps
  BY <1>1, <1>2 DEF Heaps
<1>4. Held(g, Slots) = A \cup S /\ A \cap S = {}
  BY <1>2 DEF Held
<1>5. A \subseteq Slots /\ IsFiniteSet(A) /\ Cardinality(A) \in Nat
  BY SlotSets DEF Held
<1>6. Cardinality(A \cup S) = Cardinality(A) + Cardinality(S)
  <2>1. Cardinality(A \cup S) = Cardinality(A) + Cardinality(S) - Cardinality(A \cap S)
    BY <1>1, <1>5, FS_Union
  <2>2. Cardinality(A \cap S) = 0
    BY <1>4, FS_EmptySet
  <2> QED
    BY <1>1, <1>5, <2>1, <2>2
<1>7. Loose(g) = Loose(h)
  BY <1>1, <1>2, <1>4, <1>5, <1>6 DEF Loose
<1> QED
  BY <1>2, <1>3, <1>7

\* kfree of what a set of pointers holds, each once.
LEMMA FreedIs ==
  ASSUME NEW h \in Heaps, NEW S, S \subseteq Slots
  PROVE  /\ Freed(h, S) \in Heaps /\ Loose(Freed(h, S)) = Loose(h)
         /\ \A s \in Slots : Freed(h, S).slot[s] = IF s \in S THEN 0 ELSE h.slot[s]
<1> DEFINE g == Freed(h, S)
           A == Held(h, Slots)
           B == Held(h, S)
<1>1. /\ A \subseteq Slots /\ B \subseteq Slots /\ h.live \in Int /\ \A s \in Slots : h.slot[s] \in Nat
  BY DEF Heaps, Held
<1>2. g = [slot |-> [s \in Slots |-> IF s \in S THEN 0 ELSE h.slot[s]],
           live |-> h.live - Cardinality(B)]
  BY DEF Freed
<1>3. IsFiniteSet(A) /\ Cardinality(A) \in Nat /\ Cardinality(B) \in Nat
  BY <1>1, SlotSets
<1>4. g \in Heaps
  BY <1>1, <1>2, <1>3 DEF Heaps
<1>5. Held(g, Slots) = A \ B /\ A \cap B = B
  BY <1>2 DEF Held
<1>6. Cardinality(A \ B) = Cardinality(A) - Cardinality(A \cap B)
  BY <1>3, FS_Difference
<1>7. Cardinality(Held(g, Slots)) = Cardinality(A) - Cardinality(B) /\ g.live = h.live - Cardinality(B)
  BY <1>2, <1>5, <1>6
<1>8. Loose(g) = Loose(h)
  <2> HIDE DEF A, B, g
  <2> QED
    BY <1>1, <1>3, <1>7 DEF Loose, A
<1> QED
  BY <1>2, <1>4, <1>8

\* Buffers that no pointer of the runtime holds.
LEMMA BuffersAre ==
  ASSUME NEW h \in Heaps, NEW n \in Int
  PROVE  /\ WithBuffers(h, n) \in Heaps /\ WithBuffers(h, n).slot = h.slot
         /\ Loose(WithBuffers(h, n)) = Loose(h) + n
<1> DEFINE g == WithBuffers(h, n)
<1>1. g \in Heaps /\ g.slot = h.slot /\ g.live = h.live + n /\ h.live \in Int
  BY DEF WithBuffers, Heaps
<1>2. Held(g, Slots) = Held(h, Slots) /\ Cardinality(Held(h, Slots)) \in Nat
  BY <1>1, SlotSets DEF Held
<1> QED
  BY <1>1, <1>2 DEF Loose

\* The buffers do not matter to the pointers.
LEMMA BuffersFor ==
  ASSUME NEW h, NEW id, NEW layers, HeapFor(h, id, layers), NEW n \in Int
  PROVE  HeapFor(WithBuffers(h, n), id, layers)
BY BuffersAre DEF HeapFor

--------------------------------------------------------------------------------
(* What loading a model leaves: the scratch row, and the high-memory copy. *)

\* What is left when the weights and the context of a model are released.
LEMMA Bared ==
  ASSUME NEW h, NEW id \in Nat, NEW layers \in 0 .. MaxLayers, HeapFor(h, id, layers),
         layers = llm_model.layers
  PROVE  LET g == llm_free_context(llm_release_llama_weights(h))
         IN /\ g \in Heaps /\ Loose(g) = Loose(h)
            /\ \A s \in Slots \ {Scratch, Hbuf, Vocab} : g.slot[s] = 0
            /\ g.slot[Hbuf] = h.slot[Hbuf] /\ g.slot[Vocab] = h.slot[Vocab]
<1> DEFINE S == {Norm} \cup {Layer(i) : i \in 1 .. llm_model.layers}
           T == {State} \cup {Kv(i) : i \in 1 .. MaxLayers}
           f == llm_release_llama_weights(h)
           g == llm_free_context(f)
<1>1. S \subseteq Slots /\ T \subseteq Slots
  BY SlotNames, LlmAssumption
<1>2. f = Freed(h, S) /\ g = Freed(f, T)
  BY DEF llm_release_llama_weights, llm_free_context
<1> HIDE DEF S, T, f, g
<1>3. /\ f \in Heaps /\ Loose(f) = Loose(h)
      /\ \A s \in Slots : f.slot[s] = IF s \in S THEN 0 ELSE h.slot[s]
  BY <1>1, <1>2, FreedIs DEF HeapFor
<1>4. /\ g \in Heaps /\ Loose(g) = Loose(f)
      /\ \A s \in Slots : g.slot[s] = IF s \in T THEN 0 ELSE f.slot[s]
  BY <1>1, <1>2, <1>3, FreedIs
<1>5. ASSUME NEW s \in Slots \ {Scratch, Hbuf, Vocab} PROVE g.slot[s] = 0
  <2>1. CASE s \in S \cup T
    BY <1>3, <1>4, <2>1
  <2>2. CASE s \notin S \cup T
    <3>1. PICK i \in 1 .. MaxLayers : s = Layer(i)
      BY <2>2 DEF Slots, S, T
    <3>2. i > layers
      BY <2>2, <3>1 DEF S
    <3>3. h.slot[Layer(i)] = 0
      BY <3>1, <3>2 DEF HeapFor
    <3> QED
      BY <1>3, <1>4, <2>2, <3>1, <3>3
  <2> QED
    BY <2>1, <2>2
<1>6. Hbuf \notin S \cup T /\ Vocab \notin S \cup T
  BY SlotsDiffer DEF S, T
<1> QED
  BY <1>3, <1>4, <1>5, <1>6, SlotNames DEF f, g

\* llm_load_model_module leaves a heap for the new model, with as much loose as before.
LEMMA LoadModule ==
  ASSUME SessionInv, NEW f \in Files, NEW id \in Nat \ {0}, NEW full, NEW aborted,
         llm_load_model_module(f, id, full, aborted)
  PROVE  /\ HeapFor(heap', llm_model'.id, llm_model'.layers) /\ Loose(heap') = Loose(heap)
         /\ llm_model' \in [id : Nat, backend : {"NONE", "GGUF_GEN", "GGUF_PARSER", "MKRP", "UNKNOWN"},
                            layers : 0 .. MaxLayers, width : Nat \ {0}]
         /\ llm_model'.id # 0
         /\ llm_model'.backend = "GGUF_GEN" => llm_model'.layers > 0
<1> DEFINE old == llm_free_context(llm_release_llama_weights(heap))
           bare == IF llm_model.id # 0 THEN gguf_release_high_mem_backing(old, llm_model.id) ELSE old
           backed == IF f.kind = "gguf" THEN gguf_migrate_data_to_high_mem(bare, f, id, full) ELSE bare
<1>1. /\ llm_model.id \in Nat /\ llm_model.layers \in 0 .. MaxLayers /\ llm_model.width \in Nat \ {0}
      /\ HeapFor(heap, llm_model.id, llm_model.layers) /\ f.layers \in 0 .. MaxLayers
      /\ f.width \in Nat \ {0}
  BY LlmAssumption DEF SessionInv, SessionType
<1>2. /\ heap' = Freed(backed, {Vocab})
      /\ llm_model' = [id |-> id, backend |-> Backend(f, aborted),
                       layers |-> IF f.kind = "gguf" THEN f.layers ELSE llm_model.layers,
                       width |-> IF f.kind = "gguf" THEN f.width ELSE llm_model.width]
  BY DEF llm_load_model_module
<1>3. /\ old \in Heaps /\ Loose(old) = Loose(heap)
      /\ \A s \in Slots \ {Scratch, Hbuf, Vocab} : old.slot[s] = 0
      /\ old.slot[Hbuf] = heap.slot[Hbuf]
  BY <1>1, Bared
<1>4. heap.slot[Hbuf] \in {0, llm_model.id}
  BY <1>1, SlotNames, SlotsDiffer DEF HeapFor
<1> HIDE DEF old
<1>5. /\ bare \in Heaps /\ Loose(bare) = Loose(heap)
      /\ \A s \in Slots \ {Scratch, Vocab} : bare.slot[s] = 0
  <2>1. CASE llm_model.id # 0 /\ old.slot[Hbuf] # 0
    <3>1. bare = Freed(old, {Hbuf}) /\ {Hbuf} \subseteq Slots
      BY <1>3, <1>4, <2>1, SlotNames DEF gguf_release_high_mem_backing
    <3>2. /\ bare \in Heaps /\ Loose(bare) = Loose(old)
          /\ \A s \in Slots : bare.slot[s] = IF s \in {Hbuf} THEN 0 ELSE old.slot[s]
      BY <1>3, <3>1, FreedIs
    <3> HIDE DEF bare
    <3> QED
      BY <1>3, <3>2
  <2>2. CASE ~(llm_model.id # 0 /\ old.slot[Hbuf] # 0)
    <3>1. bare = old /\ old.slot[Hbuf] = 0
      BY <1>3, <1>4, <2>2 DEF gguf_release_high_mem_backing
    <3> HIDE DEF bare
    <3> QED
      BY <1>3, <3>1
  <2> QED
    BY <2>1, <2>2
<1> HIDE DEF bare
<1>6. /\ backed \in Heaps /\ Loose(backed) = Loose(heap)
      /\ \A s \in Slots \ {Scratch, Vocab} : backed.slot[s] \in {0, id}
      /\ \A s \in Slots \ {Scratch, Vocab, Hbuf} : backed.slot[s] = 0
  <2>1. CASE backed = bare
    <3> HIDE DEF backed
    <3> QED
      BY <1>5, <2>1
  <2>2. CASE backed = Made(bare, {Hbuf}, id)
    <3>1. {Hbuf} \subseteq Slots /\ Held(bare, {Hbuf}) = {}
      BY <1>5, SlotNames, SlotsDiffer DEF Held
    <3>2. /\ backed \in Heaps /\ Loose(backed) = Loose(bare)
          /\ \A s \in Slots : backed.slot[s] = IF s \in {Hbuf} THEN id ELSE bare.slot[s]
      BY <1>5, <2>2, <3>1, MadeIs
    <3> HIDE DEF backed
    <3> QED
      BY <1>5, <3>2
  <2> QED
    BY <2>1, <2>2 DEF gguf_migrate_data_to_high_mem
<1> HIDE DEF backed
<1>7. /\ heap' \in Heaps /\ Loose(heap') = Loose(heap)
      /\ \A s \in Slots : heap'.slot[s] = IF s \in {Vocab} THEN 0 ELSE backed.slot[s]
  <2>1. {Vocab} \subseteq Slots
    BY SlotNames
  <2> QED
    BY <1>2, <1>6, <2>1, FreedIs
<1>8. /\ \A s \in Slots \ {Scratch} : heap'.slot[s] \in {0, id}
      /\ \A s \in Slots \ {Scratch, Hbuf} : heap'.slot[s] = 0
  BY <1>6, <1>7
<1>9. HeapFor(heap', id, llm_model'.layers)
  BY <1>7, <1>8, SlotNames, SlotsDiffer DEF HeapFor
<1>10. /\ Backend(f, aborted) \in {"GGUF_GEN", "GGUF_PARSER", "MKRP", "UNKNOWN"}
       /\ Backend(f, aborted) = "GGUF_GEN" => f.kind = "gguf" /\ f.layers > 0
  BY DEF Backend
<1> QED
  BY <1>1, <1>2, <1>7, <1>9, <1>10

\* llm_row_scratch_ensure: the only pointer it touches is the scratch row.
LEMMA ScratchIs ==
  ASSUME SessionType, NEW h, NEW id, NEW layers, HeapFor(h, id, layers), NEW fail
  PROVE  LET g == llm_row_scratch_ensure(h, fail)
         IN HeapFor(g, id, layers) /\ Loose(g) = Loose(h)
            /\ \A s \in Slots \ {Scratch} : g.slot[s] = h.slot[s]
<1> DEFINE g == llm_row_scratch_ensure(h, fail)
           w == llm_model.width
           e == Freed(h, {Scratch})
<1>1. w \in Nat \ {0} /\ {Scratch} \subseteq Slots /\ h \in Heaps
  BY SlotNames DEF SessionType, HeapFor
<1>2. CASE g = h
  <2> HIDE DEF g
  <2> QED
    BY <1>2 DEF g
<1>3. CASE g = Made(e, {Scratch}, w)
  <2>1. /\ e \in Heaps /\ Loose(e) = Loose(h)
        /\ \A s \in Slots : e.slot[s] = IF s \in {Scratch} THEN 0 ELSE h.slot[s]
    BY <1>1, FreedIs
  <2> HIDE DEF e
  <2> DEFINE S == {Scratch}
  <2>2. Held(e, S) = {} /\ S \subseteq Slots /\ g = Made(e, S, w)
    BY <1>1, <1>3, <2>1 DEF Held
  <2> HIDE DEF g, w, S
  <2>3. /\ g \in Heaps /\ Loose(g) = Loose(e)
        /\ \A s \in Slots : g.slot[s] = IF s \in S THEN w ELSE e.slot[s]
    BY <1>1, <2>1, <2>2, MadeIs
  <2>4. \A s \in Slots \ {Scratch} : g.slot[s] = h.slot[s]
    BY <2>1, <2>3 DEF S
  <2>5. HeapFor(g, id, layers)
    BY <2>3, <2>4, SlotNames, SlotsDiffer DEF HeapFor
  <2> QED
    BY <2>1, <2>3, <2>4, <2>5 DEF g
<1> QED
  BY <1>2, <1>3 DEF llm_row_scratch_ensure

\* The tokenizer, and the context, are made when there is none.
LEMMA VocabIs ==
  ASSUME NEW h, NEW id \in Nat \ {0}, NEW layers, HeapFor(h, id, layers), h.slot[Vocab] = 0
  PROVE  LET g == Made(h, {Vocab}, id)
         IN HeapFor(g, id, layers) /\ Loose(g) = Loose(h)
<1> DEFINE S == {Vocab}
           g == Made(h, S, id)
<1>1. S \subseteq Slots /\ h \in Heaps /\ Held(h, S) = {}
  BY SlotNames DEF HeapFor, Held
<1> HIDE DEF S
<1>2. /\ g \in Heaps /\ Loose(g) = Loose(h)
      /\ \A s \in Slots : g.slot[s] = IF s \in S THEN id ELSE h.slot[s]
  BY <1>1, MadeIs
<1> HIDE DEF g
<1>3. HeapFor(g, id, layers)
  BY <1>2, SlotNames, SlotsDiffer DEF HeapFor, S
<1> QED
  BY <1>2, <1>3 DEF g, S

\* llm_init_context, when there is none.
LEMMA ContextIs ==
  ASSUME SessionType, llm_model.id # 0, NEW h, HeapFor(h, llm_model.id, llm_model.layers),
         h.slot[State] = 0
  PROVE  LET g == llm_init_context(h)
         IN HeapFor(g, llm_model.id, llm_model.layers) /\ Loose(g) = Loose(h)
<1> DEFINE S == {State} \cup {Kv(i) : i \in 1 .. llm_model.layers}
           g == llm_init_context(h)
           id == llm_model.id
<1>1. id \in Nat \ {0} /\ llm_model.layers \in 0 .. MaxLayers /\ h \in Heaps
  BY DEF SessionType, HeapFor
<1>2. S \subseteq Slots
  BY <1>1, SlotNames, LlmAssumption
<1>3. Held(h, S) = {}
  BY <1>1, LlmAssumption DEF Held, HeapFor
<1>4. g = Made(h, S, id)
  BY DEF llm_init_context
<1>5. State \in S /\ Scratch \notin S /\ \A i : Layer(i) \notin S
  BY SlotsDiffer
<1> HIDE DEF S, g
<1>6. /\ g \in Heaps /\ Loose(g) = Loose(h)
      /\ \A s \in Slots : g.slot[s] = IF s \in S THEN id ELSE h.slot[s]
  BY <1>1, <1>2, <1>3, <1>4, MadeIs
<1>7. HeapFor(g, id, llm_model.layers)
  BY <1>1, <1>5, <1>6, SlotNames DEF HeapFor
<1> QED
  BY <1>6, <1>7 DEF g

\* The weights are released, and loaded again for the layers that could be read.
LEMMA ReleasedIs ==
  ASSUME SessionType, NEW h, HeapFor(h, llm_model.id, llm_model.layers)
  PROVE  LET g == llm_release_llama_weights(h)
         IN /\ HeapFor(g, llm_model.id, llm_model.layers) /\ Loose(g) = Loose(h)
            /\ g.slot[Norm] = 0 /\ \A i \in 1 .. llm_model.layers : g.slot[Layer(i)] = 0
<1> DEFINE S == {Norm} \cup {Layer(i) : i \in 1 .. llm_model.layers}
           g == llm_release_llama_weights(h)
<1>1. llm_model.layers \in 0 .. MaxLayers /\ h \in Heaps
  BY DEF SessionType, HeapFor
<1>2. S \subseteq Slots
  BY <1>1, SlotNames, LlmAssumption
<1>3. g = Freed(h, S)
  BY DEF llm_release_llama_weights
<1>4. Norm \in S /\ State \notin S /\ (\A i : Kv(i) \notin S) /\ \A i \in 1 .. llm_model.layers : Layer(i) \in S
  BY SlotsDiffer
<1> HIDE DEF S, g
<1>5. /\ g \in Heaps /\ Loose(g) = Loose(h)
      /\ \A s \in Slots : g.slot[s] = IF s \in S THEN 0 ELSE h.slot[s]
  BY <1>1, <1>2, <1>3, FreedIs
<1>6. HeapFor(g, llm_model.id, llm_model.layers)
  BY <1>4, <1>5, SlotNames DEF HeapFor
<1> QED
  BY <1>2, <1>4, <1>5, <1>6 DEF g

\* llm_load_llama_weights, after what an earlier attempt left was released.
LEMMA WeightsAre ==
  ASSUME SessionType, llm_model.id # 0, NEW h, HeapFor(h, llm_model.id, llm_model.layers),
         h.slot[Norm] = 0, \A i \in 1 .. llm_model.layers : h.slot[Layer(i)] = 0,
         NEW got, got \subseteq 1 .. llm_model.layers
  PROVE  LET g == llm_load_llama_weights(h, got)
         IN HeapFor(g, llm_model.id, llm_model.layers) /\ Loose(g) = Loose(h)
<1> DEFINE S == {Norm} \cup {Layer(i) : i \in got}
           g == llm_load_llama_weights(h, got)
           id == llm_model.id
<1>1. id \in Nat \ {0} /\ llm_model.layers \in 0 .. MaxLayers /\ h \in Heaps
  BY DEF SessionType, HeapFor
<1>2. S \subseteq Slots
  BY <1>1, SlotNames, LlmAssumption
<1>3. Held(h, S) = {}
  BY DEF Held
<1>4. g = Made(h, S, id)
  BY DEF llm_load_llama_weights
<1>5. State \notin S /\ Scratch \notin S /\ (\A i : Kv(i) \notin S) /\ \A i : Layer(i) \in S => i <= llm_model.layers
  BY <1>1, SlotsDiffer, LlmAssumption
<1> HIDE DEF S, g
<1>6. /\ g \in Heaps /\ Loose(g) = Loose(h)
      /\ \A s \in Slots : g.slot[s] = IF s \in S THEN id ELSE h.slot[s]
  BY <1>1, <1>2, <1>3, <1>4, MadeIs
<1>7. HeapFor(g, id, llm_model.layers)
  BY <1>1, <1>5, <1>6, SlotNames DEF HeapFor
<1> QED
  BY <1>6, <1>7 DEF g

--------------------------------------------------------------------------------
(* The steps. *)

\* The callers in a generation can be counted.
LEMMA BusyFinite == IsFiniteSet(Busy) /\ Cardinality(Busy) \in Nat
BY LlmAssumption, FS_Subset, FS_CardinalityType DEF Busy

\* A step that gives the heap as many loose objects as the callers' steps account for.
LEMMA Accounts ==
  ASSUME SessionInv, SessionType', HeapFor(heap', llm_model'.id, llm_model'.layers),
         \/ Loose(heap') = Loose(heap) /\ Busy' = Busy
         \/ Loose(heap') = Loose(heap) + 2 /\ \E c : c \notin Busy /\ Busy' = Busy \cup {c}
         \/ Loose(heap') = Loose(heap) - 2 /\ \E c : c \in Busy /\ Busy' = Busy \ {c}
  PROVE  SessionInv'
<1>1. IsFiniteSet(Busy) /\ Cardinality(Busy) \in Nat /\ Loose(heap) = 2 * Cardinality(Busy)
  BY BusyFinite DEF SessionInv
<1>2. Loose(heap') = 2 * Cardinality(Busy')
  <2>1. CASE Loose(heap') = Loose(heap) /\ Busy' = Busy
    BY <1>1, <2>1
  <2>2. ASSUME Loose(heap') = Loose(heap) + 2, NEW c, c \notin Busy, Busy' = Busy \cup {c}
        PROVE  Loose(heap') = 2 * Cardinality(Busy')
    <3>1. Cardinality(Busy \cup {c}) = Cardinality(Busy) + 1
      BY <1>1, <2>2, FS_AddElement
    <3> QED
      BY <1>1, <2>2, <3>1
  <2>3. ASSUME Loose(heap') = Loose(heap) - 2, NEW c, c \in Busy, Busy' = Busy \ {c}
        PROVE  Loose(heap') = 2 * Cardinality(Busy')
    <3>1. Cardinality(Busy \ {c}) = Cardinality(Busy) - 1
      BY <1>1, <2>3, FS_RemoveElement
    <3> QED
      BY <1>1, <2>3, <3>1
  <2> QED
    BY <2>1, <2>2, <2>3
<1>3. Loose(heap)' = 2 * Cardinality(Busy)'
  BY <1>2 DEF Loose
<1> QED
  BY <1>3 DEF SessionInv

\* What the updates of a job leave of it.
LEMMA JobFields ==
  ASSUME NEW j \in Jobs, NEW text \in Texts
  PROVE  /\ LET k == [j EXCEPT !.layer = @ + 1]
            IN k \in Jobs /\ k.pc = j.pc /\ k.call = j.call /\ k.fed = j.fed /\ k.layer = j.layer + 1
         /\ LET k == [[j EXCEPT !.fed = @ + 1] EXCEPT !.layer = 1]
            IN k \in Jobs /\ k.pc = j.pc /\ k.call = j.call /\ k.fed = j.fed + 1 /\ k.layer = 1
         /\ LET k == [[j EXCEPT !.pc = "scan"] EXCEPT !.layer = 1]
            IN k \in Jobs /\ k.pc = "scan" /\ k.call = j.call /\ k.fed = j.fed /\ k.layer = 1
         /\ LET k == [[[[j EXCEPT !.pc = "layer"] EXCEPT !.fed = @ + 1] EXCEPT !.n = @ + 1] EXCEPT !.generated = @ + 1]
            IN k \in Jobs /\ k.pc = "layer" /\ k.call = j.call /\ k.fed = j.fed + 1 /\ k.layer = j.layer
         /\ LET k == [j EXCEPT !.late = TRUE]
            IN k \in Jobs /\ k.pc = j.pc /\ k.call = j.call /\ k.fed = j.fed /\ k.layer = j.layer
         /\ LET k == [Quiet0 EXCEPT !.reply = text]
            IN k \in Jobs /\ k.pc = "idle"
<1> DEFINE k1 == [j EXCEPT !.layer = @ + 1]
           k2 == [[j EXCEPT !.fed = @ + 1] EXCEPT !.layer = 1]
           k3 == [[j EXCEPT !.pc = "scan"] EXCEPT !.layer = 1]
           k5 == [[[[j EXCEPT !.pc = "layer"] EXCEPT !.fed = @ + 1] EXCEPT !.n = @ + 1] EXCEPT !.generated = @ + 1]
           k6 == [j EXCEPT !.late = TRUE]
           k7 == [Quiet0 EXCEPT !.reply = text]
<1>1. k1 \in Jobs /\ k1.pc = j.pc /\ k1.call = j.call /\ k1.fed = j.fed /\ k1.layer = j.layer + 1
  BY DEF Jobs
<1>2. k2 \in Jobs /\ k2.pc = j.pc /\ k2.call = j.call /\ k2.fed = j.fed + 1 /\ k2.layer = 1
  <2> DEFINE a == [j EXCEPT !.fed = @ + 1]
  <2>1. a \in Jobs /\ a.pc = j.pc /\ a.call = j.call /\ a.fed = j.fed + 1
    BY DEF Jobs
  <2> HIDE DEF a
  <2>2. LET b == [a EXCEPT !.layer = 1]
        IN b \in Jobs /\ b.pc = a.pc /\ b.call = a.call /\ b.fed = a.fed /\ b.layer = 1
    BY <2>1 DEF Jobs
  <2> QED
    BY <2>1, <2>2 DEF a
<1>3. k3 \in Jobs /\ k3.pc = "scan" /\ k3.call = j.call /\ k3.fed = j.fed /\ k3.layer = 1
  BY DEF Jobs
<1>5. k5 \in Jobs /\ k5.pc = "layer" /\ k5.call = j.call /\ k5.fed = j.fed + 1 /\ k5.layer = j.layer
  <2> DEFINE a == [j EXCEPT !.pc = "layer"]
             b == [a EXCEPT !.fed = @ + 1]
             d == [b EXCEPT !.n = @ + 1]
  <2>1. a \in Jobs /\ a.pc = "layer" /\ a.call = j.call /\ a.fed = j.fed /\ a.layer = j.layer
    BY DEF Jobs
  <2> HIDE DEF a
  <2>2. b \in Jobs /\ b.pc = a.pc /\ b.call = a.call /\ b.fed = a.fed + 1 /\ b.layer = a.layer
    BY <2>1 DEF Jobs
  <2> HIDE DEF b
  <2>3. d \in Jobs /\ d.pc = b.pc /\ d.call = b.call /\ d.fed = b.fed /\ d.layer = b.layer
    BY <2>2 DEF Jobs
  <2> HIDE DEF d
  <2>4. LET e == [d EXCEPT !.generated = @ + 1]
        IN e \in Jobs /\ e.pc = d.pc /\ e.call = d.call /\ e.fed = d.fed /\ e.layer = d.layer
    BY <2>3 DEF Jobs
  <2> QED
    BY <2>1, <2>2, <2>3, <2>4 DEF a, b, d
<1>6. k6 \in Jobs /\ k6.pc = j.pc /\ k6.call = j.call /\ k6.fed = j.fed /\ k6.layer = j.layer
  BY DEF Jobs
<1>7. Quiet0 \in Jobs /\ Quiet0.pc = "idle"
  BY DEF Jobs, Quiet0, Texts
<1>8. k7 \in Jobs /\ k7.pc = "idle"
  BY <1>7 DEF Jobs
<1> QED
  BY <1>1, <1>2, <1>3, <1>5, <1>6, <1>8

\* A job whose forward pass was cancelled.
LEMMA JobFails ==
  ASSUME NEW j \in Jobs, NEW seen \in BOOLEAN
  PROVE  LET k == [[j EXCEPT !.pc = "failed"] EXCEPT !.seen = seen]
         IN k \in Jobs /\ k.pc = "failed"
BY DEF Jobs

\* The job of a generation that begins.
LEMMA BegunIs ==
  ASSUME NEW mode \in {"ask", "logits"}, NEW n \in Nat, calls \in Nat
  PROVE  LET j == Begun(mode, n)
         IN /\ j \in Jobs /\ j.pc = "layer" /\ j.call = calls + 1 /\ j.fed = 0 /\ j.layer = 1
<1> DEFINE a == [Quiet0 EXCEPT !.pc = "layer"]
           b == [a EXCEPT !.mode = mode]
           d == [b EXCEPT !.n = n]
<1>1. a \in Jobs /\ a.pc = "layer" /\ a.fed = 0 /\ a.layer = 1
  <2>1. Quiet0 \in Jobs /\ Quiet0.fed = 0 /\ Quiet0.layer = 1
    BY DEF Jobs, Quiet0, Texts
  <2> QED
    BY <2>1 DEF Jobs
<1> HIDE DEF a
<1>2. b \in Jobs /\ b.pc = "layer" /\ b.fed = 0 /\ b.layer = 1
  BY <1>1 DEF Jobs
<1> HIDE DEF b
<1>3. d \in Jobs /\ d.pc = "layer" /\ d.fed = 0 /\ d.layer = 1
  BY <1>2 DEF Jobs
<1> HIDE DEF d
<1>4. LET e == [d EXCEPT !.call = calls + 1]
      IN e \in Jobs /\ e.pc = "layer" /\ e.fed = 0 /\ e.layer = 1 /\ e.call = calls + 1
  BY <1>3 DEF Jobs
<1> QED
  BY <1>4 DEF Begun, a, b, d

\* A job that changes, and stays under way, begins or ends.
LEMMA JobStays ==
  ASSUME SessionType, NEW c \in Callers, NEW j \in Jobs, j.pc # "idle", job[c].pc # "idle",
         job' = [job EXCEPT ![c] = j]
  PROVE  job' \in [Callers -> Jobs] /\ Busy' = Busy
BY DEF SessionType, Busy

\* A caller that gets its answer is idle.
LEMMA JobAnswers ==
  ASSUME SessionType, NEW c \in Callers, NEW text \in Texts, Answer(c, text)
  PROVE  /\ job' \in [Callers -> Jobs] /\ Busy' = Busy \ {c}
         /\ job[c].pc = "idle" => Busy' = Busy
<1> DEFINE k == [Quiet0 EXCEPT !.reply = text]
<1>1. \A j \in Jobs : k \in Jobs /\ k.pc = "idle"
  BY JobFields
<1>2. job \in [Callers -> Jobs] /\ k \in Jobs /\ k.pc = "idle" /\ job' = [job EXCEPT ![c] = k]
  BY <1>1 DEF SessionType, Answer
<1> HIDE DEF k
<1> QED
  BY <1>2 DEF Busy

\* A step of a call: it leaves the model alone.
Calling ==
  /\ UNCHANGED llm_model
  /\ abort_requested' \in BOOLEAN /\ loads' \in Nat /\ calls' \in Nat

\* The end of a generation: its two buffers go.
LEMMA Ends ==
  ASSUME SessionInv, NEW c \in Callers, job[c].pc # "idle", NEW h, NEW text \in Texts, Ended(c, h, text),
         HeapFor(h, llm_model.id, llm_model.layers), Loose(h) = Loose(heap),
         Calling
  PROVE  SessionInv'
<1>1. heap' = WithBuffers(h, -2) /\ Answer(c, text) /\ SessionType /\ h \in Heaps
  BY DEF Ended, SessionInv, HeapFor
<1>2. job' \in [Callers -> Jobs] /\ Busy' = Busy \ {c} /\ c \in Busy
  BY <1>1, JobAnswers DEF Busy
<1>3. -2 \in Int /\ Loose(h) \in Int
  <2>1. Cardinality(Busy) \in Nat /\ Loose(heap) = 2 * Cardinality(Busy)
    BY BusyFinite DEF SessionInv
  <2> QED
    BY <2>1
<1>4. Loose(heap') = Loose(heap) - 2 /\ HeapFor(heap', llm_model'.id, llm_model'.layers)
  BY <1>1, <1>3, BuffersAre, BuffersFor DEF Calling
<1>5. SessionType'
  BY <1>1, <1>2 DEF SessionType, Calling
<1> QED
  BY <1>2, <1>4, <1>5, Accounts

\* A step inside a generation.
LEMMA Continues ==
  ASSUME SessionInv, NEW c \in Callers, job[c].pc # "idle", NEW j \in Jobs, j.pc # "idle",
         job' = [job EXCEPT ![c] = j],
         HeapFor(heap', llm_model.id, llm_model.layers), Loose(heap') = Loose(heap),
         Calling
  PROVE  SessionInv'
<1>1. job' \in [Callers -> Jobs] /\ Busy' = Busy
  BY JobStays DEF SessionInv
<1>2. SessionType'
  BY <1>1 DEF SessionInv, SessionType, Calling
<1> QED
  BY <1>1, <1>2, Accounts DEF Calling

\* A call that answers at once.
LEMMA AnswersAtOnce ==
  ASSUME SessionInv, NEW c \in Callers, job[c].pc = "idle", NEW text \in Texts, Answer(c, text),
         HeapFor(heap', llm_model.id, llm_model.layers), Loose(heap') = Loose(heap),
         Calling
  PROVE  SessionInv'
<1>1. job' \in [Callers -> Jobs] /\ Busy' = Busy
  BY JobAnswers DEF SessionInv
<1>2. SessionType'
  BY <1>1 DEF SessionInv, SessionType, Calling
<1> QED
  BY <1>1, <1>2, Accounts DEF Calling

\* llm_load_model_file: nothing of the old model survives.
LEMMA LoadFile ==
  ASSUME SessionInv, NEW c \in Callers, NEW f \in Files, llm_load_model_file(c, f)
  PROVE  SessionInv'
<1>1. loads \in Nat /\ UNCHANGED job
  BY DEF llm_load_model_file, SessionInv, SessionType
<1>a. abort_requested' \in BOOLEAN
  BY Zenon DEF llm_load_model_file
<1>b. loads' \in Nat /\ calls' \in Nat /\ job' \in [Callers -> Jobs]
  BY DEF llm_load_model_file, SessionInv, SessionType
<1>2. Busy' = Busy
  BY <1>1 DEF Busy
<1>3. CASE UNCHANGED <<llm_model, heap>>
  <2>1. SessionType'
    BY <1>a, <1>b, <1>3 DEF SessionInv, SessionType
  <2> QED
    BY <1>2, <1>3, <2>1, Accounts DEF SessionInv
<1>4. ASSUME NEW full, llm_load_model_module(f, loads + 1, full, FALSE)
      PROVE  SessionInv'
  <2>1. loads + 1 \in Nat \ {0}
    BY <1>1
  <2>2. /\ HeapFor(heap', llm_model'.id, llm_model'.layers) /\ Loose(heap') = Loose(heap)
        /\ llm_model' \in [id : Nat, backend : {"NONE", "GGUF_GEN", "GGUF_PARSER", "MKRP", "UNKNOWN"},
                           layers : 0 .. MaxLayers, width : Nat \ {0}]
        /\ llm_model'.id # 0
        /\ llm_model'.backend = "GGUF_GEN" => llm_model'.layers > 0
    BY <1>4, <2>1, LoadModule
  <2>3. SessionType'
    BY <1>a, <1>b, <2>1, <2>2 DEF SessionType
  <2> QED
    BY <1>2, <2>2, <2>3, Accounts
<1> QED
  BY <1>3, <1>4 DEF llm_load_model_file

\* llm_try_gguf_inference up to its first window, with every early return.
LEMMA BeginGeneration ==
  ASSUME SessionInv, NEW c \in Callers, NEW mode \in {"ask", "logits"}, NEW n \in Nat, begin_generation(c, mode, n)
  PROVE  SessionInv'
<1> DEFINE id == llm_model.id
           layers == llm_model.layers
           h1 == IF heap.slot[Vocab] = 0 THEN Made(heap, {Vocab}, llm_model.id) ELSE heap
           h2 == IF h1.slot[State] = 0 THEN llm_init_context(h1) ELSE h1
           h3 == IF llm_weights_loaded THEN h2 ELSE llm_release_llama_weights(h2)
           h4(got) == IF llm_weights_loaded THEN h3 ELSE llm_load_llama_weights(h3, got)
           Fits(h) == HeapFor(h, id, layers) /\ Loose(h) = Loose(heap)
<1>1. /\ SessionType /\ job[c].pc = "idle" /\ id \in Nat \ {0} /\ llm_model.id # 0
      /\ UNCHANGED llm_model /\ HeapFor(heap, id, layers)
  BY DEF SessionInv, SessionType, begin_generation
<1>c. Calling
  <2>1. abort_requested \in BOOLEAN
    BY DEF SessionInv, SessionType
  <2>2. abort_requested' \in BOOLEAN
    BY <2>1, Zenon DEF begin_generation
  <2>3. loads' \in Nat /\ calls' \in Nat
    <3>1. loads \in Nat /\ calls \in Nat
      BY DEF SessionInv, SessionType
    <3>2. loads' = loads /\ calls' = calls + 1
      BY Zenon DEF begin_generation
    <3> QED
      BY <3>1, <3>2
  <2> QED
    BY <1>1, <2>2, <2>3 DEF Calling
<1>2. Fits(heap)
  BY <1>1
<1>3. Fits(h1)
  BY <1>1, VocabIs
<1> HIDE DEF h1
<1>4. Fits(h2)
  BY <1>1, <1>3, ContextIs
<1> HIDE DEF h2
<1>5. Fits(h3) /\ (~llm_weights_loaded => /\ h3.slot[Norm] = 0
                                          /\ \A i \in 1 .. llm_model.layers : h3.slot[Layer(i)] = 0)
  BY <1>1, <1>4, ReleasedIs
<1> HIDE DEF h3
<1>6. \A got \in SUBSET (1 .. llm_model.layers) : Fits(h4(got))
  BY <1>1, <1>5, WeightsAre
<1>7. ASSUME NEW h, Fits(h), heap' = h, NEW text \in Texts, Answer(c, text) PROVE SessionInv'
  BY <1>1, <1>c, <1>7, AnswersAtOnce
<1>8. ASSUME NEW h, Fits(h), heap' = WithBuffers(h, 2), NEW j \in Jobs, j.pc = "layer",
             job' = [job EXCEPT ![c] = j]
      PROVE  SessionInv'
  <2>1. job' \in [Callers -> Jobs] /\ Busy' = Busy \cup {c} /\ c \notin Busy
    BY <1>1, <1>8 DEF SessionType, Busy
  <2>2. 2 \in Int /\ h \in Heaps
    <3>1. HeapFor(h, id, layers)
      BY <1>8
    <3> HIDE DEF id, layers
    <3> QED BY <3>1 DEF HeapFor
  <2>3. Loose(heap') = Loose(heap) + 2 /\ HeapFor(heap', llm_model'.id, llm_model'.layers)
    BY <1>1, <1>8, <2>2, BuffersAre, BuffersFor
  <2>4. SessionType'
    BY <1>1, <1>c, <2>1 DEF SessionType, Calling
  <2> QED
    BY <2>1, <2>3, <2>4, Accounts
<1>9. Begun(mode, n) \in Jobs /\ Begun(mode, n).pc = "layer"
  BY BegunIs DEF SessionInv, SessionType
<1>t. {"tokenizer", "none", "weights", "buffer", "row"} \subseteq Texts
  BY DEF Texts
<1>10. PICK got \in SUBSET (1 .. llm_model.layers) :
         \/ heap' = heap /\ Answer(c, "tokenizer")
         \/ heap' = h1 /\ Answer(c, "none")
         \/ heap' = h3 /\ Answer(c, "weights")
         \/ heap' = h4(got) /\ (Answer(c, "buffer") \/ Answer(c, "row"))
         \/ heap' = WithBuffers(h4(got), 2) /\ job' = [job EXCEPT ![c] = Begun(mode, n)]
  BY Zenon DEF begin_generation, Fails, h1, h2, h3, h4
<1> HIDE DEF Fits, h4
<1> QED
  BY <1>2, <1>3, <1>4, <1>5, <1>6, <1>7, <1>8, <1>9, <1>10, <1>t

\* llm_inference on a model that generates nothing.
LEMMA OtherBackends ==
  ASSUME SessionInv, NEW c \in Callers, llm_inference(c)
  PROVE  SessionInv'
<1>1. /\ SessionType /\ job[c].pc = "idle" /\ UNCHANGED llm_model
      /\ HeapFor(heap, llm_model.id, llm_model.layers)
  BY DEF SessionInv, llm_inference
<1>2. Calling
  <2>1. abort_requested' \in BOOLEAN
    BY <1>1 DEF SessionType, llm_inference
  <2>2. loads' \in Nat /\ calls' \in Nat
    BY <1>1 DEF SessionType, llm_inference
  <2> QED
    BY <1>1, <2>1, <2>2 DEF Calling
<1>3. llm_model.backend \in Texts /\ Answer(c, llm_model.backend)
  BY <1>1 DEF SessionType, llm_inference, Texts
<1>4. HeapFor(heap', llm_model.id, llm_model.layers) /\ Loose(heap') = Loose(heap)
  <2>1. CASE heap' = heap
    BY <1>1, <2>1
  <2>2. CASE /\ llm_model.backend = "GGUF_PARSER" /\ heap.slot[Vocab] = 0
             /\ heap' = Made(heap, {Vocab}, llm_model.id)
    <3>1. llm_model.id \in Nat \ {0}
      BY <1>1, <2>2 DEF SessionType
    <3> QED
      BY <1>1, <2>2, <3>1, VocabIs
  <2> QED
    BY <2>1, <2>2 DEF llm_inference
<1> QED
  BY <1>1, <1>2, <1>3, <1>4, AnswersAtOnce

\* The updates of a job while a generation is under way.
NextLayer(c) == job' = [job EXCEPT ![c].layer = @ + 1]
NextToken(c) == job' = [job EXCEPT ![c].fed = @ + 1, ![c].layer = 1]
ToScan(c) == job' = [job EXCEPT ![c].pc = "scan", ![c].layer = 1]
ToFailed(c) == job' = [job EXCEPT ![c].pc = "failed", ![c].seen = Seen(c)]
FedBack(c) ==
  job' = [job EXCEPT ![c].pc = "layer", ![c].fed = @ + 1, ![c].n = @ + 1, ![c].generated = @ + 1]
Late(c) == job' = [job EXCEPT ![c].late = TRUE]
Moved(c) == NextLayer(c) \/ NextToken(c) \/ ToScan(c) \/ ToFailed(c) \/ FedBack(c) \/ Late(c)

\* The job of c becomes the record its next state says, and no other job changes.
Becomes(c) == job'[c] \in Jobs /\ job' = [job EXCEPT ![c] = job'[c]]

\* What each of them makes of the job.
LEMMA Moves ==
  ASSUME SessionType, NEW c \in Callers
  PROVE  LET j == job[c]
             k == job'[c]
         IN /\ NextLayer(c) =>
                 Becomes(c) /\ k.pc = j.pc /\ k.call = j.call /\ k.fed = j.fed /\ k.layer = j.layer + 1
            /\ NextToken(c) =>
                 Becomes(c) /\ k.pc = j.pc /\ k.call = j.call /\ k.fed = j.fed + 1 /\ k.layer = 1
            /\ ToScan(c) =>
                 Becomes(c) /\ k.pc = "scan" /\ k.call = j.call /\ k.fed = j.fed /\ k.layer = 1
            /\ ToFailed(c) => Becomes(c) /\ k.pc = "failed"
            /\ FedBack(c) =>
                 Becomes(c) /\ k.pc = "layer" /\ k.call = j.call /\ k.fed = j.fed + 1 /\ k.layer = j.layer
            /\ Late(c) =>
                 Becomes(c) /\ k.pc = j.pc /\ k.call = j.call /\ k.fed = j.fed /\ k.layer = j.layer
<1> DEFINE j == job[c]
           k1 == [j EXCEPT !.layer = @ + 1]
           k2 == [[j EXCEPT !.fed = @ + 1] EXCEPT !.layer = 1]
           k3 == [[j EXCEPT !.pc = "scan"] EXCEPT !.layer = 1]
           k4 == [[j EXCEPT !.pc = "failed"] EXCEPT !.seen = Seen(c)]
           k5 == [[[[j EXCEPT !.pc = "layer"] EXCEPT !.fed = @ + 1] EXCEPT !.n = @ + 1] EXCEPT !.generated = @ + 1]
           k6 == [j EXCEPT !.late = TRUE]
<1>1. job \in [Callers -> Jobs] /\ j \in Jobs /\ "none" \in Texts
  BY DEF SessionType, Texts
<1>2. Seen(c) \in BOOLEAN
  <2>1. job[c].seen \in BOOLEAN
    BY <1>1 DEF Jobs
  <2> QED
    BY <2>1 DEF Seen
<1>3. /\ k1 \in Jobs /\ k1.pc = j.pc /\ k1.call = j.call /\ k1.fed = j.fed /\ k1.layer = j.layer + 1
      /\ k2 \in Jobs /\ k2.pc = j.pc /\ k2.call = j.call /\ k2.fed = j.fed + 1 /\ k2.layer = 1
      /\ k3 \in Jobs /\ k3.pc = "scan" /\ k3.call = j.call /\ k3.fed = j.fed /\ k3.layer = 1
      /\ k4 \in Jobs /\ k4.pc = "failed"
      /\ k5 \in Jobs /\ k5.pc = "layer" /\ k5.call = j.call /\ k5.fed = j.fed + 1 /\ k5.layer = j.layer
      /\ k6 \in Jobs /\ k6.pc = j.pc /\ k6.call = j.call /\ k6.fed = j.fed /\ k6.layer = j.layer
  <2>1. k1 \in Jobs /\ k1.pc = j.pc /\ k1.call = j.call /\ k1.fed = j.fed /\ k1.layer = j.layer + 1
    BY <1>1, <1>2, JobFields
  <2>2. k2 \in Jobs /\ k2.pc = j.pc /\ k2.call = j.call /\ k2.fed = j.fed + 1 /\ k2.layer = 1
    BY <1>1, <1>2, JobFields
  <2>3. k3 \in Jobs /\ k3.pc = "scan" /\ k3.call = j.call /\ k3.fed = j.fed /\ k3.layer = 1
    BY <1>1, <1>2, JobFields
  <2>4. k4 \in Jobs /\ k4.pc = "failed"
    BY <1>1, <1>2, JobFails, Zenon
  <2>5. k5 \in Jobs /\ k5.pc = "layer" /\ k5.call = j.call /\ k5.fed = j.fed + 1 /\ k5.layer = j.layer
    BY <1>1, <1>2, JobFields
  <2>6. k6 \in Jobs /\ k6.pc = j.pc /\ k6.call = j.call /\ k6.fed = j.fed /\ k6.layer = j.layer
    BY <1>1, <1>2, JobFields
  <2> QED
    BY <2>1, <2>2, <2>3, <2>4, <2>5, <2>6
<1>4. /\ NextLayer(c) => job' = [job EXCEPT ![c] = k1]
      /\ NextToken(c) => job' = [job EXCEPT ![c] = k2]
      /\ ToScan(c) => job' = [job EXCEPT ![c] = k3]
      /\ ToFailed(c) => job' = [job EXCEPT ![c] = k4]
      /\ FedBack(c) => job' = [job EXCEPT ![c] = k5]
      /\ Late(c) => job' = [job EXCEPT ![c] = k6]
  <2>1. [job EXCEPT ![c].layer = @ + 1] = [job EXCEPT ![c] = k1]
    BY <1>1
  <2>2. [job EXCEPT ![c].fed = @ + 1, ![c].layer = 1] = [job EXCEPT ![c] = k2]
    BY <1>1
  <2>3. [job EXCEPT ![c].pc = "scan", ![c].layer = 1] = [job EXCEPT ![c] = k3]
    BY <1>1
  <2>4. [job EXCEPT ![c].pc = "failed", ![c].seen = Seen(c)] = [job EXCEPT ![c] = k4]
    BY <1>1
  <2>5. [job EXCEPT ![c].pc = "layer", ![c].fed = @ + 1, ![c].n = @ + 1, ![c].generated = @ + 1]
          = [job EXCEPT ![c] = k5]
    BY <1>1
  <2>6. [job EXCEPT ![c].late = TRUE] = [job EXCEPT ![c] = k6]
    BY <1>1
  <2> QED
    BY <2>1, <2>2, <2>3, <2>4, <2>5, <2>6 DEF NextLayer, NextToken, ToScan, ToFailed, FedBack, Late
<1> HIDE DEF k1, k2, k3, k4, k5, k6
<1>5. \A k : job' = [job EXCEPT ![c] = k] /\ k \in Jobs => Becomes(c) /\ job'[c] = k
  BY <1>1 DEF Becomes
<1> QED
  BY <1>3, <1>4, <1>5

\* A step inside a generation, by what it makes of the job.
LEMMA Goes ==
  ASSUME SessionInv, NEW c \in Callers, job[c].pc # "idle", Moved(c), Calling,
         HeapFor(heap', llm_model.id, llm_model.layers), Loose(heap') = Loose(heap)
  PROVE  SessionInv'
<1> DEFINE k == job'[c]
<1>0. SessionType
  BY DEF SessionInv
<1>1. k \in Jobs /\ k.pc # "idle" /\ job' = [job EXCEPT ![c] = k]
  <2>1. Becomes(c) /\ k.pc \in {job[c].pc, "scan", "failed", "layer"}
    BY <1>0, Moves DEF Moved
  <2> QED
    BY <2>1 DEF Becomes
<1> QED
  BY <1>1, Continues

\* What the heap is after the row scratch was made for this model, or not.
LEMMA Scratched ==
  ASSUME SessionInv, NEW fail
  PROVE  LET g == llm_row_scratch_ensure(heap, fail)
         IN HeapFor(g, llm_model.id, llm_model.layers) /\ Loose(g) = Loose(heap)
BY ScratchIs DEF SessionInv

\* One layer of run_llama_forward_pass, and what follows the last one.
LEMMA ForwardPass ==
  ASSUME SessionInv, NEW c \in Callers, run_llama_forward_pass(c)
  PROVE  SessionInv'
<1> DEFINE Fits(h) == HeapFor(h, llm_model.id, llm_model.layers) /\ Loose(h) = Loose(heap)
<1>1. job[c].pc # "idle" /\ SessionType /\ Fits(heap)
  BY DEF SessionInv, run_llama_forward_pass
<1>2. Calling
  <2>1. abort_requested' \in BOOLEAN
    BY Zenon DEF run_llama_forward_pass
  <2> QED
    BY <1>1, <2>1 DEF SessionType, run_llama_forward_pass, Calling
<1>3. ASSUME NEW h, Fits(h), NEW text \in Texts, Ended(c, h, text) PROVE SessionInv'
  BY <1>1, <1>2, <1>3, Ends
<1>4. ASSUME NEW h, Fits(h), heap' = h, Moved(c) PROVE SessionInv'
  BY <1>1, <1>2, <1>4, Goes
<1>5. \A fail, h : Fits(h) => Fits(llm_row_scratch_ensure(h, fail))
  BY <1>1, ScratchIs
<1>6. "failed" \in Texts /\ "logits" \in Texts
  BY DEF Texts
<1> HIDE DEF Fits
<1>7. ASSUME NEW h, Fits(h), AfterPass(c, h) PROVE SessionInv'
  <2>1. CASE heap' = h /\ Moved(c)
    BY <1>4, <1>7, <2>1
  <2>2. ASSUME NEW poor, Ended(c, llm_row_scratch_ensure(h, poor), "logits") PROVE SessionInv'
    BY <1>3, <1>5, <1>6, <1>7, <2>2
  <2> QED
    BY <1>7, <2>1, <2>2, Zenon DEF AfterPass, Moved, NextToken, ToScan
<1>8. CASE Ended(c, heap, "failed")
  BY <1>1, <1>3, <1>6, <1>8
<1>9. CASE job' = [job EXCEPT ![c].pc = "failed", ![c].seen = Seen(c)] /\ UNCHANGED heap
  BY <1>1, <1>4, <1>9 DEF Moved, ToFailed
<1>10. ASSUME NEW poor, NEW h, h = IF Present(c) THEN llm_row_scratch_ensure(heap, poor) ELSE heap,
              \/ job' = [job EXCEPT ![c].layer = @ + 1] /\ heap' = h
              \/ AfterPass(c, h)
       PROVE  SessionInv'
  <2>1. Fits(h)
    BY <1>1, <1>5, <1>10
  <2> QED
    BY <1>4, <1>7, <1>10, <2>1 DEF Moved, NextLayer
<1> QED
  BY <1>8, <1>9, <1>10, Zenon DEF run_llama_forward_pass

\* The answer after a cancelled pass.
LEMMA PassFailed ==
  ASSUME SessionInv, NEW c \in Callers, pass_failed(c)
  PROVE  SessionInv'
<1>1. /\ job[c].pc # "idle" /\ SessionType /\ HeapFor(heap, llm_model.id, llm_model.layers)
  BY DEF SessionInv, pass_failed
<1>2. Calling
  <2>1. abort_requested' \in BOOLEAN
    BY Zenon DEF pass_failed
  <2> QED
    BY <1>1, <2>1 DEF SessionType, pass_failed, Calling
<1>3. PICK text \in Texts : Ended(c, heap, text)
  BY DEF pass_failed, llm_generation_cancel_response, Texts
<1> QED
  BY <1>1, <1>2, <1>3, Ends

\* The scan of the vocabulary.
LEMMA ScanVocabulary ==
  ASSUME SessionInv, NEW c \in Callers, scan_vocabulary(c)
  PROVE  SessionInv'
<1> DEFINE Fits(h) == HeapFor(h, llm_model.id, llm_model.layers) /\ Loose(h) = Loose(heap)
<1>1. job[c].pc # "idle" /\ SessionType /\ Fits(heap)
  BY DEF SessionInv, scan_vocabulary
<1>2. Calling
  <2>1. abort_requested' \in BOOLEAN
    BY Zenon DEF scan_vocabulary
  <2> QED
    BY <1>1, <2>1 DEF SessionType, scan_vocabulary, Calling
<1>3. ASSUME NEW h, Fits(h), NEW text \in Texts, Ended(c, h, text) PROVE SessionInv'
  BY <1>1, <1>2, <1>3, Ends
<1>4. ASSUME NEW h, Fits(h), heap' = h, Moved(c) PROVE SessionInv'
  BY <1>1, <1>2, <1>4, Goes
<1>5. \A fail : Fits(llm_row_scratch_ensure(heap, fail))
  BY <1>1, ScratchIs
<1>6. "row" \in Texts /\ "text" \in Texts /\ llm_generation_cancel_response(c) \in Texts
  BY DEF Texts, llm_generation_cancel_response
<1> HIDE DEF Fits
<1>7. CASE Ended(c, heap, llm_generation_cancel_response(c))
  BY <1>1, <1>3, <1>6, <1>7
<1>8. ASSUME NEW poor, NEW h, h = llm_row_scratch_ensure(heap, poor),
             \/ Ended(c, h, "row") \/ Ended(c, h, "text")
             \/ /\ heap' = h
                /\ job' = [job EXCEPT ![c].pc = "layer", ![c].fed = @ + 1, ![c].n = @ + 1,
                                      ![c].generated = @ + 1]
      PROVE  SessionInv'
  BY <1>3, <1>4, <1>5, <1>6, <1>8 DEF Moved, FedBack
<1> QED
  BY <1>7, <1>8, Zenon DEF scan_vocabulary

\* The time limit.
LEMMA TimedOut ==
  ASSUME SessionInv, NEW c \in Callers, llm_generation_timed_out(c)
  PROVE  SessionInv'
<1>1. job[c].pc # "idle" /\ Moved(c)
  BY DEF llm_generation_timed_out, Moved, Late
<1>2. Calling
  <2>1. abort_requested' \in BOOLEAN
    BY DEF SessionInv, SessionType, llm_generation_timed_out
  <2> QED
    BY <2>1 DEF SessionInv, SessionType, llm_generation_timed_out, Calling
<1>3. HeapFor(heap', llm_model.id, llm_model.layers) /\ Loose(heap') = Loose(heap)
  BY DEF SessionInv, llm_generation_timed_out
<1> QED
  BY <1>1, <1>2, <1>3, Goes

\* Ctrl+C.
LEMMA KeyOrNothing ==
  ASSUME SessionInv, keyboard_handler \/ UNCHANGED llmvars
  PROVE  SessionInv'
<1>1. UNCHANGED <<llm_model, heap, job, loads, calls>>
  BY DEF keyboard_handler, llmvars
<1>2. abort_requested' \in BOOLEAN
  <2>1. CASE keyboard_handler
    BY <2>1, Zenon DEF keyboard_handler
  <2>2. CASE UNCHANGED llmvars
    BY <2>2 DEF SessionInv, SessionType, llmvars
  <2> QED
    BY <2>1, <2>2
<1>3. SessionType'
  BY <1>1, <1>2 DEF SessionInv, SessionType
<1>4. Busy' = Busy
  BY <1>1 DEF Busy
<1> QED
  BY <1>1, <1>3, <1>4, Accounts DEF SessionInv

\* Nothing is loaded and nothing allocated.
THEOREM SessionInitially == LlmInit => SessionInv
<1> SUFFICES ASSUME LlmInit PROVE SessionInv
  OBVIOUS
<1>1. SessionType
  <2>1. Quiet0 \in Jobs
    BY DEF Quiet0, Jobs, Texts
  <2>2. job \in [Callers -> Jobs]
    BY <2>1 DEF LlmInit
  <2>3. abort_requested \in BOOLEAN
    BY Zenon DEF LlmInit
  <2> QED
    BY <2>2, <2>3, LlmAssumption DEF LlmInit, SessionType
<1>2. heap \in Heaps /\ \A s \in Slots : heap.slot[s] = 0
  BY DEF LlmInit, Heaps
<1>3. HeapFor(heap, llm_model.id, llm_model.layers)
  BY <1>2, SlotNames DEF HeapFor
<1>4. Held(heap, Slots) = {} /\ heap.live = 0
  BY <1>2 DEF Held, LlmInit
<1>5. Busy = {}
  BY DEF LlmInit, Busy, Quiet0
<1>6. Loose(heap) = 0 /\ Cardinality(Busy) = 0
  BY <1>4, <1>5, FS_EmptySet DEF Loose
<1> QED
  BY <1>1, <1>3, <1>6 DEF SessionInv

\* Every step of every caller, every failed allocation and every change of model keeps
\* the account of the heap.
THEOREM SessionStep == SessionInv /\ [LlmNext]_llmvars => SessionInv'
<1> SUFFICES ASSUME SessionInv, [LlmNext]_llmvars PROVE SessionInv'
  OBVIOUS
<1>1. ASSUME NEW c \in Callers, NEW f \in Files, llm_load_model_file(c, f) PROVE SessionInv'
  BY <1>1, LoadFile
<1>2. ASSUME NEW c \in Callers, NEW n \in 0 .. MaxPrompt,
             llm_try_gguf_inference(c, n) \/ llm_dump_top_logits(c, n)
      PROVE  SessionInv'
  <2>1. n \in Nat /\ "ask" \in {"ask", "logits"} /\ "logits" \in {"ask", "logits"}
    BY <1>2, LlmAssumption
  <2> QED
    BY <1>2, <2>1, BeginGeneration DEF llm_try_gguf_inference, llm_dump_top_logits
<1>3. ASSUME NEW c \in Callers, llm_inference(c) PROVE SessionInv'
  BY <1>3, OtherBackends
<1>4. ASSUME NEW c \in Callers, run_llama_forward_pass(c) PROVE SessionInv'
  BY <1>4, ForwardPass
<1>5. ASSUME NEW c \in Callers, pass_failed(c) PROVE SessionInv'
  BY <1>5, PassFailed
<1>6. ASSUME NEW c \in Callers, scan_vocabulary(c) PROVE SessionInv'
  BY <1>6, ScanVocabulary
<1>7. ASSUME NEW c \in Callers, llm_generation_timed_out(c) PROVE SessionInv'
  BY <1>7, TimedOut
<1>8. CASE keyboard_handler \/ UNCHANGED llmvars
  BY <1>8, KeyOrNothing
<1> QED
  BY <1>1, <1>2, <1>3, <1>4, <1>5, <1>6, <1>7, <1>8 DEF LlmNext

\* The account is what RuntimeSound says.
LEMMA SessionMeans == SessionInv => RuntimeSound
<1> SUFFICES ASSUME SessionInv PROVE RuntimeSound
  OBVIOUS
<1>1. MadeForModel
  BY DEF SessionInv, HeapFor, MadeForModel
<1>2. heap.live \in Int /\ Loose(heap) = 2 * Cardinality(Busy)
  BY DEF SessionInv, HeapFor, Heaps
<1>3. Cardinality(Held(heap, Slots)) \in Nat /\ Cardinality(Busy) \in Nat
  BY SlotsFinite, BusyFinite, FS_Subset, FS_CardinalityType DEF Held
<1>4. HeapAccounted
  BY <1>2, <1>3 DEF HeapAccounted, Loose, Busy
<1> QED
  BY <1>1, <1>4 DEF RuntimeSound

\* For any number of callers, models, layers and failures: what is live is what the
\* runtime's pointers hold and two buffers for each generation under way, and nothing made
\* for one model outlives it (llm_release_llama_weights, llm_free_context, llm_load_model_module).
THEOREM RuntimeSoundAlways == LlmSpec => []RuntimeSound
BY SessionInitially, SessionStep, SessionMeans, PTL DEF LlmSpec

--------------------------------------------------------------------------------
(* The key/value cache. *)

Rows == {<<"none", 0, 0>>} \cup (Callers \X Nat \X Nat)
Caches == [1 .. MaxLayers -> [0 .. LLM_MAX_CTX - 1 -> Rows]]

\* In a generation the position is the number of the token being processed, and the
\* layers that have seen token t hold it in row t.
OwnRows(c) ==
  /\ current_pos = job[c].fed
  /\ llm_model.backend = "GGUF_GEN" /\ job[c].layer \in 1 .. llm_model.layers
  /\ job[c].pc = "scan" => job[c].layer = 1
  /\ \A l \in 1 .. llm_model.layers, t \in 0 .. LLM_MAX_CTX - 1 :
       (/\ heap.slot[Layer(l)] # 0
        /\ t < job[c].fed \/ (t = job[c].fed /\ (job[c].pc = "scan" \/ l < job[c].layer)))
         => kv_cache[l][t] = <<c, job[c].call, t>>

OwnInv ==
  /\ SessionInv
  /\ current_pos \in Nat /\ kv_cache \in Caches
  /\ \A c \in Callers : job[c].pc \in {"layer", "scan"} => OwnRows(c)

\* After a layer has run, it and the layers before it hold the token's row.
LEMMA LayerStores ==
  ASSUME OwnInv, NEW c \in Callers, run_llama_forward_pass(c), ~llm_generation_cancelled(c)
  PROVE  /\ kv_cache' \in Caches
         /\ \A l \in 1 .. llm_model.layers, t \in 0 .. LLM_MAX_CTX - 1 :
              (heap.slot[Layer(l)] # 0 /\ (t < job[c].fed \/ (t = job[c].fed /\ l <= job[c].layer)))
                => kv_cache'[l][t] = <<c, job[c].call, t>>
<1> DEFINE L == job[c].layer
           p == current_pos
           row == <<c, job[c].call, job[c].fed>>
<1>1. /\ OwnRows(c) /\ job[c].pc = "layer" /\ job[c] \in Jobs /\ p \in Nat /\ kv_cache \in Caches
      /\ llm_model.layers \in 0 .. MaxLayers /\ p = job[c].fed /\ L \in 1 .. MaxLayers /\ L \in Nat
  BY LlmAssumption DEF OwnInv, SessionInv, SessionType, run_llama_forward_pass, OwnRows
<1>2. row \in Rows
  BY <1>1 DEF Rows, Jobs
<1>3. kv_cache' = IF Present(c) THEN Stored(c) ELSE kv_cache
  BY DEF run_llama_forward_pass
<1>4. /\ kv_cache' \in Caches
      /\ \A l \in 1 .. MaxLayers, t \in 0 .. LLM_MAX_CTX - 1 :
           kv_cache'[l][t] = IF l = L /\ t = p /\ Present(c) THEN row ELSE kv_cache[l][t]
  <2>1. CASE Present(c) /\ p < LLM_MAX_CTX
    <3> DEFINE old == kv_cache[L]
               new == [old EXCEPT ![p] = row]
    <3>1. kv_cache' = [kv_cache EXCEPT ![L] = new]
      BY <1>3, <2>1 DEF Stored
    <3>2. old \in [0 .. LLM_MAX_CTX - 1 -> Rows] /\ p \in 0 .. LLM_MAX_CTX - 1
      BY <1>1, <2>1, LlmAssumption DEF Caches
    <3> HIDE DEF old, row
    <3>3. /\ new \in [0 .. LLM_MAX_CTX - 1 -> Rows]
          /\ \A t \in 0 .. LLM_MAX_CTX - 1 : new[t] = IF t = p THEN row ELSE old[t]
      BY <1>2, <3>2
    <3> HIDE DEF new, L
    <3> QED
      BY <1>1, <2>1, <3>1, <3>3 DEF Caches, old
  <2>2. CASE ~Present(c)
    BY <1>1, <1>3, <2>2
  <2>3. CASE Present(c) /\ ~(p < LLM_MAX_CTX)
    <3>1. kv_cache' = kv_cache
      BY <1>3, <2>3 DEF Stored
    <3>2. \A t \in 0 .. LLM_MAX_CTX - 1 : t # p
      BY <1>1, <2>3, LlmAssumption
    <3> QED
      BY <1>1, <3>1, <3>2
  <2> QED
    BY <2>1, <2>2, <2>3
<1>5. ASSUME NEW l \in 1 .. llm_model.layers, NEW t \in 0 .. LLM_MAX_CTX - 1,
             heap.slot[Layer(l)] # 0, t < job[c].fed \/ (t = job[c].fed /\ l <= L)
      PROVE  kv_cache'[l][t] = <<c, job[c].call, t>>
  <2>1. l \in 1 .. MaxLayers
    BY <1>1, <1>5, LlmAssumption
  <2>2. CASE l = L /\ t = p
    BY <1>1, <1>4, <1>5, <2>1, <2>2 DEF Present
  <2>3. CASE ~(l = L /\ t = p)
    <3>1. t < job[c].fed \/ (t = job[c].fed /\ l < L)
      BY <1>1, <1>5, <2>1, <2>3
    <3>2. kv_cache[l][t] = <<c, job[c].call, t>>
      BY <1>1, <1>5, <3>1 DEF OwnRows
    <3> QED
      BY <1>4, <2>1, <2>3, <3>2
  <2> QED
    BY <2>2, <2>3
<1> QED
  BY <1>4, <1>5

\* A caller that was answered is idle.
LEMMA Answered ==
  ASSUME SessionType, NEW c \in Callers, NEW text, Answer(c, text)
  PROVE  job'[c].pc = "idle"
BY DEF SessionType, Answer, Quiet0

\* A generation begins at position 0, with nothing in its rows yet.
LEMMA OwnBegin ==
  ASSUME OwnInv, NEW c \in Callers, NEW mode \in {"ask", "logits"}, NEW n \in Nat,
         begin_generation(c, mode, n), SessionInv'
  PROVE  /\ current_pos' \in Nat /\ kv_cache' \in Caches
         /\ job'[c].pc \in {"layer", "scan"} => OwnRows(c)'
<1>1. SessionType /\ UNCHANGED kv_cache /\ UNCHANGED llm_model /\ llm_model.backend = "GGUF_GEN"
  BY DEF OwnInv, SessionInv, begin_generation
<1>2. current_pos' \in {0, current_pos}
  BY Zenon DEF begin_generation
<1>3. \/ \E text : Answer(c, text)
      \/ current_pos' = 0 /\ job' = [job EXCEPT ![c] = Begun(mode, n)]
  BY Zenon DEF begin_generation
<1>4. CASE \E text : Answer(c, text)
  BY <1>1, <1>2, <1>4, Answered DEF OwnInv
<1>5. CASE current_pos' = 0 /\ job' = [job EXCEPT ![c] = Begun(mode, n)]
  <2> DEFINE k == Begun(mode, n)
  <2>1. k \in Jobs /\ k.pc = "layer" /\ k.fed = 0 /\ k.layer = 1
    BY <1>1, BegunIs DEF SessionType
  <2>2. job'[c] = k
    BY <1>1, <1>5 DEF SessionType
  <2>3. llm_model.layers \in Nat /\ llm_model.layers > 0
    BY <1>1, LlmAssumption DEF SessionType
  <2> HIDE DEF k
  <2>4. OwnRows(c)'
    <3>1. ASSUME NEW l \in 1 .. llm_model'.layers, NEW t \in 0 .. LLM_MAX_CTX - 1,
                 heap'.slot[Layer(l)] # 0,
                 t < job'[c].fed \/ (t = job'[c].fed /\ (job'[c].pc = "scan" \/ l < job'[c].layer))
          PROVE  kv_cache'[l][t] = <<c, job'[c].call, t>>
      <4>1. t \in Nat /\ l \in Nat /\ l >= 1
        BY <1>1, <2>3, LlmAssumption
      <4>2. t < 0 \/ (t = 0 /\ l < 1)
        BY <2>1, <2>2, <3>1
      <4> QED BY <4>1, <4>2
    <3>2. /\ current_pos' = job'[c].fed /\ llm_model'.backend = "GGUF_GEN"
          /\ job'[c].layer \in 1 .. llm_model'.layers /\ (job'[c].pc = "scan" => job'[c].layer = 1)
      BY <1>1, <1>5, <2>1, <2>2, <2>3
    <3> QED
      BY <3>1, <3>2 DEF OwnRows
  <2> QED
    BY <1>1, <1>2, <2>4 DEF OwnInv
<1> QED
  BY <1>3, <1>4, <1>5

\* A pass through the layers moves on to the next token only when every layer has stored
\* its row.
LEMMA OwnPass ==
  ASSUME OwnInv, NEW c \in Callers, run_llama_forward_pass(c)
  PROVE  /\ current_pos' \in Nat /\ kv_cache' \in Caches
         /\ job'[c].pc \in {"layer", "scan"} => OwnRows(c)'
<1>1. /\ SessionType /\ job[c].pc = "layer" /\ OwnRows(c) /\ current_pos \in Nat /\ kv_cache \in Caches
      /\ UNCHANGED llm_model /\ llm_model.layers \in Nat /\ job[c].layer \in Nat /\ job[c].fed \in Nat
      /\ HeapFor(heap, llm_model.id, llm_model.layers)
  BY LlmAssumption DEF OwnInv, SessionInv, SessionType, run_llama_forward_pass, Jobs
<1>f. /\ current_pos = job[c].fed /\ llm_model.backend = "GGUF_GEN"
      /\ job[c].layer \in 1 .. llm_model.layers
  BY <1>1 DEF OwnRows
<1>n. job[c].fed \in Nat /\ job[c].layer \in Nat /\ llm_model.layers \in Nat
  BY <1>1
<1>2. CASE llm_generation_cancelled(c)
  <2>1. UNCHANGED <<kv_cache, current_pos>>
    BY <1>2 DEF run_llama_forward_pass
  <2>2. (\E text : Answer(c, text)) \/ ToFailed(c)
    BY <1>2, Zenon DEF run_llama_forward_pass, Ended, ToFailed
  <2>3. job'[c].pc \notin {"layer", "scan"}
    BY <1>1, <2>2, Answered, Moves
  <2> QED
    BY <1>1, <2>1, <2>3
<1>3. CASE ~llm_generation_cancelled(c)
  <2>1. /\ kv_cache' \in Caches
        /\ \A l \in 1 .. llm_model.layers, t \in 0 .. LLM_MAX_CTX - 1 :
             (heap.slot[Layer(l)] # 0 /\ (t < job[c].fed \/ (t = job[c].fed /\ l <= job[c].layer)))
               => kv_cache'[l][t] = <<c, job[c].call, t>>
    BY <1>3, LayerStores
  <2>2. PICK poor, h : /\ h = IF Present(c) THEN llm_row_scratch_ensure(heap, poor) ELSE heap
                       /\ IF job[c].layer < llm_model.layers
                            THEN NextLayer(c) /\ heap' = h /\ UNCHANGED current_pos
                            ELSE AfterPass(c, h)
    BY <1>3, Zenon DEF run_llama_forward_pass, NextLayer
  <2>3. \A l \in 1 .. llm_model.layers : h.slot[Layer(l)] = heap.slot[Layer(l)]
    <3>1. \A l \in 1 .. llm_model.layers : Layer(l) \in Slots \ {Scratch}
      BY <1>1, SlotNames, SlotsDiffer, LlmAssumption DEF SessionType
    <3>2. \A s \in Slots \ {Scratch} : h.slot[s] = heap.slot[s]
      <4>1. h = llm_row_scratch_ensure(heap, poor) \/ h = heap
        BY <2>2
      <4>2. \A s \in Slots \ {Scratch} : llm_row_scratch_ensure(heap, poor).slot[s] = heap.slot[s]
        BY <1>1, ScratchIs
      <4> QED
        BY <4>1, <4>2
    <3> QED
      BY <3>1, <3>2
  <2>4. CASE job[c].layer < llm_model.layers
    <3>1. NextLayer(c) /\ heap' = h /\ UNCHANGED current_pos
      BY <2>2, <2>4
    <3>2. /\ job'[c].pc = "layer" /\ job'[c].call = job[c].call /\ job'[c].fed = job[c].fed
          /\ job'[c].layer = job[c].layer + 1
      BY <1>1, <3>1, Moves
    <3>3. OwnRows(c)'
      <4>7. ASSUME NEW l \in 1 .. llm_model'.layers, NEW t \in 0 .. LLM_MAX_CTX - 1,
                   heap'.slot[Layer(l)] # 0,
                   t < job'[c].fed \/ (t = job'[c].fed /\ (job'[c].pc = "scan" \/ l < job'[c].layer))
            PROVE  kv_cache'[l][t] = <<c, job'[c].call, t>>
        <5>1. l \in 1 .. llm_model.layers
          BY <1>1, <4>7
        <5>2. heap.slot[Layer(l)] # 0
          BY <2>3, <3>1, <4>7, <5>1
        <5>3. t < job[c].fed \/ (t = job[c].fed /\ l < job[c].layer + 1)
          BY <3>2, <4>7
        <5>4. t < job[c].fed \/ (t = job[c].fed /\ l <= job[c].layer)
          BY <1>n, <5>1, <5>3
        <5>5. kv_cache'[l][t] = <<c, job[c].call, t>>
          BY <2>1, <5>1, <5>2, <5>4
        <5> QED BY <3>2, <5>5
      <4>8. job[c].layer + 1 \in 1 .. llm_model.layers
        BY <1>1, <1>f, <2>4
      <4>9. /\ current_pos' = job'[c].fed /\ llm_model'.backend = "GGUF_GEN"
            /\ job'[c].layer \in 1 .. llm_model'.layers /\ (job'[c].pc = "scan" => job'[c].layer = 1)
        BY <1>1, <1>f, <3>1, <3>2, <4>8
      <4> QED
        BY <4>7, <4>9 DEF OwnRows
    <3> QED
      BY <1>1, <2>1, <3>1, <3>3
  <2>5. CASE ~(job[c].layer < llm_model.layers)
    <3>1. AfterPass(c, h) /\ job[c].layer = llm_model.layers
      <4>1. AfterPass(c, h)
        BY <2>2, <2>5, Zenon
      <4>2. job[c].layer = llm_model.layers
        BY <1>1, <1>f, <2>5
      <4> QED BY <4>1, <4>2
    <3>0. 1 \in 1 .. llm_model.layers /\ job[c].fed + 1 \in Nat
      BY <1>1, <1>f
    <3>2. CASE current_pos' = current_pos + 1 /\ NextToken(c) /\ heap' = h
      <4>1. /\ job'[c].pc = "layer" /\ job'[c].call = job[c].call /\ job'[c].fed = job[c].fed + 1
            /\ job'[c].layer = 1
        BY <1>1, <3>2, Moves
      <4>2. OwnRows(c)'
        <5>7. ASSUME NEW l \in 1 .. llm_model'.layers, NEW t \in 0 .. LLM_MAX_CTX - 1,
                     heap'.slot[Layer(l)] # 0,
                     t < job'[c].fed \/ (t = job'[c].fed /\ (job'[c].pc = "scan" \/ l < job'[c].layer))
              PROVE  kv_cache'[l][t] = <<c, job'[c].call, t>>
          <6>1. l \in 1 .. llm_model.layers
            BY <1>1, <5>7
          <6>2. heap.slot[Layer(l)] # 0
            BY <2>3, <3>2, <5>7, <6>1
          <6>3. t < job[c].fed + 1 \/ (t = job[c].fed + 1 /\ l < 1)
            BY <4>1, <5>7
          <6>4. t < job[c].fed \/ (t = job[c].fed /\ l <= job[c].layer)
            <7>1. t < job[c].fed \/ t = job[c].fed
              BY <1>n, <6>1, <6>3
            <7> QED BY <3>1, <6>1, <7>1
          <6>5. kv_cache'[l][t] = <<c, job[c].call, t>>
            BY <2>1, <6>1, <6>2, <6>4
          <6> QED BY <4>1, <6>5
        <5>8. /\ current_pos' = job'[c].fed /\ llm_model'.backend = "GGUF_GEN"
              /\ job'[c].layer \in 1 .. llm_model'.layers /\ (job'[c].pc = "scan" => job'[c].layer = 1)
          BY <1>1, <1>f, <3>0, <3>2, <4>1
        <5> QED
          BY <5>7, <5>8 DEF OwnRows
      <4>3. current_pos' \in Nat
        BY <1>1, <3>2
      <4> QED
        BY <2>1, <4>2, <4>3
    <3>3. CASE UNCHANGED current_pos /\ ToScan(c) /\ heap' = h
      <4>1. /\ job'[c].pc = "scan" /\ job'[c].call = job[c].call /\ job'[c].fed = job[c].fed
            /\ job'[c].layer = 1
        BY <1>1, <3>3, Moves
      <4>2. OwnRows(c)'
        <5>7. ASSUME NEW l \in 1 .. llm_model'.layers, NEW t \in 0 .. LLM_MAX_CTX - 1,
                     heap'.slot[Layer(l)] # 0,
                     t < job'[c].fed \/ (t = job'[c].fed /\ (job'[c].pc = "scan" \/ l < job'[c].layer))
              PROVE  kv_cache'[l][t] = <<c, job'[c].call, t>>
          <6>1. l \in 1 .. llm_model.layers
            BY <1>1, <5>7
          <6>2. heap.slot[Layer(l)] # 0
            BY <2>3, <3>3, <5>7, <6>1
          <6>3. t < job[c].fed \/ t = job[c].fed
            BY <4>1, <5>7
          <6>4. t < job[c].fed \/ (t = job[c].fed /\ l <= job[c].layer)
            BY <3>1, <6>1, <6>3
          <6>5. kv_cache'[l][t] = <<c, job[c].call, t>>
            BY <2>1, <6>1, <6>2, <6>4
          <6> QED BY <4>1, <6>5
        <5>8. /\ current_pos' = job'[c].fed /\ llm_model'.backend = "GGUF_GEN"
              /\ job'[c].layer \in 1 .. llm_model'.layers /\ (job'[c].pc = "scan" => job'[c].layer = 1)
          BY <1>1, <1>f, <3>0, <3>3, <4>1
        <5> QED
          BY <5>7, <5>8 DEF OwnRows
      <4> QED
        BY <1>1, <2>1, <3>3, <4>2
    <3>4. CASE UNCHANGED current_pos /\ \E text : Answer(c, text)
      <4>1. job'[c].pc = "idle"
        BY <1>1, <3>4, Answered
      <4> QED
        BY <1>1, <2>1, <3>4, <4>1
    <3> QED
      BY <3>1, <3>2, <3>3, <3>4, Zenon DEF AfterPass, NextToken, ToScan, Ended
  <2> QED
    BY <2>4, <2>5
<1> QED
  BY <1>2, <1>3

\* A generated token is fed to the next pass at the next position.
LEMMA OwnScan ==
  ASSUME OwnInv, NEW c \in Callers, scan_vocabulary(c)
  PROVE  /\ current_pos' \in Nat /\ kv_cache' \in Caches
         /\ job'[c].pc \in {"layer", "scan"} => OwnRows(c)'
<1>1. /\ SessionType /\ job[c].pc = "scan" /\ OwnRows(c) /\ current_pos \in Nat /\ kv_cache \in Caches
      /\ UNCHANGED <<llm_model, kv_cache>> /\ llm_model.layers \in Nat /\ job[c].fed \in Nat
      /\ HeapFor(heap, llm_model.id, llm_model.layers)
  BY LlmAssumption DEF OwnInv, SessionInv, SessionType, scan_vocabulary, Jobs
<1>2. current_pos' \in {current_pos, current_pos + 1}
  BY Zenon DEF scan_vocabulary
<1>3. \/ \E text : Answer(c, text)
      \/ \E poor : /\ heap' = llm_row_scratch_ensure(heap, poor) /\ FedBack(c)
                   /\ current_pos' = current_pos + 1
  BY Zenon DEF scan_vocabulary, Ended, FedBack
<1>4. CASE \E text : Answer(c, text)
  <2>1. job'[c].pc = "idle"
    BY <1>1, <1>4, Answered
  <2> QED
    BY <1>1, <1>2, <2>1
<1>5. ASSUME NEW poor, heap' = llm_row_scratch_ensure(heap, poor), FedBack(c),
             current_pos' = current_pos + 1
      PROVE  /\ current_pos' \in Nat /\ kv_cache' \in Caches /\ OwnRows(c)'
  <2>1. /\ job'[c].pc = "layer" /\ job'[c].call = job[c].call /\ job'[c].fed = job[c].fed + 1
        /\ job'[c].layer = job[c].layer
    BY <1>1, <1>5, Moves
  <2>2. \A l \in 1 .. llm_model.layers : heap'.slot[Layer(l)] = heap.slot[Layer(l)]
    <3>1. \A l \in 1 .. llm_model.layers : Layer(l) \in Slots \ {Scratch}
      BY <1>1, SlotNames, SlotsDiffer, LlmAssumption DEF SessionType
    <3>2. \A s \in Slots \ {Scratch} : heap'.slot[s] = heap.slot[s]
      <4>1. \A s \in Slots \ {Scratch} : llm_row_scratch_ensure(heap, poor).slot[s] = heap.slot[s]
        BY <1>1, ScratchIs
      <4> QED BY <1>5, <4>1
    <3> QED
      BY <3>1, <3>2
  <2>3. job[c].layer = 1
    BY <1>1 DEF OwnRows
  <2>4. OwnRows(c)'
    <3>1. /\ current_pos = job[c].fed /\ llm_model.backend = "GGUF_GEN"
          /\ 1 \in 1 .. llm_model.layers /\ job[c].fed + 1 \in Nat
      BY <1>1, <2>3 DEF OwnRows
    <3>2. ASSUME NEW l \in 1 .. llm_model'.layers, NEW t \in 0 .. LLM_MAX_CTX - 1,
                 heap'.slot[Layer(l)] # 0,
                 t < job'[c].fed \/ (t = job'[c].fed /\ (job'[c].pc = "scan" \/ l < job'[c].layer))
          PROVE  kv_cache'[l][t] = <<c, job'[c].call, t>>
      <4>1. l \in 1 .. llm_model.layers
        BY <1>1, <3>2
      <4>2. heap.slot[Layer(l)] # 0
        BY <2>2, <3>2, <4>1
      <4>3. t < job[c].fed + 1 \/ (t = job[c].fed + 1 /\ l < 1)
        BY <2>1, <2>3, <3>2
      <4>4. t < job[c].fed \/ t = job[c].fed
        BY <1>1, <4>1, <4>3
      <4>5. kv_cache[l][t] = <<c, job[c].call, t>>
        BY <1>1, <4>1, <4>2, <4>4 DEF OwnRows
      <4> QED BY <1>1, <2>1, <4>5
    <3>3. /\ current_pos' = job'[c].fed /\ llm_model'.backend = "GGUF_GEN"
          /\ job'[c].layer \in 1 .. llm_model'.layers /\ (job'[c].pc = "scan" => job'[c].layer = 1)
      BY <1>1, <1>5, <2>1, <2>3, <3>1
    <3> QED
      BY <3>2, <3>3 DEF OwnRows
  <2> QED
    BY <1>1, <1>5, <2>4
<1> QED
  BY <1>3, <1>4, <1>5

\* The time limit changes no row.
LEMMA OwnLate ==
  ASSUME OwnInv, NEW c \in Callers, llm_generation_timed_out(c)
  PROVE  /\ current_pos' \in Nat /\ kv_cache' \in Caches
         /\ job'[c].pc \in {"layer", "scan"} => OwnRows(c)'
<1>1. /\ SessionType /\ UNCHANGED <<llm_model, heap, current_pos, kv_cache>> /\ Late(c)
      /\ current_pos \in Nat /\ kv_cache \in Caches
  BY DEF OwnInv, SessionInv, llm_generation_timed_out, Late
<1>2. /\ job'[c].pc = job[c].pc /\ job'[c].call = job[c].call /\ job'[c].fed = job[c].fed
      /\ job'[c].layer = job[c].layer
  BY <1>1, Moves
<1>3. job[c].pc \in {"layer", "scan"} => OwnRows(c)
  BY DEF OwnInv
<1> QED
  BY <1>1, <1>2, <1>3 DEF OwnRows

\* Before any call.
THEOREM OwnInitially == LlmInit => OwnInv
<1> SUFFICES ASSUME LlmInit PROVE OwnInv
  OBVIOUS
<1>1. current_pos \in Nat /\ \A c \in Callers : job[c].pc = "idle"
  BY DEF LlmInit, Quiet0
<1>2. kv_cache \in Caches
  BY DEF LlmInit, Caches, Rows
<1> QED
  BY <1>1, <1>2, SessionInitially DEF OwnInv

\* With one caller no step disturbs the rows of a generation under way.
THEOREM OwnStep ==
  ASSUME NEW w, Callers = {w}, OwnInv, [LlmNext]_llmvars PROVE OwnInv'
<1> DEFINE Kept(c) == /\ current_pos' \in Nat /\ kv_cache' \in Caches
                      /\ job'[c].pc \in {"layer", "scan"} => OwnRows(c)'
<1>1. SessionInv' /\ SessionType /\ w \in Callers /\ current_pos \in Nat /\ kv_cache \in Caches
  BY SessionStep DEF OwnInv, SessionInv
<1>2. SUFFICES Kept(w)
  BY <1>1 DEF OwnInv
<1>3. ASSUME NEW f \in Files, llm_load_model_file(w, f) PROVE Kept(w)
  <2>1. job'[w].pc = "idle" /\ UNCHANGED kv_cache
    BY <1>3 DEF llm_load_model_file
  <2>2. current_pos' \in {0, current_pos}
    BY <1>3, Zenon DEF llm_load_model_file, llm_load_model_module
  <2> QED
    BY <1>1, <2>1, <2>2
<1>4. ASSUME NEW n \in 0 .. MaxPrompt, llm_try_gguf_inference(w, n) \/ llm_dump_top_logits(w, n)
      PROVE  Kept(w)
  <2>1. n \in Nat /\ "ask" \in {"ask", "logits"} /\ "logits" \in {"ask", "logits"}
    BY <1>4, LlmAssumption
  <2> QED
    BY <1>1, <1>4, <2>1, OwnBegin DEF llm_try_gguf_inference, llm_dump_top_logits
<1>5. CASE llm_inference(w)
  <2>1. UNCHANGED <<current_pos, kv_cache>> /\ Answer(w, llm_model.backend)
    BY <1>5 DEF llm_inference
  <2>2. job'[w].pc = "idle"
    BY <1>1, <2>1, Answered
  <2> QED
    BY <1>1, <2>1, <2>2
<1>6. CASE run_llama_forward_pass(w)
  BY <1>1, <1>6, OwnPass
<1>7. CASE pass_failed(w)
  <2>1. UNCHANGED <<current_pos, kv_cache>> /\ \E text : Answer(w, text)
    BY <1>7, Zenon DEF pass_failed, Ended
  <2>2. job'[w].pc = "idle"
    BY <1>1, <2>1, Answered
  <2> QED
    BY <1>1, <2>1, <2>2
<1>8. CASE scan_vocabulary(w)
  BY <1>1, <1>8, OwnScan
<1>9. CASE llm_generation_timed_out(w)
  BY <1>1, <1>9, OwnLate
<1>10. CASE keyboard_handler \/ UNCHANGED llmvars
  <2>1. UNCHANGED <<llm_model, heap, current_pos, kv_cache, job>>
    BY <1>10 DEF keyboard_handler, llmvars
  <2>2. job[w].pc \in {"layer", "scan"} => OwnRows(w)
    BY <1>1 DEF OwnInv
  <2> QED
    BY <1>1, <2>1, <2>2 DEF OwnRows
<1> HIDE DEF Kept
<1> QED
  BY <1>3, <1>4, <1>5, <1>6, <1>7, <1>8, <1>9, <1>10 DEF LlmNext

\* So an attention finds its own tokens in the rows it reads.
LEMMA OwnAttention ==
  ASSUME OwnInv, NEW c \in Callers, run_llama_forward_pass(c), ~llm_generation_cancelled(c),
         Present(c), NEW t \in Attended
  PROVE  kv_cache'[job[c].layer][t] = <<c, job[c].call, t>>
<1>1. /\ current_pos = job[c].fed /\ job[c].layer \in 1 .. llm_model.layers /\ current_pos \in Nat
      /\ llm_model.layers \in Nat
  BY LlmAssumption DEF OwnInv, SessionInv, SessionType, run_llama_forward_pass, OwnRows
<1>2. t \in 0 .. LLM_MAX_CTX - 1 /\ (t < job[c].fed \/ t = job[c].fed)
  <2>1. current_pos \in Nat /\ LLM_MAX_CTX \in Nat \ {0}
    BY <1>1, LlmAssumption
  <2>2. t \in 0 .. (IF current_pos < LLM_MAX_CTX THEN current_pos ELSE LLM_MAX_CTX - 1)
    BY DEF Attended
  <2>3. t \in 0 .. LLM_MAX_CTX - 1 /\ (t < current_pos \/ t = current_pos)
    BY <2>1, <2>2
  <2> QED
    BY <1>1, <2>3
<1>3. heap.slot[Layer(job[c].layer)] # 0 /\ job[c].layer <= job[c].layer
  BY <1>1 DEF Present
<1> QED
  BY <1>1, <1>2, <1>3, LayerStores

\* With one caller, and models of any size: an attention reads the tokens of its own call,
\* whatever earlier calls, aborts and models left in the cache (run_llama_forward_pass).
THEOREM AttendsOwnOneCaller ==
  ASSUME NEW w, Callers = {w} PROVE LlmSpec => AttendsOwn
<1>1. OwnInv /\ [LlmNext]_llmvars => OwnInv'
  BY OwnStep
<1>2. OwnInv => [\A c \in Callers :
                    (run_llama_forward_pass(c) /\ ~llm_generation_cancelled(c) /\ Present(c))
                      => \A t \in Attended : kv_cache'[job[c].layer][t] = <<c, job[c].call, t>>]_llmvars
  BY OwnAttention
<1> QED
  BY <1>1, <1>2, OwnInitially, PTL DEF LlmSpec, AttendsOwn
================================================================================
