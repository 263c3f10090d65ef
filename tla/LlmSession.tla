------------------------------- MODULE LlmSession -------------------------------
(***************************************************************************)
(* The language-model runtime of kernel/llm.c: loading a model from disk,  *)
(* the tensors, tokenizer and buffers it keeps between calls, and a        *)
(* generation, which runs token by token through the key/value cache.      *)
(*                                                                         *)
(* A call runs inside a system call (the shell) or inside net_poll (the    *)
(* LLM service), with interrupts off except in the one-instruction window  *)
(* of llm_generation_cancelled.  So a step here goes from one window to    *)
(* the next; Ctrl+C and the timer arrive between steps, and so does the    *)
(* other caller when a tick switches tasks in a window.                    *)
(*                                                                         *)
(* What is allocated is counted: heap.live is the number of live objects,  *)
(* heap.slot[s] the model for which the pointer s was filled (0: NULL).    *)
(* The nine tensors of a layer are one object, the eight state buffers of  *)
(* a context one more.  Numbers (weights, logits) are not modelled; which  *)
(* rows of the cache an attention reads is.                                *)
(***************************************************************************)
EXTENDS Integers, FiniteSets, FiniteSetsExt

CONSTANTS
  Callers,      \* who calls llm_inference: the shell, the LLM service
  Files,        \* files on the disk, [kind, layers, width, whole, big]
  MaxLayers,    \* 32, the length of llm_weights.layers
  LLM_MAX_CTX,
  MaxPrompt,    \* 32, the length of tokens[]
  MaxNew,       \* llm_gguf_generation_token_limit
  HighPool,     \* is there an allocatable pool above 4 GB?
  MayFail,      \* the allocations and reads that may fail
  MaxLoads, MaxCalls, MaxAborts

ASSUME LlmAssumption ==
  /\ MaxLayers \in Nat \ {0}
  /\ LLM_MAX_CTX \in Nat \ {0}
  /\ MaxPrompt \in Nat \ {0}
  /\ MaxNew \in Nat \ {0}
  /\ IsFiniteSet(Callers)
  /\ \A f \in Files : f.layers \in 0 .. MaxLayers /\ f.width \in Nat \ {0}

VARIABLES
  llm_model,          \* [id, backend, layers, width]; id 0 is "not loaded"
  heap,
  llm_weights_loaded,
  current_pos,        \* llm_ctx.current_pos
  kv_cache,           \* per layer and position: whose token, 0 before any
  abort_requested,    \* keyboard.c
  job,                \* per caller: the locals of its call
  loads, calls, aborts

llmvars == <<llm_model, heap, llm_weights_loaded, current_pos, kv_cache,
             abort_requested, job, loads, calls, aborts>>

Norm == <<"output_norm", 0>>
Layer(i) == <<"layer", i>>
State == <<"h", 0>>
Kv(i) == <<"kv", i>>
Vocab == <<"tokenizer", 0>>
Scratch == <<"row_scratch", 0>>
Hbuf == <<"hbuf", 0>>

Slots == {Norm, State, Vocab, Scratch, Hbuf}
           \cup {Layer(i) : i \in 1 .. MaxLayers} \cup {Kv(i) : i \in 1 .. MaxLayers}

Held(h, S) == {s \in S : h.slot[s] # 0}

\* kmalloc into the pointers S for model id, kfree of those of S that are set.
Made(h, S, id) ==
  [slot |-> [s \in Slots |-> IF s \in S THEN id ELSE h.slot[s]],
   live |-> h.live + Cardinality(S)]
Freed(h, S) ==
  [slot |-> [s \in Slots |-> IF s \in S THEN 0 ELSE h.slot[s]],
   live |-> h.live - Cardinality(Held(h, S))]

Fails(what) == IF what \in MayFail THEN {FALSE, TRUE} ELSE {FALSE}

Quiet0 == [pc |-> "idle", mode |-> "ask", n |-> 0, call |-> 0, fed |-> 0, layer |-> 1,
           generated |-> 0, late |-> FALSE, seen |-> FALSE, reply |-> "none"]

LlmInit ==
  /\ llm_model = [id |-> 0, backend |-> "NONE", layers |-> 0, width |-> 1]
  /\ heap = [slot |-> [s \in Slots |-> 0], live |-> 0]
  /\ llm_weights_loaded = FALSE
  /\ current_pos = 0
  /\ kv_cache = [i \in 1 .. MaxLayers |-> [t \in 0 .. LLM_MAX_CTX - 1 |-> <<"none", 0, 0>>]]
  /\ abort_requested = FALSE
  /\ job = [c \in Callers |-> Quiet0]
  /\ loads = 0 /\ calls = 0 /\ aborts = 0

--------------------------------------------------------------------------------
(* Loading a model. *)

\* Variant: the last layer is not released.
release_but_last(h) ==
  Freed(h, {Norm} \cup {Layer(i) : i \in 1 .. llm_model.layers - 1})

llm_release_llama_weights(h) ==
  Freed(h, {Norm} \cup {Layer(i) : i \in 1 .. llm_model.layers})

llm_free_context(h) ==
  Freed(h, {State} \cup {Kv(i) : i \in 1 .. MaxLayers})

\* The backing of the tensor data belongs to the model that was migrated.
gguf_release_high_mem_backing(h, id) ==
  IF h.slot[Hbuf] # 0 /\ h.slot[Hbuf] = id THEN Freed(h, {Hbuf}) ELSE h

\* Small files stay low, and so does one the pool has no room for.
gguf_migrate_data_to_high_mem(h, f, id, full) ==
  IF HighPool /\ f.big /\ ~full THEN Made(h, {Hbuf}, id) ELSE h

\* gguf_get_tensor stops with "not found" at a pending Ctrl+C, and clears it.
Backend(f, aborted) ==
  CASE f.kind = "gguf" -> IF f.layers > 0 /\ f.whole /\ ~aborted THEN "GGUF_GEN" ELSE "GGUF_PARSER"
    [] f.kind = "rules" -> "MKRP"
    [] OTHER -> "UNKNOWN"

\* llm_load_model_module.  A file that is not GGUF leaves llm_model.gguf alone.
llm_load_model_module(f, id, full, aborted) ==
  LET old == llm_free_context(llm_release_llama_weights(heap))
      bare == IF llm_model.id # 0 THEN gguf_release_high_mem_backing(old, llm_model.id) ELSE old
      backed == IF f.kind = "gguf" THEN gguf_migrate_data_to_high_mem(bare, f, id, full) ELSE bare
  IN /\ heap' = Freed(backed, {Vocab})
     /\ llm_weights_loaded' = FALSE
     /\ current_pos' = 0
     /\ llm_model' = [id |-> id, backend |-> Backend(f, aborted),
                      layers |-> IF f.kind = "gguf" THEN f.layers ELSE llm_model.layers,
                      width |-> IF f.kind = "gguf" THEN f.width ELSE llm_model.width]

\* llm_load_model_file.  The file is read into a new region first: no such
\* file, no room, or a failed read (a pending Ctrl+C fails it too) leave the
\* old model as it is.
llm_load_model_file(c, f) ==
  /\ job[c].pc = "idle" /\ loads < MaxLoads
  /\ loads' = loads + 1
  /\ abort_requested' = FALSE
  /\ \E bad \in Fails("disk"), full \in Fails("high") :
       IF bad \/ abort_requested
         THEN UNCHANGED <<llm_model, heap, llm_weights_loaded, current_pos>>
         ELSE llm_load_model_module(f, loads + 1, full, FALSE)
  /\ UNCHANGED <<kv_cache, job, calls, aborts>>

--------------------------------------------------------------------------------
(* A call of llm_inference or llm_dump_logits. *)

llm_init_context(h) ==
  Made(h, {State} \cup {Kv(i) : i \in 1 .. llm_model.layers}, llm_model.id)

\* A layer whose tensors could not be loaded is left NULL; only the output
\* norm is required.
llm_load_llama_weights(h, got) ==
  Made(h, {Norm} \cup {Layer(i) : i \in got}, llm_model.id)

llm_row_scratch_ensure(h, fail) ==
  IF llm_model.width <= h.slot[Scratch] THEN h
  ELSE IF fail THEN h
  ELSE Made(Freed(h, {Scratch}), {Scratch}, llm_model.width)

\* h_float and ffn_gate_float, held from the start of a generation to its end.
WithBuffers(h, n) == [h EXCEPT !.live = @ + n]

Answer(c, text) == job' = [job EXCEPT ![c] = [Quiet0 EXCEPT !.reply = text]]

Begun(mode, n) == [Quiet0 EXCEPT !.pc = "layer", !.mode = mode, !.n = n, !.call = calls + 1]

\* Everything before the first window: tokenizer, context, weights, buffers,
\* and the embedding of the BOS token.  An early return frees what this call
\* alone holds.
begin_generation(c, mode, n) ==
  /\ job[c].pc = "idle" /\ calls < MaxCalls
  /\ llm_model.backend = "GGUF_GEN"
  /\ calls' = calls + 1
  /\ \E tokless \in Fails("tokenizer") :
     LET h1 == IF heap.slot[Vocab] = 0 THEN Made(heap, {Vocab}, llm_model.id) ELSE heap
         h2 == IF h1.slot[State] = 0 THEN llm_init_context(h1) ELSE h1
         h3 == IF llm_weights_loaded THEN h2 ELSE llm_release_llama_weights(h2)
         normless == ~llm_weights_loaded /\ abort_requested
     IN IF heap.slot[Vocab] = 0 /\ tokless
          THEN Answer(c, "tokenizer") /\ UNCHANGED <<heap, llm_weights_loaded, current_pos, abort_requested>>
        ELSE IF n = 0
          THEN heap' = h1 /\ Answer(c, "none") /\ UNCHANGED <<llm_weights_loaded, current_pos, abort_requested>>
        ELSE \E lost \in Fails("norm") :
          IF normless \/ (~llm_weights_loaded /\ lost)
            THEN /\ heap' = h3 /\ Answer(c, "weights")
                 /\ abort_requested' = FALSE
                 /\ UNCHANGED <<llm_weights_loaded, current_pos>>
          ELSE \E got \in IF llm_weights_loaded THEN {{}}
                            ELSE IF "layer" \in MayFail THEN SUBSET (1 .. llm_model.layers)
                            ELSE {1 .. llm_model.layers},
                  nobuf \in Fails("buffer") :
            LET h4 == IF llm_weights_loaded THEN h3 ELSE llm_load_llama_weights(h3, got)
            IN /\ llm_weights_loaded' = TRUE
               /\ abort_requested' = FALSE
               /\ current_pos' = IF nobuf THEN current_pos ELSE 0
               /\ IF nobuf THEN heap' = h4 /\ Answer(c, "buffer")
                  ELSE IF abort_requested THEN heap' = h4 /\ Answer(c, "row")
                  ELSE /\ heap' = WithBuffers(h4, 2)
                       /\ job' = [job EXCEPT ![c] = Begun(mode, n)]
  /\ UNCHANGED <<llm_model, kv_cache, loads, aborts>>

llm_try_gguf_inference(c, n) == begin_generation(c, "ask", n)
llm_dump_top_logits(c, n) == begin_generation(c, "logits", n)

\* The other backends answer at once; GGUF_PARSER still makes a tokenizer.
llm_inference(c) ==
  /\ job[c].pc = "idle" /\ calls < MaxCalls
  /\ llm_model.backend # "GGUF_GEN"
  /\ calls' = calls + 1
  /\ \E tokless \in Fails("tokenizer") :
       heap' = IF llm_model.backend = "GGUF_PARSER" /\ heap.slot[Vocab] = 0 /\ ~tokless
                 THEN Made(heap, {Vocab}, llm_model.id) ELSE heap
  /\ Answer(c, llm_model.backend)
  /\ UNCHANGED <<llm_model, llm_weights_loaded, current_pos, kv_cache, abort_requested, loads, aborts>>

\* llm_generation_cancelled: sys_abort_requested reads the flag and clears it.
llm_generation_cancelled(c) == abort_requested \/ job[c].late

\* llm_generation_cancel_response asks sys_abort_requested first, but the check
\* above has cleared the flag: "aborted by user" is never its answer.
llm_generation_cancel_response(c) == IF job[c].late THEN "timed out" ELSE "stopped"

Seen(c) == job[c].seen \/ abort_requested

\* Every return frees the two buffers.
Ended(c, h, text) == heap' = WithBuffers(h, -2) /\ Answer(c, text)

Present(c) == heap.slot[Layer(job[c].layer)] # 0

\* The rows an attention reads after it has stored its own, if that fits.
Stored(c) ==
  IF current_pos < LLM_MAX_CTX
    THEN [kv_cache EXCEPT ![job[c].layer][current_pos] = <<c, job[c].call, job[c].fed>>]
    ELSE kv_cache
Attended == 0 .. (IF current_pos < LLM_MAX_CTX THEN current_pos ELSE LLM_MAX_CTX - 1)

\* Variant: the position is not advanced past the BOS token.
AfterPassSamePos(c, h) ==
  IF job[c].fed < job[c].n
    THEN /\ current_pos' = IF job[c].fed = 0 THEN current_pos ELSE current_pos + 1
         /\ job' = [job EXCEPT ![c].fed = @ + 1, ![c].layer = 1]
         /\ heap' = h
    ELSE /\ UNCHANGED current_pos
         /\ IF job[c].mode = "logits"
              THEN \E poor \in Fails("scratch") :
                     Ended(c, llm_row_scratch_ensure(h, poor), "logits")
              ELSE job' = [job EXCEPT ![c].pc = "scan", ![c].layer = 1] /\ heap' = h

\* The end of a forward pass: the next token of the prompt is embedded, or
\* the vocabulary is scanned (all at once when only the logits are listed).
AfterPass(c, h) ==
  IF job[c].fed < job[c].n
    THEN /\ current_pos' = current_pos + 1
         /\ job' = [job EXCEPT ![c].fed = @ + 1, ![c].layer = 1]
         /\ heap' = h
    ELSE /\ UNCHANGED current_pos
         /\ IF job[c].mode = "logits"
              THEN \E poor \in Fails("scratch") :
                     Ended(c, llm_row_scratch_ensure(h, poor), "logits")
              ELSE job' = [job EXCEPT ![c].pc = "scan", ![c].layer = 1] /\ heap' = h

\* One layer of run_llama_forward_pass; a layer that was not loaded is skipped.
run_llama_forward_pass(c) ==
  /\ job[c].pc = "layer"
  /\ abort_requested' = FALSE
  /\ IF llm_generation_cancelled(c)
       THEN /\ IF job[c].mode = "logits" THEN Ended(c, heap, "failed")
               ELSE job' = [job EXCEPT ![c].pc = "failed", ![c].seen = Seen(c)] /\ UNCHANGED heap
            /\ UNCHANGED <<kv_cache, current_pos>>
       ELSE \E poor \in Fails("scratch") :
         LET h == IF Present(c) THEN llm_row_scratch_ensure(heap, poor) ELSE heap
         IN /\ kv_cache' = IF Present(c) THEN Stored(c) ELSE kv_cache
            /\ IF job[c].layer < llm_model.layers
                 THEN /\ job' = [job EXCEPT ![c].layer = @ + 1]
                      /\ heap' = h /\ UNCHANGED current_pos
                 ELSE AfterPass(c, h)
  /\ UNCHANGED <<llm_model, llm_weights_loaded, loads, calls, aborts>>

\* The pass returned 0: llm_generation_cancelled decides what is said.
pass_failed(c) ==
  /\ job[c].pc = "failed"
  /\ abort_requested' = FALSE
  /\ Ended(c, heap, IF llm_generation_cancelled(c) THEN llm_generation_cancel_response(c) ELSE "failed")
  /\ UNCHANGED <<llm_model, llm_weights_loaded, current_pos, kv_cache, loads, calls, aborts>>

\* The scan of the vocabulary and what follows it: an end of sequence, no
\* usable token or a full response end the generation, else the token is
\* appended and fed to the next pass.
scan_vocabulary(c) ==
  /\ job[c].pc = "scan"
  /\ abort_requested' = FALSE
  /\ IF llm_generation_cancelled(c)
       THEN Ended(c, heap, llm_generation_cancel_response(c)) /\ UNCHANGED current_pos
       ELSE \E scratchless \in Fails("scratch"), what \in {"token", "full", "end"} :
         LET h == llm_row_scratch_ensure(heap, scratchless)
         IN IF llm_model.width > h.slot[Scratch]
              THEN Ended(c, h, "row") /\ UNCHANGED current_pos
            ELSE IF what = "token" /\ job[c].generated + 1 < MaxNew
              THEN /\ current_pos' = current_pos + 1
                   /\ heap' = h
                   /\ job' = [job EXCEPT ![c].pc = "layer", ![c].fed = @ + 1, ![c].n = @ + 1,
                                         ![c].generated = @ + 1]
              ELSE /\ current_pos' = IF what = "token" THEN current_pos + 1 ELSE current_pos
                   /\ Ended(c, h, "text")
  /\ UNCHANGED <<llm_model, llm_weights_loaded, kv_cache, loads, calls, aborts>>

--------------------------------------------------------------------------------
(* Interrupts: IRQ1 with Ctrl+C, and enough of IRQ0 for the time limit. *)

keyboard_handler ==
  /\ aborts < MaxAborts /\ ~abort_requested
  /\ abort_requested' = TRUE
  /\ aborts' = aborts + 1
  /\ UNCHANGED <<llm_model, heap, llm_weights_loaded, current_pos, kv_cache, job, loads, calls>>

llm_generation_timed_out(c) ==
  /\ job[c].pc # "idle" /\ ~job[c].late
  /\ job' = [job EXCEPT ![c].late = TRUE]
  /\ UNCHANGED <<llm_model, heap, llm_weights_loaded, current_pos, kv_cache, abort_requested,
                 loads, calls, aborts>>

LlmNext ==
  \/ \E c \in Callers :
       \/ \E f \in Files : llm_load_model_file(c, f)
       \/ \E n \in 0 .. MaxPrompt : llm_try_gguf_inference(c, n) \/ llm_dump_top_logits(c, n)
       \/ llm_inference(c)
       \/ run_llama_forward_pass(c)
       \/ pass_failed(c)
       \/ scan_vocabulary(c)
       \/ llm_generation_timed_out(c)
  \/ keyboard_handler

LlmSpec == LlmInit /\ [][LlmNext]_llmvars

--------------------------------------------------------------------------------

\* No early return, failed allocation, abort or change of model leaks an
\* object or frees one twice: what is live is what the runtime's pointers
\* hold, and the two FPU buffers of each generation under way.
HeapAccounted ==
  heap.live = Cardinality(Held(heap, Slots)) + 2 * Cardinality({c \in Callers : job[c].pc # "idle"})

\* Nothing made for one model outlives its replacement: weights, context,
\* vocabulary and high-memory backing are those of the loaded model, with no
\* layer of a deeper predecessor left behind.
MadeForModel ==
  \A s \in Slots \ {Scratch} : heap.slot[s] \in {0, llm_model.id}

\* An attention reads the tokens of its own call and no others: when the
\* token number fed is processed, row t of the layer's cache is token t of
\* this generation, whatever earlier calls, aborts and models left there.
AttendsOwn ==
  [][\A c \in Callers :
       (run_llama_forward_pass(c) /\ ~llm_generation_cancelled(c) /\ Present(c))
         => \A t \in Attended : kv_cache'[job[c].layer][t] = <<c, job[c].call, t>>]_llmvars

\* A generation that was stopped by Ctrl+C says so.  It does not hold: the
\* check that stops it has cleared the flag (keyboard.c:27) by the time the answer
\* is chosen (llm.c:314), and that answer says only that generation stopped.
AbortReported ==
  [][\A c \in Callers :
       (job[c].pc # "idle" /\ job'[c].pc = "idle" /\ Seen(c) /\ job[c].mode = "ask")
         => job'[c].reply = "aborted"]_llmvars

\* The runtime's memory: nothing leaks or is freed twice, and nothing made for one
\* model is used with the next (llm_release_llama_weights, llm_free_context).
RuntimeSound == HeapAccounted /\ MadeForModel
================================================================================
