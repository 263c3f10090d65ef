--------------------------------- MODULE MCLlm ---------------------------------
(* The model runtime, its tokenizer and its file reader, one at a time: part   *)
(* says which of LlmSession, Tokenizer and GgufFile moves.                      *)
EXTENDS LlmSession, Tokenizer, GgufFile

VARIABLE part

allvars == <<part, llmvars, tokvars, ggufvars>>

File(k, l, w, whole, big) == [kind |-> k, layers |-> l, width |-> w, whole |-> whole, big |-> big]
MCFiles == { File("gguf", 2, 2, TRUE, TRUE), File("gguf", 1, 1, TRUE, FALSE),
             File("gguf", 2, 1, FALSE, TRUE), File("rules", 0, 1, TRUE, FALSE) }
\* Vocabularies that merge across pairs, tie on score, and only spell in bytes.
E(t, s, c) == [text |-> t, score |-> s, control |-> c]
Piece(t, s) == E(t, s, FALSE)
Spelling == << Piece(Fallback("a"), 0), Piece(Fallback("b"), 0), Piece(Fallback("<"), 0),
               Piece(Fallback("E2"), 0), Piece(Fallback("96"), 0), Piece(Fallback("81"), 0) >>
MCVocabularies ==
  { << E(<<"<", "a", "<">>, 0, TRUE) >> \o Spelling
       \o << Piece(Marker, 1), Piece(<<"a">>, 1), Piece(<<"a", "b">>, 3), Piece(<<"b", "a">>, 4),
             Piece(Marker \o <<"a">>, 2), Piece(<<"a", "b", "a">>, 5), E(<<"<", "a">>, 0, TRUE) >>,
    Spelling \o << Piece(Marker, 0), Piece(<<"a", "a">>, 0), Piece(<<"a", "b">>, 0),
                   Piece(Marker \o Marker, 0) >>,
    Spelling }

\* Every pair of values of every kind, arrays of arrays included.
M(k, t, v) == [key |-> k, type |-> t, value |-> v]
Array(t, items) == [type |-> t, items |-> items]
MetaFor(k) ==
  { M(k, GGUF_METADATA_UINT32, 5), M(k, GGUF_METADATA_UINT64, 5),
    M(k, GGUF_METADATA_STRING, <<7, 8>>),
    M(k, GGUF_METADATA_ARRAY, Array(GGUF_METADATA_STRING, <<<<7>>, <<>>, <<8, 7>>>>)),
    M(k, GGUF_METADATA_ARRAY, Array(GGUF_METADATA_UINT64, <<1, 2>>)),
    M(k, GGUF_METADATA_ARRAY,
      Array(GGUF_METADATA_ARRAY, <<Array(GGUF_METADATA_UINT32, <<3>>),
                                   Array(GGUF_METADATA_STRING, <<<<7>>>>)>>)) }
MCMetas == {<<>>} \cup {<<p, q>> : p \in MetaFor(<<7>>), q \in MetaFor(<<7, 8>>)}
MCTensors == { <<>>,
               <<[name |-> <<9>>, dims |-> <<2, 2>>, offset |-> 0],
                 [name |-> <<9, 7>>, dims |-> <<3>>, offset |-> 4]>> }

LlmRunInit == part \in {"session", "tokenizer", "file"} /\ LlmInit /\ TokInit /\ GgufInit

LlmRunNext ==
  /\ UNCHANGED part
  /\ \/ part = "session"   /\ LlmNext  /\ UNCHANGED <<tokvars, ggufvars>>
     \/ part = "tokenizer" /\ TokNext  /\ UNCHANGED <<llmvars, ggufvars>>
     \/ part = "file"      /\ GgufNext /\ UNCHANGED <<llmvars, tokvars>>

LlmRunSpec == LlmRunInit /\ [][LlmRunNext]_allvars
================================================================================
