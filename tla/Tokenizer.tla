-------------------------------- MODULE Tokenizer --------------------------------
(***************************************************************************)
(* tokenizer_encode of kernel/tokenizer.c: a prompt becomes one symbol per *)
(* UTF-8 character (control tokens are cut out whole), the best-scoring    *)
(* adjacent pair that is a vocabulary entry is merged until there is none, *)
(* and each symbol left is emitted as its entry or byte by byte.           *)
(*                                                                         *)
(* A byte is a string; Marker is the three bytes of U+2581 that stand for  *)
(* a space.  The entry "<0xXX>" of a byte is written Fallback(b).          *)
(***************************************************************************)
EXTENDS Integers, Sequences, SequencesExt, FiniteSets, FiniteSetsExt

CONSTANTS
  Alphabet,         \* the bytes a prompt is made of
  MaxText,          \* the longest prompt
  Vocabularies,     \* sequences of [text, score, control]
  EncodedBytes,     \* sizeof(encoded), 600
  TOKENIZER_MAX_SYMBOLS,
  MaxTokens         \* max_tokens, 32

ASSUME TokenizerAssumption ==
  /\ MaxText \in Nat
  /\ TOKENIZER_MAX_SYMBOLS \in Nat \ {0}
  /\ EncodedBytes > 3

VARIABLES
  vocab,     \* the vocabulary of the model
  text,      \* the prompt
  symbols,   \* the linked list, in order: [text, forced]
  tokens,    \* the result: indices of vocab
  stage      \* "none", "start", "merge", "done"

tokvars == <<vocab, text, symbols, tokens, stage>>

Marker == <<"E2", "96", "81">>
Fallback(b) == <<"<0x", b, ">">>

\* The index of the entry that is exactly these bytes; 0 for none (-1).
tokenizer_find_exact(bytes) ==
  LET hits == {i \in 1 .. Len(vocab) : vocab[i].text = bytes}
  IN IF hits = {} THEN 0 ELSE Min(hits)

\* The longest control token at the head of these bytes, the first of equals.
tokenizer_find_special_at(bytes) ==
  LET hits == {i \in 1 .. Len(vocab) :
                 vocab[i].control /\ vocab[i].text # <<>> /\ IsPrefix(vocab[i].text, bytes)}
      longest == {i \in hits : \A j \in hits : Len(vocab[j].text) <= Len(vocab[i].text)}
  IN IF hits = {} THEN 0 ELSE Min(longest)

utf8_char_len(b) == IF b = "E2" THEN 3 ELSE 1

\* The prompt with a marker before it and one for each space, as far as room
\* bytes hold it.
Marked(prompt, room) ==
  FoldLeft(LAMBDA out, b : IF Len(out) + 4 >= room THEN out
                           ELSE out \o (IF b = " " THEN Marker ELSE <<b>>), Marker, prompt)
Encoded(prompt) == Marked(prompt, EncodedBytes)

\* One symbol per character, up to TOKENIZER_MAX_SYMBOLS.
RECURSIVE Symbols(_, _)
Symbols(bytes, room) ==
  IF bytes = <<>> \/ room = 0 THEN <<>>
  ELSE LET forced == tokenizer_find_special_at(bytes)
           clen == IF forced # 0 THEN Len(vocab[forced].text)
                   ELSE Min({utf8_char_len(Head(bytes)), Len(bytes)})
       IN <<[text |-> SubSeq(bytes, 1, clen), forced |-> forced]>>
            \o Symbols(SubSeq(bytes, clen + 1, Len(bytes)), room - 1)

PairToken(i) == tokenizer_find_exact(symbols[i].text \o symbols[i + 1].text)

\* The pairs that may be merged, and the first of the best-scoring ones.
Mergeable ==
  {i \in 1 .. Len(symbols) - 1 :
     symbols[i].forced = 0 /\ symbols[i + 1].forced = 0 /\ PairToken(i) # 0}
BestPair ==
  LET score(i) == vocab[PairToken(i)].score
  IN Min({i \in Mergeable : \A j \in Mergeable : score(j) <= score(i)})

\* Variant: no spelling in bytes.
EmittedWhole(s) ==
  IF s.forced # 0 THEN <<s.forced>>
  ELSE IF tokenizer_find_exact(s.text) # 0 THEN <<tokenizer_find_exact(s.text)>> ELSE <<>>

\* What a symbol is emitted as.
Emitted(s) ==
  IF s.forced # 0 THEN <<s.forced>>
  ELSE IF tokenizer_find_exact(s.text) # 0 THEN <<tokenizer_find_exact(s.text)>>
  ELSE SelectSeq([k \in 1 .. Len(s.text) |-> tokenizer_find_exact(Fallback(s.text[k]))],
                 LAMBDA t : t # 0)

--------------------------------------------------------------------------------

TokInit ==
  /\ vocab = <<>>
  /\ text = <<>>
  /\ symbols = <<>> /\ tokens = <<>>
  /\ stage = "none"

\* The vocabulary, scores and control tokens are copied out of the GGUF file.
tokenizer_create(v) ==
  /\ stage = "none"
  /\ vocab' = v
  /\ stage' = "start"
  /\ UNCHANGED <<text, symbols, tokens>>

tokenizer_encode(prompt) ==
  /\ stage = "start"
  /\ text' = prompt
  /\ symbols' = Symbols(Encoded(prompt), TOKENIZER_MAX_SYMBOLS)
  /\ stage' = "merge"
  /\ UNCHANGED <<vocab, tokens>>

merge ==
  /\ stage = "merge" /\ Mergeable # {}
  /\ LET i == BestPair
     IN symbols' = SubSeq(symbols, 1, i - 1)
                     \o <<[text |-> symbols[i].text \o symbols[i + 1].text, forced |-> 0]>>
                     \o SubSeq(symbols, i + 2, Len(symbols))
  /\ UNCHANGED <<vocab, text, tokens, stage>>

emit ==
  /\ stage = "merge" /\ Mergeable = {}
  /\ LET all == FoldLeft(LAMBDA out, s : out \o Emitted(s), <<>>, symbols)
     IN tokens' = SubSeq(all, 1, Min({Len(all), MaxTokens}))
  /\ stage' = "done"
  /\ UNCHANGED <<vocab, text, symbols>>

TokNext ==
  \/ \E v \in Vocabularies : tokenizer_create(v)
  \/ \E prompt \in SeqOf(Alphabet, MaxText) : tokenizer_encode(prompt)
  \/ merge
  \/ emit

TokSpec == TokInit /\ [][TokNext]_tokvars

--------------------------------------------------------------------------------

\* The bytes a token stands for.
Bytes(t) ==
  IF \E b \in Alphabet \cup {"E2", "96", "81"} : vocab[t].text = Fallback(b)
    THEN <<vocab[t].text[2]>> ELSE vocab[t].text

\* Encoding loses nothing and adds nothing, whatever was merged, cut out or
\* spelled in bytes: the tokens spell the marked prompt from its beginning, and
\* all of it unless one of the three arrays is full.
EncodesText ==
  stage = "done" =>
    LET spelled == FoldLeft(LAMBDA out, t : out \o Bytes(t), <<>>, tokens)
        whole == Marked(text, 3 * Len(text) + 8)
        cut == \/ Len(tokens) = MaxTokens
               \/ Len(Encoded(text)) + 4 >= EncodedBytes
               \/ Len(Symbols(Encoded(text), TOKENIZER_MAX_SYMBOLS)) = TOKENIZER_MAX_SYMBOLS
    IN /\ IsPrefix(spelled, whole)
       /\ cut \/ spelled = whole
================================================================================
