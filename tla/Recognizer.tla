----------------------------- MODULE Recognizer -----------------------------
(***************************************************************************)
(* One session's recognizer, of either engine: Recognizer::transcribe.     *)
(* The Persian one is PersianStream.  The multilingual one hands the audio *)
(* to parakeet-rs, which keeps what does not fill a chunk for the next     *)
(* call (external: known here from what the comment says of it), so        *)
(* that a last call pads with silence.  Its answer to a chunk is one       *)
(* token, chosen freely.  It may fail, or panic, in any call.  Unlike the  *)
(* Persian one, this recognizer goes on after a failure, and after a close *)
(* whose caller was not there to hear the answer: SttService says when a   *)
(* session is left with either.                                            *)
(***************************************************************************)
EXTENDS PersianStream

CONSTANTS
    CHUNK,          \* chunk_samples() of the multilingual model
    MaxSpeech,      \* bound: samples in its utterance
    MaxDecoded      \* bound: chunks of it, those of silence included

ASSUME ChunkAssumption == CHUNK \in Nat \ {0} /\ MaxSpeech \in Nat /\ MaxDecoded \in Nat

VARIABLES
    engine,         \* the variant
    buffer,         \* samples that parakeet-rs holds back
    decoded,        \* history: the chunks it has decoded
    aligned,        \* history: every call but the closes was whole chunks
    closed,         \* the last call was a close, and was answered
    failed          \* history: samples fed up to the last failure

nemotron == <<buffer, decoded, aligned, closed, failed>>
allVars == <<vars, engine, nemotron>>

Zero == 0          \* a sample of silence
Quiet(n) == [i \in 1 .. n |-> Zero]

RecInit ==
    /\ Init
    /\ engine \in {"nemotron", "persian"}
    /\ buffer = << >> /\ decoded = << >>
    /\ aligned = TRUE /\ closed = FALSE /\ failed = 0

-----------------------------------------------------------------------------

(* The silence that a call of n samples is padded with: up to the next     *)
(* multiple of a chunk, and a chunk more.                                  *)
PaddedOnce(n, last) ==
    IF last THEN Quiet((CHUNK - (n % CHUNK)) % CHUNK) ELSE << >>
Padding(n, last) ==
    IF last THEN Quiet(((CHUNK - (n % CHUNK)) % CHUNK) + CHUNK) ELSE << >>

(* What parakeet-rs renders of the tokens of its chunks.                   *)
Rendered(toks) ==
    FlattenSeq([i \in 1 .. Len(toks) |-> IF toks[i] = Blank THEN << >> ELSE Chars(toks[i])])

Piece(s, j) == SubSeq(s, (j - 1) * CHUNK + 1, j * CHUNK)

(* drop_leading_separator: nothing is dropped once a word has been said.   *)
DroppedAlways(s) == TrimStart(s)
Dropped(s) == IF emitted THEN s ELSE TrimStart(s)

(* What a call of n samples leaves parakeet-rs with, and the whole chunks  *)
(* that this makes.                                                        *)
Held(n, last) == buffer \o [i \in 1 .. n |-> fed + i] \o Padding(n, last)
WholeChunks(n, last) == Len(Held(n, last)) \div CHUNK

Called(n, last) ==
    /\ engine = "nemotron"
    /\ fed + n <= MaxSpeech
    /\ Len(decoded) + WholeChunks(n, last) <= MaxDecoded
    /\ fed' = fed + n
    /\ UNCHANGED <<fbank, queue, caches, prev_token, finished, frames, windows, engine>>

Transcribe(n, last) ==
    /\ Called(n, last)
    /\ LET held == Held(n, last)
           whole == WholeChunks(n, last)
       IN  /\ decoded' = decoded \o [j \in 1 .. whole |-> Piece(held, j)]
           /\ buffer' = SubSeq(held, whole * CHUNK + 1, Len(held))
           /\ \E toks \in [1 .. whole -> Tokens \cup {Blank}] :
                /\ tokens' = tokens \o toks
                /\ text' = text \o Dropped(Rendered(toks))
                /\ emitted' = (emitted \/ Emits(Rendered(toks)))
    /\ aligned' = (aligned /\ (last \/ n % CHUNK = 0))
    /\ closed' = last
    /\ UNCHANGED failed

(* transcribe_chunk fails: the caller gets no text, and emitted is as it   *)
(* was.  What parakeet-rs keeps of the audio is not known: what it held    *)
(* before the call, or any end of what it holds with it.                   *)
TranscribeFails(n, last) ==
    /\ Called(n, last)
    /\ LET held == Held(n, last)
       IN  \/ UNCHANGED buffer
           \/ \E gone \in 0 .. Len(held) : buffer' = SubSeq(held, gone + 1, Len(held))
    /\ aligned' = (buffer' = << >>)
    /\ closed' = FALSE
    /\ failed' = fed'
    /\ UNCHANGED <<decoded, tokens, text, emitted>>

PersianNext == engine = "persian" /\ Next /\ UNCHANGED <<engine, nemotron>>

RecNext ==
    \/ PersianNext
    \/ \E n \in 0 .. MaxChunk, last \in BOOLEAN :
            Transcribe(n, last) \/ TranscribeFails(n, last)

RecSpec == RecInit /\ [][RecNext]_allVars

-----------------------------------------------------------------------------

(* "Every utterance would lose its ending": when a close is answered, every *)
(* sample fed since the last failed call is in a decoded chunk, however it  *)
(* was cut, even behind an earlier close; and if all calls but the closes   *)
(* were whole chunks, a whole chunk of silence was decoded after it as      *)
(* well.  No sample is ever decoded twice or out of order, failures or not. *)
(* Of what was fed up to a failure more than that is not true: a session    *)
(* goes on after one, and its text has a hole there.                        *)
Earlier(j, i, k, l) == j < k \/ (j = k /\ i < l)

TailDecoded ==
    /\ \A j, k \in DOMAIN decoded : \A i, l \in 1 .. CHUNK :
            Earlier(j, i, k, l) /\ decoded[j][i] # Zero /\ decoded[k][l] # Zero
                => decoded[j][i] < decoded[k][l]
    /\ closed =>
        /\ \A s \in failed + 1 .. fed :
                \E j \in DOMAIN decoded : \E i \in 1 .. CHUNK : decoded[j][i] = s
        /\ aligned => /\ decoded # << >> /\ Last(decoded) = Quiet(CHUNK)
                      /\ buffer = << >>

(* The answers put together are what was decoded, on either engine: a       *)
(* Persian text is whole (TextIsWhole), a multilingual one is that of all   *)
(* chunks whose call was answered, and loses its first separator, once,     *)
(* however many answers were empty or failed before it, and no separator    *)
(* between words.                                                           *)
SeparatorOnce ==
    IF engine = "persian" THEN TextIsWhole ELSE text = TrimStart(Rendered(tokens))
=============================================================================
