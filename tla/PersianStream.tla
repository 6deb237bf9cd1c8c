---------------------------- MODULE PersianStream ----------------------------
(***************************************************************************)
(* One Persian dictation: PersianStream::push over the Fbank front end.    *)
(*                                                                         *)
(* Audio arrives cut into chunks of any length.  Frames queue up until a   *)
(* window of CHUNK_FRAMES is whole; the window advances by SHIFT_FRAMES.   *)
(* The encoder's answer to a window is one token, chosen freely here; what *)
(* it is trusted with is decoding a window that the code hands it.  Greedy *)
(* CTC and the removal of the first separator make text of the tokens.     *)
(***************************************************************************)
EXTENDS Fbank

CONSTANTS
    CHUNK_FRAMES, SHIFT_FRAMES,
    Tokens,         \* tokens other than the blank
    MaxChunk,       \* bound: samples in one push
    MaxSamples      \* bound: samples in the utterance

ASSUME StreamAssumption ==
    /\ SHIFT_FRAMES \in Nat \ {0} /\ CHUNK_FRAMES \in Nat /\ CHUNK_FRAMES > SHIFT_FRAMES
    /\ MaxChunk \in Nat /\ MaxSamples \in Nat
    /\ Tokens \subseteq {"sep", "sepword", "word"}

VARIABLES
    fed,            \* samples pushed so far
    fbank, queue,   \* the front end; frames not yet shifted out, by number
    caches,         \* FALSE once a failed step has taken them away
    prev_token, emitted, finished,
    frames, windows, tokens,    \* history: frames made, windows and tokens decoded
    text            \* history: what the calls have returned, concatenated

vars == <<fed, fbank, queue, caches, prev_token, emitted, finished,
          frames, windows, tokens, text>>

Blank == "blank"

Init ==
    /\ fed = 0
    /\ fbank = NewFbank
    /\ queue = << >>
    /\ caches = TRUE
    /\ prev_token = Blank
    /\ emitted = FALSE
    /\ finished = FALSE
    /\ frames = << >> /\ windows = << >> /\ tokens = << >> /\ text = << >>

-----------------------------------------------------------------------------

Least(a, b) == IF a < b THEN a ELSE b

(* What is left of n queued frames once a window has been shifted.  At the *)
(* end of the utterance a rest that the last window has seen is dropped.   *)
ShiftedKeeping(n, last) == n - Least(SHIFT_FRAMES, n)
Shifted(n, last) ==
    LET rest == n - Least(SHIFT_FRAMES, n)
    IN  IF last /\ rest < CHUNK_FRAMES /\ rest <= CHUNK_FRAMES - SHIFT_FRAMES
        THEN 0 ELSE rest

(* The windows that a push makes of n queued frames, each by the number of *)
(* frames queued when it is taken.                                         *)
Stops(n, last) == n < CHUNK_FRAMES /\ ~(last /\ n > 0)

Steps(n, last) ==
    LET from[m \in Nat] ==
            IF Stops(m, last) THEN << >> ELSE <<m>> \o from[Shifted(m, last)]
    IN  from[n]

(* The frames of the window taken when n of the queue q are left.          *)
Window(q, n) ==
    LET first == Len(q) - n + 1
    IN  SubSeq(q, first, first + Least(n, CHUNK_FRAMES) - 1)

(* Greedy CTC: a token counts when it is not the blank and not a repeat of *)
(* the token before it, which may have ended the last push.                *)
Uncarried(prev) == Blank
Carried(prev) == prev

Collapse(prev, toks) ==
    LET all == <<Carried(prev)>> \o toks
    IN  FlattenSeq([i \in 1 .. Len(toks) |->
            IF all[i + 1] # all[i] /\ all[i + 1] # Blank THEN <<all[i + 1]>> ELSE << >>])

Chars(tok) == CASE tok = "sep" -> << "_" >>
                [] tok = "sepword" -> << "_", "x" >>
                [] tok = "word" -> << "x" >>

Spell(toks) == FlattenSeq([i \in 1 .. Len(toks) |-> Chars(toks[i])])

TrimStart(s) ==
    IF \A i \in 1 .. Len(s) : s[i] = "_" THEN << >>
    ELSE LET first == CHOOSE i \in 1 .. Len(s) :
                        s[i] # "_" /\ \A j \in 1 .. i - 1 : s[j] = "_"
         IN  SubSeq(s, first, Len(s))

(* Only a chunk that carried text ends the trimming.                       *)
Emits(s) == TrimStart(s) # << >>

(* Which of a push's n steps fails, 0 for none: any may, and without the   *)
(* caches the first must, for the encoder refuses the empty ones left.     *)
CachesForgiven(n) == 0 .. n
Failing(n) == IF caches THEN 0 .. n ELSE {Least(1, n)}

(* A whole push.  fails = 0: every step succeeds.  Otherwise that step     *)
(* fails: it has taken the caches, the call returns an error and its text  *)
(* is lost, and neither its frames nor later ones leave the queue.         *)
Push(n, last) ==
    /\ ~finished
    /\ fed + n <= MaxSamples
    /\ LET out == FbankPush(fbank, [i \in 1 .. n |-> fed + i], last)
           q == queue \o [i \in 1 .. Len(out.frames) |-> Len(frames) + i]
           steps == Steps(Len(q), last)
       IN  \E fails \in Failing(Len(steps)) :
           LET done == IF fails = 0 THEN Len(steps) ELSE fails - 1
               left == IF fails # 0 THEN steps[fails]
                       ELSE IF steps = << >> THEN Len(q)
                       ELSE Shifted(Last(steps), last)
           IN  \E toks \in [1 .. done -> Tokens \cup {Blank}] :
               LET spelt == Spell(Collapse(prev_token, toks))
               IN  /\ fbank' = out.state
                   /\ frames' = frames \o out.frames
                   /\ queue' = SubSeq(q, Len(q) - left + 1, Len(q))
                   /\ windows' = windows \o [i \in 1 .. done |-> Window(q, steps[i])]
                   /\ tokens' = tokens \o toks
                   /\ prev_token' = IF done = 0 THEN prev_token ELSE toks[done]
                   /\ caches' = (caches /\ fails = 0)
                   /\ IF fails # 0 THEN UNCHANGED <<text, emitted>>
                      ELSE /\ text' = text \o (IF emitted THEN spelt ELSE TrimStart(spelt))
                           /\ emitted' = (emitted \/ Emits(spelt))
    /\ fed' = fed + n
    /\ finished' = last

(* "already closed" *)
PushAgain == finished /\ UNCHANGED vars

Next == (\E n \in 0 .. MaxChunk, last \in BOOLEAN : Push(n, last)) \/ PushAgain

Spec == Init /\ [][Next]_vars

-----------------------------------------------------------------------------

(* Fbank::push: "The result does not depend on how the audio is divided    *)
(* across calls."  However it was cut, the frames of a finished utterance  *)
(* are those of the whole audio, and before that they are the first of it. *)
FramesAreReference ==
    IF finished THEN frames = ReferenceFrames(fed)
                ELSE IsPrefix(frames, ReferenceFrames(fed))

(* However the audio was cut, the encoder sees the windows of the whole    *)
(* utterance in order: no frame is left out, and none is a window of       *)
(* nothing but frames that the window before it has decoded.               *)
ReferenceWindows ==
    [w \in 1 .. Len(windows) |->
        [i \in 1 .. Least(CHUNK_FRAMES, Len(frames) - (w - 1) * SHIFT_FRAMES) |->
            (w - 1) * SHIFT_FRAMES + i]]

WindowsCover ==
    caches =>
        /\ windows = ReferenceWindows
        /\ finished => /\ Last(Last(windows)) = Len(frames)
                       /\ Len(windows) > 1 =>
                            Last(windows[Len(windows) - 1]) < Len(frames)

(* The concatenated answers are the text of all tokens decoded, as if they *)
(* had come from one call: no symbol doubled or lost where two calls meet, *)
(* and only the utterance's first separators dropped.  A failure cuts the  *)
(* text short; it leaves no hole in it.                                    *)
Whole == TrimStart(Spell(Collapse(Blank, tokens)))

TextIsWhole ==
    /\ caches => text = Whole
    /\ IsPrefix(text, Whole)

(* A stream that has lost its caches, or was closed, never says another    *)
(* word: it fails loudly instead of decoding without its memory.           *)
SilentAfterLoss == [][~caches \/ finished => text' = text /\ windows' = windows]_vars
=============================================================================
