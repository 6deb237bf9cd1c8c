-------------------------------- MODULE Fbank --------------------------------
(***************************************************************************)
(* Which samples the streaming log-mel front end of the Persian model puts *)
(* into which frame.                                                       *)
(*                                                                         *)
(* Samples are numbered from 1 as the utterance's audio arrives.  After    *)
(* preemphasis a sample is the pair of itself and its predecessor, 0 for   *)
(* the very first.  A frame is its N_FFT pairs: window, FFT and filterbank *)
(* are functions of those and are left out.                                *)
(***************************************************************************)
EXTENDS Integers, SequencesExt

CONSTANTS N_FFT, HOP, CENTER_PAD

(* 512, 160 and 256 in the code: what a frame leaves behind must be enough *)
(* to mirror at the end of the utterance.                                  *)
ASSUME FbankAssumption ==
    /\ CENTER_PAD \in Nat \ {0} /\ HOP \in Nat \ {0}
    /\ N_FFT = 2 * CENTER_PAD
    /\ N_FFT - HOP > CENTER_PAD

Silence == <<0, 0>>

(* pending: preemphasised samples that a later frame needs; prev_raw: the  *)
(* last raw sample so far, 0 for none.                                     *)
NewFbank == [pending |-> << >>, prev_raw |-> 0, started |-> FALSE]

Preemphasise(f, xs) ==
    [i \in 1 .. Len(xs) |-> <<xs[i], IF i = 1 THEN f.prev_raw ELSE xs[i - 1]>>]

(* The predecessor of the next chunk's first sample.                       *)
LastRawOfChunk(f, xs) == IF xs = << >> THEN 0 ELSE xs[Len(xs)]
LastRaw(f, xs) == IF xs = << >> THEN f.prev_raw ELSE xs[Len(xs)]

(* np.pad(mode="reflect"): mirrors about the edge without repeating it, as *)
(* far as there is something to mirror.                                    *)
ReflectFront(x) ==
    [j \in 1 .. CENTER_PAD |->
        LET k == CENTER_PAD + 2 - j IN IF k <= Len(x) THEN x[k] ELSE Silence]

ReflectBack(x) ==
    [j \in 1 .. CENTER_PAD |-> IF j < Len(x) THEN x[Len(x) - j] ELSE Silence]

(* The front pad waits until there is enough of the utterance to mirror.   *)
Impatient(buf, last) == Len(buf) < CENTER_PAD /\ ~last
TooShort(buf, last) == Len(buf) <= CENTER_PAD /\ ~last

(* One push: the frames it completes and the state it leaves.              *)
FbankPush(f, xs, last) ==
    LET raw == f.pending \o Preemphasise(f, xs)
        front == IF f.started THEN raw ELSE ReflectFront(raw) \o raw
        buf == IF last THEN front \o ReflectBack(front) ELSE front
        n == IF Len(buf) < N_FFT THEN 0 ELSE (Len(buf) - N_FFT) \div HOP + 1
    IN  IF ~f.started /\ TooShort(raw, last)
        THEN [frames |-> << >>,
              state |-> [f EXCEPT !.pending = raw, !.prev_raw = LastRaw(f, xs)]]
        ELSE [frames |-> [t \in 1 .. n |->
                            SubSeq(buf, (t - 1) * HOP + 1, (t - 1) * HOP + N_FFT)],
              state |-> [pending |-> IF last THEN << >>
                                     ELSE SubSeq(buf, n * HOP + 1, Len(buf)),
                         prev_raw |-> LastRaw(f, xs), started |-> TRUE]]

-----------------------------------------------------------------------------
(* The reference: torch.stft(center = True, pad_mode = "reflect") of an    *)
(* utterance of N samples, by the position a frame reads.                  *)

Sample(p) == <<p, p - 1>>

Mirrored(N, p) ==
    CASE p < 1   -> IF 2 - p <= N THEN Sample(2 - p) ELSE Silence
      [] p \in 1 .. N -> Sample(p)

At(N, p) ==
    IF p <= N THEN Mirrored(N, p)
    ELSE IF 2 * N - p > -CENTER_PAD THEN Mirrored(N, 2 * N - p) ELSE Silence

ReferenceFrames(N) ==
    [t \in 1 .. N \div HOP + 1 |->
        [j \in 1 .. N_FFT |-> At(N, (t - 1) * HOP + j - CENTER_PAD)]]
=============================================================================
