--------------------------- MODULE RecognizerProofs ---------------------------
(* What a recognizer hears of an utterance, for every size of a frame, a    *)
(* hop, a window and a chunk, every cut of the audio and every answer of    *)
(* the models.                                                              *)
EXTENDS Recognizer, SequenceTheorems, WellFoundedInduction, TLAPS

-----------------------------------------------------------------------------
(* Arithmetic                                                              *)

(* Products are distributive.                                              *)
LEMMA Distrib == \A a, b, c \in Int : (a + b) * c = a * c + b * c
  OBVIOUS

(* A quotient is the last multiple that is not too large.                  *)
LEMMA DivIs ==
    \A a \in Nat, h \in Nat \ {0} :
        /\ a \div h \in Nat /\ a % h \in 0 .. h - 1
        /\ a = ((a \div h) * h) + (a % h)
  OBVIOUS

(* Multiples are ordered as their factors.                                 *)
LEMMA Multiples ==
    \A a, b \in Int, h \in Nat \ {0} :
        /\ a <= b <=> a * h <= b * h
        /\ a * h < b * h + h => a <= b
  OBVIOUS

(* Only one quotient leaves a remainder.                                   *)
LEMMA DivBy ==
    \A a, q \in Nat, h \in Nat \ {0} : q * h <= a /\ a < q * h + h => a \div h = q
  BY DivIs, Multiples

-----------------------------------------------------------------------------
(* Sequences by their indexes                                              *)

OfLength(s, n) == s = [i \in 1 .. n |-> s[i]]

(* A function on an initial segment is a sequence.                         *)
LEMMA IsSequence ==
    ASSUME NEW n \in Nat, NEW s, OfLength(s, n), NEW S, \A i \in 1 .. n : s[i] \in S
    PROVE  s \in Seq(S) /\ Len(s) = n
<1>1. s \in [1 .. n -> S] BY DEF OfLength
<1>2. s \in Seq(S) BY <1>1, IsASeq
<1> QED BY <1>1, <1>2, LenProperties

(* Its length is the end of the segment.                                   *)
LEMMA LenIs ==
    ASSUME NEW n \in Nat, NEW s, OfLength(s, n)
    PROVE  Len(s) = n
<1> DEFINE S == {s[i] : i \in 1 .. n}
<1>1. \A i \in 1 .. n : s[i] \in S OBVIOUS
<1> HIDE DEF S
<1> QED BY <1>1, IsSequence

(* Two of them put together.                                               *)
LEMMA Joined ==
    ASSUME NEW a \in Nat, NEW b \in Nat, NEW s, NEW t, NEW w,
           OfLength(s, a), OfLength(t, b), OfLength(w, a + b),
           \A i \in 1 .. a : w[i] = s[i], \A i \in 1 .. b : w[a + i] = t[i]
    PROVE  s \o t = w
<1> DEFINE S == {s[i] : i \in 1 .. a} \cup {t[i] : i \in 1 .. b}
<1>1. (\A i \in 1 .. a : s[i] \in S) /\ (\A i \in 1 .. b : t[i] \in S) OBVIOUS
<1> HIDE DEF S
<1>2. s \in Seq(S) /\ Len(s) = a /\ t \in Seq(S) /\ Len(t) = b BY <1>1, IsSequence
<1>3. /\ s \o t \in Seq(S) /\ Len(s \o t) = a + b
      /\ \A i \in 1 .. a + b : (s \o t)[i] = IF i <= a THEN s[i] ELSE t[i - a]
  BY <1>2, ConcatProperties, ZenonT(30)
<1>4. s \o t = [i \in 1 .. a + b |-> (s \o t)[i]] BY <1>3, LenProperties
<1>5. \A i \in 1 .. a + b : w[i] = IF i <= a THEN s[i] ELSE t[i - a]
  <2> TAKE i \in 1 .. a + b
  <2>1. CASE i <= a BY <2>1
  <2>2. CASE i > a
    <3>1. i - a \in 1 .. b /\ a + (i - a) = i BY <2>2
    <3> QED BY <2>2, <3>1
  <2> QED BY <2>1, <2>2
<1> QED BY <1>3, <1>4, <1>5, ZenonT(30) DEF OfLength

(* A stretch of one of them.                                               *)
LEMMA Stretch ==
    ASSUME NEW n \in Nat, NEW s, OfLength(s, n),
           NEW b \in Nat, NEW c \in Nat, c <= n, b <= c
    PROVE  SubSeq(s, b + 1, c) = [i \in 1 .. c - b |-> s[b + i]]
  BY DEF OfLength

-----------------------------------------------------------------------------
(* The front end                                                           *)

(* The samples that a push of n brings after N.                             *)
Samples(N, n) == [i \in 1 .. n |-> Sample(N + i)]
FirstSamples(N) == [i \in 1 .. N |-> Sample(i)]

(* How many samples wait after N samples and T frames, then and at the end; *)
(* and where T frames may have come to.                                     *)
Waiting(N, T) == N + CENTER_PAD - (T * HOP)
ToTheEnd(N, T) == N + N_FFT - (T * HOP)
OnTheWay(N, T) == N > CENTER_PAD /\ (T - 1) * HOP + CENTER_PAD <= N /\ N > T * HOP

(* What is pending after N samples and T frames.                           *)
Pending(N, T) ==
    [i \in 1 .. N + CENTER_PAD - (T * HOP) |-> Mirrored(N, (T * HOP) + i - CENTER_PAD)]

(* The first T frames of N samples.                                        *)
FirstFrames(N, T) ==
    [t \in 1 .. T |-> [j \in 1 .. N_FFT |-> At(N, ((t - 1) * HOP) + j - CENTER_PAD)]]

(* The front end, between two pushes of an utterance of N samples so far.  *)
FrontEnd(f, N, T) ==
    /\ N \in Nat /\ T \in Nat
    /\ f = [pending |-> f.pending, prev_raw |-> f.prev_raw, started |-> f.started]
    /\ f.prev_raw = N
    /\ \/ /\ ~f.started
          /\ T = 0 /\ N <= CENTER_PAD
          /\ f.pending = FirstSamples(N)
       \/ /\ f.started
          /\ OnTheWay(N, T)
          /\ f.pending = Pending(N, T)

(* What a position holds does not change as the utterance grows.           *)
LEMMA MirroredStays ==
    ASSUME NEW N \in Nat, NEW M \in Nat, N > CENTER_PAD, M >= N,
           NEW p \in Int, p > -CENTER_PAD, p <= N
    PROVE  Mirrored(N, p) = Mirrored(M, p) /\ At(N, p) = At(M, p) /\ At(N, p) = Mirrored(N, p)
<1>1. CENTER_PAD \in Nat \ {0} BY FbankAssumption
<1>2. CASE p < 1 BY <1>1, <1>2 DEF Mirrored, At
<1>3. CASE p >= 1
  <2>1. p \in 1 .. N /\ p \in 1 .. M BY <1>3
  <2> QED BY <1>1, <1>3, <2>1 DEF Mirrored, At
<1> QED BY <1>2, <1>3

(* What the samples of a push are made of.                                 *)
LEMMA PreemphasisedAre ==
    ASSUME NEW N \in Nat, NEW n \in Nat, NEW f, f.prev_raw = N
    PROVE  /\ Preemphasise(f, [i \in 1 .. n |-> N + i]) = Samples(N, n)
           /\ LastRaw(f, [i \in 1 .. n |-> N + i]) = N + n
<1> DEFINE xs == [i \in 1 .. n |-> N + i]
<1>1. Len(xs) = n /\ \A i \in 1 .. n : xs[i] = N + i OBVIOUS
<1>2. xs = << >> <=> n = 0 OBVIOUS
<1> HIDE DEF xs
<1>3. Preemphasise(f, xs) = Samples(N, n)
  <2>1. \A i \in 1 .. n : <<xs[i], IF i = 1 THEN f.prev_raw ELSE xs[i - 1]>> = Sample(N + i)
    BY <1>1 DEF Sample
  <2> QED BY <1>1, <2>1 DEF Preemphasise, Samples
<1>4. LastRaw(f, xs) = N + n BY <1>1, <1>2 DEF LastRaw
<1> QED BY <1>3, <1>4 DEF xs

(* The first push that does not wait puts the mirrored front before it.     *)
LEMMA FrontPadded ==
    ASSUME NEW M \in Nat, NEW raw, raw = FirstSamples(M)
    PROVE  ReflectFront(raw) \o raw = Pending(M, 0)
<1>1. CENTER_PAD \in Nat \ {0} /\ HOP \in Nat BY FbankAssumption
<1>2. Len(raw) = M /\ \A i \in 1 .. M : raw[i] = Sample(i) BY DEF FirstSamples
<1> DEFINE pad == ReflectFront(raw)
<1>3. pad = [j \in 1 .. CENTER_PAD |-> Mirrored(M, j - CENTER_PAD)]
  <2>1. \A j \in 1 .. CENTER_PAD :
            (IF CENTER_PAD + 2 - j <= Len(raw) THEN raw[CENTER_PAD + 2 - j] ELSE Silence)
                = Mirrored(M, j - CENTER_PAD)
    <3> TAKE j \in 1 .. CENTER_PAD
    <3>1. j - CENTER_PAD < 1 /\ 2 - (j - CENTER_PAD) = CENTER_PAD + 2 - j BY <1>1
    <3>2. Mirrored(M, j - CENTER_PAD)
            = IF CENTER_PAD + 2 - j <= M THEN Sample(CENTER_PAD + 2 - j) ELSE Silence
      BY <1>1, <3>1 DEF Mirrored
    <3> QED BY <1>1, <1>2, <3>2
  <2> QED BY <2>1 DEF ReflectFront
<1>4. Len(pad) = CENTER_PAD /\ \A j \in 1 .. CENTER_PAD : pad[j] = Mirrored(M, j - CENTER_PAD)
  BY <1>1, <1>3
<1> HIDE DEF pad
<1>5. OfLength(pad, CENTER_PAD) /\ OfLength(raw, M)
  BY <1>2, <1>3 DEF OfLength, FirstSamples
<1>6. \A i \in 1 .. M : raw[i] = Mirrored(M, i)
  BY <1>2 DEF Mirrored
<1>7. pad \o raw = [i \in 1 .. CENTER_PAD + M |-> Mirrored(M, i - CENTER_PAD)]
  <2> DEFINE w == [i \in 1 .. CENTER_PAD + M |-> Mirrored(M, i - CENTER_PAD)]
  <2>1. OfLength(w, CENTER_PAD + M) BY DEF OfLength
  <2>2. \A i \in 1 .. CENTER_PAD : w[i] = pad[i] BY <1>1, <1>4
  <2>3. \A i \in 1 .. M : w[CENTER_PAD + i] = raw[i] BY <1>1, <1>6
  <2> HIDE DEF w
  <2>4. pad \o raw = w BY <1>1, <1>5, <2>1, <2>2, <2>3, Joined
  <2> QED BY <2>4 DEF w
<1>8. Pending(M, 0) = [i \in 1 .. CENTER_PAD + M |-> Mirrored(M, i - CENTER_PAD)]
  <2>1. 0 * HOP = 0 BY <1>1
  <2>2. M + CENTER_PAD - (0 * HOP) = CENTER_PAD + M BY <1>1, <2>1
  <2>3. \A i \in 1 .. CENTER_PAD + M : (0 * HOP) + i - CENTER_PAD = i - CENTER_PAD
    BY <1>1, <2>1
  <2> QED BY <2>2, <2>3 DEF Pending
<1> QED BY <1>7, <1>8 DEF pad

(* Later pushes append to what is pending.                                 *)
LEMMA PendingGrows ==
    ASSUME NEW N \in Nat, NEW T \in Nat, NEW n \in Nat,
           N > CENTER_PAD, N > T * HOP
    PROVE  Pending(N, T) \o Samples(N, n) = Pending(N + n, T)
<1> DEFINE off == T * HOP
           old == Pending(N, T)
           new == Samples(N, n)
           L == N + CENTER_PAD - off
<1>1. CENTER_PAD \in Nat \ {0} /\ HOP \in Nat /\ off \in Nat BY FbankAssumption
<1>2. L \in Nat BY <1>1
<1>3. old = [i \in 1 .. L |-> Mirrored(N, off + i - CENTER_PAD)] BY DEF Pending
<1>4. Pending(N + n, T) = [i \in 1 .. L + n |-> Mirrored(N + n, off + i - CENTER_PAD)]
  <2>1. N + n + CENTER_PAD - off = L + n BY <1>1
  <2> QED BY <2>1 DEF Pending
<1> HIDE DEF off
<1>5. \A i \in 1 .. L : old[i] = Mirrored(N + n, off + i - CENTER_PAD)
  <2> TAKE i \in 1 .. L
  <2>1. old[i] = Mirrored(N, off + i - CENTER_PAD) BY <1>3
  <2>2. off + i - CENTER_PAD \in Int /\ off + i - CENTER_PAD > -CENTER_PAD
        /\ off + i - CENTER_PAD <= N
    BY <1>1
  <2> QED BY <2>1, <2>2, MirroredStays
<1>6. \A i \in 1 .. n : new[i] = Mirrored(N + n, off + (L + i) - CENTER_PAD)
  <2> TAKE i \in 1 .. n
  <2>1. off + (L + i) - CENTER_PAD = N + i /\ N + i \in 1 .. N + n BY <1>1
  <2> QED BY <2>1 DEF Mirrored, Samples
<1>7. OfLength(old, L) /\ OfLength(new, n) BY <1>3 DEF OfLength, Samples
<1> HIDE DEF old, new, L
<1>8. OfLength(Pending(N + n, T), L + n) BY <1>4 DEF OfLength
<1>9. \A i \in 1 .. L : Pending(N + n, T)[i] = old[i] BY <1>2, <1>4, <1>5
<1>10. \A i \in 1 .. n : Pending(N + n, T)[L + i] = new[i] BY <1>2, <1>4, <1>6
<1>11. old \o new = Pending(N + n, T) BY <1>2, <1>7, <1>8, <1>9, <1>10, Joined
<1> QED BY <1>11 DEF old, new

(* A stretch of the padded utterance, from the first sample of frame T + 1. *)
Padded(N, T, L) == [i \in 1 .. L |-> At(N, (T * HOP) + i - CENTER_PAD)]

(* What is pending is such a stretch.                                      *)
LEMMA PendingPadded ==
    ASSUME NEW M \in Nat, NEW T \in Nat
    PROVE  Pending(M, T) = Padded(M, T, Waiting(M, T))
<1> DEFINE off == T * HOP
<1>1. CENTER_PAD \in Nat /\ off \in Nat BY FbankAssumption
<1> HIDE DEF off
<1>2. \A i \in 1 .. M + CENTER_PAD - off : off + i - CENTER_PAD <= M BY <1>1
<1>3. \A i \in 1 .. M + CENTER_PAD - off :
        At(M, off + i - CENTER_PAD) = Mirrored(M, off + i - CENTER_PAD)
  BY <1>2 DEF At
<1> QED BY <1>3 DEF Pending, Padded, Waiting, off

(* At the end of the utterance the mirrored back is put after it.          *)
LEMMA BackPadded ==
    ASSUME NEW M \in Nat, NEW T \in Nat, M > T * HOP \/ T = 0
    PROVE  Pending(M, T) \o ReflectBack(Pending(M, T)) = Padded(M, T, ToTheEnd(M, T))
<1> DEFINE off == T * HOP
           L == M + CENTER_PAD - off
           front == Pending(M, T)
           pad == ReflectBack(front)
           w == Padded(M, T, L + CENTER_PAD)
<1>1. CENTER_PAD \in Nat \ {0} /\ N_FFT = 2 * CENTER_PAD /\ HOP \in Nat /\ off \in Nat
  BY FbankAssumption
<1>2. M > off \/ off = 0 BY <1>1
<1>3. w = Padded(M, T, ToTheEnd(M, T))
  <2>1. L + CENTER_PAD = M + N_FFT - off BY <1>1
  <2> QED BY <2>1 DEF ToTheEnd
<1>4. front = [i \in 1 .. L |-> Mirrored(M, off + i - CENTER_PAD)] BY DEF Pending
<1>5. front = Padded(M, T, L) BY PendingPadded DEF Waiting
<1>6. \A i \in 1 .. L : front[i] = At(M, off + i - CENTER_PAD) BY <1>5 DEF Padded
<1>7. w = [i \in 1 .. L + CENTER_PAD |-> At(M, off + i - CENTER_PAD)] BY DEF Padded
<1> HIDE DEF off
<1>8. L \in Nat BY <1>1, <1>2
<1>9. OfLength(front, L) BY <1>4 DEF OfLength
<1>10. Len(front) = L BY <1>8, <1>9, LenIs
<1> HIDE DEF front, w
<1>11. pad = [j \in 1 .. CENTER_PAD |-> IF j < L THEN front[L - j] ELSE Silence]
  BY <1>10 DEF ReflectBack
<1> HIDE DEF pad
<1>12. \A j \in 1 .. CENTER_PAD : w[L + j] = pad[j]
  <2> TAKE j \in 1 .. CENTER_PAD
  <2>1. w[L + j] = At(M, off + (L + j) - CENTER_PAD) BY <1>1, <1>7, <1>8
  <2>2. off + (L + j) - CENTER_PAD = M + j BY <1>1
  <2>3. M + j > M /\ 2 * M - (M + j) = M - j BY <1>1
  <2>4. At(M, M + j) = IF M - j > -CENTER_PAD THEN Mirrored(M, M - j) ELSE Silence
    BY <2>3 DEF At
  <2>5. CASE j < L
    <3>1. L - j \in 1 .. L BY <1>1, <1>8, <2>5
    <3>2. off + (L - j) - CENTER_PAD = M - j BY <1>1
    <3>3. front[L - j] = Mirrored(M, M - j) BY <1>4, <3>1, <3>2
    <3>4. M - j > -CENTER_PAD BY <1>1, <1>2, <2>5
    <3> QED BY <1>11, <2>1, <2>2, <2>4, <2>5, <3>3, <3>4
  <2>6. CASE ~(j < L)
    <3>1. ~(M - j > -CENTER_PAD) BY <1>1, <1>2, <2>6
    <3> QED BY <1>11, <2>1, <2>2, <2>4, <2>6, <3>1
  <2> QED BY <2>5, <2>6
<1>13. \A i \in 1 .. L : w[i] = front[i] BY <1>1, <1>6, <1>7, <1>8
<1>14. OfLength(pad, CENTER_PAD) /\ OfLength(w, L + CENTER_PAD) BY <1>7, <1>11 DEF OfLength
<1> HIDE DEF L
<1>15. front \o pad = w BY <1>1, <1>8, <1>9, <1>12, <1>13, <1>14, Joined
<1> QED BY <1>3, <1>15 DEF front, pad

(* The first n frames of a stretch, and what is left of it.                *)
CutFrom(buf, n) ==
    [t \in 1 .. n |-> SubSeq(buf, (t - 1) * HOP + 1, (t - 1) * HOP + N_FFT)]

RestOf(buf, n) == SubSeq(buf, n * HOP + 1, Len(buf))

(* The samples of frames T + 1 to T + k.                                    *)
NextFrames(M, T, k) ==
    [t \in 1 .. k |-> [j \in 1 .. N_FFT |-> At(M, ((T + t - 1) * HOP) + j - CENTER_PAD)]]

(* How many are cut from L samples, and that no more could be.             *)
CutOf(L) == IF L < N_FFT THEN 0 ELSE (L - N_FFT) \div HOP + 1
AllCut(L, n) == L < (n * HOP) + N_FFT /\ (n > 0 => ((n - 1) * HOP) + N_FFT <= L)

(* How many frames are cut from a stretch, and what is left of it.         *)
LEMMA FramesCut ==
    ASSUME NEW M \in Nat, NEW T \in Nat, NEW L \in Nat
    PROVE  /\ CutOf(L) \in Nat
           /\ AllCut(L, CutOf(L))
           /\ CutFrom(Padded(M, T, L), CutOf(L)) = NextFrames(M, T, CutOf(L))
           /\ RestOf(Padded(M, T, L), CutOf(L)) = Padded(M, T + CutOf(L), L - (CutOf(L) * HOP))
<1> DEFINE n == CutOf(L)
           q == (L - N_FFT) \div HOP
           buf == Padded(M, T, L)
<1>1. /\ CENTER_PAD \in Nat \ {0} /\ HOP \in Nat \ {0} /\ N_FFT \in Nat
      /\ N_FFT - HOP > CENTER_PAD
  BY FbankAssumption
<1>2. L >= N_FFT => /\ q \in Nat /\ (L - N_FFT) % HOP \in 0 .. HOP - 1
                    /\ L - N_FFT = (q * HOP) + ((L - N_FFT) % HOP)
  <2>1. L >= N_FFT => L - N_FFT \in Nat BY <1>1
  <2> DEFINE a == L - N_FFT
  <2> HIDE DEF a
  <2>2. a \in Nat => /\ a \div HOP \in Nat /\ a % HOP \in 0 .. HOP - 1
                     /\ a = ((a \div HOP) * HOP) + (a % HOP)
    BY <1>1, DivIs
  <2> QED BY <2>1, <2>2 DEF a
<1>9. n = IF L < N_FFT THEN 0 ELSE q + 1 BY DEF CutOf
<1> HIDE DEF n, q
<1>3. n \in Nat BY <1>1, <1>2, <1>9
<1>4. L < (n * HOP) + N_FFT
  <2>1. CASE L < N_FFT BY <1>1, <1>9, <2>1
  <2>2. CASE L >= N_FFT
    <3>1. n = q + 1 BY <1>1, <1>9, <2>2
    <3>2. n * HOP = (q * HOP) + HOP BY <1>1, <1>2, <2>2, <3>1, Distrib
    <3> QED BY <1>1, <1>2, <2>2, <3>2
  <2> QED BY <1>1, <2>1, <2>2
<1>5. n > 0 => ((n - 1) * HOP) + N_FFT <= L
  <2> SUFFICES ASSUME n > 0 PROVE ((n - 1) * HOP) + N_FFT <= L OBVIOUS
  <2>1. L >= N_FFT /\ n - 1 = q BY <1>1, <1>2, <1>9
  <2> QED BY <1>1, <1>2, <2>1
<1>6. OfLength(buf, L) /\ \A i \in 1 .. L : buf[i] = At(M, (T * HOP) + i - CENTER_PAD)
  BY DEF OfLength, Padded
<1> HIDE DEF buf
<1>7. ASSUME NEW t \in 1 .. n
      PROVE  SubSeq(buf, (t - 1) * HOP + 1, (t - 1) * HOP + N_FFT)
                = [j \in 1 .. N_FFT |-> At(M, ((T + t - 1) * HOP) + j - CENTER_PAD)]
  <2> DEFINE b == (t - 1) * HOP
  <2>1. t \in Nat /\ t - 1 \in Nat /\ t - 1 <= n - 1 /\ n > 0 BY <1>3
  <2>2. b \in Nat BY <1>1, <2>1
  <2>3. b <= (n - 1) * HOP BY <1>1, <1>3, <2>1, Multiples
  <2>4. (T + t - 1) * HOP = (T * HOP) + b
    <3>1. T + t - 1 = T + (t - 1) BY <2>1
    <3> QED BY <1>1, <2>1, <3>1, Distrib
  <2> HIDE DEF b
  <2>5. b + N_FFT <= L
    <3>1. (n - 1) * HOP \in Int BY <1>1, <1>3
    <3> QED BY <1>1, <1>5, <2>1, <2>2, <2>3, <3>1
  <2>6. SubSeq(buf, b + 1, b + N_FFT) = [i \in 1 .. (b + N_FFT) - b |-> buf[b + i]]
    BY <1>1, <1>6, <2>2, <2>5, Stretch
  <2>7. (b + N_FFT) - b = N_FFT BY <1>1, <2>2
  <2>8. T * HOP \in Int BY <1>1
  <2>9. \A j \in 1 .. N_FFT : buf[b + j] = At(M, ((T * HOP) + b) + j - CENTER_PAD)
    <3> TAKE j \in 1 .. N_FFT
    <3>1. b + j \in 1 .. L BY <1>1, <2>2, <2>5
    <3>2. (T * HOP) + (b + j) - CENTER_PAD = ((T * HOP) + b) + j - CENTER_PAD
      BY <1>1, <2>2, <2>8
    <3> QED BY <1>6, <3>1, <3>2
  <2>10. SubSeq(buf, b + 1, b + N_FFT)
            = [j \in 1 .. N_FFT |-> At(M, ((T * HOP) + b) + j - CENTER_PAD)]
    BY <2>6, <2>7, <2>9
  <2> QED BY <2>4, <2>10 DEF b
<1>8. SubSeq(buf, n * HOP + 1, L) = Padded(M, T + n, L - (n * HOP))
  <2> DEFINE b == n * HOP
  <2>1. b \in Nat /\ T * HOP \in Int BY <1>1, <1>3
  <2>2. (T + n) * HOP = (T * HOP) + b BY <1>1, <1>3, Distrib
  <2>3. b <= L
    <3>1. CASE n = 0 BY <1>1, <3>1
    <3>2. CASE n > 0
      <4>1. b = ((n - 1) * HOP) + HOP
        <5>1. n = (n - 1) + 1 BY <1>3
        <5>2. ((n - 1) + 1) * HOP = ((n - 1) * HOP) + (1 * HOP)
          BY <1>1, <1>3, Distrib
        <5> QED BY <1>1, <5>1, <5>2
      <4>2. (n - 1) * HOP \in Int BY <1>1, <1>3
      <4> HIDE DEF b
      <4> QED BY <1>1, <1>5, <3>2, <4>1, <4>2
    <3> QED BY <1>3, <3>1, <3>2
  <2>4. Padded(M, T + n, L - b) = [i \in 1 .. L - b |-> At(M, ((T * HOP) + b) + i - CENTER_PAD)]
    BY <2>2 DEF Padded
  <2> HIDE DEF b
  <2>5. SubSeq(buf, b + 1, L) = [i \in 1 .. L - b |-> buf[b + i]]
    BY <1>6, <2>1, <2>3, Stretch
  <2>6. \A i \in 1 .. L - b : buf[b + i] = At(M, ((T * HOP) + b) + i - CENTER_PAD)
    <3> TAKE i \in 1 .. L - b
    <3>1. b + i \in 1 .. L BY <2>1, <2>3
    <3>2. (T * HOP) + (b + i) - CENTER_PAD = ((T * HOP) + b) + i - CENTER_PAD
      BY <1>1, <2>1
    <3> QED BY <1>6, <3>1, <3>2
  <2>7. SubSeq(buf, b + 1, L) = Padded(M, T + n, L - b) BY <2>4, <2>5, <2>6
  <2> QED BY <2>7 DEF b
<1>10. Len(buf) = L BY <1>6, LenIs
<1> QED BY <1>3, <1>4, <1>5, <1>7, <1>8, <1>10 DEF buf, n, CutFrom, NextFrames, AllCut, RestOf

(* What has to be cut into frames, once the front is padded.               *)
Raw(f, N, n) == f.pending \o Samples(N, n)

(* It is the utterance so far, and the mirror of its beginning before it.  *)
LEMMA FrontIs ==
    ASSUME NEW f, NEW N, NEW T, FrontEnd(f, N, T), NEW n \in Nat
    PROVE  /\ ~f.started => /\ Raw(f, N, n) = FirstSamples(N + n)
                            /\ Len(Raw(f, N, n)) = N + n
                            /\ ReflectFront(Raw(f, N, n)) \o Raw(f, N, n) = Pending(N + n, T)
           /\ f.started => Raw(f, N, n) = Pending(N + n, T)
<1>1. N \in Nat /\ T \in Nat BY DEF FrontEnd
<1>2. ASSUME f.started PROVE Raw(f, N, n) = Pending(N + n, T)
  <2>1. N > CENTER_PAD /\ N > T * HOP /\ f.pending = Pending(N, T)
    BY <1>2 DEF FrontEnd, OnTheWay
  <2> QED BY <1>1, <2>1, PendingGrows, ZenonT(30) DEF Raw
<1>3. ASSUME ~f.started
      PROVE  /\ Raw(f, N, n) = FirstSamples(N + n)
             /\ Len(Raw(f, N, n)) = N + n
             /\ ReflectFront(Raw(f, N, n)) \o Raw(f, N, n) = Pending(N + n, T)
  <2>1. T = 0 /\ f.pending = FirstSamples(N) BY <1>3 DEF FrontEnd
  <2> DEFINE ys == Samples(N, n)
             w == FirstSamples(N + n)
  <2>2. OfLength(f.pending, N) /\ OfLength(ys, n) /\ OfLength(w, N + n)
    BY <2>1 DEF OfLength, Samples, FirstSamples
  <2>3. \A i \in 1 .. N : w[i] = f.pending[i] BY <1>1, <2>1 DEF FirstSamples
  <2>4. \A i \in 1 .. n : w[N + i] = ys[i] BY <1>1 DEF Samples, FirstSamples
  <2>5. N + n \in Nat BY <1>1
  <2> HIDE DEF ys, w
  <2>6. f.pending \o ys = w BY <1>1, <2>2, <2>3, <2>4, Joined
  <2>7. Raw(f, N, n) = w BY <2>6 DEF ys, Raw
  <2>8. Len(Raw(f, N, n)) = N + n BY <2>2, <2>5, <2>7, LenIs
  <2>9. ReflectFront(Raw(f, N, n)) \o Raw(f, N, n) = Pending(N + n, 0)
    BY <2>5, <2>7, FrontPadded DEF w
  <2> QED BY <2>1, <2>7, <2>8, <2>9 DEF w
<1> QED BY <1>2, <1>3

(* A push that does not end the utterance.                                 *)
LEMMA FramesOnTheWay ==
    ASSUME NEW M \in Nat, NEW T \in Nat, M > CENTER_PAD, T = 0 \/ OnTheWay(M, T),
           NEW k \in Nat, AllCut(Waiting(M, T), k)
    PROVE  /\ OnTheWay(M, T + k)
           /\ Waiting(M, T) - (k * HOP) = Waiting(M, T + k)
<1>1. /\ CENTER_PAD \in Nat \ {0} /\ HOP \in Nat \ {0} /\ N_FFT = 2 * CENTER_PAD
      /\ N_FFT - HOP > CENTER_PAD
  BY FbankAssumption
<1> DEFINE a == T * HOP
           b == k * HOP
           L == Waiting(M, T)
<1>2. a \in Int /\ b \in Int BY <1>1
<1>3. (T + k) * HOP = a + b BY <1>1, Distrib
<1>4. (T + k - 1) * HOP = a + b - HOP
  <2>1. ((T + k) + (-1)) * HOP = ((T + k) * HOP) + ((-1) * HOP) BY <1>1, Distrib
  <2>2. (T + k) + (-1) = T + k - 1 /\ (-1) * HOP = -HOP BY <1>1
  <2> QED BY <1>1, <1>2, <1>3, <2>1, <2>2
<1>5. (k - 1) * HOP = b - HOP
  <2>1. (k + (-1)) * HOP = (k * HOP) + ((-1) * HOP) BY <1>1, Distrib
  <2>2. k + (-1) = k - 1 /\ (-1) * HOP = -HOP BY <1>1
  <2> QED BY <1>1, <1>2, <2>1, <2>2
<1>6. (T - 1) * HOP = a - HOP
  <2>1. (T + (-1)) * HOP = (T * HOP) + ((-1) * HOP) BY <1>1, Distrib
  <2>2. T + (-1) = T - 1 /\ (-1) * HOP = -HOP BY <1>1
  <2> QED BY <1>1, <1>2, <2>1, <2>2
<1>7. T = 0 => a = 0 BY <1>1
<1>8. k = 0 => b = 0 BY <1>1
<1>9. /\ T = 0 \/ (M > a /\ a - HOP + CENTER_PAD <= M)
      /\ L = M + CENTER_PAD - a /\ L < b + N_FFT /\ (k > 0 => (b - HOP) + N_FFT <= L)
  BY <1>5, <1>6 DEF OnTheWay, Waiting, AllCut
<1> HIDE DEF a, b, L
<1>10. a + b - HOP + CENTER_PAD <= M /\ M > a + b
  <2>1. CASE k > 0 BY <1>1, <1>2, <1>9, <2>1
  <2>2. CASE k = 0 BY <1>1, <1>2, <1>7, <1>8, <1>9, <2>2
  <2> QED BY <2>1, <2>2
<1>11. L - b = M + CENTER_PAD - (a + b) BY <1>1, <1>2, <1>9
<1> QED BY <1>3, <1>4, <1>10, <1>11 DEF b, L, OnTheWay, Waiting

(* The push that ends it: as many frames in all as the reference has.      *)
LEMMA FramesAtTheEnd ==
    ASSUME NEW M \in Nat, NEW T \in Nat, T = 0 \/ M > T * HOP,
           NEW k \in Nat, AllCut(ToTheEnd(M, T), k)
    PROVE  k > 0 /\ T + k = M \div HOP + 1
<1>1. HOP \in Nat \ {0} /\ N_FFT \in Nat BY FbankAssumption
<1> DEFINE a == T * HOP
           b == k * HOP
           L == ToTheEnd(M, T)
<1>2. a \in Int /\ b \in Int BY <1>1
<1>3. (T + k - 1) * HOP = a + b - HOP
  <2>1. (T + k) * HOP = a + b BY <1>1, Distrib
  <2>2. ((T + k) + (-1)) * HOP = ((T + k) * HOP) + ((-1) * HOP) BY <1>1, Distrib
  <2>3. (T + k) + (-1) = T + k - 1 /\ (-1) * HOP = -HOP BY <1>1
  <2> QED BY <1>1, <1>2, <2>1, <2>2, <2>3
<1>4. (k - 1) * HOP = b - HOP
  <2>1. (k + (-1)) * HOP = (k * HOP) + ((-1) * HOP) BY <1>1, Distrib
  <2>2. k + (-1) = k - 1 /\ (-1) * HOP = -HOP BY <1>1
  <2> QED BY <1>1, <1>2, <2>1, <2>2
<1>5. T = 0 => a = 0 BY <1>1
<1>6. k = 0 => b = 0 BY <1>1
<1>7. /\ T = 0 \/ M > a
      /\ L = M + N_FFT - a /\ L < b + N_FFT /\ (k > 0 => (b - HOP) + N_FFT <= L)
  BY <1>4 DEF ToTheEnd, AllCut
<1> HIDE DEF a, b, L
<1>8. k > 0 BY <1>1, <1>2, <1>5, <1>6, <1>7
<1>9. a + b - HOP <= M /\ M < a + b - HOP + HOP BY <1>1, <1>2, <1>7, <1>8
<1>10. T + k - 1 \in Nat BY <1>8
<1>11. M \div HOP = T + k - 1
  <2>1. (T + k - 1) * HOP <= M /\ M < ((T + k - 1) * HOP) + HOP BY <1>3, <1>9
  <2> HIDE DEF a, b
  <2> QED BY <1>1, <1>10, <2>1, DivBy
<1> QED BY <1>8, <1>10, <1>11

(* One push: its frames are the next ones of the utterance, as many as can *)
(* be told by now, and at the end all of them.                             *)
LEMMA FrontEndPush ==
    ASSUME NEW f, NEW N, NEW T, FrontEnd(f, N, T), NEW n \in Nat, NEW last \in BOOLEAN,
           NEW out, out = FbankPush(f, [i \in 1 .. n |-> N + i], last)
    PROVE  \E k \in Nat :
            /\ out.frames = NextFrames(N + n, T, k)
            /\ ~last => FrontEnd(out.state, N + n, T + k)
            /\ last => k > 0 /\ T + k = (N + n) \div HOP + 1
<1> DEFINE xs == [i \in 1 .. n |-> N + i]
           M == N + n
           raw == f.pending \o Preemphasise(f, xs)
           front == IF f.started THEN raw ELSE ReflectFront(raw) \o raw
           buf == IF last THEN front \o ReflectBack(front) ELSE front
           L == Len(buf)
           k == CutOf(L)
           waits == ~f.started /\ TooShort(raw, last)
           rest == RestOf(buf, k)
           cut == [pending |-> IF last THEN << >> ELSE rest,
                   prev_raw |-> LastRaw(f, xs), started |-> TRUE]
<1>1. CENTER_PAD \in Nat \ {0} /\ HOP \in Nat \ {0} /\ N_FFT = 2 * CENTER_PAD
  BY FbankAssumption
<1>2. N \in Nat /\ T \in Nat /\ M \in Nat /\ f.prev_raw = N
  BY DEF FrontEnd
<1>3. raw = Raw(f, N, n) /\ LastRaw(f, xs) = M
  BY <1>2, PreemphasisedAre DEF Raw
<1>4. /\ waits => out = [frames |-> << >>,
                         state |-> [f EXCEPT !.pending = raw, !.prev_raw = LastRaw(f, xs)]]
      /\ ~waits => out = [frames |-> CutFrom(buf, k), state |-> cut]
  BY DEF FbankPush, CutFrom, RestOf, CutOf
<1> HIDE DEF xs, raw
<1>5. /\ ~f.started => raw = FirstSamples(M) /\ Len(raw) = M
      /\ front = Pending(M, T)
  BY <1>3, FrontIs, ZenonT(30)
<1> HIDE DEF front, cut
<1>6. CASE waits
  <2>1. ~f.started /\ M <= CENTER_PAD /\ ~last BY <1>5, <1>6 DEF TooShort
  <2>2. T = 0 BY <2>1 DEF FrontEnd
  <2>3. NextFrames(M, T, 0) = << >> BY DEF NextFrames
  <2>4. out.frames = NextFrames(N + n, T, 0) BY <1>4, <1>6, <2>3
  <2>5. out.state = [pending |-> raw, prev_raw |-> M, started |-> f.started]
    <3>1. f = [pending |-> f.pending, prev_raw |-> f.prev_raw, started |-> f.started]
      BY DEF FrontEnd
    <3>2. out.state = [f EXCEPT !.pending = raw, !.prev_raw = M] BY <1>3, <1>4, <1>6
    <3> QED BY <3>1, <3>2
  <2>6. FrontEnd(out.state, N + n, T + 0)
    <3>1. raw = FirstSamples(M) /\ T + 0 = 0 BY <1>5, <2>1, <2>2
    <3>2. /\ out.state.pending = raw /\ out.state.prev_raw = M
          /\ out.state.started = f.started
          /\ out.state = [pending |-> out.state.pending, prev_raw |-> out.state.prev_raw,
                          started |-> out.state.started]
      BY <2>5
    <3> QED BY <1>2, <2>1, <3>1, <3>2 DEF FrontEnd
  <2> QED BY <2>1, <2>4, <2>6
<1>7. CASE ~waits
  <2>1. T = 0 \/ OnTheWay(M, T)
    <3>1. T = 0 \/ OnTheWay(N, T) BY DEF FrontEnd
    <3>2. (T - 1) * HOP \in Int /\ T * HOP \in Int BY <1>1, <1>2
    <3> QED BY <1>1, <1>2, <3>1, <3>2 DEF OnTheWay
  <2>2. last \/ M > CENTER_PAD
    BY <1>1, <1>2, <1>5, <1>7 DEF TooShort, FrontEnd, OnTheWay
  <2> DEFINE W == IF last THEN ToTheEnd(M, T) ELSE Waiting(M, T)
  <2>3. W \in Nat
    <3>1. T = 0 => T * HOP = 0 BY <1>1
    <3>2. T * HOP \in Int BY <1>1, <1>2
    <3> QED BY <1>1, <1>2, <2>1, <3>1, <3>2 DEF OnTheWay, ToTheEnd, Waiting
  <2>4. buf = Padded(M, T, W)
    <3>1. T = 0 \/ M > T * HOP BY <2>1 DEF OnTheWay
    <3> QED BY <1>2, <1>5, <3>1, BackPadded, PendingPadded
  <2>5. L = W
    <3>1. OfLength(Padded(M, T, W), W) BY DEF OfLength, Padded
    <3> HIDE DEF W, buf
    <3> QED BY <2>3, <2>4, <3>1, LenIs
  <2> HIDE DEF L, buf
  <2>6. /\ k \in Nat /\ AllCut(W, k)
        /\ CutFrom(buf, k) = NextFrames(M, T, k)
        /\ rest = Padded(M, T + k, W - (k * HOP))
    <3>1. /\ k = CutOf(W) /\ CutFrom(buf, k) = CutFrom(Padded(M, T, W), k)
          /\ rest = RestOf(Padded(M, T, W), k)
      BY <2>4, <2>5
    <3> HIDE DEF W, k, rest, M
    <3>2. k \in Nat /\ AllCut(W, k) BY <1>2, <2>3, <3>1, FramesCut
    <3>3. CutFrom(Padded(M, T, W), k) = NextFrames(M, T, k)
      BY <1>2, <2>3, <3>1, FramesCut
    <3>4. RestOf(Padded(M, T, W), k) = Padded(M, T + k, W - (k * HOP))
      BY <1>2, <2>3, <3>1, FramesCut
    <3> QED BY <3>1, <3>2, <3>3, <3>4
  <2> HIDE DEF k, rest
  <2>7. out.frames = NextFrames(N + n, T, k) BY <1>4, <1>7, <2>6
  <2>8. ASSUME ~last PROVE FrontEnd(out.state, N + n, T + k)
    <3>1. OnTheWay(M, T + k) /\ W - (k * HOP) = Waiting(M, T + k)
      BY <1>2, <2>1, <2>2, <2>6, <2>8, FramesOnTheWay
    <3>2. T + k \in Nat BY <1>2, <2>6
    <3>3. rest = Pending(M, T + k)
      <4> HIDE DEF W
      <4> QED BY <1>2, <2>6, <3>1, <3>2, PendingPadded
    <3>4. out.state = [pending |-> rest, prev_raw |-> M, started |-> TRUE]
      <4>1. out.state = cut BY <1>4, <1>7
      <4> QED BY <1>3, <2>8, <4>1 DEF cut
    <3>5. /\ out.state.pending = rest /\ out.state.prev_raw = M /\ out.state.started
          /\ out.state = [pending |-> out.state.pending, prev_raw |-> out.state.prev_raw,
                          started |-> out.state.started]
      BY <3>4
    <3> QED BY <1>2, <3>1, <3>2, <3>3, <3>5 DEF FrontEnd
  <2>9. ASSUME last PROVE k > 0 /\ T + k = (N + n) \div HOP + 1
    <3>1. T = 0 \/ M > T * HOP BY <2>1 DEF OnTheWay
    <3> QED BY <1>2, <2>6, <2>9, <3>1, FramesAtTheEnd
  <2> QED BY <2>6, <2>7, <2>8, <2>9
<1> QED BY <1>6, <1>7

(* The next frames after the first are the first of a longer utterance.     *)
LEMMA FramesJoin ==
    ASSUME NEW N \in Nat, NEW M \in Nat, M >= N, NEW T \in Nat, T = 0 \/ OnTheWay(N, T),
           NEW k \in Nat
    PROVE  FirstFrames(N, T) \o NextFrames(M, T, k) = FirstFrames(M, T + k)
<1>1. CENTER_PAD \in Nat \ {0} /\ HOP \in Nat \ {0} /\ N_FFT = 2 * CENTER_PAD
  BY FbankAssumption
<1> DEFINE old == FirstFrames(N, T)
           new == NextFrames(M, T, k)
           all == FirstFrames(M, T + k)
<1>2. OfLength(old, T) /\ OfLength(new, k) /\ OfLength(all, T + k)
  BY DEF OfLength, FirstFrames, NextFrames
<1>3. ASSUME NEW t \in 1 .. T PROVE all[t] = old[t]
  <2> DEFINE b == (t - 1) * HOP
  <2>1. OnTheWay(N, T) BY <1>3
  <2>2. b \in Nat
    <3>1. t - 1 \in Nat OBVIOUS
    <3> QED BY <1>1, <3>1
  <2>3. b <= (T - 1) * HOP
    <3>1. t - 1 \in Int /\ T - 1 \in Int /\ t - 1 <= T - 1 OBVIOUS
    <3> QED BY <1>1, <3>1, Multiples
  <2>4. (T - 1) * HOP \in Int BY <1>1
  <2>5. old[t] = [j \in 1 .. N_FFT |-> At(N, b + j - CENTER_PAD)] BY DEF FirstFrames
  <2>6. all[t] = [j \in 1 .. N_FFT |-> At(M, b + j - CENTER_PAD)]
    <3>1. t \in 1 .. T + k OBVIOUS
    <3> QED BY <3>1 DEF FirstFrames
  <2> HIDE DEF b, old, all
  <2>7. \A j \in 1 .. N_FFT : At(N, b + j - CENTER_PAD) = At(M, b + j - CENTER_PAD)
    <3> TAKE j \in 1 .. N_FFT
    <3>1. /\ b + j - CENTER_PAD \in Int /\ b + j - CENTER_PAD > -CENTER_PAD
          /\ b + j - CENTER_PAD <= N
      BY <1>1, <2>1, <2>2, <2>3, <2>4 DEF OnTheWay
    <3>2. N > CENTER_PAD BY <2>1 DEF OnTheWay
    <3> QED BY <3>1, <3>2, MirroredStays
  <2> QED BY <2>5, <2>6, <2>7
<1>4. ASSUME NEW t \in 1 .. k PROVE all[T + t] = new[t]
  <2>1. T + t \in 1 .. T + k OBVIOUS
  <2> QED BY <2>1 DEF FirstFrames, NextFrames
<1> HIDE DEF old, new, all
<1>5. old \o new = all BY <1>2, <1>3, <1>4, Joined
<1> QED BY <1>5 DEF old, new, all

(* The frames of an utterance so far.                                      *)
Heard ==
    \E T \in Nat :
        /\ frames = FirstFrames(fed, T)
        /\ IF finished THEN T = fed \div HOP + 1 ELSE FrontEnd(fbank, fed, T)

(* The front end is used by the Persian engine alone.                      *)
FramesInv ==
    /\ fed \in Nat
    /\ engine = "persian" => Heard
    /\ engine # "persian" => frames = << >> /\ ~finished

(* What a push does to the front end.                                      *)
LEMMA PushFrames ==
    ASSUME NEW n \in 0 .. MaxChunk, NEW last \in BOOLEAN, Push(n, last), fed \in Nat, Heard
    PROVE  fed' = fed + n /\ Heard'
<1> DEFINE out == FbankPush(fbank, [i \in 1 .. n |-> fed + i], last)
<1>1. /\ ~finished /\ finished' = last /\ fed' = fed + n
      /\ fbank' = out.state /\ frames' = frames \o out.frames
  BY DEF Push
<1> HIDE DEF out
<1>2. n \in Nat BY StreamAssumption
<1>3. PICK T \in Nat : frames = FirstFrames(fed, T) /\ FrontEnd(fbank, fed, T)
  BY <1>1 DEF Heard
<1>4. PICK k \in Nat :
        /\ out.frames = NextFrames(fed + n, T, k)
        /\ ~last => FrontEnd(out.state, fed + n, T + k)
        /\ last => T + k = (fed + n) \div HOP + 1
  BY <1>2, <1>3, FrontEndPush, SMTT(30) DEF out
<1>5. T = 0 \/ OnTheWay(fed, T) BY <1>3 DEF FrontEnd
<1>6. fed + n \in Nat /\ fed + n >= fed BY <1>2
<1>7. frames' = FirstFrames(fed + n, T + k)
  <2> DEFINE M == fed + n
  <2>1. M \in Nat /\ M >= fed BY <1>6
  <2> HIDE DEF M
  <2>2. FirstFrames(fed, T) \o NextFrames(M, T, k) = FirstFrames(M, T + k)
    BY <1>5, <2>1, FramesJoin, ZenonT(60)
  <2>3. frames' = FirstFrames(fed, T) \o out.frames BY <1>1, <1>3
  <2>4. out.frames = NextFrames(fed + n, T, k) BY <1>4
  <2> QED BY <2>2, <2>3, <2>4 DEF M
<1>8. T + k \in Nat OBVIOUS
<1> QED BY <1>1, <1>4, <1>7, <1>8 DEF Heard

(* At the start there are none.                                            *)
LEMMA FramesInit == RecInit => FramesInv
<1> SUFFICES ASSUME RecInit PROVE FramesInv OBVIOUS
<1>1. fed = 0 /\ fbank = NewFbank /\ frames = << >> /\ ~finished BY DEF RecInit, Init
<1>2. FirstFrames(0, 0) = << >> BY DEF FirstFrames
<1>3. FirstSamples(0) = << >> BY DEF FirstSamples
<1>4. FrontEnd(NewFbank, 0, 0) BY <1>3, FbankAssumption DEF FrontEnd, NewFbank
<1> QED BY <1>1, <1>2, <1>4 DEF FramesInv, Heard

(* Every step keeps them.                                                  *)
LEMMA FramesStep ==
    ASSUME FramesInv, [RecNext]_allVars
    PROVE  FramesInv'
<1>1. ASSUME engine = "persian", UNCHANGED engine,
             NEW n \in 0 .. MaxChunk, NEW last \in BOOLEAN, Push(n, last)
      PROVE  FramesInv'
  <2>1. fed' = fed + n /\ Heard' BY <1>1, PushFrames DEF FramesInv
  <2>2. fed' \in Nat BY <2>1, StreamAssumption DEF FramesInv
  <2> QED BY <1>1, <2>1, <2>2 DEF FramesInv
<1>2. ASSUME NEW n \in 0 .. MaxChunk, NEW last \in BOOLEAN,
             Transcribe(n, last) \/ TranscribeFails(n, last)
      PROVE  FramesInv'
  <2>1. engine' = engine /\ engine # "persian" /\ UNCHANGED <<frames, finished>> /\ fed' = fed + n
    BY <1>2 DEF Transcribe, TranscribeFails, Called
  <2> QED BY <2>1, StreamAssumption DEF FramesInv
<1>3. CASE UNCHANGED vars /\ UNCHANGED engine
  BY <1>3 DEF vars, FramesInv, Heard
<1> QED BY <1>1, <1>2, <1>3 DEF RecNext, PersianNext, Next, PushAgain, allVars

(* However the audio was cut, the frames of a finished utterance are those *)
(* of the whole audio, and before that they are the first of it.           *)
THEOREM FramesAreReferenceHolds == RecSpec => []FramesAreReference
<1>1. FramesInv => FramesAreReference
  <2> SUFFICES ASSUME FramesInv PROVE FramesAreReference OBVIOUS
  <2>1. HOP \in Nat \ {0} /\ CENTER_PAD \in Nat BY FbankAssumption
  <2> DEFINE q == fed \div HOP
  <2>2. q \in Nat /\ fed < (q * HOP) + HOP BY <2>1, DivIs DEF FramesInv
  <2>3. ReferenceFrames(fed) = FirstFrames(fed, q + 1)
    BY DEF ReferenceFrames, FirstFrames
  <2>4. ASSUME NEW T \in Nat, T <= q + 1, frames = FirstFrames(fed, T)
        PROVE  IsPrefix(frames, ReferenceFrames(fed))
    <3>1. OfLength(frames, T) /\ OfLength(ReferenceFrames(fed), q + 1)
      BY <2>3, <2>4 DEF OfLength, FirstFrames
    <3> HIDE DEF q
    <3>2. Len(frames) = T /\ Len(ReferenceFrames(fed)) = q + 1 BY <2>2, <3>1, LenIs
    <3>3. \A t \in 1 .. T : frames[t] = ReferenceFrames(fed)[t]
      BY <2>2, <2>3, <2>4 DEF FirstFrames
    <3>4. SubSeq(frames, 1, T) = [t \in 1 .. T |-> frames[t]]
      BY <2>4, <3>1 DEF OfLength
    <3>5. SubSeq(ReferenceFrames(fed), 1, T) = [t \in 1 .. T |-> ReferenceFrames(fed)[t]]
      BY <2>2, <2>4, <3>1 DEF OfLength
    <3> QED BY <2>2, <2>4, <3>2, <3>3, <3>4, <3>5 DEF IsPrefix
  <2>5. CASE engine # "persian"
    <3>1. FirstFrames(fed, 0) = << >> BY DEF FirstFrames
    <3> QED BY <2>2, <2>4, <2>5, <3>1 DEF FramesInv, FramesAreReference
  <2>6. CASE engine = "persian"
    <3>1. PICK T \in Nat : /\ frames = FirstFrames(fed, T)
                           /\ IF finished THEN T = q + 1 ELSE FrontEnd(fbank, fed, T)
      BY <2>6 DEF FramesInv, Heard
    <3>2. CASE finished BY <2>3, <3>1, <3>2 DEF FramesAreReference
    <3>3. CASE ~finished
      <4>1. T = 0 \/ T * HOP < fed BY <3>1, <3>3 DEF FrontEnd, OnTheWay
      <4>2. T <= q + 1
        <5>1. CASE T = 0 BY <2>2, <5>1
        <5>2. CASE T * HOP < fed
          <6> HIDE DEF q
          <6>1. T * HOP \in Int /\ q * HOP \in Int /\ fed \in Int BY <2>1, <2>2 DEF FramesInv
          <6>2. T * HOP < (q * HOP) + HOP BY <2>1, <2>2, <5>2, <6>1
          <6>3. T <= q BY <2>1, <2>2, <6>2, Multiples
          <6> QED BY <2>2, <6>3
        <5> QED BY <4>1, <5>1, <5>2
      <4> QED BY <2>4, <3>1, <3>3, <4>2 DEF FramesAreReference
    <3> QED BY <3>2, <3>3
  <2> QED BY <2>5, <2>6
<1> QED BY <1>1, FramesInit, FramesStep, PTL DEF RecSpec

-----------------------------------------------------------------------------
(* Induction over the numbers, for a set of them.                          *)

Before == {ss \in Nat \X Nat : ss[1] < ss[2]}

(* A set of numbers has a least one.                                       *)
LEMMA LeastOf ==
    ASSUME NEW S \in SUBSET Nat, S # {}
    PROVE  \E m \in S : \A k \in S : m <= k
<1>1. IsWellFoundedOn(Before, Nat)
  BY NatLessThanWellFounded, Zenon DEF OpToRel, Before
<1>2. PICK m \in S : \A y \in S : ~(<<y, m>> \in Before)
  BY <1>1, WFMin, Zenon
<1>3. ASSUME NEW k \in S PROVE m <= k
  <2>1. k \in Nat /\ m \in Nat OBVIOUS
  <2>2. <<k, m>> \notin Before BY <1>2
  <2>3. k < m => <<k, m>> \in Before BY <2>1 DEF Before
  <2> QED BY <2>1, <2>2, <2>3
<1> QED BY <1>3

(* A set that holds a number when it holds all smaller ones holds them all. *)
LEMMA Induction ==
    ASSUME NEW S, \A n \in Nat : (\A m \in 0 .. n - 1 : m \in S) => n \in S
    PROVE  \A n \in Nat : n \in S
<1> DEFINE B == Nat \ S
<1>1. SUFFICES ASSUME B # {} PROVE FALSE OBVIOUS
<1>2. PICK m \in B : \A k \in B : m <= k BY <1>1, LeastOf
<1>3. \A k \in 0 .. m - 1 : k \in S BY <1>2
<1> QED BY <1>2, <1>3

-----------------------------------------------------------------------------
(* The windows of a push                                                   *)

(* How many windows are made of n queued frames.                           *)
Count(n, last) ==
    IF Stops(n, last) THEN 0
    ELSE IF last THEN IF n <= CHUNK_FRAMES THEN 1
                      ELSE (n - CHUNK_FRAMES + SHIFT_FRAMES - 1) \div SHIFT_FRAMES + 1
    ELSE (n - CHUNK_FRAMES) \div SHIFT_FRAMES + 1

StepsOf(n, last) == [i \in 1 .. Count(n, last) |-> n - ((i - 1) * SHIFT_FRAMES)]

(* A dividend less than the divisor.                                       *)
LEMMA DivLess == \A a \in Nat, h \in Nat \ {0} : a < h => a \div h = 0
<1>1. \A a \in Nat, h \in Nat \ {0} : a < h => 0 * h <= a /\ a < (0 * h) + h
  OBVIOUS
<1> QED BY <1>1, DivBy

(* A dividend larger by the divisor.                                       *)
LEMMA DivNext == \A a \in Nat, h \in Nat \ {0} : (a + h) \div h = (a \div h) + 1
<1> TAKE a \in Nat, h \in Nat \ {0}
<1> DEFINE q == a \div h
<1>1. q \in Nat /\ q * h <= a /\ a < (q * h) + h BY DivIs
<1> HIDE DEF q
<1>2. (q + 1) * h = (q * h) + h BY <1>1, Distrib
<1>3. (q + 1) * h <= a + h /\ a + h < ((q + 1) * h) + h BY <1>1, <1>2
<1>4. q + 1 \in Nat /\ a + h \in Nat BY <1>1
<1>5. (a + h) \div h = q + 1 BY <1>3, <1>4, DivBy
<1> QED BY <1>5 DEF q

(* The rest after a window makes one window less, shifted by SHIFT_FRAMES.  *)
LEMMA CountOf ==
    ASSUME NEW n \in Nat, NEW last \in BOOLEAN, ~Stops(n, last)
    PROVE  /\ Shifted(n, last) \in Nat /\ Shifted(n, last) < n
           /\ Count(Shifted(n, last), last) \in Nat
           /\ Count(n, last) = Count(Shifted(n, last), last) + 1
           /\ Count(Shifted(n, last), last) > 0 => Shifted(n, last) = n - SHIFT_FRAMES
<1> DEFINE C == CHUNK_FRAMES
           h == SHIFT_FRAMES
           r == Shifted(n, last)
<1>1. h \in Nat \ {0} /\ C \in Nat /\ C > h
  BY StreamAssumption
<1> HIDE DEF C, h
<1>2. CASE ~last
  <2>1. n >= C /\ r = n - h BY <1>1, <1>2 DEF Stops, Shifted, Least, C, h
  <2>2. Count(n, last) = ((n - C) \div h) + 1 BY <1>2 DEF Count, C, h
  <2>3. Stops(r, last) <=> r < C BY <1>2 DEF Stops, C
  <2>4. Count(r, last) = IF r < C THEN 0 ELSE ((r - C) \div h) + 1
    BY <1>2, <2>3 DEF Count, C, h
  <2> HIDE DEF r
  <2>5. CASE r < C
    <3>1. n - C \in Nat /\ n - C < h BY <1>1, <2>1, <2>5
    <3>2. (n - C) \div h = 0 BY <1>1, <3>1, DivLess
    <3> QED BY <1>1, <2>1, <2>2, <2>4, <2>5, <3>2 DEF r
  <2>6. CASE r >= C
    <3>1. r - C \in Nat /\ n - C = (r - C) + h BY <1>1, <2>1, <2>6
    <3>2. (n - C) \div h = ((r - C) \div h) + 1 BY <1>1, <3>1, DivNext
    <3>3. (r - C) \div h \in Nat BY <1>1, <3>1, DivIs
    <3> QED BY <1>1, <2>1, <2>2, <2>4, <2>6, <3>2, <3>3 DEF r, h
  <2> QED BY <1>1, <2>1, <2>5, <2>6
<1>3. CASE last
  <2>1. n > 0 BY <1>1, <1>3 DEF Stops, C
  <2>2. Count(n, last) = IF n <= C THEN 1 ELSE ((n - C + h - 1) \div h) + 1
    BY <1>3 DEF Count, C, h
  <2>3. CASE n <= C
    <3>1. r = 0 BY <1>1, <1>3, <2>3 DEF Shifted, Least, C, h
    <3>2. Count(r, last) = 0 BY <1>1, <3>1 DEF Count, Stops, C
    <3> QED BY <2>1, <2>2, <2>3, <3>1, <3>2
  <2>4. CASE n > C
    <3>1. r = n - h BY <1>1, <1>3, <2>4 DEF Shifted, Least, C, h
    <3>2. r \in Nat /\ r > 0 /\ r < n BY <1>1, <2>4, <3>1
    <3>3. Count(r, last) = IF r <= C THEN 1 ELSE ((r - C + h - 1) \div h) + 1
      BY <1>3, <3>2 DEF Count, Stops, C, h
    <3> HIDE DEF r
    <3>4. CASE r <= C
      <4>1. n - C - 1 \in Nat /\ n - C - 1 < h /\ n - C + h - 1 = (n - C - 1) + h
        BY <1>1, <2>4, <3>1, <3>4
      <4>2. (n - C - 1) \div h = 0 BY <1>1, <4>1, DivLess
      <4>3. (n - C + h - 1) \div h = 1
        <5>1. ((n - C - 1) + h) \div h = ((n - C - 1) \div h) + 1 BY <1>1, <4>1, DivNext
        <5> QED BY <4>1, <4>2, <5>1
      <4>4. Count(r, last) = 1 /\ Count(n, last) = 2
        <5>1. Count(r, last) = 1 BY <3>3, <3>4
        <5>2. Count(n, last) = ((n - C + h - 1) \div h) + 1 BY <1>1, <2>2, <2>4
        <5> QED BY <4>3, <5>1, <5>2
      <4> QED BY <3>1, <3>2, <4>4 DEF r, h
    <3>5. CASE r > C
      <4>1. r - C + h - 1 \in Nat /\ n - C + h - 1 = (r - C + h - 1) + h
        BY <1>1, <3>1, <3>2, <3>5
      <4>2. (n - C + h - 1) \div h = ((r - C + h - 1) \div h) + 1 BY <1>1, <4>1, DivNext
      <4>3. (r - C + h - 1) \div h \in Nat BY <1>1, <4>1, DivIs
      <4>4. Count(r, last) \in Nat /\ Count(n, last) = Count(r, last) + 1
        <5>1. Count(r, last) = ((r - C + h - 1) \div h) + 1 BY <1>1, <3>2, <3>3, <3>5
        <5>2. Count(n, last) = ((n - C + h - 1) \div h) + 1 BY <1>1, <2>2, <2>4
        <5> QED BY <4>2, <4>3, <5>1, <5>2
      <4> QED BY <3>1, <3>2, <4>4 DEF r, h
    <3> QED BY <1>1, <3>2, <3>4, <3>5
  <2> QED BY <1>1, <2>3, <2>4
<1> QED BY <1>2, <1>3

(* The closed form meets the loop's equation.                              *)
LEMMA StepsOfNext ==
    ASSUME NEW n \in Nat, NEW last \in BOOLEAN
    PROVE  /\ Stops(n, last) => StepsOf(n, last) = << >>
           /\ ~Stops(n, last) => StepsOf(n, last) = <<n>> \o StepsOf(Shifted(n, last), last)
<1>1. ASSUME Stops(n, last) PROVE StepsOf(n, last) = << >>
  BY <1>1 DEF StepsOf, Count
<1>2. ASSUME ~Stops(n, last)
      PROVE  StepsOf(n, last) = <<n>> \o StepsOf(Shifted(n, last), last)
  <2> DEFINE h == SHIFT_FRAMES
             r == Shifted(n, last)
             k == Count(r, last)
             one == <<n>>
             more == StepsOf(r, last)
             all == StepsOf(n, last)
  <2>1. h \in Nat BY StreamAssumption
  <2>2. r \in Nat /\ k \in Nat /\ Count(n, last) = k + 1 /\ (k > 0 => r = n - h)
    BY <1>2, CountOf
  <2>3. more = [i \in 1 .. k |-> r - ((i - 1) * h)] BY DEF StepsOf
  <2>4. all = [i \in 1 .. 1 + k |-> n - ((i - 1) * h)]
    <3>1. Count(n, last) = 1 + k BY <2>2
    <3> QED BY <3>1 DEF StepsOf
  <2> HIDE DEF h, r, k, more, all
  <2>5. OfLength(one, 1) /\ OfLength(more, k) /\ OfLength(all, 1 + k)
    BY <2>3, <2>4 DEF OfLength
  <2>6. \A i \in 1 .. 1 : all[i] = one[i]
    <3>1. 1 \in 1 .. 1 + k /\ (1 - 1) * h = 0 BY <2>1, <2>2
    <3>2. all[1] = n - ((1 - 1) * h) BY <2>4, <3>1
    <3> QED BY <3>1, <3>2
  <2>7. \A i \in 1 .. k : all[1 + i] = more[i]
    <3> TAKE i \in 1 .. k
    <3>1. 1 + i \in 1 .. 1 + k /\ r = n - h BY <2>2
    <3>2. ((1 + i) - 1) * h = ((i - 1) * h) + h
      <4>1. ((i - 1) + 1) * h = ((i - 1) * h) + (1 * h) BY <2>1, Distrib
      <4>2. (1 + i) - 1 = (i - 1) + 1 BY <2>2
      <4> QED BY <2>1, <4>1, <4>2
    <3>3. (i - 1) * h \in Int BY <2>1, <2>2
    <3>4. all[1 + i] = n - (((1 + i) - 1) * h) BY <2>4, <3>1
    <3>5. more[i] = r - ((i - 1) * h) BY <2>3
    <3> QED BY <2>1, <2>2, <3>1, <3>2, <3>3, <3>4, <3>5
  <2> HIDE DEF one
  <2>8. one \o more = all BY <2>2, <2>5, <2>6, <2>7, Joined
  <2> QED BY <2>8 DEF one, more, all, r
<1> QED BY <1>1, <1>2

(* The loop's equation has one solution.                                   *)
LEMMA StepsAre ==
    ASSUME NEW n \in Nat, NEW last \in BOOLEAN
    PROVE  Steps(n, last) = StepsOf(n, last)
<1> DEFINE Loop(f) == f = [m \in Nat |-> IF Stops(m, last) THEN << >>
                                         ELSE <<m>> \o f[Shifted(m, last)]]
           formula == [m \in Nat |-> StepsOf(m, last)]
           from == CHOOSE f : Loop(f)
<1>1. Steps(n, last) = from[n] BY DEF Steps
<1>2. Loop(formula)
  <2>1. \A m \in Nat : StepsOf(m, last) = IF Stops(m, last) THEN << >>
                                          ELSE <<m>> \o formula[Shifted(m, last)]
    <3> TAKE m \in Nat
    <3>1. CASE Stops(m, last) BY <3>1, StepsOfNext
    <3>2. CASE ~Stops(m, last)
      <4>1. formula[Shifted(m, last)] = StepsOf(Shifted(m, last), last) BY <3>2, CountOf
      <4> HIDE DEF formula
      <4> QED BY <3>2, <4>1, StepsOfNext
    <3> QED BY <3>1, <3>2
  <2> QED BY <2>1
<1>3. Loop(from)
  <2> HIDE DEF Loop, formula
  <2> QED BY <1>2
<1> HIDE DEF from
<1>4. \A m \in Nat : from[m] = StepsOf(m, last)
  <2> DEFINE S == {m \in Nat : from[m] = StepsOf(m, last)}
  <2>1. ASSUME NEW m \in Nat, \A l \in 0 .. m - 1 : l \in S PROVE m \in S
    <3>1. CASE Stops(m, last)
      <4>1. from[m] = << >> BY <1>3, <3>1
      <4> QED BY <3>1, <4>1, StepsOfNext
    <3>2. CASE ~Stops(m, last)
      <4>1. from[m] = <<m>> \o from[Shifted(m, last)] BY <1>3, <3>2
      <4>2. Shifted(m, last) \in 0 .. m - 1 BY <3>2, CountOf
      <4>3. from[Shifted(m, last)] = StepsOf(Shifted(m, last), last) BY <2>1, <4>2
      <4> QED BY <3>2, <4>1, <4>3, StepsOfNext
    <3> QED BY <3>1, <3>2
  <2> HIDE DEF S
  <2>2. \A m \in Nat : m \in S BY <2>1, Induction
  <2> QED BY <2>2 DEF S
<1> QED BY <1>1, <1>4

-----------------------------------------------------------------------------
(* Sequences of sequences put together                                     *)

Partial(f, s) == f = [i \in 1 .. Len(s) |-> IF i = 1 THEN s[i] ELSE f[i - 1] \o s[i]]

(* The equation at an index.                                               *)
LEMMA PartialAt ==
    ASSUME NEW s, NEW f, Partial(f, s), NEW i \in 1 .. Len(s)
    PROVE  f[i] = IF i = 1 THEN s[i] ELSE f[i - 1] \o s[i]
<1> DEFINE F(j) == IF j = 1 THEN s[j] ELSE f[j - 1] \o s[j]
<1>1. f = [j \in 1 .. Len(s) |-> F(j)] BY DEF Partial
<1> HIDE DEF F
<1>2. f[i] = F(i) BY <1>1
<1> QED BY <1>2 DEF F

(* Every sequence of sequences has its partial results.                    *)
LEMMA PartialExists ==
    ASSUME NEW A, NEW s \in Seq(Seq(A))
    PROVE  \E f : Partial(f, s)
<1> DEFINE Upto(f, n) == f = [i \in 1 .. n |-> IF i = 1 THEN s[i] ELSE f[i - 1] \o s[i]]
           S == {n \in Nat : \E f : Upto(f, n)}
<1>1. ASSUME NEW n \in Nat, \A m \in 0 .. n - 1 : m \in S PROVE n \in S
  <2>1. CASE n = 0
    <3>1. Upto(<< >>, 0) OBVIOUS
    <3> QED BY <2>1, <3>1
  <2>2. CASE n > 0
    <3>1. n - 1 \in S
      <4>1. n - 1 \in 0 .. n - 1 BY <2>2
      <4> HIDE DEF S
      <4> QED BY <1>1, <4>1
    <3>2. PICK f : Upto(f, n - 1) BY <3>1
    <3> DEFINE g == [i \in 1 .. n |-> IF i < n THEN f[i]
                                      ELSE IF i = 1 THEN s[i] ELSE f[i - 1] \o s[i]]
    <3>3. \A i \in 1 .. n : i < n => g[i] = f[i] OBVIOUS
    <3>4. \A i \in 1 .. n : g[i] = IF i = 1 THEN s[i] ELSE g[i - 1] \o s[i]
      <4> TAKE i \in 1 .. n
      <4>1. i # 1 => i - 1 \in 1 .. n /\ i - 1 < n OBVIOUS
      <4>2. i # 1 => g[i - 1] = f[i - 1] BY <3>3, <4>1
      <4>3. CASE i < n
        <5>1. i \in 1 .. n - 1 BY <4>3
        <5>2. f[i] = IF i = 1 THEN s[i] ELSE f[i - 1] \o s[i] BY <3>2, <5>1
        <5> HIDE DEF g
        <5> QED BY <3>3, <4>2, <4>3, <5>2
      <4>4. CASE i = n
        <5>1. g[i] = IF i = 1 THEN s[i] ELSE f[i - 1] \o s[i] BY <4>4
        <5> HIDE DEF g
        <5> QED BY <4>2, <5>1
      <4> QED BY <4>3, <4>4
    <3>5. g = [i \in 1 .. n |-> g[i]] OBVIOUS
    <3> HIDE DEF g
    <3>6. Upto(g, n) BY <3>4, <3>5
    <3> QED BY <3>6
  <2>3. n = 0 \/ n > 0 OBVIOUS
  <2> HIDE DEF S
  <2> QED BY <2>1, <2>2, <2>3
<1> HIDE DEF S
<1>2. \A n \in Nat : n \in S BY <1>1, Induction
<1>3. Len(s) \in S BY <1>2
<1> QED BY <1>3 DEF S, Partial

(* They are sequences, and those of a longer one begin as those of a part. *)
LEMMA PartialAre ==
    ASSUME NEW A, NEW s \in Seq(Seq(A)), NEW t \in Seq(Seq(A)), Len(s) <= Len(t),
           \A i \in 1 .. Len(s) : s[i] = t[i],
           NEW f, Partial(f, s), NEW g, Partial(g, t)
    PROVE  \A i \in 1 .. Len(s) : f[i] \in Seq(A) /\ f[i] = g[i]
<1> DEFINE S == {n \in Nat : n \in 1 .. Len(s) => f[n] \in Seq(A) /\ f[n] = g[n]}
<1>1. ASSUME NEW n \in Nat, \A m \in 0 .. n - 1 : m \in S PROVE n \in S
  <2>1. SUFFICES ASSUME n \in 1 .. Len(s) PROVE f[n] \in Seq(A) /\ f[n] = g[n] OBVIOUS
  <2>2. /\ f[n] = IF n = 1 THEN s[n] ELSE f[n - 1] \o s[n]
        /\ g[n] = IF n = 1 THEN t[n] ELSE g[n - 1] \o t[n]
        /\ s[n] = t[n]
    <3>1. n \in 1 .. Len(t) BY <2>1
    <3> QED BY <2>1, <3>1, PartialAt
  <2>3. s[n] \in Seq(A) BY <2>1
  <2>4. CASE n = 1 BY <2>2, <2>3, <2>4
  <2>5. CASE n # 1
    <3>1. n - 1 \in S /\ n - 1 \in 1 .. Len(s) BY <1>1, <2>1, <2>5
    <3>2. f[n - 1] \in Seq(A) /\ f[n - 1] = g[n - 1] BY <3>1
    <3> QED BY <2>2, <2>3, <2>5, <3>2
  <2> QED BY <2>4, <2>5
<1> HIDE DEF S
<1>2. \A n \in Nat : n \in S BY <1>1, Induction
<1> QED BY <1>2 DEF S

(* FlattenSeq gives the last of them.                                      *)
LEMMA FlattenIs ==
    ASSUME NEW A, NEW s \in Seq(Seq(A)), s # << >>, NEW f, Partial(f, s)
    PROVE  FlattenSeq(s) = f[Len(s)] /\ FlattenSeq(s) \in Seq(A)
<1> DEFINE g == CHOOSE g : Partial(g, s)
<1>1. Len(s) # 0 /\ Len(s) \in Nat BY EmptySeq
<1>2. FlattenSeq(s) = g[Len(s)] BY <1>1 DEF FlattenSeq, Partial
<1>3. Partial(g, s) OBVIOUS
<1> HIDE DEF g
<1>4. \A i \in 1 .. Len(s) : f[i] \in Seq(A) /\ f[i] = g[i] BY <1>3, PartialAre
<1> QED BY <1>1, <1>2, <1>4

(* One more sequence is put at the end.                                    *)
LEMMA FlattenAppend ==
    ASSUME NEW A, NEW s \in Seq(Seq(A)), NEW x \in Seq(A)
    PROVE  /\ FlattenSeq(<< >>) = << >>
           /\ FlattenSeq(s) \in Seq(A)
           /\ FlattenSeq(Append(s, x)) = FlattenSeq(s) \o x
<1> DEFINE t == Append(s, x)
<1>1. FlattenSeq(<< >>) = << >> BY DEF FlattenSeq
<1>2. /\ t \in Seq(Seq(A)) /\ Len(t) = Len(s) + 1 /\ t # << >>
      /\ \A i \in 1 .. Len(s) : s[i] = t[i]
      /\ t[Len(s) + 1] = x
  BY AppendProperties
<1> HIDE DEF t
<1>3. PICK g : Partial(g, t) BY <1>2, PartialExists
<1>4. FlattenSeq(t) = g[Len(t)] BY <1>2, <1>3, FlattenIs
<1>5. g[Len(t)] = IF Len(t) = 1 THEN t[Len(t)] ELSE g[Len(t) - 1] \o t[Len(t)]
  <2>1. Len(t) \in 1 .. Len(t) BY <1>2
  <2> QED BY <1>3, <2>1, PartialAt
<1>6. CASE s = << >>
  <2>1. Len(t) = 1 BY <1>2, <1>6
  <2>2. FlattenSeq(t) = x BY <1>2, <1>4, <1>5, <2>1
  <2>3. << >> \o x = x /\ << >> \in Seq(A) BY ConcatEmptySeq
  <2>4. FlattenSeq(s) = << >> BY <1>1, <1>6
  <2> QED BY <1>1, <2>2, <2>3, <2>4 DEF t
<1>7. CASE s # << >>
  <2>1. Len(s) \in Nat /\ Len(s) # 0 BY <1>7, EmptySeq
  <2>2. PICK f : Partial(f, s) BY PartialExists
  <2>3. FlattenSeq(s) = f[Len(s)] /\ FlattenSeq(s) \in Seq(A) BY <1>7, <2>2, FlattenIs
  <2>4. f[Len(s)] = g[Len(s)] BY <1>2, <1>3, <2>1, <2>2, PartialAre
  <2>5. FlattenSeq(t) = g[Len(s)] \o x
    <3>1. Len(t) - 1 = Len(s) /\ Len(t) # 1 BY <1>2, <2>1
    <3> QED BY <1>2, <1>4, <1>5, <3>1
  <2> QED BY <1>1, <2>3, <2>4, <2>5 DEF t
<1> QED BY <1>6, <1>7

(* Putting together is a homomorphism.                                     *)
LEMMA FlattenConcat ==
    ASSUME NEW A, NEW s \in Seq(Seq(A)), NEW t \in Seq(Seq(A))
    PROVE  FlattenSeq(s \o t) = FlattenSeq(s) \o FlattenSeq(t)
<1> DEFINE Joins(u) == FlattenSeq(s \o u) = FlattenSeq(s) \o FlattenSeq(u)
           S == {n \in Nat : \A u \in Seq(Seq(A)) : Len(u) = n => Joins(u)}
<1>1. ASSUME NEW n \in Nat, \A m \in 0 .. n - 1 : m \in S PROVE n \in S
  <2>1. SUFFICES ASSUME NEW u \in Seq(Seq(A)), Len(u) = n PROVE Joins(u) OBVIOUS
  <2>2. CASE u = << >>
    <3>1. s \o u = s BY <2>2, ConcatEmptySeq
    <3>2. FlattenSeq(s) \in Seq(A) /\ FlattenSeq(u) = << >> BY <2>2, FlattenAppend, EmptySeq
    <3>3. FlattenSeq(s) \o << >> = FlattenSeq(s) BY <3>2, ConcatEmptySeq
    <3> QED BY <3>1, <3>2, <3>3
  <2>3. CASE u # << >>
    <3>1. PICK v \in Seq(Seq(A)), x \in Seq(A) : u = Append(v, x)
      BY <2>3, SequenceEmptyOrAppend
    <3>2. Len(v) \in 0 .. n - 1 BY <2>1, <3>1, AppendProperties, LenProperties
    <3>3. Joins(v)
      <4>1. Len(v) \in S BY <1>1, <3>2
      <4> HIDE DEF Joins
      <4> QED BY <4>1
    <3>4. s \o v \in Seq(Seq(A)) BY ConcatProperties
    <3>5. s \o u = Append(s \o v, x)
      <4>1. Append(v, x) = v \o <<x>> /\ Append(s \o v, x) = (s \o v) \o <<x>>
        BY <3>4, AppendIsConcat
      <4>2. <<x>> \in Seq(Seq(A)) OBVIOUS
      <4>3. (s \o v) \o <<x>> = s \o (v \o <<x>>) BY <4>2, ConcatAssociative, SMTT(30)
      <4> QED BY <3>1, <4>1, <4>3
    <3>6. FlattenSeq(s \o u) = FlattenSeq(s \o v) \o x BY <3>4, <3>5, FlattenAppend
    <3>7. FlattenSeq(u) = FlattenSeq(v) \o x BY <3>1, FlattenAppend
    <3>8. FlattenSeq(s) \in Seq(A) /\ FlattenSeq(v) \in Seq(A) BY FlattenAppend
    <3>9. (FlattenSeq(s) \o FlattenSeq(v)) \o x = FlattenSeq(s) \o (FlattenSeq(v) \o x)
      BY <3>8, ConcatAssociative, SMTT(30)
    <3> QED BY <3>3, <3>6, <3>7, <3>9
  <2> QED BY <2>2, <2>3
<1> HIDE DEF S
<1>2. \A n \in Nat : n \in S BY <1>1, Induction
<1>3. Len(t) \in S BY <1>2, LenProperties
<1> QED BY <1>3 DEF S

-----------------------------------------------------------------------------
(* The text of an utterance                                                *)

Letters == {"_", "x"}
Answers == Tokens \cup {Blank}

(* What a sequence is, is a prefix of what it is continued to.             *)
LEMMA PrefixOf ==
    ASSUME NEW A, NEW s \in Seq(A), NEW t \in Seq(A)
    PROVE  /\ IsPrefix(s, s) /\ IsPrefix(<< >>, s) /\ IsPrefix(s, s \o t)
<1>1. Len(s) \in Nat /\ Len(t) \in Nat /\ Len(s \o t) = Len(s) + Len(t) BY ConcatProperties
<1>2. IsPrefix(s, s) BY <1>1 DEF IsPrefix
<1>3. IsPrefix(<< >>, s)
  <2>1. Len(<< >>) = 0 OBVIOUS
  <2>2. SubSeq(<< >>, 1, 0) = << >> /\ SubSeq(s, 1, 0) = << >> BY SubSeqEmpty
  <2> QED BY <1>1, <2>1, <2>2 DEF IsPrefix
<1>4. IsPrefix(s, s \o t)
  <2>1. CASE s = << >>
    <3>1. Len(s) = 0 BY <2>1
    <3>2. SubSeq(s, 1, 0) = << >> /\ SubSeq(s \o t, 1, 0) = << >> BY SubSeqEmpty
    <3> QED BY <1>1, <3>1, <3>2 DEF IsPrefix
  <2>2. CASE s # << >>
    <3>1. 1 \in 1 .. Len(s) /\ Len(s) \in 1 .. Len(s) BY <1>1, <2>2, EmptySeq
    <3>2. SubSeq(s \o t, 1, Len(s)) = SubSeq(s, 1, Len(s)) BY <3>1, SubSeqOfConcat1
    <3> QED BY <1>1, <3>2 DEF IsPrefix
  <2> QED BY <2>1, <2>2
<1> QED BY <1>2, <1>3, <1>4

Silent(s) == \A i \in 1 .. Len(s) : s[i] = "_"
FirstWord(s, f) == f \in 1 .. Len(s) /\ s[f] # "_" /\ \A j \in 1 .. f - 1 : s[j] = "_"

(* What is trimmed is what comes before the first word.                    *)
LEMMA TrimIs ==
    ASSUME NEW s \in Seq(Letters)
    PROVE  /\ Silent(s) => TrimStart(s) = << >>
           /\ ~Silent(s) => \E f : FirstWord(s, f)
           /\ \A f : FirstWord(s, f) => /\ TrimStart(s) = SubSeq(s, f, Len(s))
                                        /\ TrimStart(s) # << >>
           /\ TrimStart(s) \in Seq(Letters)
<1>1. Silent(s) => TrimStart(s) = << >> BY DEF Silent, TrimStart
<1>2. ASSUME ~Silent(s) PROVE \E f : FirstWord(s, f)
  <2> DEFINE S == {i \in 1 .. Len(s) : s[i] # "_"}
  <2>1. S # {}
    <3>1. PICK i \in 1 .. Len(s) : s[i] # "_" BY <1>2 DEF Silent
    <3> QED BY <3>1
  <2>2. S \in SUBSET Nat
    <3>1. 1 .. Len(s) \subseteq Nat OBVIOUS
    <3> QED BY <3>1, Zenon
  <2>3. PICK f \in S : \A k \in S : f <= k
    <3> HIDE DEF S
    <3> QED BY <2>1, <2>2, LeastOf
  <2>4. f \in 1 .. Len(s) /\ s[f] # "_" OBVIOUS
  <2>6. f \in 1 .. Len(s) /\ Len(s) \in Nat BY <2>4, LenProperties
  <2>5. ASSUME NEW j \in 1 .. f - 1 PROVE s[j] = "_"
    <3>1. j \in 1 .. Len(s) /\ ~(f <= j)
      <4> HIDE DEF S
      <4>1. f \in Nat /\ f <= Len(s) /\ Len(s) \in Nat BY <2>6
      <4> QED BY <4>1
    <3>2. j \notin S BY <2>3, <3>1
    <3> QED BY <3>1, <3>2
  <2> HIDE DEF S
  <2> QED BY <2>4, <2>5 DEF FirstWord
<1>3. ASSUME NEW f, FirstWord(s, f)
      PROVE  TrimStart(s) = SubSeq(s, f, Len(s)) /\ TrimStart(s) # << >>
  <2>1. ~Silent(s) /\ f \in 1 .. Len(s) BY <1>3 DEF Silent, FirstWord
  <2>2. ASSUME NEW g, FirstWord(s, g) PROVE g = f
    <3>1. f \in 1 .. Len(s) /\ g \in 1 .. Len(s) BY <1>3, <2>2 DEF FirstWord
    <3>4. s[f] # "_" /\ s[g] # "_" BY <1>3, <2>2 DEF FirstWord
    <3>5. /\ f \in Nat /\ f >= 1 /\ g \in Nat /\ g >= 1 BY <3>1
    <3>2. ~(g < f)
      <4>1. g < f => g \in 1 .. f - 1 BY <3>5
      <4> QED BY <1>3, <3>4, <4>1 DEF FirstWord
    <3>3. ~(f < g)
      <4>1. f < g => f \in 1 .. g - 1 BY <3>5
      <4> QED BY <2>2, <3>4, <4>1 DEF FirstWord
    <3> QED BY <3>2, <3>3, <3>5
  <2> DEFINE c == CHOOSE i \in 1 .. Len(s) : s[i] # "_" /\ \A j \in 1 .. i - 1 : s[j] = "_"
  <2>3. FirstWord(s, c) BY <1>3 DEF FirstWord
  <2>4. TrimStart(s) = SubSeq(s, c, Len(s)) BY <2>1 DEF TrimStart, Silent
  <2> HIDE DEF c
  <2>5. c = f BY <2>2, <2>3
  <2>6. SubSeq(s, f, Len(s)) # << >>
    <3>1. Len(SubSeq(s, f, Len(s))) # 0 BY <2>1
    <3>2. Len(<< >>) = 0 OBVIOUS
    <3> QED BY <3>1, <3>2, Zenon
  <2> QED BY <2>4, <2>5, <2>6
<1>4. TrimStart(s) \in Seq(Letters)
  <2>1. CASE Silent(s) BY <1>1, <2>1
  <2>2. CASE ~Silent(s)
    <3>1. PICK f : FirstWord(s, f) BY <1>2, <2>2
    <3>2. TrimStart(s) = SubSeq(s, f, Len(s)) BY <1>3, <3>1
    <3>3. f \in 1 .. Len(s) BY <3>1 DEF FirstWord
    <3> QED BY <3>2, <3>3
  <2> QED BY <2>1, <2>2
<1> QED BY <1>1, <1>2, <1>3, <1>4

(* Trimming what two calls say together is trimming the first of them that *)
(* has said a word.                                                        *)
LEMMA TrimConcat ==
    ASSUME NEW a \in Seq(Letters), NEW b \in Seq(Letters)
    PROVE  TrimStart(a \o b) = IF TrimStart(a) = << >> THEN TrimStart(b) ELSE TrimStart(a) \o b
<1> DEFINE c == a \o b
<1>1. /\ c \in Seq(Letters) /\ Len(c) = Len(a) + Len(b)
      /\ Len(a) \in Nat /\ Len(b) \in Nat
      /\ \A i \in 1 .. Len(a) : c[i] = a[i]
      /\ \A i \in 1 .. Len(b) : c[Len(a) + i] = b[i]
  BY ConcatProperties
<1>2. CASE ~Silent(a)
  <2>1. PICK f : FirstWord(a, f) BY <1>2, TrimIs
  <2>2. TrimStart(a) = SubSeq(a, f, Len(a)) /\ TrimStart(a) # << >> BY <2>1, TrimIs
  <2>3. f \in 1 .. Len(a) BY <2>1 DEF FirstWord
  <2> HIDE DEF c
  <2>4. FirstWord(c, f)
    <3>1. f \in 1 .. Len(c) BY <1>1, <2>3
    <3>3. c[f] # "_"
      <4>1. a[f] # "_" BY <2>1 DEF FirstWord
      <4> QED BY <1>1, <2>3, <4>1
    <3>2. ASSUME NEW j \in 1 .. f - 1 PROVE c[j] = "_"
      <4>1. j \in 1 .. Len(a) BY <1>1, <2>3
      <4>2. a[j] = "_" BY <2>1 DEF FirstWord
      <4> QED BY <1>1, <4>1, <4>2
    <3> QED BY <3>1, <3>2, <3>3 DEF FirstWord
  <2>5. TrimStart(c) = SubSeq(c, f, Len(c)) BY <1>1, <2>4, TrimIs
  <2>6. SubSeq(c, f, Len(c)) = SubSeq(a, f, Len(a)) \o b
    <3> DEFINE n == Len(a) - f + 1
               x == SubSeq(a, f, Len(a))
               w == SubSeq(c, f, Len(c))
    <3>1. n \in Nat BY <1>1, <2>3
    <3>2. x = [i \in 1 .. n |-> a[f + i - 1]]
      BY <1>1, <2>3
    <3>3. w = [i \in 1 .. n + Len(b) |-> c[f + i - 1]]
      BY <1>1, <2>3
    <3> HIDE DEF x, w
    <3>4. \A i \in 1 .. n : w[i] = x[i]
      <4> TAKE i \in 1 .. n
      <4>1. f + i - 1 \in 1 .. Len(a) /\ i \in 1 .. n + Len(b) BY <1>1, <2>3
      <4> QED BY <1>1, <3>2, <3>3, <4>1
    <3>5. \A i \in 1 .. Len(b) : w[n + i] = b[i]
      <4> TAKE i \in 1 .. Len(b)
      <4>1. f + (n + i) - 1 = Len(a) + i /\ n + i \in 1 .. n + Len(b) BY <1>1, <2>3
      <4> QED BY <1>1, <3>3, <4>1
    <3>6. OfLength(x, n) /\ OfLength(w, n + Len(b)) /\ OfLength(b, Len(b))
      BY <3>2, <3>3, LenProperties DEF OfLength
    <3> HIDE DEF n
    <3>7. x \o b = w BY <1>1, <3>1, <3>4, <3>5, <3>6, Joined
    <3> QED BY <3>7 DEF x, w
  <2> QED BY <2>2, <2>5, <2>6 DEF c
<1>3. CASE Silent(a) /\ Silent(b)
  <2> HIDE DEF c
  <2>1. Silent(c)
    <3> SUFFICES ASSUME NEW i \in 1 .. Len(c) PROVE c[i] = "_" BY DEF Silent
    <3>1. i \in Nat /\ i >= 1 /\ i <= Len(a) + Len(b) BY <1>1
    <3>2. CASE i <= Len(a)
      <4>1. i \in 1 .. Len(a) BY <3>1, <3>2
      <4>2. a[i] = "_" BY <1>3, <4>1 DEF Silent
      <4> QED BY <1>1, <4>1, <4>2
    <3>3. CASE i > Len(a)
      <4>1. i - Len(a) \in 1 .. Len(b) /\ Len(a) + (i - Len(a)) = i BY <1>1, <3>1, <3>3
      <4>2. b[i - Len(a)] = "_" BY <1>3, <4>1 DEF Silent
      <4>3. c[Len(a) + (i - Len(a))] = b[i - Len(a)] BY <1>1, <4>1
      <4> QED BY <4>1, <4>2, <4>3
    <3>4. i <= Len(a) \/ i > Len(a) BY <1>1, <3>1
    <3> QED BY <3>2, <3>3, <3>4
  <2> QED BY <1>1, <1>3, <2>1, TrimIs DEF c
<1>4. CASE Silent(a) /\ ~Silent(b)
  <2>1. PICK f : FirstWord(b, f) BY <1>4, TrimIs
  <2>2. TrimStart(b) = SubSeq(b, f, Len(b)) BY <2>1, TrimIs
  <2>3. f \in 1 .. Len(b) BY <2>1 DEF FirstWord
  <2> HIDE DEF c
  <2>4. FirstWord(c, Len(a) + f)
    <3>1. Len(a) + f \in 1 .. Len(c) /\ c[Len(a) + f] # "_"
      <4>1. c[Len(a) + f] = b[f] /\ b[f] # "_" BY <1>1, <2>1, <2>3 DEF FirstWord
      <4>2. Len(a) + f \in 1 .. Len(c) BY <1>1, <2>3
      <4> QED BY <4>1, <4>2
    <3>2. ASSUME NEW j \in 1 .. (Len(a) + f) - 1 PROVE c[j] = "_"
      <4>3. j \in Nat /\ j >= 1 /\ j < Len(a) + f BY <1>1, <2>3
      <4>1. CASE j <= Len(a)
        <5>1. j \in 1 .. Len(a) BY <4>1, <4>3
        <5>2. a[j] = "_" BY <1>4, <5>1 DEF Silent
        <5> QED BY <1>1, <5>1, <5>2
      <4>2. CASE j > Len(a)
        <5>1. j - Len(a) \in 1 .. f - 1 /\ Len(a) + (j - Len(a)) = j /\ j - Len(a) \in 1 .. Len(b)
          BY <1>1, <2>3, <4>2, <4>3
        <5>2. b[j - Len(a)] = "_" BY <2>1, <5>1 DEF FirstWord
        <5>3. c[Len(a) + (j - Len(a))] = b[j - Len(a)] BY <1>1, <5>1
        <5> QED BY <5>1, <5>2, <5>3
      <4>4. j <= Len(a) \/ j > Len(a) BY <1>1, <4>3
      <4> QED BY <4>1, <4>2, <4>4
    <3> QED BY <3>1, <3>2 DEF FirstWord
  <2>5. TrimStart(c) = SubSeq(c, Len(a) + f, Len(c)) BY <1>1, <2>4, TrimIs
  <2>6. SubSeq(c, Len(a) + f, Len(a) + Len(b)) = SubSeq(b, f, Len(b))
    <3>1. /\ Len(a) + f \in Len(a) + 1 .. Len(a) + Len(b)
          /\ Len(a) + Len(b) \in Len(a) + 1 .. Len(a) + Len(b)
      BY <1>1, <2>3
    <3>2. SubSeq(a \o b, Len(a) + f, Len(a) + Len(b))
            = SubSeq(b, (Len(a) + f) - Len(a), (Len(a) + Len(b)) - Len(a))
      BY <3>1, SubSeqOfConcat2
    <3>3. (Len(a) + f) - Len(a) = f /\ (Len(a) + Len(b)) - Len(a) = Len(b) BY <1>1, <2>3
    <3> QED BY <3>2, <3>3 DEF c
  <2>7. TrimStart(a) = << >> BY <1>4, TrimIs
  <2> QED BY <1>1, <2>2, <2>5, <2>6, <2>7 DEF c
<1> QED BY <1>2, <1>3, <1>4

(* A function on an initial segment is a sequence of sequences.            *)
LEMMA AreSequences ==
    ASSUME NEW A, NEW n \in Nat, NEW s, OfLength(s, n), \A i \in 1 .. n : s[i] \in Seq(A)
    PROVE  s \in Seq(Seq(A)) /\ FlattenSeq(s) \in Seq(A)
<1> DEFINE B == Seq(A)
<1>1. \A i \in 1 .. n : s[i] \in B OBVIOUS
<1>2. s \in Seq(B)
  <2> HIDE DEF B
  <2> QED BY <1>1, IsSequence
<1> QED BY <1>2, FlattenAppend, EmptySeq

(* The letters of a token.                                                 *)
LEMMA CharsAre == \A tok \in Tokens : Chars(tok) \in Seq(Letters) /\ tok # Blank
<1> SUFFICES ASSUME NEW tok \in Tokens PROVE Chars(tok) \in Seq(Letters) /\ tok # Blank
  OBVIOUS
<1>1. tok \in {"sep", "sepword", "word"} BY StreamAssumption
<1>2. << "_" >> \in Seq(Letters) /\ << "_", "x" >> \in Seq(Letters) /\ << "x" >> \in Seq(Letters)
  BY DEF Letters
<1> QED BY <1>1, <1>2 DEF Chars, Blank

(* Two sequences put together, by their indexes.                           *)
LEMMA Concatenated ==
    ASSUME NEW A, NEW a \in Seq(A), NEW b \in Seq(A)
    PROVE  /\ a \o b \in Seq(A) /\ Len(a) \in Nat /\ Len(b) \in Nat
           /\ Len(a \o b) = Len(a) + Len(b)
           /\ \A i \in 1 .. Len(a) : (a \o b)[i] = a[i]
           /\ \A i \in 1 .. Len(b) : (a \o b)[Len(a) + i] = b[i]
  BY ConcatProperties

(* Spelling is a homomorphism.                                             *)
LEMMA SpellConcat ==
    ASSUME NEW a \in Seq(Tokens), NEW b \in Seq(Tokens)
    PROVE  /\ Spell(a) \in Seq(Letters) /\ Spell(b) \in Seq(Letters)
           /\ Spell(a \o b) = Spell(a) \o Spell(b)
<1> DEFINE c == a \o b
           m == Len(a)
           n == Len(b)
           u == [i \in 1 .. Len(a) |-> Chars(a[i])]
           v == [i \in 1 .. Len(b) |-> Chars(b[i])]
           w == [i \in 1 .. Len(c) |-> Chars(c[i])]
<1>1. /\ m \in Nat /\ n \in Nat /\ Len(c) = m + n
      /\ \A i \in 1 .. m : c[i] = a[i] /\ a[i] \in Tokens
      /\ \A i \in 1 .. n : c[m + i] = b[i] /\ b[i] \in Tokens
  BY Concatenated
<1> HIDE DEF c
<1>2. OfLength(u, m) /\ OfLength(v, n) /\ OfLength(w, m + n) BY <1>1 DEF OfLength
<1>3. \A i \in 1 .. m : u[i] = Chars(a[i]) /\ w[i] = u[i] BY <1>1
<1>4. \A i \in 1 .. n : v[i] = Chars(b[i]) /\ w[m + i] = v[i]
  <2> TAKE i \in 1 .. n
  <2>1. m + i \in 1 .. Len(c) BY <1>1
  <2> QED BY <1>1, <2>1
<1>5. Spell(a) = FlattenSeq(u) /\ Spell(b) = FlattenSeq(v) /\ Spell(c) = FlattenSeq(w)
  BY DEF Spell
<1> HIDE DEF u, v, w, m, n
<1>6. \A i \in 1 .. m : u[i] \in Seq(Letters) BY <1>1, <1>3, CharsAre
<1>7. \A i \in 1 .. n : v[i] \in Seq(Letters) BY <1>1, <1>4, CharsAre
<1>8. /\ FlattenSeq(u) \in Seq(Letters) /\ FlattenSeq(v) \in Seq(Letters)
      /\ FlattenSeq(w) = FlattenSeq(u) \o FlattenSeq(v)
  <2>1. m \in Nat /\ n \in Nat BY <1>1
  <2>2. (\A i \in 1 .. m : w[i] = u[i]) /\ (\A i \in 1 .. n : w[m + i] = v[i])
    BY <1>3, <1>4
  <2>4. u \o v = w BY <1>2, <2>1, <2>2, Joined
  <2>5. u \in Seq(Seq(Letters)) /\ FlattenSeq(u) \in Seq(Letters) BY <1>2, <1>6, <1>7, <2>1, AreSequences
  <2>6. v \in Seq(Seq(Letters)) /\ FlattenSeq(v) \in Seq(Letters) BY <1>2, <1>6, <1>7, <2>1, AreSequences
  <2> QED BY <2>4, <2>5, <2>6, FlattenConcat
<1> QED BY <1>5, <1>8 DEF c

(* And so is rendering, blanks and all.                                    *)
LEMMA RenderedConcat ==
    ASSUME NEW a \in Seq(Answers), NEW b \in Seq(Answers)
    PROVE  /\ Rendered(a) \in Seq(Letters) /\ Rendered(b) \in Seq(Letters)
           /\ Rendered(a \o b) = Rendered(a) \o Rendered(b)
<1> DEFINE c == a \o b
           m == Len(a)
           n == Len(b)
           Word(tok) == IF tok = Blank THEN << >> ELSE Chars(tok)
           u == [i \in 1 .. Len(a) |-> Word(a[i])]
           v == [i \in 1 .. Len(b) |-> Word(b[i])]
           w == [i \in 1 .. Len(c) |-> Word(c[i])]
<1>1. /\ m \in Nat /\ n \in Nat /\ Len(c) = m + n
      /\ \A i \in 1 .. m : c[i] = a[i] /\ a[i] \in Answers
      /\ \A i \in 1 .. n : c[m + i] = b[i] /\ b[i] \in Answers
  BY Concatenated
<1>9. \A tok \in Answers : Word(tok) \in Seq(Letters)
  <2> TAKE tok \in Answers
  <2>1. CASE tok = Blank BY <2>1, EmptySeq
  <2>2. CASE tok # Blank BY <2>2, CharsAre DEF Answers
  <2> QED BY <2>1, <2>2
<1>5. Rendered(a) = FlattenSeq(u) /\ Rendered(b) = FlattenSeq(v) /\ Rendered(c) = FlattenSeq(w)
  BY DEF Rendered
<1> HIDE DEF c, Word
<1>2. OfLength(u, m) /\ OfLength(v, n) /\ OfLength(w, m + n) BY <1>1 DEF OfLength
<1>3. \A i \in 1 .. m : u[i] = Word(a[i]) /\ w[i] = u[i] BY <1>1
<1>4. \A i \in 1 .. n : v[i] = Word(b[i]) /\ w[m + i] = v[i]
  <2> TAKE i \in 1 .. n
  <2>1. m + i \in 1 .. Len(c) BY <1>1
  <2> QED BY <1>1, <2>1
<1> HIDE DEF u, v, w, m, n
<1>6. \A i \in 1 .. m : u[i] \in Seq(Letters) BY <1>1, <1>3, <1>9
<1>7. \A i \in 1 .. n : v[i] \in Seq(Letters) BY <1>1, <1>4, <1>9
<1>8. /\ FlattenSeq(u) \in Seq(Letters) /\ FlattenSeq(v) \in Seq(Letters)
      /\ FlattenSeq(w) = FlattenSeq(u) \o FlattenSeq(v)
  <2>1. m \in Nat /\ n \in Nat BY <1>1
  <2>2. (\A i \in 1 .. m : w[i] = u[i]) /\ (\A i \in 1 .. n : w[m + i] = v[i])
    BY <1>3, <1>4
  <2>4. u \o v = w BY <1>2, <2>1, <2>2, Joined
  <2>5. u \in Seq(Seq(Letters)) /\ FlattenSeq(u) \in Seq(Letters) BY <1>2, <1>6, <1>7, <2>1, AreSequences
  <2>6. v \in Seq(Seq(Letters)) /\ FlattenSeq(v) \in Seq(Letters) BY <1>2, <1>6, <1>7, <2>1, AreSequences
  <2> QED BY <2>4, <2>5, <2>6, FlattenConcat
<1> QED BY <1>5, <1>8 DEF c

(* The answer before answer i, what is kept of an answer that follows      *)
(* another, and the answer that the next push follows.                     *)
Prior(prev, a, i) == IF i = 1 THEN prev ELSE a[i - 1]
KeptAfter(prior, tok) == IF tok # prior /\ tok # Blank THEN <<tok>> ELSE << >>
LatestOf(prev, a) == IF a = << >> THEN prev ELSE a[Len(a)]

(* Collapsing is keeping each answer by the one before it.                 *)
LEMMA CollapseIs ==
    ASSUME NEW prev \in Answers, NEW a \in Seq(Answers)
    PROVE  Collapse(prev, a) = FlattenSeq([i \in 1 .. Len(a) |-> KeptAfter(Prior(prev, a, i), a[i])])
<1> DEFINE all == <<prev>> \o a
<1>1. Len(a) \in Nat BY LenProperties
<1>2. \A i \in 1 .. Len(a) : all[i + 1] = a[i] /\ all[i] = Prior(prev, a, i)
  <2> TAKE i \in 1 .. Len(a)
  <2>1. <<prev>> \in Seq(Answers) /\ Len(<<prev>>) = 1 /\ <<prev>>[1] = prev OBVIOUS
  <2>2. \A j \in 1 .. 1 + Len(a) : all[j] = IF j <= 1 THEN <<prev>>[j] ELSE a[j - 1]
    BY <2>1, ConcatProperties
  <2>3. i + 1 \in 1 .. 1 + Len(a) /\ i \in 1 .. 1 + Len(a) /\ (i + 1) - 1 = i BY <1>1
  <2> HIDE DEF all
  <2>4. all[i + 1] = a[i] BY <1>1, <2>2, <2>3
  <2>5. all[i] = Prior(prev, a, i) BY <1>1, <2>1, <2>2, <2>3 DEF Prior
  <2> QED BY <2>4, <2>5
<1>3. Collapse(prev, a) = FlattenSeq([i \in 1 .. Len(a) |->
            IF all[i + 1] # all[i] /\ all[i + 1] # Blank THEN <<all[i + 1]>> ELSE << >>])
  BY DEF Collapse, Carried
<1> HIDE DEF all
<1>4. [i \in 1 .. Len(a) |->
            IF all[i + 1] # all[i] /\ all[i + 1] # Blank THEN <<all[i + 1]>> ELSE << >>]
        = [i \in 1 .. Len(a) |-> KeptAfter(Prior(prev, a, i), a[i])]
  BY <1>2 DEF KeptAfter
<1> QED BY <1>3, <1>4

(* Two pushes collapse as one, if the second knows the last answer of the  *)
(* first.                                                                  *)
LEMMA CollapseConcat ==
    ASSUME NEW prev \in Answers, NEW a \in Seq(Answers), NEW b \in Seq(Answers)
    PROVE  /\ Collapse(prev, a) \in Seq(Tokens)
           /\ LatestOf(prev, a) \in Answers
           /\ Collapse(LatestOf(prev, a), b) \in Seq(Tokens)
           /\ Collapse(prev, a \o b) = Collapse(prev, a) \o Collapse(LatestOf(prev, a), b)
           /\ LatestOf(prev, a \o b) = LatestOf(LatestOf(prev, a), b)
<1> DEFINE c == a \o b
           m == Len(a)
           n == Len(b)
           mid == LatestOf(prev, a)
           u == [i \in 1 .. Len(a) |-> KeptAfter(Prior(prev, a, i), a[i])]
           v == [i \in 1 .. Len(b) |-> KeptAfter(Prior(mid, b, i), b[i])]
           w == [i \in 1 .. Len(c) |-> KeptAfter(Prior(prev, c, i), c[i])]
<1>1. /\ m \in Nat /\ n \in Nat /\ Len(c) = m + n /\ c \in Seq(Answers)
      /\ \A i \in 1 .. m : c[i] = a[i] /\ a[i] \in Answers
      /\ \A i \in 1 .. n : c[m + i] = b[i] /\ b[i] \in Answers
  BY Concatenated
<1>2. m = 0 <=> a = << >> BY EmptySeq
<1>3. mid \in Answers
  <2>1. a # << >> => m \in 1 .. m BY <1>1, <1>2
  <2> QED BY <1>1, <2>1 DEF LatestOf
<1>4. \A p, tok \in Answers : KeptAfter(p, tok) \in Seq(Tokens)
  BY DEF KeptAfter, Answers
<1>5. Collapse(prev, a) = FlattenSeq(u) BY CollapseIs
<1>6. Collapse(mid, b) = FlattenSeq(v) BY <1>3, CollapseIs
<1>7. Collapse(prev, c) = FlattenSeq(w) BY <1>1, CollapseIs
<1> HIDE DEF c, mid
<1>8. OfLength(u, m) /\ OfLength(v, n) /\ OfLength(w, m + n) BY <1>1 DEF OfLength
<1>9. \A i \in 1 .. m : w[i] = u[i] /\ u[i] \in Seq(Tokens)
  <2> TAKE i \in 1 .. m
  <2>1. i \in 1 .. Len(c) /\ (i # 1 => i - 1 \in 1 .. m) BY <1>1
  <2>2. Prior(prev, c, i) = Prior(prev, a, i) BY <1>1, <2>1 DEF Prior
  <2>3. w[i] = KeptAfter(Prior(prev, c, i), c[i]) BY <2>1
  <2>4. Prior(prev, a, i) \in Answers BY <1>1, <2>1 DEF Prior
  <2> QED BY <1>1, <1>4, <2>2, <2>3, <2>4
<1>10. \A i \in 1 .. n : w[m + i] = v[i] /\ v[i] \in Seq(Tokens)
  <2> TAKE i \in 1 .. n
  <2>1. m + i \in 1 .. Len(c) /\ (i # 1 => i - 1 \in 1 .. n) BY <1>1
  <2>2. Prior(prev, c, m + i) = Prior(mid, b, i)
    <3>1. CASE i # 1
      <4>1. c[m + (i - 1)] = b[i - 1] BY <1>1, <2>1, <3>1
      <4>2. m + (i - 1) = (m + i) - 1 /\ m + i # 1 BY <1>1, <3>1
      <4> QED BY <3>1, <4>1, <4>2 DEF Prior
    <3>2. CASE i = 1 /\ a = << >> BY <1>2, <3>2 DEF Prior, mid, LatestOf
    <3>3. CASE i = 1 /\ a # << >>
      <4>1. m \in 1 .. m /\ m + 1 # 1 /\ (m + 1) - 1 = m BY <1>1, <1>2, <3>3
      <4>2. c[m] = a[m] BY <1>1, <4>1
      <4> QED BY <3>3, <4>1, <4>2 DEF Prior, mid, LatestOf
    <3> QED BY <3>1, <3>2, <3>3
  <2>3. w[m + i] = KeptAfter(Prior(prev, c, m + i), c[m + i]) BY <2>1
  <2>4. Prior(mid, b, i) \in Answers BY <1>1, <1>3, <2>1 DEF Prior
  <2> QED BY <1>1, <1>4, <2>2, <2>3, <2>4
<1> HIDE DEF u, v, w
<1>11. LatestOf(prev, c) = LatestOf(mid, b)
  <2>1. n = 0 <=> b = << >> BY EmptySeq
  <2>2. CASE b = << >>
    <3>1. c = a BY <2>2, ConcatEmptySeq DEF c
    <3> QED BY <2>2, <3>1 DEF LatestOf, mid
  <2>3. CASE b # << >>
    <3>1. n \in 1 .. n BY <1>1, <2>1, <2>3
    <3>2. c[m + n] = b[n] BY <1>1, <3>1
    <3>3. c # << >>
      <4>1. Len(c) # 0 BY <1>1, <3>1
      <4> QED BY <1>1, <4>1, EmptySeq
    <3> QED BY <1>1, <2>3, <3>2, <3>3 DEF LatestOf
  <2> QED BY <2>2, <2>3
<1> HIDE DEF m, n
<1>12. /\ FlattenSeq(u) \in Seq(Tokens) /\ FlattenSeq(v) \in Seq(Tokens)
       /\ FlattenSeq(w) = FlattenSeq(u) \o FlattenSeq(v)
  <2>1. m \in Nat /\ n \in Nat BY <1>1
  <2>2. (\A i \in 1 .. m : w[i] = u[i]) /\ (\A i \in 1 .. n : w[m + i] = v[i])
    BY <1>9, <1>10
  <2>3. (\A i \in 1 .. m : u[i] \in Seq(Tokens)) /\ (\A i \in 1 .. n : v[i] \in Seq(Tokens))
    BY <1>9, <1>10
  <2>4. u \o v = w BY <1>8, <2>1, <2>2, Joined
  <2>5. u \in Seq(Seq(Tokens)) /\ FlattenSeq(u) \in Seq(Tokens) BY <1>8, <2>1, <2>3, AreSequences
  <2>6. v \in Seq(Seq(Tokens)) /\ FlattenSeq(v) \in Seq(Tokens) BY <1>8, <2>1, <2>3, AreSequences
  <2> QED BY <2>4, <2>5, <2>6, FlattenConcat
<1> QED BY <1>3, <1>5, <1>6, <1>7, <1>11, <1>12 DEF c, mid

(* Nothing says nothing.                                                   *)
LEMMA OfNothing ==
    /\ Spell(<< >>) = << >> /\ Rendered(<< >>) = << >> /\ TrimStart(<< >>) = << >>
    /\ \A prev \in Answers : Collapse(prev, << >>) = << >>
<1>1. FlattenSeq(<< >>) = << >> BY DEF FlattenSeq
<1>2. Len(<< >>) = 0 OBVIOUS
<1>3. Spell(<< >>) = << >> BY <1>1 DEF Spell
<1>4. Rendered(<< >>) = << >> BY <1>1 DEF Rendered
<1>5. TrimStart(<< >>) = << >> BY <1>2 DEF TrimStart
<1>6. ASSUME NEW prev \in Answers PROVE Collapse(prev, << >>) = << >>
  <2>1. << >> \in Seq(Answers) OBVIOUS
  <2>2. Collapse(prev, << >>)
          = FlattenSeq([i \in 1 .. Len(<< >>) |-> KeptAfter(Prior(prev, << >>, i), << >>[i])])
    BY <2>1, CollapseIs
  <2>3. [i \in 1 .. Len(<< >>) |-> KeptAfter(Prior(prev, << >>, i), << >>[i])] = << >>
    BY <1>2
  <2> QED BY <1>1, <2>2, <2>3
<1> QED BY <1>3, <1>4, <1>5, <1>6

-----------------------------------------------------------------------------
(* One push: its windows, its queue and its answers                        *)

(* What is left queued when all steps succeed.                             *)
EndsWith(n, last) ==
    IF Steps(n, last) = << >> THEN n ELSE Shifted(Last(Steps(n, last)), last)

(* The steps of a push, and what they leave: at the end of the utterance   *)
(* nothing, and before it less than a window.                              *)
LEMMA StepsFacts ==
    ASSUME NEW n \in Nat, NEW last \in BOOLEAN,
           NEW k, k = Count(n, last), NEW s, s = Steps(n, last)
    PROVE  /\ k \in Nat /\ OfLength(s, k) /\ Len(s) = k
           /\ \A i \in 1 .. k : s[i] = n - ((i - 1) * SHIFT_FRAMES) /\ s[i] \in 1 .. n
           /\ EndsWith(n, last) \in 0 .. n
           /\ ~last => /\ \A i \in 1 .. k : s[i] >= CHUNK_FRAMES
                       /\ EndsWith(n, last) = n - (k * SHIFT_FRAMES)
                       /\ EndsWith(n, last) < CHUNK_FRAMES
           /\ last => /\ EndsWith(n, last) = 0
                      /\ n > 0 => k > 0
                      /\ k > 0 => s[k] <= CHUNK_FRAMES
                      /\ \A i \in 1 .. k - 1 : s[i] > CHUNK_FRAMES
<1> DEFINE C == CHUNK_FRAMES
           h == SHIFT_FRAMES
           e == EndsWith(n, last)
<1>1. h \in Nat \ {0} /\ C \in Nat /\ C > h BY StreamAssumption
<1>2. s = [i \in 1 .. k |-> n - ((i - 1) * h)] BY StepsAre DEF StepsOf
<1>3. OfLength(s, k) /\ \A i \in 1 .. k : s[i] = n - ((i - 1) * h) BY <1>2 DEF OfLength
<1>4. k = IF Stops(n, last) THEN 0
          ELSE IF last THEN IF n <= C THEN 1 ELSE ((n - C + h - 1) \div h) + 1
          ELSE ((n - C) \div h) + 1
  BY DEF Count
<1>5. Stops(n, last) <=> (n < C /\ ~(last /\ n > 0)) BY DEF Stops
<1>6. \A m \in Nat : /\ ~last /\ m >= h => Shifted(m, last) = m - h
                     /\ last /\ m <= C => Shifted(m, last) = 0
  <2> TAKE m \in Nat
  <2>1. CASE h < m
    <3>1. m - Least(SHIFT_FRAMES, m) = m - h BY <2>1 DEF Least
    <3> QED BY <1>1, <2>1, <3>1 DEF Shifted
  <2>2. CASE ~(h < m)
    <3>1. m - Least(SHIFT_FRAMES, m) = 0 BY <1>1, <2>2 DEF Least
    <3> QED BY <1>1, <2>2, <3>1 DEF Shifted
  <2> QED BY <2>1, <2>2
<1> HIDE DEF C, h
<1>7. ASSUME k \in Nat
      PROVE  /\ Len(s) = k
             /\ k = 0 => e = n
             /\ k > 0 => s[k] = n - ((k - 1) * h) /\ e = Shifted(s[k], last)
             /\ k > 0 => \A i \in 1 .. k : s[i] >= s[k]
  <2>1. Len(s) = k BY <1>3, <1>7, LenIs
  <2>2. k = 0 => e = n
    <3>1. k = 0 => s = << >> BY <1>2
    <3> QED BY <3>1 DEF EndsWith
  <2>3. k > 0 => e = Shifted(s[k], last)
    <3>1. k > 0 => s # << >>
      <4>1. s = << >> => Len(s) = 0 OBVIOUS
      <4> QED BY <2>1, <4>1
    <3> QED BY <2>1, <3>1 DEF EndsWith, Last
  <2>4. k > 0 => s[k] = n - ((k - 1) * h) BY <1>3, <1>7
  <2>5. ASSUME k > 0, NEW i \in 1 .. k PROVE s[i] >= s[k]
    <3>1. i - 1 \in Int /\ k - 1 \in Int /\ i - 1 <= k - 1 BY <1>7
    <3>2. (i - 1) * h <= (k - 1) * h BY <1>1, <3>1, Multiples
    <3>3. (i - 1) * h \in Int /\ (k - 1) * h \in Int BY <1>1, <3>1
    <3>4. s[i] = n - ((i - 1) * h) BY <1>3
    <3> QED BY <2>4, <2>5, <3>2, <3>3, <3>4
  <2> QED BY <2>1, <2>2, <2>3, <2>4, <2>5
<1>8. \A i \in 1 .. k : k \in Nat => s[i] <= n /\ s[i] \in Int
  <2> TAKE i \in 1 .. k
  <2>1. k \in Nat => i - 1 \in Nat OBVIOUS
  <2>2. k \in Nat => (i - 1) * h \in Nat BY <1>1, <2>1
  <2> QED BY <1>3, <2>2
<1> HIDE DEF e
<1>9. CASE Stops(n, last)
  <2>1. k = 0 /\ e = n BY <1>4, <1>7, <1>9
  <2>2. k * h = 0 BY <1>1, <2>1
  <2>3. last => n = 0 BY <1>5, <1>9
  <2> QED BY <1>3, <1>5, <1>7, <1>9, <2>1, <2>2, <2>3 DEF e, h, C
<1>10. CASE ~Stops(n, last) /\ ~last
  <2> DEFINE a == n - C
             q == a \div h
  <2>1. a \in Nat BY <1>1, <1>5, <1>10
  <2>3. k = q + 1 BY <1>4, <1>10, Zenon
  <2>11. q \in Nat /\ q * h <= a /\ a < (q * h) + h
    <3> HIDE DEF a
    <3>1. /\ a \div h \in Nat /\ a % h \in 0 .. h - 1
          /\ a = ((a \div h) * h) + (a % h)
      BY <1>1, <2>1, DivIs
    <3> HIDE DEF q
    <3>2. q \in Nat /\ a % h \in 0 .. h - 1 /\ a = (q * h) + (a % h) BY <3>1 DEF q
    <3>3. q * h \in Nat BY <1>1, <3>2
    <3> QED BY <1>1, <2>1, <3>2, <3>3
  <2>2. q \in Nat /\ q * h <= n - C /\ n - C < (q * h) + h BY <2>11
  <2> HIDE DEF q
  <2>4. k \in Nat /\ k > 0 /\ k - 1 = q /\ k * h = (q * h) + h BY <1>1, <2>2, <2>3, Distrib
  <2>5. q * h \in Nat BY <1>1, <2>2
  <2>6. s[k] = n - (q * h) /\ e = Shifted(s[k], last) BY <1>7, <2>4
  <2>7. s[k] >= C /\ s[k] \in Nat BY <1>1, <2>2, <2>5, <2>6
  <2>8. e = s[k] - h BY <1>1, <1>6, <1>10, <2>6, <2>7
  <2>9. e = n - (k * h) /\ e < C /\ e \in 0 .. n
    BY <1>1, <2>1, <2>2, <2>4, <2>5, <2>6, <2>7, <2>8
  <2>10. \A i \in 1 .. k : s[i] >= C /\ s[i] \in 1 .. n
    <3> TAKE i \in 1 .. k
    <3>1. s[i] >= s[k] /\ s[i] <= n /\ s[i] \in Int BY <1>7, <1>8, <2>4
    <3> QED BY <1>1, <2>7, <3>1
  <2> QED BY <1>3, <1>7, <1>10, <2>4, <2>9, <2>10 DEF e, h, C
<1>11. CASE ~Stops(n, last) /\ last /\ n <= C
  <2>6. k = 1 BY <1>4, <1>11, Zenon
  <2>7. n > 0
    <3>1. ~(n < C) \/ n > 0 BY <1>5, <1>11, Zenon
    <3> QED BY <1>1, <3>1
  <2>1. k = 1 /\ n > 0 BY <2>6, <2>7
  <2>2. (k - 1) * h = 0 BY <1>1, <2>1
  <2>3. s[k] = n /\ e = Shifted(n, last) BY <1>7, <2>1, <2>2
  <2>4. e = 0 BY <1>1, <1>6, <1>11, <2>1, <2>3
  <2>5. \A i \in 1 .. k : i = k BY <2>1
  <2>8. \A i \in 1 .. k : s[i] \in 1 .. n BY <2>1, <2>3, <2>5
  <2>9. \A i \in 1 .. k - 1 : s[i] > C BY <2>1
  <2>10. e \in 0 .. n BY <2>4
  <2>11. Len(s) = k BY <1>7, <2>1
  <2>15. k \in Nat /\ k > 0 BY <2>1
  <2>13. last /\ k \in Nat /\ k > 0 BY <1>11, <2>15, Zenon
  <2>14. n <= C BY <1>11
  <2>12. last /\ k \in Nat /\ k > 0 /\ s[k] <= C BY <2>3, <2>13, <2>14, Zenon
  <2> QED BY <1>3, <2>4, <2>8, <2>9, <2>10, <2>11, <2>12 DEF e, h, C
<1>12. CASE ~Stops(n, last) /\ last /\ n > C
  <2> DEFINE a == n - C + h - 1
             q == a \div h
  <2>1. a \in Nat BY <1>1, <1>12
  <2>3. k = q + 1
    <3>1. ~(n <= C) BY <1>1, <1>12
    <3> QED BY <1>4, <1>12, <3>1, Zenon
  <2>11. q \in Nat /\ q * h <= a /\ a < (q * h) + h
    <3> HIDE DEF a
    <3>1. /\ a \div h \in Nat /\ a % h \in 0 .. h - 1
          /\ a = ((a \div h) * h) + (a % h)
      BY <1>1, <2>1, DivIs
    <3> HIDE DEF q
    <3>2. q \in Nat /\ a % h \in 0 .. h - 1 /\ a = (q * h) + (a % h) BY <3>1 DEF q
    <3>3. q * h \in Nat BY <1>1, <3>2
    <3> QED BY <1>1, <2>1, <3>2, <3>3
  <2>2. q \in Nat /\ q * h <= n - C + h - 1 /\ n - C + h - 1 < (q * h) + h
    BY <2>11
  <2> HIDE DEF q
  <2>4. k \in Nat /\ k > 0 /\ k - 1 = q BY <2>2, <2>3
  <2>5. q * h \in Nat BY <1>1, <2>2
  <2>6. s[k] = n - (q * h) /\ e = Shifted(s[k], last) BY <1>7, <2>4
  <2>7. s[k] <= C /\ s[k] > 0 /\ s[k] \in Nat
    <3> DEFINE y == q * h
    <3>1. /\ y \in Nat /\ y <= n - C + h - 1 /\ n - C + h - 1 < y + h /\ s[k] = n - y
          /\ n > C
      BY <1>12, <2>2, <2>5, <2>6
    <3> HIDE DEF y
    <3> QED BY <1>1, <3>1
  <2>8. e = 0 BY <1>1, <1>6, <1>12, <2>6, <2>7
  <2>9. \A i \in 1 .. k : s[i] \in 1 .. n
    <3> TAKE i \in 1 .. k
    <3>1. s[i] >= s[k] /\ s[i] <= n /\ s[i] \in Int BY <1>7, <1>8, <2>4
    <3> QED BY <2>7, <3>1
  <2>10. \A i \in 1 .. k - 1 : s[i] > C
    <3> TAKE i \in 1 .. k - 1
    <3>1. i \in 1 .. k /\ i - 1 \in Int /\ i - 1 <= q - 1 BY <2>2, <2>4
    <3>2. (i - 1) * h <= (q - 1) * h BY <1>1, <2>2, <3>1, Multiples
    <3>3. (q - 1) * h = (q * h) - h
      <4>1. ((q - 1) + 1) * h = ((q - 1) * h) + (1 * h) BY <1>1, <2>2, Distrib
      <4>2. (q - 1) + 1 = q BY <2>2
      <4>3. (q - 1) * h \in Int BY <1>1, <2>2
      <4> QED BY <1>1, <2>5, <4>1, <4>2, <4>3
    <3>4. (i - 1) * h \in Int BY <1>1, <3>1
    <3>5. s[i] = n - ((i - 1) * h) BY <1>3, <3>1
    <3>6. n \in Nat /\ C \in Nat /\ h \in Nat /\ q * h <= n - C + h - 1
      BY <1>1, <2>2
    <3>7. (i - 1) * h <= (q * h) - h BY <3>2, <3>3
    <3> DEFINE x == (i - 1) * h
               y == q * h
    <3> HIDE DEF x, y
    <3>8. x \in Int /\ y \in Nat /\ x <= y - h /\ y <= n - C + h - 1 /\ s[i] = n - x
      BY <2>5, <3>4, <3>5, <3>6, <3>7 DEF x, y
    <3> QED BY <3>6, <3>8
  <2>13. e \in 0 .. n BY <2>8
  <2>14. Len(s) = k BY <1>7, <2>4
  <2>12. last /\ k \in Nat /\ k > 0 /\ s[k] <= C BY <1>12, <2>4, <2>7
  <2> QED BY <1>3, <2>8, <2>9, <2>10, <2>12, <2>13, <2>14 DEF e, h, C
<1>13. n <= C \/ n > C BY <1>1
<1> QED BY <1>9, <1>10, <1>11, <1>12, <1>13, Zenon DEF C

(* The queue: the last Q of T frames, by their numbers; and the window     *)
(* taken when m of them are left.                                          *)
Numbers(T, Q) == [i \in 1 .. Q |-> (T - Q) + i]
WindowAt(T, m) == [i \in 1 .. Least(m, CHUNK_FRAMES) |-> (T - m) + i]

DoneOf(n, last, fails) == IF fails = 0 THEN Count(n, last) ELSE fails - 1
LeftOf(n, last, fails) == IF fails # 0 THEN Steps(n, last)[fails] ELSE EndsWith(n, last)

(* The queue is the end of the frames, before and after it is shifted, and *)
(* a window is the beginning of what is left.                              *)
LEMMA NumbersAre ==
    ASSUME NEW T \in Nat, NEW Q \in 0 .. T
    PROVE  /\ Len(Numbers(T, Q)) = Q
           /\ \A k \in Nat : Numbers(T, Q) \o [i \in 1 .. k |-> T + i] = Numbers(T + k, Q + k)
           /\ \A l \in 0 .. Q : SubSeq(Numbers(T, Q), Q - l + 1, Q) = Numbers(T, l)
           /\ \A m \in 1 .. Q : Window(Numbers(T, Q), m) = WindowAt(T, m)
<1> DEFINE q == Numbers(T, Q)
<1>1. OfLength(q, Q) /\ \A i \in 1 .. Q : q[i] = (T - Q) + i BY DEF Numbers, OfLength
<1>2. Q \in Nat /\ Q <= T OBVIOUS
<1> HIDE DEF q
<1>3. Len(q) = Q BY <1>1, <1>2, LenIs
<1>4. ASSUME NEW k \in Nat PROVE q \o [i \in 1 .. k |-> T + i] = Numbers(T + k, Q + k)
  <2> DEFINE new == [i \in 1 .. k |-> T + i]
             w == Numbers(T + k, Q + k)
  <2>1. OfLength(new, k) /\ OfLength(w, Q + k) BY DEF OfLength, Numbers
  <2>2. \A i \in 1 .. Q : w[i] = q[i]
    <3> TAKE i \in 1 .. Q
    <3>1. w[i] = ((T + k) - (Q + k)) + i BY <1>2 DEF Numbers
    <3>2. ((T + k) - (Q + k)) + i = (T - Q) + i BY <1>2
    <3> QED BY <1>1, <3>1, <3>2
  <2>3. \A i \in 1 .. k : w[Q + i] = new[i]
    <3> TAKE i \in 1 .. k
    <3>1. w[Q + i] = ((T + k) - (Q + k)) + (Q + i) BY <1>2 DEF Numbers
    <3>2. ((T + k) - (Q + k)) + (Q + i) = T + i BY <1>2
    <3> QED BY <3>1, <3>2
  <2> HIDE DEF new, w
  <2>4. q \o new = w BY <1>1, <1>2, <2>1, <2>2, <2>3, Joined
  <2> QED BY <2>4 DEF new, w
<1>5. ASSUME NEW b \in Nat, NEW c \in Nat, b <= c, c <= Q
      PROVE  SubSeq(q, b + 1, c) = [i \in 1 .. c - b |-> (T - Q) + (b + i)]
  <2>1. SubSeq(q, b + 1, c) = [i \in 1 .. c - b |-> q[b + i]] BY <1>1, <1>2, <1>5, Stretch
  <2>2. \A i \in 1 .. c - b : q[b + i] = (T - Q) + (b + i)
    <3> TAKE i \in 1 .. c - b
    <3>1. b + i \in 1 .. Q BY <1>2, <1>5
    <3> QED BY <1>1, <3>1
  <2> QED BY <2>1, <2>2
<1>6. ASSUME NEW l \in 0 .. Q PROVE SubSeq(q, Q - l + 1, Q) = Numbers(T, l)
  <2> DEFINE b == Q - l
  <2>1. b \in Nat /\ b <= Q /\ Q - b = l /\ l \in Nat BY <1>2
  <2>2. \A i \in 1 .. l : (T - Q) + (b + i) = (T - l) + i BY <1>2
  <2> HIDE DEF b
  <2>3. SubSeq(q, b + 1, Q) = [i \in 1 .. Q - b |-> (T - Q) + (b + i)]
    <3>1. Q \in Nat /\ Q <= Q BY <1>2
    <3> QED BY <1>5, <2>1, <3>1
  <2>4. SubSeq(q, b + 1, Q) = [i \in 1 .. l |-> (T - l) + i] BY <2>1, <2>2, <2>3
  <2> QED BY <2>4 DEF b, Numbers
<1>7. ASSUME NEW m \in 1 .. Q PROVE Window(q, m) = WindowAt(T, m)
  <2> DEFINE b == Q - m
             l == Least(m, CHUNK_FRAMES)
  <2>1. l \in Nat /\ l <= m BY <1>2, StreamAssumption DEF Least
  <2>2. b \in Nat /\ m \in Nat BY <1>2
  <2> HIDE DEF l
  <2>3. b + l <= Q /\ b <= b + l /\ b + l \in Nat /\ (b + l) - b = l BY <1>2, <2>1
  <2>4. \A i \in 1 .. l : (T - Q) + (b + i) = (T - m) + i BY <1>2, <2>1
  <2>5. Window(q, m) = SubSeq(q, b + 1, b + l)
    <3>1. (b + 1) + l - 1 = b + l BY <2>1, <2>2
    <3>2. Window(q, m) = SubSeq(q, b + 1, (b + 1) + l - 1) BY <1>3 DEF Window, l
    <3> QED BY <3>1, <3>2
  <2> HIDE DEF b
  <2>6. SubSeq(q, b + 1, b + l) = [i \in 1 .. (b + l) - b |-> (T - Q) + (b + i)]
    BY <1>5, <2>2, <2>3
  <2>7. SubSeq(q, b + 1, b + l) = [i \in 1 .. l |-> (T - m) + i] BY <2>3, <2>4, <2>6
  <2> QED BY <2>5, <2>7 DEF l, WindowAt
<1> QED BY <1>3, <1>4, <1>6, <1>7 DEF q

(* What T frames, Q of them queued, and k new ones make of a push.          *)
Pushed(T, k, Q, last, fails, toks) ==
    LET d == DoneOf(Q + k, last, fails)
        spelt == Spell(Collapse(prev_token, toks))
    IN  /\ d \in 0 .. Count(Q + k, last) /\ Len(toks) = d
        /\ LeftOf(Q + k, last, fails) \in 0 .. Q + k
        /\ queue' = Numbers(T + k, LeftOf(Q + k, last, fails))
        /\ windows' = windows \o [i \in 1 .. d |-> WindowAt(T + k, Steps(Q + k, last)[i])]
        /\ tokens' = tokens \o toks
        /\ prev_token' = LatestOf(prev_token, toks)
        /\ caches' = (caches /\ fails = 0)
        /\ IF fails # 0 THEN UNCHANGED <<text, emitted>>
           ELSE /\ text' = text \o (IF emitted THEN spelt ELSE TrimStart(spelt))
                /\ emitted' = (emitted \/ Emits(spelt))

(* What a whole push does to the queue, the windows and the text.          *)
LEMMA PushIs ==
    ASSUME NEW n \in 0 .. MaxChunk, NEW last \in BOOLEAN, Push(n, last),
           NEW T \in Nat, NEW k \in Nat, NEW Q \in 0 .. T,
           Len(frames) = T, queue = Numbers(T, Q),
           Len(FbankPush(fbank, [i \in 1 .. n |-> fed + i], last).frames) = k
    PROVE  \E fails \in Failing(Count(Q + k, last)), toks \in Seq(Answers) :
             Pushed(T, k, Q, last, fails, toks)
<1> DEFINE m == Q + k
           c == Count(m, last)
           new == FbankPush(fbank, [i \in 1 .. n |-> fed + i], last).frames
           q == queue \o [i \in 1 .. Len(new) |-> Len(frames) + i]
           s == Steps(Len(q), last)
           Done(fails) == IF fails = 0 THEN Len(s) ELSE fails - 1
           Left(fails) == IF fails # 0 THEN s[fails]
                          ELSE IF s = << >> THEN Len(q) ELSE Shifted(Last(s), last)
<1>1. T + k \in Nat /\ m \in 0 .. T + k /\ m \in Nat OBVIOUS
<1>2. q = Numbers(T + k, m) BY NumbersAre
<1>3. PICK fails \in Failing(Len(s)) : \E toks \in [1 .. Done(fails) -> Answers] :
        LET spelt == Spell(Collapse(prev_token, toks))
        IN  /\ queue' = SubSeq(q, Len(q) - Left(fails) + 1, Len(q))
            /\ windows' = windows \o [i \in 1 .. Done(fails) |-> Window(q, s[i])]
            /\ tokens' = tokens \o toks
            /\ prev_token' = IF Done(fails) = 0 THEN prev_token ELSE toks[Done(fails)]
            /\ caches' = (caches /\ fails = 0)
            /\ IF fails # 0 THEN UNCHANGED <<text, emitted>>
               ELSE /\ text' = text \o (IF emitted THEN spelt ELSE TrimStart(spelt))
                    /\ emitted' = (emitted \/ Emits(spelt))
  BY ZenonT(30) DEF Push, Answers
<1>4. PICK toks \in [1 .. Done(fails) -> Answers] :
        LET spelt == Spell(Collapse(prev_token, toks))
        IN  /\ queue' = SubSeq(q, Len(q) - Left(fails) + 1, Len(q))
            /\ windows' = windows \o [i \in 1 .. Done(fails) |-> Window(q, s[i])]
            /\ tokens' = tokens \o toks
            /\ prev_token' = IF Done(fails) = 0 THEN prev_token ELSE toks[Done(fails)]
            /\ caches' = (caches /\ fails = 0)
            /\ IF fails # 0 THEN UNCHANGED <<text, emitted>>
               ELSE /\ text' = text \o (IF emitted THEN spelt ELSE TrimStart(spelt))
                    /\ emitted' = (emitted \/ Emits(spelt))
  BY <1>3
<1> HIDE DEF q, m
<1>5. Len(q) = m BY <1>1, <1>2, NumbersAre
<1>6. s = Steps(m, last) BY <1>5
<1> HIDE DEF s
<1>7. /\ c \in Nat /\ Len(s) = c /\ \A i \in 1 .. c : s[i] \in 1 .. m
      /\ EndsWith(m, last) \in 0 .. m
  <2>1. c = Count(m, last) OBVIOUS
  <2> HIDE DEF c
  <2>2. c \in Nat /\ Len(s) = c BY <1>1, <1>6, <2>1, StepsFacts
  <2>3. \A i \in 1 .. c : s[i] \in 1 .. m BY <1>1, <1>6, <2>1, StepsFacts
  <2>4. EndsWith(m, last) \in 0 .. m BY <1>1, <1>6, <2>1, StepsFacts
  <2> QED BY <2>2, <2>3, <2>4
<1> HIDE DEF c
<1>8. fails \in 0 .. c /\ fails \in Failing(c)
  BY <1>3, <1>7 DEF Failing, Least
<1>9. Done(fails) = DoneOf(m, last, fails) /\ Done(fails) \in 0 .. c
  BY <1>7, <1>8 DEF DoneOf, c
<1>10. Left(fails) = LeftOf(m, last, fails)
  BY <1>5, <1>6 DEF LeftOf, EndsWith
<1>11. Left(fails) \in 0 .. m
  <2>1. CASE fails = 0 BY <1>7, <1>10, <2>1 DEF LeftOf
  <2>2. CASE fails # 0
    <3>1. fails \in 1 .. c BY <1>8, <2>2
    <3> QED BY <1>7, <2>2, <3>1
  <2> QED BY <2>1, <2>2
<1> DEFINE d == Done(fails)
           l == Left(fails)
<1>12. d \in Nat /\ d <= c BY <1>7, <1>9
<1>13. d = DoneOf(m, last, fails) /\ l = LeftOf(m, last, fails) /\ l \in 0 .. m
  BY <1>9, <1>10, <1>11
<1>14. /\ queue' = SubSeq(q, m - l + 1, m)
       /\ windows' = windows \o [i \in 1 .. d |-> Window(q, s[i])]
       /\ prev_token' = IF d = 0 THEN prev_token ELSE toks[d]
       /\ toks \in [1 .. d -> Answers]
  BY <1>4, <1>5
<1> HIDE DEF d, l
<1>15. toks \in Seq(Answers) /\ Len(toks) = d
  <2>1. toks \in Seq(Answers) BY <1>12, <1>14, IsASeq
  <2> QED BY <1>12, <1>14, <2>1, LenProperties
<1>16. queue' = Numbers(T + k, l) BY <1>1, <1>2, <1>13, <1>14, NumbersAre
<1>17. windows' = windows \o [i \in 1 .. d |-> WindowAt(T + k, s[i])]
  <2>1. \A i \in 1 .. d : Window(q, s[i]) = WindowAt(T + k, s[i])
    <3> TAKE i \in 1 .. d
    <3>1. s[i] \in 1 .. m BY <1>7, <1>12
    <3> QED BY <1>1, <1>2, <3>1, NumbersAre
  <2> QED BY <1>14, <2>1
<1>18. prev_token' = LatestOf(prev_token, toks)
  <2>1. toks = << >> <=> d = 0 BY <1>15, EmptySeq
  <2> QED BY <1>14, <1>15, <2>1 DEF LatestOf
<1>19. d \in 0 .. c BY <1>7, <1>12
<1>20. Pushed(T, k, Q, last, fails, toks)
  BY <1>4, <1>6, <1>13, <1>15, <1>16, <1>17, <1>18, <1>19 DEF m, c, Pushed
<1> QED BY <1>8, <1>15, <1>20 DEF m, c

-----------------------------------------------------------------------------
(* What is said                                                            *)

(* The queue is the end of the frames that the front end has made, and on  *)
(* the other engine nothing happens to either.                             *)
QueueInv ==
    /\ FramesInv
    /\ engine \in {"nemotron", "persian"}
    /\ caches \in BOOLEAN
    /\ windows \in Seq(Seq(Int))
    /\ \E T \in Nat : \E Q \in 0 .. T : Len(frames) = T /\ queue = Numbers(T, Q)
    /\ engine # "persian" => caches

(* A step: a push of a Persian stream, a call of a multilingual one, or    *)
(* nothing.                                                                *)
LEMMA StepIs ==
    ASSUME QueueInv, RecNext
    PROVE  \/ /\ engine = "persian" /\ ~finished
              /\ \E last \in BOOLEAN, T \in Nat, k \in Nat : \E Q \in 0 .. T :
                   /\ Len(frames) = T /\ Len(frames') = T + k /\ queue = Numbers(T, Q)
                   /\ last => k > 0
                   /\ finished' = last
                   /\ \E fails \in Failing(Count(Q + k, last)), toks \in Seq(Answers) :
                        Pushed(T, k, Q, last, fails, toks)
              /\ UNCHANGED <<engine, nemotron>>
           \/ \E n \in 0 .. MaxChunk, last \in BOOLEAN :
                    Transcribe(n, last) \/ TranscribeFails(n, last)
           \/ UNCHANGED allVars
<1>1. ASSUME engine = "persian", UNCHANGED <<engine, nemotron>>,
             NEW n \in 0 .. MaxChunk, NEW last \in BOOLEAN, Push(n, last)
      PROVE  /\ ~finished
             /\ \E T \in Nat, k \in Nat : \E Q \in 0 .. T :
                  /\ Len(frames) = T /\ Len(frames') = T + k /\ queue = Numbers(T, Q)
                  /\ last => k > 0
                  /\ finished' = last
                  /\ \E fails \in Failing(Count(Q + k, last)), toks \in Seq(Answers) :
                       Pushed(T, k, Q, last, fails, toks)
  <2> DEFINE new == FbankPush(fbank, [i \in 1 .. n |-> fed + i], last).frames
  <2>1. ~finished /\ finished' = last /\ frames' = frames \o new /\ fed' = fed + n
    BY <1>1 DEF Push
  <2>2. Heard /\ fed \in Nat BY <1>1 DEF QueueInv, FramesInv
  <2>3. n \in Nat BY StreamAssumption
  <2>4. PICK t \in Nat : frames = FirstFrames(fed, t) /\ FrontEnd(fbank, fed, t)
    BY <2>1, <2>2 DEF Heard
  <2>5. PICK k \in Nat : new = NextFrames(fed + n, t, k) /\ (last => k > 0)
    BY <2>3, <2>4, FrontEndPush
  <2>6. PICK T \in Nat : \E Q \in 0 .. T : Len(frames) = T /\ queue = Numbers(T, Q)
    BY DEF QueueInv
  <2>7. PICK Q \in 0 .. T : Len(frames) = T /\ queue = Numbers(T, Q) BY <2>6
  <2>8. Len(new) = k
    <3>1. OfLength(new, k) BY <2>5 DEF OfLength, NextFrames
    <3> HIDE DEF new
    <3> QED BY <3>1, LenIs
  <2>9. Len(frames') = T + k
    <3>1. OfLength(frames, t) BY <2>4 DEF OfLength, FirstFrames
    <3>2. t = T BY <2>7, <3>1, LenIs
    <3>3. OfLength(new, k) BY <2>5 DEF OfLength, NextFrames
    <3> HIDE DEF new
    <3> DEFINE w == [i \in 1 .. T + k |-> IF i <= T THEN frames[i] ELSE new[i - T]]
    <3>4. frames \o new = w
      <4>1. OfLength(w, T + k) BY DEF OfLength
      <4>2. \A i \in 1 .. T : w[i] = frames[i] OBVIOUS
      <4>3. \A i \in 1 .. k : w[T + i] = new[i]
        <5> TAKE i \in 1 .. k
        <5>1. T + i \in 1 .. T + k /\ ~(T + i <= T) /\ (T + i) - T = i OBVIOUS
        <5> QED BY <5>1
      <4>4. OfLength(frames, T) BY <3>1, <3>2
      <4> HIDE DEF w
      <4> QED BY <3>3, <4>1, <4>2, <4>3, <4>4, Joined
    <3>5. OfLength(frames', T + k) BY <2>1, <3>4 DEF OfLength
    <3>6. T + k \in Nat OBVIOUS
    <3> QED BY <3>5, <3>6, LenIs
  <2>10. \E fails \in Failing(Count(Q + k, last)), toks \in Seq(Answers) :
           Pushed(T, k, Q, last, fails, toks)
    BY <1>1, <2>7, <2>8, PushIs
  <2> QED BY <2>1, <2>5, <2>7, <2>9, <2>10
<1>2. ASSUME UNCHANGED <<vars, engine, nemotron>> PROVE UNCHANGED allVars
  BY <1>2 DEF allVars
<1> QED BY <1>1, <1>2 DEF RecNext, PersianNext, Next, PushAgain

(* Windows are sequences of numbers.                                       *)
LEMMA WindowsAre ==
    ASSUME NEW T \in Nat, NEW d \in Nat, NEW s, \A i \in 1 .. d : s[i] \in 1 .. T,
           NEW v, v = [i \in 1 .. d |-> WindowAt(T, s[i])]
    PROVE  v \in Seq(Seq(Int))
<1> DEFINE B == Seq(Int)
<1>1. ASSUME NEW m \in 1 .. T PROVE WindowAt(T, m) \in B
  <2> DEFINE l == Least(m, CHUNK_FRAMES)
  <2>1. l \in Nat BY StreamAssumption DEF Least
  <2> HIDE DEF l
  <2>2. [i \in 1 .. l |-> (T - m) + i] \in [1 .. l -> Int] OBVIOUS
  <2>3. [i \in 1 .. l |-> (T - m) + i] \in Seq(Int) BY <2>1, <2>2, IsASeq
  <2> QED BY <2>3 DEF WindowAt, l
<1>2. OfLength(v, d) BY DEF OfLength
<1>3. \A i \in 1 .. d : v[i] \in B BY <1>1
<1> HIDE DEF B
<1>4. v \in Seq(B) BY <1>2, <1>3, IsSequence
<1> QED BY <1>4 DEF B

(* At the start.                                                           *)
LEMMA QueueInit == RecInit => QueueInv
<1> SUFFICES ASSUME RecInit PROVE QueueInv OBVIOUS
<1>1. /\ frames = << >> /\ queue = << >> /\ windows = << >> /\ caches = TRUE
      /\ engine \in {"nemotron", "persian"}
  BY DEF RecInit, Init
<1>2. Numbers(0, 0) = << >> /\ Len(<< >>) = 0 /\ 0 \in 0 .. 0 BY DEF Numbers
<1>3. << >> \in Seq(Seq(Int)) BY EmptySeq
<1>4. \E T \in Nat : \E Q \in 0 .. T : Len(frames) = T /\ queue = Numbers(T, Q)
  BY <1>1, <1>2
<1> QED BY <1>1, <1>3, <1>4, FramesInit DEF QueueInv

(* Every step keeps the queue.                                             *)
LEMMA QueueStep ==
    ASSUME QueueInv, [RecNext]_allVars
    PROVE  QueueInv'
<1>1. FramesInv' BY FramesStep DEF QueueInv
<1>2. ASSUME engine = "persian", UNCHANGED engine, NEW last \in BOOLEAN,
             NEW T \in Nat, NEW k \in Nat, NEW Q \in 0 .. T, Len(frames') = T + k,
             NEW fails \in Failing(Count(Q + k, last)), NEW toks \in Seq(Answers),
             Pushed(T, k, Q, last, fails, toks)
      PROVE  QueueInv'
  <2> DEFINE d == DoneOf(Q + k, last, fails)
             l == LeftOf(Q + k, last, fails)
             s == Steps(Q + k, last)
             m == Q + k
             c == Count(Q + k, last)
  <2>1. /\ d \in 0 .. c /\ l \in 0 .. m
        /\ queue' = Numbers(T + k, l)
        /\ windows' = windows \o [i \in 1 .. d |-> WindowAt(T + k, s[i])]
        /\ caches' = (caches /\ fails = 0)
    BY <1>2 DEF Pushed
  <2>2. m \in Nat /\ m <= T + k /\ T + k \in Nat OBVIOUS
  <2>3. c \in Nat /\ \A i \in 1 .. c : s[i] \in 1 .. m
    <3>1. c = Count(m, last) /\ s = Steps(m, last) OBVIOUS
    <3> HIDE DEF c, s, m
    <3> QED BY <2>2, <3>1, StepsFacts
  <2> HIDE DEF d, l, s, m, c
  <2>4. [i \in 1 .. d |-> WindowAt(T + k, s[i])] \in Seq(Seq(Int))
    <3>1. \A i \in 1 .. d : s[i] \in 1 .. T + k BY <2>1, <2>2, <2>3
    <3>2. d \in Nat BY <2>1
    <3> QED BY <2>2, <3>1, <3>2, WindowsAre
  <2>5. windows' \in Seq(Seq(Int)) BY <2>1, <2>4, ConcatProperties DEF QueueInv
  <2>6. caches' \in BOOLEAN BY <2>1
  <2>7. \E t \in Nat : \E r \in 0 .. t : Len(frames') = t /\ queue' = Numbers(t, r)
    BY <1>2, <2>1, <2>2
  <2> QED BY <1>1, <1>2, <2>5, <2>6, <2>7 DEF QueueInv
<1>3. ASSUME NEW n \in 0 .. MaxChunk, NEW last \in BOOLEAN,
             Transcribe(n, last) \/ TranscribeFails(n, last)
      PROVE  QueueInv'
  BY <1>1, <1>3 DEF QueueInv, Transcribe, TranscribeFails, Called
<1>4. ASSUME UNCHANGED allVars PROVE QueueInv'
  BY <1>1, <1>4 DEF QueueInv, allVars, vars
<1> QED BY <1>2, <1>3, <1>4, StepIs

(* A call that decodes nothing says nothing.                               *)
LEMMA LossIs ==
    ASSUME ~caches, NEW c \in Nat, NEW fails \in Failing(c)
    PROVE  (fails = 0 => c = 0) /\ (fails # 0 => fails = 1)
  BY DEF Failing, Least

(* What the tokens say, as if they had come from one call.                 *)
SaidOf(ts) == TrimStart(Spell(Collapse(Blank, ts)))

(* Another push continues it.                                              *)
LEMMA SaidConcat ==
    ASSUME NEW ts \in Seq(Answers), NEW toks \in Seq(Answers),
           NEW spelt, spelt = Spell(Collapse(LatestOf(Blank, ts), toks))
    PROVE  /\ spelt \in Seq(Letters) /\ SaidOf(ts) \in Seq(Letters)
           /\ SaidOf(ts \o toks) = IF SaidOf(ts) = << >> THEN TrimStart(spelt)
                                   ELSE SaidOf(ts) \o spelt
           /\ IsPrefix(SaidOf(ts), SaidOf(ts \o toks))
<1> DEFINE a == Collapse(Blank, ts)
           b == Collapse(LatestOf(Blank, ts), toks)
<1>1. /\ a \in Seq(Tokens) /\ b \in Seq(Tokens)
      /\ Collapse(Blank, ts \o toks) = a \o b
  BY CollapseConcat DEF Answers
<1> HIDE DEF a, b
<1>2. /\ Spell(a) \in Seq(Letters) /\ Spell(b) \in Seq(Letters)
      /\ Spell(a \o b) = Spell(a) \o Spell(b)
  BY <1>1, SpellConcat
<1>3. spelt = Spell(b) BY DEF b
<1>4. SaidOf(ts) = TrimStart(Spell(a)) BY DEF SaidOf, a
<1>5. SaidOf(ts \o toks) = TrimStart(Spell(a) \o Spell(b)) BY <1>1, <1>2 DEF SaidOf
<1>6. SaidOf(ts \o toks) = IF SaidOf(ts) = << >> THEN TrimStart(spelt) ELSE SaidOf(ts) \o spelt
  BY <1>2, <1>3, <1>4, <1>5, TrimConcat
<1>7. SaidOf(ts) \in Seq(Letters) /\ TrimStart(spelt) \in Seq(Letters)
  BY <1>2, <1>3, <1>4, TrimIs
<1>8. IsPrefix(SaidOf(ts), SaidOf(ts \o toks))
  <2>1. CASE SaidOf(ts) = << >> BY <1>6, <1>7, <2>1, PrefixOf
  <2>2. CASE SaidOf(ts) # << >> BY <1>2, <1>3, <1>6, <1>7, <2>2, PrefixOf
  <2> QED BY <2>1, <2>2
<1> QED BY <1>2, <1>3, <1>6, <1>7, <1>8

(* The Persian text is what its tokens say, or the beginning of it once the *)
(* caches are lost; the other engine's is what it renders.  The trimming   *)
(* has ended when a word has been said.                                    *)
SaidInv ==
    /\ QueueInv
    /\ tokens \in Seq(Answers) /\ text \in Seq(Letters) /\ emitted \in BOOLEAN
    /\ engine = "persian" =>
         /\ prev_token = LatestOf(Blank, tokens)
         /\ IsPrefix(text, SaidOf(tokens))
         /\ caches => text = SaidOf(tokens) /\ (emitted <=> (text # << >>))
    /\ engine = "nemotron" =>
         /\ text = TrimStart(Rendered(tokens))
         /\ emitted <=> (text # << >>)

(* A push without caches or with none to spare says nothing, decodes       *)
(* nothing.                                                                *)
LEMMA PushedSilent ==
    ASSUME SaidInv, ~caches, NEW T \in Nat, NEW k \in Nat, NEW Q \in 0 .. T,
           NEW last \in BOOLEAN,
           NEW fails \in Failing(Count(Q + k, last)), NEW toks \in Seq(Answers),
           Pushed(T, k, Q, last, fails, toks), prev_token \in Answers
    PROVE  toks = << >> /\ UNCHANGED <<text, windows, tokens>>
<1> DEFINE d == DoneOf(Q + k, last, fails)
           c == Count(Q + k, last)
           s == Steps(Q + k, last)
           spelt == Spell(Collapse(prev_token, toks))
<1>1. /\ d \in 0 .. c /\ Len(toks) = d
      /\ windows' = windows \o [i \in 1 .. d |-> WindowAt(T + k, s[i])]
      /\ tokens' = tokens \o toks
      /\ IF fails # 0 THEN UNCHANGED <<text, emitted>>
         ELSE text' = text \o (IF emitted THEN spelt ELSE TrimStart(spelt))
  BY DEF Pushed
<1>2. c \in Nat
  <2> DEFINE m == Q + k
  <2>1. m \in Nat OBVIOUS
  <2> HIDE DEF m
  <2>2. Count(m, last) \in Nat BY <2>1, StepsFacts
  <2> QED BY <2>2 DEF m
<1>3. d = 0
  <2>1. (fails = 0 => c = 0) /\ (fails # 0 => fails = 1)
    <3> HIDE DEF c
    <3>1. fails \in Failing(c) BY DEF c
    <3> QED BY <1>2, <3>1, LossIs
  <2> QED BY <2>1 DEF DoneOf
<1>4. toks = << >> BY <1>1, <1>3, EmptySeq
<1>5. spelt = << >> /\ TrimStart(spelt) = << >> BY <1>4, OfNothing
<1>6. [i \in 1 .. d |-> WindowAt(T + k, s[i])] = << >> BY <1>3
<1> HIDE DEF d, c, s, spelt
<1>7. /\ windows \o << >> = windows /\ text \o << >> = text /\ tokens \o << >> = tokens
  BY ConcatEmptySeq DEF SaidInv, QueueInv
<1>8. text' = text BY <1>1, <1>5, <1>7
<1> QED BY <1>1, <1>4, <1>6, <1>7, <1>8

(* At the start nothing has been said.                                     *)
LEMMA SaidInit == RecInit => SaidInv
<1> SUFFICES ASSUME RecInit PROVE SaidInv OBVIOUS
<1>1. /\ tokens = << >> /\ text = << >> /\ emitted = FALSE /\ prev_token = Blank
  BY DEF RecInit, Init
<1>2. Blank \in Answers /\ << >> \in Seq(Answers) /\ << >> \in Seq(Letters) BY DEF Answers
<1>3. SaidOf(<< >>) = << >> BY <1>2, OfNothing DEF SaidOf
<1>4. LatestOf(Blank, << >>) = Blank BY DEF LatestOf
<1>5. IsPrefix(<< >>, << >>) BY <1>2, PrefixOf
<1>6. TrimStart(Rendered(<< >>)) = << >> BY OfNothing
<1> QED BY <1>1, <1>2, <1>3, <1>4, <1>5, <1>6, QueueInit DEF SaidInv

(* A push says what its tokens do.                                         *)
LEMMA SaidPushed ==
    ASSUME SaidInv, QueueInv', engine = "persian", UNCHANGED engine,
           NEW T \in Nat, NEW k \in Nat, NEW Q \in 0 .. T, NEW last \in BOOLEAN,
           NEW fails \in Failing(Count(Q + k, last)), NEW toks \in Seq(Answers),
           Pushed(T, k, Q, last, fails, toks)
    PROVE  SaidInv'
<1> DEFINE spelt == Spell(Collapse(prev_token, toks))
<1>1. /\ tokens \in Seq(Answers) /\ text \in Seq(Letters) /\ emitted \in BOOLEAN
      /\ prev_token = LatestOf(Blank, tokens)
      /\ IsPrefix(text, SaidOf(tokens))
      /\ caches => text = SaidOf(tokens) /\ (emitted <=> (text # << >>))
  BY DEF SaidInv
<1>2. /\ tokens' = tokens \o toks
      /\ prev_token' = LatestOf(prev_token, toks)
      /\ caches' = (caches /\ fails = 0)
      /\ fails # 0 => text' = text /\ emitted' = emitted
      /\ fails = 0 => /\ text' = text \o (IF emitted THEN spelt ELSE TrimStart(spelt))
                      /\ emitted' = (emitted \/ Emits(spelt))
  BY DEF Pushed
<1>3. tokens' \in Seq(Answers) BY <1>1, <1>2, ConcatProperties
<1>4. Blank \in Answers BY DEF Answers
<1>5. prev_token \in Answers /\ prev_token' = LatestOf(Blank, tokens')
  BY <1>1, <1>2, <1>4, CollapseConcat
<1>6. /\ spelt \in Seq(Letters) /\ SaidOf(tokens) \in Seq(Letters)
      /\ SaidOf(tokens') = IF SaidOf(tokens) = << >> THEN TrimStart(spelt)
                           ELSE SaidOf(tokens) \o spelt
      /\ IsPrefix(SaidOf(tokens), SaidOf(tokens'))
  BY <1>1, <1>2, SaidConcat
<1>7. TrimStart(spelt) \in Seq(Letters) BY <1>6, TrimIs
<1>8. CASE ~caches
  <2>1. toks = << >> /\ text' = text /\ tokens' = tokens BY <1>5, <1>8, PushedSilent
  <2>2. ~caches' BY <1>2, <1>8
  <2>3. emitted' \in BOOLEAN BY <1>1, <1>2
  <2> QED BY <1>1, <1>3, <1>5, <2>1, <2>2, <2>3 DEF SaidInv
<1>9. CASE caches /\ fails # 0
  <2>1. IsPrefix(text', SaidOf(tokens')) BY <1>1, <1>2, <1>6, <1>9
  <2>2. ~caches' BY <1>2, <1>9
  <2> QED BY <1>1, <1>2, <1>3, <1>5, <1>9, <2>1, <2>2 DEF SaidInv
<1>10. CASE caches /\ fails = 0
  <2> HIDE DEF spelt
  <2>1. /\ text' = text \o (IF emitted THEN spelt ELSE TrimStart(spelt))
        /\ emitted' = (emitted \/ TrimStart(spelt) # << >>)
        /\ text = SaidOf(tokens) /\ (emitted <=> (text # << >>))
    BY <1>1, <1>2, <1>10 DEF Emits
  <2>2. text' = SaidOf(tokens') /\ text' \in Seq(Letters) /\ (emitted' <=> (text' # << >>))
    <3>1. CASE emitted
      <4>1. text' = text \o spelt /\ text # << >> BY <2>1, <3>1
      <4>2. text' # << >> /\ text' \in Seq(Letters)
        BY <1>1, <1>6, <4>1, ConcatEqualIffEmpty, ConcatProperties
      <4>3. emitted' BY <2>1, <3>1
      <4> QED BY <1>6, <2>1, <4>1, <4>2, <4>3
    <3>2. CASE ~emitted
      <4>1. text = << >> BY <2>1, <3>2
      <4>2. text' = << >> \o TrimStart(spelt) BY <2>1, <3>2, <4>1
      <4>3. text' = TrimStart(spelt) BY <1>7, <4>2, ConcatEmptySeq
      <4>4. emitted' <=> (TrimStart(spelt) # << >>) BY <2>1, <3>2
      <4> QED BY <1>6, <1>7, <2>1, <4>1, <4>3, <4>4
    <3> QED BY <3>1, <3>2
  <2>3. IsPrefix(text', SaidOf(tokens')) BY <2>2, PrefixOf
  <2>4. emitted' \in BOOLEAN BY <1>1, <2>1
  <2> QED BY <1>3, <1>5, <2>2, <2>3, <2>4 DEF SaidInv
<1> QED BY <1>8, <1>9, <1>10

-----------------------------------------------------------------------------
(* What the other engine decodes                                           *)

(* The samples of a call, and a stretch of audio: its chunks.              *)
Fresh(N, n) == [i \in 1 .. n |-> N + i]
Part(h, a, l) == [i \in 1 .. l |-> h[a + i]]
ChunksOf(h, D) == [j \in 1 .. D |-> Part(h, (j - 1) * CHUNK, CHUNK)]

(* X samples of audio, silence among them, of the first N that were fed:   *)
(* in order, and none twice.                                               *)
Audio(h, X, N) ==
    /\ X \in Nat /\ N \in Nat
    /\ \A p \in 1 .. X : h[p] \in 0 .. N
    /\ \A p, q \in 1 .. X : p < q /\ h[p] # Zero /\ h[q] # Zero => h[p] < h[q]

(* D chunks decoded and B samples held back, off of them before, of audio  *)
(* X long: all that was fed from a failure on is in it.                    *)
DecodedBy(h, D, B, off, X, N, from, dec, buf, done, whole) ==
    /\ D \in Nat /\ B \in Nat /\ off = D * CHUNK /\ X = off + B
    /\ Audio(h, X, N)
    /\ dec = ChunksOf(h, D)
    /\ buf = Part(h, off, B)
    /\ \A s \in from + 1 .. N : \E p \in 1 .. X : h[p] = s
    /\ done => \A p \in 1 .. X : h[p] # Zero => p <= off
    /\ whole => B = 0
    /\ done /\ whole => D > 0 /\ Part(h, (D - 1) * CHUNK, CHUNK) = Quiet(CHUNK)

Decoded(h, D, B, off, X) ==
    DecodedBy(h, D, B, off, X, fed, failed, decoded, buffer, closed, aligned)

TailInv ==
    /\ engine \in {"nemotron", "persian"} /\ closed \in BOOLEAN /\ aligned \in BOOLEAN
    /\ fed \in Nat /\ failed \in Nat
    /\ engine = "nemotron" =>
         \E h : \E D, B, off, X \in Nat : Decoded(h, D, B, off, X)
    /\ engine = "persian" => ~closed /\ decoded = << >>

(* How much silence a call is padded with.                                 *)
LEMMA PaddingIs ==
    ASSUME NEW n \in Nat, NEW last \in BOOLEAN
    PROVE  \E P \in Nat :
              /\ Padding(n, last) = Quiet(P)
              /\ ~last => P = 0
              /\ last => P >= CHUNK /\ \E c \in Nat : n + P = (c * CHUNK) + CHUNK /\ n <= c * CHUNK
<1>1. CHUNK \in Nat \ {0} BY ChunkAssumption
<1>2. CASE ~last
  <2>1. Padding(n, last) = Quiet(0) BY <1>2 DEF Padding, Quiet
  <2> QED BY <1>2, <2>1
<1>3. CASE last
  <2> DEFINE r == n % CHUNK
             q == n \div CHUNK
             o == (CHUNK - r) % CHUNK
             P == o + CHUNK
  <2>1. q \in Nat /\ r \in 0 .. CHUNK - 1 /\ n = (q * CHUNK) + r BY <1>1, DivIs
  <2>2. Padding(n, last) = Quiet(P) BY <1>3 DEF Padding
  <2> HIDE DEF r, q
  <2>3. r = 0 => o = 0
    <3>1. r = 0 => CHUNK - r = 1 * CHUNK BY <1>1
    <3>2. CHUNK % CHUNK = 0
      <4>1. /\ CHUNK \div CHUNK \in Nat /\ CHUNK % CHUNK \in 0 .. CHUNK - 1
            /\ CHUNK = ((CHUNK \div CHUNK) * CHUNK) + (CHUNK % CHUNK)
        BY <1>1, DivIs
      <4>2. CHUNK \div CHUNK = 1
        <5>1. 1 * CHUNK <= CHUNK /\ CHUNK < (1 * CHUNK) + CHUNK BY <1>1
        <5> QED BY <1>1, <5>1, DivBy
      <4> QED BY <1>1, <4>1, <4>2
    <3> QED BY <1>1, <3>1, <3>2
  <2>4. r # 0 => o = CHUNK - r
    <3> SUFFICES ASSUME r # 0 PROVE o = CHUNK - r OBVIOUS
    <3> DEFINE a == CHUNK - r
    <3>1. a \in Nat /\ a < CHUNK BY <1>1, <2>1
    <3> HIDE DEF a
    <3>2. a \div CHUNK = 0 BY <1>1, <3>1, DivLess
    <3>3. a = ((a \div CHUNK) * CHUNK) + (a % CHUNK) /\ a % CHUNK \in 0 .. CHUNK - 1
      BY <1>1, <3>1, DivIs
    <3>4. (a \div CHUNK) * CHUNK = 0 BY <1>1, <3>2
    <3>5. a % CHUNK = a BY <3>3, <3>4
    <3> QED BY <3>5 DEF a
  <2> HIDE DEF o
  <2>5. q * CHUNK \in Nat BY <1>1, <2>1
  <2>6. CASE r = 0
    <3>1. P = CHUNK /\ n + P = (q * CHUNK) + CHUNK /\ n <= q * CHUNK
      BY <1>1, <2>1, <2>3, <2>5, <2>6
    <3>2. P \in Nat /\ P >= CHUNK BY <1>1, <3>1
    <3> QED BY <1>3, <2>1, <2>2, <3>1, <3>2
  <2>7. CASE r # 0
    <3>1. (q + 1) * CHUNK = (q * CHUNK) + CHUNK BY <1>1, <2>1, Distrib
    <3>2. P = (CHUNK - r) + CHUNK BY <2>4, <2>7
    <3>3. P \in Nat /\ P >= CHUNK BY <1>1, <2>1, <3>2
    <3>4. n + P = ((q + 1) * CHUNK) + CHUNK /\ n <= (q + 1) * CHUNK
      BY <1>1, <2>1, <2>5, <3>1, <3>2
    <3>5. q + 1 \in Nat BY <2>1
    <3> HIDE DEF P
    <3> QED BY <1>3, <2>2, <3>3, <3>4, <3>5 DEF P
  <2> QED BY <2>6, <2>7
<1> QED BY <1>2, <1>3

(* The audio after a call with n samples and P of silence.                 *)
Longer(h, X, N, n, P) ==
    [p \in 1 .. (X + n) + P |-> IF p <= X THEN h[p]
                                ELSE IF p <= X + n THEN N + (p - X) ELSE Zero]

Grown(h, X, N, n, P, g, M, Y) ==
    /\ n \in Nat /\ P \in Nat /\ Audio(h, X, N)
    /\ g = Longer(h, X, N, n, P) /\ M = N + n /\ Y = (X + n) + P

(* It is audio of what was fed by then, it holds the samples of the call,  *)
(* and nothing but silence comes after them.                               *)
LEMMA GrownIs ==
    ASSUME NEW h, NEW X, NEW N, NEW n, NEW P, NEW g, NEW M, NEW Y,
           Grown(h, X, N, n, P, g, M, Y)
    PROVE  /\ Audio(g, Y, M)
           /\ \A p \in 1 .. X : p \in 1 .. Y /\ g[p] = h[p]
           /\ \A s \in N + 1 .. M : \E p \in 1 .. Y : g[p] = s
           /\ \A p \in 1 .. Y : g[p] # Zero => p <= X + n
<1>1. /\ n \in Nat /\ P \in Nat /\ X \in Nat /\ N \in Nat
      /\ M = N + n /\ Y = (X + n) + P /\ M \in Nat /\ Y \in Nat
      /\ g = Longer(h, X, N, n, P)
  BY DEF Grown, Audio
<1>2. /\ \A p \in 1 .. X : h[p] \in 0 .. N
      /\ \A p, q \in 1 .. X : p < q /\ h[p] # Zero /\ h[q] # Zero => h[p] < h[q]
  BY DEF Grown, Audio
<1>3. \A p \in 1 .. Y : g[p] = IF p <= X THEN h[p]
                               ELSE IF p <= X + n THEN N + (p - X) ELSE Zero
  BY <1>1 DEF Longer
<1>4. \A p \in 1 .. X : p \in 1 .. Y /\ g[p] = h[p] BY <1>1, <1>3
<1>5. \A p \in 1 .. Y : X < p /\ p <= X + n => g[p] = N + (p - X) /\ g[p] \in N + 1 .. M
  BY <1>1, <1>3
<1>6. \A p \in 1 .. Y : X + n < p => g[p] = Zero BY <1>1, <1>3
<1>7. \A p \in 1 .. Y : g[p] \in 0 .. M
  <2> TAKE p \in 1 .. Y
  <2>1. CASE p <= X
    <3>1. p \in 1 .. X BY <1>1, <2>1
    <3> QED BY <1>1, <1>2, <1>4, <3>1
  <2>2. CASE X < p /\ p <= X + n BY <1>1, <1>5, <2>2
  <2>3. CASE X + n < p BY <1>1, <1>6, <2>3 DEF Zero
  <2> QED BY <1>1, <2>1, <2>2, <2>3
<1>8. ASSUME NEW p \in 1 .. Y, NEW q \in 1 .. Y, p < q, g[p] # Zero, g[q] # Zero
      PROVE  g[p] < g[q]
  <2>1. p <= X + n /\ q <= X + n BY <1>1, <1>6, <1>8
  <2>2. CASE q <= X
    <3>1. p \in 1 .. X /\ q \in 1 .. X BY <1>1, <1>8, <2>2
    <3> QED BY <1>2, <1>4, <1>8, <3>1
  <2>3. CASE X < q
    <3>1. g[q] = N + (q - X) BY <1>5, <2>1, <2>3
    <3>2. CASE p <= X
      <4>1. p \in 1 .. X BY <1>1, <3>2
      <4>2. g[p] \in 0 .. N BY <1>2, <1>4, <4>1
      <4> QED BY <1>1, <2>3, <3>1, <4>2
    <3>3. CASE X < p
      <4>1. g[p] = N + (p - X) BY <1>5, <2>1, <3>3
      <4> QED BY <1>1, <1>8, <3>1, <4>1
    <3> QED BY <1>1, <3>2, <3>3
  <2> QED BY <1>1, <2>2, <2>3
<1>9. \A s \in N + 1 .. M : \E p \in 1 .. Y : g[p] = s
  <2> TAKE s \in N + 1 .. M
  <2> DEFINE p == X + (s - N)
  <2>1. p \in 1 .. Y /\ X < p /\ p <= X + n /\ N + (p - X) = s BY <1>1
  <2> HIDE DEF p
  <2>2. g[p] = s BY <1>5, <2>1
  <2> QED BY <2>1, <2>2
<1>10. \A p \in 1 .. Y : g[p] # Zero => p <= X + n BY <1>1, <1>6
<1> QED BY <1>1, <1>4, <1>7, <1>8, <1>9, <1>10 DEF Audio

(* What is held then, of H samples, behind off that are decoded.           *)
LEMMA HeldIs ==
    ASSUME NEW h, NEW X, NEW N, NEW n, NEW P, NEW g, NEW M, NEW Y,
           Grown(h, X, N, n, P, g, M, Y),
           NEW off \in Nat, NEW B \in Nat, X = off + B
    PROVE  /\ Part(h, off, B) \o Fresh(N, n) \o Quiet(P) = Part(g, off, (B + n) + P)
           /\ Y = off + ((B + n) + P)
<1> DEFINE one == Part(h, off, B)
           two == Fresh(N, n)
           three == Quiet(P)
           mid == Part(g, off, B + n)
           all == Part(g, off, (B + n) + P)
<1>1. /\ n \in Nat /\ P \in Nat /\ X \in Nat /\ N \in Nat
      /\ M = N + n /\ Y = (X + n) + P /\ g = Longer(h, X, N, n, P)
  BY DEF Grown, Audio
<1>2. /\ OfLength(one, B) /\ OfLength(two, n) /\ OfLength(three, P)
      /\ OfLength(mid, B + n) /\ OfLength(all, (B + n) + P)
  BY DEF OfLength, Part, Fresh, Quiet
<1>3. \A p \in 1 .. Y : g[p] = IF p <= X THEN h[p]
                               ELSE IF p <= X + n THEN N + (p - X) ELSE Zero
  BY <1>1 DEF Longer
<1>4. \A i \in 1 .. B : mid[i] = one[i]
  <2> TAKE i \in 1 .. B
  <2>1. off + i \in 1 .. Y /\ off + i <= X /\ i \in 1 .. B + n BY <1>1
  <2> QED BY <1>3, <2>1 DEF Part
<1>5. \A i \in 1 .. n : mid[B + i] = two[i]
  <2> TAKE i \in 1 .. n
  <2> DEFINE p == off + (B + i)
  <2>1. /\ p \in 1 .. Y /\ ~(p <= X) /\ p <= X + n /\ N + (p - X) = N + i
        /\ B + i \in 1 .. B + n
    BY <1>1
  <2>2. mid[B + i] = g[p] BY <2>1 DEF Part
  <2> HIDE DEF p, mid
  <2>3. g[p] = N + i BY <1>3, <2>1
  <2> QED BY <2>2, <2>3 DEF Fresh
<1>6. \A i \in 1 .. B + n : all[i] = mid[i] BY <1>1 DEF Part
<1>7. \A i \in 1 .. P : all[(B + n) + i] = three[i]
  <2> TAKE i \in 1 .. P
  <2> DEFINE p == off + ((B + n) + i)
  <2>1. /\ p \in 1 .. Y /\ ~(p <= X) /\ ~(p <= X + n)
        /\ (B + n) + i \in 1 .. (B + n) + P
    BY <1>1
  <2>2. all[(B + n) + i] = g[p] BY <2>1 DEF Part
  <2> HIDE DEF p, all
  <2>3. g[p] = Zero BY <1>3, <2>1
  <2> QED BY <2>2, <2>3 DEF Quiet
<1> HIDE DEF one, two, three, mid, all
<1>8. one \o two = mid BY <1>1, <1>2, <1>4, <1>5, Joined
<1>9. mid \o three = all
  <2> DEFINE c == B + n
  <2>1. /\ c \in Nat /\ OfLength(mid, c) /\ OfLength(three, P) /\ OfLength(all, c + P)
        /\ \A i \in 1 .. c : all[i] = mid[i]
        /\ \A i \in 1 .. P : all[c + i] = three[i]
    BY <1>1, <1>2, <1>6, <1>7
  <2> HIDE DEF c
  <2> QED BY <1>1, <2>1, Joined
<1>10. (one \o two) \o three = all BY <1>8, <1>9
<1>11. Y = off + ((B + n) + P) BY <1>1
<1> QED BY <1>10, <1>11 DEF one, two, three, all

Pieces(held, w) == [j \in 1 .. w |-> Piece(held, j)]

(* H samples held, behind D chunks: w chunks can be cut, E in all.         *)
Cuts(h, D, off, H, held, w, E) ==
    /\ D \in Nat /\ H \in Nat /\ off = D * CHUNK
    /\ held = Part(h, off, H)
    /\ w = H \div CHUNK /\ E = D + w

(* The chunks cut from what is held, and what is left of it.               *)
LEMMA ChunksCut ==
    ASSUME NEW h, NEW D, NEW off, NEW H, NEW held, NEW w, NEW E,
           Cuts(h, D, off, H, held, w, E)
    PROVE  /\ w \in Nat /\ w * CHUNK <= H /\ H < (w * CHUNK) + CHUNK
           /\ ChunksOf(h, D) \o Pieces(held, w) = ChunksOf(h, E)
           /\ SubSeq(held, w * CHUNK + 1, H) = Part(h, E * CHUNK, H - (w * CHUNK))
<1>1. CHUNK \in Nat \ {0} BY ChunkAssumption
<1>2. /\ D \in Nat /\ H \in Nat /\ off = D * CHUNK /\ off \in Nat
      /\ w = H \div CHUNK /\ E = D + w
  BY <1>1 DEF Cuts
<1>3. OfLength(held, H) /\ \A i \in 1 .. H : held[i] = h[off + i]
  BY DEF OfLength, Part, Cuts
<1>5. w \in Nat /\ w * CHUNK \in Nat /\ w * CHUNK <= H /\ H < (w * CHUNK) + CHUNK
  <2>1. /\ H \div CHUNK \in Nat /\ H % CHUNK \in 0 .. CHUNK - 1
        /\ H = ((H \div CHUNK) * CHUNK) + (H % CHUNK)
    BY <1>1, <1>2, DivIs
  <2>4. w = H \div CHUNK BY <1>2
  <2>2. w \in Nat /\ H = (w * CHUNK) + (H % CHUNK) BY <2>1, <2>4
  <2>3. w * CHUNK \in Nat BY <1>1, <2>2
  <2> QED BY <1>1, <1>2, <2>1, <2>2, <2>3
<1>6. ASSUME NEW b \in Nat, NEW c \in Nat, b <= c, c <= H
      PROVE  SubSeq(held, b + 1, c) = Part(h, off + b, c - b)
  <2>1. SubSeq(held, b + 1, c) = [i \in 1 .. c - b |-> held[b + i]]
    BY <1>2, <1>3, <1>6, Stretch
  <2>2. \A i \in 1 .. c - b : held[b + i] = h[(off + b) + i]
    <3> TAKE i \in 1 .. c - b
    <3>1. b + i \in 1 .. H /\ off + (b + i) = (off + b) + i BY <1>2, <1>6
    <3> QED BY <1>3, <3>1
  <2> QED BY <2>1, <2>2 DEF Part
<1>7. SubSeq(held, w * CHUNK + 1, H) = Part(h, (D + w) * CHUNK, H - (w * CHUNK))
  <2> DEFINE b == w * CHUNK
  <2>1. b \in Nat /\ H \in Nat /\ b <= H /\ H <= H BY <1>2, <1>5
  <2>2. (D + w) * CHUNK = off + b BY <1>1, <1>2, <1>5, Distrib
  <2> HIDE DEF b
  <2>3. SubSeq(held, b + 1, H) = Part(h, off + b, H - b) BY <1>6, <2>1
  <2> QED BY <2>2, <2>3 DEF b
<1>8. ASSUME NEW j \in 1 .. w
      PROVE  Piece(held, j) = Part(h, ((D + j) - 1) * CHUNK, CHUNK)
  <2> DEFINE b == (j - 1) * CHUNK
             c == j * CHUNK
  <2>1. j \in Nat /\ j - 1 \in Nat BY <1>5
  <2>2. b \in Nat /\ c \in Nat BY <1>1, <2>1
  <2>3. c = b + CHUNK
    <3>1. ((j - 1) + 1) * CHUNK = ((j - 1) * CHUNK) + (1 * CHUNK) BY <1>1, <2>1, Distrib
    <3>2. (j - 1) + 1 = j BY <2>1
    <3> QED BY <1>1, <3>1, <3>2
  <2>4. c <= w * CHUNK BY <1>1, <1>5, <2>1, Multiples
  <2>5. ((D + j) - 1) * CHUNK = off + b
    <3>1. (D + j) - 1 = D + (j - 1) BY <1>2, <2>1
    <3>2. (D + (j - 1)) * CHUNK = (D * CHUNK) + ((j - 1) * CHUNK) BY <1>1, <1>2, <2>1, Distrib
    <3> QED BY <1>2, <3>1, <3>2
  <2>6. Piece(held, j) = SubSeq(held, b + 1, c) BY DEF Piece
  <2> HIDE DEF b, c
  <2>7. b <= c /\ c <= H /\ c - b = CHUNK BY <1>1, <1>2, <1>5, <2>2, <2>3, <2>4
  <2>8. SubSeq(held, b + 1, c) = Part(h, off + b, c - b) BY <1>6, <2>2, <2>7
  <2> QED BY <2>5, <2>6, <2>7, <2>8
<1>9. ChunksOf(h, D) \o Pieces(held, w) = ChunksOf(h, D + w)
  <2> DEFINE old == ChunksOf(h, D)
             new == Pieces(held, w)
             all == ChunksOf(h, D + w)
  <2>1. OfLength(old, D) /\ OfLength(new, w) /\ OfLength(all, D + w)
    BY DEF OfLength, ChunksOf, Pieces
  <2>2. \A j \in 1 .. D : all[j] = old[j] BY <1>2, <1>5 DEF ChunksOf
  <2>3. \A j \in 1 .. w : all[D + j] = new[j]
    <3> TAKE j \in 1 .. w
    <3>1. D + j \in 1 .. D + w BY <1>2, <1>5
    <3>2. all[D + j] = Part(h, ((D + j) - 1) * CHUNK, CHUNK) BY <3>1 DEF ChunksOf
    <3> QED BY <1>8, <3>2 DEF Pieces
  <2> HIDE DEF old, new, all
  <2>4. old \o new = all BY <1>2, <1>5, <2>1, <2>2, <2>3, Joined
  <2> QED BY <2>4 DEF old, new, all
<1> QED BY <1>2, <1>5, <1>7, <1>9

(* Chunks stay as they are when only what comes after them changes.        *)
LEMMA ChunksStay ==
    ASSUME NEW h, NEW g, NEW D \in Nat, NEW off, off = D * CHUNK,
           \A p \in 1 .. off : g[p] = h[p]
    PROVE  ChunksOf(h, D) = ChunksOf(g, D)
<1>1. CHUNK \in Nat \ {0} BY ChunkAssumption
<1>2. ASSUME NEW j \in 1 .. D
      PROVE  Part(h, (j - 1) * CHUNK, CHUNK) = Part(g, (j - 1) * CHUNK, CHUNK)
  <2> DEFINE b == (j - 1) * CHUNK
  <2>1. j \in Nat /\ j - 1 \in Nat OBVIOUS
  <2>2. b \in Nat /\ D * CHUNK \in Nat BY <1>1, <2>1
  <2>3. b + CHUNK = j * CHUNK
    <3>1. ((j - 1) + 1) * CHUNK = ((j - 1) * CHUNK) + (1 * CHUNK) BY <1>1, <2>1, Distrib
    <3>2. (j - 1) + 1 = j BY <2>1
    <3> QED BY <1>1, <3>1, <3>2
  <2>4. j * CHUNK <= D * CHUNK BY <1>1, <2>1, Multiples
  <2> HIDE DEF b
  <2>5. \A i \in 1 .. CHUNK : g[b + i] = h[b + i]
    <3> TAKE i \in 1 .. CHUNK
    <3>1. b + i \in 1 .. off BY <1>1, <2>2, <2>3, <2>4
    <3> QED BY <3>1
  <2>6. Part(h, b, CHUNK) = Part(g, b, CHUNK) BY <2>5 DEF Part
  <2> QED BY <2>6 DEF b
<1> QED BY <1>2 DEF ChunksOf

(* At the start.                                                           *)
LEMMA TailInit == RecInit => TailInv
<1> SUFFICES ASSUME RecInit PROVE TailInv OBVIOUS
<1>1. /\ fed = 0 /\ buffer = << >> /\ decoded = << >> /\ aligned = TRUE /\ closed = FALSE
      /\ failed = 0 /\ engine \in {"nemotron", "persian"}
  BY DEF RecInit, Init
<1>2. CHUNK \in Nat \ {0} BY ChunkAssumption
<1>3. ChunksOf(<< >>, 0) = << >> /\ Part(<< >>, 0, 0) = << >> BY DEF ChunksOf, Part
<1>4. 0 = 0 * CHUNK /\ 0 = 0 + 0 BY <1>2
<1>5. Audio(<< >>, 0, 0) BY DEF Audio
<1>6. 0 + 1 .. 0 = {} OBVIOUS
<1>7. Decoded(<< >>, 0, 0, 0, 0)
  BY <1>1, <1>3, <1>4, <1>5, <1>6 DEF Decoded, DecodedBy
<1> QED BY <1>1, <1>7 DEF TailInv

(* A call with n samples: h was the audio, B of it held back, and g is the *)
(* audio now, H of it held.                                                *)
Handing(n, last, h, D, B, off, X, P, g, H, Y) ==
    /\ Decoded(h, D, B, off, X)
    /\ Grown(h, X, fed, n, P, g, fed + n, Y)
    /\ Held(n, last) = Part(g, off, H) /\ H = (B + n) + P /\ Y = off + H
    /\ ~last => P = 0
    /\ last => P >= CHUNK /\ \E c \in Nat : n + P = (c * CHUNK) + CHUNK /\ n <= c * CHUNK

(* There are such audios.                                                  *)
LEMMA HandingIs ==
    ASSUME TailInv, engine = "nemotron", NEW n \in Nat, NEW last \in BOOLEAN
    PROVE  \E h, g : \E D, B, off, X, P, H, Y \in Nat :
                Handing(n, last, h, D, B, off, X, P, g, H, Y)
<1>1. PICK h : \E D, B, off, X \in Nat : Decoded(h, D, B, off, X) BY DEF TailInv
<1>2. PICK D \in Nat, B \in Nat, off \in Nat, X \in Nat : Decoded(h, D, B, off, X)
  BY <1>1
<1>3. PICK P \in Nat :
        /\ Padding(n, last) = Quiet(P)
        /\ ~last => P = 0
        /\ last => P >= CHUNK /\ \E c \in Nat : n + P = (c * CHUNK) + CHUNK /\ n <= c * CHUNK
  BY PaddingIs
<1> DEFINE g == Longer(h, X, fed, n, P)
           Y == (X + n) + P
           H == (B + n) + P
           M == fed + n
<1>4. Audio(h, X, fed) /\ buffer = Part(h, off, B) /\ X = off + B
  BY <1>2 DEF Decoded, DecodedBy
<1>5. Grown(h, X, fed, n, P, g, M, Y) BY <1>4 DEF Grown
<1>6. Y \in Nat /\ H \in Nat
  <2> X \in Nat /\ B \in Nat /\ n \in Nat /\ P \in Nat OBVIOUS
  <2> HIDE DEF g
  <2> QED OBVIOUS
<1>7. Held(n, last) = Part(h, off, B) \o Fresh(fed, n) \o Quiet(P)
  BY <1>3, <1>4 DEF Held, Fresh
<1> HIDE DEF g, Y, M
<1>8. Part(h, off, B) \o Fresh(fed, n) \o Quiet(P) = Part(g, off, H) /\ Y = off + H
  <2>1. X = off + B /\ off \in Nat /\ B \in Nat BY <1>4
  <2>2. Part(h, off, B) \o Fresh(fed, n) \o Quiet(P) = Part(g, off, (B + n) + P)
    BY <1>5, <2>1, HeldIs, SMTT(20)
  <2>3. Y = off + ((B + n) + P) BY <1>5, <2>1, HeldIs
  <2> QED BY <2>2, <2>3
<1>9. Handing(n, last, h, D, B, off, X, P, g, H, Y)
  BY <1>2, <1>3, <1>5, <1>7, <1>8 DEF Handing, M
<1> QED BY <1>6, <1>9

(* A call of the other engine: what it decodes, and what it answers.       *)
LEMMA Transcribed ==
    ASSUME TailInv, NEW n \in 0 .. MaxChunk, NEW last \in BOOLEAN, Transcribe(n, last)
    PROVE  /\ TailInv'
           /\ \E toks \in Seq(Answers) :
                /\ tokens' = tokens \o toks
                /\ text' = text \o Dropped(Rendered(toks))
                /\ emitted' = (emitted \/ Emits(Rendered(toks)))
<1> DEFINE held == Held(n, last)
           w == Len(held) \div CHUNK
           M == fed + n
<1>1. /\ engine = "nemotron" /\ engine' = engine /\ closed' = last /\ failed' = failed
      /\ fed' = M /\ aligned' = (aligned /\ (last \/ n % CHUNK = 0))
      /\ decoded' = decoded \o Pieces(held, w)
      /\ buffer' = SubSeq(held, w * CHUNK + 1, Len(held))
      /\ \E toks \in [1 .. w -> Answers] :
           /\ tokens' = tokens \o toks
           /\ text' = text \o Dropped(Rendered(toks))
           /\ emitted' = (emitted \/ Emits(Rendered(toks)))
  BY DEF Transcribe, Called, WholeChunks, Answers, Pieces
<1>2. /\ CHUNK \in Nat \ {0} /\ n \in Nat /\ fed \in Nat /\ M \in Nat
      /\ failed \in Nat /\ aligned \in BOOLEAN
  BY ChunkAssumption, StreamAssumption DEF TailInv
<1>3. PICK h, g : \E D, B, off, X, P, H, Y \in Nat :
                Handing(n, last, h, D, B, off, X, P, g, H, Y)
  BY <1>1, <1>2, HandingIs
<1>4. PICK D \in Nat, B \in Nat, off \in Nat, X \in Nat, P \in Nat, H \in Nat, Y \in Nat :
                Handing(n, last, h, D, B, off, X, P, g, H, Y)
  BY <1>3
<1>5. /\ Grown(h, X, fed, n, P, g, M, Y)
      /\ held = Part(g, off, H) /\ H = (B + n) + P /\ Y = off + H
      /\ ~last => P = 0
      /\ last => P >= CHUNK /\ \E c \in Nat : n + P = (c * CHUNK) + CHUNK /\ n <= c * CHUNK
  BY <1>4 DEF Handing
<1>6. /\ off = D * CHUNK /\ X = off + B
      /\ decoded = ChunksOf(h, D)
      /\ \A s \in failed + 1 .. fed : \E p \in 1 .. X : h[p] = s
      /\ aligned => B = 0
  BY <1>4 DEF Handing, Decoded, DecodedBy
<1> HIDE DEF held, w, M
<1>7. Len(held) = H
  <2>1. OfLength(held, H) BY <1>5 DEF OfLength, Part
  <2> QED BY <2>1, LenIs
<1>8. w = H \div CHUNK BY <1>7 DEF w
<1> DEFINE E == D + w
           r == H - (w * CHUNK)
           at == E * CHUNK
<1>9. /\ w \in Nat /\ w * CHUNK <= H /\ H < (w * CHUNK) + CHUNK
      /\ ChunksOf(g, D) \o Pieces(held, w) = ChunksOf(g, E)
      /\ SubSeq(held, w * CHUNK + 1, H) = Part(g, E * CHUNK, r)
  <2>1. Cuts(g, D, off, H, held, w, E) BY <1>5, <1>6, <1>8 DEF Cuts
  <2> HIDE DEF E
  <2>2. w \in Nat /\ w * CHUNK <= H /\ H < (w * CHUNK) + CHUNK BY <2>1, ChunksCut
  <2>3. ChunksOf(g, D) \o Pieces(held, w) = ChunksOf(g, E) BY <2>1, ChunksCut
  <2>4. SubSeq(held, w * CHUNK + 1, H) = Part(g, E * CHUNK, r) BY <2>1, ChunksCut
  <2> QED BY <2>2, <2>3, <2>4
<1>10. /\ Audio(g, Y, M)
       /\ \A p \in 1 .. X : p \in 1 .. Y /\ g[p] = h[p]
       /\ \A s \in fed + 1 .. M : \E p \in 1 .. Y : g[p] = s
       /\ \A p \in 1 .. Y : g[p] # Zero => p <= X + n
  BY <1>5, GrownIs
<1>11. ChunksOf(h, D) = ChunksOf(g, D)
  <2>1. \A p \in 1 .. off : g[p] = h[p]
    <3> TAKE p \in 1 .. off
    <3>1. p \in 1 .. X BY <1>6
    <3> QED BY <1>10, <3>1
  <2> QED BY <1>6, <2>1, ChunksStay
<1>12. decoded' = ChunksOf(g, E) /\ buffer' = Part(g, at, r)
  BY <1>1, <1>6, <1>7, <1>9, <1>11
<1>13. /\ E \in Nat /\ w * CHUNK \in Nat /\ at = off + (w * CHUNK) /\ at \in Nat
       /\ r \in Nat /\ r < CHUNK /\ Y = at + r
  BY <1>2, <1>5, <1>6, <1>9, Distrib
<1>14. \A s \in failed + 1 .. M : \E p \in 1 .. Y : g[p] = s
  <2> TAKE s \in failed + 1 .. M
  <2>1. CASE s <= fed
    <3>1. s \in failed + 1 .. fed BY <1>2, <2>1
    <3>2. PICK p \in 1 .. X : h[p] = s BY <1>6, <3>1
    <3> QED BY <1>10, <3>2
  <2>2. CASE ~(s <= fed)
    <3>1. s \in fed + 1 .. M BY <1>2, <2>2
    <3> QED BY <1>10, <3>1
  <2> QED BY <2>1, <2>2
<1>15. ASSUME last, NEW p \in 1 .. Y, g[p] # Zero PROVE p <= at
  <2>1. p <= X + n BY <1>10, <1>15
  <2>2. X + n = Y - P /\ P >= CHUNK BY <1>2, <1>5, <1>6, <1>15
  <2>3. Y - P <= at BY <1>2, <1>13, <2>2
  <2> QED BY <1>2, <1>13, <2>1, <2>2, <2>3
<1>16. ASSUME ~last, aligned' PROVE r = 0
  <2>1. B = 0 /\ n % CHUNK = 0 BY <1>1, <1>6, <1>16
  <2>2. H = n BY <1>2, <1>5, <1>16, <2>1
  <2>3. n = ((n \div CHUNK) * CHUNK) + (n % CHUNK) BY <1>2, DivIs
  <2>4. w = n \div CHUNK BY <1>8, <2>2
  <2>5. n = w * CHUNK BY <1>2, <1>13, <2>1, <2>3, <2>4
  <2> QED BY <1>2, <1>13, <2>2, <2>5
<1>17. ASSUME last, aligned'
       PROVE  r = 0 /\ E > 0 /\ Part(g, (E - 1) * CHUNK, CHUNK) = Quiet(CHUNK)
  <2>1. B = 0 BY <1>1, <1>6, <1>17
  <2>2. PICK c \in Nat : n + P = (c * CHUNK) + CHUNK /\ n <= c * CHUNK BY <1>5, <1>17
  <2>3. (c + 1) * CHUNK = (c * CHUNK) + CHUNK /\ c * CHUNK \in Nat /\ c + 1 \in Nat
    BY <1>2, Distrib
  <2>4. H = (c + 1) * CHUNK BY <1>2, <1>5, <2>1, <2>2, <2>3
  <2>5. w = c + 1
    <3>1. (c + 1) * CHUNK <= H /\ H < ((c + 1) * CHUNK) + CHUNK BY <1>2, <2>4
    <3> QED BY <1>2, <1>8, <2>3, <3>1, DivBy
  <2>6. r = 0 BY <2>4, <2>5
  <2>7. E > 0 /\ E - 1 = D + c BY <2>5
  <2> DEFINE b == (E - 1) * CHUNK
  <2>8. b = off + (c * CHUNK) BY <1>2, <1>6, <2>7, Distrib
  <2>9. b \in Nat /\ X + n <= b /\ Y = b + CHUNK
    BY <1>2, <1>5, <1>6, <2>1, <2>2, <2>3, <2>4, <2>8
  <2> HIDE DEF b
  <2>10. \A i \in 1 .. CHUNK : g[b + i] = Zero
    <3> TAKE i \in 1 .. CHUNK
    <3>1. b + i \in 1 .. Y /\ ~(b + i <= X + n) BY <1>2, <2>9
    <3> QED BY <1>10, <3>1
  <2>11. Part(g, b, CHUNK) = Quiet(CHUNK) BY <2>10 DEF Part, Quiet
  <2> QED BY <2>6, <2>7, <2>11 DEF b
<1> HIDE DEF r, E, at
<1>18. DecodedBy(g, E, r, at, Y, M, failed, decoded', buffer', closed', aligned')
  BY <1>1, <1>10, <1>12, <1>13, <1>14, <1>15, <1>16, <1>17 DEF DecodedBy, at
<1>19. TailInv'
  <2>1. fed' \in Nat /\ fed' = M /\ failed' \in Nat BY <1>1, <1>2
  <2>2. /\ engine' \in {"nemotron", "persian"} /\ engine' # "persian"
        /\ closed' \in BOOLEAN /\ aligned' \in BOOLEAN
    BY <1>1 DEF TailInv
  <2>3. DecodedBy(g, E, r, at, Y, fed', failed', decoded', buffer', closed', aligned')
    BY <1>1, <1>18
  <2>4. \E f : \E D1, B1, off1, X1 \in Nat :
          DecodedBy(f, D1, B1, off1, X1, fed', failed', decoded', buffer', closed', aligned')
    <3>1. E \in Nat /\ r \in Nat /\ at \in Nat BY <1>13
    <3> QED BY <2>3, <3>1
  <2> QED BY <2>1, <2>2, <2>4 DEF TailInv, Decoded
<1>20. \A toks \in [1 .. w -> Answers] : toks \in Seq(Answers) BY <1>9, IsASeq
<1> QED BY <1>1, <1>19, <1>20

(* The audio without the first k of the samples that were held.            *)
Shortened(h, off, g, k, Z) == [p \in 1 .. Z |-> IF p <= off THEN h[p] ELSE g[p + k]]

Ends(h, off, g, k, Y, Z, M, f) ==
    /\ off \in Nat /\ k \in Nat /\ Z \in Nat /\ off <= Z /\ Y = Z + k
    /\ Audio(g, Y, M)
    /\ \A p \in 1 .. off : g[p] = h[p]
    /\ f = Shortened(h, off, g, k, Z)

(* It is still in order.                                                   *)
LEMMA EndsAre ==
    ASSUME NEW h, NEW off, NEW g, NEW k, NEW Y, NEW Z, NEW M, NEW f,
           Ends(h, off, g, k, Y, Z, M, f)
    PROVE  Audio(f, Z, M)
<1>1. /\ off \in Nat /\ k \in Nat /\ Z \in Nat /\ off <= Z /\ Y = Z + k
      /\ M \in Nat /\ f = Shortened(h, off, g, k, Z)
      /\ \A p \in 1 .. Y : g[p] \in 0 .. M
      /\ \A p, q \in 1 .. Y : p < q /\ g[p] # Zero /\ g[q] # Zero => g[p] < g[q]
      /\ \A p \in 1 .. off : g[p] = h[p]
  BY DEF Ends, Audio
<1> DEFINE was(p) == IF p <= off THEN p ELSE p + k
<1>2. \A p \in 1 .. Z : was(p) \in 1 .. Y /\ f[p] = g[was(p)]
  <2> TAKE p \in 1 .. Z
  <2>1. f[p] = IF p <= off THEN h[p] ELSE g[p + k] BY <1>1 DEF Shortened
  <2>2. CASE p <= off
    <3>1. p \in 1 .. off /\ p \in 1 .. Y BY <1>1, <2>2
    <3> QED BY <1>1, <2>1, <2>2, <3>1
  <2>3. CASE ~(p <= off)
    <3>1. p + k \in 1 .. Y BY <1>1
    <3> QED BY <2>1, <2>3, <3>1
  <2> QED BY <2>2, <2>3
<1>3. \A p, q \in 1 .. Z : p < q => was(p) < was(q) BY <1>1
<1> HIDE DEF was
<1>4. \A p \in 1 .. Z : f[p] \in 0 .. M BY <1>1, <1>2
<1>5. \A p, q \in 1 .. Z : p < q /\ f[p] # Zero /\ f[q] # Zero => f[p] < f[q]
  BY <1>1, <1>2, <1>3
<1> QED BY <1>1, <1>4, <1>5 DEF Audio

(* After a call that failed what was decoded is still there, in order, and *)
(* what is held comes after it.                                            *)
LEMMA TranscribeFailed ==
    ASSUME TailInv, NEW n \in 0 .. MaxChunk, NEW last \in BOOLEAN, TranscribeFails(n, last)
    PROVE  TailInv'
<1> DEFINE held == Held(n, last)
           M == fed + n
<1>1. /\ engine = "nemotron" /\ engine' = engine /\ closed' = FALSE
      /\ fed' = M /\ failed' = M /\ aligned' = (buffer' = << >>) /\ decoded' = decoded
      /\ \/ buffer' = buffer
         \/ \E gone \in 0 .. Len(held) : buffer' = SubSeq(held, gone + 1, Len(held))
  BY DEF TranscribeFails, Called
<1>2. CHUNK \in Nat \ {0} /\ n \in Nat /\ fed \in Nat /\ M \in Nat
  BY ChunkAssumption, StreamAssumption DEF TailInv
<1>3. PICK h, g : \E D, B, off, X, P, H, Y \in Nat :
                Handing(n, last, h, D, B, off, X, P, g, H, Y)
  BY <1>1, <1>2, HandingIs
<1>4. PICK D \in Nat, B \in Nat, off \in Nat, X \in Nat, P \in Nat, H \in Nat, Y \in Nat :
                Handing(n, last, h, D, B, off, X, P, g, H, Y)
  BY <1>3
<1>5. /\ Grown(h, X, fed, n, P, g, M, Y)
      /\ held = Part(g, off, H) /\ Y = off + H
  BY <1>4 DEF Handing
<1>6. /\ off = D * CHUNK /\ X = off + B
      /\ Audio(h, X, fed) /\ decoded = ChunksOf(h, D) /\ buffer = Part(h, off, B)
  BY <1>4 DEF Handing, Decoded, DecodedBy
<1> HIDE DEF held, M
<1>7. ASSUME NEW f, NEW b \in Nat, NEW Z \in Nat, Z = off + b, Audio(f, Z, M),
             \A p \in 1 .. off : f[p] = h[p], buffer' = Part(f, off, b)
      PROVE  TailInv'
  <2>1. decoded' = ChunksOf(f, D) BY <1>1, <1>6, <1>7, ChunksStay
  <2>2. aligned' => b = 0
    <3>1. OfLength(buffer', b) BY <1>7 DEF OfLength, Part
    <3>2. Len(buffer') = b BY <3>1, LenIs
    <3>3. Len(<< >>) = 0 OBVIOUS
    <3> QED BY <1>1, <3>2, <3>3
  <2>3. M + 1 .. M = {} BY <1>2
  <2>4. DecodedBy(f, D, b, off, Z, M, M, decoded', buffer', closed', aligned')
    BY <1>1, <1>6, <1>7, <2>1, <2>2, <2>3 DEF DecodedBy
  <2>5. Decoded(f, D, b, off, Z)' BY <1>1, <2>4 DEF Decoded
  <2>6. /\ engine' \in {"nemotron", "persian"} /\ engine' # "persian"
        /\ closed' \in BOOLEAN /\ aligned' \in BOOLEAN /\ fed' \in Nat /\ failed' \in Nat
    BY <1>1, <1>2
  <2> QED BY <2>5, <2>6 DEF TailInv
<1>8. CASE buffer' = buffer
  <2>1. Audio(h, X, M)
    <3>1. \A p \in 1 .. X : h[p] \in 0 .. M BY <1>2, <1>6 DEF Audio, M
    <3> QED BY <1>2, <1>6, <3>1 DEF Audio
  <2> QED BY <1>6, <1>7, <1>8, <2>1
<1>9. ASSUME NEW k \in 0 .. Len(held), buffer' = SubSeq(held, k + 1, Len(held))
      PROVE  TailInv'
  <2>1. OfLength(held, H) BY <1>5 DEF OfLength, Part
  <2>2. Len(held) = H BY <2>1, LenIs
  <2> DEFINE b == H - k
             Z == off + b
             f == Shortened(h, off, g, k, Z)
  <2>3. k \in Nat /\ k <= H /\ b \in Nat /\ Z \in Nat /\ off <= Z /\ Y = Z + k
    BY <1>5, <1>9, <2>2
  <2>4. /\ Audio(g, Y, M)
        /\ \A p \in 1 .. X : g[p] = h[p]
    BY <1>5, GrownIs
  <2>5. \A p \in 1 .. off : g[p] = h[p] BY <1>6, <2>4
  <2>6. \A p \in 1 .. Z : f[p] = IF p <= off THEN h[p] ELSE g[p + k] BY DEF Shortened
  <2> HIDE DEF f, Z, b
  <2>7. Ends(h, off, g, k, Y, Z, M, f) BY <2>3, <2>4, <2>5 DEF Ends, f
  <2>8. Audio(f, Z, M) BY <2>7, EndsAre
  <2>9. \A p \in 1 .. off : f[p] = h[p] BY <2>3, <2>6
  <2>10. buffer' = Part(f, off, b)
    <3>1. buffer' = [i \in 1 .. H - k |-> held[k + i]]
      BY <1>9, <2>1, <2>2, <2>3, Stretch
    <3>2. \A i \in 1 .. b : held[k + i] = f[off + i]
      <4> TAKE i \in 1 .. b
      <4>1. k + i \in 1 .. H BY <2>3 DEF b
      <4>2. held[k + i] = g[off + (k + i)] BY <1>5, <4>1 DEF Part
      <4>3. off + i \in 1 .. Z /\ ~(off + i <= off) /\ (off + i) + k = off + (k + i)
        BY <2>3 DEF Z
      <4>4. f[off + i] = g[(off + i) + k] BY <2>6, <4>3
      <4> QED BY <4>2, <4>3, <4>4
    <3> QED BY <3>1, <3>2 DEF Part, b
  <2>11. Z = off + b BY DEF Z
  <2> QED BY <1>7, <2>3, <2>8, <2>9, <2>10, <2>11
<1> QED BY <1>1, <1>8, <1>9

(* Every step keeps it.                                                    *)
LEMMA TailStep ==
    ASSUME TailInv, [RecNext]_allVars
    PROVE  TailInv'
<1>1. ASSUME engine = "persian", UNCHANGED <<engine, nemotron>>,
             NEW n \in 0 .. MaxChunk, NEW last \in BOOLEAN, Push(n, last)
      PROVE  TailInv'
  <2>1. fed' = fed + n BY <1>1, Zenon DEF Push
  <2>2. n \in Nat BY StreamAssumption
  <2>3. fed' \in Nat BY <2>1, <2>2 DEF TailInv
  <2> QED BY <1>1, <2>3 DEF TailInv, nemotron
<1>2. ASSUME NEW n \in 0 .. MaxChunk, NEW last \in BOOLEAN, Transcribe(n, last)
      PROVE  TailInv'
  BY <1>2, Transcribed
<1>3. ASSUME NEW n \in 0 .. MaxChunk, NEW last \in BOOLEAN, TranscribeFails(n, last)
      PROVE  TailInv'
  BY <1>3, TranscribeFailed
<1>4. ASSUME UNCHANGED <<vars, engine, nemotron>> PROVE TailInv'
  BY <1>4 DEF TailInv, Decoded, vars, nemotron
<1> QED BY <1>1, <1>2, <1>3, <1>4 DEF RecNext, PersianNext, Next, PushAgain, allVars

(* Whatever calls fail, and wherever closes come: no sample is decoded     *)
(* twice or out of order, and when a close is answered nothing that was    *)
(* fed since the last failed call is held back.  Behind whole chunks a     *)
(* chunk of silence flushes the encoder.                                   *)
THEOREM TailDecodedHolds == RecSpec => []TailDecoded
<1>1. ASSUME TailInv, engine = "nemotron" PROVE TailDecoded
  <2>1. PICK h : \E D, B, off, X \in Nat : Decoded(h, D, B, off, X) BY <1>1 DEF TailInv
  <2>2. PICK D \in Nat, B \in Nat, off \in Nat, X \in Nat : Decoded(h, D, B, off, X)
    BY <2>1
  <2>3. CHUNK \in Nat \ {0} /\ fed \in Nat /\ failed \in Nat
    BY <1>1, ChunkAssumption DEF TailInv
  <2>4. /\ off = D * CHUNK /\ X = off + B
        /\ decoded = ChunksOf(h, D) /\ buffer = Part(h, off, B)
        /\ \A p \in 1 .. X : h[p] \in 0 .. fed
        /\ \A p, q \in 1 .. X : p < q /\ h[p] # Zero /\ h[q] # Zero => h[p] < h[q]
        /\ \A s \in failed + 1 .. fed : \E p \in 1 .. X : h[p] = s
        /\ closed => \A p \in 1 .. X : h[p] # Zero => p <= off
        /\ aligned => B = 0
        /\ closed /\ aligned => D > 0 /\ Part(h, (D - 1) * CHUNK, CHUNK) = Quiet(CHUNK)
    BY <2>2 DEF Decoded, DecodedBy, Audio
  <2>5. Len(decoded) = D /\ DOMAIN decoded = 1 .. D
    <3>1. OfLength(decoded, D) BY <2>4 DEF OfLength, ChunksOf
    <3> QED BY <2>4, <3>1, LenIs DEF ChunksOf
  <2> DEFINE at(j, i) == ((j - 1) * CHUNK) + i
  <2>6. \A j \in 1 .. D, i \in 1 .. CHUNK : decoded[j][i] = h[at(j, i)]
    BY <2>4 DEF ChunksOf, Part
  <2>7. ASSUME NEW j \in 1 .. D, NEW i \in 1 .. CHUNK
        PROVE  at(j, i) \in 1 .. X /\ at(j, i) <= j * CHUNK /\ (j - 1) * CHUNK \in Nat
    <3>1. j \in Nat /\ j - 1 \in Nat OBVIOUS
    <3>2. (j - 1) * CHUNK \in Nat /\ j * CHUNK \in Nat BY <2>3, <3>1
    <3>3. j * CHUNK = ((j - 1) * CHUNK) + CHUNK
      <4>1. ((j - 1) + 1) * CHUNK = ((j - 1) * CHUNK) + (1 * CHUNK) BY <2>3, <3>1, Distrib
      <4>2. (j - 1) + 1 = j BY <3>1
      <4> QED BY <2>3, <4>1, <4>2
    <3>4. j * CHUNK <= D * CHUNK BY <2>3, <3>1, Multiples
    <3> QED BY <2>3, <2>4, <3>2, <3>3, <3>4
  <2>8. ASSUME NEW j \in 1 .. D, NEW k \in 1 .. D, NEW i \in 1 .. CHUNK, NEW l \in 1 .. CHUNK,
               Earlier(j, i, k, l)
        PROVE  at(j, i) < at(k, l)
    <3>1. CASE j = k /\ i < l
      <4> DEFINE b == (j - 1) * CHUNK
      <4>1. b \in Nat /\ at(j, i) = b + i /\ at(k, l) = b + l BY <2>7, <3>1
      <4> HIDE DEF b, at
      <4> QED BY <2>3, <3>1, <4>1
    <3>2. CASE j < k
      <4>1. j \in Nat /\ k - 1 \in Nat /\ j <= k - 1 BY <3>2
      <4>2. j * CHUNK <= (k - 1) * CHUNK BY <2>3, <4>1, Multiples
      <4>3. at(j, i) <= j * CHUNK /\ at(j, i) \in Nat BY <2>7
      <4>4. (k - 1) * CHUNK \in Nat /\ j * CHUNK \in Nat BY <2>3, <4>1
      <4> QED BY <4>2, <4>3, <4>4
    <3> QED BY <2>8, <3>1, <3>2 DEF Earlier
  <2> HIDE DEF at
  <2>9. \A j, k \in DOMAIN decoded : \A i, l \in 1 .. CHUNK :
            Earlier(j, i, k, l) /\ decoded[j][i] # Zero /\ decoded[k][l] # Zero
                => decoded[j][i] < decoded[k][l]
    <3> SUFFICES ASSUME NEW j \in 1 .. D, NEW k \in 1 .. D, NEW i \in 1 .. CHUNK,
                        NEW l \in 1 .. CHUNK, Earlier(j, i, k, l),
                        h[at(j, i)] # Zero, h[at(k, l)] # Zero
                 PROVE  h[at(j, i)] < h[at(k, l)]
      BY <2>5, <2>6
    <3>1. at(j, i) < at(k, l) BY <2>8
    <3> QED BY <2>4, <2>7, <3>1
  <2>10. ASSUME closed, NEW s \in failed + 1 .. fed
         PROVE  \E j \in DOMAIN decoded : \E i \in 1 .. CHUNK : decoded[j][i] = s
    <3>1. PICK p \in 1 .. X : h[p] = s BY <2>4
    <3>2. p <= off /\ p \in Nat /\ p - 1 \in Nat
      <4>1. s # Zero BY <2>3 DEF Zero
      <4> QED BY <2>4, <2>10, <3>1, <4>1
    <3> DEFINE d == (p - 1) \div CHUNK
               m == (p - 1) % CHUNK
    <3>3. d \in Nat /\ m \in 0 .. CHUNK - 1 /\ p - 1 = (d * CHUNK) + m
      BY <2>3, <3>2, DivIs
    <3> HIDE DEF d, m
    <3>4. d < D
      <4> SUFFICES ASSUME D <= d PROVE FALSE BY <3>3
      <4>1. D * CHUNK <= d * CHUNK BY <2>3, <3>3, Multiples
      <4>2. d * CHUNK \in Nat /\ D * CHUNK \in Nat BY <2>3, <3>3
      <4> QED BY <2>3, <2>4, <3>2, <3>3, <4>1, <4>2
    <3>5. d + 1 \in 1 .. D /\ m + 1 \in 1 .. CHUNK BY <2>3, <3>3, <3>4
    <3>6. at(d + 1, m + 1) = p
      <4>1. (d + 1) - 1 = d /\ d * CHUNK \in Nat BY <2>3, <3>3
      <4> QED BY <2>3, <3>2, <3>3, <4>1 DEF at
    <3>7. decoded[d + 1][m + 1] = s BY <2>6, <3>1, <3>5, <3>6
    <3> QED BY <2>5, <3>5, <3>7
  <2>11. ASSUME closed, aligned
         PROVE  decoded # << >> /\ Last(decoded) = Quiet(CHUNK) /\ buffer = << >>
    <3>1. D > 0 /\ B = 0 /\ Part(h, (D - 1) * CHUNK, CHUNK) = Quiet(CHUNK) BY <2>4, <2>11
    <3>2. decoded # << >>
      <4>1. Len(<< >>) = 0 OBVIOUS
      <4> QED BY <2>5, <3>1, <4>1
    <3>3. buffer = << >> BY <2>4, <3>1 DEF Part
    <3>4. Last(decoded) = Part(h, (D - 1) * CHUNK, CHUNK)
      <4>1. D \in 1 .. D BY <3>1
      <4> QED BY <2>4, <2>5, <4>1 DEF Last, ChunksOf
    <3> QED BY <3>1, <3>2, <3>3, <3>4
  <2> QED BY <2>9, <2>10, <2>11 DEF TailDecoded
<1>2. ASSUME TailInv, engine = "persian" PROVE TailDecoded
  <2>1. ~closed /\ decoded = << >> BY <1>2 DEF TailInv
  <2>2. DOMAIN decoded = {} BY <2>1
  <2> QED BY <2>1, <2>2 DEF TailDecoded
<1>3. TailInv => TailDecoded BY <1>1, <1>2 DEF TailInv
<1> QED BY <1>3, TailInit, TailStep, PTL DEF RecSpec

-----------------------------------------------------------------------------
(* What is said, on either engine                                          *)

(* A call of the other engine says what it renders.                        *)
LEMMA SaidTranscribed ==
    ASSUME SaidInv, TailInv, QueueInv', NEW n \in 0 .. MaxChunk, NEW last \in BOOLEAN,
           Transcribe(n, last)
    PROVE  SaidInv'
<1>1. PICK toks \in Seq(Answers) :
        /\ tokens' = tokens \o toks
        /\ text' = text \o Dropped(Rendered(toks))
        /\ emitted' = (emitted \/ Emits(Rendered(toks)))
  BY Transcribed
<1> DEFINE spelt == Rendered(toks)
           said == Rendered(tokens)
<1>2. /\ tokens \in Seq(Answers) /\ text \in Seq(Letters) /\ emitted \in BOOLEAN
      /\ text = TrimStart(said) /\ (emitted <=> (text # << >>))
      /\ engine' = engine /\ engine = "nemotron"
  BY DEF SaidInv, Transcribe, Called
<1>3. tokens' \in Seq(Answers) BY <1>1, <1>2, ConcatProperties
<1>4. /\ spelt \in Seq(Letters) /\ said \in Seq(Letters)
      /\ Rendered(tokens') = said \o spelt
  BY <1>1, <1>2, RenderedConcat
<1>5. /\ text' = text \o (IF emitted THEN spelt ELSE TrimStart(spelt))
      /\ emitted' = (emitted \/ TrimStart(spelt) # << >>)
  BY <1>1 DEF Dropped, Emits
<1> HIDE DEF spelt, said
<1>6. TrimStart(said \o spelt) = IF TrimStart(said) = << >> THEN TrimStart(spelt)
                                 ELSE TrimStart(said) \o spelt
  BY <1>4, TrimConcat
<1>7. TrimStart(spelt) \in Seq(Letters) BY <1>4, TrimIs
<1>8. CASE emitted
  <2>1. text' = text \o spelt /\ text # << >> BY <1>2, <1>5, <1>8
  <2>2. text' # << >> /\ text' \in Seq(Letters)
    BY <1>2, <1>4, <2>1, ConcatEqualIffEmpty, ConcatProperties
  <2>3. emitted' /\ emitted' \in BOOLEAN BY <1>5, <1>8
  <2>4. text' = TrimStart(Rendered(tokens')) BY <1>2, <1>4, <1>6, <2>1
  <2> QED BY <1>2, <1>3, <2>2, <2>3, <2>4 DEF SaidInv
<1>9. CASE ~emitted
  <2>1. text = << >> BY <1>2, <1>9
  <2>2. text' = << >> \o TrimStart(spelt) BY <1>5, <1>9, <2>1
  <2>3. text' = TrimStart(spelt) BY <1>7, <2>2, ConcatEmptySeq
  <2>4. (emitted' <=> (TrimStart(spelt) # << >>)) /\ emitted' \in BOOLEAN BY <1>2, <1>5, <1>9
  <2>5. text' = TrimStart(Rendered(tokens')) BY <1>2, <1>4, <1>6, <2>1, <2>3
  <2> QED BY <1>2, <1>3, <1>7, <2>3, <2>4, <2>5 DEF SaidInv
<1> QED BY <1>2, <1>8, <1>9

(* Every step keeps it.                                                    *)
LEMMA SaidStep ==
    ASSUME SaidInv, TailInv, [RecNext]_allVars
    PROVE  SaidInv'
<1>1. QueueInv' BY QueueStep DEF SaidInv
<1>2. ASSUME engine = "persian", UNCHANGED engine, NEW last \in BOOLEAN,
             NEW T \in Nat, NEW k \in Nat, NEW Q \in 0 .. T,
             NEW fails \in Failing(Count(Q + k, last)), NEW toks \in Seq(Answers),
             Pushed(T, k, Q, last, fails, toks)
      PROVE  SaidInv'
  BY <1>1, <1>2, SaidPushed
<1>3. ASSUME NEW n \in 0 .. MaxChunk, NEW last \in BOOLEAN, Transcribe(n, last)
      PROVE  SaidInv'
  BY <1>1, <1>3, SaidTranscribed
<1>4. ASSUME NEW n \in 0 .. MaxChunk, NEW last \in BOOLEAN, TranscribeFails(n, last)
      PROVE  SaidInv'
  <2>1. /\ engine = "nemotron" /\ engine' = engine
        /\ UNCHANGED <<tokens, text, emitted, caches, prev_token>>
    BY <1>4 DEF TranscribeFails, Called
  <2> QED BY <1>1, <2>1 DEF SaidInv
<1>5. ASSUME UNCHANGED allVars PROVE SaidInv'
  BY <1>1, <1>5 DEF SaidInv, allVars, vars
<1>6. QueueInv BY DEF SaidInv
<1> QED BY <1>2, <1>3, <1>4, <1>5, <1>6, StepIs

(* The invariant of the text.                                              *)
THEOREM SaidInvariance == RecSpec => [](SaidInv /\ TailInv)
<1>1. RecInit => SaidInv /\ TailInv BY SaidInit, TailInit
<1>2. SaidInv /\ TailInv /\ [RecNext]_allVars => (SaidInv /\ TailInv)'
  BY SaidStep, TailStep
<1> QED BY <1>1, <1>2, PTL DEF RecSpec

(* However it was cut, the text is that of all the tokens: the separators  *)
(* before the first word are dropped, once, and no other letter.           *)
THEOREM SeparatorOnceHolds == RecSpec => []SeparatorOnce
<1>1. SaidInv => SeparatorOnce
  <2> SUFFICES ASSUME SaidInv PROVE SeparatorOnce OBVIOUS
  <2>1. Whole = SaidOf(tokens) BY DEF Whole, SaidOf
  <2>2. engine \in {"nemotron", "persian"} BY DEF SaidInv, QueueInv
  <2> QED BY <2>1, <2>2 DEF SaidInv, SeparatorOnce, TextIsWhole
<1> QED BY <1>1, SaidInvariance, PTL

(* A stream that has lost its caches, or was closed, never says another    *)
(* word and never decodes another window.                                  *)
THEOREM SilentAfterLossHolds == RecSpec => SilentAfterLoss
<1>1. ASSUME SaidInv, TailInv, [RecNext]_allVars, ~caches \/ finished
      PROVE  text' = text /\ windows' = windows
  <2>1. QueueInv /\ FramesInv BY <1>1 DEF SaidInv, QueueInv
  <2>2. ASSUME engine = "persian", ~finished, NEW last \in BOOLEAN,
               NEW T \in Nat, NEW k \in Nat, NEW Q \in 0 .. T,
               NEW fails \in Failing(Count(Q + k, last)), NEW toks \in Seq(Answers),
               Pushed(T, k, Q, last, fails, toks)
        PROVE  text' = text /\ windows' = windows
    <3>1. ~caches BY <1>1, <2>2
    <3>2. prev_token \in Answers
      <4>1. prev_token = LatestOf(Blank, tokens) /\ tokens \in Seq(Answers)
        BY <1>1, <2>2 DEF SaidInv
      <4>2. Blank \in Answers BY DEF Answers
      <4> QED BY <4>1, <4>2, CollapseConcat
    <3> QED BY <1>1, <2>2, <3>1, <3>2, PushedSilent
  <2>3. ASSUME NEW n \in 0 .. MaxChunk, NEW last \in BOOLEAN,
               Transcribe(n, last) \/ TranscribeFails(n, last)
        PROVE  text' = text /\ windows' = windows
    <3>1. engine # "persian" BY <2>3 DEF Transcribe, TranscribeFails, Called
    <3>2. caches /\ ~finished BY <2>1, <3>1 DEF QueueInv, FramesInv
    <3> QED BY <1>1, <3>2
  <2>4. ASSUME UNCHANGED allVars PROVE text' = text /\ windows' = windows
    BY <2>4 DEF allVars, vars
  <2> QED BY <1>1, <2>1, <2>2, <2>3, <2>4, StepIs
<1>2. SaidInv /\ TailInv /\ [RecNext]_allVars
        => [~caches \/ finished => text' = text /\ windows' = windows]_vars
  BY <1>1
<1> QED BY <1>2, SaidInvariance, PTL DEF RecSpec, SilentAfterLoss

-----------------------------------------------------------------------------
(* The windows of an utterance                                             *)

(* Where the window after w others begins; the first W windows of T frames. *)
Start(w) == w * SHIFT_FRAMES
Covering(W, T) ==
    [w \in 1 .. W |-> [i \in 1 .. Least(CHUNK_FRAMES, T - Start(w - 1)) |-> Start(w - 1) + i]]

(* After W windows and T frames, Q of them queued: what is queued is what  *)
(* the next window would begin with, and is no whole window; at the end    *)
(* the last window, and no other, reaches the last frame.                  *)
Placed(W, T, Q, done) ==
    /\ ~done => /\ Q = T - Start(W) /\ Q < CHUNK_FRAMES
                /\ W > 0 => Start(W - 1) + CHUNK_FRAMES <= T
    /\ done => /\ W > 0 /\ Start(W - 1) < T /\ T <= Start(W - 1) + CHUNK_FRAMES
               /\ W > 1 => Start(W - 2) + CHUNK_FRAMES < T

(* While a Persian stream has its caches, its windows are in place; the    *)
(* other engine has none.                                                  *)
CoverInv ==
    /\ QueueInv
    /\ engine # "persian" => windows = << >>
    /\ engine = "persian" /\ caches =>
         \E W \in Nat, T \in Nat : \E Q \in 0 .. T :
            /\ Len(frames) = T /\ queue = Numbers(T, Q)
            /\ windows = Covering(W, T)
            /\ Placed(W, T, Q, finished)

(* A push of k new frames: m are queued, of U, and it makes the d steps s.  *)
Adds(W, T, Q, k, last, m, U, d, s) ==
    /\ W \in Nat /\ T \in Nat /\ Q \in 0 .. T /\ k \in Nat /\ last \in BOOLEAN
    /\ Placed(W, T, Q, FALSE) /\ (last => k > 0)
    /\ m = Q + k /\ U = T + k /\ d = Count(m, last) /\ s = Steps(m, last)

(* The windows taken by d steps s over U frames.                           *)
WindowsAt(U, d, s) == [i \in 1 .. d |-> WindowAt(U, s[i])]

(* Each of d steps takes the next window, after W others.                  *)
Follows(W, U, d, s) ==
    /\ d \in Nat
    /\ \A i \in 1 .. d : s[i] \in 1 .. U /\ U - s[i] = Start((W + i) - 1)

(* Windows are SHIFT_FRAMES apart.                                         *)
LEMMA StartIs ==
    /\ \A w \in Int : Start(w) \in Int
    /\ \A w \in Nat : Start(w) \in Nat
    /\ Start(0) = 0
    /\ \A v, w \in Int : Start(v + w) = Start(v) + Start(w)
    /\ \A w \in Int : Start(w) = Start(w - 1) + SHIFT_FRAMES
    /\ \A v, w \in Int : v <= w => Start(v) <= Start(w)
<1>1. SHIFT_FRAMES \in Nat \ {0} BY StreamAssumption
<1>2. \A w \in Int : Start(w) \in Int BY <1>1 DEF Start
<1>3. \A w \in Nat : Start(w) \in Nat BY <1>1 DEF Start
<1>4. Start(0) = 0 BY <1>1 DEF Start
<1>5. \A v, w \in Int : Start(v + w) = Start(v) + Start(w) BY <1>1, Distrib DEF Start
<1>6. \A w \in Int : Start(w) = Start(w - 1) + SHIFT_FRAMES
  <2> TAKE w \in Int
  <2>1. ((w - 1) + 1) * SHIFT_FRAMES = ((w - 1) * SHIFT_FRAMES) + (1 * SHIFT_FRAMES)
    BY <1>1, Distrib
  <2>2. (w - 1) + 1 = w /\ 1 * SHIFT_FRAMES = SHIFT_FRAMES BY <1>1
  <2> QED BY <2>1, <2>2 DEF Start
<1>7. \A v, w \in Int : v <= w => Start(v) <= Start(w) BY <1>1, Multiples DEF Start
<1> QED BY <1>2, <1>3, <1>4, <1>5, <1>6, <1>7

(* The windows that a push adds are the next ones, and stay in place.      *)
LEMMA PlacedNext ==
    ASSUME NEW W, NEW T, NEW Q, NEW k, NEW last, NEW m, NEW U, NEW d, NEW s,
           Adds(W, T, Q, k, last, m, U, d, s)
    PROVE  Follows(W, U, d, s) /\ Placed(W + d, U, EndsWith(m, last), last)
<1> DEFINE e == EndsWith(m, last)
           C == CHUNK_FRAMES
           V == W + d
<1>1. SHIFT_FRAMES \in Nat \ {0} /\ C \in Nat BY StreamAssumption
<1>2. /\ W \in Nat /\ T \in Nat /\ Q \in 0 .. T /\ k \in Nat /\ last \in BOOLEAN
      /\ last => k > 0
  BY DEF Adds
<1>3. /\ Q = T - Start(W) /\ Q < C /\ (W > 0 => Start(W - 1) + C <= T)
      /\ m = Q + k /\ U = T + k /\ V = W + d
      /\ d = Count(m, last) /\ s = Steps(m, last)
  BY DEF Placed, Adds
<1> HIDE DEF V
<1>4. m \in Nat /\ U \in Nat /\ Q \in Nat /\ m <= U BY <1>2, <1>3
<1>5. d \in Nat /\ \A i \in 1 .. d : s[i] = m - ((i - 1) * SHIFT_FRAMES) /\ s[i] \in 1 .. m
  <2>1. d = Count(m, last) /\ s = Steps(m, last) BY <1>3
  <2>2. d \in Nat BY <1>2, <1>4, <2>1, StepsFacts
  <2>3. \A i \in 1 .. d : s[i] = m - ((i - 1) * SHIFT_FRAMES)
    <3>1. s = StepsOf(m, last) BY <1>2, <1>4, <2>1, StepsAre
    <3> QED BY <2>1, <3>1 DEF StepsOf
  <2>4. \A i \in 1 .. d : s[i] \in 1 .. m BY <1>2, <1>4, <2>1, StepsFacts
  <2> QED BY <2>2, <2>3, <2>4
<1>6. ~last => /\ \A i \in 1 .. d : s[i] >= C
               /\ e = m - (d * SHIFT_FRAMES) /\ e < C
  <2> SUFFICES ASSUME ~last
               PROVE  /\ \A i \in 1 .. d : s[i] >= C
                      /\ e = m - (d * SHIFT_FRAMES) /\ e < C
    OBVIOUS
  <2>1. d = Count(m, last) /\ s = Steps(m, last) BY <1>3
  <2>2. \A i \in 1 .. d : s[i] >= C BY <1>2, <1>4, <2>1, StepsFacts
  <2>3. e = m - (d * SHIFT_FRAMES) BY <1>2, <1>4, <2>1, StepsFacts
  <2>4. e < C BY <1>2, <1>4, <2>1, StepsFacts
  <2> QED BY <2>2, <2>3, <2>4
<1>7. last => /\ m > 0 => d > 0
              /\ d > 0 => s[d] <= C
              /\ \A i \in 1 .. d - 1 : s[i] > C
  <2> SUFFICES ASSUME last
               PROVE  /\ m > 0 => d > 0
                      /\ d > 0 => s[d] <= C
                      /\ \A i \in 1 .. d - 1 : s[i] > C
    OBVIOUS
  <2>1. d = Count(m, last) /\ s = Steps(m, last) BY <1>3
  <2>2. m > 0 => d > 0 BY <1>2, <1>4, <2>1, StepsFacts
  <2>3. d > 0 => s[d] <= C BY <1>2, <1>4, <2>1, StepsFacts
  <2>4. \A i \in 1 .. d - 1 : s[i] > C BY <1>2, <1>4, <2>1, StepsFacts
  <2> QED BY <2>2, <2>3, <2>4
<1> HIDE DEF e
<1>8. Start(W) \in Nat BY <1>2, StartIs
<1>9. \A i \in 1 .. d : s[i] \in 1 .. U /\ U - s[i] = Start((W + i) - 1)
  <2> TAKE i \in 1 .. d
  <2>1. s[i] = m - Start(i - 1) /\ s[i] \in 1 .. m BY <1>5 DEF Start
  <2>2. i - 1 \in Int /\ (W + i) - 1 = W + (i - 1) BY <1>2, <1>5
  <2>3. Start(W + (i - 1)) = Start(W) + Start(i - 1) /\ Start(i - 1) \in Int
    BY <1>2, <2>2, StartIs
  <2>4. U - s[i] = Start(W) + Start(i - 1) BY <1>2, <1>3, <1>4, <1>8, <2>1, <2>3
  <2> QED BY <1>4, <2>1, <2>2, <2>3, <2>4
<1>10. V \in Nat BY <1>2, <1>3, <1>5
<1>11. ASSUME ~last PROVE Placed(V, U, e, last)
  <2>1. e = U - Start(V) /\ e < C
    <3>1. Start(V) = Start(W) + Start(d) /\ Start(d) \in Nat BY <1>2, <1>3, <1>5, StartIs
    <3>2. e = m - Start(d) /\ e < C BY <1>6, <1>11 DEF Start
    <3> QED BY <1>2, <1>3, <1>4, <1>8, <3>1, <3>2
  <2>2. V > 0 => Start(V - 1) + C <= U
    <3>1. CASE d > 0
      <4>1. d \in 1 .. d BY <1>5, <3>1
      <4>2. s[d] >= C /\ s[d] \in 1 .. U /\ U - s[d] = Start((W + d) - 1)
        BY <1>6, <1>9, <1>11, <4>1
      <4> QED BY <1>1, <1>3, <1>4, <4>2
    <3>2. CASE d = 0
      <4>1. V = W BY <1>2, <1>3, <3>2
      <4>2. W > 0 => Start(W - 1) \in Int BY <1>2, StartIs
      <4> QED BY <1>1, <1>2, <1>3, <4>1, <4>2
    <3> QED BY <1>5, <3>1, <3>2
  <2> QED BY <1>11, <2>1, <2>2 DEF Placed
<1>12. ASSUME last PROVE Placed(V, U, e, last)
  <2>1. d > 0
    <3>1. k > 0 BY <1>2, <1>12, Zenon
    <3>2. m > 0 BY <1>2, <1>3, <1>4, <3>1
    <3> QED BY <1>7, <1>12, <3>2
  <2>2. d \in 1 .. d BY <1>5, <2>1
  <2>3. s[d] <= C /\ s[d] \in 1 .. U /\ U - s[d] = Start(V - 1)
    BY <1>3, <1>7, <1>9, <1>12, <2>1, <2>2
  <2>4. V > 0 /\ V - 1 \in Int /\ V - 2 \in Int BY <1>2, <1>3, <1>5, <2>1
  <2>5. Start(V - 1) < U /\ U <= Start(V - 1) + C
    <3>1. Start(V - 1) \in Int BY <2>4, StartIs
    <3> QED BY <1>1, <1>4, <2>3, <3>1
  <2>6. V > 1 => Start(V - 2) + C < U
    <3>1. CASE d > 1
      <4>1. d - 1 \in 1 .. d - 1 /\ d - 1 \in 1 .. d BY <1>5, <3>1
      <4>2. s[d - 1] > C /\ s[d - 1] \in 1 .. U /\ U - s[d - 1] = Start((W + (d - 1)) - 1)
        BY <1>7, <1>9, <1>12, <4>1
      <4>3. (W + (d - 1)) - 1 = V - 2 BY <1>2, <1>3, <1>5
      <4>4. Start(V - 2) \in Int BY <2>4, StartIs
      <4> QED BY <1>1, <1>4, <4>2, <4>3, <4>4
    <3>2. CASE d = 1
      <4>1. V - 2 = W - 1 /\ (V > 1 => W > 0) BY <1>2, <1>3, <3>2
      <4>2. k > 0 /\ U > T
        <5>1. k > 0 BY <1>2, <1>12, Zenon
        <5> QED BY <1>2, <1>3, <5>1
      <4>3. Start(W - 1) \in Int BY <1>2, StartIs
      <4> QED BY <1>1, <1>2, <1>3, <1>4, <4>1, <4>2, <4>3
    <3> QED BY <1>5, <2>1, <3>1, <3>2
  <2> QED BY <1>12, <2>4, <2>5, <2>6 DEF Placed
<1> QED BY <1>2, <1>5, <1>9, <1>11, <1>12 DEF e, V, Follows

(* They continue the windows there are.                                    *)
LEMMA CoveringJoins ==
    ASSUME NEW W, NEW T, NEW Q, NEW k, NEW last, NEW m, NEW U, NEW d, NEW s,
           Adds(W, T, Q, k, last, m, U, d, s)
    PROVE  Covering(W, T) \o WindowsAt(U, d, s) = Covering(W + d, U)
<1> DEFINE old == Covering(W, T)
           new == WindowsAt(U, d, s)
           all == Covering(W + d, U)
           C == CHUNK_FRAMES
<1>1. Follows(W, U, d, s) BY PlacedNext
<1>2. W \in Nat /\ T \in Nat /\ U \in Nat /\ U >= T /\ Placed(W, T, Q, FALSE)
  <2>1. W \in Nat /\ T \in Nat /\ Placed(W, T, Q, FALSE) BY Zenon DEF Adds
  <2>2. T \in Nat /\ k \in Nat /\ U = T + k BY DEF Adds
  <2>3. U \in Nat /\ U >= T BY <2>2
  <2> QED BY <2>1, <2>3, Zenon
<1>3. C \in Nat /\ d \in Nat BY <1>1, StreamAssumption DEF Follows
<1>4. OfLength(old, W) /\ OfLength(new, d) /\ OfLength(all, W + d)
  BY DEF OfLength, Covering, WindowsAt
<1>5. \A w \in 1 .. W : all[w] = old[w]
  <2> TAKE w \in 1 .. W
  <2> DEFINE b == Start(w - 1)
  <2>1. w - 1 \in Int /\ W - 1 \in Int /\ w - 1 <= W - 1 /\ W > 0 /\ w \in 1 .. W + d
    BY <1>2, <1>3
  <2>2. b \in Int /\ Start(W - 1) \in Int /\ b <= Start(W - 1) BY <2>1, StartIs
  <2>3. Start(W - 1) + C <= T BY <1>2, <2>1 DEF Placed
  <2>4. /\ all[w] = [i \in 1 .. Least(C, U - b) |-> b + i]
        /\ old[w] = [i \in 1 .. Least(C, T - b) |-> b + i]
    BY <2>1 DEF Covering
  <2> HIDE DEF b
  <2>5. ~(U - b < C) /\ ~(T - b < C) BY <1>2, <1>3, <2>2, <2>3
  <2>6. Least(C, U - b) = C /\ Least(C, T - b) = C
    BY <1>2, <1>3, <2>2, <2>5 DEF Least
  <2> QED BY <2>4, <2>6
<1>6. \A i \in 1 .. d : all[W + i] = new[i]
  <2> TAKE i \in 1 .. d
  <2> DEFINE b == Start((W + i) - 1)
             n == s[i]
  <2>1. W + i \in 1 .. W + d BY <1>2, <1>3
  <2>2. n \in 1 .. U /\ U - n = b BY <1>1 DEF Follows
  <2>3. all[W + i] = [j \in 1 .. Least(C, U - b) |-> b + j] BY <2>1 DEF Covering
  <2>4. new[i] = [j \in 1 .. Least(n, C) |-> (U - n) + j] BY DEF WindowAt, WindowsAt
  <2> HIDE DEF b, n, new, all
  <2>5. U - b = n BY <1>2, <2>2
  <2>6. Least(C, n) = Least(n, C) BY <1>2, <1>3, <2>2 DEF Least
  <2>7. all[W + i] = [j \in 1 .. Least(n, C) |-> b + j] BY <2>3, <2>5, <2>6
  <2>8. new[i] = [j \in 1 .. Least(n, C) |-> b + j] BY <1>2, <2>2, <2>4
  <2> QED BY <2>7, <2>8
<1> HIDE DEF old, new, all
<1>7. old \o new = all BY <1>2, <1>3, <1>4, <1>5, <1>6, Joined
<1> QED BY <1>7 DEF old, new, all

(* A push keeps its stream's windows in place.                             *)
LEMMA CoverPushed ==
    ASSUME CoverInv, QueueInv', engine = "persian", UNCHANGED engine, ~finished,
           NEW last \in BOOLEAN, NEW T \in Nat, NEW k \in Nat, NEW Q \in 0 .. T,
           Len(frames) = T, Len(frames') = T + k, queue = Numbers(T, Q),
           last => k > 0, finished' = last,
           NEW fails \in Failing(Count(Q + k, last)), NEW toks,
           Pushed(T, k, Q, last, fails, toks)
    PROVE  CoverInv'
<1> SUFFICES ASSUME caches'
             PROVE  \E w \in Nat, t \in Nat : \E r \in 0 .. t :
                      /\ Len(frames') = t /\ queue' = Numbers(t, r)
                      /\ windows' = Covering(w, t)
                      /\ Placed(w, t, r, finished')
  BY DEF CoverInv
<1> DEFINE m == Q + k
           U == T + k
           d == Count(m, last)
           s == Steps(m, last)
           e == EndsWith(m, last)
<1>1. /\ DoneOf(m, last, fails) \in 0 .. d /\ LeftOf(m, last, fails) \in 0 .. m
      /\ queue' = Numbers(U, LeftOf(m, last, fails))
      /\ windows' = windows \o [i \in 1 .. DoneOf(m, last, fails) |-> WindowAt(U, s[i])]
      /\ caches' = (caches /\ fails = 0)
  BY DEF Pushed
<1>2. caches /\ fails = 0 BY <1>1
<1>3. /\ e \in 0 .. m /\ queue' = Numbers(U, e)
      /\ windows' = windows \o [i \in 1 .. d |-> WindowAt(U, s[i])]
  BY <1>1, <1>2 DEF DoneOf, LeftOf
<1>4. PICK W \in Nat, t \in Nat : \E r \in 0 .. t :
        /\ Len(frames) = t /\ queue = Numbers(t, r)
        /\ windows = Covering(W, t)
        /\ Placed(W, t, r, finished)
  BY <1>2 DEF CoverInv
<1>5. PICK r \in 0 .. t : Len(frames) = t /\ queue = Numbers(t, r)
                          /\ windows = Covering(W, t) /\ Placed(W, t, r, finished)
  BY <1>4
<1>6. t = T /\ r = Q
  <2>1. t = T BY <1>5
  <2>2. r \in 0 .. T /\ Numbers(T, r) = Numbers(T, Q) BY <1>5, <2>1
  <2>3. Len(Numbers(T, r)) = r BY <2>2, NumbersAre
  <2>4. Len(Numbers(T, Q)) = Q BY NumbersAre
  <2> QED BY <2>1, <2>2, <2>3, <2>4
<1>7. windows = Covering(W, T) /\ Placed(W, T, Q, FALSE)
  <2>1. windows = Covering(W, T) /\ Placed(W, T, Q, finished) BY <1>5, <1>6
  <2> QED BY <2>1 DEF Placed
<1>8. Adds(W, T, Q, k, last, m, U, d, s) BY <1>7 DEF Adds
<1>9. U \in Nat /\ U >= T /\ m <= U /\ m \in Nat OBVIOUS
<1> HIDE DEF m, U, d, s, e
<1>10. Follows(W, U, d, s) BY <1>8, PlacedNext
<1>11. Placed(W + d, U, e, last) BY <1>8, PlacedNext DEF e
<1>12. windows' = Covering(W + d, U)
  <2>1. Covering(W, T) \o WindowsAt(U, d, s) = Covering(W + d, U)
    BY <1>8, CoveringJoins
  <2> QED BY <1>3, <1>7, <2>1 DEF WindowsAt
<1>13. W + d \in Nat /\ e \in 0 .. U /\ Len(frames') = U
  BY <1>3, <1>9, <1>10 DEF U, Follows
<1> QED BY <1>3, <1>9, <1>11, <1>12, <1>13

(* At the start.                                                           *)
LEMMA CoverInit == RecInit => CoverInv
<1> SUFFICES ASSUME RecInit PROVE CoverInv OBVIOUS
<1>1. /\ frames = << >> /\ queue = << >> /\ windows = << >> /\ finished = FALSE
  BY DEF RecInit, Init
<1>2. Numbers(0, 0) = << >> /\ Len(<< >>) = 0 /\ 0 \in 0 .. 0 BY DEF Numbers
<1>3. Covering(0, 0) = << >> BY DEF Covering
<1>4. Placed(0, 0, 0, FALSE)
  <2>1. Start(0) = 0 BY StartIs
  <2> QED BY <2>1, StreamAssumption DEF Placed
<1>5. \E W \in Nat, T \in Nat : \E Q \in 0 .. T :
        /\ Len(frames) = T /\ queue = Numbers(T, Q)
        /\ windows = Covering(W, T)
        /\ Placed(W, T, Q, finished)
  BY <1>1, <1>2, <1>3, <1>4
<1> QED BY <1>1, <1>5, QueueInit DEF CoverInv

(* Every step keeps it.                                                    *)
LEMMA CoverStep ==
    ASSUME CoverInv, [RecNext]_allVars
    PROVE  CoverInv'
<1>1. QueueInv /\ QueueInv' BY QueueStep DEF CoverInv
<1>2. ASSUME engine = "persian", ~finished, UNCHANGED engine, NEW last \in BOOLEAN,
             NEW T \in Nat, NEW k \in Nat, NEW Q \in 0 .. T,
             Len(frames) = T, Len(frames') = T + k, queue = Numbers(T, Q),
             last => k > 0, finished' = last,
             NEW fails \in Failing(Count(Q + k, last)), NEW toks \in Seq(Answers),
             Pushed(T, k, Q, last, fails, toks)
      PROVE  CoverInv'
  BY <1>1, <1>2, CoverPushed
<1>3. ASSUME NEW n \in 0 .. MaxChunk, NEW last \in BOOLEAN,
             Transcribe(n, last) \/ TranscribeFails(n, last)
      PROVE  CoverInv'
  <2>1. engine # "persian" /\ engine' = engine /\ windows' = windows
    BY <1>3 DEF Transcribe, TranscribeFails, Called
  <2> QED BY <1>1, <2>1 DEF CoverInv
<1>4. ASSUME UNCHANGED allVars PROVE CoverInv'
  BY <1>1, <1>4 DEF CoverInv, allVars, vars
<1> QED BY <1>1, <1>2, <1>3, <1>4, StepIs

(* However the audio was cut, the encoder sees the windows of the whole    *)
(* utterance, in order and to its end, and none that shows it nothing new. *)
THEOREM WindowsCoverHolds == RecSpec => []WindowsCover
<1>1. CoverInv => WindowsCover
  <2> SUFFICES ASSUME CoverInv, caches
               PROVE  /\ windows = ReferenceWindows
                      /\ finished =>
                           /\ Last(Last(windows)) = Len(frames)
                           /\ Len(windows) > 1 =>
                                Last(windows[Len(windows) - 1]) < Len(frames)
    BY DEF WindowsCover
  <2>1. CASE engine # "persian"
    <3>1. windows = << >> /\ ~finished BY <2>1 DEF CoverInv, QueueInv, FramesInv
    <3>2. Len(<< >>) = 0 OBVIOUS
    <3>3. ReferenceWindows = << >> BY <3>1, <3>2 DEF ReferenceWindows
    <3> QED BY <3>1, <3>3
  <2>2. CASE engine = "persian"
    <3>1. PICK W \in Nat, T \in Nat : \E Q \in 0 .. T :
            /\ Len(frames) = T /\ queue = Numbers(T, Q)
            /\ windows = Covering(W, T)
            /\ Placed(W, T, Q, finished)
      BY <2>2 DEF CoverInv
    <3>2. Len(frames) = T /\ windows = Covering(W, T) BY <3>1
    <3>3. OfLength(windows, W) BY <3>2 DEF OfLength, Covering
    <3>4. Len(windows) = W BY <3>3, LenIs
    <3>5. windows = ReferenceWindows
      BY <3>2, <3>4 DEF ReferenceWindows, Covering, Start
    <3>6. ASSUME finished
          PROVE  /\ W > 0 /\ Start(W - 1) < T /\ T <= Start(W - 1) + CHUNK_FRAMES
                 /\ W > 1 => Start(W - 2) + CHUNK_FRAMES < T
      BY <3>1, <3>6 DEF Placed
    <3>7. CHUNK_FRAMES \in Nat \ {0} BY StreamAssumption
    <3>8. ASSUME NEW w \in 1 .. W, NEW l \in Nat \ {0},
                 l = Least(CHUNK_FRAMES, T - Start(w - 1))
          PROVE  Last(windows[w]) = Start(w - 1) + l
      <4>1. windows[w] = [i \in 1 .. l |-> Start(w - 1) + i] BY <3>2, <3>8 DEF Covering
      <4>2. OfLength(windows[w], l) BY <4>1 DEF OfLength
      <4>3. Len(windows[w]) = l BY <4>2, LenIs
      <4>4. l \in 1 .. l OBVIOUS
      <4> QED BY <4>1, <4>3, <4>4 DEF Last
    <3>9. ASSUME finished PROVE Last(Last(windows)) = Len(frames)
      <4> DEFINE l == T - Start(W - 1)
      <4>1. W - 1 \in Int /\ W \in 1 .. W BY <3>6, <3>9
      <4>2. Start(W - 1) \in Int BY <4>1, StartIs
      <4>3. l \in Nat \ {0} /\ l <= CHUNK_FRAMES BY <3>6, <3>7, <3>9, <4>2
      <4>4. l = Least(CHUNK_FRAMES, T - Start(W - 1)) BY <3>7, <4>3 DEF Least
      <4>5. Start(W - 1) + l = T BY <4>2
      <4> HIDE DEF l
      <4>6. Last(windows[W]) = Start(W - 1) + l BY <3>8, <4>1, <4>3, <4>4
      <4> QED BY <3>2, <3>4, <4>5, <4>6 DEF Last
    <3>10. ASSUME finished, Len(windows) > 1
           PROVE  Last(windows[Len(windows) - 1]) < Len(frames)
      <4> DEFINE w == W - 1
      <4>1. w \in 1 .. W /\ w - 1 = W - 2 /\ w - 1 \in Int BY <3>4, <3>10
      <4>2. Start(w - 1) \in Int BY <4>1, StartIs
      <4>3. Start(w - 1) + CHUNK_FRAMES < T BY <3>4, <3>6, <3>10, <4>1
      <4>4. ~(T - Start(w - 1) < CHUNK_FRAMES) BY <3>7, <4>2, <4>3
      <4>5. CHUNK_FRAMES = Least(CHUNK_FRAMES, T - Start(w - 1))
        BY <3>7, <4>2, <4>4 DEF Least
      <4> HIDE DEF w
      <4>6. Last(windows[w]) = Start(w - 1) + CHUNK_FRAMES BY <3>7, <3>8, <4>1, <4>5
      <4> QED BY <3>2, <3>4, <4>3, <4>6 DEF w
    <3> QED BY <3>5, <3>9, <3>10
  <2> QED BY <2>1, <2>2
<1> QED BY <1>1, CoverInit, CoverStep, PTL DEF RecSpec
=============================================================================
