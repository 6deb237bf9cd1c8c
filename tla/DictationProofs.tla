--------------------------- MODULE DictationProofs ---------------------------
(* Proofs about a dictation in the browser, for any chunk size and bounds. *)
EXTENDS Dictation, SequenceTheorems, FiniteSetTheorems, TLAPS

(* The sizes alone: with SendRejects, a Boolean, in sight arithmetic is    *)
(* out of reach.                                                           *)
LEMMA Sizes ==
    CHUNK_SAMPLES \in Nat \ {0} /\ MaxHeard \in Nat /\ MaxDictations \in Nat
  BY DictationAssumption

USE Sizes

-----------------------------------------------------------------------------
(* Sequences                                                               *)

LastOf(s) == s[Len(s)]

(* What Append and Tail do, element by element.                            *)
LEMMA AppendFacts ==
    ASSUME NEW S, NEW s \in Seq(S), NEW e \in S
    PROVE  /\ Append(s, e) \in Seq(S)
           /\ Len(Append(s, e)) = Len(s) + 1
           /\ Append(s, e) # << >>
           /\ Append(s, e)[Len(s) + 1] = e
           /\ \A i \in 1 .. Len(s) : Append(s, e)[i] = s[i]
  OBVIOUS

(* Tail drops the head and moves the rest up by one.                       *)
LEMMA TailFacts ==
    ASSUME NEW S, NEW s \in Seq(S), s # << >>
    PROVE  /\ Head(s) = s[1] /\ Head(s) \in S
           /\ Tail(s) \in Seq(S)
           /\ Len(s) \in Nat \ {0}
           /\ Len(Tail(s)) = Len(s) - 1
           /\ \A i \in 1 .. Len(Tail(s)) : Tail(s)[i] = s[i + 1]
  BY HeadTailProperties, EmptySeq

(* The sequence s of pieces begins at n, and each piece where the one      *)
(* before it ended; End is where the next one would have to begin.         *)
Joins(s, n) == \A i \in 1 .. Len(s) : s[i].from = IF i = 1 THEN n ELSE s[i - 1].to
End(s, n) == IF s = << >> THEN n ELSE LastOf(s).to

(* A piece that begins where the others end joins them.                    *)
LEMMA JoinsAppend ==
    ASSUME NEW s \in Seq(Audio), NEW p \in Audio, NEW n \in Nat,
           Joins(s, n), p.from = End(s, n)
    PROVE  Joins(Append(s, p), n) /\ End(Append(s, p), n) = p.to
  BY AppendFacts, EmptySeq DEF Joins, End, LastOf

(* Without its first piece, what is left begins where that one ended.      *)
LEMMA JoinsTail ==
    ASSUME NEW s \in Seq(Audio), s # << >>, NEW n \in Nat, Joins(s, n)
    PROVE  /\ Head(s).from = n
           /\ Joins(Tail(s), Head(s).to)
           /\ End(Tail(s), Head(s).to) = End(s, n)
<1>1. Head(s).from = n
  BY TailFacts DEF Joins
<1>2. Joins(Tail(s), Head(s).to)
  <2> SUFFICES ASSUME NEW i \in 1 .. Len(Tail(s))
               PROVE  Tail(s)[i].from = IF i = 1 THEN Head(s).to ELSE Tail(s)[i - 1].to
    BY DEF Joins
  <2>1. Tail(s)[i] = s[i + 1] /\ i + 1 \in 1 .. Len(s) /\ i + 1 # 1
    BY TailFacts
  <2>2. s[i + 1].from = s[i].to
    BY <2>1 DEF Joins
  <2>3. i # 1 => Tail(s)[i - 1] = s[i]
    BY TailFacts
  <2> QED BY <2>1, <2>2, <2>3, TailFacts
<1>3. End(Tail(s), Head(s).to) = End(s, n)
  <2>1. CASE Tail(s) = << >>
    <3>1. Len(Tail(s)) = 0 /\ Len(Tail(s)) = Len(s) - 1 /\ Len(s) \in Nat
      <4>1. Len(<< >>) = 0
        OBVIOUS
      <4> QED BY <2>1, <4>1, TailFacts
    <3>2. Len(s) = 1
      BY <3>1
    <3> QED BY <2>1, <3>2, TailFacts DEF End, LastOf
  <2>2. CASE Tail(s) # << >>
    <3>1. Len(Tail(s)) \in 1 .. Len(Tail(s)) /\ Len(Tail(s)) + 1 = Len(s)
      BY <2>2, TailFacts, EmptySeq
    <3> QED BY <2>2, <3>1, TailFacts DEF End, LastOf
  <2> QED BY <2>1, <2>2
<1> QED BY <1>1, <1>2, <1>3

-----------------------------------------------------------------------------
(* Types                                                                   *)

Sent == [session : 0 .. MaxDictations, audio : Audio]

Types ==
    /\ ui \in {"idle", "warming", "opening", "resuming", "recording",
               "flushing", "closing", "draining"}
    /\ session \in 0 .. MaxDictations /\ count \in 0 .. MaxDictations
    /\ warm \in {"none", "suspended", "running", "building_suspended", "building_running"}
    /\ ctx \in {"none", "suspended", "running"}
    /\ device \in {"off", "asked", "on", "denied"}
    /\ buf \in 0 .. CHUNK_SAMPLES - 1 /\ heard \in buf .. MaxHeard
    /\ port \in Seq(Audio) /\ chain \in Seq(Audio)
    /\ inflight \in SUBSET Sent
    /\ \A m, n \in inflight : m = n
    /\ got \in Seq(Sent)
    /\ spoken \in 0 .. MaxHeard

(* Where a dictation stands, and that nothing of an earlier one is left    *)
(* when it begins.  A dictation has its number as its session id.          *)
Phases ==
    /\ ui \in {"idle", "warming", "opening", "resuming"} => chain = << >> /\ inflight = {}
    /\ ui \in {"warming", "opening", "resuming"} =>
            /\ heard = 0 /\ buf = 0 /\ ~flush
            /\ got # << >> => LastOf(got).audio.of # count
    /\ ~Connected => port = << >>
    /\ ui # "idle" => session = count /\ count > 0

Own ==
    /\ \A i \in 1 .. Len(port) : port[i].of = count
    /\ \A i \in 1 .. Len(chain) : chain[i].of = count
    /\ \A m \in inflight : m.session = count /\ m.audio.of = count
    /\ \A i \in 1 .. Len(got) : got[i].audio.of <= count
    /\ OwnSession

(* Where the audio on the server ends, and that which was sent.            *)
Edge == IF got # << >> /\ LastOf(got).audio.of = count THEN LastOf(got).audio.to ELSE 0
SentTo == IF inflight = {} THEN Edge ELSE (CHOOSE m \in inflight : TRUE).audio.to

ClosedThere == got # << >> /\ LastOf(got).audio.of = count /\ LastOf(got).audio.last

(* As long as no send failed, server, request, chain, port and worklet's   *)
(* buffer together have all samples, once each and in order, and nothing   *)
(* follows a piece that closes the session.                                *)
Joined ==
    /\ \A m \in inflight : m.audio.from = Edge
    /\ Joins(chain, SentTo)
    /\ Connected => Joins(port, End(chain, SentTo))
                    /\ End(port, End(chain, SentTo)) = heard - buf

Closing ==
    /\ Connected => /\ \A i \in 1 .. Len(chain) : ~chain[i].last
                    /\ \A m \in inflight : ~m.audio.last
                    /\ ~ClosedThere
    /\ \A i \in 1 .. Len(chain) : chain[i].last => i = Len(chain)
    /\ \A m \in inflight : m.audio.last => chain = << >>
    /\ ClosedThere => inflight = {} /\ chain = << >>

Stream ==
    /\ abandoned => inflight = {}
    /\ ~abandoned => Joined /\ Closing
    /\ StreamIsPrefix

(* The tail that stop() waits for: it closes the session and goes as far   *)
(* as the click on Stop, and it is the last that is sent.                  *)
IsTail(p) == p.last /\ p.to >= spoken

TailSent ==
    /\ chain # << >> => IsTail(LastOf(chain))
    /\ chain = << >> => \A m \in inflight : IsTail(m.audio)
    /\ chain = << >> /\ inflight = {} =>
            got # << >> /\ IsTail(LastOf(got).audio) /\ LastOf(got).session = session

Tails ==
    /\ ui = "recording" => ~flush /\ \A i \in 1 .. Len(port) : ~port[i].last
    /\ ui = "flushing" => /\ heard >= spoken
                          /\ \A i \in 1 .. Len(port) : port[i].last => port[i].to >= spoken
    /\ ui \in {"closing", "draining"} /\ ~timedOut /\ ~abandoned => TailSent

BaseInv == Types /\ Phases /\ Own

-----------------------------------------------------------------------------
(* The base of everything holds at the start and is kept.                  *)

(* Nothing is on its way at the start.                                     *)
LEMMA BaseInit == Init => BaseInv
<1> SUFFICES ASSUME Init PROVE BaseInv
  OBVIOUS
<1>1. << >> \in Seq(Audio) /\ << >> \in Seq(Sent) /\ Len(<< >>) = 0
  BY EmptySeq
<1>2. Types
  BY <1>1 DEF Init, Types
<1> QED BY <1>1, <1>2 DEF Init, BaseInv, Phases, Own, OwnSession, Connected

(* What has reached the server, element by element.                        *)
LEMMA GotFacts ==
    ASSUME BaseInv
    PROVE  \A i \in 1 .. Len(got) :
                got[i] \in Sent /\ got[i].audio.of \in Nat
                /\ got[i].audio.from \in Nat /\ got[i].audio.to \in Nat
<1> SUFFICES ASSUME NEW i \in 1 .. Len(got)
             PROVE  /\ got[i] \in Sent /\ got[i].audio.of \in Nat
                    /\ got[i].audio.from \in Nat /\ got[i].audio.to \in Nat
  OBVIOUS
<1>1. got[i] \in Sent
  BY ElementOfSeq DEF BaseInv, Types
<1> QED BY <1>1 DEF Sent, Audio

(* A piece of dictation k after pieces of k.                               *)
LEMMA AppendOf ==
    ASSUME NEW s \in Seq(Audio), NEW p \in Audio, NEW k,
           \A i \in 1 .. Len(s) : s[i].of = k, p.of = k
    PROVE  /\ Append(s, p) \in Seq(Audio)
           /\ \A i \in 1 .. Len(Append(s, p)) : Append(s, p)[i].of = k
  BY AppendFacts, LenProperties

(* The pieces that the worklet makes are pieces of this dictation.         *)
LEMMA PieceFacts ==
    ASSUME BaseInv, Connected, NEW last \in BOOLEAN, NEW to \in 0 .. MaxHeard
    PROVE  /\ Piece(count, heard - buf, to, last) \in Audio
           /\ Piece(count, heard - buf, to, last).of = count
           /\ Piece(count, heard - buf, to, last).from = heard - buf
           /\ Piece(count, heard - buf, to, last).to = to
           /\ Piece(count, heard - buf, to, last).last = last
<1>1. count \in 1 .. MaxDictations
  BY DEF BaseInv, Types, Phases, Connected
<1>2. heard - buf \in 0 .. MaxHeard
  BY DEF BaseInv, Types
<1> QED BY <1>1, <1>2 DEF Piece, Audio

(* One more sample: the piece is full and goes, or the sample is kept.     *)
LEMMA CaptureFacts ==
    ASSUME BaseInv, Capture
    PROVE  /\ heard' = heard + 1 /\ heard + 1 \in 0 .. MaxHeard
           /\ buf + 1 = CHUNK_SAMPLES =>
                port' = Append(port, Piece(count, heard - buf, heard + 1, FALSE)) /\ buf' = 0
           /\ buf + 1 # CHUNK_SAMPLES => buf' = buf + 1 /\ UNCHANGED port
<1>1. heard' = heard + 1 /\ heard < MaxHeard
  BY DEF Capture
<1>2. heard \in Nat
  BY DEF BaseInv, Types
<1>3. heard + 1 \in 0 .. MaxHeard
  BY <1>1, <1>2
<1> QED BY <1>1, <1>3 DEF Capture

(* The user, the browser's preparations and the end of stop() do not touch *)
(* what is on its way.                                                     *)
UiStep ==
    \/ Hover \/ Compiled \/ CompileFails \/ Warmed \/ MicOpened \/ MicDenied
    \/ ClickStop \/ Closed \/ StopReturns
    \/ \E answer \in {"on", "denied"} : Permission(answer)
    \/ \E ok \in BOOLEAN : Resumed(ok)
    \/ UNCHANGED vars

(* None of these steps breaks the base.                                    *)
LEMMA BaseUi == BaseInv /\ UiStep => BaseInv'
<1> SUFFICES ASSUME BaseInv, UiStep PROVE BaseInv'
  OBVIOUS
<1> USE DEF BaseInv, UiStep, captureVars, sendVars, stopVars, vars
<1>1. UNCHANGED <<count, buf, heard, port, chain, inflight, got, abandoned>>
  BY DEF Hover, Compiled, CompileFails, Warmed, MicOpened, MicDenied, ClickStop, Closed,
         StopReturns, Permission, Resumed
<1>2. Types'
  <2>1. /\ ui' \in {"idle", "warming", "opening", "resuming", "recording",
                    "flushing", "closing", "draining"}
        /\ session' \in 0 .. MaxDictations
        /\ spoken' \in 0 .. MaxHeard
    <3>1. CASE Hover \/ Compiled \/ CompileFails
      BY <3>1 DEF Types, Hover, Compiled, CompileFails
    <3>2. CASE Warmed \/ \E ok \in BOOLEAN : Resumed(ok)
      BY <3>2 DEF Types, Warmed, Resumed
    <3>3. CASE \E answer \in {"on", "denied"} : Permission(answer)
      BY <3>3 DEF Types, Permission
    <3>4. CASE MicOpened \/ MicDenied \/ Closed \/ StopReturns \/ UNCHANGED vars
      BY <3>4 DEF Types, MicOpened, MicDenied, Closed, StopReturns
    <3>5. CASE ClickStop
      BY <3>5 DEF Types, ClickStop
    <3> QED BY <3>1, <3>2, <3>3, <3>4, <3>5
  <2>2. /\ warm' \in {"none", "suspended", "running", "building_suspended", "building_running"}
        /\ ctx' \in {"none", "suspended", "running"}
        /\ device' \in {"off", "asked", "on", "denied"}
    <3>1. CASE Hover \/ Compiled \/ CompileFails
      BY <3>1 DEF Types, Prewarmed, Hover, Compiled, CompileFails
    <3>2. CASE Warmed \/ \E ok \in BOOLEAN : Resumed(ok)
      BY <3>2 DEF Types, Warmed, Resumed
    <3>3. CASE \E answer \in {"on", "denied"} : Permission(answer)
      BY <3>3 DEF Types, Permission
    <3>4. CASE MicOpened \/ MicDenied \/ ClickStop \/ Closed \/ StopReturns \/ UNCHANGED vars
      BY <3>4 DEF Types, MicOpened, MicDenied, ClickStop, Closed, StopReturns
    <3> QED BY <3>1, <3>2, <3>3, <3>4
  <2> QED BY <1>1, <2>1, <2>2 DEF Types
<1>3. Phases'
  <2>1. CASE Hover \/ Compiled \/ CompileFails
    <3>1. /\ ui' = ui \/ (ui = "warming" /\ ui' = "idle")
          /\ session' = session /\ flush' = flush
      BY <2>1 DEF Hover, Compiled, CompileFails
    <3> QED BY <1>1, <3>1 DEF Phases, LastOf, Connected
  <2>2. CASE Warmed \/ MicOpened \/ MicDenied
    BY <1>1, <2>2 DEF Phases, LastOf, Connected, MustResume, Warmed, MicOpened, MicDenied
  <2>3. CASE \E ok \in BOOLEAN : Resumed(ok)
    BY <1>1, <2>3 DEF Phases, LastOf, Connected, Resumed
  <2>4. CASE (\E answer \in {"on", "denied"} : Permission(answer)) \/ UNCHANGED vars
    BY <1>1, <2>4 DEF Phases, LastOf, Connected, Permission
  <2>5. CASE ClickStop \/ Closed
    BY <1>1, <2>5 DEF Phases, LastOf, Connected, ClickStop, Closed
  <2>6. CASE StopReturns
    BY <1>1, <2>6 DEF Phases, LastOf, Connected, Drained, StopReturns
  <2> QED BY <2>1, <2>2, <2>3, <2>4, <2>5, <2>6
<1>4. Own'
  BY <1>1 DEF Own, OwnSession
<1> QED BY <1>2, <1>3, <1>4

(* A click on Record begins with nothing of an earlier dictation.          *)
LEMMA BaseRecord == BaseInv /\ ClickRecord => BaseInv'
<1> SUFFICES ASSUME BaseInv, ClickRecord PROVE BaseInv'
  OBVIOUS
<1> USE DEF BaseInv
<1>1. chain = << >> /\ inflight = {} /\ UNCHANGED <<chain, inflight, got>>
  BY DEF ClickRecord, Clickable, Phases
<1>2. Len(<< >>) = 0 /\ << >> \in Seq(Audio) /\ \A q \in Seq(Sent) : q # << >> => Len(q) \in Nat \ {0}
  BY EmptySeq
<1>3. Types'
  <2>1. warm' \in {"none", "suspended", "running", "building_suspended", "building_running"}
    BY DEF ClickRecord, Types, Prewarmed
  <2>2. count' \in 0 .. MaxDictations /\ session' \in 0 .. MaxDictations
    BY DEF ClickRecord, Types
  <2>3. port' \in Seq(Audio) /\ UNCHANGED <<chain, inflight, got>>
    BY <1>2 DEF ClickRecord
  <2>4. /\ buf' = 0 /\ heard' = 0 /\ spoken' = 0
        /\ ui' = "warming" /\ device' = "asked" /\ ctx' = "none"
    BY DEF ClickRecord
  <2> QED BY <2>1, <2>2, <2>3, <2>4 DEF Types
<1>4. Phases'
  <2>1. got # << >> => LastOf(got).audio.of # count + 1
    <3> SUFFICES ASSUME got # << >> PROVE LastOf(got).audio.of # count + 1
      OBVIOUS
    <3>1. Len(got) \in 1 .. Len(got)
      BY <1>2 DEF Types
    <3>2. got[Len(got)].audio.of <= count /\ got[Len(got)].audio.of \in Nat
      BY <3>1, GotFacts DEF Own
    <3> QED BY <3>2 DEF LastOf, Types
  <2> QED BY <1>1, <2>1 DEF ClickRecord, Phases, Types, LastOf, Connected
<1>5. Own'
  <2>1. \A i \in 1 .. Len(got) : got[i].audio.of \in Nat
    BY GotFacts
  <2> QED BY <1>1, <1>2, <2>1 DEF ClickRecord, Own, OwnSession, Types
<1> QED BY <1>3, <1>4, <1>5

(* The worklet adds to the port.                                           *)
LEMMA BaseWorklet == BaseInv /\ (Capture \/ Flush) => BaseInv'
<1> SUFFICES ASSUME BaseInv, Capture \/ Flush PROVE BaseInv'
  OBVIOUS
<1>1. Connected /\ UNCHANGED <<ui, session, count, warm, ctx, device, sendVars, stopVars>>
  BY DEF Capture, Flush
<1>2. Types' /\ \A i \in 1 .. Len(port') : port'[i].of = count
  <2>1. CASE Capture
    <3>1. heard' = heard + 1 /\ heard + 1 \in 0 .. MaxHeard /\ UNCHANGED flush
      BY <2>1 DEF Capture, BaseInv, Types
    <3>2. CASE buf + 1 = CHUNK_SAMPLES
      <4>1. port' = Append(port, Piece(count, heard - buf, heard + 1, FALSE)) /\ buf' = 0
        BY <2>1, <3>2 DEF Capture
      <4>2. port' \in Seq(Audio) /\ \A i \in 1 .. Len(port') : port'[i].of = count
        <5> DEFINE p == Piece(count, heard - buf, heard + 1, FALSE)
        <5>1. p \in Audio /\ p.of = count
          BY <1>1, <3>1, PieceFacts
        <5> HIDE DEF p
        <5>2. port' = Append(port, p)
          BY <4>1 DEF p
        <5> QED BY <5>1, <5>2, AppendOf DEF BaseInv, Types, Own
      <4>3. buf' \in 0 .. CHUNK_SAMPLES - 1 /\ heard' \in buf' .. MaxHeard
        BY <3>1, <4>1
      <4> QED BY <1>1, <4>2, <4>3 DEF BaseInv, Types, sendVars, stopVars
    <3>3. CASE buf + 1 # CHUNK_SAMPLES
      <4>1. buf' = buf + 1 /\ UNCHANGED port
        BY <2>1, <3>3 DEF Capture
      <4> QED BY <1>1, <3>1, <3>3, <4>1 DEF BaseInv, Types, Own, sendVars, stopVars
    <3> QED BY <3>2, <3>3
  <2>2. CASE Flush
    <3>1. /\ port' = Append(port, Piece(count, heard - buf, heard, TRUE))
          /\ buf' = 0 /\ flush' = FALSE /\ UNCHANGED heard
      BY <2>2 DEF Flush
    <3>2. port' \in Seq(Audio) /\ \A i \in 1 .. Len(port') : port'[i].of = count
      <4> DEFINE p == Piece(count, heard - buf, heard, TRUE)
      <4>0. heard \in 0 .. MaxHeard
        BY DEF BaseInv, Types
      <4>1. p \in Audio /\ p.of = count
        BY <1>1, <4>0, PieceFacts
      <4> HIDE DEF p
      <4>2. port' = Append(port, p)
        BY <3>1 DEF p
      <4> QED BY <4>1, <4>2, AppendOf DEF BaseInv, Types, Own
    <3>3. buf' \in 0 .. CHUNK_SAMPLES - 1 /\ heard' \in buf' .. MaxHeard
      BY <3>1 DEF BaseInv, Types
    <3> QED BY <1>1, <3>2, <3>3 DEF BaseInv, Types, sendVars, stopVars
  <2> QED BY <2>1, <2>2
<1>3. Phases'
  BY <1>1 DEF BaseInv, Phases, Connected, sendVars
<1>4. Own'
  BY <1>1, <1>2 DEF BaseInv, Own, OwnSession, sendVars
<1> QED BY <1>2, <1>3, <1>4 DEF BaseInv

(* A message goes from the port to the chain; the timer clears the port.   *)
LEMMA BaseMessage == BaseInv /\ (Message \/ TimerFires) => BaseInv'
<1> SUFFICES ASSUME BaseInv, Message \/ TimerFires PROVE BaseInv'
  OBVIOUS
<1> USE DEF BaseInv
<1>0. << >> \in Seq(Audio) /\ Len(<< >>) = 0
  BY EmptySeq
<1>1. CASE TimerFires
  BY <1>0, <1>1 DEF TimerFires, GivesUp, TearDown, Types, Phases, Own, OwnSession, Connected,
     sendVars
<1>2. CASE Message
  <2>1. /\ Connected /\ port # << >>
        /\ chain' = Append(chain, Head(port))
        /\ UNCHANGED <<session, count, warm, ctx, buf, heard, flush,
                       inflight, abandoned, got, spoken, timedOut>>
    BY <1>2 DEF Message, stopVars
  <2>2. \/ ui' = "closing" /\ port' = << >> /\ device' = "off"
        \/ port' = Tail(port) /\ UNCHANGED <<ui, device>>
    BY <1>2 DEF Message, TearDown
  <2>3. Head(port) \in Audio /\ Head(port).of = count
    BY <2>1, TailFacts DEF Types, Own
  <2>4. chain' \in Seq(Audio) /\ \A i \in 1 .. Len(chain') : chain'[i].of = count
    BY <2>1, <2>3, AppendFacts DEF Types, Own
  <2>5. port' \in Seq(Audio) /\ \A i \in 1 .. Len(port') : port'[i].of = count
    <3>1. CASE port' = << >>
      BY <1>0, <3>1
    <3>2. CASE port' = Tail(port)
      BY <2>1, <3>2, TailFacts DEF Types, Own
    <3> QED BY <2>2, <3>1, <3>2
  <2>6. Types'
    BY <2>1, <2>2, <2>4, <2>5 DEF Types
  <2>7. Phases'
    BY <2>1, <2>2 DEF Phases, Connected
  <2>8. Own'
    BY <2>1, <2>4, <2>5 DEF Own, OwnSession
  <2> QED BY <2>6, <2>7, <2>8
<1> QED BY <1>1, <1>2

(* A send takes the session id while that is still the dictation's number. *)
LEMMA BaseSend == BaseInv /\ Send => BaseInv'
<1> SUFFICES ASSUME BaseInv, Send PROVE BaseInv'
  OBVIOUS
<1> USE DEF BaseInv
<1>1. CASE BeginSend
  <2>1. /\ chain # << >> /\ inflight = {} /\ chain' = Tail(chain)
        /\ inflight' = IF abandoned THEN inflight
                       ELSE inflight \cup {[session |-> session, audio |-> Head(chain)]}
        /\ UNCHANGED <<ui, session, count, warm, ctx, device, buf, heard, flush, port,
                       abandoned, got, spoken, timedOut>>
    BY <1>1 DEF BeginSend, OneAtATime, captureVars, stopVars
  <2>2. session = count /\ ui \notin {"idle", "warming", "opening", "resuming"}
    BY <2>1 DEF Phases
  <2>3. Head(chain) \in Audio /\ Head(chain).of = count
    BY <2>1, TailFacts DEF Types, Own
  <2>4. chain' \in Seq(Audio) /\ \A i \in 1 .. Len(chain') : chain'[i].of = count
    BY <2>1, TailFacts DEF Types, Own
  <2>5. inflight' = {} \/ inflight' = {[session |-> session, audio |-> Head(chain)]}
    BY <2>1
  <2>6. Types'
    BY <2>1, <2>3, <2>4, <2>5 DEF Types, Sent
  <2>7. Own'
    BY <2>1, <2>2, <2>3, <2>4, <2>5 DEF Own, OwnSession
  <2>8. Phases'
    BY <2>1, <2>2 DEF Phases, Connected
  <2> QED BY <2>6, <2>7, <2>8
<1>2. ASSUME NEW m \in inflight,
             Answered(m) \/ \E reached \in BOOLEAN : SendFails(m, reached)
      PROVE  BaseInv'
  <2>1. /\ inflight' = inflight \ {m}
        /\ got' = got \/ got' = Append(got, m)
        /\ UNCHANGED <<ui, session, count, warm, ctx, device, buf, heard, flush, port,
                       chain, spoken, timedOut>>
    BY <1>2 DEF Answered, SendFails, captureVars, stopVars
  <2>2. m \in Sent /\ m.session = count /\ m.audio.of = count /\ count \in Nat
    BY DEF Types, Own
  <2>3. got' \in Seq(Sent)
    BY <2>1, <2>2, AppendFacts DEF Types
  <2>4. \A i \in 1 .. Len(got') : (i \in 1 .. Len(got) /\ got'[i] = got[i]) \/ got'[i] = m
    BY <2>1, <2>2, AppendFacts DEF Types
  <2>5. Types'
    BY <2>1, <2>3 DEF Types
  <2>6. Own'
    BY <2>1, <2>2, <2>4 DEF Own, OwnSession
  <2>7. Phases'
    BY <2>1 DEF Phases, Connected
  <2> QED BY <2>5, <2>6, <2>7
<1> QED BY <1>1, <1>2 DEF Send

(* Every step keeps the base.                                              *)
LEMMA BaseStep == BaseInv /\ [Next]_vars => BaseInv'
  BY BaseUi, BaseRecord, BaseWorklet, BaseMessage, BaseSend DEF Next, Stop, UiStep

(* The base invariant in one formula.                                      *)
LEMMA Base == Spec => []BaseInv
  BY BaseInit, BaseStep, PTL DEF Spec

(* The page, the worklet and the chain always have their types, and there  *)
(* is never more than one request on its way.                              *)
THEOREM TypeCorrect == Spec => []TypeOK
<1>1. BaseInv => TypeOK
  <2> SUFFICES ASSUME BaseInv PROVE TypeOK
    OBVIOUS
  <2>1. Cardinality(inflight) <= 1
    <3>1. CASE inflight = {}
      BY <3>1, FS_EmptySet
    <3>2. CASE inflight # {}
      <4>1. PICK m \in inflight : inflight = {m}
        BY <3>2 DEF BaseInv, Types
      <4>2. Cardinality({m}) = 1
        BY FS_Singleton
      <4> QED BY <4>1, <4>2
    <3> QED BY <3>1, <3>2
  <2>2. warm \in Contexts \cup {"building_suspended", "building_running"} /\ ctx \in Contexts
    BY DEF BaseInv, Types, Contexts
  <2> QED BY <2>1, <2>2 DEF BaseInv, Types, TypeOK, Sent
<1> QED BY <1>1, Base, PTL

(* Audio goes to the session of its own dictation: the button is dead      *)
(* until the chain has drained, so that no id is read too late.            *)
THEOREM OwnSessionHolds == Spec => []OwnSession
<1>1. BaseInv => OwnSession
  BY DEF BaseInv, Own
<1> QED BY <1>1, Base, PTL

-----------------------------------------------------------------------------
(* The stream                                                              *)

(* There is one request at most, and where it ends is where all that was   *)
(* sent ends.                                                              *)
LEMMA SentToOf ==
    ASSUME BaseInv, NEW m \in inflight
    PROVE  inflight = {m} /\ SentTo = m.audio.to
<1>1. inflight = {m}
  BY DEF BaseInv, Types
<1>2. (CHOOSE n \in {m} : TRUE) = m
  OBVIOUS
<1> QED BY <1>1, <1>2 DEF SentTo

(* Where audio ends is a number.                                           *)
LEMMA EndsAreNat == BaseInv => Edge \in Nat /\ SentTo \in Nat /\ End(chain, SentTo) \in Nat
<1> SUFFICES ASSUME BaseInv PROVE Edge \in Nat /\ SentTo \in Nat /\ End(chain, SentTo) \in Nat
  OBVIOUS
<1>1. Edge \in Nat
  <2>1. got # << >> => Len(got) \in 1 .. Len(got)
    BY EmptySeq DEF BaseInv, Types
  <2> QED BY <2>1, GotFacts DEF Edge, LastOf
<1>2. SentTo \in Nat
  <2>1. CASE inflight = {}
    BY <1>1, <2>1 DEF SentTo
  <2>2. CASE inflight # {}
    <3>1. PICK m \in inflight : TRUE
      BY <2>2
    <3>2. m.audio.to \in Nat
      BY DEF BaseInv, Types, Sent, Audio
    <3> QED BY <3>2, SentToOf
  <2> QED BY <2>1, <2>2
<1>3. End(chain, SentTo) \in Nat
  <2>1. CASE chain = << >>
    BY <1>2, <2>1 DEF End
  <2>2. CASE chain # << >>
    <3>1. Len(chain) \in 1 .. Len(chain)
      BY <2>2, EmptySeq DEF BaseInv, Types
    <3>2. chain[Len(chain)] \in Audio
      BY <3>1, ElementOfSeq DEF BaseInv, Types
    <3> QED BY <2>2, <3>2 DEF End, LastOf, Audio
  <2> QED BY <2>1, <2>2
<1> QED BY <1>1, <1>2, <1>3

(* An empty stream is whole.                                               *)
LEMMA StreamInit == Init => Stream
<1> SUFFICES ASSUME Init PROVE Stream
  OBVIOUS
<1>1. Len(<< >>) = 0
  OBVIOUS
<1> QED BY <1>1 DEF Init, Stream, Joined, Closing, Joins, Connected, ClosedThere, StreamIsPrefix

(* What a step of the user or of the browser's preparations leaves alone,  *)
(* and when the worklet gets connected.                                    *)
LEMMA UiKeeps ==
    ASSUME UiStep
    PROVE  /\ UNCHANGED <<count, buf, heard, port, chain, inflight, got, abandoned>>
           /\ Connected' => Connected \/ ui \in {"opening", "resuming"}
<1> USE DEF UiStep, captureVars, sendVars, stopVars, vars
<1>1. CASE Hover \/ Compiled \/ CompileFails
  BY <1>1 DEF Connected, Hover, Compiled, CompileFails
<1>2. CASE Warmed \/ \E ok \in BOOLEAN : Resumed(ok)
  BY <1>2 DEF Connected, Warmed, Resumed
<1>3. CASE \E answer \in {"on", "denied"} : Permission(answer)
  BY <1>3 DEF Connected, Permission
<1>4. CASE MicOpened \/ MicDenied \/ ClickStop \/ Closed \/ StopReturns \/ UNCHANGED vars
  BY <1>4 DEF Connected, MicOpened, MicDenied, ClickStop, Closed, StopReturns
<1> QED BY <1>1, <1>2, <1>3, <1>4

(* The worklet gets connected only where nothing has been sent yet.        *)
LEMMA StreamUi ==
    ASSUME BaseInv, Stream, UiStep
    PROVE  Stream'
<1>1. /\ UNCHANGED <<count, buf, heard, port, chain, inflight, got, abandoned>>
      /\ Connected' => Connected \/ ui \in {"opening", "resuming"}
  BY UiKeeps
<1>2. Edge' = Edge /\ SentTo' = SentTo /\ ClosedThere' = ClosedThere
  BY <1>1 DEF Edge, SentTo, ClosedThere, LastOf
<1>3. CASE Connected \/ ~Connected'
  BY <1>1, <1>2, <1>3 DEF Stream, Joined, Closing, Joins, End, LastOf, StreamIsPrefix
<1>4. CASE ui \in {"opening", "resuming"}
  <2>1. /\ chain = << >> /\ inflight = {} /\ port = << >> /\ heard = 0 /\ buf = 0
        /\ got # << >> => LastOf(got).audio.of # count
    BY <1>4 DEF BaseInv, Phases, Connected
  <2>2. Edge = 0 /\ SentTo = 0 /\ ~ClosedThere
    BY <2>1 DEF Edge, SentTo, ClosedThere
  <2>3. Len(<< >>) = 0
    OBVIOUS
  <2>4. Joined' /\ Closing'
    BY <1>1, <1>2, <2>1, <2>2, <2>3 DEF Joined, Closing, Joins, End
  <2> QED BY <1>1, <2>4 DEF Stream, StreamIsPrefix
<1> QED BY <1>1, <1>3, <1>4

(* A new dictation begins at nothing.                                      *)
LEMMA StreamRecord ==
    ASSUME BaseInv, Stream, ClickRecord
    PROVE  Stream'
<1>1. /\ chain = << >> /\ inflight = {} /\ UNCHANGED <<chain, inflight, got>>
      /\ count' = count + 1 /\ ui' = "warming"
  BY DEF ClickRecord, Clickable, BaseInv, Phases
<1>2. got # << >> => LastOf(got).audio.of # count'
  <2> SUFFICES ASSUME got # << >> PROVE LastOf(got).audio.of # count'
    OBVIOUS
  <2>1. Len(got) \in 1 .. Len(got)
    BY EmptySeq DEF BaseInv, Types
  <2>2. got[Len(got)].audio.of <= count /\ got[Len(got)].audio.of \in Nat
    BY <2>1, GotFacts DEF BaseInv, Own
  <2> QED BY <1>1, <2>2 DEF LastOf, BaseInv, Types
<1>3. ~ClosedThere' /\ ~Connected'
  BY <1>1, <1>2 DEF ClosedThere, LastOf, Connected
<1>4. Len(<< >>) = 0
  OBVIOUS
<1>5. Joined' /\ Closing'
  BY <1>1, <1>3, <1>4 DEF Joined, Closing, Joins
<1> QED BY <1>1, <1>5 DEF Stream, StreamIsPrefix

(* What the worklet sends joins what it has sent before.                   *)
LEMMA StreamWorklet ==
    ASSUME BaseInv, Stream, Capture \/ Flush
    PROVE  Stream'
<1>1. /\ Connected /\ Connected'
      /\ UNCHANGED <<count, chain, inflight, got, abandoned>>
  BY DEF Capture, Flush, Connected, sendVars
<1>2. Edge' = Edge /\ SentTo' = SentTo /\ ClosedThere' = ClosedThere
  BY <1>1 DEF Edge, SentTo, ClosedThere, LastOf
<1>3. Closing => Closing'
  BY <1>1, <1>2 DEF Closing
<1>4. ASSUME Joined PROVE Joined'
  <2> DEFINE n == End(chain, SentTo)
  <2>1. n \in Nat /\ heard \in 0 .. MaxHeard /\ buf \in Nat /\ port \in Seq(Audio)
    BY EndsAreNat DEF BaseInv, Types
  <2>2. Joins(port, n) /\ End(port, n) = heard - buf
    BY <1>1, <1>4 DEF Joined
  <2>3. n' = n
    BY <1>1, <1>2 DEF End, LastOf
  <2>4. Joins(port', n) /\ End(port', n) = heard' - buf'
    <3> HIDE DEF n
    <3>1. CASE UNCHANGED port
      <4>1. heard' = heard + 1 /\ buf' = buf + 1
        <5>1. Capture /\ buf + 1 # CHUNK_SAMPLES
          <6>1. ASSUME NEW p \in Audio, port' = Append(port, p) PROVE FALSE
            BY <2>1, <3>1, <6>1, AppendFacts
          <6>2. ~Flush
            BY <1>1, <2>1, <6>1, PieceFacts DEF Flush
          <6>3. ASSUME Capture, buf + 1 = CHUNK_SAMPLES PROVE FALSE
            <7>1. port' = Append(port, Piece(count, heard - buf, heard + 1, FALSE))
                  /\ heard + 1 \in 0 .. MaxHeard
              BY <2>1, <6>3, CaptureFacts
            <7> QED BY <1>1, <6>1, <7>1, PieceFacts
          <6> QED BY <6>2, <6>3
        <5> QED BY <5>1, CaptureFacts
      <4>2. heard' - buf' = heard - buf
        BY <2>1, <4>1
      <4> QED BY <2>2, <3>1, <4>2
    <3>2. ASSUME NEW to \in 0 .. MaxHeard, NEW last \in BOOLEAN,
                 port' = Append(port, Piece(count, heard - buf, to, last)),
                 heard' = to, buf' = 0
          PROVE  Joins(port', n) /\ End(port', n) = heard' - buf'
      <4> DEFINE p == Piece(count, heard - buf, to, last)
      <4>1. p \in Audio /\ p.from = heard - buf /\ p.to = to
        BY <1>1, PieceFacts
      <4>2. port' = Append(port, p)
        BY <3>2
      <4> HIDE DEF p
      <4>3. Joins(port', n) /\ End(port', n) = to
        BY <2>1, <2>2, <4>1, <4>2, JoinsAppend
      <4> QED BY <3>2, <4>3
    <3>3. CASE Capture
      BY <3>1, <3>2, <3>3, CaptureFacts
    <3>4. CASE Flush
      BY <2>1, <3>2, <3>4 DEF Flush
    <3> QED BY <3>3, <3>4
  <2> QED BY <1>1, <1>2, <1>4, <2>3, <2>4 DEF Joined, Joins
<1> QED BY <1>1, <1>3, <1>4 DEF Stream, StreamIsPrefix

(* A message takes the first piece of the port to the end of the chain.    *)
LEMMA MessageFacts ==
    ASSUME BaseInv, Message
    PROVE  /\ Connected /\ port # << >>
           /\ Head(port) = port[1] /\ Head(port) \in Audio
           /\ chain' = Append(chain, Head(port))
           /\ Head(port).last => /\ ui' = "closing" /\ port' = << >>
           /\ ~Head(port).last => /\ ui' = ui /\ port' = Tail(port)
           /\ UNCHANGED <<session, count, buf, heard, flush, inflight, abandoned, got,
                          spoken, timedOut>>
  BY TailFacts DEF BaseInv, Types, Message, TearDown, stopVars

(* A message leaves the port at one end and joins the chain at the other.  *)
LEMMA StreamMessage ==
    ASSUME BaseInv, Stream, Message
    PROVE  Stream'
<1> DEFINE p == Head(port)
           n == End(chain, SentTo)
<1>1. /\ Connected /\ port # << >> /\ p \in Audio
      /\ chain' = Append(chain, p)
      /\ p.last => /\ ui' = "closing" /\ port' = << >>
      /\ ~p.last => /\ ui' = ui /\ port' = Tail(port)
      /\ UNCHANGED <<count, buf, heard, inflight, abandoned, got>>
  BY MessageFacts
<1>2. Edge' = Edge /\ SentTo' = SentTo /\ ClosedThere' = ClosedThere
  BY <1>1 DEF Edge, SentTo, ClosedThere, LastOf
<1>3. /\ chain \in Seq(Audio) /\ port \in Seq(Audio) /\ SentTo \in Nat /\ n \in Nat
  BY EndsAreNat DEF BaseInv, Types
<1>4. ASSUME Joined PROVE Joined'
  <2>1. Joins(chain, SentTo) /\ Joins(port, n) /\ End(port, n) = heard - buf
    BY <1>1, <1>4 DEF Joined
  <2>2. p.from = n /\ Joins(Tail(port), p.to) /\ End(Tail(port), p.to) = heard - buf
    BY <1>1, <1>3, <2>1, JoinsTail
  <2> HIDE DEF p
  <2>3. Joins(Append(chain, p), SentTo) /\ End(Append(chain, p), SentTo) = p.to
    BY <1>1, <1>3, <2>1, <2>2, JoinsAppend
  <2>4. Joins(chain', SentTo') /\ End(chain', SentTo') = p.to
    BY <1>1, <1>2, <2>3
  <2>5. \A m \in inflight' : m.audio.from = Edge'
    BY <1>1, <1>2, <1>4 DEF Joined
  <2>6. Connected' => Joins(port', End(chain', SentTo')) /\
                      End(port', End(chain', SentTo')) = heard' - buf'
    BY <1>1, <2>2, <2>4 DEF Connected
  <2>7. Joins(chain, SentTo)'
    BY <2>4 DEF Joins
  <2>8. End(chain, SentTo)' = End(chain', SentTo')
    BY DEF End, LastOf
  <2>9. Joins(port, End(chain, SentTo))' <=> Joins(port', End(chain', SentTo'))
    BY <2>8 DEF Joins
  <2>10. End(port, End(chain, SentTo))' = End(port', End(chain', SentTo'))
    BY <2>8 DEF End, LastOf
  <2> QED BY <2>5, <2>6, <2>7, <2>9, <2>10 DEF Joined
<1>5. ASSUME Closing PROVE Closing'
  <2> HIDE DEF p
  <2>1. /\ \A i \in 1 .. Len(chain) : ~chain[i].last
        /\ \A m \in inflight : ~m.audio.last
        /\ ~ClosedThere
    BY <1>1, <1>5 DEF Closing
  <2>2. /\ Len(chain') = Len(chain) + 1 /\ Len(chain) \in Nat
        /\ \A i \in 1 .. Len(chain) : chain'[i] = chain[i]
        /\ chain'[Len(chain')] = p
    BY <1>1, <1>3, AppendFacts, LenProperties
  <2>3. \A i \in 1 .. Len(chain') : i # Len(chain') => ~chain'[i].last
    BY <2>1, <2>2
  <2>4. Connected' => \A i \in 1 .. Len(chain') : ~chain'[i].last
    BY <1>1, <2>2, <2>3 DEF Connected
  <2> QED BY <1>1, <1>2, <2>1, <2>3, <2>4 DEF Closing
<1> QED BY <1>1, <1>4, <1>5 DEF Stream, StreamIsPrefix

(* The timer drops what nobody will read; the chain stays whole.           *)
LEMMA StreamTimer ==
    ASSUME BaseInv, Stream, TimerFires
    PROVE  Stream'
<1>1. ui' = "closing" /\ UNCHANGED <<count, chain, inflight, got, abandoned>>
  BY DEF TimerFires, TearDown, sendVars
<1>2. Edge' = Edge /\ SentTo' = SentTo /\ ClosedThere' = ClosedThere /\ ~Connected'
  BY <1>1 DEF Edge, SentTo, ClosedThere, LastOf, Connected
<1> QED BY <1>1, <1>2 DEF Stream, Joined, Closing, Joins, StreamIsPrefix

(* What a send takes from the chain.                                       *)
LEMMA BeginFacts ==
    ASSUME BaseInv, BeginSend
    PROVE  /\ chain # << >> /\ inflight = {} /\ chain' = Tail(chain)
           /\ abandoned => inflight' = {}
           /\ ~abandoned => inflight' = {[session |-> session, audio |-> Head(chain)]}
           /\ UNCHANGED <<ui, session, count, buf, heard, flush, port, abandoned, got,
                          spoken, timedOut>>
  BY DEF BeginSend, OneAtATime, captureVars, stopVars

(* The request takes the first piece of the chain.                         *)
LEMMA StreamBegin ==
    ASSUME BaseInv, Stream, BeginSend
    PROVE  Stream'
<1>1. CASE abandoned
  BY <1>1, BeginFacts DEF Stream, StreamIsPrefix
<1>2. CASE ~abandoned
  <2> DEFINE p == Head(chain)
             m == [session |-> session, audio |-> p]
  <2>1. /\ chain # << >> /\ inflight = {} /\ chain' = Tail(chain)
        /\ inflight' = {m}
        /\ UNCHANGED <<ui, count, buf, heard, port, abandoned, got>>
    BY <1>2, BeginFacts
  <2>2. m.audio = p
    OBVIOUS
  <2>3. (CHOOSE x \in {m} : TRUE) = m
    OBVIOUS
  <2> HIDE DEF m
  <2>4. /\ Edge' = Edge /\ SentTo = Edge /\ SentTo' = p.to
        /\ ClosedThere' = ClosedThere /\ Connected' = Connected
    BY <2>1, <2>2, <2>3 DEF Edge, SentTo, ClosedThere, LastOf, Connected
  <2>5. chain \in Seq(Audio) /\ Edge \in Nat
    BY EndsAreNat DEF BaseInv, Types
  <2>6. Joined /\ Closing
    BY <1>2 DEF Stream
  <2>7. p.from = Edge /\ Joins(Tail(chain), p.to) /\ End(Tail(chain), p.to) = End(chain, Edge)
    BY <2>1, <2>4, <2>5, <2>6, JoinsTail DEF Joined
  <2> HIDE DEF p
  <2>8. End(chain, SentTo)' = End(chain, SentTo)
    BY <2>1, <2>4, <2>7 DEF End, LastOf
  <2>9. Joined'
    <3>1. \A x \in inflight' : x.audio.from = Edge'
      BY <2>1, <2>2, <2>4, <2>7
    <3>2. Joins(chain, SentTo)'
      BY <2>1, <2>4, <2>7 DEF Joins
    <3>3. Connected => Joins(port, End(chain, SentTo))'
                       /\ End(port, End(chain, SentTo))' = heard' - buf'
      BY <2>1, <2>6, <2>8 DEF Joined, Joins, End, LastOf
    <3> QED BY <2>4, <3>1, <3>2, <3>3 DEF Joined
  <2>10. Closing'
    <3>1. /\ p = chain[1] /\ Len(chain) \in Nat \ {0} /\ Len(chain') = Len(chain) - 1
          /\ \A i \in 1 .. Len(chain') : chain'[i] = chain[i + 1]
      BY <2>1, <2>5, TailFacts DEF p
    <3>2. ~ClosedThere
      BY <2>1, <2>6 DEF Closing
    <3>3. p.last => chain' = << >>
      <4>1. p.last => Len(chain') = 0
        BY <2>6, <3>1 DEF Closing
      <4>2. chain' \in Seq(Audio)
        BY <2>1, <2>5, TailFacts
      <4> QED BY <4>1, <4>2, EmptySeq
    <3>4. \A i \in 1 .. Len(chain') : chain'[i].last => i = Len(chain')
      BY <2>6, <3>1 DEF Closing
    <3>5. Connected => ~p.last /\ \A i \in 1 .. Len(chain') : ~chain'[i].last
      BY <2>6, <3>1 DEF Closing
    <3> QED BY <2>1, <2>2, <2>4, <3>2, <3>3, <3>4, <3>5 DEF Closing
  <2> QED BY <1>2, <2>1, <2>9, <2>10 DEF Stream, StreamIsPrefix
<1> QED BY <1>1, <1>2

(* Whatever reaches the server follows what is there.                      *)
LEMMA Reaches ==
    ASSUME BaseInv, Stream, NEW m \in inflight, got' = Append(got, m)
    PROVE  StreamIsPrefix'
<1>1. /\ ~abandoned /\ m \in Sent /\ got \in Seq(Sent) /\ m.audio.of = count
      /\ Joined /\ Closing /\ StreamIsPrefix
  BY DEF BaseInv, Types, Own, Stream
<1>2. /\ Len(got') = Len(got) + 1 /\ Len(got) \in Nat
      /\ got'[Len(got) + 1] = m
      /\ \A i \in 1 .. Len(got) : got'[i] = got[i]
  BY <1>1, AppendFacts, LenProperties
<1>3. m.audio.from = Edge
  BY <1>1 DEF Joined
<1>4. Len(got) = 0 => m.audio.from = 0
  BY <1>1, <1>3, EmptySeq DEF Edge
<1>5. Len(got) # 0 => Follows(m.audio, got[Len(got)].audio)
  <2> SUFFICES ASSUME Len(got) # 0 PROVE Follows(m.audio, got[Len(got)].audio)
    OBVIOUS
  <2>1. got # << >> /\ Len(got) \in 1 .. Len(got)
    BY <1>2
  <2>2. /\ got[Len(got)].audio.of \in Nat /\ got[Len(got)].audio.of <= count
        /\ count \in Nat
    BY <2>1, GotFacts DEF BaseInv, Own, Types
  <2>3. ~ClosedThere
    BY <1>1 DEF Closing
  <2>4. CASE got[Len(got)].audio.of = count
    BY <1>1, <1>3, <2>1, <2>3, <2>4 DEF Follows, Edge, ClosedThere, LastOf
  <2>5. CASE got[Len(got)].audio.of # count
    BY <1>1, <1>3, <2>1, <2>2, <2>5 DEF Follows, Edge, LastOf
  <2> QED BY <2>4, <2>5
<1> SUFFICES ASSUME NEW i \in 1 .. Len(got')
             PROVE  IF i = 1 THEN got'[i].audio.from = 0
                             ELSE Follows(got'[i].audio, got'[i - 1].audio)
  BY DEF StreamIsPrefix, Follows
<1>6. CASE i \in 1 .. Len(got)
  <2>1. i # 1 => i - 1 \in 1 .. Len(got)
    BY <1>2, <1>6
  <2> QED BY <1>1, <1>2, <1>6, <2>1 DEF StreamIsPrefix
<1>7. CASE i = Len(got) + 1
  <2>1. i # 1 => i - 1 = Len(got) /\ Len(got) \in 1 .. Len(got) /\ Len(got) # 0
    BY <1>2, <1>7
  <2>2. i = 1 => Len(got) = 0
    BY <1>2, <1>7
  <2> QED BY <1>2, <1>4, <1>5, <1>7, <2>1, <2>2
<1> QED BY <1>2, <1>6, <1>7

(* The server has the request, and the chain goes on from there.           *)
LEMMA StreamAnswered ==
    ASSUME BaseInv, Stream, NEW m \in inflight, Answered(m)
    PROVE  Stream'
<1>1. /\ inflight = {m} /\ inflight' = {} /\ SentTo = m.audio.to
      /\ got' = Append(got, m)
      /\ UNCHANGED <<ui, count, buf, heard, port, chain, abandoned>>
  BY SentToOf DEF Answered, captureVars
<1>2. ~abandoned /\ Joined /\ Closing /\ got \in Seq(Sent) /\ m \in Sent /\ m.audio.of = count
  BY DEF Stream, BaseInv, Types, Own
<1>3. got' # << >> /\ got'[Len(got')] = m
  BY <1>1, <1>2, AppendFacts
<1>4. /\ Edge' = m.audio.to /\ SentTo' = SentTo
      /\ ClosedThere' <=> m.audio.last
      /\ Connected' <=> Connected
  BY <1>1, <1>2, <1>3 DEF Edge, SentTo, ClosedThere, LastOf, Connected
<1>5. Joined'
  BY <1>1, <1>2, <1>4 DEF Joined, Joins, End, LastOf
<1>6. Closing'
  BY <1>1, <1>2, <1>4 DEF Closing
<1>7. StreamIsPrefix'
  BY <1>1, Reaches
<1> QED BY <1>1, <1>2, <1>5, <1>6, <1>7 DEF Stream

(* After a failure nothing more is sent.                                   *)
LEMMA StreamFails ==
    ASSUME SendRejects, BaseInv, Stream, NEW m \in inflight,
           NEW reached \in BOOLEAN, SendFails(m, reached)
    PROVE  Stream'
<1>1. inflight' = {} /\ abandoned' /\ (got' = got \/ got' = Append(got, m))
  BY SentToOf DEF SendFails, Abandons
<1>2. StreamIsPrefix'
  BY <1>1, Reaches DEF Stream, StreamIsPrefix
<1> QED BY <1>1, <1>2 DEF Stream

(* Every step keeps the stream whole, if the module is told of failures.   *)
LEMMA StreamStep == SendRejects /\ BaseInv /\ Stream /\ [Next]_vars => Stream'
  BY StreamUi, StreamRecord, StreamWorklet, StreamMessage, StreamTimer, StreamBegin,
     StreamAnswered, StreamFails DEF Next, Send, Stop, UiStep

(* What a session receives is the beginning of what was said, if the send  *)
(* that the module was given tells its failures.                           *)
THEOREM StreamIsPrefixHolds ==
    ASSUME SendRejects PROVE Spec => []StreamIsPrefix
<1>1. BaseInv /\ Stream /\ [Next]_vars => Stream'
  BY StreamStep
<1>2. Stream => StreamIsPrefix
  BY DEF Stream
<1> QED BY <1>1, <1>2, Base, StreamInit, PTL DEF Spec

-----------------------------------------------------------------------------
(* The tail                                                                *)

(* No stop() is under way at the start.                                    *)
LEMMA TailsInit == Init => Tails
  BY DEF Init, Tails

(* The click on Stop is what the tail is measured by.                      *)
LEMMA TailsUi ==
    ASSUME BaseInv, Tails, UiStep
    PROVE  Tails'
<1> USE DEF captureVars, sendVars, stopVars
<1>1. UNCHANGED <<count, buf, heard, port, chain, inflight, got, abandoned>>
  BY UiKeeps
<1>2. CASE UNCHANGED <<ui, session, flush, spoken, timedOut>>
  BY <1>1, <1>2 DEF Tails, TailSent, IsTail, LastOf
<1>3. CASE ClickStop
  <2>1. ui' = "flushing" /\ spoken' = heard /\ heard \in Nat /\ ui = "recording"
    BY <1>3 DEF ClickStop, BaseInv, Types
  <2> QED BY <1>1, <2>1 DEF Tails
<1>4. CASE Closed
  <2>1. /\ ui = "closing" /\ ui' = "draining"
        /\ UNCHANGED <<session, spoken, timedOut>>
    BY <1>4 DEF Closed
  <2> QED BY <1>1, <2>1 DEF Tails, TailSent, IsTail, LastOf
<1>5. CASE ui' \in {"idle", "opening", "resuming"}
  BY <1>5 DEF Tails
<1>6. CASE ui' = "recording" /\ flush' = flush /\ ui \in {"opening", "resuming"}
  <2>1. ~flush /\ port = << >> /\ Len(<< >>) = 0
    BY <1>6 DEF BaseInv, Phases, Connected
  <2> QED BY <1>1, <1>6, <2>1 DEF Tails
<1>7. CASE Hover \/ Compiled \/ CompileFails
  BY <1>2, <1>5, <1>7 DEF Hover, Compiled, CompileFails
<1>8. CASE Warmed \/ MicOpened \/ MicDenied
  BY <1>5, <1>6, <1>8 DEF Warmed, MicOpened, MicDenied
<1>9. CASE \E ok \in BOOLEAN : Resumed(ok)
  BY <1>5, <1>6, <1>9 DEF Resumed
<1>10. CASE (\E answer \in {"on", "denied"} : Permission(answer)) \/ UNCHANGED vars
  BY <1>2, <1>10 DEF Permission, vars
<1>11. CASE StopReturns
  BY <1>5, <1>11 DEF StopReturns
<1> QED BY <1>3, <1>4, <1>7, <1>8, <1>9, <1>10, <1>11 DEF UiStep

(* What the worklet adds is a tail only after the click on Stop, and then  *)
(* it goes as far as that.                                                 *)
LEMMA TailsWorklet ==
    ASSUME BaseInv, Tails, Capture \/ Flush
    PROVE  Tails'
<1>1. /\ Connected /\ ui' = ui /\ spoken' = spoken
  BY DEF Capture, Flush, stopVars
<1>2. /\ port \in Seq(Audio) /\ heard \in 0 .. MaxHeard /\ spoken \in Nat
  BY DEF BaseInv, Types
<1>3. CASE Capture
  <2>1. /\ heard' = heard + 1 /\ heard + 1 \in 0 .. MaxHeard /\ flush' = flush
        /\ \/ UNCHANGED port
           \/ port' = Append(port, Piece(count, heard - buf, heard + 1, FALSE))
    BY <1>3, CaptureFacts DEF Capture
  <2>2. CASE UNCHANGED port
    BY <1>1, <1>2, <2>1, <2>2 DEF Tails, Connected
  <2>3. CASE port' = Append(port, Piece(count, heard - buf, heard + 1, FALSE))
    <3> DEFINE p == Piece(count, heard - buf, heard + 1, FALSE)
    <3>1. p \in Audio /\ ~p.last
      BY <1>1, <2>1, PieceFacts
    <3> HIDE DEF p
    <3>2. port' = Append(port, p)
      BY <2>3 DEF p
    <3>3. \A i \in 1 .. Len(port') : (i \in 1 .. Len(port) /\ port'[i] = port[i]) \/ ~port'[i].last
      BY <1>2, <3>1, <3>2, AppendFacts, LenProperties
    <3> QED BY <1>1, <1>2, <2>1, <3>3 DEF Tails, Connected
  <2> QED BY <2>1, <2>2, <2>3
<1>4. CASE Flush
  <2>1. /\ port' = Append(port, Piece(count, heard - buf, heard, TRUE))
        /\ heard' = heard /\ flush
    BY <1>4 DEF Flush
  <2>2. ui = "flushing"
    BY <1>1, <2>1 DEF Tails, Connected
  <2> DEFINE p == Piece(count, heard - buf, heard, TRUE)
  <2>3. p \in Audio /\ p.to = heard
    BY <1>1, <1>2, PieceFacts
  <2> HIDE DEF p
  <2>4. port' = Append(port, p)
    BY <2>1 DEF p
  <2>5. \A i \in 1 .. Len(port') : (i \in 1 .. Len(port) /\ port'[i] = port[i]) \/ port'[i] = p
    BY <1>2, <2>3, <2>4, AppendFacts, LenProperties
  <2> QED BY <1>1, <1>2, <2>1, <2>2, <2>3, <2>5 DEF Tails
<1> QED BY <1>3, <1>4

(* The tail that stop() waits for becomes the end of the chain.            *)
LEMMA TailsMessage ==
    ASSUME BaseInv, Tails, Message
    PROVE  Tails'
<1> DEFINE p == Head(port)
<1>1. /\ Connected /\ port # << >> /\ p = port[1] /\ p \in Audio
      /\ chain' = Append(chain, p)
      /\ p.last => /\ ui' = "closing" /\ port' = << >>
      /\ ~p.last => /\ ui' = ui /\ port' = Tail(port)
      /\ UNCHANGED <<heard, flush, spoken>>
  BY MessageFacts
<1>2. /\ chain \in Seq(Audio) /\ port \in Seq(Audio)
  BY DEF BaseInv, Types
<1>3. 1 \in 1 .. Len(port) /\ \A i \in 1 .. Len(Tail(port)) :
            i + 1 \in 1 .. Len(port) /\ Tail(port)[i] = port[i + 1]
  BY <1>1, <1>2, TailFacts
<1> HIDE DEF p
<1>4. CASE p.last
  <2>1. ui = "flushing" /\ p.to >= spoken
    BY <1>1, <1>3, <1>4 DEF Tails, Connected
  <2>2. chain' # << >> /\ chain'[Len(chain')] = p
    BY <1>1, <1>2, AppendFacts
  <2>3. TailSent'
    BY <1>1, <1>4, <2>1, <2>2 DEF TailSent, IsTail, LastOf
  <2> QED BY <1>1, <1>4, <2>3 DEF Tails
<1>5. CASE ~p.last
  BY <1>1, <1>3, <1>5 DEF Tails, Connected
<1> QED BY <1>4, <1>5

(* The tail moves from the chain into the request.                         *)
LEMMA TailsBegin ==
    ASSUME BaseInv, Tails, BeginSend
    PROVE  Tails'
<1>1. /\ chain # << >> /\ inflight = {} /\ chain' = Tail(chain)
      /\ ~abandoned => inflight' = {[session |-> session, audio |-> Head(chain)]}
      /\ UNCHANGED <<ui, session, heard, flush, port, abandoned, got, spoken, timedOut>>
  BY BeginFacts
<1>2. ASSUME TailSent, ~abandoned PROVE TailSent'
  <2>1. chain \in Seq(Audio) /\ chain' \in Seq(Audio)
    BY <1>1, TailFacts DEF BaseInv, Types
  <2>2. /\ Len(chain) \in Nat \ {0} /\ Len(chain') = Len(chain) - 1
        /\ Head(chain) = chain[1]
        /\ \A i \in 1 .. Len(chain') : chain'[i] = chain[i + 1]
    BY <1>1, <2>1, TailFacts
  <2>3. IsTail(chain[Len(chain)])
    BY <1>1, <1>2 DEF TailSent, LastOf
  <2>4. CASE chain' = << >>
    <3>1. Len(chain') = 0
      BY <2>4
    <3>2. Len(chain) = 1
      BY <2>2, <3>1
    <3>3. Head(chain) = chain[Len(chain)]
      BY <2>2, <3>2
    <3>4. \A m \in inflight' : m.audio = chain[Len(chain)]
      BY <1>1, <1>2, <3>3
    <3>5. inflight' # {}
      BY <1>1, <1>2
    <3> QED BY <1>1, <2>3, <2>4, <3>4, <3>5 DEF TailSent, IsTail
  <2>5. CASE chain' # << >>
    <3>1. Len(chain') \in 1 .. Len(chain')
      BY <2>1, <2>5, EmptySeq
    <3>2. chain'[Len(chain')] = chain[Len(chain)]
      BY <2>2, <3>1
    <3> QED BY <1>1, <2>3, <2>5, <3>2 DEF TailSent, IsTail, LastOf
  <2> QED BY <2>4, <2>5
<1> QED BY <1>1, <1>2 DEF Tails

(* The tail moves from the request to the server.                          *)
LEMMA TailsAnswered ==
    ASSUME BaseInv, Tails, NEW m \in inflight, Answered(m)
    PROVE  Tails'
<1>1. /\ inflight = {m} /\ inflight' = {} /\ got' = Append(got, m)
      /\ UNCHANGED <<ui, session, heard, flush, port, chain, abandoned, spoken, timedOut>>
  BY SentToOf DEF Answered, captureVars, stopVars
<1>2. /\ got \in Seq(Sent) /\ m \in Sent /\ m.session = count
      /\ ui # "idle" => session = count
  BY DEF BaseInv, Types, Own, Phases
<1>3. got' # << >> /\ got'[Len(got')] = m
  BY <1>1, <1>2, AppendFacts
<1>4. ASSUME TailSent, ui # "idle" PROVE TailSent'
  BY <1>1, <1>2, <1>3, <1>4 DEF TailSent, IsTail, LastOf
<1> QED BY <1>1, <1>4 DEF Tails

(* A failure gives the dictation up, and the timer gives up the tail:      *)
(* nothing is promised then.                                               *)
LEMMA TailsGivenUp ==
    ASSUME SendRejects, BaseInv, Tails,
           \/ TimerFires \/ ClickRecord
           \/ \E m \in inflight, reached \in BOOLEAN : SendFails(m, reached)
    PROVE  Tails'
<1>1. CASE TimerFires
  BY <1>1 DEF TimerFires, TearDown, Tails
<1>2. CASE ClickRecord
  BY <1>2 DEF ClickRecord, Tails
<1>3. ASSUME NEW m \in inflight, NEW reached \in BOOLEAN, SendFails(m, reached)
      PROVE  Tails'
  <2>1. abandoned' /\ UNCHANGED <<ui, heard, flush, port, spoken>>
    BY <1>3 DEF SendFails, Abandons, captureVars, stopVars
  <2> QED BY <2>1 DEF Tails
<1> QED BY <1>1, <1>2, <1>3

(* Every step keeps the tail where stop() can rely on it.                  *)
LEMMA TailsStep == SendRejects /\ BaseInv /\ Tails /\ [Next]_vars => Tails'
  BY TailsUi, TailsWorklet, TailsMessage, TailsBegin, TailsAnswered, TailsGivenUp
     DEF Next, Send, Stop, UiStep

(* When stop() returns with nothing given up, the server has the tail, and *)
(* the tail covers all that was said before the click.                     *)
THEOREM StopDeliversHolds ==
    ASSUME SendRejects PROVE Spec => StopDelivers
<1> DEFINE Delivered ==
      (ui = "draining" /\ ui' = "idle" /\ ~abandoned /\ ~timedOut) =>
        /\ got # << >> /\ Last(got).session = session
        /\ Last(got).audio.last /\ Last(got).audio.to >= spoken
<1>1. BaseInv /\ Tails /\ [Next]_vars => Tails'
  BY TailsStep
<1>2. BaseInv /\ Tails /\ [Next]_vars => [Delivered]_vars
  <2> SUFFICES ASSUME Tails, Next, ui = "draining", ui' = "idle", ~abandoned, ~timedOut
               PROVE  /\ got # << >> /\ Last(got).session = session
                      /\ Last(got).audio.last /\ Last(got).audio.to >= spoken
    OBVIOUS
  <2>1. TailSent
    BY DEF Tails
  <2>2. StopReturns
    <3>1. ~(Hover \/ Compiled \/ CompileFails \/ ClickRecord \/ Warmed \/ MicOpened \/ MicDenied)
      BY DEF Hover, Compiled, CompileFails, ClickRecord, Clickable, Warmed, MicOpened, MicDenied
    <3>2. ~(Capture \/ Flush \/ Message \/ ClickStop \/ TimerFires \/ Closed)
      BY DEF Capture, Flush, Message, Connected, ClickStop, TimerFires, GivesUp, Closed
    <3>3. ~(\E answer \in {"on", "denied"} : Permission(answer))
      BY DEF Permission
    <3>4. ~(\E ok \in BOOLEAN : Resumed(ok))
      BY DEF Resumed
    <3>5. ~Send
      BY DEF Send, BeginSend, Answered, SendFails
    <3> QED BY <3>1, <3>2, <3>3, <3>4, <3>5 DEF Next, Stop
  <2>3. chain = << >> /\ inflight = {}
    BY <2>2 DEF StopReturns, Drained
  <2> QED BY <2>1, <2>3 DEF TailSent, IsTail, LastOf, Last
<1> QED BY <1>1, <1>2, Base, TailsInit, PTL DEF Spec, StopDelivers
=============================================================================
