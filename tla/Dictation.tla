------------------------------ MODULE Dictation ------------------------------
(***************************************************************************)
(* The browser's side of a dictation: the capture module stt-capture.js    *)
(* and the page that uses it.                                              *)
(*                                                                         *)
(* Three threads of control meet: the user at the button, the worklet that *)
(* cuts the microphone into chunks on the audio thread, and the main       *)
(* thread, which queues one send after the other on a promise chain.  What *)
(* the main thread runs between two awaits is one action.                  *)
(*                                                                         *)
(* Samples of a dictation are numbered; a piece of audio is the interval   *)
(* from .. to - 1.  The server is what its sends have reached, in order.   *)
(***************************************************************************)
EXTENDS Naturals, SequencesExt, FiniteSets

CONSTANTS
    CHUNK_SAMPLES,
    SendRejects,    \* TRUE: send tells its failures, as the module asks of it;
                    \* FALSE: it is the page's doSend, which logs them
    MaxHeard,       \* bound: samples in a dictation
    MaxDictations   \* bound: dictations on one page

ASSUME DictationAssumption ==
    /\ CHUNK_SAMPLES \in Nat \ {0}
    /\ SendRejects \in BOOLEAN
    /\ MaxHeard \in Nat /\ MaxDictations \in Nat

VARIABLES
    ui,             \* what start() or stop() awaits, or "idle" or "recording"
    session,        \* state.session, 0 for null
    count,          \* dictations begun; it makes session ids
    warm,           \* the context that prewarm() is building or has built
    ctx, device,    \* the dictation's context and microphone
    buf, heard,     \* the worklet: samples in its buffer, and in all
    flush,          \* a "flush" is on its way to the worklet
    port,           \* messages from the worklet
    chain, inflight, abandoned,
    got,            \* history: what has reached the server
    spoken,         \* history: samples heard when the user clicked Stop
    timedOut        \* history: stop() gave up waiting for the tail

captureVars == <<ctx, device, buf, heard, flush, port>>
sendVars == <<chain, inflight, abandoned, got>>
stopVars == <<spoken, timedOut>>
vars == <<ui, session, count, warm, captureVars, sendVars, stopVars>>

Contexts == {"none", "suspended", "running"}

Piece(k, from, to, last) == [of |-> k, from |-> from, to |-> to, last |-> last]

Init ==
    /\ ui = "idle" /\ session = 0 /\ count = 0
    /\ warm = "none" /\ ctx = "none" /\ device = "off"
    /\ buf = 0 /\ heard = 0 /\ flush = FALSE /\ port = << >>
    /\ chain = << >> /\ inflight = {} /\ abandoned = FALSE
    /\ got = << >> /\ spoken = 0 /\ timedOut = FALSE

-----------------------------------------------------------------------------
(* prewarm(): memoised, and forgotten when it fails.  The browser suspends *)
(* a context that was not built in a click.                                *)

Prewarmed(inClick) ==
    IF warm # "none" THEN warm
    ELSE IF inClick THEN "building_running" ELSE "building_suspended"

Hover ==
    /\ warm = "none"
    /\ warm' = Prewarmed(FALSE)
    /\ UNCHANGED <<ui, session, count, captureVars, sendVars, stopVars>>

Compiled ==
    /\ warm \in {"building_suspended", "building_running"}
    /\ warm' = IF warm = "building_running" THEN "running" ELSE "suspended"
    /\ UNCHANGED <<ui, session, count, captureVars, sendVars, stopVars>>

(* The page's handler logs what start() throws and leaves the button as it *)
(* was.  A microphone that was asked for stays asked for, and may yet open *)
(* with nobody to close it; the model forgets it at the next click.        *)
CompileFails ==
    /\ warm \in {"building_suspended", "building_running"}
    /\ warm' = "none"
    /\ ui' = IF ui = "warming" THEN "idle" ELSE ui
    /\ UNCHANGED <<session, count, captureVars, sendVars, stopVars>>

-----------------------------------------------------------------------------
(* start(), from the click to the connected graph.                         *)

(* state.busy: the button is dead until start() or stop() is done.         *)
ClickableWhileStopping == ui \in {"idle", "draining"}
Clickable == ui = "idle"

ClickRecord ==
    /\ Clickable
    /\ count < MaxDictations
    /\ count' = count + 1
    /\ session' = count + 1
    /\ ui' = "warming"
    /\ warm' = Prewarmed(TRUE)
    /\ device' = "asked"
    /\ ctx' = "none" /\ buf' = 0 /\ heard' = 0 /\ flush' = FALSE /\ port' = << >>
    /\ abandoned' = FALSE
    /\ spoken' = 0 /\ timedOut' = FALSE
    /\ UNCHANGED <<chain, inflight, got>>

(* The user answers the browser's question, or has done so before.         *)
Permission(answer) ==
    /\ device = "asked"
    /\ device' = answer
    /\ UNCHANGED <<ui, session, count, warm, ctx, buf, heard, flush, port,
                   sendVars, stopVars>>

Warmed ==
    /\ ui = "warming"
    /\ warm \in {"suspended", "running"}
    /\ ctx' = warm
    /\ warm' = "none"
    /\ ui' = "opening"
    /\ UNCHANGED <<session, count, device, buf, heard, flush, port,
                   sendVars, stopVars>>

MustResume(c) == c = "suspended"

MicOpened ==
    /\ ui = "opening"
    /\ device = "on"
    /\ ui' = IF MustResume(ctx) THEN "resuming" ELSE "recording"
    /\ UNCHANGED <<session, count, warm, captureVars, sendVars, stopVars>>

MicDenied ==
    /\ ui = "opening"
    /\ device = "denied"
    /\ ui' = "idle"
    /\ UNCHANGED <<session, count, warm, captureVars, sendVars, stopVars>>

Resumed(ok) ==
    /\ ui = "resuming"
    /\ ui' = IF ok THEN "recording" ELSE "idle"
    /\ ctx' = IF ok THEN "running" ELSE ctx
    /\ UNCHANGED <<session, count, warm, device, buf, heard, flush, port,
                   sendVars, stopVars>>

-----------------------------------------------------------------------------
(* The worklet.  It runs while its node is connected, until stop() has     *)
(* disconnected it, the time between tail and disconnect included.         *)

Connected == ui \in {"recording", "flushing"}

Capture ==
    /\ Connected
    /\ ctx = "running"
    /\ heard < MaxHeard
    /\ heard' = heard + 1
    /\ IF buf + 1 = CHUNK_SAMPLES
       THEN /\ port' = Append(port, Piece(count, heard - buf, heard + 1, FALSE))
            /\ buf' = 0
       ELSE /\ buf' = buf + 1
            /\ UNCHANGED port
    /\ UNCHANGED <<ui, session, count, warm, ctx, device, flush,
                   sendVars, stopVars>>

(* An empty tail is sent all the same: it is what closes the session.      *)
Flush ==
    /\ Connected
    /\ flush
    /\ port' = Append(port, Piece(count, heard - buf, heard, TRUE))
    /\ buf' = 0
    /\ flush' = FALSE
    /\ UNCHANGED <<ui, session, count, warm, ctx, device, heard,
                   sendVars, stopVars>>

-----------------------------------------------------------------------------
(* stop(): the tail, the graph, the context, the chain.                    *)

ClickStop ==
    /\ ui = "recording"
    /\ ui' = "flushing"
    /\ flush' = TRUE
    /\ spoken' = heard
    /\ UNCHANGED <<session, count, warm, ctx, device, buf, heard, port,
                   sendVars, timedOut>>

(* What follows the wait for the tail up to the await of ctx.close(): from *)
(* here on nobody listens to the port.                                     *)
TearDown ==
    /\ ui' = "closing"
    /\ port' = << >>
    /\ device' = "off"

(* A message from the worklet.  The tail resolves the wait of stop(),      *)
(* which resumes before the next message is looked at.                     *)
Message ==
    /\ Connected
    /\ port # << >>
    /\ chain' = Append(chain, Head(port))
    /\ IF Head(port).last THEN TearDown
       ELSE port' = Tail(port) /\ UNCHANGED <<ui, device>>
    /\ UNCHANGED <<session, count, warm, ctx, buf, heard, flush,
                   inflight, abandoned, got, stopVars>>

(* The one-second timer of stop(): a worklet that does not answer, or a    *)
(* main thread that was busy for so long.                                  *)
WaitsForTail == FALSE
GivesUp == ui = "flushing"

TimerFires ==
    /\ GivesUp
    /\ TearDown
    /\ timedOut' = TRUE
    /\ UNCHANGED <<session, count, warm, ctx, buf, heard, flush,
                   sendVars, spoken>>

Closed ==
    /\ ui = "closing"
    /\ ctx' = "none"
    /\ ui' = "draining"
    /\ UNCHANGED <<session, count, warm, device, buf, heard, flush, port,
                   sendVars, stopVars>>

Undrained == TRUE
Drained == chain = << >> /\ inflight = {}

StopReturns ==
    /\ ui = "draining"
    /\ Drained
    /\ ui' = "idle"
    /\ session' = 0
    /\ UNCHANGED <<count, warm, captureVars, sendVars, stopVars>>

-----------------------------------------------------------------------------
(* The promise chain.  The session id is read when a send begins.          *)

AtOnce == TRUE
OneAtATime == inflight = {}

BeginSend ==
    /\ chain # << >>
    /\ OneAtATime
    /\ chain' = Tail(chain)
    /\ inflight' = IF abandoned THEN inflight
                   ELSE inflight \cup {[session |-> session, audio |-> Head(chain)]}
    /\ UNCHANGED <<ui, session, count, warm, captureVars, abandoned, got, stopVars>>

Answered(m) ==
    /\ inflight' = inflight \ {m}
    /\ got' = Append(got, m)
    /\ UNCHANGED <<ui, session, count, warm, captureVars, chain, abandoned, stopVars>>

(* A refusal, a broken connection on the way there, or on the way back.    *)
CarriesOn == abandoned
Abandons == abandoned \/ SendRejects

SendFails(m, reached) ==
    /\ inflight' = inflight \ {m}
    /\ got' = IF reached THEN Append(got, m) ELSE got
    /\ abandoned' = Abandons
    /\ UNCHANGED <<ui, session, count, warm, captureVars, chain, stopVars>>

-----------------------------------------------------------------------------

Send ==
    \/ BeginSend
    \/ \E m \in inflight : Answered(m) \/ \E reached \in BOOLEAN : SendFails(m, reached)

Stop == TimerFires \/ Closed \/ StopReturns

Next ==
    \/ Hover \/ Compiled \/ CompileFails
    \/ ClickRecord \/ (\E answer \in {"on", "denied"} : Permission(answer))
    \/ Warmed \/ MicOpened \/ MicDenied \/ (\E ok \in BOOLEAN : Resumed(ok))
    \/ Capture \/ Flush \/ Message \/ ClickStop
    \/ Stop \/ Send

Spec == Init /\ [][Next]_vars

(* The main thread runs what is due, and the browser settles every request *)
(* and every close it was asked for.  Neither the user nor the worklet is  *)
(* bound to do anything.                                                   *)
FairSpec == Spec /\ WF_vars(Message) /\ WF_vars(Stop) /\ WF_vars(Send)

-----------------------------------------------------------------------------

Audio == [of : 1 .. MaxDictations, from : 0 .. MaxHeard, to : 0 .. MaxHeard, last : BOOLEAN]

TypeOK ==
    /\ ui \in {"idle", "warming", "opening", "resuming", "recording",
               "flushing", "closing", "draining"}
    /\ session \in 0 .. MaxDictations /\ count \in 0 .. MaxDictations
    /\ warm \in Contexts \cup {"building_suspended", "building_running"}
    /\ ctx \in Contexts
    /\ device \in {"off", "asked", "on", "denied"}
    /\ buf \in 0 .. CHUNK_SAMPLES - 1 /\ heard \in buf .. MaxHeard
    /\ port \in Seq(Audio) /\ chain \in Seq(Audio)
    /\ inflight \subseteq [session : 0 .. MaxDictations, audio : Audio]
    /\ Cardinality(inflight) <= 1

(* A piece after the one before it: the first of a later dictation, or     *)
(* where that one ended, if it did not close its session.                  *)
Follows(piece, before) ==
    \/ piece.of > before.of /\ piece.from = 0
    \/ piece.of = before.of /\ piece.from = before.to /\ ~before.last

(* stt-capture.js: "a reordered or dropped chunk corrupts everything after *)
(* it".  What a session receives is the beginning of what was said, piece  *)
(* after piece, nothing comes after the piece that closes it, and nothing  *)
(* of one dictation after the next has begun.                              *)
StreamIsPrefix ==
    \A i \in 1 .. Len(got) :
        IF i = 1 THEN got[i].audio.from = 0
                 ELSE Follows(got[i].audio, got[i - 1].audio)

(* Audio goes to the session it was recorded for, although the id is only  *)
(* read when its turn in the chain has come.                               *)
OwnSession == \A i \in 1 .. Len(got) : got[i].session = got[i].audio.of

(* stop() "Flush the tail, close the session, and wait for the last send   *)
(* to land": unless a send failed or the worklet did not answer in time,   *)
(* the server has by then been told of the end, after all audio up to the  *)
(* click on Stop.                                                          *)
StopDelivers ==
    [][(ui = "draining" /\ ui' = "idle" /\ ~abandoned /\ ~timedOut) =>
        /\ got # << >> /\ Last(got).session = session
        /\ Last(got).audio.last /\ Last(got).audio.to >= spoken]_vars

(* stop() is bounded: the button comes back although the worklet may never *)
(* answer and sends may fail.                                              *)
StopEnds == ui = "flushing" ~> ui = "idle"
=============================================================================
