------------------------------ MODULE SttService ------------------------------
(***************************************************************************)
(* The streaming half of the speech-to-text service: the session table of  *)
(* SttService and the handler of one Recognize call with a session_id.     *)
(*                                                                         *)
(* Every call is a future that runs on its own.  It gives up control only  *)
(* at its await points: while a model is being loaded and while a blocking *)
(* task decodes.  Between two of them it takes the std mutex around the    *)
(* session table, so each stretch from one await to the next is one        *)
(* action here.  At an await point the client may hang up; the transport   *)
(* then drops the future (Cancel), but a blocking task that was already    *)
(* spawned runs to its end all the same.                                   *)
(*                                                                         *)
(* Time is an age per session.  The code only ever tests whether a session *)
(* was used less than SESSION_IDLE ago, so ages stop counting at           *)
(* IdleLimit without losing a behaviour.                                   *)
(***************************************************************************)
EXTENDS Naturals, FiniteSets

CONSTANTS
    Ids,            \* session ids that clients use
    Reqs,           \* calls that may be in flight at the same time
    Recs,           \* identities for recognizers
    NoId, NoRec,    \* no session id, no recognizer
    Languages,      \* languages that callers name, by what the code does with them
    MaxSessions,    \* STT_MAX_SESSIONS
    IdleLimit       \* SESSION_IDLE, in ticks

ASSUME ServiceAssumption ==
    /\ IsFiniteSet(Ids)
    /\ NoId \notin Ids
    /\ NoRec \notin Recs
    /\ MaxSessions \in Nat
    /\ IdleLimit \in Nat \ {0}
    /\ Languages \subseteq {"fa", "known", "unknown"}

VARIABLES
    sess,           \* the session table
    recs,           \* the recognizers that something still refers to
    req,            \* the calls
    loaded          \* the models that have been loaded and are kept

vars == <<sess, recs, req, loaded>>

-----------------------------------------------------------------------------

Engines == {"nemotron", "persian"}

(* Which engine a language belongs to. *)
EngineFor(lang) == IF lang = "fa" THEN "persian" ELSE "nemotron"

NoSession == [rec |-> NoRec, engine |-> "none", age |-> 0]

Session == [rec : Recs, engine : Engines, age : 0 .. IdleLimit]

(* A recognizer that nobody refers to any more. *)
Dropped == [engine |-> "none", owner |-> NoId, finished |-> FALSE,
            lost |-> FALSE, closeFailed |-> FALSE]

(* finished and lost are the state of a Persian stream that decides what a *)
(* further push does.  owner and closeFailed are history: the session it   *)
(* was opened for, and whether a closing call on it failed or was dropped. *)
Recognizer ==
    [engine : Engines, owner : Ids, finished : BOOLEAN,
     lost : BOOLEAN, closeFailed : BOOLEAN]

Fresh(e, i) ==
    [engine |-> e, owner |-> i, finished |-> FALSE,
     lost |-> FALSE, closeFailed |-> FALSE]

(* What a caller sends: audio that is absent, whole samples or not. *)
Input == [id : Ids, lang : Languages, goodRate : BOOLEAN,
          audio : {"empty", "odd", "whole"}, last : BOOLEAN]

Replies == {"ok", "BadSampleRate", "EmptyAudio", "BadAudio", "ModelUnavailable",
            "EngineMismatch", "SessionCapReached", "UnknownLanguage", "Internal"}

(* pc: "load"     awaits loaded()                                          *)
(*     "decoding" awaits the blocking task that decodes                    *)
(*     "decoded"  the task is done, result says how; not yet resumed       *)
(*     "detached" the future was dropped, its task still runs              *)
(*     "replied"  answered with result                                     *)
Call == [pc : {"idle", "load", "decoding", "decoded", "detached", "replied"},
         id : Ids \cup {NoId}, lang : Languages \cup {"none"}, last : BOOLEAN,
         audio : BOOLEAN, rec : Recs \cup {NoRec},
         result : Replies \cup {"none"}]

Idle == [pc |-> "idle", id |-> NoId, lang |-> "none", last |-> FALSE,
         audio |-> FALSE, rec |-> NoRec, result |-> "none"]

Called(q) == [Idle EXCEPT !.id = q.id, !.lang = q.lang, !.last = q.last,
                          !.audio = q.audio # "empty"]

TypeOK ==
    /\ sess \in [Ids -> Session \cup {NoSession}]
    /\ recs \in [Recs -> Recognizer \cup {Dropped}]
    /\ req \in [Reqs -> Call]
    /\ loaded \subseteq Engines

-----------------------------------------------------------------------------

Opened == {i \in Ids : sess[i].rec # NoRec}

(* The sessions that the sweep keeps, SESSION_IDLE being exclusive.        *)
SweptEarly == {i \in Opened : sess[i].age + 1 < IdleLimit}
NeverSwept == Opened
Awake == {i \in Opened : sess[i].age < IdleLimit}

Swept == [i \in Ids |-> IF i \in Awake THEN sess[i] ELSE NoSession]

(* The cap counts what the sweep left.                                     *)
FullTooLate == Cardinality(Awake) > MaxSessions
FullUnswept == Cardinality(Opened) >= MaxSessions
Full == Cardinality(Awake) >= MaxSessions

(* The recognizers that a session or a call refers to.                     *)
Named(s, q) == {s[i].rec : i \in Ids} \cup {q[r].rec : r \in Reqs}

(* A recognizer is an Arc: it is gone with the last reference to it.       *)
Keep(f) ==
    recs' = [k \in Recs |-> IF k \in Named(sess', req') THEN f[k] ELSE Dropped]

Reply(r, result) ==
    req' = [req EXCEPT ![r].pc = "replied", ![r].lang = "none",
                       ![r].result = result]

Queue(r, k) ==
    req' = [req EXCEPT ![r].pc = "decoding", ![r].rec = k]

Init ==
    /\ sess = [i \in Ids |-> NoSession]
    /\ recs = [k \in Recs |-> Dropped]
    /\ req = [r \in Reqs |-> Idle]
    /\ loaded = {}

-----------------------------------------------------------------------------
(* A call arrives.  A slot whose call is over serves the next one.         *)

Free(r) == req[r].pc \in {"idle", "replied"}

(* The checks of validate, in its order. *)
Validate(q) ==
    CASE ~q.goodRate                    -> "BadSampleRate"
      [] q.audio = "empty" /\ ~q.last   -> "EmptyAudio"
      [] q.audio = "odd"                -> "BadAudio"
      [] OTHER                          -> "ok"

Accepted == {q \in Input : Validate(q) = "ok"}

Refuse(r) ==
    /\ Free(r)
    /\ \E why \in {Validate(q) : q \in Input} \ {"ok"} :
        req' = [req EXCEPT ![r] = [Idle EXCEPT !.pc = "replied", !.result = why]]
    /\ UNCHANGED <<sess, loaded>>
    /\ Keep(recs)

(* A close that carries no audio. *)
BareClose(q) == q.last /\ q.audio = "empty"

(* A bare close of a session that is not there has nothing to do.          *)
CloseUnknown(r) ==
    /\ Free(r)
    /\ \E q \in Accepted :
        /\ BareClose(q)
        /\ q.id \notin Opened
        /\ req' = [req EXCEPT ![r] = [Called(q) EXCEPT !.pc = "replied",
                                        !.lang = "none", !.result = "ok"]]
    /\ UNCHANGED <<sess, loaded>>
    /\ Keep(recs)

(* A bare close of a session that is there refreshes it and queues the     *)
(* flush on its recognizer, whatever engine that is.  No model is loaded   *)
(* and nothing is swept.                                                   *)
CloseFound(r) ==
    /\ Free(r)
    /\ \E q \in Accepted :
        /\ BareClose(q)
        /\ q.id \in Opened
        /\ sess' = [sess EXCEPT ![q.id].age = 0]
        /\ req' = [req EXCEPT ![r] = [Called(q) EXCEPT !.pc = "decoding",
                                        !.rec = sess[q.id].rec]]
    /\ Keep(recs)
    /\ UNCHANGED loaded

(* Anything else needs its model before it may look at the table.          *)
Chunk(r) ==
    /\ Free(r)
    /\ \E q \in Accepted :
        /\ ~BareClose(q)
        /\ req' = [req EXCEPT ![r] = [Called(q) EXCEPT !.pc = "load"]]
    /\ UNCHANGED <<sess, loaded>>
    /\ Keep(recs)

-----------------------------------------------------------------------------
(* The model: loaded on first use, kept for good.                          *)

Wanted(r) == EngineFor(req[r].lang)

LoadModel(r) ==
    /\ req[r].pc = "load"
    /\ Wanted(r) \notin loaded
    /\ loaded' = loaded \cup {Wanted(r)}
    /\ UNCHANGED <<sess, recs, req>>

(* The load failed (ModelUnavailable) or its task panicked (Internal).     *)
LoadFails(r) ==
    /\ req[r].pc = "load"
    /\ Wanted(r) \notin loaded
    /\ \E why \in {"ModelUnavailable", "Internal"} : Reply(r, why)
    /\ UNCHANGED <<sess, recs, loaded>>

-----------------------------------------------------------------------------
(* session(): sweep, then find or create.  The sweep is not undone when    *)
(* the call is refused.                                                    *)

Sweeping(r) == req[r].pc = "load" /\ Wanted(r) \in loaded

AnyEngine(r) == TRUE
SameEngine(r) == sess[req[r].id].engine = Wanted(r)

SwitchRefused(r) ==
    /\ Sweeping(r)
    /\ req[r].id \in Awake
    /\ ~SameEngine(r)
    /\ sess' = Swept
    /\ Reply(r, "EngineMismatch")
    /\ Keep(recs)
    /\ UNCHANGED loaded

ContinueSession(r) ==
    /\ Sweeping(r)
    /\ req[r].id \in Awake
    /\ SameEngine(r)
    /\ sess' = [Swept EXCEPT ![req[r].id].age = 0]
    /\ Queue(r, sess[req[r].id].rec)
    /\ Keep(recs)
    /\ UNCHANGED loaded

CapReached(r) ==
    /\ Sweeping(r)
    /\ req[r].id \notin Awake
    /\ Full
    /\ sess' = Swept
    /\ Reply(r, "SessionCapReached")
    /\ Keep(recs)
    /\ UNCHANGED loaded

(* Only a session about to be opened on the multilingual model has its     *)
(* language checked.                                                       *)
UnknownLanguage(r) ==
    /\ Sweeping(r)
    /\ req[r].id \notin Awake
    /\ ~Full
    /\ req[r].lang = "unknown"
    /\ sess' = Swept
    /\ Reply(r, "UnknownLanguage")
    /\ Keep(recs)
    /\ UNCHANGED loaded

OpenSession(r) ==
    /\ Sweeping(r)
    /\ req[r].id \notin Awake
    /\ ~Full
    /\ req[r].lang # "unknown"
    /\ \E k \in Recs \ Named(sess, req) :
        /\ sess' = [Swept EXCEPT ![req[r].id] =
                        [rec |-> k, engine |-> Wanted(r), age |-> 0]]
        /\ Queue(r, k)
        /\ Keep([recs EXCEPT ![k] = Fresh(Wanted(r), req[r].id)])
    /\ UNCHANGED loaded

-----------------------------------------------------------------------------
(* The blocking task.  It holds the recognizer's mutex for one push; what  *)
(* else happens meanwhile does not touch the recognizer, so one action is  *)
(* enough.  A panic poisons the mutex, which the next caller recovers: it  *)
(* is one more way to fail.                                                *)

(* A Persian stream marks itself finished before it decodes, and hands its *)
(* caches to the encoder before it knows whether the encoder succeeds.     *)
CanPush(k) == ~recs[k].finished /\ ~recs[k].lost

Pushed(k, last, losesCaches) ==
    IF recs[k].engine = "persian" /\ ~recs[k].finished
    THEN [recs[k] EXCEPT !.finished = last, !.lost = @ \/ losesCaches]
    ELSE recs[k]

TaskEnds(r, result) ==
    req' = IF req[r].pc = "detached"
           THEN [req EXCEPT ![r] = Idle]
           ELSE [req EXCEPT ![r].pc = "decoded", ![r].lang = "none",
                            ![r].result = result]

Decode(r) ==
    /\ req[r].pc \in {"decoding", "detached"}
    /\ UNCHANGED <<sess, loaded>>
    /\ LET k == req[r].rec IN
        \/ /\ CanPush(k)
           /\ TaskEnds(r, "ok")
           /\ Keep([recs EXCEPT ![k] = Pushed(k, req[r].last, FALSE)])
        \/ /\ TaskEnds(r, "Internal")
           /\ \E losesCaches \in BOOLEAN :
                Keep([recs EXCEPT ![k] = Pushed(k, req[r].last, losesCaches)])

-----------------------------------------------------------------------------
(* The handler resumes with the result of its task.                        *)

(* A close that succeeded removes the session under its id.                *)
ClosesOnAudio(r) == req[r].last /\ req[r].audio
Closes(r) == req[r].last

Answer(r) ==
    /\ req[r].pc = "decoded"
    /\ req[r].result = "ok"
    /\ sess' = IF Closes(r) THEN [sess EXCEPT ![req[r].id] = NoSession]
                             ELSE sess
    /\ Reply(r, "ok")
    /\ Keep(recs)
    /\ UNCHANGED loaded

NoteFailedClose(r) ==
    IF req[r].last THEN [recs EXCEPT ![req[r].rec].closeFailed = TRUE] ELSE recs

(* A failed decode returns before the table is touched.                    *)
AnswerFailed(r) ==
    /\ req[r].pc = "decoded"
    /\ req[r].result # "ok"
    /\ Reply(r, req[r].result)
    /\ UNCHANGED <<sess, loaded>>
    /\ Keep(NoteFailedClose(r))

(* The client hangs up and the future is dropped where it waits.           *)
Cancel(r) ==
    /\ UNCHANGED <<sess, loaded>>
    /\ \/ /\ req[r].pc = "load"
          /\ req' = [req EXCEPT ![r] = Idle]
          /\ Keep(recs)
       \/ /\ req[r].pc = "decoding"
          /\ req' = [req EXCEPT ![r].pc = "detached"]
          /\ Keep(NoteFailedClose(r))
       \/ /\ req[r].pc = "decoded"
          /\ req' = [req EXCEPT ![r] = Idle]
          /\ Keep(NoteFailedClose(r))

(* Time passes.  The sweep is not part of it: it runs only in session().   *)
OlderForEver(s) == IF s.rec = NoRec THEN s ELSE [s EXCEPT !.age = @ + 1]
Older(s) == IF s.rec = NoRec \/ s.age = IdleLimit THEN s
                                                  ELSE [s EXCEPT !.age = @ + 1]

Tick ==
    /\ sess' = [i \in Ids |-> Older(sess[i])]
    /\ sess' # sess
    /\ UNCHANGED <<recs, req, loaded>>

-----------------------------------------------------------------------------

Arrive(r) == Refuse(r) \/ CloseUnknown(r) \/ CloseFound(r) \/ Chunk(r)

LookupQueues(r) == SwitchRefused(r) \/ ContinueSession(r)
                   \/ UnknownLanguage(r) \/ OpenSession(r)
Lookup(r) == SwitchRefused(r) \/ ContinueSession(r) \/ CapReached(r)
             \/ UnknownLanguage(r) \/ OpenSession(r)

Resume(r) == Answer(r) \/ AnswerFailed(r)

Next ==
    \/ \E r \in Reqs : \/ Arrive(r) \/ LoadModel(r) \/ LoadFails(r)
                       \/ Lookup(r) \/ Decode(r) \/ Resume(r) \/ Cancel(r)
    \/ Tick

Spec == Init /\ [][Next]_vars

(* The runtime polls every future that can make progress, a load ends one  *)
(* way or the other, every blocking task is run, and time passes.  Clients *)
(* are free to call, to hang up, or not to.                                *)
Progress(r) == LoadModel(r) \/ LoadFails(r) \/ Lookup(r) \/ Decode(r) \/ Resume(r)

FairSpec == Spec /\ WF_vars(Tick) /\ \A r \in Reqs : WF_vars(Progress(r))

-----------------------------------------------------------------------------
(* Safety                                                                  *)

(* STT_MAX_SESSIONS is never exceeded, however calls, closes, cancellations *)
(* and sweeps interleave: the table is what bounds the recognizers on the   *)
(* one GPU.                                                                 *)
SessionCap == Cardinality(Opened) <= MaxSessions

(* Audio only ever reaches a recognizer that was opened for the session id  *)
(* the caller named, and on the engine of the language the caller named: a  *)
(* dictation is never decoded into someone else's, nor on the wrong model,  *)
(* even when its session was swept, closed or reopened while it waited.     *)
RightRecognizer ==
    \A r \in Reqs : req[r].pc \in {"decoding", "detached"} =>
        /\ recs[req[r].rec].owner = req[r].id
        /\ req[r].audio => recs[req[r].rec].engine = Wanted(r)

(* A call that closed its session and was told so closed it for good: no    *)
(* session of the table holds the flushed recognizer, so what is said next  *)
(* under the same id starts fresh.                                          *)
ClosedForGood ==
    \A r \in Reqs :
        req[r].pc = "replied" /\ req[r].result = "ok" /\ req[r].last
            /\ req[r].rec # NoRec
        => \A i \in Ids : sess[i].rec # req[r].rec

(* A session whose Persian stream already refuses audio ("already closed")  *)
(* is in the table only while its close is still being answered, or after a *)
(* close of it that failed or was cancelled.                                *)
FinishedSession ==
    \A i \in Opened : recs[sess[i].rec].finished =>
        \/ recs[sess[i].rec].closeFailed
        \/ \E r \in Reqs : /\ req[r].rec = sess[i].rec
                           /\ req[r].last
                           /\ req[r].pc = "decoded"

-----------------------------------------------------------------------------
(* What a step may never do                                                *)

(* A session leaves the table, or gives its place to a new one, only when   *)
(* it has been idle for SESSION_IDLE or a close of that id is being         *)
(* answered ok.  A refused, failed or cancelled call costs nobody a session.*)
SessionsKept ==
    [][\A i \in Opened : sess'[i].rec # sess[i].rec =>
        \/ sess[i].age >= IdleLimit
        \/ \E r \in Reqs : /\ req[r].id = i /\ req[r].last
                           /\ req[r].pc = "decoded" /\ req[r].result = "ok"
                           /\ req'[r].pc = "replied"]_vars

(* "Already active" is told only when MaxSessions other sessions really were *)
(* used within SESSION_IDLE: an orphan past its time does not count.         *)
CapRefusalHonest ==
    [][\A r \in Reqs :
        req[r].pc = "load" /\ req'[r].result = "SessionCapReached" =>
            Cardinality({i \in Ids \ {req[r].id} :
                sess[i].rec # NoRec /\ sess[i].age < IdleLimit}) >= MaxSessions]_vars

-----------------------------------------------------------------------------
(* Refinement                                                              *)

(* What a caller can rely on of the table: its recognizer and its age.     *)
Entries == [i \in Ids |-> [rec |-> sess[i].rec, age |-> sess[i].age]]

Ledger == INSTANCE SessionLedger WITH ledger <- Entries

(* Calls that load, wait, decode, fail and are dropped in any order still  *)
(* keep the promise of the ledger: a session opens under the cap and with  *)
(* a recognizer nobody else has, and ends only by a close or, idle, by a   *)
(* sweep that takes every idle one.                                        *)
KeepsLedger == Ledger!Spec

-----------------------------------------------------------------------------
(* Liveness, under FairSpec                                                *)

(* Every call is answered or given up by its client, a full table included: *)
(* it is refused, never made to wait for a slot.                            *)
EveryCallEnds ==
    \A r \in Reqs : req[r].pc # "idle" ~> Free(r)

(* Orphans cannot keep the cap: the sweep runs only when some call asks for *)
(* a session, yet if calls keep being refused and nobody uses a session any *)
(* more, that session is swept and stays gone.                              *)
InFlight(i) == \E r \in Reqs : req[r].id = i /\ ~Free(r)

OrphansDrain ==
    \A i \in Ids : <>[]~InFlight(i) /\ []<><<\E r \in Reqs : CapReached(r)>>_vars
                  => <>[](i \notin Opened)

-----------------------------------------------------------------------------
(* What the documentation says and the code does not do                    *)

(* stt.proto on last: "Ends the session and releases its recognizer."  The  *)
(* session that a close ends is its own.                                    *)
CloseEndsItsOwn ==
    [][\A r \in Reqs : req[r].pc = "decoded" /\ req'[r].pc = "replied" =>
        \A i \in Opened \ Opened' : sess[i].rec = req[r].rec]_vars
=============================================================================
