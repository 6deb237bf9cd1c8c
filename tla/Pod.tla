-------------------------------- MODULE Pod --------------------------------
(***************************************************************************)
(* The life of the server's pod: the init container that fetches the       *)
(* models, then main: the configuration, traces and signal handlers, the   *)
(* load of the batch model, serving behind the bearer check, the drain on  *)
(* SIGTERM or SIGINT, the flush of the spans, and the exit.  The kubelet,  *)
(* the memory limit or the node may end it anywhere with no warning, and   *)
(* it is started again, in place or as a new pod.                          *)
(*                                                                         *)
(* A call is a request that has arrived whole: it is as long as it is in   *)
(* flight, and afterwards as long as its blocking task runs.  What it does *)
(* to the sessions is in SttService; here one session id shows which       *)
(* callers meet in a session.  Beside the calls there are the streams of   *)
(* the reflection service, which last as long as their client likes.       *)
(***************************************************************************)
EXTENDS Config

CONSTANTS
    Files,      \* of the model volume, in the order of the script
    Calls,      \* calls in flight at the same time
    Launches,   \* argument lists to start with
    MaxSet      \* how many credentials are set at once

ASSUME FilesAssumption == Files \in Nat \ {0}

VARIABLES
    final, part, script,    \* the volume and the init container
    pc,                     \* where the container is
    outcome,                \* how the process ended
    given,                  \* the arguments and environment it was started with
    config,                 \* what Config::load made of them
    term,                   \* a signal: none, held by a handler, or lost
    http,                   \* the listener of the probes is alive
    traced, queued,         \* spans are made; some span is not exported yet
    calls,
    stream,                 \* an exchange is open that only its client ends
    opener,                 \* who opened the session
    cut                     \* a call in flight was dropped

main == <<outcome, given, config, term, http, traced, queued, calls, stream, opener, cut>>
volume == <<final, part, script>>
vars == <<volume, pc, main>>

Volume == INSTANCE FetchModel

-----------------------------------------------------------------------------

(* What the deployment sets: at most one setting; and what the secret      *)
(* holds: at most MaxSet credentials.                                      *)
Deployments ==
    {[Unset EXCEPT ![k] = v] : k \in Settings, v \in ValuesOf("RUST_LOG")}

Secrets ==
    {creds \in [CredentialKeys -> ValuesOf("STT_AUTH_TOKEN")] :
        Cardinality({k \in CredentialKeys : creds[k] # "unset"}) <= MaxSet}

With(creds, env) == [k \in Keys |-> IF k \in CredentialKeys THEN creds[k] ELSE env[k]]

NotGiven == [args |-> <<>>, env |-> Unset]

NoCall == [pc |-> "idle", client |-> NoClient]

InFlight == {c \in Calls : calls[c].pc = "inflight"}
Detached == {c \in Calls : calls[c].pc = "detached"}

(* Somebody whom the server owes an answer, or whose stream is open.       *)
SomebodyIn == InFlight # {} \/ stream

Callers == {"default", "ann", NoClient}

TypeOK ==
    /\ Volume!FetchTypeOK
    /\ pc \in {"fetch", "start", "configured", "loading", "serving", "draining",
               "closing", "ended", "over"}
    /\ outcome \in {"none", "ok", "error", "killed"}
    /\ given.args \in Launches \cup {<<>>} /\ DOMAIN given.env = Keys
    /\ config \in Config
    /\ term \in {"none", "held", "lost"}
    /\ {http, traced, queued, stream, cut} \subseteq BOOLEAN
    /\ calls \in [Calls -> [pc : {"idle", "inflight", "detached"}, client : Callers]]
    /\ opener \in Callers

Init ==
    /\ Volume!FetchInit
    /\ pc = "fetch"
    /\ outcome = "none" /\ given = NotGiven /\ config = NoConfig /\ term = "none"
    /\ http = FALSE /\ traced = FALSE /\ queued = FALSE /\ cut = FALSE
    /\ stream = FALSE
    /\ calls = [c \in Calls |-> NoCall]
    /\ opener = NoClient

Goto(l) == pc' = l /\ UNCHANGED volume

-----------------------------------------------------------------------------
(* The init container, run again until it is done.                         *)

Fetch ==
    /\ pc = "fetch"
    /\ Volume!FetchStep \/ Volume!CutOff
    /\ UNCHANGED <<pc, main>>

StartMain ==
    /\ pc = "fetch"
    /\ script.pc = "done"
    /\ \E args \in Launches, env \in Deployments : given' = [args |-> args, env |-> env]
    /\ Goto("start")
    /\ UNCHANGED <<outcome, config, term, http, traced, queued, calls, stream, opener, cut>>

-----------------------------------------------------------------------------
(* main, up to the load of the model.                                      *)

(* Read once, together with the secret as it is by now.  A refused         *)
(* configuration ends the process before there is a logger.                *)
ReadConfig ==
    /\ pc = "start"
    /\ \E creds \in Secrets :
        LET env == With(creds, given.env) IN
        /\ given' = [given EXCEPT !.env = env]
        /\ IF Accepted(given.args, env)
           THEN /\ config' = Loaded(given.args, env)
                /\ Goto("configured")
                /\ UNCHANGED outcome
           ELSE /\ outcome' = "error"
                /\ Goto("over")
                /\ UNCHANGED config
    /\ UNCHANGED <<term, http, traced, queued, calls, stream, opener, cut>>

(* --version and the self tests report and are done.                       *)
RunTool ==
    /\ pc = "configured"
    /\ config.mode # "serve"
    /\ outcome' \in IF config.mode = "version" THEN {"ok"} ELSE {"ok", "error"}
    /\ Goto("ended")
    /\ given' = NotGiven
    /\ UNCHANGED <<config, term, http, traced, queued, calls, stream, opener, cut>>

(* An exporter that cannot be built is a warning and no traces.  The       *)
(* signal handlers are registered before the load, not after.              *)
Prepare ==
    /\ pc = "configured"
    /\ config.mode = "serve"
    /\ traced' \in IF config.traces THEN BOOLEAN ELSE {FALSE}
    /\ Goto("loading")
    /\ given' = NotGiven
    /\ UNCHANGED <<outcome, config, term, http, queued, calls, stream, opener, cut>>

(* load_and_assert_cuda fails without its files, and without the GPU.      *)
Loads ==
    /\ pc = "loading"
    /\ ~config.emptyDir
    /\ \A f \in 1 .. Files : final[f] = "whole"
    /\ http' = TRUE
    /\ Goto("serving")
    /\ UNCHANGED <<outcome, given, config, term, traced, queued, calls, stream, opener, cut>>

LoadFails ==
    /\ pc = "loading"
    /\ outcome' = "error"
    /\ Goto("closing")
    /\ UNCHANGED <<given, config, term, http, traced, queued, calls, stream, opener, cut>>

-----------------------------------------------------------------------------
(* Serving.  The span of a call ends with its response, or when the        *)
(* transport drops it; a refused call has a span too.                      *)

SpanEnds == queued' = (queued \/ traced)

Unauthenticated ==
    /\ pc = "serving"
    /\ \E header \in Headers : Authenticate(config, header) = NoClient
    /\ SpanEnds
    /\ Goto(pc)
    /\ UNCHANGED <<outcome, given, config, term, http, traced, calls, stream, opener, cut>>

(* The session is found by its id alone; whoever comes first opens it.     *)
Accept(c) ==
    /\ pc = "serving"
    /\ calls[c] = NoCall
    /\ \E header \in Headers :
        LET client == Authenticate(config, header) IN
        /\ client # NoClient
        /\ calls' = [calls EXCEPT ![c] = [pc |-> "inflight", client |-> client]]
        /\ opener' = IF opener = NoClient THEN client ELSE opener
    /\ Goto(pc)
    /\ UNCHANGED <<outcome, given, config, term, http, traced, queued, stream, cut>>

Answer(c) ==
    /\ pc \in {"serving", "draining"}
    /\ c \in InFlight
    /\ calls' = [calls EXCEPT ![c] = NoCall]
    /\ SpanEnds
    /\ Goto(pc)
    /\ UNCHANGED <<outcome, given, config, term, http, traced, stream, opener, cut>>

(* A hang-up leaves the blocking task behind.                              *)
HangUp(c) ==
    /\ pc \in {"serving", "draining"}
    /\ c \in InFlight
    /\ calls' = [calls EXCEPT ![c] = [pc |-> "detached", client |-> NoClient]]
    /\ SpanEnds
    /\ Goto(pc)
    /\ UNCHANGED <<outcome, given, config, term, http, traced, stream, opener, cut>>

TaskEnds(c) ==
    /\ c \in Detached
    /\ calls' = [calls EXCEPT ![c] = NoCall]
    /\ Goto(pc)
    /\ UNCHANGED <<outcome, given, config, term, http, traced, queued, stream, opener, cut>>

(* Reflection, of either version, is for anybody and is a stream in both   *)
(* directions.  One is enough to hold the server.                          *)
OpenStream ==
    /\ pc = "serving"
    /\ ~stream
    /\ stream' = TRUE
    /\ Goto(pc)
    /\ UNCHANGED <<outcome, given, config, term, http, traced, queued, calls, opener, cut>>

(* Its client is done with it, or hangs up.                                *)
StreamEnds ==
    /\ pc \in {"serving", "draining"}
    /\ stream
    /\ stream' = FALSE
    /\ SpanEnds
    /\ Goto(pc)
    /\ UNCHANGED <<outcome, given, config, term, http, traced, calls, opener, cut>>

(* The session is closed, or swept.                                        *)
SessionEnds ==
    /\ pc = "serving"
    /\ opener # NoClient
    /\ InFlight = {}
    /\ opener' = NoClient
    /\ Goto(pc)
    /\ UNCHANGED <<outcome, given, config, term, http, traced, queued, calls, stream, cut>>

(* The batch exporter works in the background; a failed export is a WARN.  *)
Export ==
    /\ queued
    /\ pc \in {"serving", "draining", "closing"}
    /\ queued' = FALSE
    /\ Goto(pc)
    /\ UNCHANGED <<outcome, given, config, term, http, traced, calls, stream, opener, cut>>

(* The listener of the probes dies: that is logged, and nothing else.      *)
HttpDies ==
    /\ pc = "serving"
    /\ http
    /\ http' = FALSE
    /\ Goto(pc)
    /\ UNCHANGED <<outcome, given, config, term, traced, queued, calls, stream, opener, cut>>

-----------------------------------------------------------------------------
(* The end                                                                 *)

(* The kernel drops a signal that PID 1 has no handler for: before the     *)
(* load a signal has no effect at all.                                     *)
HandledOnceServing == {"serving", "draining", "closing", "ended"}
Handled == {"loading", "serving", "draining", "closing", "ended"}

Signal ==
    /\ pc \notin {"fetch", "start", "configured", "over"}
    /\ config.mode = "serve"
    /\ term = "none"
    /\ term' = IF pc \in Handled THEN "held" ELSE "lost"
    /\ Goto(pc)
    /\ UNCHANGED <<outcome, given, config, http, traced, queued, calls, stream, opener, cut>>

(* The kubelet restarts a container whose liveness probe fails.            *)
ProbeFails == pc = "serving" /\ ~http /\ Signal

Shutdown ==
    /\ pc = "serving"
    /\ term = "held"
    /\ Goto("draining")
    /\ UNCHANGED main

(* There is no time limit to the drain.                                    *)
AtOnce == TRUE
AllAnswered == ~SomebodyIn

Drained ==
    /\ pc = "draining"
    /\ AllAnswered
    /\ outcome' = "ok"
    /\ Goto("closing")
    /\ UNCHANGED <<given, config, term, http, traced, queued, calls, stream, opener, cut>>

(* The gRPC server cannot bind its port, or fails later.                   *)
ServerFails ==
    /\ pc = "serving"
    /\ outcome' = "error"
    /\ Goto("closing")
    /\ UNCHANGED <<given, config, term, http, traced, queued, calls, stream, opener, cut>>

(* The runtime is dropped: what is in flight goes with it, and blocking    *)
(* tasks are waited for.                                                   *)
CloseRuntime ==
    /\ pc = "closing"
    /\ Detached = {}
    /\ cut' = SomebodyIn
    /\ queued' = (queued \/ (traced /\ SomebodyIn))
    /\ calls' = [c \in Calls |-> NoCall]
    /\ stream' = FALSE
    /\ opener' = NoClient
    /\ http' = FALSE
    /\ Goto("ended")
    /\ UNCHANGED <<outcome, given, config, term, traced>>

(* shutdown exports what is queued or warns, whatever run returned; only   *)
(* then does a failed run exit with 1.                                     *)
FlushUnlessFailed == queued' = (queued /\ outcome = "error")
Flush == queued' = FALSE

Exit ==
    /\ pc = "ended"
    /\ Flush
    /\ Goto("over")
    /\ UNCHANGED <<outcome, given, config, term, http, traced, calls, stream, opener, cut>>

(* SIGKILL, the memory limit, a panic out of run, the node.                *)
Kill ==
    /\ pc # "over"
    /\ pc' = "over"
    /\ script' = IF pc = "fetch" THEN Volume!Off ELSE script
    /\ outcome' = "killed"
    /\ given' = NotGiven
    /\ config' = NoConfig /\ term' = "none"
    /\ http' = FALSE /\ traced' = FALSE
    /\ cut' = SomebodyIn
    /\ calls' = [c \in Calls |-> NoCall]
    /\ stream' = FALSE
    /\ opener' = NoClient
    /\ UNCHANGED <<final, part, queued>>

(* A container that ended is started again: in place, the init container   *)
(* having done its work, or in a new pod, on the volume as it is then.     *)
Restart ==
    /\ pc = "over"
    /\ pc' = "fetch"
    /\ \/ UNCHANGED volume
       \/ Volume!LoseFiles
    /\ outcome' = "none"
    /\ given' = NotGiven /\ config' = NoConfig /\ term' = "none"
    /\ http' = FALSE /\ traced' = FALSE /\ queued' = FALSE /\ cut' = FALSE
    /\ stream' = FALSE
    /\ calls' = [c \in Calls |-> NoCall]
    /\ opener' = NoClient

-----------------------------------------------------------------------------

Serve(c) == Accept(c) \/ Answer(c) \/ HangUp(c) \/ TaskEnds(c)

Steps == StartMain \/ ReadConfig \/ RunTool \/ Prepare \/ Loads \/ LoadFails
         \/ Shutdown \/ Drained \/ CloseRuntime \/ Exit

Next ==
    \/ Fetch \/ Steps \/ ServerFails
    \/ Unauthenticated \/ OpenStream \/ StreamEnds \/ SessionEnds \/ Export \/ HttpDies
    \/ \E c \in Calls : Serve(c)
    \/ Signal \/ ProbeFails \/ Kill \/ Restart

Spec == Init /\ [][Next]_vars

(* main runs, a model load ends, every call is answered and every blocking *)
(* task comes to its end, and the kubelet probes.  No client has to end    *)
(* its stream, nobody has to be killed and nobody has to send a signal.    *)
FairSpec ==
    /\ Spec
    /\ WF_vars(Steps)
    /\ WF_vars(ProbeFails)
    /\ \A c \in Calls : WF_vars(Answer(c)) /\ WF_vars(TaskEnds(c))

-----------------------------------------------------------------------------
(* Safety                                                                  *)

(* No model is loaded from a file that is not whole, wherever a download    *)
(* was cut off and however often the script was run again: "truncated" can  *)
(* not be told from "complete" once a file has its final name.              *)
NeverLoadsCut ==
    pc # "fetch" /\ outcome # "killed" => \A f \in 1 .. Files : final[f] = "whole"

(* What an owner is told to mend: the variable is removed, one credential   *)
(* of several for one client is kept, and one is added if there was none.   *)
Repaired(env, errors) ==
    LET wrong == {k \in Keys : \E what \in {"not UTF-8", "invalid", "no client name"} :
                                  <<what, k>> \in errors}
        clash == {k \in Clients(env) : <<"two credentials", ClientOf[k]>> \in errors}
        kept  == {CHOOSE k \in clash : ClientOf[k] = ClientOf[l] : l \in clash}
        mended == [k \in Keys |-> IF k \in wrong \cup (clash \ kept) THEN "unset"
                                                                     ELSE env[k]]
    IN  IF Clients(mended) = {} /\ \E e \in errors : e[1] \in {"no credentials", "no client name"}
        THEN [mended EXCEPT !.STT_TOKEN_ann = CHOOSE t \in Tokens : TRUE]
        ELSE mended

(* Arguments that can all be read, and ask for the same.                   *)
Mended(args) ==
    {a \in Launches : First(a) = First(args) /\ \A j \in DOMAIN a : a[j] # "garbled"}

(* Every error is reported at once: when all that a refusal names has been  *)
(* mended, the next start is not refused for something it did not say.  (An  *)
(* argument that is not known leaves open whether a credential is needed.)  *)
RepairedAtOnce ==
    LET errors == Errors(given.args, given.env) IN
    given # NotGiven /\ <<"unknown", "argument">> \notin errors =>
        \A args \in Mended(given.args) : Accepted(args, Repaired(given.env, errors))

(* Only a configured token is let in, an empty one never, and two tokens    *)
(* are never one client, whatever spellings of names are configured.        *)
OneTokenPerClient ==
    \A h1, h2 \in Headers :
        Authenticate(config, h1) # NoClient =>
            /\ h1 \in Tokens
            /\ Authenticate(config, h1) = Authenticate(config, h2) => h1 = h2

(* Revoking a caller is deleting its variable and affects nobody else: its  *)
(* token is out, and every other token is let in under the name it had.     *)
RevokingOneKeepsOthers ==
    pc = "configured" => \A k \in Clients(given.env) :
        LET after == [given.env EXCEPT ![k] = "unset"]
            others == Clients(given.env) \ {k}
            unshared == \A l \in others : given.env[l] # given.env[k]
        IN  Accepted(given.args, after) /\ unshared =>
                /\ Authenticate(Loaded(given.args, after), given.env[k]) = NoClient
                /\ \A l \in others :
                        Authenticate(Loaded(given.args, after), given.env[l])
                            = Authenticate(config, given.env[l])

(* A stop by signal cuts nobody off: whoever was let in is answered, and a  *)
(* stream goes on until its client ends it, unless the server failed or was *)
(* killed.                                                                  *)
GracefulStop == outcome = "ok" => ~cut

(* A process that came to its end by itself, failed or not, leaves no span  *)
(* behind: each was exported or its loss was logged.                        *)
SpansFlushed == pc = "over" /\ outcome # "killed" => ~queued

-----------------------------------------------------------------------------
(* Liveness, under FairSpec                                                *)

(* The drain waits for a client that keeps its stream: "a live bidi stream  *)
(* holds it open until the client stops or SIGKILL lands" (serve_grpc).     *)
HeldByClient == pc = "draining" /\ stream

(* A signal is never lost: sent while the model loads, with calls in flight *)
(* or during the drain, it ends the process without SIGKILL, unless some    *)
(* client keeps its stream open for ever; nothing else holds it up.  A      *)
(* process whose probes are no longer answered ends too, through the        *)
(* kubelet's signal, on the same terms.                                     *)
TermHonoured ==
    (term # "none" \/ (pc = "serving" /\ ~http)) ~> (pc = "over" \/ []HeldByClient)

-----------------------------------------------------------------------------
(* What the documentation says and the code does not do                    *)

(* config.rs: "The name is what keeps one caller out of another's           *)
(* session_id".  Here: nobody is let into a session that another opened.    *)
NameSeparates == \A c \in InFlight : opener # NoClient => calls[c].client = opener
=============================================================================
