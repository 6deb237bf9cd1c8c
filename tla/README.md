# A TLA+ model of ukubi-stt

ukubi-stt is a speech-to-text service: one Rust process with one GPU, a gRPC
method `Recognize`, and a browser page with a reusable capture module. This
directory models what in it depends on order, time and failure, checks the
models with TLC and proves the main results with TLAPS.

`tlc -config <cfg> <module>` repeats a run of the table in section 3;
`tlapm <module>` repeats a proof. PROJECT.json lists for each definition the
lines it models, for each property the hazards it is about, and for each
property a plausible bug of the code under which it fails.

## 1. Inventory

| part | source | state | operations | modelled by |
|---|---|---|---|---|
| session table, streaming calls | `src/service.rs` | `sessions` (id, recognizer, engine, last use), one future per call, one blocking task per decode | `recognize`, `decode_chunk`, `session` (sweep, find, cap, open), hang-up | `SttService`, promise: `SessionLedger` |
| batch decoding | `src/service.rs:453-476` | `permits` (1), the model's mutex, its poison | `decode_offline`, hang-up, panic | `BatchDecode` |
| lazy load, GPU check | `src/service.rs:257-331`, `src/engine.rs:198-254` | the tokio mutex with the cached model, the blocking load, GPU memory | `warm_streaming`, `handle`, `load_streaming_and_assert_cuda` | `LazyLoad`, promise: `ModelCell` |
| log-mel front end | `src/fbank.rs` | pending samples, last raw sample, started | `push` | `Fbank` |
| Persian recognizer | `src/persian.rs` | frame queue, encoder caches, previous token, emitted, finished | `push`, `step`, `decode` | `PersianStream` |
| a session's recognizer | `src/service.rs:81-157` | its variant, `emitted`; samples held back by `parakeet-rs` | `Recognizer::transcribe` | `Recognizer` |
| capture module | `web/stt-capture.js` | warm context, context, microphone, worklet buffer, promise chain, abandoned | `prewarm`, `start`, `stop`, `enqueue`, the worklet | `Dictation` |
| page | `web/index.html` | busy button, session id, transcript | `startRecording`, `stopRecording`, `doSend`, `sendFile` | `Dictation` |
| client and service together | all of the above | | a dictation, other clients, restarts of the pod | `EndToEnd` |
| configuration | `src/config.rs` | none | `Config::load` | `Config` |
| bearer check | `src/service.rs:664-723` | the credentials | `BearerAuth::call` | `Config` |
| process lifecycle, traces | `src/main.rs`, `src/traces.rs` | servers, runtime, signal handlers, queued spans | `start`, `run`, `serve`, `shutdown_signal`, flush | `Pod` |
| batch model at start | `src/engine.rs:153-196` | none | `load_and_assert_cuda` | `Pod` |
| model fetching | `fetch-model.sh` | files on a volume | `fetch`, restart of the pod | `FetchModel`, `Pod` |
| error keys, warning limiter | `src/errkeys.rs` | last warning per model | `status`, `internal`, `warn_due` | the keys: `SttService` |

How they meet. The page's chunks go, one request at a time, through the bearer
check to `Recognize`. With a session id a call needs its engine's model
(`LazyLoad`), then the session table, then a blocking task that pushes its audio
into the session's recognizer (`Recognizer`, over `PersianStream` and `Fbank` for
Persian); without one it needs the permit and the batch model. Futures share
the session table behind a std mutex that is never held across an await. A
client that hangs up drops its future at an await point, and everything the
future owned goes with it: the permit, the guard of the load. A blocking task
is not stopped by that. The process around all this is fetched for, configured,
warmed, served, drained, flushed and restarted (`Pod`).

What is hard, and what makes each part correct:

* the session table: a call looks the session up, decodes without any lock,
  and comes back to the table by id. In between there are sweeps, closes,
  hang-ups and new sessions under the old id. Right: no more sessions than the
  cap, audio to the recognizer of its own id and engine, closed means closed,
  nobody loses a session they use, a refusal is honest, orphans drain;
* the batch path: the permit and the decode part company on a hang-up. Right:
  one permit for ever, "busy" only when busy, a panic harms only its own call;
* the load: the same parting, with a check that reads the whole GPU's memory.
  Right: stored once, never "ok" without a model, never a model on the CPU;
* the recognizers: frames, windows, chunks, tokens and separators straddle the
  boundaries of calls. Right: the result is that of the undivided utterance to
  its last sample. After a failure a Persian recognizer gives errors instead of
  wrong text; a multilingual one decodes on behind a hole, and what it is fed
  from there on must still be decoded to its last sample;
* the capture: user, audio thread and network run at their own pace. Right: the
  session receives a prefix of what was said, stop delivers the rest and ends;
* client and service: hang-ups leave decodes behind, the pod may restart in
  mid-dictation. Right: what the recognizers hear is the dictation, in order and
  once, and one recognizer hears all of it unless it was interrupted;
* the pod: a download or the process may be cut off anywhere. Right: no
  truncated model is loaded, a refused configuration says all that is wrong, a
  token is one caller, a signal ends the process after the calls and the spans,
  and nothing but a client that keeps a stream open can delay that without end.

## 2. Modules

| module | about | proofs |
|---|---|---|
| `SttService` | the session table and the streaming calls (core) | `SttServiceProofs`, `SessionEndProofs` |
| `SessionLedger` | what the table promises | `SessionEndProofs`: `SttService` implements it |
| `BatchDecode` | the batch path | `BatchDecodeProofs` |
| `LazyLoad` | the lazy load and the GPU check | `LazyLoadProofs` |
| `ModelCell` | what a load promises | `LazyLoadProofs`: `LazyLoad` implements it |
| `Fbank` | the front end as operators, and its reference `ReferenceFrames` | `RecognizerProofs` |
| `PersianStream` | one Persian dictation over `Fbank` | `RecognizerProofs` |
| `Recognizer` | one session's recognizer of either engine | `RecognizerProofs` |
| `Dictation` | capture module and page | `DictationProofs` |
| `EndToEnd` | a dictation's chunks over `SttService` | `EndToEndProofs` |
| `FetchModel` | the init container | `PodProofs` |
| `Config` | configuration and bearer check, as operators | `PodProofs` |
| `Pod` | the pod's life over `Config` and `FetchModel` | `PodProofs` |
| `MCSttService`, `MCEndToEnd`, `MCPod` | symmetry and argument lists for TLC | |

An operator that stands right before another one with the same parameters
(`OlderForEver` before `Older`, `CarriesOn` before `Abandons`) is a deliberately
wrong version of it. Nothing uses it; it stands for a bug that some property
catches, and PROJECT.json names the pair.

**SttService.** `sess` is the table, with a session's age in ticks in place of
an `Instant`; `recs` are the recognizers somebody still refers to (they are
`Arc`s, so `Keep` drops the rest); `req` are the calls, `loaded` the models. A
call's `pc` is the await point where it stands; one action is what runs from
one await to the next. `Refuse`, `CloseUnknown`, `CloseFound` and `Chunk` are
the four ways a request begins. `LoadModel` and `LoadFails` stand for `loaded()`,
which `LazyLoad` details. `SwitchRefused`, `ContinueSession`, `CapReached`,
`UnknownLanguage` and `OpenSession` are the ends of `session()`, each with the
sweep, which the code does before it refuses. `Decode` is the blocking task,
`Answer` and `AnswerFailed` the rest of `decode_chunk`, `Cancel` the hang-up at
each await. A recognizer keeps what decides over its further use (`finished`,
`lost`) and, as history, who opened it and whether a close of it failed.

**SessionLedger.** Of the table only the recognizer and the age of each
session are left, and of the calls nothing: sessions open, are used, are closed
or swept, and time passes. The refinement mapping is `Entries`; everything a
call does outside the critical sections is a stutter.

**BatchDecode.** `pc` is the handler, `task` the blocking task that outlives
it, `holder` and `poisoned` the std mutex, which grants no order.

**LazyLoad, ModelCell.** `waiters` and `guard` are the tokio mutex (first come,
first served, and a hang-up leaves the queue wherever it stood), `slot` the
cached model, `load` each caller's blocking load by the step it has reached,
`arena` the growth of the batch model's memory, which only an environment action
changes. Memory is counted in units of `MIN_DELTA_MIB`. In `ModelCell` there is
only the cell and what each caller was told; `slot` is mapped to the cell and a
caller's `pc` to what it was told.

**Fbank, PersianStream, Recognizer.** A sample is its number, a preemphasised
sample the pair with its predecessor, a frame its `N_FFT` pairs: equal frames in
the model are equal numbers in the code. The encoder answers one token per
window of the model's choosing (a blank, a separator, a word, a separator with
a word), and any step may fail. The multilingual recognizer is `parakeet-rs`, of
which `Recognizer` knows only what the code relies on: it holds back what does
not fill a chunk. Its calls may fail (`TranscribeFails`), which the session
survives, and it may be called after a close, when that close's caller had hung
up. What `parakeet-rs` keeps of the audio after a failure cannot be seen here:
the model lets it be what it held before, or any end of what it then had.
`frames`, `windows`, `tokens`, `text` and `decoded` are history.
`TailDecoded` says that samples are decoded in their order and none twice,
whatever failed, and that an answered close leaves none undecoded that was fed
since the last failure (`failed` is the history it needs). Of the samples up to
a failure it promises nothing else, because the code does not either.

**Dictation.** `ui` is what `start()` or `stop()` awaits; the worklet
(`buf`, `heard`, `flush`, `port`) and the promise chain (`chain`, `inflight`)
run beside it. Resolving the tail's promise and the teardown after it are one
action, because the continuation is a microtask and runs before the next
message. `SendRejects` tells a `send` that reports failures, which the module
asks for, from the page's `doSend`, which does not. `got` is the history of
what reached the server.

**EndToEnd.** The actions of `SttService`, unchanged, with a client over one of
its session ids: it sends a chunk when the last was answered and stops at the
first failure, as the promise chain of `Dictation` does. Any call may be hung up
on and its decode go on. `Restart` empties everything of the service and nothing
of the client. Other calls use other ids. `pieces` is the history of the
recognizers opened for the dictation, `heard` that of its chunks as they were
decoded, each with the piece that heard it. The calls here carry no credentials.

**Config, FetchModel, Pod.** `Config` is `Config::load` as a function of
arguments and environment. A value is classed by what its parser makes of it
(unset, empty, valid, invalid, not UTF-8, or a token). `FetchModel` is the script,
file by file, with a temporary and a final name for each. `Pod` begins with the
init container, draws the deployment and the secret from `Deployments` and
`Secrets`, follows `main` to its exit, and may be killed between any two steps.
A call in it is no more than in flight or detached; `queued` says that some span
is not exported yet, and `opener` is who opened one session, for the one finding
about names. `stream` is a reflection stream, which lasts as long as its client
likes and holds the drain for as long (`OpenStream`, `StreamEnds`).

## 3. Runs

| run | module, cfg | what it asks | bounds |
|---|---|---|---|
| `service_calls` | `MCSttService`, `SttService_calls.cfg` | cap, right recognizer, closes, honest refusals, kept sessions, the ledger | 2 calls, 2 ids, cap 1, 3 recognizers, Persian, a known and an unknown language, idle limit 2 |
| `service_liveness` | `MCSttService`, `SttService_liveness.cfg` | calls end, orphans drain | 2 calls, 2 ids, cap 1, one language, idle limit 1 |
| `close_ends_another` | `MCSttService`, `SttService_CloseEndsItsOwn.cfg` | finding | 2 calls, 2 ids, cap 1, one language, idle limit 2 |
| `batch_calls` | `BatchDecode`, `BatchDecode_calls.cfg` | permit, busy, panics, answers | 4 calls |
| `lazy_loads` | `LazyLoad`, `LazyLoad_loads.cfg` | one load, the cell, the check, everyone told | 3 callers, 2 of which may hang up, a GPU of 8 units for models of 3, an arena that grows by 1 |
| `load_on_cpu` | `LazyLoad`, `LazyLoad_NeverOnCpu.cfg` | finding | the same, the arena still |
| `recognizers` | `Recognizer`, `Recognizer.cfg` | independence of the cut, separators, failures, the tail | frames of 8 samples every 3, padded by 4, windows of 5 frames every 3, 42 samples; chunks of 3 in 5 samples, 3 chunks decoded, any calls that fail and any closes; calls of 0 to 6 samples |
| `end_to_end` | `MCEndToEnd`, `EndToEnd.cfg` | what the recognizers hear of a dictation | 3 chunks beside another client: 2 calls, 2 ids, cap 1, 3 recognizers, idle limit 2 |
| `pod` | `MCPod`, `Pod.cfg` | fetch, configuration, credentials, stop, spans | 3 files, 2 tokens, at most 2 credentials and one setting, 2 calls, a stream, the argument lists of `MCLaunches` |
| `name_separates` | `MCPod`, `Pod_NameSeparates.cfg` | finding | the same |
| `dictation_module` | `Dictation`, `Dictation_module.cfg` | order, own session, delivery, stop | 2 dictations of 4 samples, chunks of 2 |
| `page_sends_on` | `Dictation`, `Dictation_page.cfg` | finding | 1 dictation, a send that never rejects |

What they show:

* `service_calls`: `SessionCap`, `RightRecognizer`, `ClosedForGood`,
  `FinishedSession`, `SessionsKept` and `CapRefusalHonest` hold whatever two racing
  calls do with failing decodes, hang-ups and sweeps; `KeepsLedger`: the table
  implements `SessionLedger`;
* `service_liveness`: `EveryCallEnds`, and `OrphansDrain`: sessions that nobody
  uses lose their slots as long as others are refused for them;
* `batch_calls`: `PermitAccounting`, `BusyIsHonest`, `NotFailedByAnother`, and
  `AdmittedIsAnswered` although detached tasks compete for an unfair mutex;
* `lazy_loads`: `OneLoad`, `FillsCellOnce` (it implements `ModelCell`),
  `CpuOnlyIfDisturbed`, and `CallerEnds`;
* `recognizers`: `FramesAreReference`, `WindowsCover`, `SeparatorOnce`,
  `SilentAfterLoss` and `TailDecoded` for every way to cut an utterance, with
  Persian steps that fail, and multilingual calls that fail or close anywhere and
  are followed by others;
* `end_to_end`: `HeardInOrder` and `HeardByOne`;
* `pod`: `NeverLoadsCut`, `RepairedAtOnce`, `OneTokenPerClient`,
  `RevokingOneKeepsOthers`, `GracefulStop`, `SpansFlushed`, and `TermHonoured`;
* `dictation_module`: `StreamIsPrefix`, `OwnSession`, `StopDelivers`, `StopEnds`.

Why the bounds are enough to see the interesting cases. Two calls and a tick
are what a race over one id takes; a second id at a cap of one lets a sweep free a
slot and another call take it. There are as many recognizers as sessions and
calls can hold, so opening is never blocked by the bound. Ages stop at the idle
limit, where the code stops telling them apart. Four batch calls are one that
is admitted, one that is refused and two left behind, of which one holds the
mutex and one waits. Three loads are the first, one that was left behind and
one that follows. In `recognizers` a call can be empty, shorter than the pad or
longer than a frame, an utterance too short for one frame or long enough for
several windows, and the overlap at its end is met with every remainder. A
multilingual call can be empty, a part of a chunk, or a chunk and more, and after
a failure there is room for another call, its close, and a call after that. The
code's 512/160/121/112 has the same order relations (`FbankAssumption`,
`StreamAssumption`). Three chunks have a first, a middle and a last. Two
credentials are what it takes to clash in name or in token, and one setting at
a time what it takes to go wrong beside them. In `Dictation` a tail is empty or
not, and a full chunk can follow it before the node is disconnected.

Symmetry is used only in runs without liveness; ids, calls and recognizers are
never told apart (in `end_to_end`, the dictation's own id is not in it). The runs
of `Dictation` and `Pod` have no deadlock check: the page may be left alone once
the bounds are used up, and a pod may rest.

**Fairness.** `SttService`, `BatchDecode` and `LazyLoad` assume weak fairness of
each future that can go on and of each blocking task: tokio polls what was woken,
its blocking pool runs what was spawned, and a load or a decode ends one way or
another. `Tick` is fair because time passes. The batch mutex is not assumed
fair; `AdmittedIsAnswered` holds because a semaphore bounds who competes with
the tasks left behind. `Dictation` assumes that the event loop runs what is due,
that the timer fires and that the browser settles every request (there is no
timeout in the code); the worklet and the user owe nothing. `Pod` assumes that
`main` runs, that every call whose request has arrived is answered (it waits
for nothing but a load, a decode and locks, each with a run of its own above) and
every blocking task ends, and that the kubelet probes. A client never has to end
its stream: `src/main.rs:461-463` says that the drain has no limit and that such
a stream holds it until SIGKILL, and so `TermHonoured` promises an end only
where no stream is kept for ever (`HeldByClient`). Nobody has to kill the pod,
nobody has to send a signal, and no span has to be exported in the background.
No client is ever obliged to call again, and hang-ups are never fair.

## 4. Where the code and its documents differ

| finding | run | in short |
|---|---|---|
| a close ends another's session | `close_ends_another` | removal is by id; the session may be a newer one |
| a model on the CPU is kept | `load_on_cpu` | a hang-up frees the guard, a second load starts, and one's memory vouches for the other |
| the page sends on after a failure | `page_sends_on` | `doSend` never rejects, so nothing is abandoned |
| the client's name separates nothing | `name_separates` | sessions are found by `session_id`, whoever sends it |

The counterexamples are in the runs' output; PROJECT.json quotes the lines that
they contradict. `CloseEndsItsOwn` and `NeverOnCpu` need a hang-up or a sweep at
the right moment, and a test that drives one call at a time meets neither.

Others were seen while modelling and have no run, being visible in a line or two:

* a close whose decode fails keeps its session and its slot until a sweep: `?`
  comes before `map.remove` (`src/service.rs:550-559`), while `stt.proto:83` says
  of `last` that it ends the session. `FinishedSession` says exactly which
  sessions are left like that;
* a hang-up in the batch path frees the permit and not the GPU: the next call is
  admitted and parks a blocking thread on the mutex (`src/service.rs:453-476`);
* a comment (`src/service.rs:499-501`) says that a bare close for an unknown
  session fails where the model cannot load, while `CloseUnknown` answers it
  before any model is looked for;
* a comment (`src/service.rs:131-137`) promises a whole chunk of silence after the
  speech; that is so when the earlier calls were whole chunks (`aligned` in
  `TailDecoded`). Where no call fails, every sample is decoded in any case;
* a multilingual call that fails (`src/service.rs:146-148`) leaves its session in
  the table, and the next chunk is decoded as if it followed. The text then has a
  hole that no answer after the error mentions. A Persian session refuses instead
  (`SilentAfterLoss`). The capture module stops at the first error it is told of,
  so only a client that goes on after one meets this;
* the page refuses files by comparing seconds times two with 16 MiB
  (`web/index.html:420`), so it refuses none;
* when `start()` fails after asking for the microphone (the worklet does not
  compile, or the context does not resume), the microphone stays open while the
  button says Record. No document promises otherwise.

## 5. Proofs

All theorems are for every value of the constants that meets the named
assumptions (finite ids and callers, distinct sentinels, a positive idle limit, a
chunk of at least one sample, a window longer than its shift, a frame of two pads
that is longer than a hop and a pad, at least one token that a secret may hold, a
model large enough for the check to see). No fairness is assumed.

**SttServiceProofs.** `RightRecognizer` is not inductive: nothing in it
says that the session a call finds has a recognizer of that id, or that a waiting
call holds one that is alive. The invariant `IInv` adds both: a session's
recognizer was opened for its id and on its engine, a call that is decoding holds
one of its own id and engine, and what is referred to is not `Dropped`. It is
kept by each group of actions in a lemma of its own (`ArriveInv`, `LoadInv`,
`LookupInv`, `DecodeInv`, `ResumeInv`, `CancelInv`, `TickInv`). From it follow
`TypeCorrect` and `RightRecognizerHolds`. `SessionCapHolds` is a second
induction over cardinalities: only `OpenSession` adds, and it adds one where the
swept table was not full. `ClosedForGoodHolds` rests on the owner of a
recognizer: only the session under that id can name it, and removing by id
removes that one.

**SessionEndProofs.** How sessions end. `SessionsKeptHolds` goes through the
steps for what each takes out of the table. `CapRefusalHonestHolds` needs
`LoadingUnanswered`, so that a refusal is known to come from the look-up.
`FinishedSessionHolds` is inductive only together with `DetachedClose`: a close
whose caller hung up in mid-decode has already been noted as failed, so that its
recognizer, finished later with nobody waiting, is accounted for.

`KeepsLedgerHolds`: under `IInv` every step of the service is a step of
`SessionLedger` or a stutter. A look-up becomes `Use`, `Open` or `Sweep`, a
bare close `Touch`, an answer `Touch` or `Close`. `Open` needs that the recognizer
is one that no session has, which is what `Dropped` in `IInv` is for.

**EndToEndProofs.** Every step of `EndToEnd` is a step of `SttService`, a restart
of it, or none; a restart leaves a state in which `IInv` and the cap hold, which
gives `RightRecognizerEndToEnd` and `SessionCapEndToEnd`. `HeardInOrderHolds`: of the
dictation's calls at most one is not yet decoded and not yet told to the client,
and it is either the one the client waits for or one left behind by its last
hang-up, after which it sends no more. So the chunk that is
decoded next is the one after those heard, and the recognizer that decodes it is
the latest piece. `HeardByOneHolds` needs in addition that an open dictation
which nobody interrupted still has its session (`Whole`): only its own close or an
age of `IdleLimit` takes that out of the table.

**RecognizerProofs.** Whatever the sizes of frame, hop, window, shift and chunk, and
however an utterance is cut:

* `FramesAreReferenceHolds`. The invariant gives the front end's state in closed
  form: after `N` samples and `T` frames it holds the samples from `T * HOP` on,
  with the mirrored beginning before them while `T` is 0 (`Pending`), and has made
  the first `T` frames of the utterance. A push adds the next frames
  (`FrontEndPush`), no more and no fewer than can be told; what it sees of the
  end is reflected only when nothing comes after it, and a frame made on the way
  never reaches there.
* `WindowsCoverHolds`. `StepsAre` solves the recursion of a push's windows by
  well-founded induction on what is queued. In `Placed` the queue is exactly what
  the next window would begin with; at the end the last window, and no other,
  reaches the last frame, which needs that the last push always adds a frame.
* `SeparatorOnceHolds`. Collapsing, spelling and rendering are homomorphisms up to
  the token before (`CollapseConcat`, `SpellConcat`, `RenderedConcat`), and trimming
  is one as soon as something was said (`TrimConcat`). These are proved from the
  definition of `FlattenSeq` by induction over a set of lengths.
* `SilentAfterLossHolds`. Without its caches a push fails in its first step, so it
  makes no window, takes no token and says nothing; after a close there is none.
* `TailDecodedHolds`. In `Decoded` the chunks that were decoded and what is held
  back are one stretch of audio: samples in their order, none twice, silence
  among them, and all that was fed since the last failure in it. A failed call
  takes a piece out of what is held or leaves it (`failed` moves up), so the
  order stays. The silence of a close is at least a chunk and comes last, so that
  after an answered close every sample lies in a chunk that was decoded, whatever
  was held before.

**BatchDecodeProofs.** The invariant counts: the permit is there exactly when no
handler is admitted, and at most one is. `BusyIsHonestHolds` and
`NotFailedByAnotherHolds` follow for every step.

**LazyLoadProofs.** `GInv` ties the guard to the one caller that is loading, and
says that nothing is cached while somebody loads; hence a stored model is never
overwritten, "ok" finds it there, of the loads that run side by side all but
one have lost their callers (`OneLoadHolds`), and the whole implements
`ModelCell` (`FillsCellOnceHolds`). `QueueHolds`: who waits is in the queue, once,
and nobody else is; `TypeOKHolds` rests on it. `CpuOnlyIfDisturbedHolds` needs a second
invariant, `Undisturbed`: until a load was left behind or the arena grew beside
one, every load belongs to the holder of the guard, its baseline is the memory in
use without it, and so the check tells the GPU from the CPU. The condition is
needed: `load_on_cpu` is what happens without it.

**PodProofs.** `NeverLoadsCutHolds`: a final name is only ever given to a file
whose download had ended, and the process runs only after the script did, on a
volume nobody touches. `GracefulStopHolds` and `SpansFlushedHolds` share an
invariant of the end: an "ok" is only set with no call in flight and no stream
open, none is accepted after it, and nothing is queued once the flush was made.
`OneTokenPerClientHolds` and `RevokingOneKeepsOthersHolds` are about `Config`'s
operators on whatever configuration was accepted: no two of its credentials have
one name, and taking one out leaves the matches of every other token alone.
They hold for any set of tokens; `pod` has two. `RepairedAtOnceHolds`: if every
thing that an error names is mended, the next start is accepted. Of clashing
credentials one of each client is kept and no two of one (`KeptOnePer`), so that
the mended environment has exactly one for each client that had any
(`MendedClients`), and one is added only where that leaves none.

**DictationProofs.** The base (`Types`, `Phases`, `Own`): which parts of the state
can be in use in which phase of `start()` and `stop()`; above all, everything
queued, under way or in the worklet belongs to the current dictation, because
the button is dead until the chain has drained. `OwnSessionHolds` follows.
`StreamIsPrefixHolds` follows the audio backwards: the pieces at the port, in
the chain, under way and at the server join end to end, up to the sample the
worklet's buffer starts at, and nothing follows a closing piece. `StopDeliversHolds`
adds where the tail is between the click and the last answer (`TailSent`). Both
assume `SendRejects`, and need it: with the page's `doSend` they are false, as
`page_sends_on` shows.

Only model-checked:

* liveness (`EveryCallEnds`, `OrphansDrain`, `AdmittedIsAnswered`, `CallerEnds`,
  `StopEnds`, `TermHonoured`), which is out of the prover's reach;
* the properties of section 4's findings, which do not hold.

Every safety property and refinement that a passing run checks is a theorem.

## 6. Not modelled

* Numbers and bytes: FFT, filterbank, ONNX inference, protobuf and gRPC framing.
  Loading and validating the Persian model's files.
* The fields of a span and its link to the caller's trace; the text of errors.
* The table of the warning limiter: one look-up and one assignment under a
  mutex. A time read before the mutex was taken counts as no time at all there.
* The level meter, counters, log, token storage and file upload of the page,
  which have no state beyond one handler.
* Two containers that fetch onto one volume: both would write the same `.part`.
  The Deployment is Recreate with one replica, so none is deployed.
* What `parakeet-rs` does inside a call. That a failed call does not give back
  samples of chunks it had already decoded, other than by being undone as a
  whole, is assumed.
* A request that its client has not finished sending: it holds the drain as a
  stream does, and is no call of `Pod` yet.
* A node that loses power after the `mv` of a download and before its data is on
  the disk: the script makes no `fsync`, and a final name might then be that of a
  truncated file. `NeverLoadsCut` is about processes that are killed.
* A request that the page counts as failed although the server gets it later:
  in `Dictation` a request has failed before the next one begins, and is then
  delivered or not. An audio context whose `close()` rejects.
* In `HeardByOne` a dictation counts as interrupted as soon as its session may
  have reached the idle limit, also when a single call was in flight for so long.
* The self tests, which run the real models once; deployment and build files;
  fixtures. Requests that hang for ever in the browser.

## 7. Plan

Done: the core (`SttService`, `BatchDecode`, `LazyLoad`, `Dictation`), the
recognizers (`Fbank`, `PersianStream`, `Recognizer`), the composition `EndToEnd`,
the abstract promises `SessionLedger` and `ModelCell` with their refinements
checked and proved, and the process around it (`Config`, `FetchModel`, `Pod`).

Left, in this order:

1. `Dictation` in the place of `EndToEnd`'s client, so that the tail and the
   page's error handling meet restarts in one model;
2. the recognizers under `EndToEnd`, so that what a dictation says, and not only
   which chunks were heard, is a theorem about the whole;
3. a model of `start()` that closes the microphone on every failure, should the
   code come to promise it.
