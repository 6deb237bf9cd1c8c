------------------------------- MODULE LazyLoad -------------------------------
(***************************************************************************)
(* The lazily loaded streaming model: SttService::handle, the tokio mutex  *)
(* it holds across the load, and the check on the load's GPU memory.       *)
(*                                                                         *)
(* The guard of the mutex lives in the caller's future.  The load lives in *)
(* a blocking task, which goes on when the future is dropped.              *)
(* load_streaming_and_assert_cuda reads the memory in use on the WHOLE GPU *)
(* before and after: that is all it knows of where the model went.         *)
(* fa_model is the same protocol on a lock of its own, with a model that   *)
(* lives on the CPU and no such check.                                     *)
(***************************************************************************)
EXTENDS Naturals, FiniteSets, SequencesExt

CONSTANTS
    Callers,        \* warm_streaming and the streaming calls
    Cancellers,     \* those whose client may hang up
    NoCaller,       \* the guard is free
    Capacity,       \* memory of the card, in units of MIN_DELTA_MIB
    BatchSize,      \* what the batch model takes of it
    StreamSize,     \* what the streaming model takes on the GPU
    ArenaPeak       \* how far batch decodes can make the batch model's arena grow

(* A model that is on the GPU at all is seen by the check.                 *)
ASSUME LoadAssumption ==
    /\ IsFiniteSet(Callers)
    /\ Cancellers \subseteq Callers
    /\ NoCaller \notin Callers
    /\ Capacity \in Nat /\ BatchSize \in Nat /\ ArenaPeak \in Nat
    /\ StreamSize \in Nat \ {0}

VARIABLES
    pc,             \* the caller's future
    waiters,        \* callers queued for the guard, first come first served
    guard,          \* the caller that holds it
    slot,           \* the cached model: where it lives, or "none"
    load,           \* the blocking task of a caller
    arena,          \* growth of the batch model's memory
    disturbed       \* history: see Disturb

vars == <<pc, waiters, guard, slot, load, arena, disturbed>>

-----------------------------------------------------------------------------

NoLoad == [at |-> "none", baseline |-> 0, place |-> "none"]

Load == [at : {"none", "spawned", "measured", "placed", "accepted", "failed"},
         baseline : Nat, place : {"none", "gpu", "cpu"}]

TypeOK ==
    /\ pc \in [Callers -> {"idle", "waiting", "loading", "ok", "failed"}]
    /\ waiters \in Seq(Callers)
    /\ guard \in Callers \cup {NoCaller}
    /\ slot \in {"none", "gpu", "cpu"}
    /\ load \in [Callers -> Load]
    /\ arena \in 0 .. ArenaPeak
    /\ disturbed \in BOOLEAN

(* Streaming models that hold GPU memory before they reach the slot.       *)
Resident == {c \in Callers : load[c].place = "gpu"}

(* What nvidia-smi reports. *)
Used == BatchSize + arena + StreamSize * Cardinality(Resident)
            + (IF slot = "gpu" THEN StreamSize ELSE 0)

Init ==
    /\ pc = [c \in Callers |-> "idle"]
    /\ waiters = << >>
    /\ guard = NoCaller
    /\ slot = "none"
    /\ load = [c \in Callers |-> NoLoad]
    /\ arena = 0
    /\ disturbed = FALSE

-----------------------------------------------------------------------------
(* handle()                                                                *)

Enter(c) ==
    /\ pc[c] \in {"idle", "ok", "failed"}
    /\ load[c] = NoLoad
    /\ pc' = [pc EXCEPT ![c] = "waiting"]
    /\ waiters' = Append(waiters, c)
    /\ UNCHANGED <<guard, slot, load, arena, disturbed>>

Unguarded == TRUE
GuardFree == guard = NoCaller

NextInLine(c) ==
    /\ GuardFree
    /\ pc[c] = "waiting"
    /\ waiters # << >>
    /\ Head(waiters) = c
    /\ waiters' = Tail(waiters)

(* The model is there: its clone is returned, the guard not kept.          *)
NeverCached == FALSE
Cached == slot # "none"

TakeCached(c) ==
    /\ NextInLine(c)
    /\ Cached
    /\ pc' = [pc EXCEPT ![c] = "ok"]
    /\ UNCHANGED <<guard, slot, load, arena, disturbed>>

TakeEmpty(c) ==
    /\ NextInLine(c)
    /\ ~Cached
    /\ guard' = c
    /\ pc' = [pc EXCEPT ![c] = "loading"]
    /\ load' = [load EXCEPT ![c] = [NoLoad EXCEPT !.at = "spawned"]]
    /\ UNCHANGED <<slot, arena, disturbed>>

(* The load's result is cached, and the guard given back.                  *)
Forgotten(c) == slot
StepTaken(c) == load[c].at
Kept(c) == load[c].place

Store(c) ==
    /\ pc[c] = "loading"
    /\ load[c].at = "accepted"
    /\ slot' = Kept(c)
    /\ load' = [load EXCEPT ![c] = NoLoad]
    /\ pc' = [pc EXCEPT ![c] = "ok"]
    /\ guard' = NoCaller
    /\ UNCHANGED <<waiters, arena, disturbed>>

(* A failed load caches nothing: the next caller tries again.              *)
KeepGuard == guard
FreeGuard == NoCaller

GiveUp(c) ==
    /\ pc[c] = "loading"
    /\ load[c].at = "failed"
    /\ load' = [load EXCEPT ![c] = NoLoad]
    /\ pc' = [pc EXCEPT ![c] = "failed"]
    /\ guard' = FreeGuard
    /\ UNCHANGED <<waiters, slot, arena, disturbed>>

-----------------------------------------------------------------------------
(* load_streaming_and_assert_cuda, in its blocking task                    *)

(* A task whose caller has gone drops what it ends with.                   *)
Result(c, l) ==
    load' = [load EXCEPT ![c] =
                IF l.at \in {"accepted", "failed"} /\ pc[c] # "loading"
                THEN NoLoad ELSE l]

Failed == [NoLoad EXCEPT !.at = "failed"]

Baseline(c) ==
    /\ load[c].at = "spawned"
    /\ \/ Result(c, [load[c] EXCEPT !.at = "measured", !.baseline = Used])
       \/ Result(c, Failed)
    /\ UNCHANGED <<pc, waiters, guard, slot, arena, disturbed>>

(* from_pretrained and the warmup decode: on the GPU if it fits; ORT falls *)
(* back to the CPU, for want of room or of the provider, and says nothing. *)
Place(c) ==
    /\ load[c].at = "measured"
    /\ \/ /\ Used + StreamSize <= Capacity
          /\ Result(c, [load[c] EXCEPT !.at = "placed", !.place = "gpu"])
       \/ Result(c, [load[c] EXCEPT !.at = "placed", !.place = "cpu"])
       \/ Result(c, Failed)
    /\ UNCHANGED <<pc, waiters, guard, slot, arena, disturbed>>

(* Memory that did not grow by one unit of MIN_DELTA_MIB is a CPU session. *)
AnyDelta(c) == Used >= load[c].baseline
Engaged(c) == Used >= load[c].baseline + 1

AssertCuda(c) ==
    /\ load[c].at = "placed"
    /\ \/ Engaged(c) /\ Result(c, [load[c] EXCEPT !.at = "accepted"])
       \/ ~Engaged(c) /\ Result(c, Failed)
       \/ Engaged(c) /\ Result(c, Failed)      \* nvidia-smi itself may fail
    /\ UNCHANGED <<pc, waiters, guard, slot, arena, disturbed>>

-----------------------------------------------------------------------------

(* A load is disturbed by one that its caller left behind, and by growth   *)
(* of the arena beside it.                                                 *)
Disturb(now) == disturbed' = (disturbed \/ now)

(* The client hangs up: the future goes, with its place in the queue or    *)
(* with the guard; its load goes on, a result nobody took is dropped.      *)
Cancel(c) ==
    /\ c \in Cancellers
    /\ \/ /\ pc[c] = "waiting"
          /\ \E n \in DOMAIN waiters : waiters[n] = c /\ waiters' = RemoveAt(waiters, n)
       \/ /\ pc[c] = "loading"
          /\ UNCHANGED waiters
    /\ pc' = [pc EXCEPT ![c] = "idle"]
    /\ guard' = IF guard = c THEN NoCaller ELSE guard
    /\ load' = [load EXCEPT ![c] = IF @.at \in {"accepted", "failed"} THEN NoLoad
                                                                      ELSE @]
    /\ Disturb(load'[c] # NoLoad)
    /\ UNCHANGED <<slot, arena>>

(* A longer batch decode than any before makes its arena grow for good.    *)
GrowArena ==
    /\ arena < ArenaPeak
    /\ Used < Capacity
    /\ arena' = arena + 1
    /\ Disturb(\E c \in Callers : load[c] # NoLoad)
    /\ UNCHANGED <<pc, waiters, guard, slot, load>>

Future(c) == TakeCached(c) \/ TakeEmpty(c) \/ Store(c) \/ GiveUp(c)
Task(c) == Baseline(c) \/ Place(c) \/ AssertCuda(c)

Next == GrowArena \/ \E c \in Callers : Enter(c) \/ Future(c) \/ Task(c) \/ Cancel(c)

Spec == Init /\ [][Next]_vars

(* Futures that can go on are polled and blocking tasks are run; the tokio  *)
(* mutex queues its waiters.                                                *)
FairSpec == Spec /\ \A c \in Callers : WF_vars(Future(c)) /\ WF_vars(Task(c))

-----------------------------------------------------------------------------

(* Nobody is told that the model is there, or opens a session on it, when   *)
(* it is not.                                                               *)
OkMeansLoaded == \A c \in Callers : pc[c] = "ok" => slot # "none"

(* A caller waits in the queue for the guard or behind its own load; from   *)
(* outside both are asking.                                                 *)
Told == [c \in Callers |-> CASE pc[c] = "idle"                  -> "nothing"
                             [] pc[c] \in {"waiting", "loading"} -> "asking"
                             [] OTHER                            -> pc[c]]

Cell == INSTANCE ModelCell WITH cell <- slot, asked <- Told

(* The guard, the loads and the hang-ups keep the promise of the cell: no   *)
(* later load, and none that a client left behind, replaces the model, no   *)
(* caller is told ok without one, and none is failed once there is one.     *)
FillsCellOnce == Cell!Spec

(* Liveness: every caller gets the model, a failure or gives up, and a load *)
(* that failed or lost its caller does not keep the others waiting.         *)
CallerEnds == \A c \in Callers : pc[c] = "waiting" ~> pc[c] \in {"idle", "ok", "failed"}

(* The field's comment: "concurrent first-requests wait on one load instead *)
(* of racing to start several".  Of the loads that run side by side, all    *)
(* but one were left behind by clients that hung up.                        *)
OneLoad ==
    \A c, d \in Callers :
        /\ load[c].at # "none" /\ pc[c] = "loading"
        /\ load[d].at # "none" /\ pc[d] = "loading"
        => c = d

(* A model on the CPU gets past the check only if a load was left behind or *)
(* the batch arena grew while a load was measuring.                         *)
CpuOnlyIfDisturbed == slot = "cpu" => disturbed

(* load_streaming_and_assert_cuda: "refuse to hand back one that is         *)
(* secretly on CPU".                                                        *)
NeverOnCpu == slot # "cpu"
=============================================================================
