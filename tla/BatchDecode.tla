------------------------------ MODULE BatchDecode ------------------------------
(***************************************************************************)
(* Whole-utterance decoding (an empty session_id): SttService's            *)
(* decode_offline, the Semaphore(1) in front of it and the mutex around    *)
(* the batch model.                                                        *)
(*                                                                         *)
(* The permit belongs to the handler's future, the decode to a blocking    *)
(* task.  They part when the client hangs up: the future is dropped and    *)
(* its permit with it, the task runs on.                                   *)
(***************************************************************************)
EXTENDS Naturals

CONSTANTS
    Calls,          \* slots for calls and for the tasks they leave behind
    NoCall          \* the mutex is free

ASSUME CallsAssumption == NoCall \notin Calls

VARIABLES
    permits,        \* permits left in the semaphore
    pc,             \* the handler: idle, decoding, or its answer
    task,           \* its blocking task
    holder,         \* whose task holds the model's mutex
    poisoned        \* a panic has poisoned the mutex

vars == <<permits, pc, task, holder, poisoned>>

Answers == {"ok", "Internal", "GpuBusy"}

TypeOK ==
    /\ permits \in {0, 1}
    /\ pc \in [Calls -> {"idle", "decoding"} \cup Answers]
    /\ task \in [Calls -> {"none", "parked", "running", "ok", "failed"}]
    /\ holder \in Calls \cup {NoCall}
    /\ poisoned \in BOOLEAN

Init ==
    /\ permits = 1
    /\ pc = [c \in Calls |-> "idle"]
    /\ task = [c \in Calls |-> "none"]
    /\ holder = NoCall
    /\ poisoned = FALSE

-----------------------------------------------------------------------------

(* A slot is free for a new call once nothing of the last one is left.     *)
Free(c) == pc[c] # "decoding" /\ task[c] = "none"

(* try_acquire_owned: a permit is there or the call is refused.            *)
AlwaysAvailable == TRUE
Available == permits > 0

(* The permit is taken before the task is spawned.                         *)
Admit(c) ==
    /\ Free(c)
    /\ Available
    /\ permits' = permits - 1
    /\ pc' = [pc EXCEPT ![c] = "decoding"]
    /\ task' = [task EXCEPT ![c] = "parked"]
    /\ UNCHANGED <<holder, poisoned>>

Refuse(c) ==
    /\ Free(c)
    /\ ~Available
    /\ pc' = [pc EXCEPT ![c] = "GpuBusy"]
    /\ UNCHANGED <<permits, task, holder, poisoned>>

-----------------------------------------------------------------------------
(* The task: lock the model, decode, unlock.                               *)

(* A task without a handler has nobody to tell its result.                 *)
Ended(c, result) ==
    task' = [task EXCEPT ![c] = IF pc[c] = "decoding" THEN result ELSE "none"]

(* lock(): a poisoned mutex is recovered, it is locked like any other.     *)
LockUnwrapped(c) ==
    IF poisoned THEN Ended(c, "failed") /\ UNCHANGED holder
                ELSE task' = [task EXCEPT ![c] = "running"] /\ holder' = c
Lock(c) == task' = [task EXCEPT ![c] = "running"] /\ holder' = c

Acquire(c) ==
    /\ task[c] = "parked"
    /\ holder = NoCall
    /\ Lock(c)
    /\ UNCHANGED <<permits, pc, poisoned>>

(* A decode returns a result or an error, or panics with the guard held.   *)
Decoded(c) ==
    /\ task[c] = "running"
    /\ \E result \in {"ok", "failed"}, panics \in BOOLEAN :
        /\ panics => result = "failed"
        /\ Ended(c, result)
        /\ poisoned' = (poisoned \/ panics)
    /\ holder' = NoCall
    /\ UNCHANGED <<permits, pc>>

-----------------------------------------------------------------------------
(* The handler: its permit goes with it, however it ends.                  *)

ReleaseOnOk(c) == permits' = IF task[c] = "ok" THEN permits + 1 ELSE permits
Release(c) == permits' = permits + 1

Answer(c) ==
    /\ pc[c] = "decoding"
    /\ task[c] \in {"ok", "failed"}
    /\ pc' = [pc EXCEPT ![c] = IF task[c] = "ok" THEN "ok" ELSE "Internal"]
    /\ task' = [task EXCEPT ![c] = "none"]
    /\ Release(c)
    /\ UNCHANGED <<holder, poisoned>>

Cancel(c) ==
    /\ pc[c] = "decoding"
    /\ pc' = [pc EXCEPT ![c] = "idle"]
    /\ task' = [task EXCEPT ![c] = IF @ \in {"ok", "failed"} THEN "none" ELSE @]
    /\ Release(c)
    /\ UNCHANGED <<holder, poisoned>>

-----------------------------------------------------------------------------

Task(c) == Acquire(c) \/ Decoded(c)

Next == \E c \in Calls : Admit(c) \/ Refuse(c) \/ Task(c) \/ Answer(c) \/ Cancel(c)

Spec == Init /\ [][Next]_vars

(* Blocking tasks are run and futures that can go on are polled.  The std   *)
(* mutex is not fair, so no more than weak fairness is asked of Acquire.    *)
FairSpec == Spec /\ \A c \in Calls : WF_vars(Task(c)) /\ WF_vars(Answer(c))

-----------------------------------------------------------------------------
(* Safety                                                                  *)

Waiting == {c \in Calls : pc[c] = "decoding"}

(* The one permit is in the semaphore or with exactly one waiting handler:  *)
(* no error, panic or hang-up loses it (batch would be refused for ever) or *)
(* returns it twice (two callers would be admitted).                        *)
PermitAccounting ==
    /\ permits = 1 <=> Waiting = {}
    /\ \A c, d \in Waiting : c = d

(* "The GPU is busy" is said only while another caller really waits for its *)
(* decode, never because of one that failed or left.                        *)
BusyIsHonest ==
    [][\A c \in Calls : pc'[c] = "GpuBusy" /\ pc[c] # "GpuBusy" =>
            \E d \in Calls \ {c} : pc[d] = "decoding"]_vars

(* A caller is failed by its own decode only: a task that waits for the     *)
(* mutex gets it, whatever the decode before it did to the mutex.           *)
NotFailedByAnother ==
    [][\A c \in Calls : task[c] = "parked" => task'[c] \in {"parked", "running"}]_vars

(* Liveness: a caller that was admitted is answered unless it leaves.  Its  *)
(* permit keeps newcomers out, so the tasks it may have to wait for are     *)
(* those that hang-ups left behind before it came.                          *)
AdmittedIsAnswered == \A c \in Calls : pc[c] = "decoding" ~> pc[c] # "decoding"
=============================================================================
