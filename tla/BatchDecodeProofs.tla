--------------------------- MODULE BatchDecodeProofs ---------------------------
(* Theorems about BatchDecode for any number of calls.                      *)
EXTENDS BatchDecode, TLAPS

USE CallsAssumption

(* The permit accounting is inductive together with the types.              *)
IInv == TypeOK /\ PermitAccounting

(* The permit is there at the start, and nobody waits.                     *)
LEMMA InitInv == Init => IInv
BY DEF Init, IInv, TypeOK, PermitAccounting, Waiting, Answers

(* Every step keeps permit and handlers in balance.                        *)
LEMMA StepInv == IInv /\ [Next]_vars => IInv'
<1> SUFFICES ASSUME IInv, [Next]_vars PROVE IInv'
  OBVIOUS
<1> USE DEF IInv
<1>1. ASSUME NEW c \in Calls, Admit(c) PROVE IInv'
  <2>1. permits = 1 /\ permits' = 0 BY <1>1 DEF Admit, Available, TypeOK
  <2>2. Waiting = {} /\ Waiting' = {c}
    BY <1>1, <2>1 DEF PermitAccounting, Admit, Waiting, TypeOK
  <2>3. TypeOK' BY <1>1, <2>1 DEF Admit, TypeOK
  <2> QED BY <2>1, <2>2, <2>3 DEF PermitAccounting
<1>2. ASSUME NEW c \in Calls, Refuse(c) PROVE IInv'
  <2>1. Waiting' = Waiting BY <1>2 DEF Refuse, Free, Waiting, TypeOK
  <2>2. TypeOK' BY <1>2 DEF Refuse, TypeOK, Answers
  <2> QED BY <1>2, <2>1, <2>2 DEF Refuse, PermitAccounting
<1>3. ASSUME NEW c \in Calls, Task(c) PROVE IInv'
  <2>1. UNCHANGED <<permits, pc>> /\ Waiting' = Waiting
    BY <1>3 DEF Task, Acquire, Decoded, Waiting
  <2>2. TypeOK' BY <1>3, <2>1 DEF Task, Acquire, Lock, Decoded, Ended, TypeOK
  <2> QED BY <2>1, <2>2 DEF PermitAccounting
<1>4. ASSUME NEW c \in Calls, Answer(c) \/ Cancel(c) PROVE IInv'
  <2>1. c \in Waiting /\ permits' = permits + 1
    BY <1>4 DEF Answer, Cancel, Release, Waiting
  <2>2. Waiting = {c} /\ permits = 0 BY <2>1 DEF PermitAccounting, TypeOK
  <2>3. Waiting' = {}
    BY <1>4, <2>2 DEF Answer, Cancel, Waiting, TypeOK
  <2>4. TypeOK'
    BY <1>4, <2>1, <2>2 DEF Answer, Cancel, TypeOK, Answers
  <2> QED BY <2>1, <2>2, <2>3, <2>4 DEF PermitAccounting
<1>5. CASE UNCHANGED vars
  BY <1>5 DEF vars, TypeOK, PermitAccounting, Waiting
<1> QED BY <1>1, <1>2, <1>3, <1>4, <1>5 DEF Next

(* Handlers, tasks, permit and mutex always have their types.               *)
THEOREM TypeCorrect == Spec => []TypeOK
BY InitInv, StepInv, PTL DEF Spec, IInv

(* The permit is never lost and never doubled.                              *)
THEOREM PermitAccountingHolds == Spec => [](TypeOK /\ PermitAccounting)
BY InitInv, StepInv, PTL DEF Spec, IInv

(* A caller is told that the GPU is busy only while another one waits.      *)
THEOREM BusyIsHonestHolds == Spec => BusyIsHonest
<1> DEFINE Honest == \A c \in Calls : pc'[c] = "GpuBusy" /\ pc[c] # "GpuBusy" =>
                        \E d \in Calls \ {c} : pc[d] = "decoding"
<1>1. IInv /\ [Next]_vars => [Honest]_vars
  <2> SUFFICES ASSUME IInv, Next, NEW c \in Calls, pc'[c] = "GpuBusy", pc[c] # "GpuBusy"
               PROVE  \E d \in Calls \ {c} : pc[d] = "decoding"
    OBVIOUS
  <2>1. Refuse(c)
    BY DEF Next, Admit, Refuse, Task, Acquire, Decoded, Answer, Cancel, IInv, TypeOK
  <2>2. permits = 0 BY <2>1 DEF Refuse, Available, IInv, TypeOK
  <2>3. Waiting # {} BY <2>2 DEF IInv, PermitAccounting
  <2> QED BY <2>1, <2>3 DEF Waiting, Refuse, Free
<1> QED BY <1>1, InitInv, StepInv, PTL DEF Spec, BusyIsHonest

(* A task that waits for the mutex gets it: no panic before it fails it.    *)
THEOREM NotFailedByAnotherHolds == Spec => NotFailedByAnother
<1> DEFINE Kept == \A c \in Calls :
                        task[c] = "parked" => task'[c] \in {"parked", "running"}
<1>1. IInv /\ [Next]_vars => [Kept]_vars
  <2> SUFFICES ASSUME IInv, Next, NEW c \in Calls, task[c] = "parked"
               PROVE  task'[c] \in {"parked", "running"}
    OBVIOUS
  <2>1. task \in [Calls -> {"none", "parked", "running", "ok", "failed"}]
    BY DEF IInv, TypeOK
  <2>2. ASSUME NEW d \in Calls, Task(d) PROVE task'[c] \in {"parked", "running"}
    BY <2>1, <2>2 DEF Task, Acquire, Lock, Decoded, Ended
  <2>3. ASSUME NEW d \in Calls, Admit(d) \/ Refuse(d) \/ Answer(d) \/ Cancel(d)
        PROVE  task'[c] \in {"parked", "running"}
    BY <2>1, <2>3 DEF Admit, Free, Refuse, Answer, Cancel
  <2> QED BY <2>2, <2>3 DEF Next
<1> QED BY <1>1, InitInv, StepInv, PTL DEF Spec, NotFailedByAnother
=============================================================================
