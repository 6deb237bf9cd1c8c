---------------------------- MODULE LazyLoadProofs ----------------------------
(* Theorems about LazyLoad for any number of callers and any card.          *)
EXTENDS LazyLoad, FiniteSetTheorems, TLAPS

USE LoadAssumption

-----------------------------------------------------------------------------
(* Who loads holds the guard, and while a load may still be stored there is *)
(* no model.  This holds with hang-ups too.                                 *)
Guarded ==
    \A c \in Callers : pc[c] = "loading" <=> guard = c

EmptyWhileLoading ==
    \A c \in Callers : pc[c] = "loading" => slot = "none"

Types ==
    /\ pc \in [Callers -> {"idle", "waiting", "loading", "ok", "failed"}]
    /\ guard \in Callers \cup {NoCaller}
    /\ slot \in {"none", "gpu", "cpu"}
    /\ load \in [Callers -> Load]
    /\ \A c \in Callers : load[c].at = "accepted" => load[c].place \in {"gpu", "cpu"}
    /\ \A c \in Callers : load[c].at = "placed" => load[c].place \in {"gpu", "cpu"}
    /\ arena \in Nat /\ disturbed \in BOOLEAN

GInv == Types /\ Guarded /\ EmptyWhileLoading /\ OkMeansLoaded

(* The memory in use is a number.                                          *)
LEMMA UsedNat == Types => Used \in Nat
<1> SUFFICES ASSUME Types PROVE Used \in Nat OBVIOUS
<1>1. IsFiniteSet(Resident) BY FS_Subset DEF Resident
<1>2. Cardinality(Resident) \in Nat BY <1>1, FS_CardinalityType
<1>3. StreamSize * Cardinality(Resident) \in Nat BY <1>2
<1> QED BY <1>3 DEF Used, Types

(* A load that failed and no load at all are loads.                        *)
LEMMA FailedType == Failed \in Load /\ NoLoad \in Load
BY DEF Failed, NoLoad, Load

(* At the start nobody holds the guard.                                    *)
LEMMA GInit == Init => GInv
<1> SUFFICES ASSUME Init PROVE GInv OBVIOUS
<1>1. load \in [Callers -> Load] /\ \A c \in Callers : load[c].at = "none"
  BY FailedType DEF Init, NoLoad
<1>2. Types BY <1>1 DEF Init, Types
<1> QED BY <1>2 DEF Init, GInv, Guarded, EmptyWhileLoading, OkMeansLoaded

(* A step of a task changes nothing but its own load.                       *)
LEMMA TaskTypes ==
    ASSUME Types, NEW c \in Callers, Task(c)
    PROVE  /\ Types'
           /\ UNCHANGED <<pc, guard, slot, arena, disturbed>>
           /\ \A d \in Callers \ {c} : load'[d] = load[d]
<1>1. UNCHANGED <<pc, guard, slot, arena, disturbed>> BY DEF Task, Baseline, Place, AssertCuda
<1>2. load[c] \in Load /\ Used \in Nat BY UsedNat DEF Types
<1>3. \E l \in Load : /\ Result(c, l)
                      /\ l.at \in {"accepted", "placed"} => l.place \in {"gpu", "cpu"}
  <2>1. CASE Baseline(c)
    <3>1. [load[c] EXCEPT !.at = "measured", !.baseline = Used] \in Load BY <1>2 DEF Load
    <3>2. [load[c] EXCEPT !.at = "measured", !.baseline = Used].at = "measured"
      BY <1>2 DEF Load
    <3> QED BY <2>1, <3>1, <3>2, FailedType DEF Baseline, Failed, NoLoad
  <2>2. CASE Place(c)
    <3>1. \A p \in {"gpu", "cpu"} :
            /\ [load[c] EXCEPT !.at = "placed", !.place = p] \in Load
            /\ [load[c] EXCEPT !.at = "placed", !.place = p].place = p
      BY <1>2 DEF Load
    <3> QED BY <2>2, <3>1, FailedType DEF Place, Failed, NoLoad
  <2>3. CASE AssertCuda(c)
    <3>1. /\ [load[c] EXCEPT !.at = "accepted"] \in Load
          /\ [load[c] EXCEPT !.at = "accepted"].place = load[c].place
      BY <1>2 DEF Load
    <3> QED BY <2>3, <3>1, FailedType DEF AssertCuda, Failed, NoLoad, Types
  <2> QED BY <2>1, <2>2, <2>3 DEF Task
<1>4. PICK l \in Load : /\ Result(c, l)
                        /\ l.at \in {"accepted", "placed"} => l.place \in {"gpu", "cpu"}
  BY <1>3
<1>5. \A d \in Callers \ {c} : load'[d] = load[d] BY <1>4 DEF Result, Types
<1>6. load' \in [Callers -> Load] /\ load'[c] \in {l, NoLoad}
  BY <1>4, FailedType DEF Result, Types
<1>7. Types' BY <1>1, <1>4, <1>5, <1>6 DEF Types, NoLoad
<1> QED BY <1>1, <1>5, <1>7

(* Every step keeps the guard with the one who loads.                      *)
LEMMA GStep == GInv /\ [Next]_vars => GInv'
<1> SUFFICES ASSUME GInv, [Next]_vars PROVE GInv'
  OBVIOUS
<1> USE DEF GInv
<1>1. ASSUME NEW c \in Callers, Enter(c) PROVE GInv'
  BY <1>1 DEF Enter, Types, Guarded, EmptyWhileLoading, OkMeansLoaded
<1>2. ASSUME NEW c \in Callers, TakeCached(c) PROVE GInv'
  BY <1>2 DEF TakeCached, NextInLine, GuardFree, Cached, Types, Guarded,
              EmptyWhileLoading, OkMeansLoaded
<1>3. ASSUME NEW c \in Callers, TakeEmpty(c) PROVE GInv'
  <2> DEFINE l == [NoLoad EXCEPT !.at = "spawned"]
  <2>1. l \in Load /\ l.at = "spawned" BY DEF NoLoad, Load
  <2>2. load' = [load EXCEPT ![c] = l] BY <1>3 DEF TakeEmpty
  <2> HIDE DEF l
  <2>3. Types' BY <1>3, <2>1, <2>2 DEF TakeEmpty, Types
  <2>4. Guarded' /\ EmptyWhileLoading' /\ OkMeansLoaded'
    BY <1>3 DEF TakeEmpty, NextInLine, GuardFree, Cached, Types, Guarded,
                EmptyWhileLoading, OkMeansLoaded
  <2> QED BY <2>3, <2>4
<1>4. ASSUME NEW c \in Callers, Store(c) PROVE GInv'
  <2>1. Types' BY <1>4, FailedType DEF Store, Kept, Types, NoLoad
  <2>2. slot' # "none" BY <1>4 DEF Store, Kept, Types
  <2>3. Guarded' /\ EmptyWhileLoading'
    BY <1>4 DEF Store, Types, Guarded, EmptyWhileLoading
  <2> QED BY <2>1, <2>2, <2>3 DEF OkMeansLoaded
<1>5. ASSUME NEW c \in Callers, GiveUp(c) PROVE GInv'
  <2>1. Types' BY <1>5, FailedType DEF GiveUp, FreeGuard, Types, NoLoad
  <2>2. Guarded' /\ EmptyWhileLoading' /\ OkMeansLoaded'
    BY <1>5 DEF GiveUp, FreeGuard, Types, Guarded, EmptyWhileLoading, OkMeansLoaded
  <2> QED BY <2>1, <2>2
<1>6. ASSUME NEW c \in Callers, Task(c) PROVE GInv'
  <2>1. Types' /\ UNCHANGED <<pc, guard, slot, arena, disturbed>> BY <1>6, TaskTypes
  <2> QED BY <2>1 DEF Guarded, EmptyWhileLoading, OkMeansLoaded
<1>7. ASSUME NEW c \in Callers, Cancel(c) PROVE GInv'
  <2>1. load' \in [Callers -> Load] /\ \A d \in Callers : load'[d] \in {load[d], NoLoad}
    BY <1>7, FailedType DEF Cancel, Types
  <2>2. Types' BY <1>7, <2>1 DEF Cancel, Disturb, Types, NoLoad
  <2>3. Guarded' /\ EmptyWhileLoading' /\ OkMeansLoaded'
    BY <1>7 DEF Cancel, Types, Guarded, EmptyWhileLoading, OkMeansLoaded
  <2> QED BY <2>2, <2>3
<1>8. CASE GrowArena
  BY <1>8 DEF GrowArena, Disturb, Types, Guarded, EmptyWhileLoading, OkMeansLoaded
<1>9. CASE UNCHANGED vars
  BY <1>9 DEF vars, Types, Guarded, EmptyWhileLoading, OkMeansLoaded
<1> QED BY <1>1, <1>2, <1>3, <1>4, <1>5, <1>6, <1>7, <1>8, <1>9 DEF Next, Future

(* The guard is with the one caller that loads, whoever hangs up.          *)
THEOREM GuardInvariant == Spec => []GInv
BY GInit, GStep, PTL DEF Spec

(* "ok" is only ever answered with a model in the slot.                     *)
THEOREM OkMeansLoadedHolds == Spec => []OkMeansLoaded
<1>1. GInv => OkMeansLoaded BY DEF GInv
<1> QED BY <1>1, GuardInvariant, PTL

-----------------------------------------------------------------------------
(* As long as no load was disturbed, every load belongs to the holder of    *)
(* the guard, so what the check measures is that load's own memory.         *)

Undisturbed ==
    ~disturbed =>
        /\ \A c \in Callers : load[c] # NoLoad => pc[c] = "loading"
        /\ \A c \in Callers : load[c].at \in {"measured", "placed"} =>
                load[c].baseline = BatchSize + arena
        /\ \A c \in Callers : load[c].at \in {"none", "spawned", "measured", "failed"} =>
                load[c].place = "none"
        /\ \A c \in Callers : load[c].at = "accepted" => load[c].place = "gpu"
        /\ slot # "cpu"

(* While nothing disturbs it, a load is the only one.                      *)
LEMMA UndisturbedOne ==
    ASSUME GInv, Undisturbed, ~disturbed, NEW c \in Callers, pc[c] = "loading"
    PROVE  /\ slot = "none"
           /\ \A d \in Callers \ {c} : load[d] = NoLoad
           /\ load[c].place # "gpu" => Used = BatchSize + arena
<1>1. slot = "none" BY DEF GInv, EmptyWhileLoading
<1>2. \A d \in Callers \ {c} : load[d] = NoLoad
  BY DEF GInv, Guarded, Undisturbed
<1>3. load[c].place # "gpu" => Resident = {}
  BY <1>2 DEF Resident, NoLoad
<1>4. load[c].place # "gpu" => Used = BatchSize + arena
  <2>1. BatchSize + arena \in Nat /\ StreamSize * 0 = 0 BY DEF GInv, Types
  <2>2. Resident = {} => Cardinality(Resident) = 0 BY FS_EmptySet
  <2> QED BY <1>1, <1>3, <2>1, <2>2 DEF Used
<1> QED BY <1>1, <1>2, <1>4

(* A load that is alone is measured by its own memory.                     *)
LEMMA UndisturbedTask ==
    ASSUME GInv, Undisturbed, NEW c \in Callers, Task(c)
    PROVE  Undisturbed'
<1>1. /\ UNCHANGED <<pc, guard, slot, arena, disturbed>>
      /\ \A d \in Callers \ {c} : load'[d] = load[d]
  BY TaskTypes DEF GInv
<1> SUFFICES ASSUME ~disturbed PROVE Undisturbed'
  BY <1>1 DEF Undisturbed
<1>2. load[c] \in Load /\ load[c].at # "none" /\ load[c] # NoLoad
  BY DEF Task, Baseline, Place, AssertCuda, GInv, Types, NoLoad
<1>3. pc[c] = "loading" BY <1>2 DEF Undisturbed
<1>4. load[c].place # "gpu" => Used = BatchSize + arena BY <1>3, UndisturbedOne
<1>5. /\ load'[c].at \in {"measured", "placed"} => load'[c].baseline = BatchSize + arena
      /\ load'[c].at \in {"none", "spawned", "measured", "failed"} => load'[c].place = "none"
      /\ load'[c].at = "accepted" => load'[c].place = "gpu"
  <2>1. \A l : Result(c, l) => load'[c] = l BY <1>3 DEF Result, GInv, Types
  <2>2. Failed.at = "failed" /\ Failed.place = "none" BY DEF Failed, NoLoad
  <2>3. CASE Baseline(c)
    <3>1. load[c].place = "none" BY <2>3 DEF Baseline, Undisturbed
    <3>2. Used = BatchSize + arena BY <1>4, <3>1
    <3> DEFINE l == [load[c] EXCEPT !.at = "measured", !.baseline = Used]
    <3>3. load'[c] \in {l, Failed} BY <2>1, <2>3 DEF Baseline
    <3>4. l.at = "measured" /\ l.baseline = Used /\ l.place = "none"
      BY <1>2, <3>1 DEF Load
    <3> QED BY <2>2, <3>2, <3>3, <3>4
  <2>4. CASE Place(c)
    <3>1. \A p \in {"gpu", "cpu"} :
            /\ [load[c] EXCEPT !.at = "placed", !.place = p].at = "placed"
            /\ [load[c] EXCEPT !.at = "placed", !.place = p].baseline = load[c].baseline
      BY <1>2 DEF Load
    <3>2. \/ load'[c].at = "placed" /\ load'[c].baseline = load[c].baseline
          \/ load'[c] = Failed
      BY <2>1, <2>4, <3>1 DEF Place
    <3>3. load[c].baseline = BatchSize + arena BY <2>4 DEF Place, Undisturbed
    <3> QED BY <2>2, <3>2, <3>3
  <2>5. CASE AssertCuda(c)
    <3>1. load[c].baseline = BatchSize + arena BY <2>5 DEF AssertCuda, Undisturbed
    <3>2. Engaged(c) => load[c].place = "gpu"
      BY <1>4, <3>1 DEF Engaged, GInv, Types
    <3> DEFINE l == [load[c] EXCEPT !.at = "accepted"]
    <3>3. load'[c] = Failed \/ (load'[c] = l /\ Engaged(c))
      BY <2>1, <2>5 DEF AssertCuda
    <3>4. l.at = "accepted" /\ l.place = load[c].place BY <1>2 DEF Load
    <3> QED BY <2>2, <3>2, <3>3, <3>4
  <2> QED BY <2>3, <2>4, <2>5 DEF Task
<1> QED BY <1>1, <1>3, <1>5 DEF Undisturbed

(* Every step keeps undisturbed loads alone.                               *)
LEMMA UndisturbedStep ==
    ASSUME GInv, Undisturbed, [Next]_vars
    PROVE  Undisturbed'
<1>1. ASSUME NEW c \in Callers, Enter(c) PROVE Undisturbed'
  BY <1>1 DEF Enter, Undisturbed, GInv, Types
<1>2. ASSUME NEW c \in Callers, TakeCached(c) PROVE Undisturbed'
  <2>1. pc[c] # "loading"
    BY <1>2 DEF TakeCached, NextInLine, GuardFree, GInv, Guarded
  <2> QED BY <1>2, <2>1 DEF TakeCached, Undisturbed, GInv, Types
<1>3. ASSUME NEW c \in Callers, TakeEmpty(c) PROVE Undisturbed'
  <2> DEFINE l == [NoLoad EXCEPT !.at = "spawned"]
  <2>1. l.at = "spawned" /\ l.place = "none" BY DEF NoLoad
  <2>2. load' = [load EXCEPT ![c] = l] BY <1>3 DEF TakeEmpty
  <2> HIDE DEF l
  <2> QED BY <1>3, <2>1, <2>2 DEF TakeEmpty, Undisturbed, GInv, Types
<1>4. ASSUME NEW c \in Callers, Store(c) PROVE Undisturbed'
  BY <1>4 DEF Store, Kept, Undisturbed, GInv, Types, NoLoad
<1>5. ASSUME NEW c \in Callers, GiveUp(c) PROVE Undisturbed'
  BY <1>5 DEF GiveUp, Undisturbed, GInv, Types, NoLoad
<1>6. ASSUME NEW c \in Callers, Task(c) PROVE Undisturbed'
  BY <1>6, UndisturbedTask
<1>7. ASSUME NEW c \in Callers, Cancel(c) PROVE Undisturbed'
  <2> SUFFICES ASSUME ~disturbed' PROVE Undisturbed'
    BY DEF Undisturbed
  <2>1. load'[c] = NoLoad /\ ~disturbed BY <1>7 DEF Cancel, Disturb
  <2>2. \A d \in Callers \ {c} : load'[d] = load[d] /\ pc'[d] = pc[d]
    BY <1>7 DEF Cancel, GInv, Types
  <2> QED BY <1>7, <2>1, <2>2 DEF Cancel, Undisturbed, NoLoad
<1>8. CASE GrowArena
  <2> SUFFICES ASSUME ~disturbed' PROVE Undisturbed'
    BY DEF Undisturbed
  <2>1. ~disturbed /\ \A c \in Callers : load[c] = NoLoad
    BY <1>8 DEF GrowArena, Disturb
  <2> QED BY <1>8, <2>1 DEF GrowArena, Undisturbed, NoLoad
<1>9. CASE UNCHANGED vars
  BY <1>9 DEF vars, Undisturbed
<1> QED BY <1>1, <1>2, <1>3, <1>4, <1>5, <1>6, <1>7, <1>8, <1>9 DEF Next, Future

(* The check does what it promises whenever no load was disturbed: then no  *)
(* model on the CPU is handed out.                                          *)
THEOREM CpuOnlyIfDisturbedHolds == Spec => []CpuOnlyIfDisturbed
<1>1. Init => Undisturbed BY DEF Init, Undisturbed, NoLoad
<1>2. GInv /\ Undisturbed /\ [Next]_vars => Undisturbed' BY UndisturbedStep
<1>3. GInv /\ Undisturbed => CpuOnlyIfDisturbed
  BY DEF GInv, Types, Undisturbed, CpuOnlyIfDisturbed
<1> QED BY <1>1, <1>2, <1>3, GuardInvariant, PTL DEF Spec

-----------------------------------------------------------------------------
(* The refinement.  A caller that loads finds the cell empty when it comes  *)
(* back, so whatever it does then is a Fill or a Fail; what its task does   *)
(* is not seen from outside.                                                *)

(* What a caller has been told follows from where it is.                   *)
LEMMA ToldStep ==
    ASSUME Types, NEW c \in Callers, NEW v, pc' = [pc EXCEPT ![c] = v]
    PROVE  Told' = [Told EXCEPT ![c] =
               CASE v = "idle"                  -> "nothing"
                 [] v \in {"waiting", "loading"} -> "asking"
                 [] OTHER                       -> v]
BY DEF Types, Told

(* The cell is empty at the start.                                         *)
LEMMA CellInit == Init => Cell!Init
BY DEF Init, Cell!Init, Told

(* Every step is a step of the cell, or none.                              *)
LEMMA CellStep == GInv /\ [Next]_vars => [Cell!Next]_(Cell!cellVars)
<1> SUFFICES ASSUME GInv, [Next]_vars PROVE [Cell!Next]_(Cell!cellVars)
  OBVIOUS
<1>0. Types /\ EmptyWhileLoading BY DEF GInv
<1>1. ASSUME NEW c \in Callers, Enter(c) PROVE Cell!Ask(c)
  BY <1>0, <1>1, ToldStep DEF Enter, Cell!Ask, Told
<1>2. ASSUME NEW c \in Callers, TakeCached(c) PROVE Cell!Share(c)
  BY <1>0, <1>2, ToldStep DEF TakeCached, NextInLine, Cached, Cell!Share, Told
<1>3. ASSUME NEW c \in Callers, TakeEmpty(c) PROVE UNCHANGED Cell!cellVars
  <2>1. Told[c] = "asking" BY <1>3 DEF TakeEmpty, NextInLine, Told
  <2>2. Told' = [Told EXCEPT ![c] = "asking"]
    BY <1>0, <1>3, ToldStep DEF TakeEmpty
  <2>3. Told' = Told BY <2>1, <2>2 DEF Told
  <2> QED BY <1>3, <2>3 DEF TakeEmpty, Cell!cellVars
<1>4. ASSUME NEW c \in Callers, Store(c) PROVE Cell!Fill(c)
  <2>1. slot' \in {"gpu", "cpu"} BY <1>0, <1>4 DEF Store, Kept, Types
  <2>2. slot = "none" BY <1>0, <1>4 DEF Store, EmptyWhileLoading
  <2> QED BY <1>0, <1>4, <2>1, <2>2, ToldStep DEF Store, Cell!Fill, Told
<1>5. ASSUME NEW c \in Callers, GiveUp(c) PROVE Cell!Fail(c)
  <2>1. slot = "none" BY <1>0, <1>5 DEF GiveUp, EmptyWhileLoading
  <2> QED BY <1>0, <1>5, <2>1, ToldStep DEF GiveUp, Cell!Fail, Told
<1>6. ASSUME NEW c \in Callers, Task(c) PROVE UNCHANGED Cell!cellVars
  BY <1>0, <1>6, TaskTypes DEF Cell!cellVars, Told
<1>7. ASSUME NEW c \in Callers, Cancel(c) PROVE Cell!Leave(c)
  BY <1>0, <1>7, ToldStep DEF Cancel, Cell!Leave, Told
<1>8. CASE GrowArena
  BY <1>8 DEF GrowArena, Cell!cellVars, Told
<1>9. CASE UNCHANGED vars
  BY <1>9 DEF vars, Cell!cellVars, Told
<1> QED BY <1>1, <1>2, <1>3, <1>4, <1>5, <1>6, <1>7, <1>8, <1>9 DEF Next, Future, Cell!Next

(* The model is put in its cell once and for good, nobody is told ok        *)
(* without it, and nobody is failed beside it: LazyLoad implements          *)
(* ModelCell, for any callers, hang-ups and loads.                          *)
THEOREM FillsCellOnceHolds == Spec => FillsCellOnce
<1>1. Init => Cell!Init BY CellInit
<1>2. GInv /\ [Next]_vars => [Cell!Next]_(Cell!cellVars) BY CellStep
<1> QED BY <1>1, <1>2, GuardInvariant, PTL DEF Spec, FillsCellOnce, Cell!Spec

(* Loads run side by side only with loads that hang-ups left behind.        *)
THEOREM OneLoadHolds == Spec => []OneLoad
<1>1. GInv => OneLoad BY DEF GInv, Guarded, OneLoad
<1> QED BY <1>1, GuardInvariant, PTL

-----------------------------------------------------------------------------
(* The queue for the guard: it holds the callers that wait, once each, so a *)
(* hang-up finds its place in it, and takes only that.                      *)

Queue ==
    /\ waiters \in Seq(Callers)
    /\ \A n \in DOMAIN waiters : pc[waiters[n]] = "waiting"
    /\ \A n, m \in DOMAIN waiters : waiters[n] = waiters[m] => n = m
    /\ \A c \in Callers : pc[c] = "waiting" => \E n \in DOMAIN waiters : waiters[n] = c

(* Joining at the end keeps the queue.                                      *)
LEMMA QueueJoins ==
    ASSUME Queue, NEW c \in Callers, Types, pc[c] # "waiting",
           pc' = [pc EXCEPT ![c] = "waiting"], waiters' = Append(waiters, c)
    PROVE  Queue'
<1> USE DEF Queue
<1>1. /\ waiters' \in Seq(Callers) /\ Len(waiters') = Len(waiters) + 1
      /\ Len(waiters) \in Nat /\ waiters'[Len(waiters) + 1] = c
      /\ \A n \in 1 .. Len(waiters) : waiters'[n] = waiters[n]
      /\ DOMAIN waiters = 1 .. Len(waiters) /\ DOMAIN waiters' = 1 .. Len(waiters')
  OBVIOUS
<1>2. pc'[c] = "waiting" /\ \A d \in Callers \ {c} : pc'[d] = pc[d] BY DEF Types
<1>3. \A n \in 1 .. Len(waiters) : waiters[n] # c /\ waiters[n] \in Callers BY <1>1
<1>4. \A n \in DOMAIN waiters' : pc'[waiters'[n]] = "waiting" BY <1>1, <1>2, <1>3
<1>5. \A n, m \in DOMAIN waiters' : waiters'[n] = waiters'[m] => n = m BY <1>1, <1>3
<1>6. ASSUME NEW d \in Callers, pc'[d] = "waiting"
      PROVE  \E n \in DOMAIN waiters' : waiters'[n] = d
  <2>1. CASE d = c BY <1>1, <2>1
  <2>2. CASE d # c
    <3>1. PICK n \in DOMAIN waiters : waiters[n] = d BY <1>2, <1>6, <2>2
    <3> QED BY <1>1, <3>1
  <2> QED BY <2>1, <2>2
<1> QED BY <1>1, <1>4, <1>5, <1>6

(* Leaving it from any place keeps the others in theirs.                    *)
LEMMA QueueLeaves ==
    ASSUME Queue, NEW n \in DOMAIN waiters, Types,
           NEW v, v # "waiting", pc' = [pc EXCEPT ![waiters[n]] = v],
           waiters' = RemoveAt(waiters, n)
    PROVE  Queue'
<1> USE DEF Queue
<1>1. /\ n \in 1 .. Len(waiters) /\ Len(waiters) \in Nat
      /\ DOMAIN waiters = 1 .. Len(waiters)
  OBVIOUS
<1>2. waiters' = SubSeq(waiters, 1, n - 1) \o SubSeq(waiters, n + 1, Len(waiters))
  BY DEF RemoveAt
<1>3. /\ SubSeq(waiters, 1, n - 1) \in Seq(Callers)
      /\ Len(SubSeq(waiters, 1, n - 1)) = n - 1
      /\ \A m \in 1 .. n - 1 : SubSeq(waiters, 1, n - 1)[m] = waiters[m]
  BY <1>1
<1>4. /\ SubSeq(waiters, n + 1, Len(waiters)) \in Seq(Callers)
      /\ Len(SubSeq(waiters, n + 1, Len(waiters))) = Len(waiters) - n
      /\ \A m \in 1 .. Len(waiters) - n :
            SubSeq(waiters, n + 1, Len(waiters))[m] = waiters[m + n]
  BY <1>1
<1>5. /\ waiters' \in Seq(Callers) /\ Len(waiters') = Len(waiters) - 1
      /\ DOMAIN waiters' = 1 .. Len(waiters) - 1
      /\ \A m \in 1 .. Len(waiters) - 1 :
            waiters'[m] = IF m < n THEN waiters[m] ELSE waiters[m + 1]
  <2> DEFINE a == SubSeq(waiters, 1, n - 1)
             b == SubSeq(waiters, n + 1, Len(waiters))
  <2>1. waiters' = a \o b BY <1>2
  <2> HIDE DEF a, b
  <2>2. a \in Seq(Callers) /\ b \in Seq(Callers) BY <1>3, <1>4 DEF a, b
  <2>3. Len(a) = n - 1 /\ Len(b) = Len(waiters) - n BY <1>3, <1>4 DEF a, b
  <2>4. waiters' \in Seq(Callers) /\ Len(waiters') = Len(a) + Len(b) BY <2>1, <2>2
  <2>5. ASSUME NEW m \in 1 .. Len(waiters) - 1
        PROVE  waiters'[m] = IF m < n THEN waiters[m] ELSE waiters[m + 1]
    <3>1. CASE m < n
      <4>1. waiters'[m] = a[m] BY <1>1, <2>1, <2>2, <2>3, <3>1
      <4> QED BY <1>1, <1>3, <3>1, <4>1 DEF a
    <3>2. CASE m >= n
      <4>1. waiters'[m] = b[m - (n - 1)] BY <1>1, <2>1, <2>2, <2>3, <3>2
      <4>2. m - (n - 1) \in 1 .. Len(waiters) - n BY <1>1, <3>2
      <4>3. b[m - (n - 1)] = waiters[m - (n - 1) + n] BY <1>4, <4>2 DEF b
      <4> QED BY <1>1, <3>2, <4>1, <4>3
    <3> QED BY <1>1, <3>1, <3>2
  <2> QED BY <1>1, <2>3, <2>4, <2>5
<1>6. \A m \in 1 .. Len(waiters) - 1 : \E k \in 1 .. Len(waiters) :
        k # n /\ waiters'[m] = waiters[k] /\ k = IF m < n THEN m ELSE m + 1
  BY <1>1, <1>5
<1>7. \A d \in Callers : pc'[d] = IF d = waiters[n] THEN v ELSE pc[d] BY DEF Types
<1>8. ASSUME NEW m \in DOMAIN waiters' PROVE pc'[waiters'[m]] = "waiting"
  <2>1. PICK k \in 1 .. Len(waiters) : k # n /\ waiters'[m] = waiters[k] BY <1>5, <1>6
  <2>2. waiters[k] # waiters[n] /\ waiters[k] \in Callers BY <1>1, <2>1
  <2> QED BY <1>1, <1>7, <2>1, <2>2
<1>9. ASSUME NEW m \in DOMAIN waiters', NEW k \in DOMAIN waiters', waiters'[m] = waiters'[k]
      PROVE  m = k
  <2> DEFINE at(j) == IF j < n THEN j ELSE j + 1
  <2>1. at(m) \in 1 .. Len(waiters) /\ waiters'[m] = waiters[at(m)] BY <1>5, <1>6
  <2>2. at(k) \in 1 .. Len(waiters) /\ waiters'[k] = waiters[at(k)] BY <1>5, <1>6
  <2>3. at(m) = at(k) BY <1>1, <1>9, <2>1, <2>2
  <2> QED BY <1>1, <1>5, <2>3
<1>10. ASSUME NEW d \in Callers, pc'[d] = "waiting"
       PROVE  \E m \in DOMAIN waiters' : waiters'[m] = d
  <2>1. d # waiters[n] /\ pc[d] = "waiting" BY <1>7, <1>10
  <2>2. PICK k \in DOMAIN waiters : waiters[k] = d BY <2>1
  <2>3. k # n BY <2>1, <2>2
  <2>4. CASE k < n
    <3>1. k \in 1 .. Len(waiters) - 1 BY <1>1, <2>4
    <3> QED BY <1>5, <2>2, <2>4, <3>1
  <2>5. CASE k > n
    <3>1. k - 1 \in 1 .. Len(waiters) - 1 /\ ~(k - 1 < n) /\ k - 1 + 1 = k BY <1>1, <2>5
    <3> QED BY <1>5, <2>2, <3>1
  <2> QED BY <1>1, <2>3, <2>4, <2>5
<1> QED BY <1>5, <1>8, <1>9, <1>10

(* The caller in front leaves by the same lemma.                            *)
LEMMA FrontLeaves ==
    ASSUME waiters \in Seq(Callers), waiters # << >>
    PROVE  /\ 1 \in DOMAIN waiters /\ Head(waiters) = waiters[1]
           /\ Tail(waiters) = RemoveAt(waiters, 1)
<1>1. 1 \in DOMAIN waiters /\ Head(waiters) = waiters[1] OBVIOUS
<1>2. Tail(waiters) = SubSeq(waiters, 2, Len(waiters)) OBVIOUS
<1>3. SubSeq(waiters, 1, 0) = << >> OBVIOUS
<1>4. SubSeq(waiters, 2, Len(waiters)) \in Seq(Callers) OBVIOUS
<1>5. << >> \o SubSeq(waiters, 2, Len(waiters)) = SubSeq(waiters, 2, Len(waiters))
  BY <1>4
<1> QED BY <1>1, <1>2, <1>3, <1>5 DEF RemoveAt

(* A step that leaves nobody waiting elsewhere leaves the queue alone.      *)
LEMMA QueueSame ==
    ASSUME Queue, UNCHANGED waiters,
           \A c \in Callers : pc'[c] = "waiting" <=> pc[c] = "waiting"
    PROVE  Queue'
BY DEF Queue

(* Every step keeps the queue.                                              *)
LEMMA QueueStep == ASSUME GInv, Queue, [Next]_vars PROVE Queue'
<1>0. Types BY DEF GInv
<1>1. ASSUME NEW c \in Callers, Enter(c) PROVE Queue'
  BY <1>0, <1>1, QueueJoins DEF Enter
<1>2. ASSUME NEW c \in Callers, TakeCached(c) \/ TakeEmpty(c) PROVE Queue'
  <2>1. /\ waiters # << >> /\ Head(waiters) = c /\ waiters' = Tail(waiters)
        /\ pc' = [pc EXCEPT ![c] = "ok"] \/ pc' = [pc EXCEPT ![c] = "loading"]
    BY <1>2 DEF TakeCached, TakeEmpty, NextInLine
  <2>2. /\ 1 \in DOMAIN waiters /\ waiters[1] = c /\ waiters' = RemoveAt(waiters, 1)
    BY <2>1, FrontLeaves DEF Queue
  <2> QED BY <1>0, <2>1, <2>2, QueueLeaves
<1>3. ASSUME NEW c \in Callers, Store(c) \/ GiveUp(c) PROVE Queue'
  BY <1>0, <1>3, QueueSame DEF Store, GiveUp, Types
<1>4. ASSUME NEW c \in Callers, Task(c) PROVE Queue'
  BY <1>4, QueueSame DEF Task, Baseline, Place, AssertCuda
<1>5. ASSUME NEW c \in Callers, Cancel(c) PROVE Queue'
  <2>1. CASE pc[c] = "waiting"
    <3>1. PICK n \in DOMAIN waiters : waiters[n] = c /\ waiters' = RemoveAt(waiters, n)
      BY <1>5, <2>1 DEF Cancel
    <3>2. pc' = [pc EXCEPT ![waiters[n]] = "idle"] BY <1>5, <3>1 DEF Cancel
    <3> QED BY <1>0, <3>1, <3>2, QueueLeaves
  <2>2. CASE pc[c] = "loading"
    BY <1>0, <1>5, <2>2, QueueSame DEF Cancel, Types
  <2> QED BY <1>5, <2>1, <2>2 DEF Cancel
<1>6. CASE GrowArena BY <1>6, QueueSame DEF GrowArena
<1>7. CASE UNCHANGED vars BY <1>7, QueueSame DEF vars
<1> QED BY <1>1, <1>2, <1>3, <1>4, <1>5, <1>6, <1>7 DEF Next, Future

(* The queue is empty while nobody has called.                              *)
LEMMA QueueInit == Init => Queue
BY DEF Init, Queue

(* A caller waits exactly when it has a place in the queue, and it has one: *)
(* nobody overtakes, is forgotten, or is woken twice.                       *)
THEOREM QueueHolds == Spec => []Queue
BY QueueInit, QueueStep, GuardInvariant, PTL DEF Spec

(* The type invariant, for any callers and any card.                        *)
THEOREM TypeOKHolds == Spec => []TypeOK
<1>1. Init => arena \in 0 .. ArenaPeak BY DEF Init
<1>2. GInv /\ arena \in 0 .. ArenaPeak /\ [Next]_vars => (arena \in 0 .. ArenaPeak)'
  <2> SUFFICES ASSUME arena \in 0 .. ArenaPeak, [Next]_vars PROVE arena' \in 0 .. ArenaPeak
    OBVIOUS
  <2>1. arena' = arena \/ GrowArena
    BY DEF Next, Enter, Future, TakeCached, TakeEmpty, Store, GiveUp, Task, Baseline,
           Place, AssertCuda, Cancel, vars
  <2>2. GrowArena => arena' = arena + 1 /\ arena < ArenaPeak BY DEF GrowArena
  <2> QED BY <2>1, <2>2
<1>3. GInv /\ Queue /\ arena \in 0 .. ArenaPeak => TypeOK BY DEF GInv, Types, Queue, TypeOK
<1> QED BY <1>1, <1>2, <1>3, GuardInvariant, QueueHolds, PTL DEF Spec
=============================================================================
