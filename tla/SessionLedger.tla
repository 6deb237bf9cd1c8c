---------------------------- MODULE SessionLedger ----------------------------
(***************************************************************************)
(* What the session table promises, whatever calls, loads, decodes and     *)
(* hang-ups do behind it.  There are at most MaxSessions sessions, each    *)
(* with a recognizer of its own that it keeps for life.  Using a session   *)
(* makes it young again.  It ends when it is closed or, once it has not    *)
(* been used for IdleLimit, when somebody comes looking for a session; and *)
(* then all that are that old end together.                                *)
(***************************************************************************)
EXTENDS Naturals, FiniteSets

CONSTANTS Ids, Recs, NoRec, MaxSessions, IdleLimit

VARIABLE ledger     \* the recognizer and the age of each session

Absent == [rec |-> NoRec, age |-> 0]

Listed == {i \in Ids : ledger[i].rec # NoRec}
Young == {i \in Listed : ledger[i].age < IdleLimit}

Swept == [i \in Ids |-> IF i \in Young THEN ledger[i] ELSE Absent]

Init == ledger = [i \in Ids |-> Absent]

(* A sweep alone, by a call that is then refused. *)
Sweep == ledger' = Swept

Open(i) ==
    /\ i \notin Young
    /\ Cardinality(Young) < MaxSessions
    /\ \E k \in Recs \ {ledger[j].rec : j \in Ids} :
        ledger' = [Swept EXCEPT ![i] = [rec |-> k, age |-> 0]]

(* A chunk is for a young session, and sweeps the others.                  *)
Use(i) ==
    /\ i \in Young
    /\ ledger' = [Swept EXCEPT ![i].age = 0]

(* A bare close is for any session, and sweeps none.                       *)
Touch(i) ==
    /\ i \in Listed
    /\ ledger' = [ledger EXCEPT ![i].age = 0]

Close(i) == ledger' = [ledger EXCEPT ![i] = Absent]

Tick ==
    ledger' = [i \in Ids |->
        IF i \in Young THEN [ledger[i] EXCEPT !.age = @ + 1] ELSE ledger[i]]

Next == Sweep \/ Tick \/ \E i \in Ids : Open(i) \/ Use(i) \/ Touch(i) \/ Close(i)

Spec == Init /\ [][Next]_ledger
=============================================================================
