------------------------------ MODULE ModelCell ------------------------------
(***************************************************************************)
(* What the loading of a shared model promises, whatever the locks, the    *)
(* blocking tasks and the hang-ups behind it: the model is put in its cell *)
(* by one caller, once, and stays there; a caller is told ok only with the *)
(* model in the cell, and is failed only while there is none.              *)
(***************************************************************************)
CONSTANT Callers

VARIABLES
    cell,       \* where the model lives, or "none"
    asked       \* what each caller has been told

cellVars == <<cell, asked>>

Init ==
    /\ cell = "none"
    /\ asked = [c \in Callers |-> "nothing"]

Ask(c) ==
    /\ asked[c] # "asking"
    /\ asked' = [asked EXCEPT ![c] = "asking"]
    /\ UNCHANGED cell

Fill(c) ==
    /\ asked[c] = "asking"
    /\ cell = "none"
    /\ cell' \in {"gpu", "cpu"}
    /\ asked' = [asked EXCEPT ![c] = "ok"]

Share(c) ==
    /\ asked[c] = "asking"
    /\ cell # "none"
    /\ asked' = [asked EXCEPT ![c] = "ok"]
    /\ UNCHANGED cell

Fail(c) ==
    /\ asked[c] = "asking"
    /\ cell = "none"
    /\ asked' = [asked EXCEPT ![c] = "failed"]
    /\ UNCHANGED cell

Leave(c) ==
    /\ asked[c] = "asking"
    /\ asked' = [asked EXCEPT ![c] = "nothing"]
    /\ UNCHANGED cell

Next == \E c \in Callers : Ask(c) \/ Fill(c) \/ Share(c) \/ Fail(c) \/ Leave(c)

Spec == Init /\ [][Next]_cellVars
=============================================================================
