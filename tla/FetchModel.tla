----------------------------- MODULE FetchModel -----------------------------
(***************************************************************************)
(* fetch-model.sh, the init container that fills the model volume.  It     *)
(* goes through the files in a fixed order, skips one that is there and    *)
(* not empty, and downloads any other under a temporary name that it       *)
(* renames at the end.  It may be cut off at any point: a failed curl ends *)
(* it (set -e), and so do the kubelet and the node.  What is on the volume *)
(* stays, and the next run starts over from there.                         *)
(***************************************************************************)
EXTENDS Naturals

CONSTANT Files          \* how many files the three directories hold

VARIABLES
    final,      \* each file under its own name
    part,       \* and under its temporary name
    script      \* where the script is, and at which file

Content == {"none", "cut", "whole"}

FetchTypeOK ==
    /\ final \in [1 .. Files -> Content]
    /\ part \in [1 .. Files -> Content]
    /\ script \in [pc : {"off", "test", "curl", "mv", "done"}, file : 1 .. Files]

Off == [pc |-> "off", file |-> 1]

FetchInit ==
    /\ final = [f \in 1 .. Files |-> "none"]
    /\ part = [f \in 1 .. Files |-> "none"]
    /\ script = Off

At(pc) == script.pc = pc
Running == script.pc \notin {"off", "done"}

(* On to the next file.                                                    *)
Advance ==
    script' = IF script.file = Files THEN [script EXCEPT !.pc = "done"]
                                     ELSE [pc |-> "test", file |-> script.file + 1]

StartScript ==
    /\ At("off")
    /\ script' = [script EXCEPT !.pc = "test"]
    /\ UNCHANGED <<final, part>>

(* [ -s "$dir/$f" ]: there and not empty is taken for complete.            *)
Present ==
    /\ At("test")
    /\ final[script.file] # "none"
    /\ Advance
    /\ UNCHANGED <<final, part>>

(* curl -o truncates what an earlier attempt left behind.                  *)
StartCurlInPlace ==
    /\ At("test")
    /\ final[script.file] = "none"
    /\ final' = [final EXCEPT ![script.file] = "cut"]
    /\ script' = [script EXCEPT !.pc = "curl"]
    /\ UNCHANGED part

StartCurl ==
    /\ At("test")
    /\ final[script.file] = "none"
    /\ part' = [part EXCEPT ![script.file] = "cut"]
    /\ script' = [script EXCEPT !.pc = "curl"]
    /\ UNCHANGED final

EndCurl ==
    /\ At("curl")
    /\ part' = [part EXCEPT ![script.file] = "whole"]
    /\ script' = [script EXCEPT !.pc = "mv"]
    /\ UNCHANGED final

Rename ==
    /\ At("mv")
    /\ final' = [final EXCEPT ![script.file] = part[script.file]]
    /\ part' = [part EXCEPT ![script.file] = "none"]
    /\ Advance

(* curl gives up, or the container is stopped.                             *)
CutOff ==
    /\ Running
    /\ script' = Off
    /\ UNCHANGED <<final, part>>

FetchStep == StartScript \/ Present \/ StartCurl \/ EndCurl \/ Rename

(* A rebuilt node comes with an empty volume; an owner may remove a file.  *)
LoseFiles ==
    /\ ~Running
    /\ \E lost \in SUBSET (1 .. Files) :
        final' = [f \in 1 .. Files |-> IF f \in lost THEN "none" ELSE final[f]]
    /\ script' = Off
    /\ UNCHANGED part
=============================================================================
