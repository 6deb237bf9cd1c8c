------------------------------ MODULE EndToEnd ------------------------------
(***************************************************************************)
(* One dictation from the capture module through the service, beside other *)
(* clients: the chunks of one session id, cut and numbered by the module,  *)
(* and what each recognizer hears of them.  The client sends the next      *)
(* chunk when the last one was answered, and after any failure sends no    *)
(* more.  Any call may be hung up on, which leaves its decode behind, and  *)
(* the pod may be restarted between any two steps: then the session table, *)
(* the recognizers and the loaded models are gone, and so are the calls.   *)
(***************************************************************************)
EXTENDS SttService, Sequences

CONSTANTS
    Mine,           \* the session id of the dictation
    MaxChunks       \* bound: chunks of the dictation; the last closes it


VARIABLES
    done,           \* chunks it has an answer for, whatever answer
    abandoned,      \* the client has given up
    mine,           \* the call that the client waits for, or NoReq
    carried,        \* the chunk that a call carries, 0 for other clients' calls
    pieces,         \* history: the recognizers that were opened for Mine
    heard,          \* history: which piece heard which chunk, as they came
    interrupted     \* history: the pod was restarted, or Mine was idle too long

client == <<done, abandoned, mine, carried>>
history == <<pieces, heard, interrupted>>
allVars == <<vars, client, history>>

NoReq == "none"

ASSUME EndAssumption == Mine \in Ids /\ MaxChunks \in Nat \ {0} /\ NoReq \notin Reqs

EndInit ==
    /\ Init
    /\ done = 0 /\ abandoned = FALSE /\ mine = NoReq
    /\ carried = [r \in Reqs |-> 0]
    /\ pieces = << >> /\ heard = << >> /\ interrupted = FALSE

-----------------------------------------------------------------------------
(* The client                                                              *)

Send(r) ==
    /\ ~abandoned /\ mine = NoReq /\ done < MaxChunks
    /\ Chunk(r)
    /\ req'[r].id = Mine /\ req'[r].lang = "known" /\ req'[r].audio
    /\ req'[r].last = (done + 1 = MaxChunks)
    /\ mine' = r
    /\ carried' = [carried EXCEPT ![r] = done + 1]
    /\ UNCHANGED <<done, abandoned, history>>

(* Its call has been answered ok, or has failed in some way.               *)
CarriesOn == FALSE
Abandons == TRUE

Sees(r, ok) ==
    IF mine = r
    THEN /\ mine' = NoReq
         /\ done' = done + 1
         /\ abandoned' = (~ok /\ Abandons)
    ELSE UNCHANGED <<mine, done, abandoned>>

-----------------------------------------------------------------------------
(* The service                                                             *)

(* What other clients send, under ids of their own.                        *)
Elsewhere(r) ==
    /\ Chunk(r) \/ CloseFound(r) \/ CloseUnknown(r)
    /\ req'[r].id # Mine
    /\ carried' = [carried EXCEPT ![r] = 0]
    /\ UNCHANGED <<done, abandoned, mine, history>>

Loading(r) == LoadModel(r) /\ UNCHANGED <<client, history>>

Refused(r) ==
    /\ LoadFails(r) \/ SwitchRefused(r) \/ CapReached(r) \/ UnknownLanguage(r)
    /\ Sees(r, FALSE)
    /\ UNCHANGED <<carried, history>>

Found(r) ==
    /\ ContinueSession(r)
    /\ UNCHANGED <<client, history>>

Opening(r) ==
    /\ OpenSession(r)
    /\ pieces' = IF req[r].id = Mine THEN Append(pieces, req'[r].rec) ELSE pieces
    /\ UNCHANGED <<client, heard, interrupted>>

(* The piece of a recognizer is the last one that was opened on it.        *)
PieceOf(k) == CHOOSE p \in DOMAIN pieces :
    pieces[p] = k /\ \A q \in DOMAIN pieces : pieces[q] = k => q <= p

Hears(r) == Append(heard, [piece |-> PieceOf(req[r].rec), chunk |-> carried[r]])

(* Nobody learns whether a decode that was left behind has failed.         *)
Decoding(r) ==
    /\ Decode(r)
    /\ heard' \in IF req[r].id # Mine THEN {heard}
                  ELSE IF req[r].pc = "detached" THEN {heard, Hears(r)}
                  ELSE IF req'[r].result = "ok" THEN {Hears(r)} ELSE {heard}
    /\ UNCHANGED <<client, pieces, interrupted>>

Answering(r) ==
    /\ Resume(r)
    /\ Sees(r, req[r].result = "ok")
    /\ UNCHANGED <<carried, history>>

HangUp(r) ==
    /\ Cancel(r)
    /\ Sees(r, FALSE)
    /\ UNCHANGED <<carried, history>>

Waiting ==
    /\ Tick
    /\ interrupted' = (interrupted \/ sess'[Mine].age = IdleLimit)
    /\ UNCHANGED <<client, pieces, heard>>

(* The pod is restarted.  Only the client's own state survives.            *)
Restart ==
    /\ sess' = [i \in Ids |-> NoSession]
    /\ recs' = [k \in Recs |-> Dropped]
    /\ req' = [r \in Reqs |-> Idle]
    /\ loaded' = {}
    /\ interrupted' = TRUE
    /\ IF mine = NoReq THEN UNCHANGED <<done, abandoned, mine>>
                       ELSE Sees(mine, FALSE)
    /\ UNCHANGED <<carried, pieces, heard>>

-----------------------------------------------------------------------------

EndNext ==
    \/ \E r \in Reqs :
        \/ Send(r) \/ Elsewhere(r) \/ Loading(r) \/ Refused(r) \/ Found(r)
        \/ Opening(r) \/ Decoding(r) \/ Answering(r) \/ HangUp(r)
    \/ Waiting \/ Restart

EndSpec == EndInit /\ [][EndNext]_allVars

-----------------------------------------------------------------------------

(* Whatever fails, is dropped, swept or restarted: the recognizers of a     *)
(* dictation, one after the other, hear its chunks once each and in order,  *)
(* with no hole, and every chunk that was answered ok has been heard.       *)
HeardInOrder ==
    /\ \A n \in 1 .. Len(heard) :
        /\ heard[n].chunk = n
        /\ n > 1 => heard[n - 1].piece <= heard[n].piece
    /\ ~abandoned => Len(heard) >= done

(* A dictation goes to one recognizer, with its context from the first word *)
(* to the last, unless the pod was restarted or the client paused for       *)
(* SESSION_IDLE: neither other clients' sessions nor hang-ups split it.     *)
HeardByOne == ~interrupted => Len(pieces) <= 1
=============================================================================
