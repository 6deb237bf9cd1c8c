---------------------------- MODULE EndToEndProofs ----------------------------
(* Theorems about EndToEnd: what becomes of one dictation, for any number of *)
(* other sessions, calls and recognizers and for any number of chunks.       *)
EXTENDS EndToEnd, SttServiceProofs

-----------------------------------------------------------------------------
(* The inductive invariant, over that of the service.  At most one call of   *)
(* the dictation holds anything at a time: the one its client waits for, or, *)
(* after a hang-up that ended the dictation, the one that it left decoding.  *)

OfMine(r) == req[r].id = Mine /\ req[r].pc \in {"load", "decoding", "decoded", "detached"}

EndType ==
    /\ done \in 0 .. MaxChunks
    /\ abandoned \in BOOLEAN /\ interrupted \in BOOLEAN
    /\ mine \in Reqs \cup {NoReq}
    /\ carried \in [Reqs -> Nat]
    /\ pieces \in Seq(Recs)
    /\ heard \in Seq([piece : Nat, chunk : Nat])

(* The call that the client waits for carries the next chunk, which has been *)
(* heard once its decode has succeeded.                                      *)
Awaited ==
    mine # NoReq =>
        /\ ~abandoned /\ done < MaxChunks
        /\ req[mine].id = Mine
        /\ req[mine].pc \in {"load", "decoding", "decoded"}
        /\ req[mine].last = (done + 1 = MaxChunks)
        /\ carried[mine] = done + 1
        /\ Len(heard) = IF req[mine].pc = "decoded" /\ req[mine].result = "ok"
                        THEN done + 1 ELSE done

(* A call left behind carries the last chunk that was sent, not heard yet.   *)
LeftBehind ==
    \A r \in Reqs : OfMine(r) /\ r # mine =>
        /\ req[r].pc = "detached" /\ abandoned
        /\ carried[r] = done
        /\ Len(heard) = done - 1
        /\ \A s \in Reqs : OfMine(s) => s = r

Settled == mine = NoReq /\ ~abandoned => Len(heard) = done

InOrder ==
    \A n \in 1 .. Len(heard) :
        /\ heard[n].chunk = n
        /\ heard[n].piece \in 1 .. Len(pieces)
        /\ n > 1 => heard[n - 1].piece <= heard[n].piece

(* What the session and the calls of the dictation hold is its last piece.   *)
OnLatest(k) == k # NoRec => pieces # << >> /\ k = pieces[Len(pieces)]

Latest ==
    /\ OnLatest(sess[Mine].rec)
    /\ \A r \in Reqs : OfMine(r) => OnLatest(req[r].rec)

(* Without an interruption a second piece has no occasion: the first is kept *)
(* until no more chunks follow.                                              *)
Whole ==
    ~interrupted =>
        \/ pieces = << >>
        \/ /\ Len(pieces) = 1
           /\ Mine \in Awake \/ abandoned \/ done = MaxChunks

DictationInv ==
    /\ EndType /\ Awaited /\ LeftBehind /\ Settled /\ InOrder /\ Latest /\ Whole

EInv == IInv /\ DictationInv

-----------------------------------------------------------------------------
(* What the actions of the service do to the calls and to the sessions.      *)

(* A chunk enters one free slot, and touches no session.                     *)
LEMMA ChunkFacts ==
    ASSUME IInv, NEW r \in Reqs, Chunk(r)
    PROVE  /\ req[r].pc \in {"idle", "replied"} /\ req'[r].pc = "load"
           /\ req'[r].rec = NoRec
           /\ \A s \in Reqs \ {r} : req'[s] = req[s]
           /\ sess' = sess
<1> USE DEF IInv, TypeOK
<1>1. PICK q \in Accepted : req' = [req EXCEPT ![r] = [Called(q) EXCEPT !.pc = "load"]]
  BY DEF Chunk
<1>2. req'[r].pc = "load" /\ req'[r].rec = NoRec BY <1>1, CalledType DEF Call
<1> QED BY <1>1, <1>2 DEF Chunk, Free

(* A bare close enters one free slot, and refreshes only its own session.    *)
LEMMA CloseFacts ==
    ASSUME IInv, NEW r \in Reqs, CloseFound(r) \/ CloseUnknown(r)
    PROVE  /\ req[r].pc \in {"idle", "replied"}
           /\ \A s \in Reqs \ {r} : req'[s] = req[s]
           /\ \A i \in Ids : req'[r].id # i => sess'[i] = sess[i]
<1> USE DEF IInv, TypeOK
<1>1. CASE CloseFound(r)
  <2>1. PICK q \in Accepted :
            /\ sess' = [sess EXCEPT ![q.id].age = 0]
            /\ req' = [req EXCEPT ![r] = [Called(q) EXCEPT !.pc = "decoding",
                                                         !.rec = sess[q.id].rec]]
    BY <1>1 DEF CloseFound
  <2>2. req'[r].id = q.id BY <2>1, CalledType DEF Call
  <2> QED BY <1>1, <2>1, <2>2 DEF CloseFound, Free
<1>2. CASE CloseUnknown(r)
  BY <1>2 DEF CloseUnknown, Free
<1> QED BY <1>1, <1>2

(* A refusal ends a call that held nothing, and at most sweeps.              *)
LEMMA RefusedFacts ==
    ASSUME IInv, NEW r \in Reqs,
           LoadFails(r) \/ SwitchRefused(r) \/ CapReached(r) \/ UnknownLanguage(r)
    PROVE  /\ req[r].pc = "load" /\ req'[r].pc = "replied"
           /\ \A s \in Reqs \ {r} : req'[s] = req[s]
           /\ sess' \in {sess, Swept}
<1>1. PICK why \in Replies : Reply(r, why)
  BY DEF LoadFails, SwitchRefused, CapReached, UnknownLanguage, Replies
<1>2. req'[r].pc = "replied" /\ \A s \in Reqs \ {r} : req'[s] = req[s]
  BY <1>1, ReplyType DEF IInv, TypeOK
<1> QED
  BY <1>2 DEF LoadFails, SwitchRefused, CapReached, UnknownLanguage, Sweeping

(* A call that finds its session refreshes it, and decodes on its recognizer.*)
LEMMA FoundFacts ==
    ASSUME IInv, NEW r \in Reqs, ContinueSession(r)
    PROVE  /\ req[r].pc = "load" /\ req'[r].pc = "decoding"
           /\ req[r].id \in Ids /\ req[r].id \in Awake
           /\ req'[r].id = req[r].id /\ req'[r].last = req[r].last
           /\ req'[r].rec = sess[req[r].id].rec
           /\ \A s \in Reqs \ {r} : req'[s] = req[s]
           /\ sess'[req[r].id].rec = sess[req[r].id].rec /\ sess'[req[r].id].age = 0
           /\ \A i \in Ids \ {req[r].id} : sess'[i] = Swept[i]
<1> USE DEF IInv, TypeOK
<1>1. /\ req[r].pc = "load" /\ req[r].id \in Ids /\ req[r].id \in Awake
      /\ sess[req[r].id] \in Session /\ Queue(r, sess[req[r].id].rec)
      /\ sess' = [Swept EXCEPT ![req[r].id].age = 0]
      /\ Swept[req[r].id] = sess[req[r].id]
  BY DEF ContinueSession, Sweeping, Awake, Opened, NoSession, Swept
<1>2. sess[req[r].id].rec \in Recs BY <1>1 DEF Session
<1>3. /\ req'[r].pc = "decoding" /\ req'[r].id = req[r].id /\ req'[r].last = req[r].last
      /\ req'[r].rec = sess[req[r].id].rec
      /\ \A s \in Reqs \ {r} : req'[s] = req[s]
  BY <1>1, <1>2, QueueType
<1>4. /\ sess'[req[r].id].rec = sess[req[r].id].rec /\ sess'[req[r].id].age = 0
      /\ \A i \in Ids \ {req[r].id} : sess'[i] = Swept[i]
  BY <1>1, SweptType DEF Session
<1> QED BY <1>1, <1>3, <1>4

(* A call that opens its session found none awake, and decodes on a          *)
(* recognizer that is new.                                                   *)
LEMMA OpenFacts ==
    ASSUME IInv, NEW r \in Reqs, OpenSession(r)
    PROVE  /\ req[r].pc = "load" /\ req'[r].pc = "decoding"
           /\ req[r].id \in Ids /\ req[r].id \notin Awake
           /\ req'[r].id = req[r].id /\ req'[r].last = req[r].last
           /\ req'[r].rec \in Recs
           /\ \A s \in Reqs \ {r} : req'[s] = req[s]
           /\ sess'[req[r].id].rec = req'[r].rec /\ sess'[req[r].id].age = 0
           /\ \A i \in Ids \ {req[r].id} : sess'[i] = Swept[i]
<1> USE DEF IInv, TypeOK
<1>1. PICK k \in Recs :
        /\ sess' = [Swept EXCEPT ![req[r].id] = [rec |-> k, engine |-> Wanted(r), age |-> 0]]
        /\ Queue(r, k)
  BY DEF OpenSession
<1>2. req[r].pc = "load" /\ req[r].id \in Ids /\ req[r].id \notin Awake
  BY DEF OpenSession, Sweeping, CallRefs
<1>3. /\ req'[r].pc = "decoding" /\ req'[r].id = req[r].id /\ req'[r].last = req[r].last
      /\ req'[r].rec = k
      /\ \A s \in Reqs \ {r} : req'[s] = req[s]
  BY <1>1, QueueType
<1>4. /\ sess'[req[r].id].rec = k /\ sess'[req[r].id].age = 0
      /\ \A i \in Ids \ {req[r].id} : sess'[i] = Swept[i]
  BY <1>1, <1>2, SweptType
<1> QED BY <1>2, <1>3, <1>4

(* A decode leaves its result, or nothing when its call was left behind.     *)
LEMMA DecodeFacts ==
    ASSUME IInv, NEW r \in Reqs, Decode(r)
    PROVE  /\ sess' = sess
           /\ \A s \in Reqs \ {r} : req'[s] = req[s]
           /\ req[r].rec # NoRec
           /\ \/ req[r].pc = "detached" /\ req'[r].pc = "idle"
              \/ /\ req[r].pc = "decoding" /\ req'[r].pc = "decoded"
                 /\ req'[r].id = req[r].id /\ req'[r].last = req[r].last
                 /\ req'[r].rec = req[r].rec
<1> USE DEF IInv, TypeOK
<1>1. /\ sess' = sess /\ req[r].pc \in {"decoding", "detached"} /\ req[r].rec # NoRec
      /\ \E result \in {"ok", "Internal"} : TaskEnds(r, result)
  BY DEF Decode, CallRefs
<1>2. PICK result \in {"ok", "Internal"} : TaskEnds(r, result) BY <1>1
<1>3. CASE req[r].pc = "detached"
  BY <1>1, <1>2, <1>3 DEF TaskEnds, Idle
<1>4. CASE req[r].pc = "decoding"
  <2>1. req' = [req EXCEPT ![r].pc = "decoded", ![r].lang = "none", ![r].result = result]
    BY <1>2, <1>4 DEF TaskEnds
  <2>2. req'[r] = [req[r] EXCEPT !.pc = "decoded", !.lang = "none", !.result = result]
    BY <2>1
  <2> QED BY <1>1, <1>4, <2>1, <2>2 DEF Call
<1> QED BY <1>1, <1>3, <1>4

(* An answer ends a call, and a close that succeeded takes its own session.  *)
LEMMA ResumeFacts ==
    ASSUME IInv, NEW r \in Reqs, Resume(r)
    PROVE  /\ req[r].pc = "decoded" /\ req'[r].pc = "replied"
           /\ \A s \in Reqs \ {r} : req'[s] = req[s]
           /\ \A i \in Ids \ {req[r].id} : sess'[i] = sess[i]
           /\ \/ sess' = sess
              \/ /\ sess'[req[r].id] = NoSession /\ req[r].id \in Ids
                 /\ req[r].last /\ req[r].result = "ok"
<1> USE DEF IInv, TypeOK
<1>1. req[r].pc = "decoded" /\ Reply(r, req[r].result)
  BY DEF Resume, Answer, AnswerFailed
<1>2. req'[r].pc = "replied" /\ \A s \in Reqs \ {r} : req'[s] = req[s]
  BY <1>1 DEF Reply, Call
<1>3. req[r].id \in Ids BY <1>1 DEF CallRefs
<1>4. CASE Answer(r)
  BY <1>1, <1>2, <1>3, <1>4 DEF Answer, Closes
<1>5. CASE AnswerFailed(r)
  BY <1>1, <1>2, <1>5 DEF AnswerFailed
<1> QED BY <1>1, <1>2, <1>4, <1>5 DEF Resume

(* A hang-up ends a call, or leaves its decode behind.                       *)
LEMMA CancelFacts ==
    ASSUME IInv, NEW r \in Reqs, Cancel(r)
    PROVE  /\ sess' = sess
           /\ req[r].pc \in {"load", "decoding", "decoded"}
           /\ \A s \in Reqs \ {r} : req'[s] = req[s]
           /\ \/ req'[r].pc = "idle"
              \/ /\ req[r].pc = "decoding" /\ req'[r].pc = "detached"
                 /\ req'[r].id = req[r].id /\ req'[r].rec = req[r].rec
BY DEF Cancel, IInv, TypeOK, Idle, Call

-----------------------------------------------------------------------------
(* One conjunct at a time, what disturbs none of the dictation's state.      *)

(* An action on another client's call, or on a slot that is free, leaves the *)
(* dictation alone; it may sweep its session if that is no longer awake.     *)
LEMMA Bystander ==
    ASSUME EInv, NEW r \in Reqs,
           \A s \in Reqs \ {r} : req'[s] = req[s] /\ carried'[s] = carried[s],
           carried' \in [Reqs -> Nat],
           ~OfMine(r), ~OfMine(r)',
           sess'[Mine] \in {sess[Mine], Swept[Mine]},
           UNCHANGED <<done, abandoned, mine, history>>
    PROVE  DictationInv'
<1> USE EndAssumption DEF EInv, DictationInv
<1>1. UNCHANGED <<done, abandoned, mine, pieces, heard, interrupted>> BY DEF history
<1>2. mine # r
  BY DEF Awaited, OfMine
<1>3. EndType' BY <1>1 DEF EndType
<1>4. Awaited' BY <1>1, <1>2 DEF Awaited, EndType
<1>5. \A s \in Reqs : OfMine(s)' => s # r /\ OfMine(s)
  BY DEF OfMine
<1>6. LeftBehind' BY <1>1, <1>5 DEF LeftBehind, OfMine
<1>7. Settled' /\ InOrder' BY <1>1 DEF Settled, InOrder
<1>8. sess'[Mine] # sess[Mine] => sess'[Mine] = NoSession /\ Mine \notin Awake
  BY DEF Swept
<1>9. Latest'
  <2>1. OnLatest(sess[Mine].rec)' BY <1>1, <1>8 DEF Latest, OnLatest, NoSession
  <2>2. \A s \in Reqs : OfMine(s)' => OnLatest(req[s].rec)'
    BY <1>1, <1>5 DEF Latest, OnLatest
  <2> QED BY <2>1, <2>2 DEF Latest
<1>10. Whole'
  <2>1. Mine \in Awake => Mine \in Awake' BY <1>8 DEF Awake, Opened
  <2> QED BY <1>1, <2>1 DEF Whole
<1> QED BY <1>3, <1>4, <1>6, <1>7, <1>9, <1>10

(* While the client waits for a call, no other call of the dictation lives.  *)
LEMMA Alone ==
    ASSUME EInv, NEW r \in Reqs, OfMine(r)
    PROVE  /\ \A s \in Reqs : OfMine(s) => s = r
           /\ mine \in {r, NoReq}
<1> USE DEF EInv, DictationInv
<1>1. CASE mine = r
  BY <1>1, EndAssumption DEF Awaited, LeftBehind, EndType
<1>2. CASE mine # r
  <2>1. abandoned BY <1>2 DEF LeftBehind
  <2>2. mine = NoReq BY <2>1 DEF Awaited, EndType
  <2> QED BY <1>2, <2>2 DEF LeftBehind
<1> QED BY <1>1, <1>2

(* The recognizer that the dictation holds is its last piece.                *)
LEMMA LatestPiece ==
    ASSUME pieces \in Seq(Recs), NEW k, k # NoRec, OnLatest(k)
    PROVE  PieceOf(k) = Len(pieces) /\ Len(pieces) \in Nat \ {0}
<1>1. Len(pieces) \in DOMAIN pieces /\ pieces[Len(pieces)] = k BY DEF OnLatest
<1>2. \A q \in DOMAIN pieces : q <= Len(pieces) /\ q \in Nat OBVIOUS
<1> DEFINE Is(p) == pieces[p] = k /\ \A q \in DOMAIN pieces : pieces[q] = k => q <= p
<1>3. Is(Len(pieces)) BY <1>1, <1>2
<1>4. \A p \in DOMAIN pieces : Is(p) => p = Len(pieces) BY <1>1, <1>2
<1>5. PieceOf(k) = CHOOSE p \in DOMAIN pieces : Is(p) BY DEF PieceOf
<1> HIDE DEF Is
<1>6. PieceOf(k) \in DOMAIN pieces /\ Is(PieceOf(k)) BY <1>1, <1>3, <1>5
<1> QED BY <1>1, <1>4, <1>6

-----------------------------------------------------------------------------
(* The actions of the client and of its own calls.                           *)

(* Sending a chunk: no call of the dictation was alive.                      *)
LEMMA SendStep == ASSUME EInv, NEW r \in Reqs, Send(r) PROVE DictationInv'
<1> USE EndAssumption DEF EInv, DictationInv
<1>1. /\ ~abandoned /\ mine = NoReq /\ done < MaxChunks
      /\ req'[r].id = Mine /\ req'[r].last = (done + 1 = MaxChunks)
      /\ mine' = r /\ carried' = [carried EXCEPT ![r] = done + 1]
      /\ UNCHANGED <<done, abandoned, pieces, heard, interrupted>>
  BY DEF Send, history
<1>2. /\ req'[r].pc = "load" /\ req'[r].rec = NoRec /\ sess' = sess
      /\ \A s \in Reqs \ {r} : req'[s] = req[s]
  BY ChunkFacts DEF Send
<1>3. \A s \in Reqs : ~OfMine(s) BY <1>1 DEF LeftBehind
<1>4. \A s \in Reqs : OfMine(s)' => s = r BY <1>2, <1>3 DEF OfMine
<1>5. EndType' BY <1>1 DEF EndType
<1>6. Awaited'
  <2>1. carried'[r] = done + 1 BY <1>1 DEF EndType
  <2>2. Len(heard) = done BY <1>1 DEF Settled
  <2> QED BY <1>1, <1>2, <2>1, <2>2 DEF Awaited
<1>7. LeftBehind' BY <1>1, <1>4 DEF LeftBehind
<1>8. Settled' BY <1>1 DEF Settled
<1>9. InOrder' BY <1>1 DEF InOrder
<1>10. Latest' BY <1>1, <1>2, <1>4 DEF Latest, OnLatest
<1>11. Whole' BY <1>1, <1>2 DEF Whole, Awake, Opened
<1> QED BY <1>5, <1>6, <1>7, <1>8, <1>9, <1>10, <1>11

(* Its call finds its session: it decodes on the last piece.                 *)
LEMMA FoundStep ==
    ASSUME EInv, NEW r \in Reqs, OfMine(r), Found(r) PROVE DictationInv'
<1> USE EndAssumption DEF EInv, DictationInv
<1>1. UNCHANGED <<done, abandoned, mine, carried, pieces, heard, interrupted>>
  BY DEF Found, client, history
<1>2. /\ req[r].pc = "load" /\ req'[r].pc = "decoding" /\ req[r].id = Mine
      /\ Mine \in Awake
      /\ req'[r].id = Mine /\ req'[r].last = req[r].last
      /\ req'[r].rec = sess[Mine].rec
      /\ \A s \in Reqs \ {r} : req'[s] = req[s]
      /\ sess'[Mine].rec = sess[Mine].rec /\ sess'[Mine].age = 0
  BY FoundFacts DEF Found, OfMine
<1>3. mine = r /\ \A s \in Reqs : OfMine(s) => s = r
  BY <1>2, Alone DEF LeftBehind
<1>4. \A s \in Reqs : OfMine(s)' => s = r BY <1>2, <1>3 DEF OfMine
<1>5. EndType' BY <1>1 DEF EndType
<1>6. Awaited' BY <1>1, <1>2, <1>3 DEF Awaited
<1>7. LeftBehind' BY <1>1, <1>3, <1>4 DEF LeftBehind
<1>8. Settled' /\ InOrder' BY <1>1 DEF Settled, InOrder
<1>9. Latest' BY <1>1, <1>2, <1>4 DEF Latest, OnLatest
<1>10. Whole'
  <2>1. Mine \in Awake'
    BY <1>2, ServiceAssumption DEF Awake, Opened
  <2> QED BY <1>1, <2>1 DEF Whole
<1> QED BY <1>5, <1>6, <1>7, <1>8, <1>9, <1>10

(* Its call opens a session: a new piece, and the first one unless the       *)
(* dictation was interrupted.                                                *)
LEMMA OpeningStep ==
    ASSUME EInv, NEW r \in Reqs, OfMine(r), Opening(r) PROVE DictationInv'
<1> USE EndAssumption DEF EInv, DictationInv
<1>1. UNCHANGED <<done, abandoned, mine, carried, heard, interrupted>>
  BY DEF Opening, client
<1>2. /\ req[r].pc = "load" /\ req'[r].pc = "decoding" /\ req[r].id = Mine
      /\ Mine \notin Awake
      /\ req'[r].id = Mine /\ req'[r].last = req[r].last
      /\ req'[r].rec \in Recs
      /\ \A s \in Reqs \ {r} : req'[s] = req[s]
      /\ sess'[Mine].rec = req'[r].rec /\ sess'[Mine].age = 0
  BY OpenFacts DEF Opening, OfMine
<1>3. mine = r /\ \A s \in Reqs : OfMine(s) => s = r
  BY <1>2, Alone DEF LeftBehind
<1>4. \A s \in Reqs : OfMine(s)' => s = r BY <1>2, <1>3 DEF OfMine
<1>5. /\ pieces \in Seq(Recs) /\ pieces' = Append(pieces, req'[r].rec)
      /\ pieces' \in Seq(Recs) /\ Len(pieces') = Len(pieces) + 1
      /\ pieces'[Len(pieces')] = req'[r].rec
  <2>1. pieces' = Append(pieces, req'[r].rec) BY <1>2 DEF Opening
  <2> QED BY <1>2, <2>1 DEF EndType
<1>6. EndType' BY <1>1, <1>5 DEF EndType
<1>7. Awaited' BY <1>1, <1>2, <1>3 DEF Awaited
<1>8. LeftBehind' BY <1>1, <1>3, <1>4 DEF LeftBehind
<1>9. Settled' BY <1>1 DEF Settled
<1>10. InOrder'
  <2>1. 1 .. Len(pieces) \subseteq 1 .. Len(pieces') BY <1>5
  <2> QED BY <1>1, <2>1 DEF InOrder
<1>11. Latest' BY <1>1, <1>2, <1>4, <1>5 DEF Latest, OnLatest
<1>12. Whole'
  <2>1. Mine \in Awake'
    BY <1>2, ServiceAssumption DEF Awake, Opened
  <2>2. ~interrupted => pieces = << >> BY <1>2, <1>3 DEF Whole, Awaited
  <2> QED BY <1>1, <1>5, <2>1, <2>2 DEF Whole
<1> QED BY <1>6, <1>7, <1>8, <1>9, <1>10, <1>11, <1>12

(* A chunk is heard next after those before it, by the last piece.           *)
LEMMA HearsInOrder ==
    ASSUME EInv, NEW r \in Reqs, req[r].rec # NoRec, OnLatest(req[r].rec),
           carried[r] = Len(heard) + 1, UNCHANGED pieces, heard' = Hears(r)
    PROVE  /\ heard' \in Seq([piece : Nat, chunk : Nat])
           /\ Len(heard') = Len(heard) + 1
           /\ InOrder'
<1> USE DEF EInv, DictationInv
<1> DEFINE h == [piece |-> PieceOf(req[r].rec), chunk |-> carried[r]]
<1>1. PieceOf(req[r].rec) = Len(pieces) /\ Len(pieces) \in Nat \ {0}
  BY LatestPiece DEF EndType
<1>2. h \in [piece : Nat, chunk : Nat] /\ h.piece = Len(pieces) /\ h.chunk = Len(heard) + 1
  BY <1>1 DEF EndType
<1>3. heard' = Append(heard, h) /\ heard \in Seq([piece : Nat, chunk : Nat])
  BY DEF Hears, EndType
<1> HIDE DEF h
<1>4. /\ heard' \in Seq([piece : Nat, chunk : Nat])
      /\ Len(heard') = Len(heard) + 1 /\ Len(heard) \in Nat
      /\ heard'[Len(heard) + 1] = h
      /\ \A n \in 1 .. Len(heard) : heard'[n] = heard[n]
  BY <1>2, <1>3
<1>5. SUFFICES ASSUME NEW n \in 1 .. Len(heard')
               PROVE  /\ heard'[n].chunk = n
                      /\ heard'[n].piece \in 1 .. Len(pieces)
                      /\ n > 1 => heard'[n - 1].piece <= heard'[n].piece
  BY <1>4 DEF InOrder
<1>6. CASE n \in 1 .. Len(heard)
  <2>1. n > 1 => n - 1 \in 1 .. Len(heard) BY <1>6
  <2> QED BY <1>4, <1>6, <2>1 DEF InOrder
<1>7. CASE n = Len(heard) + 1
  <2>1. n > 1 => n - 1 \in 1 .. Len(heard) /\ heard[n - 1].piece \in 1 .. Len(pieces)
    BY <1>4, <1>7 DEF InOrder
  <2> QED BY <1>1, <1>2, <1>4, <1>7, <2>1
<1> QED BY <1>4, <1>6, <1>7

(* A decode of the call that the client waits for is heard if it succeeds;   *)
(* one that was left behind may be heard, and then nothing else will be.     *)
LEMMA DecodingStep ==
    ASSUME EInv, NEW r \in Reqs, OfMine(r), Decoding(r) PROVE DictationInv'
<1> USE EndAssumption DEF EInv, DictationInv
<1>1. UNCHANGED <<done, abandoned, mine, carried, pieces, interrupted>>
  BY DEF Decoding, client
<1>2. /\ sess' = sess /\ req[r].rec # NoRec /\ req[r].id = Mine
      /\ \A s \in Reqs \ {r} : req'[s] = req[s]
      /\ \/ req[r].pc = "detached" /\ req'[r].pc = "idle"
         \/ /\ req[r].pc = "decoding" /\ req'[r].pc = "decoded"
            /\ req'[r].id = Mine /\ req'[r].last = req[r].last
            /\ req'[r].rec = req[r].rec
  BY DecodeFacts DEF Decoding, OfMine
<1>3. OnLatest(req[r].rec) BY DEF Latest
<1>4. \A s \in Reqs : OfMine(s) => s = r BY Alone
<1>5. \A s \in Reqs : OfMine(s)' => s = r BY <1>2, <1>4 DEF OfMine
<1>6. Latest'
  <2>1. OfMine(r)' => req'[r].rec = req[r].rec BY <1>2 DEF OfMine
  <2> QED BY <1>1, <1>2, <1>3, <1>5, <2>1 DEF Latest, OnLatest
<1>7. Whole' BY <1>1, <1>2 DEF Whole, Awake, Opened
<1>8. carried[r] = Len(heard) + 1
  <2>1. Len(heard) \in Nat BY DEF EndType
  <2>2. CASE mine = r
    BY <1>2, <2>1, <2>2 DEF Awaited, EndType
  <2>3. CASE mine # r
    BY <2>1, <2>3 DEF LeftBehind, EndType
  <2> QED BY <2>2, <2>3
<1>9. heard' \in {heard, Hears(r)} BY <1>2 DEF Decoding
<1>10. heard' \in Seq([piece : Nat, chunk : Nat]) /\ InOrder'
  <2>1. CASE heard' = heard
    BY <1>1, <2>1 DEF EndType, InOrder
  <2>2. CASE heard' = Hears(r)
    BY <1>1, <1>2, <1>3, <1>8, <2>2, HearsInOrder
  <2> QED BY <1>9, <2>1, <2>2
<1>11. EndType' BY <1>1, <1>10 DEF EndType
<1>12. CASE req[r].pc = "detached"
  <2>1. mine = NoReq /\ abandoned
    <3>1. mine # r BY <1>12 DEF Awaited
    <3> QED BY <3>1, Alone DEF LeftBehind
  <2>2. \A s \in Reqs : ~OfMine(s)' BY <1>2, <1>5, <1>12 DEF OfMine
  <2> QED BY <1>1, <1>6, <1>7, <1>10, <1>11, <2>1, <2>2 DEF Awaited, LeftBehind, Settled
<1>13. CASE req[r].pc = "decoding"
  <2>1. mine = r BY <1>13 DEF LeftBehind
  <2>2. Len(heard) = done /\ done \in Nat BY <1>13, <2>1 DEF Awaited, EndType
  <2>3. Len(heard') = IF req'[r].result = "ok" THEN done + 1 ELSE done
    <3>1. CASE req'[r].result = "ok"
      <4>1. heard' = Hears(r) BY <1>2, <1>13, <3>1 DEF Decoding
      <4> QED BY <1>1, <1>2, <1>3, <1>8, <2>2, <3>1, <4>1, HearsInOrder
    <3>2. CASE req'[r].result # "ok"
      <4>1. heard' = heard BY <1>2, <1>13, <3>2 DEF Decoding
      <4> QED BY <2>2, <3>2, <4>1
    <3> QED BY <3>1, <3>2
  <2>4. Awaited' BY <1>1, <1>2, <1>13, <2>1, <2>3 DEF Awaited
  <2>5. LeftBehind' BY <1>1, <1>5, <2>1 DEF LeftBehind
  <2>6. Settled' BY <1>1, <2>1 DEF Settled
  <2> QED BY <1>6, <1>7, <1>10, <1>11, <2>4, <2>5, <2>6
<1> QED BY <1>2, <1>12, <1>13

(* A call that ends holding nothing, and what the client makes of it.        *)
LEMMA CallOver ==
    ASSUME EInv, NEW r \in Reqs, OfMine(r), NEW ok \in BOOLEAN, mine = r, Sees(r, ok),
           \A s \in Reqs \ {r} : req'[s] = req[s], ~OfMine(r)',
           ok => req[r].pc = "decoded" /\ req[r].result = "ok",
           UNCHANGED <<carried, pieces, heard, interrupted>>
    PROVE  /\ EndType' /\ Awaited' /\ LeftBehind' /\ Settled' /\ InOrder'
           /\ done' = done + 1 /\ abandoned' = ~ok
           /\ \A s \in Reqs : ~OfMine(s)'
<1> USE EndAssumption DEF EInv, DictationInv
<1>1. mine' = NoReq /\ done' = done + 1 /\ abandoned' = ~ok BY DEF Sees, Abandons
<1>2. \A s \in Reqs : ~OfMine(s)'
  BY Alone DEF OfMine
<1>3. EndType' BY <1>1 DEF EndType, Awaited
<1>4. Awaited' /\ LeftBehind' BY <1>1, <1>2 DEF Awaited, LeftBehind
<1>5. Settled' BY <1>1 DEF Settled, Awaited
<1>6. InOrder' BY DEF InOrder
<1> QED BY <1>1, <1>2, <1>3, <1>4, <1>5, <1>6

(* A refusal ends the dictation.                                             *)
LEMMA RefusedStep ==
    ASSUME EInv, NEW r \in Reqs, OfMine(r), Refused(r) PROVE DictationInv'
<1> USE EndAssumption DEF EInv, DictationInv
<1>1. /\ req[r].pc = "load" /\ req'[r].pc = "replied" /\ sess' \in {sess, Swept}
      /\ \A s \in Reqs \ {r} : req'[s] = req[s]
  BY RefusedFacts DEF Refused
<1>2. Sees(r, FALSE) /\ UNCHANGED <<carried, pieces, heard, interrupted>>
  BY DEF Refused, history
<1>3. mine = r BY <1>1 DEF LeftBehind
<1>4. /\ EndType' /\ Awaited' /\ LeftBehind' /\ Settled' /\ InOrder'
      /\ abandoned' /\ \A s \in Reqs : ~OfMine(s)'
  BY <1>1, <1>2, <1>3, CallOver DEF OfMine
<1>5. Latest'
  <2>1. sess'[Mine].rec \in {sess[Mine].rec, NoRec} BY <1>1 DEF Swept, NoSession
  <2> QED BY <1>2, <1>4, <2>1 DEF Latest, OnLatest
<1>6. Whole'
  <2>1. ~interrupted => pieces = << >> \/ Len(pieces) = 1 BY DEF Whole
  <2> QED BY <1>2, <1>4, <2>1 DEF Whole
<1> QED BY <1>4, <1>5, <1>6

(* An answer lets the client go on, or ends the dictation.                   *)
LEMMA AnsweringStep ==
    ASSUME EInv, NEW r \in Reqs, OfMine(r), Answering(r) PROVE DictationInv'
<1> USE EndAssumption DEF EInv, DictationInv
<1>1. /\ req[r].pc = "decoded" /\ req'[r].pc = "replied" /\ req[r].id = Mine
      /\ \A s \in Reqs \ {r} : req'[s] = req[s]
      /\ \/ sess' = sess
         \/ sess'[Mine] = NoSession /\ req[r].last /\ req[r].result = "ok"
  BY ResumeFacts DEF Answering, OfMine
<1>2. Sees(r, req[r].result = "ok") /\ UNCHANGED <<carried, pieces, heard, interrupted>>
  BY DEF Answering, history
<1>3. mine = r BY <1>1 DEF LeftBehind
<1>4. /\ EndType' /\ Awaited' /\ LeftBehind' /\ Settled' /\ InOrder'
      /\ done' = done + 1 /\ abandoned' = (req[r].result # "ok")
      /\ \A s \in Reqs : ~OfMine(s)'
  BY <1>1, <1>2, <1>3, CallOver DEF OfMine
<1>5. Latest'
  <2>1. sess'[Mine].rec \in {sess[Mine].rec, NoRec} BY <1>1 DEF NoSession
  <2> QED BY <1>2, <1>4, <2>1 DEF Latest, OnLatest
<1>6. Whole'
  <2>1. ~interrupted => \/ pieces = << >>
                        \/ Len(pieces) = 1 /\ Mine \in Awake
    BY <1>3 DEF Whole, Awaited
  <2>2. sess' = sess => (Mine \in Awake => Mine \in Awake') BY DEF Awake, Opened
  <2>3. req[r].last => done + 1 = MaxChunks BY <1>3 DEF Awaited
  <2> QED BY <1>1, <1>2, <1>4, <2>1, <2>2, <2>3 DEF Whole
<1> QED BY <1>4, <1>5, <1>6

(* A hang-up ends the dictation, and may leave its last chunk decoding.      *)
LEMMA HangUpStep ==
    ASSUME EInv, NEW r \in Reqs, OfMine(r), HangUp(r) PROVE DictationInv'
<1> USE EndAssumption DEF EInv, DictationInv
<1>1. /\ sess' = sess /\ req[r].pc \in {"load", "decoding", "decoded"}
      /\ \A s \in Reqs \ {r} : req'[s] = req[s]
      /\ \/ req'[r].pc = "idle"
         \/ /\ req[r].pc = "decoding" /\ req'[r].pc = "detached"
            /\ req'[r].id = req[r].id /\ req'[r].rec = req[r].rec
  BY CancelFacts DEF HangUp
<1>2. Sees(r, FALSE) /\ UNCHANGED <<carried, pieces, heard, interrupted>>
  BY DEF HangUp, history
<1>3. mine = r BY <1>1 DEF LeftBehind
<1>4. mine' = NoReq /\ done' = done + 1 /\ abandoned'
  BY <1>2, <1>3 DEF Sees, Abandons
<1>5. \A s \in Reqs : OfMine(s)' => s = r BY <1>1, Alone DEF OfMine
<1>6. EndType' BY <1>2, <1>4, <1>3 DEF EndType, Awaited
<1>7. Awaited' /\ Settled' BY <1>4 DEF Awaited, Settled
<1>8. LeftBehind'
  <2>1. SUFFICES ASSUME OfMine(r)'
                 PROVE  /\ req'[r].pc = "detached" /\ carried'[r] = done'
                        /\ Len(heard') = done' - 1
    BY <1>4, <1>5 DEF LeftBehind
  <2>2. req[r].pc = "decoding" /\ req'[r].pc = "detached" BY <1>1, <2>1 DEF OfMine
  <2>3. carried[r] = done + 1 /\ Len(heard) = done /\ done \in Nat
    BY <1>3, <2>2 DEF Awaited, EndType
  <2> QED BY <1>2, <1>4, <2>2, <2>3
<1>9. InOrder' BY <1>2 DEF InOrder
<1>10. Latest'
  <2>1. OfMine(r)' => OnLatest(req[r].rec)' BY <1>1, <1>2 DEF Latest, OnLatest, OfMine
  <2> QED BY <1>1, <1>2, <1>5, <2>1 DEF Latest, OnLatest
<1>11. Whole'
  <2>1. ~interrupted => pieces = << >> \/ Len(pieces) = 1 BY DEF Whole
  <2> QED BY <1>2, <1>4, <2>1 DEF Whole
<1> QED BY <1>6, <1>7, <1>8, <1>9, <1>10, <1>11

(* Time passes: the session may fall asleep, which counts as interruption.   *)
LEMMA WaitingStep == ASSUME EInv, Waiting PROVE DictationInv'
<1> USE EndAssumption DEF EInv, DictationInv
<1>1. /\ UNCHANGED <<done, abandoned, mine, carried, pieces, heard, req>>
      /\ interrupted' = (interrupted \/ sess'[Mine].age = IdleLimit)
  BY DEF Waiting, Tick, client
<1>2. sess'[Mine] = Older(sess[Mine]) BY DEF Waiting, Tick
<1>3. sess[Mine] \in Session \cup {NoSession} BY DEF IInv, TypeOK
<1>4. /\ sess'[Mine].rec = sess[Mine].rec
      /\ Mine \in Awake /\ sess'[Mine].age # IdleLimit => Mine \in Awake'
  BY <1>2, <1>3, ServiceAssumption DEF Older, Session, NoSession, Awake, Opened
<1>5. EndType' BY <1>1 DEF EndType
<1>6. Awaited' /\ LeftBehind' /\ Settled' /\ InOrder'
  BY <1>1 DEF Awaited, LeftBehind, Settled, InOrder, OfMine
<1>7. Latest' BY <1>1, <1>4 DEF Latest, OnLatest, OfMine
<1>8. Whole' BY <1>1, <1>4 DEF Whole
<1> QED BY <1>5, <1>6, <1>7, <1>8

(* The pod is restarted: whatever the client waited for has failed.          *)
LEMMA RestartStep == ASSUME EInv, Restart PROVE EInv'
<1> USE EndAssumption DEF EInv, DictationInv
<1>1. IInv'
  BY IdleType, ServiceAssumption
     DEF Restart, IInv, TypeOK, SessionRefs, CallRefs, Idle, NoSession, Dropped, Call
<1>2. /\ sess'[Mine].rec = NoRec /\ \A r \in Reqs : req'[r].pc = "idle"
      /\ interrupted' /\ UNCHANGED <<carried, pieces, heard>>
  BY DEF Restart, NoSession, Idle
<1>3. \A r \in Reqs : ~OfMine(r)' BY <1>2 DEF OfMine
<1>4. /\ mine' = NoReq
      /\ \/ mine = NoReq /\ done' = done /\ abandoned' = abandoned
         \/ mine # NoReq /\ done' = done + 1 /\ abandoned' = TRUE
  BY DEF Restart, Sees, Abandons
<1>5. EndType'
  <2>1. abandoned' \in BOOLEAN /\ interrupted' \in BOOLEAN BY <1>4 DEF EndType, Restart
  <2>2. done' \in 0 .. MaxChunks BY <1>4 DEF EndType, Awaited
  <2> QED BY <1>2, <1>4, <2>1, <2>2 DEF EndType
<1>6. Awaited' /\ LeftBehind' BY <1>3, <1>4 DEF Awaited, LeftBehind
<1>7. Settled' BY <1>2, <1>4 DEF Settled
<1>8. InOrder' BY <1>2 DEF InOrder
<1>9. Latest' BY <1>2, <1>3 DEF Latest, OnLatest
<1>10. Whole' BY <1>2 DEF Whole
<1> QED BY <1>1, <1>5, <1>6, <1>7, <1>8, <1>9, <1>10

(* Every step but a restart is a step of the service.                        *)
LEMMA ServiceSteps == ASSUME EndNext PROVE Next \/ Restart
BY DEF EndNext, Next, Send, Elsewhere, Loading, Refused, Found, Opening, Decoding,
       Answering, HangUp, Waiting, Arrive, Lookup

(* A call of some other id does nothing to the dictation.                    *)
LEMMA ElsewhereStep ==
    ASSUME EInv, NEW r \in Reqs, ~OfMine(r),
           \/ Elsewhere(r) \/ Loading(r) \/ Refused(r) \/ Found(r)
           \/ Opening(r) \/ Decoding(r) \/ Answering(r) \/ HangUp(r)
    PROVE  DictationInv'
<1> USE EndAssumption DEF EInv
<1>1. mine # r BY DEF DictationInv, Awaited, OfMine
<1>2. IInv /\ Mine \in Ids /\ carried \in [Reqs -> Nat] BY DEF DictationInv, EndType
<1>3. CASE Elsewhere(r)
  <2>1. /\ \A s \in Reqs \ {r} : req'[s] = req[s]
        /\ req'[r].id # Mine /\ sess'[Mine] = sess[Mine]
    BY <1>2, <1>3, ChunkFacts, CloseFacts DEF Elsewhere
  <2>2. /\ \A s \in Reqs \ {r} : carried'[s] = carried[s]
        /\ carried' \in [Reqs -> Nat]
        /\ UNCHANGED <<done, abandoned, mine, history>>
    BY <1>2, <1>3 DEF Elsewhere
  <2> QED BY <2>1, <2>2, Bystander DEF OfMine
<1>4. CASE Loading(r)
  <2>1. req' = req /\ sess' = sess BY <1>4 DEF Loading, LoadModel
  <2>2. UNCHANGED <<done, abandoned, mine, carried, history>> BY <1>4 DEF Loading, client
  <2> QED BY <1>2, <2>1, <2>2, Bystander DEF OfMine
<1>5. CASE Refused(r)
  <2>1. /\ req'[r].pc = "replied" /\ sess'[Mine] \in {sess[Mine], Swept[Mine]}
        /\ \A s \in Reqs \ {r} : req'[s] = req[s]
    BY <1>2, <1>5, RefusedFacts DEF Refused
  <2>2. UNCHANGED <<done, abandoned, mine, carried, history>>
    BY <1>1, <1>5 DEF Refused, Sees
  <2> QED BY <1>2, <2>1, <2>2, Bystander DEF OfMine
<1>6. CASE Found(r)
  <2>1. /\ req[r].pc = "load" /\ req'[r].id = req[r].id
        /\ \A s \in Reqs \ {r} : req'[s] = req[s]
        /\ req[r].id # Mine => sess'[Mine] = Swept[Mine]
    BY <1>2, <1>6, FoundFacts DEF Found
  <2>2. req[r].id # Mine BY <2>1 DEF OfMine
  <2>3. UNCHANGED <<done, abandoned, mine, carried, history>> BY <1>6 DEF Found, client
  <2> QED BY <1>2, <2>1, <2>2, <2>3, Bystander DEF OfMine
<1>7. CASE Opening(r)
  <2>1. /\ req[r].pc = "load" /\ req'[r].id = req[r].id
        /\ \A s \in Reqs \ {r} : req'[s] = req[s]
        /\ req[r].id # Mine => sess'[Mine] = Swept[Mine]
    BY <1>2, <1>7, OpenFacts DEF Opening
  <2>2. req[r].id # Mine BY <2>1 DEF OfMine
  <2>3. UNCHANGED <<done, abandoned, mine, carried, history>>
    BY <1>7, <2>2 DEF Opening, client, history
  <2> QED BY <1>2, <2>1, <2>2, <2>3, Bystander DEF OfMine
<1>8. CASE Decoding(r)
  <2>1. /\ sess' = sess /\ \A s \in Reqs \ {r} : req'[s] = req[s]
        /\ req[r].pc \in {"decoding", "detached"}
        /\ req'[r].pc = "idle" \/ req'[r].id = req[r].id
    BY <1>2, <1>8, DecodeFacts DEF Decoding
  <2>2. req[r].id # Mine BY <2>1 DEF OfMine
  <2>3. UNCHANGED <<done, abandoned, mine, carried, history>>
    BY <1>8, <2>2 DEF Decoding, client, history
  <2> QED BY <1>2, <2>1, <2>2, <2>3, Bystander DEF OfMine
<1>9. CASE Answering(r)
  <2>1. /\ req[r].pc = "decoded" /\ req'[r].pc = "replied"
        /\ \A s \in Reqs \ {r} : req'[s] = req[s]
        /\ req[r].id # Mine => sess'[Mine] = sess[Mine]
    BY <1>2, <1>9, ResumeFacts DEF Answering
  <2>2. req[r].id # Mine BY <2>1 DEF OfMine
  <2>3. UNCHANGED <<done, abandoned, mine, carried, history>>
    BY <1>1, <1>9 DEF Answering, Sees
  <2> QED BY <1>2, <2>1, <2>2, <2>3, Bystander DEF OfMine
<1>10. CASE HangUp(r)
  <2>1. /\ sess' = sess /\ \A s \in Reqs \ {r} : req'[s] = req[s]
        /\ req[r].pc \in {"load", "decoding", "decoded"}
        /\ req'[r].pc = "idle" \/ req'[r].id = req[r].id
    BY <1>2, <1>10, CancelFacts DEF HangUp
  <2>2. req[r].id # Mine BY <2>1 DEF OfMine
  <2>3. UNCHANGED <<done, abandoned, mine, carried, history>>
    BY <1>1, <1>10 DEF HangUp, Sees
  <2> QED BY <1>2, <2>1, <2>2, <2>3, Bystander DEF OfMine
<1> QED BY <1>3, <1>4, <1>5, <1>6, <1>7, <1>8, <1>9, <1>10

(* Loading a model changes nothing else.                                     *)
LEMMA LoadingStep ==
    ASSUME EInv, NEW r \in Reqs, Loading(r) PROVE DictationInv'
BY DEF Loading, LoadModel, client, history, EInv, DictationInv, EndType, Awaited,
       LeftBehind, Settled, InOrder, Latest, OnLatest, Whole, OfMine, Awake, Opened

(* Every step keeps the invariant.                                           *)
LEMMA EndStepInv == ASSUME EInv, [EndNext]_allVars PROVE EInv'
<1>1. CASE UNCHANGED allVars
  BY <1>1 DEF allVars, vars, client, history, EInv, IInv, TypeOK, SessionRefs, CallRefs,
       Wanted, DictationInv, EndType, Awaited, LeftBehind, Settled, InOrder, Latest,
       OnLatest, Whole, OfMine, Awake, Opened
<1>2. CASE Restart BY <1>2, RestartStep
<1>3. ASSUME EndNext, ~Restart PROVE EInv'
  <2>1. IInv' BY <1>3, ServiceSteps, StepInv DEF EInv
  <2>2. CASE Waiting BY <2>1, <2>2, WaitingStep DEF EInv
  <2>3. ASSUME NEW r \in Reqs,
               \/ Send(r) \/ Elsewhere(r) \/ Loading(r) \/ Refused(r) \/ Found(r)
               \/ Opening(r) \/ Decoding(r) \/ Answering(r) \/ HangUp(r)
        PROVE  DictationInv'
    <3>1. CASE Send(r) BY <3>1, SendStep
    <3>2. CASE ~OfMine(r)
      BY <2>3, <3>2, SendStep, ElsewhereStep
    <3>3. CASE OfMine(r)
      <4>1. ~Elsewhere(r)
        BY <3>3, ChunkFacts, CloseFacts DEF Elsewhere, OfMine, EInv
      <4> QED BY <2>3, <3>1, <3>3, <4>1, LoadingStep, RefusedStep, FoundStep, OpeningStep,
                 DecodingStep, AnsweringStep, HangUpStep
    <3> QED BY <3>2, <3>3
  <2> QED BY <1>3, <2>1, <2>2, <2>3 DEF EndNext, EInv
<1> QED BY <1>1, <1>2, <1>3

(* A dictation starts with nothing asked and nothing heard.                  *)
LEMMA EndInitInv == EndInit => EInv
<1> SUFFICES ASSUME EndInit PROVE EInv OBVIOUS
<1>1. IInv BY InitInv DEF EndInit
<1>2. /\ \A r \in Reqs : ~OfMine(r)
      /\ sess[Mine].rec = NoRec
  BY EndAssumption DEF EndInit, Init, OfMine, Idle, NoSession
<1>3. EndType
  <2>1. carried \in [Reqs -> Nat] BY DEF EndInit
  <2>2. pieces \in Seq(Recs) /\ heard \in Seq([piece : Nat, chunk : Nat]) BY DEF EndInit
  <2>3. done \in 0 .. MaxChunks BY EndAssumption DEF EndInit
  <2> QED BY <2>1, <2>2, <2>3 DEF EndInit, EndType
<1>4. Len(heard) = 0 BY DEF EndInit
<1> QED BY <1>1, <1>2, <1>3, <1>4 DEF EInv, DictationInv, EndInit, Awaited, LeftBehind,
       Settled, InOrder, Latest, OnLatest, Whole

(* The invariant holds in every reachable state.                             *)
THEOREM EndInvariance == EndSpec => []EInv
BY EndInitInv, EndStepInv, PTL DEF EndSpec

-----------------------------------------------------------------------------

(* Whatever fails, is dropped, swept or restarted, and whatever other        *)
(* clients do: a dictation's chunks are heard once each and in order, and    *)
(* all that were answered ok have been heard.                                *)
THEOREM HeardInOrderHolds == EndSpec => []HeardInOrder
<1>1. EInv => HeardInOrder
  <2> SUFFICES ASSUME EInv PROVE HeardInOrder OBVIOUS
  <2> USE DEF EInv, DictationInv
  <2>1. ~abandoned => Len(heard) >= done
    BY DEF Settled, Awaited, EndType
  <2> QED BY <2>1 DEF HeardInOrder, InOrder
<1> QED BY <1>1, EndInvariance, PTL

(* A dictation that is neither interrupted by a restart nor left idle goes   *)
(* to one recognizer.                                                        *)
THEOREM HeardByOneHolds == EndSpec => []HeardByOne
<1>1. EInv => HeardByOne
  <2>1. pieces = << >> => Len(pieces) = 0 OBVIOUS
  <2>2. EInv /\ ~interrupted => Len(pieces) \in {0, 1}
    BY <2>1, Zenon DEF EInv, DictationInv, Whole
  <2> QED BY <2>2 DEF HeardByOne
<1> QED BY <1>1, EndInvariance, PTL

(* Restarts included, audio reaches only the recognizer of its own session.  *)
THEOREM RightRecognizerEndToEnd == EndSpec => []RightRecognizer
<1>1. EInv => RightRecognizer BY DEF EInv, IInv, CallRefs, RightRecognizer
<1> QED BY <1>1, EndInvariance, PTL

(* Restarts included, the table stays within the cap.                        *)
THEOREM SessionCapEndToEnd == EndSpec => []SessionCap
<1>1. EndInit => SessionCap
  <2>1. EndInit => Opened = {} BY DEF EndInit, Init, Opened, NoSession
  <2> QED BY <2>1, FS_EmptySet, ServiceAssumption DEF SessionCap
<1>2. EInv /\ SessionCap /\ [EndNext]_allVars => SessionCap'
  <2> SUFFICES ASSUME EInv, SessionCap, [EndNext]_allVars PROVE SessionCap' OBVIOUS
  <2>1. CASE Restart
    <3>1. Opened' = {} BY <2>1 DEF Restart, Opened, NoSession
    <3> QED BY <3>1, FS_EmptySet, ServiceAssumption DEF SessionCap
  <2>2. CASE EndNext /\ ~Restart
    BY <2>2, ServiceSteps, CapStep DEF EInv
  <2>3. CASE UNCHANGED allVars
    BY <2>3, CapStep DEF allVars, EInv
  <2> QED BY <2>1, <2>2, <2>3
<1> QED BY <1>1, <1>2, EndInvariance, PTL DEF EndSpec
=============================================================================
