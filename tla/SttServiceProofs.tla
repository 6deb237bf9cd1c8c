--------------------------- MODULE SttServiceProofs ---------------------------
(* Theorems about SttService for every set of sessions, calls and           *)
(* recognizers, every cap and every idle limit.                             *)
EXTENDS SttService, FiniteSetTheorems, TLAPS

USE ServiceAssumption

-----------------------------------------------------------------------------
(* The inductive invariant.  A recognizer that a session or a call refers to *)
(* is alive, and it is the one that was opened for that id and engine.       *)

SessionRefs ==
    \A i \in Ids : sess[i].rec # NoRec =>
        /\ recs[sess[i].rec].owner = i
        /\ recs[sess[i].rec].engine = sess[i].engine

CallRefs ==
    \A r \in Reqs :
        /\ req[r].rec # NoRec => recs[req[r].rec].owner = req[r].id /\ req[r].id \in Ids
        /\ req[r].pc \in {"decoding", "decoded", "detached"} => req[r].rec # NoRec
        /\ req[r].pc \in {"idle", "load"} => req[r].rec = NoRec
        /\ req[r].pc = "load" => req[r].id \in Ids /\ req[r].lang \in Languages
        /\ req[r].pc \in {"decoding", "detached"} /\ req[r].audio =>
                recs[req[r].rec].engine = Wanted(r)

IInv == TypeOK /\ SessionRefs /\ CallRefs

-----------------------------------------------------------------------------
(* What Keep leaves: a recognizer is as f has it as long as something refers *)
(* to it.                                                                    *)
LEMMA KeepFrame ==
    ASSUME NEW f, Keep(f)
    PROVE  /\ \A i \in Ids : sess'[i].rec \in Recs =>
                  recs'[sess'[i].rec] = f[sess'[i].rec]
           /\ \A r \in Reqs : req'[r].rec \in Recs =>
                  recs'[req'[r].rec] = f[req'[r].rec]
BY DEF Keep, Named

(* What is left of the recognizers has their type.                         *)
LEMMA KeepType ==
    ASSUME NEW f, Keep(f), \A k \in Recs : f[k] \in Recognizer \cup {Dropped}
    PROVE  recs' \in [Recs -> Recognizer \cup {Dropped}]
BY DEF Keep

(* A slot for a call is a call.                                            *)
LEMMA IdleType == Idle \in Call
BY DEF Idle, Call

(* An accepted request makes a call.                                       *)
LEMMA CalledType ==
    ASSUME NEW q \in Accepted
    PROVE  /\ Called(q) \in Call
           /\ Called(q).id = q.id /\ q.id \in Ids
           /\ Called(q).lang = q.lang /\ q.lang \in Languages
           /\ Called(q).audio = (q.audio # "empty")
           /\ Called(q).last = q.last
           /\ Called(q).rec = NoRec
BY DEF Accepted, Input, Called, Idle, Call

(* Validation answers a request or accepts it.                             *)
LEMMA ValidateType ==
    ASSUME NEW q \in Input PROVE Validate(q) \in Replies \cup {"ok"}
BY DEF Validate, Replies

(* A reply touches one call alone.                                         *)
LEMMA ReplyType ==
    ASSUME NEW r \in Reqs, NEW why \in Replies, req \in [Reqs -> Call], Reply(r, why)
    PROVE  /\ req' \in [Reqs -> Call]
           /\ \A s \in Reqs \ {r} : req'[s] = req[s]
           /\ req'[r].rec = req[r].rec /\ req'[r].pc = "replied"
           /\ req'[r].id = req[r].id /\ req'[r].last = req[r].last
           /\ req'[r].result = why
<1>1. req'[r] = [req[r] EXCEPT !.pc = "replied", !.lang = "none", !.result = why]
  BY DEF Reply
<1>2. req[r] \in Call OBVIOUS
<1>3. [req[r] EXCEPT !.pc = "replied", !.lang = "none", !.result = why] \in Call
  BY <1>2 DEF Call
<1> QED BY <1>1, <1>2, <1>3 DEF Reply, Call

(* Queueing a decode touches one call alone.                               *)
LEMMA QueueType ==
    ASSUME NEW r \in Reqs, NEW k \in Recs, req \in [Reqs -> Call], Queue(r, k)
    PROVE  /\ req' \in [Reqs -> Call]
           /\ \A s \in Reqs \ {r} : req'[s] = req[s]
           /\ req'[r].rec = k /\ req'[r].pc = "decoding"
           /\ req'[r].id = req[r].id /\ req'[r].lang = req[r].lang
           /\ req'[r].audio = req[r].audio /\ req'[r].last = req[r].last
<1>1. req'[r] = [req[r] EXCEPT !.pc = "decoding", !.rec = k] BY DEF Queue
<1>2. req[r] \in Call OBVIOUS
<1>3. [req[r] EXCEPT !.pc = "decoding", !.rec = k] \in Call BY <1>2 DEF Call
<1> QED BY <1>1, <1>2, <1>3 DEF Queue, Call

(* A call that arrives disturbs no recognizer.                              *)
LEMMA ArriveInv ==
    ASSUME IInv, NEW r \in Reqs, Arrive(r) PROVE IInv'
<1> USE DEF IInv
<1>1. CASE Refuse(r)
  <2>1. PICK why \in Replies :
            req' = [req EXCEPT ![r] = [Idle EXCEPT !.pc = "replied", !.result = why]]
    BY <1>1, ValidateType DEF Refuse
  <2>2. [Idle EXCEPT !.pc = "replied", !.result = why] \in Call BY DEF Idle, Call
  <2>3. UNCHANGED <<sess, loaded>> /\ Keep(recs) BY <1>1 DEF Refuse
  <2>4. TypeOK' BY <2>1, <2>2, <2>3, KeepType DEF TypeOK
  <2>5. SessionRefs' BY <2>3, KeepFrame DEF SessionRefs, TypeOK, Session, NoSession
  <2>6. CallRefs' BY <2>1, <2>3, KeepFrame DEF CallRefs, Wanted, TypeOK, Call, Idle
  <2> QED BY <2>4, <2>5, <2>6
<1>2. CASE CloseUnknown(r)
  <2>1. PICK q \in Accepted :
            req' = [req EXCEPT ![r] = [Called(q) EXCEPT !.pc = "replied",
                                        !.lang = "none", !.result = "ok"]]
    BY <1>2 DEF CloseUnknown
  <2>2. [Called(q) EXCEPT !.pc = "replied", !.lang = "none", !.result = "ok"] \in Call
    <3>1. Called(q) \in Call BY CalledType
    <3> QED BY <3>1 DEF Call, Replies
  <2>3. UNCHANGED <<sess, loaded>> /\ Keep(recs) BY <1>2 DEF CloseUnknown
  <2>4. TypeOK' BY <2>1, <2>2, <2>3, KeepType DEF TypeOK
  <2>5. SessionRefs' BY <2>3, KeepFrame DEF SessionRefs, TypeOK, Session, NoSession
  <2>6. CallRefs' BY <2>1, <2>3, CalledType, KeepFrame DEF CallRefs, Wanted, TypeOK, Call
  <2> QED BY <2>4, <2>5, <2>6
<1>3. CASE CloseFound(r)
  <2>1. PICK q \in Accepted :
            /\ BareClose(q)
            /\ q.id \in Opened
            /\ sess' = [sess EXCEPT ![q.id].age = 0]
            /\ req' = [req EXCEPT ![r] = [Called(q) EXCEPT !.pc = "decoding",
                                                         !.rec = sess[q.id].rec]]
    BY <1>3 DEF CloseFound
  <2> DEFINE c == [Called(q) EXCEPT !.pc = "decoding", !.rec = sess[q.id].rec]
  <2>2. /\ c \in Call /\ c.id = q.id /\ c.rec = sess[q.id].rec
        /\ c.pc = "decoding" /\ c.audio = FALSE
    <3>1. Called(q) \in Call /\ Called(q).id = q.id /\ Called(q).audio = (q.audio # "empty")
      BY CalledType
    <3>2. sess[q.id].rec \in Recs
      BY <2>1 DEF Opened, TypeOK, Session, NoSession
    <3> QED BY <2>1, <3>1, <3>2 DEF Call, BareClose
  <2>3. UNCHANGED loaded /\ Keep(recs) BY <1>3 DEF CloseFound
  <2>4. sess' \in [Ids -> Session \cup {NoSession}]
    BY <2>1 DEF TypeOK, Session, NoSession, Opened
  <2>5. TypeOK' BY <2>1, <2>2, <2>3, <2>4, KeepType DEF TypeOK
  <2>6. SessionRefs'
    BY <2>1, <2>3, KeepFrame DEF SessionRefs, TypeOK, Session, NoSession
  <2>7. \A s \in Reqs \ {r} : req'[s] = req[s] BY <2>1 DEF TypeOK
  <2>8. req'[r] = c BY <2>1 DEF TypeOK
  <2>9. recs[c.rec].owner = q.id /\ c.rec \in Recs
    BY <2>1, <2>2 DEF SessionRefs, Opened, TypeOK, Session, NoSession
  <2>10. CallRefs'
    <3> HIDE DEF c
    <3> QED BY <2>2, <2>3, <2>7, <2>8, <2>9, CalledType, KeepFrame DEF CallRefs, Wanted, TypeOK, Call
  <2> QED BY <2>5, <2>6, <2>10
<1>4. CASE Chunk(r)
  <2>1. PICK q \in Accepted : req' = [req EXCEPT ![r] = [Called(q) EXCEPT !.pc = "load"]]
    BY <1>4 DEF Chunk
  <2>2. [Called(q) EXCEPT !.pc = "load"] \in Call BY CalledType DEF Call
  <2>3. UNCHANGED <<sess, loaded>> /\ Keep(recs) BY <1>4 DEF Chunk
  <2>4. TypeOK' BY <2>1, <2>2, <2>3, KeepType DEF TypeOK
  <2>5. SessionRefs' BY <2>3, KeepFrame DEF SessionRefs, TypeOK, Session, NoSession
  <2>6. CallRefs' BY <2>1, <2>3, CalledType, KeepFrame DEF CallRefs, Wanted, TypeOK, Call
  <2> QED BY <2>4, <2>5, <2>6
<1> QED BY <1>1, <1>2, <1>3, <1>4 DEF Arrive

(* Neither does a load.                                                     *)
LEMMA LoadInv ==
    ASSUME IInv, NEW r \in Reqs, LoadModel(r) \/ LoadFails(r) PROVE IInv'
<1> USE DEF IInv
<1>1. CASE LoadModel(r)
  <2>1. TypeOK' BY <1>1 DEF LoadModel, TypeOK, Wanted, EngineFor, Engines
  <2>2. SessionRefs' /\ CallRefs' BY <1>1 DEF LoadModel, SessionRefs, CallRefs, Wanted
  <2> QED BY <2>1, <2>2
<1>2. CASE LoadFails(r)
  <2>1. PICK why \in Replies : Reply(r, why) BY <1>2 DEF LoadFails, Replies
  <2>2. TypeOK' BY <1>2, <2>1 DEF LoadFails, Reply, TypeOK, Call
  <2>3. SessionRefs' BY <1>2 DEF LoadFails, SessionRefs
  <2>4. CallRefs' BY <1>2, <2>1 DEF LoadFails, Reply, CallRefs, Wanted, TypeOK, Call
  <2> QED BY <2>2, <2>3, <2>4
<1> QED BY <1>1, <1>2

(* session(): what is swept away leaves the other references as they are,   *)
(* and a recognizer that is opened was referred to by nobody.               *)
LEMMA SweptType ==
    ASSUME TypeOK PROVE /\ Swept \in [Ids -> Session \cup {NoSession}]
                        /\ \A i \in Ids : Swept[i] \in {sess[i], NoSession}
BY DEF Swept, TypeOK, Awake

(* A refusal keeps the invariant: its sweep only removes.                  *)
LEMMA RefusedInv ==
    ASSUME IInv, NEW r \in Reqs, NEW why \in Replies, req[r].pc = "load",
           sess' = Swept, Reply(r, why), Keep(recs), UNCHANGED loaded
    PROVE  IInv'
<1> USE DEF IInv
<1>1. TypeOK'
  <2>1. recs' \in [Recs -> Recognizer \cup {Dropped}] BY KeepType DEF TypeOK
  <2> QED BY <2>1, SweptType, ReplyType DEF TypeOK
<1>2. SessionRefs'
  BY SweptType, KeepFrame DEF SessionRefs, TypeOK, Session, NoSession
<1>3. CallRefs' BY KeepFrame DEF Reply, CallRefs, Wanted, TypeOK, Call
<1> QED BY <1>1, <1>2, <1>3

(* A look-up keeps the invariant, whichever way it ends.                   *)
LEMMA LookupInv ==
    ASSUME IInv, NEW r \in Reqs, Lookup(r) PROVE IInv'
<1> USE DEF IInv
<1>1. CASE SwitchRefused(r)
  BY <1>1, RefusedInv DEF SwitchRefused, Sweeping, Replies
<1>2. CASE CapReached(r)
  BY <1>2, RefusedInv DEF CapReached, Sweeping, Replies
<1>3. CASE UnknownLanguage(r)
  BY <1>3, RefusedInv DEF UnknownLanguage, Sweeping, Replies
<1>4. CASE ContinueSession(r)
  <2> DEFINE i == req[r].id
             k == sess[i].rec
  <2>1. /\ i \in Ids /\ i \in Awake /\ k \in Recs
        /\ sess[i].engine = Wanted(r) /\ Swept[i] = sess[i]
        /\ sess' = [Swept EXCEPT ![i].age = 0]
        /\ Queue(r, k)
        /\ Keep(recs) /\ UNCHANGED loaded
    BY <1>4 DEF ContinueSession, SameEngine, Awake, Opened, Swept, TypeOK,
                Session, NoSession
  <2>2. sess' \in [Ids -> Session \cup {NoSession}]
    BY <2>1, SweptType DEF TypeOK, Session, NoSession
  <2>3. TypeOK'
    <3>1. recs' \in [Recs -> Recognizer \cup {Dropped}] BY <2>1, KeepType DEF TypeOK
    <3> QED BY <2>1, <2>2, <3>1, QueueType DEF TypeOK
  <2>4. recs[k].owner = i /\ recs[k].engine = Wanted(r)
    BY <2>1 DEF SessionRefs, Awake, Opened
  <2>5. SessionRefs'
    BY <2>1, <2>2, SweptType, KeepFrame DEF SessionRefs, TypeOK, Session, NoSession
  <2>6. CallRefs'
    <3>1. /\ \A s \in Reqs \ {r} : req'[s] = req[s]
          /\ req'[r].rec = k /\ req'[r].id = i /\ req'[r].pc = "decoding"
          /\ req'[r].lang = req[r].lang
      BY <2>1, QueueType DEF TypeOK
    <3>2. recs'[k] = recs[k] BY <2>1, <3>1, KeepFrame
    <3> HIDE DEF k, i
    <3> QED BY <2>1, <2>4, <3>1, <3>2, KeepFrame DEF CallRefs, Wanted, TypeOK, Call
  <2> QED BY <2>3, <2>5, <2>6
<1>5. CASE OpenSession(r)
  <2> DEFINE i == req[r].id
  <2>1. PICK k \in Recs \ Named(sess, req) :
        /\ sess' = [Swept EXCEPT ![i] = [rec |-> k, engine |-> Wanted(r), age |-> 0]]
        /\ Queue(r, k)
        /\ Keep([recs EXCEPT ![k] = Fresh(Wanted(r), i)])
    BY <1>5 DEF OpenSession
  <2>2. i \in Ids /\ req[r].pc = "load" /\ UNCHANGED loaded /\ Wanted(r) \in Engines
    BY <1>5 DEF OpenSession, Sweeping, CallRefs, Wanted, EngineFor, Engines
  <2> DEFINE f == [recs EXCEPT ![k] = Fresh(Wanted(r), i)]
  <2>3. f \in [Recs -> Recognizer \cup {Dropped}]
    BY <2>2 DEF TypeOK, Fresh, Recognizer
  <2>4. f[k].owner = i /\ f[k].engine = Wanted(r) /\ \A m \in Recs \ {k} : f[m] = recs[m]
    BY <2>1 DEF TypeOK, Fresh
  <2>5. /\ \A j \in Ids : sess[j].rec # k
        /\ \A s \in Reqs : req[s].rec # k
    BY <2>1 DEF Named
  <2>6. sess' \in [Ids -> Session \cup {NoSession}]
    BY <2>1, <2>2, SweptType, ServiceAssumption DEF Session
  <2>7. /\ sess'[i].rec = k /\ sess'[i].engine = Wanted(r)
        /\ \A j \in Ids \ {i} : sess'[j] \in {sess[j], NoSession}
    BY <2>1, <2>2, SweptType
  <2>8. /\ req' \in [Reqs -> Call]
        /\ \A s \in Reqs \ {r} : req'[s] = req[s]
        /\ req'[r].rec = k /\ req'[r].id = i /\ req'[r].pc = "decoding"
        /\ req'[r].lang = req[r].lang
    BY <2>1, QueueType DEF TypeOK
  <2>9. Keep(f) BY <2>1
  <2> HIDE DEF f, i
  <2>10. /\ \A j \in Ids : sess'[j].rec \in Recs => recs'[sess'[j].rec] = f[sess'[j].rec]
         /\ \A s \in Reqs : req'[s].rec \in Recs => recs'[req'[s].rec] = f[req'[s].rec]
         /\ recs' \in [Recs -> Recognizer \cup {Dropped}]
    BY <2>3, <2>9, KeepFrame, KeepType
  <2>11. TypeOK' BY <2>2, <2>6, <2>8, <2>10 DEF TypeOK
  <2>12. SessionRefs'
    BY <2>1, <2>4, <2>5, <2>6, <2>7, <2>10 DEF SessionRefs, TypeOK, Session, NoSession
  <2>13. CallRefs'
    BY <2>1, <2>2, <2>4, <2>5, <2>8, <2>10 DEF CallRefs, Wanted, TypeOK, Call
  <2> QED BY <2>11, <2>12, <2>13
<1> QED BY <1>1, <1>2, <1>3, <1>4, <1>5 DEF Lookup

(* A push changes no owner and no engine.                                   *)
LEMMA DecodeInv ==
    ASSUME IInv, NEW r \in Reqs, Decode(r) PROVE IInv'
<1> USE DEF IInv
<1> DEFINE k == req[r].rec
<1>1. /\ req[r].pc \in {"decoding", "detached"} /\ UNCHANGED <<sess, loaded>>
      /\ k \in Recs /\ recs[k] \in Recognizer
  BY DEF Decode, CallRefs, TypeOK, Call, Recognizer, Dropped, ServiceAssumption
<1>2. PICK result \in {"ok", "Internal"}, loses \in BOOLEAN :
        /\ TaskEnds(r, result)
        /\ Keep([recs EXCEPT ![k] = Pushed(k, req[r].last, loses)])
  BY DEF Decode
<1> DEFINE p == Pushed(k, req[r].last, loses)
           f == [recs EXCEPT ![k] = p]
<1>3. p \in Recognizer /\ p.owner = recs[k].owner /\ p.engine = recs[k].engine
  <2>1. req[r].last \in BOOLEAN BY DEF TypeOK, Call
  <2> QED BY <1>1, <2>1 DEF Pushed, Recognizer
<1> HIDE DEF p
<1>4. /\ f \in [Recs -> Recognizer \cup {Dropped}]
      /\ \A m \in Recs : f[m].owner = recs[m].owner /\ f[m].engine = recs[m].engine
  BY <1>1, <1>3 DEF TypeOK
<1>5. Keep(f) BY <1>2 DEF p
<1> HIDE DEF f
<1>6. recs' \in [Recs -> Recognizer \cup {Dropped}] BY <1>4, <1>5, KeepType
<1>7. /\ req' \in [Reqs -> Call]
      /\ \A s \in Reqs \ {r} : req'[s] = req[s]
      /\ \/ req'[r] = Idle
         \/ /\ req'[r].pc = "decoded" /\ req'[r].rec = k /\ req'[r].id = req[r].id
  <2>1. CASE req[r].pc = "detached"
    BY <1>2, <2>1, IdleType DEF TaskEnds, TypeOK
  <2>2. CASE req[r].pc # "detached"
    <3> DEFINE d == [req[r] EXCEPT !.pc = "decoded", !.lang = "none", !.result = result]
    <3>1. req[r] \in Call BY DEF TypeOK
    <3>2. /\ d \in Call /\ d.pc = "decoded" /\ d.rec = k /\ d.id = req[r].id
      BY <3>1 DEF Call, Replies
    <3>3. req' = [req EXCEPT ![r] = d] BY <1>2, <2>2 DEF TaskEnds, TypeOK
    <3> QED BY <3>2, <3>3 DEF TypeOK
  <2> QED BY <2>1, <2>2
<1>8. TypeOK' BY <1>1, <1>6, <1>7 DEF TypeOK
<1>9. SessionRefs'
  BY <1>1, <1>4, <1>5, KeepFrame DEF SessionRefs, TypeOK, Session, NoSession
<1>10. CallRefs'
  BY <1>1, <1>4, <1>5, <1>7, KeepFrame DEF CallRefs, Wanted, TypeOK, Call, Idle
<1> QED BY <1>8, <1>9, <1>10

(* A failed close leaves its mark and nothing else.                         *)
LEMMA NoteType ==
    ASSUME IInv, NEW r \in Reqs, req[r].rec # NoRec
    PROVE  /\ NoteFailedClose(r) \in [Recs -> Recognizer \cup {Dropped}]
           /\ \A m \in Recs : /\ NoteFailedClose(r)[m].owner = recs[m].owner
                             /\ NoteFailedClose(r)[m].engine = recs[m].engine
                             /\ NoteFailedClose(r)[m].finished = recs[m].finished
<1>1. req[r].rec \in Recs /\ recs[req[r].rec] \in Recognizer
  BY DEF IInv, CallRefs, TypeOK, Call, Recognizer, Dropped, ServiceAssumption
<1>2. [recs[req[r].rec] EXCEPT !.closeFailed = TRUE] \in Recognizer
  BY <1>1 DEF Recognizer
<1>3. recs \in [Recs -> Recognizer \cup {Dropped}] BY DEF IInv, TypeOK
<1> QED BY <1>1, <1>2, <1>3 DEF NoteFailedClose, Recognizer

(* What follows a decode keeps the invariant.                              *)
LEMMA ResumeInv ==
    ASSUME IInv, NEW r \in Reqs, Resume(r) PROVE IInv'
<1> USE DEF IInv
<1>1. CASE Answer(r)
  <2>1. /\ sess' \in [Ids -> Session \cup {NoSession}]
        /\ \A i \in Ids : sess'[i] \in {sess[i], NoSession}
    BY <1>1 DEF Answer, TypeOK
  <2>2. Reply(r, "ok") /\ Keep(recs) /\ UNCHANGED loaded BY <1>1 DEF Answer
  <2>3. recs' \in [Recs -> Recognizer \cup {Dropped}] BY <2>2, KeepType DEF TypeOK
  <2>4. TypeOK' BY <2>1, <2>2, <2>3, ReplyType DEF TypeOK, Replies
  <2>5. SessionRefs'
    BY <2>1, <2>2, KeepFrame DEF SessionRefs, TypeOK, Session, NoSession
  <2>6. CallRefs'
    BY <1>1, <2>2, KeepFrame DEF Answer, Reply, CallRefs, Wanted, TypeOK, Call
  <2> QED BY <2>4, <2>5, <2>6
<1>2. CASE AnswerFailed(r)
  <2> DEFINE f == NoteFailedClose(r)
  <2>1. /\ req[r].pc = "decoded" /\ req[r].rec # NoRec /\ req[r].result \in Replies \cup {"none"}
        /\ Reply(r, req[r].result) /\ Keep(f) /\ UNCHANGED <<sess, loaded>>
    BY <1>2 DEF AnswerFailed, CallRefs, TypeOK, Call
  <2>2. /\ f \in [Recs -> Recognizer \cup {Dropped}]
        /\ \A m \in Recs : f[m].owner = recs[m].owner /\ f[m].engine = recs[m].engine
    BY <2>1, NoteType
  <2> HIDE DEF f
  <2>3. recs' \in [Recs -> Recognizer \cup {Dropped}] BY <2>1, <2>2, KeepType
  <2>4. req' \in [Reqs -> Call]
    <3>1. req[r] \in Call BY DEF TypeOK
    <3>2. [req[r] EXCEPT !.pc = "replied", !.lang = "none", !.result = req[r].result] \in Call
      BY <3>1 DEF Call
    <3> QED BY <2>1, <3>2 DEF Reply, TypeOK
  <2>5. TypeOK' BY <2>1, <2>3, <2>4 DEF TypeOK
  <2>6. SessionRefs'
    BY <2>1, <2>2, KeepFrame DEF SessionRefs, TypeOK, Session, NoSession
  <2>7. CallRefs'
    BY <2>1, <2>2, KeepFrame DEF Reply, CallRefs, Wanted, TypeOK, Call
  <2> QED BY <2>5, <2>6, <2>7
<1> QED BY <1>1, <1>2 DEF Resume

(* A hang-up keeps the invariant.                                          *)
LEMMA CancelInv ==
    ASSUME IInv, NEW r \in Reqs, Cancel(r) PROVE IInv'
<1> USE DEF IInv
<1>1. PICK f \in {recs, NoteFailedClose(r)} :
        /\ Keep(f)
        /\ f = recs \/ req[r].rec # NoRec
  BY DEF Cancel, CallRefs
<1>2. /\ f \in [Recs -> Recognizer \cup {Dropped}]
      /\ \A m \in Recs : f[m].owner = recs[m].owner /\ f[m].engine = recs[m].engine
  BY <1>1, NoteType DEF TypeOK
<1>3. UNCHANGED <<sess, loaded>> BY DEF Cancel
<1>4. recs' \in [Recs -> Recognizer \cup {Dropped}] BY <1>1, <1>2, KeepType
<1>5. \/ req' = [req EXCEPT ![r] = Idle]
      \/ req[r].pc = "decoding" /\ req' = [req EXCEPT ![r].pc = "detached"]
  BY DEF Cancel
<1>6. req' \in [Reqs -> Call] BY <1>5, IdleType DEF TypeOK, Call
<1>7. TypeOK' BY <1>3, <1>4, <1>6 DEF TypeOK
<1>8. SessionRefs'
  BY <1>1, <1>2, <1>3, KeepFrame DEF SessionRefs, TypeOK, Session, NoSession
<1>9. CallRefs'
  BY <1>1, <1>2, <1>5, KeepFrame DEF CallRefs, Wanted, TypeOK, Call, Idle
<1> QED BY <1>7, <1>8, <1>9

(* Time keeps the invariant.                                               *)
LEMMA TickInv ==
    ASSUME IInv, Tick PROVE IInv'
<1> USE DEF IInv
<1>1. /\ sess' \in [Ids -> Session \cup {NoSession}]
      /\ \A i \in Ids : sess'[i].rec = sess[i].rec /\ sess'[i].engine = sess[i].engine
  <2>1. \A i \in Ids : Older(sess[i]) \in Session \cup {NoSession}
    BY ServiceAssumption DEF TypeOK, Older, Session, NoSession
  <2> QED BY <2>1, ServiceAssumption DEF Tick, TypeOK, Older, Session, NoSession
<1>2. UNCHANGED <<recs, req, loaded>> BY DEF Tick
<1>3. TypeOK' BY <1>1, <1>2 DEF TypeOK
<1>4. SessionRefs' BY <1>1, <1>2 DEF SessionRefs
<1>5. CallRefs' BY <1>2 DEF CallRefs, Wanted
<1> QED BY <1>3, <1>4, <1>5

(* Every step keeps the invariant.                                         *)
LEMMA StepInv == ASSUME IInv, [Next]_vars PROVE IInv'
<1>1. CASE Next
  BY <1>1, ArriveInv, LoadInv, LookupInv, DecodeInv, ResumeInv, CancelInv, TickInv DEF Next
<1>2. CASE UNCHANGED vars
  BY <1>2 DEF vars, IInv, TypeOK, SessionRefs, CallRefs, Wanted
<1> QED BY <1>1, <1>2

(* The empty table meets the invariant.                                    *)
LEMMA InitInv == Init => IInv
BY IdleType, ServiceAssumption
   DEF Init, IInv, TypeOK, SessionRefs, CallRefs, Idle, NoSession, Dropped, Call

(* Every reachable state is well typed and refers only to live recognizers  *)
(* that belong to whoever refers to them.                                   *)
THEOREM Invariance == Spec => []IInv
BY InitInv, StepInv, PTL DEF Spec

(* The type invariant holds for every value of the constants.               *)
THEOREM TypeCorrect == Spec => []TypeOK
<1>1. IInv => TypeOK BY DEF IInv
<1> QED BY <1>1, Invariance, PTL

(* Audio only ever reaches the recognizer of its own session id and of the  *)
(* engine it asked for.                                                     *)
THEOREM RightRecognizerHolds == Spec => []RightRecognizer
<1>1. IInv => RightRecognizer BY DEF IInv, CallRefs, RightRecognizer
<1> QED BY <1>1, Invariance, PTL

-----------------------------------------------------------------------------
(* The cap.  Only OpenSession adds a session, and it adds one to the        *)
(* sessions that its own sweep left.                                        *)

(* The table is finite.                                                    *)
LEMMA OpenedFinite == IsFiniteSet(Opened)
BY FS_Subset, ServiceAssumption DEF Opened

(* Every step keeps the table within the cap.                              *)
LEMMA CapStep ==
    ASSUME IInv, SessionCap, [Next]_vars PROVE SessionCap'
<1> USE DEF IInv
<1>1. SUFFICES ASSUME Opened' \subseteq Opened
                    \/ \E i \in Ids : /\ Opened' \subseteq Awake \cup {i}
                                       /\ Cardinality(Awake) < MaxSessions
               PROVE  SessionCap'
  <2>1. CASE \E r \in Reqs : Arrive(r)
    BY <2>1 DEF Arrive, Refuse, CloseUnknown, CloseFound, Chunk, Opened, TypeOK, Session, NoSession
  <2>2. CASE \E r \in Reqs : LoadModel(r) \/ LoadFails(r) \/ Decode(r) \/ Cancel(r)
    BY <2>2 DEF LoadModel, LoadFails, Decode, Cancel, Opened
  <2>3. CASE \E r \in Reqs : Lookup(r)
    <3>1. PICK r \in Reqs : Lookup(r) BY <2>3
    <3>2. CASE SwitchRefused(r) \/ CapReached(r) \/ UnknownLanguage(r)
      BY <3>2, SweptType DEF SwitchRefused, CapReached, UnknownLanguage, Opened, NoSession
    <3>3. CASE ContinueSession(r)
      BY <3>3, SweptType DEF ContinueSession, Opened, Awake, TypeOK, Session, NoSession
    <3>4. CASE OpenSession(r)
      <4>1. req[r].id \in Ids BY <3>4 DEF OpenSession, Sweeping, CallRefs
      <4>2. \A j \in Ids \ {req[r].id} : sess'[j] = Swept[j]
        BY <3>4, SweptType DEF OpenSession
      <4>3. Opened' \subseteq Awake \cup {req[r].id}
        BY <4>2 DEF Opened, Swept, NoSession
      <4>4. Cardinality(Awake) < MaxSessions
        <5>1. Cardinality(Awake) \in Nat
          BY OpenedFinite, FS_Subset, FS_CardinalityType DEF Awake
        <5> QED BY <3>4, <5>1, ServiceAssumption DEF OpenSession, Full
      <4> QED BY <4>1, <4>3, <4>4
    <3> QED BY <3>1, <3>2, <3>3, <3>4 DEF Lookup
  <2>4. CASE \E r \in Reqs : Resume(r)
    BY <2>4 DEF Resume, Answer, AnswerFailed, Opened, NoSession, TypeOK
  <2>5. CASE Tick
    BY <2>5, ServiceAssumption DEF Tick, Older, Opened, TypeOK, Session, NoSession
  <2>6. CASE UNCHANGED vars
    BY <2>6 DEF vars, Opened
  <2> QED BY <2>1, <2>2, <2>3, <2>4, <2>5, <2>6 DEF Next
<1>2. CASE Opened' \subseteq Opened
  <2>1. Cardinality(Opened') <= Cardinality(Opened) /\ Cardinality(Opened') \in Nat
        /\ Cardinality(Opened) \in Nat
    BY <1>2, OpenedFinite, FS_Subset, FS_CardinalityType
  <2> QED BY <2>1, ServiceAssumption DEF SessionCap
<1>3. CASE \E i \in Ids : /\ Opened' \subseteq Awake \cup {i}
                          /\ Cardinality(Awake) < MaxSessions
  <2>1. PICK i \in Ids : /\ Opened' \subseteq Awake \cup {i}
                         /\ Cardinality(Awake) < MaxSessions
    BY <1>3
  <2>2. IsFiniteSet(Awake) BY OpenedFinite, FS_Subset DEF Awake
  <2>3. /\ IsFiniteSet(Awake \cup {i})
        /\ Cardinality(Awake \cup {i}) <= Cardinality(Awake) + 1
        /\ Cardinality(Awake) \in Nat /\ Cardinality(Awake \cup {i}) \in Nat
    <3>1. /\ IsFiniteSet(Awake \cup {i})
          /\ \/ Cardinality(Awake \cup {i}) = Cardinality(Awake)
             \/ Cardinality(Awake \cup {i}) = Cardinality(Awake) + 1
      BY <2>2, FS_AddElement
    <3>2. Cardinality(Awake) \in Nat /\ Cardinality(Awake \cup {i}) \in Nat
      BY <2>2, <3>1, FS_CardinalityType
    <3> QED BY <3>1, <3>2
  <2>4. Cardinality(Opened') <= Cardinality(Awake \cup {i}) /\ Cardinality(Opened') \in Nat
    BY <2>1, <2>3, FS_Subset, FS_CardinalityType
  <2> QED BY <2>1, <2>3, <2>4, ServiceAssumption DEF SessionCap
<1> QED BY <1>1, <1>2, <1>3

(* The table never holds more than MaxSessions sessions.                    *)
THEOREM SessionCapHolds == Spec => []SessionCap
<1>1. Init => SessionCap
  <2>1. Init => Opened = {} BY DEF Init, Opened, NoSession
  <2> QED BY <2>1, FS_EmptySet, ServiceAssumption DEF SessionCap
<1>2. IInv /\ SessionCap /\ [Next]_vars => SessionCap' BY CapStep
<1> QED BY <1>1, <1>2, Invariance, PTL DEF Spec

-----------------------------------------------------------------------------
(* A close that was answered ok is final: the flushed recognizer left the   *)
(* table with the answer, and OpenSession never takes a recognizer that a   *)
(* call still refers to.                                                    *)

ClosedBy(r) == req[r].pc = "replied" /\ req[r].result = "ok" /\ req[r].last
                   /\ req[r].rec # NoRec

(* Every step keeps a closed recognizer out of the table.                  *)
LEMMA ClosedStep ==
    ASSUME IInv, ClosedForGood, [Next]_vars PROVE ClosedForGood'
<1> USE DEF IInv
<1>1. SUFFICES ASSUME NEW r \in Reqs, ClosedBy(r)', NEW i \in Ids,
                      sess'[i].rec = req'[r].rec
               PROVE  FALSE
  BY DEF ClosedForGood, ClosedBy
<1>2. req'[r].rec # NoRec BY <1>1 DEF ClosedBy
<1>3. CASE \E s \in Reqs : Arrive(s)
  <2>1. PICK s \in Reqs : Arrive(s) BY <1>3
  <2>2. CASE Refuse(s)
    <3>1. sess' = sess /\ (r # s => req'[r] = req[r]) BY <2>2 DEF Refuse, TypeOK
    <3>2. req'[s].rec = NoRec BY <2>2 DEF Refuse, TypeOK, Idle
    <3> QED BY <1>1, <1>2, <3>1, <3>2 DEF ClosedForGood, ClosedBy
  <2>3. CASE CloseUnknown(s)
    <3>1. sess' = sess /\ (r # s => req'[r] = req[r]) BY <2>3 DEF CloseUnknown, TypeOK
    <3>2. PICK q \in Accepted : req'[s] = [Called(q) EXCEPT !.pc = "replied",
                                              !.lang = "none", !.result = "ok"]
      BY <2>3 DEF CloseUnknown, TypeOK
    <3>3. Called(q) \in Call /\ Called(q).rec = NoRec BY CalledType
    <3>4. req'[s].rec = NoRec BY <3>2, <3>3 DEF Call
    <3> QED BY <1>1, <1>2, <3>1, <3>4 DEF ClosedForGood, ClosedBy
  <2>4. CASE CloseFound(s)
    <3>1. PICK q \in Accepted :
            /\ sess' = [sess EXCEPT ![q.id].age = 0]
            /\ req' = [req EXCEPT ![s] = [Called(q) EXCEPT !.pc = "decoding",
                                                         !.rec = sess[q.id].rec]]
      BY <2>4 DEF CloseFound
    <3>2. sess'[i].rec = sess[i].rec BY <3>1 DEF TypeOK, Session, NoSession
    <3>3. Called(q) \in Call BY CalledType
    <3>4. req'[s].pc = "decoding" /\ (r # s => req'[r] = req[r])
      BY <3>1, <3>3 DEF TypeOK, Call
    <3> QED BY <1>1, <3>2, <3>4 DEF ClosedForGood, ClosedBy
  <2>5. CASE Chunk(s)
    <3>1. PICK q \in Accepted : req' = [req EXCEPT ![s] = [Called(q) EXCEPT !.pc = "load"]]
      BY <2>5 DEF Chunk
    <3>2. Called(q) \in Call BY CalledType
    <3>3. req'[s].pc = "load" /\ (r # s => req'[r] = req[r])
      BY <3>1, <3>2 DEF TypeOK, Call
    <3>4. sess' = sess BY <2>5 DEF Chunk
    <3> QED BY <1>1, <3>3, <3>4 DEF ClosedForGood, ClosedBy
  <2> QED BY <2>1, <2>2, <2>3, <2>4, <2>5 DEF Arrive
<1>4. CASE \E s \in Reqs : LoadModel(s) \/ LoadFails(s) \/ Decode(s) \/ Cancel(s)
  <2>1. sess' = sess BY <1>4 DEF LoadModel, LoadFails, Decode, Cancel
  <2>2. req'[r] = req[r]
    BY <1>1, <1>4 DEF LoadModel, LoadFails, Reply, Decode, TaskEnds, Cancel, TypeOK,
                      ClosedBy, Call, Idle
  <2> QED BY <1>1, <2>1, <2>2 DEF ClosedForGood, ClosedBy
<1>5. CASE \E s \in Reqs : Lookup(s)
  <2>1. PICK s \in Reqs : Lookup(s) BY <1>5
  <2>2. req[s].pc = "load" /\ req[s].rec = NoRec
    BY <2>1 DEF Lookup, SwitchRefused, ContinueSession, CapReached, UnknownLanguage,
                OpenSession, Sweeping, CallRefs
  <2>3. r # s /\ req'[r] = req[r]
    <3>1. CASE \E why \in Replies \ {"ok"} : Reply(s, why)
      <4>1. PICK why \in Replies \ {"ok"} : Reply(s, why) BY <3>1
      <4>2. req'[s].result = why /\ \A t \in Reqs \ {s} : req'[t] = req[t]
        BY <4>1, ReplyType DEF TypeOK
      <4> QED BY <1>1, <4>1, <4>2 DEF ClosedBy
    <3>2. CASE \E k \in Recs : Queue(s, k)
      <4>1. req'[s].pc = "decoding" /\ \A t \in Reqs \ {s} : req'[t] = req[t]
        BY <3>2, QueueType DEF TypeOK
      <4> QED BY <1>1, <4>1 DEF ClosedBy
    <3>3. ContinueSession(s) => sess[req[s].id].rec \in Recs
      BY DEF ContinueSession, Awake, Opened, TypeOK, Session, NoSession
    <3> QED BY <2>1, <3>1, <3>2, <3>3 DEF Lookup, SwitchRefused, ContinueSession,
                CapReached, UnknownLanguage, OpenSession, Replies
  <2>4. sess'[i].rec \in {sess[i].rec, NoRec} \/ sess'[i].rec \notin Named(sess, req)
    <3>1. CASE OpenSession(s)
      BY <3>1, SweptType DEF OpenSession, NoSession
    <3>2. CASE ContinueSession(s)
      BY <3>2, SweptType DEF ContinueSession, NoSession, TypeOK, Session
    <3>3. CASE SwitchRefused(s) \/ CapReached(s) \/ UnknownLanguage(s)
      BY <3>3, SweptType DEF SwitchRefused, CapReached, UnknownLanguage, NoSession
    <3> QED BY <2>1, <3>1, <3>2, <3>3 DEF Lookup
  <2>5. req[r].rec \in Named(sess, req) BY DEF Named
  <2> QED BY <1>1, <1>2, <2>3, <2>4, <2>5 DEF ClosedForGood, ClosedBy
<1>6. CASE \E s \in Reqs : Resume(s)
  <2>1. PICK s \in Reqs : Resume(s) BY <1>6
  <2>2. sess'[i] \in {sess[i], NoSession}
    BY <2>1 DEF Resume, Answer, AnswerFailed, TypeOK
  <2>3. sess[i].rec = req'[r].rec /\ sess'[i] = sess[i]
    BY <1>1, <1>2, <2>2 DEF NoSession
  <2>4. CASE r # s
    <3>1. req'[r] = req[r] BY <2>1, <2>4 DEF Resume, Answer, AnswerFailed, Reply, TypeOK
    <3> QED BY <1>1, <2>3, <3>1 DEF ClosedForGood, ClosedBy
  <2>5. CASE r = s
    <3>1. /\ req'[r].rec = req[r].rec /\ req'[r].last = req[r].last
          /\ req'[r].result = req[r].result /\ req[r].pc = "decoded"
      BY <2>1, <2>5 DEF Resume, Answer, AnswerFailed, Reply, TypeOK, Call
    <3>2. Answer(r) /\ sess' = [sess EXCEPT ![req[r].id] = NoSession]
      BY <1>1, <2>1, <2>5, <3>1 DEF Resume, Answer, AnswerFailed, ClosedBy, Closes
    <3>3. i = req[r].id
      BY <1>2, <2>3, <3>1 DEF SessionRefs, CallRefs
    <3> QED BY <1>2, <2>3, <3>2, <3>3 DEF TypeOK, NoSession
  <2> QED BY <2>4, <2>5
<1>7. CASE Tick
  <2>1. sess'[i].rec = sess[i].rec /\ req' = req
    BY <1>7, ServiceAssumption DEF Tick, Older, TypeOK, Session, NoSession
  <2> QED BY <1>1, <2>1 DEF ClosedForGood, ClosedBy
<1>8. CASE UNCHANGED vars
  BY <1>1, <1>8 DEF vars, ClosedForGood, ClosedBy
<1> QED BY <1>3, <1>4, <1>5, <1>6, <1>7, <1>8 DEF Next

(* A session whose close was answered ok is gone for good.                  *)
THEOREM ClosedForGoodHolds == Spec => []ClosedForGood
<1>1. Init => ClosedForGood BY DEF Init, ClosedForGood, Idle
<1>2. IInv /\ ClosedForGood /\ [Next]_vars => ClosedForGood' BY ClosedStep
<1> QED BY <1>1, <1>2, Invariance, PTL DEF Spec
=============================================================================
