--------------------------- MODULE SessionEndProofs ---------------------------
(* How sessions end, for every set of sessions, calls and recognizers: what *)
(* takes a session out of the table, when the cap refuses a caller, and     *)
(* which sessions may hold a recognizer that hears no more; and that the    *)
(* table implements SessionLedger.                                          *)
EXTENDS SttServiceProofs

-----------------------------------------------------------------------------
(* Only a sweep and an answered close take a session.                       *)

(* A look-up drops only sessions that were idle for the limit.             *)
LEMMA LookupKeeps ==
    ASSUME IInv, NEW s \in Reqs, Lookup(s), NEW i \in Opened, sess'[i].rec # sess[i].rec
    PROVE  sess[i].age >= IdleLimit
<1>1. TypeOK /\ i \in Ids /\ sess[i] \in Session
  BY DEF IInv, Opened, TypeOK, NoSession
<1>2. SUFFICES i \notin Awake
  BY <1>1, <1>2, ServiceAssumption DEF Awake, Session
<1>3. i \in Awake => Swept[i] = sess[i] BY <1>1 DEF Swept
<1>4. CASE SwitchRefused(s) \/ CapReached(s) \/ UnknownLanguage(s)
  BY <1>3, <1>4 DEF SwitchRefused, CapReached, UnknownLanguage
<1>5. CASE ContinueSession(s)
  <2>1. sess'[i].rec = Swept[i].rec
    BY <1>1, <1>5, SweptType DEF ContinueSession, NoSession, Session, TypeOK
  <2> QED BY <1>3, <2>1
<1>6. CASE OpenSession(s)
  <2>1. i # req[s].id => sess'[i] = Swept[i]
    BY <1>1, <1>6, SweptType DEF OpenSession
  <2> QED BY <1>3, <1>6, <2>1 DEF OpenSession
<1> QED BY <1>4, <1>5, <1>6 DEF Lookup

(* An answer drops only the session that it closes.                        *)
LEMMA AnswerKeeps ==
    ASSUME IInv, NEW s \in Reqs, Answer(s), NEW i \in Opened, sess'[i].rec # sess[i].rec
    PROVE  /\ req[s].id = i /\ req[s].last /\ req[s].pc = "decoded"
           /\ req[s].result = "ok" /\ req'[s].pc = "replied"
<1>1. TypeOK /\ i \in Ids BY DEF IInv, Opened
<1>2. sess' # sess BY <1>1
<1>3. sess' = [sess EXCEPT ![req[s].id] = NoSession] /\ req[s].last
  BY <1>2 DEF Answer, Closes
<1>4. req[s].id = i BY <1>1, <1>3 DEF TypeOK
<1>5. req'[s].pc = "replied" BY <1>1, ReplyType DEF Answer, TypeOK, Replies
<1> QED BY <1>3, <1>4, <1>5 DEF Answer

(* No other step drops a session.                                          *)
LEMMA OthersKeep ==
    ASSUME IInv, NEW i \in Opened,
           \/ \E r \in Reqs : \/ Arrive(r) \/ LoadModel(r) \/ LoadFails(r)
                              \/ Decode(r) \/ AnswerFailed(r) \/ Cancel(r)
           \/ Tick
           \/ UNCHANGED vars
    PROVE  sess'[i].rec = sess[i].rec
<1>1. TypeOK /\ i \in Ids BY DEF IInv, Opened
<1>2. ASSUME NEW r \in Reqs, Arrive(r) PROVE sess'[i].rec = sess[i].rec
  <2>1. CASE CloseFound(r)
    <3>1. PICK q \in Accepted : sess' = [sess EXCEPT ![q.id].age = 0]
      BY <2>1 DEF CloseFound
    <3> QED BY <1>1, <3>1 DEF TypeOK, Session, NoSession
  <2> QED BY <1>2, <2>1 DEF Arrive, Refuse, CloseUnknown, Chunk
<1>3. ASSUME NEW r \in Reqs,
             LoadModel(r) \/ LoadFails(r) \/ Decode(r) \/ AnswerFailed(r) \/ Cancel(r)
      PROVE  sess'[i].rec = sess[i].rec
  BY <1>3 DEF LoadModel, LoadFails, Decode, AnswerFailed, Cancel
<1>4. CASE Tick
  BY <1>1, <1>4 DEF Tick, Older, TypeOK, Session, NoSession
<1>5. CASE UNCHANGED vars BY <1>5 DEF vars
<1> QED BY <1>2, <1>3, <1>4, <1>5

(* A refused, failed or cancelled call costs nobody a session.              *)
THEOREM SessionsKeptHolds == Spec => SessionsKept
<1> DEFINE Kept == \A i \in Opened : sess'[i].rec # sess[i].rec =>
              \/ sess[i].age >= IdleLimit
              \/ \E r \in Reqs : /\ req[r].id = i /\ req[r].last
                                 /\ req[r].pc = "decoded" /\ req[r].result = "ok"
                                 /\ req'[r].pc = "replied"
<1>1. IInv /\ [Next]_vars => [Kept]_vars
  <2> SUFFICES ASSUME IInv, Next, NEW i \in Opened, sess'[i].rec # sess[i].rec
               PROVE  \/ sess[i].age >= IdleLimit
                      \/ \E r \in Reqs : /\ req[r].id = i /\ req[r].last
                                         /\ req[r].pc = "decoded" /\ req[r].result = "ok"
                                         /\ req'[r].pc = "replied"
    OBVIOUS
  <2>1. CASE \E s \in Reqs : Lookup(s) BY <2>1, LookupKeeps
  <2>2. CASE \E s \in Reqs : Answer(s) BY <2>2, AnswerKeeps
  <2>3. CASE \/ \E r \in Reqs : \/ Arrive(r) \/ LoadModel(r) \/ LoadFails(r)
                                \/ Decode(r) \/ AnswerFailed(r) \/ Cancel(r)
             \/ Tick
    BY <2>3, OthersKeep
  <2> QED BY <2>1, <2>2, <2>3 DEF Next, Resume
<1> QED BY <1>1, Invariance, PTL DEF Spec, SessionsKept

-----------------------------------------------------------------------------
(* The cap is told only of sessions in use.  A call that waits for its      *)
(* model has not been answered anything yet.                                *)

LoadingUnanswered == \A r \in Reqs : req[r].pc = "load" => req[r].result = "none"

(* What a step of one call does to the calls.                               *)
LEMMA ArriveCalls ==
    ASSUME IInv, NEW s \in Reqs, Arrive(s)
    PROVE  /\ \A r \in Reqs \ {s} : req'[r] = req[r]
           /\ req[s].pc \in {"idle", "replied"}
           /\ req'[s].pc \in {"replied", "decoding", "load"}
           /\ req'[s].pc = "load" => req'[s].result = "none"
<1>1. TypeOK BY DEF IInv
<1>2. req[s].pc \in {"idle", "replied"}
  BY DEF Arrive, Refuse, CloseUnknown, CloseFound, Chunk, Free
<1>3. CASE Refuse(s) BY <1>1, <1>2, <1>3 DEF Refuse, TypeOK, Idle
<1>4. ASSUME NEW q \in Accepted, NEW c,
             \/ c = [Called(q) EXCEPT !.pc = "load"]
             \/ c = [Called(q) EXCEPT !.pc = "decoding", !.rec = sess[q.id].rec]
             \/ c = [Called(q) EXCEPT !.pc = "replied", !.lang = "none", !.result = "ok"]
      PROVE  /\ c.pc \in {"replied", "decoding", "load"}
             /\ c.pc = "load" => c.result = "none"
  <2>1. Called(q) \in Call /\ Called(q).result = "none"
    BY CalledType DEF Called, Idle
  <2> QED BY <1>4, <2>1 DEF Call
<1>5. CASE ~Refuse(s)
  <2>1. PICK q \in Accepted :
            \/ req' = [req EXCEPT ![s] = [Called(q) EXCEPT !.pc = "load"]]
            \/ req' = [req EXCEPT ![s] =
                        [Called(q) EXCEPT !.pc = "decoding", !.rec = sess[q.id].rec]]
            \/ req' = [req EXCEPT ![s] =
                        [Called(q) EXCEPT !.pc = "replied", !.lang = "none", !.result = "ok"]]
    BY <1>5 DEF Arrive, CloseUnknown, CloseFound, Chunk
  <2>2. \A r \in Reqs \ {s} : req'[r] = req[r] BY <1>1, <2>1 DEF TypeOK
  <2>3. \/ req'[s] = [Called(q) EXCEPT !.pc = "load"]
        \/ req'[s] = [Called(q) EXCEPT !.pc = "decoding", !.rec = sess[q.id].rec]
        \/ req'[s] = [Called(q) EXCEPT !.pc = "replied", !.lang = "none", !.result = "ok"]
    BY <1>1, <2>1 DEF TypeOK
  <2> QED BY <1>2, <1>4, <2>2, <2>3
<1> QED BY <1>3, <1>5

(* A look-up answers or queues its own call and touches no other.          *)
LEMMA LookupCalls ==
    ASSUME IInv, NEW s \in Reqs, Lookup(s)
    PROVE  /\ \A r \in Reqs \ {s} : req'[r] = req[r]
           /\ req[s].pc = "load"
           /\ req'[s].pc \in {"replied", "decoding"}
           /\ req'[s].pc = "decoding" => sess'[req[s].id].rec = req'[s].rec
           /\ \/ CapReached(s)
              \/ req'[s].result \in {req[s].result, "EngineMismatch", "UnknownLanguage"}
<1>1. TypeOK /\ req[s] \in Call BY DEF IInv, TypeOK
<1>2. req[s].pc = "load" /\ req[s].id \in Ids
  BY DEF Lookup, SwitchRefused, ContinueSession, CapReached, UnknownLanguage, OpenSession,
         Sweeping, IInv, CallRefs
<1>3. ASSUME NEW why \in Replies, Reply(s, why)
      PROVE  /\ \A r \in Reqs \ {s} : req'[r] = req[r]
             /\ req'[s].pc = "replied" /\ req'[s].result = why
  BY <1>1, <1>3, ReplyType DEF TypeOK
<1>4. ASSUME NEW k \in Recs, Queue(s, k)
      PROVE  /\ \A r \in Reqs \ {s} : req'[r] = req[r]
             /\ req'[s].pc = "decoding" /\ req'[s].rec = k /\ req'[s].result = req[s].result
  <2>1. [req[s] EXCEPT !.pc = "decoding", !.rec = k].result = req[s].result BY <1>1 DEF Call
  <2>2. req'[s] = [req[s] EXCEPT !.pc = "decoding", !.rec = k] BY <1>1, <1>4 DEF Queue, TypeOK
  <2> QED BY <1>1, <1>4, <2>1, <2>2, QueueType DEF TypeOK
<1>5. CASE SwitchRefused(s) BY <1>2, <1>3, <1>5 DEF SwitchRefused, Replies
<1>6. CASE UnknownLanguage(s) BY <1>2, <1>3, <1>6 DEF UnknownLanguage, Replies
<1>7. CASE CapReached(s) BY <1>2, <1>3, <1>7 DEF CapReached, Replies
<1>8. CASE ContinueSession(s)
  <2>1. sess[req[s].id].rec \in Recs /\ Swept[req[s].id] = sess[req[s].id]
    BY <1>1, <1>2, <1>8 DEF ContinueSession, Awake, Opened, Swept, TypeOK, Session, NoSession
  <2>2. sess'[req[s].id].rec = sess[req[s].id].rec
    BY <1>1, <1>2, <1>8, <2>1, SweptType DEF ContinueSession, TypeOK, Session, NoSession
  <2> QED BY <1>2, <1>4, <1>8, <2>1, <2>2 DEF ContinueSession
<1>9. CASE OpenSession(s)
  <2>1. PICK k \in Recs :
          /\ sess' = [Swept EXCEPT ![req[s].id] =
                        [rec |-> k, engine |-> Wanted(s), age |-> 0]]
          /\ Queue(s, k)
    BY <1>9 DEF OpenSession
  <2>2. sess'[req[s].id].rec = k BY <1>1, <1>2, <2>1, SweptType
  <2> QED BY <1>2, <1>4, <2>1, <2>2
<1> QED BY <1>5, <1>6, <1>7, <1>8, <1>9 DEF Lookup

(* Each of these steps touches one call alone.                             *)
LEMMA RestCalls ==
    ASSUME IInv, NEW s \in Reqs, LoadFails(s) \/ Decode(s) \/ Resume(s) \/ Cancel(s)
    PROVE  /\ \A r \in Reqs \ {s} : req'[r] = req[r]
           /\ req'[s].pc \in {"replied", "decoded", "detached", "idle"}
           /\ req[s].pc = "load" =>
                req'[s].result \in {"none", "ModelUnavailable", "Internal"}
<1>1. TypeOK /\ req[s] \in Call BY DEF IInv, TypeOK
<1>2. CASE LoadFails(s)
  <2>1. PICK why \in {"ModelUnavailable", "Internal"} : Reply(s, why) BY <1>2 DEF LoadFails
  <2> QED BY <1>1, <2>1, ReplyType DEF TypeOK, Replies
<1>3. CASE Decode(s)
  <2>1. PICK result : TaskEnds(s, result) BY <1>3 DEF Decode
  <2>2. [req[s] EXCEPT !.pc = "decoded", !.lang = "none", !.result = result].pc = "decoded"
    BY <1>1 DEF Call
  <2>3. req'[s].pc \in {"idle", "decoded"} /\ \A r \in Reqs \ {s} : req'[r] = req[r]
    BY <1>1, <2>1, <2>2 DEF TaskEnds, TypeOK, Idle
  <2> QED BY <1>3, <2>3 DEF Decode
<1>4. CASE Resume(s)
  <2>1. PICK why : Reply(s, why) /\ req[s].pc = "decoded"
    BY <1>4 DEF Resume, Answer, AnswerFailed
  <2>2. [req[s] EXCEPT !.pc = "replied", !.lang = "none", !.result = why].pc = "replied"
    BY <1>1 DEF Call
  <2>3. req'[s].pc = "replied" /\ \A r \in Reqs \ {s} : req'[r] = req[r]
    BY <1>1, <2>1, <2>2 DEF Reply, TypeOK
  <2> QED BY <2>1, <2>3
<1>5. CASE Cancel(s)
  <2> DEFINE d == [req[s] EXCEPT !.pc = "detached"]
  <2>1. d.pc = "detached" BY <1>1 DEF Call
  <2>2. \/ req' = [req EXCEPT ![s] = Idle]
        \/ req[s].pc = "decoding" /\ req' = [req EXCEPT ![s] = d]
    BY <1>5 DEF Cancel
  <2> HIDE DEF d
  <2> QED BY <1>1, <2>1, <2>2 DEF TypeOK, Idle
<1> QED BY <1>2, <1>3, <1>4, <1>5

(* Every step keeps a call without an answer while it loads.               *)
LEMMA UnansweredStep ==
    ASSUME IInv, LoadingUnanswered, [Next]_vars PROVE LoadingUnanswered'
<1>1. CASE \E s \in Reqs : Arrive(s) BY <1>1, ArriveCalls DEF LoadingUnanswered
<1>2. CASE \E s \in Reqs : Lookup(s) BY <1>2, LookupCalls DEF LoadingUnanswered
<1>3. CASE \E s \in Reqs : LoadFails(s) \/ Decode(s) \/ Resume(s) \/ Cancel(s)
  BY <1>3, RestCalls DEF LoadingUnanswered
<1>4. CASE (\E s \in Reqs : LoadModel(s)) \/ Tick \/ UNCHANGED vars
  BY <1>4 DEF LoadModel, Tick, vars, LoadingUnanswered
<1> QED BY <1>1, <1>2, <1>3, <1>4 DEF Next

(* Only a look-up at a full table refuses a call for the cap.              *)
LEMMA OnlyCapReached ==
    ASSUME IInv, LoadingUnanswered, Next, NEW r \in Reqs, req[r].pc = "load",
           req'[r].result = "SessionCapReached"
    PROVE  CapReached(r)
<1>1. req[r].result = "none" /\ req'[r] # req[r] BY DEF LoadingUnanswered
<1>2. CASE \E s \in Reqs : Arrive(s) BY <1>1, <1>2, ArriveCalls
<1>3. CASE \E s \in Reqs : Lookup(s) BY <1>1, <1>3, LookupCalls
<1>4. CASE \E s \in Reqs : LoadFails(s) \/ Decode(s) \/ Resume(s) \/ Cancel(s)
  BY <1>1, <1>4, RestCalls
<1>5. CASE (\E s \in Reqs : LoadModel(s)) \/ Tick BY <1>1, <1>5 DEF LoadModel, Tick
<1> QED BY <1>2, <1>3, <1>4, <1>5 DEF Next

(* "Already active" is the truth: MaxSessions others were used in time.     *)
THEOREM CapRefusalHonestHolds == Spec => CapRefusalHonest
<1> DEFINE Others(r) == {i \in Ids \ {req[r].id} : sess[i].rec # NoRec /\ sess[i].age < IdleLimit}
           Honest == \A r \in Reqs :
               req[r].pc = "load" /\ req'[r].result = "SessionCapReached" =>
                   Cardinality(Others(r)) >= MaxSessions
<1>1. IInv /\ LoadingUnanswered /\ [Next]_vars => [Honest]_vars
  <2> SUFFICES ASSUME IInv, LoadingUnanswered, Next, NEW r \in Reqs, req[r].pc = "load",
                      req'[r].result = "SessionCapReached"
               PROVE  Cardinality(Others(r)) >= MaxSessions
    OBVIOUS
  <2>1. CapReached(r) BY OnlyCapReached
  <2>2. Others(r) = Awake BY <2>1 DEF CapReached, Awake, Opened
  <2> QED BY <2>1, <2>2 DEF CapReached, Full
<1>2. Init => LoadingUnanswered BY DEF Init, LoadingUnanswered, Idle
<1>3. IInv /\ LoadingUnanswered /\ [Next]_vars => LoadingUnanswered' BY UnansweredStep
<1> QED BY <1>1, <1>2, <1>3, Invariance, PTL DEF Spec, CapRefusalHonest

-----------------------------------------------------------------------------
(* Recognizers that hear no more.  What a push or a failed close does to a  *)
(* recognizer lasts as long as anything refers to it; and whoever was       *)
(* dropped while it decoded a close has left the mark of a failed one.      *)

DetachedClose ==
    \A r \in Reqs : req[r].pc = "detached" /\ req[r].last => recs[req[r].rec].closeFailed

(* A recognizer that somebody refers to is kept as it is.                  *)
LEMMA KeptBy ==
    ASSUME NEW f, Keep(f), NEW k \in Recs, k \in Named(sess', req')
    PROVE  recs'[k] = f[k]
BY DEF Keep

(* Only its own last push finishes a recognizer.                           *)
LEMMA PushMarks ==
    ASSUME IInv, NEW r \in Reqs, Decode(r), NEW k \in Recs, k \in Named(sess', req')
    PROVE  /\ recs'[k].closeFailed = recs[k].closeFailed
           /\ recs'[k].finished => recs[k].finished \/ (req[r].rec = k /\ req[r].last)
<1> DEFINE m == req[r].rec
<1>1. TypeOK /\ m \in Recs /\ recs[m] \in Recognizer
  BY ServiceAssumption DEF IInv, Decode, CallRefs, TypeOK, Call, Recognizer, Dropped
<1>2. PICK loses \in BOOLEAN : Keep([recs EXCEPT ![m] = Pushed(m, req[r].last, loses)])
  BY DEF Decode
<1> DEFINE p == Pushed(m, req[r].last, loses)
<1>3. p.closeFailed = recs[m].closeFailed /\ (p.finished => recs[m].finished \/ req[r].last)
  BY <1>1 DEF Pushed, Recognizer
<1>4. Keep([recs EXCEPT ![m] = p]) BY <1>2
<1> HIDE DEF p, m
<1>5. recs'[k] = [recs EXCEPT ![m] = p][k] BY <1>4, KeptBy
<1>6. recs'[k] = IF k = m THEN p ELSE recs[k] BY <1>1, <1>5 DEF TypeOK
<1> QED BY <1>3, <1>6 DEF m

(* A failed close is noted on its recognizer, and nothing else is.         *)
LEMMA NoteMarks ==
    ASSUME IInv, NEW r \in Reqs, req[r].rec # NoRec, Keep(NoteFailedClose(r)),
           NEW k \in Recs, k \in Named(sess', req')
    PROVE  /\ recs[k].closeFailed => recs'[k].closeFailed
           /\ recs'[k].finished = recs[k].finished
           /\ req[r].last /\ req[r].rec = k => recs'[k].closeFailed
<1>1. recs'[k] = NoteFailedClose(r)[k] BY KeptBy
<1>2. TypeOK /\ req[r].rec \in Recs /\ recs[req[r].rec] \in Recognizer
  BY ServiceAssumption DEF IInv, CallRefs, TypeOK, Call, Recognizer, Dropped
<1>3. CASE ~req[r].last BY <1>1, <1>3 DEF NoteFailedClose
<1>4. CASE req[r].last
  <2> DEFINE n == [recs[req[r].rec] EXCEPT !.closeFailed = TRUE]
  <2>1. n.closeFailed = TRUE /\ n.finished = recs[req[r].rec].finished
    BY <1>2 DEF Recognizer
  <2>2. NoteFailedClose(r) = [recs EXCEPT ![req[r].rec] = n] BY <1>4 DEF NoteFailedClose
  <2> HIDE DEF n
  <2>3. recs'[k] = IF k = req[r].rec THEN n ELSE recs[k]
    BY <1>1, <1>2, <2>2 DEF TypeOK
  <2> QED BY <2>1, <2>3
<1> QED BY <1>3, <1>4

(* The marks of a recognizer that stays, over any step.                     *)
LEMMA Marks ==
    ASSUME IInv, Next, NEW k \in Recs, k \in Named(sess, req), k \in Named(sess', req')
    PROVE  /\ recs[k].closeFailed => recs'[k].closeFailed
           /\ recs'[k].finished =>
                \/ recs[k].finished
                \/ \E r \in Reqs : Decode(r) /\ req[r].rec = k /\ req[r].last
<1>0. TypeOK /\ CallRefs BY DEF IInv
<1>1. recs'[k] = recs[k] => /\ recs[k].closeFailed => recs'[k].closeFailed
                            /\ recs'[k].finished => recs[k].finished
  OBVIOUS
<1>2. Keep(recs) \/ recs' = recs => recs'[k] = recs[k] BY KeptBy
<1>3. ASSUME NEW r \in Reqs, Arrive(r) PROVE Keep(recs)
  BY <1>3 DEF Arrive, Refuse, CloseUnknown, CloseFound, Chunk
<1>4. ASSUME NEW r \in Reqs, LoadModel(r) \/ LoadFails(r) PROVE recs' = recs
  BY <1>4 DEF LoadModel, LoadFails
<1>5. ASSUME NEW r \in Reqs, Lookup(r) PROVE recs'[k] = recs[k]
  <2>1. CASE OpenSession(r)
    <3>1. PICK m \in Recs \ Named(sess, req) :
              Keep([recs EXCEPT ![m] = Fresh(Wanted(r), req[r].id)])
      BY <2>1 DEF OpenSession
    <3> DEFINE f == [recs EXCEPT ![m] = Fresh(Wanted(r), req[r].id)]
    <3>2. Keep(f) /\ f[k] = recs[k] BY <1>0, <3>1 DEF TypeOK
    <3> HIDE DEF f
    <3> QED BY <3>2, KeptBy
  <2>2. CASE ~OpenSession(r)
    BY <1>2, <1>5, <2>2 DEF Lookup, SwitchRefused, ContinueSession, CapReached, UnknownLanguage
  <2> QED BY <2>1, <2>2
<1>6. ASSUME NEW r \in Reqs, Resume(r) \/ Cancel(r)
      PROVE  /\ recs[k].closeFailed => recs'[k].closeFailed
             /\ recs'[k].finished => recs[k].finished
  <2>1. Keep(recs) \/ (req[r].rec # NoRec /\ Keep(NoteFailedClose(r)))
    BY <1>0, <1>6 DEF Resume, Answer, AnswerFailed, Cancel, CallRefs
  <2> QED BY <1>1, <1>2, <2>1, NoteMarks
<1>7. CASE Tick BY <1>2, <1>7 DEF Tick
<1> QED BY <1>1, <1>2, <1>3, <1>4, <1>5, <1>6, <1>7, PushMarks DEF Next

(* A session of the next state is one of this state, or was just opened.    *)
LEMMA Sessions ==
    ASSUME IInv, Next, NEW i \in Opened'
    PROVE  \/ i \in Opened /\ sess'[i].rec = sess[i].rec
           \/ ~recs'[sess'[i].rec].finished
<1>0. TypeOK /\ i \in Ids /\ sess'[i].rec # NoRec BY DEF IInv, Opened
<1>1. CASE \E s \in Reqs : OpenSession(s)
  <2>1. PICK s \in Reqs : OpenSession(s) BY <1>1
  <2>2. PICK m \in Recs \ Named(sess, req) :
          /\ sess' = [Swept EXCEPT ![req[s].id] = [rec |-> m, engine |-> Wanted(s), age |-> 0]]
          /\ Keep([recs EXCEPT ![m] = Fresh(Wanted(s), req[s].id)])
    BY <2>1 DEF OpenSession
  <2>3. CASE i # req[s].id
    <3>1. sess'[i] = Swept[i] BY <1>0, <2>2, <2>3, SweptType
    <3> QED BY <1>0, <3>1, SweptType DEF Opened, NoSession
  <2>4. CASE i = req[s].id
    <3>1. sess'[i].rec = m BY <1>0, <2>2, <2>4, SweptType
    <3>2. m \in Named(sess', req') BY <1>0, <3>1 DEF Named
    <3> DEFINE f == [recs EXCEPT ![m] = Fresh(Wanted(s), req[s].id)]
    <3>3. Keep(f) /\ ~f[m].finished BY <1>0, <2>2 DEF TypeOK, Fresh
    <3> HIDE DEF f
    <3>4. recs'[m] = f[m] BY <2>2, <3>2, <3>3, KeptBy
    <3> QED BY <3>1, <3>3, <3>4
  <2> QED BY <2>3, <2>4
<1>2. CASE \E s \in Reqs : Lookup(s) /\ ~OpenSession(s)
  <2>1. PICK s \in Reqs : Lookup(s) /\ ~OpenSession(s) BY <1>2
  <2>2. sess'[i].rec = Swept[i].rec
    BY <1>0, <2>1, SweptType DEF Lookup, SwitchRefused, ContinueSession, CapReached,
       UnknownLanguage, NoSession, Session, TypeOK
  <2> QED BY <1>0, <2>2, SweptType DEF Opened, NoSession
<1>3. CASE \E s \in Reqs : Answer(s)
  BY <1>0, <1>3 DEF Answer, Opened, NoSession, TypeOK
<1>4. CASE \/ \E r \in Reqs : \/ Arrive(r) \/ LoadModel(r) \/ LoadFails(r)
                              \/ Decode(r) \/ AnswerFailed(r) \/ Cancel(r)
           \/ Tick
  <2>1. CASE i \in Opened BY <1>4, <2>1, OthersKeep
  <2>2. CASE i \notin Opened
    <3>1. sess[i] = NoSession BY <1>0, <2>2, ServiceAssumption DEF Opened, TypeOK, Session, NoSession
    <3>2. sess' # sess BY <1>0, <2>2 DEF Opened
    <3>3. CASE Tick BY <1>0, <3>1, <3>3 DEF Tick, Older, NoSession
    <3>4. ASSUME NEW r \in Reqs, CloseFound(r) PROVE FALSE
      <4>1. PICK q \in Accepted : q.id \in Opened /\ sess' = [sess EXCEPT ![q.id].age = 0]
        BY <3>4 DEF CloseFound
      <4>2. sess'[i] = sess[i] BY <1>0, <2>2, <4>1 DEF TypeOK
      <4> QED BY <1>0, <3>1, <4>2 DEF NoSession
    <3> QED BY <1>4, <3>2, <3>3, <3>4 DEF Arrive, Refuse, CloseUnknown, Chunk, LoadModel,
               LoadFails, Decode, AnswerFailed, Cancel
  <2> QED BY <2>1, <2>2
<1> QED BY <1>1, <1>2, <1>3, <1>4 DEF Next, Resume

(* Every step keeps a finished recognizer explained.                       *)
LEMMA FinishedStep ==
    ASSUME IInv, FinishedSession, DetachedClose, Next PROVE FinishedSession'
<1> SUFFICES ASSUME NEW i \in Opened', recs'[sess'[i].rec].finished
             PROVE  \/ recs'[sess'[i].rec].closeFailed
                    \/ \E r \in Reqs : /\ req'[r].rec = sess'[i].rec
                                       /\ req'[r].last
                                       /\ req'[r].pc = "decoded"
  BY DEF FinishedSession
<1> DEFINE k == sess[i].rec
<1>1. TypeOK /\ i \in Opened /\ i \in Ids /\ sess'[i].rec = k BY Sessions DEF IInv, Opened
<1>2. k \in Recs /\ k # NoRec BY <1>1, ServiceAssumption DEF TypeOK, Opened, Session, NoSession
<1>3. k \in Named(sess, req) /\ k \in Named(sess', req') BY <1>1 DEF Named
<1>4. recs[k].owner = i BY <1>1, <1>2 DEF IInv, SessionRefs
<1>5. \/ recs[k].closeFailed
      \/ \E r \in Reqs : req[r].rec = k /\ req[r].last /\ req[r].pc = "decoded"
      \/ \E r \in Reqs : Decode(r) /\ req[r].rec = k /\ req[r].last
  BY <1>1, <1>2, <1>3, Marks DEF FinishedSession
<1>6. CASE recs[k].closeFailed BY <1>1, <1>2, <1>3, <1>6, Marks
<1>7. ASSUME NEW r \in Reqs, req[r].rec = k, req[r].last, req[r].pc = "decoded"
      PROVE  \/ recs'[k].closeFailed
             \/ req'[r].rec = k /\ req'[r].last /\ req'[r].pc = "decoded"
  <2>1. CASE req'[r] = req[r] BY <1>7, <2>1
  <2>2. CASE AnswerFailed(r) \/ Cancel(r)
    <3>1. Keep(NoteFailedClose(r)) BY <1>7, <2>2 DEF AnswerFailed, Cancel
    <3> QED BY <1>2, <1>3, <1>7, <3>1, NoteMarks
  <2>3. CASE Answer(r)
    <3>1. req[r].id = i BY <1>2, <1>4, <1>7 DEF IInv, CallRefs
    <3>2. sess'[i] = NoSession BY <1>1, <1>7, <2>3, <3>1 DEF Answer, Closes, TypeOK
    <3> QED BY <1>1, <1>2, <3>2 DEF NoSession
  <2>4. ~LoadFails(r) /\ ~Decode(r) BY <1>7 DEF LoadFails, Decode
  <2>5. req'[r] = req[r] \/ Resume(r) \/ Cancel(r)
    <3>1. CASE \E s \in Reqs : Arrive(s) BY <1>7, <3>1, ArriveCalls
    <3>2. CASE \E s \in Reqs : Lookup(s) BY <1>7, <3>2, LookupCalls
    <3>3. CASE \E s \in Reqs : LoadFails(s) \/ Decode(s) \/ Resume(s) \/ Cancel(s)
      BY <2>4, <3>3, RestCalls
    <3>4. CASE (\E s \in Reqs : LoadModel(s)) \/ Tick BY <3>4 DEF LoadModel, Tick
    <3> QED BY <3>1, <3>2, <3>3, <3>4 DEF Next
  <2> QED BY <2>1, <2>2, <2>3, <2>5 DEF Resume
<1>8. ASSUME NEW r \in Reqs, Decode(r), req[r].rec = k, req[r].last
      PROVE  \/ recs'[k].closeFailed
             \/ req'[r].rec = k /\ req'[r].last /\ req'[r].pc = "decoded"
  <2>1. CASE req[r].pc = "detached"
    <3>1. recs[k].closeFailed BY <1>8, <2>1 DEF DetachedClose
    <3> QED BY <1>2, <1>3, <3>1, Marks
  <2>2. CASE req[r].pc # "detached"
    <3>1. PICK result : TaskEnds(r, result) BY <1>8 DEF Decode
    <3> DEFINE d == [req[r] EXCEPT !.pc = "decoded", !.lang = "none", !.result = result]
    <3>2. req[r] \in Call BY <1>1 DEF TypeOK
    <3>3. d.pc = "decoded" /\ d.rec = req[r].rec /\ d.last = req[r].last BY <3>2 DEF Call
    <3>4. req' = [req EXCEPT ![r] = d] BY <2>2, <3>1 DEF TaskEnds
    <3> HIDE DEF d
    <3>5. req'[r] = d BY <1>1, <3>4 DEF TypeOK
    <3> QED BY <1>8, <3>3, <3>5
  <2> QED BY <2>1, <2>2
<1> QED BY <1>1, <1>5, <1>6, <1>7, <1>8

(* Every step keeps a close that was left behind noted as failed.          *)
LEMMA DetachedStep ==
    ASSUME IInv, DetachedClose, Next PROVE DetachedClose'
<1> SUFFICES ASSUME NEW r \in Reqs, req'[r].pc = "detached", req'[r].last
             PROVE  recs'[req'[r].rec].closeFailed
  BY DEF DetachedClose
<1> DEFINE k == req'[r].rec
<1>1. TypeOK /\ TypeOK' BY StepInv DEF IInv
<1>2. IInv' BY StepInv
<1>3. k \in Recs BY <1>1, <1>2 DEF IInv, CallRefs, TypeOK, Call
<1>4. k \in Named(sess', req') BY DEF Named
<1>5. CASE req'[r] = req[r]
  <2>1. k \in Named(sess, req) /\ recs[k].closeFailed BY <1>5 DEF Named, DetachedClose
  <2> QED BY <1>3, <1>4, <2>1, Marks
<1>6. CASE Cancel(r)
  <2>1. \/ req' = [req EXCEPT ![r] = Idle]
        \/ req' = [req EXCEPT ![r].pc = "detached"] /\ Keep(NoteFailedClose(r))
    BY <1>6 DEF Cancel
  <2>2. req' # [req EXCEPT ![r] = Idle] BY <1>1 DEF TypeOK, Idle
  <2> DEFINE d == [req[r] EXCEPT !.pc = "detached"]
  <2>3. req' = [req EXCEPT ![r] = d] /\ Keep(NoteFailedClose(r)) BY <2>1, <2>2
  <2>4. d.rec = req[r].rec /\ d.last = req[r].last BY <1>1 DEF TypeOK, Call
  <2> HIDE DEF d
  <2>5. k = req[r].rec /\ req[r].last BY <1>1, <2>3, <2>4 DEF TypeOK
  <2> QED BY <1>3, <1>4, <2>3, <2>5, NoteMarks, ServiceAssumption
<1>7. req'[r] = req[r] \/ Cancel(r)
  <2>1. CASE \E s \in Reqs : Arrive(s) BY <2>1, ArriveCalls
  <2>2. CASE \E s \in Reqs : Lookup(s) BY <2>2, LookupCalls
  <2>3. CASE \E s \in Reqs : LoadFails(s) \/ Resume(s)
    <3>1. PICK s \in Reqs : LoadFails(s) \/ Resume(s) BY <2>3
    <3>2. req'[s].pc = "replied"
      BY <1>1, <3>1 DEF LoadFails, Resume, Answer, AnswerFailed, Reply, TypeOK, Call
    <3> QED BY <3>1, <3>2, RestCalls
  <2>4. CASE \E s \in Reqs : Decode(s)
    <3>1. PICK s \in Reqs : Decode(s) BY <2>4
    <3>2. PICK result : TaskEnds(s, result) BY <3>1 DEF Decode
    <3>3. [req[s] EXCEPT !.pc = "decoded", !.lang = "none", !.result = result].pc = "decoded"
      BY <1>1 DEF TypeOK, Call
    <3>4. req'[s].pc # "detached" BY <1>1, <3>2, <3>3 DEF TaskEnds, TypeOK, Idle
    <3> QED BY <3>1, <3>4, RestCalls
  <2>5. CASE \E s \in Reqs : Cancel(s) BY <2>5, RestCalls
  <2>6. CASE (\E s \in Reqs : LoadModel(s)) \/ Tick BY <2>6 DEF LoadModel, Tick
  <2> QED BY <2>1, <2>2, <2>3, <2>4, <2>5, <2>6 DEF Next
<1> QED BY <1>5, <1>6, <1>7

(* A session that only refuses audio is in the table only while its close   *)
(* is being answered, or because a close of it failed or was dropped.       *)
THEOREM FinishedSessionHolds == Spec => []FinishedSession
<1> DEFINE FInv == FinishedSession /\ DetachedClose
<1>1. Init => FInv
  BY DEF Init, FinishedSession, DetachedClose, Opened, NoSession, Idle
<1>2. IInv /\ FInv /\ [Next]_vars => FInv'
  <2> SUFFICES ASSUME IInv, FInv, [Next]_vars PROVE FInv'
    OBVIOUS
  <2>1. CASE Next BY <2>1, FinishedStep, DetachedStep
  <2>2. CASE UNCHANGED vars
    BY <2>2 DEF vars, FinishedSession, DetachedClose, Opened
  <2> QED BY <2>1, <2>2
<1>3. FInv => FinishedSession OBVIOUS
<1> QED BY <1>1, <1>2, <1>3, Invariance, PTL DEF Spec

-----------------------------------------------------------------------------
(* The table keeps the promise of SessionLedger.                           *)

(* What the ledger sees of a table.                                         *)
EntryOf(s) == [rec |-> s.rec, age |-> s.age]

(* The ledger counts as the table does.                                    *)
LEMMA SameCardinality == \A S : Ledger!Cardinality(S) = Cardinality(S)
BY DEF Ledger!Cardinality, Cardinality

(* The sessions of the table are those of the ledger.                      *)
LEMMA LedgerView ==
    ASSUME TypeOK
    PROVE  /\ Ledger!Listed = Opened
           /\ Ledger!Young = Awake
           /\ \A i \in Ids : Ledger!Swept[i] = EntryOf(Swept[i])
           /\ Ledger!Swept = [i \in Ids |-> Ledger!Swept[i]]
<1>1. \A i \in Ids : Entries[i].rec = sess[i].rec /\ Entries[i].age = sess[i].age
  BY DEF Entries
<1>2. Ledger!Listed = Opened BY <1>1 DEF Ledger!Listed, Opened
<1>3. Ledger!Young = Awake BY <1>1, <1>2 DEF Ledger!Young, Awake, Opened
<1>4. Ledger!Absent = EntryOf(NoSession) BY DEF Ledger!Absent, EntryOf, NoSession
<1>5. \A i \in Ids : Ledger!Swept[i] = EntryOf(Swept[i])
  BY <1>3, <1>4 DEF Ledger!Swept, Swept, Entries, EntryOf
<1>6. Ledger!Swept = [i \in Ids |-> Ledger!Swept[i]] BY DEF Ledger!Swept
<1> QED BY <1>2, <1>3, <1>5, <1>6

(* A step that gives one session another entry and leaves every other one   *)
(* as the sweep left it, or as it was.                                      *)
LEMMA OneEntry ==
    ASSUME TypeOK, NEW i \in Ids, NEW s, NEW base \in [Ids -> Session \cup {NoSession}],
           sess' = [base EXCEPT ![i] = s]
    PROVE  Entries' = [[j \in Ids |-> EntryOf(base[j])] EXCEPT ![i] = EntryOf(s)]
BY DEF Entries, EntryOf

(* A refused look-up is a sweep of the ledger.                             *)
LEMMA SweepStep ==
    ASSUME TypeOK, sess' = Swept PROVE Ledger!Sweep
<1>1. Entries' = [i \in Ids |-> EntryOf(Swept[i])] BY DEF Entries, EntryOf
<1> QED BY <1>1, LedgerView DEF Ledger!Sweep

(* A look-up uses a session or opens one.                                  *)
LEMMA LookupStep ==
    ASSUME IInv, NEW r \in Reqs, Lookup(r) PROVE Ledger!Next
<1> DEFINE i == req[r].id
           sw == [j \in Ids |-> EntryOf(Swept[j])]
<1>1. TypeOK /\ (req[r].pc = "load" => i \in Ids) BY DEF IInv, CallRefs
<1>2. Ledger!Swept = sw BY <1>1, LedgerView
<1>3. CASE SwitchRefused(r) \/ CapReached(r) \/ UnknownLanguage(r)
  BY <1>1, <1>3, SweepStep DEF SwitchRefused, CapReached, UnknownLanguage, Ledger!Next
<1>4. CASE ContinueSession(r)
  <2>1. i \in Ids /\ i \in Awake BY <1>1, <1>4 DEF ContinueSession, Sweeping
  <2>2. Swept[i] = sess[i] /\ sess[i] \in Session
    BY <1>1, <2>1 DEF Swept, Awake, Opened, TypeOK, NoSession
  <2> DEFINE s == [Swept[i] EXCEPT !.age = 0]
  <2>3. sess' = [Swept EXCEPT ![i] = s] BY <1>4 DEF ContinueSession
  <2>5. EntryOf(s) = [sw[i] EXCEPT !.age = 0]
    BY <2>1, <2>2 DEF EntryOf, Session
  <2> HIDE DEF s, i
  <2>4. Entries' = [sw EXCEPT ![i] = EntryOf(s)]
    BY <1>1, <2>1, <2>3, SweptType, OneEntry
  <2>6. Ledger!Use(i) BY <1>1, <1>2, <2>1, <2>4, <2>5, LedgerView DEF Ledger!Use
  <2> QED BY <2>1, <2>6 DEF Ledger!Next
<1>5. CASE OpenSession(r)
  <2>1. i \in Ids /\ i \notin Awake /\ ~Full BY <1>1, <1>5 DEF OpenSession, Sweeping
  <2>2. PICK k \in Recs \ Named(sess, req) :
          sess' = [Swept EXCEPT ![i] = [rec |-> k, engine |-> Wanted(r), age |-> 0]]
    BY <1>5 DEF OpenSession
  <2>3. Entries' = [sw EXCEPT ![i] = [rec |-> k, age |-> 0]]
    <3> DEFINE s == [rec |-> k, engine |-> Wanted(r), age |-> 0]
    <3>1. EntryOf(s) = [rec |-> k, age |-> 0] BY DEF EntryOf
    <3>2. sess' = [Swept EXCEPT ![i] = s] BY <2>2
    <3> HIDE DEF s, i
    <3>3. Entries' = [sw EXCEPT ![i] = EntryOf(s)]
      BY <1>1, <2>1, <3>2, SweptType, OneEntry
    <3> QED BY <3>1, <3>3
  <2>4. k \in Recs \ {Entries[j].rec : j \in Ids} BY <2>2 DEF Named, Entries
  <2>5. Cardinality(Awake) < MaxSessions
    <3>1. Cardinality(Awake) \in Nat
      BY OpenedFinite, FS_Subset, FS_CardinalityType DEF Awake
    <3> QED BY <2>1, <3>1, ServiceAssumption DEF Full
  <2>6. Ledger!Open(i)
    BY <1>1, <1>2, <2>1, <2>3, <2>4, <2>5, LedgerView, SameCardinality DEF Ledger!Open
  <2> QED BY <2>1, <2>6 DEF Ledger!Next
<1> QED BY <1>3, <1>4, <1>5 DEF Lookup

(* An answer makes a session young.                                        *)
LEMMA TouchStep ==
    ASSUME IInv, NEW r \in Reqs, CloseFound(r) PROVE Ledger!Next
<1>1. TypeOK BY DEF IInv
<1>2. PICK q \in Accepted : q.id \in Opened /\ sess' = [sess EXCEPT ![q.id].age = 0]
  BY DEF CloseFound
<1> DEFINE i == q.id
<1>3. i \in Ids /\ sess[i] \in Session BY <1>1, <1>2 DEF Opened, TypeOK, NoSession
<1> DEFINE s == [sess[i] EXCEPT !.age = 0]
<1>4. sess' = [sess EXCEPT ![i] = s] BY <1>2
<1>5. EntryOf(s) = [Entries[i] EXCEPT !.age = 0]
  BY <1>3 DEF EntryOf, Session, Entries
<1> HIDE DEF s
<1>6. Entries' = [[j \in Ids |-> EntryOf(sess[j])] EXCEPT ![i] = EntryOf(s)]
  BY <1>1, <1>3, <1>4, OneEntry DEF TypeOK
<1>7. Entries = [j \in Ids |-> EntryOf(sess[j])] BY DEF Entries, EntryOf
<1>8. Ledger!Touch(i) BY <1>1, <1>2, <1>5, <1>6, <1>7, LedgerView DEF Ledger!Touch
<1> QED BY <1>3, <1>8 DEF Ledger!Next

(* A close ends a session.                                                 *)
LEMMA CloseStep ==
    ASSUME IInv, NEW r \in Reqs, Answer(r)
    PROVE  Ledger!Next \/ UNCHANGED Entries
<1>1. TypeOK /\ req[r].id \in Ids
  BY DEF IInv, Answer, CallRefs
<1>2. CASE sess' = sess BY <1>2 DEF Entries
<1>3. CASE sess' = [sess EXCEPT ![req[r].id] = NoSession]
  <2>1. Entries' = [[j \in Ids |-> EntryOf(sess[j])] EXCEPT ![req[r].id] = EntryOf(NoSession)]
    BY <1>1, <1>3, OneEntry DEF TypeOK
  <2>2. Entries = [j \in Ids |-> EntryOf(sess[j])] BY DEF Entries, EntryOf
  <2>3. Ledger!Absent = EntryOf(NoSession) BY DEF Ledger!Absent, EntryOf, NoSession
  <2>4. Ledger!Close(req[r].id) BY <2>1, <2>2, <2>3 DEF Ledger!Close
  <2> QED BY <1>1, <2>4 DEF Ledger!Next
<1> QED BY <1>2, <1>3 DEF Answer

(* Time passes in the ledger as in the table.                              *)
LEMMA TickStep == ASSUME IInv, Tick PROVE Ledger!Next
<1>1. TypeOK BY DEF IInv
<1>2. \A i \in Ids : EntryOf(Older(sess[i])) =
          IF i \in Awake THEN [Entries[i] EXCEPT !.age = @ + 1] ELSE Entries[i]
  <2> TAKE i \in Ids
  <2>1. sess[i] \in Session \cup {NoSession} BY <1>1 DEF TypeOK
  <2>2. Entries[i] = EntryOf(sess[i]) BY DEF Entries, EntryOf
  <2>3. CASE i \in Awake
    <3>1. sess[i] \in Session /\ sess[i].age < IdleLimit
      BY <2>1, <2>3 DEF Awake, Opened, NoSession
    <3>2. Older(sess[i]) = [sess[i] EXCEPT !.age = @ + 1]
      BY <3>1, ServiceAssumption DEF Older, Session
    <3> QED BY <2>2, <2>3, <3>1, <3>2 DEF EntryOf, Session
  <2>4. CASE i \notin Awake
    <3>1. sess[i].rec = NoRec \/ sess[i].age = IdleLimit
      BY <2>1, <2>4, ServiceAssumption DEF Awake, Opened, Session, NoSession
    <3> QED BY <2>2, <2>4, <3>1 DEF Older
  <2> QED BY <2>3, <2>4
<1>3. Entries' = [i \in Ids |-> EntryOf(Older(sess[i]))]
  BY DEF Tick, Entries, EntryOf
<1>4. Ledger!Tick BY <1>1, <1>2, <1>3, LedgerView DEF Ledger!Tick
<1> QED BY <1>4 DEF Ledger!Next

(* Every step of the service is a step of the ledger, or none.             *)
LEMMA LedgerStep == IInv /\ [Next]_vars => [Ledger!Next]_Entries
<1> SUFFICES ASSUME IInv, [Next]_vars PROVE Ledger!Next \/ UNCHANGED Entries
  OBVIOUS
<1>1. sess' = sess => UNCHANGED Entries BY DEF Entries
<1>2. ASSUME NEW r \in Reqs, Arrive(r) PROVE Ledger!Next \/ UNCHANGED Entries
  BY <1>1, <1>2, TouchStep DEF Arrive, Refuse, CloseUnknown, Chunk
<1>3. ASSUME NEW r \in Reqs, LoadModel(r) \/ LoadFails(r) \/ Decode(r) \/ Cancel(r)
      PROVE  UNCHANGED Entries
  BY <1>1, <1>3 DEF LoadModel, LoadFails, Decode, Cancel
<1>4. ASSUME NEW r \in Reqs, Resume(r) PROVE Ledger!Next \/ UNCHANGED Entries
  BY <1>1, <1>4, CloseStep DEF Resume, AnswerFailed
<1>5. CASE UNCHANGED vars BY <1>1, <1>5 DEF vars
<1> QED BY <1>2, <1>3, <1>4, <1>5, LookupStep, TickStep DEF Next

(* Both begin empty.                                                       *)
LEMMA LedgerInit == Init => Ledger!Init
BY DEF Init, Ledger!Init, Ledger!Absent, Entries, NoSession

(* Calls that load, wait, decode, fail and are dropped in any order do no   *)
(* more to the table than the ledger allows: the service implements it.     *)
THEOREM KeepsLedgerHolds == Spec => KeepsLedger
<1>1. Init => Ledger!Init BY LedgerInit
<1>2. IInv /\ [Next]_vars => [Ledger!Next]_Entries BY LedgerStep
<1> QED BY <1>1, <1>2, Invariance, PTL DEF Spec, KeepsLedger, Ledger!Spec
=============================================================================
