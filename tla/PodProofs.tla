------------------------------ MODULE PodProofs ------------------------------
(* Proofs about the pod, for any volume, any callers and any secrets.      *)
EXTENDS Pod, TLAPS

-----------------------------------------------------------------------------
(* The volume: a file under its own name is whole, and the script has only *)
(* whole files behind it.                                                  *)

VolumeInv ==
    /\ Volume!FetchTypeOK
    /\ \A f \in 1 .. Files : final[f] # "cut"
    /\ script.pc = "mv" => part[script.file] = "whole"
    /\ script.pc \in {"test", "curl", "mv"} =>
            \A f \in 1 .. Files : f < script.file => final[f] = "whole"
    /\ script.pc = "done" => \A f \in 1 .. Files : final[f] = "whole"
    /\ script.pc = "off" => script.file = 1

(* Where the container has passed the init container, that was done.       *)
FetchedInv ==
    /\ VolumeInv
    /\ pc # "fetch" /\ outcome # "killed" => script.pc = "done"
    /\ outcome = "killed" => pc = "over"

(* The script's steps keep what is known of the volume.                     *)
LEMMA VolumeStep ==
    ASSUME VolumeInv, Volume!FetchStep
    PROVE  VolumeInv'
<1> USE FilesAssumption DEF VolumeInv, Volume!FetchTypeOK, Volume!Content, Volume!At
<1>1. CASE Volume!StartScript
  BY <1>1 DEF Volume!StartScript
<1>2. CASE Volume!Present
  <2>1. /\ script.pc = "test" /\ final[script.file] = "whole"
        /\ UNCHANGED <<final, part>>
    BY <1>2 DEF Volume!Present
  <2>2. \A f \in 1 .. Files : f < script.file + 1 => final[f] = "whole"
    BY <2>1
  <2>3. CASE script.file = Files
    <3>1. script' = [script EXCEPT !.pc = "done"]
      BY <1>2, <2>3 DEF Volume!Present, Volume!Advance
    <3> QED BY <2>1, <2>2, <2>3, <3>1
  <2>4. CASE script.file # Files
    <3>1. script' = [pc |-> "test", file |-> script.file + 1]
      BY <1>2, <2>4 DEF Volume!Present, Volume!Advance
    <3> QED BY <2>1, <2>2, <2>4, <3>1
  <2> QED BY <2>3, <2>4
<1>3. CASE Volume!StartCurl
  BY <1>3 DEF Volume!StartCurl
<1>4. CASE Volume!EndCurl
  BY <1>4 DEF Volume!EndCurl
<1>5. CASE Volume!Rename
  <2>1. /\ script.pc = "mv" /\ part[script.file] = "whole"
        /\ final' = [final EXCEPT ![script.file] = "whole"]
        /\ part' = [part EXCEPT ![script.file] = "none"]
    BY <1>5 DEF Volume!Rename
  <2>2. \A f \in 1 .. Files : /\ f < script.file + 1 => final'[f] = "whole"
                             /\ final'[f] # "cut"
    BY <2>1
  <2>5. /\ final' \in [1 .. Files -> {"none", "cut", "whole"}]
        /\ part' \in [1 .. Files -> {"none", "cut", "whole"}]
    BY <2>1
  <2>3. CASE script.file = Files
    <3>1. script' = [script EXCEPT !.pc = "done"]
      BY <1>5, <2>3 DEF Volume!Rename, Volume!Advance
    <3>2. \A f \in 1 .. Files : final'[f] = "whole"
      BY <2>2, <2>3
    <3>3. script' \in [pc : {"done"}, file : 1 .. Files]
      BY <3>1
    <3> QED BY <2>2, <2>5, <3>2, <3>3
  <2>4. CASE script.file # Files
    <3>1. script' = [pc |-> "test", file |-> script.file + 1]
      BY <1>5, <2>4 DEF Volume!Rename, Volume!Advance
    <3> QED BY <2>1, <2>2, <2>4, <3>1
  <2> QED BY <2>3, <2>4
<1> QED
  BY <1>1, <1>2, <1>3, <1>4, <1>5, Volume!FetchStep DEF Volume!FetchStep

(* And so do a cut-off and the loss of files.                              *)
LEMMA VolumeFaults ==
    ASSUME VolumeInv, Volume!CutOff \/ Volume!LoseFiles \/ (script' = Volume!Off /\ UNCHANGED <<final, part>>)
    PROVE  VolumeInv'
  BY FilesAssumption DEF VolumeInv, Volume!FetchTypeOK, Volume!Content, Volume!CutOff,
     Volume!LoseFiles, Volume!Off

(* Whatever is not the script leaves the volume alone.                     *)
LEMMA VolumeKept == ASSUME VolumeInv, UNCHANGED volume PROVE VolumeInv'
  BY DEF VolumeInv, volume, Volume!FetchTypeOK

(* Every step of the pod keeps that main runs on a fetched volume.         *)
LEMMA FetchedStep ==
    ASSUME FetchedInv, [Next]_vars
    PROVE  FetchedInv'
<1> USE DEF FetchedInv
<1>1. CASE Fetch
  <2>1. VolumeInv'
    BY <1>1, VolumeStep, VolumeFaults DEF Fetch
  <2> QED BY <1>1, <2>1 DEF Fetch, main
<1>2. CASE StartMain
  BY <1>2, VolumeKept DEF StartMain, Goto, volume
<1>3. CASE ReadConfig \/ RunTool \/ Prepare \/ Loads \/ LoadFails
  <2>1. UNCHANGED volume /\ pc # "fetch" /\ pc # "over"
    BY <1>3 DEF ReadConfig, RunTool, Prepare, Loads, LoadFails, Goto
  <2>2. outcome' = "killed" => outcome = "killed"
    BY <1>3 DEF ReadConfig, RunTool, Prepare, Loads, LoadFails
  <2> QED BY <2>1, <2>2, VolumeKept DEF volume
<1>4. CASE Shutdown \/ Drained \/ CloseRuntime \/ Exit \/ ServerFails
  BY <1>4, VolumeKept DEF Shutdown, Drained, CloseRuntime, Exit, ServerFails, Goto, volume, main
<1>5. CASE Unauthenticated \/ OpenStream \/ StreamEnds \/ SessionEnds \/ Export \/ HttpDies
  BY <1>5, VolumeKept DEF Unauthenticated, OpenStream, StreamEnds, SessionEnds, Export,
     HttpDies, Goto, volume
<1>6. ASSUME NEW c \in Calls, Serve(c) PROVE FetchedInv'
  BY <1>6, VolumeKept DEF Serve, Accept, Answer, HangUp, TaskEnds, Goto, volume
<1>7. CASE Signal \/ ProbeFails
  BY <1>7, VolumeKept DEF Signal, ProbeFails, Goto, volume
<1>8. CASE Kill
  <2>1. CASE pc = "fetch"
    BY <1>8, <2>1, VolumeFaults DEF Kill
  <2>2. CASE pc # "fetch"
    BY <1>8, <2>2, VolumeKept DEF Kill, volume
  <2> QED BY <2>1, <2>2
<1>9. CASE Restart
  BY <1>9, VolumeFaults, VolumeKept DEF Restart
<1>10. CASE UNCHANGED vars
  BY <1>10, VolumeKept DEF vars, main, volume
<1> QED
  BY <1>1, <1>2, <1>3, <1>4, <1>5, <1>6, <1>7, <1>8, <1>9, <1>10 DEF Next, Steps

(* An empty volume and a pod that has done nothing yet satisfy all this.   *)
LEMMA FetchedInit == Init => FetchedInv
  BY FilesAssumption DEF Init, FetchedInv, VolumeInv, Volume!FetchInit,
     Volume!FetchTypeOK, Volume!Content, Volume!Off

(* A model is never loaded from a download that was cut off: the renaming  *)
(* in fetch-model.sh is enough, whatever is killed and however often.      *)
THEOREM NeverLoadsCutHolds == Spec => []NeverLoadsCut
<1>1. FetchedInv => NeverLoadsCut
  BY DEF FetchedInv, VolumeInv, NeverLoadsCut
<1> QED BY <1>1, FetchedInit, FetchedStep, PTL DEF Spec

-----------------------------------------------------------------------------
(* The end of a process.  Nothing is cut before the runtime is closed, and  *)
(* a process that is well when it gets there has nobody in flight; a span  *)
(* is queued only while the server is up, and until the flush.             *)

EndInv ==
    /\ pc \notin {"ended", "over"} => ~cut
    /\ outcome = "ok" => ~cut
    /\ outcome = "ok" /\ pc = "closing" => ~SomebodyIn
    /\ pc \in {"fetch", "start", "configured", "loading"} => ~queued
    /\ pc = "over" /\ outcome # "killed" => ~queued

(* Spans, calls and outcome stay in step to the end.                       *)
LEMMA EndStep ==
    ASSUME EndInv, [Next]_vars
    PROVE  EndInv'
<1> USE DEF EndInv, SomebodyIn
<1>1. CASE Fetch \/ UNCHANGED vars
  BY <1>1 DEF Fetch, main, vars, InFlight
<1>2. CASE StartMain \/ ReadConfig \/ RunTool \/ Prepare \/ Loads \/ LoadFails
  <2>1. /\ pc \in {"fetch", "start", "configured", "loading"}
        /\ pc' \in {"start", "configured", "loading", "ended", "serving", "closing", "over"}
        /\ UNCHANGED <<cut, queued>>
        /\ pc' = "closing" => outcome' = "error"
    BY <1>2 DEF StartMain, ReadConfig, RunTool, Prepare, Loads, LoadFails, Goto
  <2> QED BY <2>1
<1>3. CASE Shutdown \/ ServerFails \/ Signal \/ ProbeFails \/ HttpDies \/ Export
  BY <1>3 DEF Shutdown, ServerFails, Signal, ProbeFails, HttpDies, Export, Goto, main, InFlight
<1>4. CASE Drained
  BY <1>4 DEF Drained, AllAnswered, InFlight, Goto
<1>5. CASE CloseRuntime
  BY <1>5 DEF CloseRuntime, Goto
<1>6. CASE Exit
  BY <1>6 DEF Exit, Flush, Goto
<1>7. CASE Unauthenticated \/ OpenStream \/ StreamEnds \/ SessionEnds
  BY <1>7 DEF Unauthenticated, OpenStream, StreamEnds, SessionEnds, SpanEnds, Goto, InFlight
<1>8. ASSUME NEW c \in Calls, Serve(c) PROVE EndInv'
  <2>1. CASE TaskEnds(c)
    <3>1. InFlight = {} => InFlight' = {}
      BY <2>1 DEF TaskEnds, InFlight, NoCall
    <3> QED BY <2>1, <3>1 DEF TaskEnds, Goto
  <2>2. CASE Accept(c) \/ Answer(c) \/ HangUp(c)
    BY <2>2 DEF Accept, Answer, HangUp, SpanEnds, Goto
  <2> QED BY <1>8, <2>1, <2>2 DEF Serve
<1>9. CASE Kill \/ Restart
  BY <1>9 DEF Kill, Restart
<1> QED
  BY <1>1, <1>2, <1>3, <1>4, <1>5, <1>6, <1>7, <1>8, <1>9 DEF Next, Steps

(* They are so at the start.                                               *)
LEMMA EndInit == Init => EndInv
  BY DEF Init, EndInv

(* Whoever was let in is answered, and a stream goes on until its client   *)
(* ends it, before a process that was told to stop ends well.              *)
THEOREM GracefulStopHolds == Spec => []GracefulStop
<1>1. EndInv => GracefulStop
  BY DEF EndInv, GracefulStop
<1> QED BY <1>1, EndInit, EndStep, PTL DEF Spec

(* The flush comes after the last span and before every exit but a kill.   *)
THEOREM SpansFlushedHolds == Spec => []SpansFlushed
<1>1. EndInv => SpansFlushed
  BY DEF EndInv, SpansFlushed
<1> QED BY <1>1, EndInit, EndStep, PTL DEF Spec

-----------------------------------------------------------------------------
(* The credentials                                                         *)

(* Only the bare prefix names nobody.                                      *)
LEMMA CredentialNames ==
    \A k \in CredentialKeys : k # "STT_TOKEN_" => ClientOf[k] # ""
<1>1. CredentialKeys = {"STT_AUTH_TOKEN", "STT_TOKEN_DEFAULT", "STT_TOKEN_ANN",
                        "STT_TOKEN_ann", "STT_TOKEN_"}
  BY DEF CredentialKeys, ClientOf
<1>2. /\ ClientOf["STT_AUTH_TOKEN"] = "default" /\ ClientOf["STT_TOKEN_DEFAULT"] = "default"
      /\ ClientOf["STT_TOKEN_ANN"] = "ann" /\ ClientOf["STT_TOKEN_ann"] = "ann"
  BY DEF ClientOf
<1> QED BY <1>1, <1>2

IsEnv(env) ==
    /\ env = [k \in Keys |-> env[k]]
    /\ \A k \in CredentialKeys : env[k] \in ValuesOf("STT_AUTH_TOKEN")

ConfigInv ==
    /\ given = [args |-> given.args, env |-> given.env]
    /\ \/ config = NoConfig
       \/ \E args, env : /\ IsEnv(env) /\ Accepted(args, env)
                         /\ config = Loaded(args, env)
    /\ pc = "configured" => IsEnv(given.env) /\ config = Loaded(given.args, given.env)

(* A configuration is always one that an accepted environment loads to.    *)
LEMMA ConfigStep ==
    ASSUME ConfigInv, [Next]_vars
    PROVE  ConfigInv'
<1>1. CASE ReadConfig
  <2>1. PICK creds \in Secrets :
            LET env == With(creds, given.env) IN
            /\ given' = [given EXCEPT !.env = env]
            /\ IF Accepted(given.args, env)
               THEN /\ config' = Loaded(given.args, env)
                    /\ Goto("configured")
                    /\ UNCHANGED outcome
               ELSE /\ outcome' = "error"
                    /\ Goto("over")
                    /\ UNCHANGED config
    BY <1>1 DEF ReadConfig
  <2> DEFINE env == With(creds, given.env)
  <2>2. IsEnv(env)
    BY DEF IsEnv, With, Keys, Secrets
  <2>3. given' = [args |-> given.args, env |-> env]
    <3> HIDE DEF env
    <3> QED BY <2>1 DEF ConfigInv, env
  <2> HIDE DEF env
  <2>4. CASE Accepted(given.args, env)
    <3>1. config' = Loaded(given.args, env)
      BY <2>1, <2>4 DEF env
    <3> QED BY <2>2, <2>3, <2>4, <3>1 DEF ConfigInv
  <2>5. CASE ~Accepted(given.args, env)
    <3>1. config' = config /\ pc' = "over"
      BY <2>1, <2>5 DEF env, Goto
    <3> QED BY <2>3, <3>1 DEF ConfigInv
  <2> QED BY <2>4, <2>5
<1>2. CASE StartMain
  <2>1. config' = config /\ pc' = "start"
    BY <1>2 DEF StartMain, Goto
  <2>2. \E args, env : given' = [args |-> args, env |-> env]
    BY <1>2 DEF StartMain
  <2>3. given' = [args |-> given'.args, env |-> given'.env]
    BY <2>2
  <2> QED BY <2>1, <2>3 DEF ConfigInv
<1>3. CASE Kill \/ Restart
  BY <1>3 DEF Kill, Restart, ConfigInv, NotGiven
<1>4. CASE RunTool \/ Prepare
  BY <1>4 DEF RunTool, Prepare, ConfigInv, NotGiven, Goto
<1>5. CASE Loads \/ LoadFails \/ Shutdown \/ Drained \/ CloseRuntime \/ Exit \/ ServerFails
  <2>1. UNCHANGED <<given, config>> /\ pc' # "configured"
    BY <1>5 DEF Loads, LoadFails, Shutdown, Drained, CloseRuntime, Exit, ServerFails, Goto, main
  <2> QED BY <2>1 DEF ConfigInv
<1>6. CASE Fetch \/ Unauthenticated \/ OpenStream \/ StreamEnds \/ SessionEnds \/ Export
           \/ HttpDies \/ Signal \/ ProbeFails \/ UNCHANGED vars
  <2>1. UNCHANGED <<given, config, pc>>
    BY <1>6 DEF Fetch, Unauthenticated, OpenStream, StreamEnds, SessionEnds, Export, HttpDies,
       Signal, ProbeFails, Goto,
       main, vars
  <2> QED BY <2>1 DEF ConfigInv
<1>7. ASSUME NEW c \in Calls, Serve(c) PROVE ConfigInv'
  <2>1. UNCHANGED <<given, config, pc>>
    BY <1>7 DEF Serve, Accept, Answer, HangUp, TaskEnds, Goto
  <2> QED BY <2>1 DEF ConfigInv
<1> QED
  BY <1>1, <1>2, <1>3, <1>4, <1>5, <1>6, <1>7 DEF Next, Steps

(* At the start there is none.                                             *)
LEMMA ConfigInit == Init => ConfigInv
  BY DEF Init, ConfigInv, NotGiven

(* What can be matched is a secret.                                        *)
LEMMA MatchesOf ==
    ASSUME NEW args, NEW env, IsEnv(env), NEW header
    PROVE  /\ Matches(Loaded(args, env), header) =
                {ClientOf[k] : k \in {k \in Clients(env) : env[k] = header}}
           /\ \A k \in Clients(env) : env[k] \in Tokens
<1>1. \A k \in Clients(env) : env[k] \in Tokens
  BY TokensAssumption DEF Clients, Get, IsEnv, ValuesOf, CredentialKeys, ClientOf
<1>2. Loaded(args, env).clients = {<<k, env[k]>> : k \in Clients(env)}
  BY DEF Loaded
<1> DEFINE creds == {<<k, env[k]>> : k \in Clients(env)}
<1>3. Matches(Loaded(args, env), header) = {ClientOf[c[1]] : c \in {c \in creds : c[2] = header}}
  BY <1>2 DEF Matches
<1>4. \A k \in Clients(env) : <<k, env[k]>>[1] = k /\ <<k, env[k]>>[2] = env[k]
  OBVIOUS
<1>5. ASSUME NEW n
      PROVE  n \in {ClientOf[c[1]] : c \in {c \in creds : c[2] = header}}
                <=> n \in {ClientOf[k] : k \in {k \in Clients(env) : env[k] = header}}
  <2>1. ASSUME NEW c \in creds, c[2] = header, n = ClientOf[c[1]]
        PROVE  \E k \in Clients(env) : env[k] = header /\ n = ClientOf[k]
    <3>1. PICK k \in Clients(env) : c = <<k, env[k]>>
      OBVIOUS
    <3> QED BY <2>1, <3>1
  <2>2. ASSUME NEW k \in Clients(env), env[k] = header, n = ClientOf[k]
        PROVE  \E c \in creds : c[2] = header /\ n = ClientOf[c[1]]
    <3>1. <<k, env[k]>> \in creds
      OBVIOUS
    <3> HIDE DEF creds
    <3> QED BY <2>2, <3>1, <1>4
  <2> HIDE DEF creds
  <2> QED BY <2>1, <2>2
<1> HIDE DEF creds
<1> QED BY <1>1, <1>3, <1>5

(* A name that authentication gives is one of those that matched.          *)
LEMMA AuthenticateGives ==
    ASSUME NEW c, NEW header, Authenticate(c, header) # NoClient
    PROVE  Authenticate(c, header) \in Matches(c, header)
  BY DEF Authenticate

(* Whoever is let in holds one of the configured tokens, and two tokens    *)
(* are two clients.                                                        *)
THEOREM OneTokenPerClientHolds == Spec => []OneTokenPerClient
<1>1. ConfigInv => OneTokenPerClient
  <2> SUFFICES ASSUME ConfigInv, NEW h1 \in Headers, NEW h2 \in Headers,
                      Authenticate(config, h1) # NoClient
               PROVE  /\ h1 \in Tokens
                      /\ Authenticate(config, h1) = Authenticate(config, h2) => h1 = h2
    BY DEF OneTokenPerClient
  <2>1. Authenticate(config, h1) \in Matches(config, h1)
    BY AuthenticateGives
  <2>2. config # NoConfig
    BY <2>1 DEF NoConfig, Matches
  <2>3. PICK args, env : IsEnv(env) /\ Accepted(args, env) /\ config = Loaded(args, env)
    BY <2>2 DEF ConfigInv
  <2>4. PICK k \in Clients(env) : env[k] = h1 /\ ClientOf[k] = Authenticate(config, h1)
    BY <2>1, <2>3, MatchesOf
  <2>5. h1 \in Tokens
    BY <2>3, <2>4, MatchesOf
  <2>6. ASSUME Authenticate(config, h1) = Authenticate(config, h2) PROVE h1 = h2
    <3>1. Authenticate(config, h2) \in Matches(config, h2)
      BY <2>6, AuthenticateGives
    <3>2. PICK l \in Clients(env) : env[l] = h2 /\ ClientOf[l] = ClientOf[k]
      BY <2>3, <2>4, <2>6, <3>1, MatchesOf
    <3>3. ClientErrors(env) = {}
      BY <2>3 DEF Accepted, Errors
    <3>4. Duplicates(env) = {} /\ "STT_TOKEN_" \notin Clients(env)
      BY <3>3 DEF ClientErrors
    <3>5. CASE k # l
      <4>1. ClientOf[k] \in Duplicates(env) \/ ClientOf[k] = ""
        <5> DEFINE shared == {x \in Clients(env) :
                                \E y \in Clients(env) \ {x} : ClientOf[y] = ClientOf[x]}
        <5>1. Duplicates(env) = {ClientOf[x] : x \in shared} \ {""}
          BY DEF Duplicates
        <5>2. k \in shared
          BY <3>2, <3>5
        <5> HIDE DEF shared
        <5> QED BY <5>1, <5>2
      <4>2. \A m \in CredentialKeys : m # "STT_TOKEN_" => ClientOf[m] # ""
        BY CredentialNames
      <4>3. k \in CredentialKeys /\ k # "STT_TOKEN_"
        BY <3>4 DEF Clients
      <4>4. ClientOf[k] # ""
        BY <4>2, <4>3
      <4> QED BY <3>4, <4>1, <4>4
    <3> QED BY <2>4, <3>2, <3>5
  <2> QED BY <2>5, <2>6
<1> QED BY <1>1, ConfigInit, ConfigStep, PTL DEF Spec

(* Revoking one caller's token leaves every other caller as it was.        *)
THEOREM RevokingOneKeepsOthersHolds == Spec => []RevokingOneKeepsOthers
<1>1. ConfigInv => RevokingOneKeepsOthers
  <2> SUFFICES ASSUME ConfigInv, pc = "configured", NEW k \in Clients(given.env)
               PROVE
        LET after == [given.env EXCEPT ![k] = "unset"]
            others == Clients(given.env) \ {k}
            unshared == \A l \in others : given.env[l] # given.env[k]
        IN  Accepted(given.args, after) /\ unshared =>
                /\ Authenticate(Loaded(given.args, after), given.env[k]) = NoClient
                /\ \A l \in others :
                        Authenticate(Loaded(given.args, after), given.env[l])
                            = Authenticate(config, given.env[l])
    BY DEF RevokingOneKeepsOthers
  <2> DEFINE env == given.env
             after == [env EXCEPT ![k] = "unset"]
             others == Clients(env) \ {k}
  <2> SUFFICES ASSUME \A l \in others : env[l] # env[k]
               PROVE  /\ Authenticate(Loaded(given.args, after), env[k]) = NoClient
                      /\ \A l \in others :
                            Authenticate(Loaded(given.args, after), env[l])
                                = Authenticate(config, env[l])
    OBVIOUS
  <2>1. IsEnv(env) /\ config = Loaded(given.args, env)
    BY DEF ConfigInv
  <2>2. k \in Keys /\ k \in CredentialKeys
    BY DEF Clients, Keys
  <2>3. after = [l \in Keys |-> IF l = k THEN "unset" ELSE env[l]]
    BY <2>1, <2>2 DEF IsEnv
  <2> HIDE DEF after
  <2>4. IsEnv(after)
    BY <2>1, <2>3 DEF IsEnv, Keys, ValuesOf
  <2>5. Clients(after) = others /\ \A l \in others : after[l] = env[l]
    <3>1. \A l \in CredentialKeys : Get(after, l) = IF l = k THEN "unset" ELSE Get(env, l)
      BY <2>3 DEF Get, Keys
    <3>2. \A l \in CredentialKeys \ {k} : after[l] = env[l]
      BY <2>3 DEF Keys
    <3> QED BY <3>1, <3>2, <2>2 DEF Clients
  <2>6. \A h : Matches(Loaded(given.args, after), h)
                    = {ClientOf[l] : l \in {l \in others : env[l] = h}}
    <3> TAKE h
    <3>1. {l \in Clients(after) : after[l] = h} = {l \in others : env[l] = h}
      BY <2>5
    <3> HIDE DEF others
    <3> QED BY <2>4, <3>1, MatchesOf
  <2>7. Authenticate(Loaded(given.args, after), env[k]) = NoClient
    <3>1. Matches(Loaded(given.args, after), env[k]) = {}
      BY <2>6
    <3> QED BY <3>1 DEF Authenticate
  <2>8. ASSUME NEW l \in others
        PROVE  Authenticate(Loaded(given.args, after), env[l]) = Authenticate(config, env[l])
    <3>1. {m \in others : env[m] = env[l]} = {m \in Clients(env) : env[m] = env[l]}
      OBVIOUS
    <3>2. Matches(config, env[l]) = {ClientOf[m] : m \in {m \in Clients(env) : env[m] = env[l]}}
      BY <2>1, MatchesOf
    <3>3. Matches(Loaded(given.args, after), env[l]) = Matches(config, env[l])
      BY <2>6, <3>1, <3>2
    <3> QED BY <3>3 DEF Authenticate
  <2> QED BY <2>7, <2>8
<1> QED BY <1>1, ConfigInit, ConfigStep, PTL DEF Spec

-----------------------------------------------------------------------------
(* Types                                                                   *)

(* What an accepted environment loads to is a configuration.               *)
LEMMA LoadedType ==
    ASSUME NEW args, NEW env, IsEnv(env), Accepted(args, env)
    PROVE  Loaded(args, env) \in Config
<1>1. First(args) \in DOMAIN ModeOf
  BY DEF Accepted, Errors, ArgErrors
<1>2. ModeOf[First(args)] \in {"serve", "selftest", "version"}
  BY <1>1 DEF ModeOf
<1>3. {<<k, env[k]>> : k \in Clients(env)} \in SUBSET (CredentialKeys \X Tokens)
  <2>1. \A k \in Clients(env) : k \in CredentialKeys /\ env[k] \in Tokens
    BY MatchesOf DEF Clients
  <2> QED BY <2>1
<1> QED BY <1>2, <1>3 DEF Loaded, Config, TracesWanted

(* Whoever is let in has one of the client names, never the empty one.     *)
LEMMA CallerType ==
    ASSUME ConfigInv, NEW header
    PROVE  Authenticate(config, header) \in Callers
<1>1. CASE Authenticate(config, header) = NoClient
  BY <1>1 DEF Callers
<1>2. CASE Authenticate(config, header) # NoClient
  <2>1. Authenticate(config, header) \in Matches(config, header)
    BY <1>2, AuthenticateGives
  <2>2. config # NoConfig
    BY <2>1 DEF NoConfig, Matches
  <2>3. PICK args, env : IsEnv(env) /\ Accepted(args, env) /\ config = Loaded(args, env)
    BY <2>2 DEF ConfigInv
  <2>4. PICK k \in Clients(env) : ClientOf[k] = Authenticate(config, header)
    BY <2>1, <2>3, MatchesOf
  <2>5. "STT_TOKEN_" \notin Clients(env)
    BY <2>3 DEF Accepted, Errors, ClientErrors
  <2>6. k \in CredentialKeys \ {"STT_TOKEN_"}
    BY <2>5 DEF Clients
  <2>7. CredentialKeys = {"STT_AUTH_TOKEN", "STT_TOKEN_DEFAULT", "STT_TOKEN_ANN",
                          "STT_TOKEN_ann", "STT_TOKEN_"}
    BY DEF CredentialKeys, ClientOf
  <2>8. ClientOf[k] \in {"default", "ann"}
    <3>1. /\ ClientOf["STT_AUTH_TOKEN"] = "default" /\ ClientOf["STT_TOKEN_DEFAULT"] = "default"
          /\ ClientOf["STT_TOKEN_ANN"] = "ann" /\ ClientOf["STT_TOKEN_ann"] = "ann"
      BY DEF ClientOf
    <3> QED BY <2>6, <2>7, <3>1
  <2> QED BY <2>4, <2>8 DEF Callers
<1> QED BY <1>1, <1>2

(* The types of everything but the volume and the configuration.           *)
MainTypes ==
    /\ pc \in {"fetch", "start", "configured", "loading", "serving", "draining",
               "closing", "ended", "over"}
    /\ outcome \in {"none", "ok", "error", "killed"}
    /\ given.args \in Launches \cup {<<>>} /\ DOMAIN given.env = Keys
    /\ term \in {"none", "held", "lost"}
    /\ {http, traced, queued, stream, cut} \subseteq BOOLEAN
    /\ calls \in [Calls -> [pc : {"idle", "inflight", "detached"}, client : Callers]]
    /\ opener \in Callers

(* A configuration is one of Config.                                       *)
LEMMA ConfigType == ConfigInv => config \in Config
<1>1. NoConfig \in Config
  BY DEF NoConfig, Config
<1> QED BY <1>1, LoadedType DEF ConfigInv

(* What nothing given and no call look like.                               *)
LEMMA NotGivenType == NotGiven.args = <<>> /\ DOMAIN NotGiven.env = Keys
  BY DEF NotGiven, Unset

(* No call is a call slot like any other.                                  *)
LEMMA NoCallType ==
    NoCall \in [pc : {"idle", "inflight", "detached"}, client : Callers]
  BY DEF NoCall, Callers

(* The types hold at the start.                                            *)
LEMMA MainInit == Init => MainTypes
  BY NotGivenType, NoCallType DEF Init, MainTypes, Callers

(* Every step keeps the types.                                             *)
LEMMA MainStep ==
    ASSUME MainTypes, ConfigInv, [Next]_vars
    PROVE  MainTypes'
<1> USE DEF MainTypes, Goto
<1>1. CASE ReadConfig
  <2>1. PICK creds \in Secrets :
            LET env == With(creds, given.env) IN
            /\ given' = [given EXCEPT !.env = env]
            /\ IF Accepted(given.args, env)
               THEN /\ config' = Loaded(given.args, env)
                    /\ Goto("configured")
                    /\ UNCHANGED outcome
               ELSE /\ outcome' = "error"
                    /\ Goto("over")
                    /\ UNCHANGED config
    BY <1>1 DEF ReadConfig
  <2>2. given'.args = given.args /\ given'.env = With(creds, given.env)
    BY <2>1 DEF ConfigInv
  <2>3. DOMAIN given'.env = Keys
    BY <2>2 DEF With
  <2>4. pc' \in {"configured", "over"} /\ outcome' \in {outcome, "error"}
    BY <2>1
  <2> QED BY <1>1, <2>2, <2>3, <2>4 DEF ReadConfig
<1>2. CASE StartMain
  <2>1. PICK args \in Launches, env \in Deployments : given' = [args |-> args, env |-> env]
    BY <1>2 DEF StartMain
  <2>2. DOMAIN env = Keys
    BY DEF Deployments, Unset
  <2> QED BY <1>2, <2>1, <2>2 DEF StartMain
<1>3. CASE Kill \/ Restart
  <2>1. cut' \in BOOLEAN
    BY <1>3, Zenon DEF Kill, Restart, SomebodyIn
  <2>2. calls' = [c \in Calls |-> NoCall] /\ opener' \in Callers
    BY <1>3 DEF Kill, Restart, Callers
  <2> QED BY <1>3, <2>1, <2>2, NotGivenType, NoCallType DEF Kill, Restart
<1>4. CASE RunTool \/ Prepare
  <2>1. traced' \in BOOLEAN
    BY <1>4 DEF RunTool, Prepare
  <2>2. outcome' \in {"none", "ok", "error", "killed"}
    BY <1>4 DEF RunTool, Prepare
  <2> QED BY <1>4, <2>1, <2>2, NotGivenType DEF RunTool, Prepare
<1>5. CASE Loads \/ LoadFails \/ Shutdown \/ Drained \/ ServerFails
  BY <1>5 DEF Loads, LoadFails, Shutdown, Drained, ServerFails, main
<1>6. CASE CloseRuntime \/ Exit
  <2>1. cut' \in BOOLEAN
    <3>1. CASE CloseRuntime
      <4>1. cut' = SomebodyIn BY <3>1 DEF CloseRuntime
      <4> QED BY <4>1, Zenon DEF SomebodyIn
    <3> QED BY <1>6, <3>1 DEF Exit
  <2>2. queued' \in BOOLEAN
    <3>1. CASE CloseRuntime
      <4>1. queued' = (queued \/ (traced /\ SomebodyIn)) BY <3>1 DEF CloseRuntime
      <4> QED BY <4>1, Zenon DEF SomebodyIn
    <3> QED BY <1>6, <3>1 DEF Exit, Flush
  <2>3. opener' \in Callers
    BY <1>6 DEF CloseRuntime, Exit, Callers
  <2> QED BY <1>6, <2>1, <2>2, <2>3, NoCallType DEF CloseRuntime, Exit
<1>7. CASE Fetch \/ Unauthenticated \/ SessionEnds \/ Export \/ HttpDies \/ UNCHANGED vars
  BY <1>7 DEF Fetch, Unauthenticated, SpanEnds, SessionEnds, Export, HttpDies,
     Callers, main, vars
<1>8. ASSUME NEW c \in Calls, Accept(c) PROVE MainTypes'
  <2>1. PICK header \in Headers :
            LET client == Authenticate(config, header) IN
            /\ client # NoClient
            /\ calls' = [calls EXCEPT ![c] = [pc |-> "inflight", client |-> client]]
            /\ opener' = IF opener = NoClient THEN client ELSE opener
    BY <1>8 DEF Accept
  <2>2. Authenticate(config, header) \in Callers
    BY CallerType
  <2> QED BY <1>8, <2>1, <2>2 DEF Accept
<1>9. ASSUME NEW c \in Calls, Answer(c) \/ HangUp(c) \/ TaskEnds(c) PROVE MainTypes'
  BY <1>9 DEF Answer, HangUp, TaskEnds, SpanEnds, NoCall, Callers, NoClient
<1>10. CASE OpenStream \/ StreamEnds
  BY <1>10 DEF OpenStream, StreamEnds, SpanEnds, Callers
<1>11. CASE Signal \/ ProbeFails
  BY <1>11 DEF Signal, ProbeFails, Callers
<1> QED
  BY <1>1, <1>2, <1>3, <1>4, <1>5, <1>6, <1>7, <1>8, <1>9, <1>10, <1>11 DEF Next, Steps, Serve

(* The volume, the configuration, the calls and the process always have    *)
(* their types; above all, no caller ever goes by the empty name.          *)
THEOREM TypeCorrect == Spec => []TypeOK
<1>1. FetchedInv /\ ConfigInv /\ MainTypes => TypeOK
  BY ConfigType DEF FetchedInv, VolumeInv, MainTypes, TypeOK
<1>2. Init => FetchedInv
  BY FetchedInit
<1>3. FetchedInv /\ [Next]_vars => FetchedInv'
  BY FetchedStep
<1>4. ConfigInv /\ [Next]_vars => ConfigInv'
  BY ConfigStep
<1>5. MainTypes /\ ConfigInv /\ [Next]_vars => MainTypes'
  BY MainStep
<1> QED BY <1>1, <1>2, <1>3, <1>4, <1>5, MainInit, ConfigInit, PTL DEF Spec

-----------------------------------------------------------------------------
(* Mending everything that a refusal names.                                  *)

(* Which errors a refusal names.                                             *)
LEMMA ErrorsAre ==
    ASSUME NEW args, NEW env, NEW a, NEW b
    PROVE  <<a, b>> \in Errors(args, env) <=>
            \/ a = "not UTF-8" /\ b \in Owned /\ env[b] = "garbled"
            \/ a = "not UTF-8" /\ b = "argument" /\ GarbledRead(args)
            \/ a = "unknown" /\ b = "argument" /\ First(args) \notin DOMAIN ModeOf
            \/ /\ a = "invalid" /\ b \in {"STT_MAX_SESSIONS", "STT_FA_DEVICE"}
               /\ \/ Get(env, b) = "invalid"
                  \/ Get(env, b) = "empty" /\ b = "STT_FA_DEVICE"
            \/ a = "two credentials" /\ b \in Duplicates(env)
            \/ a = "no client name" /\ b = "STT_TOKEN_" /\ "STT_TOKEN_" \in Clients(env)
            \/ a = "no credentials" /\ b = "" /\ Serving(args) /\ Clients(env) = {}
<1>1. <<a, b>> \in EnvErrors(env) <=>
            a = "not UTF-8" /\ b \in Owned /\ env[b] = "garbled"
  BY DEF EnvErrors
<1>2. <<a, b>> \in ArgErrors(args) <=>
            \/ a = "not UTF-8" /\ b = "argument" /\ GarbledRead(args)
            \/ a = "unknown" /\ b = "argument" /\ First(args) \notin DOMAIN ModeOf
  BY DEF ArgErrors
<1>3. <<a, b>> \in SettingErrors(env) <=>
            /\ a = "invalid" /\ b \in {"STT_MAX_SESSIONS", "STT_FA_DEVICE"}
            /\ \/ Get(env, b) = "invalid"
               \/ Get(env, b) = "empty" /\ b = "STT_FA_DEVICE"
  BY DEF SettingErrors
<1>4. <<a, b>> \in ClientErrors(env) <=>
            \/ a = "two credentials" /\ b \in Duplicates(env)
            \/ a = "no client name" /\ b = "STT_TOKEN_" /\ "STT_TOKEN_" \in Clients(env)
  BY DEF ClientErrors
<1>5. <<a, b>> \in Errors(args, env) <=>
            \/ <<a, b>> \in EnvErrors(env) \/ <<a, b>> \in ArgErrors(args)
            \/ <<a, b>> \in SettingErrors(env) \/ <<a, b>> \in ClientErrors(env)
            \/ a = "no credentials" /\ b = "" /\ Serving(args) /\ Clients(env) = {}
  BY DEF Errors
<1> QED BY <1>1, <1>2, <1>3, <1>4, <1>5

(* The keys that an owner unsets, and of those that clash the ones kept.     *)
Wrong(errors) ==
    {k \in Keys : \E what \in {"not UTF-8", "invalid", "no client name"} : <<what, k>> \in errors}
Clash(env, errors) == {k \in Clients(env) : <<"two credentials", ClientOf[k]>> \in errors}
KeptOf(env, errors) ==
    LET clash == Clash(env, errors) IN
    {CHOOSE k \in clash : ClientOf[k] = ClientOf[l] : l \in clash}
Mended1(env, errors) ==
    [k \in Keys |-> IF k \in Wrong(errors) \cup (Clash(env, errors) \ KeptOf(env, errors))
                    THEN "unset" ELSE env[k]]

(* One credential of each client is kept, and no two of one.                 *)
LEMMA KeptOnePer ==
    ASSUME NEW env, NEW errors
    PROVE  /\ KeptOf(env, errors) \subseteq Clash(env, errors)
           /\ \A k, l \in KeptOf(env, errors) : ClientOf[k] = ClientOf[l] => k = l
           /\ Clash(env, errors) # {} => KeptOf(env, errors) # {}
<1> DEFINE clash == Clash(env, errors)
           pick(l) == CHOOSE k \in clash : ClientOf[k] = ClientOf[l]
<1>1. KeptOf(env, errors) = {pick(l) : l \in clash} BY DEF KeptOf
<1> HIDE DEF clash
<1>2. \A l \in clash : pick(l) \in clash /\ ClientOf[pick(l)] = ClientOf[l] OBVIOUS
<1>3. \A l, m \in clash : ClientOf[l] = ClientOf[m] => pick(l) = pick(m) OBVIOUS
<1> HIDE DEF pick
<1>4. \A k, l \in KeptOf(env, errors) : ClientOf[k] = ClientOf[l] => k = l
  BY <1>1, <1>2, <1>3
<1> QED BY <1>1, <1>2, <1>4 DEF clash

(* The mended environment, before a credential is added, has one credential  *)
(* for each client that had any, and the nameless one is gone.               *)
LEMMA MendedClients ==
    ASSUME NEW args, NEW env, IsEnv(env),
           NEW errors, errors = Errors(args, env), NEW m, m = Mended1(env, errors)
    PROVE  /\ \A k \in Clients(m) : /\ k \in Clients(env) /\ k # "STT_TOKEN_"
                                    /\ k \in Clash(env, errors) => k \in KeptOf(env, errors)
           /\ Duplicates(m) = {}
           /\ Clients(m) = {} /\ Clients(env) # {} => "STT_TOKEN_" \in Clients(env)
<1>1. \A k \in CredentialKeys :
        /\ k \in Keys
        /\ k \in Wrong(errors) <=>
                (env[k] = "garbled" \/ (k = "STT_TOKEN_" /\ k \in Clients(env)))
  <2> TAKE k \in CredentialKeys
  <2>1. /\ k \in Keys /\ k \in Owned
        /\ k \notin {"STT_MAX_SESSIONS", "STT_FA_DEVICE"} /\ k # "argument"
    BY DEF CredentialKeys, ClientOf, Keys, Owned
  <2>2. <<"not UTF-8", k>> \in Errors(args, env) <=> env[k] = "garbled"
    <3>1. \A a : a = "not UTF-8" =>
            (<<a, k>> \in Errors(args, env) <=> env[k] = "garbled")
      BY <2>1, ErrorsAre, ZenonT(60)
    <3> QED BY <3>1
  <2>3. <<"invalid", k>> \notin Errors(args, env)
    <3>1. \A a : a = "invalid" => <<a, k>> \notin Errors(args, env)
      BY <2>1, ErrorsAre
    <3> QED BY <3>1
  <2>4. <<"no client name", k>> \in Errors(args, env)
            <=> (k = "STT_TOKEN_" /\ k \in Clients(env))
    <3>1. \A a : a = "no client name" =>
            (<<a, k>> \in Errors(args, env)
                <=> (k = "STT_TOKEN_" /\ "STT_TOKEN_" \in Clients(env)))
      BY ErrorsAre
    <3> QED BY <3>1
  <2>5. k \in Wrong(errors) <=> (\/ <<"not UTF-8", k>> \in errors
                                \/ <<"invalid", k>> \in errors
                                \/ <<"no client name", k>> \in errors)
    BY <2>1 DEF Wrong
  <2> QED BY <2>1, <2>2, <2>3, <2>4, <2>5
<1>2. \A k \in CredentialKeys :
        m[k] = IF k \in Wrong(errors) \cup (Clash(env, errors) \ KeptOf(env, errors))
               THEN "unset" ELSE env[k]
  BY <1>1 DEF Mended1
<1>3. \A k \in CredentialKeys :
        k \in Clients(m) <=> /\ k \in Clients(env) /\ k # "STT_TOKEN_"
                             /\ k \in Clash(env, errors) => k \in KeptOf(env, errors)
  <2> TAKE k \in CredentialKeys
  <2>1. k \in Clients(env) => env[k] # "garbled" BY DEF Clients, Get
  <2>2. k \in Clients(m) <=> Get(m, k) \notin {"unset", "empty"} BY DEF Clients
  <2>3. k \in Clients(env) <=> Get(env, k) \notin {"unset", "empty"} BY DEF Clients
  <2>4. CASE m[k] = "unset"
    <3>1. k \notin Clients(m) BY <2>2, <2>4 DEF Get
    <3>2. k \in Wrong(errors) \/ k \in Clash(env, errors) \ KeptOf(env, errors)
              \/ env[k] = "unset"
      BY <1>2, <2>4
    <3> QED BY <1>1, <2>1, <2>3, <3>1, <3>2 DEF Get
  <2>5. CASE m[k] # "unset"
    <3>1. /\ k \notin Wrong(errors) /\ m[k] = env[k]
          /\ k \in Clash(env, errors) => k \in KeptOf(env, errors)
      BY <1>2, <2>5
    <3>2. Get(m, k) = Get(env, k) BY <3>1 DEF Get
    <3> QED BY <1>1, <2>2, <2>3, <3>1, <3>2
  <2> QED BY <2>4, <2>5
<1>4. Clients(m) \subseteq CredentialKeys /\ Clients(env) \subseteq CredentialKeys
  BY DEF Clients
<1>5. \A k \in Clients(env) : ClientOf[k] \in Duplicates(env) => k \in Clash(env, errors)
  BY ErrorsAre DEF Clash
<1>6. Duplicates(m) = {}
  <2> SUFFICES ASSUME NEW k \in Clients(m), NEW l \in Clients(m) \ {k},
                      ClientOf[k] = ClientOf[l], ClientOf[k] # ""
               PROVE  FALSE
    BY DEF Duplicates
  <2>1. k \in Clients(env) /\ l \in Clients(env) BY <1>3, <1>4
  <2>2. ClientOf[k] \in Duplicates(env) /\ ClientOf[l] \in Duplicates(env)
    BY <2>1 DEF Duplicates
  <2>3. k \in KeptOf(env, errors) /\ l \in KeptOf(env, errors)
    BY <1>3, <1>4, <1>5, <2>1, <2>2
  <2> QED BY <2>3, KeptOnePer
<1>7. ASSUME Clients(m) = {}, Clients(env) # {}, "STT_TOKEN_" \notin Clients(env) PROVE FALSE
  <2>1. PICK k \in Clients(env) : TRUE BY <1>7
  <2>2. k \in Clash(env, errors) BY <1>3, <1>4, <1>7, <2>1
  <2>3. PICK l \in KeptOf(env, errors) : l \in Clash(env, errors) BY <2>2, KeptOnePer
  <2>4. l \in Clients(env) BY <2>3 DEF Clash
  <2> QED BY <1>3, <1>4, <1>7, <2>3, <2>4
<1> QED BY <1>3, <1>4, <1>6, <1>7

(* A start with all of it mended is accepted.                                *)
LEMMA MendingMends ==
    ASSUME NEW args, NEW env, IsEnv(env), NEW a,
           First(a) = First(args), \A j \in DOMAIN a : a[j] # "garbled",
           First(args) \in DOMAIN ModeOf
    PROVE  Accepted(a, Repaired(env, Errors(args, env)))
<1> DEFINE errors == Errors(args, env)
           m == Mended1(env, errors)
           t == CHOOSE t \in Tokens : TRUE
           bare == Clients(m) = {} /\ \E e \in errors : e[1] \in {"no credentials", "no client name"}
           r == Repaired(env, errors)
<1>1. r = IF bare THEN [m EXCEPT !["STT_TOKEN_ann"] = t] ELSE m
  BY DEF Repaired, Mended1, Wrong, Clash, KeptOf
<1>2. t \in Tokens /\ t \notin {"unset", "empty", "garbled"}
  BY TokensAssumption
<1> HIDE DEF r, t
<1>3. \A k \in Keys : \/ r[k] = m[k]
                      \/ k = "STT_TOKEN_ann" /\ r[k] = t
  BY <1>1 DEF Mended1
<1>4. \A k \in Keys : /\ m[k] \in {env[k], "unset"}
                      /\ k \in Wrong(errors) => m[k] = "unset"
  BY DEF Mended1
<1>5. /\ \A k \in Clients(m) : k \in Clients(env) /\ k # "STT_TOKEN_"
      /\ Duplicates(m) = {}
      /\ Clients(m) = {} /\ Clients(env) # {} => "STT_TOKEN_" \in Clients(env)
  BY MendedClients
<1> HIDE DEF m
<1>6. EnvErrors(r) = {}
  <2> SUFFICES ASSUME NEW k \in Owned, r[k] = "garbled" PROVE FALSE BY DEF EnvErrors
  <2>1. k \in Keys /\ r[k] = m[k] BY <1>2, <1>3 DEF Owned
  <2>2. env[k] = "garbled" /\ k \notin Wrong(errors) BY <1>4, <2>1
  <2>3. <<"not UTF-8", k>> \in errors BY <2>2, ErrorsAre
  <2> HIDE DEF errors
  <2> QED BY <2>1, <2>2, <2>3 DEF Wrong
<1>7. SettingErrors(r) = {}
  <2> SUFFICES ASSUME NEW k \in {"STT_MAX_SESSIONS", "STT_FA_DEVICE"},
                      \/ Get(r, k) = "invalid"
                      \/ Get(r, k) = "empty" /\ k = "STT_FA_DEVICE"
               PROVE  FALSE
    BY DEF SettingErrors
  <2>1. k \in Keys /\ k # "STT_TOKEN_ann" BY DEF Keys, Settings
  <2>2. r[k] = m[k] BY <1>3, <2>1
  <2>3. m[k] = env[k] /\ k \notin Wrong(errors) BY <1>4, <2>1, <2>2 DEF Get
  <2>4. Get(env, k) = Get(r, k) BY <2>2, <2>3 DEF Get
  <2>5. <<"invalid", k>> \in errors BY <2>4, ErrorsAre
  <2> HIDE DEF errors
  <2> QED BY <2>1, <2>3, <2>5 DEF Wrong
<1>8. CASE bare
  <2>1. r = [m EXCEPT !["STT_TOKEN_ann"] = t] BY <1>1, <1>8
  <2>2. Clients(r) = {"STT_TOKEN_ann"}
    <3>1. "STT_TOKEN_ann" \in CredentialKeys /\ CredentialKeys \subseteq Keys
      BY DEF CredentialKeys, ClientOf, Keys
    <3>2. \A k \in CredentialKeys : r[k] = IF k = "STT_TOKEN_ann" THEN t ELSE m[k]
      BY <2>1, <3>1 DEF m, Mended1
    <3>3. \A k \in CredentialKeys : Get(m, k) \in {"unset", "empty"}
      BY <1>8 DEF Clients
    <3>4. \A k \in CredentialKeys :
            Get(r, k) = IF k = "STT_TOKEN_ann" THEN t ELSE Get(m, k)
      BY <1>2, <3>2 DEF Get
    <3>5. \A k \in CredentialKeys : k \in Clients(r) <=> k = "STT_TOKEN_ann"
      BY <1>2, <3>3, <3>4 DEF Clients
    <3> QED BY <3>1, <3>5 DEF Clients
  <2>3. Duplicates(r) = {} BY <2>2 DEF Duplicates
  <2>4. ClientErrors(r) = {} BY <2>2, <2>3 DEF ClientErrors
  <2>5. ArgErrors(a) = {} BY DEF ArgErrors, GarbledRead
  <2>6. Errors(a, r) = {} BY <1>6, <1>7, <2>2, <2>4, <2>5 DEF Errors
  <2> QED BY <2>6 DEF Accepted, r
<1>9. CASE ~bare
  <2>1. r = m BY <1>1, <1>9
  <2>2. ClientErrors(r) = {} BY <1>5, <2>1 DEF ClientErrors
  <2>3. ArgErrors(a) = {} BY DEF ArgErrors, GarbledRead
  <2>4. Serving(a) => Clients(r) # {}
    <3> SUFFICES ASSUME Serving(a), Clients(m) = {} PROVE FALSE BY <2>1
    <3>1. Serving(args) BY DEF Serving
    <3>2. CASE Clients(env) = {}
      <4>1. <<"no credentials", "">> \in errors BY <3>1, <3>2, ErrorsAre
      <4>2. <<"no credentials", "">>[1] = "no credentials" OBVIOUS
      <4> HIDE DEF errors
      <4> QED BY <1>9, <4>1, <4>2
    <3>3. CASE Clients(env) # {}
      <4>1. <<"no client name", "STT_TOKEN_">> \in errors BY <1>5, <3>3, ErrorsAre
      <4>2. <<"no client name", "STT_TOKEN_">>[1] = "no client name" OBVIOUS
      <4> HIDE DEF errors
      <4> QED BY <1>9, <4>1, <4>2
    <3> QED BY <3>2, <3>3
  <2>5. Errors(a, r) = {}
    <3> HIDE DEF errors, bare
    <3> QED BY <1>6, <1>7, <2>2, <2>3, <2>4 DEF Errors
  <2> QED BY <2>5 DEF Accepted, r
<1> QED BY <1>8, <1>9

(* What the process was given is always an environment.                    *)
GivenInv == ConfigInv /\ IsEnv(given.env)

(* Nothing set is an environment, and so is what the deployment sets.      *)
LEMMA EnvironmentsAre == IsEnv(NotGiven.env) /\ \A env \in Deployments : IsEnv(env)
<1>1. CredentialKeys \subseteq Keys /\ \A k \in CredentialKeys : k \notin Settings
  BY DEF Keys, CredentialKeys, ClientOf, Settings
<1>2. "unset" \in ValuesOf("STT_AUTH_TOKEN")
  BY DEF ValuesOf
<1>3. Unset = [k \in Keys |-> "unset"]
  BY DEF Unset
<1>4. IsEnv(Unset)
  BY <1>1, <1>2, <1>3 DEF IsEnv
<1>5. ASSUME NEW env \in Deployments PROVE IsEnv(env)
  <2>1. PICK k \in Settings, v \in ValuesOf("RUST_LOG") : env = [Unset EXCEPT ![k] = v]
    BY DEF Deployments
  <2>2. env = [j \in Keys |-> IF j = k THEN v ELSE "unset"]
    BY <1>3, <2>1
  <2> QED BY <1>1, <1>2, <2>2 DEF IsEnv
<1> QED BY <1>4, <1>5 DEF NotGiven

(* An environment it stays, with the secret that is read.                  *)
LEMMA GivenStep ==
    ASSUME GivenInv, [Next]_vars
    PROVE  GivenInv'
<1>1. ConfigInv'
  BY ConfigStep DEF GivenInv
<1>2. CASE ReadConfig
  <2>1. PICK creds \in Secrets : given' = [given EXCEPT !.env = With(creds, given.env)]
    BY <1>2 DEF ReadConfig
  <2>2. IsEnv(With(creds, given.env))
    BY DEF IsEnv, With, Keys, Secrets
  <2>3. given = [args |-> given.args, env |-> given.env]
    BY DEF GivenInv, ConfigInv
  <2>4. given'.env = With(creds, given.env)
    BY <2>1, <2>3
  <2> QED BY <1>1, <2>2, <2>4 DEF GivenInv
<1>3. CASE StartMain
  <2>1. PICK args \in Launches, env \in Deployments : given' = [args |-> args, env |-> env]
    BY <1>3 DEF StartMain
  <2> QED BY <1>1, <2>1, EnvironmentsAre DEF GivenInv
<1>4. CASE Kill \/ Restart \/ RunTool \/ Prepare
  <2>1. given' = NotGiven
    BY <1>4 DEF Kill, Restart, RunTool, Prepare
  <2> QED BY <1>1, <2>1, EnvironmentsAre DEF GivenInv
<1>5. CASE Loads \/ LoadFails \/ Shutdown \/ Drained \/ CloseRuntime \/ Exit \/ ServerFails
  <2>1. given' = given
    BY <1>5 DEF Loads, LoadFails, Shutdown, Drained, CloseRuntime, Exit, ServerFails, main
  <2> QED BY <1>1, <2>1 DEF GivenInv
<1>6. CASE Fetch \/ Unauthenticated \/ OpenStream \/ StreamEnds \/ SessionEnds \/ Export
           \/ HttpDies \/ Signal \/ ProbeFails \/ UNCHANGED vars
  <2>1. given' = given
    BY <1>6 DEF Fetch, Unauthenticated, OpenStream, StreamEnds, SessionEnds, Export, HttpDies,
       Signal, ProbeFails,
       main, vars
  <2> QED BY <1>1, <2>1 DEF GivenInv
<1>7. ASSUME NEW c \in Calls, Serve(c) PROVE GivenInv'
  <2>1. given' = given
    BY <1>7 DEF Serve, Accept, Answer, HangUp, TaskEnds
  <2> QED BY <1>1, <2>1 DEF GivenInv
<1> QED
  BY <1>2, <1>3, <1>4, <1>5, <1>6, <1>7 DEF Next, Steps

(* Whatever is wrong with the arguments and the environment, a refusal     *)
(* names all of it: the start after it was mended is accepted.             *)
THEOREM RepairedAtOnceHolds == Spec => []RepairedAtOnce
<1>1. Init => GivenInv
  BY ConfigInit, EnvironmentsAre DEF GivenInv, Init
<1>2. GivenInv /\ [Next]_vars => GivenInv'
  BY GivenStep
<1>3. GivenInv => RepairedAtOnce
  <2> DEFINE errors == Errors(given.args, given.env)
  <2> SUFFICES ASSUME GivenInv, <<"unknown", "argument">> \notin errors,
                      NEW a \in Mended(given.args)
               PROVE  Accepted(a, Repaired(given.env, errors))
    BY DEF RepairedAtOnce
  <2>1. First(given.args) \in DOMAIN ModeOf
    BY ErrorsAre
  <2>2. First(a) = First(given.args) /\ \A j \in DOMAIN a : a[j] # "garbled"
    BY DEF Mended
  <2> QED BY <2>1, <2>2, MendingMends DEF GivenInv
<1> QED BY <1>1, <1>2, <1>3, PTL DEF Spec
=============================================================================
