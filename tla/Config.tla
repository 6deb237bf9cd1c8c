------------------------------- MODULE Config -------------------------------
(***************************************************************************)
(* What Config::load makes of the arguments and the environment, and what  *)
(* BearerAuth makes of the credentials it collects.                        *)
(*                                                                         *)
(* A value is what the loader can tell of it: nothing there, nothing in it *)
(* ("empty"), not UTF-8 ("garbled"), or else a value that its parser takes *)
(* ("valid") or does not ("invalid"); a credential is one of Tokens.  Two  *)
(* spellings of one client name stand for all that lower-casing makes one. *)
(***************************************************************************)
EXTENDS Naturals, Sequences, FiniteSets

CONSTANT Tokens         \* the secrets that callers hold

ASSUME TokensAssumption ==
    /\ Tokens # {}
    /\ Tokens \cap {"unset", "empty", "garbled", "absent", "malformed"} = {}

-----------------------------------------------------------------------------
(* The environment                                                         *)

(* The variables that hold a credential, and the client each one names.    *)
ClientOf == [STT_AUTH_TOKEN    |-> "default",
             STT_TOKEN_DEFAULT |-> "default",
             STT_TOKEN_ANN     |-> "ann",
             STT_TOKEN_ann     |-> "ann",
             STT_TOKEN_        |-> ""]

CredentialKeys == DOMAIN ClientOf

Settings == {"STT_MODEL_DIR", "STT_MAX_SESSIONS", "STT_FA_DEVICE", "RUST_LOG",
             "TRACES_ENDPOINT"}

Keys == CredentialKeys \cup Settings

ValuesOf(k) == {"unset", "empty", "garbled"}
               \cup IF k \in CredentialKeys THEN Tokens ELSE {"valid", "invalid"}

Unset == [k \in Keys |-> "unset"]

(* What get and with_prefix see: a garbled value was left out.             *)
Get(env, k) == IF env[k] = "garbled" THEN "unset" ELSE env[k]

(* A garbled value is refused under every key but the optional endpoint.   *)
Owned == Keys \ {"TRACES_ENDPOINT"}

EnvErrors(env) == {<<"not UTF-8", k>> : k \in {k \in Owned : env[k] = "garbled"}}

(* parse_max_sessions takes an empty value for the default, the device's   *)
(* match does not.                                                         *)
SettingErrors(env) ==
    {<<"invalid", k>> : k \in {k \in {"STT_MAX_SESSIONS", "STT_FA_DEVICE"} :
        \/ Get(env, k) = "invalid"
        \/ Get(env, k) = "empty" /\ k = "STT_FA_DEVICE"}}

(* Traces are exported only to an endpoint that traces_endpoint accepts;   *)
(* anything else is a warning and no traces.                               *)
TracesWanted(env) == Get(env, "TRACES_ENDPOINT") = "valid"

-----------------------------------------------------------------------------
(* The credentials                                                         *)

(* Empty values are not credentials.                                       *)
EmptyCounts(env) == {k \in CredentialKeys : Get(env, k) # "unset"}
DefaultIfAlone(env) ==
    LET own == {k \in CredentialKeys \ {"STT_AUTH_TOKEN"} : Get(env, k) \in Tokens}
    IN  IF own # {} THEN own
        ELSE {k \in {"STT_AUTH_TOKEN"} : Get(env, k) \in Tokens}
Clients(env) == {k \in CredentialKeys : Get(env, k) \notin {"unset", "empty"}}

NoDuplicates(env) == {}
Duplicates(env) ==
    LET clients == Clients(env) IN
    {ClientOf[k] : k \in {k \in clients :
        \E l \in clients \ {k} : ClientOf[l] = ClientOf[k]}} \ {""}

ClientErrors(env) ==
    {<<"two credentials", n>> : n \in Duplicates(env)}
    \cup IF "STT_TOKEN_" \in Clients(env) THEN {<<"no client name", "STT_TOKEN_">>}
                                          ELSE {}

-----------------------------------------------------------------------------
(* The arguments                                                           *)

Readable(args) == SelectSeq(args, LAMBDA a : a # "garbled")

First(args) == IF Readable(args) = <<>> THEN "none" ELSE Head(Readable(args))

ModeOf == [none              |-> "serve",
           selftest          |-> "selftest",
           selftest_stream   |-> "selftest",
           selftest_fa       |-> "selftest",
           version           |-> "version"]

(* Arguments are read only as far as the mode needs them: the flag, a wav  *)
(* file for selftest, a wav file and a text for selftest_fa.               *)
Taken(args) == CASE First(args) = "selftest"    -> 2
                 [] First(args) = "selftest_fa" -> 3
                 [] OTHER                       -> 1

GarbledRead(args) ==
    \E j \in DOMAIN args :
        /\ args[j] = "garbled"
        /\ Len(Readable(SubSeq(args, 1, j))) < Taken(args)

ArgErrors(args) ==
    (IF GarbledRead(args) THEN {<<"not UTF-8", "argument">>} ELSE {})
    \cup IF First(args) \in DOMAIN ModeOf THEN {}
                                          ELSE {<<"unknown", "argument">>}

-----------------------------------------------------------------------------
(* The whole of load_recorded: one refusal with everything that is wrong,  *)
(* or a configuration.  Only a mode that serves needs a credential.        *)

Serving(args) == First(args) = "none"

StopsEarly(args, env) ==
    IF ArgErrors(args) # {} THEN ArgErrors(args)
    ELSE IF EnvErrors(env) # {} THEN EnvErrors(env)
    ELSE SettingErrors(env) \cup ClientErrors(env)

Errors(args, env) ==
    EnvErrors(env) \cup ArgErrors(args) \cup SettingErrors(env) \cup ClientErrors(env)
    \cup IF Serving(args) /\ Clients(env) = {} THEN {<<"no credentials", "">>} ELSE {}

Accepted(args, env) == Errors(args, env) = {}

Config == [mode : {"serve", "selftest", "version"}, traces : BOOLEAN,
           emptyDir : BOOLEAN, clients : SUBSET (CredentialKeys \X Tokens)]

NoConfig == [mode |-> "version", traces |-> FALSE, emptyDir |-> FALSE, clients |-> {}]

(* An empty directory is kept as an empty path.                            *)
Loaded(args, env) ==
    [mode |-> ModeOf[First(args)], traces |-> TracesWanted(env),
     emptyDir |-> Get(env, "STT_MODEL_DIR") = "empty",
     clients |-> {<<k, env[k]>> : k \in Clients(env)}]

-----------------------------------------------------------------------------
(* The bearer check, on a header that may be missing or malformed, or      *)
(* carries what may be nothing after "Bearer ".  Every credential is       *)
(* compared, in the order of the client names, and the last match wins.    *)

Headers == {"absent", "malformed", "empty"} \cup Tokens

NoClient == "nobody"

Matches(config, header) ==
    {ClientOf[c[1]] : c \in {c \in config.clients : c[2] = header}}

Authenticate(config, header) ==
    CASE Matches(config, header) = {} -> NoClient
      [] "default" \in Matches(config, header) -> "default"
      [] OTHER -> CHOOSE n \in Matches(config, header) : TRUE
=============================================================================
