------------------------------ MODULE StartUp -------------------------------
(***************************************************************************)
(* One process from its arguments to its exit: main.go for the Job of the  *)
(* cluster and cmd/run-task/main.go for a run by hand, the credential      *)
(* (pkg/githubauth), the two Kafka producers (pkg/factory), the task-type  *)
(* dispatch and the deferred calls.  What the agent does in between is one *)
(* step, an answer or an error, as the other modules have it.              *)
(***************************************************************************)
EXTENDS Naturals, Sequences

CONSTANTS MayStop  \* the process may be told to stop while it runs

Statuses == {"done", "failed", "needs_input"}

ASSUME StartUpAssumption == MayStop \in BOOLEAN

VARIABLES
    env,        \* what the process was given
    pc,
    stopped,    \* the context is cancelled: SIGTERM
    token,      \* "none", "app" or "raw"
    ghToken,    \* GH_TOKEN as the gate targets inherit it
    helper,     \* git's credential helper is installed
    producers,  \* Kafka producers that are open: "result", "chain"
    delivered,  \* statuses the controller, or the task file, got
    recorded,   \* statuses jobMetrics was given
    pushed,     \* the metrics reached the gateway
    exit        \* "none", "ok" or "error"

authVars == <<token, ghToken, helper>>
endVars == <<recorded, pushed, exit>>
startUpVars == <<env, pc, stopped, authVars, producers, delivered, endVars>>

(* pem: a key for the App is there; brokers, task: KAFKA_BROKERS, TASK_ID. *)
EnvType == [mode : {"pod", "local"}, flagsOK : BOOLEAN,
            app : BOOLEAN, pem : BOOLEAN, raw : BOOLEAN,
            brokers : BOOLEAN, task : BOOLEAN, knownType : BOOLEAN]

(* GH_TOKEN is required of a run by hand, which has no other setting here. *)
Environments ==
    {e \in EnvType : e.mode = "local" =>
        e.raw /\ ~e.app /\ ~e.pem /\ ~e.brokers /\ ~e.task}

StartUpInit(environments) ==
    /\ env \in environments
    /\ pc = "flags" /\ stopped = FALSE
    /\ token = "none" /\ ghToken = "none" /\ helper = FALSE
    /\ producers = {} /\ delivered = <<>>
    /\ recorded = <<>> /\ pushed = FALSE /\ exit = "none"

Local == env.mode = "local"

(* A return with an error, past the point where the metrics exist.         *)
Abort == /\ pc' = "push"
         /\ recorded' = IF Local THEN recorded ELSE Append(recorded, "failed")
         /\ exit' = "error"
         /\ UNCHANGED pushed

-----------------------------------------------------------------------------
(* ParsePRTarget, ParseUpdateScope; by hand also the task file's reading.  *)
ParseFlags ==
    /\ pc = "flags"
    /\ \/ /\ env.flagsOK
          /\ pc' = IF Local THEN "select" ELSE "auth"
          /\ token' = IF Local THEN "raw" ELSE token
          /\ ghToken' = IF Local THEN "raw" ELSE ghToken
          /\ helper' = Local
          /\ UNCHANGED exit
       \/ /\ ~env.flagsOK \/ Local
          /\ pc' = "exited" /\ exit' = "error"
          /\ UNCHANGED authVars
    /\ UNCHANGED <<env, stopped, producers, delivered, recorded, pushed>>

(* Mutant: a token that cannot be minted is replaced by the raw one.       *)
ResolveWithFallback ==
    /\ pc = "auth"
    /\ \/ /\ env.app /\ env.pem
          /\ token' = "app"
          /\ pc' = "setup" /\ UNCHANGED endVars
       \/ /\ env.raw
          /\ token' = "raw"
          /\ pc' = "setup" /\ UNCHANGED endVars
       \/ Abort /\ UNCHANGED token
    /\ UNCHANGED <<env, stopped, ghToken, helper, producers, delivered>>

(* resolveAuth: the App when it is configured, on a context a stop does    *)
(* not reach; the raw token otherwise.                                     *)
ResolveAuth ==
    /\ pc = "auth"
    /\ \/ /\ env.app /\ env.pem
          /\ token' = "app"
          /\ pc' = "setup" /\ UNCHANGED endVars
       \/ /\ ~(env.app /\ env.pem) /\ env.raw
          /\ token' = "raw"
          /\ pc' = "setup" /\ UNCHANGED endVars
       \/ /\ (env.app /\ env.pem) \/ ~env.raw
          /\ Abort /\ UNCHANGED token
    /\ UNCHANGED <<env, stopped, ghToken, helper, producers, delivered>>

(* prepareAuth: GH_TOKEN, then gh auth setup-git, which a stop kills.      *)
SetupGit ==
    /\ pc = "setup"
    /\ ghToken' = token
    /\ \/ /\ ~stopped
          /\ helper' = TRUE /\ pc' = "deliverer" /\ UNCHANGED endVars
       \/ Abort /\ UNCHANGED helper
    /\ UNCHANGED <<env, stopped, token, producers, delivered>>

(* createResultDeliverer: none without a task; brokers are needed with one.*)
CreateResultDeliverer ==
    /\ pc = "deliverer"
    /\ \/ /\ ~env.task
          /\ pc' = "chain" /\ UNCHANGED <<producers, endVars>>
       \/ /\ env.task /\ env.brokers
          /\ producers' = producers \cup {"result"}
          /\ pc' = "chain" /\ UNCHANGED endVars
       \/ /\ env.task
          /\ Abort /\ UNCHANGED producers
    /\ UNCHANGED <<env, stopped, authVars, delivered>>

(* buildChainEmitter: none without brokers.                                *)
BuildChainEmitter ==
    /\ pc = "chain"
    /\ \/ /\ ~env.brokers
          /\ pc' = "select" /\ UNCHANGED <<producers, endVars>>
       \/ /\ env.brokers
          /\ producers' = producers \cup {"chain"}
          /\ pc' = "select" /\ UNCHANGED endVars
       \/ /\ env.brokers
          /\ Abort /\ UNCHANGED producers
    /\ UNCHANGED <<env, stopped, authVars, delivered>>

(* From here on cleanup is deferred.                                       *)
AbortRunning == /\ pc' = "cleanup"
                /\ recorded' = IF Local THEN recorded ELSE Append(recorded, "failed")
                /\ exit' = "error"
                /\ UNCHANGED pushed

SelectAgent ==
    /\ pc = "select"
    /\ IF env.knownType
       THEN pc' = "run" /\ UNCHANGED endVars
       ELSE AbortRunning
    /\ UNCHANGED <<env, stopped, authVars, producers, delivered>>

(* Agent.Run: a status that was delivered; or an error, after which the    *)
(* controller may have the status all the same.  Printing it may fail.     *)
RunAgent ==
    /\ pc = "run"
    /\ \/ \E s \in Statuses :
            /\ delivered' = Append(delivered, s)
            /\ recorded' = IF Local THEN recorded ELSE Append(recorded, s)
            /\ exit' \in {"ok", "error"}
            /\ pc' = "cleanup"
            /\ UNCHANGED pushed
       \/ /\ AbortRunning
          /\ delivered' \in {delivered} \cup {Append(delivered, s) : s \in Statuses}
    /\ UNCHANGED <<env, stopped, authVars, producers>>

(* The deferred calls, last one first.                                     *)
Cleanup == /\ pc = "cleanup"
           /\ producers' = {}
           /\ pc' = "push"
           /\ UNCHANGED <<env, stopped, authVars, delivered, endVars>>

PushMetrics == /\ pc = "push"
               /\ pushed' \in (IF Local \/ stopped THEN {FALSE} ELSE BOOLEAN)
               /\ pc' = "exited"
               /\ UNCHANGED <<env, stopped, authVars, producers, delivered, recorded, exit>>

Stop == /\ MayStop
        /\ pc # "exited" /\ ~stopped
        /\ stopped' = TRUE
        /\ UNCHANGED <<env, pc, authVars, producers, delivered, endVars>>

StartUpOver == pc = "exited" /\ UNCHANGED startUpVars

StartUpNext == \/ ParseFlags \/ ResolveAuth \/ SetupGit \/ CreateResultDeliverer
               \/ BuildChainEmitter \/ SelectAgent \/ RunAgent
               \/ Cleanup \/ PushMetrics \/ Stop \/ StartUpOver

-----------------------------------------------------------------------------
(* The type of every variable.                                             *)
StartUpTypeOK == /\ env \in EnvType
                 /\ pc \in {"flags", "auth", "setup", "deliverer", "chain", "select", "run",
                            "cleanup", "push", "exited"}
                 /\ stopped \in BOOLEAN
                 /\ token \in {"none", "app", "raw"} /\ ghToken \in {"none", token}
                 /\ helper \in BOOLEAN
                 /\ producers \subseteq {"result", "chain"}
                 /\ delivered \in Seq(Statuses) /\ recorded \in Seq(Statuses)
                 /\ pushed \in BOOLEAN
                 /\ exit \in {"none", "ok", "error"}

(* Every exit of a Job that got past its arguments is counted exactly      *)
(* once, whatever failed and whenever it was stopped, and one counted as   *)
(* good was delivered as that.                                             *)
RunIsCountedOnce ==
    pc = "exited" /\ ~Local /\ env.flagsOK =>
        /\ Len(recorded) = 1
        /\ recorded # <<"failed">> => delivered = recorded

(* The agent runs with one credential everywhere, in the environment of    *)
(* the gates and in git's helper, and it is the App's where one is set up: *)
(* a token that could not be minted is never replaced by another one.      *)
CredentialIsOne ==
    pc = "run" => /\ token # "none" /\ ghToken = token /\ helper
                  /\ ~Local /\ env.app /\ env.pem => token = "app"

(* What the agent needs to answer and to chain is open while it runs, and  *)
(* closed once it has answered.                                            *)
ProducersOutliveTheAgent ==
    /\ pc = "run" => producers = {p \in {"result", "chain"} :
                                    env.brokers /\ (p = "result" => env.task)}
    /\ delivered # <<>> /\ pc \in {"push", "exited"} => producers = {}

(* From its arguments to its exit a Job is counted once, has one           *)
(* credential and keeps open what the agent needs.                         *)
LifeCycleIsSound == /\ StartUpTypeOK
                    /\ RunIsCountedOnce
                    /\ CredentialIsOne
                    /\ ProducersOutliveTheAgent

-----------------------------------------------------------------------------
(* Statements of comments and docs the code does not keep.                 *)

(* buildRun: it returns "a single cleanup func (closes the deliverer's +   *)
(* chain producer's resources)" and "owns all boot-time errors".           *)
NothingStaysOpen == pc = "exited" => producers = {}

(* docs/design.md: "Raw `GH_TOKEN` accepted only for local                 *)
(* `cmd/run-task`".                                                        *)
RawTokenIsLocal == pc = "run" /\ token = "raw" => Local
=============================================================================
