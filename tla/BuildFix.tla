------------------------------ MODULE BuildFix ------------------------------
(***************************************************************************)
(* The build-fix lane: the three phases of a build-fix task, which         *)
(* diagnoses a red build and hands it off, to the updater as a new task    *)
(* on the command bus or to dark-factory as a spec on a branch             *)
(* (pkg/steps_fix_planning.go, steps_fix_execution.go, steps_fix_review.go,*)
(* fix_helpers.go and buildFixPhases of pkg/factory/factory.go), the last  *)
(* of them inside the wrapper of pkg/steps_human_review_owner.go.          *)
(*                                                                         *)
(* The branch and the identifier of the chained task are derived from the  *)
(* episode SHA that the model echoes back in its ## Fix Plan, not from the *)
(* one in the frontmatter, so a plan names an episode of Echoes: the right *)
(* one, another one, or none at all.                                       *)
(***************************************************************************)
EXTENDS Naturals

CONSTANTS Complete,      \* values of: the required frontmatter is there
          Echoes,        \* episodes a ## Fix Plan may name
          Brokers,       \* values of: Kafka brokers are configured
          HasOwner,      \* TRUE iff HUMAN_REVIEW_OWNER is set
          TriggerCap,    \* Jobs the controller starts per phase
          MaxFaults,     \* bound: crashes and failed or unanswered calls
          MaxHuman       \* bound: acts of people

ASSUME BuildFixAssumption ==
    /\ Complete \subseteq BOOLEAN
    /\ Echoes \subseteq {"episode", "other", "none"}
    /\ Brokers \subseteq BOOLEAN
    /\ HasOwner \in BOOLEAN
    /\ TriggerCap \in Nat \ {0}
    /\ MaxFaults \in Nat
    /\ MaxHuman \in Nat

VARIABLES
    \* the task file
    complete,   \* repo and episode_sha are there; never changes
    brokers,    \* the deployment can emit tasks; never changes
    phase,
    assignee,   \* "agent", "owner" or "none"
    plan,       \* the ## Fix Plan section
    result,     \* the ## Fix Result section
    review,     \* the ## Review section: the ## Fix Result it accepted
    triggers,
    \* the running Job
    pc,
    fixPlan,    \* the sections of the Job's own copy of the task file
    fixResult,
    fixReview,
    status,     \* what Run returns: "done", "failed" or "needs_input"
    next,       \* and its NextPhase, "none" without one
    stamped,    \* assignee and assignee_reassigned_by are set in the copy
    workdir,    \* "absent", "partial" (cloned, checkout refused), "clone", or
                \* "atop": a clone that has all of the spec's branch below it
    \* the outside
    fetchable,  \* the episode SHA can still be checked out
    branches,   \* build-fixer/<episode> branches on origin
    landed,     \* of them, those master contains
    merged,     \* episodes whose spec is on master
    filed,      \* episodes a spec was ever pushed for
    filings,    \* specs pushed; only counted
    commands,   \* updater tasks emitted for each episode
    faults,
    human

taskVars == <<complete, brokers, phase, assignee, plan, result, review, triggers>>
copyVars == <<fixPlan, fixResult, fixReview>>
returnVars == <<status, next, stamped>>
outsideVars == <<fetchable, branches, landed, merged, filed, filings, commands>>
boundVars == <<faults, human>>
vars == <<taskVars, pc, copyVars, returnVars, workdir, outsideVars, boundVars>>

Phases == {"planning", "execution", "ai_review", "human_review", "done"}
FixVerdicts == {"no_fix_needed", "chain_update", "file_spec", "needs_input"}
Outcomes == {"chained", "chain_noop", "chain_failed", "filed", "already_filed", "failed"}

NoPlan == [verdict |-> "none", episode |-> "none"]
NoResult == [outcome |-> "none", episode |-> "none"]

PlanType == [verdict : {"none"} \cup FixVerdicts, episode : Echoes \cup {"none"}]
ResultType == [outcome : {"none"} \cup Outcomes, episode : Echoes \cup {"none"}]

Pcs == {"idle", "claudeauth", "required", "clone", "fallback", "diagnose", "replay",
        "chain", "dedup", "spec", "push", "verify", "deliver"}

-----------------------------------------------------------------------------
Fault == /\ faults < MaxFaults
         /\ faults' = faults + 1
         /\ UNCHANGED human

(* The wrapper around ai_review stamps what it routes to a person.         *)
Return(s, n) == /\ status' = s
                /\ next' = n
                /\ stamped' = (HasOwner /\ phase = "ai_review" /\ n = "human_review")
                /\ pc' = "deliver"

Failed == Return("failed", "none")

Goto(label) == /\ pc' = label
               /\ UNCHANGED returnVars

(* Mutant: an emission error is dropped.                                   *)
HandOffUnchecked(outcome) ==
    /\ fixResult' = [outcome |-> IF outcome = "chain_failed" THEN "chained" ELSE outcome,
                     episode |-> fixPlan.episode]
    /\ UNCHANGED fixReview
    /\ Return("done", "ai_review")

(* execution always hands on to ai_review, whatever the outcome.           *)
HandOff(outcome) ==
    /\ fixResult' = [outcome |-> outcome, episode |-> fixPlan.episode]
    /\ UNCHANGED fixReview
    /\ Return("done", "ai_review")

CanStart == /\ pc = "idle"
            /\ phase \in {"planning", "execution", "ai_review"}
            /\ assignee = "agent"
            /\ triggers < TriggerCap

-----------------------------------------------------------------------------
Init == /\ complete \in Complete
        /\ brokers \in Brokers
        /\ phase = "planning" /\ assignee = "agent"
        /\ plan = NoPlan /\ result = NoResult /\ review = NoResult /\ triggers = 0
        /\ pc = "idle" /\ fixPlan = NoPlan /\ fixResult = NoResult /\ fixReview = NoResult
        /\ status = "failed" /\ next = "none" /\ stamped = FALSE /\ workdir = "absent"
        /\ fetchable \in BOOLEAN
        /\ branches = {} /\ landed = {} /\ merged = {} /\ filed = {} /\ filings = 0
        /\ commands = [e \in Echoes |-> 0]
        /\ faults = 0 /\ human = 0

JobOver == /\ pc' = "idle"
           /\ fixPlan' = NoPlan /\ fixResult' = NoResult /\ fixReview' = NoResult
           /\ status' = "failed" /\ next' = "none" /\ stamped' = FALSE
           /\ workdir' = "absent"

(* Each phase is one Job; buildFixPhases lists its steps.                   *)
StartJob == /\ CanStart
            /\ triggers' = triggers + 1
            /\ pc' = CASE phase = "planning"  -> "claudeauth"
                       [] phase = "execution" -> "replay"
                       [] phase = "ai_review" -> "verify"
            /\ fixPlan' = plan
            /\ fixResult' = result
            /\ fixReview' = review
            /\ UNCHANGED <<complete, brokers, phase, assignee, plan, result, review>>
            /\ UNCHANGED <<returnVars, workdir, outsideVars, boundVars>>

-----------------------------------------------------------------------------
(* planning                                                                *)

(* claudeAuthStep, the first step of the phase.                            *)
VerifyClaudeAuth ==
    /\ pc = "claudeauth"
    /\ \/ /\ Goto("required")
          /\ UNCHANGED boundVars
       \/ /\ Fault
          /\ Failed
    /\ UNCHANGED <<taskVars, copyVars, workdir, outsideVars>>

(* readFixRequired and setupFixWorkdir.  The method of that name removes   *)
(* the directory it has just made when it returns.                         *)
ReadFixRequired ==
    /\ pc = "required"
    /\ IF complete THEN Goto("clone") ELSE Return("needs_input", "none")
    /\ UNCHANGED <<taskVars, copyVars, workdir, outsideVars, boundVars>>

(* CloneAtRef at the episode: a full clone, then a checkout.  A clone that *)
(* fails leaves nothing behind, a checkout that fails leaves the clone.    *)
CloneEpisode ==
    /\ pc = "clone"
    /\ \/ /\ fetchable
          /\ workdir' = "clone"
          /\ Goto("diagnose")
          /\ UNCHANGED boundVars
       \/ /\ ~fetchable
          /\ workdir' = "partial"
          /\ Goto("fallback")
          /\ UNCHANGED boundVars
       \/ /\ Fault
          /\ workdir' \in {"absent", "partial"}
          /\ Goto("fallback")
    /\ UNCHANGED <<taskVars, copyVars, outsideVars>>

(* The retry at the default branch, into the same directory: git clone     *)
(* refuses one that is not empty.                                          *)
CloneFallback ==
    /\ pc = "fallback"
    /\ \/ /\ workdir = "absent"
          /\ workdir' = "clone"
          /\ Goto("diagnose")
          /\ UNCHANGED boundVars
       \/ /\ workdir # "absent"
          /\ Failed
          /\ UNCHANGED <<workdir, boundVars>>
       \/ /\ Fault
          /\ Failed
          /\ UNCHANGED workdir
    /\ UNCHANGED <<taskVars, copyVars, outsideVars>>

(* runDiagnosis and the routing of its verdict.  Without log evidence the  *)
(* plan says needs_input; unusable output asks for input without a plan;   *)
(* a call that fails is a failure.                                         *)
RunDiagnosis ==
    /\ pc = "diagnose"
    /\ \/ /\ \E verdict \in FixVerdicts, episode \in Echoes :
               /\ fixPlan' = [verdict |-> verdict, episode |-> episode]
               /\ CASE verdict = "no_fix_needed" -> Return("done", "done")
                    [] verdict = "needs_input"   -> Return("needs_input", "none")
                    [] OTHER                     -> Return("done", "execution")
          /\ UNCHANGED boundVars
       \/ /\ Return("needs_input", "none")
          /\ UNCHANGED <<fixPlan, boundVars>>
       \/ /\ Fault
          /\ Failed
          /\ UNCHANGED fixPlan
    /\ UNCHANGED <<taskVars, fixResult, fixReview, workdir, outsideVars>>

-----------------------------------------------------------------------------
(* execution                                                               *)

(* Mutants: no replay guard; one that knows successes only.                *)
ExecuteAgain ==
    /\ pc = "replay"
    /\ CASE fixPlan.verdict = "chain_update" -> Goto("chain")
         [] fixPlan.verdict = "file_spec"    -> Goto("dedup")
         [] OTHER                            -> Failed
    /\ UNCHANGED <<taskVars, copyVars, workdir, outsideVars, boundVars>>

ReplaySuccess ==
    /\ pc = "replay"
    /\ IF fixResult.outcome \in {"chained", "filed", "already_filed"}
       THEN Return("done", "ai_review")
       ELSE CASE fixPlan.verdict = "chain_update" -> Goto("chain")
              [] fixPlan.verdict = "file_spec"    -> Goto("dedup")
              [] OTHER                            -> Failed
    /\ UNCHANGED <<taskVars, copyVars, workdir, outsideVars, boundVars>>

(* The replay guard goes by the presence of ## Fix Result; otherwise the   *)
(* verdict decides.                                                        *)
ReplayGuard ==
    /\ pc = "replay"
    /\ IF fixResult # NoResult THEN Return("done", "ai_review")
       ELSE CASE fixPlan.verdict = "chain_update" -> Goto("chain")
              [] fixPlan.verdict = "file_spec"    -> Goto("dedup")
              [] OTHER                            -> Failed
    /\ UNCHANGED <<taskVars, copyVars, workdir, outsideVars, boundVars>>

(* chainToUpdater.                                                         *)
Emit == commands' = [commands EXCEPT ![fixPlan.episode] = @ + 1]

ChainToUpdater ==
    /\ pc = "chain"
    /\ \/ /\ ~brokers
          /\ HandOff("chain_noop")
          /\ UNCHANGED <<commands, boundVars>>
       \/ /\ brokers
          /\ Emit
          /\ \/ HandOff("chained") /\ UNCHANGED boundVars
             \/ Fault /\ HandOff("chain_failed")      \* sent, not acknowledged
       \/ /\ brokers
          /\ Fault
          /\ HandOff("chain_failed")
          /\ UNCHANGED commands
    /\ UNCHANGED <<taskVars, fixPlan, workdir, fetchable, branches, landed, merged, filed,
                   filings>>

(* fileSpec up to the dedup check: branchExistsOnOrigin clones the branch. *)
(* An error it does not recognise counts as "exists"; some network errors  *)
(* read like a missing branch ("Repository not found").                    *)
BranchExistsOnOrigin ==
    /\ pc = "dedup"
    /\ \/ /\ IF fixPlan.episode \in branches
             THEN HandOff("already_filed")
             ELSE Goto("spec") /\ UNCHANGED <<fixResult, fixReview>>
          /\ UNCHANGED boundVars
       \/ /\ Fault
          /\ \/ HandOff("already_filed")
             \/ Goto("spec") /\ UNCHANGED <<fixResult, fixReview>>
    /\ UNCHANGED <<taskVars, fixPlan, workdir, outsideVars>>

(* Clone of master, SwitchNewBranch, writeSpecFile and the commit: local   *)
(* to the Job.  What master has of the spec's branch is below the commit.  *)
(* A branch cannot be named after no episode; a spec that is on master word *)
(* for word leaves nothing to commit.                                      *)
WriteSpec ==
    /\ pc = "spec"
    /\ \/ /\ fixPlan.episode # "none"
          /\ workdir' = IF fixPlan.episode \in landed THEN "atop" ELSE "clone"
          /\ Goto("push")
          /\ UNCHANGED <<fixResult, fixReview, boundVars>>
       \/ /\ fixPlan.episode \in merged \cup {"none"}
          /\ HandOff("failed")
          /\ UNCHANGED <<workdir, boundVars>>
       \/ /\ Fault
          /\ HandOff("failed")
          /\ UNCHANGED workdir
    /\ UNCHANGED <<taskVars, fixPlan, outsideVars>>

(* Origin takes the commit of the spec.                                    *)
Land == /\ branches' = branches \cup {fixPlan.episode}
        /\ landed' = landed \ {fixPlan.episode}
        /\ filed' = filed \cup {fixPlan.episode}
        /\ filings' = filings + 1

(* Mutant: push --force.                                                   *)
PushSpecForced ==
    /\ pc = "push"
    /\ Land
    /\ HandOff("filed")
    /\ UNCHANGED <<taskVars, fixPlan, workdir, fetchable, merged, commands, boundVars>>

(* The push is not forced: of the branches that are there, only one that   *)
(* is below the new commit moves.                                          *)
PushSpec ==
    /\ pc = "push"
    /\ \/ /\ fixPlan.episode \notin branches \/ workdir = "atop"
          /\ Land
          /\ \/ HandOff("filed") /\ UNCHANGED boundVars
             \/ Fault /\ HandOff("failed")            \* accepted, answer lost
       \/ /\ fixPlan.episode \in branches
          /\ workdir # "atop"
          /\ HandOff("failed")
          /\ UNCHANGED <<branches, landed, filed, filings, boundVars>>
       \/ /\ Fault
          /\ HandOff("failed")
          /\ UNCHANGED <<branches, landed, filed, filings>>
    /\ UNCHANGED <<taskVars, fixPlan, workdir, fetchable, merged, commands>>

-----------------------------------------------------------------------------
(* ai_review: only a spec that says it was filed is looked for on origin.  *)
(* writeFixReviewSection keeps what was verified.                          *)
Accept == /\ fixReview' = fixResult
          /\ Return("done", "human_review")

(* Mutants: every hand-off goes to a person; one that is not there is sent *)
(* back to execution.                                                      *)
TrustHandOff ==
    /\ pc = "verify"
    /\ Accept
    /\ UNCHANGED <<taskVars, fixPlan, fixResult, workdir, outsideVars, boundVars>>

SendBackHandOff ==
    /\ pc = "verify"
    /\ IF fixResult.outcome \in {"none", "failed"}
       THEN Return("done", "execution") /\ UNCHANGED fixReview
       ELSE Accept
    /\ UNCHANGED <<taskVars, fixPlan, fixResult, workdir, outsideVars, boundVars>>

VerifyHandOff ==
    /\ pc = "verify"
    /\ \/ /\ \/ fixResult.outcome \in {"chained", "chain_noop", "already_filed",
                                       "chain_failed"}
             \/ fixResult.outcome = "filed" /\ fixResult.episode \in branches
          /\ Accept
          /\ UNCHANGED boundVars
       \/ /\ \/ fixResult.outcome \in {"none", "failed"}
             \/ fixResult.outcome = "filed" /\ fixResult.episode \notin branches
          /\ Failed
          /\ UNCHANGED <<fixReview, boundVars>>
       \/ /\ fixResult.outcome = "filed"
          /\ Fault
          /\ Failed
          /\ UNCHANGED fixReview
    /\ UNCHANGED <<taskVars, fixPlan, fixResult, workdir, outsideVars>>

-----------------------------------------------------------------------------
(* The controller writes the sections back and applies the status: a phase *)
(* starts with all its triggers, needs_input waits for an operator, and a  *)
(* task for a person loses its assignee unless the result declares one.    *)
Deliver ==
    /\ pc = "deliver"
    /\ plan' = fixPlan
    /\ result' = fixResult
    /\ review' = fixReview
    /\ phase' = IF next = "none" THEN phase ELSE next
    /\ triggers' = IF next = "none" THEN triggers ELSE 0
    /\ assignee' = IF stamped THEN "owner"
                   ELSE IF status = "needs_input" \/ next = "human_review" THEN "none"
                   ELSE assignee
    /\ JobOver
    /\ UNCHANGED <<complete, brokers, outsideVars, boundVars>>

Crash == /\ pc # "idle"
         /\ Fault
         /\ JobOver
         /\ UNCHANGED <<taskVars, outsideVars>>

Job == \/ VerifyClaudeAuth \/ ReadFixRequired \/ CloneEpisode \/ CloneFallback
       \/ RunDiagnosis \/ ReplayGuard \/ ChainToUpdater \/ BranchExistsOnOrigin \/ WriteSpec
       \/ PushSpec \/ VerifyHandOff \/ Deliver

Act == /\ human < MaxHuman
       /\ human' = human + 1
       /\ UNCHANGED <<faults, pc, copyVars, returnVars, workdir>>

(* dark-factory or a person merges the spec, or throws the branch away.    *)
(* After a merge commit master contains the branch, after a squash not.    *)
MergeSpec ==
    /\ Act
    /\ \E e \in branches \ landed :
         /\ merged' = merged \cup {e}
         /\ \/ branches' = branches /\ landed' \in {landed, landed \cup {e}}
            \/ branches' = branches \ {e} /\ landed' = landed
    /\ UNCHANGED <<taskVars, fetchable, filed, filings, commands>>

DeleteSpecBranch ==
    /\ Act
    /\ \E e \in branches : /\ branches' = branches \ {e}
                           /\ landed' = landed \ {e}
    /\ UNCHANGED <<taskVars, fetchable, merged, filed, filings, commands>>

(* The operator gives the task back for a fresh diagnosis.                 *)
Redelegate == /\ Act
              /\ pc = "idle"
              /\ ~CanStart
              /\ phase' = "planning" /\ assignee' = "agent" /\ triggers' = 0
              /\ UNCHANGED <<complete, brokers, plan, result, review, outsideVars>>

People == MergeSpec \/ DeleteSpecBranch \/ Redelegate

Settled == /\ pc = "idle"
           /\ ~CanStart
           /\ human = MaxHuman
           /\ UNCHANGED vars

Next == StartJob \/ Job \/ Crash \/ People \/ Settled

Spec == Init /\ [][Next]_vars

FairSpec == Spec /\ WF_vars(StartJob) /\ WF_vars(Job)

-----------------------------------------------------------------------------
TypeOK ==
    /\ complete \in BOOLEAN
    /\ brokers \in BOOLEAN
    /\ phase \in Phases
    /\ assignee \in {"agent", "owner", "none"}
    /\ plan \in PlanType
    /\ result \in ResultType
    /\ review \in ResultType
    /\ triggers \in 0..TriggerCap
    /\ pc \in Pcs
    /\ fixPlan \in PlanType
    /\ fixResult \in ResultType
    /\ fixReview \in ResultType
    /\ status \in {"done", "failed", "needs_input"}
    /\ next \in Phases \cup {"none"}
    /\ stamped \in BOOLEAN
    /\ workdir \in {"absent", "partial", "clone", "atop"}
    /\ fetchable \in BOOLEAN
    /\ branches \subseteq Echoes
    /\ landed \subseteq branches
    /\ merged \subseteq Echoes
    /\ filed \subseteq Echoes
    /\ filings \in Nat
    /\ commands \in [Echoes -> Nat]
    /\ faults \in 0..MaxFaults
    /\ human \in 0..MaxHuman

(* What a ## Fix Result claims has happened in the outside world, however  *)
(* often its Job was started, re-planned or crashed.                       *)
HandOffIsReal ==
    \A r \in {result, fixResult} :
        /\ r.outcome = "filed" => r.episode \in filed
        /\ r.outcome = "chained" => commands[r.episode] > 0
        /\ r.outcome = "chain_noop" => ~brokers

(* A person is asked to look at a task only once it has a ## Fix Result    *)
(* that did not fail and a ## Review of just that, and the task is his.    *)
HumanReviewHasHandOff ==
    phase = "human_review" =>
        /\ result.outcome \notin {"none", "failed"}
        /\ review = result
        /\ assignee = (IF HasOwner THEN "owner" ELSE "none")

(* Every variable has its type, and the phase agrees with the ## Fix       *)
(* Result, its review and the owner.                                       *)
WellFormed == TypeOK /\ HumanReviewHasHandOff

(* A second updater task for the same episode takes a crash or a lost      *)
(* acknowledgement in between: re-planning and replays emit none.          *)
ChainsAreBounded == \A e \in Echoes : commands[e] <= 1 + faults

(* A task pushes one spec, however often it is diagnosed anew and whatever *)
(* episode the model names: each further one takes a crash or a call that  *)
(* failed.                                                                 *)
SpecIsFiledOnce == filings <= 1 + faults

(* A spec that waits on its branch is never replaced: the branch is pushed *)
(* to only when it is gone or master contains it already, although the     *)
(* look for it may fail and time passes between the clone and the push.    *)
UnmergedSpecStays ==
    [][filings' # filings =>
          fixPlan.episode \notin branches \/ fixPlan.episode \in landed]_vars

(* Once the task has its ## Fix Result no Job changes anything outside,    *)
(* whatever a later diagnosis says.                                        *)
ReplayIsInert ==
    [][result # NoResult =>
          /\ result' = result
          /\ branches' \subseteq branches
          /\ filings' = filings
          /\ commands' = commands]_vars

(* Every task comes to rest, needs_input and failed hand-offs included.    *)
FixSettles == <>[](pc = "idle" /\ ~CanStart)

-----------------------------------------------------------------------------
(* Statements of the comments the code does not keep.                      *)

(* steps_fix_execution.go, branchExistsOnOrigin: an auth or network error  *)
(* "must NOT be read as branch exists"; a spec reported as already filed   *)
(* has been filed.                                                         *)
AlreadyFiledWasFiled ==
    result.outcome = "already_filed" => result.episode \in filed

(* steps_fix_execution.go, Run: "existing successful ## Fix Result ->      *)
(* re-route to ai_review"; a failed one is not replayed.                   *)
OnlySuccessIsReplayed ==
    [][pc = "replay" /\ fixResult.outcome = "failed" => pc' # "deliver"]_vars

(* steps_fix_planning.go, Run: "If the SHA is not fetchable (force-push),  *)
(* fall back to default branch"; the fallback fails only when a call does. *)
FallbackReachesDefaultBranch ==
    [][pc = "fallback" /\ pc' = "deliver" => faults > 0 \/ faults' > faults]_vars
=============================================================================
