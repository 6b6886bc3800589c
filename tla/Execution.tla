----------------------------- MODULE Execution -----------------------------
(***************************************************************************)
(* The execution phase of a github-update-go task: executionStep.Run of    *)
(* pkg/steps_execution.go, the preflight before it (steps_claude_auth.go), *)
(* the remote repository it pushes to, the controller that starts it again *)
(* after a failure, and the people who merge, close and delete while it    *)
(* runs.                                                                   *)
(*                                                                         *)
(* A Job reads the task file, works on a clone, and hands its ## Result    *)
(* back only at the very end ("deliver"), so a crash loses everything it   *)
(* did except what reached the remote.  Every call to git, gh, make or     *)
(* Claude is a step of its own: other actors move between them.            *)
(*                                                                         *)
(* The working tree is abstracted to the classes of files the guards tell  *)
(* apart (AllPaths); a gate run to whether the target was green; a commit  *)
(* to how many targets were green since Claude last edited the tree and    *)
(* the classes of files it holds.                                          *)
(***************************************************************************)
EXTENDS Naturals, Sequences, UpdateScope

CONSTANTS Inputs,        \* task files execution may be started on
          Paths,         \* classes of files an update may touch
          PRTarget,      \* PR_TARGET of the deployment
          DefaultScope,  \* UPDATE_SCOPE of the deployment
          JobDeadline,   \* TRUE iff the Job's context carries a deadline
          TriggerCap,    \* Jobs the controller starts per phase
          MaxFaults,     \* bound: crashes and failed or unanswered calls
          MaxHuman       \* bound: acts of people on GitHub and on the task

AllPaths == {"source",     \* go.mod, go.sum, code, Dockerfile, ...
             "changelog",  \* CHANGELOG.md
             "wf_regen",   \* a workflow file that differs from origin/master
             "wf_same",    \* a workflow file git reports but whose bytes
                           \* equal those on origin/master
             "wf_new",     \* a workflow file with no readable counterpart
             "wf_newdir"}  \* the same, inside a directory git does not know

NoPlan == [go |-> FALSE, deps |-> FALSE, vulns |-> {}]

InputType == [frontmatter : BOOLEAN,              \* repo, clone_url, ref usable
              scope       : ScopeFields,
              plan        : Plans,                \* NoPlan: nothing in scope
              gates       : Nat,                  \* number of gate_targets
              advisory    : {"none", "valid", "malformed"}]

ASSUME ExecutionAssumption ==
    /\ Inputs \subseteq InputType
    /\ Paths \subseteq AllPaths
    /\ PRTarget \in {"draft", "ready"}
    /\ DefaultScope \in Scopes
    /\ JobDeadline \in BOOLEAN
    /\ TriggerCap \in Nat \ {0}
    /\ MaxFaults \in Nat
    /\ MaxHuman \in Nat

VARIABLES
    \* the task file, as the controller keeps it
    input,       \* what planning left in it; never changes
    phase,       \* "execution", "ai_review" or "done"
    result,      \* its ## Result section
    triggers,    \* Jobs started since a person last looked at the task
    \* the running Job
    pc,          \* where Run stands; "idle" between Jobs
    section,     \* the ## Result of the Job's own copy of the task file
    next,        \* the NextPhase it will return; "none" with Status Failed
    salvage,     \* Claude failed and the gates decide alone
    repaired,    \* the one gate repair has been spent
    tree,        \* classes of files that differ from HEAD in the workdir
    changed,     \* the paths to commit
    target,      \* gate targets behind it in the walk of the list
    green,       \* of them, green since Claude last edited the tree
    base,        \* ids of the branch's commits the clone it builds on holds
    commit,      \* HEAD of the workdir's branch
    \* GitHub
    remote,      \* the branch on the remote
    prs,         \* pull requests opened from the branch
    merged,      \* ids of the branch's commits reachable from master
    \* bookkeeping of the model
    jobs,        \* Jobs ever started; names the commit a Job makes
    faults,
    human

taskVars == <<input, phase, result, triggers>>
workVars == <<salvage, repaired, tree, changed, target, green, base, commit>>
githubVars == <<remote, prs, merged>>
boundVars == <<jobs, faults, human>>
vars == <<input, phase, result, triggers, pc, section, next, salvage, repaired,
          tree, changed, target, green, base, commit, remote, prs, merged, jobs, faults,
          human>>

NoCommit == [id |-> 0, green |-> 0, paths |-> {}]
NoResult == [outcome |-> "none", pr |-> 0, category |-> "none"]

Categories == {"unknown", "git", "claude", "unexpected_diff"}

ResultType == [outcome  : {"none", "opened", "adopted", "no_update_needed", "failed"},
               pr       : Nat,
               category : {"none"} \cup Categories]

CommitType == [id : Nat, green : Nat, paths : SUBSET AllPaths]

PRType == [head : CommitType, target : {"draft", "ready"},
           state : {"open", "merged", "closed"}]

Pcs == {"idle", "claudeauth", "replay", "validate", "findpr", "lsremote", "clonebranch",
        "openadopted", "resolve", "bulk", "claude", "gates", "repair", "guard",
        "commit", "push", "openpr", "deliver"}

OpenPRs == {i \in DOMAIN prs : prs[i].state = "open"}

-----------------------------------------------------------------------------
(* Helpers of the step.                                                    *)

(* Mutants of fail: the failure handed to a person, and to the reviewer.   *)
FailToHuman(category) ==
    /\ section' = [outcome |-> "failed", pr |-> 0, category |-> category]
    /\ next' = "human_review"
    /\ pc' = "deliver"

FailIntoReview(category) ==
    /\ section' = [outcome |-> "failed", pr |-> 0, category |-> category]
    /\ next' = "ai_review"
    /\ pc' = "deliver"

(* fail: the ## Result names the cause, Status Failed, no NextPhase.       *)
Fail(category) ==
    /\ section' = [outcome |-> "failed", pr |-> 0, category |-> category]
    /\ next' = "none"
    /\ pc' = "deliver"

(* A successful return with its ## Result and NextPhase.                   *)
Succeed(outcome, pr, nextPhase) ==
    /\ section' = [outcome |-> outcome, pr |-> pr, category |-> "none"]
    /\ next' = nextPhase
    /\ pc' = "deliver"

Goto(label) == /\ pc' = label
               /\ UNCHANGED <<section, next>>

(* One more crash, failed call or lost answer.                             *)
Fault == /\ faults < MaxFaults
         /\ faults' = faults + 1
         /\ UNCHANGED <<jobs, human>>

(* validatePlan and the checks before it.                                  *)
ReadyToRun ==
    LET scope == ResolveUpdateScope(input.scope, DefaultScope)
    IN  /\ input.frontmatter
        /\ scope \in Scopes
        /\ HasWorkForScope(input.plan, scope)
        /\ input.gates > 0

(* git status names an untracked directory instead of the files in it.     *)
ChangedFiles(t) ==
    (t \ {"wf_newdir"}) \cup (IF "wf_newdir" \in t THEN {"newdir"} ELSE {})

(* What a commit of these paths holds: git add descends into a directory.  *)
CommittedFiles(paths) ==
    (paths \ {"newdir"}) \cup (IF "newdir" \in paths THEN {"wf_newdir"} ELSE {})

(* Mutant: a lone CHANGELOG entry counts as an update.                     *)
IsEmptyChange(paths) == paths = {}

IsNoEffectiveChange(paths) == paths \subseteq {"changelog"}

(* classifyWorkflowChanges: a path that cannot be compared is an error, one *)
(* equal to its base a no-op.                                               *)
Unclassifiable(paths) == paths \cap {"wf_new", "wf_newdir"}
NoopWorkflows(paths) == paths \cap {"wf_same"}

(* Mutant: the post-commit guard without its no-op check.                  *)
WorkflowsHaveBase(paths) == Unclassifiable(paths) = {}

(* verifyCommittedWorkflows: what the post-commit guard lets through.      *)
WorkflowsVerified(paths) == /\ Unclassifiable(paths) = {}
                            /\ NoopWorkflows(paths) = {}

(* A context without a deadline is treated as unlimited.                   *)
HasGateRepairBudget(enoughLeft) == JobDeadline => enoughLeft

(* The controller starts a Job only while the task has triggers left.      *)
CanStart == /\ pc = "idle"
            /\ phase = "execution"
            /\ triggers < TriggerCap

-----------------------------------------------------------------------------
Init == /\ input \in Inputs
        /\ phase = "execution" /\ result = NoResult /\ triggers = 0
        /\ pc = "idle" /\ section = NoResult /\ next = "none"
        /\ salvage = FALSE /\ repaired = FALSE
        /\ tree = {} /\ changed = {} /\ target = 0 /\ green = 0
        /\ base = {} /\ commit = NoCommit
        /\ remote = NoCommit /\ prs = <<>> /\ merged = {}
        /\ jobs = 0 /\ faults = 0 /\ human = 0

(* The Job is gone, and its workdir and copy of the task file with it.     *)
JobOver == /\ pc' = "idle"
           /\ section' = NoResult
           /\ next' = "none"
           /\ salvage' = FALSE
           /\ repaired' = FALSE
           /\ tree' = {}
           /\ changed' = {}
           /\ target' = 0
           /\ green' = 0
           /\ base' = {}
           /\ commit' = NoCommit

(* The controller starts a Job on the task file as it stands.              *)
StartJob == /\ CanStart
            /\ pc' = "claudeauth"
            /\ triggers' = triggers + 1
            /\ jobs' = jobs + 1
            /\ section' = result
            /\ UNCHANGED <<input, phase, result, next, workVars, faults, human>>
            /\ UNCHANGED githubVars

(* claudeAuthStep, the step before this one: a probe that fails ends the   *)
(* Job and leaves the task file as it is.                                  *)
VerifyClaudeAuth ==
    /\ pc = "claudeauth"
    /\ \/ /\ Goto("replay")
          /\ UNCHANGED boundVars
       \/ /\ Fault
          /\ next' = "none"
          /\ pc' = "deliver"
          /\ UNCHANGED section
    /\ UNCHANGED <<taskVars, workVars, githubVars>>

(* The outcomes a replay re-routes on; a failed ## Result is not one.      *)
ReplayOutcomes == {"opened", "adopted"}

(* Mutant: an adopted pull request is not taken for a success.             *)
ReplayGuardOpenedOnly ==
    /\ pc = "replay"
    /\ IF section.outcome = "opened"
       THEN /\ next' = "ai_review"
            /\ pc' = "deliver"
            /\ UNCHANGED section
       ELSE Goto("validate")
    /\ UNCHANGED <<taskVars, workVars, githubVars, boundVars>>

(* replayGuard: a ## Result that already names a pull request re-routes to *)
(* ai_review and touches nothing.                                          *)
ReplayGuard == /\ pc = "replay"
               /\ IF section.outcome \in ReplayOutcomes
                  THEN /\ next' = "ai_review"
                       /\ pc' = "deliver"
                       /\ UNCHANGED section
                  ELSE Goto("validate")
               /\ UNCHANGED <<taskVars, workVars, githubVars, boundVars>>

(* extractFrontmatter, resolveUpdateScope, validatePlan.                   *)
Validate == /\ pc = "validate"
            /\ IF ReadyToRun THEN Goto("findpr") ELSE Fail("unknown")
            /\ UNCHANGED <<taskVars, workVars, githubVars, boundVars>>

(* Mutant: the error of the lookup is dropped and its zero number adopted. *)
AdoptFailedLookup ==
    /\ pc = "findpr"
    /\ \/ /\ OpenPRs = {}
          /\ Goto("lsremote")
          /\ UNCHANGED boundVars
       \/ /\ \E i \in OpenPRs : Succeed("adopted", i, "ai_review")
          /\ UNCHANGED boundVars
       \/ /\ Fault
          /\ Succeed("adopted", 0, "ai_review")
    /\ UNCHANGED <<taskVars, workVars, githubVars>>

(* adoptExistingPR: an open pull request on the branch becomes the result. *)
(* A failed lookup is logged and ignored.                                  *)
AdoptExistingPR ==
    /\ pc = "findpr"
    /\ \/ /\ OpenPRs = {}
          /\ Goto("lsremote")
          /\ UNCHANGED boundVars
       \/ /\ \E i \in OpenPRs : Succeed("adopted", i, "ai_review")
          /\ UNCHANGED boundVars
       \/ /\ Fault
          /\ Goto("lsremote")
    /\ UNCHANGED <<taskVars, workVars, githubVars>>

(* Mutant: no look at the remote, every run builds the branch again.       *)
IgnorePushedBranch ==
    /\ pc = "lsremote"
    /\ Goto("resolve")
    /\ UNCHANGED <<taskVars, workVars, githubVars, boundVars>>

(* adoptPushedBranch: a branch that is already on the remote is not built  *)
(* again.  A failed lookup falls through to the normal path.               *)
AdoptPushedBranch ==
    /\ pc = "lsremote"
    /\ \/ /\ Goto(IF remote = NoCommit THEN "resolve" ELSE "clonebranch")
          /\ UNCHANGED boundVars
       \/ /\ Fault
          /\ Goto("resolve")
    /\ UNCHANGED <<taskVars, workVars, githubVars>>

(* openPRFromPushedBranch, its clone: fails when the branch has gone.      *)
ClonePushedBranch ==
    /\ pc = "clonebranch"
    /\ \/ /\ remote # NoCommit
          /\ Goto("openadopted")
          /\ commit' = remote
          /\ UNCHANGED boundVars
       \/ /\ remote = NoCommit
          /\ Fail("git")
          /\ UNCHANGED <<commit, boundVars>>
       \/ /\ Fault
          /\ Fail("git")
          /\ UNCHANGED commit
    /\ UNCHANGED <<taskVars, githubVars, salvage, repaired, tree, changed, target, green,
                   base>>

(* ResolveDefaultBranchHead, CloneAtRef and SwitchNewBranch: a fresh       *)
(* branch on the current HEAD of master, with all of its history: what the *)
(* task's branch held and master has by now is below the new commit.       *)
CloneHead ==
    /\ pc = "resolve"
    /\ \/ /\ Goto("bulk")
          /\ base' = merged
          /\ UNCHANGED boundVars
       \/ /\ Fault
          /\ Fail("git")
          /\ UNCHANGED base
    /\ UNCHANGED <<taskVars, githubVars, salvage, repaired, tree, changed, target, green,
                   commit>>

(* runBulkUpdate: go get -u and go mod tidy.  Skipped for an advisory and  *)
(* for the golang scope; a sequence that could not run is not an error.    *)
RunBulkUpdate ==
    /\ pc = "bulk"
    /\ \/ /\ input.advisory = "malformed"
          /\ Fail("unknown")
          /\ UNCHANGED <<tree, boundVars>>
       \/ /\ input.advisory # "malformed"
          /\ Goto("claude")
          /\ IF \/ input.advisory = "valid"
                \/ ResolveUpdateScope(input.scope, DefaultScope) = "golang"
             THEN UNCHANGED tree
             ELSE tree' \in SUBSET {"source"}
          /\ UNCHANGED boundVars
       \/ /\ input.advisory = "none"
          /\ ResolveUpdateScope(input.scope, DefaultScope) # "golang"
          /\ Fault
          /\ Fail("unknown")
          /\ UNCHANGED tree
    /\ UNCHANGED <<taskVars, githubVars, salvage, repaired, changed, target, green,
                   base, commit>>

(* runUpdate: Claude may leave any tree behind.  When the call fails the   *)
(* run goes on in salvage, where the gates alone decide.  The make targets *)
(* that follow may rewrite files too; their result does not depend on the  *)
(* tree here, so the final tree is chosen at this step already.            *)
RunUpdate ==
    /\ pc = "claude"
    /\ tree' \in SUBSET Paths
    /\ target' = 0
    /\ green' = 0
    /\ salvage' \in BOOLEAN
    /\ Goto("gates")
    /\ UNCHANGED <<taskVars, githubVars, boundVars, repaired, changed, base, commit>>

(* firstRedTarget, rerunGates and gatesWithRepair: the targets run in      *)
(* order.  The first red one is repaired once on the normal path and ends  *)
(* the run otherwise; in salvage the recorded cause stays Claude's.        *)
RunGate ==
    /\ pc = "gates"
    /\ \/ /\ target' = target + 1
          /\ green' = green + 1
          /\ Goto(IF target' = input.gates THEN "guard" ELSE "gates")
       \/ /\ UNCHANGED <<target, green>>
          /\ \E enoughLeft \in BOOLEAN :
               IF ~salvage /\ ~repaired /\ HasGateRepairBudget(enoughLeft)
               THEN Goto("repair")
               ELSE Fail(IF salvage THEN "claude" ELSE "unknown")
    /\ UNCHANGED <<taskVars, githubVars, boundVars, salvage, repaired, tree,
                   changed, base, commit>>

(* Mutants: the gates go on at the target that was red; the repair budget  *)
(* is never spent.                                                         *)
GateRepairResumes ==
    /\ pc = "repair"
    /\ tree' \in SUBSET Paths
    /\ green' = 0
    /\ repaired' = TRUE
    /\ Goto("gates")
    /\ UNCHANGED <<taskVars, githubVars, boundVars, salvage, changed, target, base,
                   commit>>

GateRepairRepeats ==
    /\ pc = "repair"
    /\ tree' \in SUBSET Paths
    /\ target' = 0
    /\ green' = 0
    /\ Goto("gates")
    /\ UNCHANGED <<taskVars, githubVars, boundVars, salvage, repaired, changed, base,
                   commit>>

(* runGateRepair: the one repair sub-call; whatever it answers, every      *)
(* target is run again.                                                    *)
RunGateRepair ==
    /\ pc = "repair"
    /\ tree' \in SUBSET Paths
    /\ target' = 0
    /\ green' = 0
    /\ repaired' = TRUE
    /\ Goto("gates")
    /\ UNCHANGED <<taskVars, githubVars, boundVars, salvage, changed, base, commit>>

(* commitPushAndOpenPR up to the commit: nothing but a CHANGELOG entry is  *)
(* no update; a workflow file without a base is refused; a no-op one is    *)
(* dropped from the paths (filterWorkflowRegen).                           *)
GuardChangedFiles ==
    /\ pc = "guard"
    /\ \/ /\ UNCHANGED boundVars
          /\ LET files == ChangedFiles(tree)
             IN  IF IsNoEffectiveChange(files)
                 THEN /\ Succeed("no_update_needed", 0, "done")
                      /\ UNCHANGED changed
                 ELSE IF Unclassifiable(files) # {}
                 THEN /\ Fail("unexpected_diff")
                      /\ UNCHANGED changed
                 ELSE /\ changed' = files \ NoopWorkflows(files)
                      /\ Goto("commit")
       \/ /\ Fault                            \* git status fails
          /\ Fail("unknown")
          /\ UNCHANGED changed
    /\ UNCHANGED <<taskVars, githubVars, salvage, repaired, tree, target, green, base,
                   commit>>

(* EnsureChangelog may write the bullet; the changed files are then listed *)
(* again, committed, and the commit checked before anything is pushed.  Of *)
(* the calls that may fail only the commit has its error classified.       *)
CommitUpdate ==
    /\ pc = "commit"
    /\ \/ \E written \in SUBSET {"changelog"} :
            LET files == ChangedFiles(tree \cup written)
                paths == CommittedFiles(files)
            IN  /\ tree' = tree \cup written
                /\ changed' = files
                /\ commit' = [id |-> jobs, green |-> green, paths |-> paths]
                /\ IF WorkflowsVerified(paths)
                   THEN Goto("push")
                   ELSE Fail("unexpected_diff")
                /\ UNCHANGED boundVars
       \/ /\ Fault
          /\ \E category \in {"unknown", "git"} : Fail(category)
          /\ UNCHANGED <<tree, changed, commit>>
    /\ UNCHANGED <<taskVars, githubVars, salvage, repaired, target, green, base>>

(* Mutant: push --force.                                                   *)
PushForced ==
    /\ pc = "push"
    /\ remote' = commit
    /\ Goto("openpr")
    /\ UNCHANGED <<taskVars, workVars, prs, merged, boundVars>>

(* Push, without force: the remote takes a new branch and a fast-forward,  *)
(* which the new commit is when the branch had reached master before the   *)
(* clone.  It refuses to move any other branch.                            *)
FastForward == remote = NoCommit \/ remote.id \in base

Push ==
    /\ pc = "push"
    /\ \/ /\ FastForward
          /\ remote' = commit
          /\ \/ Goto("openpr") /\ UNCHANGED boundVars
             \/ Fault /\ Fail("git")          \* accepted, the answer lost
       \/ /\ ~FastForward
          /\ Fail("git")
          /\ UNCHANGED <<remote, boundVars>>
       \/ /\ Fault
          /\ Fail("git")
          /\ UNCHANGED remote
    /\ UNCHANGED <<taskVars, workVars, prs, merged>>

(* gh pr create as GitHub answers it: one open pull request per head, and  *)
(* none for a branch that is gone or holds nothing master does not.        *)
CreatePR ==
    \/ /\ remote # NoCommit
       /\ remote.id \notin merged
       /\ OpenPRs = {}
       /\ prs' = Append(prs, [head |-> remote, target |-> PRTarget, state |-> "open"])
       /\ \/ Succeed("opened", Len(prs) + 1, "ai_review") /\ UNCHANGED boundVars
          \/ Fault /\ Fail("unknown")         \* created, the answer lost
    \/ /\ \/ remote = NoCommit
          \/ remote.id \in merged
          \/ OpenPRs # {}
       /\ Fail("unknown")
       /\ UNCHANGED <<prs, boundVars>>
    \/ /\ Fault
       /\ Fail("unknown")
       /\ UNCHANGED prs

(* The end of openPRFromPushedBranch.                                      *)
OpenPRFromPushedBranch ==
    /\ pc = "openadopted"
    /\ CreatePR
    /\ UNCHANGED <<taskVars, workVars, remote, merged>>

(* The end of commitPushAndOpenPR.                                         *)
OpenPR ==
    /\ pc = "openpr"
    /\ CreatePR
    /\ UNCHANGED <<taskVars, workVars, remote, merged>>

(* The Job hands its task file back; the controller applies NextPhase.     *)
Deliver ==
    /\ pc = "deliver"
    /\ result' = section
    /\ phase' = IF next = "none" THEN phase ELSE next
    /\ JobOver
    /\ UNCHANGED <<input, triggers, githubVars, boundVars>>

(* The Job dies, runs into its deadline, or its context is cancelled       *)
(* between two gate targets: nothing is handed back.                       *)
Crash ==
    /\ pc # "idle"
    /\ Fault
    /\ JobOver
    /\ UNCHANGED <<taskVars, githubVars>>

Job == \/ VerifyClaudeAuth \/ ReplayGuard \/ Validate \/ AdoptExistingPR
       \/ AdoptPushedBranch \/ ClonePushedBranch \/ CloneHead \/ RunBulkUpdate
       \/ RunUpdate \/ RunGate \/ RunGateRepair \/ GuardChangedFiles
       \/ CommitUpdate \/ Push \/ OpenPRFromPushedBranch \/ OpenPR \/ Deliver

-----------------------------------------------------------------------------
(* People.  Each act counts against MaxHuman.                              *)
Act == /\ human < MaxHuman
       /\ human' = human + 1
       /\ UNCHANGED <<jobs, faults, section, next, pc>>
       /\ UNCHANGED workVars

(* A merge commit makes the branch's commit reachable from master, a       *)
(* squash does not; the branch may be deleted with the merge.              *)
MergePR == /\ Act
           /\ \E i \in OpenPRs :
                /\ prs' = [prs EXCEPT ![i].state = "merged"]
                /\ merged' \in {merged, merged \cup {prs[i].head.id}}
           /\ remote' \in {remote, NoCommit}
           /\ UNCHANGED taskVars

ClosePR == /\ Act
           /\ \E i \in OpenPRs : prs' = [prs EXCEPT ![i].state = "closed"]
           /\ remote' \in {remote, NoCommit}
           /\ UNCHANGED <<taskVars, merged>>

DeleteBranch == /\ Act
                /\ OpenPRs = {}
                /\ remote # NoCommit
                /\ remote' = NoCommit
                /\ UNCHANGED <<taskVars, prs, merged>>

(* The operator gives the task back to the agent: after the trigger cap,   *)
(* or once more after it had moved on.                                     *)
Retrigger == /\ Act
             /\ pc = "idle"
             /\ phase # "execution" \/ triggers = TriggerCap
             /\ phase' = "execution"
             /\ triggers' = 0
             /\ UNCHANGED <<input, result, githubVars>>

People == MergePR \/ ClosePR \/ DeleteBranch \/ Retrigger

(* The task is over for this phase and nobody may touch it any more.       *)
Settled == /\ pc = "idle"
           /\ ~CanStart
           /\ human = MaxHuman
           /\ UNCHANGED vars

Next == StartJob \/ Job \/ Crash \/ People \/ Settled

Spec == Init /\ [][Next]_vars

(* The controller starts a Job it may start and a running Job keeps        *)
(* running; nothing is promised about people, crashes or failed calls.     *)
FairSpec == Spec /\ WF_vars(StartJob) /\ WF_vars(Job)

-----------------------------------------------------------------------------
(* Properties.                                                             *)

TypeOK ==
    /\ input \in Inputs
    /\ phase \in {"execution", "ai_review", "done"}
    /\ result \in ResultType
    /\ triggers \in 0..TriggerCap
    /\ pc \in Pcs
    /\ section \in ResultType
    /\ next \in {"none", "ai_review", "done"}
    /\ salvage \in BOOLEAN
    /\ repaired \in BOOLEAN
    /\ tree \subseteq AllPaths
    /\ changed \subseteq AllPaths \cup {"newdir"}
    /\ target \in Nat
    /\ green \in Nat
    /\ base \subseteq Nat
    /\ commit \in CommitType
    /\ remote \in CommitType
    /\ prs \in Seq(PRType)
    /\ merged \subseteq Nat
    /\ jobs \in Nat
    /\ faults \in 0..MaxFaults
    /\ human \in 0..MaxHuman

(* Whatever a Job goes through, the branch and every pull request hold a   *)
(* commit all of the plan's gate targets were green on since Claude last   *)
(* edited the tree, and there was at least one; only EnsureChangelog       *)
(* writes after them.  openPRFromPushedBranch relies on it: "The pushed    *)
(* head already passed the gates before it was pushed".                    *)
Gated(c) == input.gates > 0 /\ c.green = input.gates

PushedHeadIsGated ==
    /\ remote # NoCommit => Gated(remote)
    /\ \A i \in DOMAIN prs : Gated(prs[i].head)

(* The two workflow guards and the no-effective-change guard together: no  *)
(* published commit holds a workflow file without a base or equal to it,   *)
(* and none is a CHANGELOG entry about nothing (the go-skeleton PR #51     *)
(* incident), although the paths to commit are listed again in between.    *)
Guarded(c) == /\ c.paths \cap {"wf_same", "wf_new", "wf_newdir"} = {}
              /\ \E p \in c.paths : p # "changelog"

PushedPathsAreGuarded ==
    /\ remote # NoCommit => Guarded(remote)
    /\ \A i \in DOMAIN prs : Guarded(prs[i].head)

(* A ## Result that reports a pull request names one that was opened from  *)
(* this branch, across lost answers, adoption and retries.                 *)
ResultNamesPR ==
    \A r \in {result, section} :
        r.outcome \in ReplayOutcomes => r.pr \in DOMAIN prs

(* The phase the task is in agrees with its ## Result: review starts only  *)
(* with a pull request, done only with nothing to do; a failure never      *)
(* leaves the execution phase.                                             *)
PhaseMatchesResult ==
    /\ phase = "ai_review" => result.outcome \in ReplayOutcomes
    /\ phase = "done" => result.outcome = "no_update_needed"

(* No work is pushed away (pkg/git/os_exec_git_ops.go: no --force): beside *)
(* appearing and being deleted, the branch moves only on from a commit     *)
(* that is on master already, and never under an open pull request,        *)
(* although the Job decided to build long before it pushes.                *)
UnmergedWorkStays ==
    [][remote' # remote =>
          \/ remote = NoCommit
          \/ remote' = NoCommit
          \/ remote.id \in merged /\ OpenPRs = {}]_vars

(* Replaying a task whose ## Result names a pull request has no effect:    *)
(* the result stays, nothing is pushed and no pull request is opened, even *)
(* after the first one was merged or closed.                               *)
ReplayIsInert ==
    [][result.outcome \in ReplayOutcomes =>
          /\ result' = result
          /\ remote' # remote => remote' = NoCommit
          /\ Len(prs') = Len(prs)]_vars

(* The crash window between push and gh pr create closes: once calls stop  *)
(* failing, a task that still has a Job to run does not leave a pushed     *)
(* branch without a pull request, unless somebody deletes the branch.      *)
Stranded == /\ remote # NoCommit
            /\ \A i \in DOMAIN prs : prs[i].head # remote

StrandedBranchGetsPR ==
    (Stranded /\ CanStart /\ faults = MaxFaults) ~> ~Stranded

(* A task does not stay in the execution phase for ever: Jobs end, gate    *)
(* repair included, and the trigger cap ends the retries.                  *)
TaskSettles == <>[](pc = "idle" /\ ~CanStart)

(* Seen from the repository, the phase implements Publication.             *)
Published == INSTANCE Publication WITH head <- remote, required <- input.gates

ImplementsPublication == Published!Spec

-----------------------------------------------------------------------------
(* Statements of the documentation and of comments that the code does not  *)
(* keep; each has a run that shows how.                                    *)

(* steps_execution.go:1030, "no-op regeneration -> skip": a workflow file  *)
(* that ended up equal to its base is left out of the commit and does not  *)
(* by itself make the run fail as an unexpected diff.                      *)
NoopRegenerationIsSkipped ==
    section.category = "unexpected_diff" /\ pc = "deliver" =>
        tree \cap {"wf_new", "wf_newdir"} # {}

(* steps_execution.go:416, "its non-force push would be rejected as        *)
(* non-fast-forward on every retry": a branch that exists stays as it is.  *)
(* One that was merged and kept is moved on when ls-remote fails.          *)
BranchNeverMoves ==
    [][remote' # remote => remote = NoCommit \/ remote' = NoCommit]_vars

(* docs/design.md 5.3: the same task replayed means "same branch, same PR, *)
(* no duplicates".                                                         *)
NoDuplicatePR == Len(prs) <= 1
=============================================================================
