------------------------------- MODULE Review -------------------------------
(***************************************************************************)
(* The ai_review phase of a github-update-go task: reviewStep.Run of       *)
(* pkg/steps_review.go inside the wrapper of                               *)
(* pkg/steps_human_review_owner.go, while people merge, close, flip and    *)
(* push to the pull request it verifies and the release agent releases.    *)
(*                                                                         *)
(* Every call that leaves the Job is a step of its own.  The pull request  *)
(* is looked at first and once; the branch is cloned later, by name; the   *)
(* tags are listed last, live.  The content of a branch is abstracted to   *)
(* what the checks tell apart.                                             *)
(***************************************************************************)
EXTENDS Naturals

CONSTANTS Tasks,        \* task files review may be started on
          Heads,        \* contents the branch may have
          Versions,     \* version headers of CHANGELOG.md
          PRTarget,     \* PR_TARGET of the deployment
          HasOwner,     \* TRUE iff HUMAN_REVIEW_OWNER is set
          TriggerCap,   \* Jobs the controller starts per phase
          MaxFaults,    \* bound: crashes and failed calls
          MaxHuman      \* bound: acts of people and of the release agent

TaskType == [sections : BOOLEAN,       \* ## Plan and ## Result are there
             prURL    : BOOLEAN,       \* ## Result names pr_url and branch
             gates    : Nat,           \* number of the plan's gate_targets
             advisory : {"none", "valid", "malformed"}]

HeadType == [green     : Nat,          \* gate targets green from the first on
             module    : {"fixed", "below", "unknown"},  \* the advisory's
             changelog : {"bullet", "bare", "missing"},
             headers   : SUBSET Versions]

Gone == [green |-> 0, module |-> "unknown", changelog |-> "missing", headers |-> {}]

ASSUME ReviewAssumption ==
    /\ Tasks \subseteq TaskType
    /\ Heads \subseteq HeadType
    /\ Gone \notin Heads
    /\ PRTarget \in {"draft", "ready"}
    /\ HasOwner \in BOOLEAN
    /\ TriggerCap \in Nat \ {0}
    /\ MaxFaults \in Nat
    /\ MaxHuman \in Nat

VARIABLES
    \* the task file
    task,        \* what planning and execution left in it; never changes
    phase,       \* "ai_review", "human_review" or "done"
    review,      \* the ## Review section
    yourMove,    \* the file holds a ## Your Move block
    assignee,    \* "agent", "owner" or "none"
    triggers,
    \* the running Job
    pc,
    section,     \* the ## Review of the Job's copy of the task file
    block,       \* that copy holds a ## Your Move block
    next,        \* NextPhase; "none" with Status Failed
    stamped,     \* assignee and assignee_reassigned_by are set in the copy
    accepted,    \* checkPR's verdict
    sawMerged,   \* checkPR saw the pull request MERGED
    clone,       \* the fresh worktree: the branch and origin/master with it
    target,      \* gate targets already green in this run
    checks,      \* the checks that decide the approval
    \* GitHub
    pr,          \* state and draft-ness of the pull request
    branch,      \* content of the branch, or Gone
    onMaster,    \* the branch's commits are reachable from master
    released,    \* version headers of master's CHANGELOG.md
    tagged,      \* a tag points at a commit of the branch
    faults,
    human

taskVars == <<task, phase, review, yourMove, assignee, triggers>>
verdictVars == <<section, block, next, stamped>>
checkVars == <<accepted, sawMerged, clone, target, checks>>
githubVars == <<pr, branch, onMaster, released, tagged>>
boundVars == <<faults, human>>
vars == <<taskVars, pc, verdictVars, checkVars, githubVars, boundVars>>

NoChecks == [gate |-> FALSE, vulns |-> FALSE, changelog |-> FALSE, noTag |-> FALSE]
NoClone == [head |-> Gone, master |-> {}, merged |-> FALSE]

(* head is the content the checks ran on, kept for the properties.         *)
NoReview == [verdict |-> "none", checks |-> NoChecks, head |-> Gone]

ChecksType == [gate : BOOLEAN, vulns : BOOLEAN, changelog : BOOLEAN, noTag : BOOLEAN]

ReviewType == [verdict : {"none", "approved", "rejected"},
               checks : ChecksType, head : Heads \cup {Gone}]

Pcs == {"idle", "read", "pr", "clone", "gates", "advisories", "changelog", "tags",
        "finish", "deliver"}

-----------------------------------------------------------------------------
Fault == /\ faults < MaxFaults
         /\ faults' = faults + 1
         /\ UNCHANGED human

(* Mutant: the approval forgets vulns_clear.                               *)
ApprovedOnGates == accepted /\ checks.gate /\ checks.changelog /\ checks.noTag

Approved == accepted /\ checks.gate /\ checks.vulns /\ checks.changelog /\ checks.noTag

(* The controller starts a Job while the agent owns the task.              *)
CanStart == /\ pc = "idle"
            /\ phase = "ai_review"
            /\ assignee = "agent"
            /\ triggers < TriggerCap

-----------------------------------------------------------------------------
Init == /\ task \in Tasks
        /\ phase = "ai_review" /\ review = NoReview /\ yourMove = FALSE
        /\ assignee = "agent" /\ triggers = 0
        /\ pc = "idle"
        /\ section = NoReview /\ block = FALSE /\ next = "none" /\ stamped = FALSE
        /\ accepted = FALSE /\ sawMerged = FALSE /\ clone = NoClone
        /\ target = 0 /\ checks = NoChecks
        /\ pr = [state |-> "open", draft |-> (PRTarget = "draft")]
        /\ branch \in Heads /\ onMaster = FALSE /\ released = {} /\ tagged = FALSE
        /\ faults = 0 /\ human = 0

JobOver == /\ pc' = "idle"
           /\ section' = NoReview /\ block' = FALSE /\ next' = "none" /\ stamped' = FALSE
           /\ accepted' = FALSE /\ sawMerged' = FALSE /\ clone' = NoClone
           /\ target' = 0 /\ checks' = NoChecks

StartJob == /\ CanStart
            /\ pc' = "read"
            /\ triggers' = triggers + 1
            /\ section' = review
            /\ block' = yourMove
            /\ UNCHANGED <<task, phase, review, yourMove, assignee, next, stamped>>
            /\ UNCHANGED <<checkVars, githubVars, boundVars>>

(* Run, its first lines: without both sections it returns an error and     *)
(* writes nothing; without a pull request there is nothing to verify.      *)
ReadSections ==
    /\ pc = "read"
    /\ pc' = IF ~task.sections THEN "deliver"
             ELSE IF ~task.prURL THEN "finish" ELSE "pr"
    /\ UNCHANGED <<taskVars, verdictVars, checkVars, githubVars, boundVars>>

(* checkPR: MERGED is accepted as it is, otherwise the pull request must   *)
(* be open and as draft as the deployment creates them.                    *)
CheckPR ==
    /\ pc = "pr"
    /\ pc' = "clone"
    /\ \/ /\ sawMerged' = (pr.state = "merged")
          /\ accepted' = \/ pr.state = "merged"
                         \/ pr.state = "open" /\ pr.draft = (PRTarget = "draft")
          /\ UNCHANGED boundVars
       \/ /\ Fault
          /\ UNCHANGED <<accepted, sawMerged>>
    /\ UNCHANGED <<taskVars, verdictVars, clone, target, checks, githubVars>>

(* CloneAtRef of the branch: a full clone, so origin/master comes with it. *)
(* Without it no local check runs.                                         *)
CloneBranch ==
    /\ pc = "clone"
    /\ \/ /\ branch # Gone
          /\ clone' = [head |-> branch, master |-> released, merged |-> onMaster]
          /\ pc' = "gates"
          /\ UNCHANGED boundVars
       \/ /\ branch = Gone
          /\ pc' = "finish"
          /\ UNCHANGED <<clone, boundVars>>
       \/ /\ Fault
          /\ pc' = "finish"
          /\ UNCHANGED clone
    /\ UNCHANGED <<taskVars, verdictVars, accepted, sawMerged, target, checks,
                   githubVars>>

(* Mutant: a red target is waited for.                                     *)
AwaitGates ==
    /\ pc = "gates"
    /\ target < clone.head.green
    /\ target' = target + 1
    /\ IF target' = task.gates
       THEN /\ checks' = [checks EXCEPT !.gate = TRUE, !.vulns = TRUE]
            /\ pc' = "advisories"
       ELSE UNCHANGED <<checks, pc>>
    /\ UNCHANGED <<taskVars, verdictVars, accepted, sawMerged, clone, githubVars,
                   boundVars>>

(* checkGates, one planned target at a time; no target, no green.  A red   *)
(* one ends this check and leaves the others to run.                       *)
CheckGates ==
    /\ pc = "gates"
    /\ \/ /\ target < task.gates
          /\ target < clone.head.green
          /\ target' = target + 1
          /\ IF target' = task.gates
             THEN /\ checks' = [checks EXCEPT !.gate = TRUE, !.vulns = TRUE]
                  /\ pc' = "advisories"
             ELSE UNCHANGED <<checks, pc>>
          /\ UNCHANGED boundVars
       \/ /\ target = task.gates \/ target = clone.head.green
          /\ pc' = "advisories"
          /\ UNCHANGED <<target, checks, boundVars>>
       \/ /\ Fault                                \* red for a reason of its own
          /\ pc' = "advisories"
          /\ UNCHANGED <<target, checks>>
    /\ UNCHANGED <<taskVars, verdictVars, accepted, sawMerged, clone, githubVars>>

(* Mutant: a satisfied advisory certifies the branch.                      *)
AdvisoryCertifies ==
    /\ pc = "advisories"
    /\ pc' = "changelog"
    /\ checks' = IF task.advisory = "none" THEN checks
                 ELSE [checks EXCEPT !.vulns = task.advisory = "valid"
                                                 /\ clone.head.module = "fixed"]
    /\ UNCHANGED <<taskVars, verdictVars, accepted, sawMerged, clone, target,
                   githubVars, boundVars>>

(* checkAdvisories only ever clears vulns_clear.                           *)
CheckAdvisories ==
    /\ pc = "advisories"
    /\ pc' = "changelog"
    /\ \/ /\ checks' = IF \/ task.advisory = "malformed"
                          \/ task.advisory = "valid" /\ clone.head.module # "fixed"
                       THEN [checks EXCEPT !.vulns = FALSE]
                       ELSE checks
          /\ UNCHANGED boundVars
       \/ /\ task.advisory = "valid"
          /\ Fault
          /\ checks' = [checks EXCEPT !.vulns = FALSE]
    /\ UNCHANGED <<taskVars, verdictVars, accepted, sawMerged, clone, target,
                   githubVars>>

(* checkChangelog: a bullet under ## Unreleased, and no version header     *)
(* that origin/master had not when the branch was cloned.                  *)
CheckChangelog ==
    /\ pc = "changelog"
    /\ pc' = "tags"
    /\ \/ /\ checks' = [checks EXCEPT !.changelog =
                          /\ clone.head.changelog = "bullet"
                          /\ clone.head.headers \subseteq clone.master]
          /\ UNCHANGED boundVars
       \/ /\ Fault
          /\ UNCHANGED checks
    /\ UNCHANGED <<taskVars, verdictVars, accepted, sawMerged, clone, target,
                   githubVars>>

(* checkNoNewTag: the branch's own commits come from the clone, the tags   *)
(* from the remote as it is now.                                           *)
CheckNoNewTag ==
    /\ pc = "tags"
    /\ pc' = "finish"
    /\ \/ /\ checks' = [checks EXCEPT !.noTag = clone.merged \/ ~tagged]
          /\ UNCHANGED boundVars
       \/ /\ Fault
          /\ UNCHANGED checks
    /\ UNCHANGED <<taskVars, verdictVars, accepted, sawMerged, clone, target,
                   githubVars>>

(* Mutants: a rejection goes back to execution; an approval comes without  *)
(* a ## Your Move block.                                                   *)
FinishToExecution ==
    /\ pc = "finish"
    /\ pc' = "deliver"
    /\ section' = [verdict |-> IF Approved THEN "approved" ELSE "rejected",
                   checks |-> checks, head |-> clone.head]
    /\ next' = IF ~Approved THEN "execution"
               ELSE IF sawMerged THEN "done" ELSE "human_review"
    /\ block' = (block \/ (Approved /\ ~sawMerged))
    /\ stamped' = (HasOwner /\ next' = "human_review")
    /\ UNCHANGED <<taskVars, checkVars, githubVars, boundVars>>

FinishSilently ==
    /\ pc = "finish"
    /\ pc' = "deliver"
    /\ section' = [verdict |-> IF Approved THEN "approved" ELSE "rejected",
                   checks |-> checks, head |-> clone.head]
    /\ next' = IF ~Approved THEN "none"
               ELSE IF sawMerged THEN "done" ELSE "human_review"
    /\ stamped' = (HasOwner /\ next' = "human_review")
    /\ UNCHANGED <<taskVars, block, checkVars, githubVars, boundVars>>

(* The end of Run, finish, and humanReviewOwnerStep around them.           *)
Finish ==
    /\ pc = "finish"
    /\ pc' = "deliver"
    /\ section' = [verdict |-> IF Approved THEN "approved" ELSE "rejected",
                   checks |-> checks, head |-> clone.head]
    /\ next' = IF ~Approved THEN "none"
               ELSE IF sawMerged THEN "done" ELSE "human_review"
    /\ block' = (block \/ (Approved /\ ~sawMerged))
    /\ stamped' = (HasOwner /\ next' = "human_review")
    /\ UNCHANGED <<taskVars, checkVars, githubVars, boundVars>>

(* The controller applies NextPhase.  It clears the assignee of a task it  *)
(* moves to human_review unless the result declares a new one.             *)
Deliver ==
    /\ pc = "deliver"
    /\ review' = section
    /\ yourMove' = block
    /\ phase' = IF next = "none" THEN phase ELSE next
    /\ assignee' = IF next # "human_review" THEN assignee
                   ELSE IF stamped THEN "owner" ELSE "none"
    /\ JobOver
    /\ UNCHANGED <<task, triggers, githubVars, boundVars>>

Crash == /\ pc # "idle"
         /\ Fault
         /\ JobOver
         /\ UNCHANGED <<taskVars, githubVars>>

Job == \/ ReadSections \/ CheckPR \/ CloneBranch \/ CheckGates \/ CheckAdvisories
       \/ CheckChangelog \/ CheckNoNewTag \/ Finish \/ Deliver

-----------------------------------------------------------------------------
(* People and the release agent.                                           *)
Act == /\ human < MaxHuman
       /\ human' = human + 1
       /\ UNCHANGED <<faults, pc, verdictVars, checkVars>>

(* A merge commit brings the branch's commits to master, a squash does     *)
(* not; the branch may be deleted with it.                                 *)
MergePR == /\ Act
           /\ pr.state = "open" /\ ~pr.draft
           /\ pr' = [pr EXCEPT !.state = "merged"]
           /\ onMaster' \in BOOLEAN
           /\ branch' \in {branch, Gone}
           /\ UNCHANGED <<taskVars, released, tagged>>

ClosePR == /\ Act
           /\ pr.state = "open"
           /\ pr' = [pr EXCEPT !.state = "closed"]
           /\ UNCHANGED <<taskVars, branch, onMaster, released, tagged>>

FlipDraft == /\ Act
             /\ pr.state = "open"
             /\ pr' = [pr EXCEPT !.draft = ~@]
             /\ UNCHANGED <<taskVars, branch, onMaster, released, tagged>>

PushToBranch == /\ Act
                /\ pr.state = "open"
                /\ branch' \in Heads \ {branch}
                /\ UNCHANGED <<taskVars, pr, onMaster, released, tagged>>

Release == /\ Act
           /\ \E v \in Versions \ released : released' = released \cup {v}
           /\ UNCHANGED <<taskVars, pr, branch, onMaster, tagged>>

TagBranch == /\ Act
             /\ ~tagged
             /\ tagged' = TRUE
             /\ UNCHANGED <<taskVars, pr, branch, onMaster, released>>

(* The operator has the task reviewed again.                               *)
Retrigger == /\ Act
             /\ pc = "idle"
             /\ ~CanStart
             /\ phase' = "ai_review" /\ assignee' = "agent" /\ triggers' = 0
             /\ UNCHANGED <<task, review, yourMove, githubVars>>

People == \/ MergePR \/ ClosePR \/ FlipDraft \/ PushToBranch \/ Release
          \/ TagBranch \/ Retrigger

Settled == /\ pc = "idle"
           /\ ~CanStart
           /\ human = MaxHuman
           /\ UNCHANGED vars

Next == StartJob \/ Job \/ Crash \/ People \/ Settled

Spec == Init /\ [][Next]_vars

FairSpec == Spec /\ WF_vars(StartJob) /\ WF_vars(Job)

-----------------------------------------------------------------------------
TypeOK ==
    /\ task \in Tasks
    /\ phase \in {"ai_review", "human_review", "done"}
    /\ review \in ReviewType
    /\ yourMove \in BOOLEAN
    /\ assignee \in {"agent", "owner", "none"}
    /\ triggers \in 0..TriggerCap
    /\ pc \in Pcs
    /\ section \in ReviewType
    /\ block \in BOOLEAN
    /\ next \in {"none", "human_review", "done"}
    /\ stamped \in BOOLEAN
    /\ accepted \in BOOLEAN
    /\ sawMerged \in BOOLEAN
    /\ clone \in [head : Heads \cup {Gone}, master : SUBSET Versions, merged : BOOLEAN]
    /\ target \in Nat
    /\ checks \in ChecksType
    /\ pr \in [state : {"open", "merged", "closed"}, draft : BOOLEAN]
    /\ branch \in Heads \cup {Gone}
    /\ onMaster \in BOOLEAN
    /\ released \subseteq Versions
    /\ tagged \in BOOLEAN
    /\ faults \in 0..MaxFaults
    /\ human \in 0..MaxHuman

(* The definition an approval is measured against: every planned target    *)
(* green on it and at least one planned, the advisory's module at its      *)
(* fixed version, a changelog bullet, no version header of its own.        *)
Approvable(head) ==
    /\ task.gates > 0 /\ head.green >= task.gates
    /\ task.advisory # "malformed"
    /\ task.advisory = "valid" => head.module = "fixed"
    /\ head.changelog = "bullet"
    /\ head.headers \subseteq released

(* A task gets past review only with a ## Review that approved a content   *)
(* of the branch that was approvable, through crashes, half-failed runs    *)
(* and re-triggers; a re-trigger that rejects keeps it where it is.        *)
ApprovedWasVerified ==
    /\ review.verdict = "approved" => Approvable(review.head)
    /\ phase # "ai_review" => review.verdict = "approved"

(* A satisfied advisory never certifies a red gate, and a green gate never *)
(* outweighs an unsatisfied advisory (checkAdvisories' contract).          *)
VulnsClearIsEarned ==
    \A r \in {review, section} :
        r.checks.vulns =>
            /\ r.checks.gate
            /\ task.advisory # "malformed"
            /\ task.advisory = "valid" => r.head.module = "fixed"

(* A task routed to human_review tells its owner what to do and is his; a  *)
(* task routed to done has shipped: its pull request is merged.            *)
HandOffIsActionable ==
    /\ phase = "human_review" =>
          yourMove /\ assignee = (IF HasOwner THEN "owner" ELSE "none")
    /\ phase = "done" => pr.state = "merged"

(* However often Jobs fail, review ends.                                   *)
ReviewSettles == <>[](pc = "idle" /\ ~CanStart)

-----------------------------------------------------------------------------
(* Statements of the comments the code does not keep.                      *)

(* steps_review.go, checkPR: a MERGED pull request is "the shipped success *)
(* state and is accepted without notes (the review routes approved -> done *)
(* so the task auto-completes)".                                           *)
MergedTaskCompletes == pc = "deliver" /\ sawMerged => next = "done"

(* steps_review.go, Run: "Any false -> ## Review approved:false + Status   *)
(* Failed, NO NextPhase, NO ## Your Move block".                           *)
RejectedHasNoYourMove == pc = "deliver" /\ section.verdict = "rejected" => ~block
=============================================================================
