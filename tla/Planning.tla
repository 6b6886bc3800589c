------------------------------ MODULE Planning ------------------------------
(***************************************************************************)
(* The planning phase of an update task: preconditions, the consent of the *)
(* repository, the scanner table its own gate targets give, the model's    *)
(* plan held against that table, and the routing of the task               *)
(* (pkg/steps_planning.go, scanner_table.go, advisory.go, workflow_pin.go, *)
(* installation_scope.go, maintainerconfig/fetcher.go), with the two       *)
(* preflight steps that precede it in the phase (steps_claude_auth.go,     *)
(* steps_gh_token.go).                                                     *)
(*                                                                         *)
(* A gate target's output is the sequence of rows parseScannerOutput finds *)
(* in it; a row is an advisory ID, whether a fixed version is known, and   *)
(* whether the task's advisory or a scanner reported it.  The workflows of *)
(* the repository are one Boolean, pinned: a plain go-version pin is there.*)
(***************************************************************************)
EXTENDS SequencesExt, Selection, UpdateScope, Naturals

CONSTANTS Tasks,         \* task files, see the assumption
          Repos,         \* contents the default branch may have
          Answers,       \* plans the model may answer
          Ids,           \* advisory IDs
          DefaultScope,  \* UPDATE_SCOPE of the deployment
          HasOwner,      \* HUMAN_REVIEW_OWNER is configured
          TriggerCap,    \* Jobs the controller starts for the phase
          MaxFaults,     \* bound: crashes and failed calls
          MaxHuman       \* bound: acts of people

Rows == [id : Ids, fixed : BOOLEAN, from : {"external", "scanner"}]

(* What a gate target prints, and whether it is green.                     *)
Outputs == [ok : BOOLEAN, rows : Seq([id : Ids, fixed : BOOLEAN, from : {"scanner"}])]

Vulns == [id : Ids, kind : VulnKinds, action : {"fix", "park"}]

(* What .maintainer.yaml says at the commit the task was filed for.        *)
Consents == {"absent", "invalid", "false", "true"}

(* "claim" is a needs_input whose reason blames the agent's environment.   *)
Outcomes == {"ready", "no_update_needed", "needs_input", "claim"}

ASSUME PlanningAssumption ==
    /\ Tasks \subseteq [required : BOOLEAN, wellFormed : BOOLEAN, consent : Consents,
                        scope : ScopeFields, advisory : Ids \cup {"none", "malformed"}]
    /\ Repos \subseteq [pinned : BOOLEAN, suppressed : SUBSET Ids, targets : Seq(Outputs)]
    /\ Answers \subseteq [outcome : Outcomes, go : BOOLEAN, deps : BOOLEAN,
                          vulns : SUBSET Vulns]
    /\ DefaultScope \in Scopes
    /\ HasOwner \in BOOLEAN
    /\ TriggerCap \in Nat \ {0}
    /\ MaxFaults \in Nat
    /\ MaxHuman \in Nat

VARIABLES
    \* the task file
    task,      \* its frontmatter
    phase,
    plan,      \* the ## Plan section
    assignee,  \* "agent", "owner" or "none"
    triggers,
    \* the running Job
    pc,
    section,   \* the ## Plan of the Job's copy of the task file
    status,    \* what Run returns
    next,      \* and its NextPhase, "none" without one
    stamped,   \* assignee and assignee_reassigned_by are set in the copy
    clone,     \* the default branch as cloned
    target,    \* gate targets run so far
    table,     \* the scanner table
    \* the outside
    repo,      \* the default branch as it is
    covered,   \* the App installation covers the repository
    faults,
    human

taskVars == <<task, phase, plan, assignee, triggers>>
returnVars == <<section, status, next, stamped>>
scanVars == <<clone, target, table>>
outsideVars == <<repo, covered>>
boundVars == <<faults, human>>
vars == <<taskVars, pc, returnVars, scanVars, outsideVars, boundVars>>

NoClone == [pinned |-> FALSE, suppressed |-> {}, targets |-> <<>>]

(* on and advisory, what the plan was made from, are kept for the          *)
(* properties; warning is ConfigFetchWarning.                              *)
NoPlan == [outcome |-> "none", go |-> FALSE, deps |-> FALSE, vulns |-> {}, gates |-> 0,
           warning |-> FALSE, on |-> NoClone, advisory |-> "none"]

Pcs == {"idle", "claudeauth", "token", "required", "installation", "consent", "scope", "clone", "pins",
        "targets", "gates", "suppress", "inspect", "deliver"}

-----------------------------------------------------------------------------
(* The scanner table                                                       *)

AdvisoryRows == IF task.advisory \in Ids
                THEN <<[id |-> task.advisory, fixed |-> TRUE, from |-> "external"]>>
                ELSE <<>>

(* Mutant: any scanner row beats the advisory's.                           *)
CollapsePreferringScanners(t) ==
    LET external == SelectInSeq(t, LAMBDA r : r.from = "external")
        id       == t[external].id
        rival    == SelectInSeq(t, LAMBDA r : r.id = id /\ r.from = "scanner")
        winner   == IF rival = 0 THEN external ELSE rival
    IN  IF external = 0 THEN t
        ELSE KeepAt(t, {i \in 1..Len(t) : t[i].id # id \/ i = winner})

(* One row for the ID the advisory introduced: the first scanner row with  *)
(* a fixed version, else the advisory's own.                               *)
CollapseExternalDuplicates(t) ==
    LET external == SelectInSeq(t, LAMBDA r : r.from = "external")
        id       == t[external].id
        better   == SelectInSeq(t, LAMBDA r : r.id = id /\ r.from = "scanner" /\ r.fixed)
        winner   == IF better = 0 THEN external ELSE better
    IN  IF external = 0 THEN t
        ELSE KeepAt(t, {i \in 1..Len(t) : t[i].id # id \/ i = winner})

FilterSuppressed(t, suppressed) == KeepAt(t, {i \in 1..Len(t) : t[i].id \notin suppressed})

IdsOf(t) == {r.id : r \in ToSet(t)}

-----------------------------------------------------------------------------
(* The plan                                                                *)

(* runInspection, after the model has answered.                            *)
Inspected(answer) ==
    [outcome |-> answer.outcome, go |-> answer.go, deps |-> answer.deps,
     vulns |-> {v \in answer.vulns : v.id \notin clone.suppressed},
     gates |-> Len(clone.targets), warning |-> FALSE,
     on |-> clone, advisory |-> task.advisory]

(* Mutant: a plan is validated only when there is a table.                 *)
IsGroundedIfScanned(p) == table = <<>> \/ \A v \in p.vulns : v.id \in IdsOf(table)

(* validatePlanAgainstTable                                                *)
IsGrounded(p) == \A v \in p.vulns : v.id \in IdsOf(table)

(* The plan as the scope operators see it.                                 *)
Shape(p) == [go |-> p.go, deps |-> p.deps, vulns |-> {v.kind : v \in p.vulns}]

Scope == ResolveUpdateScope(task.scope, DefaultScope)

HasWork(p) == HasWorkForScope(Shape(p), Scope)

InScope(p) ==
    LET scoped == AppliesScope(Shape(p), Scope)
    IN  [p EXCEPT !.go = scoped.go, !.deps = scoped.deps,
                  !.vulns = {v \in @ : v.kind \in scoped.vulns}]

ParkFindings(p) == {v \in p.vulns : v.action = "park"}

(* Mutants: the model's label decides alone, or widens the close.          *)
ClosedByLabel(p) == p.outcome = "no_update_needed"

ClosedByLabelToo(p) == p.outcome = "no_update_needed" \/ ~HasWork(p)

ShouldClose(p) == ~HasWork(p)

-----------------------------------------------------------------------------
Fault == /\ faults < MaxFaults
         /\ faults' = faults + 1
         /\ UNCHANGED human

(* Mutant: the planning step is not wrapped.                               *)
ReturnUnowned(s, n) == /\ status' = s
                       /\ next' = n
                       /\ stamped' = FALSE
                       /\ pc' = "deliver"

(* humanReviewOwnerStep wraps the step, so every result passes here.       *)
Return(s, n) == /\ status' = s
                /\ next' = n
                /\ stamped' = (HasOwner /\ n = "human_review")
                /\ pc' = "deliver"

Failed == Return("failed", "none") /\ UNCHANGED section
NeedsInput == Return("needs_input", "none") /\ UNCHANGED section

Goto(label) == /\ pc' = label
               /\ UNCHANGED returnVars

CanStart == /\ pc = "idle"
            /\ phase = "planning"
            /\ assignee = "agent"
            /\ triggers < TriggerCap

-----------------------------------------------------------------------------
Init == /\ task \in Tasks
        /\ phase = "planning" /\ plan = NoPlan /\ assignee = "agent" /\ triggers = 0
        /\ pc = "idle"
        /\ section = NoPlan /\ status = "failed" /\ next = "none" /\ stamped = FALSE
        /\ clone = NoClone /\ target = 0 /\ table = <<>>
        /\ repo \in Repos /\ covered \in BOOLEAN
        /\ faults = 0 /\ human = 0

JobOver == /\ pc' = "idle"
           /\ section' = NoPlan /\ status' = "failed" /\ next' = "none" /\ stamped' = FALSE
           /\ clone' = NoClone /\ target' = 0 /\ table' = <<>>

StartJob == /\ CanStart
            /\ pc' = "claudeauth"
            /\ triggers' = triggers + 1
            /\ section' = plan
            /\ UNCHANGED <<task, phase, plan, assignee, status, next, stamped>>
            /\ UNCHANGED <<scanVars, outsideVars, boundVars>>

(* claudeAuthStep and ghTokenCheckStep, the two steps before this one: a    *)
(* probe or a call that fails is retried, a bad token waits for a person.  *)
VerifyClaudeAuth ==
    /\ pc = "claudeauth"
    /\ \/ /\ Goto("token")
          /\ UNCHANGED boundVars
       \/ /\ Fault
          /\ Failed
    /\ UNCHANGED <<taskVars, scanVars, outsideVars>>

VerifyGHToken ==
    /\ pc = "token"
    /\ \/ /\ Goto("required")
          /\ UNCHANGED boundVars
       \/ /\ Fault
          /\ Failed \/ NeedsInput
    /\ UNCHANGED <<taskVars, scanVars, outsideVars>>

ReadRequired ==
    /\ pc = "required"
    /\ IF task.required THEN Goto("installation") ELSE NeedsInput
    /\ UNCHANGED <<taskVars, scanVars, outsideVars, boundVars>>

(* Allows: a failed listing is the verdict unknown, which is no denial.    *)
CheckInstallation ==
    /\ pc = "installation"
    /\ \/ /\ IF covered THEN Goto("consent") ELSE NeedsInput
          /\ UNCHANGED boundVars
       \/ /\ Fault
          /\ Goto("consent")
    /\ UNCHANGED <<taskVars, scanVars, outsideVars>>

(* skipAutoUpdate, and failInvalidConfig.                                  *)
SkipAutoUpdate(warning) ==
    /\ section' = [NoPlan EXCEPT !.outcome = "no_update_needed", !.warning = warning]
    /\ Return("done", "done")

FailInvalidConfig ==
    /\ section' = [NoPlan EXCEPT !.outcome = "failed"]
    /\ Return("failed", "human_review")

(* Mutant: a fetch that fails is taken for consent.                        *)
GateOnKnownRefusal ==
    /\ pc = "consent"
    /\ \/ /\ IF ~task.wellFormed THEN Failed
             ELSE CASE task.consent \in {"absent", "false"} -> SkipAutoUpdate(FALSE)
                    [] task.consent = "invalid" -> FailInvalidConfig
                    [] task.consent = "true" -> Goto("scope")
          /\ UNCHANGED boundVars
       \/ /\ task.wellFormed
          /\ Fault
          /\ Goto("scope")
    /\ UNCHANGED <<taskVars, scanVars, outsideVars>>

(* gateOnAutoUpdate.  A fetch that fails is taken for a refusal.           *)
GateOnAutoUpdate ==
    /\ pc = "consent"
    /\ \/ /\ IF ~task.wellFormed THEN Failed
             ELSE CASE task.consent \in {"absent", "false"} -> SkipAutoUpdate(FALSE)
                    [] task.consent = "invalid" -> FailInvalidConfig
                    [] task.consent = "true" -> Goto("scope")
          /\ UNCHANGED boundVars
       \/ /\ task.wellFormed
          /\ Fault
          /\ SkipAutoUpdate(TRUE)
    /\ UNCHANGED <<taskVars, scanVars, outsideVars>>

ResolveScope ==
    /\ pc = "scope"
    /\ IF Scope \in Scopes THEN Goto("clone") ELSE Failed
    /\ UNCHANGED <<taskVars, scanVars, outsideVars, boundVars>>

(* resolveAndClone: the current default branch, whatever the task pins.    *)
ResolveAndClone ==
    /\ pc = "clone"
    /\ \/ /\ clone' = repo
          /\ Goto("pins")
          /\ UNCHANGED boundVars
       \/ /\ Fault
          /\ Failed
          /\ UNCHANGED clone
    /\ UNCHANGED <<taskVars, target, table, outsideVars>>

CiPinPreflight ==
    /\ pc = "pins"
    /\ IF clone.pinned THEN NeedsInput ELSE Goto("targets")
    /\ UNCHANGED <<taskVars, scanVars, outsideVars, boundVars>>

(* detectGateTargets, and the lines of buildScannerTable before its loop.  *)
DetectGateTargets ==
    /\ pc = "targets"
    /\ IF clone.targets = <<>> \/ task.advisory = "malformed"
       THEN /\ NeedsInput
            /\ UNCHANGED table
       ELSE /\ Goto("gates")
            /\ table' = AdvisoryRows
    /\ UNCHANGED <<taskVars, clone, target, outsideVars, boundVars>>

(* Mutant: a red target without findings is run again.                     *)
RetryGateTarget ==
    /\ pc = "gates"
    /\ LET output == clone.targets[target + 1]
       IN  /\ output.ok \/ output.rows # <<>>
           /\ target' = target + 1
           /\ table' = IF target' < Len(clone.targets) THEN table \o output.rows
                       ELSE CollapseExternalDuplicates(table \o output.rows)
           /\ Goto(IF target' < Len(clone.targets) THEN "gates" ELSE "suppress")
    /\ UNCHANGED <<taskVars, clone, outsideVars, boundVars>>

(* The loop of buildScannerTable; a target may also fail for a reason of   *)
(* its own, and print no finding.                                          *)
RunGateTarget ==
    /\ pc = "gates"
    /\ \/ /\ LET output == clone.targets[target + 1]
             IN  IF ~output.ok /\ output.rows = <<>>
                 THEN /\ NeedsInput
                      /\ UNCHANGED <<target, table>>
                 ELSE /\ target' = target + 1
                      /\ IF target' < Len(clone.targets)
                         THEN /\ table' = table \o output.rows
                              /\ Goto("gates")
                         ELSE /\ table' = CollapseExternalDuplicates(table \o output.rows)
                              /\ Goto("suppress")
          /\ UNCHANGED boundVars
       \/ /\ Fault
          /\ NeedsInput
          /\ UNCHANGED <<target, table>>
    /\ UNCHANGED <<taskVars, clone, outsideVars>>

(* loadSuppressedVulnIDs and FilterSuppressed.                             *)
Suppress ==
    /\ pc = "suppress"
    /\ table' = FilterSuppressed(table, clone.suppressed)
    /\ Goto("inspect")
    /\ UNCHANGED <<taskVars, clone, target, outsideVars, boundVars>>

(* Run, after runInspection and appliesScope.  The clone is still there,   *)
(* which refutes every claim about the environment.                        *)
Classify(p) ==
    IF ParkFindings(p) = {} /\ p.outcome = "claim"
    THEN Failed
    ELSE /\ section' = p
         /\ IF ParkFindings(p) # {} \/ p.outcome = "needs_input"
            THEN Return("needs_input", "none")
            ELSE Return("done", IF ShouldClose(p) THEN "done" ELSE "execution")

(* The model's call fails, does not parse, or gives a plan.                *)
Inspect ==
    /\ pc = "inspect"
    /\ \/ /\ \E answer \in Answers :
                IF IsGrounded(Inspected(answer))
                THEN Classify(InScope(Inspected(answer)))
                ELSE Failed
          /\ UNCHANGED boundVars
       \/ /\ Fault
          /\ Failed
    /\ UNCHANGED <<taskVars, scanVars, outsideVars>>

(* The controller applies NextPhase, and takes a parked task, or one it    *)
(* moves to human_review without a declared owner, from its assignee.      *)
Deliver ==
    /\ pc = "deliver"
    /\ plan' = section
    /\ phase' = IF next = "none" THEN phase ELSE next
    /\ assignee' = IF stamped THEN "owner"
                   ELSE IF status = "needs_input" \/ next = "human_review" THEN "none"
                   ELSE assignee
    /\ JobOver
    /\ UNCHANGED <<task, triggers, outsideVars, boundVars>>

Crash == /\ pc # "idle"
         /\ Fault
         /\ JobOver
         /\ UNCHANGED <<taskVars, outsideVars>>

Job == \/ VerifyClaudeAuth \/ VerifyGHToken \/ ReadRequired \/ CheckInstallation
       \/ GateOnAutoUpdate \/ ResolveScope \/ ResolveAndClone \/ CiPinPreflight
       \/ DetectGateTargets \/ RunGateTarget \/ Suppress \/ Inspect \/ Deliver

-----------------------------------------------------------------------------
(* People.                                                                 *)
Act == /\ human < MaxHuman
       /\ human' = human + 1
       /\ UNCHANGED <<faults, pc, returnVars, scanVars>>

(* A push to the default branch: new code, a suppression, a mended gate.   *)
PushToDefaultBranch ==
    /\ Act
    /\ repo' \in Repos \ {repo}
    /\ UNCHANGED <<taskVars, covered>>

ChangeInstallation == /\ Act
                      /\ covered' = ~covered
                      /\ UNCHANGED <<taskVars, repo>>

(* The operator corrects the frontmatter and has the task planned again.   *)
Redelegate == /\ Act
              /\ pc = "idle"
              /\ ~CanStart
              /\ task' \in Tasks
              /\ phase' = "planning" /\ assignee' = "agent" /\ triggers' = 0
              /\ UNCHANGED <<plan, outsideVars>>

People == PushToDefaultBranch \/ ChangeInstallation \/ Redelegate

Settled == /\ pc = "idle"
           /\ ~CanStart
           /\ human = MaxHuman
           /\ UNCHANGED vars

Next == StartJob \/ Job \/ Crash \/ People \/ Settled

Spec == Init /\ [][Next]_vars

FairSpec == Spec /\ WF_vars(StartJob) /\ WF_vars(Job)

-----------------------------------------------------------------------------
PlanType == [outcome : Outcomes \cup {"none", "failed"}, go : BOOLEAN, deps : BOOLEAN,
             vulns : SUBSET Vulns, gates : Nat, warning : BOOLEAN,
             on : Repos \cup {NoClone}, advisory : Ids \cup {"none", "malformed"}]

TypeOK ==
    /\ task \in Tasks
    /\ phase \in {"planning", "execution", "human_review", "done"}
    /\ plan \in PlanType
    /\ assignee \in {"agent", "owner", "none"}
    /\ triggers \in 0..TriggerCap
    /\ pc \in Pcs
    /\ section \in PlanType
    /\ status \in {"done", "failed", "needs_input"}
    /\ next \in {"none", "execution", "human_review", "done"}
    /\ stamped \in BOOLEAN
    /\ clone \in Repos \cup {NoClone}
    /\ target \in 0..Len(clone.targets)
    /\ table \in Seq(Rows)
    /\ repo \in Repos
    /\ covered \in BOOLEAN
    /\ faults \in 0..MaxFaults
    /\ human \in 0..MaxHuman

(* Every advisory ID the targets of a content report, and the task's own.  *)
Reported(on, advisory) ==
    (UNION {IdsOf(on.targets[i].rows) : i \in 1..Len(on.targets)}) \cup ({advisory} \cap Ids)

(* The table the model gets loses no finding and invents none: it holds    *)
(* exactly the reported IDs that nobody suppressed, the advisory's once    *)
(* and with a fixed version (buildScannerTable, collapseExternalDuplicates,*)
(* FilterSuppressed).                                                      *)
TableIsComplete ==
    pc = "inspect" =>
        /\ IdsOf(table) = Reported(clone, task.advisory) \ clone.suppressed
        /\ task.advisory \in IdsOf(table) =>
              \E i \in 1..Len(table) :
                  /\ table[i].fixed
                  /\ \A j \in 1..Len(table) : table[j].id = task.advisory <=> j = i

(* Whatever the model answers, no plan in the task file names an advisory  *)
(* that neither a gate target nor the task reported, or one the repository *)
(* suppresses: a suppressed finding never parks a task again.              *)
VulnsAreGroundTruth ==
    \A v \in plan.vulns : v.id \in Reported(plan.on, plan.advisory) \ plan.on.suppressed

(* A task planning sends to execution is one that execution accepts: its   *)
(* validatePlan, on the delivered file and with the scope it resolves      *)
(* itself, finds work and gate targets.                                    *)
ExecutionAcceptsPlan ==
    phase = "execution" =>
        /\ task.required
        /\ Scope \in Scopes
        /\ HasWork(plan)
        /\ plan.gates > 0

(* Execution is reached only with the repository's consent at the commit   *)
(* the task names, from a content without a plain workflow pin, and with   *)
(* nothing left that a person has to decide.                               *)
ExecutionIsVetted ==
    phase = "execution" =>
        /\ task.consent = "true"
        /\ task.advisory # "malformed"
        /\ ~plan.on.pinned
        /\ ParkFindings(plan) = {}

(* A task closed by planning refused the update, carries the warning that  *)
(* its consent could not be read, or has no work in its scope, whatever    *)
(* label the model gave its plan (shouldClose).                            *)
NoWorkIsClosed ==
    phase = "done" =>
        \/ task.consent \in {"absent", "false"}
        \/ plan.warning
        \/ plan.gates > 0 /\ ~HasWork(plan)

(* Only an invalid configuration goes to human_review, it says so in the   *)
(* plan, and it has an owner there if the deployment names one.            *)
HandOffIsActionable ==
    phase = "human_review" =>
        /\ task.consent = "invalid" /\ plan.outcome = "failed"
        /\ assignee = (IF HasOwner THEN "owner" ELSE "none")

(* Every variable has its type, and the phase agrees with the plan.        *)
WellFormed == TypeOK /\ HandOffIsActionable

(* However often Jobs fail, planning ends.                                 *)
PlanningSettles == <>[](pc = "idle" /\ ~CanStart)
=============================================================================
