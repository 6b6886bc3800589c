------------------------------ MODULE Pipeline ------------------------------
(***************************************************************************)
(* The three update phases of pkg/factory/factory.go composed: several     *)
(* task files of one repository, each carried through planning, execution  *)
(* and ai_review by Jobs of its own, over one remote.  The branch is named *)
(* after the ref a task was filed at, so tasks filed at the same head      *)
(* share it, and what one of them adopts another may have built.           *)
(*                                                                         *)
(* The phases are taken from Planning, Execution and Review with only the  *)
(* steps that read or change what tasks share.  The content of a branch is *)
(* the set of needs (outdated dependencies, advisories) it settles.        *)
(***************************************************************************)
EXTENDS Naturals, Sequences

CONSTANTS Tasks,        \* task files of the repository
          Needs,        \* what updates can settle
          Want,         \* [Tasks -> Needs]: what each task was filed for
          Advised,      \* the tasks whose frontmatter has an advisory block
          Refs,
          Filings,      \* ways to file some of the tasks: functions to Refs
          TriggerCap,   \* Jobs the controller starts per task and phase
          MaxFaults,    \* bound: crashes, failed calls and lost answers
          MaxHuman      \* bound: acts of people

ASSUME PipelineAssumption ==
    /\ Want \in [Tasks -> Needs]
    /\ Advised \subseteq Tasks
    /\ Filings \subseteq UNION {[S -> Refs] : S \in SUBSET Tasks}
    /\ TriggerCap \in Nat \ {0}
    /\ MaxFaults \in Nat /\ MaxHuman \in Nat

VARIABLES
    \* the task files
    ref,       \* the ref each filed one is at, and so its branch; never changes
    phase,     \* [Tasks -> "planning" .. "done"]
    file,      \* the sections each holds
    triggers,
    held,      \* the assignee was cleared: a person has to hand it back
    \* the Jobs
    pc,
    copy,      \* a Job's copy of the sections
    next,      \* its NextPhase; "none" with Status Failed, "held" to park
    content,   \* what its worktree settles
    below,     \* Jobs whose worktree has all of their branch, as it is now, below it
    accepted,  \* review's first look at the pull request
    \* GitHub
    master,    \* what the default branch settles
    branch,    \* the branch of a ref
    prs,       \* the pull requests, oldest first
    faults,
    human

taskVars == <<ref, phase, file, triggers, held>>
jobVars == <<pc, copy, next, content, below, accepted>>
githubVars == <<master, branch, prs>>
boundVars == <<faults, human>>
vars == <<taskVars, jobVars, githubVars, boundVars>>

NoBranch == [there |-> FALSE, content |-> {}, merged |-> FALSE]

(* plan is what the result was made for; the code does not record it.      *)
NoResult == [outcome |-> "none", pr |-> 0, plan |-> {}]

(* seen is what the verdict was given on.                                  *)
NoReview == [verdict |-> "none", seen |-> {}]

NoSections == [planned |-> FALSE, plan |-> {}, result |-> NoResult, review |-> NoReview]

Phases == {"planning", "execution", "ai_review", "human_review", "done"}

Pcs == {"idle", "plan", "replay", "findpr", "lsremote", "adopt", "openadopted", "build",
        "push", "openpr", "viewpr", "verify", "deliver"}

ResultType == [outcome : {"none", "opened", "adopted", "no_update_needed", "failed"},
               pr : Nat, plan : SUBSET Needs]

SectionsType == [planned : BOOLEAN, plan : SUBSET Needs, result : ResultType,
                 review : [verdict : {"none", "approved", "rejected"}, seen : SUBSET Needs]]

PRType == [ref : Refs, by : Tasks, content : SUBSET Needs,
           state : {"open", "merged", "closed"}]

OpenPRs(r) == {i \in DOMAIN prs : prs[i].ref = r /\ prs[i].state = "open"}

-----------------------------------------------------------------------------
Init == /\ ref \in Filings
        /\ phase = [t \in Tasks |-> "planning"]
        /\ file = [t \in Tasks |-> NoSections]
        /\ triggers = [t \in Tasks |-> 0]
        /\ held = [t \in Tasks |-> FALSE]
        /\ pc = [t \in Tasks |-> "idle"]
        /\ copy = [t \in Tasks |-> NoSections]
        /\ next = [t \in Tasks |-> "none"]
        /\ content = [t \in Tasks |-> {}] /\ below = {}
        /\ accepted = [t \in Tasks |-> "no"]
        /\ master = {} /\ branch = [r \in Refs |-> NoBranch] /\ prs = <<>>
        /\ faults = 0 /\ human = 0

Fault == faults < MaxFaults /\ faults' = faults + 1 /\ UNCHANGED human

NoFault == UNCHANGED boundVars

Goto(t, label) == /\ pc' = [pc EXCEPT ![t] = label]
                  /\ UNCHANGED <<copy, next>>

(* The return of a phase: the section it writes and where it sends the     *)
(* task.                                                                   *)
Return(t, sections, nextPhase) == /\ copy' = [copy EXCEPT ![t] = sections]
                                  /\ next' = [next EXCEPT ![t] = nextPhase]
                                  /\ pc' = [pc EXCEPT ![t] = "deliver"]

Report(t, outcome, pr, nextPhase) ==
    Return(t, [copy[t] EXCEPT !.result =
                  [outcome |-> outcome, pr |-> pr, plan |-> copy[t].plan]], nextPhase)

Fail(t) == Report(t, "failed", 0, "none")

CanStart(t) == /\ t \in DOMAIN ref
               /\ pc[t] = "idle"
               /\ phase[t] \in {"planning", "execution", "ai_review"}
               /\ ~held[t]
               /\ triggers[t] < TriggerCap

FirstStep == [planning |-> "plan", execution |-> "replay", ai_review |-> "viewpr"]

StartJob(t) ==
    /\ CanStart(t)
    /\ pc' = [pc EXCEPT ![t] = FirstStep[phase[t]]]
    /\ triggers' = [triggers EXCEPT ![t] = @ + 1]
    /\ copy' = [copy EXCEPT ![t] = file[t]]
    /\ UNCHANGED <<ref, phase, file, held, next, content, below, accepted, githubVars,
                   boundVars>>

-----------------------------------------------------------------------------
(* planning.                                                               *)

(* What the plan holds is the model's doing: it may leave out what the     *)
(* task was filed for, and find more.  A plan without work closes the      *)
(* task.  Parking and failing stand for all the early returns.             *)
Plan(t) ==
    /\ pc[t] = "plan"
    /\ \/ \E plan \in SUBSET (Needs \ master) :
            Return(t, [copy[t] EXCEPT !.planned = TRUE, !.plan = plan],
                   IF plan = {} THEN "done" ELSE "execution")
       \/ Return(t, copy[t], "held")
       \/ Return(t, copy[t], "none")
    /\ UNCHANGED <<taskVars, content, below, accepted, githubVars, boundVars>>

-----------------------------------------------------------------------------
(* execution.                                                              *)

(* replayGuard, by the ## Result alone.                                    *)
Replay(t) ==
    /\ pc[t] = "replay"
    /\ IF copy[t].result.outcome \in {"opened", "adopted"}
       THEN Return(t, copy[t], "ai_review")
       ELSE Goto(t, "findpr")
    /\ UNCHANGED <<taskVars, content, below, accepted, githubVars, boundVars>>

(* adoptExistingPR, by the name of the branch alone.                       *)
AdoptExistingPR(t) ==
    /\ pc[t] = "findpr"
    /\ \/ /\ OpenPRs(ref[t]) = {}
          /\ Goto(t, "lsremote")
          /\ NoFault
       \/ /\ \E i \in OpenPRs(ref[t]) : Report(t, "adopted", i, "ai_review")
          /\ NoFault
       \/ Fault /\ Goto(t, "lsremote")
    /\ UNCHANGED <<taskVars, content, below, accepted, githubVars>>

(* adoptPushedBranch.                                                      *)
AdoptPushedBranch(t) ==
    /\ pc[t] = "lsremote"
    /\ \/ Goto(t, IF branch[ref[t]].there THEN "adopt" ELSE "build") /\ NoFault
       \/ Fault /\ Goto(t, "build")
    /\ UNCHANGED <<taskVars, content, below, accepted, githubVars>>

(* openPRFromPushedBranch, its clone.                                      *)
CloneBranch(t) ==
    /\ pc[t] = "adopt"
    /\ \/ /\ branch[ref[t]].there
          /\ Goto(t, "openadopted")
          /\ NoFault
       \/ /\ ~branch[ref[t]].there
          /\ Fail(t)
          /\ NoFault
       \/ Fault /\ Fail(t)
    /\ UNCHANGED <<taskVars, content, below, accepted, githubVars>>

(* The clone of the current default branch with its history, the update    *)
(* and its gates: they fail, change nothing that counts, or settle some of *)
(* what is open.                                                           *)
Build(t) ==
    /\ pc[t] = "build"
    /\ \/ /\ \E settled \in (SUBSET (Needs \ master)) \ {{}} :
               content' = [content EXCEPT ![t] = master \cup settled]
          /\ below' = IF branch[ref[t]].merged THEN below \cup {t} ELSE below
          /\ Goto(t, "push")
       \/ Report(t, "no_update_needed", 0, "done") /\ UNCHANGED <<content, below>>
       \/ Fail(t) /\ UNCHANGED <<content, below>>
    /\ UNCHANGED <<taskVars, accepted, githubVars, boundVars>>

(* The branch holds the worktree's commit now, which is new to the clones  *)
(* of all others.                                                          *)
Moves(t) ==
    /\ branch' = [branch EXCEPT ![ref[t]] =
                    [there |-> TRUE, content |-> content[t], merged |-> FALSE]]
    /\ below' = {u \in below : ref[u] # ref[t]}

(* Mutant: the push is forced.                                             *)
PushForced(t) ==
    /\ pc[t] = "push"
    /\ Moves(t)
    /\ Goto(t, "openpr")
    /\ NoFault
    /\ UNCHANGED <<taskVars, content, accepted, master, prs>>

(* Push, not forced: the remote takes a new branch and a fast-forward, and *)
(* refuses to move any other branch.  The answer may be lost.              *)
FastForward(t) == ~branch[ref[t]].there \/ t \in below

Push(t) ==
    /\ pc[t] = "push"
    /\ \/ /\ FastForward(t)
          /\ Moves(t)
          /\ \/ Goto(t, "openpr") /\ NoFault
             \/ Fault /\ Fail(t)
       \/ /\ ~FastForward(t)
          /\ Fail(t)
          /\ UNCHANGED <<branch, below>> /\ NoFault
    /\ UNCHANGED <<taskVars, content, accepted, master, prs>>

(* CreatePR: GitHub refuses a second open pull request of a branch, one of *)
(* a branch that is gone, and one without commits.                         *)
CanOpen(r) == /\ OpenPRs(r) = {}
              /\ branch[r].there
              /\ ~branch[r].merged

CreatePR(t) ==
    /\ pc[t] \in {"openpr", "openadopted"}
    /\ \/ /\ CanOpen(ref[t])
          /\ prs' = Append(prs, [ref |-> ref[t], by |-> t, state |-> "open",
                                 content |-> branch[ref[t]].content])
          /\ \/ Report(t, "opened", Len(prs) + 1, "ai_review") /\ NoFault
             \/ Fault /\ Fail(t)
       \/ /\ ~CanOpen(ref[t])
          /\ Fail(t)
          /\ UNCHANGED prs /\ NoFault
    /\ UNCHANGED <<taskVars, content, below, accepted, master, branch>>

-----------------------------------------------------------------------------
(* ai_review.                                                              *)

(* checkPR, of the pull request ## Result names.                           *)
ViewPR(t) ==
    /\ pc[t] = "viewpr"
    /\ LET pr == copy[t].result.pr
       IN  \/ /\ accepted' = [accepted EXCEPT ![t] =
                                IF prs[pr].state = "closed" THEN "no" ELSE prs[pr].state]
              /\ Goto(t, "verify") /\ NoFault
           \/ Fault /\ Goto(t, "verify") /\ UNCHANGED accepted
    /\ UNCHANGED <<taskVars, content, below, githubVars>>

(* Mutant: the branch is believed to settle what the plan says.            *)
SettledByPlan(t) == Want[t] \in copy[t].plan

(* checkAdvisories: an advisory is looked for in the branch, whatever plan *)
(* and result say; what else the task wanted is not checked.               *)
Settled(t) == t \in Advised => Want[t] \in branch[ref[t]].content

(* Mutant: an accepted pull request is a shipped one.                      *)
VerifyAndClose(t) ==
    /\ pc[t] = "verify"
    /\ LET there == branch[ref[t]].there
           Judge(verdict) == [copy[t] EXCEPT !.review =
                                [verdict |-> verdict, seen |-> branch[ref[t]].content]]
       IN  \/ /\ there /\ accepted[t] # "no" /\ Settled(t)
              /\ Return(t, Judge("approved"), "done")
           \/ Return(t, Judge("rejected"), "none")
    /\ UNCHANGED <<taskVars, content, below, accepted, githubVars, boundVars>>

(* The branch is cloned by name and checked; an accepted pull request and  *)
(* a passed check approve.  Other checks may fail.                         *)
Verify(t) ==
    /\ pc[t] = "verify"
    /\ LET there == branch[ref[t]].there
           Judge(verdict) == [copy[t] EXCEPT !.review =
                                [verdict |-> verdict, seen |-> branch[ref[t]].content]]
       IN  \/ /\ there /\ accepted[t] # "no" /\ Settled(t)
              /\ Return(t, Judge("approved"),
                        IF accepted[t] = "merged" THEN "done" ELSE "human_review")
           \/ Return(t, Judge("rejected"), "none")
    /\ UNCHANGED <<taskVars, content, below, accepted, githubVars, boundVars>>

-----------------------------------------------------------------------------
JobOver(t) == /\ pc' = [pc EXCEPT ![t] = "idle"]
              /\ copy' = [copy EXCEPT ![t] = NoSections]
              /\ next' = [next EXCEPT ![t] = "none"]
              /\ content' = [content EXCEPT ![t] = {}]
              /\ below' = below \ {t}
              /\ accepted' = [accepted EXCEPT ![t] = "no"]

(* The controller merges the sections, applies NextPhase or clears the     *)
(* assignee; a new phase has triggers of its own.                          *)
Deliver(t) ==
    /\ pc[t] = "deliver"
    /\ file' = [file EXCEPT ![t] = copy[t]]
    /\ held' = [held EXCEPT ![t] = next[t] = "held"]
    /\ IF next[t] \in {"none", "held"}
       THEN UNCHANGED <<phase, triggers>>
       ELSE /\ phase' = [phase EXCEPT ![t] = next[t]]
            /\ triggers' = [triggers EXCEPT ![t] = 0]
    /\ JobOver(t)
    /\ UNCHANGED <<ref, githubVars, boundVars>>

(* The Job dies, or its result is lost.                                    *)
Crash(t) == /\ pc[t] # "idle"
            /\ Fault
            /\ JobOver(t)
            /\ UNCHANGED <<taskVars, githubVars>>

-----------------------------------------------------------------------------
Act == human < MaxHuman /\ human' = human + 1 /\ UNCHANGED faults

(* Merged as it is or squashed, with or without deleting the branch.       *)
MergePR(i) ==
    /\ Act
    /\ prs[i].state = "open"
    /\ prs' = [prs EXCEPT ![i].state = "merged"]
    /\ master' = master \cup prs[i].content
    /\ \E left \in {NoBranch, branch[prs[i].ref],
                    [branch[prs[i].ref] EXCEPT !.merged = TRUE]} :
         branch' = [branch EXCEPT ![prs[i].ref] = left]
    /\ UNCHANGED <<taskVars, jobVars>>

ClosePR(i) ==
    /\ Act
    /\ prs[i].state = "open"
    /\ prs' = [prs EXCEPT ![i].state = "closed"]
    /\ \E left \in {NoBranch, branch[prs[i].ref]} :
         branch' = [branch EXCEPT ![prs[i].ref] = left]
    /\ UNCHANGED <<taskVars, jobVars, master>>

(* The operator hands a task back, to its phase or to planning.            *)
Redelegate(t) ==
    /\ Act
    /\ pc[t] = "idle" /\ phase[t] # "done"
    /\ held[t] \/ triggers[t] = TriggerCap \/ phase[t] = "human_review"
    /\ \/ phase' = [phase EXCEPT ![t] = "planning"]
       \/ phase' = phase /\ phase[t] # "human_review"
    /\ triggers' = [triggers EXCEPT ![t] = 0]
    /\ held' = [held EXCEPT ![t] = FALSE]
    /\ UNCHANGED <<ref, file, jobVars, githubVars>>

-----------------------------------------------------------------------------
Job(t) == \/ StartJob(t) \/ Plan(t)
          \/ Replay(t) \/ AdoptExistingPR(t) \/ AdoptPushedBranch(t) \/ CloneBranch(t)
          \/ Build(t) \/ Push(t) \/ CreatePR(t)
          \/ ViewPR(t) \/ Verify(t)
          \/ Deliver(t)

AllAtRest == \A t \in Tasks : pc[t] = "idle" /\ ~CanStart(t)

Rest == AllAtRest /\ UNCHANGED vars

Next == \/ \E t \in Tasks : Job(t) \/ Crash(t) \/ Redelegate(t)
        \/ \E i \in DOMAIN prs : MergePR(i) \/ ClosePR(i)
        \/ Rest

Spec == Init /\ [][Next]_vars

(* Jobs run on, each by itself.                                            *)
FairSpec == Spec /\ \A t \in Tasks : WF_vars(Job(t))

-----------------------------------------------------------------------------
(* The type of every variable; a task under review names a pull request.   *)
TypeOK ==
    /\ ref \in Filings /\ phase \in [Tasks -> Phases]
    /\ file \in [Tasks -> SectionsType] /\ copy \in [Tasks -> SectionsType]
    /\ triggers \in [Tasks -> 0..TriggerCap] /\ held \in [Tasks -> BOOLEAN]
    /\ pc \in [Tasks -> Pcs]
    /\ next \in [Tasks -> Phases \cup {"none", "held"}]
    /\ content \in [Tasks -> SUBSET Needs] /\ below \subseteq DOMAIN ref
    /\ accepted \in [Tasks -> {"no", "open", "merged"}]
    /\ master \in SUBSET Needs
    /\ branch \in [Refs -> [there : BOOLEAN, content : SUBSET Needs, merged : BOOLEAN]]
    /\ prs \in Seq(PRType)
    /\ faults \in 0..MaxFaults /\ human \in 0..MaxHuman
    /\ \A t \in Tasks : phase[t] = "ai_review" => file[t].result.pr \in DOMAIN prs

(* What review closes a task on has shipped: its pull request is merged    *)
(* and the default branch settles the task's advisory.                     *)
Shipped(t) == /\ prs[copy[t].result.pr].state = "merged"
              /\ t \in Advised => Want[t] \in master

ReviewCloses(t) == phase[t] = "ai_review" /\ pc[t] = "deliver" /\ next[t] = "done"

(* Nobody else uses the branch of the task.                                *)
OwnBranch(t) == \A u \in DOMAIN ref \ {t} : ref[u] # ref[t]

(* An approval is given on the branch as it is found by name, long after   *)
(* ## Result was written: it still holds of the pull request that names,   *)
(* which settles the task's own advisory.                                  *)
ApprovedPRSettlesItsNeed ==
    \A t \in Advised : file[t].review.verdict = "approved" /\ OwnBranch(t) =>
        Want[t] \in prs[file[t].result.pr].content

ClosedTaskHasShipped == \A t \in Tasks : ReviewCloses(t) /\ OwnBranch(t) => Shipped(t)

(* Every variable has its type, a task under review names a pull request,  *)
(* and one that review closes has shipped.                                 *)
ClosingIsSound == TypeOK /\ ClosedTaskHasShipped

(* What is on a branch is never pushed away, whichever of the tasks that   *)
(* share it runs, and whatever lookup failed: a branch that stays moves    *)
(* only when master contains it, under no open pull request, and to        *)
(* something that settles all it settled.                                  *)
UnmergedWorkStays ==
    [][\A r \in Refs : branch[r].there /\ branch'[r].there =>
         \/ branch'[r].content = branch[r].content
         \/ /\ branch[r].merged
            /\ OpenPRs(r) = {}
            /\ branch[r].content \subseteq branch'[r].content]_branch

(* Every task comes to rest: closed, with a person, or out of triggers.    *)
PipelineSettles == <>[]AllAtRest

(* Tasks that share a branch neither push each other's work away nor keep  *)
(* each other busy.                                                        *)
SharingIsHarmless == UnmergedWorkStays /\ PipelineSettles

-----------------------------------------------------------------------------
(* Statements of docs, specs and comments the phases together do not keep. *)

(* specs/in-progress/007: "Advisory block present but the model omits the  *)
(* row from the plan": "the review's per-advisory check still runs off the *)
(* frontmatter and fails closed".                                          *)
OmittedAdvisoryIsReviewed ==
    \A t \in Advised : phase[t] = "done" => file[t].review.verdict # "none"

(* The same: "The fix landed below the advisory's fixed version": "the PR  *)
(* is not handed to the operator as done".                                 *)
ShippedTaskIsSettled == \A t \in Tasks : ReviewCloses(t) => Shipped(t)

(* The same, its recovery: "Re-delegate; the next planning run re-admits   *)
(* the row from the same frontmatter": what is reviewed next was made for  *)
(* the plan in the file.                                                   *)
ReplannedWorkIsExecuted ==
    \A t \in Tasks : pc[t] = "verify" => copy[t].result.plan = copy[t].plan

(* steps_execution.go, adoptExistingPR: an open pull request is one that   *)
(* "a prior run pushed + created", of the task that adopts it.             *)
AdoptedPRIsItsOwn ==
    \A t \in Tasks : file[t].result.outcome = "adopted" => prs[file[t].result.pr].by = t

(* steps_execution.go, adoptExistingPR: "Errors are logged and ignored -   *)
(* the subsequent push would surface a real problem loudly".               *)
IgnoredLookupSurfaces ==
    \A t \in Tasks :
        phase[t] = "done" /\ file[t].result.outcome = "no_update_needed" =>
            OpenPRs(ref[t]) = {}

(* steps_execution.go:416: "its non-force push would be rejected as        *)
(* non-fast-forward on every retry"; a branch that was merged and kept is  *)
(* moved on by the next task at the same head.                             *)
BranchNeverMoves ==
    [][\A r \in Refs : branch[r].there /\ branch'[r].there =>
            branch'[r].content = branch[r].content]_branch
=============================================================================
