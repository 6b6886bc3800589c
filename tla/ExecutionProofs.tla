-------------------------- MODULE ExecutionProofs --------------------------
(***************************************************************************)
(* Proofs about Execution.tla, for every set of task files, every trigger  *)
(* cap and any number of crashes, failed calls and acts of people.         *)
(***************************************************************************)
EXTENDS Execution, TLAPS

-----------------------------------------------------------------------------
(* The inductive invariant.                                                *)

(* What a running Job has established by the time it stands at pc.         *)
WorkInv ==
    /\ pc # "idle" => phase = "execution"
    /\ pc \notin {"idle", "claudeauth", "replay", "validate", "deliver"} => input.gates > 0
    /\ pc = "gates" => green = target
    /\ pc \in {"guard", "commit"} => green = input.gates
    /\ pc = "commit" => ~IsNoEffectiveChange(ChangedFiles(tree))
    /\ pc = "push" => Gated(commit) /\ Guarded(commit)

(* How the Job's copy of the ## Result relates to the one on file.         *)
SectionInv ==
    /\ pc \in {"claudeauth", "replay"} => section = result
    /\ result.outcome \in ReplayOutcomes =>
          /\ pc \in {"idle", "claudeauth", "replay", "deliver"}
          /\ pc # "idle" => section = result
    /\ pc = "deliver" =>
          /\ next = "ai_review" => section.outcome \in ReplayOutcomes
          /\ next = "done" => section.outcome = "no_update_needed"

(* The clone holds nothing of the branch that master does not, and while a *)
(* pull request is open it is the only one, its head is the branch and     *)
(* that commit has not reached master.                                     *)
BranchInv ==
    /\ base \subseteq merged
    /\ \A i \in OpenPRs : /\ prs[i].head = remote
                          /\ remote # NoCommit
                          /\ remote.id \notin merged
    /\ \A i, j \in OpenPRs : i = j

IInv == /\ TypeOK
        /\ WorkInv
        /\ BranchInv
        /\ SectionInv
        /\ PushedHeadIsGated
        /\ PushedPathsAreGuarded
        /\ ResultNamesPR
        /\ PhaseMatchesResult

-----------------------------------------------------------------------------
(* Lemmas about the pull requests, which are a sequence.                   *)

(* Opening a pull request appends one and leaves the others alone.         *)
LEMMA AppendPR ==
    ASSUME NEW s \in Seq(PRType), NEW r \in PRType
    PROVE  /\ Append(s, r) \in Seq(PRType)
           /\ Len(Append(s, r)) = Len(s) + 1
           /\ DOMAIN Append(s, r) = DOMAIN s \cup {Len(s) + 1}
           /\ \A i \in DOMAIN s : Append(s, r)[i] = s[i]
           /\ Append(s, r)[Len(s) + 1] = r
  OBVIOUS

(* Merging or closing one changes its state only.                          *)
LEMMA UpdatePR ==
    ASSUME NEW s \in Seq(PRType), NEW k \in DOMAIN s,
           NEW st \in {"open", "merged", "closed"}
    PROVE  LET t == [s EXCEPT ![k].state = st]
           IN  /\ t \in Seq(PRType)
               /\ Len(t) = Len(s)
               /\ DOMAIN t = DOMAIN s
               /\ \A i \in DOMAIN s : t[i].head = s[i].head
               /\ t[k].state = st
               /\ \A i \in DOMAIN s : i # k => t[i] = s[i]
<1> DEFINE t == [s EXCEPT ![k].state = st]
<1>1. \A i \in DOMAIN s : s[i] \in PRType
  OBVIOUS
<1>2. \A i \in DOMAIN s : t[i] \in PRType /\ t[i].head = s[i].head
  BY <1>1 DEF PRType
<1>3. Len(s) \in Nat /\ DOMAIN s = 1..Len(s) /\ DOMAIN t = 1..Len(s)
  OBVIOUS
<1>4. t \in [1..Len(s) -> PRType]
  BY <1>2, <1>3
<1>5. t \in Seq(PRType)
  BY <1>3, <1>4
<1>6. Len(t) = Len(s)
  BY <1>3, <1>5
<1>7. t[k].state = st /\ \A i \in DOMAIN s : i # k => t[i] = s[i]
  BY <1>1 DEF PRType
<1> QED
  BY <1>2, <1>3, <1>5, <1>6, <1>7

-----------------------------------------------------------------------------
(* Type correctness of the initial states.                                 *)
LEMMA InitTypeOK == Init => TypeOK
<1> SUFFICES ASSUME Init PROVE TypeOK
  OBVIOUS
<1>1. NoResult \in ResultType
  BY DEF NoResult, ResultType
<1>2. NoCommit \in CommitType
  BY DEF NoCommit, CommitType
<1>3. prs \in Seq(PRType)
  BY DEF Init
<1>4. triggers \in 0..TriggerCap /\ faults \in 0..MaxFaults /\ human \in 0..MaxHuman
  BY ExecutionAssumption DEF Init
<1> QED
  BY <1>1, <1>2, <1>3, <1>4 DEF Init, TypeOK, Pcs

(* The type invariant is kept by every action.                             *)
LEMMA NextTypeOK == TypeOK /\ [Next]_vars => TypeOK'
<1> SUFFICES ASSUME TypeOK, [Next]_vars
             PROVE  TypeOK'
  OBVIOUS
<1> USE ExecutionAssumption
    DEF TypeOK, taskVars, workVars, githubVars, boundVars, Pcs, ResultType,
        Categories, CommitType, Fail, Succeed, Goto, Fault
<1> DEFINE ControlOK == /\ section' \in ResultType
                        /\ next' \in {"none", "ai_review", "done"}
                        /\ pc' \in Pcs
           BoundsOK == faults' \in 0..MaxFaults /\ jobs' = jobs /\ human' = human
<1>a. ASSUME NEW label \in Pcs, Goto(label) PROVE ControlOK
  BY <1>a
<1>b. ASSUME NEW category \in Categories, Fail(category) PROVE ControlOK
  BY <1>b
<1>c. ASSUME Fault \/ UNCHANGED boundVars PROVE BoundsOK
  BY <1>c
<1>1. CASE StartJob
  BY <1>1 DEF StartJob, CanStart
<1>2. CASE VerifyClaudeAuth \/ ReplayGuard
  <2>1. CASE ReplayGuard
    BY <2>1 DEF ReplayGuard, ReplayOutcomes
  <2>2. CASE VerifyClaudeAuth
    <3>1. pc' \in Pcs /\ next' \in {"none", "ai_review", "done"} /\ section' = section
      BY <2>2 DEF VerifyClaudeAuth
    <3>2. BoundsOK /\ UNCHANGED <<taskVars, workVars, githubVars>>
      <4> HIDE DEF Goto, Fault, boundVars, BoundsOK
      <4> QED
        BY <2>2, <1>c DEF VerifyClaudeAuth
    <3> QED
      BY <3>1, <3>2
  <2> QED
    BY <1>2, <2>1, <2>2
<1>3. CASE Validate
  BY <1>3 DEF Validate
<1>4. CASE AdoptExistingPR
  <2>1. \A i \in OpenPRs : i \in Nat
    BY DEF OpenPRs
  <2>2. ControlOK
    <3>1. \/ Goto("lsremote")
          \/ \E i \in OpenPRs : Succeed("adopted", i, "ai_review")
      BY <1>4, Zenon DEF AdoptExistingPR
    <3> QED
      BY <2>1, <3>1, <1>a
  <2>3. BoundsOK /\ UNCHANGED <<taskVars, workVars, githubVars>>
    <3> HIDE DEF Goto, Succeed, Fault, boundVars
    <3> QED
      BY <1>4, <1>c DEF AdoptExistingPR
  <2> QED
    BY <2>2, <2>3
<1>5. CASE AdoptPushedBranch
  <2>1. ControlOK /\ BoundsOK /\ UNCHANGED <<taskVars, workVars, githubVars>>
    <3> HIDE DEF Goto, Fault, boundVars, ControlOK, BoundsOK
    <3> QED
      BY <1>5, <1>a, <1>c DEF AdoptPushedBranch
  <2> QED
    BY <2>1
<1>6. CASE ClonePushedBranch
  <2>1. commit' \in CommitType
    BY <1>6 DEF ClonePushedBranch
  <2>2. /\ ControlOK /\ BoundsOK
        /\ UNCHANGED <<taskVars, githubVars, salvage, repaired, tree, changed, target, green,
                       base>>
    <3> HIDE DEF Goto, Fail, Fault, boundVars, ControlOK, BoundsOK
    <3> QED
      BY <1>6, <1>a, <1>b, <1>c DEF ClonePushedBranch
  <2> QED
    BY <2>1, <2>2
<1>7. CASE CloneHead
  <2>1. /\ ControlOK /\ BoundsOK
        /\ UNCHANGED <<taskVars, githubVars, salvage, repaired, tree, changed, target,
                       green, commit>>
    <3> HIDE DEF Goto, Fail, Fault, boundVars, ControlOK, BoundsOK
    <3> QED
      BY <1>7, <1>a, <1>b, <1>c DEF CloneHead
  <2>2. base' \subseteq Nat
    BY <1>7 DEF CloneHead
  <2> QED
    BY <2>1, <2>2
<1>8. CASE RunBulkUpdate
  <2>1. tree' \subseteq AllPaths
    BY <1>8 DEF RunBulkUpdate, AllPaths
  <2>2. /\ ControlOK /\ BoundsOK
        /\ UNCHANGED <<taskVars, githubVars, salvage, repaired, changed, target, green,
                       base, commit>>
    <3> HIDE DEF Goto, Fail, Fault, boundVars, ControlOK, BoundsOK
    <3> QED
      BY <1>8, <1>a, <1>b, <1>c DEF RunBulkUpdate
  <2> QED
    BY <2>1, <2>2
<1>9. CASE RunUpdate
  BY <1>9 DEF RunUpdate
<1>10. CASE RunGate
  <2>1. target' \in Nat /\ green' \in Nat
    BY <1>10 DEF RunGate
  <2>2. ControlOK
    BY <1>10 DEF RunGate, HasGateRepairBudget
  <2>3. UNCHANGED <<taskVars, githubVars, boundVars, salvage, repaired, tree,
                    changed, base, commit>>
    BY <1>10 DEF RunGate
  <2> QED
    BY <2>1, <2>2, <2>3
<1>11. CASE RunGateRepair
  BY <1>11 DEF RunGateRepair
<1>12. CASE GuardChangedFiles
  <2>1. /\ ControlOK /\ BoundsOK
        /\ UNCHANGED <<taskVars, githubVars, salvage, repaired, tree, target, green,
                       base, commit>>
    <3> HIDE DEF Goto, Fail, Succeed, Fault, boundVars, ControlOK, BoundsOK
    <3>1. Succeed("no_update_needed", 0, "done") => ControlOK
      BY DEF Succeed, ControlOK
    <3> QED
      BY <1>12, <3>1, <1>a, <1>b, <1>c DEF GuardChangedFiles
  <2>2. changed' \subseteq AllPaths \cup {"newdir"}
    BY <1>12 DEF GuardChangedFiles, ChangedFiles, NoopWorkflows
  <2> QED
    BY <2>1, <2>2
<1>13. CASE CommitUpdate
  <2>1. /\ tree' \subseteq AllPaths
        /\ changed' \subseteq AllPaths \cup {"newdir"}
        /\ commit' \in CommitType
    <3>1. CASE UNCHANGED <<tree, changed, commit>>
      BY <3>1
    <3>2. ASSUME NEW written \in SUBSET {"changelog"},
                 tree' = tree \cup written,
                 changed' = ChangedFiles(tree \cup written),
                 commit' = [id |-> jobs, green |-> green,
                            paths |-> CommittedFiles(ChangedFiles(tree \cup written))]
          PROVE  /\ tree' \subseteq AllPaths
                 /\ changed' \subseteq AllPaths \cup {"newdir"}
                 /\ commit' \in CommitType
      <4>1. tree \cup written \subseteq AllPaths
        BY DEF AllPaths
      <4>2. ChangedFiles(tree \cup written) \subseteq AllPaths \cup {"newdir"}
        BY <4>1 DEF ChangedFiles
      <4>3. CommittedFiles(ChangedFiles(tree \cup written)) \subseteq AllPaths
        BY <4>2 DEF CommittedFiles, AllPaths
      <4> QED
        BY <3>2, <4>1, <4>2, <4>3
    <3> QED
      BY <1>13, <3>1, <3>2 DEF CommitUpdate
  <2>2. \/ /\ Goto("push") \/ Fail("unexpected_diff")
           /\ UNCHANGED boundVars
        \/ Fault /\ \E category \in {"unknown", "git"} : Fail(category)
    <3> HIDE DEF Goto, Fail, Fault, boundVars
    <3> QED
      BY <1>13 DEF CommitUpdate
  <2>3. ControlOK /\ BoundsOK
    <3> HIDE DEF Goto, Fail, Fault, boundVars, ControlOK, BoundsOK
    <3> QED
      BY <2>2, <1>a, <1>b, <1>c
  <2>4. UNCHANGED <<taskVars, githubVars, salvage, repaired, target, green, base>>
    BY <1>13 DEF CommitUpdate
  <2> QED
    BY <2>1, <2>3, <2>4
<1>14. CASE Push
  <2>1. remote' \in CommitType
    BY <1>14 DEF Push
  <2>2. ControlOK /\ BoundsOK /\ UNCHANGED <<taskVars, workVars, prs, merged>>
    <3> HIDE DEF Goto, Fail, Fault, boundVars, ControlOK, BoundsOK
    <3> QED
      BY <1>14, <1>a, <1>b, <1>c DEF Push
  <2> QED
    BY <2>1, <2>2
<1>15. ASSUME CreatePR, UNCHANGED <<taskVars, workVars, remote, merged>>
      PROVE  TypeOK'
  <2>1. Len(prs) + 1 \in Nat
    OBVIOUS
  <2>2. [head |-> remote, target |-> PRTarget, state |-> "open"] \in PRType
    BY DEF PRType
  <2>3. prs' \in Seq(PRType)
    <3>1. Append(prs, [head |-> remote, target |-> PRTarget, state |-> "open"])
            \in Seq(PRType)
      BY <2>2, AppendPR
    <3> QED
      BY <1>15, <3>1 DEF CreatePR
  <2>4. /\ section' \in ResultType
        /\ next' \in {"none", "ai_review", "done"}
        /\ pc' \in Pcs
    BY <1>15, <2>1 DEF CreatePR
  <2>5. faults' \in 0..MaxFaults /\ jobs' = jobs /\ human' = human
    <3>1. Fault \/ UNCHANGED boundVars
      BY <1>15 DEF CreatePR
    <3>2. UNCHANGED taskVars
      BY <1>15
    <3> QED
      BY <3>1, <3>2
  <2> QED
    BY <1>15, <2>3, <2>4, <2>5
<1>16. CASE OpenPRFromPushedBranch
  BY <1>16, <1>15 DEF OpenPRFromPushedBranch
<1>17. CASE OpenPR
  BY <1>17, <1>15 DEF OpenPR
<1>18. CASE Deliver
  BY <1>18 DEF Deliver, JobOver, NoResult, NoCommit
<1>19. CASE Crash
  <2>1. faults' \in 0..MaxFaults /\ jobs' = jobs /\ human' = human
    BY <1>19 DEF Crash
  <2>2. NoResult \in ResultType /\ NoCommit \in CommitType
    BY DEF NoResult, NoCommit
  <2>3. /\ section' \in ResultType /\ next' = "none" /\ pc' = "idle"
        /\ salvage' = FALSE /\ repaired' = FALSE
        /\ tree' = {} /\ changed' = {} /\ target' = 0 /\ green' = 0
        /\ base' = {} /\ commit' \in CommitType
    BY <1>19, <2>2 DEF Crash, JobOver
  <2>4. UNCHANGED <<taskVars, githubVars>>
    BY <1>19 DEF Crash
  <2> QED
    BY <2>1, <2>3, <2>4
<1>20. CASE MergePR
  <2>1. prs' \in Seq(PRType)
    <3>1. PICK i \in DOMAIN prs : prs' = [prs EXCEPT ![i].state = "merged"]
      BY <1>20 DEF MergePR, OpenPRs
    <3> QED
      BY <3>1, UpdatePR
  <2>2. \A i \in DOMAIN prs : prs[i].head.id \in Nat
    <3>1. \A i \in DOMAIN prs : prs[i] \in PRType
      OBVIOUS
    <3> QED
      BY <3>1 DEF PRType
  <2>3. merged' \subseteq Nat
    <3>1. PICK i \in DOMAIN prs : merged' \in {merged, merged \cup {prs[i].head.id}}
      BY <1>20 DEF MergePR, OpenPRs
    <3> QED
      BY <3>1, <2>2
  <2>4. NoCommit \in CommitType
    BY DEF NoCommit
  <2>5. remote' \in CommitType
    BY <1>20, <2>4 DEF MergePR
  <2>6. Act /\ UNCHANGED taskVars
    BY <1>20 DEF MergePR
  <2>7. /\ human' \in 0..MaxHuman
        /\ UNCHANGED <<taskVars, workVars, pc, section, next, jobs, faults>>
    BY <2>6 DEF Act
  <2> QED
    BY <2>1, <2>3, <2>5, <2>7
<1>21. CASE ClosePR
  <2>1. prs' \in Seq(PRType)
    <3>1. PICK i \in DOMAIN prs : prs' = [prs EXCEPT ![i].state = "closed"]
      BY <1>21 DEF ClosePR, OpenPRs
    <3> QED
      BY <3>1, UpdatePR
  <2>3. merged' = merged
    BY <1>21 DEF ClosePR
  <2>4. NoCommit \in CommitType
    BY DEF NoCommit
  <2>5. remote' \in CommitType
    BY <1>21, <2>4 DEF ClosePR
  <2>6. Act /\ UNCHANGED taskVars
    BY <1>21 DEF ClosePR
  <2>7. /\ human' \in 0..MaxHuman
        /\ UNCHANGED <<taskVars, workVars, pc, section, next, jobs, faults>>
    BY <2>6 DEF Act
  <2> QED
    BY <2>1, <2>3, <2>5, <2>7
<1>22. CASE DeleteBranch
  BY <1>22 DEF DeleteBranch, Act, NoCommit
<1>23. CASE Retrigger
  BY <1>23 DEF Retrigger, Act, NoCommit
<1>24. CASE UNCHANGED vars
  BY <1>24 DEF vars
<1> QED
  BY <1>1, <1>2, <1>3, <1>4, <1>5, <1>6, <1>7, <1>8, <1>9, <1>10, <1>11, <1>12, <1>13, <1>14, <1>16, <1>17, <1>18, <1>19, <1>20, <1>21, <1>22, <1>23, <1>24
  DEF Next, Job, People, Settled

(* Type correctness: whatever happens around a Job, every variable keeps   *)
(* the type of the field or of the remote state it stands for.             *)
THEOREM TypeCorrect == Spec => []TypeOK
<1>1. Init => TypeOK
  BY InitTypeOK
<1>2. TypeOK /\ [Next]_vars => TypeOK'
  BY NextTypeOK
<1> QED
  BY <1>1, <1>2, PTL DEF Spec
-----------------------------------------------------------------------------
(* The inductive invariant holds before the first Job.                     *)
LEMMA InitIInv == Init => IInv
<1> SUFFICES ASSUME Init PROVE IInv
  OBVIOUS
<1>1. TypeOK
  BY InitTypeOK
<1>2. WorkInv /\ SectionInv /\ PhaseMatchesResult
  BY DEF Init, WorkInv, SectionInv, PhaseMatchesResult, NoResult, ReplayOutcomes
<1>3. PushedHeadIsGated /\ PushedPathsAreGuarded /\ BranchInv
  BY DEF Init, PushedHeadIsGated, PushedPathsAreGuarded, BranchInv, OpenPRs
<1>4. ResultNamesPR
  BY DEF Init, ResultNamesPR, NoResult, ReplayOutcomes
<1> QED
  BY <1>1, <1>2, <1>3, <1>4 DEF IInv

(* The paths the commit holds are guarded: what WorkflowsVerified lets     *)
(* through, and a file beside CHANGELOG.md whenever the guard saw one,     *)
(* although EnsureChangelog may have written a file since.                 *)
LEMMA CommittedIsGuarded ==
    ASSUME NEW t, NEW written \in SUBSET {"changelog"},
           ~IsNoEffectiveChange(ChangedFiles(t)),
           NEW c, c.paths = CommittedFiles(ChangedFiles(t \cup written)),
           WorkflowsVerified(c.paths)
    PROVE  Guarded(c)
<1>1. c.paths \cap {"wf_same", "wf_new", "wf_newdir"} = {}
  BY DEF WorkflowsVerified, Unclassifiable, NoopWorkflows
<1>2. PICK p \in ChangedFiles(t) : p # "changelog"
  BY DEF IsNoEffectiveChange
<1>3. p \in ChangedFiles(t \cup written)
  BY <1>2 DEF ChangedFiles
<1>4. \E q \in CommittedFiles(ChangedFiles(t \cup written)) : q # "changelog"
  <2>1. CASE p = "newdir"
    BY <1>3, <2>1 DEF CommittedFiles
  <2>2. CASE p # "newdir"
    BY <1>2, <1>3, <2>2 DEF CommittedFiles
  <2> QED
    BY <2>1, <2>2
<1> QED
  BY <1>1, <1>4 DEF Guarded

(* What the running Job knows of its workdir is kept by every action: the  *)
(* gates it has seen green are those its commit carries to the push.       *)
LEMMA NextWorkInv == IInv /\ [Next]_vars => WorkInv'
<1> SUFFICES ASSUME IInv, [Next]_vars
             PROVE  WorkInv'
  OBVIOUS
<1> USE DEF IInv, WorkInv, taskVars, workVars, githubVars, boundVars,
        Fail, Succeed, Goto
<1>1. CASE StartJob
  BY <1>1 DEF StartJob, CanStart
<1>2. CASE VerifyClaudeAuth \/ ReplayGuard
  BY <1>2 DEF VerifyClaudeAuth, ReplayGuard
<1>3. CASE Validate
  BY <1>3 DEF Validate, ReadyToRun
<1>4. CASE AdoptExistingPR
  BY <1>4 DEF AdoptExistingPR
<1>5. CASE AdoptPushedBranch
  BY <1>5 DEF AdoptPushedBranch
<1>6. CASE ClonePushedBranch
  BY <1>6 DEF ClonePushedBranch
<1>7. CASE CloneHead
  BY <1>7 DEF CloneHead
<1>8. CASE RunBulkUpdate
  BY <1>8 DEF RunBulkUpdate
<1>9. CASE RunUpdate
  BY <1>9 DEF RunUpdate
<1>10. CASE RunGate
  BY <1>10 DEF RunGate
<1>11. CASE RunGateRepair
  BY <1>11 DEF RunGateRepair
<1>12. CASE GuardChangedFiles
  BY <1>12 DEF GuardChangedFiles
<1>13. CASE CommitUpdate
  <2>1. CASE Fail("unexpected_diff") \/ Fail("unknown") \/ Fail("git")
    BY <1>13, <2>1 DEF CommitUpdate
  <2>2. CASE Goto("push")
    <3>1. PICK written \in SUBSET {"changelog"} :
            LET paths == CommittedFiles(ChangedFiles(tree \cup written))
            IN  /\ commit' = [id |-> jobs, green |-> green, paths |-> paths]
                /\ WorkflowsVerified(paths)
      BY <1>13, <2>2 DEF CommitUpdate
    <3>2. pc = "commit" /\ UNCHANGED taskVars
      BY <1>13 DEF CommitUpdate
    <3>3. input'.gates > 0 /\ commit'.green = input'.gates
      BY <3>1, <3>2
    <3>4. Guarded(commit')
      BY <3>1, <3>2, CommittedIsGuarded
    <3> QED
      BY <2>2, <3>2, <3>3, <3>4 DEF Guarded, Gated
  <2> QED
    BY <1>13, <2>1, <2>2 DEF CommitUpdate
<1>14. CASE Push
  BY <1>14 DEF Push
<1>15. CASE OpenPRFromPushedBranch
  BY <1>15 DEF OpenPRFromPushedBranch, CreatePR
<1>16. CASE OpenPR
  BY <1>16 DEF OpenPR, CreatePR
<1>17. CASE Deliver
  BY <1>17 DEF Deliver, JobOver
<1>18. CASE Crash
  BY <1>18 DEF Crash, JobOver
<1>19. CASE MergePR \/ ClosePR \/ DeleteBranch
  BY <1>19 DEF MergePR, ClosePR, DeleteBranch, Act, Gated, Guarded
<1>20. CASE Retrigger
  BY <1>20 DEF Retrigger, Act
<1>21. CASE UNCHANGED vars
  BY <1>21 DEF vars, Gated, Guarded
<1> QED
  BY <1>1, <1>2, <1>3, <1>4, <1>5, <1>6, <1>7, <1>8, <1>9, <1>10, <1>11, <1>12,
     <1>13, <1>14, <1>15, <1>16, <1>17, <1>18, <1>19, <1>20, <1>21
  DEF Next, Job, People, Settled

(* What the Job is about to hand back is kept by every action: NextPhase   *)
(* agrees with the ## Result of its copy of the task file.                 *)
LEMMA NextSectionInv == IInv /\ [Next]_vars => SectionInv'
<1> SUFFICES ASSUME IInv, [Next]_vars
             PROVE  SectionInv'
  OBVIOUS
<1> USE DEF IInv, SectionInv, taskVars, workVars, githubVars, boundVars,
        Fail, Succeed, Goto, ReplayOutcomes
<1>1. CASE StartJob
  BY <1>1 DEF StartJob, CanStart
<1>2. CASE VerifyClaudeAuth \/ ReplayGuard
  BY <1>2 DEF VerifyClaudeAuth, ReplayGuard
<1>3. CASE Validate
  BY <1>3 DEF Validate
<1>4. CASE AdoptExistingPR
  BY <1>4 DEF AdoptExistingPR
<1>5. CASE AdoptPushedBranch
  BY <1>5 DEF AdoptPushedBranch
<1>6. CASE ClonePushedBranch
  BY <1>6 DEF ClonePushedBranch
<1>7. CASE CloneHead
  BY <1>7 DEF CloneHead
<1>8. CASE RunBulkUpdate
  BY <1>8 DEF RunBulkUpdate
<1>9. CASE RunUpdate
  BY <1>9 DEF RunUpdate
<1>10. CASE RunGate
  BY <1>10 DEF RunGate
<1>11. CASE RunGateRepair
  BY <1>11 DEF RunGateRepair
<1>12. CASE GuardChangedFiles
  BY <1>12 DEF GuardChangedFiles
<1>13. CASE CommitUpdate
  BY <1>13 DEF CommitUpdate
<1>14. CASE Push
  BY <1>14 DEF Push
<1>15. CASE OpenPRFromPushedBranch
  BY <1>15 DEF OpenPRFromPushedBranch, CreatePR
<1>16. CASE OpenPR
  BY <1>16 DEF OpenPR, CreatePR
<1>17. CASE Deliver
  BY <1>17 DEF Deliver, JobOver
<1>18. CASE Crash
  BY <1>18 DEF Crash, JobOver
<1>19. CASE MergePR \/ ClosePR \/ DeleteBranch
  BY <1>19 DEF MergePR, ClosePR, DeleteBranch, Act
<1>20. CASE Retrigger
  BY <1>20 DEF Retrigger, Act
<1>21. CASE UNCHANGED vars
  BY <1>21 DEF vars
<1> QED
  BY <1>1, <1>2, <1>3, <1>4, <1>5, <1>6, <1>7, <1>8, <1>9, <1>10, <1>11, <1>12,
     <1>13, <1>14, <1>15, <1>16, <1>17, <1>18, <1>19, <1>20, <1>21
  DEF Next, Job, People, Settled
-----------------------------------------------------------------------------
(* What a step may do to the repository.                                   *)

(* Every step of a Job, of a person or of the controller is a step of      *)
(* Publication or changes nothing the repository shows.                    *)
LEMMA StepPublishes ==
    IInv /\ [Next]_vars => [Published!Next]_(Published!vars)
<1> SUFFICES ASSUME IInv, [Next]_vars
             PROVE  [Published!Next]_(Published!vars)
  OBVIOUS
<1> USE DEF taskVars, workVars, githubVars, boundVars
<1>1. ASSUME UNCHANGED <<input, githubVars>>
      PROVE  UNCHANGED Published!vars
  BY <1>1 DEF Published!vars
<1>2. CASE StartJob \/ VerifyClaudeAuth \/ ReplayGuard \/ Validate \/ AdoptExistingPR
  BY <1>1, <1>2 DEF StartJob, VerifyClaudeAuth, ReplayGuard, Validate, AdoptExistingPR
<1>3. CASE AdoptPushedBranch \/ ClonePushedBranch \/ CloneHead \/ RunBulkUpdate
  BY <1>1, <1>3 DEF AdoptPushedBranch, ClonePushedBranch, CloneHead, RunBulkUpdate
<1>4. CASE RunUpdate \/ RunGate \/ RunGateRepair \/ GuardChangedFiles \/ CommitUpdate
  BY <1>1, <1>4 DEF RunUpdate, RunGate, RunGateRepair, GuardChangedFiles, CommitUpdate
<1>5. CASE Push
  <2>1. CASE UNCHANGED remote
    BY <1>1, <1>5, <2>1 DEF Push
  <2>2. CASE FastForward /\ remote' = commit /\ remote' # remote
    <3>1. Gated(commit) /\ Guarded(commit)
      BY <1>5 DEF Push, IInv, WorkInv
    <3>2. commit # NoCommit
      BY <3>1 DEF Guarded, NoCommit
    <3>3. Published!Publishable(commit)
      BY <3>1 DEF Published!Publishable, Published!ForbiddenPaths, Gated, Guarded
    <3>4. remote = NoCommit \/ remote.id \in merged
      BY <2>2 DEF FastForward, IInv, BranchInv
    <3>5. OpenPRs = {}
      BY <3>4 DEF IInv, BranchInv
    <3>6. Published!Publish
      BY <1>5, <2>2, <3>2, <3>3, <3>4, <3>5
      DEF Push, Published!Publish, Published!OpenPRs, OpenPRs
    <3> QED
      BY <3>6 DEF Published!Next
  <2> QED
    BY <1>5, <2>1, <2>2 DEF Push
<1>6. ASSUME CreatePR, UNCHANGED <<taskVars, workVars, remote, merged>>
      PROVE  [Published!Next]_(Published!vars)
  <2>1. CASE UNCHANGED prs
    BY <1>1, <1>6, <2>1
  <2>2. CASE /\ remote # NoCommit /\ remote.id \notin merged /\ OpenPRs = {}
             /\ prs' = Append(prs, [head |-> remote, target |-> PRTarget,
                                    state |-> "open"])
    BY <1>6, <2>2 DEF Published!OpenPR, Published!OpenPRs, Published!Next, OpenPRs
  <2> QED
    BY <1>6, <2>1, <2>2 DEF CreatePR
<1>7. CASE OpenPRFromPushedBranch \/ OpenPR
  BY <1>6, <1>7 DEF OpenPRFromPushedBranch, OpenPR
<1>8. CASE Deliver \/ Crash \/ Retrigger
  BY <1>1, <1>8 DEF Deliver, Crash, Retrigger, Act
<1>9. CASE MergePR
  <2>1. PICK i \in OpenPRs : /\ prs' = [prs EXCEPT ![i].state = "merged"]
                             /\ merged' \in {merged, merged \cup {prs[i].head.id}}
    BY <1>9 DEF MergePR
  <2>2. remote' \in {remote, NoCommit} /\ UNCHANGED input
    BY <1>9 DEF MergePR
  <2>3. i \in DOMAIN prs /\ i \in Published!OpenPRs
    BY DEF OpenPRs, Published!OpenPRs
  <2>4. Published!MergePR(i)
    BY <2>1, <2>2, <2>3 DEF Published!MergePR
  <2> QED
    BY <2>3, <2>4 DEF Published!Next
<1>10. CASE ClosePR
  <2>1. PICK i \in OpenPRs : prs' = [prs EXCEPT ![i].state = "closed"]
    BY <1>10 DEF ClosePR
  <2>2. remote' \in {remote, NoCommit} /\ UNCHANGED <<input, merged>>
    BY <1>10 DEF ClosePR
  <2>3. i \in DOMAIN prs /\ i \in Published!OpenPRs
    BY DEF OpenPRs, Published!OpenPRs
  <2>4. Published!ClosePR(i)
    BY <2>1, <2>2, <2>3 DEF Published!ClosePR
  <2> QED
    BY <2>3, <2>4 DEF Published!Next
<1>11. CASE DeleteBranch
  BY <1>11 DEF DeleteBranch, OpenPRs, Published!DeleteBranch, Published!OpenPRs,
               Published!Next
<1>12. CASE UNCHANGED vars
  BY <1>1, <1>12 DEF vars
<1> QED
  BY <1>2, <1>3, <1>4, <1>5, <1>7, <1>8, <1>9, <1>10, <1>11, <1>12
  DEF Next, Job, People, Settled

(* A branch appears with the commit a Job stands ready to push, moves to   *)
(* it only from one that is on master, with no pull request open, and a    *)
(* pull request is opened from it or only changes state.                   *)
LEMMA RepositoryStep ==
    ASSUME IInv, [Next]_vars
    PROVE  /\ remote' # remote =>
                 \/ remote' = NoCommit
                 \/ /\ pc = "push"
                    /\ remote = NoCommit \/ remote.id \in merged
                    /\ OpenPRs = {}
                    /\ Gated(remote') /\ Guarded(remote')
           /\ \/ /\ Len(prs') = Len(prs)
                 /\ DOMAIN prs' = DOMAIN prs
                 /\ \A i \in DOMAIN prs : prs'[i].head = prs[i].head
              \/ /\ pc \in {"openpr", "openadopted"}
                 /\ remote # NoCommit
                 /\ DOMAIN prs' = DOMAIN prs \cup {Len(prs) + 1}
                 /\ \A i \in DOMAIN prs : prs'[i] = prs[i]
                 /\ prs'[Len(prs) + 1].head = remote
           /\ input' = input
<1> USE DEF taskVars, workVars, githubVars, boundVars
<1>1. CASE StartJob \/ VerifyClaudeAuth \/ ReplayGuard \/ Validate \/ AdoptExistingPR
  BY <1>1 DEF StartJob, VerifyClaudeAuth, ReplayGuard, Validate, AdoptExistingPR
<1>2. CASE AdoptPushedBranch \/ ClonePushedBranch \/ CloneHead \/ RunBulkUpdate
  BY <1>2 DEF AdoptPushedBranch, ClonePushedBranch, CloneHead, RunBulkUpdate
<1>3. CASE RunUpdate \/ RunGate \/ RunGateRepair \/ GuardChangedFiles \/ CommitUpdate
  BY <1>3 DEF RunUpdate, RunGate, RunGateRepair, GuardChangedFiles, CommitUpdate
<1>4. CASE Push
  <2>1. UNCHANGED <<input, prs>> /\ pc = "push"
    BY <1>4 DEF Push
  <2>2. CASE UNCHANGED remote
    BY <2>1, <2>2
  <2>3. CASE FastForward /\ remote' = commit
    <3>1. Gated(commit) /\ Guarded(commit)
      BY <2>1 DEF IInv, WorkInv
    <3>2. remote = NoCommit \/ remote.id \in merged
      BY <2>3 DEF FastForward, IInv, BranchInv
    <3>3. OpenPRs = {}
      BY <3>2 DEF IInv, BranchInv
    <3> QED
      BY <2>1, <2>3, <3>1, <3>2, <3>3
  <2> QED
    BY <1>4, <2>2, <2>3 DEF Push
<1>5. ASSUME CreatePR, UNCHANGED <<taskVars, workVars, remote, merged>>,
             pc \in {"openpr", "openadopted"}
      PROVE  /\ UNCHANGED <<input, remote>>
             /\ \/ prs' = prs
                \/ /\ remote # NoCommit
                   /\ DOMAIN prs' = DOMAIN prs \cup {Len(prs) + 1}
                   /\ \A i \in DOMAIN prs : prs'[i] = prs[i]
                   /\ prs'[Len(prs) + 1].head = remote
  <2> DEFINE pr == [head |-> remote, target |-> PRTarget, state |-> "open"]
  <2>1. pr \in PRType
    BY ExecutionAssumption DEF IInv, TypeOK, PRType
  <2>2. prs \in Seq(PRType)
    BY DEF IInv, TypeOK
  <2>3. \/ prs' = prs
        \/ prs' = Append(prs, pr) /\ remote # NoCommit
    BY <1>5 DEF CreatePR
  <2>4. pr.head = remote
    OBVIOUS
  <2>5. /\ DOMAIN Append(prs, pr) = DOMAIN prs \cup {Len(prs) + 1}
        /\ \A i \in DOMAIN prs : Append(prs, pr)[i] = prs[i]
        /\ Append(prs, pr)[Len(prs) + 1] = pr
    BY <2>1, <2>2, AppendPR
  <2> HIDE DEF pr
  <2> QED
    BY <1>5, <2>3, <2>4, <2>5
<1>6. CASE OpenPRFromPushedBranch \/ OpenPR
  BY <1>5, <1>6 DEF OpenPRFromPushedBranch, OpenPR
<1>7. CASE Deliver \/ Crash \/ Retrigger
  BY <1>7 DEF Deliver, Crash, Retrigger, Act
<1>8. CASE MergePR \/ ClosePR
  <2>1. PICK i \in DOMAIN prs, st \in {"open", "merged", "closed"} :
          prs' = [prs EXCEPT ![i].state = st]
    BY <1>8 DEF MergePR, ClosePR, OpenPRs
  <2>2. prs \in Seq(PRType)
    BY DEF IInv, TypeOK
  <2>3. /\ Len(prs') = Len(prs)
        /\ DOMAIN prs' = DOMAIN prs
        /\ \A j \in DOMAIN prs : prs'[j].head = prs[j].head
    BY <2>1, <2>2, UpdatePR
  <2>4. remote' \in {remote, NoCommit} /\ input' = input
    BY <1>8 DEF MergePR, ClosePR
  <2> QED
    BY <2>3, <2>4
<1>9. CASE DeleteBranch
  BY <1>9 DEF DeleteBranch
<1>10. CASE UNCHANGED vars
  BY <1>10 DEF vars
<1> QED
  BY <1>1, <1>2, <1>3, <1>4, <1>6, <1>7, <1>8, <1>9, <1>10
  DEF Next, Job, People, Settled
-----------------------------------------------------------------------------
(* Every action keeps the branch and the pull requests on gated commits.   *)
LEMMA NextPushedHeadIsGated == IInv /\ [Next]_vars => PushedHeadIsGated'
<1> SUFFICES ASSUME IInv, [Next]_vars
             PROVE  PushedHeadIsGated'
  OBVIOUS
<1>1. /\ remote # NoCommit => Gated(remote)
      /\ \A i \in DOMAIN prs : Gated(prs[i].head)
  BY DEF IInv, PushedHeadIsGated
<1>2. remote' # NoCommit => input.gates > 0 /\ remote'.green = input.gates
  BY <1>1, RepositoryStep DEF Gated
<1>3. \A i \in DOMAIN prs' : input.gates > 0 /\ prs'[i].head.green = input.gates
  BY <1>1, RepositoryStep DEF Gated
<1> QED
  BY <1>2, <1>3, RepositoryStep DEF PushedHeadIsGated, Gated, NoCommit

(* Every action keeps refused workflow files and lone CHANGELOG entries    *)
(* off the branch and the pull requests.                                   *)
LEMMA NextPushedPathsAreGuarded == IInv /\ [Next]_vars => PushedPathsAreGuarded'
<1> SUFFICES ASSUME IInv, [Next]_vars
             PROVE  PushedPathsAreGuarded'
  OBVIOUS
<1>1. /\ remote # NoCommit => Guarded(remote)
      /\ \A i \in DOMAIN prs : Guarded(prs[i].head)
  BY DEF IInv, PushedPathsAreGuarded
<1>2. remote' # NoCommit => Guarded(remote')
  BY <1>1, RepositoryStep
<1>3. \A i \in DOMAIN prs' : Guarded(prs'[i].head)
  BY <1>1, RepositoryStep
<1> QED
  BY <1>2, <1>3 DEF PushedPathsAreGuarded, NoCommit

(* Every action keeps the clone below master and the one open pull request *)
(* on the branch: only a person ends it, and no push gets past it.         *)
LEMMA NextBranchInv == IInv /\ [Next]_vars => BranchInv'
<1> SUFFICES ASSUME IInv, [Next]_vars
             PROVE  BranchInv'
  OBVIOUS
<1> USE DEF taskVars, workVars, githubVars, boundVars, BranchInv, OpenPRs
<1> DEFINE BranchOK == /\ \A i \in OpenPRs : /\ prs[i].head = remote
                                            /\ remote # NoCommit
                                            /\ remote.id \notin merged
                       /\ \A i, j \in OpenPRs : i = j
<1>a. base \subseteq merged /\ BranchOK /\ prs \in Seq(PRType)
  BY DEF IInv, TypeOK
<1>1. CASE StartJob \/ VerifyClaudeAuth \/ ReplayGuard \/ Validate \/ AdoptExistingPR
  BY <1>1, <1>a DEF StartJob, VerifyClaudeAuth, ReplayGuard, Validate, AdoptExistingPR,
                    NoCommit
<1>2. CASE AdoptPushedBranch \/ ClonePushedBranch \/ CloneHead \/ RunBulkUpdate
  BY <1>2, <1>a DEF AdoptPushedBranch, ClonePushedBranch, CloneHead, RunBulkUpdate, NoCommit
<1>3. CASE RunUpdate \/ RunGate \/ RunGateRepair \/ GuardChangedFiles \/ CommitUpdate
  BY <1>3, <1>a DEF RunUpdate, RunGate, RunGateRepair, GuardChangedFiles, CommitUpdate,
                    NoCommit
<1>4. CASE Push
  <2>1. UNCHANGED <<base, prs, merged>>
    BY <1>4 DEF Push
  <2>2. CASE UNCHANGED remote
    BY <1>a, <2>1, <2>2 DEF NoCommit
  <2>3. CASE remote' # remote
    <3>1. remote = NoCommit \/ remote.id \in merged
      BY <1>4, <1>a, <2>3 DEF Push, FastForward
    <3>2. OpenPRs = {}
      BY <1>a, <3>1
    <3> QED
      BY <1>a, <2>1, <3>2
  <2> QED
    BY <2>2, <2>3
<1>5. ASSUME CreatePR, UNCHANGED <<taskVars, workVars, remote, merged>>
      PROVE  BranchInv'
  <2> DEFINE pr == [head |-> remote, target |-> PRTarget, state |-> "open"]
  <2>1. CASE UNCHANGED prs
    BY <1>a, <1>5, <2>1 DEF NoCommit
  <2>2. CASE /\ remote # NoCommit /\ remote.id \notin merged /\ OpenPRs = {}
             /\ prs' = Append(prs, pr)
    <3>1. pr \in PRType
      BY ExecutionAssumption DEF IInv, TypeOK, PRType
    <3>2. /\ DOMAIN prs' = DOMAIN prs \cup {Len(prs) + 1}
          /\ \A i \in DOMAIN prs : prs'[i] = prs[i]
          /\ prs'[Len(prs) + 1] = pr
      BY <1>a, <2>2, <3>1, AppendPR
    <3>3. pr.head = remote
      OBVIOUS
    <3>4. \A i \in OpenPRs' : i = Len(prs) + 1
      BY <2>2, <3>2
    <3> HIDE DEF pr
    <3>5. \A i \in OpenPRs' : prs'[i].head = remote'
      BY <1>5, <3>2, <3>3, <3>4
    <3> QED
      BY <1>5, <1>a, <2>2, <3>4, <3>5 DEF NoCommit
  <2> QED
    BY <1>5, <2>1, <2>2 DEF CreatePR
<1>6. CASE OpenPRFromPushedBranch \/ OpenPR
  BY <1>5, <1>6 DEF OpenPRFromPushedBranch, OpenPR
<1>7. CASE Deliver \/ Crash \/ Retrigger
  BY <1>7, <1>a DEF Deliver, Crash, Retrigger, Act, JobOver, NoCommit
<1>8. CASE MergePR \/ ClosePR
  <2>1. PICK k \in DOMAIN prs, st \in {"open", "merged", "closed"} :
          /\ prs[k].state = "open" /\ st # "open"
          /\ prs' = [prs EXCEPT ![k].state = st]
    BY <1>8 DEF MergePR, ClosePR
  <2>2. OpenPRs' = {}
    <3>1. \A i \in DOMAIN prs : i # k => prs[i].state # "open"
      BY <1>a, <2>1
    <3>2. /\ DOMAIN prs' = DOMAIN prs
          /\ prs'[k].state = st
          /\ \A i \in DOMAIN prs : i # k => prs'[i] = prs[i]
      <4>1. \A i \in DOMAIN prs : prs[i] \in PRType
        BY <1>a
      <4> QED
        BY <2>1, <4>1 DEF PRType
    <3> QED
      BY <2>1, <3>1, <3>2
  <2>3. base' = base /\ merged \subseteq merged'
    BY <1>8 DEF MergePR, ClosePR, Act
  <2> QED
    BY <1>a, <2>2, <2>3
<1>9. CASE DeleteBranch
  BY <1>9, <1>a DEF DeleteBranch, Act
<1>10. CASE UNCHANGED vars
  BY <1>10, <1>a DEF vars, NoCommit
<1> QED
  BY <1>1, <1>2, <1>3, <1>4, <1>6, <1>7, <1>8, <1>9, <1>10
  DEF Next, Job, People, Settled

(* Only three steps write a ## Result that reports a pull request: the     *)
(* replay keeps the one on file, the adoption names an open one, and gh    *)
(* pr create the one it has just opened.                                   *)
LEMMA NextResultNamesPR == IInv /\ [Next]_vars => ResultNamesPR'
<1> SUFFICES ASSUME IInv, [Next]_vars
             PROVE  ResultNamesPR'
  OBVIOUS
<1> USE DEF taskVars, workVars, githubVars, boundVars,
        Fail, Succeed, Goto, ReplayOutcomes
<1> DEFINE Names(r) == r.outcome \in ReplayOutcomes => r.pr \in DOMAIN prs'
<1>1. DOMAIN prs \subseteq DOMAIN prs'
  BY RepositoryStep
<1>2. Names(result) /\ Names(section) /\ Names(NoResult)
  BY <1>1 DEF IInv, ResultNamesPR, NoResult
<1>3. CASE StartJob \/ VerifyClaudeAuth \/ ReplayGuard \/ Validate
  BY <1>2, <1>3 DEF StartJob, VerifyClaudeAuth, ReplayGuard, Validate, ResultNamesPR
<1>4. CASE AdoptExistingPR
  BY <1>2, <1>4 DEF AdoptExistingPR, OpenPRs, ResultNamesPR
<1>5. CASE AdoptPushedBranch \/ ClonePushedBranch \/ CloneHead \/ RunBulkUpdate
  BY <1>2, <1>5 DEF AdoptPushedBranch, ClonePushedBranch, CloneHead, RunBulkUpdate,
                    ResultNamesPR
<1>6. CASE RunUpdate \/ RunGate \/ RunGateRepair
  BY <1>2, <1>6 DEF RunUpdate, RunGate, RunGateRepair, ResultNamesPR
<1>7. CASE GuardChangedFiles \/ CommitUpdate
  <2>1. UNCHANGED result
    BY <1>7 DEF GuardChangedFiles, CommitUpdate
  <2>2. section' = section \/ section'.outcome \in {"no_update_needed", "failed"}
    <3>1. \/ Goto("commit") \/ Goto("push")
          \/ Succeed("no_update_needed", 0, "done")
          \/ Fail("unexpected_diff") \/ Fail("unknown") \/ Fail("git")
      <4> HIDE DEF Goto, Succeed, Fail
      <4> QED
        BY <1>7 DEF GuardChangedFiles, CommitUpdate
    <3> QED
      BY <3>1
  <2> QED
    BY <1>2, <2>1, <2>2 DEF ResultNamesPR
<1>8. CASE Push
  BY <1>2, <1>8 DEF Push, ResultNamesPR
<1>9. ASSUME CreatePR, UNCHANGED taskVars
      PROVE  ResultNamesPR'
  <2>1. CASE section'.outcome = "failed"
    BY <1>2, <1>9, <2>1 DEF ResultNamesPR
  <2>2. CASE /\ section' = [outcome |-> "opened", pr |-> Len(prs) + 1,
                            category |-> "none"]
             /\ prs' = Append(prs, [head |-> remote, target |-> PRTarget,
                                    state |-> "open"])
    <3>1. Len(prs) + 1 \in DOMAIN prs'
      <4>1. prs \in Seq(PRType)
        BY DEF IInv, TypeOK
      <4>2. [head |-> remote, target |-> PRTarget, state |-> "open"] \in PRType
        BY ExecutionAssumption DEF IInv, TypeOK, PRType
      <4> QED
        BY <2>2, <4>1, <4>2, AppendPR
    <3> QED
      BY <1>2, <1>9, <2>2, <3>1 DEF ResultNamesPR
  <2> QED
    BY <1>9, <2>1, <2>2 DEF CreatePR
<1>10. CASE OpenPRFromPushedBranch \/ OpenPR
  BY <1>9, <1>10 DEF OpenPRFromPushedBranch, OpenPR
<1>11. CASE Deliver
  BY <1>2, <1>11 DEF Deliver, JobOver, ResultNamesPR
<1>12. CASE Crash
  BY <1>2, <1>12 DEF Crash, JobOver, ResultNamesPR
<1>13. CASE People
  BY <1>2, <1>13 DEF People, MergePR, ClosePR, DeleteBranch, Retrigger, Act,
                     ResultNamesPR
<1>14. CASE UNCHANGED vars
  BY <1>2, <1>14 DEF vars, ResultNamesPR
<1> QED
  BY <1>3, <1>4, <1>5, <1>6, <1>7, <1>8, <1>10, <1>11, <1>12, <1>13, <1>14
  DEF Next, Job, Settled

(* The phase changes only when a Job hands its task file back or when a    *)
(* person gives the task back to the agent.                                *)
LEMMA NextPhaseMatchesResult == IInv /\ [Next]_vars => PhaseMatchesResult'
<1> SUFFICES ASSUME IInv, [Next]_vars
             PROVE  PhaseMatchesResult'
  OBVIOUS
<1> USE DEF taskVars, PhaseMatchesResult
<1>1. CASE UNCHANGED <<phase, result>>
  BY <1>1 DEF IInv
<1>2. CASE \/ StartJob \/ VerifyClaudeAuth \/ ReplayGuard \/ Validate
           \/ AdoptExistingPR \/ AdoptPushedBranch
  BY <1>1, <1>2 DEF StartJob, VerifyClaudeAuth, ReplayGuard, Validate, AdoptExistingPR,
                    AdoptPushedBranch
<1>3. CASE ClonePushedBranch \/ CloneHead \/ RunBulkUpdate \/ RunUpdate \/ RunGate
  BY <1>1, <1>3 DEF ClonePushedBranch, CloneHead, RunBulkUpdate, RunUpdate, RunGate
<1>4. CASE RunGateRepair \/ GuardChangedFiles \/ CommitUpdate \/ Push
  BY <1>1, <1>4 DEF RunGateRepair, GuardChangedFiles, CommitUpdate, Push
<1>5. CASE OpenPRFromPushedBranch \/ OpenPR \/ Crash
  BY <1>1, <1>5 DEF OpenPRFromPushedBranch, OpenPR, Crash
<1>6. CASE Deliver
  BY <1>6 DEF Deliver, IInv, WorkInv, SectionInv
<1>7. CASE MergePR \/ ClosePR \/ DeleteBranch
  BY <1>1, <1>7 DEF MergePR, ClosePR, DeleteBranch
<1>8. CASE Retrigger
  BY <1>8 DEF Retrigger
<1>9. CASE UNCHANGED vars
  BY <1>1, <1>9 DEF vars
<1> QED
  BY <1>2, <1>3, <1>4, <1>5, <1>6, <1>7, <1>8, <1>9 DEF Next, Job, People, Settled

(* The conjuncts together: the strengthened invariant is inductive.        *)
LEMMA NextIInv == IInv /\ [Next]_vars => IInv'
<1> SUFFICES ASSUME IInv, [Next]_vars
             PROVE  IInv'
  OBVIOUS
<1>1. TypeOK'
  BY NextTypeOK DEF IInv
<1>2. WorkInv' /\ SectionInv'
  BY NextWorkInv, NextSectionInv
<1>3. PushedHeadIsGated' /\ PushedPathsAreGuarded' /\ BranchInv'
  BY NextPushedHeadIsGated, NextPushedPathsAreGuarded, NextBranchInv
<1>4. ResultNamesPR' /\ PhaseMatchesResult'
  BY NextResultNamesPR, NextPhaseMatchesResult
<1> QED
  BY <1>1, <1>2, <1>3, <1>4 DEF IInv

(* The strengthened invariant holds of every reachable state.              *)
THEOREM Inductive == Spec => []IInv
  BY InitIInv, NextIInv, PTL DEF Spec

-----------------------------------------------------------------------------
(* The theorems.                                                           *)

(* No interleaving of crashes, lost answers, retries and adoption puts a   *)
(* commit on the branch, or under a pull request, that was edited after    *)
(* its last green gates or that skipped one of them.                       *)
THEOREM PushedIsGated == Spec => []PushedHeadIsGated
<1>1. IInv => PushedHeadIsGated
  BY DEF IInv
<1> QED
  BY <1>1, Inductive, PTL

(* No published commit holds a workflow file the guards refuse, or nothing *)
(* but a CHANGELOG entry, although the files are listed twice.             *)
THEOREM PushedIsGuarded == Spec => []PushedPathsAreGuarded
<1>1. IInv => PushedPathsAreGuarded
  BY DEF IInv
<1> QED
  BY <1>1, Inductive, PTL

(* A ## Result that reports a pull request names one that was opened.      *)
THEOREM ResultsAreReal == Spec => []ResultNamesPR
<1>1. IInv => ResultNamesPR
  BY DEF IInv
<1> QED
  BY <1>1, Inductive, PTL

(* Review starts only with a pull request, and a task is done only when    *)
(* there was nothing to do.                                                *)
THEOREM RoutingIsSound == Spec => []PhaseMatchesResult
<1>1. IInv => PhaseMatchesResult
  BY DEF IInv
<1> QED
  BY <1>1, Inductive, PTL

(* The agent pushes nothing away: the branch moves on only from a commit   *)
(* that is on master already, and never under an open pull request.        *)
THEOREM WorkIsKept == Spec => UnmergedWorkStays
<1>1. IInv /\ [Next]_vars =>
        [remote' # remote => \/ remote = NoCommit
                             \/ remote' = NoCommit
                             \/ remote.id \in merged /\ OpenPRs = {}]_vars
  BY RepositoryStep
<1> QED
  BY <1>1, Inductive, PTL DEF Spec, UnmergedWorkStays

(* Replaying a task that has its pull request changes nothing, whatever    *)
(* has become of the pull request and the branch since.                    *)
THEOREM ReplayHasNoEffect == Spec => ReplayIsInert
<1> DEFINE Inert == result.outcome \in ReplayOutcomes =>
                      /\ result' = result
                      /\ remote' # remote => remote' = NoCommit
                      /\ Len(prs') = Len(prs)
<1>1. IInv /\ [Next]_vars => [Inert]_vars
  <2> SUFFICES ASSUME IInv, [Next]_vars, result.outcome \in ReplayOutcomes
               PROVE  /\ result' = result
                      /\ remote' # remote => remote' = NoCommit
                      /\ Len(prs') = Len(prs)
    OBVIOUS
  <2> USE DEF taskVars, githubVars, boundVars
  <2>1. pc \in {"idle", "claudeauth", "replay", "deliver"} /\ (pc # "idle" => section = result)
    BY DEF IInv, SectionInv
  <2>2. Len(prs') = Len(prs)
    BY <2>1, RepositoryStep
  <2>3. result' = result /\ (remote' # remote => remote' = NoCommit)
    <3>1. CASE StartJob \/ VerifyClaudeAuth \/ ReplayGuard \/ Deliver \/ Crash \/ UNCHANGED vars
      BY <2>1, <3>1 DEF StartJob, VerifyClaudeAuth, ReplayGuard, Deliver, Crash, vars
    <3>2. CASE People
      BY <3>2 DEF People, MergePR, ClosePR, DeleteBranch, Retrigger
    <3>3. CASE Job
      BY <2>1, <3>3 DEF Job, VerifyClaudeAuth, ReplayGuard, Deliver, Validate, AdoptExistingPR,
           AdoptPushedBranch, ClonePushedBranch, CloneHead, RunBulkUpdate,
           RunUpdate, RunGate, RunGateRepair, GuardChangedFiles, CommitUpdate,
           Push, OpenPRFromPushedBranch, OpenPR
    <3> QED
      BY <3>1, <3>2, <3>3 DEF Next, Settled
  <2> QED
    BY <2>2, <2>3
<1> QED
  BY <1>1, Inductive, PTL DEF Spec, ReplayIsInert

(* The execution phase implements Publication: for whoever watches the     *)
(* repository, Jobs and their failures are invisible.                      *)
THEOREM ExecutionImplementsPublication == Spec => ImplementsPublication
<1>1. Init => Published!Init
  BY DEF Init, Published!Init
<1>2. IInv /\ [Next]_vars => [Published!Next]_(Published!vars)
  BY StepPublishes
<1> QED
  BY <1>1, <1>2, Inductive, PTL DEF Spec, ImplementsPublication, Published!Spec
=============================================================================
