---------------------------- MODULE ReviewProofs ----------------------------
(***************************************************************************)
(* Proofs about Review.tla, for every set of task files, branch contents   *)
(* and version headers, every trigger cap and any number of crashes,       *)
(* failed calls and acts of people.                                        *)
(***************************************************************************)
EXTENDS Review, TLAPS

-----------------------------------------------------------------------------
(* The inductive invariant.                                                *)

(* What checks that are set say of the content they were made on; a        *)
(* release may only add headers to those that were there.                  *)
Earned(c, head) ==
    /\ c.gate => task.gates > 0 /\ head.green >= task.gates
    /\ c.vulns => c.gate
    /\ c.changelog => head.changelog = "bullet" /\ head.headers \subseteq released

(* checkAdvisories has been asked about what checkGates took for granted.  *)
AdvisoryHeld(c, head) ==
    c.vulns => /\ task.advisory # "malformed"
               /\ task.advisory = "valid" => head.module = "fixed"

(* A ## Review, in the file or in a Job's copy of it.                      *)
Sound(r) ==
    /\ Earned(r.checks, r.head)
    /\ AdvisoryHeld(r.checks, r.head)
    /\ r.verdict = "approved" => r.checks.gate /\ r.checks.vulns /\ r.checks.changelog

(* What a running Job has established by the time it stands at pc.         *)
CheckInv ==
    /\ pc \in {"idle", "read", "pr", "clone", "gates"} => checks = NoChecks
    /\ Earned(checks, clone.head)
    /\ pc \in {"changelog", "tags", "finish", "deliver"} => AdvisoryHeld(checks, clone.head)
    /\ clone.master \subseteq released
    /\ sawMerged => pr.state = "merged"

(* What a result that is delivered may do to the task.                     *)
VerdictInv ==
    /\ pc # "idle" => phase = "ai_review" /\ assignee = "agent"
    /\ next # "none" => pc = "deliver" /\ section.verdict = "approved"
    /\ next = "human_review" => block /\ stamped = HasOwner
    /\ next = "done" => pr.state = "merged"

IInv == /\ TypeOK
        /\ Sound(review) /\ Sound(section)
        /\ CheckInv
        /\ VerdictInv
        /\ phase # "ai_review" => review.verdict = "approved"
        /\ HandOffIsActionable

-----------------------------------------------------------------------------
(* Type correctness.                                                       *)

(* Every variable has its type at the start.                               *)
LEMMA InitTypeOK == Init => TypeOK
<1> SUFFICES ASSUME Init PROVE TypeOK
  OBVIOUS
<1>1. NoChecks \in ChecksType
  BY DEF NoChecks, ChecksType
<1>2. NoReview \in ReviewType
  BY <1>1 DEF NoReview, ReviewType
<1>3. NoClone \in [head : Heads \cup {Gone}, master : SUBSET Versions, merged : BOOLEAN]
  BY DEF NoClone
<1>4. pr \in [state : {"open", "merged", "closed"}, draft : BOOLEAN]
  BY DEF Init
<1>5. triggers \in 0..TriggerCap /\ faults \in 0..MaxFaults /\ human \in 0..MaxHuman
  BY ReviewAssumption DEF Init
<1> QED
  BY <1>1, <1>2, <1>3, <1>4, <1>5 DEF Init, TypeOK, Pcs

(* The type invariant is kept by every action.                             *)
LEMMA NextTypeOK == TypeOK /\ [Next]_vars => TypeOK'
<1> SUFFICES ASSUME TypeOK, [Next]_vars
             PROVE  TypeOK'
  OBVIOUS
<1> USE ReviewAssumption
    DEF TypeOK, taskVars, verdictVars, checkVars, githubVars, boundVars, Pcs, Fault
<1>1. NoChecks \in ChecksType /\ NoReview \in ReviewType
  BY DEF NoChecks, NoReview, ChecksType, ReviewType
<1>2. \A c \in ChecksType : \A b \in BOOLEAN :
          /\ [c EXCEPT !.gate = TRUE, !.vulns = TRUE] \in ChecksType
          /\ [c EXCEPT !.vulns = FALSE] \in ChecksType
          /\ [c EXCEPT !.changelog = b] \in ChecksType
          /\ [c EXCEPT !.noTag = b] \in ChecksType
  BY DEF ChecksType
<1>3. ASSUME JobOver
      PROVE  /\ pc' \in Pcs /\ section' \in ReviewType /\ block' \in BOOLEAN
             /\ next' \in {"none", "human_review", "done"} /\ stamped' \in BOOLEAN
             /\ accepted' \in BOOLEAN /\ sawMerged' \in BOOLEAN
             /\ clone' \in [head : Heads \cup {Gone}, master : SUBSET Versions,
                            merged : BOOLEAN]
             /\ target' \in Nat /\ checks' \in ChecksType
  BY <1>1, <1>3 DEF JobOver, NoClone
<1>4. CASE StartJob
  BY <1>4 DEF StartJob, CanStart
<1>5. CASE ReadSections
  BY <1>5 DEF ReadSections
<1>6. CASE CheckPR
  <2>1. (pr.state = "merged") \in BOOLEAN
        /\ (\/ pr.state = "merged"
            \/ pr.state = "open" /\ pr.draft = (PRTarget = "draft")) \in BOOLEAN
    OBVIOUS
  <2>2. accepted' \in BOOLEAN /\ sawMerged' \in BOOLEAN
    <3> HIDE DEF Fault, TypeOK
    <3>1. accepted \in BOOLEAN /\ sawMerged \in BOOLEAN
      BY DEF TypeOK
    <3> QED
      BY <1>6, <2>1, <3>1, Zenon DEF CheckPR
  <2>3. /\ pc' \in Pcs /\ UNCHANGED <<taskVars, verdictVars, clone, target, checks, githubVars>>
        /\ faults' \in 0..MaxFaults /\ human' = human
    <3>1. UNCHANGED boundVars \/ Fault
      <4> HIDE DEF Fault, boundVars
      <4> QED
        BY <1>6, Zenon DEF CheckPR
    <3>2. pc' = "clone" /\ UNCHANGED <<taskVars, verdictVars, clone, target, checks, githubVars>>
      <4> HIDE DEF taskVars, verdictVars, githubVars, Fault, TypeOK
      <4> QED
        BY <1>6, Zenon DEF CheckPR
    <3> QED
      BY <3>1, <3>2
  <2> QED
    BY <2>2, <2>3
<1>7. CASE CloneBranch
  BY <1>7 DEF CloneBranch
<1>8. CASE CheckGates
  <2>1. checks' \in ChecksType
    <3> HIDE DEF Fault, TypeOK
    <3>1. checks \in ChecksType
      BY DEF TypeOK
    <3> QED
      BY <1>2, <1>8, <3>1, Zenon DEF CheckGates
  <2>2. /\ pc' \in Pcs /\ target' \in Nat
        /\ UNCHANGED <<taskVars, verdictVars, accepted, sawMerged, clone, githubVars>>
        /\ faults' \in 0..MaxFaults /\ human' = human
    BY <1>8 DEF CheckGates
  <2> QED
    BY <2>1, <2>2
<1>9. CASE CheckAdvisories
  <2>1. checks' \in ChecksType
    <3> HIDE DEF Fault, TypeOK
    <3>1. checks \in ChecksType
      BY DEF TypeOK
    <3> QED
      BY <1>2, <1>9, <3>1, Zenon DEF CheckAdvisories
  <2>2. /\ pc' \in Pcs
        /\ UNCHANGED <<taskVars, verdictVars, accepted, sawMerged, clone, target, githubVars>>
        /\ faults' \in 0..MaxFaults /\ human' = human
    BY <1>9 DEF CheckAdvisories
  <2> QED
    BY <2>1, <2>2
<1>10. CASE CheckChangelog
  <2>1. checks' \in ChecksType
    <3> HIDE DEF Fault, TypeOK
    <3>1. checks \in ChecksType
      BY DEF TypeOK
    <3>2. (/\ clone.head.changelog = "bullet"
         /\ clone.head.headers \subseteq clone.master) \in BOOLEAN
      OBVIOUS
    <3> QED
      BY <1>2, <1>10, <3>1, <3>2, Zenon DEF CheckChangelog
  <2>2. /\ pc' \in Pcs
        /\ UNCHANGED <<taskVars, verdictVars, accepted, sawMerged, clone, target, githubVars>>
        /\ faults' \in 0..MaxFaults /\ human' = human
    BY <1>10 DEF CheckChangelog
  <2> QED
    BY <2>1, <2>2
<1>11. CASE CheckNoNewTag
  <2>1. checks' \in ChecksType
    <3> HIDE DEF Fault, TypeOK
    <3>1. checks \in ChecksType
      BY DEF TypeOK
    <3>2. (clone.merged \/ ~tagged) \in BOOLEAN
      OBVIOUS
    <3> QED
      BY <1>2, <1>11, <3>1, <3>2, Zenon DEF CheckNoNewTag
  <2>2. /\ pc' \in Pcs
        /\ UNCHANGED <<taskVars, verdictVars, accepted, sawMerged, clone, target, githubVars>>
        /\ faults' \in 0..MaxFaults /\ human' = human
    BY <1>11 DEF CheckNoNewTag
  <2> QED
    BY <2>1, <2>2
<1>12. CASE Finish
  BY <1>12 DEF Finish, ReviewType
<1>13. CASE Deliver
  BY <1>3, <1>13 DEF Deliver
<1>14. CASE Crash
  BY <1>3, <1>14 DEF Crash
<1>15. CASE People
  <2> USE <1>15 DEF People, Act
  <2>1. CASE MergePR
    BY <2>1 DEF MergePR
  <2>2. CASE ClosePR
    BY <2>2 DEF ClosePR
  <2>3. CASE FlipDraft
    <3>1. /\ UNCHANGED <<taskVars, pc, verdictVars, checkVars, branch, onMaster, released,
                          tagged, faults>>
          /\ human' \in 0..MaxHuman
      BY <2>3 DEF FlipDraft
    <3>2. pr' \in [state : {"open", "merged", "closed"}, draft : BOOLEAN]
      <4>1. (~pr.draft) \in BOOLEAN /\ pr' = [pr EXCEPT !.draft = ~pr.draft]
        BY <2>3 DEF FlipDraft
      <4>2. \A b \in BOOLEAN : [pr EXCEPT !.draft = b] \in
                [state : {"open", "merged", "closed"}, draft : BOOLEAN]
        OBVIOUS
      <4> QED
        BY <4>1, <4>2, Zenon
    <3> QED
      BY <3>1, <3>2
  <2>4. CASE PushToBranch
    BY <2>4 DEF PushToBranch
  <2>5. CASE Release
    BY <2>5 DEF Release
  <2>6. CASE TagBranch
    BY <2>6 DEF TagBranch
  <2>7. CASE Retrigger
    BY <2>7 DEF Retrigger
  <2> QED
    BY <2>1, <2>2, <2>3, <2>4, <2>5, <2>6, <2>7
<1>16. CASE UNCHANGED vars
  BY <1>16 DEF vars
<1> QED
  BY <1>4, <1>5, <1>6, <1>7, <1>8, <1>9, <1>10, <1>11, <1>12, <1>13, <1>14, <1>15,
     <1>16 DEF Next, Job, Settled

(* Every variable keeps its type.                                          *)
THEOREM TypeCorrect == Spec => []TypeOK
<1> QED
  BY InitTypeOK, NextTypeOK, PTL DEF Spec

-----------------------------------------------------------------------------
(* The initial states establish the invariant.                             *)
LEMMA InitIInv == Init => IInv
<1> SUFFICES ASSUME Init PROVE IInv
  OBVIOUS
<1>1. TypeOK
  BY InitTypeOK
<1>2. \A head : Earned(NoChecks, head) /\ AdvisoryHeld(NoChecks, head)
  BY DEF Earned, AdvisoryHeld, NoChecks
<1>3. Sound(review) /\ Sound(section)
  BY <1>2 DEF Init, Sound, NoReview
<1>4. CheckInv
  BY <1>2 DEF Init, CheckInv, NoClone
<1> QED
  BY <1>1, <1>3, <1>4 DEF Init, IInv, VerdictInv, HandOffIsActionable

(* Every action keeps the invariant.                                       *)
LEMMA NextIInv == IInv /\ [Next]_vars => IInv'
<1> SUFFICES ASSUME IInv, [Next]_vars
             PROVE  IInv'
  OBVIOUS
<1>1. TypeOK /\ TypeOK'
  BY NextTypeOK DEF IInv
<1> DEFINE Routing == phase # "ai_review" => review.verdict = "approved"
           Rest == Sound(review) /\ Sound(section) /\ CheckInv /\ VerdictInv
                     /\ Routing /\ HandOffIsActionable
<1> SUFFICES Rest'
  BY <1>1 DEF IInv
<1>a. Sound(review) /\ Sound(section) /\ CheckInv /\ VerdictInv /\ Routing
        /\ HandOffIsActionable
  BY DEF IInv
<1> USE DEF Routing, Sound, Earned, AdvisoryHeld, CheckInv, VerdictInv,
            HandOffIsActionable, Pcs
(* The checks leave the task, the result and GitHub alone.                 *)
<1>b. ASSUME UNCHANGED <<taskVars, verdictVars, githubVars>>, pc \notin {"idle", "deliver"},
             CheckInv'
      PROVE  Rest'
  BY <1>a, <1>b DEF taskVars, verdictVars, githubVars
<1>c. \A c \in ChecksType : \A b \in BOOLEAN :
          /\ [c EXCEPT !.gate = TRUE, !.vulns = TRUE].gate
          /\ [c EXCEPT !.gate = TRUE, !.vulns = TRUE].changelog = c.changelog
          /\ [c EXCEPT !.vulns = FALSE].gate = c.gate
          /\ [c EXCEPT !.vulns = FALSE].vulns = FALSE
          /\ [c EXCEPT !.vulns = FALSE].changelog = c.changelog
          /\ [c EXCEPT !.changelog = b].gate = c.gate
          /\ [c EXCEPT !.changelog = b].vulns = c.vulns
          /\ [c EXCEPT !.changelog = b].changelog = b
          /\ [c EXCEPT !.noTag = b].gate = c.gate
          /\ [c EXCEPT !.noTag = b].vulns = c.vulns
          /\ [c EXCEPT !.noTag = b].changelog = c.changelog
  BY DEF ChecksType
<1>d. checks \in ChecksType /\ task.gates \in Nat /\ target \in Nat
      /\ clone.head.green \in Nat
  BY <1>1, ReviewAssumption DEF TypeOK, TaskType, HeadType, Gone
<1>2. CASE StartJob
  <2>1. /\ UNCHANGED <<task, phase, review, yourMove, assignee, next, stamped, checkVars,
                       githubVars>>
        /\ pc = "idle" /\ phase = "ai_review" /\ assignee = "agent"
        /\ pc' = "read" /\ section' = review /\ block' = yourMove
    BY <1>2 DEF StartJob, CanStart
  <2>2. Sound(review)' /\ Sound(section)' /\ Routing' /\ HandOffIsActionable'
    BY <1>a, <2>1 DEF githubVars
  <2>3. CheckInv'
    BY <1>a, <2>1 DEF checkVars, githubVars
  <2>4. VerdictInv'
    BY <1>a, <2>1 DEF githubVars
  <2> QED
    BY <2>2, <2>3, <2>4
<1>3. CASE ReadSections
  BY <1>a, <1>3 DEF ReadSections, taskVars, verdictVars, checkVars, githubVars, NoChecks
<1>4. CASE CheckPR
  <2>1. /\ pc = "pr" /\ pc' = "clone"
        /\ UNCHANGED <<taskVars, verdictVars, clone, target, checks, githubVars>>
    BY <1>4 DEF CheckPR
  <2>2. sawMerged' => pr.state = "merged"
    <3>1. sawMerged' = (pr.state = "merged") \/ sawMerged' = sawMerged
      BY <1>4, Zenon DEF CheckPR
    <3>2. sawMerged => pr.state = "merged"
      BY <1>a
    <3> QED
      BY <3>1, <3>2, Zenon
  <2>3. CheckInv'
    BY <1>a, <2>1, <2>2 DEF taskVars, githubVars
  <2> QED
    BY <1>b, <2>1, <2>3
<1>5. CASE CloneBranch
  <2>1. /\ pc = "clone" /\ pc' \in {"gates", "finish"}
        /\ UNCHANGED <<taskVars, verdictVars, sawMerged, checks, githubVars>>
        /\ clone' = clone \/ clone'.master = released
    BY <1>5 DEF CloneBranch
  <2>2. CheckInv'
    BY <1>a, <2>1 DEF taskVars, githubVars, NoChecks
  <2> QED
    BY <1>b, <2>1, <2>2
<1>6. CASE CheckGates
  <2>1. /\ pc = "gates"
        /\ UNCHANGED <<taskVars, verdictVars, sawMerged, clone, githubVars>>
        /\ pc' \in {"gates", "advisories"}
    BY <1>6 DEF CheckGates
  <2>2. \/ checks' = checks
        \/ /\ pc' = "advisories"
           /\ checks' = [checks EXCEPT !.gate = TRUE, !.vulns = TRUE]
           /\ task.gates > 0 /\ clone.head.green >= task.gates
    BY <1>6, <1>d DEF CheckGates
  <2>3. checks = NoChecks
    BY <1>a, <2>1
  <2>4. Earned(checks, clone.head)'
    <3>1. CASE checks' = checks
      BY <2>1, <2>3, <3>1 DEF NoChecks
    <3>2. CASE checks' = [checks EXCEPT !.gate = TRUE, !.vulns = TRUE]
               /\ task.gates > 0 /\ clone.head.green >= task.gates
      <4>1. checks'.gate /\ checks'.changelog = FALSE
        BY <1>c, <1>d, <2>3, <3>2 DEF NoChecks
      <4> QED
        BY <2>1, <3>2, <4>1 DEF taskVars
    <3> QED
      BY <2>2, <3>1, <3>2
  <2>5. CheckInv'
    BY <1>a, <2>1, <2>2, <2>3, <2>4 DEF githubVars
  <2> QED
    BY <1>b, <2>1, <2>5
<1>7. CASE CheckAdvisories
  <2>1. /\ pc = "advisories" /\ pc' = "changelog"
        /\ UNCHANGED <<taskVars, verdictVars, sawMerged, clone, githubVars>>
    BY <1>7 DEF CheckAdvisories
  <2>2. \/ checks' = [checks EXCEPT !.vulns = FALSE]
        \/ /\ checks' = checks
           /\ task.advisory # "malformed"
           /\ task.advisory = "valid" => clone.head.module = "fixed"
    BY <1>7 DEF CheckAdvisories
  <2>3. Earned(checks, clone.head)
    BY <1>a
  <2>4. Earned(checks, clone.head)' /\ AdvisoryHeld(checks, clone.head)'
    <3>1. CASE checks' = [checks EXCEPT !.vulns = FALSE]
      <4>1. /\ checks'.gate = checks.gate /\ checks'.vulns = FALSE
            /\ checks'.changelog = checks.changelog
        BY <1>c, <1>d, <3>1
      <4> QED
        BY <2>1, <2>3, <4>1 DEF taskVars, githubVars
    <3>2. CASE /\ checks' = checks
               /\ task.advisory # "malformed"
               /\ task.advisory = "valid" => clone.head.module = "fixed"
      BY <2>1, <2>3, <3>2 DEF taskVars, githubVars
    <3> QED
      BY <2>2, <3>1, <3>2
  <2>5. CheckInv'
    BY <1>a, <2>1, <2>4 DEF githubVars
  <2> QED
    BY <1>b, <2>1, <2>5
<1>8. CASE CheckChangelog
  <2>1. /\ pc = "changelog" /\ pc' = "tags"
        /\ UNCHANGED <<taskVars, verdictVars, sawMerged, clone, githubVars>>
    BY <1>8 DEF CheckChangelog
  <2> DEFINE bulleted == /\ clone.head.changelog = "bullet"
                         /\ clone.head.headers \subseteq clone.master
  <2>2. checks' = [checks EXCEPT !.changelog = bulleted] \/ checks' = checks
    BY <1>8 DEF CheckChangelog
  <2>3. bulleted \in BOOLEAN
    OBVIOUS
  <2>4. bulleted => clone.head.changelog = "bullet" /\ clone.head.headers \subseteq released
    BY <1>a
  <2>5. Earned(checks, clone.head) /\ AdvisoryHeld(checks, clone.head)
    BY <1>a, <2>1
  <2>6. /\ checks'.gate = checks.gate /\ checks'.vulns = checks.vulns
        /\ checks'.changelog = bulleted \/ checks'.changelog = checks.changelog
    <3> HIDE DEF bulleted
    <3>1. CASE checks' = [checks EXCEPT !.changelog = bulleted]
      <4>1. PICK b \in BOOLEAN : b = bulleted /\ checks' = [checks EXCEPT !.changelog = b]
        BY <2>3, <3>1, Zenon
      <4>2. /\ checks'.gate = checks.gate /\ checks'.vulns = checks.vulns
            /\ checks'.changelog = b
        BY <1>c, <1>d, <4>1
      <4> QED
        BY <4>1, <4>2, Zenon
    <3>2. CASE checks' = checks
      BY <3>2, Zenon
    <3> QED
      BY <2>2, <3>1, <3>2
  <2>7. Earned(checks, clone.head)' /\ AdvisoryHeld(checks, clone.head)'
    <3>1. checks'.changelog => \/ checks.changelog
                               \/ /\ clone.head.changelog = "bullet"
                                  /\ clone.head.headers \subseteq released
      <4> HIDE DEF bulleted, Earned, AdvisoryHeld, CheckInv
      <4> QED
        BY <2>4, <2>6, Zenon
    <3> HIDE DEF bulleted
    <3> QED
      BY <2>1, <2>5, <2>6, <3>1 DEF taskVars, githubVars
  <2>8. CheckInv'
    BY <1>a, <2>1, <2>7 DEF githubVars
  <2> QED
    BY <1>b, <2>1, <2>8
<1>9. CASE CheckNoNewTag
  <2>1. /\ pc = "tags" /\ pc' = "finish"
        /\ UNCHANGED <<taskVars, verdictVars, sawMerged, clone, githubVars>>
    BY <1>9 DEF CheckNoNewTag
  <2>2. /\ checks'.gate = checks.gate /\ checks'.vulns = checks.vulns
        /\ checks'.changelog = checks.changelog
    <3>1. checks' = [checks EXCEPT !.noTag = clone.merged \/ ~tagged] \/ checks' = checks
      BY <1>9 DEF CheckNoNewTag
    <3>2. (clone.merged \/ ~tagged) \in BOOLEAN
      OBVIOUS
    <3>3. CASE checks' = [checks EXCEPT !.noTag = clone.merged \/ ~tagged]
      <4>1. PICK b \in BOOLEAN : checks' = [checks EXCEPT !.noTag = b]
        BY <3>2, <3>3, Zenon
      <4> QED
        BY <1>c, <1>d, <4>1
    <3> QED
      BY <3>1, <3>3
  <2>3. Earned(checks, clone.head) /\ AdvisoryHeld(checks, clone.head)
    BY <1>a, <2>1
  <2>4. Earned(checks, clone.head)' /\ AdvisoryHeld(checks, clone.head)'
    BY <2>1, <2>2, <2>3 DEF taskVars, githubVars
  <2>5. CheckInv'
    BY <1>a, <2>1, <2>4 DEF githubVars
  <2> QED
    BY <1>b, <2>1, <2>5
<1>10. CASE Finish
  <2>1. /\ pc = "finish" /\ pc' = "deliver"
        /\ UNCHANGED <<taskVars, checkVars, githubVars>>
    BY <1>10 DEF Finish
  <2>2. /\ section' = [verdict |-> IF Approved THEN "approved" ELSE "rejected",
                       checks |-> checks, head |-> clone.head]
        /\ next' = IF ~Approved THEN "none"
                   ELSE IF sawMerged THEN "done" ELSE "human_review"
    BY <1>10 DEF Finish
  <2>3. Earned(checks, clone.head) /\ AdvisoryHeld(checks, clone.head)
    BY <1>a, <2>1
  <2>4. Approved => checks.gate /\ checks.vulns /\ checks.changelog
    BY DEF Approved
  <2>5. Sound(section)'
    <3>1. section'.checks = checks /\ section'.head = clone.head
          /\ (section'.verdict = "approved" => Approved)
      BY <2>2
    <3>2. Earned(section'.checks, section'.head) /\ AdvisoryHeld(section'.checks, section'.head)
          /\ (section'.verdict = "approved"
                 => section'.checks.gate /\ section'.checks.vulns /\ section'.checks.changelog)
      BY <2>3, <2>4, <3>1
    <3> QED
      BY <2>1, <3>2 DEF taskVars, githubVars
  <2>6. next' # "none" => section'.verdict = "approved"
    BY <2>2
  <2>7. next' = "done" => pr.state = "merged"
    BY <1>a, <2>2
  <2>8. next' = "human_review" => block' /\ stamped' = HasOwner
    <3>1. next' = "human_review" => Approved /\ ~sawMerged
      BY <2>2
    <3>2. block' = (block \/ (Approved /\ ~sawMerged))
          /\ stamped' = (HasOwner /\ next' = "human_review")
      BY <1>10, Zenon DEF Finish
    <3>3. HasOwner \in BOOLEAN
      BY ReviewAssumption
    <3> QED
      BY <3>1, <3>2, <3>3, Zenon
  <2>9. phase = "ai_review" /\ assignee = "agent"
    BY <1>a, <2>1
  <2>10. Sound(review)' /\ Routing' /\ HandOffIsActionable'
    BY <1>a, <2>1 DEF taskVars, githubVars
  <2>11. CheckInv'
    BY <1>a, <2>1 DEF taskVars, checkVars, githubVars
  <2>12. VerdictInv'
    BY <2>1, <2>6, <2>7, <2>8, <2>9 DEF taskVars, githubVars
  <2> QED
    BY <2>5, <2>10, <2>11, <2>12
<1>11. CASE Deliver
  BY <1>a, <1>11 DEF Deliver, JobOver, NoReview, NoChecks, NoClone, githubVars
<1>12. CASE Crash
  BY <1>a, <1>12 DEF Crash, JobOver, NoReview, NoChecks, NoClone, taskVars, githubVars
<1>13. CASE People
  <2> USE <1>a, <1>13 DEF People, Act, taskVars, verdictVars, checkVars
  <2>1. CASE MergePR
    BY <2>1 DEF MergePR
  <2>2. CASE ClosePR
    BY <2>2 DEF ClosePR
  <2>3. CASE FlipDraft
    BY <2>3, <1>1 DEF FlipDraft
  <2>4. CASE PushToBranch
    BY <2>4 DEF PushToBranch
  <2>5. CASE Release
    BY <2>5 DEF Release
  <2>6. CASE TagBranch
    BY <2>6 DEF TagBranch
  <2>7. CASE Retrigger
    BY <2>7 DEF Retrigger, githubVars
  <2> QED
    BY <2>1, <2>2, <2>3, <2>4, <2>5, <2>6, <2>7
<1>14. CASE UNCHANGED vars
  BY <1>a, <1>14 DEF vars, taskVars, verdictVars, checkVars, githubVars
<1> QED
  BY <1>2, <1>3, <1>4, <1>5, <1>6, <1>7, <1>8, <1>9, <1>10, <1>11, <1>12, <1>13, <1>14
     DEF Next, Job, Settled

(* The strengthened invariant holds of every reachable state.              *)
THEOREM Inductive == Spec => []IInv
<1> QED
  BY InitIInv, NextIInv, PTL DEF Spec

-----------------------------------------------------------------------------
(* The safety properties the runs check, for every value of the constants. *)

(* A task gets past review only with an approval of an approvable content. *)
THEOREM ApprovalIsEarned == Spec => []ApprovedWasVerified
<1>1. IInv => ApprovedWasVerified
  BY DEF IInv, Sound, Earned, AdvisoryHeld, ApprovedWasVerified, Approvable
<1> QED
  BY <1>1, Inductive, PTL

(* vulns_clear is never set without green gates and a settled advisory.    *)
THEOREM VulnsClearIsSound == Spec => []VulnsClearIsEarned
<1>1. IInv => VulnsClearIsEarned
  BY DEF IInv, Sound, Earned, AdvisoryHeld, VulnsClearIsEarned
<1> QED
  BY <1>1, Inductive, PTL

(* A task review hands on has an owner and instructions, or has shipped.   *)
THEOREM HandOffIsSound == Spec => []HandOffIsActionable
<1>1. IInv => HandOffIsActionable
  BY DEF IInv
<1> QED
  BY <1>1, Inductive, PTL
=============================================================================
