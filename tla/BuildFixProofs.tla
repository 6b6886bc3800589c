--------------------------- MODULE BuildFixProofs ---------------------------
(***************************************************************************)
(* Proofs about BuildFix.tla, for every set of episodes a model may echo,  *)
(* with and without brokers and an owner, every trigger cap and any number *)
(* of crashes, failed or unanswered calls and acts of people.              *)
(***************************************************************************)
EXTENDS BuildFix, TLAPS

-----------------------------------------------------------------------------
(* The inductive invariant.                                                *)

HandingOff == {"chain", "dedup", "spec", "push"}

(* A verdict comes with one of the episodes a model may echo.              *)
PlanInv ==
    /\ plan.verdict # "none" => plan.episode \in Echoes
    /\ fixPlan.verdict # "none" => fixPlan.episode \in Echoes
    /\ pc \in HandingOff => fixPlan.verdict # "none"

(* What a Job does outside, it does for a task without ## Fix Result; a    *)
(* Job of a task that has one works on just that.                          *)
ResultInv ==
    /\ pc \in HandingOff => fixResult = NoResult
    /\ pc # "idle" /\ result # NoResult => fixResult = result
    /\ pc = "idle" => fixResult = NoResult
    /\ pc = "push" => fixPlan.episode # "none"

(* Between two updater tasks for one episode a crash or an unanswered call *)
(* has lost the ## Fix Result that the first one ended in.                 *)
EmissionInv ==
    \A e \in Echoes :
        commands[e] <= faults + (IF result # NoResult \/ fixResult # NoResult THEN 1 ELSE 0)

(* The same of the specs pushed; and a clone that has the spec's branch    *)
(* below it was made of a master that contains the branch.                 *)
FilingInv ==
    /\ filings <= faults + 1
    /\ result = NoResult /\ fixResult = NoResult => filings <= faults
    /\ pc = "push" /\ workdir = "atop" =>
          fixPlan.episode \notin branches \/ fixPlan.episode \in landed

(* What a Job returns, and the phase it runs in.                           *)
ReturnInv ==
    /\ pc # "idle" => phase \in {"planning", "execution", "ai_review"}
    /\ pc = "verify" => phase = "ai_review"
    /\ stamped => next = "human_review"
    /\ next = "human_review" => /\ pc = "deliver" /\ status = "done"
                                /\ fixResult.outcome \notin {"none", "failed"}
                                /\ fixReview = fixResult
                                /\ stamped = HasOwner

IInv == /\ TypeOK
        /\ PlanInv
        /\ ResultInv
        /\ HandOffIsReal
        /\ EmissionInv
        /\ FilingInv
        /\ ReturnInv
        /\ HumanReviewHasHandOff

-----------------------------------------------------------------------------
(* What the ends of a step set.                                            *)

(* Return ends the Job; only a hand-over to a person out of ai_review may  *)
(* stamp the task, and does so if there is an owner.                       *)
LEMMA ReturnSets ==
    \A s, n : Return(s, n) =>
        /\ status' = s /\ next' = n /\ pc' = "deliver"
        /\ stamped' \in BOOLEAN
        /\ n # "human_review" => stamped' = FALSE
        /\ n = "human_review" /\ phase = "ai_review" => stamped' = HasOwner
<1> SUFFICES ASSUME NEW s, NEW n, Return(s, n)
             PROVE  /\ status' = s /\ next' = n /\ pc' = "deliver"
                    /\ stamped' \in BOOLEAN
                    /\ n # "human_review" => stamped' = FALSE
                    /\ n = "human_review" /\ phase = "ai_review" => stamped' = HasOwner
  BY Zenon
<1>1. status' = s /\ next' = n /\ pc' = "deliver"
  BY DEF Return
<1>2. stamped' = (HasOwner /\ phase = "ai_review" /\ n = "human_review")
  BY Zenon DEF Return
<1>3. HasOwner \in BOOLEAN
  BY BuildFixAssumption
<1>4. (HasOwner /\ phase = "ai_review" /\ n = "human_review") \in BOOLEAN
  OBVIOUS
<1>5. stamped' \in BOOLEAN
  BY <1>2, <1>4, Zenon
<1>6. n # "human_review" => stamped' = FALSE
  BY <1>2, <1>5, Zenon
<1>7. n = "human_review" /\ phase = "ai_review" => stamped' = HasOwner
  <2> SUFFICES ASSUME n = "human_review", phase = "ai_review"
               PROVE  stamped' = HasOwner
    OBVIOUS
  <2>1. stamped' = (HasOwner /\ TRUE /\ TRUE)
    BY <1>2, Zenon
  <2> QED
    BY <1>3, <2>1, Zenon
<1> QED
  BY <1>1, <1>5, <1>6, <1>7

(* A hand-off is the ## Fix Result of the plan's episode, for ai_review.   *)
LEMMA HandOffSets ==
    \A o : HandOff(o) =>
        /\ fixResult' = [outcome |-> o, episode |-> fixPlan.episode]
        /\ fixReview' = fixReview
        /\ status' = "done" /\ next' = "ai_review" /\ pc' = "deliver" /\ stamped' = FALSE
<1> TAKE o
<1> HAVE HandOff(o)
<1>1. Return("done", "ai_review")
  BY DEF HandOff
<1>2. status' = "done" /\ next' = "ai_review" /\ pc' = "deliver" /\ stamped' = FALSE
  BY <1>1, ReturnSets
<1> QED
  BY <1>2 DEF HandOff

(* A step that fails asks for no next phase and stamps nobody.             *)
LEMMA FailedSets ==
    Failed => status' = "failed" /\ next' = "none" /\ pc' = "deliver" /\ stamped' = FALSE
BY ReturnSets DEF Failed

-----------------------------------------------------------------------------
(* Type correctness.                                                       *)

(* Every variable has its type at the start.                               *)
LEMMA InitTypeOK == Init => TypeOK
<1> SUFFICES ASSUME Init PROVE TypeOK
  OBVIOUS
<1>1. NoPlan \in PlanType /\ NoResult \in ResultType
  BY DEF NoPlan, NoResult, PlanType, ResultType
<1>2. triggers \in 0..TriggerCap /\ faults \in 0..MaxFaults /\ human \in 0..MaxHuman
  BY BuildFixAssumption DEF Init
<1>3. commands \in [Echoes -> Nat]
  BY DEF Init
<1>4. complete \in BOOLEAN /\ brokers \in BOOLEAN
  BY BuildFixAssumption DEF Init
<1> QED
  BY <1>1, <1>2, <1>3, <1>4 DEF Init, TypeOK, Phases, Pcs

(* The type invariant is kept by every action; only a plan with one of the *)
(* episodes is pushed.                                                     *)
LEMMA NextTypeOK == TypeOK /\ PlanInv /\ [Next]_vars => TypeOK'
<1> SUFFICES ASSUME TypeOK, PlanInv, [Next]_vars
             PROVE  TypeOK'
  OBVIOUS
<1> USE BuildFixAssumption
    DEF TypeOK, taskVars, copyVars, returnVars, outsideVars, boundVars, Pcs, Phases,
        Fault, Goto
<1>1. NoPlan \in PlanType /\ NoResult \in ResultType
  BY DEF NoPlan, NoResult, PlanType, ResultType
<1>2. \A o \in Outcomes : [outcome |-> o, episode |-> fixPlan.episode] \in ResultType
  BY DEF ResultType, PlanType
<1>3. \A o : o \in Outcomes /\ HandOff(o) => /\ fixResult' \in ResultType /\ fixReview' = fixReview
                                        /\ status' = "done" /\ next' = "ai_review"
                                        /\ pc' = "deliver" /\ stamped' = FALSE
  BY <1>2, HandOffSets, Zenon
<1>4. ASSUME JobOver
      PROVE  /\ pc' \in Pcs /\ fixPlan' \in PlanType /\ fixResult' \in ResultType
             /\ fixReview' \in ResultType /\ status' \in {"done", "failed", "needs_input"}
             /\ next' \in Phases \cup {"none"} /\ stamped' \in BOOLEAN
             /\ workdir' \in {"absent", "partial", "clone", "atop"}
  BY <1>1, <1>4 DEF JobOver
<1>5. CASE StartJob
  BY <1>5 DEF StartJob, CanStart
<1>6. CASE VerifyClaudeAuth
  <2>1. Failed \/ Goto("required")
    BY <1>6, Zenon DEF VerifyClaudeAuth
  <2>2. /\ UNCHANGED <<taskVars, copyVars, workdir, outsideVars>>
        /\ faults' \in 0..MaxFaults /\ human' = human
    BY <1>6 DEF VerifyClaudeAuth
  <2>3. /\ pc' \in Pcs /\ status' \in {"done", "failed", "needs_input"}
        /\ next' \in Phases \cup {"none"} /\ stamped' \in BOOLEAN
    BY <2>1, FailedSets
  <2> QED
    BY <2>2, <2>3
<1>7. CASE ReadFixRequired
  BY <1>7, ReturnSets DEF ReadFixRequired
<1>8. CASE CloneEpisode
  BY <1>8 DEF CloneEpisode
<1>9. CASE CloneFallback
  <2>1. Failed \/ Goto("diagnose")
    BY <1>9, Zenon DEF CloneFallback
  <2>2. /\ UNCHANGED <<taskVars, copyVars, outsideVars>>
        /\ workdir' \in {workdir, "clone"}
        /\ faults' \in 0..MaxFaults /\ human' = human
    BY <1>9 DEF CloneFallback
  <2>3. /\ pc' \in Pcs /\ status' \in {"done", "failed", "needs_input"}
        /\ next' \in Phases \cup {"none"} /\ stamped' \in BOOLEAN
    BY <2>1, FailedSets
  <2> QED
    BY <2>2, <2>3
<1>10. CASE RunDiagnosis
  <2>1. \A verdict \in FixVerdicts, episode \in Echoes :
            [verdict |-> verdict, episode |-> episode] \in PlanType
    BY DEF PlanType
  <2>2. fixPlan' \in PlanType
    BY <1>10, <2>1 DEF RunDiagnosis
  <2>3. /\ UNCHANGED <<taskVars, fixResult, fixReview, workdir, outsideVars>>
        /\ faults' \in 0..MaxFaults /\ human' = human
    BY <1>10 DEF RunDiagnosis
  <2>4. \/ Return("done", "done") \/ Return("needs_input", "none")
        \/ Return("done", "execution") \/ Failed
    BY <1>10 DEF RunDiagnosis
  <2>5. /\ pc' \in Pcs /\ status' \in {"done", "failed", "needs_input"}
        /\ next' \in Phases \cup {"none"} /\ stamped' \in BOOLEAN
    BY <2>4, ReturnSets, FailedSets
  <2> QED
    BY <2>2, <2>3, <2>5
<1>11. CASE ReplayGuard
  <2>1. Return("done", "ai_review") \/ Failed \/ Goto("chain") \/ Goto("dedup")
    BY <1>11 DEF ReplayGuard
  <2>2. UNCHANGED <<taskVars, copyVars, workdir, outsideVars, boundVars>>
    BY <1>11 DEF ReplayGuard
  <2>3. /\ pc' \in Pcs /\ status' \in {"done", "failed", "needs_input"}
        /\ next' \in Phases \cup {"none"} /\ stamped' \in BOOLEAN
    BY <2>1, ReturnSets, FailedSets
  <2> QED
    BY <2>2, <2>3
<1>12. CASE ChainToUpdater
  <2>1. commands' \in [Echoes -> Nat]
    BY <1>12 DEF ChainToUpdater, Emit
  <2>2. \E o \in Outcomes : HandOff(o)
    BY <1>12 DEF ChainToUpdater, Outcomes
  <2>3. /\ UNCHANGED <<taskVars, fixPlan, workdir, fetchable, branches, landed, merged, filed,
                    filings>>
        /\ faults' \in 0..MaxFaults /\ human' = human
    BY <1>12 DEF ChainToUpdater
  <2>4. /\ fixResult' \in ResultType /\ fixReview' = fixReview
        /\ status' = "done" /\ next' = "ai_review" /\ pc' = "deliver" /\ stamped' = FALSE
    BY <1>3, <2>2, Zenon
  <2> QED
    BY <2>1, <2>3, <2>4
<1>13. CASE BranchExistsOnOrigin
  <2>1. HandOff("already_filed") \/ (Goto("spec") /\ UNCHANGED <<fixResult, fixReview>>)
    BY <1>13 DEF BranchExistsOnOrigin
  <2>2. /\ UNCHANGED <<taskVars, fixPlan, workdir, fetchable, branches, landed, merged, filed,
                    filings, commands>>
        /\ faults' \in 0..MaxFaults /\ human' = human
    BY <1>13 DEF BranchExistsOnOrigin
  <2>3. "already_filed" \in Outcomes
    BY DEF Outcomes
  <2>4. CASE HandOff("already_filed")
    <3>1. /\ fixResult' \in ResultType /\ fixReview' = fixReview
          /\ status' = "done" /\ next' = "ai_review" /\ pc' = "deliver" /\ stamped' = FALSE
      BY <1>3, <2>3, <2>4, Zenon
    <3> QED
      BY <2>2, <3>1
  <2>5. CASE Goto("spec") /\ UNCHANGED <<fixResult, fixReview>>
    BY <2>2, <2>5
  <2> QED
    BY <2>1, <2>4, <2>5
<1>14. CASE WriteSpec
  <2> DEFINE Cloned == workdir' \in {"clone", "atop"}
  <2>1. \/ HandOff("failed") /\ workdir' = workdir
        \/ Goto("push") /\ UNCHANGED <<fixResult, fixReview>> /\ Cloned
    BY <1>14 DEF WriteSpec
  <2>2. /\ UNCHANGED <<taskVars, fixPlan, outsideVars>>
        /\ faults' \in 0..MaxFaults /\ human' = human
    BY <1>14 DEF WriteSpec
  <2>3. "failed" \in Outcomes
    BY DEF Outcomes
  <2>4. CASE HandOff("failed") /\ workdir' = workdir
    <3>1. /\ fixResult' \in ResultType /\ fixReview' = fixReview
          /\ status' = "done" /\ next' = "ai_review" /\ pc' = "deliver" /\ stamped' = FALSE
      BY <1>3, <2>3, <2>4, Zenon
    <3> QED
      BY <2>2, <2>4, <3>1
  <2>5. CASE Goto("push") /\ UNCHANGED <<fixResult, fixReview>> /\ Cloned
    BY <2>2, <2>5
  <2> QED
    BY <2>1, <2>4, <2>5
<1>15. CASE PushSpec
  <2>1. HandOff("filed") \/ HandOff("failed")
    BY <1>15 DEF PushSpec
  <2>2. /\ UNCHANGED <<taskVars, fixPlan, workdir, fetchable, merged, commands>>
        /\ faults' \in 0..MaxFaults /\ human' = human
    BY <1>15 DEF PushSpec
  <2>3. \/ UNCHANGED <<branches, landed, filed, filings>>
        \/ /\ branches' = branches \cup {fixPlan.episode}
           /\ landed' = landed \ {fixPlan.episode}
           /\ filed' = filed \cup {fixPlan.episode}
           /\ filings' = filings + 1
    BY <1>15 DEF PushSpec, Land
  <2>4. {"filed", "failed"} \subseteq Outcomes
    BY DEF Outcomes
  <2>5. /\ fixResult' \in ResultType /\ fixReview' = fixReview
        /\ status' = "done" /\ next' = "ai_review" /\ pc' = "deliver" /\ stamped' = FALSE
    BY <1>3, <2>1, <2>4, Zenon
  <2>6. fixPlan.episode \in Echoes
    BY <1>15 DEF PushSpec, PlanInv, HandingOff
  <2>7. /\ branches' \subseteq Echoes /\ landed' \subseteq branches'
        /\ filed' \subseteq Echoes /\ filings' \in Nat
    <3>1. CASE UNCHANGED <<branches, landed, filed, filings>>
      BY <3>1
    <3>2. CASE /\ branches' = branches \cup {fixPlan.episode}
               /\ landed' = landed \ {fixPlan.episode}
               /\ filed' = filed \cup {fixPlan.episode}
               /\ filings' = filings + 1
      <4>1. filings' \in Nat
        BY <3>2
      <4>2. branches' \subseteq Echoes /\ filed' \subseteq Echoes
        BY <2>6, <3>2
      <4>3. landed' \subseteq branches'
        BY <3>2
      <4> QED
        BY <4>1, <4>2, <4>3
    <3> QED
      BY <2>3, <3>1, <3>2
  <2> QED
    BY <2>2, <2>5, <2>7
<1>16. CASE VerifyHandOff
  <2>1. \/ fixReview' = fixResult /\ Return("done", "human_review")
        \/ fixReview' = fixReview /\ Failed
    BY <1>16 DEF VerifyHandOff, Accept
  <2>2. /\ UNCHANGED <<taskVars, fixPlan, fixResult, workdir, outsideVars>>
        /\ faults' \in 0..MaxFaults /\ human' = human
    BY <1>16 DEF VerifyHandOff
  <2>3. CASE fixReview' = fixResult /\ Return("done", "human_review")
    <3>1. status' = "done" /\ next' = "human_review" /\ pc' = "deliver" /\ stamped' \in BOOLEAN
      BY <2>3, ReturnSets
    <3> QED
      BY <2>2, <2>3, <3>1
  <2>4. CASE fixReview' = fixReview /\ Failed
    <3>1. status' = "failed" /\ next' = "none" /\ pc' = "deliver" /\ stamped' = FALSE
      BY <2>4, FailedSets
    <3> QED
      BY <2>2, <2>4, <3>1
  <2> QED
    BY <2>1, <2>3, <2>4
<1>17. CASE Deliver
  BY <1>4, <1>17 DEF Deliver
<1>18. CASE Crash
  BY <1>4, <1>18 DEF Crash
<1>19. CASE People
  <2>1. /\ UNCHANGED <<pc, copyVars, returnVars, workdir, faults>>
        /\ human' \in 0..MaxHuman
    BY <1>19 DEF People, Act, MergeSpec, DeleteSpecBranch, Redelegate
  <2>2. CASE MergeSpec
    <3>1. UNCHANGED <<taskVars, fetchable, filed, filings, commands>>
      BY <2>2 DEF MergeSpec
    <3>2. PICK e \in branches \ landed :
              /\ merged' = merged \cup {e}
              /\ \/ branches' = branches /\ landed' \in {landed, landed \cup {e}}
                 \/ branches' = branches \ {e} /\ landed' = landed
      BY <2>2 DEF MergeSpec
    <3>3. branches' \subseteq Echoes /\ landed' \subseteq branches' /\ merged' \subseteq Echoes
      BY <3>2
    <3> QED
      BY <2>1, <3>1, <3>3
  <2>3. CASE DeleteSpecBranch
    BY <2>1, <2>3 DEF DeleteSpecBranch
  <2>4. CASE Redelegate
    BY <2>1, <2>4 DEF Redelegate
  <2> QED
    BY <1>19, <2>2, <2>3, <2>4 DEF People
<1>20. CASE UNCHANGED vars
  BY <1>20 DEF vars
<1> QED
  BY <1>5, <1>6, <1>7, <1>8, <1>9, <1>10, <1>11, <1>12, <1>13, <1>14, <1>15, <1>16,
     <1>17, <1>18, <1>19, <1>20 DEF Next, Job, Settled

-----------------------------------------------------------------------------
(* The initial states establish the invariant.                             *)
LEMMA InitIInv == Init => IInv
<1> SUFFICES ASSUME Init PROVE IInv
  OBVIOUS
<1>1. TypeOK
  BY InitTypeOK
<1>2. PlanInv /\ ResultInv /\ HandOffIsReal /\ ReturnInv /\ HumanReviewHasHandOff
  BY DEF Init, NoPlan, NoResult, PlanInv, ResultInv, HandOffIsReal, ReturnInv,
         HumanReviewHasHandOff, HandingOff
<1>3. EmissionInv /\ FilingInv
  BY DEF Init, EmissionInv, FilingInv
<1> QED
  BY <1>1, <1>2, <1>3 DEF IInv

(* A count that is bounded before a step is bounded after it, by one more  *)
(* if the step counts.                                                     *)
LEMMA CountGrows ==
    \A count, bound, newBound \in Nat :
        newBound = bound \/ newBound = bound + 1 =>
            /\ count <= bound + 1 => count <= newBound + 1
            /\ count <= bound => /\ count <= newBound
                                /\ count <= newBound + 1
                                /\ count + 1 <= newBound + 1
            /\ count <= bound + 1 /\ newBound = bound + 1 => count <= newBound
OBVIOUS

(* Every action keeps the invariant.                                       *)
LEMMA NextIInv == IInv /\ [Next]_vars => IInv'
<1> SUFFICES ASSUME IInv, [Next]_vars
             PROVE  IInv'
  OBVIOUS
<1>1. TypeOK /\ TypeOK'
  BY NextTypeOK DEF IInv
<1> DEFINE Rest == /\ PlanInv /\ ResultInv /\ HandOffIsReal /\ EmissionInv /\ FilingInv
                   /\ ReturnInv /\ HumanReviewHasHandOff
<1> SUFFICES Rest'
  BY <1>1 DEF IInv
<1>a. Rest
  BY DEF IInv
<1>b. faults \in Nat /\ filings \in Nat /\ \A e \in Echoes : commands[e] \in Nat
  BY <1>1, BuildFixAssumption DEF TypeOK
<1>n. faults \in Nat /\ filings \in Nat /\ faults' \in Nat /\ filings' \in Nat
  BY <1>1, BuildFixAssumption DEF TypeOK
<1> USE DEF PlanInv, ResultInv, HandOffIsReal, ReturnInv, HumanReviewHasHandOff, HandingOff
(* EmissionInv survives whatever emits nothing and forgets no result.      *)
<1>c. ASSUME commands' = commands, faults' \in {faults, faults + 1},
             result # NoResult \/ fixResult # NoResult
                => result' # NoResult \/ fixResult' # NoResult \/ faults' = faults + 1
      PROVE  EmissionInv'
  BY <1>a, <1>b, <1>c DEF EmissionInv
(* FilingInv survives whatever pushes nothing outside a push.              *)
<1>g. ASSUME filings' = filings, faults' \in {faults, faults + 1}, pc' # "push",
             result # NoResult \/ fixResult # NoResult
                => result' # NoResult \/ fixResult' # NoResult \/ faults' = faults + 1
      PROVE  FilingInv'
  <2>1. faults' = faults \/ faults' = faults + 1
    BY <1>g
  <2>2. filings <= faults + 1
    BY <1>a DEF FilingInv
  <2>3. filings' <= faults' + 1
    <3>1. filings <= faults' + 1
      BY <1>n, <2>1, <2>2, CountGrows, Zenon
    <3> QED
      BY <1>g, <3>1, Zenon
  <2>4. ASSUME result' = NoResult, fixResult' = NoResult
        PROVE  filings' <= faults'
    <3>1. CASE result = NoResult /\ fixResult = NoResult
      <4>1. filings <= faults
        BY <1>a, <3>1 DEF FilingInv
      <4>2. filings <= faults'
        BY <1>n, <2>1, <4>1, CountGrows, Zenon
      <4> QED
        BY <1>g, <4>2, Zenon
    <3>2. CASE result # NoResult \/ fixResult # NoResult
      <4>1. faults' = faults + 1
        BY <1>g, <2>4, <3>2, Zenon
      <4>2. filings <= faults'
        BY <1>n, <2>2, <4>1, CountGrows, Zenon
      <4> QED
        BY <1>g, <4>2, Zenon
    <3> QED
      BY <3>1, <3>2
  <2> QED
    BY <1>g, <2>3, <2>4 DEF FilingInv, NoResult
(* A step inside a Job that has no result yet and does nothing outside.    *)
<1>d. ASSUME UNCHANGED <<taskVars, copyVars, outsideVars>>, faults' \in {faults, faults + 1},
             pc # "idle", pc \notin {"verify", "deliver"},
             pc' \notin {"idle", "verify", "push"},
             pc' \in HandingOff => fixPlan.verdict # "none" /\ fixResult = NoResult,
             next' # "human_review", stamped' = FALSE
      PROVE  Rest'
  <2>1. EmissionInv' /\ FilingInv'
    BY <1>c, <1>g, <1>d DEF taskVars, copyVars, outsideVars
  <2> QED
    BY <1>a, <1>d, <2>1 DEF taskVars, copyVars, outsideVars
(* A hand-off that emits nothing.                                          *)
<1>e. ASSUME NEW o, HandOff(o), UNCHANGED <<taskVars, fixPlan, fetchable, merged, commands>>,
             filed \subseteq filed', filings' \in {filings, filings + 1}, faults' \in {faults, faults + 1}, pc \in HandingOff,
             o \in {"chain_noop", "chain_failed", "already_filed", "filed", "failed"},
             o = "filed" => fixPlan.episode \in filed',
             o = "chain_noop" => ~brokers
      PROVE  Rest'
  <2>1. /\ fixResult' = [outcome |-> o, episode |-> fixPlan.episode] /\ fixReview' = fixReview
        /\ status' = "done" /\ next' = "ai_review" /\ pc' = "deliver" /\ stamped' = FALSE
    BY <1>e, HandOffSets
  <2>2. fixResult'.outcome = o /\ fixResult'.episode = fixPlan.episode
    BY <2>1
  <2>3. fixResult' # NoResult
    BY <1>e, <2>2 DEF NoResult
  <2>5. result = NoResult /\ fixResult = NoResult
    BY <1>a, <1>e
  <2>4. EmissionInv'
    BY <1>c, <1>e, <2>3
  <2>6. FilingInv'
    <3>1. filings <= faults
      BY <1>a, <2>5 DEF FilingInv
    <3>2. filings' <= faults' + 1
      <4>1. filings' = filings \/ filings' = filings + 1
        BY <1>e
      <4>2. faults' = faults \/ faults' = faults + 1
        BY <1>e
      <4>3. filings <= faults' + 1 /\ filings + 1 <= faults' + 1
        BY <1>n, <3>1, <4>2, CountGrows, Zenon
      <4> QED
        BY <4>1, <4>3, Zenon
    <3> QED
      BY <2>1, <2>3, <3>2 DEF FilingInv, NoResult
  <2> QED
    BY <1>a, <1>e, <2>1, <2>2, <2>3, <2>4, <2>5, <2>6 DEF taskVars, NoResult
<1>2. CASE StartJob
  <2>1. /\ pc = "idle" /\ pc' # "push" /\ UNCHANGED <<commands, filings, faults, result>>
    BY <1>a, <1>2 DEF StartJob, CanStart, outsideVars, boundVars
  <2>2. EmissionInv' /\ FilingInv'
    BY <1>a, <1>c, <1>g, <2>1
  <2> QED
    BY <1>2, <1>a, <2>2 DEF StartJob, CanStart, returnVars, outsideVars
<1> DEFINE Failing == pc' = "deliver" /\ next' = "none" /\ stamped' = FALSE
<1>f. Failed => Failing
  BY FailedSets
<1>3. CASE VerifyClaudeAuth
  <2>1. \/ Failing
        \/ pc' = "required" /\ UNCHANGED returnVars
    BY <1>3, <1>f DEF VerifyClaudeAuth, Goto
  <2>2. /\ pc = "claudeauth" /\ UNCHANGED <<taskVars, copyVars, outsideVars>>
        /\ faults' \in {faults, faults + 1}
    BY <1>3 DEF VerifyClaudeAuth, Fault, boundVars
  <2> QED
    BY <1>a, <1>1, <1>d, <2>1, <2>2 DEF returnVars, TypeOK
<1>4. CASE ReadFixRequired
  <2>1. \/ Return("needs_input", "none")
        \/ pc' = "clone" /\ UNCHANGED returnVars
    BY <1>4 DEF ReadFixRequired, Goto
  <2>2. /\ pc' \in {"clone", "deliver"} /\ next' # "human_review" /\ stamped' = FALSE
    BY <1>a, <1>1, <1>4, <2>1, ReturnSets DEF returnVars, TypeOK, ReadFixRequired
  <2>3. /\ pc = "required" /\ UNCHANGED <<taskVars, copyVars, outsideVars, boundVars>>
    BY <1>4 DEF ReadFixRequired
  <2> QED
    BY <1>d, <2>2, <2>3 DEF boundVars
<1>5. CASE CloneEpisode
  <2>1. /\ pc = "clone" /\ pc' \in {"diagnose", "fallback"} /\ UNCHANGED returnVars
        /\ UNCHANGED <<taskVars, copyVars, outsideVars>>
        /\ faults' \in {faults, faults + 1}
    BY <1>5 DEF CloneEpisode, Goto, Fault, boundVars
  <2> QED
    BY <1>a, <1>1, <1>d, <2>1 DEF returnVars, TypeOK
<1>6. CASE CloneFallback
  <2>1. \/ Failing
        \/ pc' = "diagnose" /\ UNCHANGED returnVars
    BY <1>6, <1>f DEF CloneFallback, Goto
  <2>2. /\ pc = "fallback" /\ UNCHANGED <<taskVars, copyVars, outsideVars>>
        /\ faults' \in {faults, faults + 1}
    BY <1>6 DEF CloneFallback, Fault, boundVars
  <2> QED
    BY <1>a, <1>1, <1>d, <2>1, <2>2 DEF returnVars, TypeOK
<1>7. CASE RunDiagnosis
  <2>1. \/ fixPlan' = fixPlan
        \/ \E verdict \in FixVerdicts, episode \in Echoes :
              fixPlan' = [verdict |-> verdict, episode |-> episode]
    BY <1>7 DEF RunDiagnosis
  <2>2. fixPlan'.verdict # "none" => fixPlan'.episode \in Echoes
    BY <1>a, <2>1
  <2>3. \/ Return("done", "done") \/ Return("needs_input", "none")
        \/ Return("done", "execution") \/ Failed
    BY <1>7 DEF RunDiagnosis
  <2>4. pc' = "deliver" /\ next' # "human_review" /\ stamped' = FALSE
    BY <1>f, <2>3, ReturnSets
  <2>5. /\ pc = "diagnose"
        /\ UNCHANGED <<taskVars, fixResult, fixReview, outsideVars>>
        /\ faults' \in {faults, faults + 1}
    BY <1>7 DEF RunDiagnosis, Fault, boundVars
  <2>6. EmissionInv' /\ FilingInv'
    BY <1>c, <1>g, <2>4, <2>5 DEF taskVars, outsideVars
  <2> QED
    BY <1>a, <2>2, <2>4, <2>5, <2>6 DEF taskVars, outsideVars
<1>8. CASE ReplayGuard
  <2>1. \/ Return("done", "ai_review")
        \/ Failing
        \/ /\ pc' \in {"chain", "dedup"} /\ UNCHANGED returnVars
           /\ fixResult = NoResult /\ fixPlan.verdict \in {"chain_update", "file_spec"}
    BY <1>8, <1>f DEF ReplayGuard, Goto
  <2>2. pc = "replay" /\ UNCHANGED <<taskVars, copyVars, outsideVars, boundVars>>
    BY <1>8 DEF ReplayGuard
  <2>3. /\ pc' \in {"chain", "dedup", "deliver"} /\ next' # "human_review" /\ stamped' = FALSE
        /\ pc' \in HandingOff => fixPlan.verdict # "none" /\ fixResult = NoResult
    BY <1>a, <1>1, <2>1, <2>2, ReturnSets DEF returnVars, TypeOK
  <2> QED
    BY <1>d, <2>2, <2>3 DEF boundVars
<1>9. CASE ChainToUpdater
  <2>1. /\ pc = "chain"
        /\ UNCHANGED <<taskVars, fixPlan, fetchable, branches, landed, merged, filed,
                       filings>>
        /\ faults' \in {faults, faults + 1}
    BY <1>9 DEF ChainToUpdater, Fault, boundVars
  <2>2. CASE commands' = commands
    <3>1. \/ HandOff("chain_noop") /\ ~brokers
          \/ HandOff("chain_failed")
          \/ Emit
      BY <1>9 DEF ChainToUpdater
    <3>2. ~Emit
      <4>1. commands[fixPlan.episode] \in Nat
        BY <1>a, <1>b, <2>1
      <4>2. fixPlan.episode \in DOMAIN commands
        BY <1>a, <1>1, <2>1 DEF TypeOK
      <4> QED
        BY <2>2, <4>1, <4>2 DEF Emit
    <3>3. CASE HandOff("chain_noop") /\ ~brokers
      BY <1>e, <2>1, <2>2, <3>3
    <3>4. CASE HandOff("chain_failed")
      BY <1>e, <2>1, <2>2, <3>4
    <3> QED
      BY <3>1, <3>2, <3>3, <3>4
  <2>3. CASE Emit /\ \E o \in {"chained", "chain_failed"} : HandOff(o)
    <3>1. PICK o \in {"chained", "chain_failed"} : HandOff(o)
      BY <2>3
    <3>2. /\ fixResult' = [outcome |-> o, episode |-> fixPlan.episode]
          /\ fixReview' = fixReview
          /\ status' = "done" /\ next' = "ai_review" /\ pc' = "deliver" /\ stamped' = FALSE
      BY <3>1, HandOffSets
    <3>3. fixResult'.outcome = o /\ fixResult'.episode = fixPlan.episode
          /\ fixResult' # NoResult
      BY <3>1, <3>2 DEF NoResult
    <3>4. \A e \in Echoes : commands'[e] = IF e = fixPlan.episode THEN commands[e] + 1
                                           ELSE commands[e]
      BY <1>1, <2>3 DEF Emit, TypeOK
    <3>5. fixPlan.episode \in Echoes /\ fixResult = NoResult /\ result = NoResult
      BY <1>a, <2>1
    <3>6. EmissionInv' /\ FilingInv'
      BY <1>a, <1>b, <1>g, <2>1, <3>2, <3>3, <3>4, <3>5 DEF EmissionInv
    <3>7. o = "chained" => commands'[fixPlan.episode] > 0
      BY <1>b, <3>4, <3>5
    <3> QED
      BY <1>a, <2>1, <3>1, <3>2, <3>3, <3>5, <3>6, <3>7 DEF taskVars, NoResult
  <2> QED
    BY <1>9, <2>2, <2>3 DEF ChainToUpdater
<1>10. CASE BranchExistsOnOrigin
  <2>1. /\ pc = "dedup" /\ UNCHANGED <<taskVars, fixPlan, outsideVars>>
        /\ faults' \in {faults, faults + 1}
    BY <1>10 DEF BranchExistsOnOrigin, Fault, boundVars
  <2>2. CASE HandOff("already_filed")
    BY <1>e, <2>1, <2>2 DEF outsideVars
  <2>3. CASE pc' = "spec" /\ UNCHANGED returnVars /\ UNCHANGED <<fixResult, fixReview>>
    BY <1>a, <1>1, <1>d, <2>1, <2>3 DEF copyVars, returnVars, TypeOK
  <2> QED
    BY <1>10, <2>2, <2>3 DEF BranchExistsOnOrigin, Goto
<1>11. CASE WriteSpec
  <2>1. /\ pc = "spec" /\ UNCHANGED <<taskVars, fixPlan, outsideVars>>
        /\ faults' \in {faults, faults + 1}
    BY <1>11 DEF WriteSpec, Fault, boundVars
  <2>2. CASE HandOff("failed")
    BY <1>e, <2>1, <2>2 DEF outsideVars
  <2>3. CASE /\ pc' = "push" /\ UNCHANGED returnVars
             /\ UNCHANGED <<fixResult, fixReview>> /\ fixPlan.episode # "none"
             /\ workdir' = "atop" => fixPlan.episode \in landed
    <3>1. EmissionInv'
      BY <1>c, <2>1, <2>3 DEF taskVars, outsideVars
    <3>2. FilingInv'
      <4>1. fixResult = NoResult /\ result = NoResult
        BY <1>a, <2>1
      <4>2. filings <= faults
        BY <1>a, <4>1 DEF FilingInv
      <4>3. filings' <= faults' /\ filings' <= faults' + 1
        <5>1. filings' = filings /\ (faults' = faults \/ faults' = faults + 1)
          BY <2>1 DEF outsideVars
        <5>2. filings <= faults' /\ filings <= faults' + 1
          BY <1>n, <4>2, <5>1, CountGrows, Zenon
        <5> QED
          BY <5>1, <5>2, Zenon
      <4>4. result' = NoResult /\ fixResult' = NoResult
        BY <2>1, <2>3, <4>1 DEF taskVars, NoResult
      <4>5. workdir' = "atop" => fixPlan'.episode \in landed'
        BY <2>1, <2>3 DEF outsideVars
      <4>7. (pc = "push" /\ workdir = "atop" =>
                fixPlan.episode \notin branches \/ fixPlan.episode \in landed)'
        BY <4>5
      <4> QED
        BY <4>3, <4>7 DEF FilingInv, NoResult
    <3> QED
      BY <1>a, <2>1, <2>3, <3>1, <3>2 DEF taskVars, returnVars, outsideVars
  <2> QED
    BY <1>11, <2>2, <2>3 DEF WriteSpec, Goto
<1>12. CASE PushSpec
  <2>1. /\ pc = "push" /\ UNCHANGED <<taskVars, fixPlan, fetchable, merged, commands>>
        /\ faults' \in {faults, faults + 1} /\ filed \subseteq filed'
        /\ filings' \in {filings, filings + 1}
    BY <1>12 DEF PushSpec, Land, Fault, boundVars
  <2>2. CASE HandOff("filed") /\ fixPlan.episode \in filed'
    BY <1>e, <2>1, <2>2
  <2>3. CASE HandOff("failed")
    BY <1>e, <2>1, <2>3
  <2> QED
    BY <1>12, <2>2, <2>3 DEF PushSpec, Land
<1>13. CASE VerifyHandOff
  <2>1. /\ pc = "verify"
        /\ UNCHANGED <<taskVars, fixPlan, fixResult, outsideVars>>
        /\ faults' \in {faults, faults + 1}
    BY <1>13 DEF VerifyHandOff, Fault, boundVars
  <2>5. pc' # "push"
    BY <1>13, ReturnSets, FailedSets DEF VerifyHandOff, Accept
  <2>2. EmissionInv' /\ FilingInv'
    BY <1>c, <1>g, <2>1, <2>5 DEF taskVars, outsideVars
  <2>3. CASE /\ fixResult.outcome \notin {"none", "failed"}
             /\ fixReview' = fixResult /\ Return("done", "human_review")
    <3>1. /\ status' = "done" /\ next' = "human_review" /\ pc' = "deliver"
          /\ stamped' = HasOwner
      BY <1>a, <2>1, <2>3, ReturnSets
    <3> QED
      BY <1>a, <2>1, <2>2, <2>3, <3>1 DEF taskVars, outsideVars
  <2>4. CASE Failing
    BY <1>a, <2>1, <2>2, <2>4 DEF taskVars, outsideVars
  <2> QED
    BY <1>13, <1>f, <2>3, <2>4 DEF VerifyHandOff, Accept
<1>14. CASE Deliver
  <2>1. /\ pc = "deliver" /\ pc' = "idle"
        /\ plan' = fixPlan /\ result' = fixResult /\ review' = fixReview
        /\ fixPlan' = NoPlan /\ fixResult' = NoResult /\ fixReview' = NoResult
        /\ next' = "none" /\ stamped' = FALSE
        /\ UNCHANGED <<brokers, filed, filings, commands, faults>>
        /\ phase' = IF next = "none" THEN phase ELSE next
        /\ assignee' = IF stamped THEN "owner"
                       ELSE IF status = "needs_input" \/ next = "human_review" THEN "none"
                       ELSE assignee
    BY <1>14 DEF Deliver, JobOver, outsideVars, boundVars
  <2>2. EmissionInv' /\ FilingInv'
    BY <1>a, <1>c, <1>g, <2>1
  <2>3. ResultInv' /\ PlanInv' /\ HandOffIsReal'
    BY <1>a, <2>1 DEF NoPlan, NoResult
  <2>4. HumanReviewHasHandOff'
    BY <1>a, <2>1
  <2> QED
    BY <2>1, <2>2, <2>3, <2>4
<1>15. CASE Crash
  <2>1. /\ pc' = "idle" /\ UNCHANGED <<taskVars, outsideVars>> /\ faults' = faults + 1
        /\ fixPlan' = NoPlan /\ fixResult' = NoResult
        /\ next' = "none" /\ stamped' = FALSE
    BY <1>15 DEF Crash, JobOver, Fault
  <2>2. EmissionInv' /\ FilingInv'
    BY <1>c, <1>g, <2>1 DEF outsideVars
  <2> QED
    BY <1>a, <2>1, <2>2 DEF taskVars, outsideVars, NoPlan, NoResult
<1>16. CASE People
  <2>1. /\ UNCHANGED <<pc, copyVars, returnVars, complete, brokers, plan, result, review>>
        /\ UNCHANGED <<fetchable, filed, filings, commands, faults, workdir>>
        /\ branches' \subseteq branches
        /\ landed \cap branches' \subseteq landed'
        /\ UNCHANGED <<phase, assignee>> \/ (pc = "idle" /\ phase' = "planning")
    <3> USE DEF Act, taskVars, outsideVars
    <3>1. CASE MergeSpec
      BY <3>1 DEF MergeSpec
    <3>2. CASE DeleteSpecBranch
      BY <3>2 DEF DeleteSpecBranch
    <3>3. CASE Redelegate
      BY <3>3 DEF Redelegate
    <3> QED
      BY <1>16, <3>1, <3>2, <3>3 DEF People
  <2>2. EmissionInv'
    BY <1>c, <2>1 DEF copyVars
  <2>3. FilingInv'
    BY <1>a, <1>b, <2>1 DEF copyVars, FilingInv
  <2> QED
    BY <1>a, <2>1, <2>2, <2>3 DEF copyVars, returnVars
<1>17. CASE UNCHANGED vars
  BY <1>a, <1>c, <1>17 DEF vars, taskVars, copyVars, returnVars, outsideVars, boundVars,
     EmissionInv, FilingInv
<1> QED
  BY <1>2, <1>3, <1>4, <1>5, <1>6, <1>7, <1>8, <1>9, <1>10, <1>11, <1>12, <1>13, <1>14,
     <1>15, <1>16, <1>17 DEF Next, Job, Settled

(* The strengthened invariant holds of every reachable state.              *)
THEOREM Inductive == Spec => []IInv
<1> QED
  BY InitIInv, NextIInv, PTL DEF Spec

-----------------------------------------------------------------------------
(* The safety properties the runs check, for every value of the constants. *)

(* Every variable has its type, and a task a person is asked to look at    *)
(* has a hand-off that did not fail, a review of just that, and its owner. *)
THEOREM HumanReviewIsReady == Spec => []WellFormed
<1>1. IInv => WellFormed
  BY DEF IInv, WellFormed
<1> QED
  BY <1>1, Inductive, PTL

(* What a ## Fix Result claims has happened outside.                       *)
THEOREM HandOffsAreReal == Spec => []HandOffIsReal
<1>1. IInv => HandOffIsReal
  BY DEF IInv
<1> QED
  BY <1>1, Inductive, PTL

(* A second updater task for an episode takes a fault in between.          *)
THEOREM ChainsNeedFaults == Spec => []ChainsAreBounded
<1>1. IInv => ChainsAreBounded
  <2> SUFFICES ASSUME IInv, NEW e \in Echoes
               PROVE  commands[e] <= 1 + faults
    BY DEF ChainsAreBounded
  <2>1. commands[e] \in Nat /\ faults \in Nat
    BY BuildFixAssumption DEF IInv, TypeOK
  <2> QED
    BY <2>1 DEF IInv, EmissionInv
<1> QED
  BY <1>1, Inductive, PTL

(* Every spec a task pushes beyond the first takes a fault.                *)
THEOREM SpecsAreFiledOnce == Spec => []SpecIsFiledOnce
<1>1. IInv => SpecIsFiledOnce
  <2> SUFFICES ASSUME IInv PROVE filings <= 1 + faults
    BY DEF SpecIsFiledOnce
  <2>1. filings \in Nat /\ faults \in Nat
    BY BuildFixAssumption DEF IInv, TypeOK
  <2> QED
    BY <2>1 DEF IInv, FilingInv
<1> QED
  BY <1>1, Inductive, PTL

(* A push goes to a branch that is gone or that master contains: no spec   *)
(* is replaced while it waits on its branch.                               *)
THEOREM SpecsAreKept == Spec => UnmergedSpecStays
<1> DEFINE Kept == filings' # filings =>
                     fixPlan.episode \notin branches \/ fixPlan.episode \in landed
<1>1. IInv /\ [Next]_vars => [Kept]_vars
  <2> SUFFICES ASSUME IInv, Next, filings' # filings
               PROVE  fixPlan.episode \notin branches \/ fixPlan.episode \in landed
    BY DEF vars, outsideVars
  <2>1. PushSpec
    BY DEF Next, StartJob, Job, VerifyClaudeAuth, ReadFixRequired, CloneEpisode, CloneFallback,
           RunDiagnosis, ReplayGuard, ChainToUpdater, BranchExistsOnOrigin, WriteSpec,
           VerifyHandOff, Deliver, Crash, People, MergeSpec, DeleteSpecBranch, Redelegate,
           Settled, vars, outsideVars
  <2>2. pc = "push" /\ (fixPlan.episode \notin branches \/ workdir = "atop")
    BY <2>1 DEF PushSpec
  <2> QED
    BY <2>2 DEF IInv, FilingInv
<1> QED
  BY <1>1, Inductive, PTL DEF Spec, UnmergedSpecStays

(* Once the task has its ## Fix Result no Job does anything outside.       *)
THEOREM ReplaysAreInert == Spec => ReplayIsInert
<1> DEFINE Inert == result # NoResult => /\ result' = result
                                         /\ branches' \subseteq branches
                                         /\ filings' = filings
                                         /\ commands' = commands
<1>1. IInv /\ [Next]_vars => [Inert]_vars
  <2> SUFFICES ASSUME IInv, Next, result # NoResult
               PROVE  /\ result' = result
                      /\ branches' \subseteq branches
                      /\ filings' = filings
                      /\ commands' = commands
    BY DEF vars
  <2>1. pc \notin HandingOff /\ (pc # "idle" => fixResult = result)
    BY DEF IInv, ResultInv, HandingOff
  <2> QED
    BY <2>1 DEF HandingOff, Next, StartJob, Job, VerifyClaudeAuth, ReadFixRequired,
           CloneEpisode, CloneFallback, RunDiagnosis, ReplayGuard, ChainToUpdater,
           BranchExistsOnOrigin, WriteSpec, PushSpec, VerifyHandOff, Deliver, Crash, People,
           MergeSpec, DeleteSpecBranch, Redelegate, Settled, vars, taskVars, outsideVars
<1> QED
  BY <1>1, Inductive, PTL DEF Spec, ReplayIsInert
=============================================================================
