------------------------------- MODULE Budget -------------------------------
(***************************************************************************)
(* The time of an execution Job: which of its calls have a timeout of      *)
(* their own, what hasGateRepairBudget makes of the time that is left, and *)
(* where the Job's activeDeadlineSeconds may strike.  What the calls do is *)
(* Execution.tla; here a call only takes its time.  Minutes.               *)
(***************************************************************************)
EXTENDS Integers

CONSTANTS JobDeadline,    \* activeDeadlineSeconds
          BulkTimeout,    \* bulkUpdateTimeout, for each of two commands
          ClaudeTimeout,  \* claudeExecutionTimeout
          RepairTimeout,  \* gateRepairTimeout
          Reserve,        \* the minutes hasGateRepairBudget keeps back
          MaxStep,        \* bound: minutes of a call without a timeout
          HasDeadline     \* the context carries the Job's deadline; main.go
                          \* passes one that does not

VARIABLES
    clock,     \* minutes the Job has run
    call,      \* the call that comes next, or how the Job ended
    during,    \* the call the Job was killed in
    salvaged,  \* Claude failed or ran out of time
    skipBulk,  \* an advisory-driven or golang-only task
    repaired   \* minute the repair returned; -1: none

vars == <<clock, call, during, salvaged, skipBulk, repaired>>

Init ==
    /\ clock = 0 /\ call = "clone" /\ during = "none"
    /\ salvaged = FALSE /\ skipBulk \in BOOLEAN
    /\ repaired = -1

-----------------------------------------------------------------------------
(* A call of up to limit minutes.  Kubernetes kills the pod at the         *)
(* deadline, whatever it is doing; a context that knows about the deadline *)
(* is done then, and so is Run.                                            *)
Call(limit, next) ==
    \E d \in 0..limit :
        IF clock + d < JobDeadline
        THEN /\ clock' = clock + d
             /\ call' = next
             /\ UNCHANGED during
        ELSE /\ clock' = JobDeadline
             /\ call' = IF HasDeadline THEN "failed" ELSE "killed"
             /\ during' = call

Clone == /\ call = "clone"
         /\ Call(MaxStep, IF skipBulk THEN "claude" ELSE "get")
         /\ UNCHANGED <<salvaged, skipBulk, repaired>>

(* bulkUpdater.Run: go get, then go mod tidy if that did not fail.         *)
BulkGet == /\ call = "get"
           /\ \/ Call(BulkTimeout, "tidy") \/ Call(BulkTimeout, "claude")
           /\ UNCHANGED <<salvaged, skipBulk, repaired>>

BulkTidy == /\ call = "tidy"
            /\ Call(BulkTimeout, "claude")
            /\ UNCHANGED <<salvaged, skipBulk, repaired>>

Claude == /\ call = "claude"
          /\ Call(ClaudeTimeout, "gates")
          /\ salvaged' \in BOOLEAN
          /\ UNCHANGED <<skipBulk, repaired>>

HasGateRepairBudget == HasDeadline => JobDeadline - clock >= RepairTimeout + Reserve

(* gatesWithRepair: green, or red and repaired, or red and failed.  After  *)
(* a Claude that failed there is no repair.                                *)
Gates == /\ call = "gates"
         /\ \/ Call(MaxStep, "publish")
            \/ Call(MaxStep, IF salvaged THEN "failed" ELSE "red")
         /\ UNCHANGED <<salvaged, skipBulk, repaired>>

Decide == /\ call = "red"
          /\ call' = IF HasGateRepairBudget THEN "repair" ELSE "failed"
          /\ UNCHANGED <<clock, during, salvaged, skipBulk, repaired>>

Repair == /\ call = "repair"
          /\ Call(RepairTimeout, "regates")
          /\ repaired' = IF call' = "regates" THEN clock' ELSE repaired
          /\ UNCHANGED <<salvaged, skipBulk>>

Regates == /\ call = "regates"
           /\ Call(MaxStep, "publish") \/ Call(MaxStep, "failed")
           /\ UNCHANGED <<salvaged, skipBulk, repaired>>

(* Commit, push and pull request.                                          *)
Publish == /\ call = "publish"
           /\ Call(MaxStep, "done")
           /\ UNCHANGED <<salvaged, skipBulk, repaired>>

Over == call \in {"done", "failed", "killed"} /\ UNCHANGED vars

Next == \/ Clone \/ BulkGet \/ BulkTidy \/ Claude \/ Gates \/ Decide
        \/ Repair \/ Regates \/ Publish \/ Over

Spec == Init /\ [][Next]_vars

-----------------------------------------------------------------------------
(* Statements of comments the code does not keep.                          *)

(* gatesWithRepair: "The repair is skipped when the Job budget cannot      *)
(* cover it plus the second gate run and the commit/push tail".            *)
RepairIsCovered == repaired # -1 => JobDeadline - repaired >= Reserve

(* claudeExecutionTimeout: its point is "returning control to Go while     *)
(* there is still Job budget left to act on the result".                   *)
ClaudeReturnsInTime == during # "claude"
=============================================================================
