----------------------------- MODULE Diagnosis ------------------------------
(***************************************************************************)
(* The evidence of a build-fix diagnosis: FetchFailedLogs of pkg/gh_cli.go *)
(* picks a workflow run of the episode and reads its log, runDiagnosis of  *)
(* pkg/steps_fix_planning.go falls back to the task's body, and the model  *)
(* classifies what it is given.  The phases around it are BuildFix.tla;    *)
(* here CI goes on while the evidence is collected.                        *)
(***************************************************************************)
EXTENDS Integers, Sequences, FiniteSetsExt

CONSTANTS RunIds,   \* databaseId of a workflow run, newer runs greater
          Bound,    \* the 200 of truncateToLines
          MaxLog,   \* bound: lines of a log
          MaxCI     \* bound: things CI does during a diagnosis

Unfinished == ""

Conclusions == {Unfinished, "success", "skipped", "failure", "cancelled"}

LogLines == {"setup", "error"}

Verdicts == {"no_fix_needed", "chain_update", "file_spec", "needs_input"}

ASSUME DiagnosisAssumption ==
    /\ RunIds \subseteq Nat \ {0} /\ IsFiniteSet(RunIds)
    /\ Bound \in Nat \ {0} /\ MaxLog \in Nat \ {0} /\ MaxCI \in Nat

VARIABLES
    conclusion,  \* of the episode's runs
    log,         \* of a run that failed
    head,        \* "green" or "red": the default branch
    body,        \* the task file has ## Failing Workflows, ## Error or ## Log
    diagnosisStage, picked, evidence, ci

repoVars == <<conclusion, log, head, body>>
diagnosisVars == <<repoVars, diagnosisStage, picked, evidence, ci>>

Logs == UNION {[1..n -> LogLines] : n \in 1..MaxLog}

NoEvidence == [from |-> "nowhere", lines |-> <<>>, dropped |-> 0]

(* The runs of an episode, a log, the default branch and the task's body.  *)
Episodes == (UNION {[S -> Conclusions] : S \in SUBSET RunIds})
              \X Logs \X {"green", "red"} \X BOOLEAN

DiagnosisInit(episodes) ==
    /\ \E e \in episodes :
         conclusion = e[1] /\ log = e[2] /\ head = e[3] /\ body = e[4]
    /\ diagnosisStage = "list" /\ picked = 0
    /\ evidence = NoEvidence /\ ci = 0

-----------------------------------------------------------------------------
TruncateToLines(lines) ==
    IF Len(lines) <= Bound THEN [from |-> "gh", lines |-> lines, dropped |-> 0]
    ELSE [from |-> "gh", lines |-> SubSeq(lines, Len(lines) - Bound + 1, Len(lines)),
          dropped |-> Len(lines) - Bound]

(* gh run list, newest run first; the loop stops at the first run whose    *)
(* conclusion is neither success nor skipped.  A failed call is no run.    *)
ListRuns ==
    /\ diagnosisStage = "list"
    /\ LET red == {r \in DOMAIN conclusion : conclusion[r] \notin {"success", "skipped"}}
       IN  \/ /\ red # {}
              /\ picked' = Max(red) /\ diagnosisStage' = "view"
           \/ picked' = 0 /\ diagnosisStage' = "body"
    /\ UNCHANGED <<repoVars, evidence, ci>>

(* gh run view --log-failed: refused for a run that has not finished,      *)
(* empty for one without a failed step.                                    *)
ViewRun ==
    /\ diagnosisStage = "view"
    /\ \/ /\ conclusion[picked] = "failure"
          /\ evidence' = TruncateToLines(log)
          /\ diagnosisStage' = "diagnose"
       \/ /\ UNCHANGED evidence
          /\ diagnosisStage' = "body"
    /\ UNCHANGED <<repoVars, picked, ci>>

(* Mutant: a failed fetch ends the diagnosis.                              *)
EscalateAtOnce ==
    /\ diagnosisStage = "body"
    /\ diagnosisStage' = "needs_input"
    /\ UNCHANGED <<repoVars, picked, evidence, ci>>

ReadBody ==
    /\ diagnosisStage = "body"
    /\ IF body
       THEN /\ evidence' = [from |-> "body", lines |-> <<>>, dropped |-> 0]
            /\ diagnosisStage' = "diagnose"
       ELSE /\ diagnosisStage' = "needs_input"
            /\ UNCHANGED evidence
    /\ UNCHANGED <<repoVars, picked, ci>>

(* The model; its verdict is the plan's, an unusable answer is for a       *)
(* person, a failed call fails the step.                                   *)
Diagnose ==
    /\ diagnosisStage = "diagnose"
    /\ \/ \E v \in Verdicts :
            diagnosisStage' = CASE v = "no_fix_needed" -> "done"
                                [] v = "needs_input" -> "needs_input"
                                [] OTHER -> "execution"
       \/ diagnosisStage' \in {"needs_input", "failed"}
    /\ UNCHANGED <<repoVars, picked, evidence, ci>>

DiagnosisOver == /\ diagnosisStage \in {"done", "needs_input", "execution", "failed"}
                 /\ UNCHANGED diagnosisVars

-----------------------------------------------------------------------------
(* CI: a run ends, or one is started.                                      *)
RunEnds == /\ ci < MaxCI
           /\ \E r \in DOMAIN conclusion, c \in Conclusions \ {Unfinished} :
                /\ conclusion[r] = Unfinished
                /\ conclusion' = [conclusion EXCEPT ![r] = c]
           /\ ci' = ci + 1
           /\ UNCHANGED <<log, head, body, diagnosisStage, picked, evidence>>

RunStarts == /\ ci < MaxCI
             /\ \E r \in RunIds \ DOMAIN conclusion :
                  /\ r > Max(DOMAIN conclusion \cup {0})
                  /\ conclusion' = [s \in DOMAIN conclusion \cup {r} |->
                                      IF s = r THEN Unfinished ELSE conclusion[s]]
             /\ ci' = ci + 1
             /\ UNCHANGED <<log, head, body, diagnosisStage, picked, evidence>>

DiagnosisNext == \/ ListRuns \/ ViewRun \/ ReadBody \/ Diagnose \/ DiagnosisOver
                 \/ RunEnds \/ RunStarts

-----------------------------------------------------------------------------
(* The type of every variable; a diagnosis has seen something.             *)
DiagnosisTypeOK == /\ conclusion \in UNION {[S -> Conclusions] : S \in SUBSET RunIds}
                   /\ log \in Logs /\ head \in {"green", "red"} /\ body \in BOOLEAN
                   /\ diagnosisStage \in {"list", "view", "body", "diagnose", "done",
                                           "needs_input", "execution", "failed"}
                   /\ picked \in RunIds \cup {0}
                   /\ evidence.lines \in Seq(LogLines) /\ Len(evidence.lines) <= Bound
                   /\ ci \in 0..MaxCI
                   /\ diagnosisStage \in {"diagnose", "done", "execution", "failed"}
                        => evidence # NoEvidence

(* An error the log ends with is in what the model sees, and the marker    *)
(* tells it how much it does not see.                                      *)
EndOfLogIsSeen ==
    evidence.from = "gh" =>
        /\ log[Len(log)] = "error" => \E i \in DOMAIN evidence.lines : evidence.lines[i] = "error"
        /\ evidence.dropped + Len(evidence.lines) = Len(log)

(* A task is only handed back for want of evidence when neither CI nor the *)
(* task file gave any: a fetch that failed never hides the body's log.     *)
BodyIsTheFallback == diagnosisStage = "needs_input" /\ body => evidence # NoEvidence

(* The evidence there is reaches the model, its end included.              *)
EvidenceIsKept == /\ DiagnosisTypeOK
                  /\ EndOfLogIsSeen
                  /\ BodyIsTheFallback

-----------------------------------------------------------------------------
(* FetchFailedLogs: "lowest id whose conclusion is failure".               *)
FailingRunIsPicked ==
    [][diagnosisStage = "list" /\ picked' # 0 =>
         /\ conclusion[picked'] = "failure"
         /\ \A r \in DOMAIN conclusion : conclusion[r] = "failure" => picked' <= r]_diagnosisVars

(* Run: "Verify build state at HEAD: if green -> ## Fix Plan +             *)
(* Done/NextPhase done (no_fix_needed, task completes)".                   *)
GreenNeedsNoFix == diagnosisStage = "execution" => head = "red"
=============================================================================
