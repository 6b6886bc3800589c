--------------------------- MODULE PlanningRunner ---------------------------
(***************************************************************************)
(* planningRunner.Run of pkg/planning_runner.go: the claude CLI writes     *)
(* stream-json lines into a pipe of bounded size, scanPlanningOutput reads *)
(* them, and cmd.Wait collects the exit status after that.  Cancelling the *)
(* context kills the child, in a goroutine of os/exec of its own.          *)
(***************************************************************************)
EXTENDS Naturals, Sequences, Selection

CONSTANTS Texts,      \* texts of result events
          Kinds,      \* kinds of lines the child may write
          MaxWritten, \* bound: lines the child writes
          Capacity,   \* lines that fit into the pipe
          TailMax,    \* planningTailMaxLines
          MayCancel   \* the context may be cancelled

(* huge: a line of more than the ten megabytes the scanner's buffer holds; *)
(* rest: what the child still has to write of it when the scanner gives up.*)
LineKinds == Texts \cup {"toolresult", "emptyresult", "event", "huge", "rest"}

NoText == ""  \* resultText before the first result event

ASSUME RunnerAssumption ==
    /\ Kinds \subseteq LineKinds
    /\ MaxWritten \in Nat
    /\ Capacity \in Nat \ {0}
    /\ TailMax \in Nat \ {0}
    /\ MayCancel \in BOOLEAN

VARIABLES
    script,   \* the lines the child writes when it is let to
    written,  \* how many it has written
    child,    \* "running", "ok", "failed", "killed"
    pipe,
    cancelled,
    run,      \* "scan", "wait", or how Run returned
    text,     \* resultText
    tail,
    logged    \* tool_result bodies, by their lines

childVars == <<script, written, child>>
scanVars == <<text, tail, logged>>
runnerVars == <<childVars, pipe, cancelled, run, scanVars>>

(* A huge line is followed by its rest, and only then.                     *)
Scripts == {s \in UNION {[1..n -> Kinds] : n \in 0..MaxWritten} :
              \A i \in DOMAIN s : s[i] = "rest" <=> i > 1 /\ s[i - 1] = "huge"}

RunnerInit(scripts) ==
    /\ script \in scripts
    /\ written = 0 /\ child = "running"
    /\ pipe = <<>> /\ cancelled = FALSE
    /\ run = "scan"
    /\ text = NoText /\ tail = <<>> /\ logged = <<>>

-----------------------------------------------------------------------------
(* The child.                                                              *)

Write == /\ child = "running"
         /\ written < Len(script)
         /\ Len(pipe) < Capacity
         /\ pipe' = Append(pipe, script[written + 1])
         /\ written' = written + 1
         /\ UNCHANGED <<script, child, cancelled, run, scanVars>>

Exit == /\ child = "running"
        /\ \/ written = Len(script) /\ child' = "ok"
           \/ child' = "failed"
        /\ UNCHANGED <<script, written, pipe, cancelled, run, scanVars>>

(* os/exec, once the context is done.                                      *)
Kill == /\ cancelled
        /\ child = "running"
        /\ child' = "killed"
        /\ UNCHANGED <<script, written, pipe, cancelled, run, scanVars>>

Cancel == /\ MayCancel
          /\ ~cancelled
          /\ cancelled' = TRUE
          /\ UNCHANGED <<childVars, pipe, run, scanVars>>

-----------------------------------------------------------------------------
AppendPlanningTail(lines, line) ==
    LET all == Append(lines, line)
    IN  IF Len(all) > TailMax THEN Tail(all) ELSE all

IsResult(line) == line \in Texts

(* Mutants: the first result event ends the scan; the first one is kept.   *)
ScanToResult ==
    /\ run = "scan"
    /\ pipe # <<>>
    /\ pipe' = Tail(pipe)
    /\ IF IsResult(Head(pipe)) /\ ~cancelled
       THEN /\ run' = "wait"
            /\ text' = Head(pipe)
            /\ UNCHANGED <<tail, logged>>
       ELSE IF cancelled \/ Head(pipe) = "huge"
       THEN /\ run' = "wait" /\ text' = NoText /\ tail' = <<>>
            /\ UNCHANGED logged
       ELSE /\ tail' = AppendPlanningTail(tail, Head(pipe))
            /\ logged' = IF Head(pipe) = "toolresult" THEN Append(logged, Head(pipe)) ELSE logged
            /\ UNCHANGED <<run, text>>
    /\ UNCHANGED <<childVars, cancelled>>

ScanFirstResult ==
    /\ run = "scan"
    /\ pipe # <<>>
    /\ pipe' = Tail(pipe)
    /\ IF cancelled \/ Head(pipe) = "huge"
       THEN /\ run' = "wait" /\ text' = NoText /\ tail' = <<>>
            /\ UNCHANGED logged
       ELSE /\ tail' = AppendPlanningTail(tail, Head(pipe))
            /\ logged' = IF Head(pipe) = "toolresult" THEN Append(logged, Head(pipe)) ELSE logged
            /\ text' = IF IsResult(Head(pipe)) /\ text = NoText THEN Head(pipe) ELSE text
            /\ UNCHANGED run
    /\ UNCHANGED <<childVars, cancelled>>

(* scanPlanningOutput, one line; a cancelled context and a line that is    *)
(* too long end it with nothing.                                           *)
ScanLine ==
    /\ run = "scan"
    /\ pipe # <<>>
    /\ pipe' = Tail(pipe)
    /\ IF cancelled \/ Head(pipe) = "huge"
       THEN /\ run' = "wait" /\ text' = NoText /\ tail' = <<>>
            /\ UNCHANGED logged
       ELSE /\ tail' = AppendPlanningTail(tail, Head(pipe))
            /\ logged' = IF Head(pipe) = "toolresult" THEN Append(logged, Head(pipe)) ELSE logged
            /\ text' = IF IsResult(Head(pipe)) THEN Head(pipe) ELSE text
            /\ UNCHANGED run
    /\ UNCHANGED <<childVars, cancelled>>

EndOfOutput == /\ run = "scan"
               /\ pipe = <<>> /\ child # "running"
               /\ run' = "wait"
               /\ UNCHANGED <<childVars, pipe, cancelled, scanVars>>

(* cmd.Wait returns when the child is gone; it does not read the pipe.     *)
Wait == /\ run = "wait"
        /\ child # "running"
        /\ run' = CASE child # "ok" -> "failed"
                    [] child = "ok" /\ text = NoText -> "noresult"
                    [] OTHER -> "answered"
        /\ UNCHANGED <<childVars, pipe, cancelled, scanVars>>

Returned == run \in {"failed", "noresult", "answered"}

(* Run still waits for a child that waits for the pipe.                    *)
RunnerOver == /\ Returned \/ (run = "wait" /\ Len(pipe) = Capacity /\ ~MayCancel)
              /\ UNCHANGED runnerVars

RunnerNext == \/ Write \/ Exit \/ Kill \/ Cancel
              \/ ScanLine \/ EndOfOutput \/ Wait \/ RunnerOver

-----------------------------------------------------------------------------
(* The result events of the child, and the tool results it reported.       *)
Results == KeepAt(script, {i \in DOMAIN script : IsResult(script[i])})

Bodies == KeepAt(script, {i \in DOMAIN script : script[i] = "toolresult"})

LastResult == IF Results = <<>> THEN NoText ELSE Results[Len(Results)]

Huge == \E i \in DOMAIN script : script[i] = "huge"

(* The type of every variable; the tail is short.                          *)
RunnerTypeOK == /\ script \in Seq(LineKinds) /\ written \in 0..Len(script)
                /\ child \in {"running", "ok", "failed", "killed"}
                /\ pipe \in Seq(LineKinds) /\ Len(pipe) <= Capacity
                /\ cancelled \in BOOLEAN
                /\ run \in {"scan", "wait", "failed", "noresult", "answered"}
                /\ text \in Texts \cup {NoText}
                /\ tail \in Seq(LineKinds) /\ Len(tail) <= TailMax
                /\ logged \in Seq(LineKinds)

(* An answer is the last result event of a child that wrote everything and *)
(* ended well: never an earlier one, nor one of a run that was cut short.  *)
AnswerIsComplete == run = "answered" => /\ child = "ok"
                                        /\ pipe = <<>>
                                        /\ text = LastResult

(* An answer comes with the log of every tool result the child reported,   *)
(* the evidence a claim about the environment is held against.             *)
AnswerIsLogged == run = "answered" => logged = Bodies

(* A child that ends badly is reported with the last lines it wrote.       *)
FailureNamesTheEnd ==
    run = "failed" /\ ~cancelled /\ ~Huge =>
        tail = SubSeq(script, IF written > TailMax THEN written - TailMax + 1 ELSE 1, written)

(* What Run returns is what the child did: its last answer with all of its *)
(* log, or a failure with the end of its output.                           *)
OutcomeIsTrue == /\ RunnerTypeOK
                 /\ AnswerIsComplete
                 /\ AnswerIsLogged
                 /\ FailureNamesTheEnd

-----------------------------------------------------------------------------
(* The error of Run, "no result event found in claude CLI output", says    *)
(* what scanPlanningOutput promises: it "returns the last non-empty result *)
(* event text".                                                            *)
NoResultIsTrue == run = "noresult" => LastResult = NoText
=============================================================================
