------------------------------ MODULE Process -------------------------------
(* The process around a phase: how it starts and ends (StartUp.tla) and    *)
(* how planning runs the Claude CLI as a child (PlanningRunner.tla).       *)
(*                                                                         *)
(* The two share no variable: the start-up knows of the agent only that it *)
(* ran, and the child belongs to planning.  Their composition is a sum: a  *)
(* behaviour is one of one of them, and the variables of the other keep    *)
(* one initial value.                                                      *)
EXTENDS StartUp, PlanningRunner

VARIABLE part  \* "start_up" or "runner": whose behaviour this is

vars == <<part, startUpVars, runnerVars>>

Init ==
    /\ part \in {"start_up", "runner"}
    /\ StartUpInit(IF part = "start_up" THEN Environments
                   ELSE {e \in Environments : e.mode = "local" /\ e.flagsOK /\ e.knownType})
    /\ RunnerInit(IF part = "runner" THEN Scripts ELSE {<<>>})

OnlyRunner == part = "runner" /\ UNCHANGED <<part, startUpVars>>

Next == \/ part = "start_up" /\ StartUpNext /\ UNCHANGED <<part, runnerVars>>
        \/ OnlyRunner /\ RunnerNext

(* A child that is not stopped writes on and ends, the runner reads on.    *)
Fairness == /\ WF_vars(OnlyRunner /\ Write)
            /\ WF_vars(OnlyRunner /\ written = Len(script) /\ Exit)
            /\ WF_vars(OnlyRunner /\ Kill)
            /\ WF_vars(OnlyRunner /\ (ScanLine \/ EndOfOutput \/ Wait))

Spec == Init /\ [][Next]_vars /\ Fairness

(* Run of the Claude runner returns: by itself when every line fits its    *)
(* buffer, and once it is cancelled whatever the child wrote.              *)
RunReturns == part = "runner" /\ (cancelled \/ (run = "scan" /\ ~Huge)) ~> Returned
=============================================================================
