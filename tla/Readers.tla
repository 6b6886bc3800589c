------------------------------ MODULE Readers -------------------------------
(* The parts of the agent that turn text into facts, or facts into text:   *)
(* what planning reads in a clone (RepoFacts.tla), the CHANGELOG writer    *)
(* and its review (Changelog.tla), the object in a model's answer          *)
(* (LLMJson.tla), the advisory block against the module graph              *)
(* (AdvisoryCheck.tla) and the evidence of a red build (Diagnosis.tla).    *)
(*                                                                         *)
(* They are called from different phases and share no state, so their      *)
(* composition is a sum: a behaviour is one of one of them, and the        *)
(* variables of the others keep one initial value.                         *)
EXTENDS RepoFacts, Changelog, LLMJson, AdvisoryCheck, Diagnosis

CONSTANT Readers  \* the parts that are checked

AllReaders == {"facts", "changelog", "json", "advisory", "diagnosis"}

ASSUME ReadersAssumption == Readers \subseteq AllReaders

VARIABLE reader  \* whose behaviour this is

vars == <<reader, factsVars, changelogVars, jsonVars, advisoryVars, diagnosisVars>>

Idle(part, inputs, none) == IF reader = part THEN inputs ELSE none

Init ==
    /\ reader \in Readers
    /\ FactsInit(Idle("facts", Repos,
                      {[pins |-> {}, output |-> [t \in DOMAIN Targets |-> <<>>],
                        green |-> [t \in DOMAIN Targets |-> TRUE],
                        make |-> <<>>, lists |-> <<>>]}))
    /\ ChangelogInit(Idle("changelog", BaseFiles, {Absent}))
    /\ JsonInit(Idle("json", Responses, {<<>>}))
    /\ AdvisoryInit(Idle("advisory", Entries, [kind : {"none"}, map : {NoBlock}]),
                    Idle("advisory", Graphs, {CHOOSE g \in Graphs : TRUE}))
    /\ DiagnosisInit(Idle("diagnosis", Episodes,
                          {<<[r \in {} |-> Unfinished], <<"error">>, "green", FALSE>>}))

Next ==
    \/ /\ reader = "facts" /\ FactsNext
       /\ UNCHANGED <<reader, changelogVars, jsonVars, advisoryVars, diagnosisVars>>
    \/ /\ reader = "changelog" /\ ChangelogNext
       /\ UNCHANGED <<reader, factsVars, jsonVars, advisoryVars, diagnosisVars>>
    \/ /\ reader = "json" /\ JsonNext
       /\ UNCHANGED <<reader, factsVars, changelogVars, advisoryVars, diagnosisVars>>
    \/ /\ reader = "advisory" /\ AdvisoryNext
       /\ UNCHANGED <<reader, factsVars, changelogVars, jsonVars, diagnosisVars>>
    \/ /\ reader = "diagnosis" /\ DiagnosisNext
       /\ UNCHANGED <<reader, factsVars, changelogVars, jsonVars, advisoryVars>>

Spec == Init /\ [][Next]_vars
=============================================================================
