---------------------------- MODULE MCExecution ----------------------------
(* Execution.tla on task files chosen so that each branch of Run is taken. *)
EXTENDS Execution

Ready == [frontmatter |-> TRUE, scope |-> "unset", gates |-> 2,
          plan |-> [go |-> TRUE, deps |-> TRUE, vulns |-> {"module"}],
          advisory |-> "none"]

MCInputs ==
    {Ready,
     [Ready EXCEPT !.scope = "golang"],
     [Ready EXCEPT !.advisory = "valid"],
     [Ready EXCEPT !.advisory = "malformed"],
     [Ready EXCEPT !.scope = "golang", !.plan = [NoPlan EXCEPT !.deps = TRUE]],
     [Ready EXCEPT !.scope = "unknown"],
     [Ready EXCEPT !.frontmatter = FALSE],
     [Ready EXCEPT !.gates = 0]}

OneInput == {[Ready EXCEPT !.gates = 1]}

MCPaths == {"source", "changelog", "wf_same", "wf_newdir"}

FewPaths == {"source", "changelog", "wf_new"}

Workflows == {"source", "wf_regen", "wf_same"}
=============================================================================
