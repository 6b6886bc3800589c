---------------------------- MODULE UpdateScope ----------------------------
(***************************************************************************)
(* What an update task is allowed to touch, and whether a plan holds work  *)
(* for it (pkg/update_scope.go, pkg/plan_output.go).  Planning decides to  *)
(* go on and execution decides to start by the same operator, each on its  *)
(* own copy of the plan, so the operators live here once.                  *)
(*                                                                         *)
(* A plan is abstracted to the three fields those decisions read:          *)
(*   go     a go-directive bump is planned (GoBump # nil)                  *)
(*   deps   dependency updates are expected (DepUpdatesExpected)           *)
(*   vulns  the kinds of findings listed: "module" for one with a package, *)
(*          "stdlib" for one without                                       *)
(***************************************************************************)

Scopes == {"both", "golang", "deps"}

VulnKinds == {"module", "stdlib"}

Plans == [go : BOOLEAN, deps : BOOLEAN, vulns : SUBSET VulnKinds]

(* A frontmatter update_scope is one of Scopes, absent or blank ("unset"), *)
(* or a value outside the accepted set ("unknown").                        *)
ScopeFields == Scopes \cup {"unset", "unknown"}

ResolveUpdateScope(field, default) == IF field = "unset" THEN default ELSE field

OnlyGolangScopedVulns(vulns) == vulns \ {"module"}

HasWorkForScope(plan, scope) ==
    CASE scope = "golang" -> plan.go \/ OnlyGolangScopedVulns(plan.vulns) # {}
      [] scope = "deps"   -> plan.deps \/ plan.vulns # {}
      [] scope = "both"   -> plan.go \/ plan.deps \/ plan.vulns # {}

AppliesScope(plan, scope) ==
    CASE scope = "golang" ->
           [plan EXCEPT !.deps = FALSE, !.vulns = OnlyGolangScopedVulns(@)]
      [] scope = "deps"   -> [plan EXCEPT !.go = FALSE]
      [] scope = "both"   -> plan
=============================================================================
