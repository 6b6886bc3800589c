----------------------------- MODULE MCPlanning -----------------------------
(* Planning.tla on two advisories, one task file for every way into and    *)
(* out of the gates, and answers that agree and disagree with the table.   *)
EXTENDS Planning

MCIds == {"A", "B"}

Plannable == [required |-> TRUE, wellFormed |-> TRUE, consent |-> "true",
              scope |-> "unset", advisory |-> "A"]

MCTasks == {Plannable,
            [Plannable EXCEPT !.scope = "golang"],
            [Plannable EXCEPT !.advisory = "none", !.scope = "deps"],
            [Plannable EXCEPT !.advisory = "malformed"],
            [Plannable EXCEPT !.scope = "unknown"],
            [Plannable EXCEPT !.consent = "invalid"],
            [Plannable EXCEPT !.consent = "false"],
            [Plannable EXCEPT !.wellFormed = FALSE],
            [Plannable EXCEPT !.required = FALSE]}

Row(id, fixed) == [id |-> id, fixed |-> fixed, from |-> "scanner"]

(* Two targets: the first reports the advisory without a fix, the second   *)
(* again, twice with one.                                                  *)
Scanned == [pinned |-> FALSE, suppressed |-> {},
            targets |-> <<[ok |-> FALSE, rows |-> <<Row("A", FALSE), Row("B", FALSE)>>],
                          [ok |-> FALSE, rows |-> <<Row("A", TRUE), Row("A", TRUE)>>]>>]

MCRepos == {Scanned,
            [Scanned EXCEPT !.suppressed = {"B"}],
            [Scanned EXCEPT !.suppressed = {"A", "B"}],
            [Scanned EXCEPT !.targets = <<[ok |-> TRUE, rows |-> <<>>]>>],
            [Scanned EXCEPT !.targets[2] = [ok |-> FALSE, rows |-> <<>>]],
            [Scanned EXCEPT !.pinned = TRUE],
            [Scanned EXCEPT !.targets = <<>>]}

Vuln(id, kind, action) == [id |-> id, kind |-> kind, action |-> action]

Findings == {{},
             {Vuln("A", "module", "fix")},
             {Vuln("B", "stdlib", "fix")},
             {Vuln("A", "module", "fix"), Vuln("B", "stdlib", "park")},
             {Vuln("B", "module", "park")}}

(* Labels and fields at odds, in every combination; one answer of each     *)
(* kind that stops the task.                                               *)
MCAnswers == [outcome : {"ready", "no_update_needed"}, go : BOOLEAN, deps : {FALSE},
              vulns : Findings]
                \cup [outcome : Outcomes, go : {FALSE}, deps : {TRUE}, vulns : {{}}]
=============================================================================
