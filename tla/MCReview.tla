------------------------------ MODULE MCReview ------------------------------
(* Review.tla on the task files and branch contents its checks tell apart. *)
EXTENDS Review

Reviewable == [sections |-> TRUE, prURL |-> TRUE, gates |-> 2, advisory |-> "valid"]

MCTasks == {Reviewable,
            [Reviewable EXCEPT !.advisory = "none"],
            [Reviewable EXCEPT !.advisory = "malformed"],
            [Reviewable EXCEPT !.gates = 0],
            [Reviewable EXCEPT !.prURL = FALSE],
            [Reviewable EXCEPT !.sections = FALSE]}

OneTask == {Reviewable}

Good == [green |-> 2, module |-> "fixed", changelog |-> "bullet", headers |-> {}]

OneHead == {Good}

MCHeads == {Good,
            [Good EXCEPT !.green = 1],
            [Good EXCEPT !.module = "below"],
            [Good EXCEPT !.changelog = "bare"],
            [Good EXCEPT !.headers = {"v2"}]}

MCVersions == {"v2"}
=============================================================================
