---------------------------- MODULE Publication ----------------------------
(***************************************************************************)
(* What the target repository may ever see of one update task, whatever    *)
(* the agent's Jobs go through: a branch that only ever holds commits      *)
(* worth publishing and gives none up before master has it, and pull       *)
(* requests that are opened one at a time from it.  People merge, close    *)
(* and delete at any moment.  Execution.tla implements this specification. *)
(***************************************************************************)
EXTENDS Naturals, Sequences

CONSTANTS PRTarget,     \* the deployment's PR_TARGET
          NoCommit      \* the value of a branch that does not exist

VARIABLES head,         \* the remote's fix/update-go-<ref:7>, or NoCommit
          prs,          \* the pull requests opened from it, oldest first
          merged,       \* commits of the branch reachable from master
          required      \* how many gate targets the plan names; constant

vars == <<head, prs, merged, required>>

ForbiddenPaths == {"wf_same", "wf_new", "wf_newdir"}

(* A commit the agent may publish: every gate target green on it, no       *)
(* forbidden workflow path, and more to it than a CHANGELOG entry.         *)
Publishable(c) == /\ c.green = required
                  /\ c.paths \cap ForbiddenPaths = {}
                  /\ \E p \in c.paths : p # "changelog"

OpenPRs == {i \in DOMAIN prs : prs[i].state = "open"}

Init == /\ head = NoCommit
        /\ prs = <<>>
        /\ merged = {}

(* The branch appears, or moves on from a commit that master has; nobody   *)
(* is looking at it in a pull request then.                                *)
Publish == /\ head = NoCommit \/ head.id \in merged
           /\ OpenPRs = {}
           /\ head' \notin {NoCommit, head}
           /\ Publishable(head')
           /\ UNCHANGED <<prs, merged, required>>

OpenPR == /\ head # NoCommit
          /\ head.id \notin merged
          /\ OpenPRs = {}
          /\ prs' = Append(prs, [head |-> head, target |-> PRTarget, state |-> "open"])
          /\ UNCHANGED <<head, merged, required>>

MergePR(i) == /\ i \in OpenPRs
              /\ prs' = [prs EXCEPT ![i].state = "merged"]
              /\ merged' \in {merged, merged \cup {prs[i].head.id}}
              /\ head' \in {head, NoCommit}
              /\ UNCHANGED required

ClosePR(i) == /\ i \in OpenPRs
              /\ prs' = [prs EXCEPT ![i].state = "closed"]
              /\ head' \in {head, NoCommit}
              /\ UNCHANGED <<merged, required>>

DeleteBranch == /\ OpenPRs = {}
                /\ head' = NoCommit
                /\ UNCHANGED <<prs, merged, required>>

Next == \/ Publish
        \/ OpenPR
        \/ \E i \in DOMAIN prs : MergePR(i) \/ ClosePR(i)
        \/ DeleteBranch

Spec == Init /\ [][Next]_vars
=============================================================================
