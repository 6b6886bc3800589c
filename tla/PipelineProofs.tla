--------------------------- MODULE PipelineProofs ---------------------------
(***************************************************************************)
(* Proofs about Pipeline.tla, for any number of tasks, refs and needs,     *)
(* every way the tasks are filed, every trigger cap and any number of      *)
(* crashes, lost answers and acts of people.                               *)
(***************************************************************************)
EXTENDS Pipeline, TLAPS

-----------------------------------------------------------------------------
(* The inductive invariant.                                                *)

Executing == {"replay", "findpr", "lsremote", "adopt", "openadopted", "build", "push", "openpr"}

(* The steps past replayGuard: the task has no pull request.               *)
Building == Executing \ {"replay"}

Reviewing == {"viewpr", "verify"}

(* TypeOK without its last conjunct, which follows from TaskInv.           *)
Types ==
    /\ ref \in Filings /\ phase \in [Tasks -> Phases]
    /\ file \in [Tasks -> SectionsType] /\ copy \in [Tasks -> SectionsType]
    /\ triggers \in [Tasks -> 0..TriggerCap] /\ held \in [Tasks -> BOOLEAN]
    /\ pc \in [Tasks -> Pcs]
    /\ next \in [Tasks -> Phases \cup {"none", "held"}]
    /\ content \in [Tasks -> SUBSET Needs] /\ below \subseteq DOMAIN ref
    /\ accepted \in [Tasks -> {"no", "open", "merged"}]
    /\ master \in SUBSET Needs
    /\ branch \in [Refs -> [there : BOOLEAN, content : SUBSET Needs, merged : BOOLEAN]]
    /\ prs \in Seq(PRType)
    /\ faults \in 0..MaxFaults /\ human \in 0..MaxHuman

HasPR(s) == s.result.outcome \in {"opened", "adopted"}

(* A reported pull request is one of the task's branch ...                 *)
Names(t, s) ==
    HasPR(s) => /\ t \in DOMAIN ref
                /\ s.result.pr \in DOMAIN prs
                /\ prs[s.result.pr].ref = ref[t]

(* ... and has what the branch has, while that is there and the task's own.*)
Matches(t, s) ==
    HasPR(s) /\ OwnBranch(t) /\ branch[ref[t]].there =>
        prs[s.result.pr].content = branch[ref[t]].content

(* An approval stays with a pull request that settles the task's advisory. *)
Approved(t, s) ==
    t \in Advised /\ s.review.verdict = "approved" =>
        /\ HasPR(s)
        /\ s.result.pr \in DOMAIN prs
        /\ OwnBranch(t) => Want[t] \in prs[s.result.pr].content

(* A Job is where the phase of its task lets it be.                        *)
PlaceInv(t) ==
    /\ pc[t] # "idle" => t \in DOMAIN ref
    /\ pc[t] = "plan" => phase[t] = "planning"
    /\ pc[t] \in Executing => phase[t] = "execution"
    /\ pc[t] \in Reviewing => phase[t] = "ai_review"
    /\ next[t] # "none" => pc[t] = "deliver"
    /\ accepted[t] # "no" => pc[t] \in {"verify", "deliver"} /\ phase[t] = "ai_review"

(* Where the task has its pull request.                                    *)
ResultInv(t) ==
    /\ pc[t] \in {"plan", "replay"} => HasPR(copy[t]) = HasPR(file[t])
    /\ pc[t] \in Building => ~HasPR(copy[t]) /\ ~HasPR(file[t])
    /\ phase[t] = "ai_review" => HasPR(file[t]) /\ (pc[t] # "idle" => HasPR(copy[t]))
    /\ next[t] = "ai_review" => HasPR(copy[t])

SectionsInv(t) ==
    \A s \in {file[t], copy[t]} : /\ Names(t, s)
                                  /\ Matches(t, s)
                                  /\ Approved(t, s)

ClosingInv(t) ==
    /\ accepted[t] = "merged" => prs[copy[t].result.pr].state = "merged"
    /\ ReviewCloses(t) => prs[copy[t].result.pr].state = "merged"
    /\ ReviewCloses(t) /\ OwnBranch(t) => (t \in Advised => Want[t] \in master)

TaskInv(t) == PlaceInv(t) /\ ResultInv(t) /\ SectionsInv(t) /\ ClosingInv(t)

(* A branch has at most one open pull request, of what the branch has, and *)
(* none once it is merged; what is merged is in the default branch.        *)
RemoteInv ==
    /\ \A i \in DOMAIN prs : prs[i].state = "open" =>
          /\ branch[prs[i].ref].there /\ ~branch[prs[i].ref].merged
          /\ prs[i].content = branch[prs[i].ref].content
          /\ \A j \in DOMAIN prs : prs[j].state = "open" /\ prs[j].ref = prs[i].ref => j = i
    /\ \A i \in DOMAIN prs : prs[i].state = "merged" => prs[i].content \subseteq master
    /\ \A r \in Refs : branch[r].merged => branch[r].content \subseteq master

CoreInv == Types /\ RemoteInv /\ \A t \in Tasks : TaskInv(t)

(* A worktree that a push would fast-forward a branch to: what is on the   *)
(* branch is merged, and settled in the worktree.                          *)
Above(t) ==
    /\ pc[t] = "push"
    /\ branch[ref[t]].there => /\ branch[ref[t]].merged
                               /\ branch[ref[t]].content \subseteq content[t]

BelowInv == \A t \in below : Above(t)

IInv == CoreInv /\ BelowInv

-----------------------------------------------------------------------------
(* The sections of a task file.                                            *)

Planned(s, plan) == [s EXCEPT !.planned = TRUE, !.plan = plan]

Reported(s, outcome, pr) ==
    [s EXCEPT !.result = [outcome |-> outcome, pr |-> pr, plan |-> s.plan]]

Judged(s, verdict, seen) == [s EXCEPT !.review = [verdict |-> verdict, seen |-> seen]]

Reportable == {"opened", "adopted", "no_update_needed", "failed"}

(* planning writes its section and leaves the others alone, ...            *)
LEMMA PlanWrites ==
    ASSUME NEW s \in SectionsType, NEW plan \in SUBSET Needs
    PROVE  /\ Planned(s, plan) \in SectionsType
           /\ Planned(s, plan).result = s.result
           /\ Planned(s, plan).review = s.review
BY DEF SectionsType, Planned

(* ... so does execution ...                                               *)
LEMMA ReportWrites ==
    \A s \in SectionsType, pr \in Nat, outcome \in Reportable :
        /\ Reported(s, outcome, pr) \in SectionsType
        /\ Reported(s, outcome, pr).result.outcome = outcome
        /\ Reported(s, outcome, pr).result.pr = pr
        /\ Reported(s, outcome, pr).review = s.review
BY DEF SectionsType, ResultType, Reported, Reportable

(* ... and review.                                                         *)
LEMMA ReviewWrites ==
    ASSUME NEW s \in SectionsType, NEW seen \in SUBSET Needs,
           NEW verdict \in {"approved", "rejected"}
    PROVE  /\ Judged(s, verdict, seen) \in SectionsType
           /\ Judged(s, verdict, seen).result = s.result
           /\ Judged(s, verdict, seen).review.verdict = verdict
           /\ Judged(s, verdict, seen).review.seen = seen
BY DEF SectionsType, Judged

-----------------------------------------------------------------------------
(* What the ends of a step set.                                            *)

(* Going on moves the Job and nothing else.                                *)
LEMMA GotoSets ==
    ASSUME Types, NEW t \in Tasks, NEW label \in Pcs, Goto(t, label)
    PROVE  /\ pc' \in [Tasks -> Pcs] /\ pc'[t] = label
           /\ \A u \in Tasks : u # t => pc'[u] = pc[u]
           /\ copy' = copy /\ next' = next
BY DEF Types, Goto

(* Returning writes the sections of the task and no other's.               *)
LEMMA ReturnSets ==
    ASSUME Types, NEW t \in Tasks, NEW s \in SectionsType,
           NEW n \in Phases \cup {"none", "held"}, Return(t, s, n)
    PROVE  /\ pc' \in [Tasks -> Pcs] /\ pc'[t] = "deliver"
           /\ copy' \in [Tasks -> SectionsType] /\ copy'[t] = s
           /\ next' \in [Tasks -> Phases \cup {"none", "held"}] /\ next'[t] = n
           /\ \A u \in Tasks : u # t => /\ pc'[u] = pc[u] /\ copy'[u] = copy[u]
                                        /\ next'[u] = next[u]
<1>1. "deliver" \in Pcs
  BY DEF Pcs
<1> QED
  BY <1>1 DEF Types, Return

(* A Job that is over leaves nothing behind.                               *)
LEMMA JobOverSets ==
    ASSUME Types, NEW t \in Tasks, JobOver(t)
    PROVE  /\ pc' \in [Tasks -> Pcs] /\ pc'[t] = "idle"
           /\ copy' \in [Tasks -> SectionsType] /\ copy'[t] = NoSections
           /\ next' \in [Tasks -> Phases \cup {"none", "held"}] /\ next'[t] = "none"
           /\ content' \in [Tasks -> SUBSET Needs] /\ below' = below \ {t}
           /\ accepted' \in [Tasks -> {"no", "open", "merged"}] /\ accepted'[t] = "no"
           /\ \A u \in Tasks : u # t => /\ pc'[u] = pc[u] /\ copy'[u] = copy[u]
                                        /\ next'[u] = next[u] /\ accepted'[u] = accepted[u]
<1>1. "idle" \in Pcs
  BY DEF Pcs
<1>2. NoSections \in SectionsType
  BY DEF NoSections, NoResult, NoReview, SectionsType, ResultType
<1> QED
  BY <1>1, <1>2 DEF Types, JobOver

(* A filed task is at one of the refs.                                     *)
LEMMA FiledAtRef ==
    ASSUME Types, NEW t \in DOMAIN ref
    PROVE  ref[t] \in Refs
<1>1. ref \in UNION {[S -> Refs] : S \in SUBSET Tasks}
  BY PipelineAssumption DEF Types
<1>2. PICK S \in SUBSET Tasks : ref \in [S -> Refs]
  BY <1>1
<1> QED
  BY <1>2

-----------------------------------------------------------------------------
(* What a step leaves of the invariant of a task.                          *)

(* A step of somebody else ...                                             *)
Same(u) == /\ pc'[u] = pc[u] /\ phase'[u] = phase[u] /\ file'[u] = file[u]
           /\ copy'[u] = copy[u] /\ next'[u] = next[u] /\ accepted'[u] = accepted[u]

(* ... that loses no pull request, reopens none and reverts nothing ...    *)
Grows == /\ ref' = ref
         /\ \A i \in DOMAIN prs : /\ i \in DOMAIN prs'
                                  /\ prs'[i].ref = prs[i].ref
                                  /\ prs'[i].content = prs[i].content
                                  /\ prs[i].state = "merged" => prs'[i].state = "merged"
         /\ master \subseteq master'

(* ... and pushes nothing to the branch.                                   *)
Stays(r) == branch'[r].there => /\ branch[r].there
                                /\ branch'[r].content = branch[r].content

(* Sections keep what they say.                                            *)
LEMMA SectionsKept ==
    ASSUME NEW t \in Tasks, NEW s, Grows, OwnBranch(t) /\ t \in DOMAIN ref => Stays(ref[t])
    PROVE  /\ Names(t, s) => Names(t, s)'
           /\ Names(t, s) /\ Matches(t, s) => Matches(t, s)'
           /\ Approved(t, s) => Approved(t, s)'
<1>1. OwnBranch(t)' <=> OwnBranch(t)
  BY DEF OwnBranch, Grows
<1>2. Approved(t, s) => Approved(t, s)'
  BY <1>1 DEF Approved, Grows
<1> QED
  BY <1>1, <1>2 DEF Names, Matches, HasPR, Grows, Stays

(* A task is left as it is by the steps of others.                         *)
LEMMA TaskKept ==
    ASSUME NEW t \in Tasks, TaskInv(t), Same(t), Grows,
           OwnBranch(t) /\ t \in DOMAIN ref => Stays(ref[t])
    PROVE  TaskInv(t)'
<1>1. PlaceInv(t)' /\ ResultInv(t)'
  BY DEF TaskInv, PlaceInv, ResultInv, Same, Grows, HasPR, Executing, Building, Reviewing
<1>2. SectionsInv(t)'
  <2>1. \A s \in {file[t], copy[t]} : Names(t, s)' /\ Matches(t, s)' /\ Approved(t, s)'
    BY SectionsKept DEF TaskInv, SectionsInv
  <2> QED
    BY <2>1 DEF SectionsInv, Same, Approved, Names, Matches
<1>3. ClosingInv(t)'
  <2>1. OwnBranch(t)' <=> OwnBranch(t)
    BY DEF OwnBranch, Grows
  <2>2. accepted[t] = "merged" \/ ReviewCloses(t) => copy[t].result.pr \in DOMAIN prs
    BY DEF TaskInv, PlaceInv, ResultInv, SectionsInv, Names, ReviewCloses
  <2> QED
    BY <2>1, <2>2 DEF TaskInv, ClosingInv, ReviewCloses, Same, Grows
<1> QED
  BY <1>1, <1>2, <1>3 DEF TaskInv

(* A step of a Job that goes on, before it has a pull request.             *)
LEMMA TaskGoesOn ==
    ASSUME Types, NEW t \in Tasks, TaskInv(t), NEW label \in Building, Goto(t, label),
           pc[t] \in Executing, pc[t] = "replay" => ~HasPR(copy[t]),
           UNCHANGED <<ref, phase, file, accepted>>, Grows
    PROVE  TaskInv(t)'
<1>1. /\ pc'[t] = label /\ copy' = copy /\ next' = next
  <2>1. label \in Pcs
    BY DEF Pcs, Building, Executing
  <2> QED
    BY <2>1, GotoSets
<1>2. /\ ~HasPR(copy[t]) /\ ~HasPR(file[t]) /\ phase[t] = "execution" /\ accepted[t] = "no"
      /\ next[t] = "none" /\ t \in DOMAIN ref
  BY DEF TaskInv, ResultInv, PlaceInv, Building, Executing
<1>3. PlaceInv(t)' /\ ResultInv(t)'
  BY <1>1, <1>2 DEF PlaceInv, ResultInv, Building, Executing, Reviewing, HasPR
<1>4. SectionsInv(t)'
  BY <1>1, <1>2 DEF TaskInv, SectionsInv, Names, Matches, Approved, HasPR
<1>5. ClosingInv(t)'
  BY <1>1, <1>2 DEF ClosingInv, ReviewCloses
<1> QED
  BY <1>3, <1>4, <1>5 DEF TaskInv

(* The pull request pr is one of the branch of t, after the step.          *)
Holds(t, pr) ==
    /\ t \in DOMAIN ref
    /\ pr \in DOMAIN prs'
    /\ prs'[pr].ref = ref[t]
    /\ OwnBranch(t) /\ branch'[ref[t]].there => prs'[pr].content = branch'[ref[t]].content

(* What the sections of a task name is there after a step that keeps it.   *)
LEMMA HoldsOn ==
    ASSUME NEW t \in Tasks, NEW s, Names(t, s), Matches(t, s), HasPR(s), Grows,
           OwnBranch(t) => Stays(ref[t])
    PROVE  Holds(t, s.result.pr)
BY DEF Names, Matches, Grows, Stays, Holds

(* A step of a Job that returns.                                           *)
LEMMA TaskReturns ==
    ASSUME Types, NEW t \in Tasks, TaskInv(t),
           NEW s \in SectionsType, NEW n \in Phases \cup {"none", "held"}, Return(t, s, n),
           pc[t] \notin {"idle", "deliver"},
           UNCHANGED <<ref, phase, file, accepted>>, Grows, OwnBranch(t) => Stays(ref[t]),
           HasPR(s) => Holds(t, s.result.pr),
           Approved(t, s),
           phase[t] = "ai_review" \/ n = "ai_review" => HasPR(s),
           accepted[t] = "merged" => s.result.pr = copy[t].result.pr,
           phase[t] = "ai_review" /\ n = "done" =>
               /\ accepted[t] = "merged"
               /\ OwnBranch(t) /\ t \in Advised => Want[t] \in master,
           accepted[t] # "no" => pc[t] = "verify"
    PROVE  TaskInv(t)'
<1>1. pc'[t] = "deliver" /\ copy'[t] = s /\ next'[t] = n
  BY ReturnSets
<1>2. t \in DOMAIN ref /\ phase'[t] = phase[t] /\ file'[t] = file[t] /\ accepted'[t] = accepted[t]
  BY DEF TaskInv, PlaceInv
<1>3. PlaceInv(t)' /\ ResultInv(t)'
  BY <1>1, <1>2 DEF TaskInv, PlaceInv, ResultInv, HasPR, Executing, Building, Reviewing
<1>4. OwnBranch(t)' <=> OwnBranch(t)
  BY DEF OwnBranch
<1>5. SectionsInv(t)'
  <2>1. Names(t, file[t])' /\ Matches(t, file[t])' /\ Approved(t, file[t])'
    <3>1. \A x : x = file[t] => Names(t, x)' /\ Matches(t, x)' /\ Approved(t, x)'
      BY SectionsKept DEF TaskInv, SectionsInv
    <3> QED
      BY <1>2, <3>1 DEF Names, Matches, Approved
  <2>2. Names(t, copy[t])' /\ Matches(t, copy[t])'
    BY <1>1, <1>2, <1>4 DEF Holds, Names, Matches, HasPR
  <2>3. Approved(t, copy[t])'
    <3>1. \A x : x = s => Approved(t, x)'
      BY SectionsKept
    <3> QED
      BY <1>1, <3>1 DEF Approved
  <2> QED
    BY <1>1, <1>2, <2>1, <2>2, <2>3 DEF SectionsInv
<1>6. ClosingInv(t)'
  <2>1. accepted[t] = "merged" =>
            /\ copy[t].result.pr \in DOMAIN prs
            /\ prs[copy[t].result.pr].state = "merged"
    BY DEF TaskInv, PlaceInv, ResultInv, SectionsInv, ClosingInv, Names
  <2>2. accepted[t] = "merged" => prs'[s.result.pr].state = "merged"
    BY <2>1 DEF Grows
  <2> QED
    BY <1>1, <1>2, <1>4, <2>2 DEF ClosingInv, ReviewCloses, Grows
<1> QED
  BY <1>3, <1>5, <1>6 DEF TaskInv

-----------------------------------------------------------------------------
(* The initial states establish the invariant.                             *)
LEMMA InitIInv == Init => IInv
<1> SUFFICES ASSUME Init PROVE IInv
  OBVIOUS
<1>1. NoSections \in SectionsType /\ ~HasPR(NoSections) /\ \A t \in Tasks : Approved(t, NoSections)
  BY DEF NoSections, NoResult, NoReview, SectionsType, ResultType, HasPR, Approved
<1>2. Types
  <2>1. /\ faults \in 0..MaxFaults /\ human \in 0..MaxHuman
        /\ triggers \in [Tasks -> 0..TriggerCap]
    BY PipelineAssumption DEF Init
  <2>2. branch \in [Refs -> [there : BOOLEAN, content : SUBSET Needs, merged : BOOLEAN]]
    BY DEF Init, NoBranch
  <2> QED
    BY <1>1, <2>1, <2>2 DEF Init, Types, Phases, Pcs
<1>3. RemoteInv /\ BelowInv
  BY DEF Init, RemoteInv, BelowInv, NoBranch
<1>4. ASSUME NEW t \in Tasks PROVE TaskInv(t)
  <2>1. /\ file[t] = NoSections /\ copy[t] = NoSections /\ pc[t] = "idle" /\ next[t] = "none"
        /\ accepted[t] = "no" /\ phase[t] = "planning"
    BY DEF Init
  <2>2. PlaceInv(t) /\ ResultInv(t) /\ ClosingInv(t)
    BY <2>1 DEF PlaceInv, ResultInv, ClosingInv, ReviewCloses, Executing, Building, Reviewing
  <2>3. SectionsInv(t)
    BY <1>1, <2>1 DEF SectionsInv, Names, Matches
  <2> QED
    BY <2>2, <2>3 DEF TaskInv
<1> QED
  BY <1>2, <1>3, <1>4 DEF IInv, CoreInv

(* A step that leaves GitHub alone.                                        *)
LEMMA GitHubKept ==
    ASSUME UNCHANGED <<ref, githubVars>>
    PROVE  /\ Grows
           /\ \A r : Stays(r)
           /\ RemoteInv => RemoteInv'
BY DEF githubVars, Grows, Stays, RemoteInv

(* The rest of the types, of a step that changes neither the places nor    *)
(* the sections of the Jobs.                                               *)
LEMMA FaultKept ==
    ASSUME Types, Fault \/ NoFault \/ Act
    PROVE  faults' \in 0..MaxFaults /\ human' \in 0..MaxHuman
<1>1. faults \in 0..MaxFaults /\ human \in 0..MaxHuman /\ MaxFaults \in Nat /\ MaxHuman \in Nat
  BY PipelineAssumption DEF Types
<1> QED
  BY <1>1 DEF Fault, NoFault, Act, boundVars

(* A Job leaves the other tasks alone, and its own in order.               *)
LEMMA JobKeeps ==
    ASSUME IInv, NEW t \in Tasks, Job(t)
    PROVE  CoreInv'
<1> USE DEF taskVars, githubVars, boundVars
<1>a. /\ Types /\ RemoteInv /\ TaskInv(t)
      /\ \A u \in Tasks : TaskInv(u)
  BY DEF IInv, CoreInv
<1>b. copy[t] \in SectionsType /\ file[t] \in SectionsType
  BY <1>a DEF Types
<1>c. t \in DOMAIN ref => ref[t] \in Refs
  BY <1>a, FiledAtRef
(* A step of t that leaves GitHub alone and everything but places.         *)
<1>d. ASSUME \A u \in Tasks : u # t => Same(u),
             Grows, \A u \in Tasks : u # t /\ OwnBranch(u) /\ u \in DOMAIN ref => Stays(ref[u])
      PROVE  \A u \in Tasks : u # t => TaskInv(u)'
  BY <1>a, <1>d, TaskKept
<1>e. ASSUME NEW label \in Building, Goto(t, label),
             pc[t] \in Executing, pc[t] = "replay" => ~HasPR(copy[t]),
             UNCHANGED <<taskVars, accepted, githubVars>>,
             content' \in [Tasks -> SUBSET Needs], below' \subseteq DOMAIN ref,
             Fault \/ NoFault
      PROVE  CoreInv'
  <2>1. /\ pc' \in [Tasks -> Pcs] /\ copy' = copy /\ next' = next
        /\ \A u \in Tasks : u # t => pc'[u] = pc[u]
    <3>1. label \in Pcs
      BY DEF Pcs, Building, Executing
    <3> QED
      BY <1>a, <1>e, <3>1, GotoSets
  <2>2. Types'
    BY <1>a, <1>e, <2>1, FaultKept DEF Types
  <2>3. Grows /\ (\A r : Stays(r)) /\ RemoteInv'
    BY <1>a, <1>e, GitHubKept
  <2>4. \A u \in Tasks : u # t => TaskInv(u)'
    <3>1. \A u \in Tasks : u # t => Same(u)
      BY <1>e, <2>1 DEF Same
    <3> QED
      BY <1>d, <2>3, <3>1
  <2>5. TaskInv(t)'
    BY <1>a, <1>e, <2>3, TaskGoesOn
  <2> QED
    BY <2>2, <2>3, <2>4, <2>5 DEF CoreInv
(* A step of t that returns and leaves GitHub alone.                       *)
<1>f. ASSUME NEW s \in SectionsType, NEW n \in Phases \cup {"none", "held"}, Return(t, s, n),
             pc[t] \notin {"idle", "deliver"},
             UNCHANGED <<taskVars, accepted, content, below, githubVars>>,
             HasPR(s) => Holds(t, s.result.pr),
             Approved(t, s),
             phase[t] = "ai_review" \/ n = "ai_review" => HasPR(s),
             accepted[t] = "merged" => s.result.pr = copy[t].result.pr,
             phase[t] = "ai_review" /\ n = "done" =>
                 /\ accepted[t] = "merged"
                 /\ OwnBranch(t) /\ t \in Advised => Want[t] \in master,
             accepted[t] # "no" => pc[t] = "verify",
             Fault \/ NoFault
      PROVE  CoreInv'
  <2>1. /\ pc' \in [Tasks -> Pcs] /\ copy' \in [Tasks -> SectionsType]
        /\ next' \in [Tasks -> Phases \cup {"none", "held"}]
        /\ \A u \in Tasks : u # t => pc'[u] = pc[u] /\ copy'[u] = copy[u] /\ next'[u] = next[u]
    BY <1>a, <1>f, ReturnSets
  <2>2. Types'
    BY <1>a, <1>f, <2>1, FaultKept DEF Types
  <2>3. Grows /\ (\A r : Stays(r)) /\ RemoteInv'
    BY <1>a, <1>f, GitHubKept
  <2>4. \A u \in Tasks : u # t => TaskInv(u)'
    <3>1. \A u \in Tasks : u # t => Same(u)
      BY <1>f, <2>1 DEF Same
    <3> QED
      BY <1>d, <2>3, <3>1
  <2>5. TaskInv(t)'
    BY <1>a, <1>f, <2>3, TaskReturns
  <2> QED
    BY <2>2, <2>3, <2>4, <2>5 DEF CoreInv
(* What the task's sections name is still there.                           *)
<1>g. ASSUME UNCHANGED <<taskVars, githubVars>>, HasPR(copy[t])
      PROVE  Holds(t, copy[t].result.pr)
  <2>1. Names(t, copy[t]) /\ Matches(t, copy[t])
    BY <1>a DEF TaskInv, SectionsInv
  <2>2. Grows /\ \A r : Stays(r)
    BY <1>g, GitHubKept
  <2> QED
    BY <1>g, <2>1, <2>2, HoldsOn
<1>h. Approved(t, copy[t]) /\ Approved(t, file[t])
  BY <1>a DEF TaskInv, SectionsInv
(* Returning the sections as they are, without closing.                    *)
<1>i. ASSUME NEW s \in SectionsType, s.result = copy[t].result, s.review = copy[t].review,
             NEW n \in Phases \cup {"none", "held"}, Return(t, s, n),
             pc[t] \in {"plan", "replay"},
             n = "ai_review" => HasPR(copy[t]),
             UNCHANGED <<taskVars, accepted, content, below, githubVars, boundVars>>
      PROVE  CoreInv'
  <2>1. phase[t] \in {"planning", "execution"} /\ accepted[t] = "no"
    BY <1>a, <1>i DEF TaskInv, PlaceInv, Executing
  <2>2. HasPR(s) <=> HasPR(copy[t])
    BY <1>i DEF HasPR
  <2>3. HasPR(s) => Holds(t, s.result.pr)
    BY <1>g, <1>i, <2>2
  <2>4. Approved(t, s)
    BY <1>h, <1>i, <2>2 DEF Approved
  <2> QED
    BY <1>f, <1>i, <2>1, <2>2, <2>3, <2>4 DEF NoFault
<1>m. ASSUME NEW outcome \in {"opened", "adopted", "no_update_needed", "failed"}, NEW pr \in Nat
      PROVE  /\ Reported(copy[t], outcome, pr) \in SectionsType
             /\ Reported(copy[t], outcome, pr).result.outcome = outcome
             /\ Reported(copy[t], outcome, pr).result.pr = pr
             /\ Reported(copy[t], outcome, pr).review = copy[t].review
  <2>1. outcome \in Reportable
    BY DEF Reportable
  <2> QED
    BY <1>b, <2>1, ReportWrites, Zenon
(* A report of a result.                                                   *)
<1>j. ASSUME NEW outcome \in {"opened", "adopted", "no_update_needed", "failed"}, NEW pr \in Nat,
             NEW n \in {"none", "done", "ai_review"}, Report(t, outcome, pr, n),
             pc[t] \in Building,
             outcome \in {"opened", "adopted"} => Holds(t, pr),
             n = "ai_review" => outcome \in {"opened", "adopted"},
             UNCHANGED <<taskVars, accepted, content, below, githubVars>>, Fault \/ NoFault
      PROVE  CoreInv'
  <2> DEFINE s == Reported(copy[t], outcome, pr)
  <2>1. /\ s \in SectionsType /\ s.result.outcome = outcome /\ s.result.pr = pr
        /\ s.review = copy[t].review
    BY <1>m
  <2>2. Return(t, s, n)
    BY <1>j DEF Report, Reported
  <2> HIDE DEF s
  <2>3. phase[t] = "execution" /\ accepted[t] = "no" /\ pc[t] \notin {"idle", "deliver"}
    BY <1>a, <1>j DEF TaskInv, PlaceInv, Executing, Building
  <2>4. HasPR(s) => Holds(t, s.result.pr)
    BY <1>j, <2>1 DEF HasPR
  <2>5. Approved(t, s)
    <3>1. ~HasPR(copy[t])
      BY <1>a, <1>j DEF TaskInv, ResultInv
    <3> QED
      BY <1>h, <2>1, <3>1 DEF Approved
  <2>6. n = "ai_review" => HasPR(s)
    BY <1>j, <2>1 DEF HasPR
  <2>7. n \in Phases \cup {"none", "held"}
    BY DEF Phases
  <2> QED
    BY <1>f, <1>j, <2>1, <2>2, <2>3, <2>4, <2>5, <2>6, <2>7
<1>k. ASSUME Fail(t), pc[t] \in Building,
             UNCHANGED <<taskVars, accepted, content, below, githubVars>>, Fault \/ NoFault
      PROVE  CoreInv'
  BY <1>j, <1>k DEF Fail
<1>l. UNCHANGED <<content, below>> =>
          content' \in [Tasks -> SUBSET Needs] /\ below' \subseteq DOMAIN ref
  BY <1>a DEF Types
<1>1. CASE StartJob(t)
  <2>1. /\ pc[t] = "idle" /\ pc' = [pc EXCEPT ![t] = FirstStep[phase[t]]]
        /\ t \in DOMAIN ref
        /\ phase[t] \in {"planning", "execution", "ai_review"}
        /\ triggers' = [triggers EXCEPT ![t] = @ + 1] /\ triggers[t] < TriggerCap
        /\ copy' = [copy EXCEPT ![t] = file[t]]
        /\ UNCHANGED <<ref, phase, file, held, next, content, below, accepted, githubVars,
                       boundVars>>
    BY <1>1 DEF StartJob, CanStart
  <2>2. /\ FirstStep[phase[t]] \in Pcs
        /\ phase[t] = "planning" => FirstStep[phase[t]] = "plan"
        /\ phase[t] = "execution" => FirstStep[phase[t]] = "replay"
        /\ phase[t] = "ai_review" => FirstStep[phase[t]] = "viewpr"
    BY <2>1 DEF FirstStep, Pcs
  <2>3. triggers' \in [Tasks -> 0..TriggerCap]
    <3>1. triggers[t] + 1 \in 0..TriggerCap
      BY <1>a, <2>1, PipelineAssumption DEF Types
    <3> QED
      BY <1>a, <2>1, <3>1 DEF Types
  <2>4. /\ pc' \in [Tasks -> Pcs] /\ copy' \in [Tasks -> SectionsType]
        /\ pc'[t] = FirstStep[phase[t]] /\ copy'[t] = file[t]
        /\ \A u \in Tasks : u # t => pc'[u] = pc[u] /\ copy'[u] = copy[u]
    <3>1. pc \in [Tasks -> Pcs] /\ copy \in [Tasks -> SectionsType]
      BY <1>a DEF Types
    <3>2. /\ pc' \in [Tasks -> Pcs] /\ pc'[t] = FirstStep[phase[t]]
          /\ \A u \in Tasks : u # t => pc'[u] = pc[u]
      <4> DEFINE first == FirstStep[phase[t]]
      <4>1. first \in Pcs /\ pc' = [pc EXCEPT ![t] = first]
        BY <2>1, <2>2
      <4> HIDE DEF first
      <4>2. /\ pc' \in [Tasks -> Pcs] /\ pc'[t] = first
            /\ \A u \in Tasks : u # t => pc'[u] = pc[u]
        BY <3>1, <4>1
      <4> QED
        BY <4>2 DEF first
    <3>3. /\ copy' \in [Tasks -> SectionsType] /\ copy'[t] = file[t]
          /\ \A u \in Tasks : u # t => copy'[u] = copy[u]
      BY <1>b, <2>1, <3>1
    <3> QED
      BY <3>2, <3>3
  <2>5. Types'
    BY <1>a, <2>1, <2>3, <2>4 DEF Types
  <2>6. Grows /\ (\A r : Stays(r)) /\ RemoteInv'
    BY <1>a, <2>1, GitHubKept
  <2>7. \A u \in Tasks : u # t => TaskInv(u)'
    <3>1. \A u \in Tasks : u # t => Same(u)
      BY <2>1, <2>4 DEF Same
    <3> QED
      BY <1>d, <2>6, <3>1
  <2>8. TaskInv(t)'
    <3>1. next[t] = "none" /\ accepted[t] = "no"
      BY <1>a, <2>1 DEF TaskInv, PlaceInv
    <3>2. PlaceInv(t)' /\ ResultInv(t)'
      <4>1. \/ pc'[t] = "plan" /\ phase'[t] = "planning"
            \/ pc'[t] = "replay" /\ phase'[t] = "execution"
            \/ pc'[t] = "viewpr" /\ phase'[t] = "ai_review"
        <5> DEFINE first == FirstStep[phase[t]]
        <5>1. /\ pc'[t] = first
              /\ phase[t] = "planning" => first = "plan"
              /\ phase[t] = "execution" => first = "replay"
              /\ phase[t] = "ai_review" => first = "viewpr"
          BY <2>2, <2>4
        <5> HIDE DEF first
        <5> QED
          BY <2>1, <5>1
      <4>2. /\ next'[t] = "none" /\ accepted'[t] = "no" /\ ref' = ref /\ t \in DOMAIN ref
            /\ copy'[t] = file[t] /\ file'[t] = file[t] /\ phase'[t] = phase[t]
            /\ phase[t] = "ai_review" => HasPR(file[t])
        BY <1>a, <2>1, <2>4, <3>1 DEF TaskInv, ResultInv
      <4> QED
        BY <4>1, <4>2 DEF PlaceInv, ResultInv, HasPR, Executing, Building, Reviewing
    <3>3. SectionsInv(t)'
      <4>1. Names(t, file[t]) /\ Matches(t, file[t]) /\ Approved(t, file[t])
        BY <1>a DEF TaskInv, SectionsInv
      <4>2. \A x : x = file[t] => Names(t, x)' /\ Matches(t, x)' /\ Approved(t, x)'
        BY <2>6, <4>1, SectionsKept
      <4> QED
        BY <2>1, <2>4, <4>2 DEF SectionsInv
    <3>4. ClosingInv(t)'
      BY <2>1, <2>4, <3>1 DEF ClosingInv, ReviewCloses
    <3> QED
      BY <3>2, <3>3, <3>4 DEF TaskInv
  <2> QED
    BY <2>5, <2>6, <2>7, <2>8 DEF CoreInv
<1>2. CASE Plan(t)
  <2>1. /\ pc[t] = "plan"
        /\ UNCHANGED <<taskVars, accepted, content, below, githubVars, boundVars>>
    BY <1>2 DEF Plan
  <2>2. ASSUME NEW plan \in SUBSET Needs,
               Return(t, Planned(copy[t], plan), IF plan = {} THEN "done" ELSE "execution")
        PROVE  CoreInv'
    <3> DEFINE s == Planned(copy[t], plan)
               n == IF plan = {} THEN "done" ELSE "execution"
    <3>1. /\ s \in SectionsType /\ s.result = copy[t].result /\ s.review = copy[t].review
      BY <1>b, PlanWrites
    <3>2. n \in Phases \cup {"none", "held"} /\ n # "ai_review" /\ Return(t, s, n)
      BY <2>2 DEF Phases
    <3> HIDE DEF s, n
    <3> QED
      BY <1>i, <2>1, <3>1, <3>2
  <2>3. ASSUME NEW n \in {"held", "none"}, Return(t, copy[t], n)
        PROVE  CoreInv'
    BY <1>b, <1>i, <2>1, <2>3
  <2> QED
    BY <1>2, <2>2, <2>3 DEF Plan, Planned
<1>3. CASE Replay(t)
  <2>1. /\ pc[t] = "replay"
        /\ UNCHANGED <<taskVars, accepted, content, below, githubVars, boundVars>>
    BY <1>3 DEF Replay
  <2>2. CASE HasPR(copy[t])
    <3>1. Return(t, copy[t], "ai_review")
      BY <1>3, <2>2 DEF Replay, HasPR
    <3>2. "ai_review" \in Phases
      BY DEF Phases
    <3> QED
      BY <1>b, <1>i, <2>1, <2>2, <3>1, <3>2
  <2>3. CASE ~HasPR(copy[t])
    <3>1. Goto(t, "findpr")
      BY <1>3, <2>3 DEF Replay, HasPR
    <3> QED
      BY <1>e, <1>l, <2>1, <2>3, <3>1 DEF Executing, Building, NoFault
  <2> QED
    BY <2>2, <2>3
<1>4. CASE AdoptExistingPR(t)
  <2>1. /\ pc[t] = "findpr"
        /\ UNCHANGED <<taskVars, content, below, accepted, githubVars>>
    BY <1>4 DEF AdoptExistingPR
  <2>2. ASSUME Goto(t, "lsremote"), Fault \/ NoFault
        PROVE  CoreInv'
    BY <1>e, <1>l, <2>1, <2>2 DEF Executing, Building
  <2>3. ASSUME NEW i \in OpenPRs(ref[t]), Report(t, "adopted", i, "ai_review"), NoFault
        PROVE  CoreInv'
    <3>1. i \in DOMAIN prs /\ prs[i].ref = ref[t] /\ prs[i].state = "open"
      BY <2>3 DEF OpenPRs
    <3>2. i \in Nat
      BY <1>a, <3>1 DEF Types
    <3>3. prs[i].content = branch[ref[t]].content
      BY <1>a, <3>1 DEF RemoteInv
    <3>4. t \in DOMAIN ref
      BY <1>a, <2>1 DEF TaskInv, PlaceInv
    <3>5. Holds(t, i)
      BY <2>1, <3>1, <3>3, <3>4 DEF Holds
    <3> QED
      BY <1>j, <2>1, <2>3, <3>2, <3>5 DEF Executing, Building
  <2> QED
    BY <1>4, <2>2, <2>3 DEF AdoptExistingPR
<1>5. CASE AdoptPushedBranch(t)
  <2>1. /\ pc[t] = "lsremote"
        /\ UNCHANGED <<taskVars, content, below, accepted, githubVars>>
    BY <1>5 DEF AdoptPushedBranch
  <2>2. ASSUME NEW label \in {"adopt", "build"}, Goto(t, label), Fault \/ NoFault
        PROVE  CoreInv'
    BY <1>e, <1>l, <2>1, <2>2 DEF Executing, Building
  <2> QED
    BY <1>5, <2>2 DEF AdoptPushedBranch
<1>6. CASE CloneBranch(t)
  <2>1. /\ pc[t] = "adopt"
        /\ UNCHANGED <<taskVars, content, below, accepted, githubVars>>
    BY <1>6 DEF CloneBranch
  <2>2. CASE Goto(t, "openadopted") /\ NoFault
    BY <1>e, <1>l, <2>1, <2>2 DEF Executing, Building
  <2>3. CASE Fail(t) /\ (Fault \/ NoFault)
    BY <1>k, <2>1, <2>3 DEF Executing, Building
  <2> QED
    BY <1>6, <2>2, <2>3 DEF CloneBranch
<1>7. CASE Build(t)
  <2>1. /\ pc[t] = "build" /\ NoFault
        /\ UNCHANGED <<taskVars, accepted, githubVars>>
    BY <1>7 DEF Build, NoFault
  <2>2. ASSUME NEW settled \in SUBSET Needs,
               content' = [content EXCEPT ![t] = master \cup settled],
               below' \in {below, below \cup {t}}, Goto(t, "push")
        PROVE  CoreInv'
    <3>1. content' \in [Tasks -> SUBSET Needs]
      BY <1>a, <2>2 DEF Types
    <3>2. below' \subseteq DOMAIN ref
      BY <1>a, <2>1, <2>2 DEF Types, TaskInv, PlaceInv
    <3> QED
      BY <1>e, <2>1, <2>2, <3>1, <3>2 DEF Executing, Building
  <2>3. CASE Report(t, "no_update_needed", 0, "done") /\ UNCHANGED <<content, below>>
    BY <1>j, <2>1, <2>3 DEF Executing, Building
  <2>4. CASE Fail(t) /\ UNCHANGED <<content, below>>
    BY <1>k, <2>1, <2>4 DEF Executing, Building
  <2>5. \A settled \in (SUBSET (Needs \ master)) \ {{}} : settled \in SUBSET Needs
    OBVIOUS
  <2> QED
    BY <1>7, <2>2, <2>3, <2>4, <2>5 DEF Build
<1>8. CASE Push(t)
  <2>1. /\ pc[t] = "push"
        /\ UNCHANGED <<taskVars, content, accepted, master, prs>>
    BY <1>8 DEF Push
  <2>2. CASE ~FastForward(t) /\ Fail(t) /\ UNCHANGED <<branch, below>> /\ NoFault
    BY <1>k, <2>1, <2>2 DEF Executing, Building
  <2>3. CASE /\ FastForward(t)
             /\ Moves(t)
             /\ \/ Goto(t, "openpr") /\ NoFault
                \/ Fault /\ Fail(t)
    <3>1. t \in DOMAIN ref /\ ref[t] \in Refs
      BY <1>a, <1>c, <2>1 DEF TaskInv, PlaceInv
    <3>2. /\ branch' \in [Refs -> [there : BOOLEAN, content : SUBSET Needs, merged : BOOLEAN]]
          /\ \A r \in Refs : r # ref[t] => branch'[r] = branch[r]
          /\ ~branch'[ref[t]].merged
          /\ below' \subseteq DOMAIN ref
      BY <1>a, <2>3, <3>1 DEF Types, Moves
    <3>3. Grows
      BY <2>1 DEF Grows
    <3>4. \A u \in Tasks : u # t /\ OwnBranch(u) /\ u \in DOMAIN ref => Stays(ref[u])
      <4>1. SUFFICES ASSUME NEW u \in Tasks, u # t, OwnBranch(u), u \in DOMAIN ref
                     PROVE  Stays(ref[u])
        OBVIOUS
      <4>2. ref[u] # ref[t] /\ ref[u] \in Refs
        BY <1>a, <3>1, <4>1, FiledAtRef DEF OwnBranch
      <4> QED
        BY <3>2, <4>2 DEF Stays
    <3>5. RemoteInv'
      <4>1. \A i \in DOMAIN prs : prs[i].ref \in Refs
        <5>1. \A i \in DOMAIN prs : prs[i] \in PRType
          BY <1>a DEF Types
        <5> QED
          BY <5>1 DEF PRType
      <4>2. \A i \in DOMAIN prs : prs[i].state = "open" => prs[i].ref # ref[t]
        BY <1>a, <2>3, <3>1 DEF RemoteInv, FastForward, IInv, BelowInv, Above
      <4>3. \A r \in Refs : branch'[r].merged => branch'[r].content \subseteq master'
        BY <1>a, <2>1, <3>2 DEF RemoteInv
      <4> QED
        BY <1>a, <2>1, <3>2, <4>1, <4>2, <4>3 DEF RemoteInv
    <3>6. CASE Goto(t, "openpr") /\ NoFault
      <4>1. /\ pc' \in [Tasks -> Pcs] /\ copy' = copy /\ next' = next
            /\ \A u \in Tasks : u # t => pc'[u] = pc[u]
        BY <1>a, <3>6, GotoSets DEF Pcs
      <4>2. Types'
        BY <1>a, <2>1, <3>2, <3>6, <4>1, FaultKept DEF Types
      <4>3. \A u \in Tasks : u # t => TaskInv(u)'
        <5>1. \A u \in Tasks : u # t => Same(u)
          BY <2>1, <4>1 DEF Same
        <5> QED
          BY <1>d, <3>3, <3>4, <5>1
      <4>4. TaskInv(t)'
        BY <1>a, <2>1, <3>3, <3>6, TaskGoesOn DEF Executing, Building
      <4> QED
        BY <3>5, <4>2, <4>3, <4>4 DEF CoreInv
    <3>7. CASE Fault /\ Fail(t)
      <4> DEFINE s == Reported(copy[t], "failed", 0)
      <4>1. /\ s \in SectionsType /\ s.result.outcome = "failed" /\ s.review = copy[t].review
        BY <1>m
      <4>2. Return(t, s, "none")
        BY <3>7 DEF Fail, Report, Reported
      <4> HIDE DEF s
      <4>3. /\ pc' \in [Tasks -> Pcs] /\ pc'[t] = "deliver"
            /\ copy' \in [Tasks -> SectionsType] /\ copy'[t] = s
            /\ next' \in [Tasks -> Phases \cup {"none", "held"}] /\ next'[t] = "none"
            /\ \A u \in Tasks : u # t => /\ pc'[u] = pc[u] /\ copy'[u] = copy[u]
                                         /\ next'[u] = next[u]
        BY <1>a, <4>1, <4>2, ReturnSets
      <4>4. Types'
        BY <1>a, <2>1, <3>2, <3>7, <4>3, FaultKept DEF Types
      <4>5. \A u \in Tasks : u # t => TaskInv(u)'
        <5>1. \A u \in Tasks : u # t => Same(u)
          BY <2>1, <4>3 DEF Same
        <5> QED
          BY <1>d, <3>3, <3>4, <5>1
      <4>6. TaskInv(t)'
        <5>1. /\ ~HasPR(file[t]) /\ phase[t] = "execution" /\ accepted[t] = "no"
          BY <1>a, <2>1 DEF TaskInv, ResultInv, PlaceInv, Building, Executing
        <5>2. /\ ~HasPR(copy'[t]) /\ ~HasPR(file'[t]) /\ phase'[t] = "execution"
              /\ accepted'[t] = "no" /\ ref' = ref
          BY <2>1, <4>1, <4>3, <5>1 DEF HasPR
        <5>3. PlaceInv(t)' /\ ResultInv(t)' /\ ClosingInv(t)'
          BY <3>1, <4>3, <5>2 DEF PlaceInv, ResultInv, ClosingInv, ReviewCloses, HasPR,
                                  Executing, Building, Reviewing
        <5>4. SectionsInv(t)'
          <6>1. ~HasPR(copy[t])
            BY <1>a, <2>1 DEF TaskInv, ResultInv, Building, Executing
          <6> QED
            BY <1>h, <2>1, <4>1, <4>3, <5>1, <5>2, <6>1
               DEF SectionsInv, Names, Matches, Approved, HasPR
        <5> QED
          BY <5>3, <5>4 DEF TaskInv
      <4> QED
        BY <3>5, <4>4, <4>5, <4>6 DEF CoreInv
    <3> QED
      BY <2>3, <3>6, <3>7
  <2> QED
    BY <1>8, <2>2, <2>3 DEF Push
<1>9. CASE CreatePR(t)
  <2>1. /\ pc[t] \in Building
        /\ UNCHANGED <<taskVars, content, below, accepted, master, branch>>
    BY <1>9 DEF CreatePR, Executing, Building
  <2>2. CASE Fail(t) /\ UNCHANGED prs /\ NoFault
    BY <1>k, <2>1, <2>2
  <2>3. ASSUME CanOpen(ref[t]),
               prs' = Append(prs, [ref |-> ref[t], by |-> t, state |-> "open",
                                   content |-> branch[ref[t]].content]),
               \/ Report(t, "opened", Len(prs) + 1, "ai_review") /\ NoFault
               \/ Fault /\ Fail(t)
        PROVE  CoreInv'
    <3> DEFINE p == [ref |-> ref[t], by |-> t, state |-> "open",
                     content |-> branch[ref[t]].content]
               k == Len(prs) + 1
    <3>1. t \in DOMAIN ref /\ ref[t] \in Refs
      BY <1>a, <1>c, <2>1 DEF TaskInv, PlaceInv, Executing, Building
    <3>2. p \in PRType /\ p.ref = ref[t] /\ p.state = "open" /\ p.content = branch[ref[t]].content
      BY <1>a, <3>1 DEF Types, PRType
    <3> HIDE DEF p
    <3>3. /\ prs' \in Seq(PRType)
          /\ DOMAIN prs' = DOMAIN prs \cup {k} /\ k \notin DOMAIN prs /\ k \in Nat
          /\ prs'[k] = p /\ \A i \in DOMAIN prs : prs'[i] = prs[i]
      <4>1. prs \in Seq(PRType) /\ prs' = Append(prs, p)
        BY <1>a, <2>3 DEF Types, p
      <4>2. Len(prs) \in Nat /\ DOMAIN prs = 1..Len(prs)
        BY <4>1
      <4>3. prs' \in Seq(PRType) /\ DOMAIN prs' = 1..k /\ prs'[k] = p
        BY <3>2, <4>1
      <4>4. \A i \in DOMAIN prs : prs'[i] = prs[i]
        BY <4>1
      <4> QED
        BY <4>2, <4>3, <4>4
    <3>4. Grows /\ \A r : Stays(r)
      BY <2>1, <3>3 DEF Grows, Stays
    <3>5. Holds(t, k)
      BY <2>1, <3>1, <3>2, <3>3 DEF Holds
    <3>6. RemoteInv'
      <4>1. /\ branch[ref[t]].there /\ ~branch[ref[t]].merged
            /\ \A i \in DOMAIN prs : prs[i].state = "open" => prs[i].ref # ref[t]
        BY <2>3 DEF CanOpen, OpenPRs
      <4>2. master' = master /\ branch' = branch
        BY <2>1
      <4>3. ASSUME NEW i \in DOMAIN prs', prs'[i].state = "open"
            PROVE  /\ branch'[prs'[i].ref].there /\ ~branch'[prs'[i].ref].merged
                   /\ prs'[i].content = branch'[prs'[i].ref].content
                   /\ \A j \in DOMAIN prs' :
                         prs'[j].state = "open" /\ prs'[j].ref = prs'[i].ref => j = i
        <5>1. CASE i = k
          <6>1. prs'[i].ref = ref[t] /\ prs'[i].content = branch[ref[t]].content
            BY <3>2, <3>3, <5>1
          <6>2. \A j \in DOMAIN prs' :
                    prs'[j].state = "open" /\ prs'[j].ref = prs'[i].ref => j = i
            BY <3>3, <4>1, <5>1, <6>1
          <6> QED
            BY <4>1, <4>2, <6>1, <6>2
        <5>2. CASE i \in DOMAIN prs
          <6>1. prs'[i] = prs[i] /\ prs[i].state = "open" /\ prs[i].ref # ref[t]
            BY <3>3, <4>1, <4>3, <5>2
          <6>2. \A j \in DOMAIN prs' :
                    prs'[j].state = "open" /\ prs'[j].ref = prs'[i].ref => j = i
            BY <1>a, <3>2, <3>3, <5>2, <6>1 DEF RemoteInv
          <6> QED
            BY <1>a, <4>2, <5>2, <6>1, <6>2 DEF RemoteInv
        <5> QED
          BY <3>3, <4>3, <5>1, <5>2
      <4>4. ASSUME NEW i \in DOMAIN prs', prs'[i].state = "merged"
            PROVE  prs'[i].content \subseteq master'
        <5>1. i \in DOMAIN prs /\ prs'[i] = prs[i]
          BY <3>2, <3>3, <4>4
        <5> QED
          BY <1>a, <4>2, <4>4, <5>1 DEF RemoteInv
      <4>5. \A r \in Refs : branch'[r].merged => branch'[r].content \subseteq master'
        BY <1>a, <4>2 DEF RemoteInv
      <4> QED
        BY <4>3, <4>4, <4>5 DEF RemoteInv
    <3>7. phase[t] = "execution" /\ accepted[t] = "no" /\ pc[t] \notin {"idle", "deliver"}
      BY <1>a, <2>1 DEF TaskInv, PlaceInv, Executing, Building
    <3>8. ASSUME NEW s \in SectionsType, NEW n \in {"none", "ai_review"}, Return(t, s, n),
                 HasPR(s) => s.result.pr = k, s.review = copy[t].review,
                 n = "ai_review" => HasPR(s), Fault \/ NoFault
          PROVE  CoreInv'
      <4>1. n \in Phases \cup {"none", "held"}
        BY DEF Phases
      <4>2. /\ pc' \in [Tasks -> Pcs] /\ copy' \in [Tasks -> SectionsType]
            /\ next' \in [Tasks -> Phases \cup {"none", "held"}]
            /\ \A u \in Tasks : u # t =>
                  pc'[u] = pc[u] /\ copy'[u] = copy[u] /\ next'[u] = next[u]
        BY <1>a, <3>8, <4>1, ReturnSets
      <4>3. Types'
        BY <1>a, <2>1, <3>3, <3>8, <4>2, FaultKept DEF Types
      <4>4. \A u \in Tasks : u # t => TaskInv(u)'
        <5>1. \A u \in Tasks : u # t => Same(u)
          BY <2>1, <4>2 DEF Same
        <5> QED
          BY <1>d, <3>4, <5>1
      <4>5. TaskInv(t)'
        <5>1. Approved(t, s)
          <6>1. ~HasPR(copy[t])
            BY <1>a, <2>1 DEF TaskInv, ResultInv
          <6> QED
            BY <1>h, <3>8, <6>1 DEF Approved
        <5>2. HasPR(s) => Holds(t, s.result.pr)
          BY <3>5, <3>8
        <5> QED
          BY <1>a, <2>1, <3>4, <3>7, <3>8, <4>1, <5>1, <5>2, TaskReturns
      <4> QED
        BY <3>6, <4>3, <4>4, <4>5 DEF CoreInv
    <3>9. CASE Report(t, "opened", k, "ai_review") /\ NoFault
      <4> DEFINE s == Reported(copy[t], "opened", k)
      <4>1. s \in SectionsType /\ s.result.outcome = "opened" /\ s.result.pr = k
            /\ s.review = copy[t].review
        <5> HIDE DEF k
        <5> QED
          BY <1>m, <3>3
      <4>2. Return(t, s, "ai_review")
        BY <3>9 DEF Report, Reported
      <4> HIDE DEF s
      <4> QED
        BY <3>8, <3>9, <4>1, <4>2 DEF HasPR
    <3>10. CASE Fault /\ Fail(t)
      <4> DEFINE s == Reported(copy[t], "failed", 0)
      <4>1. s \in SectionsType /\ s.result.outcome = "failed" /\ s.review = copy[t].review
        BY <1>m
      <4>2. Return(t, s, "none")
        BY <3>10 DEF Fail, Report, Reported
      <4> HIDE DEF s
      <4> QED
        BY <3>8, <3>10, <4>1, <4>2 DEF HasPR
    <3> QED
      BY <2>3, <3>9, <3>10
  <2> QED
    BY <1>9, <2>2, <2>3 DEF CreatePR
<1>10. CASE ViewPR(t)
  <2>1. /\ pc[t] = "viewpr" /\ Goto(t, "verify") /\ (Fault \/ NoFault)
        /\ UNCHANGED <<taskVars, content, below, githubVars>>
    BY <1>10 DEF ViewPR
  <2>2. /\ phase[t] = "ai_review" /\ HasPR(copy[t]) /\ t \in DOMAIN ref
        /\ copy[t].result.pr \in DOMAIN prs /\ accepted[t] = "no" /\ next[t] = "none"
    <3>1. phase[t] = "ai_review" /\ HasPR(copy[t]) /\ accepted[t] = "no" /\ next[t] = "none"
      BY <1>a, <2>1 DEF TaskInv, PlaceInv, ResultInv, Reviewing
    <3>2. Names(t, copy[t])
      BY <1>a DEF TaskInv, SectionsInv
    <3> QED
      BY <3>1, <3>2 DEF Names
  <2>3. /\ accepted' \in [Tasks -> {"no", "open", "merged"}]
        /\ \A u \in Tasks : u # t => accepted'[u] = accepted[u]
        /\ accepted'[t] = "merged" => prs[copy[t].result.pr].state = "merged"
    <3> DEFINE state == prs[copy[t].result.pr].state
               look == IF state = "closed" THEN "no" ELSE state
    <3>1. state \in {"open", "merged", "closed"}
      <4>1. prs[copy[t].result.pr] \in PRType
        BY <1>a, <2>2 DEF Types
      <4> QED
        BY <4>1 DEF PRType
    <3>2. accepted' = [accepted EXCEPT ![t] = look] \/ accepted' = accepted
      BY <1>10 DEF ViewPR
    <3>3. accepted \in [Tasks -> {"no", "open", "merged"}]
      BY <1>a DEF Types
    <3>4. look \in {"no", "open", "merged"} /\ (look = "merged" => state = "merged")
      BY <3>1
    <3> HIDE DEF state, look
    <3>5. /\ accepted' \in [Tasks -> {"no", "open", "merged"}]
          /\ \A u \in Tasks : u # t => accepted'[u] = accepted[u]
          /\ accepted'[t] = look \/ accepted'[t] = accepted[t]
      BY <3>2, <3>3, <3>4
    <3>6. accepted'[t] = "merged" => state = "merged"
      BY <2>2, <3>4, <3>5
    <3> QED
      BY <3>5, <3>6 DEF state
  <2>4. /\ pc' \in [Tasks -> Pcs] /\ pc'[t] = "verify" /\ copy' = copy /\ next' = next
        /\ \A u \in Tasks : u # t => pc'[u] = pc[u]
    BY <1>a, <2>1, GotoSets DEF Pcs
  <2>5. Types'
    BY <1>a, <2>1, <2>3, <2>4, FaultKept DEF Types
  <2>6. Grows /\ (\A r : Stays(r)) /\ RemoteInv'
    BY <1>a, <2>1, GitHubKept
  <2>7. \A u \in Tasks : u # t => TaskInv(u)'
    <3>1. \A u \in Tasks : u # t => Same(u)
      BY <2>1, <2>3, <2>4 DEF Same
    <3> QED
      BY <1>d, <2>6, <3>1
  <2>8. TaskInv(t)'
    <3>1. PlaceInv(t)' /\ ResultInv(t)'
      BY <1>a, <2>1, <2>2, <2>4
         DEF TaskInv, PlaceInv, ResultInv, HasPR, Executing, Building, Reviewing
    <3>2. SectionsInv(t)'
      <4>1. \A s \in {file[t], copy[t]} : Names(t, s)' /\ Matches(t, s)' /\ Approved(t, s)'
        BY <1>a, <2>6, SectionsKept DEF TaskInv, SectionsInv
      <4>2. file' = file /\ copy' = copy
        BY <2>1, <2>4
      <4> QED
        BY <4>1, <4>2 DEF SectionsInv
    <3>3. ClosingInv(t)'
      BY <2>1, <2>3, <2>4 DEF ClosingInv, ReviewCloses
    <3> QED
      BY <3>1, <3>2, <3>3 DEF TaskInv
  <2> QED
    BY <2>5, <2>6, <2>7, <2>8 DEF CoreInv
<1>11. CASE Verify(t)
  <2> DEFINE seen == branch[ref[t]].content
  <2>1. /\ pc[t] = "verify" /\ NoFault
        /\ UNCHANGED <<taskVars, content, below, accepted, githubVars>>
    BY <1>11 DEF Verify, NoFault
  <2>2. /\ phase[t] = "ai_review" /\ HasPR(copy[t]) /\ t \in DOMAIN ref /\ ref[t] \in Refs
        /\ Names(t, copy[t]) /\ Matches(t, copy[t])
    BY <1>a, <1>c, <2>1 DEF TaskInv, PlaceInv, ResultInv, SectionsInv, Names, Reviewing
  <2>3. seen \in SUBSET Needs
    BY <1>a, <2>2 DEF Types
  <2>4. Holds(t, copy[t].result.pr)
    BY <1>g, <2>1, <2>2
  <2>5. ASSUME NEW verdict \in {"approved", "rejected"}, NEW n \in {"done", "human_review", "none"},
               Return(t, Judged(copy[t], verdict, seen), n),
               verdict = "approved" => Settled(t) /\ branch[ref[t]].there,
               n = "done" => verdict = "approved" /\ accepted[t] = "merged"
        PROVE  CoreInv'
    <3> DEFINE s == Judged(copy[t], verdict, seen)
    <3>1. /\ s \in SectionsType /\ s.result = copy[t].result
          /\ s.review.verdict = verdict /\ s.review.seen = seen
      <4> HIDE DEF seen
      <4>1. ASSUME NEW c \in SectionsType
            PROVE  /\ Judged(c, verdict, seen) \in SectionsType
                   /\ Judged(c, verdict, seen).result = c.result
                   /\ Judged(c, verdict, seen).review.verdict = verdict
                   /\ Judged(c, verdict, seen).review.seen = seen
        BY <2>3, ReviewWrites
      <4> QED
        BY <1>b, <4>1
    <3>2. Return(t, s, n)
      BY <2>5
    <3> HIDE DEF s
    <3>3. Approved(t, s)
      <4>1. OwnBranch(t) /\ branch[ref[t]].there => prs[copy[t].result.pr].content = seen
        BY <2>2 DEF Matches, seen
      <4>2. HasPR(s) /\ s.result.pr = copy[t].result.pr /\ s.result.pr \in DOMAIN prs
        BY <2>2, <3>1 DEF HasPR, Names
      <4>3. verdict = "approved" /\ t \in Advised => Want[t] \in seen
        BY <2>5 DEF Settled, seen
      <4> QED
        BY <2>5, <3>1, <4>1, <4>2, <4>3 DEF Approved
    <3>4. n = "done" /\ OwnBranch(t) /\ t \in Advised => Want[t] \in master
      <4> SUFFICES ASSUME n = "done", OwnBranch(t), t \in Advised
                   PROVE  Want[t] \in master
        OBVIOUS
      <4>1. accepted[t] = "merged" /\ branch[ref[t]].there /\ Want[t] \in branch[ref[t]].content
        BY <2>5 DEF Settled
      <4>2. prs[copy[t].result.pr].content = branch[ref[t]].content
        BY <2>2, <4>1 DEF Matches
      <4>3. prs[copy[t].result.pr].content \subseteq master
        BY <1>a, <2>2, <4>1 DEF TaskInv, ClosingInv, Names, RemoteInv
      <4> QED
        BY <4>1, <4>2, <4>3
    <3>5. HasPR(s) /\ Holds(t, s.result.pr)
      BY <2>2, <2>4, <3>1 DEF HasPR
    <3>6. n \in Phases \cup {"none", "held"}
      BY DEF Phases
    <3> QED
      BY <1>f, <2>1, <2>5, <3>1, <3>2, <3>3, <3>4, <3>5, <3>6
  <2>6. \/ /\ branch[ref[t]].there /\ accepted[t] # "no" /\ Settled(t)
           /\ Return(t, Judged(copy[t], "approved", seen),
                     IF accepted[t] = "merged" THEN "done" ELSE "human_review")
        \/ Return(t, Judged(copy[t], "rejected", seen), "none")
    BY <1>11 DEF Verify, Judged
  <2> HIDE DEF seen
  <2>7. CASE /\ branch[ref[t]].there /\ Settled(t) /\ accepted[t] = "merged"
             /\ Return(t, Judged(copy[t], "approved", seen), "done")
    BY <2>5, <2>7
  <2>8. CASE /\ branch[ref[t]].there /\ Settled(t)
             /\ Return(t, Judged(copy[t], "approved", seen), "human_review")
    BY <2>5, <2>8
  <2>9. CASE Return(t, Judged(copy[t], "rejected", seen), "none")
    BY <2>5, <2>9
  <2> QED
    BY <2>6, <2>7, <2>8, <2>9
<1>12. CASE Deliver(t)
  <2>1. /\ pc[t] = "deliver" /\ JobOver(t)
        /\ file' = [file EXCEPT ![t] = copy[t]]
        /\ held' = [held EXCEPT ![t] = (next[t] = "held")]
        /\ UNCHANGED <<ref, githubVars, boundVars>>
        /\ \/ next[t] \in {"none", "held"} /\ UNCHANGED <<phase, triggers>>
           \/ /\ next[t] \notin {"none", "held"}
              /\ phase' = [phase EXCEPT ![t] = next[t]]
              /\ triggers' = [triggers EXCEPT ![t] = 0]
    BY <1>12 DEF Deliver
  <2>2. /\ pc' \in [Tasks -> Pcs] /\ pc'[t] = "idle"
        /\ copy' \in [Tasks -> SectionsType] /\ copy'[t] = NoSections
        /\ next' \in [Tasks -> Phases \cup {"none", "held"}] /\ next'[t] = "none"
        /\ content' \in [Tasks -> SUBSET Needs] /\ below' = below \ {t}
        /\ accepted' \in [Tasks -> {"no", "open", "merged"}] /\ accepted'[t] = "no"
        /\ \A u \in Tasks : u # t => /\ pc'[u] = pc[u] /\ copy'[u] = copy[u]
                                     /\ next'[u] = next[u] /\ accepted'[u] = accepted[u]
    BY <1>a, <2>1, JobOverSets
  <2>3. /\ file' \in [Tasks -> SectionsType] /\ file'[t] = copy[t]
        /\ \A u \in Tasks : u # t => file'[u] = file[u]
    BY <1>a, <1>b, <2>1 DEF Types
  <2>4. /\ phase' \in [Tasks -> Phases]
        /\ phase'[t] = (IF next[t] \in {"none", "held"} THEN phase[t] ELSE next[t])
        /\ \A u \in Tasks : u # t => phase'[u] = phase[u]
    BY <1>a, <2>1 DEF Types
  <2>5. held' \in [Tasks -> BOOLEAN]
    <3>1. (next[t] = "held") \in BOOLEAN /\ held \in [Tasks -> BOOLEAN]
      BY <1>a DEF Types
    <3> QED
      BY <2>1, <3>1
  <2>6. triggers' \in [Tasks -> 0..TriggerCap]
    <3>1. 0 \in 0..TriggerCap /\ triggers \in [Tasks -> 0..TriggerCap]
      BY <1>a, PipelineAssumption DEF Types
    <3> QED
      BY <2>1, <3>1
  <2>7. Types'
    BY <1>a, <2>1, <2>2, <2>3, <2>4, <2>5, <2>6 DEF Types
  <2>8. Grows /\ (\A r : Stays(r)) /\ RemoteInv'
    BY <1>a, <2>1, GitHubKept
  <2>9. \A u \in Tasks : u # t => TaskInv(u)'
    <3>1. \A u \in Tasks : u # t => Same(u)
      BY <2>2, <2>3, <2>4 DEF Same
    <3> QED
      BY <1>d, <2>8, <3>1
  <2>10. TaskInv(t)'
    <3>1. PlaceInv(t)'
      BY <2>2 DEF PlaceInv, Executing, Reviewing
    <3>2. ResultInv(t)'
      <4>1. phase'[t] = "ai_review" => HasPR(copy[t])
        BY <1>a, <2>1, <2>4 DEF TaskInv, ResultInv
      <4> QED
        BY <2>2, <2>3, <4>1 DEF ResultInv, HasPR, Building, Executing
    <3>3. SectionsInv(t)'
      <4>1. Names(t, copy[t]) /\ Matches(t, copy[t]) /\ Approved(t, copy[t])
        BY <1>a DEF TaskInv, SectionsInv
      <4>2. \A x : x = copy[t] => Names(t, x)' /\ Matches(t, x)' /\ Approved(t, x)'
        BY <2>8, <4>1, SectionsKept
      <4>3. ~HasPR(NoSections) /\ NoSections.review.verdict = "none"
        BY DEF HasPR, NoSections, NoResult, NoReview
      <4>4. Names(t, NoSections)' /\ Matches(t, NoSections)' /\ Approved(t, NoSections)'
        BY <4>3 DEF Names, Matches, Approved
      <4> QED
        BY <2>2, <2>3, <4>2, <4>4 DEF SectionsInv
    <3>4. ClosingInv(t)'
      BY <2>2 DEF ClosingInv, ReviewCloses
    <3> QED
      BY <3>1, <3>2, <3>3, <3>4 DEF TaskInv
  <2> QED
    BY <2>7, <2>8, <2>9, <2>10 DEF CoreInv
<1> QED
  BY <1>1, <1>2, <1>3, <1>4, <1>5, <1>6, <1>7, <1>8, <1>9, <1>10, <1>11, <1>12 DEF Job

(* The death of a Job and a person who hands a task back.                  *)
LEMMA TaskMoves ==
    ASSUME IInv, NEW t \in Tasks, Crash(t) \/ Redelegate(t)
    PROVE  CoreInv'
<1> USE DEF taskVars, githubVars, boundVars, jobVars
<1>a. /\ Types /\ RemoteInv /\ TaskInv(t)
      /\ \A u \in Tasks : TaskInv(u)
  BY DEF IInv, CoreInv
<1>b. UNCHANGED <<ref, file, githubVars>>
  BY DEF Crash, Redelegate
<1>c. Grows /\ (\A r : Stays(r)) /\ RemoteInv'
  BY <1>a, <1>b, GitHubKept
<1>d. ASSUME \A u \in Tasks : u # t => Same(u)
      PROVE  \A u \in Tasks : u # t => TaskInv(u)'
  BY <1>a, <1>c, <1>d, TaskKept
(* The task is at rest afterwards, and under review only with its result.  *)
<1>e. ASSUME pc'[t] = "idle", next'[t] = "none", accepted'[t] = "no",
             copy'[t] \in {copy[t], NoSections}, phase'[t] = "ai_review" => HasPR(file[t])
      PROVE  TaskInv(t)'
  <2>1. PlaceInv(t)' /\ ClosingInv(t)'
    BY <1>e DEF PlaceInv, ClosingInv, ReviewCloses, Executing, Reviewing
  <2>2. ResultInv(t)'
    BY <1>b, <1>e DEF ResultInv, HasPR, Building, Executing
  <2>3. SectionsInv(t)'
    <3>1. \A x \in {file[t], copy[t]} : Names(t, x) /\ Matches(t, x) /\ Approved(t, x)
      BY <1>a DEF TaskInv, SectionsInv
    <3>2. \A x \in {file[t], copy[t]} : Names(t, x)' /\ Matches(t, x)' /\ Approved(t, x)'
      BY <1>c, <3>1, SectionsKept
    <3>3. ~HasPR(NoSections) /\ NoSections.review.verdict = "none"
      BY DEF HasPR, NoSections, NoResult, NoReview
    <3>4. Names(t, NoSections)' /\ Matches(t, NoSections)' /\ Approved(t, NoSections)'
      BY <3>3 DEF Names, Matches, Approved
    <3> QED
      BY <1>b, <1>e, <3>2, <3>4 DEF SectionsInv
  <2> QED
    BY <2>1, <2>2, <2>3 DEF TaskInv
<1>1. CASE Crash(t)
  <2>1. JobOver(t) /\ Fault /\ pc[t] # "idle" /\ UNCHANGED taskVars
    BY <1>1 DEF Crash
  <2>2. /\ pc' \in [Tasks -> Pcs] /\ pc'[t] = "idle"
        /\ copy' \in [Tasks -> SectionsType] /\ copy'[t] = NoSections
        /\ next' \in [Tasks -> Phases \cup {"none", "held"}] /\ next'[t] = "none"
        /\ content' \in [Tasks -> SUBSET Needs] /\ below' = below \ {t}
        /\ accepted' \in [Tasks -> {"no", "open", "merged"}] /\ accepted'[t] = "no"
        /\ \A u \in Tasks : u # t => /\ pc'[u] = pc[u] /\ copy'[u] = copy[u]
                                     /\ next'[u] = next[u] /\ accepted'[u] = accepted[u]
    BY <1>a, <2>1, JobOverSets
  <2>3. Types'
    BY <1>a, <1>b, <2>1, <2>2, FaultKept DEF Types
  <2>4. \A u \in Tasks : u # t => TaskInv(u)'
    <3>1. \A u \in Tasks : u # t => Same(u)
      BY <2>1, <2>2 DEF Same
    <3> QED
      BY <1>d, <3>1
  <2>5. TaskInv(t)'
    <3>1. phase'[t] = "ai_review" => HasPR(file[t])
      BY <1>a, <2>1 DEF TaskInv, ResultInv
    <3> QED
      BY <1>e, <2>2, <3>1
  <2> QED
    BY <1>c, <2>3, <2>4, <2>5 DEF CoreInv
<1>2. CASE Redelegate(t)
  <2>1. /\ Act /\ pc[t] = "idle" /\ UNCHANGED jobVars
        /\ phase' = [phase EXCEPT ![t] = "planning"] \/ phase' = phase
        /\ triggers' = [triggers EXCEPT ![t] = 0]
        /\ held' = [held EXCEPT ![t] = FALSE]
    BY <1>2 DEF Redelegate
  <2>2. /\ phase' \in [Tasks -> Phases] /\ phase'[t] \in {phase[t], "planning"}
        /\ \A u \in Tasks : u # t => phase'[u] = phase[u]
    <3>1. phase \in [Tasks -> Phases] /\ "planning" \in Phases
      BY <1>a DEF Types, Phases
    <3> QED
      BY <2>1, <3>1
  <2>3. triggers' \in [Tasks -> 0..TriggerCap] /\ held' \in [Tasks -> BOOLEAN]
    <3>1. 0 \in 0..TriggerCap
      BY PipelineAssumption
    <3>2. triggers \in [Tasks -> 0..TriggerCap] /\ held \in [Tasks -> BOOLEAN]
      BY <1>a DEF Types
    <3> QED
      BY <2>1, <3>1, <3>2
  <2>4. Types'
    BY <1>a, <1>b, <2>1, <2>2, <2>3, FaultKept DEF Types
  <2>5. \A u \in Tasks : u # t => TaskInv(u)'
    <3>1. \A u \in Tasks : u # t => Same(u)
      BY <1>b, <2>1, <2>2 DEF Same
    <3> QED
      BY <1>d, <3>1
  <2>6. TaskInv(t)'
    <3>1. /\ pc'[t] = "idle" /\ copy'[t] = copy[t]
          /\ phase'[t] = "ai_review" => HasPR(file[t])
      BY <1>a, <2>1, <2>2 DEF TaskInv, ResultInv
    <3>2. next'[t] = "none" /\ accepted'[t] = "no"
      BY <1>a, <2>1 DEF TaskInv, PlaceInv
    <3> QED
      BY <1>e, <3>1, <3>2
  <2> QED
    BY <1>c, <2>4, <2>5, <2>6 DEF CoreInv
<1> QED
  BY <1>1, <1>2

(* A person who merges or closes a pull request.                           *)
LEMMA PullRequestMoves ==
    ASSUME IInv, NEW i \in DOMAIN prs, MergePR(i) \/ ClosePR(i)
    PROVE  CoreInv'
<1> USE DEF taskVars, githubVars, boundVars, jobVars
<1>a. /\ Types /\ RemoteInv
      /\ \A u \in Tasks : TaskInv(u)
  BY DEF IInv, CoreInv
<1> DEFINE state == IF MergePR(i) THEN "merged" ELSE "closed"
           r == prs[i].ref
<1>1. state \in {"merged", "closed"}
  OBVIOUS
<1>2. /\ Act /\ UNCHANGED <<taskVars, jobVars>> /\ prs[i].state = "open"
  BY DEF MergePR, ClosePR
<1>3. prs' = [prs EXCEPT ![i].state = state]
  BY DEF MergePR, ClosePR
<1>4. /\ master' \in {master, master \cup prs[i].content}
      /\ state = "merged" => master' = master \cup prs[i].content
  BY DEF MergePR, ClosePR
<1>5. \E left \in {NoBranch, branch[r], [branch[r] EXCEPT !.merged = TRUE]} :
          /\ branch' = [branch EXCEPT ![r] = left]
          /\ left.merged => state = "merged" \/ branch[r].merged
  BY DEF MergePR, ClosePR, NoBranch
<1>6. /\ prs \in Seq(PRType) /\ \A j \in DOMAIN prs : prs[j] \in PRType
      /\ \A j \in DOMAIN prs : /\ prs[j].ref \in Refs /\ prs[j].content \in SUBSET Needs
  <2>1. prs \in Seq(PRType) /\ \A j \in DOMAIN prs : prs[j] \in PRType
    BY <1>a DEF Types
  <2> QED
    BY <2>1 DEF PRType
<1> HIDE DEF state
<1>7. /\ prs' \in Seq(PRType) /\ DOMAIN prs' = DOMAIN prs
      /\ \A j \in DOMAIN prs : j # i => prs'[j] = prs[j]
      /\ prs'[i].ref = prs[i].ref /\ prs'[i].content = prs[i].content /\ prs'[i].state = state
  <2> DEFINE p == [prs[i] EXCEPT !.state = state]
  <2>1. p \in PRType /\ p.ref = prs[i].ref /\ p.content = prs[i].content /\ p.state = state
    <3>1. \A q \in PRType : /\ [q EXCEPT !.state = state] \in PRType
                            /\ [q EXCEPT !.state = state].ref = q.ref
                            /\ [q EXCEPT !.state = state].content = q.content
                            /\ [q EXCEPT !.state = state].state = state
      BY <1>1 DEF PRType
    <3> QED
      BY <1>6, <3>1
  <2>2. prs' = [prs EXCEPT ![i] = p]
    BY <1>3
  <2> HIDE DEF p
  <2>3. /\ prs' \in Seq(PRType) /\ DOMAIN prs' = DOMAIN prs
        /\ \A j \in DOMAIN prs : j # i => prs'[j] = prs[j]
        /\ prs'[i] = p
    BY <1>6, <2>1, <2>2
  <2> QED
    BY <2>1, <2>3
<1>8. /\ branch' \in [Refs -> [there : BOOLEAN, content : SUBSET Needs, merged : BOOLEAN]]
      /\ \A q \in Refs : q # r => branch'[q] = branch[q]
      /\ branch'[r].there => branch[r].there /\ branch'[r].content = branch[r].content
      /\ branch'[r].merged => /\ branch'[r].content = branch[r].content
                              /\ state = "merged" \/ branch[r].merged
  <2> DEFINE B == [there : BOOLEAN, content : SUBSET Needs, merged : BOOLEAN]
  <2>1. branch \in [Refs -> B] /\ r \in Refs
    BY <1>a, <1>6 DEF Types
  <2>2. PICK left \in {NoBranch, branch[r], [branch[r] EXCEPT !.merged = TRUE]} :
            /\ branch' = [branch EXCEPT ![r] = left]
            /\ left.merged => state = "merged" \/ branch[r].merged
    BY <1>5
  <2>3. /\ left \in B
        /\ left.there => branch[r].there /\ left.content = branch[r].content
        /\ left.merged => left.content = branch[r].content
    <3>1. \A b \in B : /\ [b EXCEPT !.merged = TRUE] \in B
                       /\ [b EXCEPT !.merged = TRUE].there = b.there
                       /\ [b EXCEPT !.merged = TRUE].content = b.content
      OBVIOUS
    <3>2. NoBranch \in B /\ ~NoBranch.there /\ ~NoBranch.merged
      BY DEF NoBranch
    <3> HIDE DEF B
    <3>3. branch[r] \in B
      BY <2>1
    <3> QED
      BY <3>1, <3>2, <3>3
  <2> HIDE DEF B, r
  <2>4. branch' \in [Refs -> B] /\ branch'[r] = left /\ \A q \in Refs : q # r => branch'[q] = branch[q]
    BY <2>1, <2>2, <2>3
  <2> QED
    BY <2>2, <2>3, <2>4 DEF B, r
<1>9. \A q \in Refs : Stays(q)
  BY <1>8 DEF Stays
<1>10. Grows
  <2>1. \A j \in DOMAIN prs : /\ j \in DOMAIN prs'
                              /\ prs'[j].ref = prs[j].ref /\ prs'[j].content = prs[j].content
                              /\ prs[j].state = "merged" => prs'[j].state = "merged"
    BY <1>2, <1>7
  <2>2. ref' = ref /\ master \subseteq master'
    BY <1>2, <1>4
  <2> QED
    BY <2>1, <2>2 DEF Grows
<1>11. \A u \in Tasks : TaskInv(u)'
  <2>1. \A u \in Tasks : Same(u)
    BY <1>2 DEF Same
  <2>2. \A u \in Tasks : u \in DOMAIN ref => Stays(ref[u])
    BY <1>a, <1>9, FiledAtRef
  <2> QED
    BY <1>a, <1>10, <2>1, <2>2, TaskKept
<1>12. Types'
  <2>1. master' \in SUBSET Needs
    BY <1>a, <1>4, <1>6 DEF Types
  <2> QED
    BY <1>a, <1>2, <1>7, <1>8, <2>1, FaultKept DEF Types
<1>13. RemoteInv'
  <2>1. ASSUME NEW j \in DOMAIN prs', prs'[j].state = "open"
        PROVE  /\ branch'[prs'[j].ref].there /\ ~branch'[prs'[j].ref].merged
               /\ prs'[j].content = branch'[prs'[j].ref].content
               /\ \A k \in DOMAIN prs' :
                     prs'[k].state = "open" /\ prs'[k].ref = prs'[j].ref => k = j
    <3>1. j \in DOMAIN prs /\ j # i /\ prs'[j] = prs[j] /\ prs[j].state = "open"
      BY <1>1, <1>7, <2>1
    <3>2. prs[j].ref # r /\ prs[j].ref \in Refs
      BY <1>a, <1>2, <1>6, <3>1 DEF RemoteInv
    <3>3. branch'[prs[j].ref] = branch[prs[j].ref]
      BY <1>8, <3>2
    <3>4. /\ branch[prs[j].ref].there /\ ~branch[prs[j].ref].merged
          /\ prs[j].content = branch[prs[j].ref].content
          /\ \A k \in DOMAIN prs : prs[k].state = "open" /\ prs[k].ref = prs[j].ref => k = j
      BY <1>a, <3>1 DEF RemoteInv
    <3>5. \A k \in DOMAIN prs' :
              prs'[k].state = "open" /\ prs'[k].ref = prs'[j].ref => k = j
      BY <1>1, <1>7, <3>1, <3>4
    <3> QED
      BY <3>1, <3>3, <3>4, <3>5
  <2>2. ASSUME NEW j \in DOMAIN prs', prs'[j].state = "merged"
        PROVE  prs'[j].content \subseteq master'
    <3>1. CASE j = i
      BY <1>4, <1>7, <2>2, <3>1
    <3>2. CASE j # i
      BY <1>a, <1>4, <1>7, <2>2, <3>2 DEF RemoteInv
    <3> QED
      BY <3>1, <3>2
  <2>3. ASSUME NEW q \in Refs, branch'[q].merged
        PROVE  branch'[q].content \subseteq master'
    <3>1. CASE q = r
      <4>1. ~branch[r].merged /\ branch[r].content = prs[i].content
        BY <1>a, <1>2 DEF RemoteInv
      <4> QED
        BY <1>4, <1>8, <2>3, <3>1, <4>1
    <3>2. CASE q # r
      BY <1>a, <1>4, <1>8, <2>3, <3>2 DEF RemoteInv
    <3> QED
      BY <3>1, <3>2
  <2> QED
    BY <2>1, <2>2, <2>3 DEF RemoteInv
<1> QED
  BY <1>11, <1>12, <1>13 DEF CoreInv

(* What a worktree is built on stays below it until it is pushed, dropped, *)
(* or somebody else's commit is on the branch.                             *)
LEMMA NextBelowInv ==
    ASSUME IInv, [Next]_vars
    PROVE  BelowInv'
<1> USE DEF taskVars, githubVars, boundVars, jobVars
<1>a. /\ Types /\ RemoteInv /\ BelowInv
      /\ \A t \in Tasks : TaskInv(t)
  BY DEF IInv, CoreInv
<1>b. /\ pc \in [Tasks -> Pcs] /\ content \in [Tasks -> SUBSET Needs]
      /\ below \subseteq DOMAIN ref /\ DOMAIN ref \subseteq Tasks
  <2>1. ref \in UNION {[S -> Refs] : S \in SUBSET Tasks}
    BY <1>a, PipelineAssumption DEF Types
  <2> QED
    BY <1>a, <2>1 DEF Types
(* A step that moves only Jobs that are not about to push.                 *)
<1>c. ASSUME UNCHANGED <<ref, content, branch>>, below' \subseteq below,
             \A u \in below' : pc'[u] = pc[u]
      PROVE  BelowInv'
  BY <1>a, <1>c DEF BelowInv, Above
<1>d. ASSUME NEW t \in Tasks, pc[t] # "push", UNCHANGED <<ref, content, below, branch>>,
             \E label \in Pcs : pc' = [pc EXCEPT ![t] = label]
      PROVE  BelowInv'
  <2>1. \A u \in below : u # t /\ u \in Tasks
    BY <1>a, <1>b, <1>d DEF BelowInv, Above
  <2>2. \A u \in below' : pc'[u] = pc[u]
    BY <1>b, <1>d, <2>1
  <2> QED
    BY <1>c, <1>d, <2>2
<1>e. ASSUME NEW t \in Tasks, JobOver(t), UNCHANGED <<ref, branch>>
      PROVE  BelowInv'
  <2>1. /\ below' = below \ {t}
        /\ \A u \in below' : pc'[u] = pc[u] /\ content'[u] = content[u]
    BY <1>b, <1>e DEF JobOver
  <2> QED
    BY <1>a, <1>e, <2>1 DEF BelowInv, Above
<1>1. ASSUME NEW t \in Tasks, StartJob(t)
      PROVE  BelowInv'
  <2>1. FirstStep[phase[t]] \in Pcs
    BY <1>1 DEF StartJob, CanStart, FirstStep, Pcs
  <2> QED
    BY <1>1, <1>d, <2>1 DEF StartJob, CanStart
<1>2. ASSUME NEW t \in Tasks,
             \/ Plan(t) \/ Replay(t) \/ AdoptExistingPR(t) \/ AdoptPushedBranch(t)
             \/ CloneBranch(t) \/ CreatePR(t) \/ ViewPR(t) \/ Verify(t)
      PROVE  BelowInv'
  <2>1. /\ pc[t] # "push" /\ UNCHANGED <<ref, content, below, branch>>
        /\ \E label \in {"deliver", "findpr", "lsremote", "adopt", "build", "openadopted",
                         "verify"} : pc' = [pc EXCEPT ![t] = label]
    BY <1>2 DEF Plan, Replay, AdoptExistingPR, AdoptPushedBranch, CloneBranch, CreatePR,
                ViewPR, Verify, Goto, Return, Report, Fail
  <2> QED
    BY <1>d, <2>1 DEF Pcs
<1>3. ASSUME NEW t \in Tasks, Build(t)
      PROVE  BelowInv'
  <2>1. pc[t] = "build" /\ UNCHANGED <<ref, branch, master>> /\ t \in DOMAIN ref
    BY <1>3, <1>a DEF Build, TaskInv, PlaceInv
  <2>2. CASE UNCHANGED <<content, below>> /\ pc' = [pc EXCEPT ![t] = "deliver"]
    BY <1>d, <2>1, <2>2 DEF Pcs
  <2>3. ASSUME NEW settled \in SUBSET Needs,
               content' = [content EXCEPT ![t] = master \cup settled],
               below' = IF branch[ref[t]].merged THEN below \cup {t} ELSE below,
               pc' = [pc EXCEPT ![t] = "push"]
        PROVE  BelowInv'
    <3>1. pc'[t] = "push" /\ content'[t] = master \cup settled
      BY <1>b, <2>3
    <3>2. \A u \in below : u \in Tasks /\ u # t
      BY <1>a, <1>b, <2>1 DEF BelowInv, Above
    <3>3. \A u \in below : pc'[u] = pc[u] /\ content'[u] = content[u]
      BY <1>b, <2>3, <3>2
    <3>4. \A u \in below : Above(u)'
      BY <1>a, <2>1, <3>3 DEF BelowInv, Above
    <3>5. branch[ref[t]].merged => Above(t)'
      <4>1. branch[ref[t]].merged => branch[ref[t]].content \subseteq master
        BY <1>a, <2>1, FiledAtRef DEF RemoteInv
      <4> QED
        BY <2>1, <3>1, <4>1 DEF Above
    <3> QED
      BY <2>3, <3>4, <3>5 DEF BelowInv
  <2>4. \A settled \in (SUBSET (Needs \ master)) \ {{}} : settled \in SUBSET Needs
    OBVIOUS
  <2> QED
    BY <1>3, <2>2, <2>3, <2>4 DEF Build, Goto, Report, Fail, Return
<1>4. ASSUME NEW t \in Tasks, Push(t)
      PROVE  BelowInv'
  <2>1. /\ pc[t] = "push" /\ UNCHANGED <<ref, content>> /\ t \in DOMAIN ref
        /\ \E label \in Pcs : pc' = [pc EXCEPT ![t] = label]
    BY <1>4, <1>a DEF Push, Goto, Fail, Report, Return, Pcs, TaskInv, PlaceInv, Executing
  <2>2. t \notin below' /\ below' \subseteq below
    BY <1>4 DEF Push, Moves, FastForward
  <2>3. \A u \in below' : u \in Tasks /\ pc'[u] = pc[u] /\ ref[u] \in Refs
    BY <1>a, <1>b, <2>1, <2>2, FiledAtRef
  <2>4. \A u \in below' : branch'[ref[u]] = branch[ref[u]]
    <3>1. CASE Moves(t)
      BY <1>a, <2>3, <3>1 DEF Moves, Types
    <3>2. CASE UNCHANGED branch
      BY <3>2
    <3> QED
      BY <1>4, <3>1, <3>2 DEF Push
  <2> QED
    BY <1>a, <2>1, <2>2, <2>3, <2>4 DEF BelowInv, Above
<1>5. ASSUME NEW t \in Tasks, Deliver(t) \/ Crash(t)
      PROVE  BelowInv'
  BY <1>5, <1>e DEF Deliver, Crash
<1>6. ASSUME NEW t \in Tasks, Redelegate(t)
      PROVE  BelowInv'
  BY <1>6, <1>c DEF Redelegate
<1>7. ASSUME NEW i \in DOMAIN prs, MergePR(i) \/ ClosePR(i)
      PROVE  BelowInv'
  <2>1. UNCHANGED <<ref, pc, content, below>> /\ prs[i].state = "open"
    BY <1>7 DEF MergePR, ClosePR
  <2>2. \A u \in below : ref[u] # prs[i].ref
    BY <1>a, <2>1 DEF RemoteInv, BelowInv, Above
  <2>3. \E left : branch' = [branch EXCEPT ![prs[i].ref] = left]
    BY <1>7 DEF MergePR, ClosePR
  <2>4. \A u \in below : ref[u] \in Refs
    BY <1>a, <1>b, FiledAtRef
  <2>5. \A u \in below : branch'[ref[u]] = branch[ref[u]]
    BY <1>a, <2>2, <2>3, <2>4 DEF Types
  <2> QED
    BY <1>a, <2>1, <2>5 DEF BelowInv, Above
<1>8. CASE UNCHANGED vars
  BY <1>8, <1>c DEF vars
<1> QED
  BY <1>1, <1>2, <1>3, <1>4, <1>5, <1>6, <1>7, <1>8 DEF Next, Job, Rest

(* Every action keeps the invariant.                                       *)
LEMMA NextIInv == IInv /\ [Next]_vars => IInv'
<1> SUFFICES ASSUME IInv, [Next]_vars
             PROVE  IInv'
  OBVIOUS
<1>1. ASSUME \E t \in Tasks : Job(t) \/ Crash(t) \/ Redelegate(t)
      PROVE  CoreInv'
  BY <1>1, JobKeeps, TaskMoves
<1>2. ASSUME \E i \in DOMAIN prs : MergePR(i) \/ ClosePR(i)
      PROVE  CoreInv'
  BY <1>2, PullRequestMoves
<1>3. ASSUME UNCHANGED vars
      PROVE  CoreInv'
  <2>1. UNCHANGED <<taskVars, jobVars, githubVars, boundVars>>
    BY <1>3 DEF vars
  <2>2. Grows /\ (\A r : Stays(r)) /\ RemoteInv'
    BY <2>1, GitHubKept DEF IInv, CoreInv, taskVars
  <2>3. \A t \in Tasks : Same(t)
    BY <2>1 DEF Same, taskVars, jobVars
  <2>4. \A t \in Tasks : TaskInv(t)'
    BY <2>2, <2>3, TaskKept DEF IInv, CoreInv
  <2>5. Types'
    BY <2>1 DEF IInv, CoreInv, Types, taskVars, jobVars, githubVars, boundVars
  <2> QED
    BY <2>2, <2>4, <2>5 DEF CoreInv
<1> QED
  BY <1>1, <1>2, <1>3, NextBelowInv DEF IInv, Next, Rest

(* The strengthened invariant holds of every reachable state.              *)
THEOREM Inductive == Spec => []IInv
<1> QED
  BY InitIInv, NextIInv, PTL DEF Spec

-----------------------------------------------------------------------------
(* The safety properties the runs check, for every value of the constants. *)

(* The pull request of an approved advisory task, on a branch of its own,  *)
(* settles the advisory, and goes on doing so after the branch that was    *)
(* looked at is merged, deleted or moved on.                               *)
THEOREM ApprovalsSettle == Spec => []ApprovedPRSettlesItsNeed
<1>1. IInv => ApprovedPRSettlesItsNeed
  BY PipelineAssumption
     DEF IInv, CoreInv, TaskInv, SectionsInv, Approved, ApprovedPRSettlesItsNeed
<1> QED
  BY <1>1, Inductive, PTL

(* Every variable has its type, a task under review names a pull request,  *)
(* and one that review closes, on a branch of its own, has shipped.        *)
THEOREM ClosedHasShipped == Spec => []ClosingIsSound
<1>1. IInv => TypeOK
  <2> SUFFICES ASSUME IInv PROVE TypeOK
    OBVIOUS
  <2>1. \A t \in Tasks : phase[t] = "ai_review" => file[t].result.pr \in DOMAIN prs
    BY DEF IInv, CoreInv, TaskInv, ResultInv, SectionsInv, Names
  <2> QED
    BY <2>1 DEF IInv, CoreInv, Types, TypeOK
<1>2. IInv => ClosedTaskHasShipped
  BY DEF IInv, CoreInv, TaskInv, ClosingInv, ClosedTaskHasShipped, Shipped
<1>3. IInv => ClosingIsSound
  BY <1>1, <1>2 DEF ClosingIsSound
<1> QED
  BY <1>3, Inductive, PTL

(* No task that shares a branch pushes away what another has on it: a      *)
(* branch that stays moves only once it is merged, under no open pull      *)
(* request, and to something that settles all it settled.                  *)
THEOREM WorkIsKept == Spec => UnmergedWorkStays
<1> DEFINE Kept == \A r \in Refs : branch[r].there /\ branch'[r].there =>
                       \/ branch'[r].content = branch[r].content
                       \/ /\ branch[r].merged
                          /\ OpenPRs(r) = {}
                          /\ branch[r].content \subseteq branch'[r].content
<1>1. IInv /\ [Next]_vars => [Kept]_branch
  <2> SUFFICES ASSUME IInv, [Next]_vars, branch' # branch
               PROVE  Kept
    OBVIOUS
  <2>1. /\ Types /\ RemoteInv /\ BelowInv
        /\ \A i \in DOMAIN prs : prs[i].ref \in Refs
    <3>1. prs \in Seq(PRType)
      BY DEF IInv, CoreInv, Types
    <3>2. \A i \in DOMAIN prs : prs[i] \in PRType
      BY <3>1
    <3> QED
      BY <3>2 DEF IInv, CoreInv, PRType
  <2>2. ASSUME NEW t \in Tasks, Push(t)
        PROVE  Kept
    <3>1. /\ FastForward(t)
          /\ branch' = [branch EXCEPT ![ref[t]] =
                          [there |-> TRUE, content |-> content[t], merged |-> FALSE]]
      BY <2>2 DEF Push, Moves
    <3>2. ASSUME NEW r \in Refs, branch[r].there, r = ref[t]
          PROVE  /\ branch[r].merged
                 /\ OpenPRs(r) = {}
                 /\ branch[r].content \subseteq branch'[r].content
      <4>1. branch[r].merged /\ branch[r].content \subseteq content[t]
        BY <2>1, <3>1, <3>2 DEF FastForward, BelowInv, Above
      <4>2. OpenPRs(r) = {}
        BY <2>1, <4>1 DEF RemoteInv, OpenPRs
      <4>3. branch'[r].content = content[t]
        BY <2>1, <3>1, <3>2 DEF Types
      <4> QED
        BY <4>1, <4>2, <4>3
    <3>3. \A r \in Refs : r # ref[t] => branch'[r] = branch[r]
      BY <2>1, <3>1 DEF Types
    <3> QED
      BY <3>2, <3>3
  <2>3. ASSUME NEW i \in DOMAIN prs, MergePR(i) \/ ClosePR(i)
        PROVE  Kept
    <3> DEFINE r == prs[i].ref
    <3>1. PICK left \in {NoBranch, branch[r], [branch[r] EXCEPT !.merged = TRUE]} :
              branch' = [branch EXCEPT ![r] = left]
      BY <2>3 DEF MergePR, ClosePR
    <3>2. branch \in [Refs -> [there : BOOLEAN, content : SUBSET Needs, merged : BOOLEAN]]
          /\ r \in Refs
      BY <2>1 DEF Types
    <3>3. left.there => left.content = branch[r].content
      BY <3>2 DEF NoBranch
    <3> HIDE DEF r
    <3>4. \A q \in Refs : branch'[q].there => branch'[q].content = branch[q].content
      BY <3>1, <3>2, <3>3
    <3> QED
      BY <3>4
  <2>4. \/ \E t \in Tasks : Push(t)
        \/ \E i \in DOMAIN prs : MergePR(i) \/ ClosePR(i)
    BY DEF Next, Job, StartJob, Plan, Replay, AdoptExistingPR, AdoptPushedBranch, CloneBranch,
           Build, CreatePR, ViewPR, Verify, Deliver, Crash, Redelegate, Rest, vars, githubVars
  <2> QED
    BY <2>2, <2>3, <2>4
<1> QED
  BY <1>1, Inductive, PTL DEF Spec, UnmergedWorkStays
=============================================================================
