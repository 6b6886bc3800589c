# Verification of github-update-go-agent

TLA+ models of the agent's three update phases, of their composition, of its
build-fix lane, of the readers and writers of text they rest on and of the
process around them; the TLC runs that check them on small instances; and
machine-checked proofs of every safety property those runs check. The reference is
the Go code under `src/`; every definition that stands for code is mapped to its
lines in `PROJECT.json`.

Contents: [System](#the-system) · [Inventory](#inventory) ·
[Modules](#modules) · [Runs](#runs-and-bounds) · [Fairness](#fairness) ·
[Findings](#where-the-code-and-its-documentation-disagree) · [Proofs](#proofs) ·
[Limits](#what-is-not-modelled) · [Plan](#plan)

## The system

A task is a markdown file with frontmatter and sections. A controller starts one
Kubernetes Job per (task, phase), up to a trigger cap. The Job gets a *copy* of
the file, runs the steps of its phase on it, and delivers the copy together with
a status and a `NextPhase` at its very end. Nothing else persists: a Job that
dies loses everything except what reached GitHub.

- **planning** decides whether there is work: consent, scanner table, the model's
  plan held against it. It ends in execution, done, human_review, or parked.
- **execution** updates a clone, runs the repository's gate targets, commits,
  pushes one branch and opens one pull request.
- **ai_review** verifies that pull request deterministically and hands the task
  to a person, or closes it when the pull request was merged.
- **build-fix** tasks use three phases of their own: diagnose, hand off (to the
  updater as a new task, or to dark-factory as a spec on a branch), verify.

Inside a Job there is hardly any parallelism (the Claude CLI and the pipe it writes
into are the exception). What makes it hard is what moves between a Job's calls and
between Jobs: people merge, close, delete and push; calls fail, or succeed and lose
their answer; Jobs crash; tasks are replayed, planned again, or filed twice at one
head; and text is read in two places by rules that are not the same.

## Inventory

| Component | State it keeps | Operations | What makes it correct |
|---|---|---|---|
| Planning (`pkg/steps_planning.go`) | `## Plan`, a clone, the scanner table | preflights, consent, clone, pin scan, gates, suppression, inspection, classification | the table loses and invents nothing; the model cannot add findings; only tasks execution accepts reach execution; only workless tasks close |
| Scanner table (`scanner_table.go`, `workflow_pin.go`) | rows, suppressed IDs, pins | parse a line, load the suppressions, collapse, suppress, scan pins | a reported finding nobody approved gets a row; an approved one does not |
| Advisory and module versions (`advisory.go`, `module_versions.go`) | none | admit the block, find the module, compare | cleared means installed at the fixed version; a spoiled block fails closed |
| Update scope (`update_scope.go`) | none | resolve, narrow, has-work | planning and execution agree |
| Execution (`steps_execution.go`, `bulk_update.go`, `gate_runner.go`) | `## Result`, working tree, local commit | replay, adopt, update, gates with one repair, guards, commit, push, open | what is published passed the gates and the guards; replays are inert; the crash window closes; no push loses work |
| Git and GitHub (`git/`, `gh_cli.go`) | the remote branch, pull requests, tags, workflow runs | clone, push without force, create, find, view, fetch logs | a branch moves only where the default branch has what it held; a truncated log keeps its end |
| CHANGELOG writer (`changelog.go`) | the file | ensure a bullet under `## Unreleased` | review finds the bullet; released sections stay; twice is once |
| Review (`steps_review.go`, `your_move.go`) | `## Review`, `## Your Move` | five checks and a verdict | approval means verified; whoever gets the task is told what to do |
| Human-review owner (`steps_human_review_owner.go`) | two frontmatter fields | stamp | a task in human_review has its owner |
| Build-fix (`steps_fix_*.go`, `fix_*.go`, chain emitter in `factory.go`) | `## Fix Plan`, `## Fix Result`, spec branches, commands | diagnose, chain, file, verify | claimed hand-offs happened; bounded duplicates |
| Preflights (`steps_claude_auth.go`, `steps_gh_token.go`, `installation_scope.go`) | none | probe, verify, list | a bad credential never looks like a finished task |
| Model calls (`planning_runner.go`, `llmjson.go`) | the child, its output | run, scan, log, extract the object | the last result is what comes back; Run returns; the final object is parsed, never a member of it |
| Start-up (`main.go`, `cmd/run-task`, `githubauth/`, producers of `factory.go`) | credential, producers, metrics | check, mint, wire, run, deliver, close, push | one credential; every way out counts the run once; producers outlive the agent |
| Prompts, URL and environment helpers | none | text | not modelled |

Components interact through the task file (a section written by one phase is read
by the next), through the remote (a Job finds what an earlier Job, or the Job of
another task, pushed), and through `NextPhase`. `PROJECT.json` lists the hazards of
this code, each at the line where it bites and with the properties that cover it.

## Modules

| Module | Models |
|---|---|
| `Selection` | the filter loop most of the readers share, as one recursive function |
| `UpdateScope` | `UpdateScope`, `appliesScope`, `hasWorkForScope`; shared by planning and execution as in the code |
| `Publication` | abstract: what a target repository may ever see of one task |
| `Execution` | `executionStep.Run`, the remote, the controller, people; implements `Publication` |
| `Planning` | the planning phase with its preflights and the owner wrapper |
| `Review` | `reviewStep.Run` in the owner wrapper, people and the release agent |
| `BuildFix` | all three phases of a build-fix task |
| `Pipeline` | the three update phases composed: several tasks of one repository, a Job each, over one remote |
| `RepoFacts` | lines of gate output, Makefiles, suppression lists and workflows becoming rows, suppressed IDs and pins |
| `Changelog` | `EnsureChangelog` and review's reading of the file it wrote |
| `LLMJson` | `parseJSONResponse` |
| `AdvisoryCheck` | the advisory block, read by planning and again by review, against the module graph |
| `Diagnosis` | the evidence of a red build while CI goes on |
| `Readers` | the five modules above in one specification |
| `PlanningRunner` | `planningRunner.Run`, its child, the pipe, cancellation |
| `Budget` | the time an execution's calls take, against the Job's deadline; by itself |
| `StartUp` | a process from its arguments to its exit, in the cluster and by hand |
| `Process` | `StartUp` and `PlanningRunner` in one specification |
| `ExecutionProofs`, `ReviewProofs`, `PlanningProofs`, `BuildFixProofs`, `PipelineProofs`, `ReadersProofs`, `ProcessProofs` | theorems about the module each is named after |
| `SelectionProofs` | what the filter loop returns, and the inductions the others use |
| `MC*` | instances for TLC: chosen task files, contents and answers |

`Execution`, `Planning`, `Review` and `BuildFix` have a shape in common. `pc` is
where `Run` stands, and `"idle"` between Jobs. The task file has variables of its
own; `StartJob` copies the sections the Job reads and `Deliver` writes them back and
applies `NextPhase`, so a `Crash` at any `pc` loses the copy, the clone and the
verdict at once. Every call that leaves the process (git, gh, make, Claude, Kafka)
is an action, because other actors move between two calls; pure Go between two calls
is part of the next action. A failed call, a lost answer and a crash each take one
unit of `MaxFaults`; an act of a person one unit of `MaxHuman`. `Settled` is the
stuttering step of a task nobody may touch any more, so that TLC's deadlock check
reports every other state without a step.

**Execution.** The working tree is a set of classes of files, the classes the
guards tell apart: ordinary sources, CHANGELOG.md, and four kinds of workflow
file (differs from base, equals its base, has no base, sits in an untracked
directory, which `git status` reports as the directory and the commit as the
file). A commit remembers how many gate targets were green on the tree since its
last edit and which classes it holds; both are what the guards are about. Claude
may leave any tree behind and any gate may be red, so the model does not assume
that a gate's outcome is a function of the tree. "The base" is origin/master of
the clone; that master moves on is covered by the classes being chosen freely. The
retry of `gh pr create` without its label is one call. `base` is what the clone a
Job builds on has below it of the branch's commits: the push is not forced, so the
remote takes it when there is no branch or when that branch is below the new commit
(`FastForward`). The second is the case after a merge commit that keeps the branch,
when the look for the branch fails and the Job rebuilds from the default branch; a
squash leaves the branch's commits out of the default branch. The
`claudeAuthStep` registered in front of execution is the first action of a Job
(`VerifyClaudeAuth`); when it fails the Job delivers a failed status and no section.

**Planning.** A gate target's output is the sequence of rows the parser finds in
it. `plan.on` and `plan.advisory` are history: what the plan was made from. An
answer of the model is any member of `Answers`, grounded or not, label and content
in agreement or not.

**Review.** A branch's content is reduced to what the five checks read. The clone
is a snapshot taken after the pull request was looked at; tags are read live at
the end. `review.head` is history: the content the checks ran on.

**BuildFix.** The branch and the chained task are named after the episode the
model *echoes*, so a plan names the right episode, another one, or none. `commands`,
`filed` and `filings` are history: what was really emitted and pushed, and how often.
`landed` are the branches the default branch contains; a clone made then is `atop` of
its spec's branch, and the push a fast-forward. One network error
may read like a missing branch and another like none, as in the code's string
matching. `review` is the `## Fix Result` the `## Review` section was written about;
only ai_review runs in the owner wrapper (`Return`).

**Pipeline.** The phases with only those of their steps that read or change what
tasks share: the branch, named after the ref a task was filed at, the pull requests
in their order, and the default branch. A branch's content is the set of needs it
settles, an approval keeps what it was given on. `below` are the Jobs whose clone has
all of their branch, whose push the remote therefore takes. A task may be filed, planned again
and handed back by a person; a filing says which tasks exist and at which ref.
Gates, guards and tags are not repeated here: `Execution` and `Review` have them.

**Readers** and **Process** are sums, not products. Their parts are called from
different phases and share no state, so interleaving them would show nothing; a
behaviour is one of one of them and `reader` or `part` says of which. Each part
keeps a module, its variables, and a property of its own; the sum only lets one
run check them together. In the modules under `Readers` a line, a token, a path is
a member of a small set that holds what the code's comparisons tell apart, and the
properties compare what the code computes with a definition of what it should be.
In `PlanningRunner` the child, the scanner, `os/exec`'s kill and the caller's
cancellation interleave freely over a bounded pipe. In `Budget` a call takes any
number of minutes up to its timeout, and Kubernetes kills the Job at its deadline;
the context has none (`HasDeadline = FALSE`), as `main.go` passes it.

## Runs and bounds

| Run | Properties | Bounds |
|---|---|---|
| `execution` | `TypeOK`, `PushedHeadIsGated`, `PushedPathsAreGuarded`, `ResultNamesPR`, `PhaseMatchesResult`, `UnmergedWorkStays`, `ReplayIsInert`, `ImplementsPublication`, `StrandedBranchGetsPR`, `TaskSettles` | 8 task files, 2 gates, 4 classes of files, 2 triggers, 2 faults, 2 acts (895,000 states) |
| `planning` | `WellFormed`, `TableIsComplete`, `VulnsAreGroundTruth`, `ExecutionAcceptsPlan`, `ExecutionIsVetted`, `NoWorkIsClosed`, `PlanningSettles` | 9 task files, 7 contents, 24 answers, 2 triggers, 1 fault, 2 acts (627,000) |
| `review` | `TypeOK`, `ApprovedWasVerified`, `VulnsClearIsEarned`, `HandOffIsActionable`, `ReviewSettles` | 6 task files, 5 contents, 2 triggers, 1 fault, 2 acts (365,000) |
| `build_fix` | `WellFormed`, `HandOffIsReal`, `ChainsAreBounded`, `SpecIsFiledOnce`, `UnmergedSpecStays`, `ReplayIsInert`, `FixSettles` | 3 echoes, 2 triggers, 2 faults, 2 acts (105,000) |
| `pipeline` | `ApprovedPRSettlesItsNeed`, `ClosingIsSound`, `SharingIsHarmless` | 2 advisory tasks at one head, or one alone, 1 trigger per phase, 1 fault, 1 act (1,121,000) |
| `readers` | `TableIsFaithful`, `WrittenIsSound`, `AnswerIsFound`, `ClearingIsSound`, `EvidenceIsKept` | 2 IDs and 2 targets, a Status trivy may print and the reader does not know, commented assignments, files of 3 lines, answers of 6 tokens, 4 paths and 3 versions, 3 workflow runs (1,115,000) |
| `process` | `LifeCycleIsSound`, `OutcomeIsTrue`, `RunReturns` | every environment, 4 lines through a pipe of 2 (141,000) |
| five `violation` runs | one property each | see below |

Several properties are conjunctions of named parts, each of which can fail on its
own: the type invariant of the module and

| Property | Its parts |
|---|---|
| `TableIsFaithful` | `FixIsReported`, `LiveFindingIsKept`, `ApprovedIsSuppressed` |
| `WrittenIsSound` | `SectionGuaranteed`, `PreambleIsFrozen`, `ReleasedSectionsAreFrozen`, `WritingIsIdempotent`, `ReviewAcceptsWritten` |
| `AnswerIsFound` | `FinalObjectIsParsed`, `NeverAMember`, `FencedObjectIsParsed` |
| `ClearingIsSound` | `ClearedIsInstalled`, `SpoiledBlockFailsClosed` |
| `EvidenceIsKept` | `EndOfLogIsSeen`, `BodyIsTheFallback` |
| `LifeCycleIsSound` | `RunIsCountedOnce`, `CredentialIsOne`, `ProducersOutliveTheAgent` |
| `OutcomeIsTrue` | `AnswerIsComplete`, `AnswerIsLogged`, `FailureNamesTheEnd` |
| `WellFormed` of `BuildFix`, of `Planning` | `HumanReviewHasHandOff`; `HandOffIsActionable` |
| `ClosingIsSound` | `ClosedTaskHasShipped` |
| `SharingIsHarmless` (temporal) | `UnmergedWorkStays`, `PipelineSettles` |

Why the bounds are enough. Two faults allow a lost answer followed by a crash,
the longest failure the crash-window guards have to survive, and two acts allow
"merge, then hand the task back". Two triggers give a retry after a failure, and the
two faults may both fall into the first Job, so that the second meets a remote that
answers. Two gate targets are needed for "green, then repaired,
then red"; two advisories for collapse and suppression to differ per row; two
targets for rows of one advisory to arrive from both. Two tasks are the least that
share a branch, and with one fault and one act they can crash between push and pull
request while a person plans one of them again, or find the branch merged and kept
with a lookup that fails. Three lines of CHANGELOG are enough for a
preamble, a heading and what follows it, with every ending and every order; six
tokens for an object in prose behind a fence with another one nested in it. Each
branch of each `Run` has a task file in the instance that takes it, and between
them the passing runs fire every action. What the runs check of safety does not
depend on the bounds at all: it is proved below, for every value of the constants,
for two properties under a hypothesis about the inputs that is named there.

Every property of a passing run has a mutant in the module it is about: an
operator before the mutated one, with the same parameters, that differs from it
as a plausible bug would (a dropped guard, a missing reset, a swapped source of
truth), and TLC finds the property violated when it takes the definition's place.
Of a conjunction, one part's mutant is kept.

What the less obvious properties say:

- `PushedHeadIsGated`: the branch and every pull request hold a commit all planned
  targets were green on *since its last edit*, and there was at least one. It is
  what `openPRFromPushedBranch` relies on when it opens a pull request without
  running anything.
- `PushedPathsAreGuarded`: holds although the changed files are listed twice with
  a write in between, because the commit is checked once more before the push.
- `StrandedBranchGetsPR`: the crash window between push and pull request closes.
- `TableIsComplete`: exactly the reported IDs nobody suppressed, in any order of
  targets, with one actionable row for the advisory of the task.
- `ExecutionAcceptsPlan`: planning's and execution's readings of one plan agree.
- `NoWorkIsClosed`: the model's label alone never closes a task.
- `ApprovedWasVerified`: an approval names a content of the branch that met every
  check, although pull request, clone and tags are read at different times.
- `HandOffIsReal`: what a `## Fix Result` claims has happened outside.
- `UnmergedWorkStays`: the Job that pushes decided to build long before; still, a
  branch that stays moves only when the default branch has what it held, and under no
  open pull request. That it never moves, as a comment has it, is refuted below.
- `UnmergedSpecStays`, `SpecIsFiledOnce`: a spec that waits for its merge is not
  replaced, and each push beyond the first took a fault.
- `ApprovedPRSettlesItsNeed`: review clones a branch by its name and approves a pull
  request by its URL, both long after `## Result` was written; the pull request named
  there settles the advisory of the task. It speaks of tasks that do not share their
  branch; for those that do, the mixed verdict of `ShippedTaskIsSettled` is below.
- `TableIsFaithful`: every row comes from a line of a target that ran and has the fix
  of that line, unless the Status of the line is one the reader does not know; what is
  dropped is named where suppressions are read, and what is approved is dropped.
- `ClosedTaskHasShipped`: a task that does not share its branch and that review
  closed has its need on the default branch. For tasks that do share, it is refuted
  below.
- `ReviewAcceptsWritten`: the bullet the writer puts in, review finds, in the files
  where a line that mentions the heading does not stand in the way.
- `NeverAMember`: of an answer without a fence, a whole object is parsed, never one
  inside another.
- `AnswerIsComplete`: what `Run` returns is the last non-empty result the child
  wrote before it ended well.

## Fairness

`FairSpec` of the phases adds weak fairness of `StartJob` and of `Job`. The first is
the controller: a task that may start a Job gets one. The second is the process:
`Run` is sequential code whose calls are bounded by contexts (Claude, gate repair) or
by the Job's deadline, so a Job that is not killed takes its next step. Nothing is
assumed of people, of crashes or of failed calls; they are bounded, not fair.
`StrandedBranchGetsPR` speaks of states from which no further call fails. In
`Pipeline` each task's Job is fair by itself, as Jobs are pods of their own: a task
must come to rest even if another one is busy.

`Process` states fairness of the runner alone, for `RunReturns`: a child with
something to write and room in the pipe writes, one that has written everything
exits, a cancelled context kills, and the goroutine that scans and waits goes on.
A child that has more to write need not exit, and nobody need cancel. Without a
cancellation a line beyond the scanner's buffer may hold `Run` for ever (the scan is
over, the pipe full and `Wait` waits), which is why the property excludes it.

## Where the code and its documentation disagree

Five have a run of their own, which shows the shortest way there:

1. `review_merged`: a merge that deletes the branch makes the review fail, although
   a merged pull request is meant to complete the task.
2. `build_fix_already_filed`: an unreachable origin is read as "branch exists".
3. `pipeline_omitted`: a plan that leaves out the task's advisory and has no other
   work closes the task, although review's check was meant to fail closed.
4. `repo_facts_two_ids`: the second advisory ID of a line gets no row.
5. `repair_not_covered`: no context of the program has a deadline, so the budget check
   in front of a gate repair always passes, however little time the Job has left.

The modules state twenty-six more, at their ends, under the sentence they refute. To
see one, replace the properties of the run's .cfg by it (`P`: as a PROPERTY,
otherwise as an INVARIANT), its specification by `Spec`, and the constants named
here; TLC then finds it violated.

| Statement | Run | Constants | The code | The sentence |
|---|---|---|---|---|
| `NoopRegenerationIsSkipped` | `execution` | `Inputs <- OneInput`, `Paths <- Workflows` | lists the changed files again after the CHANGELOG was written and loses the filter's work (`steps_execution.go:828`) | "byte-identical to base → skip" (`steps_execution.go:1030`) |
| `NoDuplicatePR` | `execution` | `Inputs <- OneInput`, `Paths <- FewPaths`, `TriggerCap = 3` | looks for an open pull request only (`steps_execution.go:440`) | "same PR, no duplicates" (`design.md:191`) |
| `BranchNeverMoves` `P` | `execution`, `pipeline` | | the push of a rebuild is a fast-forward when the branch was merged and kept (`steps_execution.go:221`) | "would be rejected as non-fast-forward on every retry" (`steps_execution.go:416`) |
| `RejectedHasNoYourMove` | `review` | | never removes the block of an earlier approval (`steps_review.go:153`) | "NO ## Your Move block" (`steps_review.go:92`) |
| `OnlySuccessIsReplayed` `P` | `build_fix` | | a failed hand-off writes the section the replay guard goes by (`steps_fix_execution.go:97`) | "existing successful ## Fix Result" (`steps_fix_execution.go:85`) |
| `FallbackReachesDefaultBranch` `P` | `build_fix` | | clones into the directory the first attempt filled (`steps_fix_planning.go:111`) | "fall back to default branch" (`steps_fix_planning.go:104`) |
| `ShippedTaskIsSettled` | `pipeline` | | reads the state of one pull request and the content of another (`steps_review.go:136`) | "not handed to the operator as done" (spec 007, line 126) |
| `ReplannedWorkIsExecuted` | `pipeline` | | the replay guard answers a new plan with the old result (`steps_execution.go:326`) | "the next planning run re-admits the row" (spec 007, line 127) |
| `AdoptedPRIsItsOwn` | `pipeline` | | adopts the pull request of another task at the same head (`steps_execution.go:357`) | "a prior run pushed + created the PR" (`steps_execution.go:347`) |
| `IgnoredLookupSurfaces` | `pipeline` | `TriggerCap = 2`, `MaxFaults = 2`, `MaxHuman = 0` | ends without a push when the rebuild changes nothing (`steps_execution.go:387`) | "the subsequent push would surface a real problem" (`steps_execution.go:350`) |
| `AlwaysGuaranteed` | `readers` | `Readers = {"changelog"}` | glues heading or bullet to an unterminated last line (`changelog.go:146`) | "returns content guaranteeing" (`changelog.go:111`) |
| `NewFileIsAccepted` | `readers` | `Readers = {"changelog"}` | cannot show a file master does not have (`steps_review.go:344`) | "carries at least one bullet" (`steps_review.go:323`) |
| `ReviewReadsTheSection` | `readers` | `Readers = {"changelog"}` | takes the first mention of the heading (`steps_review.go:401`) | "whether the ## Unreleased section contains" (`steps_review.go:398`) |
| `SuppressedIsApproved` | `readers` | `Readers = {"facts"}` | reads a commented-out assignment (`scanner_table.go:338`) | "approved as no-fix" (`scanner_table.go:225`) |
| `BothShapesParse` | `readers` | `Readers = {"facts"}` | knows five of trivy's statuses (`scanner_table.go:472`) | "so both shapes parse" (`scanner_table.go:469`) |
| `RedGateIsNotClean` | `readers` | `Readers = {"facts"}` | counts rows that are suppressed afterwards (`steps_planning.go:565`) | "never read as a clean gate" (spec 006, line 66) |
| `HardcodedPinParks` | `readers` | `Readers = {"facts"}`, `Pins <- AliasPins` | an alias node is of neither kind (`workflow_pin.go:149`) | "aliases are followed" (`workflow_pin.go:96`) |
| `NoObjectIsTrue` | `readers` | `Readers = {"json"}`, `Tokens <- BraceTokens`, `MaxTokens = 4` | counts braces inside strings (`llmjson.go:80`) | "false if none exists" (`llmjson.go:71`) |
| `BuiltVersionIsFixed` | `readers` | `Readers = {"advisory"}`, `Graphs <- ReplacedGraphs` | prints the selected version, not the replacement (`module_versions.go:26`) | "at or above its `fixed_version`" (spec 007, line 100) |
| `ProviderIsJudged` | `readers` | `Readers = {"advisory"}`, `Graphs <- SplitGraphs` | the longest matching path need not provide the package (`module_versions.go:130`) | "the module providing the advisory's package" (`steps_review.go:267`) |
| `FailingRunIsPicked` `P` | `readers` | `Readers = {"diagnosis"}` | takes a running or cancelled run (`gh_cli.go:268`) | "lowest id whose conclusion is failure" (`gh_cli.go:230`) |
| `GreenNeedsNoFix` | `readers` | `Readers = {"diagnosis"}` | never looks at the state of HEAD (`steps_fix_planning.go:162`) | "if green → … task completes" (`steps_fix_planning.go:80`) |
| `NoResultIsTrue` | `process` | | drops the result it has with the error (`planning_runner.go:244`) | "returns the last non-empty result event text" (`planning_runner.go:213`) |
| `ClaudeReturnsInTime` | `repair_not_covered` | `MaxStep = 0` | the timeouts add up to more than the Job's deadline (`steps_execution.go:630`) | "while there is still Job budget left" (`steps_execution.go:54`) |
| `NothingStaysOpen` | `process` | | a failed second producer leaves the first one open (`main.go:235`) | "closes the deliverer's + chain producer's resources" (`main.go:215`) |
| `RawTokenIsLocal` | `process` | | the cluster's entry point takes `GH_TOKEN` as well (`main.go:377`) | "only for local `cmd/run-task`" (`design.md:230`) |

Spec 006 and spec 007 are `src/specs/in-progress/006-*.md` and `007-*.md`.

Noticed while modelling and not stated as a property: an adopted branch opens its
pull request at `PR_TARGET` where design 5.3 says draft, and legitimately
regenerated workflow files are committed where design 7 rejects them all; both
are deliberate in the code's comments. Planning removes its workdir before it is
filled (`steps_planning.go:225`). Consent is read at the filed commit and the
clone is the current head. Execution requires seven characters of `ref`, planning
does not look. A task that is planned again to an empty plan is closed while its
pull request is still open. The metrics of a stopped Job are pushed with the
context that stopped it (`main.go:153`). The review's tag check compares the
commits of the clone with the tags of the remote as it is then; a tag may follow at
once, so no property rests on it.

## Proofs

Checked by TLAPS, from the assumptions the modules make about their constants
(`ExecutionAssumption`, `PlanningAssumption`, ...): the assumptions give the
constants their types, make the trigger caps positive, and keep values the code
tells apart apart (no content of a branch looks like a missing branch, no version is
named like another heading). TLC evaluates each of them in a passing run. Every
theorem holds for every set of task files, contents, answers and episodes, for every
number of targets, tasks, triggers, faults and acts, and for files, tables, logs and
answers of every length.

| Module | Theorem | States |
|---|---|---|
| `ExecutionProofs` | `TypeCorrect`, `Inductive` | `Spec => []TypeOK`, `Spec => []IInv` |
| | `PushedIsGated`, `PushedIsGuarded`, `ResultsAreReal`, `RoutingIsSound` | the four safety invariants of run `execution` |
| | `WorkIsKept`, `ReplayHasNoEffect` | its two action properties |
| | `ExecutionImplementsPublication` | `Execution` refines `Publication` |
| `ReviewProofs` | `TypeCorrect`, `Inductive` | as above |
| | `ApprovalIsEarned`, `VulnsClearIsSound`, `HandOffIsSound` | the three safety invariants of run `review` |
| `PlanningProofs` | `Inductive` | the inductive invariant |
| | `HandOffsAreActionable`, `TablesAreComplete`, `PlansAreGrounded`, `PlansAreAccepted`, `ExecutionsAreVetted`, `ClosedHasNoWork` | the six safety invariants of run `planning` |
| `BuildFixProofs` | `Inductive` | the inductive invariant |
| | `HumanReviewIsReady`, `HandOffsAreReal`, `ChainsNeedFaults`, `SpecsAreFiledOnce` | the four safety invariants of run `build_fix` |
| | `SpecsAreKept`, `ReplaysAreInert` | its two action properties |
| `PipelineProofs` | `Inductive` | the inductive invariant |
| | `ApprovalsSettle`, `ClosedHasShipped` | the two safety invariants of run `pipeline` |
| | `WorkIsKept` | the safety half of `SharingIsHarmless` |
| `ReadersProofs` | `TablesAreFaithful`, `ClearedAdvisoriesAreInstalled`, `EvidenceStays`, `AnswersAreFound`, `ChangelogsAreSound` | the five invariants of run `readers` |
| `ProcessProofs` | `Inductive` | the invariants of the two parts |
| | `JobsAreCountedOnce`, `OutcomesAreTrue` | the two safety invariants of run `process` |
| `SelectionProofs` | `KeepAtSelects` | the filter loop keeps what it is told to, once each, in order |

**Hypotheses.** Two theorems have a hypothesis beyond the assumptions. Each is a
condition the code needs and does not check; the constants of the runs meet both,
and without it a statement of the table above is refuted, so neither can be dropped:

| Theorem | Hypothesis | What it says | Refuted without it |
|---|---|---|---|
| `ClearedAdvisoriesAreInstalled` | `LongestPathProvides` | the longest matching module path provides the package | `ProviderIsJudged` |
| `AnswersAreFound` | `NoStringHoldsABrace` | no string of the answer holds a brace | `NoObjectIsTrue` |

`TablesAreFaithful` and `ChangelogsAreSound` need none: `TableIsFaithful` says what a
row and a suppression are made of whatever trivy prints and wherever a Makefile
mentions the variable, and leaves to `BothShapesParse` and `SuppressedIsApproved` what
it would say otherwise; `WrittenIsSound` speaks of files whose lines end
with a newline where that matters, and `AlwaysGuaranteed` is what it would say
otherwise.

**Execution.** The invariants are not inductive: they speak of the remote, while what
gets there is decided while a Job works. `IInv` adds what the Job knows at each `pc`:

- `WorkInv`: a Job runs only in the execution phase; past validation there is at
  least one gate target; at `guard` and `commit` all of them are green on the tree
  as it is; at `commit` the tree holds more than a CHANGELOG entry; at `push` the
  local commit is gated and guarded.
- `SectionInv`: a Job whose task already has its pull request never gets past the
  replay guard, and at `deliver` the `NextPhase` agrees with the section.

`CommittedIsGuarded` is the argument about the two listings: whatever
`EnsureChangelog` writes in between, a commit `WorkflowsVerified` lets through is
guarded if the first listing had an effective change. `StepPublishes` shows that a
step maps to a step of `Publication` or leaves what the repository shows alone,
and `RepositoryStep` what any step may do to the branch and to a pull request, from
which the two invariants about what is published and `WorkIsKept` follow: `WorkInv`
has that what is below a clone was merged.

**Review.** The invariants speak of the `## Review` section; what it will say is
decided check by check, on a clone that is older than the branch. `IInv` adds:

- `CheckInv`: no check is set before the gates ran; a check that is set says of the
  *clone* what it is named for (`Earned`); `vulns_clear` may be ahead of the advisory
  between `CheckGates` and `CheckAdvisories`, and only there (`AdvisoryHeld`); the
  clone's master is one master has been through; a Job that saw the pull request
  merged is right for ever.
- `VerdictInv`: a Job runs only while the task is in review and the agent's; a
  `NextPhase` exists only at `deliver` and only with an approval; one to a person
  comes with instructions and the owner's stamp, one to done with a merged pull
  request.

An approval stays sound while people push, merge and release because it is about
the content it was given on, and because the released headers, the one thing it is
measured against that moves, only grow. A re-trigger keeps the approval in the file
until the next Job replaces it, which is why the routing conjunct is about the phase
and the section together.

**Planning.** The properties speak of a task that has left planning; the reasons were
read one by one before. `GateInv` says which preflight each `pc` has behind it.
`TableInv` follows the table through the gates: after `target` targets it has
exactly what those found and the advisory of the task (`FoundBy`), with the row that
came from the task in front of all others (`ExternalComesFirst`); collapsing turns
that order into one actionable row of the advisory (`CollapseIsComplete`), and the
filter removes what is suppressed and nothing else (`FilterIsComplete`). `Grounded`
is kept of the section and of the plan in the file, each about the content *it* was
made from. `RoutingInv` and `PhaseInv` carry the decision from the Job to the file:
what was ready for execution, due to be closed or refused is so of the section the
phase came with. `ScopeNarrows` is the fact about `UpdateScope`: narrowing a plan
adds no finding and never turns work into no work or back.

**BuildFix.** A chain, a spec branch and a claim are made in three steps that a crash
may separate. `PlanInv`: a Job that hands off has a diagnosis, of an episode the model
may echo. `ResultInv`: what a Job does outside, it does for a task without
`## Fix Result`, which makes replays inert. `EmissionInv` counts: the commands for an
episode exceed the faults only by the one whose result the task still has, because
only a crash or a lost answer can lose a result; `FilingInv` counts the pushes of specs
in the same way, and knows of a clone `atop` that its spec's branch was merged.
`ReturnInv` ties a hand-over to a
person to a review of the very result the task has.

**Pipeline.** `IInv` is one invariant per task (`TaskInv`) and one of the remote
(`RemoteInv`: a branch has one open pull request at most, of what the branch has;
what is merged is in master). Per task, `PlaceInv` says where a Job may stand,
`ResultInv` that a Job past the replay guard has no pull request and one under review
has, `SectionsInv` that a reported pull request is one of the task's own ref
(`Names`), has what the branch has when nobody else builds on it (`Matches`), and that
the pull request of an approved task settles the task's need (`Approved`);
`ClosingInv` that a closed task was merged. A step of a Job is proved to keep its own
task's invariant, and to be one of those (`Same`, `Grows`, `Stays`) that leave every
other task's as it was: pull requests are never lost, reopened or rewritten, and
master only grows. A push does move a branch that is there when the clone has it below;
`BelowInv` says of such a clone (`Above`) that the branch is merged and that the
worktree settles all it does, so that no open pull request and no need is lost.

**Readers.** The five share no variable, so each has an invariant of its own and a
step of one leaves the others'.

- Facts: every line a target printed has a row (`EveryLineHasARow`), the rows are
  added line by line with the fix of the line (`RowsOfLines`), and what is suppressed
  is `Named` (`NamedIsExtracted`): it stands on a line that mentions the variable,
  behind the backslash of one, or in a list.
- Advisory: a verdict that clears goes by the block the task has *then*
  (`ClearedByTheBlock`).
- Diagnosis: what was collected so far holds the end of every log read so far
  (`EvidenceSoFar`), and `TruncationKeepsTheEnd`.
- JSON: `JsonIInv` says which candidates have been tried. The rest is about the
  nesting: the level after each token, what it is inside a part (`DepthOfPart`), that
  an object starts and ends at the same level, and that no two objects end at one
  place unless one is the other (`OneObjectPerEnd`).
- CHANGELOG: the file in the worktree is what `EnsureChangelog` makes of the file it
  found (`ChangelogIInv`). The rest is about one insertion (`Inserts`): a section
  behind its place moves as a whole (`SectionMoves`), one that ends before it stays
  (`SectionStays`), the first Unreleased section is the one that was written
  (`SectionInserted`, `BulletInserted`), and review's own way of cutting the file
  finds its bullet (`ReviewReads`).

**Process.** `StartUp`: one conjunct for what is true until the agent has run
(`NothingYet`), which credential there is by then, which producers are open, and that
from the first deferred call on a Job is counted once.
`PlanningRunner`: the pipe holds what was written and not yet read (`PipeInv`), and
what the scanner knows is what the lines before say (`Digested`); a scan ends with
everything the child wrote, or with nothing because it was cancelled or a line was
too long (`ScanInv`).

**Induction.** The library's induction theorems take an operator as a parameter, which
the installed provers cannot instantiate. Where a proof needs one (the filter loop,
the nesting of an answer, the end of a continued line) it goes by a least
counterexample: `LeastNatural` and `InductionUpTo` of `SelectionProofs` speak of a *set*
of naturals, follow from the well-foundedness of the order, and are instantiated with
the set of lengths the claim holds of. No module declares a RECURSIVE operator.

**Only model-checked**: liveness under fairness (`StrandedBranchGetsPR`, `TaskSettles`,
`PlanningSettles`, `ReviewSettles`, `FixSettles`, `RunReturns` and the
`PipelineSettles` part of `SharingIsHarmless`), because the prover has neither ENABLED
nor fairness, and the refuted statements of the previous section, which are
counterexamples.

## What is not modelled

- **Text**: the wording of prompts, pull request bodies, specs, messages and of the
  CHANGELOG bullet; token redaction; regular expressions character by character,
  of which the models keep the classes of lines they tell apart (so, for one, that
  `conventionalPrefixRegexp` accepts any `- word:` is not visible).
- **HTTP, base64 and YAML** of the consent file and of the GitHub App: their verdicts
  are inputs. The environments of subprocesses and the URL helpers have no state.
- **The controller itself** is external code; trigger caps, parking and the
  assignee guard are modelled as the steps' comments and design document rely on them.
- **In the pipeline** gates, guards, tags, consent and installation, which the
  phases' own modules have; the default branch is the literal `master` of the code.
- **Two Jobs of one task at a time**: the controller starts one per task and phase.
- `cmd/run-task` is the mode "local" of `StartUp`; mocks, build files, completed
  prompts and specs are no part of the system.

Hazards that were found and that are not in `PROJECT.json`'s list are the remarks
above and those the table of refuted statements covers by itself: the duplicate pull
request, the half-filled clone directory, the new CHANGELOG.md, the mentioned
heading, the suppressed row of a red gate, the YAML alias, the line beyond the
buffer, the green build, the moved package and the sum of timeouts.

## Plan

Done: `UpdateScope`, `Publication`, `Execution`, `Review`, `BuildFix`, `Planning`,
`Pipeline`, the readers and the process, in this order: what is published, who lets
it through, what leads to it, what they do to one another, and what they rest on;
and, for each of them, the proofs of its safety properties.

Next, modelling: the length of `ref` in planning; consent at the filed commit
against the clone's; the abstract specification the pipeline implements (a task is
closed only without work, or with a merged pull request, where branches are not
shared).

Next, proofs: that the pipeline implements that specification; that planning and
review, each by itself, implement what the pipeline takes them for; the safety half
of the liveness properties (what is left of the bounds when a task has to settle).
