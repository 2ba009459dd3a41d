# DepBisect in TLA+

DepBisect finds out which of the dependency changes between two git revisions
makes a command fail. It reverts subsets of the changes in temporary git
worktrees, installs, runs the command, and narrows the changes down by delta
debugging (`internal/ddmin`) to a *1-minimal* failing set: one that no longer
fails without any single one of its changes. Trials can run in parallel
(`--jobs`), are memoized, and are written to a checkpoint a later process can
`--resume` from.

This directory holds TLA+ models of the parts of the program that decide
whether that answer is right, TLC configurations that check them on small
instances, and proofs, checked by TLAPS, of what is true for every size. Every
definition is a translation of the code; `PROJECT.json` ("map") gives the lines
of each, and lists the components, runs, hazards, findings and theorems.

## Inventory

| Part | State it keeps | Operations | What makes it hard |
|---|---|---|---|
| `internal/ddmin` | current subset, granularity `n` | `MinimizeBatch`, `split`, `complements`, `sequential` | boundaries of `n` against the shrinking slice; the answer must not depend on how batches are evaluated |
| `internal/engine/executor.go` | memo, results, free lanes, worktrees, `storeOn` | `eval`, `record`, `batch`, `minimize` | a goroutine per candidate over a pool of lanes; first error cancels siblings; memo shared under a mutex |
| `internal/engine/engine.go` | stage of the run, worktrees, result | `Run` (phases, baselines, outcome), `cleanup`, `removeWorktree`, `validateCheckpoint` | every step may fail, be cancelled or be the last; order of clean-up, checkpoint and result |
| `internal/checkpoint` | a JSON-lines file | `Start`, `Append`, `Load`, `Clear` | torn writes, resuming from them, files of other runs |
| `internal/verify` | runs so far | `Harness.Verify`, `Classification` | exit, per-run timeout and cancellation race; early stop |
| `internal/execx` | a child process | `Local.Run`, cancellation per platform | the terminal signals the child as well; children that ignore signals |
| `internal/gitx` | worktrees and their entries in the repository | `AddWorktree`, `ResetWorktree`, `RemoveWorktree`, `PruneWorktrees`, lookups | partial effects of a command that fails |
| `internal/pm` | none | `Detect`, `Install`, `Version` | which manager a tree belongs to; a rejected candidate against an environment that is broken |
| `internal/manifest` | none | `Diff`, `Render`, `LockfileOnly`, `PinChanges` for eight ecosystems | a rendered candidate must be exactly the subset it is filed under |
| `internal/cli/cli.go` | flags, signal context | `parseRunArgs`, `runMain` | second Ctrl-C; which of several causes the message names |
| `internal/cli/output.go` | the live row, the ticker goroutine | `Step`, `Detail`, `Trial`, `startTicker`, `stopTicker` | a tick that fires while the ticker is being stopped; parallel trials and the command line write to one terminal |
| `internal/report`, completion, hints, installers, npm wrapper, action | none | formatting, installation | not part of the bisection |

How they interact: the command line makes a context that Ctrl-C cancels and
calls `engine.Run`. That compares revisions, opens the checkpoint, sets up one
worktree per lane and evaluates two baselines. It hands the changes to ddmin,
whose batches come back to `executor.batch`. `eval` takes a lane, resets its
worktree, writes the candidate's manifest, installs, and calls `verify`, which
runs the command through `execx`; `record` puts the trial into the memo and the
checkpoint. Deferred calls give lanes back and remove worktrees.

What has to be right, per part: ddmin ends, with a 1-minimal failing subset that
does not depend on scheduling. The executor measures each subset alone, once,
and files the verdict under that subset; it neither loses a lane nor waits for
ever, and reports the error that came first. The checkpoint gives back what was
saved by this very run and nothing else. A failing verdict rests on the planned
number of failures, and no verdict on a command that was cut off from above; the message at
the end names what ended the run. Nothing is drawn over a live row, nor after the
end. A session removes what it made and keeps what it promised. Every
difference between the revisions that the parsers and readers record is bisected or
reported, and the manifest of a trial is the subset the trial is filed under.

## Modules

| Module | Models | Kind |
|---|---|---|
| `Slices` | `split`, `complement`, `complements`, the neighbors of a set: in closed form, and as the loops of the code | operators |
| `Ddmin` | `MinimizeBatch` and the contract of `BatchTest` | state machine; the abstract specification of the search |
| `Sequential` | `Minimize`: the search with the `sequential` executor, as a function of its iterations, and what `Ddmin` owes to it | reference definitions over `Ddmin` |
| `Executor` | `eval`, `record`, `batch`, `minimize`, and `engine.Run` from the baselines to the outcome | state machine, implements `Ddmin` |
| `MCExecutor` | numbers of jobs, kinds of verdicts, faults | instance for TLC |
| `Checkpoint` | `FileStore`, `validateCheckpoint`, and the processes that use the file | state machine |
| `Trial` | one trial in detail: `ResetWorktree`, `Install`, `Harness.Verify`, each over `execx.Local` and a command, then `fail` and the message | state machine |
| `Progress` | the display: `Step`, `Detail`, `Trial`, `clearActiveTrial`, and the ticker goroutine, with the `engine.Run` and the workers that call it | state machine |
| `Session` | one process: worktrees, temporary directory, checkpoint and report, with Ctrl-C | state machine |
| `Manifest` | `internal/manifest` and the lockfile readers: what the parsers return, `Diff`, `LockfileOnly`, pins, `Render` for eight managers | operators |
| `Compare` | `engine.Run` up to the bisection, `pm.Detect`, and the candidates trials render | state machine over `Manifest` |
| `MCCompare` | two dependencies, small manifests and lockfiles | instance for TLC |
| `SlicesProofs` | lemmas about cutting slices | proofs |
| `DdminProofs`, `ExecutorProofs`, `CheckpointProofs`, `TrialProofs`, `ProgressProofs`, `SessionProofs`, `CompareProofs` | the inductive invariant of each state machine, and its theorems | proofs |

**Ddmin.** `current` and `n` are the loop's variables. `phase` says what the loop
waits for: the batch of chunks, the batch of complements, or nothing. `known`
is what tests have returned. `Learn(i)` is the executor finding out about one
candidate, in any order; `Answer` is the return of `test(...)`, allowed as soon
as the lowest-indexed failure is determined, together with what the loop does
next (`AdoptChunk`, `AdoptComplement`, `TryComplements`,
`IncreaseGranularity`, `Stop`). `Abort` is an error. The sequential and the
parallel executor are two schedules of this one machine. A chunk is given in
closed form, by the number of items before it; `BatchesAreTheCodes` compares
that with the loops in the code (`SplitLoop`, `Concatenated`). `Minimize` is the
loop over `(current, n)` after `N * N` iterations, more than it ever makes, with
those loops and the first failing candidate of each batch; `ScheduleIndependent`
says that the machine, whatever it evaluates and in whatever order, ends where
`Minimize` does.

**Executor.** A worker is one call of `eval`, with a program counter: look the
subset up, take a lane, reset and write, install, verify, record, give the lane
back. `Turn` makes workers sequential when `jobs <= 1` or the batch has one
candidate. `tree[l]` is what lies in lane `l`'s worktree: the subset just
installed, plus whatever was there before a reset. Verdicts are chosen
nondeterministically once per subset and kept by the memo; a command whose verdict
depends on who runs beside it is outside the model (the README asks for a command
that is safe to run concurrently). `scenario`, chosen once from the constant
`Scenarios`, says how many jobs there are, which verdicts commands give and which
faults occur. `firstErr`, `cancelled` and `errOnce` are as in `batch`. `stopped`
is the run's own context. Of the checkpoint file the module keeps what `Load` makes of
it: `saved`, the verdicts it gives back; `loose`, those of them whose line lacks its
newline; `broken`, whether its last line is a truncated tail, which `Load` ignores, or
a line spoils it, for which `Load` refuses it. A write of `record` may reach the file
whole, without its newline, in part or not at all (`Persist`, by an error, or by a crash
that a `Resume` follows); `Append` does not look at the end of the file, so a record
behind an unfinished line is glued to it (`WriteGlued`). `Resume` is a new process that
finds the checkpoint, and its memo is what `Load` gives back, not what the last process
knew; `ResumeRefused` is one that `Load` refuses the file. A process can begin at any
moment, which is a crash of the one before, or after an error. `D == INSTANCE
Ddmin WITH known <- Known, ...` is the refinement mapping: ddmin's variables are
the executor's own, and what ddmin knows is the memo with flaky taken for pass.
`RefinesDdmin` holds across failures and restarts: each step is one of ddmin's,
leaves its variables alone, or, when a process begins, sets them to an initial
state (`NewSearch`).

**Checkpoint.** The file is a sequence of lines, each a record or garbage, ended
by a newline or not. A write reaches the file whole, without its newline, in
part or not at all, by a crash or by an error. `durable` records what `Append`
reported as saved, `decided` every trial ever made; both are history variables.

**Trial.** What `Executor` does in the steps reset, write, install and verify, in
detail. `task` is the command `eval` has come to (`git reset`, `git clean`,
writing the manifest, `venv`, install, one run), `pc` where it is with that. `err`
is the chain of contexts: `Signal` (of `signal.NotifyContext`), `Run` (overall
timeout), `Batch` (cancelled by a sibling's error), `Own` (install or per-run
timeout). `End(c, why)` ends a context and those below it that have not ended; Go
spreads a cancellation from parent to child one context after the other, which is
one step here: a command that exits while a cancellation is on its way down to it
has not been asked to end, and counts as one that exited before. Ctrl-C is two
events that nothing orders: `SignalArrives` for depbisect and `CtrlC` for the
command. The order of the code's checks is kept (`CheckParent`, then `CheckOwn`),
as is the call of `cancel()` before `runCtx.Err()` is read (`RunReturns`). What
`Cmd.Run` returns is os/exec's contract: an exit status; the context's error if a
command that was asked to end exits with zero; an error if a descendant keeps the
output open beyond `WaitDelay`. An error is rewritten up to three times on its way
to the user (`InstallErr`, `ReportError`, `EngineFails`). `events` and `truth` are
history variables: what did end a context, and what really happened to the command
of which the code sees only `err` and the contexts.

**Progress.** Each method of `progress` is an operator from display to display,
since it holds the mutex from beginning to end; `display.line` says whether the
cursor is behind a live row. The ticker goroutine is three steps: the `select`,
which may take a tick though the channel is closed already (`SelectTick`,
`SelectStop`), and the frame it draws once it has the mutex. The command line
prints its message without the mutex (`Message`). `display.spoilt` is a history
variable: something was written behind a live row without erasing it.

**Session.** The bisection is one step here. git is not started under a cancelled
context (`exec.CommandContext`), so after a Ctrl-C no worktree is added any more,
and the next `worktree add` fails; a Ctrl-C that comes while git works may leave
parts. git's commands are what they do to `disk` (directories) and `entries`
(administrative entries); each may fail, with part of its effect where it has
parts. `keep` is `--keep-worktrees`.

**Manifest and Compare.** A manifest is the sequence of its declarations: section,
name, version, and `plain`, which is false for what the parsers skip or treat
apart (an indirect `require` of go.mod, a git, path or URL reference). A lockfile
is a sequence of entries; `main` marks the entry a reader prefers (the top-level
package of package-lock.json, `packages` before `packages-dev`, a module's own
line in go.sum) and, in pnpm-lock.yaml, what the root importer lists of its own
dependencies, which is all the reader of that file looks at (`ParsePnpmLock`).
Each `Parse...` is the reader's precedence between entries, as one pass over them
or two (`SetIfMain`, then `SetIfAbsent`), each `Revert...` what the renderer does
to one change, in the order it does it. `Revert` takes the one of the manager at
hand, and `Render` folds it over the changes that are not applied (`Unapplied`),
starting from the parsed target. A renderer that looks for a declaration takes the
`First` that matches, one that deletes takes all of them out (`Without`). `Parses`
says which sequences a file format can express at all.

`stage` of `Compare` follows `Run`: revisions, detection (`DetectManager`,
`DetectPython`, `DetectJavaScript`, each with the probes and early returns of its
function), `CheckWorkspace`, `ReadManifests`, `CompareRevisions`, `Decide`. What
git says about a file is chosen when it is asked, the contents when they are read.
Then `RenderCandidate` renders any subset, any number of times, always from the
same parsed target, as lanes do. The text of the files, extras and environment
markers, `replace` of go.mod and the keys beside `version` in a Cargo table are
abstracted to "kept as it is".

`CandidateIsItsSubset` says both halves: a change that is applied has its new side,
one that is not its old side (`ChangesHaveTheirSides`), and whatever no change is
about is as the target has it (`RestIsKept`). The old side is the plain version of
base, the pin, or nothing. It leaves out, and the comment at the property says so:

- A requirement that base or the target lists more than once. `requirements.go:96`
  parses the last of its lines, while `requirements.go:190` and `pyproject.go:229`
  revert the first, so that the candidate of the old side still declares the new
  version.
- References of the target's list. No renderer of uv or pip touches a `name @ url` line
  (`KeptReferences`), so a requirement that the target replaced by one is put back
  beside it.
- References and indirect requires of base, which the parsers do not record, and which
  therefore do not come back.

The last two are where the code departs from `docs/how-it-works.md:16`, by which "dependency
specs [are] reverted to their `--base` values": a requirement that became `name @ url`
(compared as removed) is declared twice in the candidate that takes it back, as neither
revision does, and a reference that became a requirement (compared as added) is missing.

`NoDriftUnreported` is about packages that each lockfile resolves to one version and
that are read from both. What becomes of one: it is bisected, is a lockfile-only change
that stays a diagnostic, or is transitive drift. Of drift nothing is kept but a
diagnostic that names the first `MaxListed` packages (8 in the code,
`lockfileOnlyNames`) and counts the others; `named` is the former. Not covered: go,
whose go.sum records no resolutions, pip, which has no lockfile, and pnpm's transitive
packages, which are not read. Of these `docs/limitations.md:13` says otherwise: transitive
drift is named in a diagnostic "except for Go". With pnpm it never is.

## Runs

| Run | Instance | Shows |
|---|---|---|
| `ddmin` | 5 items, pass/fail | every outcome function, every order of evaluation: 1-minimal, failing, ordered, within `split`'s precondition, equal to the sequential result, and finished |
| `executor` | 3 changes; 1 or 2 jobs; 4 verdicts and no faults; pass/fail with one restart, with step and stop faults or write faults (2 jobs), or all of them (1 job); pass/fail with write faults and two restarts (1 job) | trials isolated and made once, proven means 1-minimal, lanes conserved, root cause reported, the memo agrees with what the file gives back, saved verdicts survive all but an append behind an unfinished line, the run ends, `Executor` implements `Ddmin` |
| `jobs` | `Executor`, 2 changes, 2 lanes, step faults | **violated** (finding): an error of a later candidate ends a batch that an earlier one had decided |
| `checkpoint` | 2 subsets, 2 outcomes, 2 fingerprints, 3 processes | what is restored is real and of this run; saved trials survive unless a record was glued to a torn line |
| `torn_tail` | the same | **violated** (finding): without that proviso |
| `trial` | 2 runs, all combinations of timeouts, candidates and baselines, with and without a virtual environment | failing verdicts rest on all planned runs; a command cut from above is no evidence; the message names the cause; a limited trial ends |
| `ctrl_c` | `Trial`, 1 run | **violated** (finding): Ctrl-C that reaches the command first is counted as its failure |
| `unrunnable` | `Trial`, 1 run | **violated** (finding): with a timeout, a command that cannot start counts as timed out |
| `progress` | 3 workers, 5 candidates, all kinds of output | no row is written behind a live one, the message is the last, the animation ends |
| `session` | 3 lanes | clean-up, the kept worktree, the checkpoint |
| `compare` | 2 dependencies, manifests of up to 2 declarations, 3 by 4 lockfiles, 8 managers, one name listed | candidates are their subsets, identifiers are unique, no drift that is read goes unreported, resolution has no order, detection is unambiguous |
| `session_killed` | 2 lanes | **violated** (finding): a second Ctrl-C during clean-up loses result and checkpoint |

Why the bounds are enough. Five items are the fewest for which granularity goes
through 2, 4 and 5, chunks have unequal length, and a complement is adopted at `n
> 2` and cut again; four items with the outcome unresolved besides pass and fail
were checked too and add nothing, as ddmin treats unresolved as pass. Three
changes give batches of two chunks and of three singletons (more candidates than
the two lanes), and complements that are memo hits. One restart is enough to
restore, from a torn file too, continue, append to it, fail again and finish; two
are what it takes to tear the file, append to the torn line and be refused it.
With two lanes, write faults are apart from the others, as a write happens in one
locked step (`record`), whatever else fails. Faults come with two kinds of
verdicts only, as a fault ends the run whatever was measured before. A trial of
two runs has a first and a last one, between which everything can be cut, and
tells a planned series from a stopped one. Three workers are one that draws, one
that ends and one that fails, five candidates more than the workers begin at once;
a trial beyond that finds the display as an earlier one did. `Session` adds three
worktrees, so that one fails with worktrees before and none or some after it. In
the checkpoint run three processes are what it takes to tear a file, resume from
it, and look at what the resumed one left; `MaxProcesses` bounds them, and as
users may simply stop running it, deadlock is not checked there. It is checked in
all other runs. For `compare`, dependency 1 may stand in two sections, be updated,
added, removed, a URL, a reference without a version, indirect, and listed twice;
dependency 2 has exact pins, the only ones pip resolves. The lockfiles agree,
drift or contradict themselves, and both dependencies may drift transitively, of
which `MaxListed` = 1 names one and counts the other (the code's 8 would take
nine). A change touches its own section and name only, so two names and two
sections are what it takes for one to disturb another. `--pm` is absent or
`cargo`: a manager that is asked for goes on as a detected one does. Names of all
bounds: `N`, `Scenarios` (jobs, faults and restarts), `MaxProcesses`, `Runs`,
`Workers`, `Trials`, `Lanes`, `BaseManifests`, `TargetManifests`, `BaseLocks`,
`TargetLocks`, `Overrides`, `MaxListed`.

Fairness. `Ddmin`: the batch is evaluated to an answer or an error, which is what
a `BatchTest` owes its caller. `Executor`: weak fairness of the program's own
steps; the Go scheduler runs goroutines, a blocked `select` goes on when a lane or
the context is ready, and commands end by themselves or by the timeouts the user
set. Nothing makes the user stop or resume. `Trial`: `eval`, timers and the kill
after `WaitDelay` are fair (`Step`); commands are not, they may hang and ignore
the interrupt, and neither the user's signal nor a sibling's error need ever come.
So the trial ends only if something limits it, which is what `TrialEnds` assumes
(`Limited`): a context above that has ended or has a timeout, or a timeout of its
own for each command still to come. `git` has none, and nothing else ends a `git`
that hangs. `Progress`: `Run` and the one ticker are scheduled. `Session`,
`Checkpoint` and `Compare` have no liveness property.

## Findings

Five places where the code does not do what it says. `PROJECT.json` quotes the
lines.

1. `checkpoint.Append` continues a torn last line; a resumed run loses the trial
   it saves next, and then the whole file (`torn_tail`).
2. `verify.Verify` calls `cancel()` before it asks `runCtx.Err()`: with
   `--run-timeout` a command that cannot be started is a failing, timed-out run
   instead of an error (`unrunnable`).
3. Ctrl-C reaches the command itself and may be recorded as its failure
   (`ctrl_c`).
4. With `--jobs` above 1 a fatal error of a candidate that one job would never
   have tried ends the run (`jobs`).
5. The checkpoint is removed before clean-up and report; a second Ctrl-C in
   between loses everything (`session_killed`).

Two more departures from the documents no run refutes; the properties of `Compare` are
stated so that they hold all the same, and say at their definition what they leave out:
references of dependencies are not reverted to base, and transitive drift in
`pnpm-lock.yaml` is not named (both above, under Manifest and Compare).

## Proofs

Each theorem is about the specification the runs check, for every value of its
constants; TLC checked every inductive invariant as an invariant of a run before
it was proved.

| Module | Theorems | Property |
|---|---|---|
| `DdminProofs` | `TypeCorrect`, `GranularityCorrect`, `OrderCorrect`, `FailureCorrect`, `MinimalityCorrect` | `TypeOK`, `GranularityInRange`, `OrderPreserved`, `CurrentFails`, `OneMinimal` |
| | `BatchesCorrect`, `ScheduleCorrect` | `BatchesAreTheCodes`, `ScheduleIndependent` |
| `ExecutorProofs` | `TypeCorrect`, `LanesCorrect`, `MeasurementCorrect`, `EvaluationCorrect`, `RootCauseCorrect`, `CheckpointCorrect`, `ClosingCheckCorrect`, `ReportCorrect` | `TypeOK`, `LanesConserved`, `TrialMeasuresItsSubset`, `NeverEvaluatedTwice`, `RootCauseReported`, `CheckpointComplete`, `MinimalityServedFromMemo`, `ProvenIsOneMinimal` |
| | `SequentialCorrect` | the search of a run ends with what the sequential `Minimize` finds from the same verdicts |
| | `SavedVerdictsCorrect` | `SavedVerdictsKept`, an action property |
| | `Refinement` | `RefinesDdmin` |
| `TrialProofs` | `TypeCorrect`, `VerdictCorrect`, `CancellationCorrect`, `MessageCorrect` | `TypeOK`, `FailMeansEveryRunFailed`, `CancellationIsNoVerdict`, `MessageNamesTheCause` |
| `CheckpointProofs` | `TypeCorrect`, `RestoreCorrect`, `SurvivalCorrect` | `TypeOK`, `RestoredTrialsAreReal`, `SavedTrialsSurvive` |
| `SessionProofs` | `TypeCorrect`, `CleanUpCorrect`, `KeptCorrect` | `TypeOK`, `CleanedUp`, `KeptWorktreeUsable` |
| | `CheckpointCorrect` | `CheckpointKept`, an action property |
| `ProgressProofs` | `TypeCorrect`, `RowsCorrect` | `TypeOK`, `RowsAreWhole` |
| `CompareProofs` | `ManagerCorrect`, `DistinctCorrect`, `DriftCorrect`, `ResolutionCorrect` | `ManagerIsUnambiguous`, `ChangesAreDistinct`, `NoDriftUnreported`, `ResolutionHasNoOrder` |
| | `TypeCorrect`, `CandidateCorrect` | `TypeOK`, `CandidateIsItsSubset` |
| | `RevertIs` | what `Revert` does to one change, for every manager |

Assumptions, all named in the module that declares the constant: there is a change
(`NAssumption`, `ChangesAssumption`); pass and fail are outcomes
(`OutcomesAssumption`); a run has at least one job and any verdicts, faults and
number of restarts (`ScenariosAssumption`); at least one planned run of the command
(`RunsAssumption`) and one lane (`LanesAssumption`); the bounds on trials of a stage
and on processes are numbers (`TrialsAssumption`, `MaxProcessesAssumption`);
dependencies are numbered, an exact pin is a spec of the manifest, and placeholders
are no specs or versions (`ManifestAssumption`, `UnknownAssumption`); what is read
are sequences of declarations and of entries, and a diagnostic lists at least one name
(`CompareAssumption`). Sets of names,
versions, manifests, lockfiles, subsets and workers may be infinite.

**Ddmin.** None of the invariants is inductive alone. `IInv` adds
`Granular` (`current` is never empty, `n` is at least 2 and at most the length
while the search goes on, and complements are tried only for `n > 2`) and
`BaselineKnown` (the empty subset passed, so removing the last change is refuted
although ddmin never tests it). Candidates of either phase are ordered subsets of
`current`, which `SlicesProofs` derives from the closed form of `split`:
`ChunkSize` and `ItemsBeforeProperties` are the arithmetic of `size`, `rem` and
`start`; `CutProperties`, `SliceProperties` and `ComplementProperties` say that
cutting keeps order. When `Stop` fires, `n` equals the length, so each complement
is `current` without one item (`SingletonComplement`) and has just been refuted;
for two items the chunks themselves are those neighbors (`HalvesOfTwo`), and for
one item the empty baseline is (`WithoutTheOnlyItem`). Each action has a step
of its own in `ReduceIInv`, `NotReducedIInv` and `LearnIInv`.

That the loops of `split` and `complement` compute the closed forms is
`SplitLoopIs` and `ConcatenatedIs`. Each loop is a recursive function on numbers,
which exists and is unique (`LoopDetermines`, by the least number at which two such
functions would differ). For `ScheduleIndependent`, `IInv` has `Reached`:
from `(Items, 2)` a path of iterations leads to `(current, n)`, each of which is
`Decided` by what is known, that is, the candidate it adopts failed and all before it
are known not to, or no candidate failed. Learning more never undoes that, so only
the last iteration is looked at in each step (`ReachedByReducing`,
`ReachedByRefuting`). A path has at most `(N - Len(current)) * N + n - 2` iterations,
because each drops an item or raises `n` (`SmallerIsLater`); so `N * N` suffice for
`Minimize`, whose recursion `SearchIs` unfolds, and at the end of a path a sequential
iteration changes nothing (`EndedIteration`, `DoneIsMinimize`). As
`DdminProofs!IInv` is part of the invariant of `Executor`, the same holds of runs with
lanes, faults and resumes (`SequentialCorrect`).

**Executor.** `IInv` says of each worker what it holds: a lane exactly from taking
it to the deferred return (`LanesHeld`), in that lane's tree its own candidate and
nothing else (`TreesHeld`), a candidate without a trial as long as it evaluates,
and after it the verdict the memo has (`VerdictsFiled`). Together with the
candidates of a batch being pairwise different (`BatchProperties`, from
`SlicesProofs`) that is why a look-up and a trial that are not one critical
section still never evaluate a subset twice. `TurnsTaken` is the order of
sequential evaluation, `ErrorsKept` that an interruption has a cause that came
before it. `StagesInOrder` says what earlier stages have established; with it
`DdminProofs!IInv`, instantiated with what the memo knows, is part of `IInv`, so
that everything proved of ddmin is available for the run. `WorkerRefines` shows
that `Record` of an undecided candidate is `Learn` and all else a worker does
leaves ddmin alone; `BatchAnswered` and `MinimizeRefines` that a batch that is
over determines the lowest failing candidate, so `Minimize` is `Answer`;
`StartOfProcessIInv` and `ResumeIInv` that a resumed process begins in an initial
state of ddmin. Of the file, `PersistWrites` says what an append makes of it:
`FileWritten`, all it had and at most the new verdict, or, behind an unfinished
line, fewer or none. So what it gives back stays a part of the memo
(`CheckpointCorrect`), and `SavedVerdictsCorrect` holds of every step but that
append; resuming needs no more, since a process knows only what it was given back.
`Refinement` puts the steps together, and the closing check finds all neighbors in
the memo because ddmin has just refuted them (`NeighborsDecided`).

**Trial.** `ContextsEnded` is the chain of contexts: what ended which, and who may
have left no event (Verify's own `cancel()`). `CutsSeen` is the core of
`CancellationIsNoVerdict`: a cut made while a command runs shows in its context when
the command is waited for, because a parent ends its children. `ErrorsExplained`
says at each stage of rewriting what an error can have come of, `RunsPlanned` that a
run is counted only if it was planned. `EndProperties`, `RunResultIs`,
`InstallErrIs` and `EngineFailsWith` resolve the case distinctions of the code once.

**Checkpoint.** The file is described by what its lines can be: `WellFormed` (one
header, in front; one trial per subset), `TrialsDecided` (trials behind a header
were decided by runs of its fingerprint), `DurableOnLines` (what was reported as saved
has a line of its own, or a line that is no truncated tail is damaged), and `WriterKnows`
(whoever appends has the file's trials in its memo, so it never appends a second trial
of a subset).

**Session.** `LanesInOrder` and `NothingYet` say that until clean-up begins the
worktrees are exactly those listed, `Accounted` that during clean-up each entry is
still to be removed, stuck or the kept one, `KeptSpared` that the kept one is never
in the list, `OpenedLate` that the earlier run's checkpoint is not removed.

**Progress.** `Whole` ties the live row to the fields that say what it is;
`LiveRowOwned` says on whose behalf it stands there, which is why whatever is
printed next knows to erase it; `Animated` that at most one ticker is ever
started, and stopped only when the search is over; `EndsQuietly` that none of it
is left for the last message.

**Compare.** `Detected` is what the early returns of detection have excluded when a
manager is chosen, `Known` where resolutions come from. That changes are distinct
needs that `Diff` makes at most one change of an identifier, that pins stand only
where declarations are the same and `Diff` where they differ (`DiffIs`, `PinsAre`,
by `Same`), and that `SortChanges` lists each change of a finite set once
(`SortChangesIs`; `Listing` ranks by counting). For yarn.lock, `KnownOf` says what the
fold knows of a name after some entries, in terms of nothing but the set of versions
they have for it, and a permutation does not change that set (`YarnKnows`,
`YarnHasNoOrder`).

`CandidateIsItsSubset` needs `Made`: what was compared can be parsed (`Parses`),
every change fits the manifests (`Fits`: it has the new side the target has, and
its old side is what the renderer takes it back to), identifiers are distinct, and
a candidate is `Render` of the subset it is filed under. `RevertIs` is the heart:
for each manager, taking back one change leaves the declarations of all others
where they are (`Local`), and if the changed one is declared at most once
(`Lone`), it has its old version afterwards, or is gone, beside the references a
list keeps for it (`Beside`, `BesideAre`). It rests on `Without`, which takes a
set of entries out of a sequence, and on what appending, replacing and deleting do
to it (`WithoutAppend`, `Appended`, `Replaced`, `TakenOut`, `Upserted`,
`Rewritten`). `RevertFold` gives the states of the fold; `Quiet` says that those
for changes of other identifiers do not disturb one, and `SideOf` takes a change
from where it is reverted to the end. That a dependency is declared once follows
from what the format can express, or is the proviso about requirements listed
twice (`DeclaredLone`; `DeclaredOld` for base). `ComparedFit` derives `Fits` from
`Diff` and the pins, `RenderIs` and `RenderKeeps` put together what `Render` does.

For `NoDriftUnreported`, a reader is a fold over entries each step of which keeps what
is known of a name or sets it to the entry's version (`Stepwise`, `Hits`), so that a
name that is read and all of whose entries have one version resolves to it
(`StepsReach`, `OneVersionResolves`). It then moves, and `TransitiveDrift` takes what
neither changes nor pins have; being listed or only counted is all that is left.

Natural numbers, sequences and folds are reasoned about without induction over operators:
`LeastNumber` takes the least counterexample from a set, which is `WFMin` of the
library, and `UpTo`, `LoopDetermines` (`SlicesProofs`), `FoldPrefixes` and
`SeqInduction` (`CompareProofs`) are built on it.

### Only model-checked

Liveness under fairness, which needs ENABLED: `Terminates`, `RunEnds`, `TrialEnds` and
`AnimationEnds`. TLAPS has no rules for either. Every invariant and every action
property of a passing run is a theorem. `Sequential` has no more than `N * N`
iterations to look at because `SmallerIsLater` bounds them; that bound is a fact about
paths, not a proof that `Ddmin` terminates, which also needs its fairness.

## Not modelled

- The syntax of manifests and lockfiles: `Manifest` starts from parsed records and
  ends with the records a parser would find again.
- `internal/report`, `nexthint.go`, the summary and the wording of rows: they format
  a finished result or a state and keep none. Row widths are part of that; that a row
  can be too wide to be erased is listed as a hazard, with the arithmetic.
- Flag parsing, shell completion, installers, the npm wrapper, the GitHub action: no
  part of the bisection.
- What package managers, git and the command do, beyond the effects above: `Version`,
  revision lookup, arguments and environments, the choice of a program in a virtual
  environment, output capture, the vetting of batch files on Windows. They change no
  state of the program; their failures are failures of the step they belong to.
- Durations, trial numbers and output excerpts: nothing but display depends on them.

Each hazard no property covers says in `PROJECT.json` why.

## Plan

1. The `jobs`, `torn_tail`, `ctrl_c`, `unrunnable` and `session_killed` runs show
   what the code does not promise; should the code change, each of their properties
   becomes a theorem candidate of its module.
2. Row widths (`output.go:436`), should they be worth a model of the arithmetic.
