------------------------------ MODULE Executor ------------------------------
(***************************************************************************)
(* The candidate executor and the phases of engine.Run that drive it: the  *)
(* two baselines, ddmin over batches of candidates, and the 1-minimality   *)
(* check.                                                                  *)
(*                                                                         *)
(* A batch is evaluated by one worker per candidate.  With jobs > 1 each   *)
(* worker is a goroutine of its own; otherwise workers take turns in index *)
(* order and stop at the first failure.  A worker that misses the memo     *)
(* takes a free worktree lane, resets it, writes the candidate manifest,   *)
(* installs, verifies and records the trial.  The process may be stopped   *)
(* (Ctrl-C, overall timeout) or die at any moment, and a later one resumes *)
(* from the trials the checkpoint file gives back.  Of the file the module *)
(* keeps what Load makes of it, a write that was cut short included;       *)
(* Checkpoint has its lines.                                               *)
(*                                                                         *)
(* Left out: durations, progress output and its trial number, the excerpt  *)
(* of the failing command.                                                 *)
(***************************************************************************)
EXTENDS Slices, FiniteSets

CONSTANTS
    N,              \* number of dependency changes
    Scenarios       \* the instances looked at, one of which a behaviour is in:
                    \*   jobs      --jobs
                    \*   verdicts  the verdicts trials can have
                    \*   faults    what can go wrong: a "step" of a trial, a
                    \*             "write" of the checkpoint (it is cut short, or
                    \*             the process dies in it), a "stop" of the run
                    \*   restarts  bound: how often the process is resumed

ASSUME ChangesAssumption == N \in Nat \ {0}
ASSUME ScenariosAssumption ==
    Scenarios \subseteq [jobs     : Nat \ {0},
                         verdicts : SUBSET {"pass", "flaky", "fail", "unresolved"},
                         faults   : SUBSET {"step", "write", "stop"},
                         restarts : Nat]

VARIABLES
    scenario,       \* never changes
    stage,          \* what engine.Run is doing
    outcome,        \* Result.Outcome once the run has finished
    current, n, phase,  \* ddmin's loop; afterwards current is bestKnown
    memo,           \* subset -> verdict of its trial
    saved,          \* subset -> verdict of the trials Load gives back
    loose,          \* those of them whose line lacks its newline: the last, if any
    broken,         \* the file has "no" broken line, a truncated last one (its
                    \* "tail") that Load ignores, or a "line" Load refuses
    storeOn,        \* checkpointing has not been disabled by a failed write
    free,           \* the lanes channel: lanes nobody holds
    tree,           \* lane -> what lies in its worktree
    pc, lane,       \* worker -> where it is in eval, which lane it holds
    failed,         \* worker -> failed[i] of batch
    fault,          \* worker -> the error eval returned, until it is reported
    firstErr,       \* firstErr of batch
    cancelled,      \* the batch's own context was cancelled
    stopped,        \* the context of the run is done
    restarts

workers  == <<pc, lane, failed, fault>>
batchCtx == <<firstErr, cancelled>>
file     == <<saved, loose, broken>>
results  == <<memo, file, storeOn>>
search   == <<current, n, phase>>
vars == <<scenario, stage, outcome, search, results, free, tree, workers, batchCtx, stopped,
          restarts>>

Jobs     == scenario.jobs
Verdicts == scenario.verdicts
Faults   == scenario.faults

(* A lane per job, but no more than there are changes. *)
Lanes == 1..Smaller(Jobs, N)
Worker == 1..N

Items  == [i \in 1..N |-> i]
Subset == Seq(1..N)

(* What a worktree still holds of a trial that is over. *)
Stale == <<0>>

(* A verification is flaky when runs disagree; as an outcome it is a pass. *)
OutcomeOf(v) == IF v = "flaky" THEN "pass" ELSE v

(* What ddmin may take for known: the memo, and the baselines that are     *)
(* established before it starts.                                           *)
Known ==
    [s \in DOMAIN memo \cup {<< >>, Items} |->
        IF s = << >> THEN "pass"
        ELSE IF s = Items THEN "fail"
        ELSE OutcomeOf(memo[s])]

D == INSTANCE Ddmin WITH known    <- Known,
                         Outcomes <- {"pass", "fail", "unresolved"}

TypeOK ==
    /\ scenario \in Scenarios
    /\ stage \in {"baseline-old", "baseline-new", "search", "minimality", "finished", "failed"}
    /\ outcome \in {"none", "failing-at-base", "not-reproduced", "inconclusive", "minimal-found"}
    /\ current \in Subset
    /\ n \in Nat
    /\ phase \in {"chunks", "complements", "done", "aborted"}
    /\ DOMAIN memo \subseteq Subset
    /\ \A s \in DOMAIN memo : memo[s] \in Verdicts
    /\ DOMAIN saved \subseteq Subset
    /\ \A s \in DOMAIN saved : saved[s] \in Verdicts
    /\ loose \subseteq DOMAIN saved
    /\ broken \in {"no", "tail", "line"}
    /\ broken = "line" => DOMAIN saved = {}
    /\ storeOn \in BOOLEAN
    /\ free \subseteq Lanes
    /\ tree \in [Lanes -> SUBSET (Subset \cup {Stale})]
    /\ pc \in [Worker -> {"start", "acquire", "prepare", "install", "verify", "erred", "done"}]
    /\ lane \in [Worker -> Lanes \cup {0}]
    /\ failed \in [Worker -> BOOLEAN]
    /\ fault \in [Worker -> {"none", "interrupted", "step"}]
    /\ firstErr \in {"none", "interrupted", "step"}
    /\ cancelled \in BOOLEAN
    /\ stopped \in BOOLEAN
    /\ restarts \in 0..scenario.restarts

---------------------------------------------------------------------------
(* The batch the run is evaluating. *)
Batch == CASE stage = "baseline-old" -> << << >> >>
           [] stage = "baseline-new" -> <<Items>>
           [] stage = "search"       -> D!Candidates
           [] stage = "minimality"   -> Neighbors(current)
           [] OTHER                  -> << >>

Parallel == Jobs > 1 /\ Len(Batch) > 1
Running  == stage \in {"baseline-old", "baseline-new", "search", "minimality"}

(* The context eval gets: the batch's own when it runs in parallel. *)
CtxDone == stopped \/ cancelled

(* One at a time, a candidate is evaluated when those before it did not    *)
(* fail and gave no error.                                                 *)
Turn(i) ==
    /\ i \in DOMAIN Batch
    /\ ~Parallel => /\ firstErr = "none"
                    /\ \A j \in 1..i - 1 : pc[j] = "done" /\ ~failed[j]

Init ==
    /\ scenario \in Scenarios
    /\ stage = "baseline-old"
    /\ outcome = "none"
    /\ current = Items
    /\ n = 2
    /\ phase = D!LoopFrom(Items)
    /\ memo = << >>
    /\ saved = << >>
    /\ loose = {}
    /\ broken = "no"
    /\ storeOn = TRUE
    /\ free = Lanes
    /\ tree = [l \in Lanes |-> {}]
    /\ pc     = [i \in Worker |-> "start"]
    /\ lane   = [i \in Worker |-> 0]
    /\ failed = [i \in Worker |-> FALSE]
    /\ fault  = [i \in Worker |-> "none"]
    /\ firstErr = "none"
    /\ cancelled = FALSE
    /\ stopped = FALSE
    /\ restarts = 0

---------------------------------------------------------------------------
(* eval, step by step. *)

Return(i) == pc' = [pc EXCEPT ![i] = "done"]

(* The subset was evaluated before, in this process or the one resumed. *)
MemoHit(i) ==
    /\ pc[i] = "start"
    /\ Turn(i)
    /\ Batch[i] \in DOMAIN memo
    /\ failed' = [failed EXCEPT ![i] = memo[Batch[i]] = "fail"]
    /\ Return(i)
    /\ UNCHANGED <<stage, outcome, search, results, free, tree, lane, fault, batchCtx,
                   stopped, restarts>>

(* Mutant: the memo is not consulted. *)
MissAlways(i) ==
    /\ pc[i] = "start"
    /\ Turn(i)
    /\ ~CtxDone
    /\ pc' = [pc EXCEPT ![i] = "acquire"]
    /\ UNCHANGED <<stage, outcome, search, results, free, tree, lane, failed, fault,
                   batchCtx, stopped, restarts>>

Miss(i) ==
    /\ pc[i] = "start"
    /\ Turn(i)
    /\ Batch[i] \notin DOMAIN memo
    /\ ~CtxDone
    /\ pc' = [pc EXCEPT ![i] = "acquire"]
    /\ UNCHANGED <<stage, outcome, search, results, free, tree, lane, failed, fault,
                   batchCtx, stopped, restarts>>

(* Mutant: the lane is used but not taken off the channel. *)
AcquireShared(i) ==
    /\ pc[i] = "acquire"
    /\ \E l \in free : lane' = [lane EXCEPT ![i] = l]
    /\ pc' = [pc EXCEPT ![i] = "prepare"]
    /\ UNCHANGED <<stage, outcome, search, results, free, tree, failed, fault, batchCtx,
                   stopped, restarts>>

(* Of a select with a free lane and a done context, either may be taken. *)
Acquire(i) ==
    /\ pc[i] = "acquire"
    /\ \E l \in free :
          /\ lane' = [lane EXCEPT ![i] = l]
          /\ free' = free \ {l}
    /\ pc' = [pc EXCEPT ![i] = "prepare"]
    /\ UNCHANGED <<stage, outcome, search, results, tree, failed, fault, batchCtx,
                   stopped, restarts>>

(* The context is done before a lane is held. *)
Interrupted(i) ==
    /\ CtxDone
    /\ \/ pc[i] = "start" /\ Turn(i) /\ Batch[i] \notin DOMAIN memo
       \/ pc[i] = "acquire"
    /\ pc' = [pc EXCEPT ![i] = "erred"]
    /\ fault' = [fault EXCEPT ![i] = "interrupted"]
    /\ UNCHANGED <<stage, outcome, search, results, free, tree, lane, failed, batchCtx,
                   stopped, restarts>>

(* Mutant: the manifest is written into the worktree as the last trial     *)
(* left it.                                                                *)
PrepareWithoutReset(i) ==
    /\ pc[i] = "prepare"
    /\ tree' = [tree EXCEPT ![lane[i]] = @ \cup {Batch[i]}]
    /\ pc' = [pc EXCEPT ![i] = "install"]
    /\ UNCHANGED <<stage, outcome, search, results, free, lane, failed, fault, batchCtx,
                   stopped, restarts>>

(* ResetWorktree removes what is there, then the manifest is written. *)
Prepare(i) ==
    /\ pc[i] = "prepare"
    /\ tree' = [tree EXCEPT ![lane[i]] = {Batch[i]}]
    /\ pc' = [pc EXCEPT ![i] = "install"]
    /\ UNCHANGED <<stage, outcome, search, results, free, lane, failed, fault, batchCtx,
                   stopped, restarts>>

(* Installing adds the subset's packages to what is there. *)
Install(i) ==
    /\ pc[i] = "install"
    /\ tree' = [tree EXCEPT ![lane[i]] = @ \cup {Batch[i]}]
    /\ pc' = [pc EXCEPT ![i] = "verify"]
    /\ UNCHANGED <<stage, outcome, search, results, free, lane, failed, fault, batchCtx,
                   stopped, restarts>>

(* Mutants: the lane is cleared before it is sent; it is never sent. *)
ReleaseLaneCleared(i) ==
    /\ lane' = [lane EXCEPT ![i] = 0]
    /\ free' = free \cup {lane'[i]}
    /\ tree' = [tree EXCEPT ![lane[i]] = {Stale}]
ReleaseLaneNever(i) ==
    /\ lane' = [lane EXCEPT ![i] = 0]
    /\ tree' = [tree EXCEPT ![lane[i]] = {Stale}]
    /\ UNCHANGED free

(* The deferred return of the lane. *)
ReleaseLane(i) ==
    /\ free' = free \cup {lane[i]}
    /\ lane' = [lane EXCEPT ![i] = 0]
    /\ tree' = [tree EXCEPT ![lane[i]] = {Stale}]

(* f with v for s. *)
Put(f, s, v) == [k \in DOMAIN f \cup {s} |-> IF k = s THEN v ELSE f[k]]

(* The file that gives back r, of which l lack the newline. *)
FileBecomes(r, l, b) == saved' = r /\ loose' = l /\ broken' = b

(* How much of a record and its newline a write leaves in the file. *)
Extent == {"all", "no-newline", "part", "nothing"}

(* The last line has no newline. *)
Unfinished == loose # {} \/ broken = "tail"

(* The record gets a line of its own.  All of it but the newline is read   *)
(* back like a whole line, less of it is a truncated tail.                 *)
WriteLine(s, v, extent) ==
    /\ ~Unfinished
    /\ broken = "no"
    /\ FileBecomes(IF extent \in {"all", "no-newline"} THEN Put(saved, s, v) ELSE saved,
                   IF extent = "no-newline" THEN {s} ELSE {},
                   IF extent = "part" THEN "tail" ELSE "no")

(* The record is glued to an unfinished line, which it spoils: the two are *)
(* a truncated tail, or with a newline a line for which Load refuses all.  *)
WriteGlued(extent) ==
    /\ Unfinished
    /\ \/ extent = "nothing" /\ UNCHANGED file
       \/ /\ extent \in {"no-newline", "part"}
          /\ FileBecomes([s \in DOMAIN saved \ loose |-> saved[s]], {}, "tail")
       \/ extent = "all" /\ FileBecomes(<< >>, {}, "line")

(* Append.  What follows a line that Load refuses makes no difference. *)
Write(s, v, extent) ==
    \/ WriteLine(s, v, extent)
    \/ WriteGlued(extent)
    \/ broken = "line" /\ UNCHANGED file

(* Mutant: a failed write does not turn checkpointing off. *)
PersistOn(s, v) ==
    /\ \/ storeOn /\ Write(s, v, "all")
       \/ ~storeOn /\ UNCHANGED file
       \/ "write" \in Faults /\ storeOn /\ \E extent \in Extent : Write(s, v, extent)
    /\ UNCHANGED storeOn

(* record appends to the checkpoint; a failed write, of which any part may *)
(* have reached the file, turns it off.  A process that dies in the write  *)
(* leaves the same file, and does nothing after it.                        *)
Persist(s, v) ==
    \/ storeOn /\ Write(s, v, "all") /\ UNCHANGED storeOn
    \/ ~storeOn /\ UNCHANGED <<file, storeOn>>
    \/ /\ "write" \in Faults
       /\ storeOn
       /\ \E extent \in Extent : Write(s, v, extent)
       /\ storeOn' = FALSE

(* record, and eval's return with the trial; a subset that has a trial by  *)
(* now keeps that one.                                                     *)
Record(i, v) ==
    /\ IF Batch[i] \in DOMAIN memo
       THEN UNCHANGED results
       ELSE memo' = Put(memo, Batch[i], v) /\ Persist(Batch[i], v)
    /\ failed' = [failed EXCEPT ![i] = memo'[Batch[i]] = "fail"]
    /\ ReleaseLane(i)
    /\ Return(i)
    /\ UNCHANGED <<stage, outcome, search, fault, batchCtx, stopped, restarts>>

(* The package manager cannot resolve the candidate. *)
InstallRejected(i) ==
    /\ pc[i] = "install"
    /\ "unresolved" \in Verdicts
    /\ Record(i, "unresolved")

Verify(i) ==
    /\ pc[i] = "verify"
    /\ \E v \in Verdicts \ {"unresolved"} : Record(i, v)

(* Mutant: cancels the batch before the error is the first one. *)
StepFailsAndCancels(i) ==
    /\ "step" \in Faults \/ CtxDone
    /\ pc[i] \in {"prepare", "install", "verify"}
    /\ \E e \in IF CtxDone THEN {"interrupted", "step"} ELSE {"step"} :
          fault' = [fault EXCEPT ![i] = e]
    /\ ReleaseLane(i)
    /\ pc' = [pc EXCEPT ![i] = "erred"]
    /\ cancelled' = Parallel
    /\ UNCHANGED <<stage, outcome, search, results, failed, firstErr, stopped, restarts>>

(* git, the installer or the verifier returns an error: its own, or that   *)
(* of the context under which its process was killed.                      *)
StepFails(i) ==
    /\ "step" \in Faults \/ CtxDone
    /\ pc[i] \in {"prepare", "install", "verify"}
    /\ \E e \in IF CtxDone THEN {"interrupted", "step"} ELSE {"step"} :
          fault' = [fault EXCEPT ![i] = e]
    /\ ReleaseLane(i)
    /\ pc' = [pc EXCEPT ![i] = "erred"]
    /\ UNCHANGED <<stage, outcome, search, results, failed, batchCtx, stopped, restarts>>

(* errOnce: the first error is kept and cancels the sibling lanes. *)
Report(i) ==
    /\ pc[i] = "erred"
    /\ firstErr' = IF firstErr = "none" THEN fault[i] ELSE firstErr
    /\ cancelled' = Parallel
    /\ fault' = [fault EXCEPT ![i] = "none"]
    /\ Return(i)
    /\ UNCHANGED <<stage, outcome, search, results, free, tree, lane, failed, stopped,
                   restarts>>

WorkerStep(i) ==
    \/ MemoHit(i) \/ Miss(i) \/ Acquire(i) \/ Interrupted(i)
    \/ Prepare(i) \/ Install(i) \/ InstallRejected(i) \/ Verify(i)
    \/ StepFails(i) \/ Report(i)

---------------------------------------------------------------------------
(* batch returns: each goroutine is done, or the candidate whose turn it   *)
(* was failed or gave an error.                                            *)
BatchOver ==
    /\ Running
    /\ \/ \A i \in DOMAIN Batch : pc[i] = "done"
       \/ /\ ~Parallel
          /\ firstErr # "none" \/ \E i \in DOMAIN Batch : failed[i]

FailedAt == {i \in DOMAIN Batch : failed[i]}

(* Mutant: the failure with the highest index. *)
SelHighest ==
    IF FailedAt = {} THEN 0
    ELSE CHOOSE i \in FailedAt : \A j \in FailedAt : j <= i

(* The lowest-indexed failure; 0 stands for the code's -1. *)
Sel == IF FailedAt = {} THEN 0
       ELSE CHOOSE i \in FailedAt : \A j \in FailedAt : i <= j

NewBatch ==
    /\ pc'     = [i \in Worker |-> "start"]
    /\ lane'   = [i \in Worker |-> 0]
    /\ failed' = [i \in Worker |-> FALSE]
    /\ fault'  = [i \in Worker |-> "none"]
    /\ firstErr' = "none"
    /\ cancelled' = FALSE

(* Mutant: flaky neighbors are taken for passing ones. *)
UncertainOnlyUnresolved ==
    {i \in 1..Len(current) : memo[Without(current, i)] = "unresolved"}

(* The neighbors that leave 1-minimality unproven. *)
Uncertain == {i \in 1..Len(current) : memo[Without(current, i)] \in {"unresolved", "flaky"}}

(* engine.fail: the run ends with an error and the checkpoint is kept. *)
Fail ==
    /\ stage' = "failed"
    /\ UNCHANGED outcome

(* engine.finish: the run ends with an outcome and the checkpoint goes. *)
Finish(o) ==
    /\ stage' = "finished"
    /\ outcome' = o
    /\ FileBecomes(<< >>, {}, "no")

BatchFails ==
    /\ BatchOver
    /\ firstErr # "none"
    /\ Fail
    /\ phase' = IF stage = "search" THEN "aborted" ELSE phase
    /\ UNCHANGED <<current, n, results, free, tree, workers, batchCtx, stopped, restarts>>

(* A baseline that could not be installed is an error, one that does not   *)
(* do what the bisection needs an outcome.                                 *)
BaselineBroken(expected) ==
    LET v == memo[Batch[1]] IN
    /\ BatchOver
    /\ firstErr = "none"
    /\ v # expected
    /\ \/ /\ v = "unresolved"
          /\ Fail
          /\ UNCHANGED file
       \/ /\ v # "unresolved"
          /\ Finish(CASE v = "flaky" -> "inconclusive"
                      [] v = "fail"  -> "failing-at-base"
                      [] v = "pass"  -> "not-reproduced")
    /\ UNCHANGED <<search, memo, storeOn, free, tree, workers, batchCtx, stopped, restarts>>

BaselineOld ==
    /\ stage = "baseline-old"
    /\ \/ BaselineBroken("pass")
       \/ /\ BatchOver
          /\ firstErr = "none"
          /\ memo[Batch[1]] = "pass"
          /\ stage' = "baseline-new"
          /\ NewBatch
          /\ UNCHANGED <<outcome, search, results, free, tree, stopped, restarts>>

BaselineNew ==
    /\ stage = "baseline-new"
    /\ \/ BaselineBroken("fail")
       \/ /\ BatchOver
          /\ firstErr = "none"
          /\ memo[Batch[1]] = "fail"
          /\ stage' = IF phase = "done" THEN "minimality" ELSE "search"
          /\ NewBatch
          /\ UNCHANGED <<outcome, search, results, free, tree, stopped, restarts>>

(* MinimizeBatch goes on with the batch's answer. *)
Minimize ==
    /\ stage = "search"
    /\ BatchOver
    /\ firstErr = "none"
    /\ IF Sel # 0 THEN D!Reduce(Sel) ELSE D!NotReduced
    /\ stage' = IF phase' = "done" THEN "minimality" ELSE "search"
    /\ NewBatch
    /\ UNCHANGED <<outcome, results, free, tree, stopped, restarts>>

(* A neighbor that fails is adopted and checked in turn; without one the   *)
(* neighbors are classified and the run finishes.                          *)
CheckMinimality ==
    /\ stage = "minimality"
    /\ BatchOver
    /\ firstErr = "none"
    /\ IF Sel # 0
       THEN /\ current' = Batch[Sel]
            /\ NewBatch
            /\ UNCHANGED <<stage, outcome, file>>
       ELSE /\ Finish(IF Uncertain = {} THEN "minimal-found" ELSE "inconclusive")
            /\ UNCHANGED <<current, workers, batchCtx>>
    /\ UNCHANGED <<n, phase, memo, storeOn, free, tree, stopped, restarts>>

DriverStep ==
    BatchFails \/ BaselineOld \/ BaselineNew \/ Minimize \/ CheckMinimality

---------------------------------------------------------------------------
(* Ctrl-C or the overall timeout. *)
Stop ==
    /\ "stop" \in Faults
    /\ Running
    /\ ~stopped
    /\ stopped' = TRUE
    /\ UNCHANGED <<stage, outcome, search, results, free, tree, workers, batchCtx, restarts>>

(* What a run begins with. *)
NewProcess ==
    /\ stage # "finished"
    /\ restarts < scenario.restarts
    /\ restarts' = restarts + 1
    /\ outcome' = "none"
    /\ current' = Items
    /\ n' = 2
    /\ phase' = D!LoopFrom(Items)
    /\ storeOn' = TRUE
    /\ free' = Lanes
    /\ tree' = [l \in Lanes |-> {}]
    /\ NewBatch
    /\ stopped' = FALSE

(* Mutant: --resume starts the checkpoint anew. *)
ResumeTruncating ==
    /\ NewProcess
    /\ stage' = "baseline-old"
    /\ memo' = << >>
    /\ FileBecomes(<< >>, {}, "no")

(* The process died or ended with an error, and is run again with          *)
(* --resume: the memo is what Load gives back.                             *)
Resume ==
    /\ broken # "line"
    /\ NewProcess
    /\ stage' = "baseline-old"
    /\ memo' = saved
    /\ UNCHANGED file

(* Load refuses the file: that run ends before its first trial.            *)
ResumeRefused ==
    /\ broken = "line"
    /\ NewProcess
    /\ stage' = "failed"
    /\ memo' = << >>
    /\ UNCHANGED file

RunStep ==
    /\ DriverStep \/ \E i \in Worker : WorkerStep(i)
    /\ UNCHANGED scenario

Terminated == stage \in {"finished", "failed"} /\ UNCHANGED vars

Interference == (Stop \/ Resume \/ ResumeRefused) /\ UNCHANGED scenario

Next == RunStep \/ Interference \/ Terminated

Spec == Init /\ [][Next]_vars

(* Goroutines are scheduled and the commands they start end (by themselves *)
(* or by the timeouts the user set); nothing makes the user stop or resume.*)
FairSpec == Spec /\ WF_vars(RunStep)

---------------------------------------------------------------------------
Holding == {i \in Worker : lane[i] # 0}

(* A lane is held by one evaluation or free, never both, and none is ever  *)
(* lost: the deferred return runs on each way out of eval.                 *)
LanesConserved ==
    /\ \A i, j \in Holding : lane[i] = lane[j] => i = j
    /\ free = Lanes \ {lane[i] : i \in Holding}

(* A verdict is about the candidate it is filed under: what is verified is *)
(* the reset worktree with that candidate's manifest and packages alone,   *)
(* nothing another trial left and nothing a concurrent one wrote.          *)
TrialMeasuresItsSubset ==
    \A i \in Worker : pc[i] = "verify" => tree[lane[i]] = {Batch[i]}

(* No subset is installed or verified twice, be it by two workers at once  *)
(* or after it has a trial, restored ones included.                        *)
NeverEvaluatedTwice ==
    \A i \in Holding :
        /\ Batch[i] \notin DOMAIN memo
        /\ \A j \in Holding : Batch[i] = Batch[j] => i = j

(* batch reports what went wrong, not the cancellation that followed it:   *)
(* an interruption is reported only when the run itself was interrupted.   *)
RootCauseReported == firstErr = "interrupted" => stopped

(* The closing check asks nothing new: ddmin's last batch has decided each *)
(* neighbor, so from then on the run cannot fail, find a smaller set, or   *)
(* need a lane.                                                            *)
MinimalityServedFromMemo ==
    stage = "minimality" =>
        \A i \in DOMAIN Batch : Batch[i] \in DOMAIN memo /\ memo[Batch[i]] # "fail"

(* What the run claims when it says it found a minimal set: the set fails, *)
(* without any change the command passes, and each neighbor was resolved   *)
(* and passed every run it was given.                                      *)
ProvenIsOneMinimal ==
    outcome = "minimal-found" =>
        /\ memo[current] = "fail" /\ memo[Items] = "fail" /\ memo[<< >>] = "pass"
        /\ \A i \in 1..Len(current) : memo[Without(current, i)] = "pass"

(* The file gives back nothing but verdicts of this run, each the one the  *)
(* memo has; and while checkpointing is on it gives back all of them,      *)
(* whatever earlier processes left in it, unless Load refuses it.          *)
CheckpointComplete ==
    /\ stage # "finished" =>
          \A s \in DOMAIN saved : s \in DOMAIN memo /\ memo[s] = saved[s]
    /\ Running /\ storeOn /\ broken # "line" => DOMAIN saved = DOMAIN memo

(* A verdict that the file gives back is never lost or decided anew, across*)
(* crashes, writes cut short and resumes, until the run finishes.  Exempt  *)
(* is one step: a record that is appended behind a line without newline    *)
(* (store.go:54 opens the file and writes at once) spoils that line, and   *)
(* with a newline of its own makes Load refuse the file.                   *)
SavedVerdictsKept ==
    [][stage' # "finished" /\ ~(Unfinished /\ file' # file) =>
          \A s \in DOMAIN saved :
              /\ s \in DOMAIN saved' /\ saved'[s] = saved[s]
              /\ s \in DOMAIN memo' /\ memo'[s] = saved[s]]_vars

(* The run comes to an end whatever fails: no batch waits for ever, for a  *)
(* lane or for a sibling.                                                  *)
RunEnds == <>[](stage \in {"finished", "failed"})

(* However candidates are scheduled over lanes and whatever fails, the run *)
(* of a process is a run of ddmin, which an error aborts; a resumed one is *)
(* a search of its own that starts with what the checkpoint gave back.     *)
NewSearch ==
    /\ restarts' = restarts + 1
    /\ current' = Items
    /\ n' = 2
    /\ phase' = D!LoopFrom(Items)
    /\ \A s \in DOMAIN Known' : s \in DOMAIN Known /\ Known'[s] = Known[s]
RefinesDdmin ==
    /\ D!Init
    /\ [][UNCHANGED D!vars \/ D!Next \/ NewSearch]_vars

(* An error ends the run only when it left the batch undecided.  If the    *)
(* lowest-indexed failure is determined, the sequential executor stops     *)
(* there and never meets the error: "the job count changes only *how fast* *)
(* the search runs, never *what* it finds" (README.md:265).                *)
ErrorLeavesBatchUndecided ==
    BatchOver /\ firstErr = "step" /\ Sel # 0 =>
        \E j \in 1..Sel : Batch[j] \notin DOMAIN memo
=============================================================================
