-------------------------------- MODULE Trial --------------------------------
(***************************************************************************)
(* One trial, from the lane it was given to its verdict or to the message  *)
(* the command line prints: the slow half of executor.eval with            *)
(* Git.ResetWorktree, Installer.Install and Harness.Verify, each a command *)
(* under execx.Local, then engine.fail.                                    *)
(*                                                                         *)
(* A command can exit, hang, be cut off by a timeout, by the cancellation  *)
(* of a context above it, or by the terminal's Ctrl-C, which reaches the   *)
(* command and depbisect independently of each other.  Contexts form a     *)
(* chain, and several of them may end while the command is still dying.    *)
(*                                                                         *)
(* os/exec is external: what Cmd.Run reports is modelled from its          *)
(* documented contract and from how execx configures Cancel and WaitDelay. *)
(* Left out: output capture, durations, the environment of commands.       *)
(***************************************************************************)
EXTENDS Integers, Sequences

CONSTANT Runs   \* Harness.Runs, at least 1 once Verify has defaulted it

ASSUME RunsAssumption == Runs \in Nat \ {0}

(* The chain of contexts: of signal.NotifyContext, of the run with its     *)
(* overall timeout, of the batch with its siblings, of the step with the   *)
(* install or the per-run timeout.                                         *)
Signal == 1
Run    == 2
Batch  == 3
Own    == 4

VARIABLES
    stopOnPass,     \* set for candidates, not for baselines
    limits,         \* the timeouts the user has set
    pip,            \* Install makes a virtual environment first
    task,           \* the command eval is at
    pc,             \* where it is with that command
    child,          \* the command: "running", "asked" to end, "exited"
    waitErr,        \* what Cmd.Run returns for it
    result,         \* what Local.Run returns for it, and later eval
    err,            \* Err() of each context
    runs,           \* Verdict.Runs, with what really happened to each run
    keyed,          \* the user has pressed Ctrl-C
    events,         \* history: what has ended a context
    truth,          \* history: what happened to the current command
    returned        \* the trial's verdict, or the message that ends the run

config == <<stopOnPass, limits, pip>>
process == <<child, waitErr>>
vars == <<config, task, pc, process, result, err, runs, keyed, events, truth, returned>>

(* started: a process was created; cut: what ended its context while it    *)
(* ran; keyed: Ctrl-C reached it while it ran.                             *)
Event == {"signal", "overall", "sibling", "limit"}
Truth == [started : BOOLEAN, cut : SUBSET Event, keyed : BOOLEAN]
Untouched == [started |-> TRUE, cut |-> {}, keyed |-> FALSE]

TypeOK ==
    /\ stopOnPass \in BOOLEAN
    /\ limits \subseteq {"overall", "install", "run"}
    /\ pip \in BOOLEAN
    /\ task \in {"reset", "clean", "write", "venv", "install", "run"}
    /\ pc \in {"start", "wait", "back", "own", "erred", "failing", "done"}
    /\ child \in {"running", "asked", "exited"}
    /\ waitErr \in {"nil", "exit", "context", "delay", "start"}
    /\ result \in {"zero", "nonzero", "canceled", "deadline", "other", "install-timeout"}
    /\ err \in [Signal..Own -> {"nil", "canceled", "deadline"}]
    /\ runs \in Seq([result : {"pass", "fail", "timeout"}, truth : Truth])
    /\ Len(runs) <= Runs
    /\ keyed \in BOOLEAN
    /\ events \subseteq Event
    /\ truth \in Truth
    /\ returned \in {"nothing", "verdict", "unresolved", "interrupted", "bisection-timed-out",
                     "installation-timed-out", "sibling-failed", "error"}

(* The lane is held; its context was live when it was taken. *)
Init ==
    /\ stopOnPass \in BOOLEAN
    /\ limits \in SUBSET {"overall", "install", "run"}
    /\ pip \in BOOLEAN
    /\ task = "reset"
    /\ pc = "start"
    /\ child = "exited"
    /\ waitErr = "nil"
    /\ result = "zero"
    /\ err = [c \in Signal..Own |-> "nil"]
    /\ runs = << >>
    /\ keyed = FALSE
    /\ events = {}
    /\ truth = Untouched
    /\ returned = "nothing"

---------------------------------------------------------------------------
(* Contexts. *)

(* A context that ends ends those below it that have not ended before. *)
End(c, why) == err' = [d \in Signal..Own |-> IF d >= c /\ err[d] = "nil" THEN why ELSE err[d]]

Happens(event) ==
    /\ pc # "done"
    /\ events' = events \cup {event}
    /\ truth' = [truth EXCEPT !.cut = IF child = "exited" THEN @ ELSE @ \cup {event}]
    /\ UNCHANGED <<config, task, pc, process, result, runs, keyed, returned>>

(* signal.NotifyContext has received Ctrl-C, or another terminating signal.*)
SignalArrives ==
    /\ err[Signal] = "nil"
    /\ Happens("signal")
    /\ End(Signal, "canceled")

OverallTimeout ==
    /\ "overall" \in limits
    /\ err[Run] = "nil"
    /\ Happens("overall")
    /\ End(Run, "deadline")

(* A candidate beside this one has reported the first error of the batch;  *)
(* a baseline is alone.                                                    *)
SiblingFails ==
    /\ stopOnPass
    /\ pc # "failing"
    /\ err[Batch] = "nil"
    /\ Happens("sibling")
    /\ End(Batch, "canceled")

(* The install timeout covers the virtual environment and the install, the *)
(* per-run timeout one run.                                                *)
LimitPasses ==
    /\ \/ "install" \in limits /\ task \in {"venv", "install"} /\ pc \in {"start", "wait", "back"}
       \/ "run" \in limits /\ task = "run" /\ pc = "wait"
    /\ err[Own] = "nil"
    /\ Happens("limit")
    /\ End(Own, "deadline")

---------------------------------------------------------------------------
(* The command. *)

(* Ctrl-C: the command is in the terminal's foreground process group, as   *)
(* depbisect is: both get the signal, neither waits for the other.         *)
CtrlC ==
    /\ pc # "done"
    /\ ~keyed
    /\ keyed' = TRUE
    /\ truth' = [truth EXCEPT !.keyed = child # "exited"]
    /\ UNCHANGED <<config, task, pc, process, result, err, runs, events, returned>>

(* cmd.Cancel: the command is sent an interrupt when its context is done. *)
Ask ==
    /\ child = "running"
    /\ err[Own] # "nil"
    /\ child' = "asked"
    /\ UNCHANGED <<config, task, pc, waitErr, result, err, runs, keyed, events, truth, returned>>

(* Mutant: without a WaitDelay nothing kills a command that ignores it. *)
KillNever == child = "asked" /\ FALSE /\ UNCHANGED vars

(* cmd.WaitDelay has passed since. *)
Kill ==
    /\ child = "asked"
    /\ child' = "exited"
    /\ waitErr' = "exit"
    /\ UNCHANGED <<config, task, pc, result, err, runs, keyed, events, truth, returned>>

(* The command exits.  Of an exit with status zero Cmd.Run makes an error  *)
(* if it had asked the command to end, or if a descendant kept the output  *)
(* open for the length of WaitDelay.                                       *)
CommandExits ==
    /\ child # "exited"
    /\ child' = "exited"
    /\ waitErr' \in IF child = "asked" THEN {"exit", "context"} ELSE {"exit", "nil", "delay"}
    /\ UNCHANGED <<config, task, pc, result, err, runs, keyed, events, truth, returned>>

(* Cmd.Start: the command is started, or cannot be (no such program, no    *)
(* permission), and is not when its context is done already.               *)
Start ==
    /\ pc' = "wait"
    /\ \E started \in IF err'[Own] = "nil" THEN BOOLEAN ELSE {FALSE} :
          /\ child'   = IF started THEN "running" ELSE "exited"
          /\ waitErr' = IF started THEN "nil" ELSE "start"
          /\ truth'   = [Untouched EXCEPT !.started = started]
    /\ UNCHANGED <<config, task, result, runs, keyed, events, returned>>

(* Local.Run: a nonzero exit is a result as long as the context is live,   *)
(* anything else Cmd.Run objects to is an error.                           *)
RunResult ==
    CASE waitErr = "nil"                          -> "zero"
      [] waitErr # "nil" /\ err[Own] # "nil"      -> err[Own]
      [] waitErr = "exit" /\ err[Own] = "nil"     -> "nonzero"
      [] OTHER                                    -> "other"

(* Verify then releases the run's own context by calling cancel. *)
RunReturns ==
    /\ pc = "wait"
    /\ child = "exited"
    /\ result' = RunResult
    /\ pc' = "back"
    /\ IF task = "run" /\ "run" \in limits THEN End(Own, "canceled") ELSE UNCHANGED err
    /\ UNCHANGED <<config, task, process, runs, keyed, events, truth, returned>>

---------------------------------------------------------------------------
(* eval, command by command. *)

GoOn(next) ==
    /\ task' = next
    /\ pc' = "start"
    /\ UNCHANGED <<config, process, result, runs, keyed, events, truth, returned>>

(* eval returns an error. *)
Err(what) ==
    /\ pc' = "erred"
    /\ result' = what
    /\ UNCHANGED <<config, task, process, err, runs, keyed, events, truth, returned>>

Return(what) ==
    /\ pc' = "done"
    /\ returned' = what
    /\ UNCHANGED <<config, task, process, result, err, runs, keyed, events, truth>>

(* git, venv and the installer are started whatever the contexts say. *)
StartCommand ==
    /\ pc = "start"
    /\ task \in {"reset", "clean", "venv", "install"}
    /\ UNCHANGED err
    /\ Start

(* Of git, a nonzero exit is an error too. *)
ResetWorktree ==
    /\ pc = "back"
    /\ task \in {"reset", "clean"}
    /\ \/ result = "zero" /\ UNCHANGED err /\ GoOn(IF task = "reset" THEN "clean" ELSE "write")
       \/ result = "nonzero" /\ Err("other")
       \/ result \notin {"zero", "nonzero"} /\ Err(result)

(* The candidate is rendered and written, or cannot be; the context of the *)
(* install starts as the batch's is.                                       *)
WriteManifest ==
    /\ pc = "start"
    /\ task = "write"
    /\ \/ /\ GoOn(IF pip THEN "venv" ELSE "install")
          /\ err' = [err EXCEPT ![Own] = err[Batch]]
       \/ Err("other")

(* Mutant: any deadline is taken for the install's. *)
InstallErrAnyDeadline(e) ==
    IF "install" \in limits /\ err[Own] = "deadline" THEN "install-timeout" ELSE e

(* The error of an install whose own timeout has passed says so. *)
InstallErr(e) ==
    IF "install" \in limits /\ err[Own] = "deadline" /\ err[Batch] # "deadline"
    THEN "install-timeout" ELSE e

(* The virtual environment must be made, or the run fails. *)
MakeVenv ==
    /\ pc = "back"
    /\ task = "venv"
    /\ \/ result = "zero" /\ UNCHANGED err /\ GoOn("install")
       \/ result = "nonzero" /\ Err(InstallErr("other"))
       \/ result \notin {"zero", "nonzero"} /\ Err(InstallErr(result))

(* A nonzero exit of the package manager makes the candidate unresolved. *)
Install ==
    /\ pc = "back"
    /\ task = "install"
    /\ \/ result = "zero" /\ UNCHANGED err /\ GoOn("run")
       \/ result = "nonzero" /\ Return("unresolved")
       \/ result \notin {"zero", "nonzero"} /\ Err(InstallErr(result))

---------------------------------------------------------------------------
(* The loop of Verify. *)

(* Mutants: "i <= runs"; a failure ends the loop instead of a pass. *)
LoopEndsLate ==
    Len(runs) = Runs + 1 \/ (stopOnPass /\ runs # << >> /\ runs[Len(runs)].result = "pass")
LoopEndsOnFailure ==
    Len(runs) = Runs \/ (stopOnPass /\ runs # << >> /\ runs[Len(runs)].result # "pass")

LoopEnds ==
    Len(runs) = Runs \/ (stopOnPass /\ runs # << >> /\ runs[Len(runs)].result = "pass")

AtLoop == task = "run" /\ pc = "start"

EndLoop == AtLoop /\ LoopEnds /\ Return("verdict")

Interrupted == AtLoop /\ ~LoopEnds /\ err[Batch] # "nil" /\ Err(err[Batch])

StartRun ==
    /\ AtLoop
    /\ ~LoopEnds
    /\ err[Batch] = "nil"
    /\ err' = [err EXCEPT ![Own] = "nil"]
    /\ Start

Count(r) ==
    /\ runs' = Append(runs, [result |-> r, truth |-> truth])
    /\ pc' = "start"
    /\ UNCHANGED <<config, task, process, result, err, keyed, events, truth, returned>>

Exited ==
    /\ pc = "back"
    /\ task = "run"
    /\ \/ result = "zero"    /\ Count("pass")
       \/ result = "nonzero" /\ Count("fail")

(* Mutant: the batch's context is not asked, only the run's own. *)
ParentDoneNotAsked == FALSE

ParentDone == err[Batch] # "nil"

(* An error while the caller's context is done is the interruption. *)
CheckParent ==
    /\ pc = "back"
    /\ task = "run"
    /\ result \notin {"zero", "nonzero"}
    /\ \/ ParentDone /\ Err(err[Batch])
       \/ /\ ~ParentDone
          /\ pc' = "own"
          /\ UNCHANGED <<config, task, process, result, err, runs, keyed, events, truth, returned>>

(* Otherwise a done run context makes it a timeout. *)
CheckOwn ==
    /\ pc = "own"
    /\ IF err[Own] # "nil" THEN Count("timeout") ELSE Err(result)

---------------------------------------------------------------------------
(* What becomes of the error. *)

(* errOnce of the batch: the first error cancels the siblings, which may   *)
(* take their time to end.                                                 *)
ReportError ==
    /\ pc = "erred"
    /\ \/ "sibling" \in events /\ Return("sibling-failed")
       \/ /\ "sibling" \notin events
          /\ pc' = "failing"
          /\ UNCHANGED <<config, task, process, result, err, runs, keyed, events, truth, returned>>

(* engine.fail rewrites the error when the overall timeout has passed by   *)
(* now, and the command line tells an interruption from other errors.      *)
EngineFails ==
    /\ pc = "failing"
    /\ Return(CASE err[Run] = "deadline" /\ err[Signal] = "nil" -> "bisection-timed-out"
                [] err[Run] # "deadline" \/ err[Signal] # "nil" ->
                   CASE result = "canceled"        -> "interrupted"
                     [] result = "install-timeout" -> "installation-timed-out"
                     [] OTHER                      -> "error")

Step ==
    \/ StartCommand \/ RunReturns \/ ResetWorktree \/ WriteManifest \/ MakeVenv \/ Install
    \/ EndLoop \/ Interrupted \/ StartRun \/ Exited \/ CheckParent \/ CheckOwn
    \/ ReportError \/ EngineFails
    \/ OverallTimeout \/ LimitPasses \/ Ask \/ Kill

Environment == SignalArrives \/ SiblingFails \/ CtrlC \/ CommandExits

Returned == pc = "done" /\ UNCHANGED vars

Next == Step \/ Environment \/ Returned

(* eval runs, timers expire and the system kills; commands may hang, and   *)
(* nothing makes the user interrupt or a sibling fail.                     *)
Spec == Init /\ [][Next]_vars /\ WF_vars(Step)

---------------------------------------------------------------------------
Failures == {i \in DOMAIN runs : runs[i].result # "pass"}

Classification ==
    CASE Failures = {}          -> "pass"
      [] Failures = DOMAIN runs -> "fail"
      [] OTHER                  -> "flaky"

(* A candidate counts as failing only when each planned run failed: the    *)
(* early stop for candidates never turns a short series into a failure.    *)
FailMeansEveryRunFailed ==
    returned = "verdict" /\ Classification = "fail" =>
        Len(runs) = Runs /\ Failures = 1..Runs

(* A command that was still running when a context above its own timeout   *)
(* ended is no evidence against the candidate: neither a failed run nor a  *)
(* rejected install, whichever of the cancellation, the timeout and the    *)
(* exit is noticed first.                                                  *)
Cut(t) == t.cut \ {"limit"} # {}
CancellationIsNoVerdict ==
    /\ \A i \in DOMAIN runs : Cut(runs[i].truth) => runs[i].result = "pass"
    /\ returned = "unresolved" => truth.cut = {}

(* The message that ends the run names what ended it, through four         *)
(* contexts and three rewritings: Ctrl-C, the overall timeout or the       *)
(* install timeout when it did end a context, and some other error only    *)
(* when it came of the manifest, of a command that was not cut, or when    *)
(* Ctrl-C and the overall timeout came together.                           *)
MessageNamesTheCause ==
    /\ returned = "interrupted" => "signal" \in events
    /\ returned = "bisection-timed-out" => "overall" \in events /\ "signal" \notin events
    /\ returned = "installation-timed-out" => "limit" \in events
    /\ returned = "error" => \/ task = "write"
                             \/ truth.cut = {}
                             \/ {"signal", "overall"} \subseteq events

(* What limits the trial: a context above that has ended or will, or a     *)
(* timeout for each command that is left.                                  *)
Limited ==
    \/ "overall" \in limits
    \/ err[Batch] # "nil"
    \/ task = "run" /\ "run" \in limits
    \/ task \in {"venv", "install"} /\ {"install", "run"} \subseteq limits

(* The trial ends though its commands hang and ignore interrupts, if only  *)
(* something limits it.                                                    *)
TrialEnds == Limited ~> (pc = "done")

(* "Verify must surface the cancellation error, not treat it as a per-run  *)
(* failure" (verify_test.go:266), of a run the user cuts with Ctrl-C.      *)
CtrlCIsNoFailure ==
    \A i \in DOMAIN runs : runs[i].truth.keyed => runs[i].result = "pass"

(* "It returns an error only for fatal conditions (parent cancellation,    *)
(* unrunnable command); ordinary command failures and per-run timeouts are *)
(* part of the Verdict" (verify.go:176).                                   *)
UnrunnableIsNoFailure ==
    \A i \in DOMAIN runs : runs[i].truth.started
=============================================================================
