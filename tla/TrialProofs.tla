----------------------------- MODULE TrialProofs ----------------------------
(***************************************************************************)
(* For every number of runs: a trial fails only if each run failed, a      *)
(* command that was cut off is evidence of nothing, and the message that   *)
(* ends the run names what ended it, in whatever order contexts end,       *)
(* commands die and either is noticed.                                     *)
(***************************************************************************)
EXTENDS Trial, TLAPS

---------------------------------------------------------------------------
(* The inductive invariant, in parts. *)

(* Only while eval waits for a command is there one, and what eval returns *)
(* it returns once.                                                        *)
Sequential ==
    /\ pc # "wait" => child = "exited"
    /\ pc # "done" => returned = "nothing"

(* A context that ended took those below it along, and what it reports is  *)
(* what ended it; only Verify's own cancel leaves no event.                *)
ContextsEnded ==
    /\ err[Signal] # "nil" => err[Run] # "nil"
    /\ err[Run] # "nil" => err[Batch] # "nil"
    /\ err[Batch] # "nil" => err[Own] # "nil"
    /\ err[Signal] # "nil" <=> "signal" \in events
    /\ err[Run] = "deadline" <=> "overall" \in events
    /\ "sibling" \in events => err[Batch] # "nil"
    /\ err[Batch] = "deadline" => "overall" \in events
    /\ err[Batch] = "canceled" => {"signal", "sibling"} \cap events # {}
    /\ err[Own] = "deadline" => err[Batch] = "deadline" \/ "limit" \in events
    /\ err[Own] = "canceled" /\ (task # "run" \/ pc = "wait") =>
          {"signal", "sibling"} \cap events # {}
    /\ "limit" \in events /\ task # "run" =>
          task \in {"venv", "install"} /\ "install" \in limits

(* What ended a context while a command ran shows when the command is      *)
(* waited for.                                                             *)
CutsSeen ==
    /\ truth.cut \subseteq events
    /\ pc = "wait" /\ truth.cut # {} => err[Own] # "nil"
    /\ pc = "back" /\ result = "nonzero" => truth.cut = {}
    /\ pc = "own" => ~Cut(truth)
    /\ CancellationIsNoVerdict

(* An error says what it came of. *)
ErrorsExplained ==
    /\ pc \in {"back", "own"} =>
          /\ result # "install-timeout"
          /\ result \in {"canceled", "deadline"} => err[Own] = result
          /\ result = "canceled" => {"signal", "sibling"} \cap events # {}
          /\ result = "other" => truth.cut = {}
    /\ pc \in {"own", "erred", "failing"} => result \notin {"zero", "nonzero"}
    /\ pc \in {"erred", "failing"} =>
          /\ result = "canceled" => {"signal", "sibling"} \cap events # {}
          /\ result = "deadline" => "overall" \in events
          /\ result = "install-timeout" => "limit" \in events
          /\ result = "other" => task = "write" \/ truth.cut = {}
    /\ pc = "failing" => "sibling" \notin events
    /\ MessageNamesTheCause

(* Verify counts a run only when it planned one. *)
RunsPlanned ==
    /\ task = "run" /\ pc \in {"wait", "back", "own"} => Len(runs) < Runs
    /\ pc = "own" => task = "run"
    /\ returned = "verdict" => LoopEnds

IInv ==
    /\ TypeOK
    /\ Sequential
    /\ ContextsEnded
    /\ CutsSeen
    /\ ErrorsExplained
    /\ RunsPlanned

---------------------------------------------------------------------------
(* What the case distinctions come to. *)

LEMMA RunResultIs ==
    /\ waitErr = "nil" => RunResult = "zero"
    /\ waitErr # "nil" /\ err[Own] # "nil" => RunResult = err[Own]
    /\ waitErr = "exit" /\ err[Own] = "nil" => RunResult = "nonzero"
    /\ waitErr # "nil" /\ waitErr # "exit" /\ err[Own] = "nil" => RunResult = "other"
  BY DEF RunResult

LEMMA EngineFailsWith ==
    ASSUME EngineFails
    PROVE  /\ pc = "failing"
           /\ \/ err[Run] = "deadline" /\ err[Signal] = "nil" /\ Return("bisection-timed-out")
              \/ /\ err[Run] # "deadline" \/ err[Signal] # "nil"
                 /\ \/ result = "canceled" /\ Return("interrupted")
                    \/ result = "install-timeout" /\ Return("installation-timed-out")
                    \/ result \notin {"canceled", "install-timeout"} /\ Return("error")
  <1>1. CASE err[Run] = "deadline" /\ err[Signal] = "nil"
    BY <1>1 DEF EngineFails
  <1>2. CASE err[Run] # "deadline" \/ err[Signal] # "nil"
    <2>1. CASE result = "canceled"
      BY <1>2, <2>1 DEF EngineFails
    <2>2. CASE result = "install-timeout"
      BY <1>2, <2>2 DEF EngineFails
    <2>3. CASE result \notin {"canceled", "install-timeout"}
      <3>1. Return("error")
        BY <1>2, <2>3 DEF EngineFails
      <3> QED BY <1>2, <2>3, <3>1 DEF EngineFails
    <2> QED BY <2>1, <2>2, <2>3
  <1> QED BY <1>1, <1>2

LEMMA ClassifiedFail == Classification = "fail" => Failures = DOMAIN runs
  <1>1. CASE Failures = {} /\ Failures # DOMAIN runs
    BY <1>1 DEF Classification
  <1>2. CASE Failures # {} /\ Failures # DOMAIN runs
    BY <1>2 DEF Classification
  <1> QED BY <1>1, <1>2

(* A step of the commands, of eval, or of what surrounds them. *)
Ends == SignalArrives \/ OverallTimeout \/ SiblingFails \/ LimitPasses

Dies == Ask \/ Kill \/ CommandExits

LEMMA InitIInv == Init => IInv
  <1> SUFFICES ASSUME Init PROVE IInv
    OBVIOUS
  <1>1. Len(<< >>) <= Runs /\ << >> \in Seq([result : {"pass", "fail", "timeout"}, truth : Truth])
    BY RunsAssumption
  <1>2. TypeOK
    BY <1>1 DEF Init, TypeOK, Untouched, Truth, Event
  <1>3. Sequential /\ RunsPlanned
    BY DEF Init, Sequential, RunsPlanned
  <1>4. ContextsEnded
    BY DEF Init, ContextsEnded, Signal, Run, Batch, Own
  <1>5. CutsSeen /\ ErrorsExplained
    BY DEF Init, CutsSeen, ErrorsExplained, CancellationIsNoVerdict, MessageNamesTheCause, Cut,
           Untouched
  <1> QED BY <1>2, <1>3, <1>4, <1>5 DEF IInv

---------------------------------------------------------------------------
(* Types. *)

(* A run that is counted is one of the planned ones. *)
LEMMA CountTypeOK ==
    ASSUME TypeOK, RunsPlanned, task = "run", pc \in {"back", "own"},
           NEW r \in {"pass", "fail", "timeout"}, Count(r)
    PROVE  TypeOK'
  <1>1. runs' = Append(runs, [result |-> r, truth |-> truth])
    BY DEF Count
  <1>2. [result |-> r, truth |-> truth] \in [result : {"pass", "fail", "timeout"}, truth : Truth]
    BY DEF TypeOK
  <1>3. runs' \in Seq([result : {"pass", "fail", "timeout"}, truth : Truth])
    BY <1>1, <1>2 DEF TypeOK
  <1>4. Len(runs') <= Runs
    <2>1. Len(runs') = Len(runs) + 1 /\ Len(runs) < Runs /\ Len(runs) \in Nat
      BY <1>1 DEF TypeOK, RunsPlanned
    <2> QED BY <2>1, RunsAssumption
  <1> QED BY <1>3, <1>4 DEF TypeOK, Count, config, process

(* The ways eval goes on, by type. *)
LEMMA MovesTypeOK ==
    ASSUME TypeOK
    PROVE  /\ \A what \in {"canceled", "deadline", "other", "install-timeout"} :
                 Err(what) => TypeOK'
           /\ \A what \in {"verdict", "unresolved", "interrupted", "bisection-timed-out",
                           "installation-timed-out", "sibling-failed", "error"} :
                 Return(what) => TypeOK'
           /\ \A next \in {"clean", "write", "venv", "install", "run"} :
                 /\ GoOn(next) /\ UNCHANGED err => TypeOK'
                 /\ GoOn(next) /\ err' = [err EXCEPT ![Own] = err[Batch]] => TypeOK'
  <1>1. ASSUME NEW what \in {"canceled", "deadline", "other", "install-timeout"}, Err(what)
        PROVE  TypeOK'
    BY <1>1 DEF TypeOK, Err, config, process
  <1>2. ASSUME NEW what \in {"verdict", "unresolved", "interrupted", "bisection-timed-out",
                             "installation-timed-out", "sibling-failed", "error"}, Return(what)
        PROVE  TypeOK'
    BY <1>2 DEF TypeOK, Return, config, process
  <1>3. ASSUME NEW next \in {"clean", "write", "venv", "install", "run"}, GoOn(next),
               err' \in [Signal..Own -> {"nil", "canceled", "deadline"}]
        PROVE  TypeOK'
    BY <1>3 DEF TypeOK, GoOn, config, process
  <1>4. /\ err \in [Signal..Own -> {"nil", "canceled", "deadline"}]
        /\ [err EXCEPT ![Own] = err[Batch]] \in [Signal..Own -> {"nil", "canceled", "deadline"}]
    BY DEF TypeOK, Signal, Batch, Own
  <1> QED BY <1>1, <1>2, <1>3, <1>4

LEMMA NextTypeOK ==
    ASSUME IInv, Next
    PROVE  TypeOK'
  <1> USE DEF config, process
  <1>1. /\ TypeOK
        /\ result \in {"zero", "nonzero", "canceled", "deadline", "other", "install-timeout"}
        /\ err[Batch] \in {"nil", "canceled", "deadline"}
        /\ err[Own] \in {"nil", "canceled", "deadline"}
    BY DEF IInv, TypeOK, Signal, Batch, Own
  <1>2. CASE Ends
    BY <1>1, <1>2
    DEF TypeOK, Ends, SignalArrives, OverallTimeout, SiblingFails, LimitPasses, Happens, End,
        Truth, Event
  <1>3. CASE CtrlC
    <2>1. truth' \in Truth
      <3>1. truth \in Truth /\ (child # "exited") \in BOOLEAN
        BY <1>1 DEF TypeOK
      <3> QED BY <1>3, <3>1 DEF CtrlC, Truth
    <2>2. keyed' = TRUE /\ UNCHANGED <<config, task, pc, process, result, err, runs, events, returned>>
      BY <1>3 DEF CtrlC
    <2> QED BY <1>1, <2>1, <2>2 DEF TypeOK
  <1>4. CASE Dies
    <2>1. child' \in {"asked", "exited"} /\ waitErr' \in {waitErr, "exit", "context", "nil", "delay"}
      BY <1>4 DEF Dies, Ask, Kill, CommandExits
    <2>2. UNCHANGED <<config, task, pc, result, err, runs, keyed, events, truth, returned>>
      BY <1>4 DEF Dies, Ask, Kill, CommandExits
    <2> QED BY <1>1, <2>1, <2>2 DEF TypeOK
  <1>5. CASE StartCommand \/ StartRun
    <2>1. err' \in [Signal..Own -> {"nil", "canceled", "deadline"}]
      BY <1>1, <1>5 DEF TypeOK, StartCommand, StartRun, Signal, Own
    <2>2. truth' \in Truth /\ child' \in {"running", "exited"} /\ waitErr' \in {"nil", "start"}
      BY <1>5 DEF StartCommand, StartRun, Start, Untouched, Truth
    <2>3. pc' = "wait" /\ UNCHANGED <<config, task, result, runs, keyed, events, returned>>
      BY <1>5 DEF StartCommand, StartRun, Start
    <2> QED BY <1>1, <2>1, <2>2, <2>3 DEF TypeOK
  <1>6. CASE RunReturns
    <2>1. RunResult \in {"zero", "nonzero", "canceled", "deadline", "other"}
      BY <1>1, RunResultIs DEF TypeOK
    <2> QED BY <1>1, <1>6, <2>1 DEF TypeOK, RunReturns, End
  <1>7. CASE ResetWorktree
    BY <1>1, <1>7, MovesTypeOK DEF ResetWorktree
  <1>8. CASE WriteManifest
    BY <1>1, <1>8, MovesTypeOK DEF WriteManifest
  <1>9. CASE MakeVenv
    BY <1>1, <1>9, MovesTypeOK DEF MakeVenv, InstallErr
  <1>10. CASE Install
    BY <1>1, <1>10, MovesTypeOK DEF Install, InstallErr
  <1>11. CASE EndLoop \/ Interrupted
    BY <1>1, <1>11, MovesTypeOK DEF EndLoop, Interrupted
  <1>12. CASE Exited
    BY <1>12, CountTypeOK DEF IInv, Exited
  <1>13. CASE CheckParent
    <2>1. CASE Err(err[Batch]) /\ ParentDone
      BY <1>1, <2>1, MovesTypeOK DEF ParentDone
    <2>2. CASE pc' = "own" /\ UNCHANGED <<config, task, process, result, err, runs, keyed, events,
                                         truth, returned>>
      BY <1>1, <2>2 DEF TypeOK
    <2> QED BY <1>13, <2>1, <2>2 DEF CheckParent
  <1>14. CASE CheckOwn
    <2>1. task = "run" /\ result \notin {"zero", "nonzero"}
      BY <1>14 DEF IInv, CheckOwn, RunsPlanned, ErrorsExplained
    <2>2. CASE Count("timeout")
      BY <1>1, <1>14, <2>1, <2>2, CountTypeOK DEF IInv, CheckOwn
    <2>3. CASE Err(result)
      BY <1>1, <2>1, <2>3, MovesTypeOK
    <2> QED BY <1>14, <2>2, <2>3 DEF CheckOwn
  <1>15. CASE ReportError
    <2>1. CASE Return("sibling-failed")
      BY <1>1, <2>1, MovesTypeOK
    <2>2. CASE pc' = "failing" /\ UNCHANGED <<config, task, process, result, err, runs, keyed,
                                             events, truth, returned>>
      BY <1>1, <2>2 DEF TypeOK
    <2> QED BY <1>15, <2>1, <2>2 DEF ReportError
  <1>16. CASE EngineFails
    BY <1>1, <1>16, EngineFailsWith, MovesTypeOK
  <1>17. CASE Returned
    BY <1>1, <1>17 DEF TypeOK, Returned, vars
  <1> QED BY <1>2, <1>3, <1>4, <1>5, <1>6, <1>7, <1>8, <1>9, <1>10, <1>11, <1>12, <1>13, <1>14,
             <1>15, <1>16, <1>17 DEF Next, Step, Environment, Ends, Dies

---------------------------------------------------------------------------
(* One command at a time, one return. *)

LEMMA NextSequential ==
    ASSUME IInv, Next
    PROVE  Sequential'
  <1>1. (pc # "wait" => child = "exited") /\ (pc # "done" => returned = "nothing")
    BY DEF IInv, Sequential
  <1>2. CASE Ends \/ CtrlC \/ Dies \/ Returned
    BY <1>1, <1>2
    DEF Sequential, Ends, SignalArrives, OverallTimeout, SiblingFails, LimitPasses, Happens,
        CtrlC, Dies, Ask, Kill, CommandExits, Returned, vars, process
  <1>3. CASE StartCommand \/ StartRun \/ RunReturns
    BY <1>1, <1>3 DEF Sequential, StartCommand, StartRun, AtLoop, Start, RunReturns, process
  <1>4. CASE ResetWorktree \/ WriteManifest \/ MakeVenv \/ Install
    BY <1>1, <1>4
    DEF Sequential, ResetWorktree, WriteManifest, MakeVenv, Install, GoOn, Err, Return, process
  <1>5. CASE EndLoop \/ Interrupted \/ Exited \/ CheckParent \/ CheckOwn
    BY <1>1, <1>5
    DEF Sequential, EndLoop, Interrupted, AtLoop, Exited, CheckParent, CheckOwn, Count, Err,
        Return, process
  <1>6. CASE ReportError
    BY <1>1, <1>6 DEF Sequential, ReportError, Return, process
  <1>7. CASE EngineFails
    BY <1>1, <1>7, EngineFailsWith DEF Sequential, Return, process
  <1> QED BY <1>2, <1>3, <1>4, <1>5, <1>6, <1>7 DEF Next, Step, Environment, Ends, Dies

---------------------------------------------------------------------------
(* Contexts. *)

LEMMA EndProperties ==
    ASSUME TypeOK, NEW c \in Signal..Own, NEW why \in {"canceled", "deadline"}, End(c, why)
    PROVE  \A d \in Signal..Own :
              err'[d] = IF d >= c /\ err[d] = "nil" THEN why ELSE err[d]
  BY DEF TypeOK, End

LEMMA EndsContexts ==
    ASSUME IInv, Ends
    PROVE  ContextsEnded'
  <1> USE DEF Signal, Run, Batch, Own
  <1>1. TypeOK /\ ContextsEnded
    BY DEF IInv
  <1>2. UNCHANGED <<task, pc, limits>>
    BY DEF Ends, SignalArrives, OverallTimeout, SiblingFails, LimitPasses, Happens, config
  <1>3. \A c \in 1..4 : err[c] \in {"nil", "canceled", "deadline"}
    BY <1>1 DEF TypeOK
  <1>4. CASE SignalArrives
    <2>1. err[1] = "nil" /\ events' = events \cup {"signal"}
      BY <1>4 DEF SignalArrives, Happens
    <2>2. \A c \in 1..4 : err'[c] = IF err[c] = "nil" THEN "canceled" ELSE err[c]
      BY <1>1, <1>4, EndProperties DEF SignalArrives
    <2> QED BY <1>1, <1>2, <1>3, <2>1, <2>2 DEF ContextsEnded
  <1>5. CASE OverallTimeout
    <2>1. err[2] = "nil" /\ events' = events \cup {"overall"}
      BY <1>5 DEF OverallTimeout, Happens
    <2>2. \A c \in 1..4 : err'[c] = IF c >= 2 /\ err[c] = "nil" THEN "deadline" ELSE err[c]
      BY <1>1, <1>5, EndProperties DEF OverallTimeout
    <2> QED BY <1>1, <1>2, <1>3, <2>1, <2>2 DEF ContextsEnded
  <1>6. CASE SiblingFails
    <2>1. err[3] = "nil" /\ events' = events \cup {"sibling"}
      BY <1>6 DEF SiblingFails, Happens
    <2>2. \A c \in 1..4 : err'[c] = IF c >= 3 /\ err[c] = "nil" THEN "canceled" ELSE err[c]
      BY <1>1, <1>6, EndProperties DEF SiblingFails
    <2> QED BY <1>1, <1>2, <1>3, <2>1, <2>2 DEF ContextsEnded
  <1>7. CASE LimitPasses
    <2>1. /\ err[4] = "nil" /\ events' = events \cup {"limit"}
          /\ task # "run" => task \in {"venv", "install"} /\ "install" \in limits
      BY <1>7 DEF LimitPasses, Happens
    <2>2. \A c \in 1..4 : err'[c] = IF c >= 4 /\ err[c] = "nil" THEN "deadline" ELSE err[c]
      BY <1>1, <1>7, EndProperties DEF LimitPasses
    <2> QED BY <1>1, <1>2, <1>3, <2>1, <2>2 DEF ContextsEnded
  <1> QED BY <1>4, <1>5, <1>6, <1>7 DEF Ends

LEMMA NextContexts ==
    ASSUME IInv, Next
    PROVE  ContextsEnded'
  <1>1. TypeOK /\ ContextsEnded
    BY DEF IInv
  <1>2. CASE Ends
    BY <1>2, EndsContexts
  <1>3. CASE CtrlC \/ Dies \/ Returned
    BY <1>1, <1>3
    DEF ContextsEnded, CtrlC, Dies, Ask, Kill, CommandExits, Returned, vars, config
  <1>4. CASE StartCommand
    BY <1>1, <1>4 DEF ContextsEnded, StartCommand, Start, config
  <1>5. CASE StartRun
    <2>1. /\ err[Batch] = "nil" /\ task = "run"
          /\ err' = [err EXCEPT ![Own] = "nil"]
          /\ UNCHANGED <<events, task, limits>>
      BY <1>5 DEF StartRun, AtLoop, Start, config
    <2>2. err'[Own] = "nil" /\ \A c \in Signal..Batch : err'[c] = err[c]
      BY <1>1, <2>1 DEF TypeOK, Signal, Batch, Own
    <2> QED BY <1>1, <2>1, <2>2 DEF ContextsEnded, Signal, Run, Batch, Own
  <1>6. CASE RunReturns
    <2>1. UNCHANGED <<events, task, limits>> /\ pc' = "back"
      BY <1>6 DEF RunReturns, config
    <2>2. CASE UNCHANGED err
      BY <1>1, <1>6, <2>1, <2>2 DEF ContextsEnded, RunReturns
    <2>3. CASE task = "run" /\ End(Own, "canceled")
      <3>1. \A c \in Signal..Own : err'[c] = IF c >= Own /\ err[c] = "nil" THEN "canceled" ELSE err[c]
        BY <1>1, <2>3, EndProperties DEF Signal, Own
      <3>2. err'[Own] = (IF err[Own] = "nil" THEN "canceled" ELSE err[Own])
            /\ \A c \in Signal..Batch : err'[c] = err[c]
        BY <3>1 DEF Signal, Batch, Own
      <3> QED BY <1>1, <2>1, <2>3, <3>2 DEF ContextsEnded, Signal, Run, Batch, Own
    <2> QED BY <1>6, <2>2, <2>3 DEF RunReturns
  <1>7. CASE WriteManifest
    <2>1. CASE UNCHANGED <<err, events, task, limits>> /\ pc' = "erred"
      BY <1>1, <2>1 DEF ContextsEnded
    <2>2. CASE /\ GoOn(IF pip THEN "venv" ELSE "install")
               /\ err' = [err EXCEPT ![Own] = err[Batch]]
      <3>1. UNCHANGED <<events, limits>> /\ task' \in {"venv", "install"} /\ task = "write"
        BY <1>7, <2>2 DEF GoOn, config, WriteManifest
      <3>2. err'[Own] = err[Batch] /\ \A c \in Signal..Batch : err'[c] = err[c]
        BY <1>1, <2>2 DEF TypeOK, Signal, Batch, Own
      <3> QED BY <1>1, <3>1, <3>2 DEF ContextsEnded, Signal, Run, Batch, Own
    <2> QED BY <1>7, <2>1, <2>2 DEF WriteManifest, Err, config
  <1>8. CASE ResetWorktree \/ MakeVenv \/ Install
    <2>1. UNCHANGED <<err, events, limits>> /\ pc' # "wait"
      BY <1>8 DEF ResetWorktree, MakeVenv, Install, GoOn, Err, Return, config
    <2>2. \/ task' = task \/ task' = "run"
          \/ task' = "install" /\ task = "venv"
          \/ task \in {"reset", "clean"}
      BY <1>8 DEF ResetWorktree, MakeVenv, Install, GoOn, Err, Return
    <2>3. task # "run" /\ pc # "wait"
      BY <1>8 DEF ResetWorktree, MakeVenv, Install
    <2> QED BY <1>1, <2>1, <2>2, <2>3 DEF ContextsEnded
  <1>9. CASE EndLoop \/ Interrupted \/ Exited \/ CheckParent \/ CheckOwn \/ ReportError
    <2>1. UNCHANGED <<err, events, limits, task>> /\ pc' # "wait"
      BY <1>9 DEF EndLoop, Interrupted, Exited, CheckParent, CheckOwn, ReportError, Count, Err,
                  Return, config
    <2> QED BY <1>1, <2>1 DEF ContextsEnded
  <1>10. CASE EngineFails
    <2>1. UNCHANGED <<err, events, limits, task>> /\ pc' # "wait"
      BY <1>10, EngineFailsWith DEF Return, config
    <2> QED BY <1>1, <2>1 DEF ContextsEnded
  <1> QED BY <1>2, <1>3, <1>4, <1>5, <1>6, <1>7, <1>8, <1>9, <1>10
          DEF Next, Step, Environment, Ends, Dies

---------------------------------------------------------------------------
(* What cut a command off. *)

(* While no context above the step's own has ended, nothing else has cut   *)
(* the command.                                                            *)
LEMMA CutByAParent ==
    ASSUME TypeOK, ContextsEnded, truth.cut \subseteq events, err[Batch] = "nil"
    PROVE  ~Cut(truth)
  <1>1. "signal" \notin events /\ "overall" \notin events /\ "sibling" \notin events
    BY DEF ContextsEnded
  <1>2. truth.cut \subseteq {"limit"}
    BY <1>1 DEF TypeOK, Event
  <1> QED BY <1>2 DEF Cut

LEMMA CountCuts ==
    ASSUME TypeOK, CancellationIsNoVerdict, NEW r \in {"pass", "fail", "timeout"}, Count(r),
           r = "pass" \/ ~Cut(truth), returned = "nothing"
    PROVE  CancellationIsNoVerdict'
  <1>1. runs' = Append(runs, [result |-> r, truth |-> truth]) /\ returned' = "nothing"
    BY DEF Count
  <1>2. /\ DOMAIN runs' = 1..(Len(runs) + 1) /\ DOMAIN runs = 1..Len(runs) /\ Len(runs) \in Nat
        /\ \A i \in 1..Len(runs) : runs'[i] = runs[i]
        /\ runs'[Len(runs) + 1] = [result |-> r, truth |-> truth]
    BY <1>1 DEF TypeOK
  <1>3. ASSUME NEW i \in DOMAIN runs', Cut(runs'[i].truth)
        PROVE  runs'[i].result = "pass"
    <2>1. CASE i \in 1..Len(runs)
      BY <1>2, <1>3, <2>1 DEF CancellationIsNoVerdict
    <2>2. CASE i = Len(runs) + 1
      <3>1. runs'[i].truth = truth /\ runs'[i].result = r
        BY <1>2, <2>2
      <3>2. Cut(truth)
        BY <1>3, <3>1
      <3> QED BY <3>1, <3>2
    <2> QED BY <1>2, <1>3, <2>1, <2>2
  <1> QED BY <1>1, <1>3 DEF CancellationIsNoVerdict, Cut

(* What neither counts a run nor returns leaves the verdicts alone. *)
LEMMA SameVerdicts ==
    ASSUME CancellationIsNoVerdict, UNCHANGED runs,
           returned' = "unresolved" => truth'.cut = {}
    PROVE  CancellationIsNoVerdict'
  BY DEF CancellationIsNoVerdict, Cut

LEMMA EndsCuts ==
    ASSUME IInv, Ends
    PROVE  CutsSeen'
  <1>1. TypeOK /\ Sequential /\ CutsSeen /\ ContextsEnded
    BY DEF IInv
  <1>2. /\ UNCHANGED <<pc, result, runs, returned>>
        /\ pc # "done"
        /\ \E event \in Event :
              /\ events' = events \cup {event}
              /\ truth' = [truth EXCEPT !.cut = IF child = "exited" THEN @ ELSE @ \cup {event}]
    BY DEF Ends, SignalArrives, OverallTimeout, SiblingFails, LimitPasses, Happens, Event
  <1>3. err'[Own] # "nil"
    <2>1. CASE SignalArrives
      BY <1>1, <2>1, EndProperties DEF SignalArrives, Signal, Own
    <2>2. CASE OverallTimeout
      BY <1>1, <2>2, EndProperties DEF OverallTimeout, Run, Own, Signal
    <2>3. CASE SiblingFails
      BY <1>1, <2>3, EndProperties DEF SiblingFails, Batch, Own, Signal
    <2>4. CASE LimitPasses
      BY <1>1, <2>4, EndProperties DEF LimitPasses, Own, Signal
    <2> QED BY <2>1, <2>2, <2>3, <2>4 DEF Ends
  <1>4. truth'.cut \subseteq events' /\ (child = "exited" => truth'.cut = truth.cut)
    BY <1>1, <1>2 DEF CutsSeen, TypeOK, Truth
  <1>5. CancellationIsNoVerdict'
    BY <1>1, <1>2, SameVerdicts DEF CutsSeen, Sequential
  <1>6. pc' \in {"back", "own"} => truth'.cut = truth.cut
    BY <1>1, <1>2, <1>4 DEF Sequential
  <1> QED BY <1>1, <1>2, <1>3, <1>4, <1>5, <1>6 DEF CutsSeen, Cut

LEMMA NextCuts ==
    ASSUME IInv, Next
    PROVE  CutsSeen'
  <1>1. TypeOK /\ Sequential /\ ContextsEnded /\ CutsSeen /\ RunsPlanned /\ CancellationIsNoVerdict
    BY DEF IInv, CutsSeen
  <1>2. CASE Ends
    BY <1>2, EndsCuts
  <1>3. CASE CtrlC
    <2>1. UNCHANGED <<pc, result, err, runs, events, returned>> /\ truth'.cut = truth.cut
      BY <1>1, <1>3 DEF CtrlC, TypeOK, Truth
    <2>2. CancellationIsNoVerdict'
      BY <1>1, <2>1, SameVerdicts DEF CancellationIsNoVerdict
    <2> QED BY <1>1, <2>1, <2>2 DEF CutsSeen, Cut
  <1>4. CASE Dies \/ Returned
    <2>1. UNCHANGED <<pc, result, err, runs, events, truth, returned>>
      BY <1>4 DEF Dies, Ask, Kill, CommandExits, Returned, vars
    <2>2. CancellationIsNoVerdict'
      BY <1>1, <2>1, SameVerdicts DEF CancellationIsNoVerdict
    <2> QED BY <1>1, <2>1, <2>2 DEF CutsSeen, Cut
  <1>5. CASE StartCommand \/ StartRun
    <2>1. pc' = "wait" /\ pc = "start" /\ UNCHANGED <<events, runs, returned>> /\ truth'.cut = {}
      BY <1>5 DEF StartCommand, StartRun, AtLoop, Start, Untouched
    <2>2. CancellationIsNoVerdict'
      BY <1>1, <2>1, SameVerdicts
    <2> QED BY <2>1, <2>2 DEF CutsSeen
  <1>6. CASE RunReturns
    <2>1. /\ pc = "wait" /\ pc' = "back" /\ result' = RunResult
          /\ UNCHANGED <<events, runs, returned, truth>>
      BY <1>6 DEF RunReturns
    <2>2. result' = "nonzero" => err[Own] = "nil"
      BY <1>1, <2>1, RunResultIs DEF TypeOK, Own, Signal
    <2>3. CancellationIsNoVerdict'
      BY <1>1, <2>1, SameVerdicts DEF CancellationIsNoVerdict
    <2> QED BY <1>1, <2>1, <2>2, <2>3 DEF CutsSeen
  <1>7. CASE ResetWorktree \/ WriteManifest \/ MakeVenv \/ EndLoop \/ Interrupted \/ ReportError
    <2>1. /\ pc' \in {"start", "erred", "failing", "done"} /\ UNCHANGED <<events, runs, truth>>
          /\ returned' = returned \/ returned' # "unresolved"
      BY <1>7 DEF ResetWorktree, WriteManifest, MakeVenv, EndLoop, Interrupted, AtLoop,
                  ReportError, GoOn, Err, Return
    <2>2. CancellationIsNoVerdict'
      BY <1>1, <2>1, SameVerdicts DEF CancellationIsNoVerdict
    <2> QED BY <1>1, <2>1, <2>2 DEF CutsSeen
  <1>8. CASE Install
    <2>1. /\ pc' \in {"start", "erred", "done"} /\ UNCHANGED <<events, runs, truth>>
          /\ returned' = returned \/ (returned' = "unresolved" /\ truth.cut = {})
      BY <1>1, <1>8 DEF Install, GoOn, Err, Return, CutsSeen
    <2>2. CancellationIsNoVerdict'
      BY <1>1, <2>1, SameVerdicts DEF CancellationIsNoVerdict
    <2> QED BY <1>1, <2>1, <2>2 DEF CutsSeen
  <1>9. CASE Exited
    <2>1. /\ pc = "back" /\ returned = "nothing"
          /\ Count("pass") \/ (Count("fail") /\ result = "nonzero")
      BY <1>1, <1>9 DEF Exited, Sequential
    <2>2. result = "nonzero" => ~Cut(truth)
      BY <1>1, <2>1 DEF CutsSeen, Cut
    <2>3. CancellationIsNoVerdict'
      BY <1>1, <2>1, <2>2, CountCuts
    <2> QED BY <1>1, <2>1, <2>3 DEF CutsSeen, Count
  <1>10. CASE CheckParent
    <2>1. CASE Err(err[Batch])
      <3>1. CancellationIsNoVerdict'
        BY <1>1, <2>1, SameVerdicts DEF Err, CancellationIsNoVerdict
      <3> QED BY <1>1, <2>1, <3>1 DEF CutsSeen, Err
    <2>2. CASE ~ParentDone
      <3>1. pc' \in {"own", "erred"} /\ UNCHANGED <<runs, events, truth, returned>>
        BY <1>10 DEF CheckParent, Err
      <3>2. ~Cut(truth)
        BY <1>1, <2>2, CutByAParent DEF ParentDone, CutsSeen
      <3>3. CancellationIsNoVerdict'
        BY <1>1, <3>1, SameVerdicts DEF CancellationIsNoVerdict
      <3> QED BY <1>1, <3>1, <3>2, <3>3 DEF CutsSeen, Cut
    <2> QED BY <1>10, <2>1, <2>2 DEF CheckParent
  <1>11. CASE CheckOwn
    <2>1. CASE Count("timeout")
      <3>1. ~Cut(truth) /\ returned = "nothing"
        BY <1>1, <1>11 DEF CutsSeen, CheckOwn, Sequential
      <3>2. CancellationIsNoVerdict'
        BY <1>1, <2>1, <3>1, CountCuts
      <3> QED BY <1>1, <2>1, <3>2 DEF CutsSeen, Count
    <2>2. CASE Err(result)
      <3>1. CancellationIsNoVerdict'
        BY <1>1, <2>2, SameVerdicts DEF Err, CancellationIsNoVerdict
      <3> QED BY <1>1, <2>2, <3>1 DEF CutsSeen, Err
    <2> QED BY <1>11, <2>1, <2>2 DEF CheckOwn
  <1>12. CASE EngineFails
    <2>1. /\ pc' = "done" /\ UNCHANGED <<runs, events, truth>> /\ returned' # "unresolved"
      BY <1>12, EngineFailsWith DEF Return
    <2>2. CancellationIsNoVerdict'
      BY <1>1, <2>1, SameVerdicts
    <2> QED BY <1>1, <2>1, <2>2 DEF CutsSeen
  <1> QED BY <1>2, <1>3, <1>4, <1>5, <1>6, <1>7, <1>8, <1>9, <1>10, <1>11, <1>12
          DEF Next, Step, Environment, Ends, Dies

---------------------------------------------------------------------------
(* What an error came of. *)

(* What the install's own timeout ended is told from what ended above it. *)
LEMMA InstallErrIs ==
    ASSUME IInv, task \in {"venv", "install"}, pc = "back",
           NEW e \in {"canceled", "deadline", "other"}, e \in {"canceled", "deadline"} => e = result
    PROVE  /\ InstallErr(e) \in {e, "install-timeout"}
           /\ InstallErr(e) = "install-timeout" => "limit" \in events
           /\ InstallErr(e) = "deadline" => "overall" \in events
           /\ InstallErr(e) = "canceled" => {"signal", "sibling"} \cap events # {}
  <1>1. /\ err[Own] = "deadline" => err[Batch] = "deadline" \/ "limit" \in events
        /\ "limit" \in events => "install" \in limits
        /\ err[Batch] = "deadline" => "overall" \in events
    BY DEF IInv, ContextsEnded
  <1>2. /\ e \in {"canceled", "deadline"} => err[Own] = e
        /\ e = "canceled" => {"signal", "sibling"} \cap events # {}
    BY DEF IInv, ErrorsExplained
  <1>3. CASE "install" \in limits /\ err[Own] = "deadline" /\ err[Batch] # "deadline"
    BY <1>1, <1>3 DEF InstallErr
  <1>4. CASE ~("install" \in limits /\ err[Own] = "deadline" /\ err[Batch] # "deadline")
    <2>1. InstallErr(e) = e
      BY <1>4 DEF InstallErr
    <2> QED BY <1>1, <1>2, <1>4, <2>1
  <1> QED BY <1>3, <1>4

(* An error of one of the kinds that is explained. *)
LEMMA ErrExplained ==
    ASSUME IInv, pc # "done", NEW what, Err(what), what \notin {"zero", "nonzero"},
           what = "canceled" => {"signal", "sibling"} \cap events # {},
           what = "deadline" => "overall" \in events,
           what = "install-timeout" => "limit" \in events,
           what = "other" => task = "write" \/ truth.cut = {}
    PROVE  ErrorsExplained'
  <1>1. returned = "nothing"
    BY DEF IInv, Sequential
  <1> QED BY <1>1 DEF Err, ErrorsExplained, MessageNamesTheCause

(* So is everything after a step that leaves no error behind. *)
LEMMA NoErrorLeft ==
    ASSUME pc' \in {"start", "wait", "done"},
           returned' \in {"nothing", "verdict", "unresolved", "sibling-failed"}
    PROVE  ErrorsExplained'
  BY DEF ErrorsExplained, MessageNamesTheCause

LEMMA NextErrors ==
    ASSUME IInv, Next
    PROVE  ErrorsExplained'
  <1>1. /\ TypeOK /\ Sequential /\ ContextsEnded /\ CutsSeen /\ ErrorsExplained /\ RunsPlanned
        /\ result \in {"zero", "nonzero", "canceled", "deadline", "other", "install-timeout"}
        /\ err[Own] \in {"nil", "canceled", "deadline"}
        /\ err[Batch] \in {"nil", "canceled", "deadline"}
    BY DEF IInv, TypeOK, Signal, Batch, Own
  <1>2. CASE Ends
    <2>1. /\ UNCHANGED <<pc, result, task, returned>> /\ pc # "done"
          /\ events \subseteq events'
          /\ child = "exited" => truth'.cut = truth.cut
      BY <1>1, <1>2
      DEF TypeOK, Truth, Ends, SignalArrives, OverallTimeout, SiblingFails, LimitPasses, Happens
    <2>2. err[Own] # "nil" => err'[Own] = err[Own]
      <3>1. PICK c \in Signal..Own, why \in {"canceled", "deadline"} : End(c, why)
        BY <1>2 DEF Ends, SignalArrives, OverallTimeout, SiblingFails, LimitPasses,
                    Signal, Run, Batch, Own
      <3> QED BY <1>1, <3>1, EndProperties DEF Signal, Own
    <2>3. pc = "failing" => "sibling" \notin events'
      BY <1>1, <1>2
      DEF ErrorsExplained, Ends, SignalArrives, OverallTimeout, SiblingFails, LimitPasses, Happens
    <2>4. MessageNamesTheCause'
      BY <1>1, <2>1 DEF Sequential, MessageNamesTheCause
    <2>5. pc \in {"back", "own", "erred", "failing"} => truth'.cut = truth.cut
      BY <1>1, <2>1 DEF Sequential
    <2>6. result \in {"canceled", "deadline"} /\ pc \in {"back", "own"} => err'[Own] = result
      BY <1>1, <2>2 DEF ErrorsExplained
    <2> QED BY <1>1, <2>1, <2>3, <2>4, <2>5, <2>6 DEF ErrorsExplained
  <1>3. CASE CtrlC
    <2>1. UNCHANGED <<pc, result, err, task, events, returned>> /\ truth'.cut = truth.cut
      BY <1>1, <1>3 DEF CtrlC, TypeOK, Truth
    <2> QED BY <1>1, <2>1 DEF ErrorsExplained, MessageNamesTheCause
  <1>4. CASE Dies \/ Returned
    BY <1>1, <1>4 DEF Dies, Ask, Kill, CommandExits, Returned, vars, ErrorsExplained,
                      MessageNamesTheCause
  <1>5. CASE StartCommand \/ StartRun
    BY <1>1, <1>5, NoErrorLeft DEF StartCommand, StartRun, AtLoop, Start, Sequential
  <1>6. CASE RunReturns
    <2>1. /\ pc = "wait" /\ pc' = "back" /\ result' = RunResult /\ returned' = "nothing"
          /\ UNCHANGED <<events, truth, task>>
      BY <1>1, <1>6 DEF RunReturns, Sequential
    <2>2. \/ RunResult \in {"zero", "nonzero"}
          \/ RunResult = err[Own] /\ err[Own] # "nil"
          \/ RunResult = "other" /\ err[Own] = "nil"
      BY RunResultIs
    <2>3. err[Own] # "nil" => err'[Own] = err[Own]
      BY <1>1, <1>6, EndProperties DEF RunReturns, Signal, Own
    <2>4. err[Own] = "canceled" => {"signal", "sibling"} \cap events # {}
      BY <1>1, <2>1 DEF ContextsEnded
    <2>5. err[Own] = "nil" => truth.cut = {}
      BY <1>1, <2>1 DEF CutsSeen
    <2> QED BY <1>1, <2>1, <2>2, <2>3, <2>4, <2>5 DEF ErrorsExplained, MessageNamesTheCause
  <1>7. CASE ResetWorktree
    <2>1. pc = "back" /\ task \in {"reset", "clean"}
      BY <1>7 DEF ResetWorktree
    <2>2. CASE result = "zero" /\ GoOn(IF task = "reset" THEN "clean" ELSE "write")
      BY <1>1, <2>1, <2>2, NoErrorLeft DEF GoOn, Sequential
    <2>3. CASE result = "nonzero" /\ Err("other")
      <3>1. truth.cut = {}
        BY <1>1, <2>1, <2>3 DEF CutsSeen
      <3> QED BY <2>1, <2>3, <3>1, ErrExplained
    <2>4. CASE result \notin {"zero", "nonzero"} /\ Err(result)
      <3>1. /\ result = "deadline" => "overall" \in events
            /\ result = "canceled" => {"signal", "sibling"} \cap events # {}
            /\ result # "install-timeout"
            /\ result = "other" => truth.cut = {}
        BY <1>1, <2>1 DEF ErrorsExplained, ContextsEnded
      <3> QED BY <2>1, <2>4, <3>1, ErrExplained
    <2> QED BY <1>7, <2>2, <2>3, <2>4 DEF ResetWorktree
  <1>8. CASE WriteManifest
    <2>1. pc = "start" /\ task = "write"
      BY <1>8 DEF WriteManifest
    <2>2. CASE GoOn(IF pip THEN "venv" ELSE "install")
      BY <1>1, <2>1, <2>2, NoErrorLeft DEF GoOn, Sequential
    <2>3. CASE Err("other")
      BY <2>1, <2>3, ErrExplained
    <2> QED BY <1>8, <2>2, <2>3 DEF WriteManifest
  <1>9. CASE MakeVenv \/ Install
    <2>1. pc = "back" /\ task \in {"venv", "install"} /\ returned = "nothing"
      BY <1>1, <1>9 DEF MakeVenv, Install, Sequential
    <2>2. CASE GoOn("install") \/ GoOn("run") \/ Return("unresolved")
      BY <2>1, <2>2, NoErrorLeft DEF GoOn, Return
    <2>3. CASE result = "nonzero" /\ Err(InstallErr("other"))
      <3>1. truth.cut = {}
        BY <1>1, <2>1, <2>3 DEF CutsSeen
      <3>2. /\ InstallErr("other") \in {"other", "install-timeout"}
            /\ InstallErr("other") = "install-timeout" => "limit" \in events
        BY <2>1, InstallErrIs
      <3> QED BY <2>1, <2>3, <3>1, <3>2, ErrExplained
    <2>4. CASE result \notin {"zero", "nonzero"} /\ Err(InstallErr(result))
      <3>1. result \in {"canceled", "deadline", "other"} /\ (result = "other" => truth.cut = {})
        BY <1>1, <2>1, <2>4 DEF ErrorsExplained
      <3>2. /\ InstallErr(result) \in {result, "install-timeout"}
            /\ InstallErr(result) = "install-timeout" => "limit" \in events
            /\ InstallErr(result) = "deadline" => "overall" \in events
            /\ InstallErr(result) = "canceled" => {"signal", "sibling"} \cap events # {}
        BY <2>1, <3>1, InstallErrIs
      <3> QED BY <2>1, <2>4, <3>1, <3>2, ErrExplained
    <2> QED BY <1>9, <2>2, <2>3, <2>4 DEF MakeVenv, Install
  <1>10. CASE EndLoop
    BY <1>10, NoErrorLeft DEF EndLoop, Return
  <1>11. CASE Interrupted \/ (CheckParent /\ Err(err[Batch]) /\ err[Batch] # "nil")
    <2>1. Err(err[Batch]) /\ err[Batch] \in {"canceled", "deadline"} /\ pc # "done"
      BY <1>1, <1>11 DEF Interrupted, AtLoop, CheckParent
    <2>2. /\ err[Batch] = "canceled" => {"signal", "sibling"} \cap events # {}
          /\ err[Batch] = "deadline" => "overall" \in events
      BY <1>1 DEF ContextsEnded
    <2> QED BY <2>1, <2>2, ErrExplained
  <1>12. CASE Exited
    BY <1>1, <1>12, NoErrorLeft DEF Exited, Count, Sequential
  <1>13. CASE /\ CheckParent /\ pc' = "own"
              /\ UNCHANGED <<config, task, process, result, err, runs, keyed, events, truth, returned>>
    <2>1. pc = "back" /\ result \notin {"zero", "nonzero"}
      BY <1>13 DEF CheckParent
    <2> QED BY <1>1, <1>13, <2>1 DEF ErrorsExplained, MessageNamesTheCause
  <1>14. CASE CheckOwn
    <2>1. CASE Count("timeout")
      BY <1>1, <1>14, <2>1, NoErrorLeft DEF Count, CheckOwn, Sequential
    <2>2. CASE err[Own] = "nil" /\ Err(result)
      <3>1. pc = "own" /\ result = "other" /\ truth.cut = {}
        BY <1>1, <1>14, <2>2 DEF CheckOwn, ErrorsExplained
      <3> QED BY <2>2, <3>1, ErrExplained
    <2> QED BY <1>14, <2>1, <2>2 DEF CheckOwn
  <1>15. CASE ReportError
    <2>1. CASE Return("sibling-failed")
      BY <2>1, NoErrorLeft DEF Return
    <2>2. CASE /\ "sibling" \notin events /\ pc' = "failing"
               /\ UNCHANGED <<config, task, process, result, err, runs, keyed, events, truth, returned>>
      BY <1>1, <1>15, <2>2 DEF ReportError, ErrorsExplained, MessageNamesTheCause
    <2> QED BY <1>15, <2>1, <2>2 DEF ReportError
  <1>16. CASE EngineFails
    <2>1. /\ pc = "failing" /\ pc' = "done" /\ UNCHANGED <<result, task, events, truth>>
      BY <1>16, EngineFailsWith DEF Return
    <2>2. /\ "sibling" \notin events
          /\ result \notin {"zero", "nonzero"}
          /\ result = "canceled" => {"signal", "sibling"} \cap events # {}
          /\ result = "deadline" => "overall" \in events
          /\ result = "install-timeout" => "limit" \in events
          /\ result = "other" => task = "write" \/ truth.cut = {}
      BY <1>1, <2>1 DEF ErrorsExplained
    <2>3. /\ err[Signal] # "nil" <=> "signal" \in events
          /\ err[Run] = "deadline" <=> "overall" \in events
      BY <1>1 DEF ContextsEnded
    <2>4. CASE err[Run] = "deadline" /\ err[Signal] = "nil" /\ Return("bisection-timed-out")
      BY <2>1, <2>3, <2>4 DEF Return, ErrorsExplained, MessageNamesTheCause
    <2>5. CASE result = "canceled" /\ Return("interrupted")
      BY <2>1, <2>2, <2>5 DEF Return, ErrorsExplained, MessageNamesTheCause
    <2>6. CASE result = "install-timeout" /\ Return("installation-timed-out")
      BY <2>1, <2>2, <2>6 DEF Return, ErrorsExplained, MessageNamesTheCause
    <2>7. CASE /\ err[Run] # "deadline" \/ err[Signal] # "nil"
               /\ result \notin {"canceled", "install-timeout"} /\ Return("error")
      <3>1. result \in {"deadline", "other"}
        BY <1>1, <2>2, <2>7
      <3>2. result = "deadline" => {"signal", "overall"} \subseteq events
        BY <2>2, <2>3, <2>7
      <3> QED BY <2>1, <2>2, <2>7, <3>1, <3>2 DEF Return, ErrorsExplained, MessageNamesTheCause
    <2> QED BY <1>16, <2>4, <2>5, <2>6, <2>7, EngineFailsWith
  <1> QED BY <1>2, <1>3, <1>4, <1>5, <1>6, <1>7, <1>8, <1>9, <1>10, <1>11, <1>12, <1>13, <1>14,
             <1>15, <1>16 DEF Next, Step, Environment, Ends, Dies, CheckParent, ParentDone

---------------------------------------------------------------------------
(* The loop of Verify. *)

LEMMA NextRunsPlanned ==
    ASSUME IInv, Next
    PROVE  RunsPlanned'
  <1>1. TypeOK /\ Sequential /\ RunsPlanned
    BY DEF IInv
  <1>2. CASE Ends \/ CtrlC \/ Dies \/ Returned
    <2>1. UNCHANGED <<task, pc, runs, returned, stopOnPass>>
      BY <1>2 DEF Ends, SignalArrives, OverallTimeout, SiblingFails, LimitPasses, Happens,
                  CtrlC, Dies, Ask, Kill, CommandExits, Returned, vars, config
    <2> QED BY <1>1, <2>1 DEF RunsPlanned, LoopEnds
  <1>3. CASE StartCommand \/ ResetWorktree \/ WriteManifest \/ MakeVenv
    <2>1. /\ task # "run" /\ pc \in {"start", "back"}
          /\ (pc' \in {"wait", "erred"} /\ task' = task) \/ pc' = "start"
          /\ UNCHANGED <<runs, returned>>
      BY <1>3 DEF StartCommand, Start, ResetWorktree, WriteManifest, MakeVenv, GoOn, Err
    <2> QED BY <1>1, <2>1 DEF RunsPlanned, Sequential
  <1>4. CASE Install
    <2>1. /\ pc = "back" /\ pc' \in {"start", "erred", "done"} /\ UNCHANGED runs
          /\ returned' = returned \/ returned' = "unresolved"
      BY <1>4 DEF Install, GoOn, Err, Return
    <2> QED BY <1>1, <2>1 DEF RunsPlanned, Sequential
  <1>5. CASE RunReturns
    BY <1>1, <1>5 DEF RunsPlanned, RunReturns, Sequential
  <1>6. CASE EndLoop
    <2>1. LoopEnds /\ UNCHANGED <<runs, stopOnPass>> /\ pc' = "done"
      BY <1>6 DEF EndLoop, Return, config
    <2> QED BY <2>1 DEF RunsPlanned, LoopEnds
  <1>7. CASE Interrupted
    BY <1>1, <1>7 DEF Interrupted, AtLoop, Err, RunsPlanned, Sequential
  <1>8. CASE StartRun
    <2>1. Len(runs) # Runs /\ Len(runs) <= Runs /\ Len(runs) \in Nat
      BY <1>1, <1>8 DEF StartRun, LoopEnds, TypeOK
    <2>2. Len(runs) < Runs
      BY <2>1, RunsAssumption
    <2> QED BY <1>1, <1>8, <2>2 DEF StartRun, AtLoop, Start, RunsPlanned, Sequential
  <1>9. CASE Exited \/ CheckOwn
    <2>1. pc # "done" /\ pc' \in {"start", "erred"} /\ UNCHANGED returned
      BY <1>9 DEF Exited, CheckOwn, Count, Err
    <2> QED BY <1>1, <2>1 DEF RunsPlanned, Sequential
  <1>10. CASE CheckParent
    <2>1. pc = "back" /\ task = "run" /\ pc' \in {"own", "erred"} /\ UNCHANGED <<returned, task, runs>>
      BY <1>10 DEF CheckParent, Err
    <2> QED BY <1>1, <2>1 DEF RunsPlanned, Sequential
  <1>11. CASE ReportError
    <2>1. pc # "done" /\ pc' \in {"done", "failing"} /\ returned' \in {returned, "sibling-failed"}
      BY <1>11 DEF ReportError, Return
    <2> QED BY <1>1, <2>1 DEF RunsPlanned, Sequential
  <1>12. CASE EngineFails
    BY <1>12, EngineFailsWith DEF RunsPlanned, Return
  <1> QED BY <1>2, <1>3, <1>4, <1>5, <1>6, <1>7, <1>8, <1>9, <1>10, <1>11, <1>12
          DEF Next, Step, Environment, Ends, Dies

---------------------------------------------------------------------------
(* The invariant. *)

LEMMA StutterIInv ==
    ASSUME IInv, UNCHANGED vars
    PROVE  IInv'
  <1>1. Returned \/ pc # "done"
    BY DEF Returned
  <1> USE DEF vars, config, process
  <1>2. TypeOK' /\ Sequential' /\ ContextsEnded'
    BY DEF IInv, TypeOK, Sequential, ContextsEnded
  <1>3. CutsSeen' /\ ErrorsExplained'
    BY DEF IInv, CutsSeen, Cut, CancellationIsNoVerdict, ErrorsExplained, MessageNamesTheCause
  <1>4. RunsPlanned'
    BY DEF IInv, RunsPlanned, LoopEnds
  <1> QED BY <1>2, <1>3, <1>4 DEF IInv

LEMMA NextIInv == IInv /\ [Next]_vars => IInv'
  <1>1. ASSUME IInv, Next PROVE IInv'
    BY <1>1, NextTypeOK, NextSequential, NextContexts, NextCuts, NextErrors, NextRunsPlanned
    DEF IInv
  <1> QED BY <1>1, StutterIInv

(* The parts of the invariant hold in every state of every trial. *)
THEOREM Invariance == Spec => []IInv
  <1>1. Init => IInv
    BY InitIInv
  <1>2. IInv /\ [Next]_vars => IInv'
    BY NextIInv
  <1> QED BY <1>1, <1>2, PTL DEF Spec

(* Every variable keeps to its type, and no trial has more runs than were  *)
(* planned.                                                                *)
THEOREM TypeCorrect == Spec => []TypeOK
  <1>1. IInv => TypeOK
    BY DEF IInv
  <1> QED BY <1>1, Invariance, PTL

(* A candidate counts as failing only when each planned run failed: if     *)
(* Verify has stopped early, the last run passed.                          *)
THEOREM VerdictCorrect == Spec => []FailMeansEveryRunFailed
  <1>1. IInv => FailMeansEveryRunFailed
    <2> SUFFICES ASSUME IInv, returned = "verdict", Classification = "fail"
                 PROVE  Len(runs) = Runs /\ Failures = 1..Runs
      BY DEF FailMeansEveryRunFailed
    <2>1. Failures = DOMAIN runs /\ DOMAIN runs = 1..Len(runs) /\ Len(runs) \in Nat
      BY ClassifiedFail DEF IInv, TypeOK
    <2>2. LoopEnds
      BY DEF IInv, RunsPlanned
    <2>3. ~(runs # << >> /\ runs[Len(runs)].result = "pass")
      <3> SUFFICES ASSUME runs # << >> PROVE runs[Len(runs)].result # "pass"
        OBVIOUS
      <3>1. Len(runs) \in DOMAIN runs
        BY <2>1 DEF IInv, TypeOK
      <3> QED BY <2>1, <3>1 DEF Failures
    <2> QED BY <2>1, <2>2, <2>3 DEF LoopEnds
  <1> QED BY <1>1, Invariance, PTL

(* Whichever of the cancellation, the timeout and the exit is noticed      *)
(* first, a command that was cut off from above is neither a failed run    *)
(* nor a rejected install.                                                 *)
THEOREM CancellationCorrect == Spec => []CancellationIsNoVerdict
  <1>1. IInv => CancellationIsNoVerdict
    BY DEF IInv, CutsSeen
  <1> QED BY <1>1, Invariance, PTL

(* The message that ends the run names what ended it.                      *)
THEOREM MessageCorrect == Spec => []MessageNamesTheCause
  <1>1. IInv => MessageNamesTheCause
    BY DEF IInv, ErrorsExplained
  <1> QED BY <1>1, Invariance, PTL
=============================================================================
