------------------------------ MODULE Progress ------------------------------
(***************************************************************************)
(* The progress display on a terminal: live rows that are erased and drawn *)
(* again, permanent rows, and the goroutine that animates the ddmin row    *)
(* while engine.Run, its trials and at last the command line write.        *)
(*                                                                         *)
(* A critical section of the display's mutex is one step.  The goroutine   *)
(* waits for a tick outside of it, and the command line writes its message *)
(* without it.                                                             *)
(*                                                                         *)
(* Left out: what rows say, their widths and colours, and the position of  *)
(* the animation.                                                          *)
(***************************************************************************)
EXTENDS Integers, Sequences

CONSTANTS
    Workers,    \* the goroutines that evaluate candidates at a time
    Trials      \* bound: how many candidates are evaluated

ASSUME TrialsAssumption == Trials \in Nat

VARIABLES
    interactive, verbose, modern,   \* the kind of output
    stage,      \* what engine.Run and the command line are at
    left,       \* the trials the stage may still begin
    phase,      \* worker -> the phase of its trial
    failing,    \* a trial of the stage has returned an error
    outcome,    \* how engine.Run ends: with a "result" or an "error"
    display     \* the display and the goroutines it has started

style == <<interactive, verbose, modern>>
trials == <<left, phase, failing>>
vars == <<style, stage, trials, outcome, display>>

(* The modern renderer drives progress. *)
ModernActive == modern /\ interactive /\ ~verbose

Live == {"preparing", "installing", "verifying"}
Roles == {"baseline-old", "baseline-new", "candidate"}

(* The stages of a run that finds a minimal set. *)
Stages == <<"compare", "changes", "resume", "worktrees", "baseline-1", "baseline-old",
            "baseline-2", "baseline-new", "bisect", "candidate", "complete",
            "cleanup", "report", "message", "done">>

TypeOK ==
    /\ style \in BOOLEAN \X BOOLEAN \X BOOLEAN
    /\ \E i \in DOMAIN Stages : stage = Stages[i]
    /\ left \in 0..Trials + 1
    /\ phase \in [Workers -> Live \cup {"none", "detail"}]
    /\ failing \in BOOLEAN
    /\ outcome \in {"none", "result", "error"}
    /\ display \in [line : {"text", "live"}, spoilt : BOOLEAN, activeTrial : BOOLEAN,
                    begun : BOOLEAN, searching : BOOLEAN,
                    tickers : {<< >>} \cup [{1} -> {"select", "tick", "gone"}],
                    tickerStop : {0, 1}, closed : SUBSET {1}]

(* line: what the cursor is behind, a live row or the end of the text.     *)
(* spoilt: history, something was written behind a live row.  tickerStop:  *)
(* the ticker that animates, 0 for nil; closed: whose channel is closed.   *)
Init ==
    /\ interactive \in BOOLEAN
    /\ verbose \in BOOLEAN
    /\ modern \in BOOLEAN
    /\ stage = "compare"
    /\ left = 0
    /\ phase = [w \in Workers |-> "none"]
    /\ failing = FALSE
    /\ outcome = "none"
    /\ display = [line |-> "text", spoilt |-> FALSE, activeTrial |-> FALSE,
                  begun |-> FALSE, searching |-> FALSE,
                  tickers |-> << >>, tickerStop |-> 0, closed |-> {}]

---------------------------------------------------------------------------
(* What the methods of progress make of the display d. *)

(* A row with its newline, and a live one without. *)
WriteRow(d)  == [d EXCEPT !.spoilt = @ \/ d.line = "live", !.line = "text"]
WriteLive(d) == [d EXCEPT !.spoilt = @ \/ d.line = "live", !.line = "live"]

(* Mutant: a ticker is started with every row. *)
StartTickerAlways(d) ==
    IF ~interactive THEN d
    ELSE [d EXCEPT !.tickers = Append(@, "select"), !.tickerStop = Len(d.tickers) + 1]

StartTicker(d) ==
    IF d.tickerStop # 0 \/ ~interactive THEN d
    ELSE [d EXCEPT !.tickers = Append(@, "select"), !.tickerStop = Len(d.tickers) + 1]

StopTicker(d) ==
    IF d.tickerStop = 0 THEN d
    ELSE [d EXCEPT !.closed = @ \cup {d.tickerStop}, !.tickerStop = 0]

ClearLine(d) ==
    IF ~interactive \/ ~d.activeTrial THEN d
    ELSE [d EXCEPT !.line = "text", !.activeTrial = FALSE]

(* Mutant: the row is erased and the animation left running. *)
InterruptRowOnly(d) == ClearLine(d)

Interrupt(d) == ClearLine(StopTicker(d))

LiveRow(d) == [WriteLive(d) EXCEPT !.activeTrial = TRUE]

RefreshDdmin(d) == StartTicker(LiveRow(ClearLine(d)))

(* A blank line before the first row. *)
ModernBegin(d) == IF d.begun THEN d ELSE WriteRow([d EXCEPT !.begun = TRUE])

ModernStep(d, label) ==
    IF label \in {"complete", "resume"} THEN WriteRow(Interrupt(ModernBegin(d)))
    ELSE ModernBegin(d)

StepCall(d, label) ==
    IF ModernActive THEN ModernStep(d, label) ELSE WriteRow(Interrupt(d))

DetailCall(d) == IF verbose THEN WriteRow(Interrupt(d)) ELSE d

(* A baseline has a live row, then a permanent one.  Candidates share one  *)
(* live row, set apart by a blank line.                                    *)
ModernTrial(d, role, ph) ==
    CASE role # "candidate" /\ ph \in Live    -> LiveRow(Interrupt(ModernBegin(d)))
      [] role # "candidate" /\ ph \notin Live -> WriteRow(Interrupt(ModernBegin(d)))
      [] role = "candidate" ->
            RefreshDdmin(IF d.searching THEN ModernBegin(d)
                         ELSE WriteRow([ModernBegin(d) EXCEPT !.searching = TRUE]))

ClassicTrial(d, ph) ==
    CASE ph \notin Live -> WriteRow(Interrupt(d))
      [] ph \in Live /\ interactive /\ ~verbose -> LiveRow(Interrupt(d))
      [] ph \in Live /\ ~(interactive /\ ~verbose) ->
            IF ph = "preparing" \/ verbose THEN WriteRow(d) ELSE d

TrialCall(d, role, ph) ==
    IF ModernActive THEN ModernTrial(d, role, ph) ELSE ClassicTrial(d, ph)

---------------------------------------------------------------------------
(* engine.Run. *)

After(s) == LET i == CHOOSE i \in DOMAIN Stages : Stages[i] = s IN Stages[i + 1]

Enter(s) ==
    /\ stage' = s
    /\ left' = CASE s \in {"baseline-old", "baseline-new"} -> 1
                 [] s = "candidate"                        -> Trials
                 [] OTHER                                  -> 0

(* progress.Step of a phase, or for the worktrees progress.Detail. *)
Announce ==
    /\ stage \in {"compare", "changes", "resume", "worktrees", "baseline-1",
                  "baseline-2", "bisect", "complete"}
    /\ display' = IF stage = "worktrees" THEN DetailCall(display) ELSE StepCall(display, stage)
    /\ Enter(After(stage))
    /\ outcome' = IF stage = "complete" THEN "result" ELSE outcome
    /\ UNCHANGED <<style, phase, failing>>

(* Nothing was restored from a checkpoint. *)
NotResumed ==
    /\ stage = "resume"
    /\ Enter("worktrees")
    /\ UNCHANGED <<style, phase, failing, outcome, display>>

(* Each step of the run before its trials may fail, and a run without      *)
(* changes or with --dry-run is over after them.                           *)
EndEarly ==
    /\ stage \in {"compare", "changes", "resume", "worktrees", "baseline-1"}
    /\ Enter("cleanup")
    /\ outcome' \in IF stage = "resume" THEN {"result", "error"} ELSE {"error"}
    /\ UNCHANGED <<style, phase, failing, display>>

(* eval tells of its trial; candidates that are memo hits are silent. *)
BeginTrial(w) ==
    /\ stage \in Roles
    /\ phase[w] = "none"
    /\ left > 0
    /\ left' = left - 1
    /\ phase' = [phase EXCEPT ![w] = "preparing"]
    /\ display' = TrialCall(display, stage, "preparing")
    /\ UNCHANGED <<style, stage, failing, outcome>>

GoOn(w) ==
    /\ \/ phase[w] = "preparing"  /\ phase' = [phase EXCEPT ![w] = "installing"]
       \/ phase[w] = "installing" /\ phase' = [phase EXCEPT ![w] = "verifying"]
    /\ display' = TrialCall(display, stage, phase'[w])
    /\ UNCHANGED <<style, stage, left, failing, outcome>>

Verdict(w) ==
    /\ phase[w] \in {"installing", "verifying"}
    /\ phase' = [phase EXCEPT ![w] = "detail"]
    /\ display' = TrialCall(display, stage, "verdict")
    /\ UNCHANGED <<style, stage, left, failing, outcome>>

Detail(w) ==
    /\ phase[w] = "detail"
    /\ phase' = [phase EXCEPT ![w] = "none"]
    /\ display' = DetailCall(display)
    /\ UNCHANGED <<style, stage, left, failing, outcome>>

(* An error ends the trial where it is, without a word.  Siblings that had *)
(* a lane at that moment may still tell of theirs.                         *)
TrialFails(w) ==
    /\ phase[w] \in Live
    /\ phase' = [phase EXCEPT ![w] = "none"]
    /\ failing' = TRUE
    /\ UNCHANGED <<style, stage, left, outcome, display>>

(* All trials have ended.  A baseline may end the run with its verdict. *)
TrialsOver ==
    /\ stage \in Roles
    /\ \A w \in Workers : phase[w] = "none"
    /\ \/ failing /\ Enter("cleanup") /\ outcome' = "error"
       \/ ~failing /\ Enter(After(stage)) /\ UNCHANGED outcome
       \/ ~failing /\ stage # "candidate" /\ Enter("cleanup") /\ outcome' \in {"result", "error"}
    /\ UNCHANGED <<style, phase, failing, display>>

(* Worktrees are removed; what cannot be removed is a detail. *)
CleanUp ==
    /\ stage = "cleanup"
    /\ \/ display' = DetailCall(display) /\ UNCHANGED stage
       \/ UNCHANGED display /\ stage' = "report"
    /\ UNCHANGED <<style, trials, outcome>>

(* runMain clears the live row before it prints an error. *)
Report ==
    /\ stage = "report"
    /\ stage' = "message"
    /\ display' = IF outcome = "error" THEN Interrupt(display) ELSE display
    /\ UNCHANGED <<style, trials, outcome>>

(* The message or the summary, which no lock guards. *)
Message ==
    /\ stage = "message"
    /\ stage' = "done"
    /\ display' = WriteRow(display)
    /\ UNCHANGED <<style, trials, outcome>>

Run ==
    \/ Announce \/ NotResumed \/ EndEarly
    \/ \E w \in Workers : BeginTrial(w) \/ GoOn(w) \/ Verdict(w) \/ Detail(w) \/ TrialFails(w)
    \/ TrialsOver \/ CleanUp \/ Report \/ Message

---------------------------------------------------------------------------
(* The goroutine of startTicker. *)

TickerAt(t, where) == t \in DOMAIN display.tickers /\ display.tickers[t] = where

MoveTicker(d, t, where) == [d EXCEPT !.tickers[t] = where]

(* Of a select with a closed channel and a tick, either may be taken. *)
SelectStop(t) ==
    /\ TickerAt(t, "select")
    /\ t \in display.closed
    /\ display' = MoveTicker(display, t, "gone")

SelectTick(t) ==
    /\ TickerAt(t, "select")
    /\ display' = MoveTicker(display, t, "tick")

(* Mutant: the tick is drawn whoever has stopped the ticker meanwhile. *)
FrameUnchecked(t) ==
    /\ TickerAt(t, "tick")
    /\ display' = RefreshDdmin(MoveTicker(display, t, "select"))

(* With the lock: a stopped ticker ends, another draws a frame. *)
Frame(t) ==
    /\ TickerAt(t, "tick")
    /\ display' = IF display.tickerStop # t THEN MoveTicker(display, t, "gone")
                  ELSE RefreshDdmin(MoveTicker(display, t, "select"))

Ticker(t) ==
    /\ SelectStop(t) \/ SelectTick(t) \/ Frame(t)
    /\ UNCHANGED <<style, stage, trials, outcome>>

Done == stage = "done" /\ UNCHANGED vars

Next == Run \/ (\E t \in DOMAIN display.tickers : Ticker(t)) \/ Done

(* Goroutines are scheduled and time passes. *)
Spec == Init /\ [][Next]_vars /\ WF_vars(Run) /\ WF_vars(Ticker(1))

---------------------------------------------------------------------------
(* No row, frame or message is written behind a live row, whoever wrote    *)
(* that and whoever was about to; and the command line has the last word:  *)
(* behind its message no live row appears ("once the owning lock is        *)
(* released, no further frames will be drawn", output.go:310).             *)
RowsAreWhole ==
    /\ ~display.spoilt
    /\ stage = "done" => display.line = "text"

(* The animation does not outlive the run: however the run ended, its      *)
(* goroutine ends.                                                         *)
AnimationEnds ==
    stage = "message" ~> \A t \in DOMAIN display.tickers : display.tickers[t] = "gone"
=============================================================================
