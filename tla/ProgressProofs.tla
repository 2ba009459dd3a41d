--------------------------- MODULE ProgressProofs ---------------------------
(***************************************************************************)
(* For any number of workers and trials: nothing is ever written behind a  *)
(* live row, whatever the goroutine that animates it is about to do, and   *)
(* behind the last message no live row appears.                            *)
(***************************************************************************)
EXTENDS Progress, TLAPS

---------------------------------------------------------------------------
(* The inductive invariant, in parts. *)

Display == [line : {"text", "live"}, spoilt : BOOLEAN, activeTrial : BOOLEAN,
            begun : BOOLEAN, searching : BOOLEAN,
            tickers : {<< >>} \cup [{1} -> {"select", "tick", "gone"}],
            tickerStop : {0, 1}, closed : SUBSET {1}]

(* The display knows of its live row, has none on an output that cannot    *)
(* erase it, and animates only the candidates' row of the modern renderer. *)
Whole(d) ==
    /\ d \in Display
    /\ ~d.spoilt
    /\ d.line = "live" <=> d.activeTrial
    /\ d.activeTrial => interactive /\ ~verbose
    /\ d.activeTrial /\ ModernActive => d.begun
    /\ d.tickerStop = 1 => d.tickers # << >>
    /\ d.tickers # << >> => ModernActive /\ d.searching /\ d.begun

Ending == {"cleanup", "report", "message", "done"}

(* The candidates' row exists from the bisection on, and its animation is  *)
(* started once.                                                           *)
Animated ==
    /\ display.searching => ModernActive /\ stage \in {"candidate", "complete"} \cup Ending
    /\ display.tickerStop = 0 /\ display.tickers # << >> => stage \in Ending

(* Whose the live row is: of the candidates, of a trial that goes on, or   *)
(* of one that an error has ended.                                         *)
OwnsRow ==
    \/ ModernActive /\ display.searching
    \/ /\ stage = "candidate" => ~ModernActive
       /\ stage \in Roles
       /\ failing \/ \E w \in Workers : phase[w] \in Live
    \/ stage \in {"cleanup", "report"} /\ outcome = "error"

LiveRowOwned == display.activeTrial => OwnsRow

(* Trials run only in their stage, and a run that has its result, or has   *)
(* come to its message, has neither a live row nor an animation.           *)
EndsQuietly ==
    /\ \A w \in Workers : phase[w] # "none" => stage \in Roles
    /\ outcome = "none" <=> stage \notin Ending
    /\ outcome = "result" \/ stage \in {"message", "done"} =>
          ~display.activeTrial /\ display.tickerStop = 0

IInv ==
    /\ TypeOK
    /\ Whole(display)
    /\ Animated
    /\ LiveRowOwned
    /\ EndsQuietly

---------------------------------------------------------------------------
(* What the methods of the display do to one that is whole. *)

(* A row is written where the text ends, and leaves the display as it is. *)
LEMMA WriteRowIs ==
    ASSUME NEW d, Whole(d), ~d.activeTrial
    PROVE  WriteRow(d) = d /\ d.line = "text"
  <1>1. d.line = "text" /\ d \in Display /\ d.spoilt = FALSE
    BY DEF Whole, Display
  <1>2. (d.spoilt \/ d.line = "live") = FALSE
    BY <1>1
  <1> QED BY <1>1, <1>2 DEF WriteRow, Display

LEMMA StopTickerIs ==
    ASSUME NEW d, Whole(d)
    PROVE  LET e == StopTicker(d) IN
           /\ Whole(e) /\ e.tickerStop = 0
           /\ e.activeTrial = d.activeTrial /\ e.begun = d.begun
           /\ e.searching = d.searching /\ e.tickers = d.tickers
  <1>1. d \in Display
    BY DEF Whole
  <1>2. CASE d.tickerStop = 0
    BY <1>2 DEF StopTicker
  <1>3. CASE d.tickerStop # 0
    <2> DEFINE e == [d EXCEPT !.closed = @ \cup {d.tickerStop}, !.tickerStop = 0]
    <2>1. StopTicker(d) = e
      BY <1>3 DEF StopTicker
    <2>2. /\ e \in Display /\ e.tickerStop = 0 /\ e.activeTrial = d.activeTrial
          /\ e.begun = d.begun /\ e.searching = d.searching /\ e.tickers = d.tickers
          /\ e.line = d.line /\ e.spoilt = d.spoilt
      BY <1>1, <1>3 DEF Display
    <2> HIDE DEF e
    <2>3. Whole(e)
      BY <2>2 DEF Whole
    <2> QED BY <2>1, <2>2, <2>3
  <1> QED BY <1>2, <1>3

LEMMA ClearLineIs ==
    ASSUME NEW d, Whole(d)
    PROVE  LET e == ClearLine(d) IN
           /\ Whole(e) /\ ~e.activeTrial
           /\ e.tickerStop = d.tickerStop /\ e.begun = d.begun
           /\ e.searching = d.searching /\ e.tickers = d.tickers
  <1>1. d \in Display /\ (d.activeTrial => interactive)
    BY DEF Whole
  <1>2. CASE ~d.activeTrial
    BY <1>2 DEF ClearLine
  <1>3. CASE d.activeTrial
    <2> DEFINE e == [d EXCEPT !.line = "text", !.activeTrial = FALSE]
    <2>1. ClearLine(d) = e
      BY <1>1, <1>3 DEF ClearLine
    <2>2. /\ e \in Display /\ e.tickerStop = d.tickerStop /\ e.activeTrial = FALSE
          /\ e.begun = d.begun /\ e.searching = d.searching /\ e.tickers = d.tickers
          /\ e.line = "text" /\ e.spoilt = d.spoilt
      BY <1>1 DEF Display
    <2> HIDE DEF e
    <2>3. Whole(e)
      BY <2>2 DEF Whole
    <2> QED BY <2>1, <2>2, <2>3
  <1> QED BY <1>2, <1>3

LEMMA InterruptIs ==
    ASSUME NEW d, Whole(d)
    PROVE  LET e == Interrupt(d) IN
           /\ Whole(e) /\ ~e.activeTrial /\ e.tickerStop = 0
           /\ e.begun = d.begun /\ e.searching = d.searching /\ e.tickers = d.tickers
           /\ WriteRow(e) = e
  <1> DEFINE s == StopTicker(d)
             e == ClearLine(s)
  <1>1. /\ Whole(s) /\ s.tickerStop = 0
        /\ s.begun = d.begun /\ s.searching = d.searching /\ s.tickers = d.tickers
    BY StopTickerIs
  <1> HIDE DEF s
  <1>2. /\ Whole(e) /\ ~e.activeTrial /\ e.tickerStop = s.tickerStop
        /\ e.begun = s.begun /\ e.searching = s.searching /\ e.tickers = s.tickers
    BY <1>1, ClearLineIs
  <1> HIDE DEF e
  <1>3. WriteRow(e) = e
    BY <1>2, WriteRowIs
  <1>4. Interrupt(d) = e
    BY DEF Interrupt, e, s
  <1> QED BY <1>1, <1>2, <1>3, <1>4

LEMMA LiveRowIs ==
    ASSUME NEW d, Whole(d), ~d.activeTrial, interactive, ~verbose, ModernActive => d.begun
    PROVE  LET e == LiveRow(d) IN
           /\ Whole(e) /\ e.activeTrial
           /\ e.tickerStop = d.tickerStop /\ e.begun = d.begun
           /\ e.searching = d.searching /\ e.tickers = d.tickers
  <1> DEFINE e == [d EXCEPT !.line = "live", !.activeTrial = TRUE]
  <1>1. d \in Display /\ d.line = "text" /\ d.spoilt = FALSE
    BY DEF Whole, Display
  <1>2. (d.spoilt \/ d.line = "live") = d.spoilt
    BY <1>1
  <1>3. LiveRow(d) = e
    <2>1. WriteLive(d) = [d EXCEPT !.line = "live"]
      BY <1>1, <1>2 DEF WriteLive, Display
    <2> QED BY <1>1, <2>1 DEF LiveRow, Display
  <1>4. /\ e \in Display /\ e.tickerStop = d.tickerStop /\ e.activeTrial = TRUE
        /\ e.begun = d.begun /\ e.searching = d.searching /\ e.tickers = d.tickers
        /\ e.line = "live" /\ e.spoilt = d.spoilt
    BY <1>1 DEF Display
  <1> HIDE DEF e
  <1>5. Whole(e)
    BY <1>4 DEF Whole
  <1> QED BY <1>3, <1>4, <1>5

LEMMA ModernBeginIs ==
    ASSUME NEW d, Whole(d), ModernActive
    PROVE  LET e == ModernBegin(d) IN
           /\ Whole(e) /\ e.begun
           /\ e.activeTrial = d.activeTrial /\ e.tickerStop = d.tickerStop
           /\ e.searching = d.searching /\ e.tickers = d.tickers
  <1>1. CASE d.begun
    BY <1>1 DEF ModernBegin
  <1>2. CASE ~d.begun
    <2> DEFINE e == [d EXCEPT !.begun = TRUE]
    <2>1. d \in Display /\ ~d.activeTrial
      BY <1>2 DEF Whole
    <2>2. /\ e \in Display /\ e.begun = TRUE /\ e.tickerStop = d.tickerStop
          /\ e.activeTrial = d.activeTrial /\ e.searching = d.searching
          /\ e.tickers = d.tickers /\ e.line = d.line /\ e.spoilt = d.spoilt
      BY <2>1 DEF Display
    <2>3. ModernBegin(d) = WriteRow(e)
      BY <1>2 DEF ModernBegin
    <2> HIDE DEF e
    <2>4. Whole(e)
      BY <2>2 DEF Whole
    <2>5. WriteRow(e) = e
      BY <2>1, <2>2, <2>4, WriteRowIs
    <2> QED BY <2>2, <2>3, <2>4, <2>5
  <1> QED BY <1>1, <1>2

(* The candidates' row is drawn, and its animation is started if it had    *)
(* not been.                                                               *)
LEMMA RefreshIs ==
    ASSUME NEW d, Whole(d), ModernActive, d.begun, d.searching,
           d.tickerStop = 0 => d.tickers = << >>
    PROVE  LET e == RefreshDdmin(d) IN
           Whole(e) /\ e.activeTrial /\ e.begun /\ e.searching /\ e.tickerStop = 1
  <1> DEFINE c == ClearLine(d)
             l == LiveRow(c)
             e == StartTicker(l)
  <1>1. interactive /\ ~verbose
    BY DEF ModernActive
  <1>2. /\ Whole(c) /\ ~c.activeTrial /\ c.tickerStop = d.tickerStop /\ c.begun = d.begun
        /\ c.searching = d.searching /\ c.tickers = d.tickers
    BY ClearLineIs
  <1> HIDE DEF c
  <1>3. /\ Whole(l) /\ l.activeTrial /\ l.tickerStop = d.tickerStop /\ l.begun
        /\ l.searching /\ l.tickers = d.tickers
    <2>1. /\ Whole(l) /\ l.activeTrial
          /\ l.tickerStop = c.tickerStop /\ l.begun = c.begun
          /\ l.searching = c.searching /\ l.tickers = c.tickers
      BY <1>1, <1>2, LiveRowIs
    <2> QED BY <1>2, <2>1
  <1> HIDE DEF l
  <1>4. l \in Display
    BY <1>3 DEF Whole
  <1>5. Whole(e) /\ e.activeTrial /\ e.begun /\ e.searching /\ e.tickerStop = 1
    <2>1. CASE l.tickerStop # 0
      <3>1. e = l /\ l.tickerStop = 1
        BY <1>4, <2>1 DEF StartTicker, Display
      <3> QED BY <1>3, <3>1
    <2>2. CASE l.tickerStop = 0
      <3> DEFINE t == Append(l.tickers, "select")
                 f == [l EXCEPT !.tickers = t, !.tickerStop = 1]
      <3>1. l.tickers = << >>
        BY <1>3, <2>2
      <3>2. t \in [{1} -> {"select", "tick", "gone"}] /\ t # << >> /\ Len(l.tickers) + 1 = 1
        <4>1. t = <<"select">> /\ Len(l.tickers) = 0
          BY <3>1
        <4>2. DOMAIN t = {1} /\ t[1] = "select"
          BY <4>1
        <4> QED BY <4>1, <4>2
      <3>3. e = f
        BY <1>1, <2>2, <3>2 DEF StartTicker
      <3> HIDE DEF t
      <3>4. /\ f \in Display /\ f.tickerStop = 1 /\ f.tickers = t /\ f.activeTrial = l.activeTrial
            /\ f.begun = l.begun /\ f.searching = l.searching /\ f.line = l.line
            /\ f.spoilt = l.spoilt
        BY <1>4, <3>2 DEF Display
      <3> HIDE DEF f
      <3>5. Whole(f)
        BY <1>3, <3>2, <3>4 DEF Whole
      <3> QED BY <1>3, <3>3, <3>4, <3>5
    <2> QED BY <2>1, <2>2
  <1>6. RefreshDdmin(d) = e
    BY DEF RefreshDdmin, e, l, c
  <1> QED BY <1>5, <1>6

(* A step of the run is told: the first renderer does it on a row of its   *)
(* own, the modern one only at the end and when it resumes.                *)
LEMMA StepCallIs ==
    ASSUME NEW d, Whole(d), NEW label, label = "complete" \/ ~d.activeTrial
    PROVE  LET e == StepCall(d, label) IN
           /\ Whole(e) /\ ~e.activeTrial
           /\ e.searching = d.searching /\ e.tickers = d.tickers
           /\ label = "complete" => e.tickerStop = 0
  <1>1. CASE ~ModernActive
    BY <1>1, InterruptIs DEF StepCall
  <1>2. CASE ModernActive
    <2> DEFINE b == ModernBegin(d)
               i == Interrupt(b)
    <2>1. /\ Whole(b) /\ b.activeTrial = d.activeTrial
          /\ b.searching = d.searching /\ b.tickers = d.tickers
      BY <1>2, ModernBeginIs
    <2> HIDE DEF b
    <2>2. /\ Whole(i) /\ ~i.activeTrial /\ i.tickerStop = 0
          /\ i.searching = b.searching /\ i.tickers = b.tickers /\ WriteRow(i) = i
      BY <2>1, InterruptIs
    <2>3. CASE label \in {"complete", "resume"}
      <3>1. StepCall(d, label) = WriteRow(i)
        BY <1>2, <2>3 DEF StepCall, ModernStep, b
      <3> HIDE DEF i
      <3> QED BY <2>1, <2>2, <3>1
    <2>4. CASE label \notin {"complete", "resume"}
      <3>1. StepCall(d, label) = b
        BY <1>2, <2>4 DEF StepCall, ModernStep, b
      <3> QED BY <2>1, <2>4, <3>1
    <2> QED BY <2>3, <2>4
  <1> QED BY <1>1, <1>2

LEMMA DetailCallIs ==
    ASSUME NEW d, Whole(d)
    PROVE  LET e == DetailCall(d) IN
           /\ Whole(e)
           /\ e.searching = d.searching /\ e.tickers = d.tickers
           /\ e.activeTrial => d.activeTrial
           /\ d.tickerStop = 0 => e.tickerStop = 0
           /\ e.tickerStop = d.tickerStop \/ e.tickers = << >>
  <1>1. CASE ~verbose
    BY <1>1 DEF DetailCall
  <1>2. CASE verbose
    <2> DEFINE i == Interrupt(d)
    <2>1. /\ Whole(i) /\ ~i.activeTrial /\ i.tickerStop = 0
          /\ i.searching = d.searching /\ i.tickers = d.tickers /\ WriteRow(i) = i
      BY InterruptIs
    <2>2. DetailCall(d) = WriteRow(i)
      BY <1>2 DEF DetailCall
    <2> HIDE DEF i
    <2>3. ~ModernActive
      BY <1>2 DEF ModernActive
    <2>4. i.tickers = << >>
      BY <2>1, <2>3 DEF Whole
    <2> QED BY <2>1, <2>2, <2>4
  <1> QED BY <1>1, <1>2

(* A candidate's phase in the modern renderer: the shared row is drawn,    *)
(* behind a blank line the first time.                                     *)
LEMMA CandidateCallIs ==
    ASSUME NEW d, Whole(d), ModernActive, NEW ph,
           d.tickerStop = 0 => d.tickers = << >>,
           ~d.searching => ~d.activeTrial
    PROVE  LET e == TrialCall(d, "candidate", ph) IN
           Whole(e) /\ e.activeTrial /\ e.searching /\ e.tickerStop = 1
  <1> DEFINE b == ModernBegin(d)
             g == [b EXCEPT !.searching = TRUE]
  <1>1. /\ Whole(b) /\ b.begun /\ b.activeTrial = d.activeTrial
        /\ b.tickerStop = d.tickerStop /\ b.searching = d.searching /\ b.tickers = d.tickers
    BY ModernBeginIs
  <1>2. /\ TrialCall(d, "candidate", ph) =
              RefreshDdmin(IF d.searching THEN b ELSE WriteRow(g))
    BY Zenon DEF TrialCall, ModernTrial, b, g
  <1> HIDE DEF b
  <1>3. CASE d.searching
    BY <1>1, <1>2, <1>3, RefreshIs
  <1>4. CASE ~d.searching
    <2>1. b \in Display
      BY <1>1 DEF Whole
    <2>2. /\ g \in Display /\ g.searching = TRUE /\ g.begun = b.begun
          /\ g.activeTrial = b.activeTrial /\ g.tickerStop = b.tickerStop
          /\ g.tickers = b.tickers /\ g.line = b.line /\ g.spoilt = b.spoilt
      BY <2>1 DEF Display
    <2> HIDE DEF g
    <2>3. Whole(g)
      BY <1>1, <2>2 DEF Whole
    <2>4. WriteRow(g) = g
      BY <1>1, <1>4, <2>2, <2>3, WriteRowIs
    <2>5. TrialCall(d, "candidate", ph) = RefreshDdmin(g)
      BY <1>2, <1>4, <2>4
    <2> QED BY <1>1, <2>2, <2>3, <2>5, RefreshIs
  <1> QED BY <1>3, <1>4

(* Any other trial's: a live row while it goes on, a permanent one after.  *)
LEMMA RowCallIs ==
    ASSUME NEW d, Whole(d), NEW role, NEW ph, role # "candidate" \/ ~ModernActive
    PROVE  LET e == TrialCall(d, role, ph) IN
           /\ Whole(e)
           /\ e.searching = d.searching /\ e.tickers = d.tickers
           /\ e.activeTrial => ph \in Live
           /\ e.tickerStop = d.tickerStop \/ e.tickerStop = 0
  <1> DEFINE b == IF ModernActive THEN ModernBegin(d) ELSE d
             i == Interrupt(b)
  <1>1. /\ Whole(b) /\ (ModernActive => b.begun) /\ b.activeTrial = d.activeTrial
        /\ b.tickerStop = d.tickerStop /\ b.searching = d.searching /\ b.tickers = d.tickers
    BY ModernBeginIs
  <1> HIDE DEF b
  <1>2. /\ Whole(i) /\ ~i.activeTrial /\ i.tickerStop = 0 /\ i.begun = b.begun
        /\ i.searching = b.searching /\ i.tickers = b.tickers /\ WriteRow(i) = i
    BY <1>1, InterruptIs
  <1> HIDE DEF i
  <1>3. \/ TrialCall(d, role, ph) = LiveRow(i) /\ ph \in Live /\ interactive /\ ~verbose
        \/ TrialCall(d, role, ph) = WriteRow(i)
        \/ TrialCall(d, role, ph) = WriteRow(d) /\ ph \in Live /\ ~(interactive /\ ~verbose)
        \/ TrialCall(d, role, ph) = d /\ ph \in Live
    <2>1. CASE ModernActive
      <3>1. role # "candidate" /\ b = ModernBegin(d) /\ interactive /\ ~verbose
        BY <2>1 DEF b, ModernActive
      <3>2. CASE ph \in Live
        <4>1. ModernTrial(d, role, ph) = LiveRow(Interrupt(ModernBegin(d)))
          BY <3>1, <3>2, Zenon DEF ModernTrial
        <4> QED BY <2>1, <3>1, <3>2, <4>1 DEF TrialCall, i
      <3>3. CASE ph \notin Live
        <4>1. ModernTrial(d, role, ph) = WriteRow(Interrupt(ModernBegin(d)))
          BY <3>1, <3>3, Zenon DEF ModernTrial
        <4> QED BY <2>1, <3>1, <4>1 DEF TrialCall, i
      <3> QED BY <3>2, <3>3
    <2>2. CASE ~ModernActive
      <3>1. TrialCall(d, role, ph) = ClassicTrial(d, ph) /\ i = Interrupt(d)
        BY <2>2 DEF TrialCall, i, b
      <3>2. CASE ph \notin Live
        <4>1. ClassicTrial(d, ph) = WriteRow(Interrupt(d))
          BY <3>2, Zenon DEF ClassicTrial
        <4> QED BY <3>1, <4>1
      <3>3. CASE ph \in Live /\ interactive /\ ~verbose
        <4>1. ClassicTrial(d, ph) = LiveRow(Interrupt(d))
          BY <3>3, Zenon DEF ClassicTrial
        <4> QED BY <3>1, <3>3, <4>1
      <3>4. CASE ph \in Live /\ ~(interactive /\ ~verbose)
        <4>1. ClassicTrial(d, ph) = IF ph = "preparing" \/ verbose THEN WriteRow(d) ELSE d
          BY <3>4, Zenon DEF ClassicTrial
        <4> QED BY <3>1, <3>4, <4>1
      <3> QED BY <3>2, <3>3, <3>4
    <2> QED BY <2>1, <2>2
  <1>4. CASE TrialCall(d, role, ph) = LiveRow(i) /\ ph \in Live /\ interactive /\ ~verbose
    <2> DEFINE e == LiveRow(i)
    <2>1. /\ Whole(e) /\ e.activeTrial /\ e.tickerStop = i.tickerStop
          /\ e.searching = i.searching /\ e.tickers = i.tickers
      BY <1>1, <1>2, <1>4, LiveRowIs
    <2> HIDE DEF e
    <2>2. TrialCall(d, role, ph) = e
      BY <1>4 DEF e
    <2> QED BY <1>1, <1>2, <1>4, <2>1, <2>2
  <1>5. CASE TrialCall(d, role, ph) = WriteRow(i)
    BY <1>1, <1>2, <1>5
  <1>6. CASE TrialCall(d, role, ph) = WriteRow(d) /\ ph \in Live /\ ~(interactive /\ ~verbose)
    <2>1. ~d.activeTrial
      BY <1>6 DEF Whole
    <2>2. WriteRow(d) = d
      BY <2>1, WriteRowIs
    <2> QED BY <1>6, <2>1, <2>2
  <1>7. CASE TrialCall(d, role, ph) = d /\ ph \in Live
    BY <1>7
  <1> QED BY <1>3, <1>4, <1>5, <1>6, <1>7

---------------------------------------------------------------------------
(* The stages. *)

AllStages == {"compare", "changes", "resume", "worktrees", "baseline-1", "baseline-old",
              "baseline-2", "baseline-new", "bisect", "candidate", "complete"} \cup Ending

LEMMA StageIs == (\E i \in DOMAIN Stages : stage = Stages[i]) <=> stage \in AllStages
  <1>1. DOMAIN Stages = 1..15
    BY DEF Stages
  <1> QED BY <1>1 DEF Stages, AllStages, Ending

LEMMA AfterIs ==
    /\ After("compare") = "changes"
    /\ After("changes") = "resume"
    /\ After("resume") = "worktrees"
    /\ After("worktrees") = "baseline-1"
    /\ After("baseline-1") = "baseline-old"
    /\ After("baseline-old") = "baseline-2"
    /\ After("baseline-2") = "baseline-new"
    /\ After("baseline-new") = "bisect"
    /\ After("bisect") = "candidate"
    /\ After("candidate") = "complete"
    /\ After("complete") = "cleanup"
  <1>1. DOMAIN Stages = 1..15
    BY DEF Stages
  <1>2. ASSUME NEW s, NEW n \in 1..14, Stages[n] = s, \A i \in 1..15 : Stages[i] = s => i = n
        PROVE  After(s) = Stages[n + 1]
    <2>1. (CHOOSE i \in DOMAIN Stages : Stages[i] = s) = n
      BY <1>1, <1>2
    <2> QED BY <2>1 DEF After
  <1>3. ASSUME NEW i \in 1..15, NEW j \in 1..15, Stages[i] = Stages[j]
        PROVE  i = j
    BY <1>3 DEF Stages
  <1>4. \A n \in 1..14 : After(Stages[n]) = Stages[n + 1]
    <2> SUFFICES ASSUME NEW n \in 1..14 PROVE After(Stages[n]) = Stages[n + 1]
      OBVIOUS
    <2>1. \A i \in 1..15 : Stages[i] = Stages[n] => i = n
      BY <1>3
    <2> QED BY <1>2, <2>1
  <1>5. /\ Stages[1] = "compare" /\ Stages[2] = "changes" /\ Stages[3] = "resume"
        /\ Stages[4] = "worktrees" /\ Stages[5] = "baseline-1" /\ Stages[6] = "baseline-old"
        /\ Stages[7] = "baseline-2" /\ Stages[8] = "baseline-new" /\ Stages[9] = "bisect"
        /\ Stages[10] = "candidate" /\ Stages[11] = "complete" /\ Stages[12] = "cleanup"
    BY DEF Stages
  <1>6. \A n \in 1..11 : After(Stages[n]) = Stages[n + 1]
    BY <1>4
  <1> HIDE DEF Stages, After
  <1>7. /\ After(Stages[1]) = Stages[2] /\ After(Stages[2]) = Stages[3]
        /\ After(Stages[3]) = Stages[4] /\ After(Stages[4]) = Stages[5]
        /\ After(Stages[5]) = Stages[6] /\ After(Stages[6]) = Stages[7]
        /\ After(Stages[7]) = Stages[8] /\ After(Stages[8]) = Stages[9]
        /\ After(Stages[9]) = Stages[10] /\ After(Stages[10]) = Stages[11]
        /\ After(Stages[11]) = Stages[12]
    <2>1. \A n \in 1..11 : After(Stages[n]) = Stages[n + 1]
      BY <1>6
    <2>2. 1 + 1 = 2 /\ 2 + 1 = 3 /\ 3 + 1 = 4 /\ 4 + 1 = 5 /\ 5 + 1 = 6 /\ 6 + 1 = 7
          /\ 7 + 1 = 8 /\ 8 + 1 = 9 /\ 9 + 1 = 10 /\ 10 + 1 = 11 /\ 11 + 1 = 12
      OBVIOUS
    <2> QED BY <2>1, <2>2
  <1> QED BY <1>5, <1>7

(* A stage may begin a trial if it is a baseline's, and all of them if it  *)
(* is the candidates'.                                                     *)
LEMMA EnterIs ==
    ASSUME NEW s, Enter(s)
    PROVE  stage' = s /\ left' \in 0..Trials + 1
  <1>1. CASE s \in {"baseline-old", "baseline-new"}
    <2>1. left' = 1
      BY <1>1, Zenon DEF Enter
    <2> QED BY <2>1, TrialsAssumption DEF Enter
  <1>2. CASE s = "candidate"
    <2>1. left' = Trials
      BY <1>2, Zenon DEF Enter
    <2> QED BY <2>1, TrialsAssumption DEF Enter
  <1>3. CASE s \notin {"baseline-old", "baseline-new", "candidate"}
    <2>1. left' = 0
      BY <1>3, Zenon DEF Enter
    <2> QED BY <2>1, TrialsAssumption DEF Enter
  <1> QED BY <1>1, <1>2, <1>3

---------------------------------------------------------------------------
(* The invariant holds at first, and every step keeps it. *)

LEMMA InitIInv == Init => IInv
  <1> SUFFICES ASSUME Init PROVE IInv
    OBVIOUS
  <1>1. stage \in AllStages /\ stage \notin Roles \cup Ending \cup {"candidate", "complete"}
    BY DEF Init, AllStages, Roles, Ending
  <1>2. display \in Display
    BY DEF Init, Display
  <1>3. TypeOK
    <2>1. style \in BOOLEAN \X BOOLEAN \X BOOLEAN
      BY DEF Init, style
    <2>2. left \in 0..Trials + 1
      BY TrialsAssumption DEF Init
    <2>3. /\ phase \in [Workers -> Live \cup {"none", "detail"}]
          /\ failing \in BOOLEAN /\ outcome \in {"none", "result", "error"}
      BY DEF Init
    <2> QED BY <1>1, <1>2, <2>1, <2>2, <2>3, StageIs DEF TypeOK, Display
  <1>4. Whole(display)
    BY <1>2 DEF Whole, Init
  <1>5. Animated /\ LiveRowOwned
    BY DEF Animated, LiveRowOwned, Init
  <1>6. EndsQuietly
    BY <1>1 DEF EndsQuietly, Init
  <1> QED BY <1>3, <1>4, <1>5, <1>6 DEF IInv

(* The types of a state, and of a step that leaves the display whole. *)
LEMMA Typed ==
    ASSUME IInv
    PROVE  /\ stage \in AllStages /\ left \in 0..Trials + 1
           /\ phase \in [Workers -> Live \cup {"none", "detail"}]
           /\ failing \in BOOLEAN /\ outcome \in {"none", "result", "error"}
           /\ display \in Display /\ display.tickerStop \in {0, 1}
  <1>1. Whole(display) /\ TypeOK
    BY DEF IInv
  <1>2. display \in Display
    BY <1>1 DEF Whole
  <1>3. display.tickerStop \in {0, 1}
    BY <1>2 DEF Display
  <1> QED BY <1>1, <1>2, <1>3, StageIs DEF TypeOK

LEMMA TypedAfter ==
    ASSUME IInv, UNCHANGED style, Whole(display)', stage' \in AllStages, left' \in 0..Trials + 1,
           phase' \in [Workers -> Live \cup {"none", "detail"}], failing' \in BOOLEAN,
           outcome' \in {"none", "result", "error"}
    PROVE  TypeOK'
  <1>1. TypeOK
    BY DEF IInv
  <1>2. display' \in Display
    BY DEF Whole
  <1>3. (\E i \in DOMAIN Stages : stage = Stages[i])' <=> (stage \in AllStages)'
    BY StageIs, PTL
  <1>4. \E i \in DOMAIN Stages : stage' = Stages[i]
    BY <1>3
  <1>5. style' \in BOOLEAN \X BOOLEAN \X BOOLEAN
    BY <1>1 DEF TypeOK
  <1> QED BY <1>2, <1>4, <1>5 DEF TypeOK, Display

(* What is whole stays whole on the same kind of output. *)
LEMMA WholeAfter ==
    ASSUME UNCHANGED style, Whole(display')
    PROVE  Whole(display)'
  BY DEF style, Whole, ModernActive

LEMMA AnnounceKeeps == IInv /\ Announce => IInv'
  <1> SUFFICES ASSUME IInv, Announce PROVE IInv'
    OBVIOUS
  <1>1. /\ UNCHANGED <<phase, failing>> /\ UNCHANGED style /\ (ModernActive' <=> ModernActive)
    BY DEF Announce, style, ModernActive
  <1>2. /\ stage \in {"compare", "changes", "resume", "worktrees", "baseline-1",
                      "baseline-2", "bisect", "complete"}
        /\ stage \notin Roles \cup Ending /\ stage # "candidate"
    BY DEF Announce, Roles, Ending
  <1>3. /\ stage' = After(stage) /\ left' \in 0..Trials + 1
    BY EnterIs DEF Announce
  <1>4. /\ stage' \in AllStages
        /\ stage = "complete" => stage' = "cleanup"
        /\ stage = "bisect" => stage' = "candidate"
        /\ stage # "complete" => stage' \notin Ending /\ stage' # "complete"
    <2>1. stage' \in {"changes", "resume", "worktrees", "baseline-1", "baseline-old",
                      "baseline-new", "candidate", "cleanup"}
      BY <1>2, <1>3, AfterIs
    <2>2. stage = "complete" => stage' = "cleanup"
      BY <1>3, AfterIs
    <2>3. stage = "bisect" => stage' = "candidate"
      BY <1>3, AfterIs
    <2>4. stage # "complete" => stage' # "cleanup"
      BY <1>2, <1>3, AfterIs
    <2> QED BY <2>1, <2>2, <2>3, <2>4 DEF AllStages, Ending
  <1>5. /\ outcome = "none" /\ \A w \in Workers : phase[w] = "none"
        /\ outcome' = IF stage = "complete" THEN "result" ELSE outcome
    <2>1. \A w \in Workers : phase[w] = "none"
      BY <1>2 DEF IInv, EndsQuietly
    <2>2. outcome = "none"
      BY <1>2 DEF IInv, EndsQuietly
    <2> QED BY <2>1, <2>2 DEF Announce
  <1>6. /\ stage # "complete" => ~display.searching /\ ~display.activeTrial
        /\ Whole(display)
    <2>1. stage # "complete" => ~display.searching
      BY <1>2 DEF IInv, Animated
    <2>2. stage # "complete" => ~OwnsRow
      BY <1>2, <2>1 DEF OwnsRow, Ending
    <2> QED BY <2>1, <2>2 DEF IInv, LiveRowOwned
  <1>7. /\ Whole(display') /\ ~display'.activeTrial
        /\ display'.searching = display.searching /\ display'.tickers = display.tickers
        /\ stage = "complete" => display'.tickerStop = 0
    <2>1. CASE stage = "worktrees"
      <3>1. display' = DetailCall(display)
        BY <2>1 DEF Announce
      <3> QED BY <1>6, <2>1, <3>1, DetailCallIs
    <2>2. CASE stage # "worktrees"
      <3>1. display' = StepCall(display, stage)
        BY <2>2 DEF Announce
      <3> QED BY <1>6, <3>1, StepCallIs
    <2> QED BY <2>1, <2>2
  <1>8. Whole(display)'
    BY <1>1, <1>7, WholeAfter
  <1>9. TypeOK'
    <2>1. failing' \in BOOLEAN /\ phase' \in [Workers -> Live \cup {"none", "detail"}]
      BY <1>1, Typed
    <2>2. outcome' \in {"none", "result", "error"}
      BY <1>5
    <2> QED BY <1>1, <1>3, <1>4, <1>8, <2>1, <2>2, TypedAfter
  <1>10. Animated'
    <2>1. display'.searching => ModernActive' /\ stage' = "cleanup"
      <3>1. display.searching => ModernActive
        BY DEF IInv, Animated
      <3> QED BY <1>1, <1>4, <1>6, <1>7, <3>1
    <2>2. display'.tickers # << >> => display'.searching
      BY <1>7 DEF Whole
    <2> QED BY <2>1, <2>2 DEF Animated, Ending
  <1>11. LiveRowOwned'
    BY <1>7 DEF LiveRowOwned
  <1>12. EndsQuietly'
    <2>1. \A w \in Workers : phase'[w] = "none"
      BY <1>1, <1>5
    <2>2. outcome' = "none" <=> stage' \notin Ending
      BY <1>4, <1>5 DEF Ending
    <2>3. outcome' = "result" \/ stage' \in {"message", "done"} => display'.tickerStop = 0
      BY <1>4, <1>5, <1>7 DEF Ending
    <2> QED BY <1>7, <2>1, <2>2, <2>3 DEF EndsQuietly
  <1> QED BY <1>8, <1>9, <1>10, <1>11, <1>12 DEF IInv

(* A step of the run that is over in silence. *)
LEMMA QuietStageKeeps == IInv /\ (NotResumed \/ EndEarly) => IInv'
  <1> SUFFICES ASSUME IInv, NotResumed \/ EndEarly PROVE IInv'
    OBVIOUS
  <1>1. /\ UNCHANGED <<phase, failing, display>> /\ UNCHANGED style
        /\ (ModernActive' <=> ModernActive)
    BY DEF NotResumed, EndEarly, style, ModernActive
  <1>2. stage \in {"compare", "changes", "resume", "worktrees", "baseline-1"}
    BY DEF NotResumed, EndEarly
  <1>3. /\ stage' \in {"worktrees", "cleanup"} /\ left' \in 0..Trials + 1
        /\ stage' = "worktrees" => outcome' = outcome
        /\ stage' = "cleanup" => outcome' \in {"result", "error"}
    <2>1. CASE NotResumed
      BY <2>1, EnterIs DEF NotResumed
    <2>2. CASE EndEarly
      BY <2>2, EnterIs DEF EndEarly
    <2> QED BY <2>1, <2>2
  <1>4. /\ outcome = "none" /\ \A w \in Workers : phase[w] = "none"
    <2>1. stage \notin Roles \cup Ending
      BY <1>2 DEF Roles, Ending
    <2> QED BY <2>1 DEF IInv, EndsQuietly
  <1>5. ~display.searching /\ ~display.activeTrial /\ Whole(display)
    <2>1. ~display.searching
      BY <1>2 DEF IInv, Animated, Ending
    <2>2. ~OwnsRow
      BY <1>2, <2>1 DEF OwnsRow, Roles
    <2> QED BY <2>1, <2>2 DEF IInv, LiveRowOwned
  <1>6. display.tickers = << >> /\ display.tickerStop = 0
    <2>1. display.tickers = << >>
      BY <1>5 DEF Whole
    <2> QED BY <1>5, <2>1, Typed DEF Whole
  <1>7. Whole(display)'
    BY <1>1, <1>5, WholeAfter
  <1>8. TypeOK'
    <2>1. failing' \in BOOLEAN /\ phase' \in [Workers -> Live \cup {"none", "detail"}]
      BY <1>1, Typed
    <2>2. outcome' \in {"none", "result", "error"} /\ stage' \in AllStages
      BY <1>3, <1>4 DEF AllStages, Ending
    <2> QED BY <1>1, <1>3, <1>7, <2>1, <2>2, TypedAfter
  <1>9. Animated' /\ LiveRowOwned'
    BY <1>1, <1>5, <1>6 DEF Animated, LiveRowOwned
  <1>10. EndsQuietly'
    <2>1. outcome' = "none" <=> stage' \notin Ending
      BY <1>3, <1>4 DEF Ending
    <2> QED BY <1>1, <1>4, <1>5, <1>6, <2>1 DEF EndsQuietly
  <1> QED BY <1>7, <1>8, <1>9, <1>10 DEF IInv

(* A trial that tells of its phase: the row is the candidates', or that of *)
(* a trial which goes on.                                                  *)
LEMMA TrialCallKeeps ==
    ASSUME IInv, UNCHANGED <<style, stage, failing, outcome>>, stage \in Roles,
           left' \in 0..Trials + 1,
           phase' \in [Workers -> Live \cup {"none", "detail"}],
           NEW w \in Workers, NEW ph, ph \in Live => phase'[w] = ph,
           display' = TrialCall(display, stage, ph)
    PROVE  IInv'
  <1>1. stage \notin Ending /\ stage # "complete" /\ stage \in AllStages
    BY DEF Roles, Ending, AllStages
  <1>2. /\ Whole(display) /\ UNCHANGED style /\ stage' = stage
        /\ failing' = failing /\ outcome' = outcome
        /\ (ModernActive' <=> ModernActive)
    BY DEF IInv, style, ModernActive
  <1>3. outcome = "none"
    BY <1>1 DEF IInv, EndsQuietly
  <1>4. /\ display.tickerStop = 0 => display.tickers = << >>
        /\ display.searching => ModernActive /\ stage = "candidate"
    BY <1>1 DEF IInv, Animated
  <1>5. CASE ModernActive /\ stage = "candidate"
    <2>1. ~display.searching => ~display.activeTrial
      <3>1. OwnsRow => display.searching
        BY <1>3, <1>5 DEF OwnsRow
      <3> QED BY <3>1 DEF IInv, LiveRowOwned
    <2>2. display' = TrialCall(display, "candidate", ph)
      BY <1>5
    <2>3. /\ Whole(display') /\ display'.searching /\ display'.tickerStop = 1
      BY <1>2, <1>4, <1>5, <2>1, <2>2, CandidateCallIs
    <2>4. Whole(display)'
      BY <1>2, <2>3, WholeAfter
    <2>5. TypeOK'
      <3>1. failing' \in BOOLEAN /\ outcome' \in {"none", "result", "error"}
        BY <1>2, Typed
      <3>2. stage' \in AllStages
        BY <1>1, <1>2
      <3> QED BY <1>2, <2>4, <3>1, <3>2, TypedAfter
    <2>6. Animated'
      BY <1>2, <1>5, <2>3 DEF Animated
    <2>7. LiveRowOwned'
      BY <1>2, <1>5, <2>3 DEF LiveRowOwned, OwnsRow
    <2>8. EndsQuietly'
      BY <1>1, <1>2, <1>3 DEF EndsQuietly, Ending
    <2> QED BY <2>4, <2>5, <2>6, <2>7, <2>8 DEF IInv
  <1>6. CASE ~(ModernActive /\ stage = "candidate")
    <2>1. /\ Whole(display') /\ display'.searching = display.searching
          /\ display'.tickers = display.tickers
          /\ display'.activeTrial => ph \in Live
      BY <1>2, <1>6, RowCallIs
    <2>2. Whole(display)'
      BY <1>2, <2>1, WholeAfter
    <2>3. TypeOK'
      <3>1. failing' \in BOOLEAN /\ outcome' \in {"none", "result", "error"}
        BY <1>2, Typed
      <3>2. stage' \in AllStages
        BY <1>1, <1>2
      <3> QED BY <1>2, <2>2, <3>1, <3>2, TypedAfter
    <2>4. ~display.searching /\ display.tickers = << >>
      <3>1. ~display.searching
        BY <1>4, <1>6
      <3> QED BY <1>2, <3>1 DEF Whole
    <2>5. Animated'
      BY <2>1, <2>4 DEF Animated
    <2>6. LiveRowOwned'
      <3>1. SUFFICES ASSUME display'.activeTrial PROVE OwnsRow'
        BY DEF LiveRowOwned
      <3>2. phase'[w] \in Live
        BY <2>1, <3>1
      <3> QED BY <1>2, <1>6, <3>2 DEF OwnsRow
    <2>7. EndsQuietly'
      BY <1>1, <1>2, <1>3 DEF EndsQuietly, Ending
    <2> QED BY <2>2, <2>3, <2>5, <2>6, <2>7 DEF IInv
  <1> QED BY <1>5, <1>6

(* A trial is under way only in a stage with trials. *)
LEMMA PhaseHasRole ==
    ASSUME IInv, NEW w \in Workers, phase[w] # "none"
    PROVE  stage \in Roles
  BY DEF IInv, EndsQuietly

LEMMA BeginTrialKeeps == ASSUME NEW w \in Workers PROVE IInv /\ BeginTrial(w) => IInv'
  <1> SUFFICES ASSUME IInv, BeginTrial(w) PROVE IInv'
    OBVIOUS
  <1>1. /\ stage \in Roles /\ left > 0 /\ left' = left - 1
        /\ phase' = [phase EXCEPT ![w] = "preparing"]
        /\ display' = TrialCall(display, stage, "preparing")
        /\ UNCHANGED <<style, stage, failing, outcome>>
    BY DEF BeginTrial
  <1>2. left' \in 0..Trials + 1
    BY <1>1, Typed, TrialsAssumption
  <1>3. phase' \in [Workers -> Live \cup {"none", "detail"}] /\ phase'[w] = "preparing"
    BY <1>1, Typed DEF Live
  <1> QED BY <1>1, <1>2, <1>3, TrialCallKeeps

LEMMA GoOnKeeps == ASSUME NEW w \in Workers PROVE IInv /\ GoOn(w) => IInv'
  <1> SUFFICES ASSUME IInv, GoOn(w) PROVE IInv'
    OBVIOUS
  <1>1. /\ stage \in Roles /\ left' = left
        /\ display' = TrialCall(display, stage, phase'[w])
        /\ UNCHANGED <<style, stage, failing, outcome>>
    <2>1. phase[w] # "none"
      BY DEF GoOn
    <2> QED BY <2>1, PhaseHasRole DEF GoOn
  <1>2. PICK p \in {"installing", "verifying"} : phase' = [phase EXCEPT ![w] = p]
    BY DEF GoOn
  <1>3. phase' \in [Workers -> Live \cup {"none", "detail"}]
    BY <1>2, Typed DEF Live
  <1>4. left' \in 0..Trials + 1
    BY <1>1, Typed
  <1> QED BY <1>1, <1>3, <1>4, TrialCallKeeps

LEMMA VerdictKeeps == ASSUME NEW w \in Workers PROVE IInv /\ Verdict(w) => IInv'
  <1> SUFFICES ASSUME IInv, Verdict(w) PROVE IInv'
    OBVIOUS
  <1>1. /\ stage \in Roles /\ left' = left
        /\ phase' = [phase EXCEPT ![w] = "detail"]
        /\ display' = TrialCall(display, stage, "verdict")
        /\ UNCHANGED <<style, stage, failing, outcome>>
    <2>1. phase[w] # "none"
      BY DEF Verdict
    <2> QED BY <2>1, PhaseHasRole DEF Verdict
  <1>2. phase' \in [Workers -> Live \cup {"none", "detail"}]
    BY <1>1, Typed
  <1>3. left' \in 0..Trials + 1 /\ "verdict" \notin Live
    BY <1>1, Typed DEF Live
  <1> QED BY <1>1, <1>2, <1>3, TrialCallKeeps

LEMMA DetailKeeps == ASSUME NEW w \in Workers PROVE IInv /\ Detail(w) => IInv'
  <1> SUFFICES ASSUME IInv, Detail(w) PROVE IInv'
    OBVIOUS
  <1>1. /\ phase[w] = "detail" /\ phase' = [phase EXCEPT ![w] = "none"]
        /\ display' = DetailCall(display)
        /\ UNCHANGED style /\ stage' = stage /\ left' = left
        /\ failing' = failing /\ outcome' = outcome
        /\ (ModernActive' <=> ModernActive) /\ Whole(display)
    BY DEF Detail, IInv, style, ModernActive
  <1>2. stage \in Roles
    BY <1>1, PhaseHasRole
  <1>3. stage \notin Ending /\ outcome = "none"
    BY <1>2 DEF IInv, EndsQuietly, Roles, Ending
  <1>4. /\ Whole(display')
        /\ display'.searching = display.searching /\ display'.tickers = display.tickers
        /\ display'.activeTrial => display.activeTrial
        /\ display'.tickerStop = display.tickerStop \/ display'.tickers = << >>
    BY <1>1, DetailCallIs
  <1>5. Whole(display)'
    BY <1>1, <1>4, WholeAfter
  <1>6. TypeOK'
    <2>1. phase' \in [Workers -> Live \cup {"none", "detail"}]
      BY <1>1, Typed
    <2>2. /\ stage' \in AllStages /\ left' \in 0..Trials + 1 /\ failing' \in BOOLEAN
          /\ outcome' \in {"none", "result", "error"}
      BY <1>1, Typed
    <2> QED BY <1>1, <1>5, <2>1, <2>2, TypedAfter
  <1>7. Animated'
    BY <1>1, <1>4 DEF IInv, Animated
  <1>8. LiveRowOwned'
    <2>1. SUFFICES ASSUME display'.activeTrial PROVE OwnsRow'
      BY DEF LiveRowOwned
    <2>2. OwnsRow
      BY <1>4, <2>1 DEF IInv, LiveRowOwned
    <2>3. ASSUME NEW v \in Workers, phase[v] \in Live PROVE phase'[v] \in Live
      <3>1. v # w
        BY <1>1, <2>3 DEF Live
      <3> QED BY <1>1, <2>3, <3>1, Typed
    <2> QED BY <1>1, <1>4, <2>2, <2>3 DEF OwnsRow
  <1>9. EndsQuietly'
    <2>1. \A v \in Workers : phase'[v] # "none" => stage' \in Roles
      BY <1>1, <1>2
    <2> QED BY <1>1, <1>3, <2>1 DEF EndsQuietly, Ending
  <1> QED BY <1>5, <1>6, <1>7, <1>8, <1>9 DEF IInv

LEMMA TrialFailsKeeps == ASSUME NEW w \in Workers PROVE IInv /\ TrialFails(w) => IInv'
  <1> SUFFICES ASSUME IInv, TrialFails(w) PROVE IInv'
    OBVIOUS
  <1>1. /\ phase[w] \in Live /\ phase' = [phase EXCEPT ![w] = "none"]
        /\ failing' = TRUE /\ display' = display
        /\ UNCHANGED style /\ stage' = stage /\ left' = left /\ outcome' = outcome
        /\ (ModernActive' <=> ModernActive) /\ Whole(display)
    BY DEF TrialFails, IInv, style, ModernActive
  <1>2. stage \in Roles
    BY <1>1, PhaseHasRole DEF Live
  <1>3. stage \notin Ending /\ outcome = "none"
    BY <1>2 DEF IInv, EndsQuietly, Roles, Ending
  <1>4. Whole(display)'
    BY <1>1, WholeAfter
  <1>5. TypeOK'
    <2>1. phase' \in [Workers -> Live \cup {"none", "detail"}]
      BY <1>1, Typed
    <2>2. /\ stage' \in AllStages /\ left' \in 0..Trials + 1 /\ failing' \in BOOLEAN
          /\ outcome' \in {"none", "result", "error"}
      BY <1>1, Typed
    <2> QED BY <1>1, <1>4, <2>1, <2>2, TypedAfter
  <1>6. Animated'
    BY <1>1 DEF IInv, Animated
  <1>7. LiveRowOwned'
    <2>1. OwnsRow => OwnsRow'
      BY <1>1 DEF OwnsRow
    <2> QED BY <1>1, <2>1 DEF IInv, LiveRowOwned
  <1>8. EndsQuietly'
    <2>1. \A v \in Workers : phase'[v] # "none" => stage' \in Roles
      BY <1>1, <1>2
    <2> QED BY <1>1, <1>3, <2>1 DEF EndsQuietly, Ending
  <1> QED BY <1>4, <1>5, <1>6, <1>7, <1>8 DEF IInv

(* The run leaves a live row behind its trials only to the next stage of   *)
(* the candidates' row, or to the end of a run with an error.              *)
LEMMA TrialsOverKeeps == IInv /\ TrialsOver => IInv'
  <1> SUFFICES ASSUME IInv, TrialsOver PROVE IInv'
    OBVIOUS
  <1>1. /\ stage \in Roles /\ UNCHANGED style /\ (ModernActive' <=> ModernActive)
        /\ \A w \in Workers : phase[w] = "none"
        /\ phase' = phase /\ failing' = failing /\ display' = display /\ Whole(display)
    BY DEF TrialsOver, IInv, style, ModernActive
  <1>2. stage \notin Ending /\ stage # "complete" /\ outcome = "none"
    BY <1>1 DEF IInv, EndsQuietly, Roles, Ending
  <1>3. /\ stage # "candidate" => ~display.searching /\ display.tickers = << >>
                                  /\ display.tickerStop = 0
        /\ display.tickerStop = 0 => display.tickers = << >>
        /\ display.searching => ModernActive
    <2>1. stage # "candidate" => ~display.searching
      BY <1>2 DEF IInv, Animated
    <2>2. display.tickers # << >> => display.searching
      BY <1>1 DEF Whole
    <2>3. display.tickerStop # 0 => display.tickers # << >>
      BY <1>1, Typed DEF Whole
    <2>4. (display.tickerStop = 0 => display.tickers = << >>) /\ (display.searching => ModernActive)
      BY <1>2 DEF IInv, Animated
    <2> QED BY <2>1, <2>2, <2>3, <2>4
  <1>4. ~failing /\ display.activeTrial => ModernActive /\ display.searching
    <2>1. OwnsRow /\ ~failing => ModernActive /\ display.searching
      BY <1>1, <1>2 DEF OwnsRow, Live
    <2> QED BY <2>1 DEF IInv, LiveRowOwned
  <1>5. /\ left' \in 0..Trials + 1
        /\ \/ stage' = "cleanup" /\ outcome' = "error"
           \/ ~failing /\ stage' = After(stage) /\ outcome' = outcome
           \/ ~failing /\ stage' = "cleanup" /\ stage # "candidate" /\ outcome' = "result"
    BY EnterIs DEF TrialsOver
  <1>6. /\ After(stage) \in {"baseline-2", "bisect", "complete"}
        /\ stage = "candidate" => After(stage) = "complete"
    BY <1>1, AfterIs DEF Roles
  <1>7. Whole(display)'
    BY <1>1, WholeAfter
  <1>8. TypeOK'
    <2>1. failing' \in BOOLEAN /\ phase' \in [Workers -> Live \cup {"none", "detail"}]
      BY <1>1, Typed
    <2>2. outcome' \in {"none", "result", "error"} /\ stage' \in AllStages
      BY <1>2, <1>5, <1>6 DEF AllStages, Ending
    <2> QED BY <1>1, <1>5, <1>7, <2>1, <2>2, TypedAfter
  <1>9. CASE stage' = "cleanup" /\ outcome' = "error"
    <2>1. Animated' /\ LiveRowOwned'
      BY <1>1, <1>3, <1>9 DEF Animated, LiveRowOwned, OwnsRow, Ending
    <2>2. EndsQuietly'
      BY <1>1, <1>9 DEF EndsQuietly, Ending
    <2> QED BY <1>7, <1>8, <2>1, <2>2 DEF IInv
  <1>10. CASE ~failing /\ stage' = After(stage) /\ outcome' = outcome
    <2>1. stage' \notin Ending
      BY <1>6, <1>10 DEF Ending
    <2>2. Animated' /\ LiveRowOwned'
      BY <1>1, <1>3, <1>4, <1>6, <1>10 DEF Animated, LiveRowOwned, OwnsRow
    <2>3. EndsQuietly'
      BY <1>1, <1>2, <1>10, <2>1 DEF EndsQuietly, Ending
    <2> QED BY <1>7, <1>8, <2>2, <2>3 DEF IInv
  <1>11. CASE ~failing /\ stage' = "cleanup" /\ stage # "candidate" /\ outcome' = "result"
    <2>1. ~display.activeTrial
      BY <1>3, <1>4, <1>11
    <2>2. Animated' /\ LiveRowOwned'
      BY <1>1, <1>3, <1>11, <2>1 DEF Animated, LiveRowOwned
    <2>3. EndsQuietly'
      BY <1>1, <1>3, <1>11, <2>1 DEF EndsQuietly, Ending
    <2> QED BY <1>7, <1>8, <2>2, <2>3 DEF IInv
  <1> QED BY <1>5, <1>9, <1>10, <1>11

(* From the clean-up on only the stage and the display move. *)
LEMMA EndingKeeps ==
    ASSUME IInv, UNCHANGED <<style, trials, outcome>>, stage \in Ending, stage' \in Ending,
           Whole(display'),
           display'.searching = display.searching,
           display'.activeTrial => display.activeTrial /\ stage' \in {"cleanup", "report"},
           display.tickerStop = 0 => display'.tickerStop = 0,
           stage' \in {"message", "done"} => display'.tickerStop = 0,
           stage' \in {"cleanup", "report"} => stage \in {"cleanup", "report"}
    PROVE  IInv'
  <1>1. /\ UNCHANGED style /\ left' = left /\ phase' = phase /\ failing' = failing
        /\ outcome' = outcome /\ (ModernActive' <=> ModernActive)
    BY DEF trials, style, ModernActive
  <1>2. stage \notin Roles /\ stage' \notin Roles /\ outcome # "none"
    BY DEF IInv, EndsQuietly, Roles, Ending
  <1>3. Whole(display)'
    BY <1>1, WholeAfter
  <1>4. TypeOK'
    <2>1. /\ stage' \in AllStages /\ left' \in 0..Trials + 1 /\ failing' \in BOOLEAN
          /\ outcome' \in {"none", "result", "error"}
          /\ phase' \in [Workers -> Live \cup {"none", "detail"}]
      BY <1>1, Typed DEF AllStages
    <2> QED BY <1>1, <1>3, <2>1, TypedAfter
  <1>5. Animated'
    BY <1>1 DEF IInv, Animated
  <1>6. LiveRowOwned'
    <2>1. SUFFICES ASSUME display'.activeTrial PROVE OwnsRow'
      BY DEF LiveRowOwned
    <2>2. OwnsRow
      BY <2>1 DEF IInv, LiveRowOwned
    <2> QED BY <1>1, <1>2, <2>1, <2>2 DEF OwnsRow
  <1>7. EndsQuietly'
    <2>1. \A v \in Workers : phase'[v] = "none"
      BY <1>1, <1>2 DEF IInv, EndsQuietly
    <2>2. outcome = "result" => ~display.activeTrial /\ display.tickerStop = 0
      BY DEF IInv, EndsQuietly
    <2> QED BY <1>1, <1>2, <2>1, <2>2 DEF EndsQuietly
  <1> QED BY <1>3, <1>4, <1>5, <1>6, <1>7 DEF IInv

LEMMA CleanUpKeeps == IInv /\ CleanUp => IInv'
  <1> SUFFICES ASSUME IInv, CleanUp PROVE IInv'
    OBVIOUS
  <1>1. stage = "cleanup" /\ Whole(display)
    BY DEF CleanUp, IInv
  <1>2. CASE display' = DetailCall(display) /\ UNCHANGED stage
    <2>1. /\ Whole(display')
          /\ display'.searching = display.searching
          /\ display'.activeTrial => display.activeTrial
          /\ display.tickerStop = 0 => display'.tickerStop = 0
      BY <1>1, <1>2, DetailCallIs
    <2> QED BY <1>1, <1>2, <2>1, EndingKeeps DEF CleanUp, Ending
  <1>3. CASE UNCHANGED display /\ stage' = "report"
    BY <1>1, <1>3, EndingKeeps DEF CleanUp, Ending
  <1> QED BY <1>2, <1>3 DEF CleanUp

LEMMA ReportKeeps == IInv /\ Report => IInv'
  <1> SUFFICES ASSUME IInv, Report PROVE IInv'
    OBVIOUS
  <1>1. /\ stage = "report" /\ stage' = "message" /\ Whole(display)
        /\ display' = IF outcome = "error" THEN Interrupt(display) ELSE display
    BY DEF Report, IInv
  <1>2. /\ Whole(display') /\ display'.searching = display.searching
        /\ ~display'.activeTrial /\ display'.tickerStop = 0
    <2>1. CASE outcome = "error"
      BY <1>1, <2>1, InterruptIs
    <2>2. CASE outcome # "error"
      <3>1. outcome = "result"
        BY <1>1, <2>2, Typed DEF IInv, EndsQuietly, Ending
      <3> QED BY <1>1, <2>2, <3>1 DEF IInv, EndsQuietly
    <2> QED BY <2>1, <2>2
  <1> QED BY <1>1, <1>2, EndingKeeps DEF Report, Ending

LEMMA MessageKeeps == IInv /\ Message => IInv'
  <1> SUFFICES ASSUME IInv, Message PROVE IInv'
    OBVIOUS
  <1>1. /\ stage = "message" /\ stage' = "done" /\ Whole(display)
        /\ ~display.activeTrial /\ display.tickerStop = 0
    BY DEF Message, IInv, EndsQuietly
  <1>2. display' = display
    BY <1>1, WriteRowIs DEF Message
  <1> QED BY <1>1, <1>2, EndingKeeps DEF Message, Ending

LEMMA MoveTickerIs ==
    ASSUME NEW d, Whole(d), NEW t \in DOMAIN d.tickers,
           NEW where \in {"select", "tick", "gone"}
    PROVE  LET e == MoveTicker(d, t, where) IN
           /\ t = 1 /\ ModernActive /\ d.searching /\ d.begun
           /\ Whole(e) /\ d.tickers # << >>
           /\ e.activeTrial = d.activeTrial /\ e.begun = d.begun
           /\ e.searching = d.searching /\ e.tickerStop = d.tickerStop
  <1> DEFINE e == MoveTicker(d, t, where)
             s == [d.tickers EXCEPT ![t] = where]
  <1>1. d \in Display
    BY DEF Whole
  <1>2. d.tickers \in [{1} -> {"select", "tick", "gone"}] /\ d.tickers # << >> /\ t = 1
    <2>1. d.tickers # << >>
      OBVIOUS
    <2> QED BY <1>1, <2>1 DEF Display
  <1>3. s \in [{1} -> {"select", "tick", "gone"}] /\ s # << >>
    <2>1. s \in [{1} -> {"select", "tick", "gone"}]
      BY <1>2
    <2>2. 1 \in DOMAIN s
      BY <2>1
    <2> QED BY <2>1, <2>2
  <1>4. e = [d EXCEPT !.tickers = s]
    BY DEF MoveTicker
  <1> HIDE DEF s
  <1>5. /\ e \in Display /\ e.tickers = s /\ e.tickerStop = d.tickerStop
        /\ e.activeTrial = d.activeTrial /\ e.begun = d.begun
        /\ e.searching = d.searching /\ e.line = d.line /\ e.spoilt = d.spoilt
    BY <1>1, <1>3, <1>4 DEF Display
  <1> HIDE DEF e
  <1>6. ModernActive /\ d.searching /\ d.begun
    BY <1>2 DEF Whole
  <1>7. Whole(e)
    BY <1>2, <1>3, <1>5 DEF Whole
  <1>8. e = MoveTicker(d, t, where)
    BY DEF e
  <1> QED BY <1>2, <1>5, <1>6, <1>7, <1>8

(* The goroutine moves on, and draws a frame only while it is the one that *)
(* animates: then the run has neither a result nor a message yet.          *)
LEMMA TickerKeeps == ASSUME NEW t \in DOMAIN display.tickers PROVE IInv /\ Ticker(t) => IInv'
  <1> SUFFICES ASSUME IInv, Ticker(t) PROVE IInv'
    OBVIOUS
  <1>1. /\ UNCHANGED style /\ stage' = stage /\ left' = left /\ phase' = phase
        /\ failing' = failing /\ outcome' = outcome
        /\ (ModernActive' <=> ModernActive) /\ Whole(display)
    BY DEF Ticker, IInv, style, trials, ModernActive
  <1>2. /\ t = 1 /\ ModernActive /\ display.searching /\ display.begun
        /\ display.tickers # << >>
    BY <1>1, MoveTickerIs
  <1>3. \/ \E where \in {"select", "tick", "gone"} : display' = MoveTicker(display, t, where)
        \/ /\ display.tickerStop = t
           /\ display' = RefreshDdmin(MoveTicker(display, t, "select"))
    BY DEF Ticker, SelectStop, SelectTick, Frame
  <1>4. /\ Whole(display') /\ display'.searching
        /\ \/ /\ display'.activeTrial = display.activeTrial
              /\ display'.tickerStop = display.tickerStop
           \/ display.tickerStop = 1 /\ display'.tickerStop = 1
    <2>1. CASE \E where \in {"select", "tick", "gone"} : display' = MoveTicker(display, t, where)
      BY <1>1, <1>2, <2>1, MoveTickerIs
    <2>2. CASE /\ display.tickerStop = t
               /\ display' = RefreshDdmin(MoveTicker(display, t, "select"))
      <3> DEFINE m == MoveTicker(display, t, "select")
      <3>1. /\ Whole(m) /\ m.searching /\ m.begun /\ m.tickerStop = 1
        BY <1>1, <1>2, <2>2, MoveTickerIs
      <3> HIDE DEF m
      <3>2. Whole(RefreshDdmin(m)) /\ RefreshDdmin(m).searching /\ RefreshDdmin(m).tickerStop = 1
        BY <1>2, <3>1, RefreshIs
      <3> QED BY <1>2, <2>2, <3>2 DEF m
    <2> QED BY <1>3, <2>1, <2>2
  <1>5. Whole(display)'
    BY <1>1, <1>4, WholeAfter
  <1>6. TypeOK'
    <2>1. /\ stage' \in AllStages /\ left' \in 0..Trials + 1 /\ failing' \in BOOLEAN
          /\ outcome' \in {"none", "result", "error"}
          /\ phase' \in [Workers -> Live \cup {"none", "detail"}]
      BY <1>1, Typed
    <2> QED BY <1>1, <1>5, <2>1, TypedAfter
  <1>7. Animated'
    BY <1>1, <1>2, <1>4 DEF IInv, Animated
  <1>8. LiveRowOwned'
    BY <1>1, <1>2, <1>4 DEF LiveRowOwned, OwnsRow
  <1>9. EndsQuietly'
    <2>1. /\ \A w \in Workers : phase'[w] # "none" => stage' \in Roles
          /\ outcome' = "none" <=> stage' \notin Ending
      BY <1>1 DEF IInv, EndsQuietly
    <2>2. outcome = "result" \/ stage \in {"message", "done"} =>
             ~display.activeTrial /\ display.tickerStop = 0
      BY DEF IInv, EndsQuietly
    <2> QED BY <1>1, <1>4, <2>1, <2>2 DEF EndsQuietly
  <1> QED BY <1>5, <1>6, <1>7, <1>8, <1>9 DEF IInv

LEMMA StutterKeeps == IInv /\ UNCHANGED vars => IInv'
  <1> SUFFICES ASSUME IInv, UNCHANGED vars PROVE IInv'
    OBVIOUS
  <1> USE DEF vars, style, trials
  <1>1. TypeOK'
    BY DEF IInv, TypeOK
  <1>2. Whole(display)'
    BY DEF IInv, Whole, ModernActive
  <1>3. Animated' /\ LiveRowOwned'
    BY DEF IInv, Animated, LiveRowOwned, OwnsRow, ModernActive
  <1>4. EndsQuietly'
    BY DEF IInv, EndsQuietly
  <1> QED BY <1>1, <1>2, <1>3, <1>4 DEF IInv

LEMMA NextIInv == IInv /\ [Next]_vars => IInv'
  <1> SUFFICES ASSUME IInv, [Next]_vars PROVE IInv'
    OBVIOUS
  <1>1. CASE Announce
    BY <1>1, AnnounceKeeps
  <1>2. CASE NotResumed \/ EndEarly
    BY <1>2, QuietStageKeeps
  <1>3. ASSUME NEW w \in Workers,
               BeginTrial(w) \/ GoOn(w) \/ Verdict(w) \/ Detail(w) \/ TrialFails(w)
        PROVE  IInv'
    BY <1>3, BeginTrialKeeps, GoOnKeeps, VerdictKeeps, DetailKeeps, TrialFailsKeeps
  <1>4. CASE TrialsOver
    BY <1>4, TrialsOverKeeps
  <1>5. CASE CleanUp \/ Report \/ Message
    BY <1>5, CleanUpKeeps, ReportKeeps, MessageKeeps
  <1>6. ASSUME NEW t \in DOMAIN display.tickers, Ticker(t) PROVE IInv'
    BY <1>6, TickerKeeps
  <1>7. CASE UNCHANGED vars
    BY <1>7, StutterKeeps
  <1> QED BY <1>1, <1>2, <1>3, <1>4, <1>5, <1>6, <1>7 DEF Next, Run, Done

---------------------------------------------------------------------------
(* The strengthening holds in every state of every run of the display,     *)
(* whatever the animation is about to do (startTicker, refreshDdmin and    *)
(* interrupt in output.go).                                                *)
THEOREM Invariance == Spec => []IInv
  BY InitIInv, NextIInv, PTL DEF Spec

(* Stages, phases and the display's fields keep their types, and at most   *)
(* one goroutine that animates is ever started (startTicker in output.go). *)
THEOREM TypeCorrect == Spec => []TypeOK
  <1>1. IInv => TypeOK
    BY DEF IInv
  <1> QED BY <1>1, Invariance, PTL

(* Nothing is written behind a live row, and none appears behind the last  *)
(* message, for any number of workers and trials, any kind of output and   *)
(* any moment of a tick (trial, refreshDdmin, interrupt in output.go).     *)
THEOREM RowsCorrect == Spec => []RowsAreWhole
  <1>1. IInv => RowsAreWhole
    <2> SUFFICES ASSUME IInv PROVE RowsAreWhole
      OBVIOUS
    <2>1. Whole(display) /\ EndsQuietly
      BY DEF IInv
    <2>2. display.line \in {"text", "live"}
      BY <2>1 DEF Whole, Display
    <2>3. stage = "done" => ~display.activeTrial
      BY <2>1 DEF EndsQuietly
    <2> QED BY <2>1, <2>2, <2>3 DEF Whole, RowsAreWhole
  <1> QED BY <1>1, Invariance, PTL
=============================================================================
