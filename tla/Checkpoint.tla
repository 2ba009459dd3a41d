----------------------------- MODULE Checkpoint -----------------------------
(***************************************************************************)
(* The checkpoint file and the processes that write and resume from it:    *)
(* FileStore of internal/checkpoint, and engine.Run as far as it uses it.  *)
(*                                                                         *)
(* The file is a sequence of lines.  A write may be cut short, by a crash  *)
(* of the process or by an error of the file system, and then leaves a     *)
(* line without its newline, whose text may or may not be a record.  The   *)
(* next record is appended behind whatever the file ends with.  A run is   *)
(* repeated by the user with or without --resume and may be given another  *)
(* command, which changes its fingerprint.                                 *)
(***************************************************************************)
EXTENDS Integers, Sequences, SequencesExt

CONSTANTS
    Subsets,        \* the candidate subsets a run records trials of
    Fingerprints,   \* the fingerprints of the runs the user may ask for
    Outcomes,       \* the outcomes of a trial
    MaxProcesses    \* bound: how many processes use the file

ASSUME MaxProcessesAssumption == MaxProcesses \in Nat

VARIABLES
    file,       \* the lines of the file, or NoFile
    process,    \* the fingerprint of the process that runs, or Nobody
    memo,       \* its trials: subset -> outcome
    storeOn,    \* it still writes the checkpoint
    durable,    \* the records whose Append reported success since Start
    decided,    \* history: all trials ever run, as <<fingerprint, subset, outcome>>
    processes   \* number of processes so far

vars == <<file, process, memo, storeOn, durable, decided, processes>>

NoFile  == "no-file"
Nobody  == "nobody"
Garbage == [type |-> "garbage"]

Header(f)   == [type |-> "checkpoint", fingerprint |-> f]
Trial(s, o) == [type |-> "trial", subset |-> s, outcome |-> o]
Trials      == {Trial(s, o) : s \in Subsets, o \in Outcomes}
Record      == {Header(f) : f \in Fingerprints} \cup Trials
Line        == [rec : Record \cup {Garbage}, ended : BOOLEAN]

TypeOK ==
    /\ file = NoFile \/ file \in Seq(Line)
    /\ process \in Fingerprints \cup {Nobody}
    /\ DOMAIN memo \subseteq Subsets
    /\ \A s \in DOMAIN memo : memo[s] \in Outcomes
    /\ storeOn \in BOOLEAN
    /\ durable \in Seq(Trials)
    /\ decided \subseteq Fingerprints \X Subsets \X Outcomes
    /\ processes \in 0..MaxProcesses

---------------------------------------------------------------------------
(* How much of a record and its newline reaches the file. *)
Extent == {"all", "no-newline", "part", "nothing"}

(* Write behind the last line: on a line of its own if that line ended,    *)
(* and otherwise on the same line, which then is no JSON document.         *)
Write(lines, rec, extent) ==
    CASE extent = "nothing" -> lines
      [] extent # "nothing" /\ lines # << >> /\ ~Last(lines).ended ->
            Append(Front(lines), [rec |-> Garbage, ended |-> extent = "all"])
      [] OTHER ->
            Append(lines, [rec   |-> IF extent = "part" THEN Garbage ELSE rec,
                           ended |-> extent = "all"])

(* A last line that does not parse and has no newline is a truncated tail, *)
(* which Load ignores.                                                     *)
Parsed(lines) ==
    IF lines # << >> /\ Last(lines).rec = Garbage /\ ~Last(lines).ended
    THEN Front(lines) ELSE lines

(* Load returns a checkpoint: one header, in front, and trials after it.   *)
Loadable ==
    /\ file # NoFile
    /\ LET lines == Parsed(file) IN
       /\ lines # << >>
       /\ lines[1].rec.type = "checkpoint"
       /\ \A i \in 2..Len(lines) : lines[i].rec.type = "trial"

LoadedTrials == [i \in 1..Len(Parsed(file)) - 1 |-> Parsed(file)[i + 1].rec]

(* Mutant: a checkpoint of another run is accepted. *)
ValidAnyFingerprint(f) ==
    /\ Loadable
    /\ \A i, j \in DOMAIN LoadedTrials :
          LoadedTrials[i].subset = LoadedTrials[j].subset => i = j

(* validateCheckpoint: the fingerprint of this run, no subset twice. *)
Valid(f) ==
    /\ Loadable
    /\ Parsed(file)[1].rec = Header(f)
    /\ \A i, j \in DOMAIN LoadedTrials :
          LoadedTrials[i].subset = LoadedTrials[j].subset => i = j

---------------------------------------------------------------------------
Init ==
    /\ file = NoFile
    /\ process = Nobody
    /\ memo = << >>
    /\ storeOn = FALSE
    /\ durable = << >>
    /\ decided = {}
    /\ processes = 0

NewProcess ==
    /\ process = Nobody
    /\ processes < MaxProcesses
    /\ processes' = processes + 1

(* A run without --resume: Start truncates the file and writes the header. *)
StartRun(f) ==
    /\ NewProcess
    /\ file' = Write(<< >>, Header(f), "all")
    /\ process' = f
    /\ storeOn' = TRUE
    /\ memo' = << >>
    /\ durable' = << >>
    /\ UNCHANGED decided

(* Start fails before or after it truncated the file, or the process dies  *)
(* there; the run ends.                                                    *)
StartFails(f) ==
    /\ NewProcess
    /\ \/ UNCHANGED <<file, durable>>
       \/ /\ \E extent \in Extent : file' = Write(<< >>, Header(f), extent)
          /\ durable' = << >>
    /\ UNCHANGED <<process, memo, storeOn, decided>>

(* Mutant: the restored trials do not reach the memo. *)
ResumeForgetting(f) ==
    /\ NewProcess
    /\ Valid(f)
    /\ process' = f
    /\ storeOn' = TRUE
    /\ memo' = << >>
    /\ UNCHANGED <<file, durable, decided>>

(* A run with --resume, when the checkpoint loads and is this run's. *)
ResumeRun(f) ==
    /\ NewProcess
    /\ Valid(f)
    /\ process' = f
    /\ storeOn' = TRUE
    /\ memo' = [s \in {LoadedTrials[i].subset : i \in DOMAIN LoadedTrials} |->
                  (CHOOSE t \in Range(LoadedTrials) : t.subset = s).outcome]
    /\ UNCHANGED <<file, durable, decided>>

(* Otherwise it ends with an error and leaves the file alone. *)
ResumeRefused(f) ==
    /\ NewProcess
    /\ ~Valid(f)
    /\ UNCHANGED <<file, process, memo, storeOn, durable, decided>>

(* Mutant: the trial is appended before it is classified. *)
RecordTrialUnclassified(s, o) ==
    /\ process # Nobody
    /\ s \notin DOMAIN memo
    /\ memo' = [k \in DOMAIN memo \cup {s} |-> IF k = s THEN o ELSE memo[k]]
    /\ decided' = decided \cup {<<process, s, o>>}
    /\ file' = Write(file, Trial(s, ""), "all")
    /\ durable' = Append(durable, Trial(s, ""))
    /\ UNCHANGED <<process, storeOn, processes>>

(* A subset without a trial is evaluated; record keeps it in memory and    *)
(* appends it, unless a write has failed before.                           *)
RecordTrial(s, o) ==
    /\ process # Nobody
    /\ s \notin DOMAIN memo
    /\ memo' = [k \in DOMAIN memo \cup {s} |-> IF k = s THEN o ELSE memo[k]]
    /\ decided' = decided \cup {<<process, s, o>>}
    /\ \/ /\ storeOn
          /\ file' = Write(file, Trial(s, o), "all")
          /\ durable' = Append(durable, Trial(s, o))
          /\ UNCHANGED storeOn
       \/ /\ storeOn
          /\ \E extent \in Extent : file' = Write(file, Trial(s, o), extent)
          /\ storeOn' = FALSE
          /\ UNCHANGED durable
       \/ /\ ~storeOn
          /\ UNCHANGED <<file, storeOn, durable>>
    /\ UNCHANGED <<process, processes>>

Exit ==
    /\ process # Nobody
    /\ process' = Nobody
    /\ memo' = << >>
    /\ storeOn' = FALSE
    /\ UNCHANGED processes

(* The process dies, or fails, between two trials. *)
Die == Exit /\ UNCHANGED <<file, durable, decided>>

(* It dies while a trial is being appended. *)
DieWriting(s, o) ==
    /\ Exit
    /\ storeOn
    /\ s \notin DOMAIN memo
    /\ decided' = decided \cup {<<process, s, o>>}
    /\ \E extent \in Extent : file' = Write(file, Trial(s, o), extent)
    /\ UNCHANGED durable

(* The run finishes and removes the checkpoint, or fails to. *)
Finish ==
    /\ Exit
    /\ memo # << >>
    /\ \/ file' = NoFile /\ durable' = << >>
       \/ UNCHANGED <<file, durable>>
    /\ UNCHANGED decided

Next ==
    \/ \E f \in Fingerprints : StartRun(f) \/ StartFails(f) \/ ResumeRun(f) \/ ResumeRefused(f)
    \/ \E s \in Subsets, o \in Outcomes : RecordTrial(s, o) \/ DieWriting(s, o)
    \/ Die
    \/ Finish

Spec == Init /\ [][Next]_vars

---------------------------------------------------------------------------
(* What a run restores was decided by a run with the same fingerprint:     *)
(* neither another command's trials nor a half-written one.                *)
RestoredTrialsAreReal ==
    \A f \in Fingerprints : Valid(f) =>
        \A i \in DOMAIN LoadedTrials :
            <<f, LoadedTrials[i].subset, LoadedTrials[i].outcome>> \in decided

(* A record was appended to a line that an earlier write left unfinished.  *)
Glued ==
    /\ file # NoFile
    /\ \E i \in DOMAIN file : file[i].rec = Garbage /\ (file[i].ended \/ i < Len(file))

Survives(trial) == Loadable /\ trial \in Range(LoadedTrials)

(* A process that dies, or whose writes fail, costs no trial that Append   *)
(* reported as saved, as long as nothing was appended to a torn line: the  *)
(* file loads, and the run it belongs to accepts it, so no resumed run has *)
(* written a second trial of a subset.                                     *)
SavedTrialsSurvive ==
    file # NoFile /\ ~Glued /\ durable # << >> =>
        /\ \A i \in DOMAIN durable : Survives(durable[i])
        /\ \E f \in Fingerprints : Valid(f)

(* "A crash can damage only the final record, which Load safely ignores    *)
(* when it is truncated" (store.go:14): of the trials reported as saved,   *)
(* none is lost, however often the run is interrupted and resumed.         *)
CrashCostsOnlyFinalRecord ==
    file # NoFile => \A i \in DOMAIN durable : Survives(durable[i])
=============================================================================
