----------------------------- MODULE MCExecutor -----------------------------
(***************************************************************************)
(* The instances of Executor for TLC.                                      *)
(***************************************************************************)
EXTENDS Executor

AllVerdicts == {"pass", "flaky", "fail", "unresolved"}
AllFaults   == {"step", "write", "stop"}

(* Two lanes for up to three candidates, or one at a time.  Looked at are  *)
(* every kind of verdict; every fault, with a crash and a resume (those of *)
(* the checkpoint apart from the others when there are two lanes); and two *)
(* resumes, one to append to a torn file and one to be refused it.         *)
Scenario(jobs, verdicts, faults, restarted) ==
    [jobs |-> jobs, verdicts |-> verdicts, faults |-> faults, restarts |-> restarted]
MCScenarios ==
    {Scenario(j, AllVerdicts, {}, 0) : j \in {1, 2}}
    \cup {Scenario(2, {"pass", "fail"}, faults, 1) : faults \in {{"step", "stop"}, {"write"}}}
    \cup {Scenario(1, {"pass", "fail"}, AllFaults, 1),
          Scenario(1, {"pass", "fail"}, {"write"}, 2)}

(* Two lanes and a step that fails. *)
MCFailingStep ==
    {[jobs |-> 2, verdicts |-> {"pass", "fail"}, faults |-> {"step"}, restarts |-> 0]}
=============================================================================
