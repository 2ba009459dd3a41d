--------------------------- MODULE ExecutorProofs ---------------------------
(***************************************************************************)
(* For every number of changes and every job count, whatever the verdicts, *)
(* whatever fails, and however often the run dies and is resumed: no lane  *)
(* is lost or shared, no subset is evaluated twice, a verdict is about the *)
(* subset it is filed under, and what the run claims to have found is what *)
(* ddmin's contract promises, for the run of a process is a run of ddmin.  *)
(***************************************************************************)
EXTENDS Executor, SlicesProofs

(* What is proved of Ddmin, about the search the run makes. *)
DP == INSTANCE DdminProofs WITH known    <- Known,
                                Outcomes <- {"pass", "fail", "unresolved"}

---------------------------------------------------------------------------
(* The inductive invariant, in parts. *)

HoldsLane(i)  == pc[i] \in {"prepare", "install", "verify"}
Evaluating(i) == pc[i] = "acquire" \/ HoldsLane(i)

(* A worker has a lane exactly while it works in the lane's worktree. *)
LanesHeld ==
    /\ \A i \in Worker : lane[i] # 0 <=> HoldsLane(i)
    /\ LanesConserved

(* From the reset on, nothing but the candidate is in the worktree. *)
TreesHeld ==
    \A i \in Worker : pc[i] \in {"install", "verify"} => tree[lane[i]] = {Batch[i]}

(* Only workers of the batch work, and none when the run is over. *)
WorkersInBatch ==
    \A i \in Worker :
        /\ Running /\ pc[i] # "start" => i \in DOMAIN Batch
        /\ ~Running => pc[i] \in {"start", "done"}

(* What is evaluated has no trial yet, and what a worker reported is what  *)
(* the memo holds.                                                         *)
VerdictsFiled ==
    \A i \in Worker :
        /\ Evaluating(i) => Batch[i] \notin DOMAIN memo
        /\ Running /\ failed[i] =>
              pc[i] = "done" /\ Batch[i] \in DOMAIN memo /\ memo[Batch[i]] = "fail"
        /\ Running /\ pc[i] = "done" /\ firstErr = "none" =>
              Batch[i] \in DOMAIN memo /\ (memo[Batch[i]] = "fail" => failed[i])

(* Without lanes to share the candidates are evaluated in index order, up  *)
(* to the first failure or error.                                          *)
TurnsTaken ==
    Running /\ ~Parallel =>
        \A i \in Worker :
            /\ pc[i] # "start" => \A j \in 1..i - 1 : pc[j] = "done" /\ ~failed[j]
            /\ pc[i] \notin {"start", "done"} => firstErr = "none"

(* An interruption has a cause, and a cancellation was preceded by one. *)
ErrorsKept ==
    /\ \A i \in Worker : pc[i] = "erred" => fault[i] # "none"
    /\ \A i \in Worker : fault[i] = "interrupted" => CtxDone
    /\ cancelled => firstErr # "none"
    /\ RootCauseReported

(* A stage is reached when those before it established what it needs. *)
StagesInOrder ==
    /\ stage = "search" => D!Searching
    /\ stage = "minimality" => phase = "done"
    /\ stage \in {"baseline-old", "baseline-new"} => phase \in {"chunks", "done"}
    /\ stage \in {"baseline-new", "search", "minimality"} =>
          << >> \in DOMAIN memo /\ memo[<< >>] = "pass"
    /\ stage \in {"search", "minimality"} =>
          Items \in DOMAIN memo /\ memo[Items] = "fail"
    /\ outcome # "none" => stage = "finished"

IInv ==
    /\ TypeOK
    /\ DP!IInv
    /\ LanesHeld
    /\ TreesHeld
    /\ WorkersInBatch
    /\ VerdictsFiled
    /\ TurnsTaken
    /\ ErrorsKept
    /\ StagesInOrder
    /\ CheckpointComplete
    /\ ProvenIsOneMinimal

---------------------------------------------------------------------------
(* The search the run makes is the one DdminProofs is about. *)
LEMMA SameSearch ==
    /\ DP!vars = D!vars
    /\ DP!Searching <=> D!Searching
    /\ DP!Candidates = D!Candidates
    /\ DP!Next <=> D!Next
  <1>1. DP!vars = D!vars
    BY DEF DP!vars, D!vars
  <1>2. DP!Searching <=> D!Searching
    BY DEF DP!Searching, D!Searching
  <1>3. DP!Candidates = D!Candidates
    <2>1. DP!Split(current, n) = D!Split(current, n)
      BY DEF DP!Split, DP!Chunk, DP!ItemsBefore, DP!Smaller,
             D!Split, D!Chunk, D!ItemsBefore, D!Smaller
    <2>2. DP!Complements(current, n) = D!Complements(current, n)
      BY DEF DP!Complements, DP!Complement, DP!ItemsBefore, DP!Smaller,
             D!Complements, D!Complement, D!ItemsBefore, D!Smaller
    <2> QED BY <2>1, <2>2 DEF DP!Candidates, D!Candidates
  <1>4. ASSUME NEW i PROVE DP!Learn(i) <=> D!Learn(i)
    BY <1>3 DEF DP!Learn, D!Learn
  <1>5. DP!Answer <=> D!Answer
    <2>1. ASSUME NEW i PROVE DP!LowestFailing(i) <=> D!LowestFailing(i)
      BY <1>3
      DEF DP!LowestFailing, DP!Fails, DP!Refuted, D!LowestFailing, D!Fails, D!Refuted
    <2>2. DP!NoneFails <=> D!NoneFails
      BY <1>3 DEF DP!NoneFails, DP!Refuted, D!NoneFails, D!Refuted
    <2>3. ASSUME NEW i PROVE DP!Reduce(i) <=> D!Reduce(i)
      BY DEF DP!Reduce, DP!AdoptChunk, DP!AdoptComplement, DP!LoopFrom,
             DP!Chunk, DP!Complement, DP!ItemsBefore, DP!Smaller, DP!Larger,
             D!Reduce, D!AdoptChunk, D!AdoptComplement, D!LoopFrom,
             D!Chunk, D!Complement, D!ItemsBefore, D!Smaller, D!Larger
    <2>4. DP!NotReduced <=> D!NotReduced
      BY DEF DP!NotReduced, DP!TryComplements, DP!IncreaseGranularity, DP!Stop, DP!LastBatch,
             DP!Smaller, D!NotReduced, D!TryComplements, D!IncreaseGranularity, D!Stop,
             D!LastBatch, D!Smaller
    <2> QED BY <1>3, <2>1, <2>2, <2>3, <2>4 DEF DP!Answer, D!Answer
  <1>6. DP!Abort <=> D!Abort
    BY <1>2 DEF DP!Abort, D!Abort
  <1>7. DP!Finished <=> D!Finished
    BY <1>2 DEF DP!Finished, DP!vars, D!Finished, D!vars
  <1>8. DP!Step <=> D!Step
    BY <1>2, <1>3, <1>4, <1>5, <1>6 DEF DP!Step, D!Step
  <1> QED BY <1>1, <1>2, <1>3, <1>7, <1>8 DEF DP!Next, D!Next

(* The batch and how it is evaluated depend on nothing else. *)
LEMMA BatchKept ==
    ASSUME UNCHANGED <<scenario, stage, search>>
    PROVE  /\ Batch' = Batch
           /\ Parallel' <=> Parallel
           /\ Running' <=> Running
           /\ Lanes' = Lanes
           /\ D!Searching' <=> D!Searching
  <1>1. D!Candidates' = D!Candidates
    BY DEF search, D!Candidates
  <1>2. Batch' = Batch
    BY <1>1 DEF search, Batch
  <1> QED BY <1>2 DEF search, Parallel, Running, Lanes, Jobs, D!Searching

(* A batch names workers, and each candidate once. *)
BatchOk ==
    /\ DOMAIN Batch \subseteq Worker
    /\ \A i \in DOMAIN Batch, j \in Worker : j < i => j \in DOMAIN Batch
    /\ \A i \in DOMAIN Batch : Batch[i] \in Subset
    /\ \A i, j \in DOMAIN Batch : Batch[i] = Batch[j] => i = j
    /\ ~Running => DOMAIN Batch = {}

LEMMA BatchProperties == ASSUME TypeOK, DP!IInv, StagesInOrder PROVE BatchOk
  <1>1. N \in Nat /\ N >= 1
    BY ChangesAssumption
  <1>2. Items \in Subset /\ Len(Items) = N
    BY DP!ItemsProperties, ChangesAssumption DEF Items, DP!Items, Subset
  <1>3. CASE stage = "baseline-old"
    <2>1. Batch = << << >> >>
      BY <1>3 DEF Batch
    <2>2. << >> \in Subset
      BY EmptySeq DEF Subset
    <2> QED BY <1>1, <1>3, <2>1, <2>2 DEF BatchOk, Worker, Running
  <1>4. CASE stage = "baseline-new"
    <2>1. Batch = <<Items>>
      BY <1>4 DEF Batch
    <2> QED BY <1>1, <1>2, <1>4, <2>1 DEF BatchOk, Worker, Running
  <1>5. CASE stage = "search"
    <2>1. Batch = DP!Candidates
      BY <1>5, SameSearch DEF Batch
    <2>2. DP!Searching
      BY <1>5, SameSearch DEF StagesInOrder
    <2>3. DP!TypeOK /\ DP!Granular /\ DP!OrderPreserved
      BY DEF DP!IInv
    <2>4. DOMAIN DP!Candidates = 1..n
      BY <2>2, <2>3, DP!CandidatesOfPhase, ChangesAssumption DEF DP!Searching
    <2>5. \A i \in 1..n : DP!Candidates[i] \in Subset
      BY <2>2, <2>3, DP!CandidateProperties, ChangesAssumption DEF DP!Subset, Subset
    <2>6. \A i, j \in 1..n : i # j => DP!Candidates[i] # DP!Candidates[j]
      BY <2>2, <2>3, DP!CandidatesDiffer, ChangesAssumption
    <2>7. n \in 1..N
      BY <1>1, <2>2, <2>3
      DEF DP!TypeOK, DP!Granular, DP!GranularityInRange, DP!Subset
    <2>8. 1..n \subseteq Worker /\ \A i \in 1..n, j \in Worker : j < i => j \in 1..n
      BY <1>1, <2>7 DEF Worker
    <2>9. Running
      BY <1>5 DEF Running
    <2> QED BY <2>1, <2>4, <2>5, <2>6, <2>8, <2>9 DEF BatchOk
  <1>6. CASE stage = "minimality"
    <2>1. DOMAIN Batch = 1..Len(current) /\ \A i \in 1..Len(current) : Batch[i] = Without(current, i)
      BY <1>6 DEF Batch, Neighbors
    <2>2. current \in Seq(1..N) /\ current \in Seq(Nat) /\ Increasing(current)
      <3>1. 1..N \subseteq Nat /\ current \in Seq(1..N)
        BY <1>1 DEF TypeOK, Subset
      <3>2. current \in Seq(Nat)
        BY <3>1, SeqMonotonic
      <3> QED BY <3>1, <3>2 DEF DP!IInv, DP!OrderPreserved, Increasing
    <2>3. \A i \in 1..Len(current) : Batch[i] \in Subset
      BY <2>1, <2>2, WithoutProperties DEF Subset
    <2>4. \A i, j \in 1..Len(current) : i < j => Batch[i] # Batch[j]
      BY <2>1, <2>2, NeighborsDiffer
    <2>5. Len(current) \in Nat /\ Len(current) <= N
      BY <2>2 DEF DP!IInv, DP!Granular
    <2>6. \A i, j \in 1..Len(current) : Batch[i] = Batch[j] => i = j
      BY <2>4, <2>5
    <2> QED BY <1>1, <1>6, <2>1, <2>3, <2>5, <2>6 DEF BatchOk, Worker, Running
  <1>7. CASE ~Running
    <2>1. Batch = << >>
      BY <1>7 DEF Batch, Running
    <2> QED BY <1>7, <2>1 DEF BatchOk
  <1> QED BY <1>3, <1>4, <1>5, <1>6, <1>7 DEF Running

---------------------------------------------------------------------------
(* A worker's step. *)

(* Only a worker of the running batch takes one, and the loop that made    *)
(* the batch waits.                                                        *)
LEMMA WorkerRuns ==
    ASSUME IInv, NEW i \in Worker, WorkerStep(i)
    PROVE  /\ UNCHANGED <<stage, outcome, search, stopped, restarts>>
           /\ Running
           /\ i \in DOMAIN Batch
           /\ pc[i] # "done"
           /\ pc[i] = "start" => Turn(i)
  <1>1. BatchOk
    BY BatchProperties DEF IInv
  <1>2. /\ UNCHANGED <<stage, outcome, search, stopped, restarts>>
        /\ pc[i] # "done"
        /\ pc[i] = "start" => Turn(i)
    BY DEF WorkerStep, MemoHit, Miss, Acquire, Interrupted, Prepare, Install,
           InstallRejected, Verify, Record, StepFails, Report
  <1>3. CASE pc[i] = "start"
    BY <1>1, <1>2, <1>3 DEF Turn, BatchOk
  <1>4. CASE pc[i] # "start"
    <2>1. Running
      BY <1>2, <1>4 DEF IInv, WorkersInBatch
    <2> QED BY <1>2, <1>4, <2>1 DEF IInv, WorkersInBatch
  <1> QED BY <1>2, <1>3, <1>4

(* The ways a step can move the worker and its lane. *)
LEMMA WorkerMoves ==
    ASSUME IInv, NEW i \in Worker, WorkerStep(i)
    PROVE  \/ /\ UNCHANGED <<free, lane, tree>>
              /\ ~HoldsLane(i)
              /\ \E p \in {"acquire", "erred", "done"} : pc' = [pc EXCEPT ![i] = p]
           \/ Acquire(i)
           \/ Prepare(i)
           \/ Install(i)
           \/ /\ ReleaseLane(i)
              /\ HoldsLane(i)
              /\ \E p \in {"erred", "done"} : pc' = [pc EXCEPT ![i] = p]
  BY DEF WorkerStep, MemoHit, Miss, Interrupted, InstallRejected, Verify, Record, StepFails,
         Report, Return, HoldsLane

LEMMA WorkerLanesHeld ==
    ASSUME IInv, NEW i \in Worker, WorkerStep(i), UNCHANGED scenario
    PROVE  LanesHeld'
  <1>1. /\ pc \in [Worker -> {"start", "acquire", "prepare", "install", "verify", "erred", "done"}]
        /\ lane \in [Worker -> Lanes \cup {0}]
        /\ free \subseteq Lanes
    BY DEF IInv, TypeOK
  <1>2. /\ \A j \in Worker : lane[j] # 0 <=> HoldsLane(j)
        /\ \A j, k \in Worker : lane[j] # 0 /\ lane[j] = lane[k] => j = k
        /\ \A l \in Lanes : l \in free <=> \A j \in Worker : lane[j] # l
    <2>1. 0 \notin Lanes
      BY DEF Lanes
    <2> QED BY <1>1, <2>1 DEF IInv, LanesHeld, LanesConserved, Holding
  <1>3. Lanes' = Lanes /\ 0 \notin Lanes
    BY WorkerRuns, BatchKept DEF Lanes
  <1>4. SUFFICES /\ \A j \in Worker : lane'[j] # 0 <=> HoldsLane(j)'
                 /\ \A j, k \in Worker : lane'[j] # 0 /\ lane'[j] = lane'[k] => j = k
                 /\ \A l \in Lanes : l \in free' <=> \A j \in Worker : lane'[j] # l
                 /\ free' \subseteq Lanes
    BY <1>3 DEF LanesHeld, LanesConserved, Holding
  <1>5. CASE /\ UNCHANGED <<free, lane, tree>>
             /\ ~HoldsLane(i)
             /\ \E p \in {"acquire", "erred", "done"} : pc' = [pc EXCEPT ![i] = p]
    BY <1>1, <1>2, <1>5 DEF HoldsLane
  <1>6. CASE Acquire(i)
    BY <1>1, <1>2, <1>3, <1>6 DEF Acquire, HoldsLane
  <1>7. CASE Prepare(i) \/ Install(i)
    BY <1>1, <1>2, <1>7 DEF Prepare, Install, HoldsLane
  <1>8. CASE /\ ReleaseLane(i)
             /\ HoldsLane(i)
             /\ \E p \in {"erred", "done"} : pc' = [pc EXCEPT ![i] = p]
    BY <1>1, <1>2, <1>3, <1>8 DEF ReleaseLane, HoldsLane
  <1> QED BY <1>5, <1>6, <1>7, <1>8, WorkerMoves

LEMMA WorkerTreesHeld ==
    ASSUME IInv, NEW i \in Worker, WorkerStep(i), UNCHANGED scenario
    PROVE  TreesHeld'
  <1>1. /\ pc \in [Worker -> {"start", "acquire", "prepare", "install", "verify", "erred", "done"}]
        /\ lane \in [Worker -> Lanes \cup {0}]
        /\ tree \in [Lanes -> SUBSET (Subset \cup {Stale})]
    BY DEF IInv, TypeOK
  <1>2. /\ \A j \in Worker : HoldsLane(j) => lane[j] \in Lanes
        /\ \A j, k \in Worker : HoldsLane(j) /\ HoldsLane(k) /\ lane[j] = lane[k] => j = k
    BY <1>1 DEF IInv, LanesHeld, LanesConserved, Holding
  <1>3. Batch' = Batch
    BY WorkerRuns, BatchKept
  <1>4. SUFFICES ASSUME NEW j \in Worker, pc'[j] \in {"install", "verify"}
                 PROVE  tree'[lane'[j]] = {Batch[j]}
    BY <1>3 DEF TreesHeld
  <1>5. pc[j] \in {"install", "verify"} => tree[lane[j]] = {Batch[j]} /\ HoldsLane(j)
    BY DEF IInv, TreesHeld, HoldsLane
  <1>6. CASE /\ UNCHANGED <<free, lane, tree>>
             /\ ~HoldsLane(i)
             /\ \E p \in {"acquire", "erred", "done"} : pc' = [pc EXCEPT ![i] = p]
    BY <1>1, <1>4, <1>5, <1>6
  <1>7. CASE Acquire(i)
    BY <1>1, <1>4, <1>5, <1>7 DEF Acquire
  <1>8. CASE Prepare(i)
    BY <1>1, <1>2, <1>4, <1>5, <1>8 DEF Prepare, HoldsLane
  <1>9. CASE Install(i)
    BY <1>1, <1>2, <1>4, <1>5, <1>9 DEF Install, HoldsLane
  <1>10. CASE /\ ReleaseLane(i)
              /\ HoldsLane(i)
              /\ \E p \in {"erred", "done"} : pc' = [pc EXCEPT ![i] = p]
    BY <1>1, <1>2, <1>4, <1>5, <1>10 DEF ReleaseLane
  <1> QED BY <1>6, <1>7, <1>8, <1>9, <1>10, WorkerMoves

LEMMA WorkerWorkersInBatch ==
    ASSUME IInv, NEW i \in Worker, WorkerStep(i), UNCHANGED scenario
    PROVE  WorkersInBatch'
  <1>1. \E p : pc' = [pc EXCEPT ![i] = p]
    BY WorkerMoves DEF Acquire, Prepare, Install
  <1>2. pc \in [Worker -> {"start", "acquire", "prepare", "install", "verify", "erred", "done"}]
    BY DEF IInv, TypeOK
  <1>3. Batch' = Batch /\ Running' /\ Running /\ i \in DOMAIN Batch
    BY WorkerRuns, BatchKept
  <1> QED BY <1>1, <1>2, <1>3 DEF IInv, WorkersInBatch

(* What a write leaves of the trials the file gives back: those it had,    *)
(* unless it was glued to an unfinished line, and the new one, if all of   *)
(* it was written.                                                         *)
FileWritten(s, v) ==
    /\ storeOn' \in BOOLEAN
    /\ \A k \in DOMAIN saved' :
          (k \in DOMAIN saved /\ saved'[k] = saved[k]) \/ (k = s /\ saved'[k] = v)
    /\ loose' \subseteq DOMAIN saved'
    /\ broken' \in {"no", "tail", "line"}
    /\ broken' = "line" => DOMAIN saved' = {}
    /\ ~Unfinished \/ UNCHANGED file =>
          \A k \in DOMAIN saved \ {s} : k \in DOMAIN saved' /\ saved'[k] = saved[k]
    /\ storeOn' /\ broken' # "line" => storeOn /\ broken # "line" /\ DOMAIN saved' = DOMAIN saved \cup {s}

LEMMA PersistWrites ==
    ASSUME TypeOK, NEW s, NEW v, Persist(s, v)
    PROVE  FileWritten(s, v)
  <1> DEFINE Kept == \A k \in DOMAIN saved \ {s} : k \in DOMAIN saved' /\ saved'[k] = saved[k]
             Own  == \A k \in DOMAIN saved' :
                        (k \in DOMAIN saved /\ saved'[k] = saved[k]) \/ (k = s /\ saved'[k] = v)
             Shape == /\ loose' \subseteq DOMAIN saved'
                      /\ broken' \in {"no", "tail", "line"}
                      /\ broken' = "line" => DOMAIN saved' = {}
  <1>2. ASSUME NEW extent \in Extent, Write(s, v, extent)
        PROVE  /\ Own /\ Shape /\ (~Unfinished \/ UNCHANGED file => Kept)
               /\ extent = "all" /\ broken' # "line" =>
                     broken # "line" /\ DOMAIN saved' = DOMAIN saved \cup {s}
    <2>1. CASE UNCHANGED file /\ broken = "line"
      BY <2>1 DEF TypeOK, file
    <2>2. CASE WriteGlued(extent)
      <3>1. CASE extent = "nothing" /\ UNCHANGED file
        BY <3>1 DEF TypeOK, file
      <3>2. CASE FileBecomes([k \in DOMAIN saved \ loose |-> saved[k]], {}, "tail") /\ extent # "all"
        BY <2>2, <3>2 DEF FileBecomes, WriteGlued, file
      <3>3. CASE FileBecomes(<< >>, {}, "line")
        <4>1. DOMAIN saved' = {} /\ loose' = {} /\ broken' = "line"
          BY <3>3 DEF FileBecomes
        <4> QED BY <2>2, <4>1 DEF WriteGlued, file
      <3> QED BY <2>2, <3>1, <3>2, <3>3 DEF WriteGlued
    <2>3. CASE WriteLine(s, v, extent)
      <3>1. CASE extent \in {"all", "no-newline"}
        <4>1. /\ saved' = Put(saved, s, v)
              /\ loose' = IF extent = "no-newline" THEN {s} ELSE {}
              /\ broken' = "no" /\ broken = "no" /\ ~Unfinished
          BY <2>3, <3>1 DEF WriteLine, FileBecomes
        <4>2. DOMAIN saved' = DOMAIN saved \cup {s}
          BY <4>1 DEF Put
        <4>3. \A k \in DOMAIN saved' : saved'[k] = IF k = s THEN v ELSE saved[k]
          BY <4>1 DEF Put
        <4> QED BY <4>1, <4>2, <4>3
      <3>2. CASE extent \in {"part", "nothing"}
        <4>1. /\ saved' = saved /\ loose' = {}
              /\ broken' \in {"tail", "no"}
          BY <2>3, <3>2 DEF WriteLine, FileBecomes
        <4> QED BY <3>2, <4>1
      <3> QED BY <3>1, <3>2 DEF Extent
    <2> QED BY <1>2, <2>1, <2>2, <2>3 DEF Write
  <1>3. CASE storeOn /\ Write(s, v, "all") /\ UNCHANGED storeOn
    <2>1. "all" \in Extent
      BY DEF Extent
    <2> QED BY <1>2, <1>3, <2>1 DEF FileWritten, TypeOK
  <1>4. CASE ~storeOn /\ UNCHANGED <<file, storeOn>>
    BY <1>4 DEF FileWritten, TypeOK, file
  <1>5. CASE storeOn' = FALSE /\ \E extent \in Extent : Write(s, v, extent)
    BY <1>2, <1>5 DEF FileWritten
  <1> QED BY <1>3, <1>4, <1>5 DEF Persist

(* The memo changes by one new trial, which is kept in the checkpoint too. *)
Remembers(i, v) ==
    /\ HoldsLane(i)
    /\ Batch[i] \notin DOMAIN memo
    /\ memo' = [s \in DOMAIN memo \cup {Batch[i]} |-> IF s = Batch[i] THEN v ELSE memo[s]]
    /\ Persist(Batch[i], v)
    /\ pc' = [pc EXCEPT ![i] = "done"]
    /\ failed' = [failed EXCEPT ![i] = v = "fail"]
    /\ UNCHANGED <<fault, firstErr, cancelled>>

LEMMA WorkerRemembers ==
    ASSUME IInv, NEW i \in Worker, WorkerStep(i)
    PROVE  \/ UNCHANGED results /\ ~InstallRejected(i) /\ ~Verify(i)
           \/ \E v \in Verdicts : Remembers(i, v)
  <1>1. ASSUME NEW v \in Verdicts, HoldsLane(i), Record(i, v) PROVE Remembers(i, v)
    <2>1. Batch[i] \notin DOMAIN memo
      BY <1>1 DEF IInv, VerdictsFiled, Evaluating
    <2> QED BY <1>1, <2>1 DEF Remembers, Record, Put, Return, batchCtx
  <1>2. CASE InstallRejected(i) \/ Verify(i)
    BY <1>1, <1>2 DEF InstallRejected, Verify, HoldsLane
  <1>3. CASE ~InstallRejected(i) /\ ~Verify(i)
    BY <1>3 DEF WorkerStep, MemoHit, Miss, Acquire, Interrupted, Prepare, Install, StepFails,
                Report
  <1> QED BY <1>2, <1>3

LEMMA WorkerVerdictsFiled ==
    ASSUME IInv, NEW i \in Worker, WorkerStep(i), UNCHANGED scenario
    PROVE  VerdictsFiled'
  <1>1. /\ pc \in [Worker -> {"start", "acquire", "prepare", "install", "verify", "erred", "done"}]
        /\ failed \in [Worker -> BOOLEAN]
    BY DEF IInv, TypeOK
  <1>2. Batch' = Batch /\ Running' /\ Running /\ i \in DOMAIN Batch
    BY WorkerRuns, BatchKept
  <1>3. ASSUME NEW j \in Worker, j # i PROVE j \in DOMAIN Batch => Batch[j] # Batch[i]
    BY <1>2, <1>3, BatchProperties DEF IInv, BatchOk
  <1>4. \A j \in Worker :
           /\ Evaluating(j) => Batch[j] \notin DOMAIN memo
           /\ failed[j] => pc[j] = "done" /\ Batch[j] \in DOMAIN memo /\ memo[Batch[j]] = "fail"
           /\ pc[j] = "done" /\ firstErr = "none" =>
                Batch[j] \in DOMAIN memo /\ (memo[Batch[j]] = "fail" => failed[j])
           /\ pc[j] # "start" => j \in DOMAIN Batch
    BY <1>2 DEF IInv, VerdictsFiled, WorkersInBatch
  <1>5. SUFFICES ASSUME NEW j \in Worker
                 PROVE  /\ Evaluating(j)' => Batch[j] \notin DOMAIN memo'
                        /\ failed'[j] => /\ pc'[j] = "done"
                                         /\ Batch[j] \in DOMAIN memo'
                                         /\ memo'[Batch[j]] = "fail"
                        /\ pc'[j] = "done" /\ firstErr' = "none" =>
                             Batch[j] \in DOMAIN memo' /\ (memo'[Batch[j]] = "fail" => failed'[j])
    BY <1>2 DEF VerdictsFiled
  <1>6. CASE \E v \in Verdicts : Remembers(i, v)
    <2>1. PICK v \in Verdicts : Remembers(i, v)
      BY <1>6
    <2>2. /\ DOMAIN memo' = DOMAIN memo \cup {Batch[i]}
          /\ memo'[Batch[i]] = v
          /\ \A s \in DOMAIN memo : memo'[s] = memo[s]
      BY <2>1 DEF Remembers
    <2>3. CASE j = i
      <3>1. pc'[i] = "done" /\ (failed'[i] <=> v = "fail")
        BY <1>1, <2>1 DEF Remembers
      <3> QED BY <2>2, <2>3, <3>1 DEF Evaluating, HoldsLane
    <2>4. CASE j # i
      <3>1. pc'[j] = pc[j] /\ failed'[j] = failed[j] /\ firstErr' = firstErr
        BY <1>1, <2>1, <2>4 DEF Remembers
      <3>2. Evaluating(j)' <=> Evaluating(j)
        BY <3>1 DEF Evaluating, HoldsLane
      <3>3. Evaluating(j) => Batch[j] # Batch[i]
        BY <1>3, <1>4, <2>4 DEF Evaluating, HoldsLane
      <3> QED BY <1>4, <2>2, <3>1, <3>2, <3>3
    <2> QED BY <2>3, <2>4
  <1>7. CASE UNCHANGED results /\ ~InstallRejected(i) /\ ~Verify(i)
    <2>1. UNCHANGED memo
      BY <1>7 DEF results
    <2>2. CASE MemoHit(i)
      BY <1>1, <1>4, <2>1, <2>2 DEF MemoHit, Return, Evaluating, HoldsLane, batchCtx
    <2>3. CASE Miss(i)
      BY <1>1, <1>4, <2>1, <2>3 DEF Miss, Evaluating, HoldsLane, batchCtx
    <2>4. CASE Acquire(i) \/ Prepare(i) \/ Install(i)
      BY <1>1, <1>4, <2>1, <2>4 DEF Acquire, Prepare, Install, Evaluating, HoldsLane, batchCtx
    <2>5. CASE Interrupted(i) \/ StepFails(i)
      BY <1>1, <1>4, <2>1, <2>5
      DEF Interrupted, StepFails, Evaluating, HoldsLane, batchCtx
    <2>6. CASE Report(i)
      <3>1. firstErr' # "none" /\ UNCHANGED failed
        BY <2>6 DEF Report, IInv, ErrorsKept
      <3> QED BY <1>1, <1>4, <2>1, <2>6, <3>1 DEF Report, Return, Evaluating, HoldsLane
    <2> QED BY <1>7, <2>2, <2>3, <2>4, <2>5, <2>6 DEF WorkerStep
  <1> QED BY <1>6, <1>7, WorkerRemembers

LEMMA WorkerTurnsTaken ==
    ASSUME IInv, NEW i \in Worker, WorkerStep(i), UNCHANGED scenario
    PROVE  TurnsTaken'
  <1>1. /\ pc \in [Worker -> {"start", "acquire", "prepare", "install", "verify", "erred", "done"}]
        /\ failed \in [Worker -> BOOLEAN]
    BY DEF IInv, TypeOK
  <1>2. /\ Parallel' <=> Parallel
        /\ Running /\ Running'
        /\ pc[i] # "done"
        /\ pc[i] = "start" => Turn(i)
    BY WorkerRuns, BatchKept
  <1>3. SUFFICES ASSUME ~Parallel, NEW j \in Worker
                 PROVE  /\ pc'[j] # "start" => \A k \in 1..j - 1 : pc'[k] = "done" /\ ~failed'[k]
                        /\ pc'[j] \notin {"start", "done"} => firstErr' = "none"
    BY <1>2 DEF TurnsTaken
  <1>4. \A k \in Worker :
           /\ pc[k] # "start" => \A l \in 1..k - 1 : pc[l] = "done" /\ ~failed[l]
           /\ pc[k] \notin {"start", "done"} => firstErr = "none"
    BY <1>2, <1>3 DEF IInv, TurnsTaken
  (* It is the turn of i: what stands before it is done, what follows waits. *)
  <1>5. /\ \A k \in 1..i - 1 : pc[k] = "done" /\ ~failed[k]
        /\ \A k \in Worker : k > i => pc[k] = "start"
        /\ firstErr = "none"
    <2>1. \A k \in 1..i - 1 : pc[k] = "done" /\ ~failed[k]
      BY <1>2, <1>3, <1>4 DEF Turn
    <2>2. firstErr = "none"
      BY <1>2, <1>3, <1>4 DEF Turn
    <2>3. \A k \in Worker : k > i => i \in 1..k - 1
      BY DEF Worker
    <2> QED BY <1>2, <1>4, <2>1, <2>2, <2>3
  <1>6. /\ \E p : pc' = [pc EXCEPT ![i] = p]
        /\ \A k \in Worker \ {i} : failed'[k] = failed[k]
        /\ pc'[i] # "done" => UNCHANGED firstErr
    BY <1>1 DEF WorkerStep, MemoHit, Miss, Acquire, Interrupted, Prepare, Install,
           InstallRejected, Verify, Record, StepFails, Report, Return, batchCtx
  <1>7. \A k \in Worker \ {i} : pc'[k] = pc[k]
    BY <1>1, <1>6
  <1>8. CASE j = i
    <2>1. \A k \in 1..i - 1 : k \in Worker \ {i}
      BY ChangesAssumption DEF Worker
    <2> QED BY <1>5, <1>6, <1>7, <1>8, <2>1
  <1>9. CASE j < i
    <2>1. pc'[j] = "done" /\ j \in 1..i - 1
      BY <1>5, <1>7, <1>9 DEF Worker
    <2>2. \A k \in 1..j - 1 : k \in 1..i - 1 /\ k \in Worker \ {i}
      BY <1>9, ChangesAssumption DEF Worker
    <2> QED BY <1>5, <1>6, <1>7, <2>1, <2>2
  <1>10. CASE j > i
    <2>1. pc'[j] = "start"
      BY <1>5, <1>7, <1>10 DEF Worker
    <2> QED BY <2>1
  <1>11. i \in Int /\ j \in Int
    BY DEF Worker
  <1> QED BY <1>8, <1>9, <1>10, <1>11

LEMMA WorkerErrorsKept ==
    ASSUME IInv, NEW i \in Worker, WorkerStep(i), UNCHANGED scenario
    PROVE  ErrorsKept'
  <1>1. /\ pc \in [Worker -> {"start", "acquire", "prepare", "install", "verify", "erred", "done"}]
        /\ fault \in [Worker -> {"none", "interrupted", "step"}]
        /\ cancelled \in BOOLEAN
    BY DEF IInv, TypeOK
  <1>2. /\ UNCHANGED stopped
        /\ Running
        /\ \A j \in Worker : pc[j] = "erred" => fault[j] # "none"
        /\ \A j \in Worker : fault[j] = "interrupted" => stopped \/ cancelled
        /\ cancelled => firstErr # "none"
        /\ firstErr = "interrupted" => stopped
    BY WorkerRuns DEF IInv, ErrorsKept, CtxDone, RootCauseReported
  <1>3. SUFFICES /\ \A j \in Worker : pc'[j] = "erred" => fault'[j] # "none"
                 /\ \A j \in Worker : fault'[j] = "interrupted" => stopped \/ cancelled'
                 /\ cancelled' => firstErr' # "none"
                 /\ firstErr' = "interrupted" => stopped
    BY <1>2 DEF ErrorsKept, CtxDone, RootCauseReported
  <1>4. CASE Interrupted(i) \/ StepFails(i)
    BY <1>1, <1>2, <1>4 DEF Interrupted, StepFails, CtxDone, batchCtx
  <1>5. CASE Report(i)
    <2>1. ~Parallel => firstErr = "none" /\ ~cancelled
      BY <1>2, <1>5 DEF Report, IInv, TurnsTaken
    <2>2. fault[i] # "none" /\ (firstErr = "none" => ~cancelled)
      BY <1>2, <1>5 DEF Report
    <2>3. /\ firstErr' = IF firstErr = "none" THEN fault[i] ELSE firstErr
          /\ cancelled' <=> Parallel
          /\ fault' = [fault EXCEPT ![i] = "none"]
          /\ pc' = [pc EXCEPT ![i] = "done"]
      BY <1>5 DEF Report, Return
    <2> QED BY <1>1, <1>2, <2>1, <2>2, <2>3
  <1>6. CASE ~Interrupted(i) /\ ~StepFails(i) /\ ~Report(i)
    BY <1>1, <1>2, <1>6
    DEF WorkerStep, MemoHit, Miss, Acquire, Prepare, Install, InstallRejected, Verify, Record,
        Return, batchCtx
  <1> QED BY <1>4, <1>5, <1>6

(* What TypeOK says of the checkpoint file. *)
FileTyped ==
    /\ DOMAIN saved \subseteq Subset
    /\ \A s \in DOMAIN saved : saved[s] \in Verdicts
    /\ loose \subseteq DOMAIN saved
    /\ broken \in {"no", "tail", "line"}
    /\ broken = "line" => DOMAIN saved = {}

LEMMA WorkerTypeOK ==
    ASSUME IInv, NEW i \in Worker, WorkerStep(i), UNCHANGED scenario
    PROVE  TypeOK'
  <1>1. TypeOK /\ Lanes' = Lanes
    BY WorkerRuns, BatchKept DEF IInv
  <1>2. Batch[i] \in Subset
    BY WorkerRuns, BatchProperties DEF IInv, BatchOk
  <1>3. UNCHANGED <<scenario, stage, outcome, current, n, phase, stopped, restarts>>
    BY WorkerRuns DEF search
  <1>4. (HoldsLane(i) => lane[i] \in Lanes) /\ 0 \notin Lanes
    BY DEF IInv, TypeOK, LanesHeld, Lanes
  <1>5. /\ free' \subseteq Lanes
        /\ tree' \in [Lanes -> SUBSET (Subset \cup {Stale})]
        /\ pc' \in [Worker -> {"start", "acquire", "prepare", "install", "verify", "erred", "done"}]
        /\ lane' \in [Worker -> Lanes \cup {0}]
    <2> USE <1>1 DEF TypeOK
    <2>1. CASE /\ UNCHANGED <<free, lane, tree>>
               /\ ~HoldsLane(i)
               /\ \E p \in {"acquire", "erred", "done"} : pc' = [pc EXCEPT ![i] = p]
      BY <2>1
    <2>2. CASE Acquire(i)
      BY <2>2 DEF Acquire
    <2>3. CASE Prepare(i)
      BY <1>2, <2>3 DEF Prepare
    <2>4. CASE Install(i)
      <3>1. lane[i] \in Lanes
        BY <1>4, <2>4 DEF Install, HoldsLane
      <3> QED BY <1>2, <2>4, <3>1 DEF Install
    <2>5. CASE /\ ReleaseLane(i)
               /\ HoldsLane(i)
               /\ \E p \in {"erred", "done"} : pc' = [pc EXCEPT ![i] = p]
      BY <1>4, <2>5 DEF ReleaseLane
    <2> QED BY <2>1, <2>2, <2>3, <2>4, <2>5, WorkerMoves
  <1>6. /\ DOMAIN memo' \subseteq Subset
        /\ \A s \in DOMAIN memo' : memo'[s] \in Verdicts
        /\ FileTyped' /\ storeOn' \in BOOLEAN
    <2>1. CASE UNCHANGED results
      BY <1>1, <1>3, <2>1 DEF TypeOK, results, file, FileTyped, Verdicts
    <2>2. ASSUME NEW v \in Verdicts, Remembers(i, v)
          PROVE  /\ DOMAIN memo' \subseteq Subset
                 /\ \A s \in DOMAIN memo' : memo'[s] \in Verdicts
                 /\ FileTyped' /\ storeOn' \in BOOLEAN
      <3>1. /\ DOMAIN memo' = DOMAIN memo \cup {Batch[i]}
            /\ \A s \in DOMAIN memo' : memo'[s] = IF s = Batch[i] THEN v ELSE memo[s]
        BY <2>2 DEF Remembers
      <3>2. FileWritten(Batch[i], v)
        BY <1>1, <2>2, PersistWrites DEF Remembers
      <3>3. Verdicts' = Verdicts
        BY <1>3 DEF Verdicts
      <3>4. FileTyped' /\ storeOn' \in BOOLEAN
        BY <1>1, <1>2, <3>2, <3>3 DEF TypeOK, FileTyped, FileWritten
      <3> QED BY <1>1, <1>2, <3>1, <3>4 DEF TypeOK
    <2> QED BY <2>1, <2>2, WorkerRemembers
  <1>7. /\ failed' \in [Worker -> BOOLEAN]
        /\ fault' \in [Worker -> {"none", "interrupted", "step"}]
        /\ firstErr' \in {"none", "interrupted", "step"}
        /\ cancelled' \in BOOLEAN
    <2> USE <1>1 DEF TypeOK
    <2>1. CASE \E v \in Verdicts : Remembers(i, v)
      BY <2>1 DEF Remembers
    <2>2. CASE MemoHit(i)
      BY <2>2 DEF MemoHit, batchCtx
    <2>3. CASE Miss(i) \/ Acquire(i) \/ Prepare(i) \/ Install(i)
      BY <2>3 DEF Miss, Acquire, Prepare, Install, batchCtx
    <2>4. CASE Interrupted(i) \/ StepFails(i)
      BY <2>4 DEF Interrupted, StepFails, batchCtx
    <2>5. CASE Report(i)
      BY <2>5 DEF Report, Parallel
    <2> QED BY <2>1, <2>2, <2>3, <2>4, <2>5, WorkerRemembers DEF WorkerStep
  <1> QED BY <1>1, <1>3, <1>5, <1>6, <1>7 DEF TypeOK, FileTyped, Verdicts

LEMMA WorkerStagesInOrder ==
    ASSUME IInv, NEW i \in Worker, WorkerStep(i), UNCHANGED scenario
    PROVE  /\ StagesInOrder'
           /\ CheckpointComplete'
           /\ ProvenIsOneMinimal'
  <1>1. /\ UNCHANGED <<stage, outcome, current, n, phase>>
        /\ Running
        /\ Running' <=> Running
        /\ D!Searching' <=> D!Searching
    BY WorkerRuns, BatchKept DEF search
  <1>2. \A s \in DOMAIN memo : s \in DOMAIN memo' /\ memo'[s] = memo[s]
    BY WorkerRemembers DEF Remembers, results
  <1>3. StagesInOrder'
    BY <1>1, <1>2 DEF IInv, StagesInOrder
  <1>4. CheckpointComplete'
    <2>1. CASE UNCHANGED results
      BY <1>1, <2>1 DEF IInv, CheckpointComplete, results, file
    <2>2. ASSUME NEW v \in Verdicts, Remembers(i, v) PROVE CheckpointComplete'
      <3>1. DOMAIN memo' = DOMAIN memo \cup {Batch[i]} /\ memo'[Batch[i]] = v
        BY <2>2 DEF Remembers
      <3>2. FileWritten(Batch[i], v)
        BY <2>2, PersistWrites DEF Remembers, IInv
      <3>3. /\ stage # "finished"
            /\ \A s \in DOMAIN saved : s \in DOMAIN memo /\ memo[s] = saved[s]
        BY <1>1 DEF IInv, CheckpointComplete, Running
      <3>4. \A s \in DOMAIN saved' : s \in DOMAIN memo' /\ memo'[s] = saved'[s]
        BY <1>2, <3>1, <3>2, <3>3 DEF FileWritten
      <3>5. storeOn' /\ broken' # "line" => DOMAIN saved' = DOMAIN memo'
        BY <1>1, <3>1, <3>2 DEF IInv, CheckpointComplete, FileWritten
      <3> QED BY <3>4, <3>5 DEF CheckpointComplete
    <2> QED BY <2>1, <2>2, WorkerRemembers
  <1>5. ProvenIsOneMinimal'
    BY <1>1 DEF ProvenIsOneMinimal, IInv, StagesInOrder, Running
  <1> QED BY <1>3, <1>4, <1>5

---------------------------------------------------------------------------
(* The run and the search it makes. *)

(* Once the baselines are established ddmin knows what the memo holds. *)
LEMMA KnownIsMemo ==
    ASSUME StagesInOrder, stage \in {"search", "minimality"}
    PROVE  /\ DOMAIN Known = DOMAIN memo
           /\ \A s \in DOMAIN memo : Known[s] = "fail" <=> memo[s] = "fail"
  <1>1. /\ << >> \in DOMAIN memo /\ memo[<< >>] = "pass"
        /\ Items \in DOMAIN memo /\ memo[Items] = "fail"
    BY DEF StagesInOrder
  <1>2. \A s \in DOMAIN memo \cup {<< >>, Items} :
           Known[s] = IF s = << >> THEN "pass"
                      ELSE IF s = Items THEN "fail"
                      ELSE OutcomeOf(memo[s])
    BY DEF Known
  <1>3. DOMAIN Known = DOMAIN memo \cup {<< >>, Items}
    BY DEF Known
  <1> QED BY <1>1, <1>2, <1>3, DP!ItemsProperties, ChangesAssumption DEF OutcomeOf, Items, DP!Items

(* The batch whose answer ended the search has decided each neighbor. *)
LEMMA NeighborsDecided == IInv => MinimalityServedFromMemo
  <1> SUFFICES ASSUME IInv, stage = "minimality", NEW i \in DOMAIN Batch
               PROVE  Batch[i] \in DOMAIN memo /\ memo[Batch[i]] # "fail"
    BY DEF MinimalityServedFromMemo
  <1>1. i \in 1..Len(current) /\ Batch[i] = Without(current, i)
    BY DEF Batch, Neighbors
  <1>2. DP!Refuted(DP!Without(current, i))
    BY <1>1 DEF IInv, StagesInOrder, DP!IInv, DP!OneMinimal
  <1>3. DP!Without(current, i) = Batch[i]
    BY <1>1 DEF DP!Without, Without
  <1> QED BY <1>2, <1>3, KnownIsMemo DEF IInv, DP!Refuted

LEMMA WorkerRefines ==
    ASSUME IInv, NEW i \in Worker, WorkerStep(i)
    PROVE  UNCHANGED D!vars \/ D!Next
  <1>1. UNCHANGED search /\ Running /\ i \in DOMAIN Batch
    BY WorkerRuns
  <1>2. CASE UNCHANGED results
    BY <1>1, <1>2 DEF D!vars, search, results, Known
  <1>3. ASSUME NEW v \in Verdicts, Remembers(i, v)
        PROVE  UNCHANGED D!vars \/ D!Next
    <2>1. Batch[i] \notin DOMAIN memo
      BY <1>3 DEF Remembers
    <2>2. /\ DOMAIN memo' = DOMAIN memo \cup {Batch[i]}
          /\ memo'[Batch[i]] = v
          /\ \A s \in DOMAIN memo : memo'[s] = memo[s]
      BY <1>3 DEF Remembers
    <2>3. CASE stage = "baseline-old"
      <3>1. Batch[i] = << >>
        BY <1>1, <2>3 DEF Batch
      <3>2. Known' = Known
        BY <2>2, <3>1 DEF Known
      <3> QED BY <1>1, <3>2 DEF D!vars, search
    <2>4. CASE stage = "baseline-new"
      <3>1. Batch[i] = Items
        BY <1>1, <2>4 DEF Batch
      <3>2. Known' = Known
        BY <2>2, <3>1 DEF Known
      <3> QED BY <1>1, <3>2 DEF D!vars, search
    <2>5. CASE stage = "search"
      <3>1. i \in DOMAIN D!Candidates /\ Batch[i] = D!Candidates[i]
        BY <1>1, <2>5 DEF Batch
      <3>2. Batch[i] \notin DOMAIN Known
        BY <2>1, <2>5, KnownIsMemo DEF IInv
      <3>3. Known' = [s \in DOMAIN Known \cup {Batch[i]} |->
                         IF s = Batch[i] THEN OutcomeOf(v) ELSE Known[s]]
        BY <2>2, <3>2 DEF Known
      <3>4. OutcomeOf(v) \in {"pass", "fail", "unresolved"}
        BY ScenariosAssumption DEF IInv, TypeOK, Verdicts, OutcomeOf
      <3>5. D!Learn(i)
        BY <1>1, <3>1, <3>2, <3>3, <3>4 DEF D!Learn, search
      <3> QED BY <3>1, <3>5 DEF D!Next, D!Step
    <2>6. CASE stage = "minimality"
      BY <1>1, <2>1, <2>6, NeighborsDecided DEF MinimalityServedFromMemo
    <2> QED BY <1>1, <2>3, <2>4, <2>5, <2>6 DEF Running
  <1> QED BY <1>2, <1>3, WorkerRemembers

LEMMA SearchStepIInv ==
    ASSUME DP!IInv, UNCHANGED D!vars \/ D!Next
    PROVE  DP!IInv'
  <1>1. DP!IInv /\ [DP!Next]_DP!vars => DP!IInv'
    BY DP!NextIInv, ChangesAssumption
  <1>2. UNCHANGED D!vars <=> UNCHANGED DP!vars
    BY DEF D!vars, DP!vars
  <1> QED BY <1>1, <1>2, SameSearch

LEMMA WorkerIInv ==
    ASSUME IInv, NEW i \in Worker, WorkerStep(i), UNCHANGED scenario
    PROVE  IInv'
  <1>1. DP!IInv'
    BY WorkerRefines, SearchStepIInv DEF IInv
  <1> QED BY <1>1, WorkerTypeOK, WorkerLanesHeld, WorkerTreesHeld, WorkerWorkersInBatch,
             WorkerVerdictsFiled, WorkerTurnsTaken, WorkerErrorsKept, WorkerStagesInOrder
          DEF IInv

---------------------------------------------------------------------------
(* The driver's step: the batch is over. *)

(* Nobody works any more: a batch that one error or failure ends early is  *)
(* one whose candidates are evaluated in turn.                             *)
LEMMA BatchOverIdle ==
    ASSUME IInv, BatchOver
    PROVE  /\ \A i \in Worker : pc[i] \in {"start", "done"}
           /\ lane = [i \in Worker |-> 0]
           /\ free = Lanes
  <1>1. BatchOk
    BY BatchProperties DEF IInv
  <1>2. /\ pc \in [Worker -> {"start", "acquire", "prepare", "install", "verify", "erred", "done"}]
        /\ lane \in [Worker -> Lanes \cup {0}]
        /\ Running
    BY DEF IInv, TypeOK, BatchOver
  <1>3. ASSUME NEW i \in Worker PROVE pc[i] \in {"start", "done"}
    <2>1. CASE \A j \in DOMAIN Batch : pc[j] = "done"
      BY <1>2, <2>1 DEF IInv, WorkersInBatch
    <2>2. CASE ~Parallel /\ firstErr # "none"
      BY <1>2, <2>2 DEF IInv, TurnsTaken
    <2>3. CASE ~Parallel /\ \E j \in DOMAIN Batch : failed[j]
      <3>1. PICK j \in DOMAIN Batch : failed[j]
        BY <2>3
      <3>2. j \in Worker /\ pc[j] = "done"
        BY <1>1, <1>2, <3>1 DEF IInv, VerdictsFiled, BatchOk
      <3>3. /\ \A k \in 1..j - 1 : pc[k] = "done"
            /\ pc[i] # "start" => \A k \in 1..i - 1 : ~failed[k]
        BY <1>2, <2>3, <3>2 DEF IInv, TurnsTaken
      <3>4. i \in 1..j - 1 \/ i = j \/ j \in 1..i - 1
        BY <3>2, ChangesAssumption DEF Worker
      <3> QED BY <1>2, <3>1, <3>2, <3>3, <3>4
    <2> QED BY <2>1, <2>2, <2>3 DEF BatchOver
  <1>4. \A i \in Worker : lane[i] = 0
    BY <1>3 DEF IInv, LanesHeld, HoldsLane
  <1>5. free = Lanes
    BY <1>4 DEF IInv, LanesHeld, LanesConserved, Holding
  <1> QED BY <1>2, <1>3, <1>4, <1>5

(* What the answer of a batch without error says of the memo. *)
LEMMA BatchAnswered ==
    ASSUME IInv, BatchOver, firstErr = "none"
    PROVE  /\ Sel # 0 => /\ Sel \in DOMAIN Batch
                         /\ Batch[Sel] \in DOMAIN memo /\ memo[Batch[Sel]] = "fail"
                         /\ \A j \in 1..Sel - 1 :
                               Batch[j] \in DOMAIN memo /\ memo[Batch[j]] # "fail"
           /\ Sel = 0 => \A j \in DOMAIN Batch :
                            Batch[j] \in DOMAIN memo /\ memo[Batch[j]] # "fail"
  <1>1. BatchOk /\ Running
    BY BatchProperties DEF IInv, BatchOver
  <1>2. \A j \in DOMAIN Batch :
           /\ j \in Worker /\ j \in Nat /\ j # 0
           /\ failed[j] => /\ pc[j] = "done"
                           /\ Batch[j] \in DOMAIN memo /\ memo[Batch[j]] = "fail"
           /\ pc[j] = "done" /\ ~failed[j] =>
                 Batch[j] \in DOMAIN memo /\ memo[Batch[j]] # "fail"
    <2>1. \A j \in DOMAIN Batch : j \in Worker /\ j \in Nat /\ j # 0
      BY <1>1, ChangesAssumption DEF BatchOk, Worker
    <2> QED BY <1>1, <2>1 DEF IInv, VerdictsFiled
  <1>3. CASE FailedAt = {}
    <2>1. \A j \in DOMAIN Batch : pc[j] = "done" /\ ~failed[j]
      BY <1>3 DEF BatchOver, FailedAt
    <2> QED BY <1>2, <1>3, <2>1 DEF Sel
  <1>4. CASE FailedAt # {}
    <2>1. FailedAt \subseteq Nat
      BY <1>2 DEF FailedAt
    <2>2. \E i \in FailedAt : \A j \in FailedAt : i <= j
      BY <1>4, <2>1, LeastNumber
    <2>3. Sel \in FailedAt /\ \A j \in FailedAt : Sel <= j
      BY <1>4, <2>2 DEF Sel
    <2> HIDE DEF Sel
    <2>4. Sel \in DOMAIN Batch /\ failed[Sel] /\ Sel \in Worker /\ Sel \in Nat /\ Sel # 0
      BY <1>2, <2>3 DEF FailedAt
    <2>5. ASSUME NEW j \in 1..Sel - 1
          PROVE  Batch[j] \in DOMAIN memo /\ memo[Batch[j]] # "fail"
      <3>1. j \in Worker /\ j < Sel
        BY <2>4, ChangesAssumption DEF Worker
      <3>2. j \in DOMAIN Batch /\ ~failed[j]
        BY <1>1, <2>3, <2>4, <3>1 DEF BatchOk, FailedAt
      <3>3. CASE \A k \in DOMAIN Batch : pc[k] = "done"
        BY <1>2, <3>2, <3>3
      <3>4. CASE ~Parallel
        <4>1. pc[Sel] = "done"
          BY <1>2, <2>4
        <4>2. pc[j] = "done"
          BY <1>1, <2>4, <3>4, <4>1 DEF IInv, TurnsTaken
        <4> QED BY <1>2, <3>2, <4>2
      <3> QED BY <3>3, <3>4 DEF BatchOver
    <2> QED BY <1>2, <2>4, <2>5
  <1> QED BY <1>3, <1>4

(* The worker's parts of the invariant, where a batch begins ... *)
WorkerParts ==
    /\ LanesHeld
    /\ TreesHeld
    /\ WorkersInBatch
    /\ VerdictsFiled
    /\ TurnsTaken
    /\ ErrorsKept

StartOfBatch ==
    /\ pc     = [i \in Worker |-> "start"]
    /\ lane   = [i \in Worker |-> 0]
    /\ failed = [i \in Worker |-> FALSE]
    /\ fault  = [i \in Worker |-> "none"]
    /\ firstErr = "none"
    /\ cancelled = FALSE
    /\ free = Lanes

LEMMA StartOfBatchParts == StartOfBatch => WorkerParts
  <1> SUFFICES ASSUME StartOfBatch PROVE WorkerParts
    OBVIOUS
  <1>1. \A i \in Worker : pc[i] = "start" /\ lane[i] = 0 /\ ~failed[i] /\ fault[i] = "none"
    BY DEF StartOfBatch
  <1>2. firstErr = "none" /\ ~cancelled /\ free = Lanes
    BY DEF StartOfBatch
  <1>3. LanesHeld
    BY <1>1, <1>2 DEF LanesHeld, LanesConserved, Holding, HoldsLane
  <1>4. TreesHeld /\ WorkersInBatch /\ VerdictsFiled /\ TurnsTaken
    BY <1>1 DEF TreesHeld, WorkersInBatch, VerdictsFiled, TurnsTaken, Evaluating, HoldsLane
  <1>5. ErrorsKept
    BY <1>1, <1>2 DEF ErrorsKept, RootCauseReported
  <1> QED BY <1>3, <1>4, <1>5 DEF WorkerParts

LEMMA NewBatchParts ==
    ASSUME IInv, BatchOver, NewBatch, UNCHANGED <<scenario, free>>
    PROVE  WorkerParts'
  <1>1. StartOfBatch'
    BY BatchOverIdle DEF NewBatch, StartOfBatch, Lanes, Jobs
  <1> QED BY <1>1, StartOfBatchParts, PTL

(* ... and where the run ends. *)
LEMMA RunOverParts ==
    ASSUME IInv, BatchOver, ~Running',
           UNCHANGED <<scenario, free, tree, workers, batchCtx, stopped>>
    PROVE  WorkerParts'
  <1>1. \A i \in Worker : pc'[i] \in {"start", "done"}
    BY BatchOverIdle DEF workers
  <1>2. LanesHeld'
    BY DEF IInv, LanesHeld, LanesConserved, Holding, HoldsLane, workers, Lanes, Jobs
  <1>3. TreesHeld' /\ WorkersInBatch' /\ VerdictsFiled' /\ TurnsTaken'
    BY <1>1 DEF TreesHeld, WorkersInBatch, VerdictsFiled, TurnsTaken, Evaluating, HoldsLane
  <1>4. ErrorsKept'
    BY DEF IInv, ErrorsKept, CtxDone, RootCauseReported, workers, batchCtx
  <1> QED BY <1>2, <1>3, <1>4 DEF WorkerParts

LEMMA BatchFailsIInv ==
    ASSUME IInv, BatchFails, UNCHANGED scenario
    PROVE  IInv' /\ (UNCHANGED D!vars \/ D!Next)
  <1>1. /\ BatchOver /\ Running
        /\ stage' = "failed" /\ outcome' = outcome /\ outcome = "none"
        /\ phase' = IF stage = "search" THEN "aborted" ELSE phase
        /\ UNCHANGED <<scenario, current, n, results, free, tree, workers, batchCtx, stopped, restarts>>
    BY DEF BatchFails, Fail, BatchOver, IInv, StagesInOrder, Running
  <1>2. Known' = Known
    BY <1>1 DEF results, Known
  <1>3. UNCHANGED D!vars \/ D!Next
    <2>1. CASE stage = "search"
      <3>1. D!Abort
        BY <1>1, <1>2, <2>1 DEF D!Abort, IInv, StagesInOrder
      <3> QED BY <3>1 DEF D!Next, D!Step
    <2>2. CASE stage # "search"
      BY <1>1, <1>2, <2>2 DEF D!vars
    <2> QED BY <2>1, <2>2
  <1>4. DP!IInv'
    BY <1>3, SearchStepIInv DEF IInv
  <1>5. ~Running'
    BY <1>1 DEF Running
  <1>6. WorkerParts'
    BY <1>1, <1>5, RunOverParts
  <1>7. TypeOK'
    BY <1>1
    DEF IInv, TypeOK, results, file, workers, batchCtx, Lanes, Jobs, Verdicts
  <1>8. StagesInOrder' /\ ProvenIsOneMinimal'
    BY <1>1 DEF StagesInOrder, ProvenIsOneMinimal
  <1>9. CheckpointComplete'
    BY <1>1, <1>5 DEF IInv, CheckpointComplete, Running, results, file
  <1> QED BY <1>3, <1>4, <1>6, <1>7, <1>8, <1>9 DEF IInv, WorkerParts

(* A baseline is a batch of one. *)
LEMMA BaselineAnswered ==
    ASSUME IInv, BatchOver, firstErr = "none", stage \in {"baseline-old", "baseline-new"}
    PROVE  Batch[1] \in DOMAIN memo
  <1>1. DOMAIN Batch = {1}
    <2>1. Batch = << << >> >> \/ Batch = <<Items>>
      BY DEF Batch
    <2> QED BY <2>1
  <1> QED BY <1>1, BatchAnswered

(* What a baseline that is not as expected leaves behind. *)
LEMMA BaselineBrokenIInv ==
    ASSUME IInv, NEW expected \in {"pass", "fail"}, BaselineBroken(expected),
           stage \in {"baseline-old", "baseline-new"},
           expected = "pass" <=> stage = "baseline-old", UNCHANGED scenario
    PROVE  IInv' /\ UNCHANGED D!vars
  <1>1. BatchOver /\ firstErr = "none" /\ outcome = "none" /\ Running
    BY DEF BaselineBroken, IInv, StagesInOrder, Running
  <1>2. UNCHANGED <<scenario, current, n, phase, memo, storeOn, free, tree, workers, batchCtx,
                    stopped, restarts>>
    BY DEF BaselineBroken, search
  <1>3. UNCHANGED D!vars
    BY <1>2 DEF D!vars, Known
  <1>4. DP!IInv'
    BY <1>3, SearchStepIInv DEF IInv
  <1>6. memo[Batch[1]] \in {"pass", "flaky", "fail", "unresolved"}
    <2>1. Batch[1] \in DOMAIN memo
      BY <1>1, BaselineAnswered
    <2> QED BY <2>1, ScenariosAssumption DEF IInv, TypeOK, Verdicts
  <1>7. \/ stage' = "failed" /\ outcome' = "none" /\ UNCHANGED file
        \/ /\ stage' = "finished" /\ FileBecomes(<< >>, {}, "no")
           /\ outcome' \in {"inconclusive", "failing-at-base", "not-reproduced"}
    BY <1>1, <1>6 DEF BaselineBroken, Fail, Finish
  <1>8. ~Running'
    BY <1>7 DEF Running
  <1>9. WorkerParts'
    BY <1>1, <1>2, <1>8, RunOverParts
  <1>10. TypeOK'
    BY <1>2, <1>7 DEF IInv, TypeOK, file, FileBecomes, workers, batchCtx, Lanes, Jobs, Verdicts
  <1>11. StagesInOrder' /\ CheckpointComplete' /\ ProvenIsOneMinimal'
    BY <1>2, <1>7, <1>8
    DEF StagesInOrder, IInv, CheckpointComplete, ProvenIsOneMinimal, Running, file
  <1> QED BY <1>3, <1>4, <1>9, <1>10, <1>11 DEF IInv, WorkerParts

LEMMA StartOfBatchTypeOK ==
    ASSUME TypeOK, NewBatch, UNCHANGED <<scenario, outcome, results, free, tree, stopped, restarts>>,
           stage' \in {"baseline-old", "baseline-new", "search", "minimality", "finished", "failed"},
           current' \in Subset, n' \in Nat,
           phase' \in {"chunks", "complements", "done", "aborted"}
    PROVE  TypeOK'
  BY DEF TypeOK, NewBatch, results, file, Lanes, Jobs, Verdicts

(* A baseline that is as expected leads on to the next stage. *)
LEMMA BaselineIInv ==
    ASSUME IInv, BaselineOld \/ BaselineNew, UNCHANGED scenario
    PROVE  IInv' /\ UNCHANGED D!vars
  <1>1. CASE stage = "baseline-old" /\ BaselineBroken("pass")
    BY <1>1, BaselineBrokenIInv
  <1>2. CASE stage = "baseline-new" /\ BaselineBroken("fail")
    BY <1>2, BaselineBrokenIInv
  <1>3. CASE /\ BatchOver /\ firstErr = "none"
             /\ NewBatch
             /\ UNCHANGED <<outcome, search, results, free, tree, stopped, restarts>>
             /\ \/ /\ stage = "baseline-old" /\ memo[Batch[1]] = "pass"
                   /\ stage' = "baseline-new"
                \/ /\ stage = "baseline-new" /\ memo[Batch[1]] = "fail"
                   /\ stage' = IF phase = "done" THEN "minimality" ELSE "search"
    <2>1. UNCHANGED D!vars
      BY <1>3 DEF D!vars, Known, search, results
    <2>2. DP!IInv'
      BY <2>1, SearchStepIInv DEF IInv
    <2>3. WorkerParts'
      BY <1>3, NewBatchParts
    <2>4. TypeOK'
      BY <1>3, StartOfBatchTypeOK DEF IInv, TypeOK, search
    <2>5. Batch[1] \in DOMAIN memo
      BY <1>3, BaselineAnswered
    <2>6. StagesInOrder'
      <3>1. CASE stage = "baseline-old"
        <4>1. Batch[1] = << >>
          BY <3>1 DEF Batch
        <4> QED BY <1>3, <2>5, <3>1, <4>1 DEF IInv, StagesInOrder, search, results
      <3>2. CASE stage = "baseline-new"
        <4>1. Batch[1] = Items
          BY <3>2 DEF Batch
        <4> QED BY <1>3, <2>5, <3>2, <4>1 DEF IInv, StagesInOrder, D!Searching, search, results
      <3> QED BY <1>3, <3>1, <3>2
    <2>7. CheckpointComplete' /\ ProvenIsOneMinimal'
      BY <1>3
      DEF IInv, CheckpointComplete, ProvenIsOneMinimal, StagesInOrder, Running, search, results, file
    <2> QED BY <2>1, <2>2, <2>3, <2>4, <2>6, <2>7 DEF IInv, WorkerParts
  <1> QED BY <1>1, <1>2, <1>3 DEF BaselineOld, BaselineNew

(* The answer of the batch is the one ddmin's contract asks for. *)
LEMMA MinimizeRefines ==
    ASSUME IInv, Minimize
    PROVE  D!Searching /\ D!Answer
  <1>1. stage = "search" /\ BatchOver /\ firstErr = "none" /\ UNCHANGED results
    BY DEF Minimize
  <1>2. D!Searching /\ Batch = D!Candidates
    BY <1>1 DEF IInv, StagesInOrder, Batch
  <1>3. Known' = Known
    BY <1>1 DEF Known, results
  <1>4. \A s \in DOMAIN memo : s \in DOMAIN Known /\ (Known[s] = "fail" <=> memo[s] = "fail")
    BY <1>1, KnownIsMemo DEF IInv
  <1>5. CASE Sel # 0
    <2>1. Sel \in DOMAIN D!Candidates /\ D!LowestFailing(Sel)
      BY <1>1, <1>2, <1>4, <1>5, BatchAnswered DEF D!LowestFailing, D!Fails, D!Refuted
    <2>2. D!Reduce(Sel)
      BY <1>5 DEF Minimize
    <2> QED BY <1>2, <1>3, <2>1, <2>2 DEF D!Answer
  <1>6. CASE Sel = 0
    <2>1. D!NoneFails
      BY <1>1, <1>2, <1>4, <1>6, BatchAnswered DEF D!NoneFails, D!Refuted
    <2>2. D!NotReduced
      BY <1>6 DEF Minimize
    <2> QED BY <1>2, <1>3, <2>1, <2>2 DEF D!Answer
  <1> QED BY <1>5, <1>6

LEMMA MinimizeIInv ==
    ASSUME IInv, Minimize, UNCHANGED scenario
    PROVE  IInv' /\ D!Next
  <1>1. /\ stage = "search" /\ BatchOver /\ firstErr = "none" /\ NewBatch
        /\ stage' = IF phase' = "done" THEN "minimality" ELSE "search"
        /\ UNCHANGED <<outcome, results, free, tree, stopped, restarts>>
    BY DEF Minimize
  <1>2. D!Next
    BY MinimizeRefines DEF D!Next, D!Step
  <1>3. DP!IInv'
    BY <1>2, SearchStepIInv DEF IInv
  <1>4. WorkerParts'
    BY <1>1, NewBatchParts
  <1>5. phase' \in {"chunks", "complements", "done"}
    BY MinimizeRefines
    DEF D!Answer, D!Reduce, D!AdoptChunk, D!AdoptComplement, D!LoopFrom, D!NotReduced,
        D!TryComplements, D!IncreaseGranularity, D!Stop
  <1>6. TypeOK'
    <2>1. current' \in Subset /\ n' \in Nat
      BY <1>3 DEF DP!IInv, DP!TypeOK, DP!Subset, Subset
    <2> QED BY <1>1, <1>5, <2>1, StartOfBatchTypeOK DEF IInv
  <1>7. StagesInOrder'
    BY <1>1, <1>5 DEF IInv, StagesInOrder, D!Searching, results
  <1>8. CheckpointComplete' /\ ProvenIsOneMinimal'
    BY <1>1 DEF IInv, CheckpointComplete, ProvenIsOneMinimal, StagesInOrder, Running, results, file
  <1> QED BY <1>2, <1>3, <1>4, <1>6, <1>7, <1>8 DEF IInv, WorkerParts

(* The closing check adopts nothing, and finishes at once. *)
LEMMA CheckMinimalityIInv ==
    ASSUME IInv, CheckMinimality, UNCHANGED scenario
    PROVE  IInv' /\ UNCHANGED D!vars
  <1>1. /\ stage = "minimality" /\ BatchOver /\ firstErr = "none" /\ phase = "done"
        /\ UNCHANGED <<n, phase, memo, storeOn, free, tree, stopped, restarts>>
    BY DEF CheckMinimality, IInv, StagesInOrder
  <1>2. Sel = 0
    BY <1>1, BatchAnswered, NeighborsDecided DEF MinimalityServedFromMemo
  <1>3. /\ stage' = "finished" /\ FileBecomes(<< >>, {}, "no")
        /\ outcome' = IF Uncertain = {} THEN "minimal-found" ELSE "inconclusive"
        /\ UNCHANGED <<current, workers, batchCtx>>
    BY <1>2 DEF CheckMinimality, Finish
  <1>4. UNCHANGED D!vars
    BY <1>1, <1>3 DEF D!vars, Known
  <1>5. DP!IInv'
    BY <1>4, SearchStepIInv DEF IInv
  <1>6. ~Running'
    BY <1>3 DEF Running
  <1>7. WorkerParts'
    BY <1>1, <1>3, <1>6, RunOverParts
  <1>8. TypeOK'
    BY <1>1, <1>3 DEF IInv, TypeOK, FileBecomes, workers, batchCtx, Lanes, Jobs, Verdicts
  <1>9. StagesInOrder' /\ CheckpointComplete'
    BY <1>1, <1>3, <1>6 DEF StagesInOrder, CheckpointComplete
  <1>10. ProvenIsOneMinimal'
    <2>1. memo[Items] = "fail" /\ memo[<< >>] = "pass"
      BY <1>1 DEF IInv, StagesInOrder
    <2>2. memo[current] = "fail"
      BY <1>1, KnownIsMemo DEF IInv, DP!IInv, DP!CurrentFails, DP!Fails
    <2>3. ASSUME Uncertain = {}, NEW i \in 1..Len(current)
          PROVE  memo[Without(current, i)] = "pass"
      <3>1. i \in DOMAIN Batch /\ Batch[i] = Without(current, i)
        BY <1>1 DEF Batch, Neighbors
      <3>2. Without(current, i) \in DOMAIN memo /\ memo[Without(current, i)] # "fail"
        BY <1>1, <3>1, NeighborsDecided DEF MinimalityServedFromMemo
      <3>3. memo[Without(current, i)] \in {"pass", "flaky", "fail", "unresolved"}
        BY <3>2, ScenariosAssumption DEF IInv, TypeOK, Verdicts
      <3>4. memo[Without(current, i)] \notin {"unresolved", "flaky"}
        BY <2>3 DEF Uncertain
      <3> QED BY <3>2, <3>3, <3>4
    <2> QED BY <1>1, <1>3, <2>1, <2>2, <2>3 DEF ProvenIsOneMinimal
  <1> QED BY <1>4, <1>5, <1>7, <1>8, <1>9, <1>10 DEF IInv, WorkerParts

---------------------------------------------------------------------------
(* Interference, and the start of a process. *)

LEMMA StopIInv ==
    ASSUME IInv, Stop, UNCHANGED scenario
    PROVE  IInv' /\ UNCHANGED D!vars
  <1>1. /\ UNCHANGED <<scenario, stage, outcome, search, results, free, tree, workers, batchCtx,
                       restarts>>
        /\ stopped' = TRUE
    BY DEF Stop
  <1>2. UNCHANGED D!vars
    BY <1>1 DEF D!vars, Known, search, results
  <1>3. DP!IInv'
    BY <1>2, SearchStepIInv DEF IInv
  <1>4. /\ Batch' = Batch /\ (Parallel' <=> Parallel) /\ (Running' <=> Running) /\ Lanes' = Lanes
        /\ D!Searching' <=> D!Searching
    BY <1>1, BatchKept
  <1>5. TypeOK'
    BY <1>1, <1>4 DEF IInv, TypeOK, search, results, file, workers, batchCtx, Verdicts
  <1>6. LanesHeld' /\ TreesHeld' /\ WorkersInBatch'
    BY <1>1, <1>4 DEF IInv, LanesHeld, LanesConserved, Holding, HoldsLane, TreesHeld, WorkersInBatch,
                      workers
  <1>7. VerdictsFiled' /\ TurnsTaken'
    BY <1>1, <1>4 DEF IInv, VerdictsFiled, Evaluating, HoldsLane, TurnsTaken, workers, batchCtx,
                      results
  <1>8. ErrorsKept'
    BY <1>1 DEF IInv, ErrorsKept, CtxDone, RootCauseReported, workers, batchCtx
  <1>9. StagesInOrder'
    BY <1>1, <1>4 DEF IInv, StagesInOrder, search, results
  <1>10. CheckpointComplete' /\ ProvenIsOneMinimal'
    BY <1>1, <1>4 DEF IInv, CheckpointComplete, ProvenIsOneMinimal, search, results, file
  <1> QED BY <1>2, <1>3, <1>5, <1>6, <1>7, <1>8, <1>9, <1>10 DEF IInv

(* A process starts its search with whatever trials it was given. *)
StartOfProcess ==
    /\ current = Items
    /\ n = 2
    /\ phase = D!LoopFrom(Items)
    /\ DOMAIN memo \subseteq Subset
    /\ \A s \in DOMAIN memo : memo[s] \in {"pass", "flaky", "fail", "unresolved"}

LEMMA StartOfProcessIInv == StartOfProcess => DP!IInv
  <1> SUFFICES ASSUME StartOfProcess PROVE DP!IInv
    OBVIOUS
  <1>1. DP!Items = Items /\ DP!Subset = Subset
    BY DEF DP!Items, Items, DP!Subset, Subset
  <1>2. Items \in Subset /\ Items # << >> /\ << >> \in Subset
    BY <1>1, DP!ItemsProperties, ChangesAssumption, EmptySeq DEF Subset
  <1>3. /\ DOMAIN Known = DOMAIN memo \cup {<< >>, Items}
        /\ Known[Items] = "fail" /\ Known[<< >>] = "pass"
        /\ \A s \in DOMAIN memo : s # Items /\ s # << >> => Known[s] = OutcomeOf(memo[s])
    BY <1>2 DEF Known
  <1>4. \A s \in DOMAIN Known : Known[s] \in {"pass", "fail", "unresolved"}
    BY <1>3 DEF StartOfProcess, OutcomeOf
  <1>5. phase = DP!LoopFrom(Items)
    BY DEF StartOfProcess, D!LoopFrom, DP!LoopFrom
  <1>6. DP!StartOfSearch
    BY <1>1, <1>2, <1>3, <1>4, <1>5
    DEF StartOfProcess, DP!StartOfSearch, DP!Fails, DP!BaselineKnown, DP!Refuted
  <1> QED BY <1>6, DP!StartIInv, ChangesAssumption

(* A process that resumes, and one that is refused the checkpoint. *)
LEMMA ResumeIInv ==
    ASSUME IInv, Resume \/ ResumeRefused, UNCHANGED scenario
    PROVE  IInv' /\ NewSearch
  <1>1. /\ stage # "finished" /\ outcome = "none"
        /\ stage' \in {"baseline-old", "failed"} /\ outcome' = "none"
        /\ current' = Items /\ n' = 2 /\ phase' = D!LoopFrom(Items)
        /\ UNCHANGED file /\ storeOn' = TRUE
        /\ free' = Lanes /\ tree' = [l \in Lanes |-> {}]
        /\ stopped' = FALSE
        /\ restarts < scenario.restarts /\ restarts' = restarts + 1
        /\ NewBatch
        /\ UNCHANGED scenario
    BY DEF Resume, ResumeRefused, NewProcess, IInv, StagesInOrder
  <1>2. /\ DOMAIN memo' = DOMAIN saved
        /\ \A s \in DOMAIN saved : s \in DOMAIN memo /\ memo'[s] = memo[s] /\ memo'[s] = saved[s]
    <2>1. DOMAIN memo' = DOMAIN saved /\ \A s \in DOMAIN saved : memo'[s] = saved[s]
      BY DEF Resume, ResumeRefused, IInv, TypeOK
    <2> QED BY <1>1, <2>1 DEF IInv, CheckpointComplete
  <1>3. Lanes' = Lanes /\ Verdicts' = Verdicts
    BY <1>1 DEF Lanes, Jobs, Verdicts
  <1>4. \A s \in DOMAIN memo : s \in Subset /\ memo[s] \in {"pass", "flaky", "fail", "unresolved"}
    BY ScenariosAssumption DEF IInv, TypeOK, Verdicts
  <1>5. DP!IInv'
    <2>1. StartOfProcess'
      <3>1. Items' = Items /\ Subset' = Subset
        OBVIOUS
      <3>2. D!LoopFrom(Items)' = D!LoopFrom(Items)
        BY DEF D!LoopFrom
      <3> QED BY <1>1, <1>2, <1>4, <3>1, <3>2 DEF StartOfProcess
    <2> QED BY <2>1, StartOfProcessIInv, PTL
  <1>6. WorkerParts'
    <2>1. StartOfBatch'
      BY <1>1, <1>3 DEF NewBatch, StartOfBatch
    <2> QED BY <2>1, StartOfBatchParts, PTL
  <1>7. TypeOK'
    <2>1. current' \in Subset /\ phase' \in {"chunks", "complements", "done", "aborted"}
      BY <1>1, DP!ItemsProperties, ChangesAssumption
      DEF DP!Items, Items, Subset, D!LoopFrom
    <2>2. tree' \in [Lanes -> SUBSET (Subset \cup {Stale})]
      BY <1>1
    <2>3. /\ pc' \in [Worker -> {"start", "acquire", "prepare", "install", "verify", "erred", "done"}]
          /\ lane' \in [Worker -> Lanes \cup {0}]
          /\ failed' \in [Worker -> BOOLEAN]
          /\ fault' \in [Worker -> {"none", "interrupted", "step"}]
          /\ firstErr' = "none" /\ cancelled' = FALSE
      BY <1>1 DEF NewBatch
    <2>4. restarts' \in 0..scenario.restarts
      <3>1. scenario.restarts \in Nat
        BY ScenariosAssumption DEF IInv, TypeOK
      <3> QED BY <1>1, <3>1 DEF IInv, TypeOK
    <2>5. DOMAIN memo' \subseteq Subset /\ (\A s \in DOMAIN memo' : memo'[s] \in Verdicts)
      BY <1>2 DEF IInv, TypeOK
    <2> QED BY <1>1, <1>3, <2>1, <2>2, <2>3, <2>4, <2>5 DEF IInv, TypeOK, file
  <1>8. StagesInOrder'
    BY <1>1 DEF StagesInOrder, D!LoopFrom
  <1>9. CheckpointComplete' /\ ProvenIsOneMinimal'
    BY <1>1, <1>2 DEF CheckpointComplete, ProvenIsOneMinimal, file
  <1>10. NewSearch
    <2>1. \A s \in DOMAIN Known' : s \in DOMAIN Known /\ Known'[s] = Known[s]
      BY <1>2 DEF Known
    <2> QED BY <1>1, <2>1 DEF NewSearch
  <1> QED BY <1>5, <1>6, <1>7, <1>8, <1>9, <1>10 DEF IInv, WorkerParts

LEMMA InitIInv == Init => IInv /\ D!Init
  <1> SUFFICES ASSUME Init PROVE IInv /\ D!Init
    OBVIOUS
  <1>1. /\ scenario \in Scenarios /\ stage = "baseline-old" /\ outcome = "none"
        /\ current = Items /\ n = 2 /\ phase = D!LoopFrom(Items)
        /\ DOMAIN memo = {} /\ storeOn = TRUE
        /\ DOMAIN saved = {} /\ loose = {} /\ broken = "no"
        /\ free = Lanes /\ tree = [l \in Lanes |-> {}]
        /\ StartOfBatch /\ stopped = FALSE /\ restarts = 0
    BY DEF Init, StartOfBatch
  <1>2. DP!IInv
    BY <1>1, StartOfProcessIInv DEF StartOfProcess
  <1>3. WorkerParts
    BY <1>1, StartOfBatchParts
  <1>4. TypeOK
    <2>1. current \in Subset /\ phase \in {"chunks", "complements", "done", "aborted"}
      BY <1>1, DP!ItemsProperties, ChangesAssumption
      DEF DP!Items, Items, Subset, D!LoopFrom
    <2>2. tree \in [Lanes -> SUBSET (Subset \cup {Stale})]
      BY <1>1
    <2>3. /\ pc \in [Worker -> {"start", "acquire", "prepare", "install", "verify", "erred", "done"}]
          /\ lane \in [Worker -> Lanes \cup {0}]
          /\ failed \in [Worker -> BOOLEAN]
          /\ fault \in [Worker -> {"none", "interrupted", "step"}]
          /\ firstErr = "none" /\ cancelled = FALSE
      BY <1>1 DEF StartOfBatch
    <2>4. restarts \in 0..scenario.restarts
      <3>1. scenario.restarts \in Nat
        BY <1>1, ScenariosAssumption
      <3> QED BY <1>1, <3>1
    <2> QED BY <1>1, <2>1, <2>2, <2>3, <2>4 DEF TypeOK
  <1>5. StagesInOrder /\ CheckpointComplete /\ ProvenIsOneMinimal
    BY <1>1 DEF StagesInOrder, CheckpointComplete, ProvenIsOneMinimal, D!LoopFrom
  <1>6. D!Init
    <2>1. D!Items = Items /\ Items # << >>
      BY DP!ItemsProperties, ChangesAssumption DEF D!Items, DP!Items, Items
    <2>2. Known = [s \in {<< >>, Items} |-> IF s = Items THEN "fail" ELSE "pass"]
      BY <1>1, <2>1 DEF Known
    <2> QED BY <1>1, <2>1, <2>2 DEF D!Init
  <1> QED BY <1>2, <1>3, <1>4, <1>5, <1>6 DEF IInv, WorkerParts

---------------------------------------------------------------------------
(* The theorems. *)

(* Every step keeps the invariant and is a step of ddmin, leaves ddmin     *)
(* where it is, or begins a search of its own.                             *)
LEMMA NextIInv ==
    IInv /\ [Next]_vars => IInv' /\ (UNCHANGED D!vars \/ D!Next \/ NewSearch)
  <1> SUFFICES ASSUME IInv, [Next]_vars
               PROVE  IInv' /\ (UNCHANGED D!vars \/ D!Next \/ NewSearch)
    OBVIOUS
  <1>1. ASSUME NEW i \in Worker, WorkerStep(i), UNCHANGED scenario
        PROVE  IInv' /\ (UNCHANGED D!vars \/ D!Next)
    BY <1>1, WorkerIInv, WorkerRefines
  <1>2. CASE BatchFails /\ UNCHANGED scenario
    BY <1>2, BatchFailsIInv
  <1>3. CASE (BaselineOld \/ BaselineNew) /\ UNCHANGED scenario
    BY <1>3, BaselineIInv
  <1>4. CASE Minimize /\ UNCHANGED scenario
    BY <1>4, MinimizeIInv
  <1>5. CASE CheckMinimality /\ UNCHANGED scenario
    BY <1>5, CheckMinimalityIInv
  <1>6. CASE Stop /\ UNCHANGED scenario
    BY <1>6, StopIInv
  <1>7. CASE (Resume \/ ResumeRefused) /\ UNCHANGED scenario
    BY <1>7, ResumeIInv
  <1>8. CASE UNCHANGED vars
    <2>1. UNCHANGED <<scenario, stage, outcome, search, results, free, tree, workers, batchCtx,
                      stopped, restarts>>
      BY <1>8 DEF vars
    <2>2. UNCHANGED D!vars
      BY <2>1 DEF D!vars, Known, search, results
    <2>3. DP!IInv'
      BY <2>2, SearchStepIInv DEF IInv
    <2>4. /\ Batch' = Batch /\ (Parallel' <=> Parallel) /\ (Running' <=> Running)
          /\ Lanes' = Lanes /\ (D!Searching' <=> D!Searching)
      BY <2>1, BatchKept
    <2>5. TypeOK' /\ LanesHeld' /\ TreesHeld' /\ WorkersInBatch'
      BY <2>1, <2>4
      DEF IInv, TypeOK, LanesHeld, LanesConserved, Holding, HoldsLane, TreesHeld, WorkersInBatch,
          search, results, file, workers, batchCtx, Verdicts
    <2>6. VerdictsFiled' /\ TurnsTaken' /\ ErrorsKept'
      BY <2>1, <2>4
      DEF IInv, VerdictsFiled, Evaluating, HoldsLane, TurnsTaken, ErrorsKept, CtxDone,
          RootCauseReported, results, workers, batchCtx
    <2>7. StagesInOrder' /\ CheckpointComplete' /\ ProvenIsOneMinimal'
      BY <2>1, <2>4
      DEF IInv, StagesInOrder, CheckpointComplete, ProvenIsOneMinimal, search, results, file
    <2> QED BY <2>2, <2>3, <2>5, <2>6, <2>7 DEF IInv
  <1> QED BY <1>1, <1>2, <1>3, <1>4, <1>5, <1>6, <1>7, <1>8
          DEF Next, RunStep, DriverStep, Interference, Terminated

LEMMA Invariance == Spec => []IInv
  <1>1. Init => IInv
    BY InitIInv
  <1>2. IInv /\ [Next]_vars => IInv'
    BY NextIInv
  <1> QED BY <1>1, <1>2, PTL DEF Spec

(* Every variable keeps to its type, whatever the number of workers, lanes *)
(* and changes.                                                            *)
THEOREM TypeCorrect == Spec => []TypeOK
  <1>1. IInv => TypeOK
    BY DEF IInv
  <1> QED BY <1>1, Invariance, PTL

(* Whatever fails, every lane is free or held by one evaluation: none is   *)
(* ever shared and the deferred return loses none.                         *)
THEOREM LanesCorrect == Spec => []LanesConserved
  <1>1. IInv => LanesConserved
    BY DEF IInv, LanesHeld
  <1> QED BY <1>1, Invariance, PTL

(* What is verified is the candidate, alone in its worktree, however many  *)
(* lanes there are and whatever ran in this one before.                    *)
THEOREM MeasurementCorrect == Spec => []TrialMeasuresItsSubset
  <1>1. IInv => TrialMeasuresItsSubset
    BY DEF IInv, TreesHeld, TrialMeasuresItsSubset
  <1> QED BY <1>1, Invariance, PTL

(* No subset is evaluated twice: a candidate of a batch is in it once, and *)
(* what is evaluated has no trial.                                         *)
THEOREM EvaluationCorrect == Spec => []NeverEvaluatedTwice
  <1>1. IInv => NeverEvaluatedTwice
    <2> SUFFICES ASSUME IInv, NEW i \in Holding
                 PROVE  /\ Batch[i] \notin DOMAIN memo
                        /\ \A j \in Holding : Batch[i] = Batch[j] => i = j
      BY DEF NeverEvaluatedTwice
    <2>1. \A j \in Holding : Evaluating(j) /\ j \in DOMAIN Batch
      BY DEF Holding, IInv, LanesHeld, Evaluating, HoldsLane, WorkersInBatch
    <2>2. BatchOk
      BY BatchProperties DEF IInv
    <2> QED BY <2>1, <2>2 DEF IInv, VerdictsFiled, BatchOk, Holding
  <1> QED BY <1>1, Invariance, PTL

(* An interruption is what a batch reports only if the run was interrupted,*)
(* never the cancellation that another worker's error set off.             *)
THEOREM RootCauseCorrect == Spec => []RootCauseReported
  <1>1. IInv => RootCauseReported
    BY DEF IInv, ErrorsKept
  <1> QED BY <1>1, Invariance, PTL

(* Whatever earlier processes left in it, the file gives back no verdict   *)
(* that differs from the memo's, and as long as writes succeed it gives    *)
(* back all of them or is refused.                                         *)
THEOREM CheckpointCorrect == Spec => []CheckpointComplete
  <1>1. IInv => CheckpointComplete
    BY DEF IInv
  <1> QED BY <1>1, Invariance, PTL

(* The closing check of a minimal set asks for no new trial and finds no   *)
(* smaller set.                                                            *)
THEOREM ClosingCheckCorrect == Spec => []MinimalityServedFromMemo
  <1> QED BY NeighborsDecided, Invariance, PTL

(* A set reported as minimal fails, and each of its neighbors passed every *)
(* run it was given.                                                       *)
THEOREM ReportCorrect == Spec => []ProvenIsOneMinimal
  <1>1. IInv => ProvenIsOneMinimal
    BY DEF IInv
  <1> QED BY <1>1, Invariance, PTL

(* For any number of lanes, faults and resumes, the set a search ends with *)
(* is what the sequential Minimize makes of the same verdicts, whichever   *)
(* lanes they came from and whatever was tried beyond need.                *)
THEOREM SequentialCorrect == Spec => [](phase = "done" => current = DP!Minimize)
  <1>1. IInv => (phase = "done" => current = DP!Minimize)
    BY ChangesAssumption, DP!DoneIsMinimize DEF IInv, DP!IInv, DP!ScheduleIndependent
  <1> QED BY <1>1, Invariance, PTL

(* A verdict that the checkpoint file gives back is in it and in the memo, *)
(* with the same value, after each step of any process: writes cut short,  *)
(* crashes and resumes included, and the step excepted that appends behind *)
(* an unfinished line.                                                     *)
THEOREM SavedVerdictsCorrect == Spec => SavedVerdictsKept
  <1> DEFINE Survives(s) == /\ s \in DOMAIN saved' /\ saved'[s] = saved[s]
                            /\ s \in DOMAIN memo' /\ memo'[s] = saved[s]
             Kept == stage' # "finished" /\ ~(Unfinished /\ file' # file) =>
                        \A s \in DOMAIN saved : Survives(s)
  <1>1. IInv /\ [Next]_vars => [Kept]_vars
    <2> SUFFICES ASSUME IInv, Next, stage' # "finished", ~(Unfinished /\ file' # file),
                        NEW s \in DOMAIN saved
                 PROVE  Survives(s)
      OBVIOUS
    <2>1. stage # "finished"
      <3>1. CASE \E i \in Worker : WorkerStep(i)
        BY <3>1, WorkerRuns DEF Running
      <3>2. CASE DriverStep \/ Stop \/ Resume \/ ResumeRefused \/ Terminated
        BY <3>2 DEF DriverStep, BatchFails, BaselineOld, BaselineNew, Minimize, CheckMinimality,
                    Stop, Resume, ResumeRefused, NewProcess, Terminated, vars, BatchOver, Running
      <3> QED BY <3>1, <3>2 DEF Next, RunStep, Interference
    <2>2. s \in DOMAIN memo /\ memo[s] = saved[s]
      BY <2>1 DEF IInv, CheckpointComplete
    <2>3. CASE UNCHANGED <<memo, file>>
      BY <2>2, <2>3 DEF file
    <2>4. ASSUME NEW i \in Worker, WorkerStep(i) PROVE Survives(s)
      <3>1. ASSUME NEW v \in Verdicts, Remembers(i, v) PROVE Survives(s)
        <4>1. FileWritten(Batch[i], v) /\ s # Batch[i]
          BY <2>2, <3>1, PersistWrites DEF Remembers, IInv
        <4>2. s \in DOMAIN saved' /\ saved'[s] = saved[s]
          BY <4>1 DEF FileWritten
        <4>3. s \in DOMAIN memo' /\ memo'[s] = memo[s]
          BY <2>2, <3>1, <4>1 DEF Remembers
        <4> QED BY <2>2, <4>2, <4>3
      <3> QED BY <2>3, <2>4, <3>1, WorkerRemembers DEF results
    <2>5. CASE BatchFails \/ BaselineOld \/ BaselineNew \/ Minimize \/ Stop \/ Terminated
      <3>1. UNCHANGED <<memo, file>>
        BY <2>5 DEF BatchFails, BaselineOld, BaselineNew, BaselineBroken, Finish, Minimize, Stop,
                    Terminated, results, file, vars
      <3> QED BY <2>3, <3>1
    <2>6. CASE CheckMinimality
      <3>1. UNCHANGED <<memo, file>>
        BY <2>6 DEF CheckMinimality, Finish
      <3> QED BY <2>3, <3>1
    <2>7. CASE Resume
      BY <2>2, <2>7 DEF Resume, file
    <2>8. CASE ResumeRefused
      BY <2>8 DEF ResumeRefused, IInv, TypeOK
    <2> QED BY <2>4, <2>5, <2>6, <2>7, <2>8 DEF Next, RunStep, DriverStep, Interference
  <1> QED BY <1>1, Invariance, PTL DEF Spec, SavedVerdictsKept

(* However candidates are scheduled over lanes and whatever fails, what a  *)
(* process runs is ddmin; a resumed one runs it from the beginning, with   *)
(* the outcomes of the checkpoint known.                                   *)
THEOREM Refinement == Spec => RefinesDdmin
  <1>1. Init => D!Init
    BY InitIInv
  <1>2. IInv /\ [Next]_vars => [UNCHANGED D!vars \/ D!Next \/ NewSearch]_vars
    BY NextIInv
  <1> QED BY <1>1, <1>2, Invariance, PTL DEF Spec, RefinesDdmin
=============================================================================
