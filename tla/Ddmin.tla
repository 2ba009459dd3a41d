------------------------------- MODULE Ddmin --------------------------------
(***************************************************************************)
(* ddmin.MinimizeBatch and the contract of the BatchTest it is handed.     *)
(*                                                                         *)
(* MinimizeBatch is a loop over (current, n): it hands the candidates of   *)
(* one granularity to the executor as a batch and narrows current to the   *)
(* lowest-indexed candidate that fails.  Nothing here says how a batch is  *)
(* evaluated: candidates of the batch become known one at a time, in any   *)
(* order, and the answer may be given as soon as the lowest-indexed        *)
(* failure is determined.  That is what both the sequential and the        *)
(* parallel executor do, and Executor.tla is shown to implement it.        *)
(***************************************************************************)
EXTENDS Slices

CONSTANTS
    N,          \* number of items handed to MinimizeBatch
    Outcomes    \* the outcomes a test can have

ASSUME NAssumption == N \in Nat \ {0}

(* Unresolved is treated as if the failure did not reproduce, so an        *)
(* instance may do without it.                                             *)
ASSUME OutcomesAssumption ==
    {"pass", "fail"} \subseteq Outcomes

VARIABLES
    current,    \* the failing subset the search has reached
    n,          \* granularity: the number of chunks current is cut into
    phase,      \* what the loop is waiting for: the batch of chunks, the batch of
                \* complements, or nothing ("done", or "aborted" by an error)
    known       \* subset -> outcome, for every subset tested so far

vars == <<current, n, phase, known>>

Subset  == Seq(1..N)
Items   == [i \in 1..N |-> i]

TypeOK ==
    /\ current \in Subset
    /\ n \in Nat
    /\ phase \in {"chunks", "complements", "done", "aborted"}
    /\ DOMAIN known \subseteq Subset
    /\ \A s \in DOMAIN known : known[s] \in Outcomes

---------------------------------------------------------------------------
Fails(s)   == s \in DOMAIN known /\ known[s] = "fail"
Refuted(s) == s \in DOMAIN known /\ known[s] # "fail"

Searching == phase \in {"chunks", "complements"}

(* The loop condition: more than one item is left. *)
LoopFrom(s) == IF Len(s) >= 2 THEN "chunks" ELSE "done"

Candidates == CASE phase = "chunks"      -> Split(current, n)
                [] phase = "complements" -> Complements(current, n)
                [] OTHER                 -> << >>

(* Minimize is called when the two baselines are established: no change    *)
(* applied passes, all changes applied fails.                              *)
Init ==
    /\ current = Items
    /\ n = 2
    /\ phase = LoopFrom(Items)
    /\ known = [s \in {<< >>, Items} |-> IF s = Items THEN "fail" ELSE "pass"]

(* Mutant: an error is taken for an outcome. *)
LearnError(i) ==
    /\ Candidates[i] \notin DOMAIN known
    /\ \E o \in Outcomes \cup {"error"} :
          known' = [s \in DOMAIN known \cup {Candidates[i]} |->
                        IF s = Candidates[i] THEN o ELSE known[s]]
    /\ UNCHANGED <<current, n, phase>>

(* The executor finds out about candidate i of the batch. *)
Learn(i) ==
    /\ Candidates[i] \notin DOMAIN known
    /\ \E o \in Outcomes :
          known' = [s \in DOMAIN known \cup {Candidates[i]} |->
                        IF s = Candidates[i] THEN o ELSE known[s]]
    /\ UNCHANGED <<current, n, phase>>

(* Mutant: sel is whichever failing candidate was found first. *)
AnyFailing(sel) == Fails(Candidates[sel])

(* sel of the BatchTest contract: the lowest-indexed failing candidate. *)
LowestFailing(sel) ==
    /\ Fails(Candidates[sel])
    /\ \A j \in 1..sel - 1 : Refuted(Candidates[j])

NoneFails == \A j \in DOMAIN Candidates : Refuted(Candidates[j])

---------------------------------------------------------------------------
(* A chunk reproduces the failure: continue with it at granularity 2. *)
AdoptChunk(sel) ==
    /\ phase = "chunks"
    /\ current' = Chunk(current, n, sel)
    /\ n' = 2
    /\ phase' = LoopFrom(current')

(* Mutants: n is kept; the chunk is taken for its complement. *)
AdoptComplementKeepN(sel) ==
    /\ phase = "complements"
    /\ current' = Complement(current, n, sel)
    /\ n' = n
    /\ phase' = LoopFrom(current')
AdoptComplementTakesChunk(sel) ==
    /\ phase = "complements"
    /\ current' = Chunk(current, n, sel)
    /\ n' = 2
    /\ phase' = LoopFrom(current')

(* A complement reproduces it: continue with it, one chunk fewer. *)
AdoptComplement(sel) ==
    /\ phase = "complements"
    /\ current' = Complement(current, n, sel)
    /\ n' = Larger(n - 1, 2)
    /\ phase' = LoopFrom(current')

(* Halves are each other's complements: above granularity 2 only. *)
TryComplements ==
    /\ phase = "chunks"
    /\ n > 2
    /\ phase' = "complements"
    /\ UNCHANGED <<current, n>>

(* The batch after which nothing is left to try at granularity n. *)
LastBatch == phase = "complements" \/ (phase = "chunks" /\ n = 2)

(* Mutant: "n >= len" written as "n > len", so the loop never breaks. *)
IncreaseGranularityAgain ==
    /\ LastBatch
    /\ n <= Len(current)
    /\ n' = Smaller(n * 2, Len(current))
    /\ phase' = "chunks"
    /\ UNCHANGED current

IncreaseGranularity ==
    /\ LastBatch
    /\ n < Len(current)
    /\ n' = Smaller(n * 2, Len(current))
    /\ phase' = "chunks"
    /\ UNCHANGED current

(* Mutant: stops when doubling would reach the singletons. *)
StopBeforeSingletons ==
    /\ LastBatch
    /\ n * 2 >= Len(current)
    /\ phase' = "done"
    /\ UNCHANGED <<current, n>>

(* Already at singleton granularity: current is 1-minimal. *)
Stop ==
    /\ LastBatch
    /\ n >= Len(current)
    /\ phase' = "done"
    /\ UNCHANGED <<current, n>>

(* What MinimizeBatch does with the answer sel of a batch; 0 is the code's *)
(* -1, no candidate fails.                                                 *)
Reduce(sel) == AdoptChunk(sel) \/ AdoptComplement(sel)
NotReduced  == TryComplements \/ IncreaseGranularity \/ Stop

Answer ==
    /\ \/ \E sel \in DOMAIN Candidates : LowestFailing(sel) /\ Reduce(sel)
       \/ NoneFails /\ NotReduced
    /\ UNCHANGED known

(* A test returned an error, which ends the minimization at once. *)
Abort ==
    /\ Searching
    /\ phase' = "aborted"
    /\ UNCHANGED <<current, n, known>>

Step ==
    \/ \E i \in DOMAIN Candidates : Learn(i)
    \/ Searching /\ Answer
    \/ Abort

Finished == ~Searching /\ UNCHANGED vars

Next == Step \/ Finished

Spec == Init /\ [][Next]_vars

(* BatchTest returns: the tests it needs are made, or one of them errs. *)
FairSpec == Spec /\ WF_vars(Step)

---------------------------------------------------------------------------
(* While the loop runs the granularity is a legal argument of split:       *)
(* 2 <= n <= Len(current), so no chunk is empty (the precondition in       *)
(* split's comment, which no caller checks).                               *)
GranularityInRange ==
    Searching => 2 <= n /\ n <= Len(current)

(* current keeps the relative order of the input slice and names each      *)
(* change once, whatever path of chunks and complements led to it.         *)
OrderPreserved ==
    \A i, j \in 1..Len(current) : i < j => current[i] < current[j]

(* The subset Minimize would return at any moment has been seen to fail:   *)
(* it "still satisfies Test(subset) == Fail" (ddmin.go:62).                *)
CurrentFails == Fails(current)

(* The result is 1-minimal: when the loop ends each removal of one change  *)
(* has been tested, and none of them failed.                               *)
OneMinimal ==
    phase = "done" => \A i \in 1..Len(current) : Refuted(Without(current, i))

(* The search ends. *)
Terminates == <>~Searching
=============================================================================
