----------------------------- MODULE Sequential -----------------------------
(***************************************************************************)
(* ddmin.Minimize, which is MinimizeBatch with the sequential executor, as *)
(* the code has it: the loop over (current, n) with split and complement   *)
(* as loops, as a function from the number of iterations to what the loop  *)
(* has come to.  Ddmin, whose batches are evaluated in any order, and the  *)
(* closed forms of Slices are compared with it.                            *)
(***************************************************************************)
EXTENDS Ddmin

(* sequential: candidates in order up to the first that fails; 0 if none. *)
FirstFailing(cands) ==
    LET failing == {i \in DOMAIN cands : Fails(cands[i])}
    IN  IF failing = {} THEN 0 ELSE CHOOSE i \in failing : \A j \in failing : i <= j

(* One iteration of the loop over (current, n), which stays where it is    *)
(* when the loop has ended.                                                *)
Iteration(s, k) ==
    LET chunks == SplitLoop(s, k)
        comps  == [i \in 1..k |-> Concatenated(chunks, i)]
        chunk  == FirstFailing(chunks)
        comp   == IF k > 2 THEN FirstFailing(comps) ELSE 0
    IN  IF Len(s) < 2 THEN <<s, k>>
        ELSE IF chunk # 0 THEN <<chunks[chunk], 2>>
        ELSE IF comp # 0 THEN <<comps[comp], Larger(k - 1, 2)>>
        ELSE IF k >= Len(s) THEN <<s, k>>
        ELSE <<s, Smaller(k * 2, Len(s))>>

Search[i \in Nat] ==
    IF i = 0 THEN <<Items, 2>>
    ELSE LET reached == Search[i - 1] IN Iteration(reached[1], reached[2])

(* Each iteration drops an item or makes the chunks smaller, so the loop   *)
(* has ended after N * N of them.                                          *)
Minimize == Search[N * N][1]

---------------------------------------------------------------------------
(* Every batch is a partition of current into near-equal chunks in order,  *)
(* or the complements of one: what split and complement compute item by    *)
(* item is what the closed forms of Slices say.                            *)
BatchesAreTheCodes ==
    Searching =>
        LET chunks == SplitLoop(current, n) IN
        /\ Split(current, n) = chunks
        /\ Concatenated(chunks, 0) = current
        /\ \A i, j \in 1..n : Len(chunks[i]) - Len(chunks[j]) \in {-1, 0, 1}
        /\ \A i \in 1..n : Complement(current, n, i) = Concatenated(chunks, i)

(* The result is the one the sequential Minimize computes from the same    *)
(* outcomes, in whatever order, and however far past the selected          *)
(* candidate, the batches were evaluated ("the minimized result is         *)
(* independent of how the executor schedules the work").                   *)
ScheduleIndependent == phase = "done" => current = Minimize
=============================================================================
