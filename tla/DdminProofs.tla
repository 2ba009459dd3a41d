---------------------------- MODULE DdminProofs -----------------------------
(***************************************************************************)
(* For every number of items and every test: MinimizeBatch never asks      *)
(* split for an empty chunk, keeps the order of the items, only ever holds *)
(* a set that was seen to fail, and returns a 1-minimal one, the one that  *)
(* the sequential Minimize computes with the loops of split and complement.*)
(***************************************************************************)
EXTENDS Sequential, SlicesProofs

(* Invariants are not inductive alone: the granularity bound needs that    *)
(* complements are tried above granularity 2 only, and 1-minimality of a   *)
(* single change needs that applying no change is known to pass.           *)
Granular ==
    /\ Len(current) >= 1
    /\ Len(current) <= N
    /\ n >= 2
    /\ phase = "complements" => n > 2
    /\ GranularityInRange

BaselineKnown == Refuted(<< >>)

LowestOf(cands, sel) ==
    /\ Fails(cands[sel])
    /\ \A j \in 1..sel - 1 : Refuted(cands[j])

AllRefuted(cands) == \A j \in DOMAIN cands : Refuted(cands[j])

(* What is known decides what an iteration of the loop makes of (s, k):    *)
(* (t, m).  It goes on doing so, as outcomes are learned and kept.         *)
Decided(s, k, t, m) ==
    /\ s \in Subset /\ k \in 2..Len(s)
    /\ \/ \E sel \in 1..k : LowestOf(Split(s, k), sel) /\ t = Chunk(s, k, sel) /\ m = 2
       \/ /\ AllRefuted(Split(s, k))
          /\ k > 2
          /\ \E sel \in 1..k :
                LowestOf(Complements(s, k), sel) /\ t = Complement(s, k, sel) /\ m = Larger(k - 1, 2)
       \/ /\ AllRefuted(Split(s, k))
          /\ k > 2 => AllRefuted(Complements(s, k))
          /\ k < Len(s) /\ t = s /\ m = Smaller(k * 2, Len(s))

(* The search has come to (current, n) as the sequential one comes to it,  *)
(* in one iteration after the other, each of which dropped an item or made *)
(* the chunks smaller.                                                     *)
Path(j, cs, ns) ==
    /\ cs[0] = Items /\ ns[0] = 2
    /\ cs[j] = current /\ ns[j] = n
    /\ \A i \in 0..j - 1 : Decided(cs[i], ns[i], cs[i + 1], ns[i + 1])

Sequenced == \E j \in Nat : /\ \E cs, ns : Path(j, cs, ns)
                              /\ j <= (N - Len(current)) * N + n - 2

(* And it is where the sequential search would be: beyond the chunks when  *)
(* complements are tried, beyond everything when it is done.               *)
Reached ==
    /\ Sequenced
    /\ n <= N + 1
    /\ phase = "complements" => AllRefuted(Split(current, n))
    /\ phase = "done" /\ Len(current) >= 2 =>
          /\ current \in Subset /\ n = Len(current)
          /\ AllRefuted(Split(current, n))
          /\ n > 2 => AllRefuted(Complements(current, n))

IInv ==
    /\ TypeOK
    /\ Granular
    /\ OrderPreserved
    /\ CurrentFails
    /\ BaselineKnown
    /\ OneMinimal
    /\ Reached

---------------------------------------------------------------------------
(* The candidates of a batch. *)
LEMMA CandidatesOfPhase ==
    ASSUME TypeOK
    PROVE  /\ phase = "chunks" => DOMAIN Candidates = 1..n /\ \A i \in 1..n : Candidates[i] = Chunk(current, n, i)
           /\ phase = "complements" => DOMAIN Candidates = 1..n /\ \A i \in 1..n : Candidates[i] = Complement(current, n, i)
           /\ ~Searching => DOMAIN Candidates = {}
  <1>1. CASE phase = "chunks"
    BY <1>1 DEF Candidates, Split, Searching
  <1>2. CASE phase = "complements"
    BY <1>2 DEF Candidates, Complements, Searching
  <1>3. CASE ~Searching
    <2>1. Candidates = << >>
      BY <1>3 DEF Candidates, Searching
    <2> QED BY <1>3, <2>1 DEF Searching
  <1> QED BY <1>1, <1>2, <1>3 DEF TypeOK, Searching

(* Each candidate of a batch is a non-empty subset in the order of the     *)
(* items, with at least n - 1 items when it is a complement.               *)
LEMMA CandidateProperties ==
    ASSUME TypeOK, Granular, OrderPreserved, Searching, NEW i \in 1..n
    PROVE  LET c == Candidates[i]
           IN  /\ c \in Subset
               /\ Len(c) >= 1
               /\ Len(c) < Len(current)
               /\ phase = "complements" => Len(c) >= n - 1
               /\ \A j, k \in 1..Len(c) : j < k => c[j] < c[k]
  <1>1. /\ current \in Seq(1..N)
        /\ n \in 2..Len(current)
        /\ Len(current) \in Nat
    BY DEF TypeOK, Granular, GranularityInRange, Subset
  <1>2. \A x \in 1..Len(current) : current[x] \in Nat
    <2>1. \A x \in 1..Len(current) : current[x] \in 1..N
      BY <1>1, ElementOfSeq
    <2> QED BY <2>1, NAssumption
  <1>3. CASE phase = "chunks"
    <2> DEFINE c == Chunk(current, n, i)
               before == ItemsBefore(Len(current), n, i)
    <2>1. Candidates[i] = c
      BY <1>3, CandidatesOfPhase
    <2>2. /\ c \in Seq(1..N)
          /\ Len(c) >= 1
          /\ Len(c) < Len(current)
          /\ \A j \in 1..Len(c) :
                before + j \in 1..Len(current) /\ c[j] = current[before + j]
      BY <1>1, ChunkProperties
    <2>3. before \in Nat
      <3>1. n \in 1..Len(current)
        BY <1>1
      <3> QED BY <3>1, <1>1, ItemsBeforeProperties
    <2> HIDE DEF c, before
    <2>4. ASSUME NEW j \in 1..Len(c), NEW k \in 1..Len(c), j < k
          PROVE  c[j] < c[k]
      <3>1. before + j < before + k
        BY <2>2, <2>3, <2>4
      <3> QED BY <3>1, <2>2, <2>4 DEF OrderPreserved
    <2> QED BY <1>3, <2>1, <2>2, <2>4 DEF Subset
  <1>4. CASE phase = "complements"
    <2> DEFINE c == Complement(current, n, i)
               a == ItemsBefore(Len(current), n, i)
               b == ItemsBefore(Len(current), n, i + 1)
               from(j) == IF j <= a THEN j ELSE j + (b - a)
    <2>1. Candidates[i] = c
      BY <1>4, CandidatesOfPhase
    <2>2. /\ c \in Seq(1..N)
          /\ Len(c) >= n - 1
          /\ Len(c) < Len(current)
          /\ a \in Nat /\ b - a \in Nat
          /\ \A j \in 1..Len(c) : c[j] = current[from(j)] /\ from(j) \in 1..Len(current)
      BY <1>1, ComplementProperties
    <2>3. n > 2
      BY <1>4 DEF Granular
    <2>4. ASSUME NEW j \in 1..Len(c), NEW k \in 1..Len(c), j < k
          PROVE  c[j] < c[k]
      <3> HIDE DEF c, a, b
      <3>1. from(j) < from(k)
        BY <2>2, <2>4
      <3> HIDE DEF from
      <3> QED BY <3>1, <2>2, <2>4 DEF OrderPreserved
    <2>5. Len(c) >= 1
      BY <2>2, <2>3, <1>1
    <2> QED BY <1>4, <2>1, <2>2, <2>4, <2>5 DEF Subset
  <1> QED BY <1>3, <1>4 DEF Searching

(* A batch holds each candidate once. *)
LEMMA CandidatesDiffer ==
    ASSUME TypeOK, Granular, OrderPreserved, Searching,
           NEW i \in 1..n, NEW j \in 1..n, i # j
    PROVE  Candidates[i] # Candidates[j]
  <1>1. /\ current \in Seq(1..N)
        /\ n \in 2..Len(current)
    BY DEF TypeOK, Granular, GranularityInRange, Subset
  <1>2. current \in Seq(Nat) /\ Increasing(current)
    <2>1. 1..N \subseteq Nat
      BY NAssumption
    <2>2. current \in Seq(Nat)
      BY <1>1, <2>1, SeqMonotonic
    <2> QED BY <2>2 DEF OrderPreserved, Increasing
  <1>3. ASSUME NEW x \in 1..n, NEW y \in 1..n, x < y
        PROVE  Candidates[x] # Candidates[y]
    <2>1. CASE phase = "chunks"
      <3>1. Candidates[x] = Chunk(current, n, x) /\ Candidates[y] = Chunk(current, n, y)
        BY <2>1, CandidatesOfPhase
      <3>2. Chunk(current, n, x) # Chunk(current, n, y)
        BY <1>1, <1>2, <1>3, ChunksDiffer
      <3> QED BY <3>1, <3>2
    <2>2. CASE phase = "complements"
      <3>1. /\ Candidates[x] = Complement(current, n, x)
            /\ Candidates[y] = Complement(current, n, y)
        BY <2>2, CandidatesOfPhase
      <3>2. Complement(current, n, x) # Complement(current, n, y)
        BY <1>1, <1>2, <1>3, ComplementsDiffer
      <3> QED BY <3>1, <3>2
    <2> QED BY <2>1, <2>2 DEF Searching
  <1>4. i < j \/ j < i
    BY <1>1
  <1> QED BY <1>3, <1>4

---------------------------------------------------------------------------
(* The sequential search. *)

LEMMA BatchesAre ==
    ASSUME TypeOK, Granular PROVE BatchesAreTheCodes
  <1> SUFFICES ASSUME Searching PROVE BatchesAreTheCodes
    BY DEF BatchesAreTheCodes
  <1>1. current \in Seq(1..N) /\ n \in 2..Len(current) /\ n \in 1..Len(current)
    BY DEF TypeOK, Granular, GranularityInRange, Subset
  <1> DEFINE chunks == SplitLoop(current, n)
  <1>2. Split(current, n) = chunks
    BY <1>1, SplitLoopIs
  <1>3. Concatenated(Split(current, n), 0) = current
    <2>1. 0 \in 0..n
      BY <1>1
    <2> QED BY <1>1, <2>1, ConcatenatedIs
  <1>4. ASSUME NEW i \in 1..n
        PROVE  Complement(current, n, i) = Concatenated(Split(current, n), i)
    <2>1. i \in 0..n /\ i # 0
      BY <1>1
    <2> QED BY <1>1, <2>1, ConcatenatedIs
  <1>5. ASSUME NEW i \in 1..n
        PROVE  Len(Split(current, n)[i])
                   = (Len(current) \div n) + (IF i <= Len(current) % n THEN 1 ELSE 0)
    <2>1. Len(Chunk(current, n, i))
             = ItemsBefore(Len(current), n, i + 1) - ItemsBefore(Len(current), n, i)
      BY <1>1, ChunkProperties
    <2>2. Len(current) \in Nat
      BY <1>1
    <2>3. ItemsBefore(Len(current), n, i + 1) - ItemsBefore(Len(current), n, i)
             = (Len(current) \div n) + (IF i <= Len(current) % n THEN 1 ELSE 0)
      BY <1>1, <2>2, ItemsBeforeProperties
    <2> QED BY <2>1, <2>3 DEF Split
  <1>6. Len(current) \div n \in Nat
    <2>1. Len(current) \in Nat
      BY <1>1
    <2> QED BY <1>1, <2>1, ChunkSize
  <1> HIDE DEF chunks
  <1>7. \A i, j \in 1..n : Len(chunks[i]) - Len(chunks[j]) \in {-1, 0, 1}
    BY <1>2, <1>5, <1>6
  <1> QED BY <1>2, <1>3, <1>4, <1>7 DEF BatchesAreTheCodes, chunks

(* sequential answers with the failing candidate that all before it do not *)
(* share, if there is one.                                                 *)
LEMMA FirstFailingIs ==
    ASSUME NEW k \in Nat, NEW cands, DOMAIN cands = 1..k
    PROVE  /\ \A sel \in 1..k : LowestOf(cands, sel) => FirstFailing(cands) = sel
           /\ AllRefuted(cands) => FirstFailing(cands) = 0
  <1>1. \A s : ~(Fails(s) /\ Refuted(s))
    BY DEF Fails, Refuted
  <1>2. ASSUME NEW sel \in 1..k, LowestOf(cands, sel)
        PROVE  FirstFailing(cands) = sel
    <2> DEFINE failing == {i \in DOMAIN cands : Fails(cands[i])}
    <2>1. sel \in failing /\ failing \subseteq 1..k
      BY <1>2 DEF LowestOf
    <2>2. ASSUME NEW i \in failing PROVE sel <= i
      <3>1. i \notin 1..sel - 1
        BY <1>1, <1>2 DEF LowestOf
      <3> QED BY <2>1, <3>1
    <2>3. \A i \in failing : (\A j \in failing : i <= j) => i = sel
      <3> HIDE DEF failing
      <3> QED BY <2>1, <2>2
    <2>4. FirstFailing(cands) = IF failing = {} THEN 0 ELSE CHOOSE i \in failing : \A j \in failing : i <= j
      BY DEF FirstFailing
    <2> HIDE DEF failing
    <2> QED BY <2>1, <2>2, <2>3, <2>4
  <1>3. ASSUME AllRefuted(cands) PROVE FirstFailing(cands) = 0
    BY <1>1, <1>3 DEF AllRefuted, FirstFailing
  <1> QED BY <1>2, <1>3

(* An iteration of the loop, in terms of the closed forms. *)
LEMMA IterationOf ==
    ASSUME NEW s \in Subset, NEW k \in 2..Len(s)
    PROVE  LET chunk == FirstFailing(Split(s, k))
               comp  == IF k > 2 THEN FirstFailing(Complements(s, k)) ELSE 0
           IN  Iteration(s, k) =
                   IF chunk # 0 THEN <<Split(s, k)[chunk], 2>>
                   ELSE IF comp # 0 THEN <<Complements(s, k)[comp], Larger(k - 1, 2)>>
                   ELSE IF k >= Len(s) THEN <<s, k>>
                   ELSE <<s, Smaller(k * 2, Len(s))>>
  <1>1. s \in Seq(1..N) /\ k \in 1..Len(s) /\ k \in Nat /\ ~(Len(s) < 2)
    BY DEF Subset
  <1>2. SplitLoop(s, k) = Split(s, k)
    BY <1>1, SplitLoopIs
  <1>3. [i \in 1..k |-> Concatenated(Split(s, k), i)] = Complements(s, k)
    <2>1. ASSUME NEW i \in 1..k PROVE Concatenated(Split(s, k), i) = Complement(s, k, i)
      <3>1. i \in 0..k /\ i # 0
        BY <1>1
      <3> QED BY <1>1, <3>1, ConcatenatedIs
    <2> QED BY <2>1 DEF Complements
  <1> DEFINE chunks == SplitLoop(s, k)
             comps == [i \in 1..k |-> Concatenated(chunks, i)]
             comp == IF k > 2 THEN FirstFailing(comps) ELSE 0
  <1>4. Iteration(s, k) =
            IF FirstFailing(chunks) # 0 THEN <<chunks[FirstFailing(chunks)], 2>>
            ELSE IF comp # 0 THEN <<comps[comp], Larger(k - 1, 2)>>
            ELSE IF k >= Len(s) THEN <<s, k>>
            ELSE <<s, Smaller(k * 2, Len(s))>>
    BY <1>1 DEF Iteration
  <1>5. chunks = Split(s, k) /\ comps = Complements(s, k)
    BY <1>2, <1>3
  <1> HIDE DEF chunks, comps
  <1> QED BY <1>4, <1>5

LEMMA DecidedIteration ==
    ASSUME NEW s, NEW k, NEW t, NEW m, Decided(s, k, t, m)
    PROVE  Iteration(s, k) = <<t, m>>
  <1>1. s \in Subset /\ k \in 2..Len(s) /\ k \in Nat /\ Len(s) \in Nat
    BY DEF Decided, Subset
  <1> DEFINE chunks == Split(s, k)
             comps == Complements(s, k)
  <1>2. DOMAIN chunks = 1..k /\ \A i \in 1..k : chunks[i] = Chunk(s, k, i)
    BY DEF Split
  <1>3. DOMAIN comps = 1..k /\ \A i \in 1..k : comps[i] = Complement(s, k, i)
    BY DEF Complements
  <1>4. Iteration(s, k) =
            IF FirstFailing(chunks) # 0 THEN <<chunks[FirstFailing(chunks)], 2>>
            ELSE IF (IF k > 2 THEN FirstFailing(comps) ELSE 0) # 0
                 THEN <<comps[IF k > 2 THEN FirstFailing(comps) ELSE 0], Larger(k - 1, 2)>>
            ELSE IF k >= Len(s) THEN <<s, k>>
            ELSE <<s, Smaller(k * 2, Len(s))>>
    BY <1>1, IterationOf
  <1>5. CASE \E sel \in 1..k : LowestOf(chunks, sel) /\ t = Chunk(s, k, sel) /\ m = 2
    <2>1. PICK sel \in 1..k : LowestOf(chunks, sel) /\ t = Chunk(s, k, sel) /\ m = 2
      BY <1>5
    <2> HIDE DEF chunks, comps
    <2>2. FirstFailing(chunks) = sel /\ sel # 0
      BY <1>1, <1>2, <2>1, FirstFailingIs
    <2> QED BY <1>2, <1>4, <2>1, <2>2
  <1>6. CASE /\ AllRefuted(chunks)
             /\ k > 2
             /\ \E sel \in 1..k :
                   LowestOf(comps, sel) /\ t = Complement(s, k, sel) /\ m = Larger(k - 1, 2)
    <2>1. PICK sel \in 1..k :
             LowestOf(comps, sel) /\ t = Complement(s, k, sel) /\ m = Larger(k - 1, 2)
      BY <1>6
    <2> HIDE DEF chunks, comps
    <2>2. FirstFailing(chunks) = 0
      BY <1>1, <1>2, <1>6, FirstFailingIs
    <2>3. FirstFailing(comps) = sel /\ sel # 0
      BY <1>1, <1>3, <2>1, FirstFailingIs
    <2> QED BY <1>3, <1>4, <1>6, <2>1, <2>2, <2>3
  <1>7. CASE /\ AllRefuted(chunks)
             /\ k > 2 => AllRefuted(comps)
             /\ k < Len(s) /\ t = s /\ m = Smaller(k * 2, Len(s))
    <2> HIDE DEF chunks, comps
    <2>1. FirstFailing(chunks) = 0
      BY <1>1, <1>2, <1>7, FirstFailingIs
    <2>2. (IF k > 2 THEN FirstFailing(comps) ELSE 0) = 0
      BY <1>1, <1>3, <1>7, FirstFailingIs
    <2>3. ~(k >= Len(s))
      BY <1>1, <1>7
    <2> QED BY <1>4, <1>7, <2>1, <2>2, <2>3
  <1> QED BY <1>5, <1>6, <1>7 DEF Decided

(* Where the loop has ended it stays. *)
LEMMA EndedIteration ==
    ASSUME TypeOK, Reached, phase = "done"
    PROVE  Iteration(current, n) = <<current, n>>
  <1>1. CASE Len(current) < 2
    BY <1>1 DEF Iteration
  <1>2. CASE ~(Len(current) < 2)
    <2>1. Len(current) \in Nat
      BY DEF TypeOK, Subset
    <2>2. /\ current \in Subset /\ n \in 2..Len(current) /\ n \in Nat /\ n >= Len(current)
          /\ AllRefuted(Split(current, n))
          /\ n > 2 => AllRefuted(Complements(current, n))
      BY <1>2, <2>1 DEF Reached
    <2>3. FirstFailing(Split(current, n)) = 0
      <3>1. DOMAIN Split(current, n) = 1..n
        BY DEF Split
      <3> QED BY <2>2, <3>1, FirstFailingIs
    <2>4. n > 2 => FirstFailing(Complements(current, n)) = 0
      <3>1. DOMAIN Complements(current, n) = 1..n
        BY DEF Complements
      <3> QED BY <2>2, <3>1, FirstFailingIs
    <2> QED BY <2>2, <2>3, <2>4, IterationOf
  <1> QED BY <1>1, <1>2

After(reached) == Iteration(reached[1], reached[2])

(* The loop as a function: it exists, as each iteration is determined by   *)
(* the one before.                                                         *)
LEMMA SearchIs ==
    Search[0] = <<Items, 2>> /\ \A i \in Nat : Search[i + 1] = After(Search[i])
  <1> DEFINE Starts(g, k) == g[0] = <<Items, 2>> /\ \A i \in 1..k : g[i] = After(g[i - 1])
             P == {k \in Nat : \E g : Starts(g, k)}
             first == CHOOSE g : Starts(g, 0)
             upto(k) == CHOOSE g : Starts(g, k)
             f == [k \in Nat |-> upto(k)[k]]
             Loops(g) == g = [i \in Nat |-> IF i = 0 THEN <<Items, 2>> ELSE After(g[i - 1])]
  <1>1. ASSUME NEW k \in Nat PROVE \E g : Starts(g, k)
    <2>1. 0 \in P
      <3> DEFINE g == [i \in {0} |-> <<Items, 2>>]
      <3>1. Starts(g, 0)
        OBVIOUS
      <3> HIDE DEF g, Starts
      <3> QED BY <3>1
    <2>2. \A i \in 0..k - 1 : i \in P => i + 1 \in P
      <3> SUFFICES ASSUME NEW i \in 0..k - 1, i \in P PROVE i + 1 \in P
        OBVIOUS
      <3>1. PICK g : Starts(g, i)
        OBVIOUS
      <3> DEFINE h == [x \in 0..i + 1 |-> IF x = i + 1 THEN After(g[i]) ELSE g[x]]
      <3>2. h[0] = <<Items, 2>>
        BY <3>1
      <3>3. ASSUME NEW x \in 1..i + 1 PROVE h[x] = After(h[x - 1])
        <4>1. x - 1 \in 0..i + 1 /\ x - 1 # i + 1 /\ x \in 0..i + 1 /\ (x # i + 1 => x \in 1..i)
          OBVIOUS
        <4>2. h[x - 1] = g[x - 1]
          BY <4>1
        <4>3. h[x] = IF x = i + 1 THEN After(g[i]) ELSE g[x]
          BY <4>1
        <4> HIDE DEF h
        <4>4. CASE x = i + 1
          <5>1. x - 1 = i
            BY <4>4
          <5> QED BY <4>2, <4>3, <4>4, <5>1
        <4>5. CASE x # i + 1
          BY <3>1, <4>1, <4>2, <4>3, <4>5
        <4> QED BY <4>4, <4>5
      <3> HIDE DEF h
      <3>4. Starts(h, i + 1)
        BY <3>2, <3>3
      <3>5. i + 1 \in Nat
        OBVIOUS
      <3> HIDE DEF Starts
      <3> QED BY <3>4, <3>5
    <2> HIDE DEF P, Starts
    <2>3. \A i \in 0..k : i \in P
      BY <2>1, <2>2, UpTo
    <2>4. k \in P
      BY <2>3
    <2> QED BY <2>4 DEF P
  <1>2. \A k \in Nat : Starts(upto(k), k)
    <2> HIDE DEF Starts
    <2> QED BY <1>1
  <1> HIDE DEF upto, P
  <1>3. ASSUME NEW k \in Nat PROVE upto(k + 1)[k] = upto(k)[k]
    <2> DEFINE a == upto(k + 1)
               b == upto(k)
    <2>1. Starts(a, k + 1) /\ Starts(b, k)
      BY <1>2
    <2> HIDE DEF a, b
    <2>2. \A i \in 1..k : i \in 1..k + 1
      OBVIOUS
    <2>3. SameLoop(k, a, b)
      BY <2>1, <2>2 DEF SameLoop
    <2>4. k \in 0..k
      OBVIOUS
    <2> HIDE DEF Starts
    <2> QED BY <2>3, <2>4, LoopDetermines DEF a, b
  <1>4. f[0] = <<Items, 2>>
    BY <1>2
  <1>5. ASSUME NEW k \in Nat PROVE f[k + 1] = After(f[k])
    <2>1. k + 1 \in Nat /\ k + 1 \in 1..k + 1 /\ (k + 1) - 1 = k
      OBVIOUS
    <2>2. upto(k + 1)[k + 1] = After(upto(k + 1)[k])
      BY <1>2, <2>1
    <2> HIDE DEF Starts
    <2>3. f[k + 1] = upto(k + 1)[k + 1] /\ f[k] = upto(k)[k]
      BY <2>1
    <2> HIDE DEF f
    <2> QED BY <1>3, <2>2, <2>3
  <1>6. Loops(f)
    <2>1. f = [i \in Nat |-> f[i]]
      OBVIOUS
    <2> HIDE DEF f, Starts
    <2>2. \A i \in Nat : i # 0 => f[i] = After(f[i - 1])
      <3> SUFFICES ASSUME NEW i \in Nat, i # 0 PROVE f[i] = After(f[i - 1])
        OBVIOUS
      <3>1. i - 1 \in Nat /\ (i - 1) + 1 = i
        OBVIOUS
      <3> QED BY <1>5, <3>1
    <2> QED BY <1>4, <2>1, <2>2
  <1>7. Loops(Search)
    <2> HIDE DEF f, Starts
    <2>1. Search = CHOOSE g : Loops(g)
      BY DEF Search, After
    <2> HIDE DEF Loops
    <2> QED BY <1>6, <2>1
  <1> HIDE DEF f, Starts
  <1>8. Search = [i \in Nat |-> IF i = 0 THEN <<Items, 2>> ELSE After(Search[i - 1])]
    BY <1>7
  <1> HIDE DEF Loops
  <1>9. ASSUME NEW i \in Nat PROVE Search[i + 1] = After(Search[i])
    <2>1. i + 1 \in Nat /\ i + 1 # 0 /\ (i + 1) - 1 = i
      OBVIOUS
    <2> QED BY <1>8, <2>1
  <1> QED BY <1>8, <1>9

(* Outcomes stay as they have been learned, and with them the iterations   *)
(* they decide.                                                            *)
OutcomesKept == \A s \in DOMAIN known : s \in DOMAIN known' /\ known'[s] = known[s]

LEMMA DecidedKept ==
    ASSUME OutcomesKept, NEW s, NEW k, NEW t, NEW m, Decided(s, k, t, m)
    PROVE  Decided(s, k, t, m)'
  <1>1. \A c : (Fails(c) => Fails(c)') /\ (Refuted(c) => Refuted(c)')
    BY DEF OutcomesKept, Fails, Refuted
  <1>2. \A c, sel : LowestOf(c, sel) => LowestOf(c, sel)'
    BY <1>1 DEF LowestOf
  <1>3. \A c : AllRefuted(c) => AllRefuted(c)'
    BY <1>1 DEF AllRefuted
  <1> QED BY <1>2, <1>3 DEF Decided

LEMMA SequencedKept ==
    ASSUME OutcomesKept, Sequenced, current' = current, n' = n
    PROVE  Sequenced'
  <1>0. PICK j \in Nat : /\ \E cs, ns : Path(j, cs, ns)
                         /\ j <= (N - Len(current)) * N + n - 2
    BY DEF Sequenced
  <1>1. PICK cs, ns : /\ Path(j, cs, ns)
                      /\ j <= (N - Len(current)) * N + n - 2
    BY <1>0
  <1>2. \A i \in 0..j - 1 : Decided(cs[i], ns[i], cs[i + 1], ns[i + 1])'
    BY <1>1, DecidedKept DEF Path
  <1>3. Path(j, cs, ns)'
    BY <1>1, <1>2 DEF Path
  <1> QED BY <1>1, <1>3 DEF Sequenced

(* An iteration more. *)
LEMMA SequencedNext ==
    ASSUME Sequenced, UNCHANGED known, NEW t, NEW m, t = current', m = n',
           Decided(current, n, t, m),
           (N - Len(current)) * N + n + 1 <= (N - Len(t)) * N + m,
           (N - Len(current)) * N \in Int, (N - Len(t)) * N \in Int, n \in Nat, m \in Nat
    PROVE  Sequenced'
  <1>0. PICK j \in Nat : /\ \E cs, ns : Path(j, cs, ns)
                         /\ j <= (N - Len(current)) * N + n - 2
    BY DEF Sequenced
  <1>1. PICK cs, ns : /\ Path(j, cs, ns)
                      /\ j <= (N - Len(current)) * N + n - 2
    BY <1>0
  <1> DEFINE ds == [i \in 0..j + 1 |-> IF i = j + 1 THEN t ELSE cs[i]]
             ms == [i \in 0..j + 1 |-> IF i = j + 1 THEN m ELSE ns[i]]
  <1>2. /\ ds[0] = Items /\ ms[0] = 2
        /\ ds[j + 1] = t /\ ms[j + 1] = m
    BY <1>1 DEF Path
  <1>3. ASSUME NEW i \in 0..j
        PROVE  Decided(ds[i], ms[i], ds[i + 1], ms[i + 1])
    <2>1. ds[i] = cs[i] /\ ms[i] = ns[i]
      OBVIOUS
    <2>2. /\ i = j => ds[i + 1] = t /\ ms[i + 1] = m
          /\ i # j => ds[i + 1] = cs[i + 1] /\ ms[i + 1] = ns[i + 1] /\ i \in 0..j - 1
      OBVIOUS
    <2> HIDE DEF ds, ms
    <2>3. CASE i = j
      <3>1. cs[i] = current /\ ns[i] = n
        BY <1>1, <2>3 DEF Path
      <3> QED BY <2>1, <2>2, <2>3, <3>1
    <2>4. CASE i # j
      BY <1>1, <2>1, <2>2, <2>4 DEF Path
    <2> QED BY <2>3, <2>4
  <1> HIDE DEF ds, ms
  <1>4. OutcomesKept
    BY DEF OutcomesKept
  <1>5. \A i \in 0..j : Decided(ds[i], ms[i], ds[i + 1], ms[i + 1])'
    BY <1>3, <1>4, DecidedKept
  <1>6. j + 1 \in Nat /\ (j + 1) - 1 = j
    OBVIOUS
  <1>7. Path(j + 1, ds, ms)'
    BY <1>2, <1>5, <1>6 DEF Path
  <1>8. j + 1 <= (N - Len(t)) * N + m - 2
    BY <1>1
  <1>9. j + 1 <= (N - Len(current')) * N + n' - 2
    BY <1>8
  <1> QED BY <1>6, <1>7, <1>9 DEF Sequenced

(* Dropping an item outweighs any change of granularity. *)
LEMMA SmallerIsLater ==
    ASSUME NEW len \in 1..N, NEW less \in 1..len - 1, NEW k \in 2..len, NEW m \in Nat, m >= 2
    PROVE  /\ (N - len) * N \in Int /\ (N - less) * N \in Int
           /\ (N - len) * N + k + 1 <= (N - less) * N + m
  <1>1. N \in Nat /\ len <= N /\ less <= N
    BY NAssumption
  <1>2. N - len + 1 \in Nat /\ N - less \in Nat /\ N - len + 1 <= N - less /\ N - len \in Nat
    BY <1>1
  <1>3. (N - len + 1) * N <= (N - less) * N
    BY <1>1, <1>2, ProductMonotonic
  <1>4. (N - len + 1) * N = (N - len) * N + N
    BY <1>1, <1>2
  <1>5. (N - len) * N \in Int /\ (N - less) * N \in Int
    BY <1>1, <1>2
  <1>6. (N - len) * N + N <= (N - less) * N
    BY <1>3, <1>4
  <1> QED BY <1>1, <1>5, <1>6

LEMMA ReachedKept ==
    ASSUME OutcomesKept, Reached, UNCHANGED <<current, n>>, phase' = phase \/ phase' = "aborted"
    PROVE  Reached'
  <1>1. Sequenced'
    BY SequencedKept DEF Reached
  <1>2. \A c : AllRefuted(c) => AllRefuted(c)'
    BY DEF OutcomesKept, AllRefuted, Refuted
  <1>3. /\ AllRefuted(Split(current, n)) => AllRefuted(Split(current, n))'
        /\ AllRefuted(Complements(current, n)) => AllRefuted(Complements(current, n))'
    <2> DEFINE chunks == Split(current, n)
               comps == Complements(current, n)
    <2>1. chunks' = chunks /\ comps' = comps
      OBVIOUS
    <2>2. AllRefuted(chunks) => AllRefuted(chunks)'
      BY <2>1 DEF OutcomesKept, AllRefuted, Refuted
    <2>3. AllRefuted(comps) => AllRefuted(comps)'
      BY <2>1 DEF OutcomesKept, AllRefuted, Refuted
    <2> QED BY <2>2, <2>3
  <1> QED BY <1>1, <1>3 DEF Reached

LEMMA ReachedByReducing ==
    ASSUME TypeOK, Granular, Reached, Searching, NEW sel \in 1..n,
           LowestFailing(sel), Reduce(sel), UNCHANGED known
    PROVE  Reached'
  <1>1. /\ current \in Subset /\ n \in 2..Len(current) /\ Len(current) \in 1..N /\ n \in Nat
    BY NAssumption DEF TypeOK, Granular, GranularityInRange, Subset
  <1>2. /\ DOMAIN Candidates = 1..n
        /\ phase = "chunks" => Candidates = Split(current, n)
        /\ phase = "complements" => Candidates = Complements(current, n)
    BY CandidatesOfPhase DEF Candidates, Searching
  <1> DEFINE t == current'
             m == n'
  <1>3. /\ Decided(current, n, t, m)
        /\ Len(t) \in 1..Len(current) - 1 /\ m \in Nat /\ m >= 2 /\ m <= N + 1
        /\ phase' = LoopFrom(t)
    <2>1. CASE AdoptChunk(sel)
      <3>1. t = Chunk(current, n, sel) /\ m = 2 /\ phase = "chunks" /\ phase' = LoopFrom(t)
        BY <2>1 DEF AdoptChunk
      <3>2. LowestOf(Split(current, n), sel)
        BY <1>2, <3>1 DEF LowestFailing, LowestOf
      <3>3. t \in Seq(1..N) /\ Len(t) >= 1 /\ Len(t) < Len(current)
        BY <1>1, <3>1, ChunkProperties DEF Subset
      <3> HIDE DEF t, m
      <3>4. Decided(current, n, t, m)
        BY <1>1, <3>1, <3>2 DEF Decided
      <3>5. Len(t) \in 1..Len(current) - 1 /\ m \in Nat /\ m >= 2 /\ m <= N + 1
        BY <1>1, <3>1, <3>3, NAssumption
      <3> QED BY <3>1, <3>4, <3>5
    <2>2. CASE AdoptComplement(sel)
      <3>1. /\ t = Complement(current, n, sel) /\ m = Larger(n - 1, 2) /\ phase = "complements"
            /\ phase' = LoopFrom(t)
        BY <2>2 DEF AdoptComplement
      <3>2. LowestOf(Complements(current, n), sel)
        BY <1>2, <3>1 DEF LowestFailing, LowestOf
      <3>3. AllRefuted(Split(current, n)) /\ n > 2
        BY <3>1 DEF Reached, Granular
      <3>4. t \in Seq(1..N) /\ Len(t) >= n - 1 /\ Len(t) < Len(current)
        BY <1>1, <3>1, ComplementProperties DEF Subset
      <3> HIDE DEF t, m
      <3>5. m = n - 1
        BY <1>1, <3>1, <3>3 DEF Larger
      <3>6. Decided(current, n, t, m)
        BY <1>1, <3>1, <3>2, <3>3 DEF Decided
      <3>7. Len(t) \in 1..Len(current) - 1 /\ m \in Nat /\ m >= 2 /\ m <= N + 1
        BY <1>1, <3>3, <3>4, <3>5, NAssumption
      <3> QED BY <3>1, <3>6, <3>7
    <2> QED BY <2>1, <2>2 DEF Reduce
  <1>4. /\ (N - Len(current)) * N \in Int /\ (N - Len(t)) * N \in Int
        /\ (N - Len(current)) * N + n + 1 <= (N - Len(t)) * N + m
    <2> HIDE DEF t, m
    <2> QED BY <1>1, <1>3, SmallerIsLater
  <1>5. Sequenced'
    BY <1>1, <1>3, <1>4, SequencedNext DEF Reached
  <1>6. phase' # "complements" /\ (phase' = "done" => ~(Len(t) >= 2))
    BY <1>3 DEF LoopFrom
  <1> QED BY <1>3, <1>5, <1>6 DEF Reached

LEMMA ReachedByRefuting ==
    ASSUME TypeOK, Granular, Reached, Searching, NoneFails, NotReduced, UNCHANGED known
    PROVE  Reached'
  <1>1. /\ current \in Subset /\ n \in 2..Len(current) /\ Len(current) \in 1..N /\ n \in Nat
    BY NAssumption DEF TypeOK, Granular, GranularityInRange, Subset
  <1>2. OutcomesKept /\ current' = current
    BY DEF OutcomesKept, NotReduced, TryComplements, IncreaseGranularity, Stop
  <1>3. AllRefuted(Split(current, n)) /\ (phase = "complements" => AllRefuted(Complements(current, n)))
    <2>1. phase = "chunks" => AllRefuted(Split(current, n))
      BY DEF NoneFails, AllRefuted, Candidates
    <2>2. phase = "complements" => AllRefuted(Complements(current, n))
      BY DEF NoneFails, AllRefuted, Candidates
    <2> QED BY <2>1, <2>2 DEF Reached, Searching
  <1>4. CASE TryComplements
    <2>1. n' = n /\ phase' = "complements"
      BY <1>4 DEF TryComplements
    <2>2. Sequenced'
      BY <1>2, <2>1, SequencedKept DEF Reached
    <2>3. AllRefuted(Split(current, n))'
      BY <1>2, <1>3, <2>1 DEF AllRefuted, Refuted
    <2> QED BY <2>1, <2>2, <2>3 DEF Reached
  <1>5. CASE IncreaseGranularity
    <2> DEFINE t == current'
               m == n'
    <2>1. /\ LastBatch /\ n < Len(current) /\ m = Smaller(n * 2, Len(current))
          /\ t = current /\ phase' = "chunks"
      BY <1>5 DEF IncreaseGranularity
    <2>2. n > 2 => AllRefuted(Complements(current, n))
      BY <1>1, <1>3, <2>1 DEF LastBatch
    <2> HIDE DEF t, m
    <2>3. Decided(current, n, t, m)
      BY <1>1, <1>3, <2>1, <2>2 DEF Decided
    <2>4. m \in Nat /\ m >= n + 1 /\ m <= N + 1
      BY <1>1, <2>1, NAssumption DEF Smaller
    <2>5. (N - Len(current)) * N \in Int
      BY <1>1, NAssumption
    <2>6. (N - Len(current)) * N + n + 1 <= (N - Len(t)) * N + m /\ (N - Len(t)) * N \in Int
      BY <1>1, <2>1, <2>4, <2>5
    <2>7. t = current' /\ m = n'
      BY DEF t, m
    <2>8. Sequenced'
      BY <1>1, <2>3, <2>4, <2>5, <2>6, <2>7, SequencedNext DEF Reached
    <2> QED BY <2>1, <2>4, <2>7, <2>8 DEF Reached
  <1>6. CASE Stop
    <2>1. n' = n /\ phase' = "done" /\ n = Len(current) /\ LastBatch
      BY <1>1, <1>6 DEF Stop
    <2>2. Sequenced'
      BY <1>2, <2>1, SequencedKept DEF Reached
    <2>3. n > 2 => AllRefuted(Complements(current, n))
      BY <1>1, <1>3, <2>1 DEF LastBatch
    <2>4. AllRefuted(Split(current, n))' /\ (n > 2 => AllRefuted(Complements(current, n))')
      BY <1>2, <1>3, <2>1, <2>3 DEF AllRefuted, Refuted
    <2>5. n' <= N + 1
      BY <2>1 DEF Reached
    <2> QED BY <1>1, <1>2, <2>1, <2>2, <2>4, <2>5 DEF Reached
  <1> QED BY <1>4, <1>5, <1>6 DEF NotReduced

---------------------------------------------------------------------------
(* A search starts with both baselines known and nothing else needed: it   *)
(* may know more, as one that is resumed does.                             *)
StartOfSearch ==
    /\ current = Items
    /\ n = 2
    /\ phase = LoopFrom(Items)
    /\ DOMAIN known \subseteq Subset
    /\ \A s \in DOMAIN known : known[s] \in Outcomes
    /\ Fails(Items)
    /\ BaselineKnown

LEMMA ItemsProperties == Items \in Seq(1..N) /\ Len(Items) = N /\ Items # << >>
  <1>1. N \in Nat /\ N >= 1
    BY NAssumption
  <1>2. Items \in [1..N -> 1..N]
    BY DEF Items
  <1>3. Items \in Seq(1..N)
    BY <1>1, <1>2, SeqDef
  <1>4. Len(Items) = N
    BY <1>1, <1>3 DEF Items
  <1> QED BY <1>1, <1>3, <1>4, EmptySeq

LEMMA StartIInv == StartOfSearch => IInv
  <1> SUFFICES ASSUME StartOfSearch PROVE IInv
    OBVIOUS
  <1>1. N \in Nat /\ N >= 1
    BY NAssumption
  <1>2. Items \in Seq(1..N) /\ Len(Items) = N
    BY ItemsProperties
  <1>3. TypeOK
    BY <1>2 DEF StartOfSearch, TypeOK, Subset, LoopFrom
  <1>4. Granular
    BY <1>1, <1>2 DEF StartOfSearch, Granular, GranularityInRange, Searching, LoopFrom
  <1>5. OrderPreserved
    BY <1>1, <1>2 DEF StartOfSearch, OrderPreserved, Items
  <1>6. CurrentFails /\ BaselineKnown
    BY DEF StartOfSearch, CurrentFails
  <1>7. OneMinimal
    <2> SUFFICES ASSUME phase = "done", NEW i \in 1..Len(current)
                 PROVE  Refuted(Without(current, i))
      BY DEF OneMinimal
    <2>1. Len(current) = 1
      BY <1>1, <1>2 DEF StartOfSearch, LoopFrom
    <2>2. i = 1
      BY <2>1
    <2>3. Without(current, 1) = << >>
      BY <1>2, <2>1, WithoutTheOnlyItem DEF StartOfSearch
    <2> QED BY <1>6, <2>2, <2>3 DEF BaselineKnown
  <1>8. Reached
    <2> DEFINE cs == [i \in {0} |-> Items]
               ns == [i \in {0} |-> 2]
    <2>1. current = Items /\ n = 2 /\ Len(current) = N
      BY <1>2 DEF StartOfSearch
    <2>2. Path(0, cs, ns)
      BY <2>1 DEF Path
    <2> HIDE DEF cs, ns
    <2>3. 0 <= (N - N) * N + 2 - 2
      BY <1>1
    <2>4. Sequenced
      BY <2>1, <2>2, <2>3 DEF Sequenced
    <2>5. phase # "complements" /\ (phase = "done" => ~(Len(current) >= 2)) /\ n <= N + 1
      BY <1>1, <2>1 DEF StartOfSearch, LoopFrom
    <2> QED BY <2>4, <2>5 DEF Reached
  <1> QED BY <1>3, <1>4, <1>5, <1>6, <1>7, <1>8 DEF IInv

LEMMA InitIInv == Init => IInv
  <1> SUFFICES ASSUME Init PROVE StartOfSearch
    BY StartIInv
  <1>1. DOMAIN known = {<< >>, Items} /\ known[Items] = "fail" /\ known[<< >>] = "pass"
    BY ItemsProperties DEF Init
  <1>2. << >> \in Seq(1..N)
    BY EmptySeq
  <1> QED BY <1>1, <1>2, ItemsProperties, OutcomesAssumption
          DEF Init, StartOfSearch, Subset, Fails, Refuted, BaselineKnown

(* Learning an outcome never changes one that is known. *)
LEMMA LearnIInv ==
    ASSUME IInv, NEW i \in DOMAIN Candidates, Learn(i)
    PROVE  IInv'
  <1>1. Searching /\ i \in 1..n
    BY CandidatesOfPhase DEF IInv, Searching, TypeOK
  <1>2. Candidates[i] \in Subset
    BY <1>1, CandidateProperties DEF IInv
  <1>3. UNCHANGED <<current, n, phase>>
    BY DEF Learn
  <1>4. PICK o \in Outcomes :
           known' = [s \in DOMAIN known \cup {Candidates[i]} |->
                        IF s = Candidates[i] THEN o ELSE known[s]]
    BY DEF Learn
  <1>5. \A s \in DOMAIN known : s \in DOMAIN known' /\ known'[s] = known[s]
    BY <1>4 DEF Learn
  <1>6. TypeOK'
    BY <1>2, <1>3, <1>4 DEF IInv, TypeOK
  <1>7. Granular' /\ OrderPreserved'
    BY <1>3 DEF IInv, Granular, GranularityInRange, OrderPreserved, Searching
  <1>8. CurrentFails' /\ BaselineKnown' /\ OneMinimal'
    BY <1>1, <1>3, <1>5
    DEF IInv, CurrentFails, BaselineKnown, OneMinimal, Fails, Refuted, Searching
  <1>9. Reached'
    BY <1>3, <1>5, ReachedKept DEF IInv, OutcomesKept
  <1> QED BY <1>6, <1>7, <1>8, <1>9 DEF IInv

(* A failing candidate replaces current: it is smaller and in order, and   *)
(* the granularity that goes with it is one it can be cut into.            *)
LEMMA ReduceIInv ==
    ASSUME IInv, Searching, NEW sel \in DOMAIN Candidates,
           LowestFailing(sel), Reduce(sel), UNCHANGED known
    PROVE  IInv'
  <1> DEFINE c == Candidates[sel]
  <1>1. sel \in 1..n
    BY CandidatesOfPhase DEF IInv, Searching
  <1>2. /\ c \in Subset
        /\ Len(c) >= 1
        /\ Len(c) < Len(current)
        /\ phase = "complements" => Len(c) >= n - 1
        /\ \A j, k \in 1..Len(c) : j < k => c[j] < c[k]
    BY <1>1, CandidateProperties DEF IInv
  <1>3. /\ current' = c
        /\ phase' = LoopFrom(current')
        /\ \/ phase = "chunks" /\ n' = 2
           \/ phase = "complements" /\ n' = Larger(n - 1, 2)
    <2>1. CASE AdoptChunk(sel)
      BY <2>1, <1>1, CandidatesOfPhase DEF IInv, AdoptChunk
    <2>2. CASE AdoptComplement(sel)
      BY <2>2, <1>1, CandidatesOfPhase DEF IInv, AdoptComplement
    <2> QED BY <2>1, <2>2 DEF Reduce
  <1>4. Fails(c)
    BY DEF LowestFailing
  <1> HIDE DEF c
  <1>5. Len(c) \in Nat /\ n \in Nat
    BY <1>2 DEF IInv, TypeOK, Subset
  <1>6. TypeOK'
    BY <1>2, <1>3, <1>5 DEF IInv, TypeOK, LoopFrom, Larger
  <1>7. Granular'
    <2>1. n' >= 2 /\ (phase' = "chunks" => n' <= Len(c))
      BY <1>2, <1>3, <1>5 DEF IInv, Granular, LoopFrom, Larger
    <2>2. phase' # "complements"
      BY <1>3 DEF LoopFrom
    <2>3. Len(c) <= N
      BY <1>2, <1>5, NAssumption DEF IInv, TypeOK, Granular, Subset
    <2> QED BY <1>2, <1>3, <2>1, <2>2, <2>3 DEF Granular, GranularityInRange, Searching
  <1>8. OrderPreserved'
    BY <1>2, <1>3 DEF OrderPreserved
  <1>9. CurrentFails' /\ BaselineKnown'
    BY <1>3, <1>4 DEF IInv, CurrentFails, BaselineKnown, Fails, Refuted
  <1>10. OneMinimal'
    <2>1. ASSUME phase' = "done", NEW i \in 1..Len(c)
          PROVE  Refuted(Without(c, i))
      <3>1. Len(c) = 1
        <4>1. ~(Len(c) >= 2)
          BY <1>3, <2>1 DEF LoopFrom
        <4>2. Len(c) >= 1
          BY <1>2
        <4>3. \A len \in Nat : len >= 1 /\ ~(len >= 2) => len = 1
          OBVIOUS
        <4>4. Len(c) \in Nat
          BY <1>5
        <4> QED BY <4>1, <4>2, <4>3, <4>4
      <3>2. i = 1
        BY <3>1
      <3>3. Without(c, 1) = << >>
        BY <1>2, <3>1, WithoutTheOnlyItem DEF Subset
      <3> QED BY <3>2, <3>3 DEF IInv, BaselineKnown
    <2> QED BY <1>3, <2>1 DEF OneMinimal, Refuted
  <1>11. Reached'
    BY <1>1, ReachedByReducing DEF IInv
  <1> QED BY <1>6, <1>7, <1>8, <1>9, <1>10, <1>11 DEF IInv

(* Without a failing candidate current stays; the loop stops only when the *)
(* batch that was refuted holds each neighbor of current.                  *)
LEMMA NotReducedIInv ==
    ASSUME IInv, Searching, NoneFails, NotReduced, UNCHANGED known
    PROVE  IInv'
  <1>1. /\ current \in Seq(1..N)
        /\ Len(current) \in Nat
        /\ n \in 2..Len(current)
    BY DEF IInv, TypeOK, Granular, GranularityInRange, Subset
  <1>2. current' = current
    BY DEF NotReduced, TryComplements, IncreaseGranularity, Stop
  <1>3. CurrentFails' /\ BaselineKnown' /\ OrderPreserved' /\ Reached'
    <2>1. Reached'
      BY ReachedByRefuting DEF IInv
    <2> QED BY <1>2, <2>1 DEF IInv, CurrentFails, BaselineKnown, OrderPreserved, Fails, Refuted
  <1>4. CASE TryComplements
    <2>1. TypeOK' /\ Granular' /\ OneMinimal'
      BY <1>1, <1>4
      DEF IInv, TryComplements, TypeOK, Granular, GranularityInRange, Searching, OneMinimal
    <2> QED BY <1>3, <2>1 DEF IInv
  <1>5. CASE IncreaseGranularity
    <2>1. n' \in Nat /\ n' >= 2 /\ n' <= Len(current)
      BY <1>1, <1>5 DEF IncreaseGranularity, Smaller
    <2>2. phase' = "chunks"
      BY <1>5 DEF IncreaseGranularity
    <2>3. TypeOK' /\ Granular' /\ OneMinimal'
      BY <1>2, <2>1, <2>2
      DEF IInv, TypeOK, Granular, GranularityInRange, Searching, OneMinimal
    <2> QED BY <1>3, <2>3 DEF IInv
  <1>6. CASE Stop
    <2>1. n = Len(current) /\ phase' = "done" /\ n' = n
      BY <1>1, <1>6 DEF Stop
    <2>2. ASSUME NEW i \in 1..Len(current)
          PROVE  Refuted(Without(current, i))
      <3>1. CASE phase = "complements"
        <4>1. Candidates[i] = Complement(current, Len(current), i) /\ i \in DOMAIN Candidates
          BY <2>1, <3>1, CandidatesOfPhase DEF IInv
        <4> QED BY <1>1, <4>1, SingletonComplement DEF NoneFails
      <3>2. CASE phase = "chunks"
        <4>1. n = 2 /\ Len(current) = 2
          BY <2>1, <3>2, <1>6 DEF Stop, LastBatch
        <4>2. 3 - i \in 1..n
          BY <4>1
        <4>3. Candidates[3 - i] = Chunk(current, 2, 3 - i) /\ 3 - i \in DOMAIN Candidates
          BY <3>2, <4>1, <4>2, CandidatesOfPhase DEF IInv
        <4> QED BY <1>1, <4>1, <4>3, HalvesOfTwo DEF NoneFails
      <3> QED BY <3>1, <3>2 DEF Searching
    <2>3. OneMinimal'
      BY <1>2, <2>2 DEF OneMinimal, Refuted
    <2>4. TypeOK' /\ Granular'
      BY <1>2, <2>1 DEF IInv, TypeOK, Granular, GranularityInRange, Searching
    <2> QED BY <1>3, <2>3, <2>4 DEF IInv
  <1> QED BY <1>4, <1>5, <1>6 DEF NotReduced

LEMMA NextIInv == IInv /\ [Next]_vars => IInv'
  <1> SUFFICES ASSUME IInv, [Next]_vars PROVE IInv'
    OBVIOUS
  <1>1. ASSUME NEW i \in DOMAIN Candidates, Learn(i) PROVE IInv'
    BY <1>1, LearnIInv
  <1>2. CASE Searching /\ Answer
    <2>1. ASSUME NEW sel \in DOMAIN Candidates, LowestFailing(sel), Reduce(sel)
          PROVE  IInv'
      BY <1>2, <2>1, ReduceIInv DEF Answer
    <2>2. CASE NoneFails /\ NotReduced
      BY <1>2, <2>2, NotReducedIInv DEF Answer
    <2> QED BY <1>2, <2>1, <2>2 DEF Answer
  <1>3. CASE Abort
    <2>1. Reached'
      BY <1>3, ReachedKept DEF Abort, IInv, OutcomesKept
    <2> QED BY <1>3, <2>1
            DEF Abort, IInv, TypeOK, Granular, GranularityInRange, OrderPreserved, CurrentFails,
                BaselineKnown, OneMinimal, Fails, Refuted, Searching
  <1>4. CASE UNCHANGED vars
    <2>1. Reached'
      BY <1>4, ReachedKept DEF vars, IInv, OutcomesKept
    <2> QED BY <1>4, <2>1
            DEF vars, IInv, TypeOK, Granular, GranularityInRange, OrderPreserved, CurrentFails,
                BaselineKnown, OneMinimal, Fails, Refuted, Searching
  <1> QED BY <1>1, <1>2, <1>3, <1>4 DEF Next, Step, Finished

(* The inductive invariant holds in every state of every instance. *)
THEOREM Invariance == Spec => []IInv
  <1> QED BY InitIInv, NextIInv, PTL DEF Spec

(* The state of the loop keeps its types, for every number of items. *)
THEOREM TypeCorrect == Spec => []TypeOK
  <1>1. IInv => TypeOK
    BY DEF IInv
  <1> QED BY <1>1, Invariance, PTL

(* split is only ever called with 2 <= n <= len(items), the precondition   *)
(* its comment states and nothing checks: no chunk is ever empty.          *)
THEOREM GranularityCorrect == Spec => []GranularityInRange
  <1>1. IInv => GranularityInRange
    BY DEF IInv, Granular
  <1> QED BY <1>1, Invariance, PTL

(* Whatever chunks and complements were adopted, the set keeps the order   *)
(* of the change list and names no change twice.                           *)
THEOREM OrderCorrect == Spec => []OrderPreserved
  <1>1. IInv => OrderPreserved
    BY DEF IInv
  <1> QED BY <1>1, Invariance, PTL

(* The set the search holds has been tested and failed. *)
THEOREM FailureCorrect == Spec => []CurrentFails
  <1>1. IInv => CurrentFails
    BY DEF IInv
  <1> QED BY <1>1, Invariance, PTL

(* The set MinimizeBatch returns is 1-minimal for every number of items,   *)
(* every test, and every order of evaluation the BatchTest contract allows.*)
THEOREM MinimalityCorrect == Spec => []OneMinimal
  <1>1. IInv => OneMinimal
    BY DEF IInv
  <1> QED BY <1>1, Invariance, PTL

(* Done, the search is where the sequential one ends. *)
LEMMA DoneIsMinimize == TypeOK /\ Granular /\ Reached => ScheduleIndependent
  <1> SUFFICES ASSUME TypeOK, Granular, Reached, phase = "done" PROVE current = Minimize
    BY DEF ScheduleIndependent
  <1>0. PICK j \in Nat : /\ \E cs, ns : Path(j, cs, ns)
                         /\ j <= (N - Len(current)) * N + n - 2
    BY DEF Reached, Sequenced
  <1>1. PICK cs, ns : /\ Path(j, cs, ns)
                      /\ j <= (N - Len(current)) * N + n - 2
    BY <1>0
  <1>2. \A i \in 0..j : Search[i] = <<cs[i], ns[i]>>
    <2> DEFINE P == {i \in 0..j : Search[i] = <<cs[i], ns[i]>>}
    <2>1. 0 \in P
      <3>1. cs[0] = Items /\ ns[0] = 2 /\ 0 \in 0..j
        BY <1>1 DEF Path
      <3>2. Search[0] = <<Items, 2>>
        BY SearchIs
      <3> QED BY <3>1, <3>2
    <2>2. \A i \in 0..j - 1 : i \in P => i + 1 \in P
      <3> SUFFICES ASSUME NEW i \in 0..j - 1, i \in P PROVE i + 1 \in P
        OBVIOUS
      <3>1. i \in Nat /\ i + 1 \in 0..j /\ Search[i] = <<cs[i], ns[i]>>
        OBVIOUS
      <3>2. Iteration(cs[i], ns[i]) = <<cs[i + 1], ns[i + 1]>>
        BY <1>1, DecidedIteration DEF Path
      <3>3. Search[i + 1] = After(Search[i])
        BY <3>1, SearchIs
      <3>4. Search[i + 1] = <<cs[i + 1], ns[i + 1]>>
        BY <3>1, <3>2, <3>3 DEF After
      <3> QED BY <3>1, <3>4
    <2> HIDE DEF P
    <2>3. \A i \in 0..j : i \in P
      BY <2>1, <2>2, UpTo
    <2> QED BY <2>3 DEF P
  <1>3. j <= N * N
    <2>1. N \in Nat /\ N >= 1 /\ Len(current) \in 1..N /\ n <= N + 1 /\ n \in Nat
      BY NAssumption DEF TypeOK, Granular, Reached, Subset
    <2>2. (N - Len(current)) * N <= (N - 1) * N
      <3>1. N - Len(current) \in Nat /\ N - 1 \in Nat /\ N - Len(current) <= N - 1
        BY <2>1
      <3> QED BY <2>1, <3>1, ProductMonotonic
    <2>3. (N - 1) * N = N * N - N /\ N * N \in Nat /\ (N - Len(current)) * N \in Int
      BY <2>1
    <2> QED BY <1>1, <2>1, <2>2, <2>3
  <1>4. Search[j] = <<current, n>>
    BY <1>1, <1>2 DEF Path
  <1> DEFINE rest == N * N - j
             Q == {d \in 0..rest : Search[j + d] = <<current, n>>}
  <1>5. rest \in Nat /\ j + rest = N * N
    <2>1. N * N \in Nat
      BY NAssumption
    <2> QED BY <1>3, <2>1
  <1> HIDE DEF rest
  <1>6. 0 \in Q
    BY <1>4, <1>5
  <1>7. \A d \in 0..rest - 1 : d \in Q => d + 1 \in Q
    <2> SUFFICES ASSUME NEW d \in 0..rest - 1, d \in Q PROVE d + 1 \in Q
      OBVIOUS
    <2>1. /\ d + 1 \in 0..rest /\ j + d \in Nat /\ j + (d + 1) = (j + d) + 1
          /\ Search[j + d] = <<current, n>>
      BY <1>5
    <2>2. Search[(j + d) + 1] = After(Search[j + d])
      BY <2>1, SearchIs
    <2>3. Iteration(current, n) = <<current, n>>
      BY EndedIteration
    <2>4. Search[j + (d + 1)] = <<current, n>>
      BY <2>1, <2>2, <2>3 DEF After
    <2> QED BY <2>1, <2>4
  <1>8. rest \in Q
    <2> HIDE DEF Q
    <2>1. \A d \in 0..rest : d \in Q
      BY <1>5, <1>6, <1>7, UpTo
    <2> QED BY <1>5, <2>1
  <1>9. Search[N * N] = <<current, n>>
    BY <1>5, <1>8
  <1> QED BY <1>9 DEF Minimize

(* The closed forms of Slices are the loops of split and complement: every *)
(* batch partitions the set into near-equal chunks in order, or leaves one *)
(* of them out.                                                            *)
THEOREM BatchesCorrect == Spec => []BatchesAreTheCodes
  <1>1. IInv => BatchesAreTheCodes
    BY BatchesAre DEF IInv
  <1> QED BY <1>1, Invariance, PTL

(* However a batch is evaluated, the result is that of the sequential      *)
(* Minimize, for every number of items and every test.                     *)
THEOREM ScheduleCorrect == Spec => []ScheduleIndependent
  <1>1. IInv => ScheduleIndependent
    BY DoneIsMinimize DEF IInv
  <1> QED BY <1>1, Invariance, PTL
=============================================================================
