------------------------------- MODULE Slices -------------------------------
(***************************************************************************)
(* The pure part of internal/ddmin: how a slice of changes is cut into     *)
(* candidate subsets.  A slice is a sequence; a change is known by its     *)
(* position in the sorted change list.  The chunks of split are contiguous *)
(* and cover the slice, so chunk i is given by the number of items before  *)
(* it instead of by the running "start" of the loop, and a complement is   *)
(* what stands before and after its chunk.  SplitLoop and Concatenated are *)
(* the loops as the code has them: functions from the number of chunks     *)
(* done to what has been computed.                                         *)
(***************************************************************************)
EXTENDS Integers, Sequences

Smaller(a, b) == IF a < b THEN a ELSE b
Larger(a, b)  == IF a < b THEN b ELSE a

---------------------------------------------------------------------------
(* Mutant: the loop's "i < rem" as "i <= rem". *)
ItemsBeforeOffByOne(len, n, i) ==
    Smaller((i - 1) * (len \div n) + Smaller(i - 1, (len % n) + 1), len)

(* The items in front of chunk i when len items are cut into n chunks: the *)
(* first len % n chunks hold one item more than the others.                *)
ItemsBefore(len, n, i) ==
    (i - 1) * (len \div n) + Smaller(i - 1, len % n)

Chunk(s, n, i) ==
    SubSeq(s, ItemsBefore(Len(s), n, i) + 1, ItemsBefore(Len(s), n, i + 1))

Split(s, n) == [i \in 1..n |-> Chunk(s, n, i)]

(* Mutant: the two sides of the omitted chunk in the wrong order. *)
ComplementSwapped(s, n, i) ==
    SubSeq(s, ItemsBefore(Len(s), n, i + 1) + 1, Len(s))
        \o SubSeq(s, 1, ItemsBefore(Len(s), n, i))

(* Every chunk but the i-th, in order. *)
Complement(s, n, i) ==
    SubSeq(s, 1, ItemsBefore(Len(s), n, i))
        \o SubSeq(s, ItemsBefore(Len(s), n, i + 1) + 1, Len(s))

Complements(s, n) == [i \in 1..n |-> Complement(s, n, i)]

(* The slice without its i-th item: a neighbor of the 1-minimality check. *)
Without(s, i) == SubSeq(s, 1, i - 1) \o SubSeq(s, i + 1, Len(s))

Neighbors(s) == [i \in 1..Len(s) |-> Without(s, i)]

---------------------------------------------------------------------------
(* The loop of split, with its running start. *)
SplitLoop(s, k) ==
    LET size == Len(s) \div k
        rem  == Len(s) % k
        start[i \in 0..k] ==
            IF i = 0 THEN 0 ELSE start[i - 1] + size + IF i - 1 < rem THEN 1 ELSE 0
    IN  [i \in 1..k |-> SubSeq(s, start[i - 1] + 1, start[i])]

(* The loop of complement; skip = 0 leaves nothing out. *)
Concatenated(chunks, skip) ==
    LET out[i \in 0..Len(chunks)] ==
            IF i = 0 THEN << >> ELSE out[i - 1] \o IF i = skip THEN << >> ELSE chunks[i]
    IN  out[Len(chunks)]
=============================================================================
