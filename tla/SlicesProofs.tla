---------------------------- MODULE SlicesProofs ----------------------------
(***************************************************************************)
(* Lemmas about the slice operators: how long chunks and complements are,  *)
(* which items they hold, and what they are at singleton granularity.      *)
(***************************************************************************)
EXTENDS Slices, SequenceTheorems, WellFoundedInduction, TLAPS

(* Multiplication by a natural number is monotonic. *)
LEMMA ProductMonotonic ==
    ASSUME NEW a \in Nat, NEW b \in Nat, NEW q \in Nat, a <= b
    PROVE  a * q <= b * q
  <1>1. PICK d \in Nat : b = a + d
    <2>1. b - a \in Nat /\ b = a + (b - a)
      OBVIOUS
    <2> QED BY <2>1
  <1>2. b * q = a * q + d * q
    BY <1>1
  <1>3. d * q >= 0 /\ d * q \in Nat /\ a * q \in Nat
    OBVIOUS
  <1> QED BY <1>2, <1>3

(* Division with remainder, as split uses it: len(items)/n is at least 1   *)
(* because n <= len(items).                                                *)
LEMMA ChunkSize ==
    ASSUME NEW len \in Nat, NEW k \in 1..len
    PROVE  /\ len \div k \in Nat
           /\ len \div k >= 1
           /\ len % k \in 0..k - 1
           /\ len = k * (len \div k) + (len % k)
  OBVIOUS

(* The chunks tile the slice: they start at its front, end at its back,    *)
(* and each is one item longer than len \div k exactly when it is among   *)
(* the first len % k.                                                      *)
LEMMA ItemsBeforeProperties ==
    ASSUME NEW len \in Nat, NEW k \in 1..len, NEW i \in 1..k
    PROVE  /\ ItemsBefore(len, k, i) \in Nat
           /\ ItemsBefore(len, k, i + 1) \in Nat
           /\ ItemsBefore(len, k, i + 1) <= len
           /\ ItemsBefore(len, k, i + 1) - ItemsBefore(len, k, i)
                   = (len \div k) + (IF i <= len % k THEN 1 ELSE 0)
  <1> DEFINE q == len \div k
             r == len % k
  <1>1. q \in Nat /\ q >= 1 /\ r \in 0..k - 1 /\ len = k * q + r
    BY ChunkSize
  <1>2. ItemsBefore(len, k, i) = (i - 1) * q + (IF i - 1 < r THEN i - 1 ELSE r)
    BY DEF ItemsBefore, Smaller
  <1>3. ItemsBefore(len, k, i + 1) = i * q + (IF i < r THEN i ELSE r)
    BY DEF ItemsBefore, Smaller
  <1> HIDE DEF q, r
  <1>4. i * q = (i - 1) * q + q /\ (i - 1) * q \in Nat /\ i * q \in Nat
    BY <1>1
  <1>5. i * q <= k * q
    BY <1>1, ProductMonotonic
  <1>6. k * q \in Nat
    BY <1>1
  <1>7. ItemsBefore(len, k, i) \in Nat
    BY <1>1, <1>2, <1>4
  <1>8. ItemsBefore(len, k, i + 1) \in Nat
    BY <1>1, <1>3, <1>4
  <1>9. ItemsBefore(len, k, i + 1) <= len
    BY <1>1, <1>3, <1>4, <1>5, <1>6
  <1>10. ItemsBefore(len, k, i + 1) - ItemsBefore(len, k, i)
             = q + (IF i <= r THEN 1 ELSE 0)
    BY <1>1, <1>2, <1>3, <1>4
  <1> QED BY <1>7, <1>8, <1>9, <1>10 DEF q, r

(* A chunk is never empty and, cut into two or more, never the whole; what *)
(* it leaves out holds at least one item for each other chunk.  This is    *)
(* why n - 1 is a legal granularity for a complement.                      *)
LEMMA ChunkLength ==
    ASSUME NEW len \in Nat, NEW k \in 2..len, NEW i \in 1..k
    PROVE  LET size == ItemsBefore(len, k, i + 1) - ItemsBefore(len, k, i)
           IN  /\ size \in Nat
               /\ size >= 1
               /\ len - size >= k - 1
  <1> DEFINE q == len \div k
             r == len % k
             size == ItemsBefore(len, k, i + 1) - ItemsBefore(len, k, i)
  <1>0. k \in 1..len
    OBVIOUS
  <1>1. q \in Nat /\ q >= 1 /\ r \in 0..k - 1 /\ len = k * q + r
    BY <1>0, ChunkSize
  <1>2. size = q + (IF i <= r THEN 1 ELSE 0)
    BY <1>0, ItemsBeforeProperties
  <1> HIDE DEF q, r, size
  <1>3. k * q = (k - 1) * q + q /\ (k - 1) * q \in Nat
    BY <1>1
  <1>4. (k - 1) * 1 <= (k - 1) * q
    <2>1. 1 * (k - 1) <= q * (k - 1)
      BY <1>1, ProductMonotonic
    <2> QED BY <2>1, <1>1
  <1>5. len - size >= k - 1
    BY <1>1, <1>2, <1>3, <1>4
  <1>6. size \in Nat /\ size >= 1
    BY <1>1, <1>2
  <1> QED BY <1>5, <1>6 DEF size

(* The items of a chunk, by their place in the slice. *)
LEMMA ChunkProperties ==
    ASSUME NEW S, NEW s \in Seq(S), NEW k \in 2..Len(s), NEW i \in 1..k
    PROVE  LET before == ItemsBefore(Len(s), k, i)
           IN  /\ Chunk(s, k, i) \in Seq(S)
               /\ Len(Chunk(s, k, i)) = ItemsBefore(Len(s), k, i + 1) - before
               /\ Len(Chunk(s, k, i)) >= 1
               /\ Len(Chunk(s, k, i)) < Len(s)
               /\ \A j \in 1..Len(Chunk(s, k, i)) :
                      /\ before + j \in 1..Len(s)
                      /\ Chunk(s, k, i)[j] = s[before + j]
  <1> DEFINE before == ItemsBefore(Len(s), k, i)
             upto   == ItemsBefore(Len(s), k, i + 1)
  <1>1. Len(s) \in Nat /\ k \in 1..Len(s)
    OBVIOUS
  <1>2. before \in Nat /\ upto \in Nat /\ upto <= Len(s)
    BY <1>1, ItemsBeforeProperties
  <1>3. upto - before >= 1 /\ Len(s) - (upto - before) >= k - 1
    BY <1>1, ChunkLength
  <1>4. Chunk(s, k, i) = SubSeq(s, before + 1, upto)
    BY DEF Chunk
  <1> HIDE DEF before, upto
  <1>5. \A j \in before + 1..upto : s[j] \in S
    BY <1>1, <1>2, ElementOfSeq
  <1>6. /\ SubSeq(s, before + 1, upto) \in Seq(S)
        /\ Len(SubSeq(s, before + 1, upto)) = upto - before
        /\ \A j \in 1..upto - before :
               SubSeq(s, before + 1, upto)[j] = s[before + j]
    <2>1. before + 1 \in Int /\ upto \in Int /\ upto - (before + 1) + 1 = upto - before
      BY <1>2
    <2>2. /\ SubSeq(s, before + 1, upto) \in Seq(S)
          /\ Len(SubSeq(s, before + 1, upto))
                 = IF before + 1 <= upto THEN upto - (before + 1) + 1 ELSE 0
          /\ \A j \in 1..upto - (before + 1) + 1 :
                 SubSeq(s, before + 1, upto)[j] = s[(before + 1) + j - 1]
      BY <2>1, <1>5, SubSeqProperties
    <2>3. \A j \in 1..upto - before : (before + 1) + j - 1 = before + j
      BY <1>2
    <2> QED BY <2>1, <2>2, <2>3, <1>2, <1>3
  <1>7. Len(Chunk(s, k, i)) >= 1 /\ Len(Chunk(s, k, i)) < Len(s)
    BY <1>1, <1>2, <1>3, <1>4, <1>6
  <1>8. \A j \in 1..Len(Chunk(s, k, i)) : before + j \in 1..Len(s)
    BY <1>1, <1>2, <1>4, <1>6
  <1> QED BY <1>4, <1>6, <1>7, <1>8 DEF before, upto

(* What SubSeq keeps of a slice, for bounds that stay within it. *)
LEMMA SliceProperties ==
    ASSUME NEW S, NEW s \in Seq(S), NEW a \in Nat, NEW b \in Nat,
           a <= b, b <= Len(s)
    PROVE  /\ SubSeq(s, a + 1, b) \in Seq(S)
           /\ Len(SubSeq(s, a + 1, b)) = b - a
           /\ \A j \in 1..b - a : SubSeq(s, a + 1, b)[j] = s[a + j]
  <1>1. \A j \in a + 1..b : s[j] \in S
    BY ElementOfSeq
  <1>2. a + 1 \in Int /\ b \in Int /\ b - (a + 1) + 1 = b - a
    OBVIOUS
  <1>3. /\ SubSeq(s, a + 1, b) \in Seq(S)
        /\ Len(SubSeq(s, a + 1, b)) = IF a + 1 <= b THEN b - (a + 1) + 1 ELSE 0
        /\ \A j \in 1..b - (a + 1) + 1 : SubSeq(s, a + 1, b)[j] = s[(a + 1) + j - 1]
    BY <1>1, <1>2, SubSeqProperties
  <1>4. \A j \in 1..b - a : (a + 1) + j - 1 = a + j
    OBVIOUS
  <1> QED BY <1>2, <1>3, <1>4

(* A slice with the items from a + 1 to b cut out keeps the others in      *)
(* their order.                                                            *)
LEMMA CutProperties ==
    ASSUME NEW S, NEW s \in Seq(S), NEW a \in Nat, NEW b \in Nat,
           a <= b, b <= Len(s)
    PROVE  LET t == SubSeq(s, 1, a) \o SubSeq(s, b + 1, Len(s))
           IN  /\ t \in Seq(S)
               /\ Len(t) = Len(s) - (b - a)
               /\ \A j \in 1..Len(t) :
                      /\ t[j] = s[IF j <= a THEN j ELSE j + (b - a)]
                      /\ (IF j <= a THEN j ELSE j + (b - a)) \in 1..Len(s)
  <1> DEFINE f == SubSeq(s, 1, a)
             g == SubSeq(s, b + 1, Len(s))
  <1>1. Len(s) \in Nat
    OBVIOUS
  <1>2. f \in Seq(S) /\ Len(f) = a /\ \A j \in 1..a : f[j] = s[j]
    <2>1. SubSeq(s, 0 + 1, a) = f
      OBVIOUS
    <2>2. /\ SubSeq(s, 0 + 1, a) \in Seq(S)
          /\ Len(SubSeq(s, 0 + 1, a)) = a - 0
          /\ \A j \in 1..a - 0 : SubSeq(s, 0 + 1, a)[j] = s[0 + j]
      BY <1>1, SliceProperties
    <2> QED BY <2>1, <2>2
  <1>3. /\ g \in Seq(S)
        /\ Len(g) = Len(s) - b
        /\ \A j \in 1..Len(s) - b : g[j] = s[b + j]
    BY <1>1, SliceProperties
  <1> HIDE DEF f, g
  <1>4. /\ f \o g \in Seq(S)
        /\ Len(f \o g) = Len(f) + Len(g)
        /\ \A j \in 1..Len(f) + Len(g) :
               (f \o g)[j] = IF j <= Len(f) THEN f[j] ELSE g[j - Len(f)]
    BY <1>2, <1>3, ConcatProperties
  <1>5. Len(f \o g) = Len(s) - (b - a)
    BY <1>1, <1>2, <1>3, <1>4
  <1>6. ASSUME NEW j \in 1..Len(f \o g)
        PROVE  /\ (f \o g)[j] = s[IF j <= a THEN j ELSE j + (b - a)]
               /\ (IF j <= a THEN j ELSE j + (b - a)) \in 1..Len(s)
    <2>1. CASE j <= a
      BY <2>1, <1>1, <1>2, <1>4, <1>5
    <2>2. CASE j > a
      <3>1. j - a \in 1..Len(s) - b /\ b + (j - a) = j + (b - a)
        BY <2>2, <1>1, <1>5
      <3>2. (f \o g)[j] = g[j - a]
        BY <2>2, <1>2, <1>3, <1>4
      <3> QED BY <2>2, <3>1, <3>2, <1>1, <1>3
    <2> QED BY <2>1, <2>2
  <1> QED BY <1>4, <1>5, <1>6 DEF f, g

(* A complement is shorter than the slice by its chunk, holds at least     *)
(* n - 1 items, and keeps the order of the items it keeps.                 *)
LEMMA ComplementProperties ==
    ASSUME NEW S, NEW s \in Seq(S), NEW k \in 2..Len(s), NEW i \in 1..k
    PROVE  LET a == ItemsBefore(Len(s), k, i)
               b == ItemsBefore(Len(s), k, i + 1)
               t == Complement(s, k, i)
           IN  /\ t \in Seq(S)
               /\ Len(t) = Len(s) - (b - a)
               /\ Len(t) >= k - 1
               /\ Len(t) < Len(s)
               /\ a \in Nat /\ b - a \in Nat
               /\ \A j \in 1..Len(t) :
                      /\ t[j] = s[IF j <= a THEN j ELSE j + (b - a)]
                      /\ (IF j <= a THEN j ELSE j + (b - a)) \in 1..Len(s)
  <1> DEFINE a == ItemsBefore(Len(s), k, i)
             b == ItemsBefore(Len(s), k, i + 1)
  <1>1. Len(s) \in Nat /\ k \in 1..Len(s)
    OBVIOUS
  <1>2. a \in Nat /\ b \in Nat /\ b <= Len(s)
    BY <1>1, ItemsBeforeProperties
  <1>3. b - a \in Nat /\ b - a >= 1 /\ Len(s) - (b - a) >= k - 1
    BY <1>1, ChunkLength
  <1>4. Complement(s, k, i) = SubSeq(s, 1, a) \o SubSeq(s, b + 1, Len(s))
    BY DEF Complement
  <1> HIDE DEF a, b
  <1>5. a <= b
    BY <1>2, <1>3
  <1>6. LET t == SubSeq(s, 1, a) \o SubSeq(s, b + 1, Len(s))
        IN  /\ t \in Seq(S)
            /\ Len(t) = Len(s) - (b - a)
            /\ \A j \in 1..Len(t) :
                   /\ t[j] = s[IF j <= a THEN j ELSE j + (b - a)]
                   /\ (IF j <= a THEN j ELSE j + (b - a)) \in 1..Len(s)
    BY <1>2, <1>5, CutProperties
  <1>7. Len(Complement(s, k, i)) >= k - 1 /\ Len(Complement(s, k, i)) < Len(s)
    <2>1. Len(Complement(s, k, i)) = Len(s) - (b - a)
      BY <1>4, <1>6
    <2> QED BY <2>1, <1>1, <1>3
  <1> QED BY <1>2, <1>3, <1>4, <1>6, <1>7 DEF a, b

(* At singleton granularity the complements are the neighbors. *)
LEMMA SingletonComplement ==
    ASSUME NEW S, NEW s \in Seq(S), NEW i \in 1..Len(s)
    PROVE  Complement(s, Len(s), i) = Without(s, i)
  <1>1. Len(s) \in Nat /\ Len(s) >= 1
    OBVIOUS
  <1>2. Len(s) \div Len(s) = 1 /\ Len(s) % Len(s) = 0
    BY <1>1
  <1>3. ItemsBefore(Len(s), Len(s), i) = i - 1 /\ ItemsBefore(Len(s), Len(s), i + 1) = i
    BY <1>2 DEF ItemsBefore, Smaller
  <1> QED BY <1>3 DEF Complement, Without

(* Of two items, each chunk is the neighbor without the other item. *)
LEMMA HalvesOfTwo ==
    ASSUME NEW S, NEW s \in Seq(S), Len(s) = 2, NEW i \in 1..2
    PROVE  Without(s, i) = Chunk(s, 2, 3 - i)
  <1>1. ItemsBefore(2, 2, 1) = 0 /\ ItemsBefore(2, 2, 2) = 1 /\ ItemsBefore(2, 2, 3) = 2
    BY DEF ItemsBefore, Smaller
  <1>2. SubSeq(s, 1, 0) = << >> /\ SubSeq(s, 3, 2) = << >>
    BY SubSeqEmpty
  <1>3. SubSeq(s, 1, 1) \in Seq(S) /\ SubSeq(s, 2, 2) \in Seq(S)
    <2>1. SubSeq(s, 0 + 1, 1) \in Seq(S) /\ SubSeq(s, 1 + 1, 2) \in Seq(S)
      BY SliceProperties
    <2> QED BY <2>1
  <1>4. CASE i = 1
    <2>1. Without(s, 1) = SubSeq(s, 1, 0) \o SubSeq(s, 2, 2)
      BY DEF Without
    <2>2. Chunk(s, 2, 2) = SubSeq(s, 2, 2)
      BY <1>1 DEF Chunk
    <2> QED BY <1>4, <2>1, <2>2, <1>2, <1>3, ConcatEmptySeq
  <1>5. CASE i = 2
    <2>1. Without(s, 2) = SubSeq(s, 1, 1) \o SubSeq(s, 3, 2)
      BY DEF Without
    <2>2. Chunk(s, 2, 1) = SubSeq(s, 1, 1)
      BY <1>1 DEF Chunk
    <2> QED BY <1>5, <2>1, <2>2, <1>2, <1>3, ConcatEmptySeq
  <1> QED BY <1>4, <1>5

(* The only neighbor of a single change is no change at all. *)
LEMMA WithoutTheOnlyItem ==
    ASSUME NEW S, NEW s \in Seq(S), Len(s) = 1
    PROVE  Without(s, 1) = << >>
  <1>1. SubSeq(s, 1, 0) = << >> /\ SubSeq(s, 2, 1) = << >>
    BY SubSeqEmpty
  <1> QED BY <1>1, ConcatEmptySeq, EmptySeq DEF Without

(* A neighbor is shorter than the slice by one item and keeps the order of *)
(* the others.                                                             *)
LEMMA WithoutProperties ==
    ASSUME NEW S, NEW s \in Seq(S), NEW i \in 1..Len(s)
    PROVE  /\ Without(s, i) \in Seq(S)
           /\ Len(Without(s, i)) = Len(s) - 1
           /\ \A j \in 1..Len(s) - 1 :
                  Without(s, i)[j] = s[IF j <= i - 1 THEN j ELSE j + 1]
  <1> DEFINE a == i - 1
  <1>1. Len(s) \in Nat /\ a \in Nat /\ i \in Nat /\ a <= i /\ i <= Len(s) /\ i - a = 1
    OBVIOUS
  <1>2. Without(s, i) = SubSeq(s, 1, a) \o SubSeq(s, i + 1, Len(s))
    BY DEF Without
  <1> HIDE DEF a
  <1>3. LET t == SubSeq(s, 1, a) \o SubSeq(s, i + 1, Len(s))
        IN  /\ t \in Seq(S)
            /\ Len(t) = Len(s) - (i - a)
            /\ \A j \in 1..Len(t) :
                   /\ t[j] = s[IF j <= a THEN j ELSE j + (i - a)]
                   /\ (IF j <= a THEN j ELSE j + (i - a)) \in 1..Len(s)
    BY <1>1, CutProperties
  <1>4. /\ Without(s, i) \in Seq(S)
        /\ Len(Without(s, i)) = Len(s) - 1
        /\ \A j \in 1..Len(s) - 1 :
               Without(s, i)[j] = s[IF j <= a THEN j ELSE j + 1]
    BY <1>1, <1>2, <1>3
  <1> QED BY <1>4 DEF a

(* Later chunks start behind the end of earlier ones. *)
LEMMA ItemsBeforeGrows ==
    ASSUME NEW len \in Nat, NEW k \in 1..len, NEW i \in 1..k, NEW j \in 1..k, i < j
    PROVE  ItemsBefore(len, k, i + 1) <= ItemsBefore(len, k, j)
  <1> DEFINE q == len \div k
             r == len % k
  <1>1. q \in Nat /\ r \in 0..k - 1
    BY ChunkSize
  <1>2. ItemsBefore(len, k, j) = (j - 1) * q + (IF j - 1 < r THEN j - 1 ELSE r)
    BY DEF ItemsBefore, Smaller
  <1>3. ItemsBefore(len, k, i + 1) = i * q + (IF i < r THEN i ELSE r)
    BY DEF ItemsBefore, Smaller
  <1> HIDE DEF q, r
  <1>4. i \in Nat /\ j - 1 \in Nat /\ i <= j - 1
    OBVIOUS
  <1>5. i * q <= (j - 1) * q
    BY <1>1, <1>4, ProductMonotonic
  <1>6. i * q \in Nat /\ (j - 1) * q \in Nat
    BY <1>1, <1>4
  <1> QED BY <1>1, <1>2, <1>3, <1>4, <1>5, <1>6

(* Of a slice in order, no two chunks, no two complements and no two       *)
(* neighbors are the same: a batch holds each candidate once.              *)
Increasing(s) == \A j, k \in 1..Len(s) : j < k => s[j] < s[k]

LEMMA ChunksDiffer ==
    ASSUME NEW s \in Seq(Nat), Increasing(s),
           NEW k \in 2..Len(s), NEW i \in 1..k, NEW j \in 1..k, i < j
    PROVE  Chunk(s, k, i) # Chunk(s, k, j)
  <1> DEFINE a == ItemsBefore(Len(s), k, i)
             b == ItemsBefore(Len(s), k, i + 1)
             c == ItemsBefore(Len(s), k, j)
  <1>1. Len(s) \in Nat /\ k \in 1..Len(s)
    OBVIOUS
  <1>2. /\ a \in Nat /\ b \in Nat /\ c \in Nat
        /\ b - a >= 1 /\ b <= c
    BY <1>1, ItemsBeforeProperties, ItemsBeforeGrows, ChunkLength
  <1>3. /\ Len(Chunk(s, k, i)) >= 1
        /\ \A x \in 1..Len(Chunk(s, k, i)) :
               a + x \in 1..Len(s) /\ Chunk(s, k, i)[x] = s[a + x]
        /\ Len(Chunk(s, k, i)) \in Nat
    BY ChunkProperties
  <1>4. /\ Len(Chunk(s, k, j)) >= 1
        /\ \A x \in 1..Len(Chunk(s, k, j)) :
               c + x \in 1..Len(s) /\ Chunk(s, k, j)[x] = s[c + x]
        /\ Len(Chunk(s, k, j)) \in Nat
    BY ChunkProperties
  <1> HIDE DEF a, b, c
  <1>5. Chunk(s, k, i)[1] = s[a + 1] /\ Chunk(s, k, j)[1] = s[c + 1]
    BY <1>3, <1>4
  <1>6. a + 1 < c + 1 /\ a + 1 \in 1..Len(s) /\ c + 1 \in 1..Len(s)
    BY <1>2, <1>3, <1>4
  <1>7. s[a + 1] < s[c + 1] /\ s[a + 1] \in Nat /\ s[c + 1] \in Nat
    BY <1>6, ElementOfSeq DEF Increasing
  <1> QED BY <1>5, <1>7

LEMMA ComplementsDiffer ==
    ASSUME NEW s \in Seq(Nat), Increasing(s),
           NEW k \in 2..Len(s), NEW i \in 1..k, NEW j \in 1..k, i < j
    PROVE  Complement(s, k, i) # Complement(s, k, j)
  <1> DEFINE a == ItemsBefore(Len(s), k, i)
             b == ItemsBefore(Len(s), k, i + 1)
             c == ItemsBefore(Len(s), k, j)
             d == ItemsBefore(Len(s), k, j + 1)
             t == Complement(s, k, i)
             u == Complement(s, k, j)
  <1>1. Len(s) \in Nat /\ k \in 1..Len(s)
    OBVIOUS
  <1>2. /\ a \in Nat /\ b \in Nat /\ c \in Nat /\ d \in Nat
        /\ b - a >= 1 /\ b <= c /\ d - c >= 1 /\ d <= Len(s)
    BY <1>1, ItemsBeforeProperties, ItemsBeforeGrows, ChunkLength
  <1>3. /\ Len(t) = Len(s) - (b - a)
        /\ \A x \in 1..Len(t) : t[x] = s[IF x <= a THEN x ELSE x + (b - a)]
    <2>1. LET a0 == ItemsBefore(Len(s), k, i)
              b0 == ItemsBefore(Len(s), k, i + 1)
              t0 == Complement(s, k, i)
          IN  /\ t0 \in Seq(Nat)
              /\ Len(t0) = Len(s) - (b0 - a0)
              /\ Len(t0) >= k - 1
              /\ Len(t0) < Len(s)
              /\ a0 \in Nat /\ b0 - a0 \in Nat
              /\ \A x \in 1..Len(t0) :
                     /\ t0[x] = s[IF x <= a0 THEN x ELSE x + (b0 - a0)]
                     /\ (IF x <= a0 THEN x ELSE x + (b0 - a0)) \in 1..Len(s)
      BY ComplementProperties
    <2> QED BY <2>1
  <1>4. /\ Len(u) = Len(s) - (d - c)
        /\ \A x \in 1..Len(u) : u[x] = s[IF x <= c THEN x ELSE x + (d - c)]
    <2>1. LET a0 == ItemsBefore(Len(s), k, j)
              b0 == ItemsBefore(Len(s), k, j + 1)
              t0 == Complement(s, k, j)
          IN  /\ t0 \in Seq(Nat)
              /\ Len(t0) = Len(s) - (b0 - a0)
              /\ Len(t0) >= k - 1
              /\ Len(t0) < Len(s)
              /\ a0 \in Nat /\ b0 - a0 \in Nat
              /\ \A x \in 1..Len(t0) :
                     /\ t0[x] = s[IF x <= a0 THEN x ELSE x + (b0 - a0)]
                     /\ (IF x <= a0 THEN x ELSE x + (b0 - a0)) \in 1..Len(s)
      BY ComplementProperties
    <2> QED BY <2>1
  <1> HIDE DEF a, b, c, d, t, u
  <1>5. a + 1 \in 1..Len(t) /\ t[a + 1] = s[b + 1]
    <2>1. a + 1 \in 1..Len(t)
      BY <1>1, <1>2, <1>3
    <2>2. ~(a + 1 <= a) /\ (a + 1) + (b - a) = b + 1
      BY <1>2
    <2> QED BY <2>1, <2>2, <1>3
  <1>6. a + 1 \in 1..Len(u) => u[a + 1] = s[a + 1]
    BY <1>2, <1>4
  <1>7. a + 1 < b + 1 /\ a + 1 \in 1..Len(s) /\ b + 1 \in 1..Len(s)
    BY <1>1, <1>2
  <1>8. s[a + 1] < s[b + 1] /\ s[a + 1] \in Nat /\ s[b + 1] \in Nat
    BY <1>7, ElementOfSeq DEF Increasing
  <1>9. t # u
    BY <1>5, <1>6, <1>8
  <1> QED BY <1>9 DEF t, u

LEMMA NeighborsDiffer ==
    ASSUME NEW s \in Seq(Nat), Increasing(s), NEW i \in 1..Len(s), NEW j \in 1..Len(s), i < j
    PROVE  Without(s, i) # Without(s, j)
  <1>1. Len(s) \in Nat /\ i \in 1..Len(s) - 1 /\ i + 1 \in 1..Len(s) /\ i <= j - 1 /\ ~(i <= i - 1)
    OBVIOUS
  <1>2. Without(s, i)[i] = s[i + 1]
    BY <1>1, WithoutProperties
  <1>3. Without(s, j)[i] = s[i]
    BY <1>1, WithoutProperties
  <1>4. s[i] < s[i + 1] /\ s[i] \in Nat /\ s[i + 1] \in Nat
    BY <1>1, ElementOfSeq DEF Increasing
  <1> QED BY <1>2, <1>3, <1>4
---------------------------------------------------------------------------
(* The loops compute the closed forms. *)

(* A non-empty set of natural numbers has a least one. *)
LEMMA LeastNumber ==
    ASSUME NEW T, T \subseteq Nat, T # {}
    PROVE  \E m \in T : \A k \in T : m <= k
  <1> DEFINE R == {ss \in Nat \X Nat : ss[1] < ss[2]}
  <1>1. IsWellFoundedOn(R, Nat)
    BY NatLessThanWellFounded DEF OpToRel
  <1>2. PICK m \in T : \A k \in T : ~(<<k, m>> \in R)
    <2> HIDE DEF R
    <2> QED BY <1>1, WFMin
  <1>3. ASSUME NEW k \in T PROVE m <= k
    <2>1. <<k, m>> \in Nat \X Nat /\ (k < m => <<k, m>> \in R)
      OBVIOUS
    <2> QED BY <1>2, <2>1
  <1> QED BY <1>3

(* What a set of numbers inherits from each number to the next. *)
LEMMA UpTo ==
    ASSUME NEW b \in Nat, NEW P, 0 \in P, \A i \in 0..b - 1 : i \in P => i + 1 \in P
    PROVE  \A i \in 0..b : i \in P
  <1> DEFINE T == {i \in 0..b : i \notin P}
  <1>1. SUFFICES ASSUME T # {} PROVE FALSE
    OBVIOUS
  <1>2. PICK m \in T : \A i \in T : m <= i
    <2>1. T \subseteq Nat
      OBVIOUS
    <2> HIDE DEF T
    <2> QED BY <1>1, <2>1, LeastNumber
  <1>3. m \in 0..b /\ m \notin P /\ m # 0
    BY <1>2
  <1>4. m - 1 \in 0..b - 1 /\ m - 1 \in P
    BY <1>2, <1>3
  <1> QED BY <1>3, <1>4

(* A loop determines what it computes. *)
SameLoop(k, f, g) ==
    /\ f[0] = g[0]
    /\ \A i \in 1..k : f[i - 1] = g[i - 1] => f[i] = g[i]

LEMMA LoopDetermines ==
    ASSUME NEW k \in Nat, NEW f, NEW g, SameLoop(k, f, g)
    PROVE  \A i \in 0..k : f[i] = g[i]
  <1> DEFINE P == {i \in 0..k : f[i] = g[i]}
  <1>1. 0 \in P
    BY DEF SameLoop
  <1>2. \A i \in 0..k - 1 : i \in P => i + 1 \in P
    <2> SUFFICES ASSUME NEW i \in 0..k - 1, i \in P PROVE i + 1 \in P
      OBVIOUS
    <2>1. i + 1 \in 0..k /\ i + 1 \in 1..k /\ (i + 1) - 1 = i /\ f[i] = g[i]
      OBVIOUS
    <2> QED BY <2>1 DEF SameLoop
  <1>3. \A i \in 0..k : i \in P
    <2> HIDE DEF P
    <2> QED BY <1>1, <1>2, UpTo
  <1> QED BY <1>3

(* The running start of split is the closed form. *)
LEMMA SplitLoopIs ==
    ASSUME NEW S, NEW s \in Seq(S), NEW k \in 1..Len(s)
    PROVE  SplitLoop(s, k) = Split(s, k)
  <1> DEFINE len == Len(s)
             size == len \div k
             rem  == len % k
             Starts(f) == f = [i \in 0..k |->
                IF i = 0 THEN 0 ELSE f[i - 1] + size + IF i - 1 < rem THEN 1 ELSE 0]
             start == CHOOSE f : Starts(f)
             closed == [i \in 0..k |-> ItemsBefore(len, k, i + 1)]
  <1>1. SplitLoop(s, k) = [i \in 1..k |-> SubSeq(s, start[i - 1] + 1, start[i])]
    BY DEF SplitLoop
  <1>2. len \in Nat /\ k \in 1..len /\ k \in Nat
    OBVIOUS
  <1>3. size \in Nat /\ rem \in 0..k - 1
    BY <1>2, ChunkSize
  <1>4. ItemsBefore(len, k, 1) = 0
    BY <1>2, <1>3 DEF ItemsBefore, Smaller
  <1>5. \A i \in 1..k : /\ ItemsBefore(len, k, i) \in Nat
                        /\ ItemsBefore(len, k, i + 1)
                             = ItemsBefore(len, k, i) + size + IF i - 1 < rem THEN 1 ELSE 0
    <2> SUFFICES ASSUME NEW i \in 1..k
                 PROVE  /\ ItemsBefore(len, k, i) \in Nat
                        /\ ItemsBefore(len, k, i + 1)
                             = ItemsBefore(len, k, i) + size + IF i - 1 < rem THEN 1 ELSE 0
      OBVIOUS
    <2> HIDE DEF len
    <2>1. /\ ItemsBefore(len, k, i) \in Nat
          /\ ItemsBefore(len, k, i + 1) \in Nat
          /\ ItemsBefore(len, k, i + 1) - ItemsBefore(len, k, i)
                 = size + IF i <= rem THEN 1 ELSE 0
      BY <1>2, ItemsBeforeProperties
    <2> HIDE DEF size, rem
    <2>2. i <= rem <=> i - 1 < rem
      BY <1>3
    <2> QED BY <1>3, <2>1, <2>2
  <1> HIDE DEF len, size, rem
  <1>6. Starts(closed)
    <2>1. ASSUME NEW i \in 0..k
          PROVE  closed[i] = IF i = 0 THEN 0 ELSE closed[i - 1] + size + IF i - 1 < rem THEN 1 ELSE 0
      <3>1. CASE i = 0
        BY <1>4, <3>1
      <3>2. CASE i # 0
        <4>1. i \in 1..k /\ i - 1 \in 0..k /\ (i - 1) + 1 = i
          BY <1>2, <3>2
        <4>2. closed[i - 1] = ItemsBefore(len, k, i) /\ closed[i] = ItemsBefore(len, k, i + 1)
          BY <4>1
        <4> HIDE DEF closed
        <4> QED BY <1>5, <3>2, <4>1, <4>2
      <3> QED BY <3>1, <3>2
    <2>2. closed = [i \in 0..k |-> closed[i]]
      OBVIOUS
    <2> HIDE DEF closed
    <2> QED BY <2>1, <2>2
  <1>7. Starts(start)
    <2> HIDE DEF closed, Starts
    <2> QED BY <1>6
  <1>8. \A i \in 0..k : start[i] = closed[i]
    <2>1. /\ start = [i \in 0..k |->
                IF i = 0 THEN 0 ELSE start[i - 1] + size + IF i - 1 < rem THEN 1 ELSE 0]
          /\ closed = [i \in 0..k |->
                IF i = 0 THEN 0 ELSE closed[i - 1] + size + IF i - 1 < rem THEN 1 ELSE 0]
      <3> HIDE DEF closed, start
      <3> QED BY <1>6, <1>7
    <2> HIDE DEF closed, start, Starts
    <2>2. start[0] = closed[0]
      BY <1>2, <2>1
    <2>3. \A i \in 1..k : start[i - 1] = closed[i - 1] => start[i] = closed[i]
      BY <1>2, <2>1
    <2>4. SameLoop(k, start, closed)
      BY <2>2, <2>3 DEF SameLoop
    <2> QED BY <1>2, <2>4, LoopDetermines
  <1>9. ASSUME NEW i \in 1..k
        PROVE  SubSeq(s, start[i - 1] + 1, start[i]) = Chunk(s, k, i)
    <2>1. i \in 0..k /\ i - 1 \in 0..k /\ (i - 1) + 1 = i
      BY <1>2
    <2>2. start[i - 1] = ItemsBefore(len, k, i) /\ start[i] = ItemsBefore(len, k, i + 1)
      <3>1. closed[i - 1] = ItemsBefore(len, k, i) /\ closed[i] = ItemsBefore(len, k, i + 1)
        BY <2>1
      <3> HIDE DEF closed, start
      <3> QED BY <1>8, <2>1, <3>1
    <2> HIDE DEF start
    <2> QED BY <2>2 DEF Chunk, len
  <1> HIDE DEF start
  <1> QED BY <1>1, <1>9 DEF Split

Associate(a, b, c) == (a \o b) \o c = a \o (b \o c)

LEMMA SlicesAssociate ==
    ASSUME NEW S, NEW a \in Seq(S), NEW b \in Seq(S), NEW c \in Seq(S)
    PROVE  Associate(a, b, c)
  BY ConcatAssociative DEF Associate

(* Appending the chunks one after the other, but for one, gives what       *)
(* stands before and after that one; appending all gives the slice.        *)
LEMMA ConcatenatedIs ==
    ASSUME NEW S, NEW s \in Seq(S), NEW k \in 1..Len(s), NEW skip \in 0..k
    PROVE  Concatenated(Split(s, k), skip)
             = IF skip = 0 THEN s ELSE Complement(s, k, skip)
  <1> DEFINE len == Len(s)
             B(i) == ItemsBefore(len, k, i)
             chunks == Split(s, k)
             Outs(f) == f = [i \in 0..k |->
                IF i = 0 THEN << >> ELSE f[i - 1] \o IF i = skip THEN << >> ELSE chunks[i]]
             out == CHOOSE f : Outs(f)
             closed == [i \in 0..k |->
                IF skip = 0 \/ i < skip THEN SubSeq(s, 1, B(i + 1))
                ELSE SubSeq(s, 1, B(skip)) \o SubSeq(s, B(skip + 1) + 1, B(i + 1))]
  <1>1. Concatenated(chunks, skip) = out[k]
    <2>1. Len(Split(s, k)) = k
      BY DEF Split
    <2> QED BY <2>1 DEF Concatenated
  <1>2. len \in Nat /\ k \in 1..len /\ k \in Nat
    OBVIOUS
  <1>3. \A i \in 1..k : B(i) \in 0..len /\ B(i + 1) \in 0..len /\ B(i) <= B(i + 1)
    <2> SUFFICES ASSUME NEW i \in 1..k
                 PROVE  B(i) \in 0..len /\ B(i + 1) \in 0..len /\ B(i) <= B(i + 1)
      OBVIOUS
    <2> HIDE DEF len
    <2>1. len \div k \in Nat
      BY <1>2, ChunkSize
    <2>2. /\ B(i) \in Nat /\ B(i + 1) \in Nat /\ B(i + 1) <= len
          /\ B(i + 1) - B(i) = (len \div k) + (IF i <= len % k THEN 1 ELSE 0)
      BY <1>2, ItemsBeforeProperties
    <2> HIDE DEF B
    <2>3. B(i + 1) - B(i) >= 0
      BY <2>1, <2>2
    <2> QED BY <1>2, <2>2, <2>3
  <1>4. B(1) = 0 /\ B(k + 1) = len
    <2> HIDE DEF len
    <2>1. /\ len \div k \in Nat /\ len % k \in 0..k - 1
          /\ len = k * (len \div k) + (len % k)
      BY <1>2, ChunkSize
    <2>2. B(1) = 0 * (len \div k) + 0
      BY <1>2, <2>1 DEF ItemsBefore, Smaller
    <2>3. B(k + 1) = k * (len \div k) + (len % k)
      BY <1>2, <2>1 DEF ItemsBefore, Smaller
    <2> QED BY <2>1, <2>2, <2>3
  <1>5. \A i \in 1..k : chunks[i] = SubSeq(s, B(i) + 1, B(i + 1))
    BY DEF Split, Chunk
  <1>6. \A i, j \in 1..k : i < j => B(i + 1) <= B(j)
    <2> HIDE DEF len
    <2> QED BY <1>2, ItemsBeforeGrows
  <1> HIDE DEF len, B, chunks
  <1>7. s \in Seq(S) /\ len = Len(s)
    BY DEF len
  <1>8. ASSUME NEW a \in 0..len, NEW b \in a..len, NEW c \in b..len
        PROVE  /\ SubSeq(s, a + 1, b) \in Seq(S)
               /\ SubSeq(s, a + 1, b) \o SubSeq(s, b + 1, c) = SubSeq(s, a + 1, c)
    <2>1. /\ a + 1 \in 1..Len(s) + 1 /\ b \in (a + 1) - 1..Len(s) /\ c \in b..Len(s)
          /\ a \in Nat /\ b \in Nat /\ a <= b /\ b <= Len(s)
      BY <1>2, <1>7
    <2> QED BY <1>7, <2>1, ConcatAdjacentSubSeq, SliceProperties
  <1> DEFINE Rest(i) == SubSeq(s, B(skip + 1) + 1, B(i + 1))
             front == SubSeq(s, 1, B(skip))
  <1>20. \A i \in 0..k : skip = 0 \/ i < skip => closed[i] = SubSeq(s, 1, B(i + 1))
    OBVIOUS
  <1>21. \A i \in 0..k : ~(skip = 0 \/ i < skip) => closed[i] = front \o Rest(i)
    OBVIOUS
  <1>22. closed = [i \in 0..k |-> closed[i]]
    OBVIOUS
  <1> HIDE DEF closed, Rest, front
  <1>9. closed[0] = << >>
    <2>1. closed[0] = SubSeq(s, 1, B(1))
      <3>1. 0 \in 0..k /\ (skip = 0 \/ 0 < skip) /\ 0 + 1 = 1
        BY <1>2
      <3> QED BY <1>20, <3>1
    <2> QED BY <1>4, <2>1, SubSeqEmpty
  <1>10. ASSUME NEW i \in 1..k
         PROVE  closed[i] = closed[i - 1] \o IF i = skip THEN << >> ELSE chunks[i]
    <2>1. i \in 0..k /\ i - 1 \in 0..k /\ (i - 1) + 1 = i /\ i # 0
      BY <1>2
    <2>2. 0 \in 0..len /\ B(i) \in 0..len /\ B(i + 1) \in B(i)..len /\ 0 + 1 = 1
      BY <1>2, <1>3
    <2>3. CASE skip = 0 \/ i < skip
      <3>1. i # skip /\ (skip = 0 \/ i - 1 < skip)
        BY <2>1, <2>3
      <3>2. closed[i] = SubSeq(s, 1, B(i + 1)) /\ closed[i - 1] = SubSeq(s, 1, B(i))
        BY <1>20, <2>1, <2>3, <3>1
      <3>3. SubSeq(s, 0 + 1, B(i)) \o SubSeq(s, B(i) + 1, B(i + 1)) = SubSeq(s, 0 + 1, B(i + 1))
        <4>1. B(i) \in 0..len
          BY <2>2
        <4> QED BY <1>8, <2>2, <4>1
      <3> QED BY <1>5, <2>2, <3>1, <3>2, <3>3
    <2>4. CASE skip # 0 /\ i = skip
      <3>1. ~(skip = 0 \/ i < skip) /\ i - 1 < skip
        BY <2>1, <2>4
      <3>2. closed[i - 1] = front
        BY <1>20, <2>1, <2>4, <3>1 DEF front
      <3>3. closed[i] = front \o Rest(i)
        BY <1>21, <2>1, <3>1
      <3>4. Rest(i) = << >>
        BY <1>2, <2>2, <2>4, SubSeqEmpty DEF Rest
      <3> QED BY <2>4, <3>2, <3>3, <3>4
    <2>5. CASE skip # 0 /\ skip < i
      <3>1. ~(skip = 0 \/ i < skip) /\ ~(skip = 0 \/ i - 1 < skip) /\ i # skip
        BY <1>2, <2>5
      <3>2. closed[i] = front \o Rest(i) /\ closed[i - 1] = front \o Rest(i - 1)
        BY <1>21, <2>1, <3>1
      <3>3. skip \in 1..k /\ B(skip + 1) <= B(i) /\ B(skip) \in 0..len /\ B(skip + 1) \in 0..len
        BY <1>2, <1>3, <1>6, <2>5
      <3>4. front \in Seq(S)
        <4>1. SubSeq(s, 0 + 1, B(skip)) \in Seq(S)
          <5>1. 0 \in 0..len /\ B(skip) \in 0..len /\ B(skip) \in B(skip)..len
            BY <1>2, <3>3
          <5> QED BY <1>8, <5>1
        <4> QED BY <4>1 DEF front
      <3>5. /\ B(skip + 1) \in 0..len /\ B(i) \in B(skip + 1)..len /\ B(i + 1) \in B(i)..len
            /\ B(i + 1) \in B(i + 1)..len /\ B(i) \in 0..len
        BY <1>2, <2>2, <3>3
      <3>6. Rest(i - 1) = SubSeq(s, B(skip + 1) + 1, B(i))
        BY <2>1 DEF Rest
      <3>7. Rest(i - 1) \in Seq(S) /\ Rest(i - 1) \o chunks[i] = Rest(i)
        BY <1>5, <1>8, <3>5, <3>6 DEF Rest
      <3>8. chunks[i] \in Seq(S)
        BY <1>5, <1>8, <3>5
      <3> DEFINE middle == Rest(i - 1)
                 chunk == chunks[i]
      <3>9. middle \in Seq(S) /\ chunk \in Seq(S)
        BY <3>7, <3>8
      <3> HIDE DEF middle, chunk, Outs, out
      <3>10. (front \o middle) \o chunk = front \o (middle \o chunk)
        <4>1. Associate(front, middle, chunk)
          BY <3>4, <3>9, SlicesAssociate
        <4> QED BY <4>1 DEF Associate
      <3> QED BY <3>1, <3>2, <3>7, <3>10 DEF middle, chunk
    <2>6. (skip = 0 \/ i < skip) \/ (skip # 0 /\ i = skip) \/ (skip # 0 /\ skip < i)
      BY <1>2
    <2> QED BY <2>3, <2>4, <2>5, <2>6
  <1>11. closed = [i \in 0..k |->
                IF i = 0 THEN << >> ELSE closed[i - 1] \o IF i = skip THEN << >> ELSE chunks[i]]
    <2>1. \A i \in 0..k : i # 0 => i \in 1..k
      BY <1>2
    <2> QED BY <1>9, <1>10, <1>22, <2>1
  <1> DEFINE last == closed[k]
  <1>12. last = IF skip = 0 THEN s ELSE Complement(s, k, skip)
    <2>1. k \in 0..k
      BY <1>2
    <2>2. CASE skip = 0
      <3>1. closed[k] = SubSeq(s, 1, B(k + 1))
        BY <1>20, <2>1, <2>2
      <3> QED BY <1>4, <1>7, <2>2, <3>1, SubSeqFull
    <2>3. CASE skip # 0
      <3>1. ~(k < skip)
        BY <1>2
      <3>2. closed[k] = SubSeq(s, 1, B(skip)) \o SubSeq(s, B(skip + 1) + 1, B(k + 1))
        BY <1>21, <2>1, <2>3, <3>1 DEF front, Rest
      <3> QED BY <1>4, <1>7, <2>3, <3>2 DEF Complement, B, len
    <2> QED BY <2>2, <2>3
  <1> HIDE DEF last
  <1>13. Outs(closed)
    BY <1>11
  <1>14. Outs(out)
    <2> HIDE DEF Outs
    <2> QED BY <1>13
  <1> HIDE DEF out
  <1>15. \A i \in 0..k : out[i] = closed[i]
    <2>1. out = [i \in 0..k |->
                IF i = 0 THEN << >> ELSE out[i - 1] \o IF i = skip THEN << >> ELSE chunks[i]]
      BY <1>14
    <2> HIDE DEF Outs
    <2>2. out[0] = closed[0]
      BY <1>2, <1>9, <2>1
    <2>3. \A i \in 1..k : out[i - 1] = closed[i - 1] => out[i] = closed[i]
      BY <1>2, <1>10, <2>1
    <2>4. SameLoop(k, out, closed)
      BY <2>2, <2>3 DEF SameLoop
    <2> QED BY <1>2, <2>4, LoopDetermines
  <1>16. out[k] = closed[k]
    BY <1>2, <1>15
  <1> QED BY <1>1, <1>12, <1>16 DEF chunks, last
=============================================================================
