-------------------------- MODULE CheckpointProofs -------------------------
(***************************************************************************)
(* For every set of subsets, fingerprints and outcomes, however often runs *)
(* die, are repeated and resumed: what a run restores was decided by a run *)
(* like it, and a trial reported as saved is lost only behind a torn line. *)
(***************************************************************************)
EXTENDS Checkpoint, TLAPS

---------------------------------------------------------------------------
(* The inductive invariant, in parts. *)

(* A process appends to the file. *)
Writing == process # Nobody /\ storeOn

(* There is a file. *)
Present == file # NoFile \/ Writing

IsTrial(line) == line.rec.type = "trial"

(* A header is nowhere but in front, a trial nowhere in front, and no      *)
(* subset has two trials.                                                  *)
WellFormed ==
    /\ file \in Seq(Line)
    /\ file # << >> => ~IsTrial(file[1])
    /\ \A i \in 2..Len(file) : file[i].rec.type # "checkpoint"
    /\ \A i, j \in 1..Len(file) :
          IsTrial(file[i]) /\ IsTrial(file[j]) /\ file[i].rec.subset = file[j].rec.subset => i = j

(* Behind the header of a run are trials that such a run has decided. *)
TrialsDecided ==
    \A f \in Fingerprints :
        file # << >> /\ file[1].rec = Header(f) =>
            \A i \in 1..Len(file) : IsTrial(file[i]) =>
                <<f, file[i].rec.subset, file[i].rec.outcome>> \in decided

(* A line is damaged that is not a truncated tail. *)
Damaged(lines) ==
    \E i \in 1..Len(lines) : lines[i].rec = Garbage /\ (lines[i].ended \/ i < Len(lines))

(* A trial reported as saved is on a line of its own, which is complete. *)
DurableOnLines ==
    Damaged(file) \/ \A i \in 1..Len(durable) :
                        \E j \in 1..Len(file) : file[j].ended /\ file[j].rec = durable[i]

(* The process that appends has the trials of the file in its memo, and    *)
(* its own header in front unless that line was torn.                      *)
WriterKnows ==
    /\ file # << >>
    /\ file[1].rec \in {Header(process), Garbage}
    /\ \A i \in 1..Len(file) : IsTrial(file[i]) => file[i].rec.subset \in DOMAIN memo

IInv ==
    /\ TypeOK
    /\ Present => WellFormed /\ TrialsDecided /\ DurableOnLines
    /\ Writing => WriterKnows

---------------------------------------------------------------------------
(* Lines and what Write and Load make of them. *)

LEMMA TypesOfLines ==
    /\ \A t \in Trials : t.type = "trial" /\ t.subset \in Subsets /\ t.outcome \in Outcomes
    /\ \A l \in Line :
          /\ l.ended \in BOOLEAN
          /\ l.rec.type \in {"checkpoint", "trial", "garbage"}
          /\ IsTrial(l) => l.rec \in Trials
          /\ l.rec.type = "garbage" <=> l.rec = Garbage
          /\ l.rec.type = "checkpoint" => \E f \in Fingerprints : l.rec = Header(f)
  <1>1. \A t \in Trials : t.type = "trial" /\ t.subset \in Subsets /\ t.outcome \in Outcomes
    BY DEF Trials, Trial
  <1>2. ASSUME NEW l \in Line
        PROVE  /\ l.ended \in BOOLEAN
               /\ l.rec.type \in {"checkpoint", "trial", "garbage"}
               /\ IsTrial(l) => l.rec \in Trials
               /\ l.rec.type = "garbage" <=> l.rec = Garbage
               /\ l.rec.type = "checkpoint" => \E f \in Fingerprints : l.rec = Header(f)
    <2>1. l.ended \in BOOLEAN /\ l.rec \in Record \cup {Garbage}
      BY DEF Line
    <2>2. CASE l.rec \in Trials
      <3>1. l.rec.type = "trial"
        BY <1>1, <2>2
      <3> QED BY <2>1, <2>2, <3>1 DEF Garbage
    <2>3. CASE l.rec = Garbage
      <3>1. l.rec.type = "garbage"
        BY <2>3 DEF Garbage
      <3> QED BY <2>1, <2>3, <3>1 DEF IsTrial
    <2>4. ASSUME NEW f \in Fingerprints, l.rec = Header(f)
          PROVE  l.rec.type = "checkpoint"
      BY <2>4 DEF Header
    <2>5. CASE \E f \in Fingerprints : l.rec = Header(f)
      BY <2>1, <2>4, <2>5 DEF IsTrial, Garbage
    <2> QED BY <2>1, <2>2, <2>3, <2>5 DEF Record
  <1> QED BY <1>1, <1>2

LEMMA HeaderFacts ==
    /\ \A f \in Fingerprints : Header(f).type = "checkpoint" /\ Header(f) \in Record
    /\ \A f, g : Header(f) = Header(g) => f = g
    /\ \A f : Header(f) # Garbage
  <1>1. \A f : Header(f).type = "checkpoint" /\ Header(f).fingerprint = f
    BY DEF Header
  <1>2. Garbage.type = "garbage"
    BY DEF Garbage
  <1> QED BY <1>1, <1>2 DEF Record

LEMMA TrialFacts ==
    \A s \in Subsets, o \in Outcomes :
        /\ Trial(s, o) \in Trials /\ Trial(s, o) \in Record
        /\ Trial(s, o).type = "trial" /\ Trial(s, o).subset = s /\ Trial(s, o).outcome = o
  <1> SUFFICES ASSUME NEW s \in Subsets, NEW o \in Outcomes
               PROVE  /\ Trial(s, o) \in Trials /\ Trial(s, o) \in Record
                      /\ Trial(s, o).type = "trial" /\ Trial(s, o).subset = s
                      /\ Trial(s, o).outcome = o
    OBVIOUS
  <1>1. Trial(s, o) \in Trials
    BY DEF Trials
  <1> QED BY <1>1 DEF Trial, Record

LEMMA FrontIs ==
    ASSUME NEW lines \in Seq(Line), lines # << >>
    PROVE  /\ Front(lines) \in Seq(Line) /\ Len(Front(lines)) = Len(lines) - 1
           /\ \A i \in 1..(Len(lines) - 1) : Front(lines)[i] = lines[i]
  <1>1. PICK n : n = Len(lines)
    OBVIOUS
  <1>2. n \in Nat /\ n # 0 /\ \A i \in 1..n : lines[i] \in Line
    BY <1>1
  <1>3. Front(lines) = SubSeq(lines, 1, n - 1)
    BY <1>1 DEF Front
  <1>4. /\ SubSeq(lines, 1, n - 1) \in Seq(Line)
        /\ Len(SubSeq(lines, 1, n - 1)) = n - 1
        /\ \A i \in 1..(n - 1) : SubSeq(lines, 1, n - 1)[i] = lines[i]
    BY <1>1, <1>2
  <1> QED BY <1>1, <1>3, <1>4

(* The three cases of Write, on a file without lines, behind a line that   *)
(* is complete and on one that is not.                                     *)
LEMMA WriteIs ==
    ASSUME NEW lines \in Seq(Line), NEW rec \in Record, NEW extent \in Extent
    PROVE  /\ extent = "nothing" => Write(lines, rec, extent) = lines
           /\ extent # "nothing" /\ lines # << >> /\ ~Last(lines).ended =>
                 Write(lines, rec, extent) =
                     Append(Front(lines), [rec |-> Garbage, ended |-> extent = "all"])
           /\ extent # "nothing" /\ ~(lines # << >> /\ ~Last(lines).ended) =>
                 Write(lines, rec, extent) =
                     Append(lines, [rec   |-> IF extent = "part" THEN Garbage ELSE rec,
                                    ended |-> extent = "all"])
  <1>1. CASE extent = "nothing"
    BY <1>1 DEF Write
  <1>2. CASE extent # "nothing" /\ lines # << >> /\ ~Last(lines).ended
    BY <1>2 DEF Write
  <1>3. CASE extent # "nothing" /\ ~(lines # << >> /\ ~Last(lines).ended)
    BY <1>3, Zenon DEF Write
  <1> QED BY <1>1, <1>2, <1>3

(* Line by line: a write leaves the file as it is, spoils its last line,   *)
(* or adds a line.                                                         *)
LEMMA WriteLines ==
    ASSUME NEW lines \in Seq(Line), NEW rec \in Record, NEW extent \in Extent,
           NEW w, w = Write(lines, rec, extent), NEW n, n = Len(lines)
    PROVE  /\ w \in Seq(Line)
           /\ \/ w = lines /\ extent = "nothing"
              \/ /\ n # 0 /\ ~lines[n].ended /\ Len(w) = n
                 /\ \A i \in 1..(n - 1) : w[i] = lines[i]
                 /\ w[n].rec = Garbage /\ (w[n].ended <=> extent = "all")
              \/ /\ Len(w) = n + 1 /\ (n # 0 => lines[n].ended)
                 /\ \A i \in 1..n : w[i] = lines[i]
                 /\ w[n + 1].rec = IF extent = "part" THEN Garbage ELSE rec
                 /\ w[n + 1].ended <=> extent = "all"
  <1>1. n \in Nat /\ (lines = << >> <=> n = 0)
    OBVIOUS
  <1>2. CASE extent = "nothing"
    BY <1>2, WriteIs
  <1>3. CASE extent # "nothing" /\ lines # << >> /\ ~Last(lines).ended
    <2> DEFINE l == [rec |-> Garbage, ended |-> extent = "all"]
    <2>1. w = Append(Front(lines), l)
      BY <1>3, WriteIs
    <2>2. l \in Line /\ l.rec = Garbage /\ (l.ended <=> extent = "all")
      BY DEF Line
    <2>3. Front(lines) \in Seq(Line) /\ Len(Front(lines)) = n - 1
          /\ \A i \in 1..(n - 1) : Front(lines)[i] = lines[i]
      BY <1>3, FrontIs
    <2> HIDE DEF l
    <2>4. w \in Seq(Line) /\ Len(w) = n /\ w[n] = l /\ \A i \in 1..(n - 1) : w[i] = lines[i]
      BY <1>1, <1>3, <2>1, <2>2, <2>3
    <2> QED BY <1>1, <1>3, <2>2, <2>4 DEF Last
  <1>4. CASE extent # "nothing" /\ ~(lines # << >> /\ ~Last(lines).ended)
    <2> DEFINE l == [rec |-> IF extent = "part" THEN Garbage ELSE rec, ended |-> extent = "all"]
    <2>1. w = Append(lines, l)
      BY <1>4, WriteIs
    <2>2. l \in Line /\ l.rec = (IF extent = "part" THEN Garbage ELSE rec)
          /\ (l.ended <=> extent = "all")
      BY DEF Line
    <2> HIDE DEF l
    <2>3. w \in Seq(Line) /\ Len(w) = n + 1 /\ w[n + 1] = l /\ \A i \in 1..n : w[i] = lines[i]
      BY <1>1, <2>1, <2>2
    <2> QED BY <1>1, <1>4, <2>2, <2>3 DEF Last
  <1> QED BY <1>2, <1>3, <1>4

(* Damage stays. *)
LEMMA DamageStays ==
    ASSUME NEW lines \in Seq(Line), NEW rec \in Record, NEW extent \in Extent, Damaged(lines)
    PROVE  Damaged(Write(lines, rec, extent))
  <1> DEFINE w == Write(lines, rec, extent)
             n == Len(lines)
  <1>1. PICK i \in 1..n : lines[i].rec = Garbage /\ (lines[i].ended \/ i < n)
    BY DEF Damaged
  <1>2. n \in Nat
    OBVIOUS
  <1>3. \/ w = lines
        \/ ~lines[n].ended /\ Len(w) = n /\ \A k \in 1..(n - 1) : w[k] = lines[k]
        \/ Len(w) = n + 1 /\ \A k \in 1..n : w[k] = lines[k]
    BY WriteLines
  <1> HIDE DEF w, n
  <1>4. CASE w = lines
    BY <1>4 DEF w
  <1>5. CASE ~lines[n].ended /\ Len(w) = n /\ \A k \in 1..(n - 1) : w[k] = lines[k]
    <2>1. i < n /\ i \in 1..(n - 1) /\ i \in 1..Len(w)
      BY <1>1, <1>2, <1>5
    <2>2. w[i].rec = Garbage /\ i < Len(w)
      BY <1>1, <1>5, <2>1
    <2> QED BY <2>1, <2>2 DEF Damaged, w
  <1>6. CASE Len(w) = n + 1 /\ \A k \in 1..n : w[k] = lines[k]
    <2>1. i \in 1..Len(w) /\ w[i].rec = Garbage /\ i < Len(w)
      BY <1>1, <1>2, <1>6
    <2> QED BY <2>1 DEF Damaged, w
  <1> QED BY <1>3, <1>4, <1>5, <1>6

(* Load drops a torn last line and no other. *)
LEMMA ParsedIs ==
    ASSUME WellFormed
    PROVE  /\ Parsed(file) \in Seq(Line)
           /\ Len(Parsed(file)) \in Nat /\ Len(file) \in Nat
           /\ \A i \in 1..Len(Parsed(file)) : i \in 1..Len(file) /\ Parsed(file)[i] = file[i]
           /\ \A i \in 1..Len(file) : i \notin 1..Len(Parsed(file)) =>
                 i = Len(file) /\ file[i].rec = Garbage /\ ~file[i].ended
           /\ DOMAIN LoadedTrials = 1..(Len(Parsed(file)) - 1)
           /\ \A i \in 1..(Len(Parsed(file)) - 1) :
                 LoadedTrials[i] = file[i + 1].rec /\ i + 1 \in 1..Len(Parsed(file))
  <1>1. file \in Seq(Line) /\ Len(file) \in Nat /\ (file = << >> <=> Len(file) = 0)
    BY DEF WellFormed
  <1>2. /\ Parsed(file) \in Seq(Line)
        /\ Len(Parsed(file)) \in Nat
        /\ \A i \in 1..Len(Parsed(file)) : i \in 1..Len(file) /\ Parsed(file)[i] = file[i]
        /\ \A i \in 1..Len(file) : i \notin 1..Len(Parsed(file)) =>
              i = Len(file) /\ file[i].rec = Garbage /\ ~file[i].ended
    <2>1. CASE file # << >> /\ Last(file).rec = Garbage /\ ~Last(file).ended
      <3>1. Parsed(file) = Front(file)
        BY <2>1 DEF Parsed
      <3>2. /\ Front(file) \in Seq(Line) /\ Len(Front(file)) = Len(file) - 1
            /\ \A i \in 1..(Len(file) - 1) : Front(file)[i] = file[i]
        BY <1>1, <2>1, FrontIs
      <3> QED BY <1>1, <2>1, <3>1, <3>2 DEF Last
    <2>2. CASE ~(file # << >> /\ Last(file).rec = Garbage /\ ~Last(file).ended)
      <3>1. Parsed(file) = file
        BY <2>2 DEF Parsed
      <3> QED BY <1>1, <3>1
    <2> QED BY <2>1, <2>2
  <1>3. /\ DOMAIN LoadedTrials = 1..(Len(Parsed(file)) - 1)
        /\ \A i \in 1..(Len(Parsed(file)) - 1) :
              LoadedTrials[i] = Parsed(file)[i + 1].rec /\ i + 1 \in 1..Len(Parsed(file))
    BY <1>2 DEF LoadedTrials
  <1> QED BY <1>1, <1>2, <1>3

---------------------------------------------------------------------------
(* A trial is appended, as far as it gets. *)

LEMMA AppendTrial ==
    ASSUME IInv, Writing, NEW s \in Subsets, NEW o \in Outcomes, NEW extent \in Extent,
           s \notin DOMAIN memo,
           file' = Write(file, Trial(s, o), extent),
           decided' = decided \cup {<<process, s, o>>},
           durable' = durable \/ (extent = "all" /\ durable' = Append(durable, Trial(s, o)))
    PROVE  /\ WellFormed' /\ TrialsDecided' /\ DurableOnLines'
           /\ file' # << >>
           /\ file'[1].rec \in {Header(process), Garbage}
           /\ \A i \in 1..Len(file') :
                 IsTrial(file'[i]) => file'[i].rec.subset \in DOMAIN memo \cup {s}
  <1> DEFINE n == Len(file)
             t == Trial(s, o)
  <1>1. WellFormed /\ TrialsDecided /\ DurableOnLines /\ WriterKnows
    BY DEF IInv, Present
  <1>2. file \in Seq(Line) /\ n \in Nat /\ n # 0
    BY <1>1 DEF WellFormed, WriterKnows
  <1>3. /\ t \in Trials /\ t \in Record /\ t.type = "trial" /\ t.subset = s /\ t.outcome = o
        /\ t # Garbage
    <2>1. Garbage.type = "garbage"
      BY DEF Garbage
    <2> QED BY <2>1, TrialFacts
  <1>4. /\ file' \in Seq(Line)
        /\ \/ file' = file /\ extent = "nothing"
           \/ /\ ~file[n].ended /\ Len(file') = n
              /\ \A i \in 1..(n - 1) : file'[i] = file[i]
              /\ file'[n].rec = Garbage /\ (file'[n].ended <=> extent = "all")
           \/ /\ Len(file') = n + 1 /\ file[n].ended
              /\ \A i \in 1..n : file'[i] = file[i]
              /\ file'[n + 1].rec = (IF extent = "part" THEN Garbage ELSE t)
              /\ (file'[n + 1].ended <=> extent = "all")
    BY <1>2, <1>3, WriteLines
  <1> HIDE DEF n, t
  <1>5. Len(file') \in {n, n + 1} /\ Len(file') # 0
    BY <1>2, <1>4 DEF n
  <1>6. \A i \in 1..Len(file') : \/ i \in 1..n /\ file'[i] = file[i]
                                 \/ file'[i].rec = Garbage
                                 \/ i = n + 1 /\ file'[i].rec = t
    BY <1>2, <1>4 DEF n
  <1>7. Garbage.type = "garbage"
    BY DEF Garbage
  <1>8. \A i \in 1..Len(file') : IsTrial(file'[i]) =>
           \/ i \in 1..n /\ file'[i] = file[i]
           \/ i = n + 1 /\ file'[i].rec = t
    BY <1>6, <1>7 DEF IsTrial
  <1>9. 1 \in 1..n /\ 1 \in 1..Len(file') /\ 1 # n + 1
    BY <1>2, <1>5
  <1>10. file'[1] = file[1] \/ file'[1].rec = Garbage
    BY <1>6, <1>9
  <1>11. file'[1].rec \in {Header(process), Garbage}
    BY <1>1, <1>10 DEF WriterKnows
  <1>12. WellFormed'
    <2>1. ~IsTrial(file'[1])
      BY <1>1, <1>7, <1>10 DEF WellFormed, IsTrial, WriterKnows
    <2>2. ASSUME NEW i \in 2..Len(file') PROVE file'[i].rec.type # "checkpoint"
      <3>1. i \in 1..Len(file')
        BY <1>5
      <3>2. CASE i \in 1..n /\ file'[i] = file[i]
        <4>1. i \in 2..Len(file)
          BY <3>2 DEF n
        <4> QED BY <1>1, <3>2, <4>1 DEF WellFormed
      <3> QED BY <1>3, <1>6, <1>7, <3>1, <3>2
    <2>3. ASSUME NEW i \in 1..Len(file'), NEW j \in 1..Len(file'),
                 IsTrial(file'[i]), IsTrial(file'[j]), file'[i].rec.subset = file'[j].rec.subset
          PROVE  i = j
      <3>1. CASE i \in 1..n /\ file'[i] = file[i] /\ j \in 1..n /\ file'[j] = file[j]
        BY <1>1, <2>3, <3>1 DEF WellFormed, n
      <3>2. CASE i \in 1..n /\ file'[i] = file[i] /\ file'[j].rec = t
        BY <1>1, <1>3, <2>3, <3>2 DEF WriterKnows, n
      <3>3. CASE j \in 1..n /\ file'[j] = file[j] /\ file'[i].rec = t
        BY <1>1, <1>3, <2>3, <3>3 DEF WriterKnows, n
      <3> QED BY <1>8, <2>3, <3>1, <3>2, <3>3
    <2> QED BY <1>4, <2>1, <2>2, <2>3 DEF WellFormed
  <1>13. TrialsDecided'
    <2> SUFFICES ASSUME NEW f \in Fingerprints, file'[1].rec = Header(f),
                        NEW i \in 1..Len(file'), IsTrial(file'[i])
                 PROVE  <<f, file'[i].rec.subset, file'[i].rec.outcome>> \in decided'
      BY DEF TrialsDecided
    <2>1. f = process /\ file[1].rec = Header(f)
      BY <1>1, <1>10, HeaderFacts DEF WriterKnows
    <2>2. CASE i \in 1..n /\ file'[i] = file[i]
      BY <1>1, <2>1, <2>2 DEF TrialsDecided, WriterKnows, n
    <2>3. CASE file'[i].rec = t
      BY <1>3, <2>1, <2>3
    <2> QED BY <1>8, <2>2, <2>3
  <1>14. DurableOnLines'
    <2>1. CASE Damaged(file)
      BY <1>2, <1>3, <2>1, DamageStays DEF DurableOnLines, Damaged, t
    <2>2. CASE ~Damaged(file)
      <3>1. \A i \in 1..Len(durable) : \E j \in 1..Len(file) :
               file[j].ended /\ file[j].rec = durable[i]
        BY <1>1, <2>2 DEF DurableOnLines
      <3>2. CASE file' = file /\ extent = "nothing"
        BY <3>1, <3>2 DEF DurableOnLines
      <3>3. CASE /\ ~file[n].ended /\ Len(file') = n
                 /\ \A i \in 1..(n - 1) : file'[i] = file[i]
                 /\ file'[n].rec = Garbage /\ (file'[n].ended <=> extent = "all")
        <4>1. CASE extent = "all"
          BY <1>2, <3>3, <4>1 DEF DurableOnLines, Damaged
        <4>2. CASE extent # "all"
          <5>1. ASSUME NEW i \in 1..Len(durable)
                PROVE  \E j \in 1..Len(file') : file'[j].ended /\ file'[j].rec = durable[i]
            <6>1. PICK j \in 1..n : file[j].ended /\ file[j].rec = durable[i]
              BY <3>1 DEF n
            <6>2. j \in 1..(n - 1)
              BY <1>2, <3>3, <6>1
            <6> QED BY <3>3, <6>1, <6>2
          <5> QED BY <4>2, <5>1 DEF DurableOnLines
        <4> QED BY <4>1, <4>2
      <3>4. CASE /\ Len(file') = n + 1
                 /\ \A i \in 1..n : file'[i] = file[i]
                 /\ file'[n + 1].rec = (IF extent = "part" THEN Garbage ELSE t)
                 /\ (file'[n + 1].ended <=> extent = "all")
        <4>1. \A i \in 1..Len(durable) : \E j \in 1..Len(file') :
                 file'[j].ended /\ file'[j].rec = durable[i]
          <5> SUFFICES ASSUME NEW i \in 1..Len(durable)
                       PROVE  \E j \in 1..Len(file') : file'[j].ended /\ file'[j].rec = durable[i]
            OBVIOUS
          <5>1. PICK j \in 1..n : file[j].ended /\ file[j].rec = durable[i]
            BY <3>1 DEF n
          <5>2. j \in 1..Len(file')
            BY <1>2, <3>4
          <5> QED BY <3>4, <5>1, <5>2
        <4>2. CASE durable' = durable
          BY <4>1, <4>2 DEF DurableOnLines
        <4>3. CASE extent = "all" /\ durable' = Append(durable, t)
          <5>1. durable \in Seq(Trials)
            BY DEF IInv, TypeOK
          <5>2. /\ Len(durable') = Len(durable) + 1 /\ Len(durable) \in Nat
                /\ \A i \in 1..Len(durable) : durable'[i] = durable[i]
                /\ durable'[Len(durable) + 1] = t
            BY <1>3, <4>3, <5>1
          <5>3. n + 1 \in 1..Len(file') /\ file'[n + 1].ended /\ file'[n + 1].rec = t
            BY <1>2, <3>4, <4>3
          <5>4. \A i \in 1..Len(durable') : i \in 1..Len(durable) \/ i = Len(durable) + 1
            BY <5>2
          <5> QED BY <4>1, <5>2, <5>3, <5>4 DEF DurableOnLines
        <4> QED BY <4>2, <4>3 DEF t
      <3> QED BY <1>4, <3>2, <3>3, <3>4
    <2> QED BY <2>1, <2>2
  <1>15. ASSUME NEW i \in 1..Len(file'), IsTrial(file'[i])
         PROVE  file'[i].rec.subset \in DOMAIN memo \cup {s}
    BY <1>1, <1>3, <1>8, <1>15 DEF WriterKnows, n
  <1>16. file' # << >>
    BY <1>5
  <1> QED BY <1>11, <1>12, <1>13, <1>14, <1>15, <1>16

(* A header is written to an empty file, as far as it gets. *)
HeaderWritten(f, extent) ==
    /\ file' = Write(<< >>, Header(f), extent)
    /\ durable' = << >>

LEMMA WriteHeader ==
    ASSUME NEW f \in Fingerprints, NEW extent \in Extent, HeaderWritten(f, extent)
    PROVE  /\ WellFormed' /\ TrialsDecided' /\ DurableOnLines'
           /\ \A i \in 1..Len(file') : ~IsTrial(file'[i])
           /\ extent = "all" => file' # << >> /\ file'[1].rec = Header(f)
  <1>1. /\ file' \in Seq(Line)
        /\ \/ file' = << >> /\ extent = "nothing"
           \/ Len(file') = 1 /\ file'[1].rec = (IF extent = "part" THEN Garbage ELSE Header(f))
    <2>1. PICK lines \in Seq(Line) : lines = << >> /\ file' = Write(lines, Header(f), extent)
      <3>1. << >> \in Seq(Line)
        OBVIOUS
      <3>2. file' = Write(<< >>, Header(f), extent)
        BY DEF HeaderWritten
      <3> QED BY <3>1, <3>2, Zenon
    <2>2. /\ file' \in Seq(Line)
          /\ \/ file' = << >> /\ extent = "nothing"
             \/ /\ Len(file') = 0 + 1
                /\ file'[0 + 1].rec = (IF extent = "part" THEN Garbage ELSE Header(f))
      <3> DEFINE w == file'
                 h == Header(f)
      <3>1. PICK n : n = Len(lines) /\ lines \in Seq(Line)
        BY <2>1
      <3>2. w = Write(lines, h, extent) /\ h \in Record
        BY <2>1, HeaderFacts
      <3> HIDE DEF w, h
      <3>3. /\ w \in Seq(Line)
            /\ \/ w = lines /\ extent = "nothing"
               \/ /\ Len(w) = n + 1
                  /\ w[n + 1].rec = (IF extent = "part" THEN Garbage ELSE h)
               \/ n # 0
        BY <3>1, <3>2, WriteLines
      <3>4. n = 0
        BY <2>1, <3>1
      <3> QED BY <2>1, <3>3, <3>4 DEF w, h
    <2> QED BY <2>2
  <1>2. \A i \in 1..Len(file') : ~IsTrial(file'[i])
    <2> SUFFICES ASSUME NEW i \in 1..Len(file') PROVE ~IsTrial(file'[i])
      OBVIOUS
    <2>1. file' # << >>
      OBVIOUS
    <2>2. Len(file') = 1 /\ file'[1].rec \in {Garbage, Header(f)}
      BY <1>1, <2>1
    <2>3. i = 1
      BY <2>2
    <2>4. Header(f).type = "checkpoint" /\ Garbage.type = "garbage"
      BY HeaderFacts DEF Garbage
    <2> QED BY <2>2, <2>3, <2>4 DEF IsTrial
  <1>3. Len(file') = 0 \/ Len(file') = 1
    BY <1>1
  <1>4. \A i \in 2..Len(file') : FALSE
    <2> SUFFICES ASSUME NEW n, n = Len(file') PROVE \A i \in 2..n : FALSE
      OBVIOUS
    <2> QED BY <1>3
  <1>5. WellFormed' /\ TrialsDecided'
    <2>1. file' # << >> => 1 \in 1..Len(file')
      BY <1>1
    <2> QED BY <1>1, <1>2, <1>4, <2>1 DEF WellFormed, TrialsDecided
  <1>6. DurableOnLines'
    <2>1. durable' = << >>
      BY DEF HeaderWritten
    <2>2. 1..Len(durable') = {}
      BY <2>1
    <2> QED BY <2>2 DEF DurableOnLines
  <1>7. extent = "all" => file' # << >> /\ file'[1].rec = Header(f)
    BY <1>1
  <1> QED BY <1>2, <1>5, <1>6, <1>7

---------------------------------------------------------------------------
(* What Load makes of the file of a run. *)

(* What is loaded of a file are its trials, none of them in front. *)
LEMMA LoadedAre ==
    ASSUME WellFormed, Loadable
    PROVE  /\ file # << >> /\ 1 \in 1..Len(file) /\ Parsed(file)[1] = file[1]
           /\ \A i \in DOMAIN LoadedTrials :
                 /\ i + 1 \in 1..Len(file) /\ IsTrial(file[i + 1])
                 /\ LoadedTrials[i] = file[i + 1].rec /\ LoadedTrials[i] \in Trials
           /\ \A i \in 1..Len(file) : IsTrial(file[i]) =>
                 i - 1 \in DOMAIN LoadedTrials /\ LoadedTrials[i - 1] = file[i].rec
  <1> DEFINE p == Parsed(file)
  <1>1. p # << >> /\ \A i \in 2..Len(p) : p[i].rec.type = "trial"
    BY DEF Loadable
  <1>2. /\ p \in Seq(Line) /\ Len(p) \in Nat /\ Len(file) \in Nat
        /\ \A i \in 1..Len(p) : i \in 1..Len(file) /\ p[i] = file[i]
        /\ \A i \in 1..Len(file) : i \notin 1..Len(p) => file[i].rec = Garbage
        /\ DOMAIN LoadedTrials = 1..(Len(p) - 1)
        /\ \A i \in 1..(Len(p) - 1) : LoadedTrials[i] = file[i + 1].rec /\ i + 1 \in 1..Len(p)
    BY ParsedIs
  <1> HIDE DEF p
  <1>3. 1 \in 1..Len(p)
    BY <1>1, <1>2
  <1>4. file \in Seq(Line) /\ (file # << >> => ~IsTrial(file[1]))
    BY DEF WellFormed
  <1>5. 1 \in 1..Len(file) /\ p[1] = file[1] /\ file # << >>
    BY <1>2, <1>3, <1>4
  <1>6. ASSUME NEW i \in DOMAIN LoadedTrials
        PROVE  /\ i + 1 \in 1..Len(file) /\ IsTrial(file[i + 1])
               /\ LoadedTrials[i] = file[i + 1].rec /\ LoadedTrials[i] \in Trials
    <2>1. /\ i \in 1..(Len(p) - 1) /\ i + 1 \in 2..Len(p) /\ i + 1 \in 1..Len(p)
          /\ LoadedTrials[i] = file[i + 1].rec
      BY <1>2
    <2>2. i + 1 \in 1..Len(file) /\ p[i + 1] = file[i + 1]
      BY <1>2, <2>1
    <2>3. IsTrial(file[i + 1])
      BY <1>1, <2>1, <2>2 DEF IsTrial
    <2>4. file[i + 1] \in Line
      BY <1>4, <2>2
    <2> QED BY <2>1, <2>2, <2>3, <2>4, TypesOfLines
  <1>7. ASSUME NEW i \in 1..Len(file), IsTrial(file[i])
        PROVE  i - 1 \in DOMAIN LoadedTrials /\ LoadedTrials[i - 1] = file[i].rec
    <2>1. file[i].rec # Garbage
      BY <1>7 DEF IsTrial, Garbage
    <2>2. i \in 1..Len(p) /\ i # 1
      BY <1>2, <1>4, <1>5, <1>7, <2>1
    <2>3. i - 1 \in 1..(Len(p) - 1) /\ (i - 1) + 1 = i
      BY <1>2, <2>2
    <2>4. LoadedTrials[i - 1] = file[(i - 1) + 1].rec
      BY <1>2, <2>3
    <2> QED BY <1>2, <2>3, <2>4
  <1> QED BY <1>5, <1>6, <1>7 DEF p

---------------------------------------------------------------------------
(* The invariant. *)

LEMMA InitIInv == Init => IInv
  <1> SUFFICES ASSUME Init PROVE IInv
    OBVIOUS
  <1>1. << >> \in Seq(Trials) /\ DOMAIN << >> = {}
    OBVIOUS
  <1>2. TypeOK
    <2>1. DOMAIN memo = {} /\ durable \in Seq(Trials)
      BY <1>1 DEF Init
    <2>2. processes \in 0..MaxProcesses
      BY MaxProcessesAssumption DEF Init
    <2> QED BY <2>1, <2>2 DEF Init, TypeOK
  <1>3. ~Writing /\ ~Present
    BY DEF Init, Writing, Present
  <1> QED BY <1>2, <1>3 DEF IInv

(* The next process, if there may be one more. *)
LEMMA NewProcessTypeOK ==
    ASSUME TypeOK, NewProcess
    PROVE  processes' \in 0..MaxProcesses
  BY MaxProcessesAssumption DEF TypeOK, NewProcess

LEMMA WriteTypeOK ==
    ASSUME NEW lines \in Seq(Line), NEW rec \in Record, NEW extent \in Extent
    PROVE  Write(lines, rec, extent) \in Seq(Line)
  BY WriteLines

LEMMA NextTypeOK ==
    ASSUME IInv, Next
    PROVE  TypeOK'
  <1>1. TypeOK /\ << >> \in Seq(Line) /\ << >> \in Seq(Trials) /\ DOMAIN << >> = {}
    BY DEF IInv
  <1>2. ASSUME NEW f \in Fingerprints, StartRun(f) \/ StartFails(f) PROVE TypeOK'
    <2>1. \A extent \in Extent : Write(<< >>, Header(f), extent) \in Seq(Line)
      BY <1>1, HeaderFacts, WriteTypeOK
    <2>2. processes' \in 0..MaxProcesses
      BY <1>1, <1>2, NewProcessTypeOK DEF StartRun, StartFails
    <2>3. file' = NoFile \/ file' \in Seq(Line)
      BY <1>1, <1>2, <2>1 DEF StartRun, StartFails, Extent, TypeOK
    <2>4. durable' \in Seq(Trials)
      BY <1>1, <1>2 DEF StartRun, StartFails, TypeOK
    <2>5. process' \in Fingerprints \cup {Nobody} /\ storeOn' \in BOOLEAN /\ decided' = decided
      BY <1>1, <1>2 DEF StartRun, StartFails, TypeOK
    <2>6. DOMAIN memo' \subseteq Subsets /\ \A s \in DOMAIN memo' : memo'[s] \in Outcomes
      BY <1>1, <1>2 DEF StartRun, StartFails, TypeOK
    <2> QED BY <1>1, <2>2, <2>3, <2>4, <2>5, <2>6 DEF TypeOK
  <1>3. ASSUME NEW f \in Fingerprints, ResumeRun(f) PROVE TypeOK'
    <2>1. processes' \in 0..MaxProcesses
      BY <1>1, <1>3, NewProcessTypeOK DEF ResumeRun
    <2>2. WellFormed /\ Loadable
      BY <1>3 DEF ResumeRun, Valid, Loadable, IInv, Present
    <2>3. \A i \in DOMAIN LoadedTrials : LoadedTrials[i] \in Trials
      BY <2>2, LoadedAre
    <2>4. DOMAIN memo' = {LoadedTrials[i].subset : i \in DOMAIN LoadedTrials}
      BY <1>3 DEF ResumeRun
    <2>5. DOMAIN memo' \subseteq Subsets
      BY <2>3, <2>4, TypesOfLines
    <2>6. ASSUME NEW s \in DOMAIN memo' PROVE memo'[s] \in Outcomes
      <3>1. memo'[s] = (CHOOSE t \in Range(LoadedTrials) : t.subset = s).outcome
        BY <1>3, <2>4 DEF ResumeRun
      <3>2. \E t \in Range(LoadedTrials) : t.subset = s
        BY <2>4 DEF Range
      <3>3. (CHOOSE t \in Range(LoadedTrials) : t.subset = s) \in Range(LoadedTrials)
        BY <3>2
      <3>4. Range(LoadedTrials) \subseteq Trials
        BY <2>3 DEF Range
      <3> QED BY <3>1, <3>3, <3>4, TypesOfLines
    <2> QED BY <1>1, <1>3, <2>1, <2>5, <2>6 DEF TypeOK, ResumeRun
  <1>4. ASSUME NEW f \in Fingerprints, ResumeRefused(f) PROVE TypeOK'
    <2>1. processes' \in 0..MaxProcesses
      BY <1>1, <1>4, NewProcessTypeOK DEF ResumeRefused
    <2> QED BY <1>1, <1>4, <2>1 DEF TypeOK, ResumeRefused
  <1>5. ASSUME NEW s \in Subsets, NEW o \in Outcomes, RecordTrial(s, o) PROVE TypeOK'
    <2>1. Trial(s, o) \in Record /\ Trial(s, o) \in Trials
      BY TrialFacts
    <2>2. storeOn => file \in Seq(Line)
      BY <1>5 DEF RecordTrial, IInv, Present, Writing, WellFormed
    <2>3. storeOn => \A extent \in Extent : Write(file, Trial(s, o), extent) \in Seq(Line)
      BY <2>1, <2>2, WriteTypeOK
    <2>4. file' = NoFile \/ file' \in Seq(Line)
      BY <1>1, <1>5, <2>3 DEF RecordTrial, Extent, TypeOK
    <2>5. durable' \in Seq(Trials)
      <3>1. Append(durable, Trial(s, o)) \in Seq(Trials) /\ durable \in Seq(Trials)
        BY <1>1, <2>1 DEF TypeOK
      <3> QED BY <1>5, <3>1 DEF RecordTrial
    <2>6. /\ DOMAIN memo' = DOMAIN memo \cup {s}
          /\ \A k \in DOMAIN memo' : memo'[k] = IF k = s THEN o ELSE memo[k]
      BY <1>5 DEF RecordTrial
    <2>7. decided' \subseteq Fingerprints \X Subsets \X Outcomes
      BY <1>1, <1>5 DEF RecordTrial, TypeOK
    <2>8. storeOn' \in BOOLEAN /\ process' = process /\ processes' = processes
      BY <1>1, <1>5 DEF RecordTrial, TypeOK
    <2>9. DOMAIN memo' \subseteq Subsets /\ \A k \in DOMAIN memo' : memo'[k] \in Outcomes
      BY <1>1, <2>6 DEF TypeOK
    <2> QED BY <1>1, <2>4, <2>5, <2>7, <2>8, <2>9 DEF TypeOK
  <1>6. ASSUME Exit, file' = NoFile \/ file' \in Seq(Line), durable' \in Seq(Trials),
               decided' \subseteq Fingerprints \X Subsets \X Outcomes
        PROVE  TypeOK'
    <2>1. DOMAIN memo' = {} /\ storeOn' = FALSE /\ process' = Nobody /\ processes' = processes
      BY <1>1, <1>6 DEF Exit
    <2> QED BY <1>1, <1>6, <2>1 DEF TypeOK
  <1>7. ASSUME NEW s \in Subsets, NEW o \in Outcomes, DieWriting(s, o) PROVE TypeOK'
    <2>1. file \in Seq(Line) /\ process \in Fingerprints
      BY <1>1, <1>7 DEF DieWriting, Exit, IInv, Present, Writing, WellFormed, TypeOK
    <2>2. file' \in Seq(Line)
      BY <1>7, <2>1, TrialFacts, WriteTypeOK DEF DieWriting
    <2>3. decided' \subseteq Fingerprints \X Subsets \X Outcomes
      BY <1>1, <1>7, <2>1 DEF DieWriting, TypeOK
    <2> QED BY <1>1, <1>6, <1>7, <2>2, <2>3 DEF DieWriting, TypeOK
  <1>8. CASE Die \/ Finish
    BY <1>1, <1>6, <1>8 DEF Die, Finish, TypeOK
  <1> QED BY <1>2, <1>3, <1>4, <1>5, <1>7, <1>8 DEF Next

(* A file that is left alone keeps what it has. *)
LEMMA FileKept ==
    ASSUME IInv, Present, UNCHANGED <<file, durable>>, decided \subseteq decided'
    PROVE  WellFormed' /\ TrialsDecided' /\ DurableOnLines'
  BY DEF IInv, WellFormed, TrialsDecided, DurableOnLines, Damaged

LEMMA NextLines ==
    ASSUME IInv, Next
    PROVE  /\ Present' => WellFormed' /\ TrialsDecided' /\ DurableOnLines'
           /\ Writing' => WriterKnows'
  <1>1. ASSUME NEW f \in Fingerprints, StartRun(f)
        PROVE  /\ WellFormed' /\ TrialsDecided' /\ DurableOnLines' /\ WriterKnows'
    <2>1. "all" \in Extent /\ HeaderWritten(f, "all") /\ process' = f
      BY <1>1 DEF StartRun, HeaderWritten, Extent
    <2>2. /\ WellFormed' /\ TrialsDecided' /\ DurableOnLines'
          /\ \A i \in 1..Len(file') : ~IsTrial(file'[i])
          /\ file' # << >> /\ file'[1].rec = Header(f)
      BY <2>1, WriteHeader
    <2> QED BY <2>1, <2>2 DEF WriterKnows
  <1>2. ASSUME NEW f \in Fingerprints, StartFails(f)
        PROVE  ~Writing' /\ (Present' => WellFormed' /\ TrialsDecided' /\ DurableOnLines')
    <2>1. ~Writing'
      BY <1>2 DEF StartFails, NewProcess, Writing
    <2>2. CASE UNCHANGED <<file, durable>>
      BY <1>2, <2>1, <2>2, FileKept DEF StartFails, Present
    <2>3. CASE \E extent \in Extent : HeaderWritten(f, extent)
      BY <2>1, <2>3, WriteHeader
    <2> QED BY <1>2, <2>1, <2>2, <2>3 DEF StartFails, HeaderWritten
  <1>3. ASSUME NEW f \in Fingerprints, ResumeRun(f)
        PROVE  /\ WellFormed' /\ TrialsDecided' /\ DurableOnLines' /\ WriterKnows'
    <2>1. /\ Present /\ Loadable /\ Parsed(file)[1].rec = Header(f) /\ process' = f
          /\ UNCHANGED <<file, durable, decided>>
          /\ DOMAIN memo' = {LoadedTrials[i].subset : i \in DOMAIN LoadedTrials}
      BY <1>3 DEF ResumeRun, Valid, Loadable, Present
    <2>2. WellFormed
      BY <2>1 DEF IInv
    <2>3. file # << >> /\ file[1].rec = Header(f)
      BY <2>1, <2>2, LoadedAre
    <2>4. \A i \in 1..Len(file) : IsTrial(file[i]) => file[i].rec.subset \in DOMAIN memo'
      BY <2>1, <2>2, LoadedAre
    <2> QED BY <2>1, <2>3, <2>4, FileKept DEF WriterKnows
  <1>4. ASSUME NEW f \in Fingerprints, ResumeRefused(f)
        PROVE  ~Writing' /\ (Present' => WellFormed' /\ TrialsDecided' /\ DurableOnLines')
    <2>1. ~Writing'
      BY <1>4 DEF ResumeRefused, NewProcess, Writing
    <2> QED BY <1>4, <2>1, FileKept DEF ResumeRefused, Present
  <1>5. ASSUME NEW s \in Subsets, NEW o \in Outcomes, RecordTrial(s, o)
        PROVE  /\ Present' => WellFormed' /\ TrialsDecided' /\ DurableOnLines'
               /\ Writing' => WriterKnows'
    <2>1. /\ process # Nobody /\ process' = process /\ s \notin DOMAIN memo
          /\ decided' = decided \cup {<<process, s, o>>}
          /\ DOMAIN memo' = DOMAIN memo \cup {s}
      BY <1>5 DEF RecordTrial
    <2>2. CASE /\ storeOn
               /\ \E extent \in Extent :
                     /\ file' = Write(file, Trial(s, o), extent)
                     /\ durable' = durable \/ (extent = "all" /\ durable' = Append(durable, Trial(s, o)))
      <3>1. Writing
        BY <2>1, <2>2 DEF Writing
      <3>2. /\ WellFormed' /\ TrialsDecided' /\ DurableOnLines'
            /\ file' # << >> /\ file'[1].rec \in {Header(process), Garbage}
            /\ \A i \in 1..Len(file') :
                  IsTrial(file'[i]) => file'[i].rec.subset \in DOMAIN memo \cup {s}
        BY <2>1, <2>2, <3>1, AppendTrial
      <3> QED BY <2>1, <3>2 DEF WriterKnows
    <2>3. CASE ~storeOn /\ UNCHANGED <<file, storeOn, durable>>
      <3>1. ~Writing' /\ (Present' => Present)
        BY <2>3 DEF Writing, Present
      <3> QED BY <2>1, <2>3, <3>1, FileKept
    <2> QED BY <1>5, <2>2, <2>3 DEF RecordTrial, Extent
  <1>6. ASSUME NEW s \in Subsets, NEW o \in Outcomes, DieWriting(s, o)
        PROVE  ~Writing' /\ (Present' => WellFormed' /\ TrialsDecided' /\ DurableOnLines')
    <2>1. ~Writing' /\ Writing
      BY <1>6 DEF DieWriting, Exit, Writing
    <2> QED BY <1>6, <2>1, AppendTrial DEF DieWriting
  <1>7. CASE Die \/ Finish
    <2>1. ~Writing'
      BY <1>7 DEF Die, Finish, Exit, Writing
    <2>2. CASE file' = NoFile
      BY <2>1, <2>2 DEF Present
    <2>3. CASE UNCHANGED <<file, durable, decided>>
      BY <2>1, <2>3, FileKept DEF Present
    <2> QED BY <1>7, <2>1, <2>2, <2>3 DEF Die, Finish
  <1> QED BY <1>1, <1>2, <1>3, <1>4, <1>5, <1>6, <1>7 DEF Next

LEMMA NextIInv == IInv /\ [Next]_vars => IInv'
  <1>1. ASSUME IInv, Next PROVE IInv'
    BY <1>1, NextTypeOK, NextLines DEF IInv
  <1>2. ASSUME IInv, UNCHANGED vars PROVE IInv'
    BY <1>2 DEF vars, IInv, TypeOK, Present, Writing, WellFormed, TrialsDecided, DurableOnLines,
                Damaged, WriterKnows
  <1> QED BY <1>1, <1>2

(* The parts of the invariant hold in every state of every run. *)
THEOREM Invariance == Spec => []IInv
  <1>1. Init => IInv
    BY InitIInv
  <1>2. IInv /\ [Next]_vars => IInv'
    BY NextIInv
  <1> QED BY <1>1, <1>2, PTL DEF Spec

(* Every variable keeps to its type, whatever subsets are tried. *)
THEOREM TypeCorrect == Spec => []TypeOK
  <1>1. IInv => TypeOK
    BY DEF IInv
  <1> QED BY <1>1, Invariance, PTL

(* What a run restores was decided by a run with the same fingerprint,     *)
(* after any number of processes, crashes and failed writes.               *)
THEOREM RestoreCorrect == Spec => []RestoredTrialsAreReal
  <1>1. IInv => RestoredTrialsAreReal
    <2> SUFFICES ASSUME IInv, NEW f \in Fingerprints, Valid(f), NEW i \in DOMAIN LoadedTrials
                 PROVE  <<f, LoadedTrials[i].subset, LoadedTrials[i].outcome>> \in decided
      BY DEF RestoredTrialsAreReal
    <2>1. Loadable /\ Parsed(file)[1].rec = Header(f) /\ Present
      BY DEF Valid, Loadable, Present
    <2>2. WellFormed /\ TrialsDecided
      BY <2>1 DEF IInv
    <2>3. file # << >> /\ file[1].rec = Header(f)
      BY <2>1, <2>2, LoadedAre
    <2>4. i + 1 \in 1..Len(file) /\ IsTrial(file[i + 1]) /\ LoadedTrials[i] = file[i + 1].rec
      BY <2>1, <2>2, LoadedAre
    <2> QED BY <2>2, <2>3, <2>4 DEF TrialsDecided
  <1> QED BY <1>1, Invariance, PTL

(* While nothing was appended to a torn line, every trial reported as      *)
(* saved can be loaded, and the file is one that a run accepts.            *)
THEOREM SurvivalCorrect == Spec => []SavedTrialsSurvive
  <1>1. IInv => SavedTrialsSurvive
    <2> SUFFICES ASSUME IInv, file # NoFile, ~Glued, durable # << >>
                 PROVE  /\ \A i \in DOMAIN durable : Survives(durable[i])
                        /\ \E f \in Fingerprints : Valid(f)
      BY DEF SavedTrialsSurvive
    <2>1. WellFormed /\ DurableOnLines /\ durable \in Seq(Trials)
      BY DEF IInv, Present, TypeOK
    <2>2. /\ file \in Seq(Line) /\ Len(file) \in Nat /\ DOMAIN file = 1..Len(file)
          /\ DOMAIN durable = 1..Len(durable) /\ 1 \in 1..Len(durable)
          /\ \A i \in 1..Len(durable) : durable[i] \in Trials
      BY <2>1 DEF WellFormed
    <2>3. \A i \in 1..Len(file) : file[i].rec = Garbage => ~file[i].ended /\ i = Len(file)
      <3>1. \A i \in 1..Len(file) : file[i].rec = Garbage => ~file[i].ended /\ ~(i < Len(file))
        BY <2>2, Zenon DEF Glued
      <3>2. \A n \in Nat : \A i \in 1..n : ~(i < n) => i = n
        OBVIOUS
      <3> QED BY <2>2, <3>1, <3>2, Zenon
    <2>4. \A i \in 1..Len(durable) : \E j \in 1..Len(file) :
             file[j].ended /\ file[j].rec = durable[i] /\ IsTrial(file[j])
      <3>1. ~Damaged(file)
        <4>1. \A i \in 1..Len(file) : i = Len(file) => ~(i < Len(file))
          BY <2>2
        <4> QED BY <2>3, <4>1, Zenon DEF Damaged
      <3> QED BY <2>1, <2>2, <3>1, TypesOfLines DEF DurableOnLines, IsTrial
    <2>5. PICK k \in 1..Len(file) : IsTrial(file[k])
      BY <2>2, <2>4
    <2>6. 1 \in 1..Len(file) /\ ~IsTrial(file[1]) /\ file # << >> /\ 1 # Len(file)
      <3>1. 1 \in 1..Len(file) /\ file # << >>
        BY <2>2, <2>5
      <3>2. ~IsTrial(file[1])
        BY <2>1, <3>1 DEF WellFormed
      <3> QED BY <2>2, <2>5, <3>1, <3>2
    <2>7. PICK f \in Fingerprints : file[1].rec = Header(f)
      <3>1. file[1] \in Line /\ file[1].rec # Garbage
        <4>1. file[1] \in Line
          BY <2>2, <2>6
        <4> QED BY <2>3, <2>6, <4>1
      <3> QED BY <2>6, <3>1, TypesOfLines DEF IsTrial
    <2>8. Loadable /\ Parsed(file)[1] = file[1]
      <3> DEFINE p == Parsed(file)
      <3>1. /\ p \in Seq(Line) /\ Len(p) \in Nat
            /\ \A i \in 1..Len(p) : i \in 1..Len(file) /\ p[i] = file[i]
            /\ \A i \in 1..Len(file) : i \notin 1..Len(p) => i = Len(file) /\ file[i].rec = Garbage
            /\ \A i \in 1..Len(p) : p[i].rec = Garbage => ~p[i].ended /\ i = Len(file)
        BY <2>1, <2>3, ParsedIs
      <3>2. \A i \in 1..Len(p) : p[i].rec # Garbage
        <4> SUFFICES ASSUME NEW i \in 1..Len(p), p[i].rec = Garbage PROVE FALSE
          OBVIOUS
        <4>1. i = Len(file) /\ ~file[Len(file)].ended /\ file[Len(file)].rec = Garbage
          BY <3>1
        <4>2. p = Front(file)
          BY <2>6, <4>1 DEF Parsed, Last
        <4>3. Len(p) = Len(file) - 1
          BY <2>2, <2>6, <4>2, FrontIs
        <4> QED BY <2>2, <4>1, <4>3
      <3> HIDE DEF p
      <3>3. 1 \in 1..Len(p) /\ p[1] = file[1] /\ p # << >>
        <4>1. 1 \in 1..Len(p)
          BY <2>2, <2>6, <3>1
        <4> QED BY <3>1, <4>1
      <3>4. ASSUME NEW i \in 2..Len(p) PROVE p[i].rec.type = "trial"
        <4>1. i \in 1..Len(p) /\ i \in 2..Len(file) /\ p[i] = file[i] /\ file[i] \in Line
          <5>1. i \in 1..Len(p) /\ i >= 2
            BY <3>1
          <5>2. i \in 1..Len(file) /\ p[i] = file[i]
            BY <3>1, <5>1
          <5> QED BY <2>2, <5>1, <5>2
        <4>2. file[i].rec.type # "checkpoint" /\ p[i].rec # Garbage
          BY <2>1, <3>2, <4>1 DEF WellFormed
        <4> QED BY <4>1, <4>2, TypesOfLines
      <3>5. p[1].rec.type = "checkpoint"
        BY <2>7, <3>3, HeaderFacts
      <3> QED BY <3>3, <3>4, <3>5 DEF Loadable, p
    <2>9. Valid(f)
      <3>1. ASSUME NEW i \in DOMAIN LoadedTrials, NEW j \in DOMAIN LoadedTrials,
                   LoadedTrials[i].subset = LoadedTrials[j].subset
            PROVE  i = j
        <4>1. /\ i + 1 \in 1..Len(file) /\ IsTrial(file[i + 1]) /\ LoadedTrials[i] = file[i + 1].rec
              /\ j + 1 \in 1..Len(file) /\ IsTrial(file[j + 1]) /\ LoadedTrials[j] = file[j + 1].rec
          BY <2>1, <2>8, LoadedAre
        <4>2. i + 1 = j + 1
          BY <2>1, <3>1, <4>1 DEF WellFormed
        <4>3. i \in Int /\ j \in Int
          BY <2>1, ParsedIs
        <4> QED BY <4>2, <4>3
      <3> QED BY <2>7, <2>8, <3>1 DEF Valid
    <2>10. ASSUME NEW i \in DOMAIN durable PROVE Survives(durable[i])
      <3>1. PICK j \in 1..Len(file) : file[j].rec = durable[i] /\ IsTrial(file[j])
        BY <2>2, <2>4
      <3>2. j - 1 \in DOMAIN LoadedTrials /\ LoadedTrials[j - 1] = durable[i]
        BY <2>1, <2>8, <3>1, LoadedAre
      <3> QED BY <2>8, <3>2 DEF Survives, Range
    <2> QED BY <2>9, <2>10
  <1> QED BY <1>1, Invariance, PTL
=============================================================================
