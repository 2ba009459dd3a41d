---------------------------- MODULE CompareProofs ----------------------------
(***************************************************************************)
(* For any manifests and lockfiles: the package manager a run detects is   *)
(* the only one its files allow, no two changes have one identifier, what  *)
(* the code reads differently in the two lockfiles is bisected, named or   *)
(* counted, what yarn.lock resolves to does not depend on the order of its *)
(* entries, and the manifest of a trial has each change on the side its    *)
(* subset says, beside the references that a list of the target has.       *)
(***************************************************************************)
EXTENDS Compare, FiniteSetTheorems, FunctionTheorems, SequenceTheorems, WellFoundedInduction,
        TLAPS

---------------------------------------------------------------------------
(* Which manager the files allow. *)

(* What is known of the target's files before a manager has been chosen,   *)
(* and that the one chosen is theirs.                                      *)
Detected ==
    /\ override \in Overrides
    /\ manager \in Manager \cup {"none"}
    /\ override = "none" =>
          /\ stage \in {"revisions", "manifests"} => seen = {} /\ manager = "none"
          /\ stage = "javascript" => seen = {"package.json"} /\ manager = "none"
          /\ stage = "python" =>
                /\ "pyproject.toml" \in seen /\ manager = "none"
                /\ seen \subseteq {"pyproject.toml", "requirements.txt"}
    /\ ManagerIsUnambiguous

(* One manifest is found when the files are those of one ecosystem. *)
LEMMA FoundOne ==
    ASSUME NEW files \in SUBSET ManifestFiles, Cardinality(Found(files)) = 1
    PROVE  \E f \in ManifestFiles :
              /\ f \in files
              /\ files \subseteq {f} \cup (IF f = "pyproject.toml" THEN {"requirements.txt"} ELSE {})
              /\ Found(files) = {f}
  <1>1. IsFiniteSet(ManifestFiles)
    <2> DEFINE js == {"package.json"}
               cargo == js \cup {"Cargo.toml"}
               go == cargo \cup {"go.mod"}
               python == go \cup {"pyproject.toml"}
               php == python \cup {"composer.json"}
               all == php \cup {"requirements.txt"}
    <2>1. ManifestFiles = all
      BY DEF ManifestFiles
    <2> HIDE DEF cargo, go, python, php, all
    <2>2. IsFiniteSet(js)
      BY FS_Singleton
    <2>3. IsFiniteSet(cargo)
      BY <2>2, FS_AddElement DEF cargo
    <2>4. IsFiniteSet(go)
      BY <2>3, FS_AddElement DEF go
    <2>5. IsFiniteSet(python)
      BY <2>4, FS_AddElement DEF python
    <2>6. IsFiniteSet(php)
      BY <2>5, FS_AddElement DEF php
    <2>7. IsFiniteSet(all)
      BY <2>6, FS_AddElement DEF all
    <2> QED BY <2>1, <2>7
  <1>2. Found(files) \subseteq files
    BY DEF Found
  <1>3. IsFiniteSet(Found(files))
    BY <1>1, <1>2, FS_Subset
  <1>4. PICK f : Found(files) = {f}
    BY <1>3, FS_Singleton
  <1>5. f \in files /\ f \in ManifestFiles
    BY <1>2, <1>4
  <1>6. ASSUME NEW g \in files, g # f
        PROVE  g = "requirements.txt" /\ f = "pyproject.toml"
    <2>1. g \notin Found(files)
      BY <1>4, <1>6
    <2>2. g = "requirements.txt" /\ "pyproject.toml" \in files
      BY <2>1 DEF Found
    <2>3. "pyproject.toml" \in Found(files)
      BY <2>2 DEF Found
    <2> QED BY <1>4, <2>2, <2>3
  <1> QED BY <1>4, <1>5, <1>6

(* There are three lockfiles to be found. *)
LEMMA LocksAre ==
    ASSUME NEW locks \in SUBSET JSLocks
    PROVE  /\ Cardinality(locks) \in Nat
           /\ \A l \in locks : ~(Cardinality(locks) > 1) => locks = {l}
  <1>1. IsFiniteSet(locks)
    <2> DEFINE npm == {"package-lock.json"}
               pnpm == npm \cup {"pnpm-lock.yaml"}
               all == pnpm \cup {"yarn.lock"}
    <2>1. JSLocks = all
      BY DEF JSLocks
    <2> HIDE DEF pnpm, all
    <2>2. IsFiniteSet(npm)
      BY FS_Singleton
    <2>3. IsFiniteSet(pnpm)
      BY <2>2, FS_AddElement DEF pnpm
    <2>4. IsFiniteSet(all)
      BY <2>3, FS_AddElement DEF all
    <2> QED BY <2>1, <2>4, FS_Subset
  <1>2. Cardinality(locks) \in Nat
    BY <1>1, FS_CardinalityType
  <1>3. ASSUME NEW l \in locks, ~(Cardinality(locks) > 1)
        PROVE  locks = {l}
    <2>1. Cardinality(locks) # 0
      BY <1>1, FS_EmptySet
    <2>2. Cardinality(locks) = 1
      BY <1>2, <1>3, <2>1
    <2>3. PICK x : locks = {x}
      BY <1>1, <2>2, FS_Singleton
    <2> QED BY <2>3
  <1> QED BY <1>2, <1>3

LEMMA InitDetected == Init => Detected
  BY DEF Init, Detected, ManagerIsUnambiguous

LEMMA NextDetected == Detected /\ [Next]_vars => Detected'
  <1> SUFFICES ASSUME Detected, [Next]_vars PROVE Detected'
    OBVIOUS
  <1> USE DEF Detected, detected
  <1>1. CASE ResolveRevs
    <2>1. CASE override = "none"
      BY <1>1, <2>1 DEF ResolveRevs, ManagerIsUnambiguous
    <2>2. CASE override # "none"
      <3>1. override \in Manager
        BY <2>2, CompareAssumption
      <3> QED BY <1>1, <2>2, <3>1 DEF ResolveRevs, Choose, ManagerIsUnambiguous
    <2> QED BY <2>1, <2>2
  <1>2. CASE DetectManager
    <2>1. PICK files \in SUBSET ManifestFiles :
             /\ seen' = files
             /\ IF Cardinality(Found(files)) # 1 THEN stage' = "failed" /\ UNCHANGED manager
                ELSE CASE "Cargo.toml" \in files -> Choose("cargo")
                       [] "go.mod" \in files -> Choose("go")
                       [] "pyproject.toml" \in files -> stage' = "python" /\ UNCHANGED manager
                       [] Found(files) = {"requirements.txt"} -> Choose("pip")
                       [] "composer.json" \in files -> Choose("composer")
                       [] "package.json" \in files -> stage' = "javascript" /\ UNCHANGED manager
      BY <1>2 DEF DetectManager
    <2>2. stage = "manifests" /\ override' = override
      BY <1>2 DEF DetectManager
    <2>3. CASE Cardinality(Found(files)) # 1
      BY <2>1, <2>2, <2>3 DEF ManagerIsUnambiguous
    <2>4. CASE Cardinality(Found(files)) = 1
      <3>1. PICK f \in ManifestFiles :
               /\ f \in files
               /\ files \subseteq {f} \cup (IF f = "pyproject.toml" THEN {"requirements.txt"} ELSE {})
               /\ Found(files) = {f}
        BY <2>4, FoundOne
      <3>2. CASE f = "Cargo.toml"
        <4>1. Choose("cargo") /\ seen' = {"Cargo.toml"}
          BY <2>1, <2>4, <3>1, <3>2
        <4> QED BY <2>2, <4>1
            DEF Choose, ManagerIsUnambiguous, Manager, JavaScript, ManifestName, ManifestFiles
      <3>3. CASE f = "go.mod"
        <4>1. Choose("go") /\ seen' = {"go.mod"}
          BY <2>1, <2>4, <3>1, <3>3
        <4> QED BY <2>2, <4>1
            DEF Choose, ManagerIsUnambiguous, Manager, JavaScript, ManifestName, ManifestFiles
      <3>4. CASE f = "composer.json"
        <4>1. Choose("composer") /\ seen' = {"composer.json"}
          BY <2>1, <2>4, <3>1, <3>4
        <4> QED BY <2>2, <4>1
            DEF Choose, ManagerIsUnambiguous, Manager, JavaScript, ManifestName, ManifestFiles
      <3>5. CASE f = "requirements.txt"
        <4>1. Choose("pip") /\ seen' = {"requirements.txt"}
          BY <2>1, <2>4, <3>1, <3>5
        <4> QED BY <2>2, <4>1
            DEF Choose, ManagerIsUnambiguous, Manager, JavaScript, ManifestName, ManifestFiles
      <3>6. CASE f = "package.json"
        <4>1. stage' = "javascript" /\ UNCHANGED manager /\ seen' = {"package.json"}
          BY <2>1, <2>4, <3>1, <3>6
        <4> QED BY <2>2, <4>1 DEF ManagerIsUnambiguous
      <3>7. CASE f = "pyproject.toml"
        <4>1. /\ stage' = "python" /\ UNCHANGED manager
              /\ "pyproject.toml" \in seen' /\ seen' \subseteq {"pyproject.toml", "requirements.txt"}
          BY <2>1, <2>4, <3>1, <3>7
        <4> QED BY <2>2, <4>1 DEF ManagerIsUnambiguous
      <3> QED BY <3>1, <3>2, <3>3, <3>4, <3>5, <3>6, <3>7 DEF ManifestFiles
    <2> QED BY <2>3, <2>4
  <1>3. CASE DetectPython
    <2>1. CASE override = "none"
      BY <1>3, <2>1 DEF DetectPython, Choose, ManagerIsUnambiguous, Manager, JavaScript,
            ManifestName, ManifestFiles
    <2>2. CASE override # "none"
      BY <1>3, <2>2 DEF DetectPython, Choose, ManagerIsUnambiguous, Manager
    <2> QED BY <2>1, <2>2
  <1>4. CASE DetectJavaScript
    <2>1. PICK locks \in SUBSET JSLocks : Detect(locks) /\ seen' = seen \cup locks
      BY <1>4 DEF DetectJavaScript
    <2>2. stage = "javascript" /\ override' = override
      BY <1>4 DEF DetectJavaScript
    <2>3. CASE stage' = "failed" /\ UNCHANGED manager
      BY <2>2, <2>3 DEF ManagerIsUnambiguous
    <2>4. ASSUME NEW m \in JavaScript, Choose(m), LockfileName(m) \in locks,
                 ~(Cardinality(locks) > 1)
          PROVE  Detected'
      <3>1. locks = {LockfileName(m)}
        BY <2>4, LocksAre
      <3>2. CASE override = "none"
        <4>1. seen' = {"package.json", LockfileName(m)} /\ stage' = "workspace" /\ manager' = m
          BY <2>1, <2>2, <2>4, <3>1, <3>2 DEF Choose
        <4>2. LockfileName(m) \in JSLocks
          BY <2>1, <2>4
        <4>3. /\ LockfileName(m) \notin ManifestFiles \cup {"uv.lock"}
              /\ ManifestName(m) = "package.json" /\ m \in Manager /\ m \notin {"none", "uv", "pip"}
          BY <2>4, <4>2 DEF Manager, JavaScript, ManifestName, ManifestFiles, JSLocks
        <4>4. seen' \cap ManifestFiles = {"package.json"} /\ seen' \cap JSLocks = {LockfileName(m)}
          BY <4>1, <4>2, <4>3 DEF ManifestFiles, JSLocks
        <4>5. "uv.lock" \notin seen'
          BY <4>1, <4>3
        <4> QED BY <2>2, <2>4, <4>1, <4>3, <4>4, <4>5 DEF ManagerIsUnambiguous
      <3>3. CASE override # "none"
        BY <2>2, <2>4, <3>3 DEF Choose, ManagerIsUnambiguous, Manager
      <3> QED BY <3>2, <3>3
    <2>5. \/ stage' = "failed" /\ UNCHANGED manager
          \/ \E m \in JavaScript : /\ Choose(m) /\ LockfileName(m) \in locks
                                  /\ ~(Cardinality(locks) > 1)
      <3>1. /\ LockfileName("npm") = "package-lock.json" /\ LockfileName("pnpm") = "pnpm-lock.yaml"
            /\ LockfileName("yarn") = "yarn.lock"
        BY DEF LockfileName
      <3>2. {"npm", "pnpm", "yarn"} = JavaScript
        BY DEF JavaScript
      <3> QED BY <2>1, <3>1, <3>2 DEF Detect
    <2> QED BY <2>3, <2>4, <2>5
  <1>5. CASE Fail
    BY <1>5 DEF Fail, ManagerIsUnambiguous
  <1>6. CASE CheckWorkspace \/ ReadManifests \/ CompareRevisions \/ Decide
             \/ RenderCandidate \/ BisectionEnds
    <2>1. UNCHANGED detected /\ stage' \notin {"revisions", "manifests", "javascript", "python"}
      BY <1>6 DEF CheckWorkspace, ReadManifests, CompareRevisions, Decide, RenderCandidate,
            BisectionEnds
    <2> QED BY <2>1 DEF ManagerIsUnambiguous
  <1>7. CASE UNCHANGED vars
    BY <1>7 DEF vars, ManagerIsUnambiguous
  <1> QED BY <1>1, <1>2, <1>3, <1>4, <1>5, <1>6, <1>7 DEF Next, Ended

---------------------------------------------------------------------------
(* The changes can be sorted, and sorting neither loses nor doubles one.   *)

(* Numbers that are ordered in another way can be listed in that order.    *)
LEMMA Listing ==
    ASSUME NEW n \in Nat, NEW Lt,
           \A i \in 1..n : <<i, i>> \notin Lt,
           \A i, j \in 1..n : i # j => <<i, j>> \in Lt \/ <<j, i>> \in Lt,
           \A i, j, k \in 1..n : <<i, j>> \in Lt /\ <<j, k>> \in Lt => <<i, k>> \in Lt
    PROVE  \E p \in [1..n -> 1..n] :
              /\ \A i, j \in 1..n : i < j => <<p[i], p[j]>> \in Lt
              /\ \A k \in 1..n : \E i \in 1..n : p[i] = k
  <1> DEFINE Below(i) == {j \in 1..n : <<j, i>> \in Lt}
             rank == [i \in 1..n |-> Cardinality(Below(i)) + 1]
  <1>1. IsFiniteSet(1..n) /\ Cardinality(1..n) = n
    BY FS_Interval
  <1>2. ASSUME NEW i \in 1..n
        PROVE  IsFiniteSet(Below(i)) /\ Cardinality(Below(i)) \in 0..n - 1
    <2>1. Below(i) \subseteq 1..n /\ i \notin Below(i)
      OBVIOUS
    <2> HIDE DEF Below
    <2>2. /\ IsFiniteSet(Below(i)) /\ Cardinality(Below(i)) <= n
          /\ n = Cardinality(Below(i)) => 1..n = Below(i)
      BY <1>1, <2>1, FS_Subset
    <2>3. Cardinality(Below(i)) \in Nat
      BY <2>2, FS_CardinalityType
    <2> QED BY <2>1, <2>2, <2>3
  <1>3. ASSUME NEW i \in 1..n, NEW j \in 1..n, <<i, j>> \in Lt
        PROVE  rank[i] < rank[j]
    <2>1. Below(i) \subseteq Below(j) /\ i \in Below(j) /\ i \notin Below(i)
      BY <1>3
    <2> HIDE DEF Below
    <2>2. /\ Cardinality(Below(i)) <= Cardinality(Below(j))
          /\ Cardinality(Below(j)) = Cardinality(Below(i)) => Below(j) = Below(i)
      BY <1>2, <2>1, FS_Subset
    <2> QED BY <1>2, <2>1, <2>2
  <1>4. rank \in [1..n -> 1..n]
    <2> HIDE DEF Below
    <2>1. \A i \in 1..n : Cardinality(Below(i)) + 1 \in 1..n
      BY <1>2
    <2> QED BY <2>1
  <1> HIDE DEF rank
  <1>5. ASSUME NEW i \in 1..n, NEW j \in 1..n, rank[i] = rank[j]
        PROVE  i = j
    <2>1. ~(rank[i] < rank[j]) /\ ~(rank[j] < rank[i])
      BY <1>4, <1>5
    <2> QED BY <1>3, <2>1
  <1>6. ASSUME NEW k \in 1..n
        PROVE  \E i \in 1..n : rank[i] = k
    <2>1. rank \in Injection(1..n, 1..n)
      BY <1>4, <1>5 DEF Injection, IsInjective
    <2>2. rank \in Surjection(1..n, 1..n)
      BY <1>1, <2>1, FS_Injection
    <2> QED BY <2>2 DEF Surjection
  <1> DEFINE p == [k \in 1..n |-> CHOOSE i \in 1..n : rank[i] = k]
  <1>7. ASSUME NEW k \in 1..n
        PROVE  p[k] \in 1..n /\ rank[p[k]] = k
    BY <1>6
  <1>8. p \in [1..n -> 1..n]
    BY <1>7
  <1> HIDE DEF p
  <1>9. ASSUME NEW i \in 1..n, NEW j \in 1..n, i < j
        PROVE  <<p[i], p[j]>> \in Lt
    <2>1. p[i] # p[j]
      BY <1>7, <1>9
    <2>2. <<p[j], p[i]>> \notin Lt
      BY <1>3, <1>7, <1>9
    <2> QED BY <1>7, <2>1, <2>2
  <1>10. ASSUME NEW k \in 1..n
         PROVE  \E i \in 1..n : p[i] = k
    BY <1>4, <1>5, <1>7
  <1> QED BY <1>8, <1>9, <1>10

(* A finite set of changes without two of one identifier is listed in the  *)
(* order of names and sections, each change once.                          *)
LEMMA SortChangesIs ==
    ASSUME NEW S, IsFiniteSet(S),
           \A c \in S : c.sec \in Nat /\ c.name \in Nat,
           \A c, e \in S : Id(c) = Id(e) => c = e
    PROVE  LET seq == SortChanges(S) IN
           /\ Cardinality(S) \in Nat /\ seq \in [1..Cardinality(S) -> S]
           /\ \A i, j \in 1..Cardinality(S) : i # j => seq[i] # seq[j]
           /\ \A c \in S : \E i \in 1..Cardinality(S) : seq[i] = c
  <1> DEFINE n == Cardinality(S)
  <1>1. n \in Nat /\ ExistsBijection(1..n, S)
    BY FS_CardinalityType
  <1>2. PICK f \in Bijection(1..n, S) : TRUE
    BY <1>1 DEF ExistsBijection
  <1> HIDE DEF n
  <1>3. /\ f \in [1..n -> S] /\ \A c \in S : \E i \in 1..n : f[i] = c
        /\ \A i, j \in 1..n : f[i] = f[j] => i = j
    BY <1>2 DEF Bijection, Injection, Surjection, IsInjective
  <1> DEFINE Lt == {ij \in (1..n) \X (1..n) : Before(f[ij[1]], f[ij[2]])}
  <1>4. \A i, j \in 1..n : <<i, j>> \in Lt <=> Before(f[i], f[j])
    OBVIOUS
  <1> HIDE DEF Lt
  <1>5. \A i \in 1..n : /\ f[i] \in S /\ f[i].sec \in Nat /\ f[i].name \in Nat
    BY <1>3
  <1>6. \A i \in 1..n : <<i, i>> \notin Lt
    BY <1>4, <1>5 DEF Before
  <1>7. ASSUME NEW i \in 1..n, NEW j \in 1..n, i # j
        PROVE  <<i, j>> \in Lt \/ <<j, i>> \in Lt
    <2>1. Id(f[i]) # Id(f[j])
      BY <1>3, <1>5, <1>7
    <2>2. f[i].sec # f[j].sec \/ f[i].name # f[j].name
      BY <2>1 DEF Id
    <2> QED BY <1>4, <1>5, <2>2 DEF Before
  <1>8. ASSUME NEW i \in 1..n, NEW j \in 1..n, NEW k \in 1..n, <<i, j>> \in Lt, <<j, k>> \in Lt
        PROVE  <<i, k>> \in Lt
    BY <1>4, <1>5, <1>8 DEF Before
  <1>9. PICK p \in [1..n -> 1..n] :
              /\ \A i, j \in 1..n : i < j => <<p[i], p[j]>> \in Lt
              /\ \A k \in 1..n : \E i \in 1..n : p[i] = k
    BY <1>1, <1>6, <1>7, <1>8, Listing
  <1> DEFINE s == [i \in 1..n |-> f[p[i]]]
  <1>10. s \in [1..n -> S] /\ DOMAIN s = 1..n
    BY <1>3, <1>9
  <1>11. ASSUME NEW i \in 1..n, NEW j \in 1..n, i < j
         PROVE  Before(s[i], s[j])
    BY <1>4, <1>9, <1>11
  <1>12. \A i, j \in 1..n : i # j => s[i] # s[j]
    <2> SUFFICES ASSUME NEW i \in 1..n, NEW j \in 1..n, i < j PROVE s[i] # s[j]
      BY <1>1
    <2>1. <<p[i], p[j]>> \in Lt /\ p[i] \in 1..n /\ p[j] \in 1..n
      BY <1>9
    <2>2. p[i] # p[j]
      BY <1>6, <2>1
    <2> QED BY <1>3, <2>1, <2>2
  <1> HIDE DEF s
  <1>13. s \in SetToSeqs(S)
    BY <1>10, <1>12 DEF SetToSeqs, n
  <1>14. \E seq \in SetToSeqs(S) : \A i, j \in DOMAIN seq : i < j => Before(seq[i], seq[j])
    BY <1>10, <1>11, <1>13
  <1> DEFINE t == SortChanges(S)
  <1>15. t \in SetToSeqs(S)
    BY <1>14 DEF SortChanges
  <1> HIDE DEF t
  <1>16. t \in [1..n -> S] /\ \A i, j \in 1..n : i # j => t[i] # t[j]
    BY <1>15 DEF SetToSeqs, n
  <1>17. \A c \in S : \E i \in 1..n : t[i] = c
    <2>1. IsFiniteSet(1..n) /\ Cardinality(1..n) = n
      BY <1>1, FS_Interval
    <2>2. t \in Injection(1..n, S)
      BY <1>16 DEF Injection, IsInjective
    <2>3. t \in Surjection(1..n, S)
      BY <2>1, <2>2, FS_Injection DEF n
    <2> QED BY <2>3 DEF Surjection
  <1> QED BY <1>1, <1>16, <1>17 DEF n, t

---------------------------------------------------------------------------
(* Folds over sequences, entry by entry. *)

LEMMA LeastNumber ==
    ASSUME NEW T, T \subseteq Nat, T # {}
    PROVE  \E m \in T : \A k \in T : m <= k
  <1> DEFINE R == {ss \in Nat \X Nat : ss[1] < ss[2]}
  <1>1. IsWellFoundedOn(R, Nat)
    BY NatLessThanWellFounded DEF OpToRel
  <1>2. PICK m \in T : \A k \in T : ~(<<k, m>> \in R)
    <2> HIDE DEF R
    <2> QED BY <1>1, WFMin
  <1>3. ASSUME NEW k \in T PROVE m <= k
    <2>1. <<k, m>> \in Nat \X Nat /\ (k < m => <<k, m>> \in R)
      OBVIOUS
    <2> QED BY <1>2, <2>1
  <1> QED BY <1>3

(* What a set of numbers inherits from each number to the next. *)
LEMMA UpTo ==
    ASSUME NEW n \in Nat, NEW P, 0 \in P, \A k \in 0..n - 1 : k \in P => k + 1 \in P
    PROVE  \A k \in 0..n : k \in P
  <1> DEFINE T == {k \in 0..n : k \notin P}
  <1>1. SUFFICES ASSUME T # {} PROVE FALSE
    OBVIOUS
  <1>2. PICK m \in T : \A k \in T : m <= k
    <2>1. T \subseteq Nat
      OBVIOUS
    <2> HIDE DEF T
    <2> QED BY <1>1, <2>1, LeastNumber
  <1>3. m \in 0..n /\ m \notin P /\ m # 0
    BY <1>2
  <1>4. m - 1 \in 0..n - 1 /\ m - 1 \in P
    BY <1>2, <1>3
  <1> QED BY <1>3, <1>4

LEMMA MaxIs ==
    ASSUME NEW n \in Nat, NEW s \in SUBSET (1..n), s # {}
    PROVE  Max(s) \in s /\ \A y \in s : Max(s) >= y
  <1> DEFINE T == {m \in Nat : \A y \in s : m >= y}
  <1>1. n \in T
    OBVIOUS
  <1>2. PICK m \in T : \A k \in T : m <= k
    <2> HIDE DEF T
    <2> QED BY <1>1, LeastNumber DEF T
  <1>3. m \in s
    <2>1. SUFFICES ASSUME m \notin s PROVE FALSE
      OBVIOUS
    <2>2. \A y \in s : m > y /\ y \in Nat
      BY <1>2, <2>1
    <2>3. m # 0
      <3>1. PICK y \in s : TRUE
        OBVIOUS
      <3> QED BY <1>2, <2>2, <3>1
    <2>4. m - 1 \in T
      BY <1>2, <2>2, <2>3
    <2> QED BY <1>2, <2>4
  <1>4. \E x \in s : \A y \in s : x >= y
    BY <1>2, <1>3
  <1> QED BY <1>4 DEF Max

(* A fold is defined on all subsets of the sequence's domain. *)
Folded(n, A, first, F, g) ==
    /\ g \in [SUBSET (1..n) -> A]
    /\ \A s \in SUBSET (1..n) :
          g[s] = IF s = {} THEN first ELSE F[<<Max(s), g[s \ {Max(s)}]>>]

LEMMA FoldExists ==
    ASSUME NEW n \in Nat, NEW A, NEW first \in A, NEW F \in [(1..n) \X A -> A]
    PROVE  \E g : Folded(n, A, first, F, g)
  <1> DEFINE Folds(g, k) ==
                /\ g \in [SUBSET (1..k) -> A]
                /\ g[{}] = first
                /\ \A s \in SUBSET (1..k) : s # {} => g[s] = F[<<Max(s), g[s \ {Max(s)}]>>]
             P == {k \in 0..n : \E g : Folds(g, k)}
  <1>1. 0 \in P
    <2> DEFINE g == [s \in SUBSET (1..0) |-> first]
    <2>1. \A s \in SUBSET (1..0) : s = {}
      OBVIOUS
    <2>2. Folds(g, 0)
      BY <2>1
    <2> HIDE DEF Folds
    <2> QED BY <2>2
  <1>2. ASSUME NEW k \in 0..n - 1, k \in P
        PROVE  k + 1 \in P
    <2>1. PICK g : Folds(g, k)
      BY <1>2
    <2> DEFINE h == [s \in SUBSET (1..k + 1) |->
                        IF k + 1 \in s THEN F[<<k + 1, g[s \ {k + 1}]>>] ELSE g[s]]
    <2>2. ASSUME NEW s \in SUBSET (1..k + 1), k + 1 \in s
          PROVE  /\ Max(s) = k + 1 /\ s \ {k + 1} \in SUBSET (1..k)
                 /\ h[s] = F[<<k + 1, g[s \ {k + 1}]>>]
                 /\ h[s \ {k + 1}] = g[s \ {k + 1}]
                 /\ h[s] \in A
      <3>1. Max(s) \in s /\ \A y \in s : Max(s) >= y
        <4>1. k + 1 \in Nat /\ s # {}
          BY <2>2
        <4> QED BY <4>1, MaxIs
      <3>2. Max(s) = k + 1
        <4>1. \A m \in 1..k + 1 : m >= k + 1 => m = k + 1
          OBVIOUS
        <4> QED BY <2>2, <3>1, <4>1
      <3>3. s \ {k + 1} \in SUBSET (1..k) /\ s \ {k + 1} \in SUBSET (1..k + 1) /\ k + 1 \in 1..n
        OBVIOUS
      <3>4. g[s \ {k + 1}] \in A
        BY <2>1, <3>3
      <3> QED BY <2>2, <3>2, <3>3, <3>4
    <2>3. ASSUME NEW s \in SUBSET (1..k + 1), k + 1 \notin s
          PROVE  s \in SUBSET (1..k) /\ h[s] = g[s] /\ h[s] \in A
      <3>1. s \in SUBSET (1..k)
        BY <2>3
      <3> QED BY <2>1, <2>3, <3>1
    <2>4. h \in [SUBSET (1..k + 1) -> A]
      BY <2>2, <2>3
    <2> HIDE DEF h
    <2>5. h[{}] = first
      BY <2>1, <2>3
    <2>6. ASSUME NEW s \in SUBSET (1..k + 1), s # {}
          PROVE  h[s] = F[<<Max(s), h[s \ {Max(s)}]>>]
      <3>1. CASE k + 1 \in s
        BY <2>2, <3>1
      <3>2. CASE k + 1 \notin s
        <4>1. s \in SUBSET (1..k) /\ h[s] = g[s]
          BY <2>3, <3>2
        <4>2. Max(s) \in s
          <5>1. k + 1 \in Nat
            OBVIOUS
          <5> QED BY <2>6, <5>1, MaxIs
        <4>3. h[s \ {Max(s)}] = g[s \ {Max(s)}]
          BY <2>3, <3>2
        <4>4. g[s] = F[<<Max(s), g[s \ {Max(s)}]>>]
          BY <2>1, <2>6, <4>1
        <4> QED BY <4>1, <4>3, <4>4
      <3> QED BY <3>1, <3>2
    <2>7. Folds(h, k + 1)
      BY <2>4, <2>5, <2>6
    <2> HIDE DEF Folds
    <2> QED BY <2>7
  <1>3. n \in P
    <2> HIDE DEF P
    <2> QED BY <1>1, <1>2, UpTo
  <1>4. PICK g : Folds(g, n)
    BY <1>3
  <1> QED BY <1>4 DEF Folded

(* It goes through the prefixes of the sequence. *)
LEMMA PrefixMax ==
    ASSUME NEW k \in Nat
    PROVE  /\ Max(1..k + 1) = k + 1 /\ (1..k + 1) \ {k + 1} = 1..k
           /\ 1..k + 1 # {} /\ 1..0 = {}
  <1>1. k + 1 \in Nat /\ 1..k + 1 # {} /\ k + 1 \in 1..k + 1
    OBVIOUS
  <1>2. Max(1..k + 1) \in 1..k + 1 /\ \A y \in 1..k + 1 : Max(1..k + 1) >= y
    BY <1>1, MaxIs
  <1>3. \A m \in 1..k + 1 : m >= k + 1 => m = k + 1
    OBVIOUS
  <1>4. Max(1..k + 1) = k + 1
    BY <1>1, <1>2, <1>3
  <1> QED BY <1>1, <1>4

Unfolds(n, A, first, F, it) ==
    /\ it[{}] = first
    /\ \A s \in SUBSET (1..n) :
          s # {} /\ it[s \ {Max(s)}] \in A => it[s] = F[<<Max(s), it[s \ {Max(s)}]>>]

LEMMA FoldPrefixes ==
    ASSUME NEW n \in Nat, NEW A, NEW first \in A, NEW F \in [(1..n) \X A -> A],
           NEW it, Unfolds(n, A, first, F, it)
    PROVE  /\ it[1..0] = first
           /\ \A k \in 0..n : it[1..k] \in A
           /\ \A k \in 0..n - 1 : it[1..k + 1] = F[<<k + 1, it[1..k]>>]
  <1> DEFINE P == {k \in 0..n : it[1..k] \in A}
  <1>1. 1..0 = {} /\ 0 \in P
    <2>1. 1..0 = {}
      OBVIOUS
    <2> QED BY <2>1 DEF Unfolds
  <1>2. ASSUME NEW k \in 0..n - 1, it[1..k] \in A
        PROVE  it[1..k + 1] = F[<<k + 1, it[1..k]>>] /\ it[1..k + 1] \in A
    <2>1. /\ Max(1..k + 1) = k + 1 /\ (1..k + 1) \ {k + 1} = 1..k /\ 1..k + 1 # {}
      <3>1. k \in Nat
        OBVIOUS
      <3> QED BY <3>1, PrefixMax
    <2>2. 1..k + 1 \in SUBSET (1..n) /\ k + 1 \in 1..n
      OBVIOUS
    <2>3. it[1..k + 1] = F[<<k + 1, it[1..k]>>]
      BY <1>2, <2>1, <2>2 DEF Unfolds
    <2> QED BY <1>2, <2>2, <2>3
  <1>3. \A k \in 0..n : k \in P
    <2>1. \A k \in 0..n - 1 : k \in P => k + 1 \in P
      <3> SUFFICES ASSUME NEW k \in 0..n - 1, k \in P PROVE k + 1 \in P
        OBVIOUS
      <3>1. k + 1 \in 0..n /\ it[1..k] \in A
        OBVIOUS
      <3> QED BY <1>2, <3>1
    <2> HIDE DEF P
    <2> QED BY <1>1, <2>1, UpTo
  <1> QED BY <1>1, <1>2, <1>3 DEF Unfolds

(* It leads from the first value to the last, step by step. *)
Stepwise(n, first, last, F) ==
    /\ last \in Resolved
    /\ \E a \in [0..n -> Resolved] :
          /\ a[0] = first /\ a[n] = last
          /\ \A k \in 0..n - 1 : a[k + 1] = F[<<k + 1, a[k]>>]

LEMMA UnfoldsStepwise ==
    ASSUME NEW n \in Nat, NEW first \in Resolved, NEW F \in [(1..n) \X Resolved -> Resolved],
           NEW it, Unfolds(n, Resolved, first, F, it)
    PROVE  Stepwise(n, first, it[1..n], F)
  <1> DEFINE A == Resolved
             a == [k \in 0..n |-> it[1..k]]
  <1>1. /\ it[1..0] = first
        /\ \A k \in 0..n : it[1..k] \in A
        /\ \A k \in 0..n - 1 : it[1..k + 1] = F[<<k + 1, it[1..k]>>]
    <2> HIDE DEF A, a
    <2>1. first \in A /\ F \in [(1..n) \X A -> A] /\ Unfolds(n, A, first, F, it)
      BY DEF A
    <2>2. it[1..0] = first
      <3>1. 1..0 = {}
        OBVIOUS
      <3> QED BY <2>1, <3>1 DEF Unfolds
    <2>3. \A k \in 0..n : it[1..k] \in A
      BY <2>1, FoldPrefixes
    <2>4. ASSUME NEW k \in 0..n - 1
          PROVE  it[1..k + 1] = F[<<k + 1, it[1..k]>>]
      <3>1. /\ Max(1..k + 1) = k + 1 /\ (1..k + 1) \ {k + 1} = 1..k /\ 1..k + 1 # {}
        <4>1. k \in Nat
          OBVIOUS
        <4> QED BY <4>1, PrefixMax
      <3>2. 1..k + 1 \in SUBSET (1..n) /\ it[1..k] \in A
        <4>1. k \in 0..n
          OBVIOUS
        <4> QED BY <2>3, <4>1
      <3> QED BY <2>1, <3>1, <3>2 DEF Unfolds
    <2> QED BY <2>2, <2>3, <2>4
  <1>2. a \in [0..n -> Resolved] /\ a[0] = first /\ a[n] = it[1..n]
    <2>1. 0 \in 0..n /\ n \in 0..n
      OBVIOUS
    <2> QED BY <1>1, <2>1
  <1>3. \A k \in 0..n - 1 : a[k + 1] = F[<<k + 1, a[k]>>]
    <2>1. \A k \in 0..n - 1 : k \in 0..n /\ k + 1 \in 0..n
      OBVIOUS
    <2> QED BY <1>1, <2>1
  <1>4. it[1..n] \in Resolved
    BY <1>2
  <1> HIDE DEF a
  <1> QED BY <1>2, <1>3, <1>4 DEF Stepwise

(* What steps that set a name to v, or leave it alone, make of it. *)
Hits(n, F, m, v, hit) ==
    /\ hit \in SUBSET (1..n)
    /\ \A i \in hit, o \in Resolved : o[m] \in {Unknown, v} => F[<<i, o>>][m] = v
    /\ \A i \in (1..n) \ hit, o \in Resolved : F[<<i, o>>][m] = o[m]

Reaches(first, last, m, v, hit) ==
    last[m] \in {Unknown, v} /\ (hit # {} \/ first[m] = v => last[m] = v)

LEMMA StepsReach ==
    ASSUME NEW n \in Nat, NEW first \in Resolved, NEW last, NEW F, Stepwise(n, first, last, F),
           NEW m, NEW v, first[m] \in {Unknown, v}, NEW hit, Hits(n, F, m, v, hit)
    PROVE  Reaches(first, last, m, v, hit)
  <1>1. PICK a \in [0..n -> Resolved] :
           /\ a[0] = first /\ a[n] = last
           /\ \A k \in 0..n - 1 : a[k + 1] = F[<<k + 1, a[k]>>]
    BY DEF Stepwise
  <1> DEFINE P == {k \in 0..n : /\ a[k][m] \in {Unknown, v}
                                /\ (hit \cap (1..k) # {} \/ first[m] = v) => a[k][m] = v}
  <1>2. 0 \in P
    BY <1>1
  <1>3. ASSUME NEW k \in 0..n - 1, k \in P
        PROVE  k + 1 \in P
    <2>1. /\ k + 1 \in 1..n /\ k + 1 \in 0..n /\ k \in 0..n /\ a[k] \in Resolved
          /\ a[k + 1] = F[<<k + 1, a[k]>>]
          /\ 1..k + 1 = (1..k) \cup {k + 1}
      <3>1. k + 1 \in 1..n /\ k + 1 \in 0..n /\ k \in 0..n /\ 1..k + 1 = (1..k) \cup {k + 1}
        OBVIOUS
      <3>2. a[k] \in Resolved /\ a[k + 1] = F[<<k + 1, a[k]>>]
        BY <1>1, <3>1
      <3> QED BY <3>1, <3>2
    <2>2. CASE k + 1 \in hit
      <3>1. a[k + 1][m] = v
        <4>1. a[k][m] \in {Unknown, v}
          BY <1>3
        <4>2. \A i \in hit, o \in Resolved : o[m] \in {Unknown, v} => F[<<i, o>>][m] = v
          BY Zenon DEF Hits
        <4>3. F[<<k + 1, a[k]>>][m] = v
          BY <2>1, <2>2, <4>1, <4>2
        <4> QED BY <2>1, <4>3
      <3> QED BY <2>1, <3>1
    <2>3. CASE k + 1 \notin hit
      <3>1. a[k + 1][m] = a[k][m] /\ hit \cap (1..k + 1) = hit \cap (1..k)
        <4>1. \A i \in (1..n) \ hit, o \in Resolved : F[<<i, o>>][m] = o[m]
          BY Zenon DEF Hits
        <4> QED BY <2>1, <2>3, <4>1
      <3> QED BY <1>3, <2>1, <3>1
    <2> QED BY <2>2, <2>3
  <1>4. n \in P
    <2> HIDE DEF P
    <2>1. \A k \in 0..n : k \in P
      BY <1>2, <1>3, UpTo
    <2> QED BY <2>1
  <1>5. hit \cap (1..n) = hit
    BY DEF Hits
  <1> QED BY <1>1, <1>4, <1>5 DEF Reaches

(* A step of a parser keeps the versions it has found so far in shape. *)
LEMMA StepsResolve ==
    ASSUME NEW out \in Resolved, NEW e \in LockEntry
    PROVE  Set(out, e) \in Resolved /\ SetIfMain(out, e) \in Resolved /\ SetIfAbsent(out, e) \in Resolved
  BY DEF Set, SetIfMain, SetIfAbsent, Resolved, LockEntry

LEMMA SetFold ==
    ASSUME NEW seq \in Seq(LockEntry), NEW first \in Resolved
    PROVE  Stepwise(Len(seq), first, FoldLeft(Set, first, seq),
                    [p \in (1..Len(seq)) \X Resolved |-> Set(p[2], seq[p[1]])])
  <1> DEFINE n == Len(seq)
             F == [p \in (1..n) \X Resolved |-> Set(p[2], seq[p[1]])]
             Iter(g) == g = [s \in SUBSET DOMAIN seq |->
                                IF s = {} THEN first ELSE Set(g[s \ {Max(s)}], seq[Max(s)])]
             it == CHOOSE it : Iter(it)
  <1>1. n \in Nat /\ DOMAIN seq = 1..n /\ \A i \in 1..n : seq[i] \in LockEntry
    OBVIOUS
  <1>2. F \in [(1..n) \X Resolved -> Resolved]
    BY <1>1, StepsResolve
  <1>3. \A i \in 1..n, a \in Resolved : F[<<i, a>>] = Set(a, seq[i])
    OBVIOUS
  <1>4. FoldLeft(Set, first, seq) = it[1..n]
    BY <1>1 DEF FoldLeft, MapThenFoldSet
  <1> HIDE DEF F, n
  <1>5. PICK g : Folded(n, Resolved, first, F, g)
    BY <1>1, <1>2, FoldExists
  <1>6. Iter(g)
    <2>1. g \in [SUBSET (1..n) -> Resolved]
      BY <1>5 DEF Folded
    <2>2. ASSUME NEW s \in SUBSET (1..n)
          PROVE  g[s] = IF s = {} THEN first ELSE Set(g[s \ {Max(s)}], seq[Max(s)])
      <3>1. CASE s # {}
        <4>1. Max(s) \in 1..n /\ g[s \ {Max(s)}] \in Resolved
          BY <1>1, <2>1, <3>1, MaxIs
        <4>2. g[s] = F[<<Max(s), g[s \ {Max(s)}]>>]
          BY <1>5, <3>1 DEF Folded
        <4> QED BY <1>3, <3>1, <4>1, <4>2
      <3> QED BY <1>5, <3>1 DEF Folded
    <2> QED BY <1>1, <2>1, <2>2
  <1>7. Iter(it)
    BY <1>6
  <1> HIDE DEF it
  <1>8. Unfolds(n, Resolved, first, F, it)
    <2>1. \A s \in SUBSET (1..n) :
             it[s] = IF s = {} THEN first ELSE Set(it[s \ {Max(s)}], seq[Max(s)])
      BY <1>1, <1>7
    <2>2. \A s \in SUBSET (1..n) : s # {} => Max(s) \in 1..n
      BY <1>1, MaxIs
    <2> QED BY <1>3, <2>1, <2>2 DEF Unfolds
  <1>9. Stepwise(n, first, it[1..n], F)
    BY <1>1, <1>2, <1>8, UnfoldsStepwise
  <1> QED BY <1>4, <1>9 DEF F, n

LEMMA SetIfMainFold ==
    ASSUME NEW seq \in Seq(LockEntry), NEW first \in Resolved
    PROVE  Stepwise(Len(seq), first, FoldLeft(SetIfMain, first, seq),
                    [p \in (1..Len(seq)) \X Resolved |-> SetIfMain(p[2], seq[p[1]])])
  <1> DEFINE n == Len(seq)
             F == [p \in (1..n) \X Resolved |-> SetIfMain(p[2], seq[p[1]])]
             Iter(g) == g = [s \in SUBSET DOMAIN seq |->
                                IF s = {} THEN first ELSE SetIfMain(g[s \ {Max(s)}], seq[Max(s)])]
             it == CHOOSE it : Iter(it)
  <1>1. n \in Nat /\ DOMAIN seq = 1..n /\ \A i \in 1..n : seq[i] \in LockEntry
    OBVIOUS
  <1>2. F \in [(1..n) \X Resolved -> Resolved]
    BY <1>1, StepsResolve
  <1>3. \A i \in 1..n, a \in Resolved : F[<<i, a>>] = SetIfMain(a, seq[i])
    OBVIOUS
  <1>4. FoldLeft(SetIfMain, first, seq) = it[1..n]
    BY <1>1 DEF FoldLeft, MapThenFoldSet
  <1> HIDE DEF F, n
  <1>5. PICK g : Folded(n, Resolved, first, F, g)
    BY <1>1, <1>2, FoldExists
  <1>6. Iter(g)
    <2>1. g \in [SUBSET (1..n) -> Resolved]
      BY <1>5 DEF Folded
    <2>2. ASSUME NEW s \in SUBSET (1..n)
          PROVE  g[s] = IF s = {} THEN first ELSE SetIfMain(g[s \ {Max(s)}], seq[Max(s)])
      <3>1. CASE s # {}
        <4>1. Max(s) \in 1..n /\ g[s \ {Max(s)}] \in Resolved
          BY <1>1, <2>1, <3>1, MaxIs
        <4>2. g[s] = F[<<Max(s), g[s \ {Max(s)}]>>]
          BY <1>5, <3>1 DEF Folded
        <4> QED BY <1>3, <3>1, <4>1, <4>2
      <3> QED BY <1>5, <3>1 DEF Folded
    <2> QED BY <1>1, <2>1, <2>2
  <1>7. Iter(it)
    BY <1>6
  <1> HIDE DEF it
  <1>8. Unfolds(n, Resolved, first, F, it)
    <2>1. \A s \in SUBSET (1..n) :
             it[s] = IF s = {} THEN first ELSE SetIfMain(it[s \ {Max(s)}], seq[Max(s)])
      BY <1>1, <1>7
    <2>2. \A s \in SUBSET (1..n) : s # {} => Max(s) \in 1..n
      BY <1>1, MaxIs
    <2> QED BY <1>3, <2>1, <2>2 DEF Unfolds
  <1>9. Stepwise(n, first, it[1..n], F)
    BY <1>1, <1>2, <1>8, UnfoldsStepwise
  <1> QED BY <1>4, <1>9 DEF F, n

LEMMA SetIfAbsentFold ==
    ASSUME NEW seq \in Seq(LockEntry), NEW first \in Resolved
    PROVE  Stepwise(Len(seq), first, FoldLeft(SetIfAbsent, first, seq),
                    [p \in (1..Len(seq)) \X Resolved |-> SetIfAbsent(p[2], seq[p[1]])])
  <1> DEFINE n == Len(seq)
             F == [p \in (1..n) \X Resolved |-> SetIfAbsent(p[2], seq[p[1]])]
             Iter(g) == g = [s \in SUBSET DOMAIN seq |->
                                IF s = {} THEN first ELSE SetIfAbsent(g[s \ {Max(s)}], seq[Max(s)])]
             it == CHOOSE it : Iter(it)
  <1>1. n \in Nat /\ DOMAIN seq = 1..n /\ \A i \in 1..n : seq[i] \in LockEntry
    OBVIOUS
  <1>2. F \in [(1..n) \X Resolved -> Resolved]
    BY <1>1, StepsResolve
  <1>3. \A i \in 1..n, a \in Resolved : F[<<i, a>>] = SetIfAbsent(a, seq[i])
    OBVIOUS
  <1>4. FoldLeft(SetIfAbsent, first, seq) = it[1..n]
    BY <1>1 DEF FoldLeft, MapThenFoldSet
  <1> HIDE DEF F, n
  <1>5. PICK g : Folded(n, Resolved, first, F, g)
    BY <1>1, <1>2, FoldExists
  <1>6. Iter(g)
    <2>1. g \in [SUBSET (1..n) -> Resolved]
      BY <1>5 DEF Folded
    <2>2. ASSUME NEW s \in SUBSET (1..n)
          PROVE  g[s] = IF s = {} THEN first ELSE SetIfAbsent(g[s \ {Max(s)}], seq[Max(s)])
      <3>1. CASE s # {}
        <4>1. Max(s) \in 1..n /\ g[s \ {Max(s)}] \in Resolved
          BY <1>1, <2>1, <3>1, MaxIs
        <4>2. g[s] = F[<<Max(s), g[s \ {Max(s)}]>>]
          BY <1>5, <3>1 DEF Folded
        <4> QED BY <1>3, <3>1, <4>1, <4>2
      <3> QED BY <1>5, <3>1 DEF Folded
    <2> QED BY <1>1, <2>1, <2>2
  <1>7. Iter(it)
    BY <1>6
  <1> HIDE DEF it
  <1>8. Unfolds(n, Resolved, first, F, it)
    <2>1. \A s \in SUBSET (1..n) :
             it[s] = IF s = {} THEN first ELSE SetIfAbsent(it[s \ {Max(s)}], seq[Max(s)])
      BY <1>1, <1>7
    <2>2. \A s \in SUBSET (1..n) : s # {} => Max(s) \in 1..n
      BY <1>1, MaxIs
    <2> QED BY <1>3, <2>1, <2>2 DEF Unfolds
  <1>9. Stepwise(n, first, it[1..n], F)
    BY <1>1, <1>2, <1>8, UnfoldsStepwise
  <1> QED BY <1>4, <1>9 DEF F, n

LEMMA NothingIs == Nothing \in Resolved
  BY DEF Nothing, Resolved

(* What ParseYarnLock knows after some entries. *)
YarnFound == [out : Resolved, conflicted : SUBSET (Names \cup {Project})]

YarnSteps(seq, it) ==
    /\ it[1..0] = [out |-> Nothing, conflicted |-> {}]
    /\ \A k \in 0..Len(seq) : it[1..k] \in YarnFound
    /\ \A k \in 0..Len(seq) - 1 : it[1..k + 1] = AddYarnResolved(it[1..k], seq[k + 1])
    /\ ParseYarnLock(seq) = it[1..Len(seq)].out

LEMMA AddYarnIs ==
    ASSUME NEW acc \in YarnFound, NEW e \in LockEntry
    PROVE  LET r == AddYarnResolved(acc, e) IN
           /\ r \in YarnFound
           /\ \A m \in Names \cup {Project} :
                 m # e.name => r.out[m] = acc.out[m] /\ (m \in r.conflicted <=> m \in acc.conflicted)
           /\ e.name \in acc.conflicted => r = acc
           /\ e.name \notin acc.conflicted /\ acc.out[e.name] \notin {Unknown, e.version} =>
                 r.out[e.name] = Unknown /\ e.name \in r.conflicted
           /\ e.name \notin acc.conflicted /\ acc.out[e.name] \in {Unknown, e.version} =>
                 r.out[e.name] = e.version /\ e.name \notin r.conflicted
  <1>1. /\ acc.out \in [Names \cup {Project} -> Versions \cup {Unknown}]
        /\ e.name \in Names \cup {Project} /\ e.version \in Versions
        /\ acc.conflicted \in SUBSET (Names \cup {Project})
    BY DEF YarnFound, Resolved, LockEntry
  <1>2. CASE e.name \in acc.conflicted
    <2>1. AddYarnResolved(acc, e) = acc
      BY <1>2 DEF AddYarnResolved
    <2> QED BY <1>2, <2>1
  <1>3. CASE e.name \notin acc.conflicted /\ acc.out[e.name] \notin {Unknown, e.version}
    <2> DEFINE r == [out |-> [acc.out EXCEPT ![e.name] = Unknown],
                     conflicted |-> acc.conflicted \cup {e.name}]
    <2>1. AddYarnResolved(acc, e) = r
      BY <1>3 DEF AddYarnResolved
    <2>2. r \in YarnFound
      BY <1>1 DEF YarnFound, Resolved
    <2> QED BY <1>1, <1>3, <2>1, <2>2
  <1>4. CASE e.name \notin acc.conflicted /\ acc.out[e.name] \in {Unknown, e.version}
    <2> DEFINE r == [acc EXCEPT !.out = Set(@, e)]
    <2>1. AddYarnResolved(acc, e) = r
      BY <1>4 DEF AddYarnResolved
    <2>2. r = [out |-> [acc.out EXCEPT ![e.name] = e.version], conflicted |-> acc.conflicted]
      BY DEF YarnFound, Set
    <2>3. r \in YarnFound
      BY <1>1, <2>2 DEF YarnFound, Resolved
    <2> QED BY <1>1, <1>4, <2>1, <2>2, <2>3
  <1> QED BY <1>2, <1>3, <1>4

LEMMA YarnStepIs ==
    ASSUME NEW out \in YarnFound, NEW e \in LockEntry
    PROVE  AddYarnResolved(out, e) \in YarnFound
  BY AddYarnIs

LEMMA YarnFold ==
    ASSUME NEW seq \in Seq(LockEntry)
    PROVE  \E it : YarnSteps(seq, it)
  <1> DEFINE n == Len(seq)
             first == [out |-> Nothing, conflicted |-> {}]
             F == [p \in (1..n) \X YarnFound |-> AddYarnResolved(p[2], seq[p[1]])]
             Iter(g) == g = [s \in SUBSET DOMAIN seq |->
                                IF s = {} THEN first ELSE AddYarnResolved(g[s \ {Max(s)}], seq[Max(s)])]
             it == CHOOSE it : Iter(it)
  <1>1. n \in Nat /\ DOMAIN seq = 1..n /\ \A i \in 1..n : seq[i] \in LockEntry
    OBVIOUS
  <1>2. F \in [(1..n) \X YarnFound -> YarnFound]
    BY <1>1, YarnStepIs
  <1>3. \A i \in 1..n, a \in YarnFound : F[<<i, a>>] = AddYarnResolved(a, seq[i])
    OBVIOUS
  <1>4. ParseYarnLock(seq) = it[1..n].out
    BY <1>1 DEF ParseYarnLock, FoldLeft, MapThenFoldSet
  <1>0. first \in YarnFound
    BY NothingIs DEF YarnFound
  <1> HIDE DEF F, n, first
  <1>5. PICK g : Folded(n, YarnFound, first, F, g)
    BY <1>0, <1>1, <1>2, FoldExists
  <1>6. Iter(g)
    <2>1. g \in [SUBSET (1..n) -> YarnFound]
      BY <1>5 DEF Folded
    <2>2. ASSUME NEW s \in SUBSET (1..n)
          PROVE  g[s] = IF s = {} THEN first ELSE AddYarnResolved(g[s \ {Max(s)}], seq[Max(s)])
      <3>1. CASE s # {}
        <4>1. Max(s) \in 1..n /\ g[s \ {Max(s)}] \in YarnFound
          BY <1>1, <2>1, <3>1, MaxIs
        <4>2. g[s] = F[<<Max(s), g[s \ {Max(s)}]>>]
          BY <1>5, <3>1 DEF Folded
        <4> QED BY <1>3, <3>1, <4>1, <4>2
      <3> QED BY <1>5, <3>1 DEF Folded
    <2> QED BY <1>1, <2>1, <2>2
  <1>7. Iter(it)
    BY <1>6
  <1> HIDE DEF it
  <1>8. Unfolds(n, YarnFound, first, F, it)
    <2>1. \A s \in SUBSET (1..n) :
             it[s] = IF s = {} THEN first ELSE AddYarnResolved(it[s \ {Max(s)}], seq[Max(s)])
      BY <1>1, <1>7
    <2>2. \A s \in SUBSET (1..n) : s # {} => Max(s) \in 1..n
      BY <1>1, MaxIs
    <2> QED BY <1>3, <2>1, <2>2 DEF Unfolds
  <1>9. \A k \in 0..n : it[1..k] \in YarnFound
    BY <1>0, <1>1, <1>2, <1>8, FoldPrefixes
  <1>10. it[1..0] = first
    <2>1. 1..0 = {}
      OBVIOUS
    <2> QED BY <1>8, <2>1 DEF Unfolds
  <1>11. ASSUME NEW k \in 0..n - 1
         PROVE  it[1..k + 1] = AddYarnResolved(it[1..k], seq[k + 1])
    <2>1. k \in Nat /\ k \in 0..n /\ k + 1 \in 1..n /\ 1..k + 1 \in SUBSET (1..n)
      BY <1>1
    <2>2. Max(1..k + 1) = k + 1 /\ (1..k + 1) \ {k + 1} = 1..k /\ 1..k + 1 # {}
      BY <2>1, PrefixMax
    <2>3. it[1..k] \in YarnFound
      BY <1>9, <2>1
    <2>4. it[1..k + 1] = F[<<k + 1, it[1..k]>>]
      BY <1>8, <2>1, <2>2, <2>3 DEF Unfolds
    <2> QED BY <1>3, <2>1, <2>3, <2>4
  <1> QED BY <1>4, <1>9, <1>10, <1>11 DEF YarnSteps, first, n

(* The versions some entries have for a name determine what is known of    *)
(* it: nothing, the one version, or that it is conflicted.                 *)
VersionsFor(seq, m, k) == {seq[i].version : i \in {j \in 1..k : seq[j].name = m}}

KnownOf(acc, m, V) ==
    /\ V = {} => acc.out[m] = Unknown /\ m \notin acc.conflicted
    /\ \A v \in V : V = {v} => acc.out[m] = v /\ m \notin acc.conflicted
    /\ \A v, w \in V : v # w => acc.out[m] = Unknown /\ m \in acc.conflicted

LEMMA YarnStepKnows ==
    ASSUME NEW acc \in YarnFound, NEW e \in LockEntry, NEW m \in Names \cup {Project},
           NEW V \in SUBSET Versions, KnownOf(acc, m, V)
    PROVE  KnownOf(AddYarnResolved(acc, e), m, IF e.name = m THEN V \cup {e.version} ELSE V)
  <1> DEFINE r == AddYarnResolved(acc, e)
             W == V \cup {e.version}
  <1>1. /\ m # e.name => r.out[m] = acc.out[m] /\ (m \in r.conflicted <=> m \in acc.conflicted)
        /\ e.name \in acc.conflicted => r = acc
        /\ e.name \notin acc.conflicted /\ acc.out[e.name] \notin {Unknown, e.version} =>
              r.out[e.name] = Unknown /\ e.name \in r.conflicted
        /\ e.name \notin acc.conflicted /\ acc.out[e.name] \in {Unknown, e.version} =>
              r.out[e.name] = e.version /\ e.name \notin r.conflicted
    BY AddYarnIs
  <1> HIDE DEF r
  <1>2. CASE e.name # m
    <2>1. KnownOf(r, m, V)
      BY <1>1, <1>2 DEF KnownOf
    <2> QED BY <1>2, <2>1 DEF r
  <1>3. CASE e.name = m
    <2>1. e.version \in Versions /\ Unknown \notin V
      BY UnknownAssumption DEF LockEntry
    <2>2. ASSUME V = {}
          PROVE  KnownOf(r, m, W)
      <3>1. r.out[m] = e.version /\ m \notin r.conflicted
        BY <1>1, <1>3, <2>2 DEF KnownOf
      <3> QED BY <2>2, <3>1 DEF KnownOf
    <2>3. ASSUME NEW v \in V, V = {v}
          PROVE  KnownOf(r, m, W)
      <3>1. acc.out[m] = v /\ m \notin acc.conflicted
        BY <2>3 DEF KnownOf
      <3>2. CASE e.version = v
        <4>1. r.out[m] = v /\ m \notin r.conflicted /\ W = {v}
          BY <1>1, <1>3, <2>3, <3>1, <3>2
        <4> QED BY <4>1 DEF KnownOf
      <3>3. CASE e.version # v
        <4>1. r.out[m] = Unknown /\ m \in r.conflicted /\ W = {v, e.version}
          BY <1>1, <1>3, <2>1, <2>3, <3>1, <3>3
        <4> QED BY <3>3, <4>1 DEF KnownOf
      <3> QED BY <3>2, <3>3
    <2>4. ASSUME NEW v \in V, NEW w \in V, v # w
          PROVE  KnownOf(r, m, W)
      <3>1. acc.out[m] = Unknown /\ m \in acc.conflicted
        BY <2>4 DEF KnownOf
      <3>2. r.out[m] = Unknown /\ m \in r.conflicted
        BY <1>1, <1>3, <3>1
      <3>3. \A x \in W : W # {x} /\ W # {}
        BY <2>4
      <3> QED BY <3>2, <3>3 DEF KnownOf
    <2>5. V = {} \/ (\E v \in V : V = {v}) \/ (\E v, w \in V : v # w)
      OBVIOUS
    <2>6. KnownOf(r, m, W)
      BY <1>3, <2>2, <2>3, <2>4, <2>5
    <2> QED BY <1>3, <2>6 DEF r
  <1> QED BY <1>2, <1>3

LEMMA YarnKnows ==
    ASSUME NEW seq \in Seq(LockEntry), NEW m \in Names \cup {Project}
    PROVE  \E acc \in YarnFound : /\ ParseYarnLock(seq) = acc.out
                                 /\ KnownOf(acc, m, VersionsFor(seq, m, Len(seq)))
  <1>1. PICK it : YarnSteps(seq, it)
    BY YarnFold
  <1>2. Len(seq) \in Nat /\ \A i \in 1..Len(seq) : seq[i] \in LockEntry
    OBVIOUS
  <1> DEFINE n == Len(seq)
             P == {k \in 0..n : KnownOf(it[1..k], m, VersionsFor(seq, m, k))}
  <1>3. 0 \in P
    <2>1. VersionsFor(seq, m, 0) = {}
      BY DEF VersionsFor
    <2>2. it[1..0].out[m] = Unknown /\ m \notin it[1..0].conflicted
      BY <1>1 DEF YarnSteps, Nothing
    <2> QED BY <1>2, <2>1, <2>2 DEF KnownOf
  <1>4. ASSUME NEW k \in 0..n - 1, k \in P
        PROVE  k + 1 \in P
    <2> DEFINE V == VersionsFor(seq, m, k)
               e == seq[k + 1]
               W == IF e.name = m THEN V \cup {e.version} ELSE V
    <2>1. k \in 0..n /\ k + 1 \in 1..n /\ k + 1 \in 0..n /\ 1..k \subseteq 1..n
      BY <1>2
    <2>2. e \in LockEntry /\ it[1..k] \in YarnFound
      BY <1>1, <1>2, <2>1 DEF YarnSteps
    <2>3. V \in SUBSET Versions
      BY <1>2, <2>1 DEF VersionsFor, LockEntry
    <2>4. VersionsFor(seq, m, k + 1) = W
      <3>1. 1..k + 1 = (1..k) \cup {k + 1}
        BY <2>1
      <3> QED BY <3>1 DEF VersionsFor
    <2>5. it[1..k + 1] = AddYarnResolved(it[1..k], e)
      BY <1>1 DEF YarnSteps
    <2>6. KnownOf(it[1..k], m, V)
      BY <1>4
    <2> HIDE DEF V, W, e
    <2>7. KnownOf(AddYarnResolved(it[1..k], e), m, W)
      BY <2>2, <2>3, <2>6, YarnStepKnows DEF W
    <2> QED BY <2>1, <2>4, <2>5, <2>7
  <1>5. n \in P
    <2>1. n \in Nat
      OBVIOUS
    <2> HIDE DEF P, n
    <2>2. \A k \in 0..n - 1 : k \in P => k + 1 \in P
      BY <1>4
    <2>3. \A k \in 0..n : k \in P
      BY <1>3, <2>1, <2>2, UpTo
    <2> QED BY <2>1, <2>3
  <1>6. it[1..n] \in YarnFound
    BY <1>1, <1>2 DEF YarnSteps
  <1> QED BY <1>1, <1>5, <1>6 DEF YarnSteps

(* So only the set of the entries counts, not their order. *)
LEMMA YarnHasNoOrder ==
    ASSUME NEW seq \in Seq(LockEntry), NEW order \in SetToSeqs(DOMAIN seq)
    PROVE  ParseYarnLock([i \in DOMAIN seq |-> seq[order[i]]]) = ParseYarnLock(seq)
  <1> DEFINE n == Len(seq)
             other == [i \in DOMAIN seq |-> seq[order[i]]]
  <1>1. n \in Nat /\ DOMAIN seq = 1..n /\ \A i \in 1..n : seq[i] \in LockEntry
    OBVIOUS
  <1>2. IsFiniteSet(1..n) /\ Cardinality(1..n) = n
    <2>1. n \in Nat
      OBVIOUS
    <2> HIDE DEF n
    <2> QED BY <2>1, FS_Interval
  <1>3. order \in [1..n -> 1..n] /\ \A i, j \in 1..n : i # j => order[i] # order[j]
    BY <1>1, <1>2 DEF SetToSeqs
  <1>4. \A k \in 1..n : \E i \in 1..n : order[i] = k
    <2>1. order \in Injection(1..n, 1..n)
      BY <1>3 DEF Injection, IsInjective
    <2>2. order \in Surjection(1..n, 1..n)
      BY <1>2, <2>1, FS_Injection
    <2> QED BY <2>2 DEF Surjection
  <1>5. other \in [1..n -> LockEntry]
    BY <1>1, <1>3
  <1>6. other \in Seq(LockEntry) /\ Len(other) = n
    <2> HIDE DEF other
    <2> QED BY <1>1, <1>5
  <1>7. ASSUME NEW m \in Names \cup {Project}
        PROVE  VersionsFor(other, m, n) = VersionsFor(seq, m, n)
    <2>1. \A i \in 1..n : other[i] = seq[order[i]] /\ order[i] \in 1..n
      BY <1>1, <1>3
    <2> HIDE DEF other
    <2>2. VersionsFor(other, m, n) \subseteq VersionsFor(seq, m, n)
      BY <2>1 DEF VersionsFor
    <2>3. ASSUME NEW v \in VersionsFor(seq, m, n)
          PROVE  v \in VersionsFor(other, m, n)
      <3>1. PICK k \in 1..n : seq[k].name = m /\ v = seq[k].version
        BY DEF VersionsFor
      <3>2. PICK i \in 1..n : order[i] = k
        BY <1>4
      <3>3. other[i].name = m /\ v = other[i].version
        BY <2>1, <3>1, <3>2
      <3> QED BY <3>3 DEF VersionsFor
    <2> QED BY <2>2, <2>3
  <1> HIDE DEF other
  <1>8. ASSUME NEW m \in Names \cup {Project}
        PROVE  /\ ParseYarnLock(other) \in Resolved /\ ParseYarnLock(seq) \in Resolved
               /\ ParseYarnLock(other)[m] = ParseYarnLock(seq)[m]
    <2> DEFINE V == VersionsFor(seq, m, n)
    <2>1. PICK a \in YarnFound : ParseYarnLock(seq) = a.out /\ KnownOf(a, m, V)
      BY YarnKnows
    <2>2. PICK b \in YarnFound : ParseYarnLock(other) = b.out /\ KnownOf(b, m, V)
      <3>1. VersionsFor(other, m, Len(other)) = V
        BY <1>6, <1>7
      <3> QED BY <1>6, <3>1, YarnKnows
    <2>3. V = {} \/ (\E v \in V : V = {v}) \/ (\E v, w \in V : v # w)
      OBVIOUS
    <2> HIDE DEF V
    <2>4. a.out[m] = b.out[m]
      BY <2>1, <2>2, <2>3 DEF KnownOf
    <2> QED BY <2>1, <2>2, <2>4 DEF YarnFound
  <1>9. /\ ParseYarnLock(other) \in [Names \cup {Project} -> Versions \cup {Unknown}]
        /\ ParseYarnLock(seq) \in [Names \cup {Project} -> Versions \cup {Unknown}]
    BY <1>8 DEF Resolved
  <1>10. ParseYarnLock(other) = ParseYarnLock(seq)
    BY <1>8, <1>9
  <1> QED BY <1>10 DEF other

---------------------------------------------------------------------------
(* What the lockfiles resolve to, and what that is known of all along.     *)

LEMMA PinsResolve ==
    ASSUME NEW doc PROVE ParseRequirementsPins(doc) \in Resolved
  <1> DEFINE specs == Sections(doc)
             Pinned(n, v) == <<1, n>> \in DOMAIN specs /\ specs[<<1, n>>] = Exact[v]
             Pin(n) == IF \E v \in DOMAIN Exact : Pinned(n, v)
                       THEN CHOOSE v \in DOMAIN Exact : Pinned(n, v) ELSE Unknown
  <1>1. ParseRequirementsPins(doc) = [n \in Names \cup {Project} |-> Pin(n)]
    BY DEF ParseRequirementsPins
  <1> HIDE DEF specs, Pinned
  <1>2. \A n \in Names \cup {Project} : Pin(n) \in Versions \cup {Unknown}
    BY ManifestAssumption
  <1> HIDE DEF Pin
  <1> QED BY <1>1, <1>2 DEF Resolved

LEMMA LocksResolve ==
    ASSUME NEW m \in Manager, NEW seq \in Seq(LockEntry), NEW doc
    PROVE  ParseLock(m, seq, doc) \in Resolved
  <1>1. ParsePackageLock(seq) \in Resolved /\ ParseComposerLock(seq) \in Resolved
    <2>1. FoldLeft(SetIfMain, Nothing, seq) \in Resolved
      BY NothingIs, SetIfMainFold DEF Stepwise
    <2>2. FoldLeft(SetIfAbsent, FoldLeft(SetIfMain, Nothing, seq), seq) \in Resolved
      BY <2>1, SetIfAbsentFold DEF Stepwise
    <2> QED BY <2>2 DEF ParsePackageLock, ParseComposerLock
  <1>2. ParseCargoLock(seq) \in Resolved /\ ParseUvLock(seq) \in Resolved
    BY NothingIs, SetFold DEF ParseCargoLock, ParseUvLock, Stepwise
  <1>3. ParsePnpmLock(seq) \in Resolved /\ ParseGoSum(seq) \in Resolved
    BY NothingIs, SetIfMainFold DEF ParsePnpmLock, ParseGoSum, Stepwise
  <1>4. ParseYarnLock(seq) \in Resolved
    <2>1. PICK acc \in YarnFound : ParseYarnLock(seq) = acc.out
      BY YarnKnows
    <2> QED BY <2>1 DEF YarnFound
  <1>5. ParseRequirementsPins(doc) \in Resolved
    BY PinsResolve
  <1> QED BY <1>1, <1>2, <1>3, <1>4, <1>5 DEF ParseLock, Manager, JavaScript

(* A package whose entries all say the same resolves to what they say, if  *)
(* the parser reads one of them.                                           *)
LEMMA OneVersionResolves ==
    ASSUME NEW mgr \in Manager \ {"go", "pip"}, NEW seq \in Seq(LockEntry), NEW doc,
           NEW m \in Names, NEW v \in Versions, Resolves(seq, m, v),
           mgr = "pnpm" => \E i \in DOMAIN seq : seq[i].name = m /\ seq[i].main
    PROVE  ParseLock(mgr, seq, doc)[m] = v
  <1> DEFINE n == Len(seq)
             Main == {i \in 1..n : seq[i].name = m /\ seq[i].main}
             NotMain == {i \in 1..n : seq[i].name = m /\ ~seq[i].main}
  <1>1. /\ n \in Nat /\ DOMAIN seq = 1..n
        /\ \A i \in 1..n : seq[i].name \in Names \cup {Project} /\ seq[i].version \in Versions
    <2>1. \A i \in 1..n : seq[i] \in LockEntry
      OBVIOUS
    <2> QED BY <2>1 DEF LockEntry
  <1>2. /\ \A i \in 1..n : seq[i].name = m => seq[i].version = v
        /\ Main \cup NotMain # {}
        /\ mgr = "pnpm" => Main # {}
    BY <1>1 DEF Resolves
  <1>3. Nothing[m] = Unknown
    BY DEF Nothing
  <1>4. ASSUME NEW o \in Resolved, NEW i \in 1..n
        PROVE  /\ seq[i].name = m => Set(o, seq[i])[m] = v
               /\ seq[i].name # m => Set(o, seq[i])[m] = o[m]
    BY <1>1, <1>2 DEF Set, Resolved
  <1>5. CASE mgr \in {"cargo", "uv"}
    <2> DEFINE F == [p \in (1..n) \X Resolved |-> Set(p[2], seq[p[1]])]
    <2>1. Stepwise(n, Nothing, FoldLeft(Set, Nothing, seq), F)
      BY NothingIs, SetFold
    <2>2. \A i \in 1..n, o \in Resolved : F[<<i, o>>] = Set(o, seq[i])
      OBVIOUS
    <2> HIDE DEF F
    <2>3. Hits(n, F, m, v, Main \cup NotMain)
      <3>1. ASSUME NEW i \in 1..n, NEW o \in Resolved
            PROVE  /\ i \in Main \cup NotMain => F[<<i, o>>][m] = v
                   /\ i \notin Main \cup NotMain => F[<<i, o>>][m] = o[m]
        BY <1>4, <2>2
      <3>2. Main \cup NotMain \in SUBSET (1..n)
        OBVIOUS
      <3> DEFINE hit == Main \cup NotMain
      <3> HIDE DEF n, Main, NotMain, hit
      <3>3. ASSUME NEW i \in hit, NEW o \in Resolved, o[m] \in {Unknown, v}
            PROVE  F[<<i, o>>][m] = v
        BY <3>1, <3>2, <3>3 DEF hit
      <3>4. ASSUME NEW i \in (1..n) \ hit, NEW o \in Resolved
            PROVE  F[<<i, o>>][m] = o[m]
        BY <3>1 DEF hit
      <3>5. Hits(n, F, m, v, hit)
        BY <3>2, <3>3, <3>4 DEF Hits, hit
      <3> QED BY <3>5 DEF hit
    <2> HIDE DEF n, Main, NotMain
    <2>4. FoldLeft(Set, Nothing, seq)[m] = v
      <3>1. Reaches(Nothing, FoldLeft(Set, Nothing, seq), m, v, Main \cup NotMain)
        BY <1>1, <1>3, <2>1, <2>3, NothingIs, StepsReach
      <3> QED BY <1>2, <3>1 DEF Reaches
    <2> QED BY <1>5, <2>4 DEF ParseLock, ParseCargoLock, ParseUvLock, JavaScript
  <1> DEFINE M == [p \in (1..n) \X Resolved |-> SetIfMain(p[2], seq[p[1]])]
             half == FoldLeft(SetIfMain, Nothing, seq)
  <1>6. half \in Resolved /\ half[m] \in {Unknown, v} /\ (Main # {} => half[m] = v)
    <2>1. Stepwise(n, Nothing, half, M)
      BY NothingIs, SetIfMainFold
    <2>2. \A i \in 1..n, o \in Resolved : M[<<i, o>>] = SetIfMain(o, seq[i])
      OBVIOUS
    <2> HIDE DEF M, half
    <2>3. Hits(n, M, m, v, Main)
      <3>1. ASSUME NEW i \in 1..n, NEW o \in Resolved
            PROVE  /\ i \in Main => M[<<i, o>>][m] = v
                   /\ i \notin Main => M[<<i, o>>][m] = o[m]
        BY <1>4, <2>2 DEF SetIfMain
      <3>2. Main \in SUBSET (1..n)
        OBVIOUS
      <3> DEFINE hit == Main
      <3> HIDE DEF n, Main, hit
      <3>3. ASSUME NEW i \in hit, NEW o \in Resolved, o[m] \in {Unknown, v}
            PROVE  M[<<i, o>>][m] = v
        BY <3>1, <3>2, <3>3 DEF hit
      <3>4. ASSUME NEW i \in (1..n) \ hit, NEW o \in Resolved
            PROVE  M[<<i, o>>][m] = o[m]
        BY <3>1 DEF hit
      <3>5. Hits(n, M, m, v, hit)
        BY <3>2, <3>3, <3>4 DEF Hits, hit
      <3> QED BY <3>5 DEF hit
    <2> HIDE DEF n, Main
    <2>4. half[m] \in {Unknown, v} /\ (Main # {} => half[m] = v)
      <3>1. Reaches(Nothing, half, m, v, Main)
        BY <1>1, <1>3, <2>1, <2>3, NothingIs, StepsReach
      <3> QED BY <3>1 DEF Reaches
    <2> QED BY <2>1, <2>4 DEF Stepwise
  <1>7. CASE mgr = "pnpm"
    BY <1>2, <1>6, <1>7 DEF ParseLock, ParsePnpmLock
  <1>8. CASE mgr \in {"npm", "composer"}
    <2> DEFINE A == [p \in (1..n) \X Resolved |-> SetIfAbsent(p[2], seq[p[1]])]
               full == FoldLeft(SetIfAbsent, half, seq)
    <2>1. Stepwise(n, half, full, A)
      BY <1>6, SetIfAbsentFold
    <2>2. \A i \in 1..n, o \in Resolved : A[<<i, o>>] = SetIfAbsent(o, seq[i])
      OBVIOUS
    <2> HIDE DEF A, full, half
    <2>3. Hits(n, A, m, v, NotMain)
      <3>1. ASSUME NEW i \in 1..n, NEW o \in Resolved
            PROVE  /\ i \in NotMain /\ o[m] \in {Unknown, v} => A[<<i, o>>][m] = v
                   /\ i \notin NotMain => A[<<i, o>>][m] = o[m]
        BY <1>4, <2>2 DEF SetIfAbsent
      <3>2. NotMain \in SUBSET (1..n)
        OBVIOUS
      <3> DEFINE hit == NotMain
      <3> HIDE DEF n, NotMain, hit
      <3>3. ASSUME NEW i \in hit, NEW o \in Resolved, o[m] \in {Unknown, v}
            PROVE  A[<<i, o>>][m] = v
        BY <3>1, <3>2, <3>3 DEF hit
      <3>4. ASSUME NEW i \in (1..n) \ hit, NEW o \in Resolved
            PROVE  A[<<i, o>>][m] = o[m]
        BY <3>1 DEF hit
      <3>5. Hits(n, A, m, v, hit)
        BY <3>2, <3>3, <3>4 DEF Hits, hit
      <3> QED BY <3>5 DEF hit
    <2> HIDE DEF n, Main, NotMain
    <2>4. full[m] = v
      <3>1. Reaches(half, full, m, v, NotMain)
        BY <1>1, <1>6, <2>1, <2>3, StepsReach
      <3> QED BY <1>2, <1>6, <3>1 DEF Reaches
    <2> QED BY <1>8, <2>4 DEF ParseLock, ParsePackageLock, ParseComposerLock, full, half, JavaScript
  <1>9. CASE mgr = "yarn"
    <2>1. VersionsFor(seq, m, n) = {v}
      BY <1>2 DEF VersionsFor
    <2>2. PICK acc \in YarnFound : ParseYarnLock(seq) = acc.out /\ KnownOf(acc, m, VersionsFor(seq, m, n))
      BY YarnKnows
    <2> QED BY <1>9, <2>1, <2>2 DEF ParseLock, KnownOf
  <1> QED BY <1>5, <1>7, <1>8, <1>9 DEF Manager, JavaScript

Chosen == stage \in {"workspace", "read", "compare", "decide", "bisect", "trial"}
Compared == stage \in {"compare", "decide", "bisect", "trial"}

(* What has been read, and from what. *)
Known ==
    /\ manager \in Manager \cup {"none"}
    /\ Chosen => manager \in Manager
    /\ base \in Seq(Declaration) /\ target \in Seq(Declaration)
    /\ baseLock \in Seq(LockEntry) /\ lock \in Seq(LockEntry)
    /\ oldR \in Resolved /\ newR \in Resolved
    /\ Compared => /\ oldR = ParseLock(manager, baseLock, base)
                   /\ newR = ParseLock(manager, lock, target)

LEMMA InitKnown == Init => Known
  <1>1. << >> \in Seq(Declaration) /\ << >> \in Seq(LockEntry)
    OBVIOUS
  <1> QED BY <1>1, NothingIs DEF Init, Known, Chosen, Compared

LEMMA Managers ==
  /\ "npm" \in Manager /\ "pnpm" \in Manager /\ "yarn" \in Manager /\ "cargo" \in Manager
  /\ "go" \in Manager /\ "uv" \in Manager /\ "composer" \in Manager /\ "pip" \in Manager
  BY DEF Manager, JavaScript

LEMMA DetectManagerLeads ==
    ASSUME DetectManager
    PROVE  \/ \E m \in Manager : Choose(m)
           \/ stage' \in {"failed", "python", "javascript"} /\ UNCHANGED manager
  <1>1. PICK files \in SUBSET ManifestFiles :
           IF Cardinality(Found(files)) # 1 THEN stage' = "failed" /\ UNCHANGED manager
           ELSE CASE "Cargo.toml" \in files -> Choose("cargo")
                  [] "go.mod" \in files -> Choose("go")
                  [] "pyproject.toml" \in files -> stage' = "python" /\ UNCHANGED manager
                  [] Found(files) = {"requirements.txt"} -> Choose("pip")
                  [] "composer.json" \in files -> Choose("composer")
                  [] "package.json" \in files -> stage' = "javascript" /\ UNCHANGED manager
    BY DEF DetectManager
  <1>2. CASE Cardinality(Found(files)) # 1
    BY <1>1, <1>2
  <1>3. CASE Cardinality(Found(files)) = 1
    <2>1. PICK f \in ManifestFiles :
             /\ f \in files
             /\ files \subseteq {f} \cup (IF f = "pyproject.toml" THEN {"requirements.txt"} ELSE {})
             /\ Found(files) = {f}
      BY <1>3, FoundOne
    <2>2. CASE f = "Cargo.toml"
      BY Managers, <1>1, <1>3, <2>1, <2>2
    <2>3. CASE f = "go.mod"
      BY Managers, <1>1, <1>3, <2>1, <2>3
    <2>4. CASE f = "composer.json"
      BY Managers, <1>1, <1>3, <2>1, <2>4
    <2>5. CASE f = "requirements.txt"
      BY Managers, <1>1, <1>3, <2>1, <2>5
    <2>6. CASE f = "package.json"
      BY Managers, <1>1, <1>3, <2>1, <2>6
    <2>7. CASE f = "pyproject.toml"
      BY Managers, <1>1, <1>3, <2>1, <2>7
    <2> QED BY <2>1, <2>2, <2>3, <2>4, <2>5, <2>6, <2>7 DEF ManifestFiles
  <1> QED BY <1>2, <1>3

LEMMA NextKnown == Known /\ Detected /\ [Next]_vars => Known'
  <1> SUFFICES ASSUME Known, Detected, [Next]_vars PROVE Known'
    OBVIOUS
  <1> USE DEF read
  <1>1. ASSUME UNCHANGED read, manager' \in Manager \cup {"none"},
               Chosen' => manager' \in Manager, ~Compared'
        PROVE  Known'
    BY <1>1 DEF Known
  <1>3. CASE Fail
    BY <1>1, <1>3 DEF Fail, detected, Known, Chosen, Compared
  <1>4. CASE ResolveRevs
    <2>1. override # "none" => override \in Manager
      BY CompareAssumption DEF Detected
    <2> QED BY <1>1, <1>4, <2>1 DEF ResolveRevs, Choose, Known, Chosen, Compared
  <1>5. ASSUME NEW m \in Manager, Choose(m), UNCHANGED read
        PROVE  Known'
    BY <1>1, <1>5 DEF Choose, Chosen, Compared
  <1>6. ASSUME stage' \in {"failed", "python", "javascript"}, UNCHANGED manager, UNCHANGED read
        PROVE  Known'
    BY <1>1, <1>6 DEF Known, Chosen, Compared
  <1>7. CASE DetectManager
    <2>1. UNCHANGED read
      BY <1>7 DEF DetectManager
    <2>2. \/ \E m \in Manager : Choose(m)
          \/ stage' \in {"failed", "python", "javascript"} /\ UNCHANGED manager
      BY <1>7, DetectManagerLeads
    <2> QED BY <1>5, <1>6, <2>1, <2>2
  <1>8. CASE DetectPython
    <2>1. UNCHANGED read
      BY <1>8 DEF DetectPython
    <2>2. \/ \E m \in Manager : Choose(m)
          \/ stage' = "failed" /\ UNCHANGED manager
      BY Managers, <1>8 DEF DetectPython
    <2> QED BY <1>5, <1>6, <2>1, <2>2
  <1>9. CASE DetectJavaScript
    <2>1. UNCHANGED read
      BY <1>9 DEF DetectJavaScript
    <2>2. \/ \E m \in Manager : Choose(m)
          \/ stage' = "failed" /\ UNCHANGED manager
      BY Managers, <1>9 DEF DetectJavaScript, Detect
    <2> QED BY <1>5, <1>6, <2>1, <2>2
  <1>10. CASE CheckWorkspace
    <2>1. /\ stage = "workspace" /\ stage' \in {"failed", "read"}
          /\ UNCHANGED read /\ UNCHANGED manager
      BY <1>10 DEF CheckWorkspace, detected
    <2>2. manager \in Manager
      BY <2>1 DEF Known, Chosen
    <2> QED BY <1>1, <2>1, <2>2 DEF Compared
  <1>11. CASE ReadManifests
    <2>0. manager' = manager /\ stage = "read"
      BY <1>11 DEF ReadManifests, detected
    <2>1. manager' = manager /\ manager \in Manager
      BY <2>0 DEF Known, Chosen
    <2>2. /\ base' \in Seq(Declaration) /\ target' \in Seq(Declaration)
          /\ baseLock' \in Seq(LockEntry) /\ lock' \in Seq(LockEntry)
      BY <1>11, CompareAssumption DEF ReadManifests
    <2>3. oldR' = ParseLock(manager, baseLock', base') /\ newR' = ParseLock(manager, lock', target')
      BY <1>11 DEF ReadManifests
    <2>4. oldR' \in Resolved /\ newR' \in Resolved
      BY <2>1, <2>2, <2>3, LocksResolve
    <2> QED BY <2>1, <2>2, <2>3, <2>4 DEF Known
  <1>12. CASE CompareRevisions \/ Decide \/ RenderCandidate \/ BisectionEnds \/ UNCHANGED vars
    <2>1. /\ UNCHANGED read /\ UNCHANGED manager
          /\ Chosen' => Chosen
          /\ Compared' => Compared
      BY <1>12 DEF CompareRevisions, Decide, RenderCandidate, BisectionEnds, vars, detected,
            Chosen, Compared
    <2> QED BY <2>1 DEF Known
  <1> QED BY <1>3, <1>4, <1>7, <1>8, <1>9, <1>10, <1>11, <1>12 DEF Next, Ended

---------------------------------------------------------------------------
(* What two revisions differ in. *)

LEMMA SectionsAre ==
    ASSUME NEW doc \in Seq(Declaration)
    PROVE  IsFiniteSet(DOMAIN Sections(doc)) /\ DOMAIN Sections(doc) \subseteq (1..3) \X Names
  <1> DEFINE S == {j \in 1..Len(doc) : doc[j].plain}
             T == {Id(doc[i]) : i \in S}
             f == [i \in S |-> Id(doc[i])]
  <1>1. DOMAIN doc = 1..Len(doc) /\ Len(doc) \in Nat
    OBVIOUS
  <1>2. \A i \in 1..Len(doc) : doc[i] \in Declaration
    OBVIOUS
  <1>3. DOMAIN Sections(doc) = T
    BY <1>1 DEF Sections
  <1>4. IsFiniteSet(S)
    <2>1. IsFiniteSet(1..Len(doc))
      <3> DEFINE n == Len(doc)
      <3> HIDE DEF n
      <3>1. IsFiniteSet(1..n)
        BY <1>1, FS_Interval DEF n
      <3> QED BY <3>1 DEF n
    <2>2. S \subseteq 1..Len(doc)
      OBVIOUS
    <2> HIDE DEF S
    <2> QED BY <2>1, <2>2, FS_Subset
  <1>5. f \in Surjection(S, T)
    BY DEF Surjection
  <1>6. IsFiniteSet(T)
    <2> HIDE DEF S, T, f
    <2> QED BY <1>4, <1>5, FS_Surjection
  <1>7. T \subseteq (1..3) \X Names
    BY <1>2 DEF Id, Declaration
  <1> QED BY <1>3, <1>6, <1>7

(* A dependency of both revisions whose declaration is the same. *)
Same(old, new) ==
    {id \in DOMAIN Sections(old) \cap DOMAIN Sections(new) : Sections(old)[id] = Sections(new)[id]}

LEMMA MadeChange ==
    ASSUME NEW id \in (1..3) \X Names, NEW kind, NEW o, NEW w
    PROVE  /\ Id(MakeChange(id, kind, o, w)) = id
           /\ MakeChange(id, kind, o, w).sec \in Nat /\ MakeChange(id, kind, o, w).name \in Nat
  <1>1. PICK i \in 1..3, n \in Names : id = <<i, n>>
    OBVIOUS
  <1>2. i \in Nat /\ n \in Nat
    BY ManifestAssumption
  <1> QED BY <1>1, <1>2 DEF Id, MakeChange

LEMMA DiffIs ==
    ASSUME NEW old \in Seq(Declaration), NEW new \in Seq(Declaration)
    PROVE  /\ \A c \in Diff(old, new) :
                 /\ Id(c) \in (DOMAIN Sections(old) \cup DOMAIN Sections(new)) \ Same(old, new)
                 /\ c.sec \in Nat /\ c.name \in Nat
           /\ \A c, e \in Diff(old, new) : Id(c) = Id(e) => c = e
  <1> DEFINE o == Sections(old)
             w == Sections(new)
             Made(id) ==
                IF id \notin DOMAIN w THEN MakeChange(id, "removed", o[id], NoSpec)
                ELSE IF id \notin DOMAIN o THEN MakeChange(id, "added", NoSpec, w[id])
                ELSE MakeChange(id, "updated", o[id], w[id])
             D == (DOMAIN o \cup DOMAIN w) \ Same(old, new)
  <1>1. DOMAIN o \subseteq (1..3) \X Names /\ DOMAIN w \subseteq (1..3) \X Names
    BY SectionsAre
  <1>2. ASSUME NEW c \in Diff(old, new)
        PROVE  \E id \in D : c = Made(id)
    <2>1. \/ \E id \in DOMAIN o \ DOMAIN w : c = MakeChange(id, "removed", o[id], NoSpec)
          \/ \E id \in DOMAIN w \ DOMAIN o : c = MakeChange(id, "added", NoSpec, w[id])
          \/ \E id \in DOMAIN o \cap DOMAIN w :
                o[id] # w[id] /\ c = MakeChange(id, "updated", o[id], w[id])
      BY DEF Diff
    <2> HIDE DEF o, w
    <2> QED BY <2>1 DEF Same, o, w
  <1> HIDE DEF o, w
  <1>3. ASSUME NEW id \in D
        PROVE  Id(Made(id)) = id /\ Made(id).sec \in Nat /\ Made(id).name \in Nat
    <2>1. id \in (1..3) \X Names
      BY <1>1
    <2> QED BY <2>1, MadeChange
  <1> HIDE DEF D, Made
  <1>4. \A c \in Diff(old, new) : Id(c) \in D /\ c.sec \in Nat /\ c.name \in Nat
    BY <1>2, <1>3
  <1>5. \A c, e \in Diff(old, new) : Id(c) = Id(e) => c = e
    BY <1>2, <1>3
  <1> QED BY <1>4, <1>5 DEF D, o, w

LEMMA LockfileOnlyIs ==
    ASSUME NEW old \in Seq(Declaration), NEW new \in Seq(Declaration), NEW r, NEW q
    PROVE  /\ \A lc \in LockfileOnly(old, new, r, q) :
                 Id(lc) \in Same(old, new) /\ lc.name = Id(lc)[2]
           /\ \A lc, x \in LockfileOnly(old, new, r, q) : Id(lc) = Id(x) => lc = x
  <1> DEFINE w == Sections(new)
             Made(id) == [sec |-> id[1], name |-> id[2], spec |-> w[id],
                          old |-> r[id[2]], new |-> q[id[2]]]
  <1>1. DOMAIN w \subseteq (1..3) \X Names
    BY SectionsAre
  <1>2. ASSUME NEW lc \in LockfileOnly(old, new, r, q)
        PROVE  \E id \in Same(old, new) : lc = Made(id)
    BY DEF LockfileOnly, Same
  <1>3. ASSUME NEW id \in Same(old, new)
        PROVE  Id(Made(id)) = id /\ Made(id).name = id[2]
    <2>1. id \in (1..3) \X Names
      BY <1>1 DEF Same
    <2> QED BY <2>1 DEF Id
  <1> HIDE DEF Made
  <1> QED BY <1>2, <1>3

LEMMA PinsAre ==
    ASSUME NEW old \in Seq(Declaration), NEW new \in Seq(Declaration), NEW r, NEW q, NEW m
    PROVE  LET pins == PinChanges(m, LockfileOnly(old, new, r, q)) IN
           /\ \A c \in pins : Id(c) \in Same(old, new) /\ c.sec \in Nat /\ c.name \in Nat
           /\ \A c, e \in pins : Id(c) = Id(e) => c = e
  <1> DEFINE lcs == LockfileOnly(old, new, r, q)
             Pin(lc) == [MakeChange(Id(lc), "updated", Exact[lc.old], lc.spec)
                            EXCEPT !.lockfileOnly = TRUE]
             pins == PinChanges(m, lcs)
  <1>1. ASSUME NEW c \in pins
        PROVE  \E lc \in lcs : c = Pin(lc)
    BY DEF PinChanges
  <1>2. ASSUME NEW lc \in lcs
        PROVE  /\ Id(Pin(lc)) = Id(lc) /\ Id(lc) \in Same(old, new)
               /\ Pin(lc).sec \in Nat /\ Pin(lc).name \in Nat
    <2>1. Id(lc) \in Same(old, new)
      BY LockfileOnlyIs
    <2>2. Id(lc) \in (1..3) \X Names
      BY <2>1, SectionsAre DEF Same
    <2> QED BY <2>1, <2>2, ManifestAssumption DEF Id, MakeChange
  <1>3. \A lc, x \in lcs : Id(lc) = Id(x) => lc = x
    BY LockfileOnlyIs
  <1> HIDE DEF lcs, Pin, pins
  <1>4. \A c \in pins : Id(c) \in Same(old, new) /\ c.sec \in Nat /\ c.name \in Nat
    BY <1>1, <1>2
  <1>5. \A c, e \in pins : Id(c) = Id(e) => c = e
    BY <1>1, <1>2, <1>3
  <1> QED BY <1>4, <1>5 DEF pins, lcs

(* The changes a run compares out of two manifests. *)
AllChanges(m, pins, lcs) == Diff(base, target) \cup (IF pins THEN PinChanges(m, lcs) ELSE {})

LEMMA AllChangesAre ==
    ASSUME Known, NEW pins \in BOOLEAN
    PROVE  LET lcs == LockfileOnly(base, target, oldR, newR)
               all == AllChanges(manager, pins, lcs)
           IN  /\ IsFiniteSet(all)
               /\ \A c \in all : c.sec \in Nat /\ c.name \in Nat
               /\ \A c, e \in all : Id(c) = Id(e) => c = e
  <1> DEFINE lcs == LockfileOnly(base, target, oldR, newR)
             d == Diff(base, target)
             new == IF pins THEN PinChanges(manager, lcs) ELSE {}
             all == d \cup new
             ids == DOMAIN Sections(base) \cup DOMAIN Sections(target)
             same == Same(base, target)
             f == [c \in all |-> Id(c)]
  <1>1. base \in Seq(Declaration) /\ target \in Seq(Declaration)
    BY DEF Known
  <1>2. IsFiniteSet(ids) /\ same \subseteq ids
    <2>1. IsFiniteSet(DOMAIN Sections(base)) /\ IsFiniteSet(DOMAIN Sections(target))
      BY <1>1, SectionsAre
    <2>2. IsFiniteSet(ids)
      BY <2>1, FS_Union
    <2> QED BY <2>2 DEF Same
  <1>3. /\ \A c \in d : Id(c) \in ids \ same /\ c.sec \in Nat /\ c.name \in Nat
        /\ \A c, e \in d : Id(c) = Id(e) => c = e
    BY <1>1, DiffIs
  <1>4. /\ \A c \in new : Id(c) \in same /\ c.sec \in Nat /\ c.name \in Nat
        /\ \A c, e \in new : Id(c) = Id(e) => c = e
    <2>1. /\ \A c \in PinChanges(manager, lcs) : Id(c) \in same /\ c.sec \in Nat /\ c.name \in Nat
          /\ \A c, e \in PinChanges(manager, lcs) : Id(c) = Id(e) => c = e
      BY <1>1, PinsAre
    <2> HIDE DEF same, lcs
    <2> QED BY <2>1
  <1> HIDE DEF lcs, d, new, ids, same
  <1>5. \A c, e \in all : Id(c) = Id(e) => c = e
    BY <1>2, <1>3, <1>4
  <1>6. \A c \in all : Id(c) \in ids /\ c.sec \in Nat /\ c.name \in Nat
    BY <1>2, <1>3, <1>4
  <1>7. f \in Injection(all, ids)
    <2> HIDE DEF all
    <2> QED BY <1>5, <1>6 DEF Injection, IsInjective
  <1>8. IsFiniteSet(all)
    <2> HIDE DEF all, f
    <2> QED BY <1>2, <1>7, FS_Injection
  <1> QED BY <1>5, <1>6, <1>8 DEF AllChanges, d, new, lcs

(* Sorted, each change is at one place, and each identifier is one change. *)
LEMMA IdsCounted ==
    ASSUME NEW S, IsFiniteSet(S),
           \A c \in S : c.sec \in Nat /\ c.name \in Nat,
           \A c, e \in S : Id(c) = Id(e) => c = e
    PROVE  LET seq == SortChanges(S)
               ids == {Id(seq[i]) : i \in DOMAIN seq}
           IN  /\ Cardinality(ids) = Len(seq) /\ ids = {Id(c) : c \in S}
               /\ \A c \in S : \E i \in DOMAIN seq : seq[i] = c
  <1> DEFINE n == Cardinality(S)
             seq == SortChanges(S)
             ids == {Id(seq[i]) : i \in 1..n}
             f == [i \in 1..n |-> Id(seq[i])]
  <1>1. /\ n \in Nat /\ seq \in [1..n -> S]
        /\ \A i, j \in 1..n : i # j => seq[i] # seq[j]
        /\ \A c \in S : \E i \in 1..n : seq[i] = c
    BY SortChangesIs
  <1> HIDE DEF n, seq
  <1>2. DOMAIN seq = 1..n /\ Len(seq) = n
    <2>1. seq \in Seq(S)
      BY <1>1
    <2> QED BY <1>1, <2>1
  <1>3. f \in Bijection(1..n, ids)
    <2>1. \A i \in 1..n : seq[i] \in S
      BY <1>1
    <2>2. \A i, j \in 1..n : Id(seq[i]) = Id(seq[j]) => i = j
      BY <1>1, <2>1
    <2> QED BY <2>2 DEF Bijection, Injection, Surjection, IsInjective
  <1>4. Cardinality(ids) = n
    <2>1. ExistsBijection(1..n, ids)
      BY <1>3 DEF ExistsBijection
    <2> HIDE DEF ids, f
    <2> QED BY <1>1, <2>1, FS_CountingElements
  <1>5. ids = {Id(c) : c \in S}
    BY <1>1
  <1> QED BY <1>1, <1>2, <1>4, <1>5 DEF seq

---------------------------------------------------------------------------
(* The comparison loses nothing. *)

Compares == ChangesAreDistinct /\ NoDriftUnreported

LEMMA ComparedOnce ==
    ASSUME Known, CompareRevisions PROVE Compares'
  <1> DEFINE lcs == LockfileOnly(base, target, oldR, newR)
  <1>1. PICK pins \in BOOLEAN :
           LET new == IF pins THEN PinChanges(manager, lcs) ELSE {}
               all == Diff(base, target) \cup new
           IN  /\ changes' = SortChanges(all)
               /\ lockOnly' = Remainder(lcs, new)
               /\ drift' = IF manager = "go" THEN {} ELSE TransitiveDrift(all, lockOnly')
               /\ named' = LockfileOnlyNames(drift')
    BY DEF CompareRevisions
  <1> DEFINE new == IF pins THEN PinChanges(manager, lcs) ELSE {}
             all == Diff(base, target) \cup new
  <1>2. /\ changes' = SortChanges(all) /\ lockOnly' = Remainder(lcs, new)
        /\ manager # "go" => drift' = TransitiveDrift(all, lockOnly')
        /\ named' = LockfileOnlyNames(drift')
    BY <1>1
  <1>3. /\ stage = "compare" /\ stage' = "decide"
        /\ UNCHANGED <<manager, baseLock, lock, oldR, newR>>
    BY DEF CompareRevisions, detected, read
  <1>4. /\ IsFiniteSet(all)
        /\ \A c \in all : c.sec \in Nat /\ c.name \in Nat
        /\ \A c, e \in all : Id(c) = Id(e) => c = e
    BY AllChangesAre DEF AllChanges
  <1>5. \A c \in Diff(base, target) : Id(c) \notin Same(base, target)
    BY DiffIs DEF Known
  <1>6. \A lc \in lcs : Id(lc) \in Same(base, target)
    BY LockfileOnlyIs DEF Known
  <1> HIDE DEF lcs, new
  <1>7. {Id(c) : c \in all} \cap {Id(lc) : lc \in Remainder(lcs, new)} = {}
    BY <1>5, <1>6 DEF Remainder
  <1> HIDE DEF all
  <1>8. /\ Cardinality({Id(changes'[i]) : i \in DOMAIN changes'}) = Len(changes')
        /\ {Id(changes'[i]) : i \in DOMAIN changes'} = {Id(c) : c \in all}
        /\ \A c \in all : \E i \in DOMAIN changes' : changes'[i] = c
    BY <1>2, <1>4, IdsCounted
  <1>9. ChangesAreDistinct'
    BY <1>2, <1>7, <1>8 DEF ChangesAreDistinct, Ids
  <1>10. NoDriftUnreported'
    <2> SUFFICES ASSUME manager \notin {"go", "pip"},
                        NEW n \in Names, NEW v \in Versions, NEW w \in Versions, v # w,
                        Resolves(baseLock, n, v), Resolves(lock, n, w),
                        IsRead(baseLock, n), IsRead(lock, n)
                 PROVE  n \in named' \/ Bisected(n)' \/ Unpinned(n)' \/ CountedOnly(n)'
      BY <1>3 DEF NoDriftUnreported, IsRead
    <2>1. n # Project /\ n \in DOMAIN oldR /\ n \in Nat
      BY ManifestAssumption DEF Known, Resolved
    <2>2. Moved(oldR, newR, n)
      <3>1. /\ manager \in Manager /\ baseLock \in Seq(LockEntry) /\ lock \in Seq(LockEntry)
            /\ oldR = ParseLock(manager, baseLock, base) /\ newR = ParseLock(manager, lock, target)
        BY <1>3 DEF Known, Chosen, Compared
      <3>2. oldR[n] = v /\ newR[n] = w
        BY <3>1, OneVersionResolves DEF IsRead
      <3> QED BY <3>2, UnknownAssumption DEF Moved
    <2>3. CASE \E c \in all : c.name = n
      BY <1>8, <2>3 DEF Bisected
    <2>4. CASE \E lc \in lockOnly' : lc.name = n
      BY <2>4 DEF Unpinned
    <2>5. CASE ~(\E c \in all : c.name = n) /\ ~(\E lc \in lockOnly' : lc.name = n)
      <3>1. n \in drift'
        BY <1>2, <2>1, <2>2, <2>5 DEF TransitiveDrift
      <3>2. drift' \subseteq Nat
        BY <1>2, ManifestAssumption DEF TransitiveDrift, Known, Resolved
      <3> DEFINE before == {k \in drift' : k < n}
      <3>3. Cardinality(before) \in Nat
        <4>1. before \subseteq 0..n
          <5>1. ASSUME NEW k \in before
                PROVE  k \in 0..n
            BY <2>1, <3>2
          <5> QED BY <5>1
        <4>2. IsFiniteSet(0..n)
          BY <2>1, FS_Interval
        <4> HIDE DEF before
        <4> QED BY <4>1, <4>2, FS_Subset, FS_CardinalityType
      <3>4. n \in named' <=> Cardinality(before) < MaxListed
        BY <1>2, <3>1 DEF LockfileOnlyNames
      <3>5. CountedOnly(n)' <=> MaxListed <= Cardinality(before)
        BY <3>1 DEF CountedOnly
      <3> HIDE DEF before
      <3> QED BY <3>3, <3>4, <3>5, CompareAssumption
    <2> QED BY <2>3, <2>4, <2>5
  <1> QED BY <1>9, <1>10 DEF Compares

LEMMA InitCompares == Init => Compares
  <1> SUFFICES ASSUME Init PROVE Compares
    OBVIOUS
  <1>1. changes = << >> /\ lockOnly = {} /\ stage = "revisions"
    BY DEF Init
  <1>2. Ids = {}
    BY <1>1 DEF Ids
  <1> QED BY <1>1, <1>2, FS_EmptySet DEF Compares, ChangesAreDistinct, NoDriftUnreported

LEMMA NextCompares == Known /\ Compares /\ [Next]_vars => Compares'
  <1> SUFFICES ASSUME Known, Compares, [Next]_vars PROVE Compares'
    OBVIOUS
  <1>1. ASSUME UNCHANGED compared,
               stage' \in {"decide", "bisect", "trial"} =>
                  stage \in {"decide", "bisect", "trial"} /\ UNCHANGED <<manager, baseLock, lock>>
        PROVE  Compares'
    <2>1. changes' = changes /\ lockOnly' = lockOnly /\ drift' = drift /\ named' = named
      BY <1>1 DEF compared
    <2>2. ChangesAreDistinct'
      BY <2>1 DEF Compares, ChangesAreDistinct, Ids
    <2>3. NoDriftUnreported'
      BY <1>1, <2>1 DEF Compares, NoDriftUnreported, IsRead, Bisected, Unpinned, CountedOnly
    <2> QED BY <2>2, <2>3 DEF Compares
  <1>2. CASE CompareRevisions
    BY <1>2, ComparedOnce
  <1>3. CASE Fail
    BY <1>1, <1>3 DEF Fail
  <1>4. CASE ResolveRevs
    BY <1>1, <1>4 DEF ResolveRevs, Choose
  <1>5. CASE DetectManager
    <2>1. UNCHANGED compared
      BY <1>5 DEF DetectManager
    <2>2. stage' \in {"failed", "python", "javascript", "workspace"}
      BY <1>5, DetectManagerLeads DEF Choose
    <2> QED BY <1>1, <2>1, <2>2
  <1>6. CASE DetectPython
    BY <1>1, <1>6 DEF DetectPython, Choose
  <1>7. CASE DetectJavaScript
    BY <1>1, <1>7 DEF DetectJavaScript, Detect, Choose
  <1>8. CASE CheckWorkspace
    <2>1. stage' \in {"failed", "read"} /\ UNCHANGED compared
      BY <1>8 DEF CheckWorkspace
    <2> QED BY <1>1, <2>1
  <1>9. CASE ReadManifests
    <2>1. stage' = "compare" /\ UNCHANGED compared
      BY <1>9 DEF ReadManifests
    <2> QED BY <1>1, <2>1
  <1>10. CASE Decide \/ RenderCandidate \/ BisectionEnds \/ UNCHANGED vars
    BY <1>1, <1>10 DEF Decide, RenderCandidate, BisectionEnds, vars, compared, detected, read
  <1> QED BY <1>2, <1>3, <1>4, <1>5, <1>6, <1>7, <1>8, <1>9, <1>10 DEF Next, Ended

---------------------------------------------------------------------------
(* Sequences without some of their entries. *)

(* What holds of the empty sequence and is kept by Append holds of all. *)
LEMMA SeqInduction ==
    ASSUME NEW T, NEW P, << >> \in P, \A s \in Seq(T), e \in T : s \in P => Append(s, e) \in P
    PROVE  \A s \in Seq(T) : s \in P
  <1> DEFINE L == {k \in Nat : \E s \in Seq(T) : Len(s) = k /\ s \notin P}
  <1>1. SUFFICES ASSUME L # {} PROVE FALSE
    <2>1. SUFFICES ASSUME NEW s \in Seq(T), s \notin P PROVE FALSE
      OBVIOUS
    <2>2. Len(s) \in L
      BY <2>1
    <2> QED BY <1>1, <2>2
  <1>2. PICK m \in L : \A k \in L : m <= k
    <2>1. L \subseteq Nat
      OBVIOUS
    <2> HIDE DEF L
    <2> QED BY <1>1, <2>1, LeastNumber
  <1>3. PICK s \in Seq(T) : Len(s) = m /\ s \notin P
    BY <1>2
  <1>4. PICK t \in Seq(T), e \in T : s = Append(t, e)
    BY <1>3, SequenceEmptyOrAppend
  <1>5. Len(t) \in Nat /\ Len(t) < m
    BY <1>3, <1>4, AppendProperties
  <1>6. t \in P
    BY <1>2, <1>5
  <1> QED BY <1>3, <1>4, <1>6

Kept(gone, kept, e) == IF e \in gone THEN kept ELSE Append(kept, e)

WithoutSteps(T, seq, gone, f) ==
    /\ f \in [0..Len(seq) -> Seq(T)] /\ f[0] = << >>
    /\ \A k \in 0..Len(seq) - 1 : f[k + 1] = Kept(gone, f[k], seq[k + 1])
    /\ Without(seq, gone) = f[Len(seq)]

LEMMA WithoutFold ==
    ASSUME NEW T, NEW seq \in Seq(T), NEW gone
    PROVE  \E f : WithoutSteps(T, seq, gone, f)
  <1> DEFINE n == Len(seq)
             A == Seq(T)
             F == [p \in (1..n) \X A |-> Kept(gone, p[2], seq[p[1]])]
             Iter(g) == g = [s \in SUBSET DOMAIN seq |->
                                IF s = {} THEN << >> ELSE Kept(gone, g[s \ {Max(s)}], seq[Max(s)])]
             it == CHOOSE it : Iter(it)
  <1>1. n \in Nat /\ DOMAIN seq = 1..n /\ \A i \in 1..n : seq[i] \in T
    OBVIOUS
  <1>2. \A a \in A, e \in T : Kept(gone, a, e) \in A
    BY DEF Kept
  <1>3. << >> \in A
    OBVIOUS
  <1>4. Without(seq, gone) = it[1..n]
    BY <1>1 DEF Without, Kept, FoldLeft, MapThenFoldSet
  <1> HIDE DEF A, n
  <1>5. F \in [(1..n) \X A -> A]
    BY <1>1, <1>2
  <1>6. \A i \in 1..n, a \in A : F[<<i, a>>] = Kept(gone, a, seq[i])
    OBVIOUS
  <1> HIDE DEF F
  <1>7. PICK g : Folded(n, A, << >>, F, g)
    BY <1>1, <1>3, <1>5, FoldExists
  <1>8. Iter(g)
    <2>1. g \in [SUBSET (1..n) -> A]
      BY <1>7 DEF Folded
    <2>2. ASSUME NEW s \in SUBSET (1..n)
          PROVE  g[s] = IF s = {} THEN << >> ELSE Kept(gone, g[s \ {Max(s)}], seq[Max(s)])
      <3>1. CASE s # {}
        <4>1. Max(s) \in 1..n /\ g[s \ {Max(s)}] \in A
          BY <1>1, <2>1, <3>1, MaxIs
        <4>2. g[s] = F[<<Max(s), g[s \ {Max(s)}]>>]
          BY <1>7, <3>1 DEF Folded
        <4> QED BY <1>6, <3>1, <4>1, <4>2
      <3> QED BY <1>7, <3>1 DEF Folded
    <2> QED BY <1>1, <2>1, <2>2
  <1>9. Iter(it)
    BY <1>8
  <1> HIDE DEF it
  <1>10. Unfolds(n, A, << >>, F, it)
    <2>1. \A s \in SUBSET (1..n) :
             it[s] = IF s = {} THEN << >> ELSE Kept(gone, it[s \ {Max(s)}], seq[Max(s)])
      BY <1>1, <1>9
    <2>2. \A s \in SUBSET (1..n) : s # {} => Max(s) \in 1..n
      BY <1>1, MaxIs
    <2> QED BY <1>6, <2>1, <2>2 DEF Unfolds
  <1>11. /\ it[1..0] = << >>
         /\ \A k \in 0..n : it[1..k] \in A
         /\ \A k \in 0..n - 1 : it[1..k + 1] = F[<<k + 1, it[1..k]>>]
    <2>1. it[1..0] = << >>
      BY <1>10, PrefixMax DEF Unfolds
    <2>2. \A k \in 0..n : it[1..k] \in A
      BY <1>1, <1>3, <1>5, <1>10, FoldPrefixes
    <2>3. ASSUME NEW k \in 0..n - 1
          PROVE  it[1..k + 1] = F[<<k + 1, it[1..k]>>]
      <3>1. k \in Nat /\ k \in 0..n /\ 1..k + 1 \in SUBSET (1..n)
        BY <1>1
      <3>2. Max(1..k + 1) = k + 1 /\ (1..k + 1) \ {k + 1} = 1..k /\ 1..k + 1 # {}
        BY <3>1, PrefixMax
      <3> QED BY <1>10, <2>2, <3>1, <3>2 DEF Unfolds
    <2> QED BY <2>1, <2>2, <2>3
  <1> DEFINE f == [k \in 0..n |-> it[1..k]]
  <1>12. /\ f \in [0..n -> A] /\ f[0] = << >> /\ f[n] = it[1..n]
         /\ \A k \in 0..n - 1 : f[k + 1] = Kept(gone, f[k], seq[k + 1])
    <2>1. ASSUME NEW k \in 0..n - 1
          PROVE  k \in 0..n /\ k + 1 \in 0..n /\ k + 1 \in 1..n
      BY <1>1
    <2>2. 0 \in 0..n /\ n \in 0..n
      BY <1>1
    <2> QED BY <1>6, <1>11, <2>1, <2>2
  <1> QED BY <1>4, <1>12 DEF WithoutSteps, n, A

LEMMA WithoutEmpty == ASSUME NEW gone PROVE Without(<< >>, gone) = << >>
  <1>1. << >> \in Seq({}) /\ Len(<< >>) = 0
    OBVIOUS
  <1>2. PICK f : WithoutSteps({}, << >>, gone, f)
    BY <1>1, WithoutFold
  <1> QED BY <1>1, <1>2 DEF WithoutSteps

LEMMA WithoutType ==
    ASSUME NEW T, NEW gone, NEW s \in Seq(T)
    PROVE  Without(s, gone) \in Seq(T)
  <1>1. PICK f : WithoutSteps(T, s, gone, f)
    BY WithoutFold
  <1>2. Len(s) \in 0..Len(s)
    OBVIOUS
  <1> QED BY <1>1, <1>2 DEF WithoutSteps

LEMMA WithoutAppend ==
    ASSUME NEW T, NEW gone, NEW s \in Seq(T), NEW e \in T
    PROVE  Without(Append(s, e), gone) = Kept(gone, Without(s, gone), e)
  <1> DEFINE n == Len(s)
             t == Append(s, e)
  <1>1. /\ n \in Nat /\ t \in Seq(T) /\ Len(t) = n + 1 /\ t[n + 1] = e
        /\ \A i \in 1..n : t[i] = s[i]
    OBVIOUS
  <1>2. PICK f : WithoutSteps(T, s, gone, f)
    BY WithoutFold
  <1> HIDE DEF t
  <1>3. PICK g : WithoutSteps(T, t, gone, g)
    BY <1>1, WithoutFold
  <1>4. /\ f[0] = << >> /\ g[0] = << >>
        /\ \A k \in 0..n - 1 : f[k + 1] = Kept(gone, f[k], s[k + 1])
        /\ \A k \in 0..n : g[k + 1] = Kept(gone, g[k], t[k + 1])
        /\ Without(s, gone) = f[n] /\ Without(t, gone) = g[n + 1]
    BY <1>1, <1>2, <1>3 DEF WithoutSteps
  <1> HIDE DEF n
  <1> DEFINE P == {k \in 0..n : f[k] = g[k]}
  <1>5. 0 \in P
    BY <1>1, <1>4
  <1>6. ASSUME NEW k \in 0..n - 1, k \in P
        PROVE  k + 1 \in P
    <2>1. k \in 0..n /\ k + 1 \in 0..n /\ k + 1 \in 1..n
      BY <1>1
    <2> QED BY <1>1, <1>4, <1>6, <2>1
  <1>7. n \in P
    <2> HIDE DEF P
    <2>1. \A k \in 0..n : k \in P
      BY <1>1, <1>5, <1>6, UpTo
    <2> QED BY <1>1, <2>1
  <1>8. n \in 0..n
    BY <1>1
  <1> QED BY <1>1, <1>4, <1>7, <1>8 DEF t

LEMMA EntriesOf ==
    ASSUME NEW T
    PROVE  /\ ToSet(<< >>) = {}
           /\ \A s \in Seq(T), e \in T : ToSet(Append(s, e)) = ToSet(s) \cup {e}
           /\ \A s \in Seq(T) : ToSet(s) \subseteq T
  <1>1. ASSUME NEW s \in Seq(T), NEW e \in T
        PROVE  ToSet(Append(s, e)) = ToSet(s) \cup {e}
    <2> DEFINE t == Append(s, e)
    <2>1. /\ Len(s) \in Nat /\ DOMAIN s = 1..Len(s) /\ DOMAIN t = 1..Len(s) + 1
          /\ t[Len(s) + 1] = e /\ \A i \in 1..Len(s) : t[i] = s[i]
      OBVIOUS
    <2> HIDE DEF t
    <2>2. 1..Len(s) + 1 = (1..Len(s)) \cup {Len(s) + 1}
      BY <2>1
    <2>3. ToSet(t) = ToSet(s) \cup {e}
      BY <2>1, <2>2 DEF ToSet
    <2> QED BY <2>3 DEF t
  <1>2. ToSet(<< >>) = {}
    BY DEF ToSet
  <1>3. ASSUME NEW s \in Seq(T)
        PROVE  ToSet(s) \subseteq T
    BY DEF ToSet
  <1> QED BY <1>1, <1>2, <1>3

(* What is left are the other entries. *)
LEMMA WithoutHas ==
    ASSUME NEW T, NEW gone
    PROVE  \A s \in Seq(T) : ToSet(Without(s, gone)) = ToSet(s) \ gone
  <1> DEFINE P == {s \in Seq(T) : ToSet(Without(s, gone)) = ToSet(s) \ gone}
  <1>1. << >> \in P
    <2>1. << >> \in Seq(T)
      OBVIOUS
    <2> QED BY <2>1, WithoutEmpty, EntriesOf
  <1>2. ASSUME NEW s \in Seq(T), NEW e \in T, s \in P
        PROVE  Append(s, e) \in P
    <2> DEFINE w == Without(s, gone)
    <2>1. w \in Seq(T) /\ Without(Append(s, e), gone) = Kept(gone, w, e) /\ Append(s, e) \in Seq(T)
      BY WithoutType, WithoutAppend, AppendProperties
    <2>2. ToSet(w) = ToSet(s) \ gone
      BY <1>2
    <2> HIDE DEF w
    <2>3. ToSet(Kept(gone, w, e)) = (ToSet(s) \cup {e}) \ gone
      BY <2>1, <2>2, EntriesOf DEF Kept
    <2> QED BY <2>1, <2>3, EntriesOf
  <1> HIDE DEF P
  <1>3. \A s \in Seq(T) : s \in P
    BY <1>1, <1>2, SeqInduction
  <1> QED BY <1>3 DEF P

(* Taking out less first makes no difference. *)
LEMMA WithoutWithout ==
    ASSUME NEW T, NEW gone, NEW some \in SUBSET gone
    PROVE  \A s \in Seq(T) : Without(Without(s, some), gone) = Without(s, gone)
  <1> DEFINE P == {s \in Seq(T) : Without(Without(s, some), gone) = Without(s, gone)}
  <1>1. << >> \in P
    <2>1. Without(<< >>, some) = << >> /\ Without(<< >>, gone) = << >>
      BY WithoutEmpty
    <2> QED BY <2>1
  <1>2. ASSUME NEW s \in Seq(T), NEW e \in T, s \in P
        PROVE  Append(s, e) \in P
    <2> DEFINE w == Without(s, some)
    <2>1. w \in Seq(T) /\ Without(Append(s, e), some) = Kept(some, w, e) /\ Append(s, e) \in Seq(T)
      BY WithoutType, WithoutAppend, AppendProperties
    <2>2. Without(w, gone) = Without(s, gone)
      BY <1>2
    <2> HIDE DEF w
    <2>3. Without(Append(s, e), gone) = Kept(gone, Without(s, gone), e)
      BY WithoutAppend
    <2>4. Without(Append(w, e), gone) = Kept(gone, Without(w, gone), e)
      BY <2>1, WithoutAppend
    <2>5. Without(Kept(some, w, e), gone) = Kept(gone, Without(s, gone), e)
      BY <2>2, <2>4 DEF Kept
    <2> QED BY <2>1, <2>3, <2>5
  <1> HIDE DEF P
  <1>3. \A s \in Seq(T) : s \in P
    BY <1>1, <1>2, SeqInduction
  <1> QED BY <1>3 DEF P

LEMMA WithoutConcat ==
    ASSUME NEW T, NEW gone, NEW s \in Seq(T)
    PROVE  \A t \in Seq(T) : Without(s \o t, gone) = Without(s, gone) \o Without(t, gone)
  <1> DEFINE P == {t \in Seq(T) : Without(s \o t, gone) = Without(s, gone) \o Without(t, gone)}
  <1>1. << >> \in P
    <2>1. Without(<< >>, gone) = << >> /\ Without(s, gone) \in Seq(T)
      BY WithoutEmpty, WithoutType
    <2>2. s \o << >> = s /\ Without(s, gone) \o << >> = Without(s, gone)
      BY <2>1, ConcatEmptySeq
    <2> QED BY <2>1, <2>2
  <1>2. ASSUME NEW t \in Seq(T), NEW e \in T, t \in P
        PROVE  Append(t, e) \in P
    <2> DEFINE u == s \o t
               v == Without(s, gone)
               w == Without(t, gone)
    <2>1. u \in Seq(T) /\ v \in Seq(T) /\ w \in Seq(T)
      BY WithoutType, ConcatProperties
    <2>2. s \o Append(t, e) = Append(u, e)
      OBVIOUS
    <2>3. Without(u, gone) = v \o w
      BY <1>2
    <2> HIDE DEF u, v, w
    <2>4. v \o Append(w, e) = Append(v \o w, e)
      BY <2>1
    <2>5. Without(Append(u, e), gone) = Kept(gone, v \o w, e)
      BY <2>1, <2>3, WithoutAppend
    <2>6. Without(Append(t, e), gone) = Kept(gone, w, e)
      BY WithoutAppend DEF w
    <2>7. Without(s \o Append(t, e), gone) = v \o Without(Append(t, e), gone)
      BY <2>2, <2>4, <2>5, <2>6 DEF Kept
    <2> QED BY <2>7 DEF v
  <1> HIDE DEF P
  <1>3. \A t \in Seq(T) : t \in P
    BY <1>1, <1>2, SeqInduction
  <1> QED BY <1>3 DEF P

(* An entry that is taken out may be changed before. *)
LEMMA WithoutExcept ==
    ASSUME NEW T, NEW gone, NEW x \in T, x \in gone
    PROVE  \A s \in Seq(T) : \A i \in DOMAIN s :
              s[i] \in gone => Without([s EXCEPT ![i] = x], gone) = Without(s, gone)
  <1> DEFINE P == {s \in Seq(T) : \A i \in DOMAIN s :
                      s[i] \in gone => Without([s EXCEPT ![i] = x], gone) = Without(s, gone)}
  <1>1. << >> \in P
    OBVIOUS
  <1>2. ASSUME NEW s \in Seq(T), NEW e \in T, s \in P
        PROVE  Append(s, e) \in P
    <2> DEFINE t == Append(s, e)
    <2>1. /\ Len(s) \in Nat /\ DOMAIN s = 1..Len(s) /\ t \in Seq(T) /\ Len(t) = Len(s) + 1
          /\ DOMAIN t = 1..Len(s) + 1 /\ t[Len(s) + 1] = e /\ \A i \in 1..Len(s) : t[i] = s[i]
      OBVIOUS
    <2>2. ASSUME NEW i \in DOMAIN t, t[i] \in gone
          PROVE  Without([t EXCEPT ![i] = x], gone) = Without(t, gone)
      <3>1. CASE i = Len(s) + 1
        <4>1. [t EXCEPT ![i] = x] = Append(s, x)
          <5>1. i \in 1..Len(t) /\ Append(s, x) \in Seq(T) /\ Len(Append(s, x)) = Len(t)
            BY <2>1, <3>1, AppendProperties
          <5>2. \A j \in 1..Len(t) : Append(s, x)[j] = IF j = i THEN x ELSE t[j]
            BY <2>1, <3>1, AppendProperties
          <5>3. /\ [t EXCEPT ![i] = x] \in Seq(T) /\ Len([t EXCEPT ![i] = x]) = Len(t)
                /\ \A j \in 1..Len(t) : [t EXCEPT ![i] = x][j] = IF j = i THEN x ELSE t[j]
            BY <2>1, <5>1, ExceptSeq
          <5> HIDE DEF t
          <5> QED BY <5>1, <5>2, <5>3, SeqEqual
        <4>2. Without(Append(s, x), gone) = Without(s, gone)
          BY WithoutAppend DEF Kept
        <4>3. Without(t, gone) = Without(s, gone)
          BY <2>1, <2>2, <3>1, WithoutAppend DEF Kept
        <4> QED BY <4>1, <4>2, <4>3
      <3>2. CASE i # Len(s) + 1
        <4> DEFINE u == [s EXCEPT ![i] = x]
        <4>1. i \in DOMAIN s /\ s[i] \in gone
          BY <2>1, <2>2, <3>2
        <4>2. u \in Seq(T)
          BY <2>1, <4>1, ExceptSeq
        <4>3. [t EXCEPT ![i] = x] = Append(u, e)
          <5>1. /\ i \in 1..Len(t) /\ i \in 1..Len(s)
                /\ \A j \in 1..Len(s) : u[j] = IF j = i THEN x ELSE s[j]
                /\ Len(u) = Len(s)
            BY <2>1, <4>1, ExceptSeq
          <5> HIDE DEF u
          <5>2. /\ Append(u, e) \in Seq(T) /\ Len(Append(u, e)) = Len(t)
                /\ \A j \in 1..Len(t) : Append(u, e)[j] = IF j = i THEN x ELSE t[j]
            BY <2>1, <3>2, <4>2, <5>1, AppendProperties
          <5> HIDE DEF t
          <5>3. /\ [t EXCEPT ![i] = x] \in Seq(T) /\ Len([t EXCEPT ![i] = x]) = Len(t)
                /\ \A j \in 1..Len(t) : [t EXCEPT ![i] = x][j] = IF j = i THEN x ELSE t[j]
            BY <2>1, <5>1, ExceptSeq
          <5> QED BY <5>2, <5>3, SeqEqual
        <4>4. Without(u, gone) = Without(s, gone)
          BY <1>2, <4>1
        <4> HIDE DEF u
        <4>5. Without(Append(u, e), gone) = Kept(gone, Without(s, gone), e)
          BY <4>2, <4>4, WithoutAppend
        <4>6. Without(t, gone) = Kept(gone, Without(s, gone), e)
          BY WithoutAppend
        <4> HIDE DEF t
        <4> QED BY <4>3, <4>5, <4>6
      <3> QED BY <3>1, <3>2
    <2> QED BY <2>1, <2>2
  <1> HIDE DEF P
  <1>3. \A s \in Seq(T) : s \in P
    BY <1>1, <1>2, SeqInduction
  <1> QED BY <1>3 DEF P

(* At most one entry of a sequence is of P. *)
Once(s, P) == \A i, j \in DOMAIN s : s[i] \in P /\ s[j] \in P => i = j

LEMMA OnceAppend ==
    ASSUME NEW T, NEW s \in Seq(T), NEW e \in T, NEW P
    PROVE  /\ Once(Append(s, e), P) <=> Once(s, P) /\ (e \in P => ToSet(s) \cap P = {})
           /\ Once(<< >>, P)
  <1> DEFINE t == Append(s, e)
  <1>1. /\ Len(s) \in Nat /\ DOMAIN s = 1..Len(s) /\ DOMAIN t = 1..Len(s) + 1
        /\ t[Len(s) + 1] = e /\ \A i \in 1..Len(s) : t[i] = s[i]
    OBVIOUS
  <1> HIDE DEF t
  <1>2. ASSUME Once(t, P) PROVE Once(s, P) /\ (e \in P => ToSet(s) \cap P = {})
    <2>1. ASSUME NEW i \in DOMAIN s
          PROVE  i \in DOMAIN t /\ t[i] = s[i] /\ i # Len(s) + 1
      BY <1>1
    <2>2. Len(s) + 1 \in DOMAIN t
      BY <1>1
    <2> QED BY <1>1, <1>2, <2>1, <2>2 DEF Once, ToSet
  <1>3. ASSUME Once(s, P), e \in P => ToSet(s) \cap P = {} PROVE Once(t, P)
    <2>1. ASSUME NEW i \in DOMAIN t
          PROVE  i = Len(s) + 1 \/ (i \in DOMAIN s /\ t[i] = s[i])
      BY <1>1
    <2> QED BY <1>1, <1>3, <2>1 DEF Once, ToSet
  <1>4. Once(<< >>, P)
    BY DEF Once
  <1> QED BY <1>2, <1>3, <1>4 DEF t

LEMMA WithoutOnce ==
    ASSUME NEW T, NEW gone, NEW P
    PROVE  \A s \in Seq(T) :
              /\ Once(s, P) => Once(Without(s, gone), P)
              /\ P \cap gone = {} /\ Once(Without(s, gone), P) => Once(s, P)
  <1> DEFINE R == {s \in Seq(T) :
                      /\ Once(s, P) => Once(Without(s, gone), P)
                      /\ P \cap gone = {} /\ Once(Without(s, gone), P) => Once(s, P)}
  <1>1. << >> \in R
    <2>1. Without(<< >>, gone) = << >> /\ << >> \in Seq(T)
      BY WithoutEmpty
    <2> QED BY <2>1
  <1>2. ASSUME NEW s \in Seq(T), NEW e \in T, s \in R
        PROVE  Append(s, e) \in R
    <2> DEFINE w == Without(s, gone)
    <2>1. w \in Seq(T) /\ Without(Append(s, e), gone) = Kept(gone, w, e) /\ Append(s, e) \in Seq(T)
      BY WithoutType, WithoutAppend, AppendProperties
    <2>2. ToSet(w) = ToSet(s) \ gone
      BY WithoutHas
    <2>3. /\ Once(s, P) => Once(w, P)
          /\ P \cap gone = {} /\ Once(w, P) => Once(s, P)
      BY <1>2
    <2> HIDE DEF w
    <2>4. Once(Append(s, e), P) <=> Once(s, P) /\ (e \in P => ToSet(s) \cap P = {})
      BY OnceAppend
    <2>5. Once(Append(w, e), P) <=> Once(w, P) /\ (e \in P => ToSet(w) \cap P = {})
      BY <2>1, OnceAppend
    <2>6. CASE e \in gone
      <3>1. Without(Append(s, e), gone) = w
        BY <2>1, <2>6 DEF Kept
      <3> QED BY <2>1, <2>3, <2>4, <2>6, <3>1
    <2>7. CASE e \notin gone
      <3>1. Without(Append(s, e), gone) = Append(w, e)
        BY <2>1, <2>7 DEF Kept
      <3>2. Once(Append(s, e), P) => Once(Append(w, e), P)
        BY <2>2, <2>3, <2>4, <2>5
      <3>3. P \cap gone = {} /\ Once(Append(w, e), P) => Once(Append(s, e), P)
        <4>1. P \cap gone = {} => ToSet(s) \cap P = ToSet(w) \cap P
          BY <2>2
        <4> QED BY <2>3, <2>4, <2>5, <4>1
      <3> QED BY <2>1, <3>1, <3>2, <3>3
    <2> QED BY <2>6, <2>7
  <1> HIDE DEF R
  <1>3. \A s \in Seq(T) : s \in R
    BY <1>1, <1>2, SeqInduction
  <1> QED BY <1>3 DEF R

---------------------------------------------------------------------------
(* Taking one change back. *)

LEMMA ConcatEntries ==
    ASSUME NEW T, NEW s \in Seq(T), NEW t \in Seq(T)
    PROVE  ToSet(s \o t) = ToSet(s) \cup ToSet(t)
  <1> DEFINE u == s \o t
  <1>1. /\ Len(s) \in Nat /\ Len(t) \in Nat /\ DOMAIN s = 1..Len(s) /\ DOMAIN t = 1..Len(t)
        /\ DOMAIN u = 1..Len(s) + Len(t)
        /\ \A i \in 1..Len(s) + Len(t) : u[i] = IF i <= Len(s) THEN s[i] ELSE t[i - Len(s)]
    BY ConcatProperties
  <1> HIDE DEF u
  <1>2. ASSUME NEW i \in DOMAIN u
        PROVE  u[i] \in ToSet(s) \cup ToSet(t)
    <2>1. CASE i <= Len(s)
      BY <1>1, <2>1 DEF ToSet
    <2>2. CASE ~(i <= Len(s))
      <3>1. i - Len(s) \in 1..Len(t)
        BY <1>1, <2>2
      <3> QED BY <1>1, <2>2, <3>1 DEF ToSet
    <2> QED BY <2>1, <2>2
  <1>3. ASSUME NEW i \in DOMAIN s
        PROVE  s[i] \in ToSet(u)
    <2>1. i \in DOMAIN u /\ u[i] = s[i]
      BY <1>1
    <2> QED BY <2>1 DEF ToSet
  <1>4. ASSUME NEW i \in DOMAIN t
        PROVE  t[i] \in ToSet(u)
    <2>1. Len(s) + i \in DOMAIN u /\ u[Len(s) + i] = t[i]
      BY <1>1
    <2> QED BY <2>1 DEF ToSet
  <1>5. ToSet(u) = ToSet(s) \cup ToSet(t)
    BY <1>2, <1>3, <1>4 DEF ToSet
  <1> QED BY <1>5 DEF u

LEMMA VersionsAre ==
    ASSUME NEW doc \in Seq(Declaration), NEW id
    PROVE  VersionsOf(doc, id) = {e.ver : e \in ToSet(doc) \cap Of(id)}
  <1>1. \A i \in DOMAIN doc : doc[i] \in ToSet(doc) /\ (doc[i] \in Of(id) <=> Id(doc[i]) = id)
    BY DEF ToSet, Of
  <1>2. \A e \in ToSet(doc) : \E i \in DOMAIN doc : e = doc[i]
    BY DEF ToSet
  <1>3. ASSUME NEW v \in VersionsOf(doc, id)
        PROVE  v \in {e.ver : e \in ToSet(doc) \cap Of(id)}
    BY <1>1, <1>3 DEF VersionsOf
  <1>4. ASSUME NEW e \in ToSet(doc) \cap Of(id)
        PROVE  e.ver \in VersionsOf(doc, id)
    BY <1>1, <1>2, <1>4 DEF VersionsOf
  <1> QED BY <1>3, <1>4

(* The declarations a renderer of manager m looks for. *)
Matches(m, id) == IF m \in {"uv", "pip"} THEN {e \in Of(id) : e.plain} ELSE Of(id)

(* At most one of them is there. *)
Lone(m, doc, id) == Once(doc, Matches(m, id))

(* What the declarations say that no renderer looks for: the references of *)
(* a list.                                                                 *)
Beside(m, doc, id) == {e.ver : e \in (ToSet(doc) \cap Of(id)) \ Matches(m, id)}

(* Nothing of other dependencies is touched. *)
Local(s, t, id) == \A gone : Of(id) \subseteq gone => Without(s, gone) = Without(t, gone)

LEMMA LineIs ==
    ASSUME NEW c \in Change, NEW m
    PROVE  /\ Line(c) \in Declaration /\ Line(c) \in Matches(m, Id(c)) /\ Line(c).ver = c.old
           /\ Id(Line(c)) = Id(c)
           /\ Matches(m, Id(c)) \subseteq Of(Id(c)) /\ Of(Id(c)) \subseteq Declaration
           /\ \A e \in Of(Id(c)) : Id(e) = Id(c)
  BY DEF Change, Line, Declaration, Matches, Of, Id

LEMMA FirstIs ==
    ASSUME NEW doc \in Seq(Declaration), NEW those
    PROVE  LET i == First(doc, those) IN
           \/ i = 0 /\ ToSet(doc) \cap those = {}
           \/ i \in DOMAIN doc /\ doc[i] \in those /\ i # 0
  <1> DEFINE I == {k \in 1..Len(doc) : doc[k] \in those}
             i == First(doc, those)
  <1>1. i = IF I # {} THEN Min(I) ELSE 0
    BY DEF First, SelectInSeq
  <1>2. Len(doc) \in Nat /\ DOMAIN doc = 1..Len(doc) /\ I \subseteq Nat
    OBVIOUS
  <1>3. ASSUME I # {} PROVE Min(I) \in I
    <2>1. \E x \in I : \A y \in I : x <= y
      <3> HIDE DEF I
      <3> QED BY <1>2, <1>3, LeastNumber
    <2> HIDE DEF I
    <2> QED BY <2>1 DEF Min
  <1>4. I = {} => ToSet(doc) \cap those = {}
    BY <1>2 DEF ToSet
  <1>5. \A k \in I : k \in DOMAIN doc /\ doc[k] \in those /\ k # 0
    BY <1>2
  <1> HIDE DEF I, i
  <1>6. \/ i = 0 /\ ToSet(doc) \cap those = {}
        \/ i \in DOMAIN doc /\ doc[i] \in those /\ i # 0
    BY <1>1, <1>3, <1>4, <1>5
  <1> QED BY <1>6 DEF i

(* A declaration is put in the place of one of the same dependency, or     *)
(* at the end where there was none that matched.                           *)
Put(doc, i, x) == [doc EXCEPT ![i] = x]

LEMMA Replaced ==
    ASSUME NEW doc \in Seq(Declaration), NEW c \in Change, NEW m, NEW i \in DOMAIN doc,
           doc[i] \in Matches(m, Id(c)),
           NEW x \in Matches(m, Id(c)), x.ver = c.old
    PROVE  LET new == Put(doc, i, x) IN
           /\ new \in Seq(Declaration)
           /\ Local(new, doc, Id(c))
           /\ Lone(m, doc, Id(c)) => VersionsOf(new, Id(c)) = {c.old} \cup Beside(m, doc, Id(c))
  <1> DEFINE new == Put(doc, i, x)
  <1>0. new = [doc EXCEPT ![i] = x]
    BY DEF Put
  <1>1. /\ x \in Of(Id(c)) /\ x \in Declaration /\ Id(x) = Id(c) /\ doc[i] \in Of(Id(c))
        /\ Id(doc[i]) = Id(c)
    BY LineIs
  <1>2. /\ DOMAIN doc = 1..Len(doc) /\ DOMAIN new = DOMAIN doc
        /\ new \in Seq(Declaration)
        /\ \A j \in DOMAIN doc : new[j] = IF j = i THEN x ELSE doc[j]
    BY <1>0, <1>1, ExceptSeq
  <1>3. ASSUME NEW gone, Of(Id(c)) \subseteq gone
        PROVE  Without(new, gone) = Without(doc, gone)
    <2>1. x \in gone /\ doc[i] \in gone
      BY <1>1, <1>3
    <2>2. Without([doc EXCEPT ![i] = x], gone) = Without(doc, gone)
      BY <1>1, <2>1, WithoutExcept
    <2> QED BY <1>0, <2>2
  <1> HIDE DEF new
  <1>4. ASSUME Lone(m, doc, Id(c))
        PROVE  VersionsOf(new, Id(c)) = {c.old} \cup Beside(m, doc, Id(c))
    <2>1. ASSUME NEW j \in DOMAIN new, Id(new[j]) = Id(c)
          PROVE  new[j].ver \in {c.old} \cup Beside(m, doc, Id(c))
      <3>1. CASE j = i
        BY <1>2, <3>1
      <3>2. CASE j # i
        <4>1. j \in DOMAIN doc /\ new[j] = doc[j] /\ doc[j] \in Declaration
          BY <1>2, <2>1, <3>2
        <4>2. doc[j] \notin Matches(m, Id(c))
          BY <1>4, <3>2, <4>1 DEF Lone, Once
        <4>3. doc[j] \in ToSet(doc) /\ doc[j] \in Of(Id(c))
          BY <2>1, <4>1 DEF ToSet, Of
        <4> QED BY <4>1, <4>2, <4>3 DEF Beside
      <3> QED BY <3>1, <3>2
    <2>2. c.old \in VersionsOf(new, Id(c))
      <3>1. i \in DOMAIN new /\ Id(new[i]) = Id(c) /\ new[i].ver = c.old
        BY <1>1, <1>2
      <3> QED BY <3>1 DEF VersionsOf
    <2>3. ASSUME NEW e \in (ToSet(doc) \cap Of(Id(c))) \ Matches(m, Id(c))
          PROVE  e.ver \in VersionsOf(new, Id(c))
      <3>1. PICK j \in DOMAIN doc : e = doc[j]
        BY DEF ToSet
      <3>2. j \in DOMAIN new /\ new[j] = e /\ Id(e) = Id(c)
        BY <1>2, <3>1, LineIs
      <3> QED BY <3>2 DEF VersionsOf
    <2>4. VersionsOf(new, Id(c)) \subseteq {c.old} \cup Beside(m, doc, Id(c))
      BY <2>1 DEF VersionsOf
    <2>5. Beside(m, doc, Id(c)) \subseteq VersionsOf(new, Id(c))
      BY <2>3 DEF Beside
    <2> QED BY <2>2, <2>4, <2>5
  <1> QED BY <1>2, <1>3, <1>4 DEF new, Local

LEMMA Appended ==
    ASSUME NEW doc \in Seq(Declaration), NEW c \in Change, NEW m
    PROVE  LET new == Append(doc, Line(c)) IN
           /\ new \in Seq(Declaration)
           /\ Local(new, doc, Id(c))
           /\ ToSet(doc) \cap Matches(m, Id(c)) = {} =>
                 VersionsOf(new, Id(c)) = {c.old} \cup Beside(m, doc, Id(c))
  <1> DEFINE new == Append(doc, Line(c))
  <1>1. Line(c) \in Of(Id(c)) /\ Line(c) \in Declaration /\ Id(Line(c)) = Id(c) /\ Line(c).ver = c.old
    BY LineIs
  <1>2. new \in Seq(Declaration) /\ ToSet(new) = ToSet(doc) \cup {Line(c)}
    BY <1>1, AppendProperties, EntriesOf
  <1>3. ASSUME NEW gone, Of(Id(c)) \subseteq gone
        PROVE  Without(new, gone) = Without(doc, gone)
    BY <1>1, <1>3, WithoutAppend DEF Kept
  <1> HIDE DEF new
  <1>4. ASSUME ToSet(doc) \cap Matches(m, Id(c)) = {}
        PROVE  VersionsOf(new, Id(c)) = {c.old} \cup Beside(m, doc, Id(c))
    <2>1. VersionsOf(new, Id(c)) = {e.ver : e \in ToSet(new) \cap Of(Id(c))}
      BY <1>2, VersionsAre
    <2>2. ToSet(new) \cap Of(Id(c)) =
             {Line(c)} \cup ((ToSet(doc) \cap Of(Id(c))) \ Matches(m, Id(c)))
      BY <1>1, <1>2, <1>4
    <2> QED BY <1>1, <2>1, <2>2 DEF Beside
  <1> QED BY <1>2, <1>3, <1>4 DEF new, Local

LEMMA TakenOut ==
    ASSUME NEW doc \in Seq(Declaration), NEW c \in Change, NEW m
    PROVE  LET new == Without(doc, Matches(m, Id(c))) IN
           /\ new \in Seq(Declaration)
           /\ Local(new, doc, Id(c))
           /\ VersionsOf(new, Id(c)) = Beside(m, doc, Id(c))
  <1> DEFINE those == Matches(m, Id(c))
             new == Without(doc, those)
  <1>1. those \subseteq Of(Id(c))
    BY LineIs
  <1>2. new \in Seq(Declaration) /\ ToSet(new) = ToSet(doc) \ those
    BY WithoutType, WithoutHas
  <1>3. ASSUME NEW gone, Of(Id(c)) \subseteq gone
        PROVE  Without(new, gone) = Without(doc, gone)
    <2>1. those \in SUBSET gone
      BY <1>1, <1>3
    <2> HIDE DEF those
    <2> QED BY <2>1, WithoutWithout
  <1> HIDE DEF new
  <1>4. VersionsOf(new, Id(c)) = Beside(m, doc, Id(c))
    <2>1. VersionsOf(new, Id(c)) = {e.ver : e \in ToSet(new) \cap Of(Id(c))}
      BY <1>2, VersionsAre
    <2>2. ToSet(new) \cap Of(Id(c)) = (ToSet(doc) \cap Of(Id(c))) \ those
      BY <1>2
    <2> QED BY <2>1, <2>2 DEF Beside
  <1> QED BY <1>2, <1>3, <1>4 DEF new, Local

LEMMA Upserted ==
    ASSUME NEW doc \in Seq(Declaration), NEW c \in Change, NEW m
    PROVE  LET new == Upsert(doc, Matches(m, Id(c)), Line(c)) IN
           /\ new \in Seq(Declaration)
           /\ Local(new, doc, Id(c))
           /\ Lone(m, doc, Id(c)) => VersionsOf(new, Id(c)) = {c.old} \cup Beside(m, doc, Id(c))
  <1> DEFINE those == Matches(m, Id(c))
             i == First(doc, those)
  <1>1. \/ i = 0 /\ ToSet(doc) \cap those = {}
        \/ i \in DOMAIN doc /\ doc[i] \in those /\ i # 0
    BY FirstIs
  <1>2. Upsert(doc, those, Line(c)) =
           IF i = 0 THEN Append(doc, Line(c)) ELSE [doc EXCEPT ![i] = Line(c)]
    BY DEF Upsert
  <1>3. Line(c) \in those /\ Line(c).ver = c.old
    BY LineIs
  <1> HIDE DEF i, those
  <1>4. CASE i = 0 /\ ToSet(doc) \cap those = {}
    <2>1. Upsert(doc, those, Line(c)) = Append(doc, Line(c))
      BY <1>2, <1>4
    <2> QED BY <1>4, <2>1, Appended DEF those
  <1>5. CASE i \in DOMAIN doc /\ doc[i] \in those /\ i # 0
    <2>1. Upsert(doc, those, Line(c)) = Put(doc, i, Line(c))
      BY <1>2, <1>5 DEF Put
    <2> DEFINE new == Put(doc, i, Line(c))
    <2>2. /\ new \in Seq(Declaration)
          /\ Local(new, doc, Id(c))
          /\ Lone(m, doc, Id(c)) =>
                VersionsOf(new, Id(c)) = {c.old} \cup Beside(m, doc, Id(c))
      <3>1. doc[i] \in Matches(m, Id(c)) /\ Line(c) \in Matches(m, Id(c)) /\ i \in DOMAIN doc
        BY <1>3, <1>5 DEF those
      <3> QED BY <1>3, <3>1, Replaced
    <2> QED BY <2>1, <2>2 DEF those
  <1> QED BY <1>1, <1>4, <1>5 DEF those

LEMMA Rewritten ==
    ASSUME NEW doc \in Seq(Declaration), NEW c \in Change, NEW m
    PROVE  LET new == Rewrite(doc, Matches(m, Id(c)), c) IN
           /\ new \in Seq(Declaration)
           /\ Local(new, doc, Id(c))
           /\ Lone(m, doc, Id(c)) => VersionsOf(new, Id(c)) = {c.old} \cup Beside(m, doc, Id(c))
  <1> DEFINE those == Matches(m, Id(c))
             i == First(doc, those)
  <1>1. \/ i = 0 /\ ToSet(doc) \cap those = {}
        \/ i \in DOMAIN doc /\ doc[i] \in those /\ i # 0
    BY FirstIs
  <1>2. Rewrite(doc, those, c) =
           IF i = 0 THEN Append(doc, Line(c)) ELSE [doc EXCEPT ![i].ver = c.old]
    BY DEF Rewrite
  <1> HIDE DEF i, those
  <1>3. CASE i = 0 /\ ToSet(doc) \cap those = {}
    <2>1. Rewrite(doc, those, c) = Append(doc, Line(c))
      BY <1>2, <1>3
    <2> QED BY <1>3, <2>1, Appended DEF those
  <1>4. CASE i \in DOMAIN doc /\ doc[i] \in those /\ i # 0
    <2> DEFINE x == [doc[i] EXCEPT !.ver = c.old]
    <2>1. Rewrite(doc, those, c) = Put(doc, i, x)
      BY <1>2, <1>4 DEF Put
    <2>2. x \in those /\ x.ver = c.old
      <3>1. doc[i] \in Declaration
        BY <1>4
      <3>2. x \in Declaration /\ x.sec = doc[i].sec /\ x.name = doc[i].name /\ x.plain = doc[i].plain
            /\ x.ver = c.old
        BY <3>1 DEF Declaration, Change
      <3> HIDE DEF x
      <3> QED BY <1>4, <3>2 DEF those, Matches, Of, Id
    <2> HIDE DEF x
    <2> DEFINE new == Put(doc, i, x)
    <2>3. /\ new \in Seq(Declaration)
          /\ Local(new, doc, Id(c))
          /\ Lone(m, doc, Id(c)) =>
                VersionsOf(new, Id(c)) = {c.old} \cup Beside(m, doc, Id(c))
      <3>1. doc[i] \in Matches(m, Id(c)) /\ x \in Matches(m, Id(c)) /\ i \in DOMAIN doc
        BY <1>4, <2>2 DEF those
      <3> QED BY <2>2, <3>1, Replaced
    <2> QED BY <2>1, <2>3 DEF those
  <1> QED BY <1>1, <1>3, <1>4 DEF those

(* The state of a renderer; what it holds of the target and what it adds   *)
(* apart from that.                                                        *)
State(m) ==
    IF m = "pip" THEN [lines : Seq(Declaration), appendix : Seq(Declaration)] ELSE Seq(Declaration)
Lines(m, doc) == IF m = "pip" THEN doc.lines ELSE doc
Rest(m, doc) == IF m = "pip" THEN doc.appendix ELSE << >>

LEMMA PartsAre ==
    ASSUME NEW m, NEW doc \in State(m)
    PROVE  Lines(m, doc) \in Seq(Declaration) /\ Rest(m, doc) \in Seq(Declaration)
  BY DEF State, Lines, Rest

(* When a change can be taken back: its dependency is declared once, a     *)
(* removed one not at all.                                                 *)
Ready(m, doc, c) ==
    /\ Lone(m, Lines(m, doc), Id(c))
    /\ ToSet(Rest(m, doc)) \cap Of(Id(c)) = {}
    /\ c.kind = "removed" => \A e \in ToSet(Lines(m, doc)) : Id(e) = Id(c) => ~e.plain

Reverted(c) == IF c.kind = "added" THEN {} ELSE {c.old}

(* The change has its old side, beside what the renderer does not look for. *)
Sided(m, doc, new, c) ==
    VersionsOf(Lines(m, new) \o Rest(m, new), Id(c)) =
        Reverted(c) \cup Beside(m, Lines(m, doc), Id(c))

Reverts(m, doc, new, c) ==
    /\ new \in State(m)
    /\ Local(Lines(m, new), Lines(m, doc), Id(c))
    /\ Local(Rest(m, new), Rest(m, doc), Id(c))
    /\ Ready(m, doc, c) => Sided(m, doc, new, c)

LEMMA RevertsOne ==
    ASSUME NEW m \in Manager \ {"pip"}, NEW doc \in Seq(Declaration), NEW c \in Change,
           NEW new \in Seq(Declaration), Local(new, doc, Id(c)),
           Ready(m, doc, c) => VersionsOf(new, Id(c)) = Reverted(c) \cup Beside(m, doc, Id(c))
    PROVE  Reverts(m, doc, new, c)
  <1>1. /\ State(m) = Seq(Declaration) /\ Lines(m, new) = new /\ Lines(m, doc) = doc
        /\ Rest(m, new) = << >> /\ Rest(m, doc) = << >>
    BY DEF State, Lines, Rest
  <1>2. new \o << >> = new
    BY ConcatEmptySeq
  <1> QED BY <1>1, <1>2 DEF Reverts, Sided, Local

LEMMA RevertsTables ==
    ASSUME NEW m \in Manager \ {"pip", "uv"}, NEW doc \in Seq(Declaration), NEW c \in Change
    PROVE  Reverts(m, doc, Revert(m, doc, c), c)
  <1> DEFINE those == Matches(m, Id(c))
  <1>0. those = Of(Id(c))
    BY DEF Matches
  <1>1. CASE c.kind = "added"
    <2>1. Revert(m, doc, c) = Without(doc, those)
      BY <1>0, <1>1 DEF Revert, RevertInTables, RevertInComposer, RevertInCargo, RevertInGoMod, Delete,
            Manager, JavaScript
    <2> HIDE DEF those
    <2> DEFINE new == Without(doc, those)
    <2>2. /\ new \in Seq(Declaration) /\ Local(new, doc, Id(c))
          /\ VersionsOf(new, Id(c)) = Beside(m, doc, Id(c))
      BY TakenOut DEF those
    <2> HIDE DEF new
    <2>3. Ready(m, doc, c) => VersionsOf(new, Id(c)) = Reverted(c) \cup Beside(m, doc, Id(c))
      BY <1>1, <2>2 DEF Ready, Reverted, Lines
    <2>4. Reverts(m, doc, new, c)
      BY <2>2, <2>3, RevertsOne
    <2> QED BY <2>1, <2>4 DEF new
  <1>2. CASE c.kind # "added"
    <2>1. \/ Revert(m, doc, c) = Upsert(doc, those, Line(c))
          \/ Revert(m, doc, c) = Rewrite(doc, those, c)
      <3>1. c.kind \in {"updated", "removed"}
        BY <1>2 DEF Change
      <3> QED BY <1>0, <3>1 DEF Revert, RevertInTables, RevertInComposer, RevertInCargo, RevertInGoMod,
              Manager, JavaScript
    <2> HIDE DEF those
    <2> DEFINE new == Revert(m, doc, c)
    <2>2. /\ new \in Seq(Declaration) /\ Local(new, doc, Id(c))
          /\ Lone(m, doc, Id(c)) => VersionsOf(new, Id(c)) = {c.old} \cup Beside(m, doc, Id(c))
      <3>1. CASE Revert(m, doc, c) = Upsert(doc, those, Line(c))
        BY <3>1, Upserted DEF those
      <3>2. CASE Revert(m, doc, c) = Rewrite(doc, those, c)
        BY <3>2, Rewritten DEF those
      <3> QED BY <2>1, <3>1, <3>2
    <2> HIDE DEF new
    <2>3. Ready(m, doc, c) => VersionsOf(new, Id(c)) = Reverted(c) \cup Beside(m, doc, Id(c))
      BY <1>2, <2>2 DEF Ready, Reverted, Lines
    <2>4. Reverts(m, doc, new, c)
      BY <2>2, <2>3, RevertsOne
    <2> QED BY <2>4 DEF new
  <1> QED BY <1>1, <1>2

LEMMA RevertsLists ==
    ASSUME NEW doc \in Seq(Declaration), NEW c \in Change
    PROVE  Reverts("uv", doc, Revert("uv", doc, c), c)
  <1> DEFINE those == Matches("uv", Id(c))
             new == Revert("uv", doc, c)
  <1>1. those = SameRequirement(c) /\ those = {e \in Of(Id(c)) : e.plain}
    BY DEF Matches, SameRequirement
  <1>2. new = RevertInPyProject(doc, c)
    BY DEF Revert, JavaScript
  <1> HIDE DEF those, new
  <1>3. /\ c.kind = "added" => new = Without(doc, those)
        /\ c.kind = "updated" => new = Rewrite(doc, those, c)
        /\ c.kind = "removed" => new = Append(doc, Line(c))
        /\ c.kind \in {"added", "updated", "removed"}
    BY <1>1, <1>2 DEF RevertInPyProject, RemovePyRequirement, SetPyRequirement, Change
  <1>4. /\ new \in Seq(Declaration) /\ Local(new, doc, Id(c))
        /\ Ready("uv", doc, c) => VersionsOf(new, Id(c)) = Reverted(c) \cup Beside("uv", doc, Id(c))
    <2>1. CASE c.kind = "added"
      BY <1>3, <2>1, TakenOut DEF Ready, Reverted, Lines, those
    <2>2. CASE c.kind = "updated"
      BY <1>3, <2>2, Rewritten DEF Ready, Reverted, Lines, those
    <2>3. CASE c.kind = "removed"
      <3>1. /\ new \in Seq(Declaration) /\ Local(new, doc, Id(c))
            /\ ToSet(doc) \cap those = {} =>
                  VersionsOf(new, Id(c)) = {c.old} \cup Beside("uv", doc, Id(c))
        BY <1>3, <2>3, Appended DEF those
      <3>2. Ready("uv", doc, c) => ToSet(doc) \cap those = {}
        BY <1>1, <2>3, LineIs DEF Ready, Lines
      <3> QED BY <2>3, <3>1, <3>2 DEF Ready, Reverted, Lines
    <2> QED BY <1>3, <2>1, <2>2, <2>3
  <1>5. "uv" \in Manager \ {"pip"}
    BY Managers
  <1> QED BY <1>4, <1>5, RevertsOne DEF new

(* The versions in two lists together. *)
LEMMA VersionsTogether ==
    ASSUME NEW s \in Seq(Declaration), NEW t \in Seq(Declaration), NEW id
    PROVE  VersionsOf(s \o t, id) = VersionsOf(s, id) \cup VersionsOf(t, id)
  <1> DEFINE u == s \o t
  <1>1. u \in Seq(Declaration) /\ ToSet(u) = ToSet(s) \cup ToSet(t)
    BY ConcatEntries, ConcatProperties
  <1> HIDE DEF u
  <1>2. VersionsOf(u, id) = {e.ver : e \in ToSet(u) \cap Of(id)}
    BY <1>1, VersionsAre
  <1>3. /\ VersionsOf(s, id) = {e.ver : e \in ToSet(s) \cap Of(id)}
        /\ VersionsOf(t, id) = {e.ver : e \in ToSet(t) \cap Of(id)}
    BY VersionsAre
  <1>4. VersionsOf(u, id) = VersionsOf(s, id) \cup VersionsOf(t, id)
    BY <1>1, <1>2, <1>3
  <1> QED BY <1>4 DEF u

LEMMA RevertsRequirements ==
    ASSUME NEW doc \in State("pip"), NEW c \in Change
    PROVE  Reverts("pip", doc, Revert("pip", doc, c), c)
  <1> DEFINE those == Matches("pip", Id(c))
             new == Revert("pip", doc, c)
             lines == doc.lines
             appendix == doc.appendix
  <1>1. those = SameRequirement(c) /\ those = {e \in Of(Id(c)) : e.plain}
    BY DEF Matches, SameRequirement
  <1>2. /\ doc = [lines |-> lines, appendix |-> appendix]
        /\ lines \in Seq(Declaration) /\ appendix \in Seq(Declaration)
    BY DEF State
  <1>3. new = RevertInRequirements(doc, c)
    BY DEF Revert, JavaScript
  <1>4. \A s, t : LET p == [lines |-> s, appendix |-> t] IN
           /\ Lines("pip", p) = s /\ Rest("pip", p) = t
           /\ s \in Seq(Declaration) /\ t \in Seq(Declaration) => p \in State("pip")
    BY DEF Lines, Rest, State
  <1>5. Lines("pip", doc) = lines /\ Rest("pip", doc) = appendix
    BY DEF Lines, Rest
  <1>6. Local(lines, lines, Id(c)) /\ Local(appendix, appendix, Id(c))
    BY DEF Local
  <1>7. Ready("pip", doc, c) => /\ Lone("pip", lines, Id(c)) /\ VersionsOf(appendix, Id(c)) = {}
                               /\ Beside("pip", appendix, Id(c)) = {}
                               /\ ToSet(appendix) \cap those = {}
    <2>1. those \subseteq Of(Id(c))
      BY LineIs
    <2>2. ASSUME Ready("pip", doc, c)
          PROVE  \A i \in DOMAIN appendix : Id(appendix[i]) # Id(c) /\ appendix[i] \notin those
      <3> SUFFICES ASSUME NEW i \in DOMAIN appendix
                   PROVE  Id(appendix[i]) # Id(c) /\ appendix[i] \notin those
        OBVIOUS
      <3>1. appendix[i] \in ToSet(appendix) /\ appendix[i] \in Declaration
        BY <1>2 DEF ToSet
      <3>2. appendix[i] \notin Of(Id(c))
        BY <1>5, <2>2, <3>1 DEF Ready
      <3> QED BY <2>1, <3>1, <3>2 DEF Of
    <2>3. ASSUME Ready("pip", doc, c)
          PROVE  ToSet(appendix) \cap Of(Id(c)) = {}
      BY <1>5, <2>3 DEF Ready
    <2> QED BY <1>5, <2>1, <2>2, <2>3 DEF Ready, VersionsOf, Beside
  <1> HIDE DEF those, new, lines, appendix
  <1>8. CASE c.kind = "added"
    <2> DEFINE kept == Without(lines, those)
    <2>1. new = [lines |-> kept, appendix |-> appendix]
      BY <1>1, <1>2, <1>3, <1>8 DEF RevertInRequirements, DropRequirementLines
    <2>2. /\ kept \in Seq(Declaration) /\ Local(kept, lines, Id(c))
          /\ VersionsOf(kept, Id(c)) = Beside("pip", lines, Id(c))
      BY <1>2, TakenOut DEF those
    <2> HIDE DEF kept
    <2>3. VersionsOf(kept \o appendix, Id(c)) = VersionsOf(kept, Id(c)) \cup VersionsOf(appendix, Id(c))
      BY <1>2, <2>2, VersionsTogether
    <2>4. Ready("pip", doc, c) => VersionsOf(kept \o appendix, Id(c)) =
                                     Reverted(c) \cup Beside("pip", lines, Id(c))
      BY <1>7, <1>8, <2>2, <2>3 DEF Reverted
    <2>5. Reverts("pip", doc, new, c)
      BY <1>2, <1>4, <1>5, <1>6, <2>1, <2>2, <2>4 DEF Reverts, Sided
    <2> QED BY <2>5 DEF new
  <1>9. CASE c.kind = "updated" /\ \E i \in DOMAIN lines : lines[i] \in those
    <2> DEFINE kept == Rewrite(lines, those, c)
    <2>1. new = [lines |-> kept, appendix |-> appendix]
      BY <1>1, <1>2, <1>3, <1>9 DEF RevertInRequirements, RewriteRequirementLine
    <2>2. /\ kept \in Seq(Declaration) /\ Local(kept, lines, Id(c))
          /\ Lone("pip", lines, Id(c)) =>
                VersionsOf(kept, Id(c)) = {c.old} \cup Beside("pip", lines, Id(c))
      BY <1>2, Rewritten DEF those
    <2> HIDE DEF kept
    <2>3. VersionsOf(kept \o appendix, Id(c)) = VersionsOf(kept, Id(c)) \cup VersionsOf(appendix, Id(c))
      BY <1>2, <2>2, VersionsTogether
    <2>4. Ready("pip", doc, c) => VersionsOf(kept \o appendix, Id(c)) =
                                     Reverted(c) \cup Beside("pip", lines, Id(c))
      BY <1>7, <1>9, <2>2, <2>3 DEF Reverted, Ready
    <2>5. Reverts("pip", doc, new, c)
      BY <1>2, <1>4, <1>5, <1>6, <2>1, <2>2, <2>4 DEF Reverts, Sided
    <2> QED BY <2>5 DEF new
  <1>10. CASE \/ c.kind = "updated" /\ ~(\E i \in DOMAIN lines : lines[i] \in those)
              \/ c.kind = "removed"
    <2> DEFINE more == Append(appendix, Line(c))
    <2>1. new = [lines |-> lines, appendix |-> more]
      BY <1>1, <1>2, <1>3, <1>10 DEF RevertInRequirements, RewriteRequirementLine
    <2>2. /\ more \in Seq(Declaration) /\ Local(more, appendix, Id(c))
          /\ ToSet(appendix) \cap those = {} =>
                VersionsOf(more, Id(c)) = {c.old} \cup Beside("pip", appendix, Id(c))
      BY <1>2, Appended DEF those
    <2> HIDE DEF more
    <2>3. VersionsOf(lines \o more, Id(c)) = VersionsOf(lines, Id(c)) \cup VersionsOf(more, Id(c))
      BY <1>2, <2>2, VersionsTogether
    <2>4. Ready("pip", doc, c) => VersionsOf(lines, Id(c)) = Beside("pip", lines, Id(c))
      <3> SUFFICES ASSUME Ready("pip", doc, c)
                   PROVE  VersionsOf(lines, Id(c)) = Beside("pip", lines, Id(c))
        OBVIOUS
      <3>1. ToSet(lines) \cap those = {}
        <4>1. CASE c.kind = "updated"
          BY <1>10, <4>1 DEF ToSet
        <4>2. CASE c.kind = "removed"
          BY <1>1, <1>5, <4>2, LineIs DEF Ready
        <4> QED BY <1>10, <4>1, <4>2
      <3>2. VersionsOf(lines, Id(c)) = {e.ver : e \in ToSet(lines) \cap Of(Id(c))}
        BY <1>2, VersionsAre
      <3>3. (ToSet(lines) \cap Of(Id(c))) \ those = ToSet(lines) \cap Of(Id(c))
        BY <3>1
      <3> QED BY <3>2, <3>3 DEF Beside, those
    <2>5. Ready("pip", doc, c) => VersionsOf(lines \o more, Id(c)) =
                                     Reverted(c) \cup Beside("pip", lines, Id(c))
      BY <1>7, <1>10, <2>2, <2>3, <2>4 DEF Reverted, Ready
    <2>6. Reverts("pip", doc, new, c)
      BY <1>2, <1>4, <1>5, <1>6, <2>1, <2>2, <2>5 DEF Reverts, Sided
    <2> QED BY <2>6 DEF new
  <1>11. c.kind \in {"added", "updated", "removed"}
    BY DEF Change
  <1> QED BY <1>8, <1>9, <1>10, <1>11

(* Whatever the manager. *)
LEMMA RevertIs ==
    ASSUME NEW m \in Manager, NEW doc \in State(m), NEW c \in Change
    PROVE  Reverts(m, doc, Revert(m, doc, c), c)
  <1>1. CASE m = "pip"
    BY <1>1, RevertsRequirements
  <1>2. CASE m # "pip"
    <2>1. doc \in Seq(Declaration)
      BY <1>2 DEF State
    <2> QED BY <1>2, <2>1, RevertsTables, RevertsLists
  <1> QED BY <1>1, <1>2

---------------------------------------------------------------------------
(* Taking changes back one after the other. *)

RevertSteps(m, doc, seq, f) ==
    /\ f \in [0..Len(seq) -> State(m)] /\ f[0] = doc
    /\ \A k \in 0..Len(seq) - 1 : f[k + 1] = Revert(m, f[k], seq[k + 1])

LEMMA RevertFold ==
    ASSUME NEW m \in Manager, NEW doc \in State(m), NEW cs \in Seq(Change), NEW done,
           Unapplied(cs, done) \in Seq(Change)
    PROVE  \E f : /\ RevertSteps(m, doc, Unapplied(cs, done), f)
                  /\ RevertAll(m, doc, cs, done) = f[Len(Unapplied(cs, done))]
  <1> DEFINE seq == Unapplied(cs, done)
             n == Len(seq)
             A == State(m)
             F == [p \in (1..n) \X A |-> Revert(m, p[2], seq[p[1]])]
             Iter(g) == g = [s \in SUBSET DOMAIN seq |->
                                IF s = {} THEN doc ELSE Revert(m, g[s \ {Max(s)}], seq[Max(s)])]
             it == CHOOSE it : Iter(it)
  <1>1. n \in Nat /\ DOMAIN seq = 1..n /\ \A i \in 1..n : seq[i] \in Change
    <2> HIDE DEF seq
    <2>1. seq \in Seq(Change)
      BY DEF seq
    <2> QED BY <2>1
  <1>2. \A a \in A, c \in Change : Revert(m, a, c) \in A
    BY RevertIs DEF Reverts
  <1>3. RevertAll(m, doc, cs, done) = it[1..n]
    <2>1. RevertAll(m, doc, cs, done) = FoldLeft(LAMBDA d, c : Revert(m, d, c), doc, seq)
      BY DEF RevertAll
    <2> HIDE DEF seq
    <2>2. RevertAll(m, doc, cs, done) = it[DOMAIN seq]
      BY <2>1 DEF FoldLeft, MapThenFoldSet
    <2> QED BY <1>1, <2>2
  <1> HIDE DEF A, n, seq
  <1>4. doc \in A
    BY DEF A
  <1>5. F \in [(1..n) \X A -> A]
    BY <1>1, <1>2
  <1>6. \A i \in 1..n, a \in A : F[<<i, a>>] = Revert(m, a, seq[i])
    OBVIOUS
  <1> HIDE DEF F
  <1>7. PICK g : Folded(n, A, doc, F, g)
    BY <1>1, <1>4, <1>5, FoldExists
  <1>8. Iter(g)
    <2>1. g \in [SUBSET (1..n) -> A]
      BY <1>7 DEF Folded
    <2>2. ASSUME NEW s \in SUBSET (1..n)
          PROVE  g[s] = IF s = {} THEN doc ELSE Revert(m, g[s \ {Max(s)}], seq[Max(s)])
      <3>1. CASE s # {}
        <4>1. Max(s) \in 1..n /\ g[s \ {Max(s)}] \in A
          BY <1>1, <2>1, <3>1, MaxIs
        <4>2. g[s] = F[<<Max(s), g[s \ {Max(s)}]>>]
          BY <1>7, <3>1 DEF Folded
        <4> QED BY <1>6, <3>1, <4>1, <4>2
      <3> QED BY <1>7, <3>1 DEF Folded
    <2> QED BY <1>1, <2>1, <2>2
  <1>9. Iter(it)
    BY <1>8
  <1> HIDE DEF it
  <1>10. Unfolds(n, A, doc, F, it)
    <2>1. \A s \in SUBSET (1..n) :
             it[s] = IF s = {} THEN doc ELSE Revert(m, it[s \ {Max(s)}], seq[Max(s)])
      BY <1>1, <1>9
    <2>2. \A s \in SUBSET (1..n) : s # {} => Max(s) \in 1..n
      BY <1>1, MaxIs
    <2> QED BY <1>6, <2>1, <2>2 DEF Unfolds
  <1>11. it[1..0] = doc
    BY <1>10, PrefixMax DEF Unfolds
  <1>12. \A k \in 0..n : it[1..k] \in A
    BY <1>1, <1>4, <1>5, <1>10, FoldPrefixes
  <1>13. ASSUME NEW k \in 0..n - 1
         PROVE  it[1..k + 1] = F[<<k + 1, it[1..k]>>]
    <2>1. k \in Nat /\ k \in 0..n /\ 1..k + 1 \in SUBSET (1..n)
      BY <1>1
    <2>2. Max(1..k + 1) = k + 1 /\ (1..k + 1) \ {k + 1} = 1..k /\ 1..k + 1 # {}
      BY <2>1, PrefixMax
    <2> QED BY <1>10, <1>12, <2>1, <2>2 DEF Unfolds
  <1> DEFINE f == [k \in 0..n |-> it[1..k]]
  <1>14. /\ f \in [0..n -> A] /\ f[0] = doc /\ f[n] = it[1..n]
         /\ \A k \in 0..n - 1 : f[k + 1] = Revert(m, f[k], seq[k + 1])
    <2>1. ASSUME NEW k \in 0..n - 1
          PROVE  k \in 0..n /\ k + 1 \in 0..n /\ k + 1 \in 1..n
      BY <1>1
    <2>2. 0 \in 0..n /\ n \in 0..n
      BY <1>1
    <2> QED BY <1>6, <1>11, <1>12, <1>13, <2>1, <2>2
  <1>15. RevertSteps(m, doc, seq, f)
    BY <1>14 DEF RevertSteps, n, A
  <1> QED BY <1>3, <1>14, <1>15 DEF n, seq

(* All but the declarations of one dependency. *)
Others(id) == Declaration \ Of(id)

LEMMA OthersAre ==
    ASSUME NEW id, NEW k, k # id
    PROVE  Of(k) \subseteq Others(id)
  BY DEF Others, Of

(* What is known of a dependency is known from its declarations. *)
LEMMA OnlyTheSame ==
    ASSUME NEW s \in Seq(Declaration), NEW t \in Seq(Declaration), NEW id,
           Without(s, Others(id)) = Without(t, Others(id))
    PROVE  /\ VersionsOf(s, id) = VersionsOf(t, id)
           /\ ToSet(s) \cap Of(id) = ToSet(t) \cap Of(id)
           /\ \A m : Beside(m, s, id) = Beside(m, t, id)
  <1>1. ToSet(s) \ Others(id) = ToSet(t) \ Others(id)
    BY WithoutHas
  <1>2. ToSet(s) \subseteq Declaration /\ ToSet(t) \subseteq Declaration
    BY EntriesOf
  <1>3. ToSet(s) \cap Of(id) = ToSet(t) \cap Of(id)
    BY <1>1, <1>2 DEF Others
  <1>4. VersionsOf(s, id) = VersionsOf(t, id)
    BY <1>3, VersionsAre
  <1>5. \A m : Beside(m, s, id) = Beside(m, t, id)
    BY <1>3 DEF Beside
  <1> QED BY <1>3, <1>4, <1>5

LEMMA LoneTheSame ==
    ASSUME NEW s \in Seq(Declaration), NEW t \in Seq(Declaration), NEW id, NEW m,
           Without(s, Others(id)) = Without(t, Others(id)), Lone(m, s, id)
    PROVE  Lone(m, t, id)
  <1>1. Matches(m, id) \cap Others(id) = {}
    BY DEF Matches, Others
  <1>2. Once(s, Matches(m, id))
    BY DEF Lone
  <1>3. Once(Without(s, Others(id)), Matches(m, id))
    BY <1>2, WithoutOnce
  <1> QED BY <1>1, <1>3, WithoutOnce DEF Lone

(* Nothing is done to dependencies whose changes are not among these. *)
LEMMA Quiet ==
    ASSUME NEW m \in Manager, NEW doc \in State(m), NEW seq \in Seq(Change), NEW f,
           RevertSteps(m, doc, seq, f),
           NEW a \in 0..Len(seq), NEW b \in a..Len(seq), NEW gone,
           \A j \in a + 1..b : Of(Id(seq[j])) \subseteq gone
    PROVE  /\ Without(Lines(m, f[b]), gone) = Without(Lines(m, f[a]), gone)
           /\ Without(Rest(m, f[b]), gone) = Without(Rest(m, f[a]), gone)
  <1> DEFINE P == {k \in 0..b - a :
                      /\ Without(Lines(m, f[a + k]), gone) = Without(Lines(m, f[a]), gone)
                      /\ Without(Rest(m, f[a + k]), gone) = Without(Rest(m, f[a]), gone)}
  <1>1. /\ Len(seq) \in Nat /\ a \in Nat /\ b \in Nat /\ b - a \in Nat /\ a + 0 = a
        /\ \A i \in 1..Len(seq) : seq[i] \in Change
    OBVIOUS
  <1>2. 0 \in P
    BY <1>1
  <1>3. ASSUME NEW k \in 0..b - a - 1, k \in P
        PROVE  k + 1 \in P
    <2>1. /\ a + k \in 0..Len(seq) - 1 /\ a + k + 1 \in a + 1..b /\ a + k + 1 \in 1..Len(seq)
          /\ a + k \in 0..Len(seq) /\ a + (k + 1) = a + k + 1 /\ k + 1 \in 0..b - a
      BY <1>1
    <2> DEFINE c == seq[a + k + 1]
    <2>2. f[a + k + 1] = Revert(m, f[a + k], c) /\ f[a + k] \in State(m) /\ c \in Change
      BY <1>1, <2>1 DEF RevertSteps
    <2>3. Of(Id(c)) \subseteq gone
      BY <2>1
    <2>4. Reverts(m, f[a + k], f[a + k + 1], c)
      BY <2>2, RevertIs
    <2> HIDE DEF c
    <2>5. /\ Without(Lines(m, f[a + k + 1]), gone) = Without(Lines(m, f[a + k]), gone)
          /\ Without(Rest(m, f[a + k + 1]), gone) = Without(Rest(m, f[a + k]), gone)
      BY <2>3, <2>4 DEF Reverts, Local
    <2> QED BY <1>3, <2>1, <2>5
  <1>4. b - a \in P
    <2> HIDE DEF P
    <2>1. \A k \in 0..b - a : k \in P
      BY <1>1, <1>2, <1>3, UpTo
    <2> QED BY <1>1, <2>1
  <1>5. a + (b - a) = b
    BY <1>1
  <1> QED BY <1>4, <1>5

LEMMA StaysReady ==
    ASSUME NEW m, NEW s \in State(m), NEW t \in State(m), NEW c \in Change,
           Without(Lines(m, t), Others(Id(c))) = Without(Lines(m, s), Others(Id(c))),
           Without(Rest(m, t), Others(Id(c))) = Without(Rest(m, s), Others(Id(c))),
           Ready(m, s, c)
    PROVE  Ready(m, t, c)
  <1> DEFINE sl == Lines(m, s)
             tl == Lines(m, t)
             sr == Rest(m, s)
             tr == Rest(m, t)
             id == Id(c)
  <1>1. /\ sl \in Seq(Declaration) /\ tl \in Seq(Declaration)
        /\ sr \in Seq(Declaration) /\ tr \in Seq(Declaration)
    BY PartsAre
  <1> HIDE DEF sl, tl, sr, tr, id
  <1>2. Without(sl, Others(id)) = Without(tl, Others(id)) /\ Without(sr, Others(id)) = Without(tr, Others(id))
    BY DEF sl, tl, sr, tr, id
  <1>3. Lone(m, sl, id) => Lone(m, tl, id)
    BY <1>1, <1>2, LoneTheSame
  <1>4. ToSet(sl) \cap Of(id) = ToSet(tl) \cap Of(id)
    BY <1>1, <1>2, OnlyTheSame
  <1>5. ToSet(sr) \cap Of(id) = ToSet(tr) \cap Of(id)
    BY <1>1, <1>2, OnlyTheSame
  <1>6. \A e \in ToSet(tl) : Id(e) = id => e \in ToSet(sl)
    <2>1. ToSet(tl) \subseteq Declaration
      BY <1>1, EntriesOf
    <2> QED BY <1>4, <2>1 DEF Of
  <1> QED BY <1>3, <1>5, <1>6 DEF Ready, sl, tl, sr, tr, id

OncePerId(seq) == \A i, j \in 1..Len(seq) : Id(seq[i]) = Id(seq[j]) => i = j

(* A change that is taken back has its old side in the end, whatever else  *)
(* is taken back before and after it.                                      *)
LEMMA SideOf ==
    ASSUME NEW m \in Manager, NEW doc \in State(m), NEW seq \in Seq(Change), NEW f,
           RevertSteps(m, doc, seq, f), OncePerId(seq),
           NEW i \in 1..Len(seq), Ready(m, doc, seq[i])
    PROVE  Sided(m, doc, f[Len(seq)], seq[i])
  <1> DEFINE n == Len(seq)
             c == seq[i]
             o == Others(Id(c))
  <1>1. /\ n \in Nat /\ i - 1 \in 0..n /\ i \in 0..n /\ 0 \in 0..n /\ n \in i..n /\ i - 1 \in 0..i - 1
        /\ \A j \in 1..n : seq[j] \in Change
        /\ i - 1 + 1 = i /\ i - 1 \in 0..n - 1
    OBVIOUS
  <1>2. c \in Change /\ \A j \in 1..n : j # i => Of(Id(seq[j])) \subseteq o
    BY <1>1, OthersAre DEF OncePerId
  <1>3. /\ f[i - 1] \in State(m) /\ f[i] \in State(m) /\ f[n] \in State(m) /\ f[0] = doc
        /\ f[i] = Revert(m, f[i - 1], c)
    BY <1>1 DEF RevertSteps
  <1>4. /\ Without(Lines(m, f[i - 1]), o) = Without(Lines(m, f[0]), o)
        /\ Without(Rest(m, f[i - 1]), o) = Without(Rest(m, f[0]), o)
    <2> DEFINE a == 0
               b == i - 1
    <2>1. a \in 0..Len(seq) /\ b \in a..Len(seq)
      BY <1>1
    <2>2. \A j \in a + 1..b : Of(Id(seq[j])) \subseteq o
      BY <1>1, <1>2
    <2> HIDE DEF o, n, c, a, b
    <2>3. /\ Without(Lines(m, f[b]), o) = Without(Lines(m, f[a]), o)
          /\ Without(Rest(m, f[b]), o) = Without(Rest(m, f[a]), o)
      BY <2>1, <2>2, Quiet
    <2> QED BY <2>3 DEF a, b
  <1>5. /\ Without(Lines(m, f[n]), o) = Without(Lines(m, f[i]), o)
        /\ Without(Rest(m, f[n]), o) = Without(Rest(m, f[i]), o)
    <2>1. \A j \in i + 1..n : Of(Id(seq[j])) \subseteq o
      BY <1>1, <1>2
    <2>2. i \in 0..Len(seq) /\ n \in i..Len(seq)
      BY <1>1
    <2> HIDE DEF o, n, c
    <2> QED BY <2>1, <2>2, Quiet DEF n
  <1>6. Ready(m, f[i - 1], c)
    BY <1>2, <1>3, <1>4, StaysReady
  <1>7. VersionsOf(Lines(m, f[i]) \o Rest(m, f[i]), Id(c)) =
           Reverted(c) \cup Beside(m, Lines(m, doc), Id(c))
    <2>0. Beside(m, Lines(m, f[i - 1]), Id(c)) = Beside(m, Lines(m, doc), Id(c))
      <3>1. Lines(m, f[i - 1]) \in Seq(Declaration) /\ Lines(m, doc) \in Seq(Declaration)
        BY <1>3, PartsAre
      <3>2. Without(Lines(m, f[i - 1]), Others(Id(c))) = Without(Lines(m, doc), Others(Id(c)))
        BY <1>3, <1>4
      <3> HIDE DEF c, o
      <3> QED BY <3>1, <3>2, OnlyTheSame
    <2>1. Reverts(m, f[i - 1], f[i], c)
      BY <1>2, <1>3, RevertIs
    <2> QED BY <1>6, <2>0, <2>1 DEF Reverts, Sided
  <1>8. /\ Lines(m, f[i]) \in Seq(Declaration) /\ Rest(m, f[i]) \in Seq(Declaration)
        /\ Lines(m, f[n]) \in Seq(Declaration) /\ Rest(m, f[n]) \in Seq(Declaration)
    BY <1>3, PartsAre
  <1>9. /\ VersionsOf(Lines(m, f[n]), Id(c)) = VersionsOf(Lines(m, f[i]), Id(c))
        /\ VersionsOf(Rest(m, f[n]), Id(c)) = VersionsOf(Rest(m, f[i]), Id(c))
    BY <1>5, <1>8, OnlyTheSame
  <1> HIDE DEF n, c
  <1>10. /\ VersionsOf(Lines(m, f[n]) \o Rest(m, f[n]), Id(c)) =
               VersionsOf(Lines(m, f[n]), Id(c)) \cup VersionsOf(Rest(m, f[n]), Id(c))
         /\ VersionsOf(Lines(m, f[i]) \o Rest(m, f[i]), Id(c)) =
               VersionsOf(Lines(m, f[i]), Id(c)) \cup VersionsOf(Rest(m, f[i]), Id(c))
    BY <1>8, VersionsTogether
  <1>11. VersionsOf(Lines(m, f[n]) \o Rest(m, f[n]), Id(c)) =
            Reverted(c) \cup Beside(m, Lines(m, doc), Id(c))
    BY <1>7, <1>9, <1>10
  <1> QED BY <1>11 DEF Sided, n, c

---------------------------------------------------------------------------
(* What a candidate declares. *)

(* A dependency has the version of one of its plain declarations. *)
LEMMA SectionsHave ==
    ASSUME NEW doc \in Seq(Declaration), NEW id
    PROVE  /\ id \in DOMAIN Sections(doc) <=> \E j \in DOMAIN doc : doc[j].plain /\ Id(doc[j]) = id
           /\ id \in DOMAIN Sections(doc) =>
                 \E j \in DOMAIN doc : /\ doc[j].plain /\ Id(doc[j]) = id
                                       /\ Sections(doc)[id] = doc[j].ver
  <1> DEFINE I == {j \in 1..Len(doc) : doc[j].plain /\ Id(doc[j]) = id}
  <1>1. Len(doc) \in Nat /\ DOMAIN doc = 1..Len(doc) /\ I \in SUBSET (1..Len(doc))
    OBVIOUS
  <1>2. id \in DOMAIN Sections(doc) <=> I # {}
    BY <1>1 DEF Sections
  <1>3. ASSUME I # {}
        PROVE  Max(I) \in I /\ Sections(doc)[id] = doc[Max(I)].ver
    <2>1. Max(I) \in I
      <3> DEFINE n == Len(doc)
      <3> HIDE DEF I, n
      <3>1. n \in Nat /\ I \in SUBSET (1..n)
        BY <1>1 DEF n
      <3> QED BY <1>3, <3>1, MaxIs
    <2>2. id \in {Id(doc[i]) : i \in {j \in DOMAIN doc : doc[j].plain}}
      BY <1>1, <1>3
    <2>3. Sections(doc)[id] = doc[SelectLastInSeq(doc, LAMBDA e : e.plain /\ Id(e) = id)].ver
      BY <2>2 DEF Sections
    <2>4. SelectLastInSeq(doc, LAMBDA e : e.plain /\ Id(e) = id) = Max(I)
      BY <1>3 DEF SelectLastInSeq
    <2> QED BY <2>1, <2>3, <2>4
  <1> QED BY <1>1, <1>2, <1>3

(* Plain declarations have versions. *)
LEMMA PlainVersions ==
    ASSUME NEW m \in Manager, NEW doc \in Seq(Declaration), Parses(m, doc)
    PROVE  /\ \A i \in DOMAIN doc : doc[i].plain => doc[i].ver \in Specs /\ doc[i].ver # NoSpec
           /\ \A id \in DOMAIN Sections(doc) :
                 Sections(doc)[id] \in Specs /\ Sections(doc)[id] # NoSpec
  <1>1. \A i \in DOMAIN doc : doc[i].plain => doc[i].ver # NoSpec
    BY DEF Parses, Manager, JavaScript, PackageJSON, ComposerJSON, CargoToml, GoMod, PyProject,
          Requirements, HasVersion
  <1>2. \A i \in DOMAIN doc : doc[i].ver \in Specs \cup {NoSpec}
    <2>1. \A i \in DOMAIN doc : doc[i] \in Declaration
      OBVIOUS
    <2> QED BY <2>1 DEF Declaration
  <1> QED BY <1>1, <1>2, SectionsHave

LEMMA PlainOnce ==
    ASSUME NEW doc \in Seq(Declaration), NEW id, DeclaredOnce(doc, id),
           NEW i \in Plain(doc, id), NEW j \in Plain(doc, id)
    PROVE  i = j
  <1> DEFINE I == Plain(doc, id)
             n == Len(doc)
  <1>1. n \in Nat /\ I \subseteq 1..n /\ i \in I /\ j \in I
    BY DEF Plain
  <1>2. Cardinality(I) <= 1
    BY DEF DeclaredOnce
  <1> HIDE DEF I, n
  <1>3. IsFiniteSet(I)
    <2>1. IsFiniteSet(1..n)
      BY <1>1, FS_Interval
    <2> QED BY <1>1, <2>1, FS_Subset
  <1>4. Cardinality(I) \in Nat /\ Cardinality(I) # 0
    BY <1>1, <1>3, FS_CardinalityType, FS_EmptySet
  <1>5. PICK x : I = {x}
    <2>1. Cardinality(I) = 1
      BY <1>2, <1>4
    <2> QED BY <1>3, <2>1, FS_Singleton
  <1> QED BY <1>1, <1>5

(* A dependency that is declared once is found by the renderers. *)
LEMMA DeclaredLone ==
    ASSUME NEW m \in Manager, NEW doc \in Seq(Declaration), Parses(m, doc), NEW id,
           DeclaredOnce(doc, id)
    PROVE  Lone(m, doc, id)
  <1>1. \A i \in DOMAIN doc : doc[i] \in Declaration /\ (doc[i] \in Of(id) <=> Id(doc[i]) = id)
    BY DEF Of
  <1>2. CASE m \notin {"uv", "pip"}
    <2>1. NamedOnce(doc)
      BY <1>2 DEF Parses, Manager, JavaScript, PackageJSON, ComposerJSON, CargoToml, GoMod
    <2>2. Matches(m, id) = Of(id)
      BY <1>2 DEF Matches
    <2> QED BY <1>1, <2>1, <2>2 DEF Lone, Once, NamedOnce
  <1>3. CASE m \in {"uv", "pip"}
    <2>1. \A i \in DOMAIN doc : doc[i] \in Matches(m, id) => i \in Plain(doc, id)
      BY <1>1, <1>3 DEF Matches, Plain
    <2> QED BY <2>1, PlainOnce DEF Lone, Once
  <1> QED BY <1>2, <1>3

(* What base says of a dependency it declares once is what was parsed.     *)
LEMMA DeclaredOld ==
    ASSUME NEW doc \in Seq(Declaration), NEW id, DeclaredOnce(doc, id)
    PROVE  {doc[i].ver : i \in Plain(doc, id)} =
              {Sections(doc)[k] : k \in {id} \cap DOMAIN Sections(doc)}
  <1>1. CASE id \notin DOMAIN Sections(doc)
    <2>1. Plain(doc, id) = {}
      BY <1>1, SectionsHave DEF Plain
    <2> QED BY <1>1, <2>1
  <1>2. CASE id \in DOMAIN Sections(doc)
    <2>1. PICK j \in DOMAIN doc : doc[j].plain /\ Id(doc[j]) = id /\ Sections(doc)[id] = doc[j].ver
      BY <1>2, SectionsHave
    <2>2. j \in Plain(doc, id)
      BY <2>1 DEF Plain
    <2>3. \A i \in Plain(doc, id) : i = j
      BY <2>2, PlainOnce
    <2>4. {doc[i].ver : i \in Plain(doc, id)} = {Sections(doc)[id]}
      BY <2>1, <2>2, <2>3
    <2> QED BY <1>2, <2>4
  <1> QED BY <1>1, <1>2

(* No renderer but that of a list leaves a reference beside a version.     *)
LEMMA BesideAre ==
    ASSUME NEW m \in Manager, NEW doc \in Seq(Declaration), Parses(m, doc), NEW id
    PROVE  Beside(m, doc, id) =
              IF m \in {"uv", "pip"} THEN VersionsOf(doc, id) \cap {NoSpec} ELSE {}
  <1> DEFINE those == ToSet(doc) \cap Of(id)
  <1>1. VersionsOf(doc, id) = {e.ver : e \in those}
    BY VersionsAre
  <1>2. CASE m \notin {"uv", "pip"}
    BY <1>2 DEF Beside, Matches
  <1>3. CASE m \in {"uv", "pip"}
    <2>1. \A i \in DOMAIN doc : doc[i].plain <=> doc[i].ver # NoSpec
      BY <1>3 DEF Parses, JavaScript, PyProject, Requirements, HasVersion
    <2>2. \A e \in those : e.plain <=> e.ver # NoSpec
      BY <2>1 DEF ToSet
    <2>3. \A e \in those : e \in Matches(m, id) <=> e.plain
      BY <1>3 DEF Matches
    <2>4. Beside(m, doc, id) = {e.ver : e \in {x \in those : x.ver = NoSpec}}
      <3>1. those \ Matches(m, id) = {x \in those : x.ver = NoSpec}
        BY <2>2, <2>3
      <3> QED BY <3>1 DEF Beside
    <2> HIDE DEF those
    <2> QED BY <1>1, <1>3, <2>4
  <1> QED BY <1>2, <1>3

LEMMA DeclaredVersion ==
    ASSUME NEW m \in Manager, NEW doc \in Seq(Declaration), Parses(m, doc), NEW id,
           Lone(m, doc, id), id \in DOMAIN Sections(doc)
    PROVE  VersionsOf(doc, id) = {Sections(doc)[id]} \cup Beside(m, doc, id)
  <1>1. PICK j \in DOMAIN doc : doc[j].plain /\ Id(doc[j]) = id /\ Sections(doc)[id] = doc[j].ver
    BY SectionsHave
  <1> DEFINE those == ToSet(doc) \cap Of(id)
             e == doc[j]
  <1>2. e \in those /\ e \in Matches(m, id) /\ e.ver = Sections(doc)[id]
    BY <1>1 DEF Matches, Of, ToSet
  <1>3. ASSUME NEW x \in those, x \in Matches(m, id)
        PROVE  x = e
    <2>1. PICK i \in DOMAIN doc : x = doc[i]
      BY DEF ToSet
    <2> QED BY <1>2, <1>3, <2>1 DEF Lone, Once
  <1>4. VersionsOf(doc, id) = {x.ver : x \in those}
    BY VersionsAre
  <1>5. Beside(m, doc, id) = {x.ver : x \in those \ Matches(m, id)}
    BY DEF Beside
  <1> HIDE DEF those, e
  <1>6. those = {e} \cup (those \ Matches(m, id))
    BY <1>2, <1>3
  <1> QED BY <1>2, <1>4, <1>5, <1>6

(* A candidate is what is left when the changes that are not applied have  *)
(* been taken back one after the other.                                    *)
Renders(m, doc, first, seq, f, new) ==
    /\ first \in State(m) /\ Lines(m, first) = doc /\ Rest(m, first) = << >>
    /\ seq \in Seq(Change) /\ RevertSteps(m, first, seq, f)
    /\ new = Lines(m, f[Len(seq)]) \o Rest(m, f[Len(seq)])

LEMMA RenderIs ==
    ASSUME NEW m \in Manager, NEW doc \in Seq(Declaration), NEW cs \in Seq(Change), NEW done
    PROVE  \E first, f : Renders(m, doc, first, Unapplied(cs, done), f, Render(m, doc, cs, done))
  <1> DEFINE first == IF m = "pip" THEN [lines |-> doc, appendix |-> << >>] ELSE doc
             seq == Unapplied(cs, done)
  <1>1. first \in State(m) /\ Lines(m, first) = doc /\ Rest(m, first) = << >>
    <2>1. << >> \in Seq(Declaration)
      OBVIOUS
    <2> QED BY <2>1 DEF State, Lines, Rest
  <1>2. seq \in Seq(Change)
    BY WithoutType DEF Unapplied
  <1> HIDE DEF first
  <1>3. PICK f : RevertSteps(m, first, seq, f) /\ RevertAll(m, first, cs, done) = f[Len(seq)]
    BY <1>1, <1>2, RevertFold
  <1> HIDE DEF seq
  <1>4. f[Len(seq)] \in State(m)
    <2>1. Len(seq) \in 0..Len(seq)
      BY <1>2
    <2> QED BY <1>3, <2>1 DEF RevertSteps
  <1>5. Render(m, doc, cs, done) = Lines(m, f[Len(seq)]) \o Rest(m, f[Len(seq)])
    <2>1. CASE m = "pip"
      BY <1>3, <2>1 DEF Render, RenderRequirements, Lines, Rest, first
    <2>2. CASE m # "pip"
      <3>1. Render(m, doc, cs, done) = f[Len(seq)]
        BY <1>3, <2>2 DEF Render, first
      <3>2. f[Len(seq)] \in Seq(Declaration)
        BY <1>4, <2>2 DEF State
      <3>3. f[Len(seq)] \o << >> = f[Len(seq)]
        BY <3>2, ConcatEmptySeq
      <3> QED BY <2>2, <3>1, <3>3 DEF Lines, Rest
    <2> QED BY <2>1, <2>2
  <1> QED BY <1>1, <1>2, <1>3, <1>5 DEF Renders, seq

LEMMA UnappliedAre ==
    ASSUME NEW cs \in Seq(Change), NEW done,
           \A i, j \in DOMAIN cs : Id(cs[i]) = Id(cs[j]) => i = j
    PROVE  LET seq == Unapplied(cs, done) IN
           /\ seq \in Seq(Change)
           /\ ToSet(seq) = {c \in ToSet(cs) : Id(c) \notin done}
           /\ OncePerId(seq)
  <1> DEFINE gone == {c \in Change : Id(c) \in done}
             seq == Unapplied(cs, done)
  <1>1. seq = Without(cs, gone)
    BY DEF Unapplied
  <1> HIDE DEF seq
  <1>2. seq \in Seq(Change)
    BY <1>1, WithoutType
  <1>3. ToSet(seq) = ToSet(cs) \ gone
    <2> HIDE DEF gone
    <2> QED BY <1>1, WithoutHas
  <1>4. ToSet(cs) \subseteq Change
    BY EntriesOf
  <1>5. ASSUME NEW i \in 1..Len(seq), NEW j \in 1..Len(seq), Id(seq[i]) = Id(seq[j])
        PROVE  i = j
    <2> DEFINE P == {c \in Change : Id(c) = Id(seq[i])}
    <2>1. Once(cs, P)
      BY DEF Once
    <2>2. seq[i] \in P /\ seq[j] \in P /\ i \in DOMAIN seq /\ j \in DOMAIN seq
      BY <1>2, <1>5
    <2> HIDE DEF P, gone
    <2>3. Once(seq, P)
      BY <1>1, <2>1, WithoutOnce
    <2> QED BY <2>2, <2>3 DEF Once
  <1> QED BY <1>2, <1>3, <1>4, <1>5 DEF seq, OncePerId

LEMMA CandidateIs ==
    ASSUME NEW m \in Manager, NEW doc \in Seq(Declaration), NEW cs \in Seq(Change), NEW done
    PROVE  Render(m, doc, cs, done) \in Seq(Declaration)
  <1> DEFINE seq == Unapplied(cs, done)
             new == Render(m, doc, cs, done)
  <1>1. PICK first, f : Renders(m, doc, first, seq, f, new)
    BY RenderIs
  <1> HIDE DEF seq, new
  <1>2. f[Len(seq)] \in State(m)
    <2>1. seq \in Seq(Change)
      BY <1>1 DEF Renders
    <2>2. Len(seq) \in 0..Len(seq)
      BY <2>1
    <2> QED BY <1>1, <2>2 DEF Renders, RevertSteps
  <1>3. new \in Seq(Declaration)
    BY <1>1, <1>2, PartsAre, ConcatProperties DEF Renders
  <1> QED BY <1>3 DEF new

(* What the renderer has no reason to touch stays. *)
LEMMA RenderKeeps ==
    ASSUME NEW m \in Manager, NEW doc \in Seq(Declaration), NEW first, NEW seq, NEW f, NEW new,
           Renders(m, doc, first, seq, f, new),
           NEW gone, \A c \in ToSet(seq) : Of(Id(c)) \subseteq gone
    PROVE  Without(new, gone) = Without(doc, gone)
  <1> DEFINE n == Len(seq)
             a == 0
  <1>1. /\ first \in State(m) /\ seq \in Seq(Change) /\ RevertSteps(m, first, seq, f)
        /\ Lines(m, first) = doc /\ Rest(m, first) = << >>
        /\ new = Lines(m, f[n]) \o Rest(m, f[n])
    BY DEF Renders
  <1>2. a \in 0..Len(seq) /\ n \in a..Len(seq) /\ n \in 0..n
    BY <1>1
  <1>3. \A j \in a + 1..n : Of(Id(seq[j])) \subseteq gone
    <2> SUFFICES ASSUME NEW j \in 1..n PROVE Of(Id(seq[j])) \subseteq gone
      BY <1>1
    <2>1. seq[j] \in ToSet(seq)
      BY <1>1 DEF ToSet
    <2> QED BY <2>1
  <1>4. f[a] = first /\ f[n] \in State(m)
    BY <1>1, <1>2 DEF RevertSteps
  <1> HIDE DEF a, n
  <1>5. /\ Without(Lines(m, f[n]), gone) = Without(Lines(m, f[a]), gone)
        /\ Without(Rest(m, f[n]), gone) = Without(Rest(m, f[a]), gone)
    <2>1. n \in a..Len(seq) /\ a \in 0..Len(seq)
      BY <1>2
    <2>2. first \in State(m) /\ seq \in Seq(Change) /\ RevertSteps(m, first, seq, f)
      BY <1>1
    <2> QED BY <1>3, <2>1, <2>2, Quiet
  <1>6. Lines(m, f[n]) \in Seq(Declaration) /\ Rest(m, f[n]) \in Seq(Declaration)
    BY <1>4, PartsAre
  <1>7. Without(new, gone) = Without(Lines(m, f[n]), gone) \o Without(Rest(m, f[n]), gone)
    BY <1>1, <1>6, WithoutConcat
  <1>8. Without(Rest(m, f[n]), gone) = << >>
    BY <1>1, <1>4, <1>5, WithoutEmpty
  <1>9. Without(doc, gone) \o << >> = Without(doc, gone)
    BY WithoutType, ConcatEmptySeq
  <1> QED BY <1>1, <1>4, <1>5, <1>7, <1>8, <1>9

---------------------------------------------------------------------------
(* Changes and candidates of a run. *)

(* A change says of the target what the parsers say, and its old side is   *)
(* what the renderers take it back to.                                     *)
Older(old, r, c) ==
    IF c.lockfileOnly THEN {Exact[r[c.name]]}
    ELSE {Sections(old)[id] : id \in {Id(c)} \cap DOMAIN Sections(old)}

Fits(old, new, r, c) ==
    /\ Older(old, r, c) = Reverted(c)
    /\ Id(c) \in DOMAIN Sections(new) <=> c.kind # "removed"
    /\ c.kind # "removed" => c.new = Sections(new)[Id(c)]

AllFit(old, new, r, cs) ==
    /\ \A i \in DOMAIN cs : Fits(old, new, r, cs[i])
    /\ \A i, j \in DOMAIN cs : Id(cs[i]) = Id(cs[j]) => i = j

Typed ==
    /\ stage \in {"revisions", "manifests", "python", "javascript", "workspace", "read",
                  "compare", "decide", "bisect", "trial", "done", "failed"}
    /\ seen \subseteq ManifestFiles \cup JSLocks \cup {"uv.lock"}
    /\ changes \in Seq(Change)
    /\ lockOnly \subseteq LockfileChange
    /\ named \subseteq drift /\ drift \subseteq Names
    /\ applied \subseteq (1..3) \X Names
    /\ candidate \in Seq(Declaration)

(* The candidate is the target's rendering with the subset applied. *)
Made ==
    /\ Compared => Parses(manager, base) /\ Parses(manager, target)
    /\ stage \in {"decide", "bisect", "trial"} =>
          AllFit(base, target, oldR, changes)
    /\ stage = "trial" =>
          applied \subseteq Ids /\ candidate = Render(manager, target, changes, applied)

LEMMA ChangeMade ==
    ASSUME NEW id \in (1..3) \X Names, NEW kind \in {"updated", "added", "removed"},
           NEW o \in Specs \cup {NoSpec}, NEW w \in Specs \cup {NoSpec}
    PROVE  /\ MakeChange(id, kind, o, w) \in Change
           /\ [MakeChange(id, kind, o, w) EXCEPT !.lockfileOnly = TRUE] \in Change
  BY DEF MakeChange, Change

LEMMA DiffFits ==
    ASSUME Known, manager \in Manager, Parses(manager, base), Parses(manager, target),
           NEW c \in Diff(base, target)
    PROVE  c \in Change /\ Fits(base, target, oldR, c)
  <1> DEFINE o == Sections(base)
             w == Sections(target)
  <1>1. base \in Seq(Declaration) /\ target \in Seq(Declaration)
    BY DEF Known
  <1>2. /\ DOMAIN o \subseteq (1..3) \X Names /\ DOMAIN w \subseteq (1..3) \X Names
        /\ \A id \in DOMAIN o : o[id] \in Specs /\ o[id] # NoSpec
        /\ \A id \in DOMAIN w : w[id] \in Specs /\ w[id] # NoSpec
    BY <1>1, SectionsAre, PlainVersions
  <1>3. \/ \E id \in DOMAIN o \ DOMAIN w : c = MakeChange(id, "removed", o[id], NoSpec)
        \/ \E id \in DOMAIN w \ DOMAIN o : c = MakeChange(id, "added", NoSpec, w[id])
        \/ \E id \in DOMAIN o \cap DOMAIN w :
              o[id] # w[id] /\ c = MakeChange(id, "updated", o[id], w[id])
    BY DEF Diff
  <1> HIDE DEF o, w
  <1>4. PICK id \in DOMAIN o \cup DOMAIN w :
           \/ /\ id \notin DOMAIN w /\ id \in DOMAIN o
              /\ c = MakeChange(id, "removed", o[id], NoSpec)
           \/ /\ id \in DOMAIN w /\ id \notin DOMAIN o
              /\ c = MakeChange(id, "added", NoSpec, w[id])
           \/ /\ id \in DOMAIN w /\ id \in DOMAIN o
              /\ c = MakeChange(id, "updated", o[id], w[id])
    BY <1>3
  <1>5. id \in (1..3) \X Names
    BY <1>2
  <1>6. Id(c) = id
    BY <1>4, <1>5, MadeChange
  <1>7. /\ c.lockfileOnly = FALSE
        /\ \/ /\ id \notin DOMAIN w /\ id \in DOMAIN o /\ c.kind = "removed" /\ c.old = o[id]
           \/ /\ id \in DOMAIN w /\ id \notin DOMAIN o /\ c.kind = "added" /\ c.new = w[id]
           \/ /\ id \in DOMAIN w /\ id \in DOMAIN o /\ c.kind = "updated"
              /\ c.old = o[id] /\ c.new = w[id]
    BY <1>4 DEF MakeChange
  <1>8. c \in Change
    <2>1. id \in DOMAIN o => o[id] \in Specs \cup {NoSpec}
      BY <1>2
    <2>2. id \in DOMAIN w => w[id] \in Specs \cup {NoSpec}
      BY <1>2
    <2>3. \A kind \in {"updated", "added", "removed"} :
             \A x, y \in Specs \cup {NoSpec} : MakeChange(id, kind, x, y) \in Change
      BY <1>5, ChangeMade
    <2>4. /\ NoSpec \in Specs \cup {NoSpec} /\ "removed" \in {"updated", "added", "removed"}
          /\ "updated" \in {"updated", "added", "removed"}
          /\ "added" \in {"updated", "added", "removed"}
      OBVIOUS
    <2> QED BY <1>4, <2>1, <2>2, <2>3, <2>4
  <1>9. Older(base, oldR, c) = Reverted(c)
    <2>1. Older(base, oldR, c) = {o[k] : k \in {id} \cap DOMAIN o}
      BY <1>6, <1>7 DEF Older, o
    <2> QED BY <1>7, <2>1 DEF Reverted
  <1>10. /\ id \in DOMAIN w <=> c.kind # "removed"
         /\ c.kind # "removed" => c.new = w[id]
    BY <1>7
  <1> QED BY <1>6, <1>8, <1>9, <1>10 DEF Fits, w

LEMMA DriftIs ==
    ASSUME Known, manager \in Manager, Parses(manager, target)
    PROVE  LockfileOnly(base, target, oldR, newR) \subseteq LockfileChange
  <1> SUFFICES ASSUME NEW lc \in LockfileOnly(base, target, oldR, newR)
               PROVE  lc \in LockfileChange
    OBVIOUS
  <1> DEFINE w == Sections(target)
  <1>1. target \in Seq(Declaration) /\ oldR \in Resolved /\ newR \in Resolved
    BY DEF Known
  <1>2. /\ DOMAIN w \subseteq (1..3) \X Names
        /\ \A id \in DOMAIN w : w[id] \in Specs
    BY <1>1, SectionsAre, PlainVersions
  <1>3. PICK id \in DOMAIN w : /\ Moved(oldR, newR, id[2])
                               /\ lc = [sec |-> id[1], name |-> id[2], spec |-> w[id],
                                        old |-> oldR[id[2]], new |-> newR[id[2]]]
    BY DEF LockfileOnly
  <1> HIDE DEF w
  <1>4. id[1] \in 1..3 /\ id[2] \in Names /\ w[id] \in Specs
    BY <1>2
  <1>5. oldR[id[2]] \in Versions /\ newR[id[2]] \in Versions
    BY <1>1, <1>3, <1>4 DEF Moved, Resolved
  <1> QED BY <1>3, <1>4, <1>5 DEF LockfileChange

LEMMA PinFits ==
    ASSUME Known, manager \in Manager, Parses(manager, base), Parses(manager, target),
           NEW c \in PinChanges(manager, LockfileOnly(base, target, oldR, newR))
    PROVE  c \in Change /\ Fits(base, target, oldR, c)
  <1> DEFINE lcs == LockfileOnly(base, target, oldR, newR)
             o == Sections(base)
             w == Sections(target)
  <1>1. PICK lc \in lcs :
           /\ Pinnable(manager, lc)
           /\ c = [MakeChange(Id(lc), "updated", Exact[lc.old], lc.spec) EXCEPT !.lockfileOnly = TRUE]
    BY DEF PinChanges
  <1>2. lc \in LockfileChange
    BY DriftIs
  <1>3. PICK id \in DOMAIN o \cap DOMAIN w :
           lc = [sec |-> id[1], name |-> id[2], spec |-> w[id],
                 old |-> oldR[id[2]], new |-> newR[id[2]]]
    BY DEF LockfileOnly
  <1>4. target \in Seq(Declaration) /\ DOMAIN w \subseteq (1..3) \X Names
    BY SectionsAre DEF Known
  <1> HIDE DEF lcs, o, w
  <1>5. id \in (1..3) \X Names
    BY <1>4
  <1>6. Id(lc) = id /\ lc.spec = w[id] /\ lc.old = oldR[lc.name] /\ lc.name = id[2]
    BY <1>3, <1>5 DEF Id
  <1>7. lc.old \in DOMAIN Exact
    BY <1>1 DEF Pinnable, Manager, JavaScript, PlainVersion
  <1>8. Exact[lc.old] \in Specs
    BY <1>7, ManifestAssumption
  <1>9. /\ c.lockfileOnly = TRUE /\ c.kind = "updated" /\ c.old = Exact[lc.old] /\ c.new = w[id]
        /\ c.sec = id[1] /\ c.name = id[2] /\ c.name = lc.name
    BY <1>1, <1>6 DEF MakeChange
  <1>10. Id(c) = id
    <2>1. id = <<id[1], id[2]>>
      BY <1>5
    <2> QED BY <1>9, <2>1 DEF Id
  <1>11. c \in Change
    <2>1. lc.spec \in Specs
      BY <1>2 DEF LockfileChange
    <2>2. Id(lc) \in (1..3) \X Names /\ Exact[lc.old] \in Specs \cup {NoSpec}
          /\ lc.spec \in Specs \cup {NoSpec}
      BY <1>5, <1>6, <1>8, <2>1
    <2> QED BY <1>1, <2>2, ChangeMade
  <1>12. Older(base, oldR, c) = Reverted(c)
    BY <1>6, <1>9 DEF Older, Reverted
  <1> QED BY <1>9, <1>10, <1>11, <1>12 DEF Fits, w

(* The changes of a comparison are as the trials need them. *)
LEMMA ComparedFit ==
    ASSUME Known, Typed, Made, CompareRevisions PROVE Typed' /\ Made'
  <1> DEFINE lcs == LockfileOnly(base, target, oldR, newR)
  <1>1. PICK pins \in BOOLEAN :
           LET new == IF pins THEN PinChanges(manager, lcs) ELSE {}
               all == Diff(base, target) \cup new
           IN  /\ changes' = SortChanges(all)
               /\ lockOnly' = Remainder(lcs, new)
               /\ drift' = IF manager = "go" THEN {} ELSE TransitiveDrift(all, lockOnly')
               /\ named' = LockfileOnlyNames(drift')
    BY DEF CompareRevisions
  <1> DEFINE new == IF pins THEN PinChanges(manager, lcs) ELSE {}
             all == Diff(base, target) \cup new
             n == Cardinality(all)
  <1>2. /\ changes' = SortChanges(all) /\ lockOnly' = Remainder(lcs, new)
        /\ drift' = {} \/ drift' = TransitiveDrift(all, lockOnly')
        /\ named' = LockfileOnlyNames(drift')
    BY <1>1
  <1>3. /\ stage = "compare" /\ stage' = "decide"
        /\ UNCHANGED <<seen, manager, base, target, oldR, newR, applied, candidate>>
    BY DEF CompareRevisions, detected, read, rendered
  <1>4. manager \in Manager /\ Parses(manager, base) /\ Parses(manager, target)
    BY <1>3 DEF Known, Made, Chosen, Compared
  <1>5. \A c \in all : c \in Change /\ Fits(base, target, oldR, c)
    BY <1>4, DiffFits, PinFits
  <1>6. /\ IsFiniteSet(all)
        /\ \A c \in all : c.sec \in Nat /\ c.name \in Nat
        /\ \A c, e \in all : Id(c) = Id(e) => c = e
    BY AllChangesAre DEF AllChanges
  <1>7. lockOnly' \subseteq LockfileChange
    <2>1. lcs \subseteq LockfileChange
      BY <1>4, DriftIs
    <2> HIDE DEF lcs, new
    <2> QED BY <1>2, <2>1 DEF Remainder
  <1>8. named' \subseteq drift' /\ drift' \subseteq Names
    <2>1. DOMAIN oldR = Names \cup {Project}
      BY DEF Known, Resolved
    <2> QED BY <1>2, <2>1 DEF TransitiveDrift, LockfileOnlyNames
  <1> HIDE DEF all
  <1>9. /\ n \in Nat /\ changes' \in [1..n -> all]
        /\ \A i, j \in 1..n : i # j => changes'[i] # changes'[j]
    BY <1>2, <1>6, SortChangesIs
  <1> HIDE DEF n
  <1>10. changes' \in Seq(Change) /\ DOMAIN changes' = 1..n
    <2>1. changes' \in [1..n -> Change]
      BY <1>5, <1>9
    <2> QED BY <1>9, <2>1
  <1>11. AllFit(base, target, oldR, changes')
    <2>1. \A i \in 1..n : Fits(base, target, oldR, changes'[i])
      BY <1>5, <1>9
    <2>2. \A i, j \in 1..n : Id(changes'[i]) = Id(changes'[j]) => i = j
      BY <1>6, <1>9
    <2> QED BY <1>10, <2>1, <2>2 DEF AllFit
  <1>13. Typed'
    BY <1>3, <1>7, <1>8, <1>10 DEF Typed
  <1>14. Made'
    BY <1>3, <1>4, <1>11 DEF Made
  <1> QED BY <1>13, <1>14

LEMMA InitMade == Init => Typed /\ Made
  <1>1. /\ << >> \in Seq(Change) /\ << >> \in Seq(Declaration)
    OBVIOUS
  <1> QED BY <1>1 DEF Init, Typed, Made, Compared

LEMMA NextTyped == Known /\ Typed /\ Made /\ [Next]_vars => Typed'
  <1> SUFFICES ASSUME Known, Typed, Made, [Next]_vars PROVE Typed'
    OBVIOUS
  <1> DEFINE Stages == {"revisions", "manifests", "python", "javascript", "workspace", "read",
                        "compare", "decide", "bisect", "trial", "done", "failed"}
             Files == ManifestFiles \cup JSLocks \cup {"uv.lock"}
  <1>1. ASSUME UNCHANGED <<changes, lockOnly, drift, named, applied, candidate>>,
               stage' \in Stages, seen' \subseteq Files
        PROVE  Typed'
    BY <1>1 DEF Typed
  <1>2. seen \subseteq Files
    BY DEF Typed
  <1> USE DEF detected, compared, rendered
  <1>3. CASE Fail
    BY <1>1, <1>2, <1>3 DEF Fail
  <1>4. CASE ResolveRevs
    BY <1>1, <1>2, <1>4 DEF ResolveRevs, Choose
  <1>5. CASE DetectManager
    <2>1. UNCHANGED <<changes, lockOnly, drift, named, applied, candidate>> /\ seen' \subseteq Files
      BY <1>5 DEF DetectManager
    <2>2. stage' \in Stages
      BY <1>5, DetectManagerLeads DEF Choose
    <2> QED BY <1>1, <2>1, <2>2
  <1>6. CASE DetectPython
    <2>1. UNCHANGED <<changes, lockOnly, drift, named, applied, candidate>> /\ seen' \subseteq Files
      BY <1>2, <1>6 DEF DetectPython
    <2>2. stage' \in Stages
      BY <1>6 DEF DetectPython, Choose
    <2> QED BY <1>1, <2>1, <2>2
  <1>7. CASE DetectJavaScript
    <2>1. UNCHANGED <<changes, lockOnly, drift, named, applied, candidate>> /\ seen' \subseteq Files
      BY <1>2, <1>7 DEF DetectJavaScript
    <2>2. stage' \in Stages
      BY <1>7 DEF DetectJavaScript, Detect, Choose
    <2> QED BY <1>1, <2>1, <2>2
  <1>8. CASE CheckWorkspace
    BY <1>1, <1>2, <1>8 DEF CheckWorkspace
  <1>9. CASE ReadManifests
    <2>1. stage' = "compare" /\ seen' = seen
          /\ UNCHANGED <<changes, lockOnly, drift, named, applied, candidate>>
      BY <1>9 DEF ReadManifests
    <2> QED BY <1>1, <1>2, <2>1
  <1>10. CASE CompareRevisions
    BY <1>10, ComparedFit
  <1>11. CASE Decide
    BY <1>1, <1>2, <1>11 DEF Decide
  <1>12. CASE RenderCandidate
    <2>1. /\ stage \in {"bisect", "trial"} /\ stage' = "trial" /\ applied' \subseteq Ids
          /\ candidate' = Render(manager, target, changes, applied')
          /\ UNCHANGED <<seen, changes, lockOnly, drift, named>>
      BY <1>12 DEF RenderCandidate
    <2>2. manager \in Manager /\ target \in Seq(Declaration) /\ changes \in Seq(Change)
      BY <2>1 DEF Known, Chosen, Typed
    <2>3. candidate' \in Seq(Declaration)
      BY <2>1, <2>2, CandidateIs
    <2>4. Ids \subseteq (1..3) \X Names
      <3>1. \A i \in DOMAIN changes : changes[i] \in Change
        BY <2>2
      <3> QED BY <3>1 DEF Ids, Id, Change
    <2> QED BY <2>1, <2>3, <2>4 DEF Typed
  <1>13. CASE BisectionEnds
    BY <1>1, <1>2, <1>13 DEF BisectionEnds
  <1>14. CASE UNCHANGED vars
    BY <1>14 DEF vars, Typed
  <1> QED BY <1>3, <1>4, <1>5, <1>6, <1>7, <1>8, <1>9, <1>10, <1>11, <1>12, <1>13, <1>14
          DEF Next, Ended

LEMMA NextMade == Known /\ Typed /\ Made /\ [Next]_vars => Made'
  <1> SUFFICES ASSUME Known, Typed, Made, [Next]_vars PROVE Made'
    OBVIOUS
  <1>1. ASSUME ~Compared'
        PROVE  Made'
    BY <1>1 DEF Made, Compared
  <1>2. ASSUME Compared', stage' \in {stage, "bisect", "trial"},
               UNCHANGED <<manager, base, target, oldR, changes>>,
               stage' \in {"decide", "bisect", "trial"} => stage \in {"decide", "bisect", "trial"},
               Compared,
               stage' = "trial" => /\ applied' \subseteq Ids
                                   /\ candidate' = Render(manager, target, changes, applied')
        PROVE  Made'
    <2>1. Parses(manager', base') /\ Parses(manager', target')
      BY <1>2 DEF Made
    <2>2. stage' \in {"decide", "bisect", "trial"} => AllFit(base', target', oldR', changes')
      BY <1>2 DEF Made
    <2>3. ASSUME stage' = "trial"
          PROVE  applied' \subseteq Ids' /\ candidate' = Render(manager', target', changes', applied')
      BY <1>2, <2>3 DEF Ids
    <2> QED BY <2>1, <2>2, <2>3 DEF Made
  <1> USE DEF detected, read, compared, rendered
  <1>3. CASE Fail
    BY <1>1, <1>3 DEF Fail, Compared
  <1>4. CASE ResolveRevs
    BY <1>1, <1>4 DEF ResolveRevs, Choose, Compared
  <1>5. CASE DetectManager
    <2>1. stage' \in {"failed", "python", "javascript", "workspace"}
      BY <1>5, DetectManagerLeads DEF Choose
    <2> QED BY <1>1, <2>1 DEF Compared
  <1>6. CASE DetectPython
    BY <1>1, <1>6 DEF DetectPython, Choose, Compared
  <1>7. CASE DetectJavaScript
    BY <1>1, <1>7 DEF DetectJavaScript, Detect, Choose, Compared
  <1>8. CASE CheckWorkspace
    <2>1. stage' \in {"failed", "read"}
      BY <1>8 DEF CheckWorkspace
    <2> QED BY <1>1, <2>1 DEF Compared
  <1>9. CASE ReadManifests
    <2>1. /\ stage' = "compare" /\ manager' = manager
          /\ Parses(manager, base') /\ Parses(manager, target')
      BY <1>9 DEF ReadManifests
    <2> QED BY <2>1 DEF Made
  <1>10. CASE CompareRevisions
    BY <1>10, ComparedFit
  <1>11. CASE Decide
    <2>1. /\ stage = "decide" /\ stage' \in {"done", "bisect"}
          /\ UNCHANGED <<manager, base, target, oldR, changes>>
      BY <1>11 DEF Decide
    <2> QED BY <1>1, <1>2, <2>1 DEF Compared
  <1>12. CASE RenderCandidate
    <2>1. /\ stage \in {"bisect", "trial"} /\ stage' = "trial" /\ applied' \subseteq Ids
          /\ candidate' = Render(manager, target, changes, applied')
          /\ UNCHANGED <<manager, base, target, oldR, changes>>
      BY <1>12 DEF RenderCandidate
    <2> QED BY <1>2, <2>1 DEF Compared
  <1>13. CASE BisectionEnds
    BY <1>1, <1>13 DEF BisectionEnds, Compared
  <1>14. CASE UNCHANGED vars
    <2>1. UNCHANGED <<stage, manager, base, target, oldR, changes, applied, candidate>>
      BY <1>14 DEF vars
    <2>2. stage = "trial" => /\ applied' \subseteq Ids
                             /\ candidate' = Render(manager, target, changes, applied')
      BY <2>1 DEF Made
    <2> QED BY <1>1, <1>2, <2>1, <2>2 DEF Compared
  <1> QED BY <1>3, <1>4, <1>5, <1>6, <1>7, <1>8, <1>9, <1>10, <1>11, <1>12, <1>13, <1>14
          DEF Next, Ended

(* A trial's manifest has each change on its side. *)
LEMMA CandidateHas == Known /\ Typed /\ Made => CandidateIsItsSubset
  <1> SUFFICES ASSUME Known, Typed, Made, stage = "trial"
               PROVE  ChangesHaveTheirSides /\ RestIsKept
    BY DEF CandidateIsItsSubset
  <1>1. /\ manager \in Manager /\ target \in Seq(Declaration) /\ changes \in Seq(Change)
        /\ Parses(manager, target) /\ candidate \in Seq(Declaration)
    BY DEF Known, Typed, Made, Chosen, Compared
  <1>2. /\ \A i \in DOMAIN changes : /\ changes[i] \in Change
                                     /\ Fits(base, target, oldR, changes[i])
        /\ \A i, j \in DOMAIN changes : Id(changes[i]) = Id(changes[j]) => i = j
        /\ candidate = Render(manager, target, changes, applied)
    BY <1>1 DEF Made, AllFit
  <1> DEFINE seq == Unapplied(changes, applied)
  <1>3. PICK first, f : Renders(manager, target, first, seq, f, candidate)
    BY <1>1, <1>2, RenderIs
  <1>4. /\ seq \in Seq(Change)
        /\ ToSet(seq) = {c \in ToSet(changes) : Id(c) \notin applied}
        /\ OncePerId(seq)
    BY <1>1, <1>2, UnappliedAre
  <1> HIDE DEF seq
  <1>5. ASSUME NEW i \in DOMAIN changes,
               DeclaredOnce(base, Id(changes[i])), DeclaredOnce(target, Id(changes[i]))
        PROVE  VersionsOf(candidate, Id(changes[i])) =
                  IF Id(changes[i]) \in applied THEN NewSide(changes[i])
                  ELSE OldSide(changes[i]) \cup KeptReferences(changes[i])
    <2> DEFINE c == changes[i]
               id == Id(c)
    <2>1. c \in Change /\ Fits(base, target, oldR, c) /\ c \in ToSet(changes)
      BY <1>2 DEF ToSet
    <2>2. Lone(manager, target, id)
      BY <1>1, <1>5, DeclaredLone
    <2> HIDE DEF c
    <2>6. Beside(manager, target, id) = KeptReferences(c)
      BY <1>1, BesideAre DEF KeptReferences
    <2>3. CASE id \in applied
      <3>1. \A e \in ToSet(seq) : Of(Id(e)) \subseteq Others(id)
        BY <1>4, <2>3, OthersAre
      <3> HIDE DEF id
      <3>2. Without(candidate, Others(id)) = Without(target, Others(id))
        BY <1>1, <1>3, <3>1, RenderKeeps
      <3>3. VersionsOf(candidate, id) = VersionsOf(target, id)
        BY <1>1, <3>2, OnlyTheSame
      <3>4. VersionsOf(target, id) = NewSide(c)
        <4>1. CASE c.kind = "removed"
          BY <4>1 DEF NewSide, id
        <4>2. CASE c.kind # "removed"
          <5>1. id \in DOMAIN Sections(target) /\ c.new = Sections(target)[id]
            BY <2>1, <4>2 DEF Fits, id
          <5>2. VersionsOf(target, id) = {Sections(target)[id]} \cup Beside(manager, target, id)
            BY <1>1, <2>2, <5>1, DeclaredVersion
          <5> QED BY <2>6, <4>2, <5>1, <5>2 DEF NewSide
        <4> QED BY <4>1, <4>2
      <3> QED BY <2>3, <3>3, <3>4 DEF id, c
    <2>4. CASE id \notin applied
      <3>1. c \in ToSet(seq)
        BY <1>4, <2>1, <2>4
      <3>2. PICK k \in 1..Len(seq) : seq[k] = c
        BY <1>4, <3>1 DEF ToSet
      <3>3. /\ first \in State(manager) /\ Lines(manager, first) = target
            /\ Rest(manager, first) = << >> /\ RevertSteps(manager, first, seq, f)
            /\ candidate = Lines(manager, f[Len(seq)]) \o Rest(manager, f[Len(seq)])
        BY <1>3 DEF Renders
      <3>4. Ready(manager, first, c)
        <4>1. ToSet(Rest(manager, first)) = {}
          BY <3>3 DEF ToSet
        <4>2. ASSUME c.kind = "removed", NEW e \in ToSet(target), Id(e) = id
              PROVE  ~e.plain
          <5>1. id \notin DOMAIN Sections(target)
            BY <2>1, <4>2 DEF Fits
          <5>2. PICK j \in DOMAIN target : e = target[j]
            BY DEF ToSet
          <5> QED BY <1>1, <4>2, <5>1, <5>2, SectionsHave
        <4> QED BY <2>1, <2>2, <3>3, <4>1, <4>2 DEF Ready, Fits
      <3>5. VersionsOf(candidate, id) = Reverted(c) \cup Beside(manager, target, id)
        <4>1. Ready(manager, first, seq[k])
          BY <3>2, <3>4
        <4>2. Sided(manager, first, f[Len(seq)], seq[k])
          BY <1>1, <1>4, <3>3, <4>1, SideOf
        <4> QED BY <3>2, <3>3, <4>2 DEF Sided
      <3>6. Older(base, oldR, c) = OldSide(c)
        <4>1. base \in Seq(Declaration) /\ DeclaredOnce(base, id)
          BY <1>5 DEF Known, c
        <4>2. {base[j].ver : j \in Plain(base, id)} =
                 {Sections(base)[o] : o \in {id} \cap DOMAIN Sections(base)}
          BY <4>1, DeclaredOld
        <4> QED BY <4>2 DEF Older, OldSide
      <3> QED BY <2>1, <2>4, <2>6, <3>5, <3>6 DEF Fits, c
    <2> QED BY <2>3, <2>4
  <1>6. RestIsKept
    <2> DEFINE gone == {e \in Declaration : Id(e) \in Ids \ applied}
    <2>1. \A c \in ToSet(seq) : Of(Id(c)) \subseteq gone
      <3>1. \A c \in ToSet(seq) : Id(c) \in Ids \ applied
        BY <1>4 DEF Ids, ToSet
      <3> QED BY <3>1 DEF Of
    <2> HIDE DEF gone
    <2>2. Without(candidate, gone) = Without(target, gone)
      BY <1>1, <1>3, <2>1, RenderKeeps
    <2> QED BY <2>2 DEF RestIsKept, gone
  <1> QED BY <1>5, <1>6 DEF ChangesHaveTheirSides

---------------------------------------------------------------------------
(* The theorems. *)

(* The inductive invariant of a run up to its end. *)
IInv == Detected /\ Known /\ Compares /\ Typed /\ Made

(* The parts of the invariant hold in every state of every run. *)
THEOREM Invariance == Spec => []IInv
  <1>1. Init => IInv
    BY InitDetected, InitKnown, InitCompares, InitMade DEF IInv
  <1>2. IInv /\ [Next]_vars => IInv'
    BY NextDetected, NextKnown, NextCompares, NextTyped, NextMade DEF IInv
  <1> QED BY <1>1, <1>2, PTL DEF Spec

(* Every manifest, lockfile, resolution, change and candidate of a run is  *)
(* of its kind, whatever is parsed and whatever is taken back.             *)
THEOREM TypeCorrect == Spec => []TypeOK
  <1>1. IInv => TypeOK
    BY DEF IInv, Detected, Known, Typed, TypeOK
  <1> QED BY <1>1, Invariance, PTL

(* In every trial, of any subset of any number of changes, with any        *)
(* manager and manifests of any length, a dependency that each revision    *)
(* lists at most once says what its side says (a change taken back: base's *)
(* plain version, the pin, or nothing) beside the references of a list of  *)
(* the target, which no renderer removes, and the rest of the target is as *)
(* it was.  Base's own references do not come back, and nothing is said of *)
(* a requirement that is listed several times.                             *)
THEOREM CandidateCorrect == Spec => []CandidateIsItsSubset
  <1>1. IInv => CandidateIsItsSubset
    BY CandidateHas DEF IInv
  <1> QED BY <1>1, Invariance, PTL

(* DetectManager never takes a manager the target's files do not call for, *)
(* nor one of two they would both allow.                                   *)
THEOREM ManagerCorrect == Spec => []ManagerIsUnambiguous
  <1>1. IInv => ManagerIsUnambiguous
    BY DEF IInv, Detected
  <1> QED BY <1>1, Invariance, PTL

(* Whatever two revisions declare and resolve, Diff and PinChanges make no *)
(* two changes of one identifier, and none of a declaration whose drift is *)
(* reported as well.                                                       *)
THEOREM DistinctCorrect == Spec => []ChangesAreDistinct
  <1>1. IInv => ChangesAreDistinct
    BY DEF IInv, Compares
  <1> QED BY <1>1, Invariance, PTL

(* A package that the parsers read in both lockfiles (of pnpm's, the root  *)
(* project's own dependencies), in one version each, and that moved is a   *)
(* change, an unpinned change, or drift: listed, or counted after the      *)
(* MaxListed names that are.  Nothing is said of go, of pip, nor of what   *)
(* pnpm's parser does not read.                                            *)
THEOREM DriftCorrect == Spec => []NoDriftUnreported
  <1>1. IInv => NoDriftUnreported
    BY DEF IInv, Compares
  <1> QED BY <1>1, Invariance, PTL

(* ParseYarnLock gives the same resolution for every order of the entries, *)
(* however many there are.                                                 *)
THEOREM ResolutionCorrect == Spec => []ResolutionHasNoOrder
  <1>1. IInv => ResolutionHasNoOrder
    BY YarnHasNoOrder DEF IInv, Known, Compared, ResolutionHasNoOrder, ParseLock
  <1> QED BY <1>1, Invariance, PTL
=============================================================================
