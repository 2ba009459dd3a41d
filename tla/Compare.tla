------------------------------ MODULE Compare -------------------------------
(***************************************************************************)
(* engine.Run up to the bisection, and the candidates rendered in it: the  *)
(* package manager is detected from the files at the target revision, the  *)
(* manifests and lockfiles of both revisions are read and compared, drift  *)
(* of resolutions becomes pins or diagnostics, and each trial renders the  *)
(* target's manifest with the changes of its subset applied.               *)
(*                                                                         *)
(* Files of the target are looked up in the order of the code, and git's   *)
(* answers are chosen when it is asked.  The contents of a revision are    *)
(* chosen when they are read, from the sets Manifests and Lockfiles.       *)
(***************************************************************************)
EXTENDS Manifest

CONSTANTS
    Overrides,                          \* values of --pm, "none" for its absence
    BaseManifests, TargetManifests,     \* sequences of declarations
    BaseLocks, TargetLocks,             \* sequences of entries; << >> if unreadable
    MaxListed                           \* names a diagnostic lists before it counts

ASSUME CompareAssumption ==
    /\ Overrides \subseteq Manager \cup {"none"}
    /\ BaseManifests \cup TargetManifests \subseteq Seq(Declaration)
    /\ BaseLocks \cup TargetLocks \subseteq Seq(LockEntry)
    /\ MaxListed \in Nat \ {0}

VARIABLES
    stage,          \* where the run is
    override,       \* --pm, or "none"
    seen,           \* the files the target is known to have
    manager,        \* the package manager, "none" before it is chosen
    base, target,   \* the parsed manifests
    baseLock, lock, \* the lockfiles of base and target
    oldR, newR,     \* resolved versions
    changes,        \* the bisectable changes, sorted
    lockOnly,       \* lockfile-only changes that stay diagnostics
    drift,          \* names counted as transitive drift
    named,          \* those of them that its diagnostic lists
    applied,        \* the subset of the candidate rendered last
    candidate       \* its manifest

detected == <<override, seen, manager>>
read == <<base, target, baseLock, lock, oldR, newR>>
compared == <<changes, lockOnly, drift, named>>
rendered == <<applied, candidate>>
vars == <<stage, detected, read, compared, rendered>>

ManifestFiles == {"package.json", "Cargo.toml", "go.mod", "pyproject.toml",
                  "composer.json", "requirements.txt"}
JSLocks == {"package-lock.json", "pnpm-lock.yaml", "yarn.lock"}

ManifestName(m) ==
    CASE m = "cargo" -> "Cargo.toml"
      [] m = "go" -> "go.mod"
      [] m = "uv" -> "pyproject.toml"
      [] m = "composer" -> "composer.json"
      [] m = "pip" -> "requirements.txt"
      [] m \in JavaScript -> "package.json"

LockfileName(m) ==
    CASE m = "pnpm" -> "pnpm-lock.yaml"
      [] m = "yarn" -> "yarn.lock"
      [] m = "cargo" -> "Cargo.lock"
      [] m = "go" -> "go.sum"
      [] m = "uv" -> "uv.lock"
      [] m = "composer" -> "composer.lock"
      [] m = "pip" -> "requirements.txt"
      [] m = "npm" -> "package-lock.json"

TypeOK ==
    /\ stage \in {"revisions", "manifests", "python", "javascript", "workspace", "read",
                  "compare", "decide", "bisect", "trial", "done", "failed"}
    /\ override \in Overrides /\ manager \in Manager \cup {"none"}
    /\ seen \subseteq ManifestFiles \cup JSLocks \cup {"uv.lock"}
    /\ base \in Seq(Declaration) /\ target \in Seq(Declaration)
    /\ baseLock \in Seq(LockEntry) /\ lock \in Seq(LockEntry)
    /\ oldR \in Resolved /\ newR \in Resolved
    /\ changes \in Seq(Change)
    /\ lockOnly \subseteq LockfileChange
    /\ named \subseteq drift /\ drift \subseteq Names
    /\ applied \subseteq (1..3) \X Names
    /\ candidate \in Seq(Declaration)

Init ==
    /\ stage = "revisions"
    /\ override \in Overrides
    /\ seen = {} /\ manager = "none"
    /\ base = << >> /\ target = << >> /\ baseLock = << >> /\ lock = << >>
    /\ oldR = Nothing /\ newR = Nothing
    /\ changes = << >> /\ lockOnly = {} /\ drift = {} /\ named = {}
    /\ applied = {} /\ candidate = << >>

(* git cannot tell, a file cannot be read or parsed, the manager is not    *)
(* installed, the revisions are the same: all end the run before anything  *)
(* was made.                                                               *)
Fail ==
    /\ stage \in {"revisions", "manifests", "python", "javascript", "workspace", "read", "decide"}
    /\ stage' = "failed"
    /\ UNCHANGED <<detected, read, compared, rendered>>

Choose(m) == manager' = m /\ stage' = "workspace"

ResolveRevs ==
    /\ stage = "revisions"
    /\ IF override = "none" THEN stage' = "manifests" /\ UNCHANGED manager ELSE Choose(override)
    /\ UNCHANGED <<override, seen, read, compared, rendered>>

(* pyproject.toml and requirements.txt count as one manifest. *)
Found(files) ==
    {f \in files : f # "requirements.txt" \/ "pyproject.toml" \notin files}

DetectManager ==
    /\ stage = "manifests"
    /\ \E files \in SUBSET ManifestFiles :
          /\ seen' = files
          /\ IF Cardinality(Found(files)) # 1 THEN stage' = "failed" /\ UNCHANGED manager
             ELSE CASE "Cargo.toml" \in files -> Choose("cargo")
                    [] "go.mod" \in files -> Choose("go")
                    [] "pyproject.toml" \in files -> stage' = "python" /\ UNCHANGED manager
                    [] Found(files) = {"requirements.txt"} -> Choose("pip")
                    [] "composer.json" \in files -> Choose("composer")
                    [] "package.json" \in files -> stage' = "javascript" /\ UNCHANGED manager
    /\ UNCHANGED <<override, read, compared, rendered>>

DetectPython ==
    /\ stage = "python"
    /\ \/ Choose("uv") /\ seen' = seen \cup {"uv.lock"}
       \/ "requirements.txt" \in seen /\ Choose("pip") /\ UNCHANGED seen
       \/ "requirements.txt" \notin seen /\ stage' = "failed" /\ UNCHANGED <<manager, seen>>
    /\ UNCHANGED <<override, read, compared, rendered>>

DetectFirst(locks) ==
    CASE "package-lock.json" \in locks -> Choose("npm")
      [] "pnpm-lock.yaml" \in locks -> Choose("pnpm")
      [] "yarn.lock" \in locks -> Choose("yarn")
      [] OTHER -> stage' = "failed" /\ UNCHANGED manager
Detect(locks) ==
    IF Cardinality(locks) > 1 THEN stage' = "failed" /\ UNCHANGED manager
    ELSE CASE "package-lock.json" \in locks -> Choose("npm")
           [] "pnpm-lock.yaml" \in locks -> Choose("pnpm")
           [] "yarn.lock" \in locks -> Choose("yarn")
           [] OTHER -> stage' = "failed" /\ UNCHANGED manager

DetectJavaScript ==
    /\ stage = "javascript"
    /\ \E locks \in SUBSET JSLocks : Detect(locks) /\ seen' = seen \cup locks
    /\ UNCHANGED <<override, read, compared, rendered>>

(* pnpm-workspace.yaml is looked for with npm and pnpm, go.work with go. *)
CheckWorkspace ==
    /\ stage = "workspace"
    /\ \E workspace \in IF manager \in {"npm", "pnpm", "go"} THEN BOOLEAN ELSE {FALSE} :
          stage' = IF workspace THEN "failed" ELSE "read"
    /\ UNCHANGED <<detected, read, compared, rendered>>

ReadManifests ==
    /\ stage = "read"
    /\ base' \in {d \in BaseManifests : Parses(manager, d)}
    /\ target' \in {d \in TargetManifests : Parses(manager, d)}
    /\ baseLock' \in BaseLocks
    /\ oldR' = ParseLock(manager, baseLock', base')
    /\ lock' \in TargetLocks
    /\ newR' = ParseLock(manager, lock', target')
    /\ stage' = "compare"
    /\ UNCHANGED <<detected, compared, rendered>>

Remainder(lcs, pins) == {lc \in lcs : Id(lc) \notin {Id(p) : p \in pins}}

TransitiveDriftUndeclared(cs, lcs) ==
    LET direct == {target[i].name : i \in DOMAIN target} \cup {Project}
    IN  {n \in DOMAIN oldR : n \notin direct /\ Moved(oldR, newR, n)}
TransitiveDrift(cs, lcs) ==
    LET direct == {c.name : c \in cs} \cup {lc.name : lc \in lcs} \cup {Project}
    IN  {n \in DOMAIN oldR : n \notin direct /\ Moved(oldR, newR, n)}

(* A diagnostic lists the first names in alphabetical order and says how   *)
(* many more there are; nothing else is kept of them.                      *)
LockfileOnlyNames(names) == {n \in names : Cardinality({m \in names : m < n}) < MaxListed}

(* pins is FALSE with --no-lockfile-pins. *)
CompareRevisions ==
    /\ stage = "compare"
    /\ \E pins \in BOOLEAN :
          LET lcs == LockfileOnly(base, target, oldR, newR)
              new == IF pins THEN PinChanges(manager, lcs) ELSE {}
              all == Diff(base, target) \cup new
          IN  /\ changes' = SortChanges(all)
              /\ lockOnly' = Remainder(lcs, new)
              /\ drift' = IF manager = "go" THEN {} ELSE TransitiveDrift(all, lockOnly')
              /\ named' = LockfileOnlyNames(drift')
    /\ stage' = "decide"
    /\ UNCHANGED <<detected, read, rendered>>

(* Nothing to bisect, a dry run, or on to the trials. *)
Decide ==
    /\ stage = "decide"
    /\ stage' \in IF changes = << >> THEN {"done"} ELSE {"done", "bisect"}
    /\ UNCHANGED <<detected, read, compared, rendered>>

Ids == {Id(changes[i]) : i \in DOMAIN changes}

(* A trial: any subset, in any order, always from the same parsed target. *)
RenderInPlace ==
    /\ stage \in {"bisect", "trial"}
    /\ stage' = "trial"
    /\ applied' \in SUBSET Ids
    /\ candidate' = Render(manager, target, changes, applied')
    /\ target' = candidate'
    /\ UNCHANGED <<detected, base, baseLock, lock, oldR, newR, compared>>
RenderCandidate ==
    /\ stage \in {"bisect", "trial"}
    /\ stage' = "trial"
    /\ applied' \in SUBSET Ids
    /\ candidate' = Render(manager, target, changes, applied')
    /\ UNCHANGED <<detected, read, compared>>

BisectionEnds ==
    /\ stage = "trial"
    /\ stage' = "done"
    /\ UNCHANGED <<detected, read, compared, rendered>>

Ended == stage \in {"done", "failed"} /\ UNCHANGED vars

Next ==
    \/ Fail \/ ResolveRevs \/ DetectManager \/ DetectPython \/ DetectJavaScript
    \/ CheckWorkspace \/ ReadManifests \/ CompareRevisions \/ Decide
    \/ RenderCandidate \/ BisectionEnds \/ Ended

Spec == Init /\ [][Next]_vars

(***************************************************************************)
(* Properties.                                                             *)
(***************************************************************************)
(* What a manifest says of a dependency; references say NoSpec. *)
VersionsOf(doc, id) == {doc[i].ver : i \in {j \in DOMAIN doc : Id(doc[j]) = id}}

Plain(doc, id) == {i \in DOMAIN doc : doc[i].plain /\ Id(doc[i]) = id}
DeclaredOnce(doc, id) == Cardinality(Plain(doc, id)) <= 1

(* What revision base, or the pin, says of a change that is taken back.    *)
OldSide(c) ==
    IF c.lockfileOnly THEN {Exact[oldR[c.name]]} ELSE {base[i].ver : i \in Plain(base, Id(c))}

(* The `name @ url` lines of the target's list: no renderer of a list ever *)
(* touches one, so that an old requirement is put beside it.               *)
KeptReferences(c) ==
    IF manager \in {"uv", "pip"} THEN VersionsOf(target, Id(c)) \cap {NoSpec} ELSE {}

(* A removed dependency may live on in the target as a reference or an     *)
(* indirect one.                                                           *)
NewSide(c) ==
    IF c.kind = "removed" THEN VersionsOf(target, Id(c)) ELSE {c.new} \cup KeptReferences(c)

(* The manifest of a trial declares for each bisected dependency what its  *)
(* side says: the target's if the change is in the subset, else the plain  *)
(* version of base, the pin, or nothing, and beside it no more than the    *)
(* references a list of the target has for it; however many candidates     *)
(* lanes have rendered from the same parsed target before.                 *)
(* It says nothing of a requirement that base or the target lists more     *)
(* than once (the parser keeps the last line, the renderer rewrites the    *)
(* first), and the old side is what the parser records of base: not its    *)
(* git, path and URL references, nor its indirect requires.  So the        *)
(* manifest of base itself does not always come back, although             *)
(* docs/how-it-works.md:16 says "reverted to their --base values".         *)
ChangesHaveTheirSides ==
    \A i \in DOMAIN changes :
        LET c == changes[i]
        IN  DeclaredOnce(base, Id(c)) /\ DeclaredOnce(target, Id(c)) =>
                VersionsOf(candidate, Id(c)) =
                    IF Id(c) \in applied THEN NewSide(c) ELSE OldSide(c) \cup KeptReferences(c)

(* All else in the target stays as and where it is, and a candidate with   *)
(* all changes applied is the target itself, so that the last baseline     *)
(* and every pinned dependency test what the target has.                   *)
RestIsKept ==
    LET reverted == {e \in Declaration : Id(e) \in Ids \ applied}
    IN  Without(candidate, reverted) = Without(target, reverted)

(* A trial's manifest is the subset it is filed under: every change has    *)
(* its side, and no other declaration is touched.                          *)
CandidateIsItsSubset == stage = "trial" => ChangesHaveTheirSides /\ RestIsKept

(* No two changes have one identifier, pins included: subsets, memo and    *)
(* checkpoint know a change by nothing else.  Each stands for a difference *)
(* of the revisions, in declarations or in resolution but never in both.   *)
ChangesAreDistinct ==
    /\ Cardinality(Ids) = Len(changes)
    /\ Ids \cap {Id(lc) : lc \in lockOnly} = {}

(* All entries of n, of which there are some, have version v. *)
Resolves(entries, n, v) ==
    /\ \E i \in DOMAIN entries : entries[i].name = n
    /\ \A i \in DOMAIN entries : entries[i].name = n => entries[i].version = v

(* Of pnpm-lock.yaml only the root project's own dependencies are read. *)
IsRead(entries, n) ==
    manager = "pnpm" => \E i \in DOMAIN entries : entries[i].name = n /\ entries[i].main

Bisected(n) == \E i \in DOMAIN changes : changes[i].name = n
Unpinned(n) == \E lc \in lockOnly : lc.name = n
CountedOnly(n) == n \in drift /\ MaxListed <= Cardinality({m \in drift : m < n})

(* Of the packages the code reads in both lockfiles, each that one of them *)
(* resolves to one version and the other to another is bisected, reported  *)
(* as a change that could not be pinned, or is transitive drift that the   *)
(* diagnostic lists, or counts behind the MaxListed names it lists.  go is *)
(* exempt (go.sum is no record of resolutions), as are packages with       *)
(* several versions in one lockfile, pip, which has no lockfile, and       *)
(* pnpm's transitive packages: they are not read and so never named,       *)
(* although docs/limitations.md:13 says so of all managers but go.         *)
NoDriftUnreported ==
    stage \in {"decide", "bisect", "trial"} /\ manager \notin {"go", "pip"} =>
        \A n \in Names, v, w \in Versions :
            /\ v # w /\ Resolves(baseLock, n, v) /\ Resolves(lock, n, w)
            /\ IsRead(baseLock, n) /\ IsRead(lock, n)
            => n \in named \/ Bisected(n) \/ Unpinned(n) \/ CountedOnly(n)

(* yarn.lock is read in no particular order (Go's maps have none); what a  *)
(* name resolves to must not depend on it, or runs of the same revisions   *)
(* would bisect different changes.                                         *)
ResolutionHasNoOrder ==
    manager = "yarn" /\ stage = "compare" =>
        \A order \in SetToSeqs(DOMAIN lock) :
            ParseYarnLock([i \in DOMAIN lock |-> lock[order[i]]]) = newR

(* A manager that was not asked for with --pm is the only one the target's *)
(* files allow: its manifest is there, that of no other ecosystem is (the  *)
(* two of Python apart), no second JavaScript lockfile is, and uv.lock     *)
(* tells uv from pip.                                                      *)
ManagerIsUnambiguous ==
    override = "none" /\ manager # "none" =>
        /\ ManifestName(manager) \in seen
        /\ seen \cap ManifestFiles \subseteq
              {ManifestName(manager)} \cup (IF manager \in {"uv", "pip"}
                                            THEN {"pyproject.toml", "requirements.txt"} ELSE {})
        /\ manager \in JavaScript => seen \cap JSLocks = {LockfileName(manager)}
        /\ manager = "uv" <=> "uv.lock" \in seen
=============================================================================
