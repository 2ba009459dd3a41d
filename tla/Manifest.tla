------------------------------ MODULE Manifest ------------------------------
(***************************************************************************)
(* What depbisect does to dependency manifests and lockfiles: which        *)
(* declarations a parser records, how two revisions are compared, what a   *)
(* candidate is rendered to, and which lockfile changes become pins.       *)
(*                                                                         *)
(* A manifest is the sequence of its declarations.  In package.json,       *)
(* composer.json and Cargo.toml a name stands once in a section; lists of  *)
(* requirements (pyproject.toml, requirements.txt) may name a package      *)
(* several times, one line per environment.  A declaration is plain if its *)
(* parser records a version for it; git, path and URL references and       *)
(* indirect requires of go.mod are not.  All other content of the files is *)
(* copied by the code and left out.                                        *)
(***************************************************************************)
EXTENDS Naturals, FiniteSets, Sequences, SequencesExt

CONSTANTS
    Names,          \* dependencies, numbered in alphabetical order
    Project,        \* the name of the project itself
    Specs,          \* version specs in manifests
    Foreign,        \* specs a bare version cannot stand in for (URLs, aliases)
    Versions,       \* what lockfiles resolve to
    Exact           \* the spec that pins a plain version

ASSUME ManifestAssumption ==
    /\ Names \subseteq Nat \ {0} /\ Project = 0
    /\ Foreign \subseteq Specs
    /\ DOMAIN Exact \subseteq Versions
    /\ \A v \in DOMAIN Exact : Exact[v] \in Specs \ Foreign

NoSpec == "no-spec"         \* of a git, path or URL reference
Unknown == "unknown"        \* the empty resolved version
ASSUME UnknownAssumption == NoSpec \notin Specs /\ Unknown \notin Versions

JavaScript == {"npm", "pnpm", "yarn"}
Manager == JavaScript \cup {"cargo", "go", "uv", "composer", "pip"}

(* The bisectable sections of each manifest. *)
SectionOrder(manager) ==
    CASE manager \in JavaScript \cup {"cargo"} -> 1..3
      [] manager = "composer" -> 1..2
      [] OTHER -> 1..1

Declaration == [sec : 1..3, name : Names, ver : Specs \cup {NoSpec}, plain : BOOLEAN]
Id(x) == <<x.sec, x.name>>

(***************************************************************************)
(* What each parser accepts and makes of it.                               *)
(***************************************************************************)
NamedOnce(doc) == \A i, j \in DOMAIN doc : Id(doc[i]) = Id(doc[j]) => i = j
HasVersion(e) == e.plain <=> e.ver # NoSpec

PackageJSON(doc) == NamedOnce(doc) /\ \A i \in DOMAIN doc : doc[i].plain /\ HasVersion(doc[i])
ComposerJSON(doc) == PackageJSON(doc)
CargoToml(doc) == NamedOnce(doc) /\ \A i \in DOMAIN doc : HasVersion(doc[i])
GoMod(doc) == NamedOnce(doc) /\ \A i \in DOMAIN doc : doc[i].ver # NoSpec
PyProject(doc) == \A i \in DOMAIN doc : HasVersion(doc[i])
Requirements(doc) == PyProject(doc)

Parses(manager, doc) ==
    /\ \A i \in DOMAIN doc : doc[i].sec \in SectionOrder(manager)
    /\ CASE manager \in JavaScript -> PackageJSON(doc)
         [] manager = "composer" -> ComposerJSON(doc)
         [] manager = "cargo" -> CargoToml(doc)
         [] manager = "go" -> GoMod(doc)
         [] manager = "uv" -> PyProject(doc)
         [] manager = "pip" -> Requirements(doc)

(* A later declaration of a name takes the place of an earlier one. *)
Sections(doc) ==
    [id \in {Id(doc[i]) : i \in {j \in DOMAIN doc : doc[j].plain}} |->
        doc[SelectLastInSeq(doc, LAMBDA e : e.plain /\ Id(e) = id)].ver]

(***************************************************************************)
(* Comparison.                                                             *)
(***************************************************************************)
Change == [sec : 1..3, name : Names, kind : {"updated", "added", "removed"},
           old : Specs \cup {NoSpec}, new : Specs \cup {NoSpec}, lockfileOnly : BOOLEAN]

MakeChange(id, kind, old, new) ==
    [sec |-> id[1], name |-> id[2], kind |-> kind, old |-> old, new |-> new,
     lockfileOnly |-> FALSE]

Diff(old, new) ==
    LET o == Sections(old)
        w == Sections(new)
    IN  {MakeChange(id, "removed", o[id], NoSpec) : id \in DOMAIN o \ DOMAIN w}
        \cup {MakeChange(id, "added", NoSpec, w[id]) : id \in DOMAIN w \ DOMAIN o}
        \cup {MakeChange(id, "updated", o[id], w[id]) :
                 id \in {k \in DOMAIN o \cap DOMAIN w : o[k] # w[k]}}

Before(a, b) == a.name < b.name \/ (a.name = b.name /\ a.sec < b.sec)

SortChanges(changes) ==
    CHOOSE seq \in SetToSeqs(changes) :
        \A i, j \in DOMAIN seq : i < j => Before(seq[i], seq[j])

(***************************************************************************)
(* Lockfiles: a sequence of entries.  main marks the entries a parser      *)
(* prefers (node_modules paths of package-lock.json, "packages" of         *)
(* composer.lock) or that are all it reads: the content lines of go.sum,   *)
(* and the entries of the root project's own dependencies in               *)
(* pnpm-lock.yaml, beside which "packages" lists what those need.          *)
(***************************************************************************)
LockEntry == [name : Names \cup {Project}, version : Versions, main : BOOLEAN]
Resolved == [Names \cup {Project} -> Versions \cup {Unknown}]

Nothing == [n \in Names \cup {Project} |-> Unknown]

Set(out, e) == [out EXCEPT ![e.name] = e.version]
SetIfMain(out, e) == IF e.main THEN Set(out, e) ELSE out
SetIfAbsent(out, e) == IF ~e.main /\ out[e.name] = Unknown THEN Set(out, e) ELSE out

ParsePackageLock(lock) == FoldLeft(SetIfAbsent, FoldLeft(SetIfMain, Nothing, lock), lock)
ParsePnpmLock(lock) == FoldLeft(SetIfMain, Nothing, lock)
ParseCargoLock(lock) == FoldLeft(Set, Nothing, lock)
ParseUvLock(lock) == FoldLeft(Set, Nothing, lock)
ParseGoSum(lock) == FoldLeft(SetIfMain, Nothing, lock)
ParseComposerLock(lock) == FoldLeft(SetIfAbsent, FoldLeft(SetIfMain, Nothing, lock), lock)

AddYarnResolvedForgetting(acc, e) ==
    IF acc.out[e.name] \notin {Unknown, e.version}
    THEN [acc EXCEPT !.out[e.name] = Unknown]
    ELSE [acc EXCEPT !.out = Set(@, e)]
(* A name that resolves to several versions is left out for good. *)
AddYarnResolved(acc, e) ==
    IF e.name \in acc.conflicted THEN acc
    ELSE IF acc.out[e.name] \in {Unknown, e.version} THEN [acc EXCEPT !.out = Set(@, e)]
    ELSE [out |-> [acc.out EXCEPT ![e.name] = Unknown],
          conflicted |-> acc.conflicted \cup {e.name}]
ParseYarnLock(lock) ==
    FoldLeft(AddYarnResolved, [out |-> Nothing, conflicted |-> {}], lock).out

(* requirements.txt is its own lockfile: its exact pins. *)
ParseRequirementsPins(doc) ==
    LET specs == Sections(doc)
        Pinned(n, v) == <<1, n>> \in DOMAIN specs /\ specs[<<1, n>>] = Exact[v]
    IN  [n \in Names \cup {Project} |->
            IF \E v \in DOMAIN Exact : Pinned(n, v)
            THEN CHOOSE v \in DOMAIN Exact : Pinned(n, v)
            ELSE Unknown]

ParseLock(manager, lock, doc) ==
    CASE manager = "npm" -> ParsePackageLock(lock)
      [] manager = "pnpm" -> ParsePnpmLock(lock)
      [] manager = "yarn" -> ParseYarnLock(lock)
      [] manager = "cargo" -> ParseCargoLock(lock)
      [] manager = "go" -> ParseGoSum(lock)
      [] manager = "uv" -> ParseUvLock(lock)
      [] manager = "composer" -> ParseComposerLock(lock)
      [] manager = "pip" -> ParseRequirementsPins(doc)

(***************************************************************************)
(* Changes of the lockfile under an unchanged spec, and their pins.        *)
(***************************************************************************)
LockfileChange == [sec : 1..3, name : Names, spec : Specs, old : Versions, new : Versions]

MovedOrUnknown(oldR, newR, name) == oldR[name] # newR[name]
Moved(oldR, newR, name) == Unknown \notin {oldR[name], newR[name]} /\ oldR[name] # newR[name]

LockfileOnlyEverything(old, new, oldR, newR) ==
    LET w == Sections(new)
    IN  {[sec |-> id[1], name |-> id[2], spec |-> w[id], old |-> oldR[id[2]], new |-> newR[id[2]]] :
            id \in {k \in DOMAIN w : Moved(oldR, newR, k[2])}}
LockfileOnly(old, new, oldR, newR) ==
    LET o == Sections(old)
        w == Sections(new)
    IN  {[sec |-> id[1], name |-> id[2], spec |-> w[id], old |-> oldR[id[2]], new |-> newR[id[2]]] :
            id \in {k \in DOMAIN o \cap DOMAIN w : o[k] = w[k] /\ Moved(oldR, newR, k[2])}}

PlainVersion(v) == v \in DOMAIN Exact

Pinnable(manager, lc) ==
    CASE manager \in JavaScript -> PlainVersion(lc.old) /\ lc.spec \notin Foreign
      [] manager \in {"cargo", "uv"} -> PlainVersion(lc.old)
      [] manager = "composer" -> PlainVersion(lc.old) /\ lc.spec \notin Foreign
      [] OTHER -> FALSE

PinChanges(manager, lcs) ==
    {[MakeChange(Id(lc), "updated", Exact[lc.old], lc.spec) EXCEPT !.lockfileOnly = TRUE] :
        lc \in {x \in lcs : Pinnable(manager, x)}}

(***************************************************************************)
(* Rendering: the target's declarations with every change that is not      *)
(* applied taken back, one after the other.                                *)
(***************************************************************************)
Line(c) == [sec |-> c.sec, name |-> c.name, ver |-> c.old, plain |-> TRUE]

(* A sequence without the entries that are in gone. *)
Without(seq, gone) ==
    FoldLeft(LAMBDA kept, e : IF e \in gone THEN kept ELSE Append(kept, e), << >>, seq)

(* The declarations of a dependency; those that the parser of a list       *)
(* understands are its requirements.                                       *)
Of(id) == {e \in Declaration : Id(e) = id}
SameRequirement(c) == {e \in Of(Id(c)) : e.plain}

First(doc, those) == SelectInSeq(doc, LAMBDA e : e \in those)

(* Put e where the first declaration of those is, or at the end. *)
Upsert(doc, those, e) ==
    LET i == First(doc, those)
    IN  IF i = 0 THEN Append(doc, e) ELSE [doc EXCEPT ![i] = e]

(* Set the version of the first declaration of those; the rest of the      *)
(* declaration stays.                                                      *)
Rewrite(doc, those, c) ==
    LET i == First(doc, those)
    IN  IF i = 0 THEN Append(doc, Line(c)) ELSE [doc EXCEPT ![i].ver = c.old]

Delete(doc, c) == Without(doc, Of(Id(c)))

RevertInTables(doc, c) ==
    IF c.kind = "added" THEN Delete(doc, c) ELSE Upsert(doc, Of(Id(c)), Line(c))
RevertInComposer(doc, c) == RevertInTables(doc, c)

RevertInCargo(doc, c) ==
    CASE c.kind = "added" -> Delete(doc, c)
      [] c.kind = "updated" -> Rewrite(doc, Of(Id(c)), c)
      [] c.kind = "removed" -> Upsert(doc, Of(Id(c)), Line(c))

(* AddRequire keeps the comment of the line, "// indirect" included. *)
RevertInGoMod(doc, c) ==
    IF c.kind = "added" THEN Delete(doc, c) ELSE Rewrite(doc, Of(Id(c)), c)

(* Lists are searched for lines the parser understands. *)
SetPyRequirement(deps, c) == Rewrite(deps, SameRequirement(c), c)
RemovePyRequirement(deps, c) == Without(deps, SameRequirement(c))

RevertInPyProject(deps, c) ==
    CASE c.kind = "added" -> RemovePyRequirement(deps, c)
      [] c.kind = "updated" -> SetPyRequirement(deps, c)
      [] c.kind = "removed" -> Append(deps, Line(c))

(* requirements.txt keeps what it re-adds apart until the end. *)
RewriteRequirementLine(r, c) ==
    IF \E i \in DOMAIN r.lines : r.lines[i] \in SameRequirement(c)
    THEN [r EXCEPT !.lines = Rewrite(@, SameRequirement(c), c)]
    ELSE [r EXCEPT !.appendix = Append(@, Line(c))]
DropRequirementLines(r, c) == [r EXCEPT !.lines = Without(@, SameRequirement(c))]

RevertInRequirements(r, c) ==
    CASE c.kind = "added" -> DropRequirementLines(r, c)
      [] c.kind = "updated" -> RewriteRequirementLine(r, c)
      [] c.kind = "removed" -> [r EXCEPT !.appendix = Append(@, Line(c))]

Revert(manager, doc, c) ==
    CASE manager \in JavaScript -> RevertInTables(doc, c)
      [] manager = "composer" -> RevertInComposer(doc, c)
      [] manager = "cargo" -> RevertInCargo(doc, c)
      [] manager = "go" -> RevertInGoMod(doc, c)
      [] manager = "uv" -> RevertInPyProject(doc, c)
      [] manager = "pip" -> RevertInRequirements(doc, c)

Unapplied(changes, applied) == Without(changes, {c \in Change : Id(c) \in applied})

RevertAll(manager, doc, changes, applied) ==
    FoldLeft(LAMBDA d, c : Revert(manager, d, c), doc, Unapplied(changes, applied))

RenderRequirements(to, changes, applied) ==
    LET r == RevertAll("pip", [lines |-> to, appendix |-> << >>], changes, applied)
    IN  r.lines \o r.appendix

Render(manager, to, changes, applied) ==
    IF manager = "pip" THEN RenderRequirements(to, changes, applied)
    ELSE RevertAll(manager, to, changes, applied)
=============================================================================
