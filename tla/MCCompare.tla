----------------------------- MODULE MCCompare ------------------------------
(* A small instance of Compare: two dependencies, specs "v1", "v2" and a   *)
(* URL, and manifests and lockfiles that meet each case of the code.       *)
EXTENDS Compare

MCNames == {1, 2}
MCExact == [r1 |-> "=r1", r2 |-> "=r2"]

D(sec, name, ver, plain) == [sec |-> sec, name |-> name, ver |-> ver, plain |-> plain]
L(name, version, main) == [name |-> name, version |-> version, main |-> main]

(* Dependency 1 may stand in two sections, change its spec, be a URL or    *)
(* other reference, be indirect, and be listed twice; dependency 2 has an  *)
(* exact pin, the only kind pip resolves.                                  *)
BaseDeclarations ==
    {D(1, 1, "v1", TRUE), D(2, 1, "v1", TRUE), D(1, 1, "url", TRUE),
     D(1, 1, "no-spec", FALSE), D(1, 1, "v1", FALSE), D(1, 2, "=r1", TRUE)}
TargetDeclarations ==
    BaseDeclarations \cup {D(1, 1, "v2", TRUE), D(2, 1, "v2", TRUE), D(1, 2, "=r2", TRUE)}

UpToTwo(declarations) ==
    {doc \in UNION {[1..k -> declarations] : k \in 0..2} :
        \A i, j \in DOMAIN doc : i < j => doc[i].name <= doc[j].name}

MCBaseManifests == UpToTwo(BaseDeclarations)
MCTargetManifests == UpToTwo(TargetDeclarations)

(* Both dependencies may drift at once, of which MaxListed = 1 is listed;  *)
(* pnpm reads only the entries that are main.                              *)
MCBaseLocks == {<< >>, <<L(0, "r1", TRUE), L(1, "r1", TRUE), L(2, "ref", TRUE)>>,
                <<L(1, "r1", FALSE)>>}
MCTargetLocks ==
    {<<L(0, "r2", TRUE), L(1, "r2", TRUE), L(2, "r2", TRUE)>>,
     <<L(1, "r2", FALSE), L(1, "r1", TRUE)>>, <<L(1, "r2", FALSE)>>,
     <<L(1, "r1", TRUE), L(1, "r2", TRUE), L(1, "r1", TRUE)>>}
=============================================================================
