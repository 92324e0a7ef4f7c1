------------------------- MODULE MCPackageLifecycle -------------------------
(* A small root: two releases of one tool and a package of another component *)
(* whose wrapper names overlap with the newer release.                       *)
EXTENDS PackageLifecycle

CONSTANTS old, new, other, compiler, linker, cc, ld

MCPackage    == {old, new, other}
MCScope      == {compiler, linker}
MCScopeOf    == [p \in MCPackage |-> IF p = other THEN linker ELSE compiler]
MCToolOf     == [p \in MCPackage |-> IF p = other THEN "lld" ELSE "clang"]
MCRank       == [p \in MCPackage |-> IF p = new THEN 2 ELSE 1]
MCCommand    == {cc, ld}
MCCommandsOf == [p \in MCPackage |-> CASE p = old   -> {cc}
                                       [] p = new   -> {cc, ld}
                                       [] p = other -> {ld}]
=============================================================================
