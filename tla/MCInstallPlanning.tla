-------------------------- MODULE MCInstallPlanning --------------------------
(* Two components on two targets. The catalogs hold releases whose numerals *)
(* differ in length, a revision, a future entry, an entry without a usable  *)
(* archive, and the ways to be refused.                                     *)
EXTENDS InstallPlanning

CONSTANTS native, cross, compiler, linker, clang, gcc, lld, tar, zip, rar

MCTarget     == {native, cross}
MCComponent  == {compiler, linker}
MCTool       == {clang, gcc, lld}
MCFormat     == {tar, zip, rar}
MCSupported  == {tar, zip}
MCComponentOf == [t \in MCTool |-> IF t = lld THEN linker ELSE compiler]
MCScopeOrder ==
  [s \in MCTarget \X MCComponent |->
     (IF s[1] = cross THEN 0 ELSE 2) + (IF s[2] = compiler THEN 0 ELSE 1)]
MCPolicy ==
  [s \in MCTarget \X MCComponent |->
     IF s = <<native, compiler>> THEN clang
     ELSE IF s = <<native, linker>> THEN lld
     ELSE IF s = <<cross, compiler>> THEN gcc ELSE NoTool]

V(base)      == [base |-> base, rev |-> <<>>]
V1_9         == V(<<<<1>>, <<9>>>>)
V1_10        == V(<<<<1>>, <<1, 0>>>>)
V1_10_0      == V(<<<<1>>, <<1, 0>>, <<0>>>>)
V1_10rev2    == [V1_10 EXCEPT !.rev = <<2>>]
V1_10rev11   == [V1_10 EXCEPT !.rev = <<1, 1>>]
V2           == V(<<<<2>>>>)
Future       == [base |-> <<<<1>>, <<>>>>, rev |-> <<>>]

E(tool, version, stable) ==
  [tool |-> tool, target |-> native, version |-> version, stable |-> stable,
   understood |-> version # Future, reason |-> version.rev # <<>>, formats |-> {tar}]

C(revision, entries) == [supported |-> TRUE, revision |-> revision, entries |-> entries]

Gcc == {E(gcc, V1_9, TRUE), [E(gcc, V2, TRUE) EXCEPT !.target = cross]}

MCCatalog ==
  {C(1, Gcc \cup {E(clang, V1_9, TRUE), E(lld, V1_9, TRUE)}),
   C(2, Gcc \cup {E(clang, V1_9, FALSE), E(clang, V1_10, TRUE), E(lld, V1_10, TRUE)}),
   C(3, Gcc \cup {E(clang, V1_10, FALSE), [E(clang, V1_10rev2, FALSE) EXCEPT !.formats = {tar, zip}], E(clang, V1_10rev11, TRUE),
                  [E(clang, V1_10_0, FALSE) EXCEPT !.formats = {rar}],
                  E(lld, V1_10_0, TRUE), E(lld, Future, FALSE)}),
   C(4, Gcc \cup {E(clang, V2, FALSE), E(clang, Future, TRUE), E(lld, V2, TRUE)}),
   \* Refused: an older stable, two stable releases, a version twice, a
   \* revision without a reason, another format of the file.
   C(5, {E(clang, V1_10, FALSE), E(clang, V1_9, TRUE), E(lld, V2, TRUE)}),
   C(6, {E(clang, V1_10rev2, TRUE), E(clang, V1_10rev11, FALSE)}),
   C(7, {E(clang, V1_9, TRUE), E(clang, V1_10, TRUE)}),
   C(8, {E(clang, V1_9, TRUE), [E(clang, V1_9, FALSE) EXCEPT !.formats = {zip}]}),
   C(9, {[E(clang, V1_10rev2, TRUE) EXCEPT !.reason = FALSE]}),
   [C(10, {}) EXCEPT !.supported = FALSE]}

S(kind, items, release) ==
  [kind |-> kind, items |-> items, release |-> release, target |-> native, format |-> tar]

MCSelection ==
  {S("component", <<compiler>>, Stable),
   [S("component", <<compiler>>, Stable) EXCEPT !.target = cross],
   S("profile", <<compiler, linker>>, Stable),
   S("toolchain", <<clang, lld>>, Stable),
   S("tool", <<clang>>, V1_10), S("tool", <<clang>>, Stable),
   [S("tool", <<clang>>, V1_10rev2) EXCEPT !.format = zip]}
==============================================================================
