------------------------ MODULE CatalogRefreshProofs ------------------------
(***************************************************************************)
(* Proofs about CatalogRefresh for any catalogs, servers, file identities  *)
(* and processes, any number of attempts and any number of failed reads.   *)
(***************************************************************************)
EXTENDS CatalogRefresh, TLAPS

Running(p) == pc[p] \in {"download", "commit"}

\* What a refresh knows across its unlocked window: it snapshotted a valid
\* catalog, downloaded from that catalog's server, and if nobody has overtaken
\* it more often than it started over, catalog.cfg is still its snapshot.
Knows(p) ==
  /\ attempt[p] <= seen[p]
  /\ pc[p] # "idle" => attempt[p] < MaxAttempts
  /\ Running(p) => before[p].status = "valid" /\ before[p].cat \in Catalog
  /\ Running(p) /\ seen[p] = attempt[p] => before[p] = local
  /\ pc[p] = "commit" => remote[p] \in Catalog /\ remote[p] \in Serves[UrlOf[before[p].cat]]

\* Nothing loads between moving a catalog aside and placing a seed.
Aside == holder # NoProc => ~Loads

Inv == TypeOK /\ Aside /\ \A p \in Proc : Knows(p)

\* The parts of a well-typed catalog file.
LEMMA LocalFacts ==
  /\ Missing \in Locals
  /\ \A c \in Catalog, i \in Id : /\ Valid(c, i) \in Locals
                                  /\ Valid(c, i).cat = c /\ Valid(c, i).status = "valid"
  /\ \A l \in Locals : l.status = "valid" => l.cat \in Catalog
  /\ Broken \subseteq Locals
BY DEF Missing, Locals, Broken, Valid, Refused

\* Whoever replaces catalog.cfg, by whatever file, overtakes the refreshes
\* under way, so what they know stays true.
LEMMA PublishKnows ==
  ASSUME Inv, NEW l \in Locals, Publish(l)
  PROVE  /\ local' \in Locals /\ seen' \in [Proc -> 0..MaxAttempts]
         /\ \A q \in Proc : UNCHANGED <<pc[q], before[q], remote[q], attempt[q]>> => Knows(q)'
<1> USE AttemptsAssumption DEF Inv, TypeOK, Publish
<1>1. local' \in Locals /\ seen' \in [Proc -> 0..MaxAttempts]
  OBVIOUS
<1>2. ASSUME NEW q \in Proc, UNCHANGED <<pc[q], before[q], remote[q], attempt[q]>>
      PROVE  Knows(q)'
  <2>1. attempt[q] \in Nat /\ seen[q] \in Nat /\ MaxAttempts \in Nat
    OBVIOUS
  <2>2. seen'[q] = IF l # local /\ seen[q] < MaxAttempts THEN seen[q] + 1 ELSE seen[q]
    OBVIOUS
  <2> QED
    BY <1>2, <2>1, <2>2 DEF Knows, Running
<1> QED
  BY <1>1, <1>2

\* A refresh that leaves catalog.cfg alone disturbs no other refresh.
LEMMA OthersKnow ==
  ASSUME Inv, NEW q \in Proc,
         UNCHANGED <<local, pc[q], before[q], remote[q], attempt[q], seen[q]>>
  PROVE  Knows(q)'
BY DEF Inv, Knows, Running

\* A new refresh has counted no attempt and seen no change.
LEMMA StartRefreshInv == \A p \in Proc : Inv /\ StartRefresh(p) => Inv'
<1> SUFFICES ASSUME NEW p \in Proc, Inv, StartRefresh(p) PROVE Inv'
  OBVIOUS
<1> USE AttemptsAssumption DEF Inv, StartRefresh
<1>1. TypeOK' /\ Aside'
  BY DEF TypeOK, Aside, Loads
<1>2. Knows(p)'
  BY DEF TypeOK, Knows, Running
<1>3. \A q \in Proc \ {p} : Knows(q)'
  BY OthersKnow DEF TypeOK
<1> QED
  BY <1>1, <1>2, <1>3

\* The snapshot is the current, valid catalog.
LEMMA SnapshotInv == \A p \in Proc : Inv /\ Snapshot(p) => Inv'
<1> SUFFICES ASSUME NEW p \in Proc, Inv, Snapshot(p) PROVE Inv'
  OBVIOUS
<1> USE DEF Inv, Snapshot
<1>1. TypeOK' /\ Aside'
  BY DEF TypeOK, Aside, Loads
<1>2. Knows(p)'
  BY LocalFacts DEF TypeOK, Knows, Running, Loads
<1>3. \A q \in Proc \ {p} : Knows(q)'
  BY OthersKnow DEF TypeOK
<1> QED
  BY <1>1, <1>2, <1>3

\* The download is an answer of the snapshot's server.
LEMMA DownloadInv == \A p \in Proc : Inv /\ Download(p) => Inv'
<1> SUFFICES ASSUME NEW p \in Proc, Inv, Download(p) PROVE Inv'
  OBVIOUS
<1> USE DEF Inv, Download
<1>0. before[p].cat \in Catalog
  BY DEF Knows, Running
<1>1. PICK c \in Serves[UrlOf[before[p].cat]] : remote' = [remote EXCEPT ![p] = c]
  OBVIOUS
<1>2. c \in Catalog
  BY <1>0, CatalogAssumption
<1>3. TypeOK' /\ Aside'
  BY <1>1, <1>2 DEF TypeOK, Aside, Loads
<1>4. Knows(p)'
  BY <1>1, <1>2 DEF TypeOK, Knows, Running
<1>5. \A q \in Proc \ {p} : Knows(q)'
  BY <1>1, OthersKnow DEF TypeOK
<1> QED
  BY <1>3, <1>4, <1>5

\* A refresh that returns without touching catalog.cfg.
LEMMA ReturnInv ==
  ASSUME Inv, NEW p \in Proc, Return(p),
         UNCHANGED <<local, attempt, seen, holder, misreads>>
  PROVE  Inv'
<1> USE DEF Inv, Return
<1>1. TypeOK' /\ Aside'
  BY LocalFacts DEF TypeOK, Aside, Loads
<1>2. Knows(p)'
  BY DEF TypeOK, Knows, Running
<1>3. \A q \in Proc \ {p} : Knows(q)'
  BY OthersKnow DEF TypeOK
<1> QED
  BY <1>1, <1>2, <1>3

\* A refresh that starts over was overtaken: its snapshot differs.
LEMMA NextAttemptInv ==
  ASSUME Inv, NEW p \in Proc, pc[p] = "commit", ~SameSnapshot(p), NextAttempt(p),
         UNCHANGED <<local, seen, holder, misreads>>
  PROVE  Inv'
<1> USE AttemptsAssumption DEF Inv, NextAttempt, Return
<1>1. attempt[p] \in Nat /\ seen[p] \in Nat /\ attempt[p] + 1 <= seen[p] /\ attempt[p] < MaxAttempts
  BY DEF TypeOK, Knows, Running, SameSnapshot
<1>2. TypeOK' /\ Aside'
  BY <1>1, LocalFacts DEF TypeOK, Aside, Loads
<1>3. Knows(p)'
  BY <1>1 DEF TypeOK, Knows, Running
<1>4. \A q \in Proc \ {p} : Knows(q)'
  BY OthersKnow DEF TypeOK
<1> QED
  BY <1>2, <1>3, <1>4

\* commit_remote_catalog: nothing to do, start over, replace or refuse.
LEMMA CommitInv == \A p \in Proc : Inv /\ Commit(p) => Inv'
<1> SUFFICES ASSUME NEW p \in Proc, Inv, Commit(p) PROVE Inv'
  OBVIOUS
<1>0. pc[p] = "commit" /\ holder = NoProc /\ UNCHANGED <<holder, misreads>>
  BY DEF Commit
<1>1. CASE Return(p) /\ UNCHANGED <<local, attempt, seen>>
  BY <1>0, <1>1, ReturnInv
<1>2. CASE ~SameSnapshot(p) /\ NextAttempt(p) /\ UNCHANGED <<local, seen>>
  BY <1>0, <1>2, NextAttemptInv
<1>3. CASE (\E i \in Id : Publish(Valid(remote[p], i))) /\ Return(p) /\ UNCHANGED attempt
  <2>1. PICK i \in Id : Publish(Valid(remote[p], i))
    BY <1>3
  <2>2. Valid(remote[p], i) \in Locals
    BY <1>0, LocalFacts DEF Inv, Knows
  <2>3. TypeOK' /\ Aside'
    BY <1>0, <1>3, <2>1, <2>2, PublishKnows, LocalFacts DEF Inv, TypeOK, Return, Aside
  <2>4. \A q \in Proc \ {p} : Knows(q)'
    BY <1>3, <2>1, <2>2, PublishKnows DEF Inv, TypeOK, Return
  <2>5. Knows(p)'
    <3>1. pc'[p] = "idle" /\ attempt'[p] = attempt[p]
      BY <1>3 DEF Inv, TypeOK, Return
    <3>2. attempt[p] <= seen'[p]
      BY <2>1, AttemptsAssumption DEF Inv, TypeOK, Knows, Publish
    <3> QED
      BY <3>1, <3>2 DEF Knows, Running
  <2> QED
    BY <2>3, <2>4, <2>5 DEF Inv
<1> QED
  BY <1>1, <1>2, <1>3 DEF Commit

\* A change of catalog.cfg by repair, reinstall or from outside.
LEMMA ReplaceInv ==
  ASSUME Inv, NEW l \in Locals, Publish(l), UNCHANGED <<pc, before, remote, attempt>>,
         holder' \in Proc \cup {NoProc}, holder' # NoProc => l = Missing, misreads' \in Nat
  PROVE  Inv'
<1>1. TypeOK' /\ Aside'
  BY PublishKnows DEF Inv, TypeOK, Aside, Loads, Missing, Publish
<1>2. \A q \in Proc : Knows(q)'
  BY PublishKnows
<1> QED
  BY <1>1, <1>2 DEF Inv

\* Repair and reinstall move a file aside that does not load or cannot be read.
LEMMA MoveAsideInv ==
  \A p \in Proc : Inv /\ (RepairCatalog(p) \/ Reinstall(p) \/ Misread(p)) => Inv'
<1> SUFFICES ASSUME NEW p \in Proc, Inv, RepairCatalog(p) \/ Reinstall(p) \/ Misread(p) PROVE Inv'
  OBVIOUS
<1>1. MoveAside(p) /\ misreads' \in Nat
  BY DEF RepairCatalog, Reinstall, Misread, Inv, TypeOK
<1> QED
  BY <1>1, LocalFacts, ReplaceInv DEF MoveAside

\* They place a seed, or give up before.
LEMMA SeedInv == \A p \in Proc : Inv /\ (PlaceSeed(p) \/ GiveUp(p)) => Inv'
<1> SUFFICES ASSUME NEW p \in Proc, Inv, PlaceSeed(p) \/ GiveUp(p) PROVE Inv'
  OBVIOUS
<1>1. CASE PlaceSeed(p)
  <2>1. PICK c \in Seeds, i \in Id : Publish(Valid(c, i))
    BY <1>1 DEF PlaceSeed
  <2>2. Valid(c, i) \in Locals /\ misreads' \in Nat
    BY <1>1, LocalFacts, CatalogAssumption DEF PlaceSeed, Inv, TypeOK
  <2> QED
    BY <1>1, <2>1, <2>2, ReplaceInv DEF PlaceSeed
<1>2. CASE GiveUp(p)
  <2>1. TypeOK' /\ Aside'
    BY <1>2 DEF GiveUp, Inv, TypeOK, Aside
  <2>2. \A q \in Proc : Knows(q)'
    BY <1>2, OthersKnow DEF GiveUp
  <2> QED
    BY <2>1, <2>2 DEF Inv
<1> QED
  BY <1>1, <1>2

\* Damage from outside cup, also while refreshes are downloading.
LEMMA DamageInv == Inv /\ Damage => Inv'
<1> SUFFICES ASSUME Inv, Damage PROVE Inv'
  OBVIOUS
<1>1. PICK l \in Broken : Publish(l)
  BY DEF Damage
<1>2. holder' = NoProc /\ misreads' \in Nat
  BY DEF Damage, Inv, TypeOK
<1> QED
  BY <1>1, <1>2, LocalFacts, ReplaceInv DEF Damage

\* The invariant holds at the start, when catalog.cfg is a release seed.
LEMMA InitInv == Init => Inv
<1> SUFFICES ASSUME Init PROVE Inv
  OBVIOUS
<1>1. local \in Locals
  BY LocalFacts, CatalogAssumption DEF Init
<1>2. TypeOK /\ Aside
  BY <1>1, LocalFacts, AttemptsAssumption DEF Init, TypeOK, Aside
<1>3. \A p \in Proc : Knows(p)
  BY AttemptsAssumption DEF Init, Knows, Running
<1> QED
  BY <1>2, <1>3 DEF Inv

\* Every step of every process keeps the invariant.
LEMMA NextInv == Inv /\ [Next]_vars => Inv'
<1> SUFFICES ASSUME Inv, [Next]_vars PROVE Inv'
  OBVIOUS
<1>1. ASSUME NEW p \in Proc, Refresh(p) PROVE Inv'
  BY <1>1, SnapshotInv, DownloadInv, CommitInv, ReturnInv DEF Refresh, Abort
<1>2. CASE UNCHANGED vars
  <2>1. TypeOK' /\ Aside'
    BY <1>2 DEF vars, Inv, TypeOK, Aside, Loads
  <2>2. \A q \in Proc : Knows(q)'
    BY <1>2, OthersKnow DEF vars
  <2> QED
    BY <2>1, <2>2 DEF Inv
<1> QED
  BY <1>1, <1>2, StartRefreshInv, MoveAsideInv, SeedInv, DamageInv DEF Next

\* The invariant holds in every reachable state.
THEOREM Invariance == Spec => []Inv
  BY InitInv, NextInv, PTL DEF Spec

\* catalog.cfg and the refreshes under way stay well typed.
THEOREM TypeCorrect == Spec => []TypeOK
<1>1. Inv => TypeOK
  BY DEF Inv
<1> QED
  BY <1>1, Invariance, PTL

\* A refresh starts over no more often than others changed the catalog, so a
\* refresh that gives up was overtaken MaxAttempts times.
THEOREM RetriesCaused == Spec => []RetriesAreCaused
<1>1. Inv => RetriesAreCaused
  BY DEF Inv, Knows, RetriesAreCaused
<1> QED
  BY <1>1, Invariance, PTL

\* A valid catalog is replaced, without first being moved aside, only by
\* commit_remote_catalog with its compare and swap.
LEMMA Replacement ==
  ASSUME Inv, [Next]_vars, Loads, Loads', local'.cat # local.cat
  PROVE  \E p \in Proc : /\ pc[p] = "commit" /\ SameSnapshot(p) /\ Newer(p)
                         /\ local'.cat = remote[p]
<1>0. ~(UNCHANGED local)
  OBVIOUS
<1>1. ASSUME NEW p \in Proc, Commit(p)
      PROVE  pc[p] = "commit" /\ SameSnapshot(p) /\ Newer(p) /\ local'.cat = remote[p]
  <2>1. PICK i \in Id : pc[p] = "commit" /\ SameSnapshot(p) /\ Newer(p) /\ Publish(Valid(remote[p], i))
    BY <1>0, <1>1 DEF Commit
  <2>2. remote[p] \in Catalog
    BY <2>1 DEF Inv, Knows
  <2> QED
    BY <2>1, <2>2, LocalFacts DEF Publish
<1>2. ~Damage
  BY DEF Damage, Publish, Broken, Refused, Loads
<1>3. ASSUME NEW p \in Proc PROVE ~RepairCatalog(p) /\ ~Reinstall(p) /\ ~Misread(p)
  BY DEF RepairCatalog, Reinstall, Misread, MoveAside, Publish, Missing, Loads
<1>4. ASSUME NEW p \in Proc PROVE ~PlaceSeed(p)
  BY CatalogAssumption DEF PlaceSeed, Inv, Aside
<1>5. ASSUME NEW p \in Proc PROVE ~StartRefresh(p) /\ ~Snapshot(p) /\ ~Download(p) /\ ~Abort(p) /\ ~GiveUp(p)
  BY <1>0 DEF StartRefresh, Snapshot, Download, Abort, GiveUp
<1>6. ~(UNCHANGED vars)
  BY <1>0 DEF vars
<1> QED
  BY <1>1, <1>2, <1>3, <1>4, <1>5, <1>6 DEF Next, Refresh

\* No refresh, however it interleaves with others, takes the catalog back.
THEOREM Advances == Spec => OnlyAdvances
<1>1. Inv /\ [Next]_vars =>
        (Loads /\ Loads' /\ local'.cat # local.cat => Rev[local'.cat] > Rev[local.cat])
  BY Replacement DEF Newer
<1>2. Spec => [][Loads /\ Loads' /\ local'.cat # local.cat => Rev[local'.cat] > Rev[local.cat]]_vars
  BY <1>1, Invariance, PTL DEF Spec
<1> QED
  BY <1>2 DEF OnlyAdvances

\* The bytes that replace a valid catalog came from that catalog's own server.
THEOREM Authority == Spec => OwnAuthority
<1>1. Inv /\ [Next]_vars =>
        (Loads /\ Loads' /\ local'.cat # local.cat => local'.cat \in Serves[UrlOf[local.cat]])
  BY Replacement DEF SameSnapshot, Inv, Knows
<1>2. Spec => [][Loads /\ Loads' /\ local'.cat # local.cat
                   => local'.cat \in Serves[UrlOf[local.cat]]]_vars
  BY <1>1, Invariance, PTL DEF Spec
<1> QED
  BY <1>2 DEF OwnAuthority
=============================================================================
