------------------------- MODULE PackageStoreProofs -------------------------
(***************************************************************************)
(* The journalled packages of PackageLifecycle implement PackageStore, for *)
(* any packages, scopes and processes and any number of faults. Most steps *)
(* stutter; the lemmas single out those that do not.                       *)
(***************************************************************************)
EXTENDS PackageLifecycleProofs

StoreStep == Store!Next \/ UNCHANGED Store!vars

\* Announcing, resolving, admitting, removing, choosing, spoiling, losing and
\* healing are the visible steps.
LEMMA Visible ==
  /\ \A p \in Package : \/ Store!Announce(p) \/ Store!Admit(p) \/ Store!Drop(p)
                        \/ Store!Choose(p) \/ Store!Spoil(p)
                        => StoreStep
  /\ Store!Resolve \/ Store!Lose \/ Store!Heal => StoreStep
BY DEF StoreStep, Store!Next

\* A step is invisible that keeps the records, the journalled package and
\* the spoilt ones, and moves no tree while state.txt is unreadable.
LEMMA Invisible ==
  ASSUME UNCHANGED <<stateFile, spoilt>>, journal'.pkg = journal.pkg,
         Loaded \/ Scanned' = Scanned
  PROVE  StoreStep
BY DEF StoreStep, Store!vars, Recorded, Loaded, installed

\* The same for a step that clears the journal.
LEMMA Clearing ==
  ASSUME Inv, UNCHANGED <<stateFile, spoilt>>, journal' = NoJournal, Loaded
  PROVE  StoreStep
<1>1. CASE journal.pkg = NoPkg
  BY <1>1, JournalFacts, Invisible
<1>2. CASE journal.pkg # NoPkg
  <2>1. Store!Resolve
    BY <1>2, JournalFacts DEF Store!Resolve, Recorded, Loaded, installed
  <2> QED
    BY <2>1, Visible
<1> QED
  BY <1>1, <1>2

\* Steps of a running command other than repair find readable state.
LEMMA CommandsRead ==
  ASSUME Inv, pc \notin RepairPc \cup {"idle"}
  PROVE  Loaded /\ pkg \in Package /\ (journal = NoJournal \/ journal.pkg = pkg)
BY DEF Inv, Working

LEMMA InstallSteps == Inv /\ InstallStep => StoreStep
<1> SUFFICES ASSUME Inv, InstallStep PROVE StoreStep
  OBVIOUS
<1>0. Loaded /\ pkg \in Package
  <2>1. pc \notin RepairPc \cup {"idle"}
    BY DEF InstallStep, Extract, PublishInstall, MovePackage, CommitInstall, UndoMove, UndoTree,
           UndoClear, RepairPc
  <2> QED
    BY <2>1, CommandsRead
<1>1. CASE Extract \/ UndoMove
  BY <1>0, <1>1, Invisible DEF Extract, UndoMove, env
<1>2. CASE UndoTree
  BY <1>0, <1>2, Invisible DEF UndoTree, Finish, env
<1>3. CASE PublishInstall
  <2>1. CASE journal' = journal
    BY <1>0, <1>3, <2>1, Invisible DEF PublishInstall, env
  <2>2. CASE journal' = [op |-> "install", pkg |-> pkg]
    <3>1. journal.pkg = NoPkg /\ journal'.pkg = pkg
      BY <1>3, <2>2, JournalFacts DEF PublishInstall, Inv, InstallPhase
    <3>2. Store!Announce(pkg)
      BY <1>0, <1>3, <3>1 DEF PublishInstall, Store!Announce, Recorded, Loaded, installed, env
    <3> QED
      BY <1>0, <3>2, Visible
  <2> QED
    BY <1>3, <2>1, <2>2 DEF PublishInstall
<1>4. CASE MovePackage
  <2>1. CASE spoilt' = spoilt
    BY <1>0, <1>4, <2>1, Invisible DEF MovePackage
  <2>2. CASE spoilt' = spoilt \ {pkg}
    <3>1. pkg \notin installed
      BY <1>4 DEF MovePackage, Inv, InstallPhase, InstallPc
    <3>2. UNCHANGED Store!vars
      BY <1>0, <1>4, <2>2, <3>1 DEF MovePackage, Store!vars, Recorded, Loaded, installed
    <3> QED
      BY <3>2 DEF StoreStep
  <2> QED
    BY <1>4, <2>1, <2>2 DEF MovePackage
<1>5. CASE CommitInstall
  <2>1. CASE UNCHANGED stateFile
    BY <1>0, <1>5, <2>1, Invisible DEF CommitInstall, env
  <2>2. CASE stateFile' = InstallState(pkg)
    <3>1. journal.pkg = pkg /\ pkg \notin spoilt
      BY <1>5 DEF CommitInstall, Inv, InstallPhase
    <3>2. /\ Loaded' /\ installed' = installed \cup {pkg}
          /\ stateFile'.default = IF MovesDefault(pkg) THEN [default EXCEPT ![ScopeOf[pkg]] = pkg]
                                  ELSE default
      BY <2>2 DEF InstallState, WithState, Loaded, installed
    <3>3. MovesDefault(pkg) /\ default[ScopeOf[pkg]] = NoPkg =>
            \A q \in installed : ScopeOf[q] # ScopeOf[pkg]
      BY <1>0 DEF MovesDefault, ScopeIsEmpty
    <3>4. (Recorded \ spoilt)' = (Recorded \ spoilt) \cup {pkg}
      BY <1>0, <1>5, <3>1, <3>2 DEF CommitInstall, Recorded, env
    <3>5. Store!Admit(pkg)
      BY <1>0, <1>5, <3>1, <3>2, <3>3, <3>4
         DEF CommitInstall, Store!Admit, Store!With, Recorded, default
    <3> QED
      BY <1>0, <3>5, Visible
  <2> QED
    BY <1>5, <2>1, <2>2 DEF CommitInstall
<1>6. CASE UndoClear
  BY <1>0, <1>6, Clearing DEF UndoClear, Finish, env
<1> QED
  BY <1>1, <1>2, <1>3, <1>4, <1>5, <1>6 DEF InstallStep

LEMMA RemoveSteps == Inv /\ RemoveStep => StoreStep
<1> SUFFICES ASSUME Inv, RemoveStep PROVE StoreStep
  OBVIOUS
<1>0. Loaded /\ pkg \in Package
  <2>1. pc \notin RepairPc \cup {"idle"}
    BY DEF RemoveStep, PublishRemove, StageRemoval, CommitRemoval, DiscardRemoved,
           RestoreRemoved, RepairPc
  <2> QED
    BY <2>1, CommandsRead
<1>1. CASE StageRemoval \/ DiscardRemoved \/ RestoreRemoved
  BY <1>0, <1>1, Invisible DEF StageRemoval, DiscardRemoved, RestoreRemoved, env
<1>2. CASE PublishRemove
  <2>1. journal.pkg = NoPkg /\ journal'.pkg = pkg
    BY <1>2, JournalFacts DEF PublishRemove, Inv, RemovePhase
  <2>2. Store!Announce(pkg)
    BY <1>0, <1>2, <2>1 DEF PublishRemove, Store!Announce, Recorded, Loaded, installed, env
  <2> QED
    BY <1>0, <2>2, Visible
<1>3. CASE CommitRemoval
  <2>1. CASE UNCHANGED stateFile
    BY <1>0, <1>3, <2>1, Invisible DEF CommitRemoval, env
  <2>2. CASE stateFile' = RemoveState(pkg)
    <3>1. journal.pkg = pkg
      BY <1>3 DEF CommitRemoval, Inv, RemovePhase
    <3>2. /\ Loaded' /\ installed' = installed \ {pkg}
          /\ stateFile'.default = IF default[ScopeOf[pkg]] = pkg
                                  THEN [default EXCEPT ![ScopeOf[pkg]] = NoPkg] ELSE default
      BY <2>2 DEF RemoveState, RemovesDefault, WithState, Loaded, installed
    <3>3. Store!Drop(pkg)
      BY <1>0, <1>3, <3>1, <3>2 DEF CommitRemoval, Store!Drop, Recorded, default, env
    <3> QED
      BY <1>0, <3>3, Visible
  <2> QED
    BY <1>3, <2>1, <2>2 DEF CommitRemoval
<1> QED
  BY <1>1, <1>2, <1>3 DEF RemoveStep

LEMMA TailSteps == Inv /\ (ClearJournal \/ Wrap \/ SaveDefault) => StoreStep
<1> SUFFICES ASSUME Inv, ClearJournal \/ Wrap \/ SaveDefault PROVE StoreStep
  OBVIOUS
<1>0. Loaded /\ pkg \in Package
  <2>1. pc \notin RepairPc \cup {"idle"}
    BY DEF ClearJournal, Wrap, SaveDefault, RepairPc
  <2> QED
    BY <2>1, CommandsRead
<1>1. CASE ClearJournal
  <2>1. CASE journal' = journal
    BY <1>0, <1>1, <2>1, Invisible DEF ClearJournal, env
  <2>2. CASE journal' = NoJournal
    BY <1>0, <1>1, <2>2, Clearing DEF ClearJournal, env
  <2> QED
    BY <1>1, <2>1, <2>2 DEF ClearJournal
<1>2. CASE Wrap
  BY <1>0, <1>2, Invisible DEF Wrap, Finish, env
<1>3. CASE SaveDefault
  <2>1. CASE UNCHANGED stateFile
    BY <1>0, <1>3, <2>1, Invisible DEF SaveDefault, Finish, env
  <2>2. CASE stateFile' = DefaultState(pkg)
    <3>1. journal.pkg = NoPkg
      BY <1>3, JournalFacts DEF SaveDefault, Inv, RemovePhase
    <3>2. /\ Loaded' /\ installed' = installed
          /\ stateFile'.default = [default EXCEPT ![ScopeOf[pkg]] = pkg]
      BY <2>2 DEF DefaultState, WithState, Loaded, installed
    <3>3. journal' = journal /\ spoilt' = spoilt
      BY <1>3 DEF SaveDefault, Finish, env
    <3>4. Store!Choose(pkg)
      BY <1>0, <3>1, <3>2, <3>3 DEF Store!Choose, Store!With, Recorded, default
    <3> QED
      BY <1>0, <3>4, Visible
  <2> QED
    BY <1>3, <2>1, <2>2 DEF SaveDefault
<1> QED
  BY <1>1, <1>2, <1>3

\* Without a journal, the complete trees are the recorded ones, the spoilt
\* ones excepted.
LEMMA ScannedIsRecorded ==
  ASSUME Inv, Loaded
  PROVE  \A q \in Package \ spoilt : q # journal.pkg => (q \in Scanned <=> q \in installed)
BY DEF Inv, Others, Settled, Scanned

LEMMA RepairSteps == Inv /\ RepairStep => StoreStep
<1> SUFFICES ASSUME Inv, RepairStep PROVE StoreStep
  OBVIOUS
<1>0. installed \in SUBSET Package /\ default \in [Scope -> Package \cup {NoPkg}]
  BY StateTypes DEF Inv
<1>1. CASE Recover
  <2>1. CASE journal' = journal
    <3>1. Loaded \/ tree' = tree
      BY <1>1 DEF Recover, RecoverInstalled, RecoverAbsent, Recovered
    <3> QED
      BY <1>1, <2>1, <3>1, Invisible DEF Recover, Scanned, env
  <2>2. CASE Loaded /\ journal' = NoJournal
    BY <1>1, <2>2, Clearing DEF Recover, env
  <2> QED
    BY <1>1, <2>1, <2>2 DEF Recover, Finish, Recovered
<1>2. CASE Quarantine
  <2>1. UNCHANGED <<stateFile, journal>>
    BY <1>2 DEF Quarantine
  <2>2. ASSUME NEW p \in Package, tree' = [tree EXCEPT ![p] = "missing"],
               tree[p] = "invalid", spoilt' = spoilt
        PROVE  StoreStep
    <3>1. Scanned' = Scanned
      BY <2>2 DEF Scanned, Inv, TypeOK
    <3> QED
      BY <2>1, <2>2, <3>1, Invisible
  <2>3. ASSUME NEW p \in Package, tree' = [tree EXCEPT ![p] = "missing"],
               spoilt' = spoilt \cup {p}
        PROVE  StoreStep
    <3>1. Scanned' = Scanned \ {p}
      BY <2>3 DEF Scanned, Inv, TypeOK
    <3>2. Store!Spoil(p)
      BY <2>1, <2>3, <3>1 DEF Store!Spoil, Recorded, Loaded, installed
    <3> QED
      BY <3>2, Visible
  <2>4. CASE UNCHANGED <<tree, spoilt>>
    BY <2>1, <2>4, Invisible DEF Scanned
  <2> QED
    BY <1>2, <2>2, <2>3, <2>4 DEF Quarantine
<1>3. CASE PreserveState
  <2>1. UNCHANGED <<tree, journal, spoilt>>
    BY <1>3 DEF PreserveState, env
  <2>2. CASE UNCHANGED stateFile
    BY <2>1, <2>2, Invisible DEF Scanned
  <2>3. CASE stateFile' = [status |-> "missing", installed |-> {}, default |-> NoDefaults]
    <3>1. ~Loaded' /\ stateFile'.default = [s \in Scope |-> NoPkg] /\ Recorded' = Scanned
      BY <2>1, <2>3 DEF Loaded, NoDefaults, Recorded, Scanned
    <3>2. journal.pkg = NoPkg
      BY <1>3, JournalFacts DEF PreserveState, Inv, RepairPhase, RepairPc
    <3>3. Scanned \ spoilt = Recorded \ spoilt
      BY <1>0, <3>2, ScannedIsRecorded, PackageAssumption DEF Recorded, Scanned
    <3>4. Store!Lose
      BY <2>1, <3>1, <3>3 DEF Store!Lose
    <3> QED
      BY <3>4, Visible
  <2> QED
    BY <1>3, <2>2, <2>3 DEF PreserveState
<1>4. CASE Reconcile
  <2>1. journal.pkg = NoPkg
    BY <1>4, JournalFacts DEF Reconcile, Inv, RepairPhase, RepairPc
  <2>2. /\ Loaded' /\ installed' = Scanned
        /\ stateFile'.default = [s \in Scope |-> IF default[s] \in Scanned THEN default[s] ELSE NoPkg]
    BY <1>4 DEF Reconcile, ReconciledState, WithState, Loaded, installed
  <2>3. NoPkg \notin Scanned /\ Scanned \subseteq Package
    BY PackageAssumption DEF Scanned
  <2>4. Scanned \ spoilt = Recorded \ spoilt
    BY <1>0, <2>1, <2>3, ScannedIsRecorded, PackageAssumption DEF Recorded
  <2>5. (Recorded \ spoilt)' = Recorded \ spoilt /\ journal' = journal
    BY <1>4, <2>2, <2>4 DEF Reconcile, Recorded, env
  <2>6. \A s \in Scope : stateFile'.default[s] # default[s] =>
                           stateFile'.default[s] = NoPkg /\ default[s] \notin Recorded \ spoilt
    BY <2>2, <2>4
  <2>7. stateFile'.default \in [Scope -> {default[s] : s \in Scope} \cup {NoPkg}]
    BY <2>2
  <2>8. Store!Heal
    BY <2>1, <2>2, <2>5, <2>6, <2>7 DEF Store!Heal, default
  <2> QED
    BY <2>8, Visible
<1>5. CASE RebuildWrappers \/ CleanupStaging \/ EndRepair
  BY <1>5, Invisible DEF RebuildWrappers, CleanupStaging, EndRepair, Finish, Scanned, env
<1> QED
  BY <1>1, <1>2, <1>3, <1>4, <1>5 DEF RepairStep

LEMMA StartSteps == \A i \in Proc : Start(i) => StoreStep
BY Invisible DEF Start, BeginInstall, BeginDefault, BeginRemove, PlanUpdate, BeginUpdate,
   SkipUpdate, StopUpdate, BeginRepair, disk, env, Scanned

LEMMA FaultSteps == Inv /\ (Stop \/ Damage) => StoreStep
<1> SUFFICES ASSUME Inv, Stop \/ Damage PROVE StoreStep
  OBVIOUS
<1>0. installed \in SUBSET Package
  BY StateTypes DEF Inv
<1>1. CASE Stop
  BY <1>1, Invisible DEF Stop, Finish, Scanned, env
<1>2. CASE Damage /\ DamageState
  <2>1. ~Loaded' /\ stateFile'.default = [s \in Scope |-> NoPkg]
    BY <1>2 DEF DamageState, Loaded, NoDefaults
  <2>2. UNCHANGED <<tree, spoilt, journal>>
    BY <1>2 DEF Damage, DamageState
  <2>3. (Recorded \ spoilt)' = Scanned \ spoilt
    BY <2>1, <2>2 DEF Recorded, Scanned
  <2>4. CASE ~Loaded
    <3>1. Store!Lose
      BY <2>1, <2>2, <2>3, <2>4 DEF Store!Lose, Recorded
    <3> QED
      BY <3>1, Visible
  <2>5. CASE Loaded
    <3> DEFINE old == installed \ spoilt  new == Scanned \ spoilt
    <3>1. old \subseteq Package /\ new \subseteq Package /\ NoPkg \notin Package
      BY <1>0, PackageAssumption DEF Scanned
    <3>2. \A q \in Package : q # journal.pkg => (q \in new <=> q \in old)
      BY <2>5, ScannedIsRecorded
    <3>3. new = old \/ new = old \ {journal.pkg} \/ new = old \cup ({journal.pkg} \ {NoPkg})
      BY <3>1, <3>2
    <3>4. Store!Lose
      BY <2>1, <2>2, <2>3, <2>5, <3>3 DEF Store!Lose, Recorded
    <3> QED
      BY <3>4, Visible
  <2> QED
    BY <2>4, <2>5
<1>3. ASSUME NEW p \in Package, Damage, DamageTree(p) PROVE StoreStep
  <2>1. /\ UNCHANGED <<stateFile, journal>>
        /\ spoilt' = spoilt \cup {p} /\ tree' = [tree EXCEPT ![p] = "invalid"]
    BY <1>3 DEF Damage, DamageTree
  <2>2. Scanned' = Scanned \ {p}
    BY <2>1 DEF Scanned, Inv, TypeOK
  <2>3. Store!Spoil(p)
    BY <2>1, <2>2 DEF Store!Spoil, Recorded, Loaded, installed
  <2> QED
    BY <2>3, Visible
<1> QED
  BY <1>1, <1>2, <1>3 DEF Damage

\* Installs, updates, removals, recovery and repair implement the abstract
\* store, whatever is interrupted, damaged or misread and however often.
THEOREM Refinement == Spec => RefinesStore
<1>1. Init => Store!Init
  BY JournalFacts DEF Init, Store!Init, Recorded, Loaded, installed, NoDefaults
<1>2. Inv /\ [Next]_vars => [Store!Next]_(Store!vars)
  <2> SUFFICES ASSUME Inv, [Next]_vars PROVE StoreStep
    BY DEF StoreStep
  <2>1. CASE UNCHANGED vars
    BY <2>1, Invisible DEF vars, disk, env, Scanned
  <2>2. CASE Next
    BY <2>2, InstallSteps, RemoveSteps, TailSteps, RepairSteps, StartSteps, FaultSteps
       DEF Next, Work
  <2> QED
    BY <2>1, <2>2
<1> QED
  BY <1>1, <1>2, Invariance, PTL DEF Spec, RefinesStore, Store!Spec
=============================================================================
