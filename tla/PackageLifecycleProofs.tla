----------------------- MODULE PackageLifecycleProofs -----------------------
(***************************************************************************)
(* Proofs about PackageLifecycle for any set of packages, scopes, wrapper  *)
(* names and processes and any number of faults. The inductive invariant   *)
(* says, for each step a command can be at, what the journal, the trees    *)
(* and the staging directory hold, so that stopping there is recoverable.  *)
(***************************************************************************)
EXTENDS PackageLifecycle, TLAPS

InstallPc == {"extract", "publish", "move", "commit", "undoMove", "undoTree"}
RemovePc  == {"journal", "stage", "drop", "discard", "restore"}
TailPc    == {"clear", "wrap", "undoClear"}
RepairPc  == {"recover", "quarantine", "preserve", "reconcile", "rebuild", "tidy", "healthy"}

\* Which command is at which step.
Shape ==
  /\ (holder = NoProc) <=> (pc = "idle")
  /\ (kind = "none") <=> (pc = "idle")
  /\ pc \in InstallPc => kind \in {"install", "update"}
  /\ pc = "save" => kind \in {"default", "update"}
  /\ pc \in RemovePc => kind = "remove"
  /\ pc \in TailPc => kind \in {"install", "update", "default", "remove"}
  /\ pc \in RepairPc => kind = "repair"

\* A package that no journal names and nothing spoilt is settled.
Others ==
  \A q \in Package \ spoilt :
    q # journal.pkg => tree[q] # "invalid" /\ (Loaded => Settled(q))

\* The one the journal names has its bytes if state.txt still records it.
Journalled ==
  Loaded => \A q \in installed \ spoilt :
              q = journal.pkg => tree[q] = "valid" \/ staging = "valid"

\* Only repair runs on an unreadable state, and a command's own package is the
\* only one a journal can name meanwhile.
Working ==
  pc \notin RepairPc \cup {"idle"} =>
    /\ Loaded /\ pkg \in Package
    /\ journal = NoJournal \/ journal.pkg = pkg

InstallPhase ==
  /\ pc \in InstallPc => pkg \notin installed
  /\ pc \in {"extract", "publish"} => journal = NoJournal /\ ~owns
  /\ pc \in {"extract", "publish", "move", "undoTree"} => tree[pkg] = "missing"
  /\ pc \in {"publish", "move"} => staging = "valid"
  /\ pc \in {"move", "commit", "undoMove"} => journal.pkg = pkg /\ owns
  /\ pc \in {"commit", "undoMove"} => tree[pkg] = "valid" /\ pkg \notin spoilt
  /\ pc = "undoTree" /\ owns => journal.pkg = pkg

RemovePhase ==
  /\ pc \in {"journal", "stage", "drop", "restore", "save"} => pkg \in installed
  /\ pc \in {"journal", "save"} => journal = NoJournal
  /\ pc \in {"stage", "drop", "restore", "discard"} => journal.pkg = pkg
  /\ pc = "stage" /\ pkg \notin spoilt => tree[pkg] = "valid"
  /\ pc \in {"drop", "restore"} => tree[pkg] = "missing"
  /\ pc \in {"drop", "restore"} /\ pkg \notin spoilt => staging = "valid"
  /\ pc \in {"discard", "clear", "undoClear"} =>
       journal.pkg = pkg /\ (pkg \notin spoilt => Settled(pkg))

RepairPhase ==
  /\ pc = "recover" => pkg = journal.pkg
  /\ pc \in RepairPc \ {"recover"} => journal = NoJournal
  /\ pc \in {"preserve", "reconcile"} => \A q \in Package : tree[q] # "invalid"
  /\ pc \in {"rebuild", "tidy", "healthy"} => Loaded /\ \A q \in Package : Settled(q)
  /\ pc \in {"tidy", "healthy"} => CanWrap(default) /\ WrappersApplied
  /\ pc = "healthy" => ~litter /\ staging = "missing"

PlanSound ==
  \A i \in Proc : \A x \in plan[i] :
    SameFamily(x.ref, x.target) /\ Rank[x.ref] <= Rank[x.target]

UpdateSound ==
  kind = "update" =>
    /\ expect # NoPkg => SameFamily(expect, pkg) /\ Rank[expect] <= Rank[pkg]
    /\ pc \in {"extract", "publish", "move", "commit"} => ~ScopeIsEmpty(pkg)

Inv == /\ TypeOK /\ Shape /\ Others /\ Journalled /\ Working
       /\ InstallPhase /\ RemovePhase /\ RepairPhase
       /\ StateValid /\ PlanSound /\ UpdateSound

(***************************************************************************)
(* Facts about the values the actions build.                               *)
(***************************************************************************)

\* What a journal record says about its package.
LEMMA JournalFacts ==
  /\ NoJournal \in Journals /\ NoJournal.pkg = NoPkg
  /\ \A p \in Package, op \in {"install", "remove"} :
       /\ [op |-> op, pkg |-> p] \in Journals
       /\ [op |-> op, pkg |-> p].pkg = p
       /\ [op |-> op, pkg |-> p] # NoJournal
  /\ \A j \in Journals : j # NoJournal <=> j.pkg \in Package
BY PackageAssumption DEF NoJournal, Journals

\* The fields of a well-typed state file.
LEMMA StateTypes ==
  ASSUME TypeOK
  PROVE  /\ installed \in SUBSET Package
         /\ default \in [Scope -> Package \cup {NoPkg}]
BY DEF TypeOK, StateFiles, Defaults, installed, default

\* WithState builds a readable state file with the given fields.
LEMMA WithStateFacts ==
  ASSUME NEW inst \in SUBSET Package, NEW def \in Defaults
  PROVE  /\ WithState(inst, def) \in StateFiles
         /\ WithState(inst, def).status = "loaded"
         /\ WithState(inst, def).installed = inst
         /\ WithState(inst, def).default = def
BY DEF WithState, StateFiles

\* The state an install saves: well
\* typed, and with every default installed in its scope.
LEMMA InstallStateFacts ==
  ASSUME TypeOK, StateValid, NEW p \in Package
  PROVE  LET new == InstallState(p) IN
         /\ new \in StateFiles /\ new.status = "loaded"
         /\ new.installed = installed \cup {p}
         /\ \A s \in Scope : new.default[s] = IF MovesDefault(p) /\ s = ScopeOf[p]
                                              THEN p ELSE default[s]
<1> DEFINE def == IF MovesDefault(p) THEN [default EXCEPT ![ScopeOf[p]] = p] ELSE default
<1>1. def \in Defaults /\ installed \cup {p} \in SUBSET Package
  BY StateTypes DEF Defaults
<1>2. \A s \in Scope : def[s] = IF MovesDefault(p) /\ s = ScopeOf[p] THEN p ELSE default[s]
  BY StateTypes, PackageAssumption
<1>3. InstallState(p) = WithState(installed \cup {p}, def)
  BY DEF InstallState
<1> HIDE DEF def
<1> QED
  BY <1>1, <1>2, <1>3, WithStateFacts

\* The state a removal saves.
LEMMA RemoveStateFacts ==
  ASSUME TypeOK, StateValid, NEW p \in Package
  PROVE  LET new == RemoveState(p) IN
         /\ new \in StateFiles /\ new.status = "loaded"
         /\ new.installed = installed \ {p}
         /\ \A s \in Scope : new.default[s] = IF default[s] = p THEN NoPkg ELSE default[s]
<1> DEFINE def == IF RemovesDefault(p) THEN [default EXCEPT ![ScopeOf[p]] = NoPkg] ELSE default
<1>1. def \in Defaults /\ installed \ {p} \in SUBSET Package
  BY StateTypes DEF Defaults
<1>2. \A s \in Scope : def[s] = IF default[s] = p THEN NoPkg ELSE default[s]
  BY StateTypes, PackageAssumption DEF RemovesDefault, StateValid
<1>3. RemoveState(p) = WithState(installed \ {p}, def)
  BY DEF RemoveState
<1> HIDE DEF def
<1> QED
  BY <1>1, <1>2, <1>3, WithStateFacts

\* The state a default change saves.
LEMMA DefaultStateFacts ==
  ASSUME TypeOK, NEW p \in Package
  PROVE  LET new == DefaultState(p) IN
         /\ new \in StateFiles /\ new.status = "loaded"
         /\ new.installed = installed
         /\ \A s \in Scope : new.default[s] = IF s = ScopeOf[p] THEN p ELSE default[s]
<1> DEFINE def == [default EXCEPT ![ScopeOf[p]] = p]
<1>1. def \in Defaults
  BY StateTypes DEF Defaults
<1>2. \A s \in Scope : def[s] = IF s = ScopeOf[p] THEN p ELSE default[s]
  BY StateTypes, PackageAssumption
<1>3. DefaultState(p) = WithState(installed, def)
  BY DEF DefaultState
<1> HIDE DEF def
<1> QED
  BY <1>1, <1>2, <1>3, StateTypes, WithStateFacts

\* The state a repair saves.
LEMMA ReconciledStateFacts ==
  ASSUME TypeOK
  PROVE  LET new == ReconciledState IN
         /\ new \in StateFiles /\ new.status = "loaded"
         /\ new.installed = Scanned
         /\ \A s \in Scope : new.default[s] = IF default[s] \in Scanned THEN default[s] ELSE NoPkg
<1> DEFINE def == [s \in Scope |-> IF default[s] \in Scanned THEN default[s] ELSE NoPkg]
<1>1. def \in Defaults /\ Scanned \in SUBSET Package
  BY StateTypes DEF Defaults, Scanned
<1> QED
  BY <1>1, WithStateFacts DEF ReconciledState

\* The wrapper namespace is a function into packages.
LEMMA WrappersForType ==
  ASSUME NEW def \in Defaults
  PROVE  WrappersFor(def) \in [Command -> Package \cup {NoPkg}]
<1>1. \A c \in Command : Providers(def, c) \subseteq Package
  BY DEF Providers, Defaults
<1>2. \A c \in Command : Providers(def, c) # {} =>
        (CHOOSE p \in Providers(def, c) : TRUE) \in Providers(def, c)
  OBVIOUS
<1> QED
  BY <1>1, <1>2 DEF WrappersFor

(***************************************************************************)
(* The effects of install, remove and repair, one lemma per action and one *)
(* step per part of the invariant.                                         *)
(***************************************************************************)

\* extract_install_package fills the staging directory, or fails into rollback.
LEMMA ExtractInv == Inv /\ Extract => Inv'
<1> SUFFICES ASSUME Inv, Extract PROVE Inv'
  OBVIOUS
<1> USE PackageAssumption, ProcAssumption DEF Inv, env, TypeOK, Shape, Working, Extract, Go,
       cmd, Fault, InstallPc, RemovePc, TailPc, RepairPc
<1>1. TypeOK'
  BY DEF Bytes, Steps
<1>2. Shape' /\ Working'
  BY DEF InstallPhase, RemovePhase, Loaded
<1>3. InstallPhase'
  BY DEF InstallPhase, Loaded, Settled, installed
<1>4. RemovePhase'
  BY DEF InstallPhase, RemovePhase, Others, Loaded, Settled, installed
<1>5. RepairPhase'
  BY DEF RepairPhase, Loaded, Settled, installed
<1>6. Others'
  BY DEF InstallPhase, RemovePhase, RepairPhase, Others, Loaded, Settled, installed
<1>7. Journalled'
  BY DEF InstallPhase, RemovePhase, RepairPhase, Journalled, Others, Loaded, Settled, installed
<1>8. StateValid' /\ PlanSound' /\ UpdateSound'
  BY DEF InstallPhase, StateValid, PlanSound, UpdateSound, ScopeIsEmpty, installed, default
<1> QED
  BY <1>1, <1>2, <1>3, <1>4, <1>5, <1>6, <1>7, <1>8

\* begin_install_commit publishes the install journal, or fails with it there or not.
LEMMA PublishInstallInv == Inv /\ PublishInstall => Inv'
<1> SUFFICES ASSUME Inv, PublishInstall PROVE Inv'
  OBVIOUS
<1> USE PackageAssumption, ProcAssumption DEF Inv, env, TypeOK, Shape, Working, PublishInstall,
       Go, cmd, Fault, InstallPc, RemovePc, TailPc, RepairPc
<1>0. installed \in SUBSET Package
  BY StateTypes
<1>1. TypeOK'
  <2>1. journal' \in Journals
    BY JournalFacts
  <2>2. pc' \in Steps /\ owns' \in BOOLEAN
    BY DEF Steps
  <2>3. faults' \in Nat
    OBVIOUS
  <2>4. QED
    BY <2>1, <2>2, <2>3
<1>2. Shape' /\ Working'
  BY JournalFacts, <1>0 DEF InstallPhase, RemovePhase, Loaded
<1>3. InstallPhase'
  BY JournalFacts, <1>0 DEF InstallPhase, Loaded, Settled, installed
<1>4. RemovePhase'
  BY JournalFacts, <1>0 DEF InstallPhase, RemovePhase, Others, Loaded, Settled, installed
<1>5. RepairPhase'
  BY JournalFacts, <1>0 DEF RepairPhase, Loaded, Settled, installed
<1>6. Others'
  BY JournalFacts, <1>0 DEF InstallPhase, RemovePhase, RepairPhase, Others, Loaded, Settled,
       installed
<1>7. Journalled'
  BY JournalFacts, <1>0 DEF InstallPhase, RemovePhase, RepairPhase, Journalled, Others, Loaded,
       Settled, installed
<1>8. StateValid' /\ PlanSound' /\ UpdateSound'
  BY JournalFacts, <1>0 DEF InstallPhase, StateValid, PlanSound, UpdateSound, ScopeIsEmpty,
       installed, default
<1> QED
  BY <1>1, <1>2, <1>3, <1>4, <1>5, <1>6, <1>7, <1>8

\* The staged package is renamed to its canonical path.
LEMMA MovePackageInv == Inv /\ MovePackage => Inv'
<1> SUFFICES ASSUME Inv, MovePackage PROVE Inv'
  OBVIOUS
<1> USE PackageAssumption, ProcAssumption DEF Inv, env, TypeOK, Shape, Working, MovePackage, Go,
       cmd, Fault, InstallPc, RemovePc, TailPc, RepairPc
<1>1. TypeOK'
  BY DEF Bytes, Steps
<1>2. Shape' /\ Working'
  BY DEF InstallPhase, RemovePhase, Loaded
<1>3. InstallPhase'
  BY DEF InstallPhase, Loaded, Settled, installed
<1>4. RemovePhase'
  BY DEF InstallPhase, RemovePhase, Others, Loaded, Settled, installed
<1>5. RepairPhase'
  BY DEF RepairPhase, Loaded, Settled, installed
<1>6. Others'
  BY DEF InstallPhase, RemovePhase, RepairPhase, Others, Loaded, Settled, installed
<1>7. Journalled'
  BY DEF InstallPhase, RemovePhase, RepairPhase, Journalled, Others, Loaded, Settled, installed
<1>8. StateValid' /\ PlanSound' /\ UpdateSound'
  BY DEF InstallPhase, StateValid, PlanSound, UpdateSound, ScopeIsEmpty, installed, default
<1> QED
  BY <1>1, <1>2, <1>3, <1>4, <1>5, <1>6, <1>7, <1>8

\* rollback_install moves the published tree back to staging.
LEMMA UndoMoveInv == Inv /\ UndoMove => Inv'
<1> SUFFICES ASSUME Inv, UndoMove PROVE Inv'
  OBVIOUS
<1> USE PackageAssumption, ProcAssumption DEF Inv, env, TypeOK, Shape, Working, UndoMove, Go,
       cmd, InstallPc, RemovePc, TailPc, RepairPc
<1>1. TypeOK'
  BY DEF Bytes, Steps
<1>2. Shape' /\ Working'
  BY DEF InstallPhase, RemovePhase, Loaded
<1>3. InstallPhase'
  BY DEF InstallPhase, Loaded, Settled, installed
<1>4. RemovePhase'
  BY DEF InstallPhase, RemovePhase, Others, Loaded, Settled, installed
<1>5. RepairPhase'
  BY DEF RepairPhase, Loaded, Settled, installed
<1>6. Others'
  BY DEF InstallPhase, RemovePhase, RepairPhase, Others, Loaded, Settled, installed
<1>7. Journalled'
  BY DEF InstallPhase, RemovePhase, RepairPhase, Journalled, Others, Loaded, Settled, installed
<1>8. StateValid' /\ PlanSound' /\ UpdateSound'
  BY DEF InstallPhase, StateValid, PlanSound, UpdateSound, ScopeIsEmpty, installed, default
<1> QED
  BY <1>1, <1>2, <1>3, <1>4, <1>5, <1>6, <1>7, <1>8

\* prepare_remove publishes the removal journal.
LEMMA PublishRemoveInv == Inv /\ PublishRemove => Inv'
<1> SUFFICES ASSUME Inv, PublishRemove PROVE Inv'
  OBVIOUS
<1> USE PackageAssumption, ProcAssumption DEF Inv, env, TypeOK, Shape, Working, PublishRemove,
       cmd, InstallPc, RemovePc, TailPc, RepairPc
<1>0. installed \in SUBSET Package
  BY StateTypes
<1>1. TypeOK'
  BY JournalFacts, <1>0 DEF Bytes, Steps
<1>2. Shape' /\ Working'
  BY JournalFacts, <1>0 DEF InstallPhase, RemovePhase, Loaded
<1>3. InstallPhase'
  BY JournalFacts, <1>0 DEF InstallPhase, Loaded, Settled, installed
<1>4. RemovePhase'
  BY JournalFacts, <1>0 DEF InstallPhase, RemovePhase, Others, Loaded, Settled, installed
<1>5. RepairPhase'
  BY JournalFacts, <1>0 DEF RepairPhase, Loaded, Settled, installed
<1>6. Others'
  BY JournalFacts, <1>0 DEF InstallPhase, RemovePhase, RepairPhase, Others, Loaded, Settled,
       installed
<1>7. Journalled'
  BY JournalFacts, <1>0 DEF InstallPhase, RemovePhase, RepairPhase, Journalled, Others, Loaded,
       Settled, installed
<1>8. StateValid' /\ PlanSound' /\ UpdateSound'
  BY JournalFacts, <1>0 DEF InstallPhase, StateValid, PlanSound, UpdateSound, ScopeIsEmpty,
       installed, default
<1> QED
  BY <1>1, <1>2, <1>3, <1>4, <1>5, <1>6, <1>7, <1>8

\* stage_removal renames the canonical tree into staging.
LEMMA StageRemovalInv == Inv /\ StageRemoval => Inv'
<1> SUFFICES ASSUME Inv, StageRemoval PROVE Inv'
  OBVIOUS
<1> USE PackageAssumption, ProcAssumption DEF Inv, env, TypeOK, Shape, Working, StageRemoval,
       Go, cmd, Fault, InstallPc, RemovePc, TailPc, RepairPc
<1>1. TypeOK'
  BY DEF Bytes, Steps
<1>2. Shape' /\ Working'
  BY DEF InstallPhase, RemovePhase, Loaded
<1>3. InstallPhase'
  BY DEF InstallPhase, Loaded, Settled, installed
<1>4. RemovePhase'
  BY DEF InstallPhase, RemovePhase, Others, Loaded, Settled, installed
<1>5. RepairPhase'
  BY DEF RepairPhase, Loaded, Settled, installed
<1>6. Others'
  BY DEF InstallPhase, RemovePhase, RepairPhase, Others, Loaded, Settled, installed
<1>7. Journalled'
  BY DEF InstallPhase, RemovePhase, RepairPhase, Journalled, Others, Loaded, Settled, installed
<1>8. StateValid' /\ PlanSound' /\ UpdateSound'
  BY DEF InstallPhase, StateValid, PlanSound, UpdateSound, ScopeIsEmpty, installed, default
<1> QED
  BY <1>1, <1>2, <1>3, <1>4, <1>5, <1>6, <1>7, <1>8

\* The staged bytes of a committed removal are deleted.
LEMMA DiscardRemovedInv == Inv /\ DiscardRemoved => Inv'
<1> SUFFICES ASSUME Inv, DiscardRemoved PROVE Inv'
  OBVIOUS
<1> USE PackageAssumption, ProcAssumption DEF Inv, env, TypeOK, Shape, Working, DiscardRemoved,
       Go, cmd, Fault, InstallPc, RemovePc, TailPc, RepairPc
<1>1. TypeOK'
  BY DEF Bytes, Steps
<1>2. Shape' /\ Working'
  BY DEF InstallPhase, RemovePhase, Loaded
<1>3. InstallPhase'
  BY DEF InstallPhase, Loaded, Settled, installed
<1>4. RemovePhase'
  BY DEF InstallPhase, RemovePhase, Others, Loaded, Settled, installed
<1>5. RepairPhase'
  BY DEF RepairPhase, Loaded, Settled, installed
<1>6. Others'
  BY DEF InstallPhase, RemovePhase, RepairPhase, Others, Loaded, Settled, installed
<1>7. Journalled'
  BY DEF InstallPhase, RemovePhase, RepairPhase, Journalled, Others, Loaded, Settled, installed
<1>8. StateValid' /\ PlanSound' /\ UpdateSound'
  BY DEF InstallPhase, StateValid, PlanSound, UpdateSound, ScopeIsEmpty, installed, default
<1> QED
  BY <1>1, <1>2, <1>3, <1>4, <1>5, <1>6, <1>7, <1>8

\* rollback_removal renames the staged package back.
LEMMA RestoreRemovedInv == Inv /\ RestoreRemoved => Inv'
<1> SUFFICES ASSUME Inv, RestoreRemoved PROVE Inv'
  OBVIOUS
<1> USE PackageAssumption, ProcAssumption DEF Inv, env, TypeOK, Shape, Working, RestoreRemoved,
       Go, cmd, InstallPc, RemovePc, TailPc, RepairPc
<1>1. TypeOK'
  BY DEF Bytes, Steps
<1>2. Shape' /\ Working'
  BY DEF InstallPhase, RemovePhase, Loaded
<1>3. InstallPhase'
  BY DEF InstallPhase, Loaded, Settled, installed
<1>4. RemovePhase'
  BY DEF InstallPhase, RemovePhase, Others, Loaded, Settled, installed
<1>5. RepairPhase'
  BY DEF RepairPhase, Loaded, Settled, installed
<1>6. Others'
  BY DEF InstallPhase, RemovePhase, RepairPhase, Others, Loaded, Settled, installed
<1>7. Journalled'
  BY DEF InstallPhase, RemovePhase, RepairPhase, Journalled, Others, Loaded, Settled, installed
<1>8. StateValid' /\ PlanSound' /\ UpdateSound'
  BY DEF InstallPhase, StateValid, PlanSound, UpdateSound, ScopeIsEmpty, installed, default
<1> QED
  BY <1>1, <1>2, <1>3, <1>4, <1>5, <1>6, <1>7, <1>8

\* The journal of a committed operation is cleared.
LEMMA ClearJournalInv == Inv /\ ClearJournal => Inv'
<1> SUFFICES ASSUME Inv, ClearJournal PROVE Inv'
  OBVIOUS
<1> USE PackageAssumption, ProcAssumption DEF Inv, env, TypeOK, Shape, Working, ClearJournal,
       cmd, Fault, InstallPc, RemovePc, TailPc, RepairPc
<1>0. installed \in SUBSET Package
  BY StateTypes
<1>1. TypeOK'
  <2>1. journal' \in Journals
    BY JournalFacts
  <2>2. pc' \in Steps /\ owns' \in BOOLEAN
    BY DEF Steps, Go
  <2>3. faults' \in Nat
    OBVIOUS
  <2>4. QED
    BY <2>1, <2>2, <2>3 DEF Go
<1>2. Shape' /\ Working'
  BY JournalFacts, <1>0 DEF InstallPhase, RemovePhase, Loaded
<1>3. InstallPhase'
  BY JournalFacts, <1>0 DEF InstallPhase, Loaded, Settled, installed
<1>4. RemovePhase'
  BY JournalFacts, <1>0 DEF InstallPhase, RemovePhase, Others, Loaded, Settled, installed
<1>5. RepairPhase'
  BY JournalFacts, <1>0 DEF RepairPhase, Loaded, Settled, installed
<1>6. Others'
  BY JournalFacts, <1>0 DEF InstallPhase, RemovePhase, RepairPhase, Others, Loaded, Settled,
       installed
<1>7. Journalled'
  BY JournalFacts, <1>0 DEF InstallPhase, RemovePhase, RepairPhase, Journalled, Others, Loaded,
       Settled, installed
<1>8. StateValid' /\ PlanSound' /\ UpdateSound'
  BY JournalFacts, <1>0 DEF InstallPhase, StateValid, PlanSound, UpdateSound, ScopeIsEmpty,
       installed, default
<1> QED
  BY <1>1, <1>2, <1>3, <1>4, <1>5, <1>6, <1>7, <1>8

\* repair moves a tree it finds invalid, or cannot read, into quarantine.
LEMMA QuarantineInv == Inv /\ Quarantine => Inv'
<1> SUFFICES ASSUME Inv, Quarantine PROVE Inv'
  OBVIOUS
<1> USE JournalFacts, PackageAssumption DEF Inv, env, cmd, run, Go
<1>0. installed \in SUBSET Package
  BY StateTypes
<1>a. /\ pc = "quarantine" /\ pc' \in {"quarantine", "preserve"} /\ faults' \in Nat
      /\ spoilt \subseteq spoilt' /\ spoilt' \subseteq Package
      /\ UNCHANGED <<stateFile, journal, staging, litter, bin, cmd, owns, rewrap, plan, damage>>
  BY DEF Quarantine, Fault, TypeOK
<1>b. /\ tree' \in [Package -> Bytes]
      /\ \A q \in Package : \/ tree'[q] = tree[q]
                             \/ /\ tree'[q] = "missing"
                                /\ tree[q] = "invalid" \/ q \in spoilt'
  BY DEF Quarantine, TypeOK, Bytes
<1>c. pc' = "preserve" => \A q \in Package : tree'[q] # "invalid"
  BY <1>a DEF Quarantine
<1>d. journal = NoJournal
  BY <1>a DEF RepairPhase, RepairPc
<1>1. TypeOK' /\ Shape'
  BY <1>a, <1>b DEF TypeOK, Shape, Steps, InstallPc, RemovePc, TailPc, RepairPc
<1>2. Working' /\ InstallPhase' /\ RemovePhase'
  BY <1>a DEF Working, InstallPhase, RemovePhase, InstallPc, RepairPc
<1>3. RepairPhase'
  BY <1>a, <1>c, <1>d DEF RepairPhase, RepairPc
<1>4. Others'
  BY <1>a, <1>b, <1>d DEF Others, Settled, Loaded, installed
<1>5. Journalled'
  BY <1>0, <1>a, <1>d DEF Journalled, Loaded, installed
<1>6. StateValid' /\ PlanSound' /\ UpdateSound'
  BY <1>a DEF StateValid, PlanSound, UpdateSound, installed, default, ScopeIsEmpty, Shape
<1> QED
  BY <1>1, <1>2, <1>3, <1>4, <1>5, <1>6

\* repair moves a state.txt aside that is malformed or that it cannot read.
LEMMA PreserveStateInv == Inv /\ PreserveState => Inv'
<1> SUFFICES ASSUME Inv, PreserveState PROVE Inv'
  OBVIOUS
<1> USE JournalFacts, PackageAssumption DEF Inv, env, cmd, Go
<1>0. installed \in SUBSET Package
  BY StateTypes
<1>a. /\ pc = "preserve" /\ pc' = "reconcile" /\ faults' \in Nat
      /\ UNCHANGED <<tree, journal, staging, litter, bin, cmd, owns, rewrap, plan, env>>
  BY DEF PreserveState, Unreadable, Fault, TypeOK
<1>b. \/ stateFile' = [status |-> "missing", installed |-> {}, default |-> NoDefaults]
      \/ stateFile' = stateFile
  BY DEF PreserveState
<1>c. stateFile' \in StateFiles
  BY <1>b DEF StateFiles, Defaults, NoDefaults, TypeOK
<1>d. journal = NoJournal
  BY <1>a DEF RepairPhase, RepairPc
<1>1. TypeOK' /\ Shape'
  BY <1>a, <1>c DEF TypeOK, Shape, Steps, InstallPc, RemovePc, TailPc, RepairPc
<1>2. Working' /\ InstallPhase' /\ RemovePhase'
  BY <1>a DEF Working, InstallPhase, RemovePhase, InstallPc, RepairPc
<1>3. RepairPhase'
  BY <1>a, <1>d DEF RepairPhase, RepairPc
<1>4. Others'
  BY <1>a, <1>b, <1>d DEF Others, Settled, Loaded, installed
<1>5. Journalled'
  BY <1>a, <1>b, <1>d, <1>0 DEF Journalled, Loaded, installed
<1>6. StateValid'
  BY <1>b DEF StateValid, NoDefaults, installed, default
<1>7. PlanSound' /\ UpdateSound'
  BY <1>a DEF PlanSound, UpdateSound, Shape, RepairPc
<1> QED
  BY <1>1, <1>2, <1>3, <1>4, <1>5, <1>6, <1>7

\* state_save commits the install, or rollback begins.
LEMMA CommitInstallInv == Inv /\ CommitInstall => Inv'
<1> SUFFICES ASSUME Inv, CommitInstall PROVE Inv'
  OBVIOUS
<1> USE PackageAssumption, ProcAssumption DEF Inv, env, TypeOK, Shape, Working, CommitInstall,
       Go, cmd, Fault, InstallPc, RemovePc, TailPc, RepairPc, Loaded
<1>a. pc = "commit" /\ pkg \in Package
  OBVIOUS
<1>b. /\ InstallState(pkg) \in StateFiles /\ InstallState(pkg).status = "loaded"
      /\ InstallState(pkg).installed = installed \cup {pkg}
      /\ \A s \in Scope : InstallState(pkg).default[s] = IF MovesDefault(pkg) /\ s =
           ScopeOf[pkg]
                                                        THEN pkg ELSE default[s]
  BY <1>a, InstallStateFacts
<1>1. TypeOK'
  <2>1. stateFile' \in StateFiles /\ rewrap' \in BOOLEAN
    BY <1>a, <1>b DEF MovesDefault
  <2>2. QED
    BY <2>1 DEF Steps
<1>2. Shape' /\ Working'
  BY <1>a, <1>b DEF InstallPhase, RemovePhase
<1>3. InstallPhase'
  BY <1>a, <1>b DEF InstallPhase, Settled, installed
<1>4. RemovePhase'
  BY <1>a, <1>b DEF InstallPhase, RemovePhase, Others, Settled, installed
<1>5. RepairPhase'
  BY <1>a, <1>b DEF RepairPhase, Settled, installed
<1>6. Others'
  BY <1>a, <1>b DEF InstallPhase, RemovePhase, RepairPhase, Others, Settled, installed
<1>7. Journalled'
  BY <1>a, <1>b DEF InstallPhase, RemovePhase, RepairPhase, Journalled, Others, Settled,
       installed
<1>8. StateValid' /\ PlanSound' /\ UpdateSound'
  <2>1. StateValid'
    BY <1>a, <1>b DEF StateValid, installed, default
  <2>2. PlanSound' /\ UpdateSound'
    BY <1>a DEF PlanSound, UpdateSound
  <2>3. QED
    BY <2>1, <2>2
<1> QED
  BY <1>1, <1>2, <1>3, <1>4, <1>5, <1>6, <1>7, <1>8

\* state_save commits the removal, or the package is put back.
LEMMA CommitRemovalInv == Inv /\ CommitRemoval => Inv'
<1> SUFFICES ASSUME Inv, CommitRemoval PROVE Inv'
  OBVIOUS
<1> USE PackageAssumption, ProcAssumption DEF Inv, env, TypeOK, Shape, Working, CommitRemoval,
       Go, cmd, Fault, InstallPc, RemovePc, TailPc, RepairPc
<1>a. pc = "drop" /\ pkg \in Package
  OBVIOUS
<1>b. /\ RemoveState(pkg) \in StateFiles /\ RemoveState(pkg).status = "loaded"
      /\ RemoveState(pkg).installed = installed \ {pkg}
      /\ \A s \in Scope : RemoveState(pkg).default[s] = IF default[s] = pkg THEN NoPkg ELSE
           default[s]
  BY <1>a, RemoveStateFacts
<1>1. TypeOK'
  <2>1. stateFile' \in StateFiles /\ rewrap' \in BOOLEAN
    BY <1>a, <1>b DEF RemovesDefault
  <2>2. QED
    BY <2>1 DEF Steps
<1>2. Shape' /\ Working'
  BY <1>a, <1>b DEF InstallPhase, RemovePhase, Loaded
<1>3. InstallPhase'
  BY <1>a, <1>b DEF InstallPhase, Loaded, Settled, installed
<1>4. RemovePhase'
  BY <1>a, <1>b DEF InstallPhase, RemovePhase, Others, Loaded, Settled, installed
<1>5. RepairPhase'
  BY <1>a, <1>b DEF RepairPhase, Loaded, Settled, installed
<1>6. Others'
  BY <1>a, <1>b DEF InstallPhase, RemovePhase, RepairPhase, Others, Loaded, Settled, installed
<1>7. Journalled'
  BY <1>a, <1>b DEF InstallPhase, RemovePhase, RepairPhase, Journalled, Others, Loaded, Settled,
       installed
<1>8. StateValid' /\ PlanSound' /\ UpdateSound'
  BY <1>a, <1>b DEF InstallPhase, StateValid, PlanSound, UpdateSound, ScopeIsEmpty, installed,
       default
<1> QED
  BY <1>1, <1>2, <1>3, <1>4, <1>5, <1>6, <1>7, <1>8

\* repair saves the state rebuilt from the scan.
LEMMA ReconcileInv == Inv /\ Reconcile => Inv'
<1> SUFFICES ASSUME Inv, Reconcile PROVE Inv'
  OBVIOUS
<1> USE PackageAssumption, ProcAssumption DEF Inv, env, Reconcile, RepairPc
<1>a. pc = "reconcile"
  OBVIOUS
<1>b. /\ ReconciledState \in StateFiles /\ ReconciledState.status = "loaded"
      /\ ReconciledState.installed = Scanned
      /\ \A s \in Scope : ReconciledState.default[s] = IF default[s] \in Scanned THEN default[s]
           ELSE NoPkg
  BY ReconciledStateFacts
<1>c. \A q \in Package : q \in Scanned <=> tree[q] = "valid"
  BY DEF Scanned
<1>d. \A q \in Package : tree[q] \in {"valid", "missing"}
  BY <1>a DEF TypeOK, Bytes, RepairPhase
<1>1. TypeOK'
  BY <1>a, <1>b, <1>c, <1>d DEF TypeOK, Shape, Working, InstallPc, RemovePc, TailPc, Go, cmd,
       Bytes, Steps
<1>2. Shape' /\ Working'
  BY <1>a, <1>b, <1>c, <1>d DEF TypeOK, Shape, Working, InstallPhase, RemovePhase, InstallPc,
       RemovePc, TailPc, Go, cmd, Loaded
<1>3. InstallPhase'
  BY <1>a, <1>b, <1>c, <1>d DEF TypeOK, Shape, Working, InstallPhase, InstallPc, RemovePc,
       TailPc, Go, cmd, Loaded, Settled, installed
<1>4. RemovePhase'
  BY <1>a, <1>b, <1>c, <1>d DEF TypeOK, Shape, Working, InstallPhase, RemovePhase, Others,
       InstallPc, RemovePc, TailPc, Go, cmd, Loaded, Settled, installed
<1>5. RepairPhase'
  BY <1>a, <1>b, <1>c, <1>d DEF TypeOK, Shape, Working, RepairPhase, InstallPc, RemovePc,
       TailPc, Go, cmd, Loaded, Settled, installed
<1>6. Others'
  BY <1>a, <1>b, <1>c, <1>d DEF TypeOK, Shape, Working, InstallPhase, RemovePhase, RepairPhase,
       Others, InstallPc, RemovePc, TailPc, Go, cmd, Loaded, Settled, installed
<1>7. Journalled'
  BY <1>a, <1>b, JournalFacts DEF RepairPhase, Journalled, installed, Scanned
<1>8. StateValid' /\ PlanSound' /\ UpdateSound'
  BY <1>a, <1>b, <1>c, <1>d DEF TypeOK, Shape, Working, InstallPhase, StateValid, PlanSound,
       UpdateSound, InstallPc, RemovePc, TailPc, Go, cmd, ScopeIsEmpty, installed, default
<1> QED
  BY <1>1, <1>2, <1>3, <1>4, <1>5, <1>6, <1>7, <1>8

\* repair empties the staging directory.
LEMMA CleanupStagingInv == Inv /\ CleanupStaging => Inv'
<1> SUFFICES ASSUME Inv, CleanupStaging PROVE Inv'
  OBVIOUS
<1> USE PackageAssumption, ProcAssumption DEF Inv, env, TypeOK, Shape, Working, CleanupStaging,
       Go, cmd, InstallPc, RemovePc, TailPc, RepairPc
<1>0. installed \in SUBSET Package
  BY StateTypes
<1>a. CanWrap(default)' = CanWrap(default) /\ WrappersApplied' = WrappersApplied
  BY DEF CanWrap, WrappersApplied, WrappersFor, Providers, default
<1>1. TypeOK'
  BY <1>a, <1>0, JournalFacts DEF Bytes, Steps
<1>2. Shape' /\ Working'
  BY <1>a, <1>0, JournalFacts DEF InstallPhase, RemovePhase, Loaded
<1>3. InstallPhase'
  BY <1>a, <1>0, JournalFacts DEF InstallPhase, Loaded, Settled, installed
<1>4. RemovePhase'
  BY <1>a, <1>0, JournalFacts DEF InstallPhase, RemovePhase, Others, Loaded, Settled, installed
<1>5. RepairPhase'
  BY <1>a, <1>0, JournalFacts DEF RepairPhase, Loaded, Settled, installed
<1>6. Others'
  BY <1>a, <1>0, JournalFacts DEF InstallPhase, RemovePhase, RepairPhase, Others, Loaded,
       Settled, installed
<1>7. Journalled'
  BY <1>a, <1>0, JournalFacts DEF InstallPhase, RemovePhase, RepairPhase, Journalled, Others,
       Loaded, Settled, installed
<1>8. StateValid' /\ PlanSound' /\ UpdateSound'
  BY <1>a, <1>0, JournalFacts DEF InstallPhase, StateValid, PlanSound, UpdateSound,
       ScopeIsEmpty, installed, default
<1> QED
  BY <1>1, <1>2, <1>3, <1>4, <1>5, <1>6, <1>7, <1>8

(***************************************************************************)
(* Ending a command, normally or not.                                      *)
(***************************************************************************)

\* A command may end with the journal in place if the bytes of the journalled
\* package are accounted for, and without it once that package is settled.
LEMMA FinishInv ==
  ASSUME Inv, NEW ok \in BOOLEAN, NEW j, NEW s \in Bytes, Finish(ok, j, s),
         UNCHANGED <<stateFile, tree, bin, env>>, faults' \in Nat,
         \/ /\ j = journal
            /\ Loaded => \A q \in installed \ spoilt :
                           q = journal.pkg => tree[q] = "valid" \/ s = "valid"
         \/ /\ j = NoJournal
            /\ journal.pkg \in Package \ spoilt => Loaded /\ Settled(journal.pkg)
  PROVE  Inv'
<1> USE PackageAssumption, ProcAssumption, JournalFacts DEF Inv, env
<1>0. installed \in SUBSET Package
  BY StateTypes
<1>1. TypeOK'
  <2>1. journal' \in Journals /\ staging' \in Bytes /\ litter' \in BOOLEAN
    BY DEF Finish, TypeOK, Bytes
  <2>2. plan' \in [Proc -> SUBSET Items]
    BY DEF Finish, TypeOK
  <2>3. QED
    BY <2>1, <2>2 DEF Finish, TypeOK, Steps, Kinds
<1>2. pc' = "idle" /\ kind' = "none" /\ holder' = NoProc
  BY DEF Finish
<1>3. Shape' /\ Working' /\ InstallPhase' /\ RemovePhase' /\ RepairPhase' /\ UpdateSound'
  BY <1>2 DEF Shape, Working, InstallPhase, RemovePhase, RepairPhase, UpdateSound,
              InstallPc, RemovePc, TailPc, RepairPc
<1>4. PlanSound'
  <2>1. \A i \in Proc : plan'[i] \subseteq plan[i]
    BY DEF Finish, TypeOK
  <2>2. QED
    BY <2>1 DEF PlanSound
<1>5. Others'
  BY DEF Finish, Others, Settled, Loaded, installed
<1>6. Journalled'
  BY <1>0 DEF Finish, Journalled, Loaded, installed
<1>7. StateValid'
  BY DEF StateValid, installed, default
<1> QED
  BY <1>1, <1>3, <1>4, <1>5, <1>6, <1>7

\* A crash, or an error after which the command only returns, at any step.
LEMMA StopInv == Inv /\ Stop => Inv'
<1> SUFFICES ASSUME Inv, Stop PROVE Inv'
  OBVIOUS
<1>1. staging \in Bytes /\ faults' \in Nat
  BY DEF Stop, Fault, Inv, TypeOK
<1> QED
  BY <1>1, FinishInv DEF Stop, Inv, Journalled

\* rollback_install removes the staging directory, and stops there if the journal is
\* not its own.
LEMMA UndoTreeInv == Inv /\ UndoTree => Inv'
<1> SUFFICES ASSUME Inv, UndoTree PROVE Inv'
  OBVIOUS
<1>1. CASE owns /\ Go("undoClear") /\ staging' = "missing" /\ UNCHANGED <<journal, litter, plan, faults>>
  <2> USE <1>1 DEF Inv, env
  <2>1. TypeOK'
    BY DEF TypeOK, UndoTree, Go, cmd, Bytes, Steps
  <2>2. Shape' /\ Working' /\ InstallPhase' /\ RemovePhase' /\ RepairPhase'
    BY DEF TypeOK, Shape, Working, InstallPhase, RemovePhase, RepairPhase, Others, UndoTree, Go, cmd,
           InstallPc, RemovePc, TailPc, RepairPc, Loaded, Settled, installed
  <2>3. Others' /\ Journalled'
    BY DEF TypeOK, InstallPhase, Working, Others, Journalled, UndoTree, Go, cmd, InstallPc, RepairPc,
           Loaded, Settled, installed
  <2>4. StateValid' /\ PlanSound' /\ UpdateSound'
    BY DEF StateValid, PlanSound, UpdateSound, UndoTree, Go, cmd, installed, default
  <2> QED
    BY <2>1, <2>2, <2>3, <2>4
<1>2. CASE ~owns /\ Finish(FALSE, journal, "missing") /\ UNCHANGED faults
  <2>1. faults' \in Nat /\ "missing" \in Bytes
    BY <1>2 DEF Inv, TypeOK, Bytes
  <2>2. Loaded => \A q \in installed \ spoilt : q = journal.pkg => tree[q] = "valid"
    BY JournalFacts, PackageAssumption, StateTypes
       DEF UndoTree, Inv, Working, InstallPhase, InstallPc, RepairPc, installed
  <2> QED
    BY <1>2, <2>1, <2>2, FinishInv DEF UndoTree
<1>3. CASE Fault /\ Finish(FALSE, journal, "invalid")
  <2>1. faults' \in Nat /\ "invalid" \in Bytes
    BY <1>3 DEF Inv, TypeOK, Bytes, Fault
  <2>2. Loaded => \A q \in installed \ spoilt : q = journal.pkg => tree[q] = "valid"
    BY JournalFacts, PackageAssumption, StateTypes
       DEF UndoTree, Inv, Working, InstallPhase, InstallPc, RepairPc, installed
  <2> QED
    BY <1>3, <2>1, <2>2, FinishInv DEF UndoTree
<1> QED
  BY <1>1, <1>2, <1>3 DEF UndoTree

\* The end of a rollback clears the journal of a settled package.
LEMMA UndoClearInv == Inv /\ UndoClear => Inv'
<1> SUFFICES ASSUME Inv, UndoClear PROVE Inv'
  OBVIOUS
<1>1. staging \in Bytes /\ faults' \in Nat
  BY DEF UndoClear, Inv, TypeOK
<1>2. journal.pkg \in Package \ spoilt => Loaded /\ Settled(journal.pkg)
  BY DEF UndoClear, Inv, RemovePhase, Working, RepairPc
<1> QED
  BY <1>1, <1>2, FinishInv DEF UndoClear

\* A successful repair releases the lock.
LEMMA EndRepairInv == Inv /\ EndRepair => Inv'
<1> SUFFICES ASSUME Inv, EndRepair PROVE Inv'
  OBVIOUS
<1>1. staging \in Bytes /\ faults' \in Nat
  BY DEF EndRepair, Inv, TypeOK
<1> QED
  BY <1>1, FinishInv DEF EndRepair, Inv, Journalled

(***************************************************************************)
(* Writing wrappers.                                                       *)
(***************************************************************************)
\* wrapper_plan_apply writes or removes one wrapper of the planned namespace.
LEMMA ApplyWrappersType ==
  ASSUME TypeOK, ApplyWrappers
  PROVE  bin' \in [Command -> Package \cup {NoPkg}]
<1>1. WrappersFor(default) \in [Command -> Package \cup {NoPkg}]
  BY StateTypes, WrappersForType DEF Defaults
<1> QED
  BY <1>1 DEF ApplyWrappers, TypeOK

\* A step that changes nothing but bin/, before a repair has finished with it.
LEMMA BinStepInv ==
  ASSUME Inv, bin' \in [Command -> Package \cup {NoPkg}], pc \notin {"tidy", "healthy"},
         UNCHANGED <<stateFile, journal, tree, staging, litter, run, plan, faults, env>>
  PROVE  Inv'
<1> USE DEF Inv, run, cmd, env
<1>1. TypeOK' /\ Shape'
  BY DEF TypeOK, Shape
<1>2. Others' /\ Journalled' /\ Working' /\ StateValid' /\ PlanSound' /\ UpdateSound'
  BY DEF Others, Journalled, Working, StateValid, PlanSound, UpdateSound, Settled, Loaded,
         installed, default, ScopeIsEmpty
<1>3. InstallPhase' /\ RemovePhase' /\ RepairPhase'
  BY DEF InstallPhase, RemovePhase, RepairPhase, Settled, Loaded, installed
<1> QED
  BY <1>1, <1>2, <1>3

\* Wrappers are reconciled after the commit, and the command ends.
LEMMA WrapInv == Inv /\ Wrap => Inv'
<1> SUFFICES ASSUME Inv, Wrap PROVE Inv'
  OBVIOUS
<1>1. CASE ApplyWrappers /\ UNCHANGED <<journal, staging, litter, run, plan>>
  BY <1>1, ApplyWrappersType, BinStepInv DEF Wrap, Inv
<1>2. CASE Finish(~owns, journal, staging) /\ UNCHANGED bin
  <2>1. staging \in Bytes /\ faults' \in Nat /\ (~owns) \in BOOLEAN
    BY DEF Wrap, Inv, TypeOK
  <2> QED
    BY <1>2, <2>1, FinishInv DEF Wrap, Inv, Journalled
<1> QED
  BY <1>1, <1>2 DEF Wrap

\* repair rebuilds bin/, or refuses a wrapper conflict.
LEMMA RebuildWrappersInv == Inv /\ RebuildWrappers => Inv'
<1> SUFFICES ASSUME Inv, RebuildWrappers PROVE Inv'
  OBVIOUS
<1>1. CASE ApplyWrappers /\ UNCHANGED <<journal, staging, litter, run, plan>>
  BY <1>1, ApplyWrappersType, BinStepInv DEF RebuildWrappers, Inv
<1>2. CASE CanWrap(default) /\ WrappersApplied /\ Go("tidy") /\ UNCHANGED <<bin, journal, staging, litter, plan>>
  <2> USE <1>2 DEF Inv, env
  <2>0. CanWrap(default)' /\ WrappersApplied'
    BY DEF RebuildWrappers, CanWrap, WrappersApplied, WrappersFor, Providers, default
  <2>1. TypeOK' /\ Shape' /\ Working'
    BY DEF TypeOK, Shape, Working, RebuildWrappers, Go, cmd, Steps, InstallPc, RemovePc, TailPc, RepairPc
  <2>2. InstallPhase' /\ RemovePhase' /\ RepairPhase'
    BY <2>0 DEF InstallPhase, RemovePhase, RepairPhase, RebuildWrappers, Go, cmd,
                InstallPc, RepairPc, Settled, Loaded, installed
  <2>3. Others' /\ Journalled' /\ StateValid' /\ PlanSound' /\ UpdateSound'
    BY DEF Others, Journalled, StateValid, PlanSound, UpdateSound, RebuildWrappers, Go, cmd,
           Settled, Loaded, installed, default, ScopeIsEmpty
  <2> QED
    BY <2>1, <2>2, <2>3
<1>3. CASE Finish(FALSE, journal, staging) /\ UNCHANGED bin
  <2>1. staging \in Bytes /\ faults' \in Nat
    BY DEF RebuildWrappers, Inv, TypeOK
  <2> QED
    BY <1>3, <2>1, FinishInv DEF RebuildWrappers, Inv, Journalled
<1> QED
  BY <1>1, <1>2, <1>3 DEF RebuildWrappers

\* command_default and commit_existing_update save a new default.
LEMMA SaveDefaultInv == Inv /\ SaveDefault => Inv'
<1> SUFFICES ASSUME Inv, SaveDefault PROVE Inv'
  OBVIOUS
<1>0. pc = "save" /\ pkg \in Package /\ pkg \in installed
  BY DEF SaveDefault, Inv, Working, RemovePhase, RepairPc
<1>1. CASE /\ stateFile' = DefaultState(pkg) /\ pc' = "wrap" /\ rewrap' = TRUE
           /\ UNCHANGED <<cmd, owns, journal, staging, litter, plan, tree, bin, faults, env>>
  <2> USE <1>0, <1>1, PackageAssumption DEF Inv, env, cmd
  <2>1. /\ stateFile' \in StateFiles /\ Loaded' /\ installed' = installed
        /\ \A s \in Scope : default'[s] = IF s = ScopeOf[pkg] THEN pkg ELSE default[s]
    BY DefaultStateFacts DEF Loaded, installed, default
  <2>2. TypeOK' /\ Shape' /\ Working'
    BY <2>1 DEF TypeOK, Steps, Shape, Working, InstallPc, RemovePc, TailPc, RepairPc
  <2>3. InstallPhase' /\ RemovePhase' /\ RepairPhase'
    BY DEF InstallPhase, RemovePhase, RepairPhase, InstallPc, RepairPc
  <2>4. Others' /\ Journalled'
    BY <2>1 DEF Others, Journalled, Working, RepairPc, Settled
  <2>5. StateValid'
    BY <2>1 DEF StateValid
  <2>6. PlanSound' /\ UpdateSound'
    BY DEF PlanSound, UpdateSound
  <2> QED
    BY <2>2, <2>3, <2>4, <2>5, <2>6
<1>2. CASE \E ok \in BOOLEAN : Finish(ok, journal, staging) /\ UNCHANGED <<stateFile, tree, bin, faults, env>>
  <2>1. staging \in Bytes /\ faults' \in Nat
    BY <1>2 DEF Inv, TypeOK
  <2> QED
    BY <1>2, <2>1, FinishInv DEF Inv, Journalled
<1> QED
  BY <1>1, <1>2 DEF SaveDefault

(***************************************************************************)
(* Recovery of the journalled package.                                     *)
(***************************************************************************)

\* A recovery step that touches only the journalled package's tree and staging
\* keeps the invariant if the package's bytes stay accounted for.
LEMMA RecoverStepInv ==
  ASSUME Inv, pc = "recover", journal # NoJournal,
         tree' \in [Package -> Bytes], staging' \in Bytes, faults' \in Nat,
         \A q \in Package : q # pkg => tree'[q] = tree[q],
         Loaded /\ pkg \in installed \ spoilt => tree'[pkg] = "valid" \/ staging' = "valid",
         UNCHANGED <<stateFile, journal, litter, bin, run, plan, env>>
  PROVE  Inv'
<1> USE DEF Inv, run, cmd, env
<1>1. TypeOK' /\ Shape'
  BY DEF TypeOK, Shape
<1>2. Working' /\ InstallPhase' /\ RemovePhase' /\ RepairPhase'
  BY DEF Working, InstallPhase, RemovePhase, RepairPhase, InstallPc, RepairPc
<1>3. Others' /\ Journalled'
  BY DEF RepairPhase, Others, Journalled, Settled, Loaded, installed
<1>4. StateValid' /\ PlanSound' /\ UpdateSound'
  BY DEF StateValid, PlanSound, UpdateSound, installed, default, ScopeIsEmpty
<1> QED
  BY <1>1, <1>2, <1>3, <1>4

\* Recovery is complete: the journal goes and the scan follows.
LEMMA RecoverClearInv ==
  ASSUME Inv, pc = "recover", Go("quarantine"), journal' = NoJournal,
         journal.pkg \in Package \ spoilt => Loaded /\ Settled(journal.pkg),
         UNCHANGED <<stateFile, bin, tree, staging, litter, plan, faults, env>>
  PROVE  Inv'
<1> USE JournalFacts, PackageAssumption DEF Inv, Go, cmd, env
<1>0. installed \in SUBSET Package
  BY StateTypes
<1>1. TypeOK' /\ Shape'
  BY DEF TypeOK, Shape, Steps, InstallPc, RemovePc, TailPc, RepairPc
<1>2. Working' /\ InstallPhase' /\ RemovePhase' /\ RepairPhase'
  BY DEF Working, InstallPhase, RemovePhase, RepairPhase, InstallPc, RepairPc
<1>3. Others' /\ Journalled'
  BY <1>0 DEF Others, Journalled, Settled, Loaded, installed
<1>4. StateValid' /\ PlanSound' /\ UpdateSound'
  BY DEF StateValid, PlanSound, UpdateSound, installed, default, ScopeIsEmpty
<1> QED
  BY <1>1, <1>2, <1>3, <1>4

\* package_transaction_recover: restore, delete, clear or refuse.
LEMMA RecoverInv == Inv /\ Recover => Inv'
<1> SUFFICES ASSUME Inv, Recover PROVE Inv'
  OBVIOUS
<1>0. pc = "recover" /\ pkg = journal.pkg /\ UNCHANGED <<stateFile, bin, env>>
  BY DEF Recover, Inv, RepairPhase
<1>1. CASE journal = NoJournal /\ Go("quarantine") /\ UNCHANGED <<journal, tree, staging, litter, plan, faults>>
  BY <1>0, <1>1, JournalFacts, PackageAssumption, RecoverClearInv
<1>2. CASE journal # NoJournal
  <2>0. pkg \in Package
    BY <1>0, <1>2, JournalFacts DEF Inv, TypeOK
  <2>1. CASE RecoverInstalled /\ UNCHANGED <<journal, litter, run, plan, faults>>
    <3>1. tree' \in [Package -> Bytes] /\ staging' \in Bytes /\ faults' \in Nat
      BY <2>1 DEF RecoverInstalled, Inv, TypeOK, Bytes
    <3>2. \A q \in Package : q # pkg => tree'[q] = tree[q]
      BY <2>1 DEF RecoverInstalled, Inv, TypeOK
    <3>3. tree'[pkg] = "valid" \/ staging' = "valid"
      BY <2>0, <2>1 DEF RecoverInstalled, Inv, TypeOK
    <3> QED
      BY <1>0, <1>2, <2>1, <3>1, <3>2, <3>3, RecoverStepInv
  <2>2. ASSUME NEW left \in {"missing", "invalid"}, RecoverAbsent(left), faults' \in Nat,
               UNCHANGED <<journal, litter, run, plan>>
        PROVE  Inv'
    <3>1. tree' \in [Package -> Bytes] /\ staging' \in Bytes
      BY <2>2 DEF RecoverAbsent, Inv, TypeOK, Bytes
    <3>2. \A q \in Package : q # pkg => tree'[q] = tree[q]
      BY <2>2 DEF RecoverAbsent, Inv, TypeOK
    <3>3. pkg \notin installed
      BY <2>2 DEF RecoverAbsent
    <3> QED
      BY <1>0, <1>2, <2>2, <3>1, <3>2, <3>3, RecoverStepInv
  <2>3. CASE Recovered /\ journal' = NoJournal /\ Go("quarantine") /\ UNCHANGED <<tree, staging, litter, plan, faults>>
    BY <1>0, <2>3, RecoverClearInv DEF Recovered, Settled
  <2>4. CASE Finish(FALSE, journal, staging) /\ UNCHANGED <<tree, faults>>
    <3>1. staging \in Bytes /\ faults' \in Nat
      BY <2>4 DEF Inv, TypeOK
    <3> QED
      BY <1>0, <2>4, <3>1, FinishInv DEF Inv, Journalled
  <2>5. CASE RecoverAbsent("missing") /\ UNCHANGED <<journal, litter, run, plan, faults>>
    BY <2>2, <2>5 DEF Inv, TypeOK
  <2>6. CASE RecoverAbsent("invalid") /\ Fault /\ UNCHANGED <<journal, litter, run, plan>>
    <3>1. faults' \in Nat
      BY <2>6 DEF Inv, TypeOK, Fault
    <3> QED
      BY <2>2, <2>6, <3>1
  <2>7. \/ RecoverInstalled /\ UNCHANGED <<journal, litter, run, plan, faults>>
        \/ RecoverAbsent("missing") /\ UNCHANGED <<journal, litter, run, plan, faults>>
        \/ RecoverAbsent("invalid") /\ Fault /\ UNCHANGED <<journal, litter, run, plan>>
        \/ Recovered /\ journal' = NoJournal /\ Go("quarantine")
             /\ UNCHANGED <<tree, staging, litter, plan, faults>>
        \/ Finish(FALSE, journal, staging) /\ UNCHANGED <<tree, faults>>
    BY <1>2 DEF Recover
  <2> QED
    BY <2>1, <2>3, <2>4, <2>5, <2>6, <2>7
<1> QED
  BY <1>1, <1>2 DEF Recover

(***************************************************************************)
(* Starting commands, planning updates, damage.                            *)
(***************************************************************************)

\* A command starts on an idle root: what it needs to hold at its first step.
LEMMA BeginInv ==
  ASSUME Inv, NEW i \in Proc, NEW k \in Kinds \ {"none"}, NEW p \in Package \cup {NoPkg},
         NEW e \in Package \cup {NoPkg}, NEW step \in Steps, Begin(i, k, p, e, step),
         UNCHANGED <<stateFile, journal, tree, litter, bin, faults, env>>,
         staging' \in Bytes, plan' \in [Proc -> SUBSET Items],
         journal # NoJournal => staging' = staging,
         \A n \in Proc : plan'[n] \subseteq plan[n],
         \/ step = "recover" /\ k = "repair" /\ p = journal.pkg
         \/ Usable /\ p \in Package
              /\ \/ /\ step = "extract" /\ k \in {"install", "update"}
                    /\ p \notin installed /\ tree[p] = "missing"
                 \/ step = "save" /\ k \in {"default", "update"} /\ p \in installed
                 \/ step = "journal" /\ k = "remove" /\ p \in installed,
         k = "update" => /\ e # NoPkg => SameFamily(e, p) /\ Rank[e] <= Rank[p]
                         /\ ~ScopeIsEmpty(p)
  PROVE  Inv'
<1> USE JournalFacts, PackageAssumption, ProcAssumption DEF Inv, Begin, env, Usable
<1>0. installed \in SUBSET Package
  BY StateTypes
<1>1. TypeOK'
  BY DEF TypeOK
<1>2. Shape' /\ Working'
  BY DEF Shape, Working, InstallPc, RemovePc, TailPc, RepairPc, Loaded
<1>3. InstallPhase' /\ RemovePhase' /\ RepairPhase'
  BY DEF InstallPhase, RemovePhase, RepairPhase, InstallPc, RepairPc, installed
<1>4. Others' /\ Journalled'
  BY <1>0 DEF Others, Journalled, Settled, Loaded, installed
<1>5. StateValid' /\ PlanSound'
  BY DEF StateValid, PlanSound, installed, default
<1>6. UpdateSound'
  BY DEF UpdateSound, ScopeIsEmpty, installed
<1> QED
  BY <1>1, <1>2, <1>3, <1>4, <1>5, <1>6

\* install starts on an absent package.
LEMMA BeginInstallInv == \A i \in Proc, p \in Package : Inv /\ BeginInstall(i, p) => Inv'
<1> SUFFICES ASSUME NEW i \in Proc, NEW p \in Package, Inv, BeginInstall(i, p) PROVE Inv'
  OBVIOUS
<1>1. /\ "install" \in Kinds \ {"none"} /\ "extract" \in Steps /\ "invalid" \in Bytes
      /\ plan' \in [Proc -> SUBSET Items] /\ UNCHANGED plan
  BY DEF BeginInstall, Inv, TypeOK, Kinds, Steps, Bytes
<1> QED
  BY <1>1, BeginInv DEF BeginInstall, Usable

\* default starts on an installed, valid package.
LEMMA BeginDefaultInv == \A i \in Proc, p \in Package : Inv /\ BeginDefault(i, p) => Inv'
<1> SUFFICES ASSUME NEW i \in Proc, NEW p \in Package, Inv, BeginDefault(i, p) PROVE Inv'
  OBVIOUS
<1>1. /\ "default" \in Kinds \ {"none"} /\ "save" \in Steps /\ staging' \in Bytes
      /\ plan' \in [Proc -> SUBSET Items] /\ UNCHANGED <<disk, plan>>
  BY DEF BeginDefault, Inv, TypeOK, Kinds, Steps, disk
<1> QED
  BY <1>1, BeginInv DEF BeginDefault, Usable, disk

\* remove starts on an installed package.
LEMMA BeginRemoveInv == \A i \in Proc, p \in Package : Inv /\ BeginRemove(i, p) => Inv'
<1> SUFFICES ASSUME NEW i \in Proc, NEW p \in Package, Inv, BeginRemove(i, p) PROVE Inv'
  OBVIOUS
<1>1. /\ "remove" \in Kinds \ {"none"} /\ "journal" \in Steps /\ staging' \in Bytes
      /\ plan' \in [Proc -> SUBSET Items] /\ UNCHANGED <<disk, plan>>
  BY DEF BeginRemove, Inv, TypeOK, Kinds, Steps, disk
<1> QED
  BY <1>1, BeginInv DEF BeginRemove, Usable, disk

\* repair starts on any root and takes up the journalled package.
LEMMA BeginRepairInv == \A i \in Proc : Inv /\ BeginRepair(i) => Inv'
<1> SUFFICES ASSUME NEW i \in Proc, Inv, BeginRepair(i) PROVE Inv'
  OBVIOUS
<1>1. /\ "repair" \in Kinds \ {"none"} /\ "recover" \in Steps /\ staging' \in Bytes
      /\ plan' \in [Proc -> SUBSET Items] /\ UNCHANGED <<disk, plan>>
  BY DEF BeginRepair, Inv, TypeOK, Kinds, Steps, disk
<1>2. journal.pkg \in Package \cup {NoPkg}
  BY JournalFacts DEF Inv, TypeOK
<1> QED
  BY <1>1, <1>2, BeginInv DEF BeginRepair, disk

\* A planned reference is an installed release, so its scope is not empty.
LEMMA ReferenceFacts ==
  ASSUME TypeOK, StateValid, NEW r \in Package, NEW d \in BOOLEAN, IsReference(r, d)
  PROVE  r \in installed
<1>1. ScopeOf[r] \in Scope
  BY PackageAssumption
<1> QED
  BY <1>1 DEF IsReference, StateValid

\* An update item starts after validate_update_reference has confirmed its reference.
LEMMA BeginUpdateInv == \A i \in Proc : Inv /\ BeginUpdate(i) => Inv'
<1> SUFFICES ASSUME NEW i \in Proc, Inv, BeginUpdate(i) PROVE Inv'
  OBVIOUS
<1>1. PICK x \in plan[i] :
        /\ Usable /\ StillReference(x)
        /\ \/ /\ x.target \notin installed /\ tree[x.target] = "missing"
              /\ Begin(i, "update", x.target, ExpectedDefault(x), "extract")
              /\ staging' = "invalid"
           \/ /\ x.target \in installed /\ tree[x.target] = "valid"
              /\ Begin(i, "update", x.target, ExpectedDefault(x), "save")
              /\ UNCHANGED staging
        /\ plan' = [plan EXCEPT ![i] = @ \ {x}]
        /\ UNCHANGED <<stateFile, journal, tree, litter, bin, faults, env>>
  BY DEF BeginUpdate
<1>2. x.ref \in Package /\ x.target \in Package /\ x.isDefault \in BOOLEAN
  BY DEF Inv, TypeOK, Items
<1>3. SameFamily(x.ref, x.target) /\ Rank[x.ref] <= Rank[x.target]
  BY DEF Inv, PlanSound
<1>4. ~ScopeIsEmpty(x.target)
  BY <1>1, <1>2, <1>3, ReferenceFacts DEF Inv, StillReference, ScopeIsEmpty, SameFamily
<1>5. /\ plan' \in [Proc -> SUBSET Items] /\ \A n \in Proc : plan'[n] \subseteq plan[n]
  BY <1>1 DEF Inv, TypeOK
<1>6. /\ "update" \in Kinds \ {"none"} /\ "extract" \in Steps /\ "save" \in Steps
      /\ staging' \in Bytes
  BY <1>1 DEF Inv, TypeOK, Kinds, Steps, Bytes
<1>7. /\ ExpectedDefault(x) \in Package \cup {NoPkg}
      /\ ExpectedDefault(x) # NoPkg => ExpectedDefault(x) = x.ref
  BY <1>2 DEF ExpectedDefault
<1> QED
  BY <1>1, <1>2, <1>3, <1>4, <1>5, <1>6, <1>7, BeginInv DEF Usable

\* A step of update planning changes nothing but the plans.
LEMMA PlanStepInv ==
  ASSUME Inv, plan' \in [Proc -> SUBSET Items], PlanSound', UNCHANGED <<disk, run, faults, env>>
  PROVE  Inv'
<1> USE DEF Inv, disk, run, cmd, env
<1>1. TypeOK' /\ Shape' /\ Working'
  BY DEF TypeOK, Shape, Working, Loaded
<1>2. InstallPhase' /\ RemovePhase'
  BY DEF InstallPhase, RemovePhase, Settled, installed
<1>3. RepairPhase'
  BY DEF RepairPhase, Settled, Loaded, installed, CanWrap, WrappersApplied, WrappersFor, Providers, default
<1>4. Others' /\ Journalled' /\ StateValid' /\ UpdateSound'
  BY DEF Others, Journalled, StateValid, UpdateSound, Settled, Loaded, installed, default, ScopeIsEmpty
<1> QED
  BY <1>1, <1>2, <1>3, <1>4

\* update plans from the references it sees.
LEMMA PlanUpdateInv == \A i \in Proc : Inv /\ PlanUpdate(i) => Inv'
<1> SUFFICES ASSUME NEW i \in Proc, Inv, PlanUpdate(i) PROVE Inv'
  OBVIOUS
<1>1. plan' \in [Proc -> SUBSET Items]
  BY DEF PlanUpdate, Inv, TypeOK
<1>2. PlanSound'
  BY DEF PlanUpdate, Inv, TypeOK, PlanSound
<1> QED
  BY <1>1, <1>2, PlanStepInv DEF PlanUpdate

\* update skips an item or stops.
LEMMA DropPlanInv == \A i \in Proc : Inv /\ (SkipUpdate(i) \/ StopUpdate(i)) => Inv'
<1> SUFFICES ASSUME NEW i \in Proc, Inv, SkipUpdate(i) \/ StopUpdate(i) PROVE Inv'
  OBVIOUS
<1>1. plan' \in [Proc -> SUBSET Items] /\ \A n \in Proc : plan'[n] \subseteq plan[n]
  BY DEF SkipUpdate, StopUpdate, Inv, TypeOK
<1>2. PlanSound'
  BY <1>1 DEF Inv, PlanSound
<1> QED
  BY <1>1, <1>2, PlanStepInv DEF SkipUpdate, StopUpdate

\* Damage from outside, while no command runs.
LEMMA DamageInv == Inv /\ Damage => Inv'
<1> SUFFICES ASSUME Inv, Damage PROVE Inv'
  OBVIOUS
<1> USE DEF Inv, Damage, run, cmd
<1>0. pc = "idle" /\ UNCHANGED <<journal, staging, litter, bin, run, plan, faults>>
  BY DEF Shape
<1>1. CASE DamageState
  <2>0. /\ stateFile' \in StateFiles /\ ~Loaded' /\ installed' = {}
        /\ \A s \in Scope : default'[s] = NoPkg
    BY <1>1 DEF DamageState, StateFiles, Defaults, NoDefaults, Loaded, installed, default
  <2>1. TypeOK' /\ Shape' /\ Working' /\ InstallPhase' /\ RemovePhase' /\ RepairPhase'
    BY <1>0, <1>1, <2>0 DEF DamageState, TypeOK, Shape, Working, InstallPhase, RemovePhase,
                            RepairPhase, InstallPc, RemovePc, TailPc, RepairPc
  <2>2. Others' /\ Journalled' /\ StateValid' /\ PlanSound' /\ UpdateSound'
    BY <1>0, <1>1, <2>0 DEF DamageState, Others, Journalled, StateValid, PlanSound, UpdateSound, Shape
  <2> QED
    BY <2>1, <2>2
<1>2. ASSUME NEW p \in Package, DamageTree(p) PROVE Inv'
  <2>1. TypeOK' /\ Shape' /\ Working' /\ InstallPhase' /\ RemovePhase' /\ RepairPhase'
    BY <1>0, <1>2 DEF DamageTree, TypeOK, Bytes, Shape, Working, InstallPhase, RemovePhase,
                      RepairPhase, InstallPc, RemovePc, TailPc, RepairPc
  <2>2. Others' /\ Journalled'
    BY <1>0, <1>2 DEF DamageTree, TypeOK, Others, Journalled, Settled, Loaded, installed
  <2>3. StateValid' /\ PlanSound' /\ UpdateSound'
    BY <1>0, <1>2 DEF DamageTree, StateValid, PlanSound, UpdateSound, Shape, installed, default
  <2> QED
    BY <2>1, <2>2, <2>3
<1> QED
  BY <1>1, <1>2

(***************************************************************************)
(* The invariant is inductive.                                             *)
(***************************************************************************)

\* A freshly initialised root (state_save of an empty state) satisfies it.
LEMMA InitInv == Init => Inv
<1> SUFFICES ASSUME Init PROVE Inv
  OBVIOUS
<1> USE PackageAssumption, ProcAssumption, JournalFacts DEF Init
<1>1. TypeOK
  BY DEF TypeOK, StateFiles, Defaults, NoDefaults, Bytes, Kinds, Steps
<1>2. Shape /\ Working /\ InstallPhase /\ RemovePhase /\ RepairPhase /\ UpdateSound
  BY DEF Shape, Working, InstallPhase, RemovePhase, RepairPhase, UpdateSound,
         InstallPc, RemovePc, TailPc, RepairPc
<1>3. Others /\ Journalled /\ StateValid /\ PlanSound
  BY DEF Others, Journalled, StateValid, PlanSound, Settled, Loaded, installed, default, NoDefaults
<1> QED
  BY <1>1, <1>2, <1>3 DEF Inv

\* A step that changes nothing keeps it.
LEMMA StutterInv == Inv /\ UNCHANGED vars => Inv'
<1> SUFFICES ASSUME Inv, UNCHANGED vars PROVE Inv'
  OBVIOUS
<1>1. UNCHANGED <<disk, run, plan, faults, env>>
  BY DEF vars
<1>2. plan' \in [Proc -> SUBSET Items] /\ PlanSound'
  BY <1>1 DEF Inv, TypeOK, PlanSound
<1> QED
  BY <1>1, <1>2, PlanStepInv

\* Every effect of every command, every failure and every outside damage keeps
\* the invariant.
LEMMA NextInv == Inv /\ [Next]_vars => Inv'
<1> SUFFICES ASSUME Inv, [Next]_vars PROVE Inv'
  OBVIOUS
<1>1. CASE InstallStep
  BY <1>1, ExtractInv, PublishInstallInv, MovePackageInv, CommitInstallInv, UndoMoveInv,
     UndoTreeInv, UndoClearInv DEF InstallStep
<1>2. CASE RemoveStep
  BY <1>2, PublishRemoveInv, StageRemovalInv, CommitRemovalInv, DiscardRemovedInv,
     RestoreRemovedInv DEF RemoveStep
<1>3. CASE RepairStep
  BY <1>3, RecoverInv, QuarantineInv, PreserveStateInv, ReconcileInv, RebuildWrappersInv,
     CleanupStagingInv, EndRepairInv DEF RepairStep
<1>4. CASE ClearJournal \/ Wrap \/ SaveDefault
  BY <1>4, ClearJournalInv, WrapInv, SaveDefaultInv
<1>5. CASE \E i \in Proc : Start(i)
  BY <1>5, BeginInstallInv, BeginDefaultInv, BeginRemoveInv, PlanUpdateInv, BeginUpdateInv,
     DropPlanInv, BeginRepairInv DEF Start
<1>6. CASE Stop \/ Damage
  BY <1>6, StopInv, DamageInv
<1>7. CASE UNCHANGED vars
  BY <1>7, StutterInv
<1> QED
  BY <1>1, <1>2, <1>3, <1>4, <1>5, <1>6, <1>7 DEF Next, Work

\* The inductive invariant holds in every reachable state of a managed root,
\* whatever commands, crashes, failures and damage it has been through.
THEOREM Invariance == Spec => []Inv
  BY InitInv, NextInv, PTL DEF Spec

(***************************************************************************)
(* The safety properties.                                                  *)
(***************************************************************************)

\* The persistent objects and the running command stay well typed.
THEOREM TypeCorrect == Spec => []TypeOK
<1>1. Inv => TypeOK
  BY DEF Inv
<1> QED
  BY <1>1, Invariance, PTL

\* Every state a command saves passes state_validate.
THEOREM StatesValid == Spec => []StateValid
<1>1. Inv => StateValid
  BY DEF Inv
<1> QED
  BY <1>1, Invariance, PTL

\* A usable root that no command works on has state.txt and the components
\* tree in agreement, whatever install, removal or repair was cut short.
THEOREM Agreement == Spec => []InstalledMatchesTree
<1>1. Inv => InstalledMatchesTree
  BY JournalFacts, PackageAssumption DEF Inv, Others, InstalledMatchesTree, Usable
<1> QED
  BY <1>1, Invariance, PTL

\* No crash, rollback or recovery loses the bytes of a recorded package.
THEOREM NoByteLoss == Spec => []BytesKept
<1>1. ASSUME Inv, Loaded, NEW p \in installed \ spoilt
      PROVE  tree[p] = "valid" \/ (journal.pkg = p /\ staging = "valid")
  BY <1>1, StateTypes DEF Inv, Others, Journalled, Settled
<1>2. Inv => BytesKept
  BY <1>1 DEF BytesKept
<1> QED
  BY <1>2, Invariance, PTL

\* A repair that reports success leaves a healthy root.
THEOREM RepairSound == Spec => []RepairEndsHealthy
<1>1. Inv => RepairEndsHealthy
  BY DEF Inv, RepairPhase, RepairPc, RepairEndsHealthy, Usable
<1> QED
  BY <1>1, Invariance, PTL

(***************************************************************************)
(* The action properties. Only six steps write state.txt.                  *)
(***************************************************************************)
StateWrite == \/ CommitInstall \/ CommitRemoval \/ SaveDefault
              \/ PreserveState \/ Reconcile
              \/ (holder = NoProc /\ Damage /\ DamageState)

\* Every step of a command that is not one of them leaves state.txt alone.
LEMMA StateWriters ==
  ASSUME [Next]_vars PROVE StateWrite \/ UNCHANGED stateFile
<1>1. CASE InstallStep
  BY <1>1 DEF StateWrite, InstallStep, Extract, PublishInstall, MovePackage, UndoMove, UndoTree, UndoClear
<1>2. CASE RemoveStep
  BY <1>2 DEF StateWrite, RemoveStep, PublishRemove, StageRemoval, DiscardRemoved, RestoreRemoved
<1>3. CASE RepairStep
  BY <1>3 DEF StateWrite, RepairStep, Recover, Quarantine, RebuildWrappers, CleanupStaging, EndRepair
<1>4. CASE ClearJournal \/ Wrap \/ SaveDefault
  BY <1>4 DEF StateWrite, ClearJournal, Wrap
<1>5. CASE \E i \in Proc : Start(i)
  BY <1>5 DEF Start, BeginInstall, BeginDefault, BeginRemove, PlanUpdate, BeginUpdate, SkipUpdate,
              StopUpdate, BeginRepair, disk
<1>6. CASE Stop \/ Damage
  BY <1>6 DEF StateWrite, Stop, Damage, DamageTree
<1>7. CASE UNCHANGED vars
  BY <1>7 DEF vars, disk
<1> QED
  BY <1>1, <1>2, <1>3, <1>4, <1>5, <1>6, <1>7 DEF Next, Work

\* A package leaves a readable state.txt, and a scope loses its default, only
\* through the package's own removal or because it was spoilt; and a readable
\* state.txt is given up only through damage or by a repair that cannot read it.
THEOREM Remembering == Spec => OnlyRemovalForgets
<1> DEFINE justified(p) == p \in spoilt \/ (kind = "remove" /\ pkg = p)
           Keeps == Loaded /\ Loaded' =>
                      /\ \A p \in installed \ installed' : justified(p)
                      /\ \A s \in Scope : default[s] # NoPkg /\ default'[s] = NoPkg
                                            => justified(default[s])
           GivesUp == Loaded /\ ~Loaded' => \/ damage' = damage + 1
                                            \/ kind = "repair" /\ faults' = faults + 1
           Remembers == /\ Keeps
                        /\ GivesUp
<1>1. Inv /\ [Next]_vars => Keeps
  <2> SUFFICES ASSUME Inv, [Next]_vars, Loaded, Loaded' PROVE Keeps
    OBVIOUS
  <2>0. installed \in SUBSET Package /\ default \in [Scope -> Package \cup {NoPkg}]
    BY StateTypes DEF Inv
  <2>1. CASE UNCHANGED stateFile
    BY <2>1 DEF installed, default
  <2>2. CASE CommitInstall
    <3>1. pkg \in Package
      BY <2>2 DEF CommitInstall, Inv, Working, RepairPc
    <3>2. CASE stateFile' = InstallState(pkg)
      BY <3>1, <3>2, InstallStateFacts, PackageAssumption DEF Inv, installed, default
    <3> QED
      BY <2>1, <2>2, <3>2 DEF CommitInstall
  <2>3. CASE CommitRemoval
    <3>1. pkg \in Package /\ kind = "remove"
      BY <2>3 DEF CommitRemoval, Inv, Working, RepairPc, Shape, RemovePc
    <3>2. CASE stateFile' = RemoveState(pkg)
      BY <3>1, <3>2, RemoveStateFacts, PackageAssumption DEF Inv, installed, default
    <3> QED
      BY <2>1, <2>3, <3>2 DEF CommitRemoval
  <2>4. CASE SaveDefault
    <3>1. pkg \in Package
      BY <2>4 DEF SaveDefault, Inv, Working, RepairPc
    <3>2. CASE stateFile' = DefaultState(pkg)
      BY <3>1, <3>2, DefaultStateFacts, PackageAssumption DEF Inv, installed, default
    <3> QED
      BY <2>1, <2>4, <3>2 DEF SaveDefault
  <2>5. CASE PreserveState
    BY <2>1, <2>5 DEF PreserveState, Loaded
  <2>6. CASE Reconcile
    <3>1. \A p \in installed : p \in spoilt \/ tree[p] = "valid"
      BY <2>0, <2>6, JournalFacts, PackageAssumption
         DEF Reconcile, Inv, RepairPhase, RepairPc, Others, Settled, Loaded
    <3>2. /\ installed' = Scanned
          /\ \A s \in Scope : default'[s] = IF default[s] \in Scanned THEN default[s] ELSE NoPkg
      BY <2>6, ReconciledStateFacts DEF Reconcile, Inv, installed, default
    <3>3. \A s \in Scope : default[s] # NoPkg => default[s] \in installed
      BY DEF Inv, StateValid
    <3> QED
      BY <2>0, <3>1, <3>2, <3>3 DEF Scanned
  <2>7. CASE DamageState
    BY <2>7 DEF DamageState, Loaded
  <2> QED
    BY <2>1, <2>2, <2>3, <2>4, <2>5, <2>6, <2>7, StateWriters DEF StateWrite
<1>2. Inv /\ [Next]_vars => GivesUp
  <2> SUFFICES ASSUME Inv, [Next]_vars, Loaded, ~Loaded' PROVE GivesUp
    OBVIOUS
  <2>1. ~UNCHANGED stateFile
    BY DEF Loaded
  <2>2. ~CommitInstall /\ ~CommitRemoval /\ ~SaveDefault /\ ~Reconcile
    BY <2>1 DEF CommitInstall, InstallState, CommitRemoval, RemoveState, SaveDefault, DefaultState,
                Reconcile, ReconciledState, WithState, Loaded
  <2>3. CASE PreserveState
    <3>1. kind = "repair"
      BY <2>3 DEF PreserveState, Inv, Shape, RepairPc
    <3>2. Fault
      BY <2>1, <2>3 DEF PreserveState, Unreadable, Loaded
    <3> QED
      BY <3>1, <3>2 DEF Fault
  <2>4. CASE Damage
    BY <2>4 DEF Damage
  <2> QED
    BY <2>1, <2>2, <2>3, <2>4, StateWriters DEF StateWrite
<1>3. Inv /\ [Next]_vars => Remembers
  BY <1>1, <1>2
<1>4. Spec => [][Remembers]_vars
  BY <1>3, Invariance, PTL DEF Spec
<1> QED
  BY <1>4 DEF OnlyRemovalForgets

\* An update only moves an existing default, forwards and within its tool.
THEOREM UpdatesAdvance == Spec => UpdateOnlyAdvances
<1> DEFINE Advances == kind = "update" /\ Loaded' =>
                         \A s \in Scope : default'[s] # default[s] =>
                           /\ default[s] # NoPkg
                           /\ SameFamily(default[s], default'[s])
                           /\ Rank[default[s]] <= Rank[default'[s]]
<1>1. Inv /\ [Next]_vars => Advances
  <2> SUFFICES ASSUME Inv, [Next]_vars, kind = "update",
                      NEW s \in Scope, default'[s] # default[s]
               PROVE  /\ default[s] # NoPkg
                      /\ SameFamily(default[s], default'[s])
                      /\ Rank[default[s]] <= Rank[default'[s]]
    OBVIOUS
  <2>0. pc \notin RepairPc \cup RemovePc \cup {"idle"} /\ holder # NoProc
    BY DEF Inv, Shape
  <2>1. MovesDefault(pkg) /\ pkg \in Package /\ s = ScopeOf[pkg] /\ default'[s] = pkg
    <3>1. CASE UNCHANGED stateFile
      BY <3>1 DEF default
    <3>2. CASE CommitInstall
      <4>1. pkg \in Package
        BY <3>2 DEF CommitInstall, Inv, Working, RepairPc
      <4>2. CASE stateFile' = InstallState(pkg)
        BY <4>1, <4>2, InstallStateFacts DEF Inv, default
      <4> QED
        BY <3>1, <3>2, <4>1, <4>2 DEF CommitInstall
    <3>3. CASE SaveDefault
      <4>1. pkg \in Package
        BY <3>3 DEF SaveDefault, Inv, Working, RepairPc
      <4>2. CASE stateFile' = DefaultState(pkg) /\ MovesDefault(pkg)
        BY <4>1, <4>2, DefaultStateFacts DEF Inv, default
      <4> QED
        BY <3>1, <3>3, <4>1, <4>2 DEF SaveDefault
    <3>4. ~CommitRemoval /\ ~PreserveState /\ ~Reconcile
      BY <2>0 DEF CommitRemoval, PreserveState, Reconcile, RepairPc, RemovePc
    <3> QED
      BY <2>0, <3>1, <3>2, <3>3, <3>4, StateWriters DEF StateWrite
  <2>2. ~(pkg \notin installed /\ ScopeIsEmpty(pkg))
    <3>1. CASE pc = "save"
      BY <3>1 DEF Inv, RemovePhase
    <3>2. CASE pc = "commit"
      BY <3>2 DEF Inv, UpdateSound
    <3> QED
      BY <2>0, <3>1, <3>2, StateWriters
         DEF StateWrite, CommitInstall, SaveDefault, CommitRemoval, PreserveState, Reconcile,
             RepairPc, RemovePc, default
  <2>3. expect # NoPkg /\ default[s] = expect
    BY <2>1, <2>2 DEF MovesDefault
  <2> QED
    BY <2>1, <2>3 DEF Inv, UpdateSound
<1>2. Spec => [][Advances]_vars
  BY <1>1, Invariance, PTL DEF Spec
<1> QED
  BY <1>2 DEF UpdateOnlyAdvances

(***************************************************************************)
(* Wrappers. While nothing has failed, bin/ belongs to the defaults except *)
(* between the commit that changed a default and the end of its command.   *)
(***************************************************************************)
WrapPending == rewrap /\ pc \in {"discard", "clear", "wrap"}

InStep ==
  faults = 0 /\ damage = 0 => Loaded /\ spoilt = {} /\ (WrappersApplied \/ WrapPending)

\* Counts of faults and damage only grow.
LEMMA CountsGrow ==
  ASSUME TypeOK, [Next]_vars
  PROVE  /\ faults' = faults \/ faults' = faults + 1
         /\ damage' = damage \/ damage' = damage + 1
<1>1. CASE InstallStep
  BY <1>1 DEF InstallStep, Extract, PublishInstall, MovePackage, CommitInstall, UndoMove, UndoTree,
              UndoClear, Fault, env
<1>2. CASE RemoveStep
  BY <1>2 DEF RemoveStep, PublishRemove, StageRemoval, CommitRemoval, DiscardRemoved, RestoreRemoved,
              Fault, env
<1>3. CASE RepairStep
  BY <1>3 DEF RepairStep, Recover, Quarantine, PreserveState, Unreadable, Reconcile, RebuildWrappers,
              CleanupStaging, EndRepair, Fault, env
<1>4. CASE ClearJournal \/ Wrap \/ SaveDefault
  BY <1>4 DEF ClearJournal, Wrap, SaveDefault, Fault, env
<1>5. CASE \E i \in Proc : Start(i)
  BY <1>5 DEF Start, BeginInstall, BeginDefault, BeginRemove, PlanUpdate, BeginUpdate, SkipUpdate,
              StopUpdate, BeginRepair, env
<1>6. CASE Stop \/ Damage
  BY <1>6 DEF Stop, Damage, Fault, env
<1>7. CASE UNCHANGED vars
  BY <1>7 DEF vars, env
<1> QED
  BY <1>1, <1>2, <1>3, <1>4, <1>5, <1>6, <1>7 DEF Next, Work

\* Without damage and failed reads, only a package that was just moved into
\* place leaves the set of spoilt ones, and none enters it.
LEMMA SpoiltShrinks ==
  ASSUME [Next]_vars, damage' = damage, damage \in Nat, faults' = faults, faults \in Nat
  PROVE  spoilt' \subseteq spoilt
<1>1. CASE InstallStep
  BY <1>1 DEF InstallStep, Extract, PublishInstall, MovePackage, CommitInstall, UndoMove, UndoTree,
              UndoClear, env
<1>2. CASE RemoveStep
  BY <1>2 DEF RemoveStep, PublishRemove, StageRemoval, CommitRemoval, DiscardRemoved, RestoreRemoved, env
<1>3. CASE RepairStep
  <2>1. ~Fault
    BY DEF Fault
  <2> QED
    BY <1>3, <2>1 DEF RepairStep, Recover, Quarantine, PreserveState, Reconcile, RebuildWrappers,
              CleanupStaging, EndRepair, env
<1>4. CASE ClearJournal \/ Wrap \/ SaveDefault
  BY <1>4 DEF ClearJournal, Wrap, SaveDefault, env
<1>5. CASE \E i \in Proc : Start(i)
  <2>1. UNCHANGED env
    BY <1>5 DEF Start, BeginInstall, BeginDefault, BeginRemove, PlanUpdate, BeginUpdate, SkipUpdate,
                StopUpdate, BeginRepair
  <2> QED
    BY <2>1 DEF env
<1>6. ~Damage
  <2>1. damage' # damage + 1
    OBVIOUS
  <2> QED
    BY <2>1 DEF Damage
<1>7. CASE Stop
  BY <1>7 DEF Stop, env
<1>8. CASE UNCHANGED vars
  BY <1>8 DEF vars, env
<1> QED
  BY <1>1, <1>2, <1>3, <1>4, <1>5, <1>6, <1>7, <1>8 DEF Next, Work

\* Only the reconciliation of wrappers writes bin/.
LEMMA BinWriters ==
  ASSUME [Next]_vars PROVE Wrap \/ RebuildWrappers \/ UNCHANGED bin
<1>1. CASE InstallStep
  BY <1>1 DEF InstallStep, Extract, PublishInstall, MovePackage, CommitInstall, UndoMove, UndoTree,
              UndoClear
<1>2. CASE RemoveStep
  BY <1>2 DEF RemoveStep, PublishRemove, StageRemoval, CommitRemoval, DiscardRemoved, RestoreRemoved
<1>3. CASE RepairStep
  BY <1>3 DEF RepairStep, Recover, Quarantine, PreserveState, Reconcile, RebuildWrappers,
              CleanupStaging, EndRepair
<1>4. CASE ClearJournal \/ Wrap \/ SaveDefault
  BY <1>4 DEF ClearJournal, SaveDefault
<1>5. CASE \E i \in Proc : Start(i)
  BY <1>5 DEF Start, BeginInstall, BeginDefault, BeginRemove, PlanUpdate, BeginUpdate, SkipUpdate,
              StopUpdate, BeginRepair, disk
<1>6. CASE Stop \/ Damage
  BY <1>6 DEF Stop, Damage
<1>7. CASE UNCHANGED vars
  BY <1>7 DEF vars, disk
<1> QED
  BY <1>1, <1>2, <1>3, <1>4, <1>5, <1>6, <1>7 DEF Next, Work

\* There is nothing to write or remove once the wrappers are those of the
\* defaults.
LEMMA AppliedIsFinal == ApplyWrappers => ~WrappersApplied
BY DEF ApplyWrappers, WrappersApplied

\* A command whose default changed goes through the tail to its wrappers.
LEMMA PendingNext ==
  ASSUME Inv, WrapPending, [Next]_vars, faults' = faults, damage' = damage, UNCHANGED stateFile
  PROVE  WrapPending' \/ WrappersApplied'
<1>0. holder # NoProc /\ kind # "repair" /\ faults \in Nat /\ damage \in Nat
  BY DEF Inv, TypeOK, Shape, WrapPending, RemovePc, TailPc
<1>1. ~InstallStep
  BY <1>0 DEF WrapPending, InstallStep, Extract, PublishInstall, MovePackage, CommitInstall, UndoMove,
         UndoTree, UndoClear
<1>2. CASE RemoveStep
  BY <1>2 DEF WrapPending, RemoveStep, PublishRemove, StageRemoval, CommitRemoval, DiscardRemoved,
              RestoreRemoved, Go
<1>3. ~RepairStep
  BY <1>0 DEF WrapPending, RepairStep, Recover, Quarantine, PreserveState, Reconcile, RebuildWrappers,
         CleanupStaging, EndRepair
<1>4. CASE ClearJournal
  BY <1>4 DEF WrapPending, ClearJournal
<1>5. CASE Wrap
  <2>1. CASE UNCHANGED run
    BY <2>1 DEF WrapPending, run
  <2>2. CASE UNCHANGED bin /\ WrappersApplied
    BY <2>2 DEF WrappersApplied, default, WrappersFor, Providers
  <2> QED
    BY <1>5, <2>1, <2>2 DEF Wrap, WrapPending
<1>6. ~SaveDefault
  BY DEF SaveDefault, WrapPending
<1>7. CASE \E i \in Proc : Start(i)
  <2>1. UNCHANGED run
    BY <1>0, <1>7 DEF Start, BeginInstall, BeginDefault, BeginRemove, PlanUpdate, BeginUpdate,
                      SkipUpdate, StopUpdate, BeginRepair, Begin
  <2> QED
    BY <2>1 DEF run, WrapPending
<1>8. ~Stop /\ ~Damage
  <2>1. faults' # faults + 1
    BY <1>0
  <2> QED
    BY <1>0, <2>1 DEF Stop, Fault, Damage
<1>9. CASE UNCHANGED vars
  BY <1>9 DEF vars, run, WrapPending
<1> QED
  BY <1>1, <1>2, <1>3, <1>4, <1>5, <1>6, <1>7, <1>8, <1>9 DEF Next, Work

\* Saving a state keeps the defaults, or the command owes the wrappers.
LEMMA SavedOwesWrappers ==
  ASSUME Inv, InStep, StateWrite, [Next]_vars, faults = 0, damage = 0, damage' = damage,
         faults' = faults
  PROVE  Loaded' /\ (default' = default \/ WrapPending' \/ UNCHANGED stateFile)
<1>0. Loaded /\ spoilt = {} /\ default \in [Scope -> Package \cup {NoPkg}]
  BY StateTypes DEF InStep, Inv
<1>1. CASE CommitInstall
  <2>1. pkg \in Package
    BY <1>1 DEF CommitInstall, Inv, Working, RepairPc
  <2>2. CASE stateFile' = InstallState(pkg) /\ rewrap' = MovesDefault(pkg) /\ pc' = "clear"
    <3>1. /\ stateFile' \in StateFiles /\ Loaded'
          /\ \A s \in Scope : default'[s] = IF MovesDefault(pkg) /\ s = ScopeOf[pkg]
                                            THEN pkg ELSE default[s]
      BY <2>1, <2>2, InstallStateFacts DEF Inv, default, Loaded
    <3>2. default' \in [Scope -> Package \cup {NoPkg}]
      BY <3>1 DEF StateFiles, Defaults, default
    <3>3. CASE MovesDefault(pkg)
      BY <2>2, <3>1, <3>3 DEF WrapPending
    <3>4. CASE ~MovesDefault(pkg)
      BY <1>0, <3>1, <3>2, <3>4
    <3> QED
      BY <3>1, <3>3, <3>4
  <2> QED
    BY <1>0, <1>1, <2>2 DEF CommitInstall, Loaded
<1>2. CASE CommitRemoval
  <2>1. pkg \in Package
    BY <1>2 DEF CommitRemoval, Inv, Working, RepairPc
  <2>2. CASE stateFile' = RemoveState(pkg) /\ rewrap' = RemovesDefault(pkg) /\ pc' = "discard"
    <3>1. /\ stateFile' \in StateFiles /\ Loaded'
          /\ \A s \in Scope : default'[s] = IF default[s] = pkg THEN NoPkg ELSE default[s]
      BY <2>1, <2>2, RemoveStateFacts DEF Inv, default, Loaded
    <3>2. default' \in [Scope -> Package \cup {NoPkg}]
      BY <3>1 DEF StateFiles, Defaults, default
    <3>3. CASE RemovesDefault(pkg)
      BY <2>2, <3>1, <3>3 DEF WrapPending
    <3>4. CASE ~RemovesDefault(pkg)
      <4>1. \A s \in Scope : default[s] # pkg
        BY <2>1, <3>4, PackageAssumption DEF RemovesDefault, Inv, StateValid
      <4> QED
        BY <1>0, <3>1, <3>2, <4>1
    <3> QED
      BY <3>1, <3>3, <3>4
  <2> QED
    BY <1>0, <1>2, <2>2 DEF CommitRemoval, Loaded
<1>3. CASE SaveDefault
  <2>1. pkg \in Package
    BY <1>3 DEF SaveDefault, Inv, Working, RepairPc
  <2>2. CASE stateFile' = DefaultState(pkg) /\ pc' = "wrap" /\ rewrap' = TRUE
    BY <2>1, <2>2, DefaultStateFacts DEF Inv, Loaded, WrapPending
  <2> QED
    BY <1>0, <1>3, <2>2 DEF SaveDefault, Loaded
<1>4. CASE Reconcile
  <2>1. /\ stateFile' \in StateFiles /\ Loaded'
        /\ \A s \in Scope : default'[s] = IF default[s] \in Scanned THEN default[s] ELSE NoPkg
    BY <1>4, ReconciledStateFacts DEF Reconcile, Inv, default, Loaded
  <2>2. default' \in [Scope -> Package \cup {NoPkg}]
    BY <2>1 DEF StateFiles, Defaults, default
  <2>3. journal.pkg = NoPkg
    BY <1>4, JournalFacts DEF Reconcile, Inv, RepairPhase, RepairPc
  <2>4. \A q \in installed : q \in Package => tree[q] = "valid"
    BY <1>0, <2>3, PackageAssumption DEF Inv, Others, Settled
  <2>5. \A s \in Scope : default[s] # NoPkg => default[s] \in Scanned
    BY <1>0, <2>4 DEF Inv, StateValid, Scanned
  <2> QED
    BY <1>0, <2>1, <2>2, <2>5
<1>5. CASE PreserveState
  BY <1>0, <1>5 DEF PreserveState, Unreadable, Fault, Loaded
<1>6. ~Damage
  BY DEF Damage, Inv, TypeOK
<1> QED
  BY <1>1, <1>2, <1>3, <1>4, <1>5, <1>6 DEF StateWrite

\* Every step keeps the wrappers in step with the defaults.
LEMMA InStepNext == Inv /\ InStep /\ [Next]_vars => InStep'
<1> SUFFICES ASSUME Inv, InStep, [Next]_vars, faults' = 0, damage' = 0
             PROVE  Loaded' /\ spoilt' = {} /\ (WrappersApplied' \/ WrapPending')
  BY DEF InStep
<1>1. faults = 0 /\ damage = 0 /\ faults' = faults /\ damage' = damage
  BY CountsGrow DEF Inv, TypeOK
<1>2. Loaded /\ spoilt = {} /\ (WrappersApplied \/ WrapPending)
  BY <1>1 DEF InStep
<1>3. spoilt' = {}
  BY <1>1, <1>2, SpoiltShrinks DEF Inv, TypeOK
<1>4. CASE UNCHANGED stateFile
  <2>1. Loaded' /\ default' = default
    BY <1>2, <1>4 DEF Loaded, default
  <2>2. CASE WrapPending
    BY <1>1, <1>3, <1>4, <2>1, <2>2, PendingNext
  <2>3. CASE WrappersApplied
    <3>1. UNCHANGED bin
      BY <2>3, AppliedIsFinal, BinWriters DEF Wrap, RebuildWrappers
    <3> QED
      BY <1>3, <2>1, <2>3, <3>1 DEF WrappersApplied, WrappersFor, Providers
  <2> QED
    BY <1>2, <2>2, <2>3
<1>5. CASE StateWrite /\ ~UNCHANGED stateFile
  <2>1. ~WrapPending /\ ~Damage
    BY <1>1, <1>5 DEF StateWrite, CommitInstall, CommitRemoval, SaveDefault, PreserveState, Reconcile,
                      WrapPending, Damage, Inv, TypeOK
  <2>2. UNCHANGED bin
    BY <1>5, <2>1 DEF StateWrite, CommitInstall, CommitRemoval, SaveDefault, PreserveState, Reconcile
  <2>3. Loaded' /\ (default' = default \/ WrapPending')
    BY <1>1, <1>5, SavedOwesWrappers
  <2> QED
    BY <1>2, <1>3, <2>1, <2>2, <2>3 DEF WrappersApplied, WrappersFor, Providers
<1> QED
  BY <1>4, <1>5, StateWriters

\* As long as nothing failed, bin/ belongs to the defaults whenever no command
\* runs, although wrappers are written after the commit, one by one.
THEOREM WrappersInStep == Spec => []WrappersFollowDefaults
<1>1. Init => InStep
  BY DEF Init, InStep, Loaded, WrappersApplied, WrappersFor, Providers, NoDefaults, default
<1>2. Inv /\ InStep => WrappersFollowDefaults
  BY DEF Inv, Shape, InStep, WrapPending, WrappersFollowDefaults
<1>3. Spec => []InStep
  BY <1>1, InStepNext, Invariance, PTL DEF Spec
<1> QED
  BY <1>2, <1>3, Invariance, PTL
=============================================================================
