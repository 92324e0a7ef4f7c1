--------------------------- MODULE PackageLifecycle ---------------------------
(***************************************************************************)
(* The package half of one managed cup root: install, update, remove,      *)
(* default and repair, run by competing processes, against the persistent  *)
(* objects they share (state.txt, transaction.txt, the components tree,    *)
(* the journal-owned staging directory and the wrappers in bin/).          *)
(*                                                                         *)
(* Every action is one persistent effect of the code together with the     *)
(* decisions that lead to it, so a crash can fall between any two effects. *)
(* A primitive that fails without effect takes the rollback branch of its  *)
(* caller; one that was applied but not confirmed (CUP_ERR_COMMIT), and    *)
(* every other error after which a command just returns, leaves the disk   *)
(* a crash at that point would leave, and is the action Stop.              *)
(***************************************************************************)
EXTENDS Naturals, FiniteSets

CONSTANTS
  Package,      \* package identities: component, tool, target and version
  Scope,        \* component + target pairs
  ScopeOf,      \* the scope of a package
  ToolOf,       \* the tool of a package
  Rank,         \* position of a package's version in package_release_compare
  Command,      \* public wrapper names
  CommandsOf,   \* the wrapper names a package provides
  Proc,         \* cup processes
  NoPkg, NoProc, \* "no package", "no process"
  MaxFaults,    \* crashes, interrupts, failed or unconfirmed primitives, failed reads
  MaxDamage     \* objects damaged from outside cup

ASSUME PackageAssumption ==
  /\ NoPkg \notin Package
  /\ ScopeOf \in [Package -> Scope]
  /\ Rank \in [Package -> Nat]
  /\ CommandsOf \in [Package -> SUBSET Command]

ASSUME ProcAssumption == NoProc \notin Proc

ASSUME BoundAssumption == MaxFaults \in Nat /\ MaxDamage \in Nat

VARIABLES
  stateFile,  \* state.txt: its load status, installed identities and defaults
  journal,    \* transaction.txt
  tree,       \* canonical package trees under components/
  staging,    \* the staging directory of the running or journalled operation
  litter,     \* staging/ holds directories no journal or command owns
  bin,        \* the package each managed wrapper runs
  holder,     \* the process holding cup.lock exclusively
  kind, pkg, pc,   \* its command, the package it works on, its next step
  expect,     \* operation->expected_default of an update
  owns,       \* operation->journal_started
  rewrap,     \* the command changed a default, so it reconciles wrappers
  plan,       \* update plans built under a shared lock and executed later
  faults,     \* faults so far
  damage,     \* damage so far
  spoilt      \* packages whose bytes were damaged, or given up by a repair that
              \* could not read them, since they were installed

disk == <<stateFile, journal, tree, staging, litter, bin>>
cmd  == <<holder, kind, pkg, expect>>
run  == <<cmd, pc, owns, rewrap>>
env  == <<damage, spoilt>>
vars == <<disk, run, plan, faults, env>>

(***************************************************************************)
(* Values.                                                                 *)
(***************************************************************************)
Bytes == {"missing", "valid", "invalid"}

NoJournal == [op |-> "none", pkg |-> NoPkg]
Journals  == [op : {"install", "remove"}, pkg : Package] \cup {NoJournal}

NoDefaults == [s \in Scope |-> NoPkg]
Defaults   == [Scope -> Package \cup {NoPkg}]
StateFiles == [status : {"loaded", "missing", "malformed"},
               installed : SUBSET Package, default : Defaults]

Items == [ref : Package, isDefault : BOOLEAN, target : Package]

Kinds == {"none", "install", "update", "default", "remove", "repair"}

Steps == {"idle",
          "extract", "publish", "move", "commit",        \* install and update
          "undoMove", "undoTree", "undoClear",           \* rollback_install
          "save",                                        \* commit_existing_update, default
          "journal", "stage", "drop", "discard", "restore", \* remove
          "clear", "wrap",                               \* the tail of a commit
          "recover", "quarantine", "preserve", "reconcile",      \* repair
          "rebuild", "tidy", "healthy"}

TypeOK ==
  /\ stateFile \in StateFiles
  /\ journal \in Journals
  /\ tree \in [Package -> Bytes]
  /\ staging \in Bytes
  /\ litter \in BOOLEAN
  /\ bin \in [Command -> Package \cup {NoPkg}]
  /\ holder \in Proc \cup {NoProc}
  /\ kind \in Kinds /\ pkg \in Package \cup {NoPkg} /\ pc \in Steps
  /\ expect \in Package \cup {NoPkg}
  /\ owns \in BOOLEAN /\ rewrap \in BOOLEAN
  /\ plan \in [Proc -> SUBSET Items]
  /\ faults \in Nat /\ damage \in Nat
  /\ spoilt \subseteq Package

Init ==
  /\ stateFile = [status |-> "loaded", installed |-> {}, default |-> NoDefaults]
  /\ journal = NoJournal
  /\ tree = [p \in Package |-> "missing"]
  /\ staging = "missing" /\ litter = FALSE
  /\ bin = [c \in Command |-> NoPkg]
  /\ holder = NoProc /\ kind = "none" /\ pkg = NoPkg /\ pc = "idle"
  /\ expect = NoPkg /\ owns = FALSE /\ rewrap = FALSE
  /\ plan = [i \in Proc |-> {}]
  /\ faults = 0 /\ damage = 0 /\ spoilt = {}

(***************************************************************************)
(* state.c: reading and deriving state.                                    *)
(***************************************************************************)
installed == stateFile.installed
default   == stateFile.default
Loaded    == stateFile.status = "loaded"

SameFamily(p, q) == ScopeOf[p] = ScopeOf[q] /\ ToolOf[p] = ToolOf[q]

\* state_get_tool_reference: the default when it is of this tool, otherwise
\* the newest installed release of the tool.
IsReference(r, isDefault) ==
  LET d == default[ScopeOf[r]] IN
  IF d # NoPkg /\ ToolOf[d] = ToolOf[r]
  THEN r = d /\ isDefault
  ELSE /\ ~isDefault
       /\ r \in installed
       /\ \A q \in installed : SameFamily(q, r) => Rank[q] <= Rank[r]

ScopeIsEmpty(p) == \A q \in installed : ScopeOf[q] # ScopeOf[p]

WithState(inst, def) == [status |-> "loaded", installed |-> inst, default |-> def]

\* prepare_default_change: the scope's first package becomes its default, and
\* an update moves the default it was planned against.
MovesDefault(p) ==
  \/ default[ScopeOf[p]] = NoPkg /\ p \notin installed /\ ScopeIsEmpty(p)
  \/ /\ kind = "update" /\ expect # NoPkg
     /\ default[ScopeOf[p]] = expect /\ expect # p

InstallState(p) ==
  WithState(installed \cup {p},
            IF MovesDefault(p) THEN [default EXCEPT ![ScopeOf[p]] = p] ELSE default)

\* commit_removal: state_clear_matching_default then state_remove_installed.
RemovesNoDefault(p) == FALSE
RemovesDefault(p)   == default[ScopeOf[p]] = p
RemoveState(p) ==
  WithState(installed \ {p},
            IF RemovesDefault(p) THEN [default EXCEPT ![ScopeOf[p]] = NoPkg] ELSE default)

DefaultState(p) == WithState(installed, [default EXCEPT ![ScopeOf[p]] = p])

\* reconcile_state: the scanned valid packages are the installed ones, and
\* only a default that is no longer installed is dropped.
Scanned == {p \in Package : tree[p] = "valid"}
ReconciledStateDropsDefaults == WithState(Scanned, NoDefaults)
ReconciledState ==
  WithState(Scanned,
            [s \in Scope |-> IF default[s] \in Scanned THEN default[s] ELSE NoPkg])

(***************************************************************************)
(* wrappers.c: the wrapper namespace of a set of defaults.                 *)
(***************************************************************************)
Providers(def, c) == {p \in {def[s] : s \in Scope} \ {NoPkg} : c \in CommandsOf[p]}

WrappersFor(def) ==
  [c \in Command |-> IF Providers(def, c) = {} THEN NoPkg
                     ELSE CHOOSE p \in Providers(def, c) : TRUE]

\* wrapper_plan_build: every default package validates and no two of them
\* declare the same public name.
CanWrap(def) ==
  /\ \A s \in Scope : def[s] # NoPkg => tree[def[s]] = "valid"
  /\ \A c \in Command : \A p, q \in Providers(def, c) : p = q

(***************************************************************************)
(* command_context.c: starting and ending a command.                       *)
(***************************************************************************)

\* What every command except repair requires of the locked root; a command
\* that does not find it, or finds the lock taken, returns without effect.
Usable == journal = NoJournal /\ Loaded

Begin(i, k, p, e, step) ==
  /\ holder = NoProc
  /\ holder' = i /\ kind' = k /\ pkg' = p /\ expect' = e /\ pc' = step
  /\ owns' = FALSE /\ rewrap' = FALSE

Go(step) == pc' = step /\ UNCHANGED <<cmd, owns, rewrap>>

\* The command ends with journal j and staging directory s on disk. Staging
\* that no journal names is litter; a failed item ends the whole update.
Finish(ok, j, s) ==
  /\ holder' = NoProc /\ kind' = "none" /\ pkg' = NoPkg /\ expect' = NoPkg
  /\ pc' = "idle" /\ owns' = FALSE /\ rewrap' = FALSE
  /\ journal' = j
  /\ staging' = IF j = NoJournal THEN "missing" ELSE s
  /\ litter' = (litter \/ (j = NoJournal /\ s # "missing"))
  /\ plan' = IF ok THEN plan ELSE [plan EXCEPT ![holder] = {}]

Fault == faults < MaxFaults /\ faults' = faults + 1

(***************************************************************************)
(* package_install.c: install, and update of one planned item.             *)
(***************************************************************************)
BeginInstall(i, p) ==
  /\ Usable /\ plan[i] = {}
  /\ p \notin installed /\ tree[p] = "missing"
  /\ Begin(i, "install", p, NoPkg, "extract")
  /\ staging' = "invalid"
  /\ UNCHANGED <<stateFile, journal, tree, litter, bin, plan, faults, env>>

\* command_update.c: under a shared lock, at most one item per installed family
\* whose catalog stable is not older than the family's reference.
PlanUpdate(i) ==
  /\ holder = NoProc /\ Usable /\ plan[i] = {}
  /\ \E S \in SUBSET {x \in Items : /\ IsReference(x.ref, x.isDefault)
                                    /\ SameFamily(x.ref, x.target)
                                    /\ Rank[x.ref] <= Rank[x.target]} :
       /\ S # {}
       /\ \A x, y \in S : SameFamily(x.ref, y.ref) => x = y
       /\ plan' = [plan EXCEPT ![i] = S]
  /\ UNCHANGED <<disk, run, faults, env>>

ExpectedDefault(x) == IF x.isDefault THEN x.ref ELSE NoPkg

\* validate_update_reference: the family still has the reference it was planned
\* against.
TrustThePlan(x)   == TRUE
StillReference(x) == IsReference(x.ref, x.isDefault)

\* package_install_update_artifact under the exclusive lock.
BeginUpdate(i) ==
  \E x \in plan[i] :
    /\ Usable /\ StillReference(x)
    /\ \/ /\ x.target \notin installed /\ tree[x.target] = "missing"
          /\ Begin(i, "update", x.target, ExpectedDefault(x), "extract")
          /\ staging' = "invalid"
       \/ /\ x.target \in installed /\ tree[x.target] = "valid"
          /\ Begin(i, "update", x.target, ExpectedDefault(x), "save")
          /\ UNCHANGED staging
    /\ plan' = [plan EXCEPT ![i] = @ \ {x}]
    /\ UNCHANGED <<stateFile, journal, tree, litter, bin, faults, env>>

\* The family changed since planning: the item is skipped.
SkipUpdate(i) ==
  \E x \in plan[i] :
    /\ holder = NoProc /\ Usable
    /\ ~StillReference(x)
    /\ plan' = [plan EXCEPT ![i] = @ \ {x}]
    /\ UNCHANGED <<disk, run, faults, env>>

\* Any other refusal stops the update with its remaining items.
StopUpdate(i) ==
  /\ plan[i] # {} /\ holder # i
  /\ \/ holder # NoProc
     \/ ~Usable
     \/ \E x \in plan[i] : /\ StillReference(x)
                           /\ tree[x.target] # IF x.target \in installed THEN "valid" ELSE "missing"
  /\ plan' = [plan EXCEPT ![i] = {}]
  /\ UNCHANGED <<disk, run, faults, env>>

Extract ==
  /\ pc = "extract"
  /\ \/ staging' = "valid" /\ Go("publish") /\ UNCHANGED faults
     \/ Fault /\ Go("undoTree") /\ UNCHANGED staging
  /\ UNCHANGED <<stateFile, journal, tree, litter, bin, plan, env>>

\* begin_install_commit: an unconfirmed journal is not owned, so rollback
\* leaves it in place.
PublishInstall ==
  /\ pc = "publish"
  /\ \/ /\ journal' = [op |-> "install", pkg |-> pkg]
        /\ pc' = "move" /\ owns' = TRUE /\ UNCHANGED <<cmd, rewrap, faults>>
     \/ /\ Fault /\ Go("undoTree")
        /\ journal' \in {journal, [op |-> "install", pkg |-> pkg]}
  /\ UNCHANGED <<stateFile, tree, staging, litter, bin, plan, env>>

MovePackage ==
  /\ pc = "move"
  /\ \/ /\ tree' = [tree EXCEPT ![pkg] = staging] /\ staging' = "missing"
        /\ spoilt' = spoilt \ {pkg}
        /\ Go("commit") /\ UNCHANGED faults
     \/ Fault /\ Go("undoTree") /\ UNCHANGED <<tree, staging, spoilt>>
  /\ UNCHANGED <<stateFile, journal, litter, bin, plan, damage>>

\* state.txt is the commit point; the wrapper plan is built before it.
CommitInstall ==
  /\ pc = "commit"
  /\ \/ /\ MovesDefault(pkg) => CanWrap(InstallState(pkg).default)
        /\ stateFile' = InstallState(pkg) /\ rewrap' = MovesDefault(pkg)
        /\ pc' = "clear" /\ UNCHANGED <<cmd, owns, faults>>
     \/ /\ MovesDefault(pkg) /\ ~CanWrap(InstallState(pkg).default)
        /\ Go("undoMove") /\ UNCHANGED <<stateFile, faults>>
     \/ Fault /\ Go("undoMove") /\ UNCHANGED stateFile
  /\ UNCHANGED <<journal, tree, staging, litter, bin, plan, env>>

\* rollback_install.
UndoMoveSkipped == pc = "undoMove" /\ Go("undoTree") /\ UNCHANGED <<disk, plan, faults, env>>
UndoMove ==
  /\ pc = "undoMove"
  /\ tree' = [tree EXCEPT ![pkg] = "missing"] /\ staging' = tree[pkg]
  /\ Go("undoTree")
  /\ UNCHANGED <<stateFile, journal, litter, bin, plan, faults, env>>

UndoTree ==
  /\ pc = "undoTree"
  /\ \/ owns /\ Go("undoClear") /\ staging' = "missing" /\ UNCHANGED <<journal, litter, plan, faults>>
     \/ ~owns /\ Finish(FALSE, journal, "missing") /\ UNCHANGED faults
     \/ Fault /\ Finish(FALSE, journal, "invalid")
  /\ UNCHANGED <<stateFile, tree, bin, env>>

\* The last step of rollback_install and of rollback_removal.
UndoClear ==
  /\ pc = "undoClear"
  /\ Finish(FALSE, NoJournal, staging)
  /\ UNCHANGED <<stateFile, tree, bin, faults, env>>

(***************************************************************************)
(* The tail shared by committed installs, updates and removals: the        *)
(* journal is cleared first, then the wrappers are reconciled.             *)
(***************************************************************************)
ClearJournal ==
  /\ pc = "clear"
  /\ \/ journal' = NoJournal /\ owns' = FALSE /\ UNCHANGED faults
     \/ Fault /\ journal' \in {journal, NoJournal} /\ UNCHANGED owns
  /\ pc' = "wrap"
  /\ UNCHANGED <<stateFile, tree, staging, litter, bin, cmd, rewrap, plan, env>>

\* wrapper_plan_apply: every planned wrapper is written, then every other
\* entry of bin/ is removed.
ApplyWrappers ==
  LET want    == WrappersFor(default)
      missing == {c \in Command : want[c] # NoPkg /\ bin[c] # want[c]}
      stale   == {c \in Command : want[c] = NoPkg /\ bin[c] # NoPkg}
  IN  \E c \in IF missing # {} THEN missing ELSE stale :
        bin' = [bin EXCEPT ![c] = want[c]]

WrappersApplied == bin = WrappersFor(default)

WrapSkipped == /\ pc = "wrap" /\ Finish(~owns, journal, staging)
               /\ UNCHANGED <<stateFile, tree, bin, faults, env>>

\* A journal that could not be cleared (owns) makes the command fail.
Wrap ==
  /\ pc = "wrap"
  /\ \/ rewrap /\ ApplyWrappers /\ UNCHANGED <<journal, staging, litter, run, plan>>
     \/ (rewrap => WrappersApplied) /\ Finish(~owns, journal, staging) /\ UNCHANGED bin
  /\ UNCHANGED <<stateFile, tree, faults, env>>

(***************************************************************************)
(* command_default.c, and commit_existing_update of package_install.c.     *)
(***************************************************************************)
BeginDefault(i, p) ==
  /\ Usable /\ plan[i] = {}
  /\ p \in installed /\ tree[p] = "valid"
  /\ Begin(i, "default", p, NoPkg, "save")
  /\ UNCHANGED <<disk, plan, faults, env>>

SaveDefault ==
  LET wanted == kind = "default" \/ MovesDefault(pkg)
      ready  == CanWrap(DefaultState(pkg).default)
  IN
  /\ pc = "save"
  /\ \/ /\ wanted /\ ready
        /\ stateFile' = DefaultState(pkg)
        /\ pc' = "wrap" /\ rewrap' = TRUE
        /\ UNCHANGED <<cmd, owns, journal, staging, litter, plan>>
     \/ /\ ~(wanted /\ ready)
        /\ Finish(~wanted, journal, staging) /\ UNCHANGED stateFile
  /\ UNCHANGED <<tree, bin, faults, env>>

(***************************************************************************)
(* command_remove.c.                                                       *)
(***************************************************************************)

\* installed_package_require_present: the tree may be corrupt.
BeginRemove(i, p) ==
  /\ Usable /\ plan[i] = {}
  /\ p \in installed /\ tree[p] # "missing"
  /\ Begin(i, "remove", p, NoPkg, "journal")
  /\ UNCHANGED <<disk, plan, faults, env>>


PublishRemove ==
  /\ pc = "journal"
  /\ journal' = [op |-> "remove", pkg |-> pkg]
  /\ pc' = "stage" /\ owns' = TRUE
  /\ UNCHANGED <<stateFile, tree, staging, litter, bin, cmd, rewrap, plan, faults, env>>

StageRemoval ==
  /\ pc = "stage"
  /\ \/ /\ tree' = [tree EXCEPT ![pkg] = "missing"] /\ staging' = tree[pkg]
        /\ Go("drop") /\ UNCHANGED faults
     \/ Fault /\ Go("undoClear") /\ UNCHANGED <<tree, staging>>
  /\ UNCHANGED <<stateFile, journal, litter, bin, plan, env>>

CommitRemoval ==
  /\ pc = "drop"
  /\ \/ /\ RemovesDefault(pkg) => CanWrap(RemoveState(pkg).default)
        /\ stateFile' = RemoveState(pkg) /\ rewrap' = RemovesDefault(pkg)
        /\ pc' = "discard" /\ UNCHANGED <<cmd, owns, faults>>
     \/ /\ RemovesDefault(pkg) /\ ~CanWrap(RemoveState(pkg).default)
        /\ Go("restore") /\ UNCHANGED <<stateFile, faults>>
     \/ Fault /\ Go("restore") /\ UNCHANGED stateFile
  /\ UNCHANGED <<journal, tree, staging, litter, bin, plan, env>>

DiscardRemoved ==
  /\ pc = "discard"
  /\ \/ staging' = "missing" /\ UNCHANGED faults
     \/ staging' = "invalid" /\ Fault
  /\ Go("clear")
  /\ UNCHANGED <<stateFile, journal, tree, litter, bin, plan, env>>

\* rollback_removal, which continues with UndoClear.
RestoreRemoved ==
  /\ pc = "restore"
  /\ tree' = [tree EXCEPT ![pkg] = staging] /\ staging' = "missing"
  /\ Go("undoClear")
  /\ UNCHANGED <<stateFile, journal, litter, bin, plan, faults, env>>

(***************************************************************************)
(* command_repair.c and package_transaction_recover.                       *)
(***************************************************************************)
BeginRepair(i) ==
  /\ plan[i] = {}
  /\ Begin(i, "repair", journal.pkg, NoPkg, "recover")
  /\ UNCHANGED <<disk, plan, faults, env>>

\* Deletes the staged copy without looking at the canonical one.
RecoverByCleaning ==
  /\ Loaded /\ pkg \in installed
  /\ staging # "missing" /\ staging' = "missing" /\ UNCHANGED tree

\* Valid state decides: an installed package is kept or restored from staging.
RecoverInstalled ==
  /\ Loaded /\ pkg \in installed
  /\ \/ /\ tree[pkg] = "valid" /\ staging # "missing"
        /\ staging' = "missing" /\ UNCHANGED tree
     \/ /\ tree[pkg] = "invalid" /\ staging = "valid"      \* preserve_invalid_install
        /\ tree' = [tree EXCEPT ![pkg] = "missing"] /\ UNCHANGED staging
     \/ /\ tree[pkg] = "missing" /\ staging = "valid"      \* move_staged_package
        /\ tree' = [tree EXCEPT ![pkg] = staging] /\ staging' = "missing"

\* An absent one is deleted, canonical tree first; a deletion that fails may
\* have removed some of the files.
RecoverAbsent(left) ==
  /\ Loaded /\ pkg \notin installed
  /\ \/ /\ tree[pkg] # "missing"
        /\ tree' = [tree EXCEPT ![pkg] = left] /\ UNCHANGED staging
     \/ /\ tree[pkg] = "missing" /\ staging # "missing"
        /\ staging' = left /\ UNCHANGED tree

Recovered ==
  /\ Loaded /\ staging = "missing"
  /\ tree[pkg] = IF pkg \in installed THEN "valid" ELSE "missing"

RefuseWithoutTree == ~Loaded \/ tree[pkg] # "valid"

\* Without valid state, or with nothing valid to restore, the evidence stays.
RecoveryRefused ==
  \/ ~Loaded
  \/ pkg \in installed /\ tree[pkg] # "valid" /\ staging # "valid"

Recover ==
  /\ pc = "recover"
  /\ \/ journal = NoJournal /\ Go("quarantine") /\ UNCHANGED <<journal, tree, staging, litter, plan, faults>>
     \/ /\ journal # NoJournal
        /\ \/ /\ RecoverInstalled \/ RecoverAbsent("missing")
              /\ UNCHANGED <<journal, litter, run, plan, faults>>
           \/ /\ RecoverAbsent("invalid") /\ Fault
              /\ UNCHANGED <<journal, litter, run, plan>>
           \/ /\ Recovered /\ journal' = NoJournal /\ Go("quarantine")
              /\ UNCHANGED <<tree, staging, litter, plan, faults>>
           \/ /\ RecoveryRefused /\ Finish(FALSE, journal, staging)
              /\ UNCHANGED <<tree, faults>>
  /\ UNCHANGED <<stateFile, bin, env>>

\* quarantine_invalid_packages. package_validate calls a package invalid when a
\* command file cannot be opened, for whatever reason: an intact one is then
\* quarantined like a damaged one. What the scan of the components tree found
\* shows here, where it is first acted on.
QuarantineSkipped ==
  /\ pc = "quarantine" /\ Go("preserve")
  /\ UNCHANGED <<disk, plan, faults, env>>

Quarantine ==
  /\ pc = "quarantine"
  /\ \/ /\ \E p \in Package :
             /\ tree' = [tree EXCEPT ![p] = "missing"]
             /\ \/ tree[p] = "invalid" /\ UNCHANGED <<faults, spoilt>>
                \/ tree[p] = "valid" /\ Fault /\ spoilt' = spoilt \cup {p}
        /\ UNCHANGED run
     \/ /\ \A p \in Package : tree[p] # "invalid"
        /\ Go("preserve") /\ UNCHANGED <<tree, faults, spoilt>>
  /\ UNCHANGED <<stateFile, journal, staging, litter, bin, plan, damage>>

\* load_state_for_reconciliation and preserve_invalid_state: a state.txt that is
\* malformed, or whose read failed (CUP_ERR_FILESYSTEM), is moved aside.
PreserveAnyway == stateFile.status # "missing" /\ UNCHANGED faults
Unreadable ==
  \/ stateFile.status = "malformed" /\ UNCHANGED faults
  \/ Loaded /\ Fault

PreserveState ==
  /\ pc = "preserve"
  /\ \/ /\ Unreadable
        /\ stateFile' = [status |-> "missing", installed |-> {}, default |-> NoDefaults]
     \/ /\ stateFile.status # "malformed"
        /\ UNCHANGED <<stateFile, faults>>
  /\ Go("reconcile")
  /\ UNCHANGED <<journal, tree, staging, litter, bin, plan, env>>

\* save_reconciled_state.
Reconcile ==
  /\ pc = "reconcile"
  /\ stateFile' = ReconciledState /\ Go("rebuild")
  /\ UNCHANGED <<journal, tree, staging, litter, bin, plan, faults, env>>

RebuildWrappers ==
  /\ pc = "rebuild"
  /\ \/ CanWrap(default) /\ ApplyWrappers /\ UNCHANGED <<journal, staging, litter, run, plan>>
     \/ /\ CanWrap(default) /\ WrappersApplied /\ Go("tidy")
        /\ UNCHANGED <<bin, journal, staging, litter, plan>>
     \/ ~CanWrap(default) /\ Finish(FALSE, journal, staging) /\ UNCHANGED bin
  /\ UNCHANGED <<stateFile, tree, faults, env>>

CleanupStaging ==
  /\ pc = "tidy"
  /\ litter' = FALSE /\ staging' = "missing" /\ Go("healthy")
  /\ UNCHANGED <<stateFile, journal, tree, bin, plan, faults, env>>

EndRepair ==
  /\ pc = "healthy" /\ Finish(TRUE, journal, staging)
  /\ UNCHANGED <<stateFile, tree, bin, faults, env>>

(***************************************************************************)
(* Failures.                                                               *)
(***************************************************************************)

\* A crash, an interrupt, or an error after which the command only returns.
Stop ==
  /\ holder # NoProc /\ Fault
  /\ Finish(FALSE, journal, staging)
  /\ UNCHANGED <<stateFile, tree, bin, env>>

\* Damage from outside cup, while no command runs.
DamageTree(p) ==
  /\ tree' = [tree EXCEPT ![p] = "invalid"]
  /\ spoilt' = spoilt \cup {p}
  /\ UNCHANGED stateFile

DamageState ==
  /\ \E st \in {"missing", "malformed"} :
       stateFile' = [status |-> st, installed |-> {}, default |-> NoDefaults]
  /\ UNCHANGED <<tree, spoilt>>

Damage ==
  /\ holder = NoProc /\ damage < MaxDamage
  /\ damage' = damage + 1
  /\ DamageState \/ \E p \in Package : DamageTree(p)
  /\ UNCHANGED <<journal, staging, litter, bin, run, plan, faults>>

(***************************************************************************)
(* The specification.                                                      *)
(***************************************************************************)
InstallStep == Extract \/ PublishInstall \/ MovePackage \/ CommitInstall
               \/ UndoMove \/ UndoTree \/ UndoClear
RemoveStep  == PublishRemove \/ StageRemoval \/ CommitRemoval
               \/ DiscardRemoved \/ RestoreRemoved
RepairStep  == Recover \/ Quarantine \/ PreserveState \/ Reconcile
               \/ RebuildWrappers \/ CleanupStaging \/ EndRepair

\* What the process holding the lock does next.
Work == InstallStep \/ RemoveStep \/ RepairStep \/ ClearJournal \/ Wrap \/ SaveDefault

Start(i) ==
  \/ \E p \in Package : BeginInstall(i, p) \/ BeginDefault(i, p) \/ BeginRemove(i, p)
  \/ PlanUpdate(i) \/ BeginUpdate(i) \/ SkipUpdate(i) \/ StopUpdate(i)
  \/ BeginRepair(i)

Next == Work \/ (\E i \in Proc : Start(i)) \/ Stop \/ Damage

Spec == Init /\ [][Next]_vars

\* A running command keeps running, an update gets to its remaining items or
\* stops, and somebody eventually runs the repair that every blocked command
\* asks for.
FairSpec ==
  /\ Spec
  /\ WF_vars(Work)
  /\ WF_vars(\E i \in Proc : BeginUpdate(i) \/ SkipUpdate(i) \/ StopUpdate(i))
  /\ WF_vars(\E i \in Proc : BeginRepair(i))

(***************************************************************************)
(* Properties.                                                             *)
(***************************************************************************)

\* The tree a package has when nothing is pending on it.
Settled(p) == tree[p] = IF p \in installed THEN "valid" ELSE "missing"

\* Whatever state a command derives is one that state_validate accepts, so
\* state_save never refuses it after the trees were moved, and the next command
\* can load it: every default is an installed package of its scope.
StateValid ==
  \A s \in Scope : default[s] # NoPkg =>
    default[s] \in installed /\ ScopeOf[default[s]] = s

\* Whatever was interrupted before, a root that no command is working on and
\* no journal names has state and components in agreement: each recorded
\* package has its complete tree and there is no other (package_install.c,
\* command_remove.c, package_transaction_recover). Spoilt packages are excepted:
\* those damaged from outside, and those a repair gave up for damaged.
InstalledMatchesTree ==
  (holder = NoProc /\ Usable) => \A p \in Package \ spoilt : Settled(p)

\* At every instant the bytes of a recorded package exist, in its canonical
\* tree or in the staging directory the journal names: a crash at any point of
\* a removal, a rollback or a recovery loses nothing.
BytesKept ==
  Loaded => \A p \in installed \ spoilt :
              tree[p] = "valid" \/ (journal.pkg = p /\ staging = "valid")

\* A package leaves a readable state.txt, and a scope loses its default, only
\* through its own removal or because the package was spoilt; and a readable
\* state.txt is only ever given up through damage, or by a repair that could not
\* read it (load_state_for_reconciliation). A repair whose reads succeed forgets
\* no intact package and no default, whatever was interrupted before it.
OnlyRemovalForgets ==
  [][ LET justified(p) == p \in spoilt \/ (kind = "remove" /\ pkg = p)
      IN  /\ Loaded /\ Loaded' =>
               /\ \A p \in installed \ installed' : justified(p)
               /\ \A s \in Scope : default[s] # NoPkg /\ default'[s] = NoPkg
                                     => justified(default[s])
          /\ Loaded /\ ~Loaded' =>
               \/ damage' = damage + 1
               \/ kind = "repair" /\ faults' = faults + 1 ]_vars

\* An update, planned under one lock and executed under a later one, only moves
\* a default that exists, to a release of the same tool that is not older: what
\* other commands did in between cannot make it pick or downgrade a default.
UpdateOnlyAdvances ==
  [][ kind = "update" /\ Loaded' =>
        \A s \in Scope : default'[s] # default[s] =>
          /\ default[s] # NoPkg
          /\ SameFamily(default[s], default'[s])
          /\ Rank[default[s]] <= Rank[default'[s]] ]_vars

\* A repair that reports success leaves nothing pending: a readable state that
\* records exactly the complete trees, wrappers for exactly its defaults, and
\* an empty staging directory.
RepairEndsHealthy ==
  pc = "healthy" =>
    /\ Usable /\ ~litter /\ staging = "missing"
    /\ \A p \in Package : Settled(p)
    /\ CanWrap(default) /\ WrappersApplied

\* As long as nothing failed, bin/ is a function of the defaults whenever no
\* command runs, although wrappers are written after the commit, one by one.
WrappersFollowDefaults ==
  (faults = 0 /\ damage = 0 /\ holder = NoProc) => WrappersApplied

\* Without damage from outside, every journal is eventually
\* resolved: no interrupted operation leaves the root blocked for good.
PendingResolves == (journal # NoJournal) ~> (journal = NoJournal)

\* docs/design/TRANSACTIONS.md, install: derived wrappers are reconciled before
\* the journal is cleared.
WrappersBeforeClear ==
  [][ pc = "clear" /\ journal # NoJournal /\ journal' = NoJournal => WrappersApplied ]_vars

\* docs/design/TRANSACTIONS.md, remove: an identity still present in valid state
\* means the removal did not commit and the staged package is restored, also
\* for a corrupt package.
RemovalRestorable ==
  (Loaded /\ journal.op = "remove" /\ journal.pkg \in installed)
    ~> (journal = NoJournal \/ ~Loaded)

\* The store a user reasons about (PackageStore): an unreadable state.txt
\* stands for the packages whose trees are complete, and the journal for the
\* one operation that may still be half done.
Recorded == IF Loaded THEN installed ELSE Scanned

Store == INSTANCE PackageStore
           WITH readable <- Loaded, recorded <- Recorded \ spoilt,
                default <- stateFile.default, pending <- journal.pkg

\* Journals, staging, rollback, recovery and repair implement that store:
\* no crash and no failed write, at any step, makes a record appear, vanish or
\* move a default except in the single step of its own operation. Only damage,
\* and a repair that cannot read what is there, cost a record or the defaults.
RefinesStore == Store!Spec
=============================================================================
