# TLA+ verification of cup

`cup` manages one user-level root (`~/.cup` or `~/.coffee-cup`): immutable
package trees, a state file, defaults, derived command wrappers, a live package
catalog and its own installed generation. Everything is on disk and every
command is a short-lived process, so correctness is about the *order of
persistent effects*: what another process, or the same user after a crash,
finds when a command stopped between two of them. This directory models those
effects, checks them with TLC and proves the safety properties with TLAPS.

## Inventory

| Part | State it keeps | Operations | Interacts through | What is hard |
| --- | --- | --- | --- | --- |
| install, update (`package_install.c`, `command_update.c`) | package tree, staging directory | stage, journal, publish, commit, roll back | state.txt, transaction.txt, bin/ | crash between any two effects; unconfirmed effects; plans that go stale between two locks |
| remove (`command_remove.c`) | staged tree | journal, stage, commit, discard, restore | the same | the only copy of a package moves around |
| default (`command_default.c`) | default of a scope | save, rewrap | state.txt, bin/ | wrapper conflicts |
| state (`state.c`, `installed_package.c`) | installed identities, defaults | load, derive, validate, save | read by everybody | must stay loadable, is the evidence recovery trusts |
| wrappers (`wrappers.c`) | bin/ | plan, write, prune | derived from defaults | written one by one after the commit |
| journal, recovery (`runtime_journal.c`, `package_transaction.c`, `runtime_recovery.c`) | transaction.txt | publish, detect, recover, clear | blocks all other commands | crash during recovery, evidence that decides nothing |
| repair (`command_repair.c`) | all of the above | recover, scan, quarantine, rebuild | runs on any root | partial failure, must not invent or forget |
| context and lock (`command_context.c`) | cup.lock | shared, exclusive | every command | nothing held across the network or between two items of an update |
| catalog refresh (`catalog_refresh.c`) | config/catalog.cfg | snapshot, download, compare and swap, retry | repair, reinstall | stale authority, stale answers, livelock |
| catalog format (`package_catalog.c`) | - | classify, validate, resolve | refresh, install, update | entries of a future schema, `stable` |
| generation (`self_update.c`, `update_journal.c`, `update_helper.c`, `generation.c`, `bootstrap.c`) | generation assets, journal, helper | stage, hand off, replace, recover | lock handoff, journal | binary committed last, two processes |
| uninstall (`command_uninstall.c`, `uninstall_journal.c`, `uninstall_helper.c`) | whole root | journal, hand off, delete | lock handoff, journal | half-deleted roots |
| layout (`layout.c`) | root marker, directories | select, create, inspect | every command | two candidate roots |
| planning (`command_install.c`, `install_policy.c`, `tool_preferences.c`, `package_selector.c`, `package_request.c`, `command_config.c`) | preferences.txt | set, reset, plan, re-plan, execute item by item | catalog, policy, state | re-planning after the network window, order of releases |
| artifact (`package_cache.c`, `package_artifact.c`, `download.c`) | cache/, temporary files | inspect, discard, download, verify, publish, release | install | the cache belongs to the user, many error paths |
| admission (`package_extract.c`, `package.c`, `package_metadata.c`, `package_manifest.c`) | staging directory | extract entry by entry, validate, verify the tree | install, repair | any archive and any manifest, names that fold, links |
| platform (`filesystem.c`, `system_posix.c`, `system_windows.c`) | - | atomic publish, move, lock | everything | not applied / applied / unconfirmed |

What makes the parts correct, in the order of importance:

1. no recorded package loses its bytes, and on an idle usable root state and
   trees agree (`BytesKept`, `InstalledMatchesTree`);
2. nothing is forgotten, invented or moved back behind the user's back
   (`OnlyRemovalForgets`, `UpdateOnlyAdvances`, `OnlyAdvances`, `OwnAuthority`);
3. whatever is interrupted can be resolved (`PendingResolves`,
   `RepairEndsHealthy`, `RefreshReturns`);
4. the installed `cup` itself is never a mixture of two releases nor taken back
   to an older one, and every interrupted replacement has a way forward or back
   (`Recoverable`, `NeverMixed`, `HandoffContinuous`, `ClearsSettled`,
   `BinaryAdvances`);
5. whoever works on a root has it for himself and keeps it, an uninstall leaves
   either a root or identifiable residue, and there is one root
   (`ExclusiveAccess`, `RootStays`, `HandoffHolds`, `ResidueIdentified`,
   `OneRoot`, `UninstallEnds`, `LocksReleased`);
6. what is executed is the plan of one instant, from verified bytes, and what is
   admitted is what its manifest says (`ExecutesCurrentPlan`,
   `PreferencesAreLatest`, `ConsumesVerified`, `NothingLeft`,
   `RegisterMatchesReference`, `EveryEntryOnDisk`, `AdmittedUnaliased`);
7. derived files follow what they derive from (`WrappersFollowDefaults`).

## Modules

### PackageLifecycle

One managed root and competing `cup` processes. Correspondence with the code:

| Variable | Code |
| --- | --- |
| `stateFile` | state.txt: load status, installed identities, default per scope (component and target) |
| `journal` | a package transaction.txt: operation and package |
| `tree[p]` | the canonical tree of `p`: missing, valid or invalid under `package_validate` |
| `staging`, `litter` | the staging directory of the running or journalled operation; directories in staging/ that nobody owns |
| `bin[c]` | the package that the wrapper `c` runs |
| `holder`, `kind`, `pkg`, `pc`, `expect`, `owns`, `rewrap` | the process holding cup.lock exclusively and the fields of its operation record |
| `plan[i]` | the update plan process `i` built under a shared lock |
| `faults`, `damage` | bounds of the environment |
| `spoilt` | packages whose bytes were damaged from outside, or given up by a repair that could not read them |

Each action is one persistent effect with the decisions that lead to it. Where
a primitive fails *without* effect, the action has a branch into the caller's
rollback. Where it was applied but not confirmed (`CUP_ERR_COMMIT`), where a
command simply returns, where it is interrupted or killed, the disk is what it
is at that step: that is the action `Stop`. `Finish` is `command_context_end`:
staging that no journal names becomes litter, which is what repair will find.
The state that a command derives is saved without modelling `state_save`'s own
validation; `StateValid` shows that the validation would never refuse it.

Installing, removing and repairing follow `execute_install`, `command_remove`
and `command_repair` step for step: extract, journal, move, commit state, clear
the journal, wrappers; journal, stage, commit state, discard, clear, wrappers;
recover, quarantine, preserve state, save state, wrappers, staging. An update is
planned by `PlanUpdate` under a shared lock, and each item is executed by
`BeginUpdate` after `validate_update_reference`, skipped, or stops the update.

Repair takes a failed read for corruption. `load_state_for_reconciliation` treats
`CUP_ERR_FILESYSTEM` like a state.txt that does not parse, so one failed read of a
valid file makes it move the file aside and start from an empty state
(`Unreadable`, `PreserveState`): the packages come back from the scan, the
defaults do not. `validate_package_command_file` turns any failure to open a
command file into an invalid package, so one failed open sends an intact package
to quarantine (`Quarantine`), and `Reconcile` forgets it. Both are faults of the
model, taken where the failure is first acted upon: between the read and that
step the lock is held and only repair itself changes what it read.
`OnlyRemovalForgets` says that there is no third way to lose a record or a
default: removal, damage from outside, or such a fault in this very repair.

Packages differ in scope, tool, release rank and the public names they provide;
identities, text formats and archives are abstracted to that.

### PackageStore

What the package half of a root promises, without journals, trees and staging:
the recorded packages that are not spoilt, the default of each scope, and the
one package an unfinished operation is about. Spoiling a package and losing the
record as a whole are steps of their own (`Spoil`, `Lose`): damage from outside
and the misreads of repair. Only the pending package's record
changes, in one step; a default moves only when nothing is pending, or with the
update it belongs to. `RefinesStore` of PackageLifecycle maps it: `recorded` is
`installed`, or the complete trees while state.txt cannot be read; `pending` is
the package the journal names. Everything the commands do besides, rollback,
recovery and the steps of repair included, has to be a stutter of this store.

### CatalogRefresh

`config/catalog.cfg` and everyone who replaces it. A refresh snapshots the
catalog under a shared lock, downloads without a lock from the URL *that*
catalog names, and commits under an exclusive lock if the file is still the
snapshot; otherwise it starts over, at most `MaxAttempts` times. A server may
answer with anything it ever served. Repair and reinstall move a catalog that
does not load aside and place a release seed; a valid file that cannot be read
is treated the same way (`Misread`). File identities may be reused. Damage from
outside and concurrent repairs are not bounded.

### GenerationUpdate

The four canonical files of the installed generation and the programs that
replace them: `cup update cup` with its detached helper, the installer on an
existing root, and `cup repair`.

| Variable | Code |
| --- | --- |
| `canon` | the bytes of release.txt, LICENSE, the notices and the binary |
| `journal`, `work` | a generation transaction.txt (target and workspace name), and that workspace: `new/` and `old/` |
| `aside` | what `commit_asset` has just moved to an `.invalid` name |
| `lock` | the references to the one flock description of cup.lock: a parent and its helper may both hold one |
| `pc`, `at`, `cmd`, `ver` | a process: its step, its place in the order of files, its command and the version it was built as |
| `token` | the workspace named on the helper's command line |
| `faults`, `damage`, `unidentified` | bounds of the environment |

A digest stands for the bytes it identifies, so a file is known by its content
and releases may share legal files. A process knows its own version only from
the time it was started: it may wait for the lock while another one replaces the
binary. An update stages a newer release, publishes the journal, starts the
helper and exits; the helper (`HelperStart`, after `ParentExit`) and the
installer run the same `update_generation_commit` (`Commit`, `InstallAsset`,
`FinishCommit`). Recovery is `RollBack`, `RestoreOldAsset`, `FinishRecovery`; it
decides from the bytes alone. Repair runs recovery and then
`repair_generation`, in which each wrong file is moved aside and replaced.

Publication has the outcomes of `runtime_journal_publish`: done, not applied,
applied but unconfirmed, and unconfirmed without the identity of the file.
`Refuse` collects the returns that leave all files as they are; `Stop` is a
failure or death at any step.

### RootLifecycle

The managed root as a directory object: selection between `.cup` and
`.coffee-cup`, the lock inside it, its creation in place by a development build
or by an installer's private sibling and one no-clobber move, and its end.

| Variable | Code |
| --- | --- |
| `place`, `ino` | where a directory object is (a slot, a private sibling, detached under the token `p`) and its device and inode |
| `marked`, `payload` | it holds a valid root.txt; its managed contents are whole, partly deleted or gone |
| `journal` | its transaction.txt, if an uninstall journal: phase and token |
| `lock`, `heir` | the processes, and the helpers of processes, that hold the flock of its cup.lock |
| `helperFile` | the tokens whose helper executable lies beside the root |
| `pc`, `cmd`, `slot`, `snap`, `fd` | a process: step, command, root snapshot (path, identity) and the directory whose cup.lock it opened |
| `hpc`, `hslot`, `hsnap` | the helper of a process |

Every command selects a root, opens cup.lock by path, locks the open file and
validates the snapshot; between any two of these the root may be uninstalled
and installed anew. What the commands then do to the contents is the other
modules' business: here `work` stands for any command that refuses a pending
journal, `repair` for repair and for an installer on an existing root, which
recover. The helper (`UnlinkHelper` to `RemoveRoot`) follows
`uninstall_helper_run`; `CancelHelper` and `CancelJournal` are
`clear_unstarted_journal`. The two slots are inspected in one step: what changes
between them is caught later by the identity or by the no-clobber move.
A directory that was deleted may come back as another one when nobody refers to
it any more; with `ReuseIdentity` its inode number returns at once. Shared locks
are left out: a reader excludes a writer like another writer.

### ArtifactFetch

`package_cache_fetch_artifact` and the use of its result by
`extract_install_package`. Files are identities with contents; a name leads to
a file, a directory or nowhere.

| Variable | Code |
| --- | --- |
| `name` | the cache entry of the digest, and the temporary names of the fetch: the artifact and its transfer file in staging/, the sibling a copy into cache/ is written to |
| `bytes` | the content of a file: what the digest stands for, or one of the ways to be something else |
| `handle` | the VerifiedArtifact: its open file, and whether it is disposable |
| `pc`, `result`, `consumed` | the next step, how the last fetch ended, what extraction read |
| `cause`, `tidy` | history: what went wrong outside the cache; no removal failed and cup was not killed |

`Outside` empties, replaces or damages the cache entry between any two steps,
as the owner of that directory may. It does not write into the file a fetch has
open, and names in staging/ belong to the fetch alone. Discarding a refused entry
is the steps of the code: `CloseRejected`, the last comparison of identities
(`CheckRejected`) and the unlink by name (`UnlinkCache`); `DiscardPath` is the
branch of an entry that was no regular file, which compares nothing. An identity
may be used again as soon as its file is closed and has no name. `Start` draws
new temporary names, so that copies a kill left in cache/ are out of sight:
cup never removes those.

### PackageAdmission

Extraction and validation of one package over *any* archive and manifest: the
digest says who made an archive, not that it is well formed. `ExtractEntry`
registers a path in the folded path table (`CanRegister`, `Registered`), checks
the declared and the real size and writes the object as the host does: hosts
differ in whether names fold, whether links exist and in the mode a directory
gets (main.c:1160 sets umask 0077; both masks are allowed). `LoadMetadata`,
`MatchIdentity`, `ValidateCommands`, `OpenManifest`, `ManifestLine` and
`EndOfManifest` follow `package_validate`. `disk` is what lies below the staging
directory, `table`, `entries` and `declared` the extraction budget, `lines` the
verified part of the manifest. `RealPath` is the host's resolution of a path:
segment by segment, a link replaced by its target, at most as many links as there
are objects. `ManifestObject` is the object `count_tree_entry` takes for the
manifest and leaves out (`path_equal`: without case on Windows); `VerifyFile`
accepts no line for the manifest under another spelling, because no manifest
holds the digest of its own bytes. The reference the path table is compared with is
pairwise: no two entries with the same folded path, and only directories have
anything below them. On its own the table admits `A/x` beside `a/y` with the
directories implied; the fold check over the manifest refuses it
(`AdmittedUnaliased`).

### ReleaseOrder, InstallPlanning

ReleaseOrder is `package_selector.c`: releases as dotted numerals of any length
with an optional revision, numerals as digit sequences, since the code compares
digits and never converts. `ReleaseOrderSound` compares it with the order by
value.

InstallPlanning follows one install command, while config, refresh, damage and
repair of other processes run wherever its lock admits them.

| Variable | Code |
| --- | --- |
| `prefs`, `catalog` | preferences.txt and catalog.cfg |
| `phase`, `lock`, `selection` | the command: its step, the runtime lock it holds, its request |
| `plan`, `specs`, `next` | the InstallPlan, the artifacts pinned under the second snapshot, the next item |
| `refresh`, `result` | what the refresh returned, the step that ended the command |
| `wish`, `seen` | history: what the users configured last; what the last snapshot said |

`LocalNoop`, `LocalCatalog`, `RefreshFails`, `RefreshSucceeds` and
`ValidatePlan` are the two snapshots around the network window; `ExecuteItem`
and `ExecuteFails` the group that is installed one package at a time. Which
packages are installed already is nondeterministic here: that is
PackageLifecycle's state. When refresh and plan both fail the user is told of
the refresh; `result` is the step that ended the command.

### Proof modules

`PackageLifecycleProofs`, `PackageStoreProofs`, `CatalogRefreshProofs`,
`GenerationUpdateProofs`, `RootLifecycleProofs`, `ArtifactFetchProofs`,
`PackageAdmissionProofs` and `InstallPlanningProofs` hold the theorems below; the
modules with the prefix `MC` give the constants of the runs.

## Runs

| Run | Configuration | Result |
| --- | --- | --- |
| `lifecycle` | two releases of one tool and a package of another component, which shares a public name with the newer release; two processes, two faults, one damage | all safety properties hold, and the root implements PackageStore (5.0 million states) |
| `pending_resolves` | the same, two faults, no damage, fairness | every journal is eventually resolved (0.8 million states) |
| `removal_restorable` | one process, one fault, one damage, fairness | violated, see findings |
| `catalog` | three revisions, the second with two contents and with another update URL that still serves an older catalog; two processes, two file identities, three attempts; fairness of the refreshes only | all safety properties hold, every refresh returns |
| `generation` | three releases, neighbours share a legal file; two processes and the helper; two faults, one damage, one unidentified publication | all safety properties hold (1.2 million states) |
| `generation_resolves` | the same, one fault, fairness | every pending replacement is resolved |
| `roots` | two processes and their helpers, three directories of which one may be foreign, development build, two faults | all safety properties hold (3.1 million states) |
| `uninstall_ends` | installed builds, two directories, one fault, fairness | never two roots, every uninstall ends, every lock is released |
| `admission` | archives of up to five entries and their root from nineteen entries, nine manifest paths, two of which fold together, four kinds of host; a budget of four bytes and tables of six paths | the path table decides the pairwise rule, nothing is dropped or exceeds a budget, what is admitted is declared and unaliased |
| `undeclared_link` | six entries, among them one link to a directory | violated, see findings |
| `fetch` | four files: the two of a fetch, its copy and one from outside | all properties hold (17 thousand states) |
| `planning` | two components on two targets, ten catalogs of which six must be refused, seven requests, two preferences | all properties hold (58 thousand states) |

Bounds. Two faults are needed for the case that matters most, a crash during
the recovery of a crash, and a failed read in the repair that follows a crash; one damage makes invalid trees and unreadable state
appear, which no fault alone does. Two processes suffice for stale plans, since
everything else happens under one exclusive lock. Three packages are the least
with an update in one scope and a wrapper conflict across scopes.
`MaxAttempts = 3` is the code's constant. For the generation, two faults give a
crash in the recovery of a crash, and three releases an installer that is older
than what is installed and another that is newer. For the roots, three
directories allow a foreign one, a detached one and its successor, or two
builds in progress beside a root. Five entries are
info.txt, manifest.txt and three more: enough for an alias below implied
directories and for a file replaced by a link; a package whose manifest agrees
with its number of objects in spite of a link takes six. A fetch has at most three
files of its own, and a fourth stands for any replacement. Two preferences are
the least that can be out of order and that fill the table. Type invariants of
all modules are proved; the runs of PackageAdmission and InstallPlanning still
check theirs as a part of `BudgetRespected` and
`PreferencesAreLatest`. Deadlock is checked in every run but `admission` and
`undeclared_link`, where one admission ends, and `roots`:
a first run killed between mkdir and marker beside a foreign `.cup` leaves two
slots that no command accepts, and cup stops there by design.

Fairness. `FairSpec` of PackageLifecycle assumes that a running command keeps
running unless it stops, that an update gets to its remaining items, and that
somebody eventually runs `cup repair`: every command that meets a journal asks
for it and none resolves it itself. Faults are finitely many. In CatalogRefresh
only the running refreshes are fair. In GenerationUpdate every running process
and the helper keep running (WF), and, strongly fair since other commands come
and go, somebody launches a repair and one that waits gets the lock. In
RootLifecycle processes and helpers keep running (WF); cup.lock is only tried, so
that no fairness of a single attempt suffices. What is assumed has the form of
strong fairness: if, again and again, an uninstall is pending at a slot and its
lock is free, then, again and again, somebody runs repair there and gets it.
Nothing is assumed of a lock that stays taken: that it is released is what
`UninstallEnds` and `LocksReleased` show, and a parent and a helper that wait for
each other violate both (the mutant `ParentWaits`).

## Findings

- `removal_restorable`: TRANSACTIONS.md says that an uncommitted removal is
  resolved by restoring the staged package, and that corrupt packages can be
  removed. If the removal of a corrupt package is interrupted after staging,
  `recover_installed_package` refuses for ever and every command stays blocked.
- `undeclared_link`: SECURITY.md says that verification rejects undeclared
  objects. `package_manifest_verify` checks each line through intermediate links
  and then compares only the number of objects with the number of lines: an
  undeclared link to a directory and a line for something below that link make
  the numbers agree. Without such links what is admitted is exactly what is
  declared (`AdmittedWithoutDirectoryLinks`).

Other divergences between code and documents. Each is a definition of its
module; name it in a configuration to see TLC refute it.

- `WrappersBeforeClear` (PackageLifecycle): TRANSACTIONS.md documents that
  wrappers are reconciled before the journal is cleared. `commit_install` and
  `commit_removal` clear the journal first; a crash in between leaves stale
  wrappers and nothing pending. `cup repair` rebuilds them.
- `ValidCatalogKept` (CatalogRefresh): STATE.md says that reinstall preserves a
  valid catalog; a read that fails once makes `install_catalog_seed` replace it
  by the seed of the release, which may be older.
- `EvidenceSurvives` (GenerationUpdate): SECURITY.md says that ambiguous
  transaction evidence is preserved. If `update_journal_begin` reports that its
  publication is unconfirmed and could not read the identity back,
  `self_update_start` takes the journal for unwritten and removes the workspace
  that it names. Recovery then has no evidence and refuses every time;
  `Recoverable` therefore has the premise `unidentified = 0`. The installer
  keeps the workspace in that case.
- `ExclusiveAccess` with `ReuseIdentity = TRUE` (RootLifecycle): COMMANDS.md
  says that state-changing commands exclude each other. The lock is opened by
  path and locked later, and the root is validated by device and inode only:
  across an uninstall and a reinstall that gets the same inode number, one
  command holds the lock of the deleted root. The property is checked and proved
  for identities that do not return.
- `DiscardsRejectedOnly` (ArtifactFetch): SECURITY.md says that identities are
  revalidated at the mutation boundary and that another object under the same
  name is not accepted. `discard_rejected_cache` removes an entry that was no
  regular file by name alone, and the unlink after the last comparison of
  identities knows only the name: a good file put there from outside meanwhile
  is removed. It is a cache entry, so that only a download is lost
  (`ConsumesVerified` and `CacheNeverFatal` hold).

A limit that is no finding: two concurrent first runs of a development build can
create both roots, because the directory of the first looks foreign until its
marker is written. `OneRoot` is checked with `Development = FALSE`; with `TRUE`
TLC refutes it in seven steps.

Another one: repair takes a failed read for corruption (see PackageLifecycle). One
failed read of a valid state.txt loses all defaults (`command_repair.c:584-606`),
one failed open of a command file sends an intact package to quarantine
(`package.c:428-432`). Both keep the bytes, state.txt under an `.invalid` name and
the package in recovery/, and no document says otherwise; the
properties of PackageLifecycle say what holds in spite of it.

## Proofs

All theorems hold for every choice of the constants that satisfies the ASSUMEs:
any packages, scopes, wrapper names, processes, directories and bounds.

PackageLifecycle. `InstalledMatchesTree` and `BytesKept` are not inductive: they
say nothing of a command in the middle of its work. The invariant `Inv` adds,
for each step a command can be at, what the journal, the package's tree and the
staging directory hold (`InstallPhase`, `RemovePhase`, `RepairPhase`), that all
other unspoilt packages are settled (`Others`), that the journalled one has its
bytes if state records it (`Journalled`), which command is at which step
(`Shape`), that defaults are installed in their scope (`StateValid`), and what
an update may rely on (`PlanSound`, `UpdateSound`). There is one lemma per
action, with one step per part of the invariant the action can disturb;
`FinishInv` is shared by all ways a command ends, `RecoverStepInv` by the steps
of recovery, `BeginInv` by all ways it starts. From `Inv` follow `TypeCorrect`,
`StatesValid`, `Agreement`, `NoByteLoss`, `RepairSound`; with `StateWriters`
(only six steps write state.txt) the action properties `Remembering` and
`UpdatesAdvance`. `WrappersInStep` adds `InStep`: as long as nothing has gone wrong,
bin/ follows the defaults except while a command holds the lock and still has its
wrapper loop ahead of it (`WrapPending`).

PackageStore. `Refinement` proves the refinement that `lifecycle` checks for two
processes: `StoreStep` is a step or a stutter of the store, `Invisible` covers
the many steps that keep records, journal and spoilt packages, `Clearing` those that end
an operation, and one lemma per command says which of its steps are visible.
The invariant it needs is `Inv` of PackageLifecycleProofs; what it adds is
`ScannedIsRecorded`: while nothing is pending, the complete trees repair scans
are the packages a lost state.txt recorded.

ArtifactFetch. `Inv` says for each step what the open file is (`HandleInv`: from
acceptance to release it is the file with the digest),
which temporary names are taken (`NamesInv`), whose step it is to free them
(`TidyInv`) and that a step that is about to fail has a cause (`CauseInv`). One
lemma per action; `OnlyVerifiedBytes`, `CacheIsOptional`, `NoResidue`
and `WholeOrAbsent` follow.

CatalogRefresh. `Inv` says what a refresh knows across its unlocked window
(`Knows`): its download came from its snapshot's server, and if it was overtaken
no more often than it started over, the file still is the snapshot. `Aside` says
that nothing loads between moving a catalog aside and placing a seed, so that
only `commit_remote_catalog` replaces a valid catalog (`Replacement`). From it
follow `RetriesCaused`, `Advances` and `Authority`.

GenerationUpdate. The properties say nothing of a process in the middle of its
work, so `Inv` adds who holds the lock (`Locks`: one process, or a parent and
its own waiting helper), which command is at which step (`Kinds`), what journal
and workspace are at each step (`Stages`), how many files a replacement or a
rollback has already done (`Progress`), that without a pending journal and
inside `old/` no two releases are mixed (`Unmix`), and that a staged target is
at least as new as a readable snapshotted manifest (`Newest`). One lemma per
action; `WorksAlone` gives each of them that nobody else is at work, `QuitInv`
serves every way to leave. `Invariance` combines them, and `TypeCorrect`,
`AlwaysRecoverable`, `NoMixture`, `ContinuousHandoff`, `SettledClearing` and
`NoDowngrade` follow. The constants are any releases with pairwise distinct
manifests and binaries, any processes and any bounds.

RootLifecycle. All its theorems assume `NoReuse`: the identity of a deleted
directory does not come back while a snapshot remembers it (see the divergences
for what happens otherwise). `Inv` explains why a validated snapshot means that the
open lock is the one at the path: a slot names one directory (`Paths`), a
directory that left a slot never returns to one, so a snapshot that is still
valid was valid when the lock file was opened (`Snapshots`). `Locks` says who
holds a lock (one process, or a parent and its helper that waits for its exit),
`Creations` that nobody else can have a snapshot of a directory before its marker
is there, `Helpers` and `Journals` what an uninstall owns at each step. The
lemmas `Possession` (a command that has entered) and `Agency` (a helper that has
accepted the handoff) give each action that nobody else acts on that directory;
`LeaveInv` and `DiscardInv` serve every way to end. From `Invariance` follow
`Exclusion`, `RootKept`, `HandoffUnbroken` and `ResidueFound`.
`SingleRoot` also assumes an installed build; its invariant `Beside` says that a
fallback root, or an installer about to publish one, implies a directory at the
primary slot that is not cup's, which no step moves or marks (`ForeignStays`).

PackageAdmission. Extraction first: `ExtractionInv` says that the path table holds
exactly the folded paths of the accepted entries and their ancestors, with their
types (`TableSound`), that every object on disk is in the table (`DiskTabled`), that
only directories may be aliases, and none on a host that folds names
(`DiskUnaliased`), and that parents are directories (`DiskClosed`). `Extraction` proves it for any archive;
`TableMatchesReference` and `NoEntryDropped` follow. `BudgetKept` needs
`SizesDeclared`: the sizes on disk add up to no more than what was declared. For
admission, `LinesNamed` says that every line verified so far names an object other
than the manifest. Without links to directories resolution leaves the path as it is
(`PathObjectNamed`), so that a line's object is the one it names; lines are then an
injection into the objects, and equal numbers make it a bijection
(`LinesCoverDisk`). `AdmissionExact` and `AdmissionUnaliased` follow; the run
`undeclared_link` shows that the first does not hold without its premise.

ReleaseOrder. `Values` are the values of the prefixes of a numeral. A prefix value
that is ahead stays ahead, whatever digits follow (`StaysAhead`): a longer numeral
without leading zeros has the greater value (`LongerIsGreater`), and among numerals
of one length the first different digit decides (`FirstDigitDecides`).
`ReleaseOrderIsByValue` carries this to releases, and `ReleasesOrdered` to the
catalogs.

InstallPlanning. `PreferencesAreLatest` speaks of what a search finds; the invariant
`PreferencesInv` of the list itself: its records are exactly the wishes
(`Agreed`), in the order of the scopes; a damaged file has no records and no wish is
held. The lemmas
`SetPreferenceFacts`, `ResetPreferenceFacts` and `ResetScopeFacts` say what each
change does to the set of records; `SortedFacts` that sorting keeps the set and puts
it in order, since the rank of a record among the keys is one-to-one
(`PositionFacts`). `CommandInv` says that while a snapshot is open the plan is the
one its preferences give, that a command on its way to the network had no use for
the catalog at hand, and that what is executed is pinned (`Executable`).
`StableIsNewest` uses `ReleaseOrderIsByValue`: the stable release of a catalog that
loads is the newest by value. `PreferencesHeld`, `PlanIsCurrent` and the action
property `OfflineInstalls` follow. The selections are non-empty because the compiled
profiles and toolchains are.

Induction over data. The library's induction theorems take an operator as a
parameter, which the provers cannot instantiate. Where a proof needs induction over
data it takes a least element instead: of a set of numbers (`Least`), or of a
well-founded relation on resolutions (`ShortestWalk`), and derives a contradiction
from the predecessor. The existence of a recursive function is proved likewise, for
sums and resolutions (`RecursionExists`) and for values (`ValuesExist`).

Only model-checked: `PendingResolves` (both), `RefreshReturns`, `UninstallEnds`
and `LocksReleased`, because liveness is out of the prover's reach. Every invariant
and every action property that a passing run checks is proved.

## Not modelled

- Power loss: effects are durable once made. The unconfirmed outcomes of the
  primitives are modelled, lost writes are not.
- Damage to package trees and state while a command runs, damage to wrappers
  and to transaction.txt itself.
- Packages of foreign hosts in state.txt, the state size budget, text formats.
- Damage to a generation workspace, and damage that brings the bytes of another
  release: the canonical files can be damaged or deleted, not exchanged.
- Permissions of generation files, the copy of the binary that the helper runs
  from, and the Windows variant of the handoff.
- Roots with a damaged or an old marker, which only refuse, and moves of foreign
  directories while cup runs.
- Lines and syntax of manifests, info.txt, catalogs and preferences; archive
  headers and compression; hand-edited preferences.
- TLS, URL policy and the hash function: a server may send anything, and a
  digest identifies the bytes.
- The primitives of `filesystem.c` and the platform layer (`system_posix.c`,
  `system_windows.c`): their outcomes are the faults of the modules above. The
  Windows half is not modelled.
- Initialisation of a missing runtime (state, assets, directories).
- Commands without persistent effects: `list`, `search`, `info`, `inspect`,
  `doctor`, and argument parsing.

## Plan

Done: PackageLifecycle, CatalogRefresh, GenerationUpdate, RootLifecycle,
ArtifactFetch, PackageAdmission, ReleaseOrder and InstallPlanning, with proofs of
all their safety properties; PackageStore with the refinement checked and proved.

Next:

1. Proofs of the deterministic part of the liveness arguments: that a repair that
   runs alone resolves each kind of pending journal in a bounded number of steps.
2. An abstract specification of admission (a package is admitted exactly if it is
   what its manifest says) that PackageAdmission implements.
3. An abstract specification of a generation, replaced as a whole or not at all,
   that GenerationUpdate implements.
