--------------------------- MODULE GenerationUpdate ---------------------------
(***************************************************************************)
(* The installed cup generation (release.txt, LICENSE, notices, binary)    *)
(* and what replaces it: "cup update cup" with its detached helper, the    *)
(* installer on an existing root, the recovery of an interrupted           *)
(* replacement and the generation step of "cup repair". A file is known by *)
(* its bytes; two releases may ship the same legal files.                  *)
(***************************************************************************)
EXTENDS Naturals

CONSTANTS
  Version,            \* published releases
  Blob, Bytes,        \* file contents, and what each release ships
  Bad, Missing,       \* a damaged canonical file, no file
  Proc, Helper,       \* cup processes, and the detached update helper
  NoJournal, NoWork,
  MaxFaults,          \* failed file operations and deaths of processes
  MaxDamage,          \* canonical files damaged or deleted from outside
  MaxUnidentified     \* journals published whose identity cannot be read back

Asset == {"release", "license", "notices", "binary"}

\* release.txt and the binary both carry the version.
ASSUME BytesAssumption ==
  /\ Version \subseteq Nat \ {0}
  /\ Bytes \in [Version -> [Asset -> Blob]]
  /\ Bad \notin Blob /\ Missing \notin Blob /\ Bad # Missing
  /\ \A v, w \in Version : v # w =>
       Bytes[v]["release"] # Bytes[w]["release"] /\ Bytes[v]["binary"] # Bytes[w]["binary"]

ASSUME BoundAssumption ==
  MaxFaults \in Nat /\ MaxDamage \in Nat /\ MaxUnidentified \in Nat

File       == Blob \cup {Bad, Missing}
Generation == [Asset -> File]
Workspace  == [new : Generation, old : Generation]
Journal    == [target : Version, name : Proc]
Actor      == Proc \cup {Helper}

ASSUME NoneAssumption ==
  Helper \notin Proc /\ NoJournal \notin Journal /\ NoWork \notin Workspace

\* update_generation_commit's order, recovery's and repair's.
BinaryFirst  == [i \in 1..4 |-> CASE i = 1 -> "binary" [] i = 2 -> "license"
                                  [] i = 3 -> "notices" [] OTHER -> "release"]
InstallOrder == [i \in 1..4 |-> CASE i = 1 -> "license" [] i = 2 -> "notices"
                                  [] i = 3 -> "release" [] OTHER -> "binary"]
UndoOrder    == [i \in 1..3 |-> CASE i = 1 -> "release" [] i = 2 -> "license" [] OTHER -> "notices"]
FixOrder     == [i \in 1..3 |-> CASE i = 1 -> "license" [] i = 2 -> "notices" [] OTHER -> "release"]

Command == {"none", "update", "install", "repair", "manifest"}
Step    == {"idle", "ready", "fetch", "prepared", "published", "cancel", "handed", "wait",
            "commit", "install", "verify", "recover", "undo", "undone", "admit",
            "inspect", "fix", "place"}

VARIABLES
  canon,     \* the four canonical files
  journal,   \* transaction.txt, when it holds a generation journal
  work,      \* the workspace: new/ and old/
  aside,     \* the bytes repair has moved to an .invalid name for the moment
  lock,      \* who holds a reference to the exclusive cup.lock authority
  pc, at,    \* the next step of each actor, and its place in the file order
  cmd, ver,  \* the command of a process, and the version it was built as
  token,     \* the workspace the helper was started for
  faults, damage, unidentified

vars == <<canon, journal, work, aside, lock, pc, at, cmd, ver, token,
          faults, damage, unidentified>>
counters == <<damage, unidentified>>

TypeOK ==
  /\ canon \in Generation
  /\ journal \in Journal \cup {NoJournal}
  /\ work \in Workspace \cup {NoWork}
  /\ aside \in File
  /\ lock \subseteq Actor
  /\ pc \in [Actor -> Step] /\ at \in [Actor -> 1..5]
  /\ cmd \in [Actor -> Command] /\ ver \in [Actor -> Version \cup {0}]
  /\ token \in Actor
  /\ faults \in Nat /\ damage \in Nat /\ unidentified \in Nat

Init ==
  /\ \E v \in Version : canon = Bytes[v]
  /\ journal = NoJournal /\ work = NoWork /\ aside = Missing
  /\ lock = {}
  /\ pc = [x \in Actor |-> "idle"] /\ at = [x \in Actor |-> 1]
  /\ cmd = [x \in Actor |-> "none"] /\ ver = [x \in Actor |-> 0]
  /\ token = Helper
  /\ faults = 0 /\ damage = 0 /\ unidentified = 0

(***************************************************************************)
(* Steps and what they share.                                              *)
(***************************************************************************)
Goto(x, s) == pc' = [pc EXCEPT ![x] = s]

\* What a process held in memory is gone; so is its reference to the lock.
Forget(x) ==
  /\ cmd' = [cmd EXCEPT ![x] = "none"] /\ ver' = [ver EXCEPT ![x] = 0]
  /\ at' = [at EXCEPT ![x] = 1]
UnlockAll(x) == lock' = {}
DropRef(x)   == lock' = lock \ {x}

\* The command returns or its process dies.
Leave(x) ==
  /\ Goto(x, "idle") /\ DropRef(x) /\ Forget(x)

Fault == faults < MaxFaults /\ faults' = faults + 1

\* require_trusted_current_generation, validate_release_for_current_binary:
\* the manifest of this very version names these binary bytes.
Trusted(v) == canon["release"] = Bytes[v]["release"] /\ canon["binary"] = Bytes[v]["binary"]

\* validate_new_generation plus the digest of the target manifest.
Evidence == work # NoWork /\ work.new = Bytes[journal.target]

\* target_matches_installed and canonical_matches_snapshot.
Snapshotted   == work # NoWork
TargetMatches == work # NoWork /\ canon = work.new
OldMatches    == work # NoWork /\ canon = work.old

\* finish_transaction: the journal goes first, then the workspace it names.
ClearTransaction == journal' = NoJournal /\ work' = NoWork

(***************************************************************************)
(* Starting cup, or an installer that carries its own release.             *)
(***************************************************************************)
Launch(p) ==
  /\ pc[p] = "idle"
  /\ \E c \in {"update", "repair", "install"}, v \in Version :
       /\ c # "install" => canon["binary"] = Bytes[v]["binary"]
       /\ cmd' = [cmd EXCEPT ![p] = c] /\ ver' = [ver EXCEPT ![p] = v]
  /\ Goto(p, "ready")
  /\ UNCHANGED <<canon, journal, work, aside, lock, at, token, faults, counters>>

\* command_context_begin refuses a pending journal; the current generation must
\* be trusted before anything is staged.
BeginUpdate(p) ==
  /\ pc[p] = "ready" /\ cmd[p] = "update" /\ lock = {}
  /\ journal = NoJournal /\ Trusted(ver[p])
  /\ lock' = {p} /\ Goto(p, "fetch")
  /\ UNCHANGED <<canon, journal, work, aside, at, cmd, ver, token, faults, counters>>

\* The installer and repair take the lock with a journal pending.
BeginRecovery(p) ==
  /\ pc[p] = "ready" /\ cmd[p] \in {"install", "repair"} /\ lock = {}
  /\ lock' = {p} /\ Goto(p, "recover")
  /\ UNCHANGED <<canon, journal, work, aside, at, cmd, ver, token, faults, counters>>

(***************************************************************************)
(* Staging a target. discover_target and fetch_versioned_target stage a    *)
(* newer release, the installer its own one; update_generation_prepare     *)
(* checks new/ and copies what is installed to old/.                       *)
(***************************************************************************)
Admissible(p, v) == IF cmd[p] = "update" THEN v > ver[p] ELSE v = ver[p]

Prepare(p) ==
  /\ pc[p] = "fetch"
  /\ \E v \in Version : Admissible(p, v) /\ work' = [new |-> Bytes[v], old |-> canon]
  /\ Goto(p, "prepared")
  /\ UNCHANGED <<canon, journal, aside, lock, at, cmd, ver, token, faults, counters>>

\* The published release is not newer: the workspace is removed again.
NoUpdate(p) ==
  /\ pc[p] = "fetch" /\ cmd[p] = "update" /\ \E v \in Version : ~Admissible(p, v)
  /\ Leave(p)
  /\ UNCHANGED <<canon, journal, work, aside, token, faults, counters>>

Written(p)      == \E v \in Version : work.new = Bytes[v] /\ journal' = [target |-> v, name |-> p]

\* update_journal_begin.
PublishJournal(p) ==
  /\ pc[p] = "prepared" /\ Written(p)
  /\ Goto(p, IF cmd[p] = "update" THEN "published" ELSE "commit")
  /\ UNCHANGED <<canon, work, aside, lock, at, cmd, ver, token, faults, counters>>

\* Nothing was written: both callers remove the workspace.
PublishFails(p) ==
  /\ pc[p] = "prepared" /\ Fault
  /\ work' = NoWork /\ Leave(p)
  /\ UNCHANGED <<canon, journal, aside, token, counters>>

\* CUP_ERR_COMMIT with the identity of what was written: self_update_start
\* cancels, the installer leaves journal and workspace to recovery.
PublishUnconfirmed(p) ==
  /\ pc[p] = "prepared" /\ Fault /\ Written(p)
  /\ IF cmd[p] = "update" THEN Goto(p, "cancel") /\ UNCHANGED <<lock, cmd, ver, at>> ELSE Leave(p)
  /\ UNCHANGED <<canon, work, aside, token, counters>>

\* CUP_ERR_COMMIT without it: self_update_start takes the journal for unwritten
\* and removes the workspace; the installer keeps both.
PublishUnidentified(p) ==
  /\ pc[p] = "prepared" /\ Fault /\ Written(p)
  /\ unidentified < MaxUnidentified /\ unidentified' = unidentified + 1
  /\ work' = IF cmd[p] = "update" THEN NoWork ELSE work
  /\ Leave(p)
  /\ UNCHANGED <<canon, aside, token, damage>>

(***************************************************************************)
(* Handing over to the helper. The child inherits a reference to the lock  *)
(* authority and waits for its parent to exit.                             *)
(***************************************************************************)
Handoff(p) ==
  /\ pc[p] = "published"
  /\ pc' = [pc EXCEPT ![p] = "handed", ![Helper] = "wait"]
  /\ lock' = lock \cup {Helper} /\ token' = p
  /\ UNCHANGED <<canon, journal, work, aside, at, cmd, ver, faults, counters>>

\* An interrupt at the safe point, or no helper: the parent cancels.
HandoffFails(p) ==
  /\ pc[p] = "published" /\ Fault /\ Goto(p, "cancel")
  /\ UNCHANGED <<canon, journal, work, aside, lock, at, cmd, ver, token, counters>>

WorkspaceOnly     == work' = NoWork /\ UNCHANGED journal
CancelTransaction == ClearTransaction
CancelUpdate(p) ==
  /\ pc[p] = "cancel" /\ CancelTransaction /\ Leave(p)
  /\ UNCHANGED <<canon, aside, token, faults, counters>>

\* The parent exits without LOCK_UN, which would free the helper's lock too.
ParentExit(p) ==
  /\ pc[p] = "handed" /\ Leave(p)
  /\ UNCHANGED <<canon, journal, work, aside, token, faults, counters>>

\* update_helper_run: no step before the parent is gone, and only for the
\* journal whose workspace the token names.
HelperStart ==
  /\ pc[Helper] = "wait" /\ \A p \in Proc : pc[p] # "handed"
  /\ journal # NoJournal /\ journal.name = token
  /\ Goto(Helper, "commit")
  /\ UNCHANGED <<canon, journal, work, aside, lock, at, cmd, ver, token, faults, counters>>

(***************************************************************************)
(* update_generation_commit, run by the helper or by the installer.        *)
(***************************************************************************)
Commit(x) ==
  /\ pc[x] = "commit" /\ Evidence
  /\ ~TargetMatches /\ OldMatches
  /\ Goto(x, "install") /\ at' = [at EXCEPT ![x] = 1]
  /\ UNCHANGED <<canon, journal, work, aside, lock, cmd, ver, token, faults, counters>>

InstallAsset(x) ==
  /\ pc[x] = "install"
  /\ canon' = [canon EXCEPT ![InstallOrder[at[x]]] = work.new[InstallOrder[at[x]]]]
  /\ at' = [at EXCEPT ![x] = @ + 1]
  /\ Goto(x, IF at[x] = 4 THEN "verify" ELSE "install")
  /\ UNCHANGED <<journal, work, aside, lock, cmd, ver, token, faults, counters>>

FinishCommit(x) ==
  /\ pc[x] \in {"commit", "verify"} /\ Evidence /\ TargetMatches
  /\ ClearTransaction /\ Leave(x)
  /\ UNCHANGED <<canon, aside, token, faults, counters>>

(***************************************************************************)
(* update_journal_recover, run by the installer and by repair.             *)
(***************************************************************************)
Recovered(p) == Goto(p, IF cmd[p] = "install" THEN "admit" ELSE "inspect")

NothingPending(p) ==
  /\ pc[p] = "recover" /\ journal = NoJournal /\ Recovered(p)
  /\ UNCHANGED <<canon, journal, work, aside, lock, at, cmd, ver, token, faults, counters>>

FinishRecovery(p) ==
  /\ \/ pc[p] = "recover" /\ journal # NoJournal /\ Evidence /\ TargetMatches
     \/ pc[p] = "undone" /\ OldMatches
  /\ ClearTransaction /\ Recovered(p)
  /\ UNCHANGED <<canon, aside, lock, at, cmd, ver, token, faults, counters>>

\* canonical_binary_matches_old: only then was the binary not yet replaced.
BinaryMatchesOld == work # NoWork /\ canon["binary"] = work.old["binary"]

RollBack(p) ==
  /\ pc[p] = "recover" /\ journal # NoJournal /\ Evidence
  /\ ~TargetMatches /\ BinaryMatchesOld
  /\ Goto(p, "undo") /\ at' = [at EXCEPT ![p] = 1]
  /\ UNCHANGED <<canon, journal, work, aside, lock, cmd, ver, token, faults, counters>>

RestoreOldAsset(p) ==
  /\ pc[p] = "undo"
  /\ canon' = [canon EXCEPT ![UndoOrder[at[p]]] = work.old[UndoOrder[at[p]]]]
  /\ at' = [at EXCEPT ![p] = @ + 1]
  /\ Goto(p, IF at[p] = 3 THEN "undone" ELSE "undo")
  /\ UNCHANGED <<journal, work, aside, lock, cmd, ver, token, faults, counters>>

\* reject_healthy_downgrade: a readable manifest of a newer release refuses.
NeverDowngrades(v) == FALSE
Downgrades(v)      == \E w \in Version : w > v /\ canon["release"] = Bytes[w]["release"]

Admit(p) ==
  /\ pc[p] = "admit" /\ ~Downgrades(ver[p]) /\ Goto(p, "fetch")
  /\ UNCHANGED <<canon, journal, work, aside, lock, at, cmd, ver, token, faults, counters>>

(***************************************************************************)
(* repair_generation. Staging has been cleared by now. The installed       *)
(* manifest is kept when it is trusted; else the one of the running        *)
(* version is downloaded, and trusted if it names the installed binary.    *)
(***************************************************************************)
NamesAnyBinary(v) == TRUE
NamesBinary(v)    == canon["binary"] = Bytes[v]["binary"]

Inspect(p) ==
  /\ pc[p] = "inspect" /\ NamesBinary(ver[p])
  /\ work' = NoWork /\ aside' = Missing
  /\ cmd' = [cmd EXCEPT ![p] = IF Trusted(ver[p]) THEN "repair" ELSE "manifest"]
  /\ Goto(p, "fix") /\ at' = [at EXCEPT ![p] = 1]
  /\ UNCHANGED <<canon, journal, lock, ver, token, faults, counters>>

Ships(p, a) == Bytes[ver[p]][a]

\* ensure_legal_asset leaves a file with the right bytes; the manifest is
\* committed only when it had to be downloaded.
Keeps(p, a) == IF a = "release" THEN cmd[p] = "repair" ELSE canon[a] = Ships(p, a)

NextFix(p) ==
  IF at[p] = 3
  THEN Leave(p)
  ELSE /\ Goto(p, "fix") /\ at' = [at EXCEPT ![p] = @ + 1] /\ UNCHANGED <<lock, cmd, ver>>

KeepAsset(p) ==
  /\ pc[p] = "fix" /\ Keeps(p, FixOrder[at[p]]) /\ NextFix(p)
  /\ UNCHANGED <<canon, journal, work, aside, token, faults, counters>>

\* commit_asset: what is there is moved aside, then the staged file placed.
MoveAside(p) ==
  /\ pc[p] = "fix" /\ ~Keeps(p, FixOrder[at[p]])
  /\ aside' = canon[FixOrder[at[p]]] /\ canon' = [canon EXCEPT ![FixOrder[at[p]]] = Missing]
  /\ Goto(p, "place")
  /\ UNCHANGED <<journal, work, lock, at, cmd, ver, token, faults, counters>>

PlaceAsset(p) ==
  /\ pc[p] = "place"
  /\ canon' = [canon EXCEPT ![FixOrder[at[p]]] = Ships(p, FixOrder[at[p]])]
  /\ aside' = Missing /\ NextFix(p)
  /\ UNCHANGED <<journal, work, token, faults, counters>>

\* The replacement was not applied: the file moved aside is moved back.
RestoreAside(p) ==
  /\ pc[p] = "place" /\ Fault
  /\ canon' = [canon EXCEPT ![FixOrder[at[p]]] = aside] /\ aside' = Missing
  /\ Leave(p)
  /\ UNCHANGED <<journal, work, token, counters>>

(***************************************************************************)
(* Early returns that leave every file as it is, faults and damage.        *)
(***************************************************************************)
Refused(x) ==
  \/ /\ pc[x] = "ready"
     /\ \/ lock # {}
        \/ cmd[x] = "update" /\ (journal # NoJournal \/ ~Trusted(ver[x]))
  \/ pc[x] = "wait" /\ (\A p \in Proc : pc[p] # "handed")
       /\ (journal = NoJournal \/ journal.name # token)
  \/ pc[x] = "commit" /\ (~Evidence \/ (~TargetMatches /\ ~OldMatches))
  \/ pc[x] = "verify" /\ ~(Evidence /\ TargetMatches)
  \/ pc[x] = "recover" /\ journal # NoJournal
       /\ (~Evidence \/ (~TargetMatches /\ ~BinaryMatchesOld))
  \/ pc[x] = "undone" /\ ~OldMatches
  \/ pc[x] = "admit" /\ Downgrades(ver[x])
  \/ pc[x] = "inspect" /\ ~NamesBinary(ver[x])

Refuse(x) ==
  /\ Refused(x) /\ Leave(x)
  /\ UNCHANGED <<canon, journal, work, aside, token, faults, counters>>

\* A step fails before or after it took effect, or the process is killed.
Stop(x) ==
  /\ pc[x] # "idle" /\ Fault /\ Leave(x)
  /\ UNCHANGED <<canon, journal, work, aside, token, counters>>

Damage ==
  /\ damage < MaxDamage /\ damage' = damage + 1
  /\ \E a \in Asset, f \in {Bad, Missing} : canon' = [canon EXCEPT ![a] = f]
  /\ UNCHANGED <<journal, work, aside, lock, pc, at, cmd, ver, token, faults, unidentified>>

Actions(x) == Commit(x) \/ InstallAsset(x) \/ FinishCommit(x) \/ Refuse(x)

Update(p) ==
  \/ BeginUpdate(p) \/ Prepare(p) \/ NoUpdate(p)
  \/ PublishJournal(p) \/ PublishFails(p) \/ PublishUnconfirmed(p) \/ PublishUnidentified(p)
  \/ Handoff(p) \/ HandoffFails(p) \/ CancelUpdate(p) \/ ParentExit(p)

Recovery(p) ==
  \/ BeginRecovery(p) \/ NothingPending(p) \/ FinishRecovery(p) \/ RollBack(p)
  \/ RestoreOldAsset(p) \/ Admit(p)

Repair(p) == Inspect(p) \/ KeepAsset(p) \/ MoveAside(p) \/ PlaceAsset(p) \/ RestoreAside(p)

Work(x) ==
  \/ Actions(x)
  \/ x \in Proc /\ (Update(x) \/ Recovery(x) \/ Repair(x))
  \/ x = Helper /\ HelperStart

Next ==
  \/ \E x \in Actor : Work(x) \/ Stop(x)
  \/ \E p \in Proc : Launch(p)
  \/ Damage

Spec == Init /\ [][Next]_vars

LaunchRepair(p) == Launch(p) /\ cmd'[p] = "repair"

\* A running command keeps running, and somebody eventually runs the repair
\* that a pending update asks for and gets the lock.
FairSpec ==
  /\ Spec
  /\ \A x \in Actor : WF_vars(Work(x))
  /\ SF_vars(\E p \in Proc : LaunchRepair(p))
  /\ SF_vars(\E p \in Proc : BeginRecovery(p))

(***************************************************************************)
(* Properties.                                                             *)
(***************************************************************************)

\* Binary-last replacement is recoverable at every point: whatever commit,
\* failed rollback or death came before, a pending journal has its evidence
\* (new/ is the journalled target), and unless files were damaged from outside
\* the canonical files are the whole target or still have the old binary.
Recoverable ==
  journal # NoJournal /\ unidentified = 0 =>
    Evidence /\ (damage = 0 => TargetMatches \/ BinaryMatchesOld)

\* With no journal pending the canonical files never mix two releases, also
\* when cup processes of different versions, an installer and outside damage
\* took turns: each file is the one release's, damaged or missing.
NeverMixed ==
  journal = NoJournal =>
    \E v \in Version : \A a \in Asset : canon[a] \in {Bytes[v][a], Bad, Missing}

\* From publication of the journal until the helper is done no other command
\* gets in, and the helper works on the journal its own parent published.
HandoffContinuous ==
  pc[Helper] # "idle" =>
    /\ journal # NoJournal /\ journal.name = token /\ Evidence
    /\ \A p \in Proc : pc[p] \in {"idle", "ready"} \/ (p = token /\ pc[p] = "handed")

\* A journal is cleared only when the canonical files are exactly the target or
\* exactly what was there before, except by the parent that has not handed over.
ClearsSettled ==
  [][journal # NoJournal /\ journal' = NoJournal =>
       \/ work # NoWork /\ canon \in {work.new, work.old}
       \/ \E p \in Proc : pc[p] = "cancel"]_vars

\* cup replaces its binary only by one at least as new as the readable manifest
\* that was installed when the replacement was prepared.
BinaryAdvances ==
  [][canon'["binary"] # canon["binary"] /\ damage' = damage =>
       \A w \in Version : work.old["release"] = Bytes[w]["release"] =>
         \E v \in Version : v >= w /\ canon'["binary"] = Bytes[v]["binary"]]_vars

\* An interrupted replacement does not block cup for good (no outside damage).
PendingResolves == journal # NoJournal ~> journal = NoJournal

\* SECURITY.md: "Ambiguous transaction evidence is preserved": a journal that
\* may be on disk keeps the workspace it names.
EvidenceSurvives == journal # NoJournal => work # NoWork
=============================================================================
