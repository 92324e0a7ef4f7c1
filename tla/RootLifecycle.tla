---------------------------- MODULE RootLifecycle ----------------------------
(***************************************************************************)
(* The managed root as a directory: which of the two candidates a command  *)
(* selects, how it gets the lock inside that root, how an installer        *)
(* publishes a fresh root, and how "cup uninstall" hands the root to a     *)
(* helper that detaches and deletes it. A directory object keeps its name  *)
(* as long as it exists or something refers to it; its native identity may *)
(* be used again as soon as it is deleted.                                 *)
(***************************************************************************)
EXTENDS Naturals, FiniteSets

CONSTANTS
  Proc,            \* cup processes; the token of an uninstall names its process
  Dir, NoDir,      \* directory objects, existing or not; their identities
  NoJournal,
  Development,     \* a build that creates a missing root in place
  ReuseIdentity,   \* device and inode of a deleted directory may come back
  MaxFaults        \* failed file operations and deaths of processes

ASSUME DirAssumption   == NoDir \notin Dir
ASSUME BoundAssumption == MaxFaults \in Nat
ASSUME BuildAssumption == Development \in BOOLEAN /\ ReuseIdentity \in BOOLEAN

Slot    == {"primary", "fallback"}
Place   == Slot \cup Proc \cup {"none", "private"}  \* p: detached by p's helper
Journal == [phase : {"scheduled", "detaching", "failed"}, token : Proc]
Command == {"none", "work", "repair", "install", "uninstall"}
Step    == {"idle", "selected", "mark", "opened", "locked", "recover", "tidied", "working",
            "journal", "helper", "start", "handed", "cancel", "cancelled",
            "built", "checked"}
HelperStep == {"idle", "started", "wait", "validated", "move", "moved", "purge"}

ASSUME NoneAssumption ==
  NoJournal \notin Journal /\ Proc \cap (Slot \cup {"none", "private"}) = {}

VARIABLES
  place,       \* where a directory object is
  ino,         \* its identity
  marked,      \* it holds a valid root.txt
  payload,     \* its managed contents: whole, partly deleted, none
  journal,     \* its transaction.txt, when that is an uninstall journal
  lock, heir,  \* processes, and helpers of processes, with a reference to its cup.lock
  helperFile,  \* tokens whose helper executable exists beside the root
  pc, cmd,     \* the next step and the command of each process
  slot, snap,  \* its root snapshot: the selected candidate and its identity, NoDir if missing
  fd,          \* the directory whose cup.lock it opened, or that it built
  hpc, hslot, hsnap,  \* the helper of each process
  faults

vars == <<place, ino, marked, payload, journal, lock, heir, helperFile,
          pc, cmd, slot, snap, fd, hpc, hslot, hsnap, faults>>
disk   == <<place, ino, marked, payload>>
helper == <<hpc, hslot, hsnap>>
own    == <<cmd, slot, snap, fd>>

TypeOK ==
  /\ place \in [Dir -> Place] /\ ino \in [Dir -> Dir \cup {NoDir}]
  /\ marked \in [Dir -> BOOLEAN] /\ payload \in [Dir -> {"whole", "part", "none"}]
  /\ journal \in [Dir -> Journal \cup {NoJournal}]
  /\ lock \in [Dir -> SUBSET Proc] /\ heir \in [Dir -> SUBSET Proc]
  /\ helperFile \subseteq Proc
  /\ pc \in [Proc -> Step] /\ cmd \in [Proc -> Command]
  /\ slot \in [Proc -> Slot] /\ snap \in [Proc -> Dir \cup {NoDir}] /\ fd \in [Proc -> Dir \cup {NoDir}]
  /\ hpc \in [Proc -> HelperStep] /\ hslot \in [Proc -> Slot] /\ hsnap \in [Proc -> Dir \cup {NoDir}]
  /\ faults \in Nat

\* Nothing is installed; a directory that is not cup's may be in the way.
Init ==
  /\ \E foreign \in {{}} \cup {{d} : d \in Dir} :
       /\ place = [d \in Dir |-> IF d \in foreign THEN "primary" ELSE "none"]
       /\ ino = [d \in Dir |-> IF d \in foreign THEN d ELSE NoDir]
  /\ marked = [d \in Dir |-> FALSE] /\ payload = [d \in Dir |-> "whole"]
  /\ journal = [d \in Dir |-> NoJournal]
  /\ lock = [d \in Dir |-> {}] /\ heir = [d \in Dir |-> {}] /\ helperFile = {}
  /\ pc = [p \in Proc |-> "idle"] /\ cmd = [p \in Proc |-> "none"]
  /\ slot = [p \in Proc |-> "primary"] /\ snap = [p \in Proc |-> NoDir] /\ fd = [p \in Proc |-> NoDir]
  /\ hpc = [p \in Proc |-> "idle"] /\ hslot = [p \in Proc |-> "primary"]
  /\ hsnap = [p \in Proc |-> NoDir]
  /\ faults = 0

Goto(p, s)  == pc' = [pc EXCEPT ![p] = s]
HGoto(p, s) == hpc' = [hpc EXCEPT ![p] = s]

Forget(p) ==
  /\ cmd' = [cmd EXCEPT ![p] = "none"] /\ slot' = [slot EXCEPT ![p] = "primary"]
  /\ snap' = [snap EXCEPT ![p] = NoDir] /\ fd' = [fd EXCEPT ![p] = NoDir]

\* The command returns or its process dies: only its own reference is dropped.
KeepRef(p) == UNCHANGED <<lock, heir>>
DropAll(p) == lock' = [d \in Dir |-> lock[d] \ {p}] /\ heir' = [d \in Dir |-> heir[d] \ {p}]
DropRef(p) == lock' = [d \in Dir |-> lock[d] \ {p}] /\ UNCHANGED heir
Leave(p)   == Goto(p, "idle") /\ Forget(p) /\ DropRef(p)

HelperDrop(p) ==
  /\ HGoto(p, "idle") /\ hslot' = [hslot EXCEPT ![p] = "primary"]
  /\ hsnap' = [hsnap EXCEPT ![p] = NoDir]
  /\ heir' = [d \in Dir |-> heir[d] \ {p}]

Fault == faults < MaxFaults /\ faults' = faults + 1

(***************************************************************************)
(* Selecting a root: classify_root_candidate, select_root_for_base.        *)
(***************************************************************************)
Occupied(s) == \E d \in Dir : place[d] = s
Owned(s)    == \E d \in Dir : place[d] = s /\ marked[d]
Other(s)    == IF s = "primary" THEN "fallback" ELSE "primary"

\* A recognized root wins, two refuse; the fallback needs an occupied primary.
AnyMissing(s) == ~Occupied(s)
FirstMissing(s) == ~Occupied(s) /\ (s = "fallback" => Occupied("primary"))
Chosen(s) ==
  /\ ~Owned(Other(s))
  /\ Owned(s) \/ FirstMissing(s)

Identity(s, i) == IF Owned(s) THEN \E d \in Dir : place[d] = s /\ ino[d] = i ELSE i = NoDir

\* A fresh directory: nobody has the old one open. Its identity is unlike that
\* of any directory that exists, and unlike any recorded one if none returns.
Open(d) == \E p \in Proc : fd[p] = d \/ p \in lock[d] \cup heir[d]
Fresh(d, i) ==
  /\ place[d] = "none" /\ ~Open(d)
  /\ IF ReuseIdentity THEN \A e \in Dir : ino[e] # i
                      ELSE i = d /\ \A p \in Proc : d \notin {snap[p], hsnap[p]}

Create(d, i, s, m) ==
  /\ place' = [place EXCEPT ![d] = s] /\ ino' = [ino EXCEPT ![d] = i]
  /\ marked' = [marked EXCEPT ![d] = m] /\ UNCHANGED payload
Delete(d) ==
  /\ place' = [place EXCEPT ![d] = "none"] /\ ino' = [ino EXCEPT ![d] = NoDir]
  /\ marked' = [marked EXCEPT ![d] = FALSE] /\ payload' = [payload EXCEPT ![d] = "whole"]

\* layout_root_snapshot_begin: an installed executable uses the root around
\* it, any other the one chosen below the home directory. An installer that
\* finds a root recovers and works on it under its lock, which is "repair".
Select(p) ==
  /\ pc[p] = "idle"
  /\ \E c \in Command \ {"none"}, s \in Slot, i \in Dir \cup {NoDir} :
       /\ Chosen(s) \/ (c # "install" /\ Owned(s))
       /\ c = "install" => i = NoDir
       /\ Identity(s, i)
       /\ cmd' = [cmd EXCEPT ![p] = c] /\ slot' = [slot EXCEPT ![p] = s]
       /\ snap' = [snap EXCEPT ![p] = i]
  /\ Goto(p, "selected")
  /\ UNCHANGED <<disk, journal, lock, heir, helperFile, fd, helper, faults>>

(***************************************************************************)
(* layout_ensure_root on a missing root: an exclusive mkdir, then root.txt.*)
(***************************************************************************)
\* Only a development build finds assets outside a root (validate_assets).
Initializes(p) == Development /\ cmd[p] = "work" /\ snap[p] = NoDir

MakeRoot(p) ==
  /\ pc[p] = "selected" /\ Initializes(p) /\ ~Occupied(slot[p])
  /\ \E d \in Dir, i \in Dir :
       /\ Fresh(d, i) /\ Create(d, i, slot[p], FALSE)
       /\ snap' = [snap EXCEPT ![p] = i] /\ fd' = [fd EXCEPT ![p] = d]
  /\ Goto(p, "mark")
  /\ UNCHANGED <<journal, lock, heir, helperFile, cmd, slot, helper, faults>>

MarkRoot(p) ==
  /\ pc[p] = "mark" /\ marked' = [marked EXCEPT ![fd[p]] = TRUE]
  /\ Goto(p, "selected")
  /\ UNCHANGED <<place, ino, payload, journal, lock, heir, helperFile, own, helper, faults>>

\* The marker cannot be published: the root is removed again if nobody has put
\* a cup.lock into it.
MarkFails(p) ==
  /\ pc[p] = "mark" /\ Fault /\ \A q \in Proc \ {p} : fd[q] # fd[p]
  /\ Delete(fd[p]) /\ Leave(p)
  /\ UNCHANGED <<journal, helperFile, helper>>

(***************************************************************************)
(* The lock lives inside the root: system_lock_acquire opens the file that *)
(* the path names now and then locks it without waiting;                   *)
(* layout_root_snapshot_validate compares the path with the snapshot.      *)
(***************************************************************************)
OpenLock(p) ==
  /\ pc[p] = "selected" /\ cmd[p] # "install"
  /\ \E d \in Dir : place[d] = slot[p] /\ fd' = [fd EXCEPT ![p] = d]
  /\ Goto(p, "opened")
  /\ UNCHANGED <<disk, journal, lock, heir, helperFile, cmd, slot, snap, helper, faults>>

LockedByCommand(d) == lock[d] # {}
Locked(d)          == lock[d] \cup heir[d] # {}

Lock(p) ==
  /\ pc[p] = "opened" /\ ~Locked(fd[p])
  /\ lock' = [lock EXCEPT ![fd[p]] = {p}] /\ Goto(p, "locked")
  /\ UNCHANGED <<disk, journal, heir, helperFile, own, helper, faults>>

Unvalidated(p) == TRUE
Validated(p)   == snap[p] # NoDir /\ \E d \in Dir : place[d] = slot[p] /\ ino[d] = snap[p]

\* Journals are found by path: with a valid snapshot it is the root's own.
At(s)      == {d \in Dir : place[d] = s}
Pending(s) == \E d \in At(s) : journal[d] # NoJournal

Enter(p) ==
  /\ pc[p] = "locked" /\ Validated(p)
  /\ cmd[p] = "work" => ~Pending(slot[p])
  /\ Goto(p, IF cmd[p] = "work" THEN "working" ELSE "recover")
  /\ UNCHANGED <<disk, journal, lock, heir, helperFile, own, helper, faults>>

Finish(p) ==
  /\ pc[p] = "working" /\ Leave(p)
  /\ UNCHANGED <<disk, journal, helperFile, helper, faults>>

(***************************************************************************)
(* runtime_recover_pending: repair, install and uninstall. The helper file *)
(* goes before the journal that owns it.                                   *)
(***************************************************************************)
Recovered(p) == Goto(p, IF cmd[p] = "uninstall" THEN "journal" ELSE "working")

NothingPending(p) ==
  /\ pc[p] = "recover" /\ ~Pending(slot[p]) /\ Recovered(p)
  /\ UNCHANGED <<disk, journal, lock, heir, helperFile, own, helper, faults>>

JournalFirst(d) == helperFile' = helperFile /\ journal' = [journal EXCEPT ![d] = NoJournal]
RemoveStale(d)  == helperFile' = helperFile \ {journal[d].token} /\ journal' = journal

RecoverHelper(p) ==
  /\ pc[p] = "recover" /\ Pending(slot[p])
  /\ \E d \in At(slot[p]) : RemoveStale(d)
  /\ Goto(p, "tidied")
  /\ UNCHANGED <<disk, lock, heir, own, helper, faults>>

Residue(t) == \E d \in Dir : place[d] = t

\* uninstall_journal_recover: not while a detached root owns the operation.
NotDetaching(d) == journal[d].phase # "detaching"
Cancellable(d)  == ~Residue(journal[d].token)

RecoverJournal(p) ==
  /\ pc[p] = "tidied" /\ Pending(slot[p])
  /\ \E d \in At(slot[p]) : Cancellable(d) /\ journal' = [journal EXCEPT ![d] = NoJournal]
  /\ Recovered(p)
  /\ UNCHANGED <<disk, lock, heir, helperFile, own, helper, faults>>

(***************************************************************************)
(* command_uninstall.                                                      *)
(***************************************************************************)
\* A new token is unlike that of anything that an earlier uninstall has left.
Unused(t) ==
  /\ ~Residue(t) /\ t \notin helperFile /\ hpc[t] = "idle"
  /\ \A d \in Dir : journal[d] \in Journal => journal[d].token # t

PublishJournal(p) ==
  /\ pc[p] = "journal" /\ Unused(p)
  /\ \E d \in At(slot[p]) :
       journal' = [journal EXCEPT ![d] = [phase |-> "scheduled", token |-> p]]
  /\ Goto(p, "helper")
  /\ UNCHANGED <<disk, lock, heir, helperFile, own, helper, faults>>

PrepareHelper(p) ==
  /\ pc[p] = "helper" /\ helperFile' = helperFile \cup {p} /\ Goto(p, "start")
  /\ UNCHANGED <<disk, journal, lock, heir, own, helper, faults>>

\* The child shares the open lock and waits until its parent has exited.
StartHelper(p) ==
  /\ pc[p] = "start"
  /\ heir' = [heir EXCEPT ![fd[p]] = @ \cup {p}]
  /\ HGoto(p, "started") /\ hslot' = [hslot EXCEPT ![p] = slot[p]]
  /\ Goto(p, "handed")
  /\ UNCHANGED <<disk, journal, lock, helperFile, own, hsnap, faults>>

ParentWaits(p) ==
  /\ pc[p] = "handed" /\ hpc[p] = "idle" /\ Leave(p)
  /\ UNCHANGED <<disk, journal, helperFile, helper, faults>>

ParentExit(p) ==
  /\ pc[p] = "handed" /\ Leave(p)
  /\ UNCHANGED <<disk, journal, helperFile, helper, faults>>

\* An interrupt, or no helper: clear_unstarted_journal, in the same order.
CancelUninstall(p) ==
  /\ pc[p] \in {"helper", "start"} /\ Fault /\ Goto(p, "cancel")
  /\ UNCHANGED <<disk, journal, lock, heir, helperFile, own, helper>>

CancelHelper(p) ==
  /\ pc[p] = "cancel" /\ (\E d \in At(slot[p]) : RemoveStale(d)) /\ Goto(p, "cancelled")
  /\ UNCHANGED <<disk, lock, heir, own, helper, faults>>

CancelJournal(p) ==
  /\ pc[p] = "cancelled" /\ Leave(p)
  /\ \E d \in At(slot[p]) : journal' = [journal EXCEPT ![d] = NoJournal]
  /\ UNCHANGED <<disk, helperFile, helper, faults>>

(***************************************************************************)
(* uninstall_helper_run for token p.                                       *)
(***************************************************************************)
UnlinkHelper(p) ==
  /\ hpc[p] = "started" /\ p \in helperFile
  /\ helperFile' = helperFile \ {p} /\ HGoto(p, "wait")
  /\ UNCHANGED <<disk, journal, lock, heir, pc, own, hslot, hsnap, faults>>

\* system_handoff_accept, then validate_handoff.
AcceptHandoff(p) ==
  /\ hpc[p] = "wait" /\ pc[p] # "handed"
  /\ \E d \in Dir :
       /\ place[d] = hslot[p] /\ marked[d]
       /\ journal[d] = [phase |-> "scheduled", token |-> p]
       /\ hsnap' = [hsnap EXCEPT ![p] = ino[d]]
  /\ HGoto(p, "validated")
  /\ UNCHANGED <<disk, journal, lock, heir, helperFile, pc, own, hslot, faults>>

SetPhase(p, d, f) == journal' = [journal EXCEPT ![d] = [phase |-> f, token |-> p]]

SetDetaching(p) ==
  /\ hpc[p] = "validated" /\ HGoto(p, "move")
  /\ \E d \in At(hslot[p]) : SetPhase(p, d, "detaching")
  /\ UNCHANGED <<disk, lock, heir, helperFile, pc, own, hslot, hsnap, faults>>

\* The identity-bound, no-clobber move is the commit of the uninstall.
Detach(p) ==
  /\ hpc[p] = "move" /\ ~Residue(p)
  /\ \E d \in Dir :
       /\ place[d] = hslot[p] /\ ino[d] = hsnap[p]
       /\ place' = [place EXCEPT ![d] = p]
  /\ HGoto(p, "moved")
  /\ UNCHANGED <<ino, marked, payload, journal, lock, heir, helperFile, pc, own, hslot, hsnap, faults>>

DetachFails(p) ==
  /\ hpc[p] = "move" /\ Fault
  /\ (\E d \in At(hslot[p]) : SetPhase(p, d, "failed")) /\ HelperDrop(p)
  /\ UNCHANGED <<disk, lock, helperFile, pc, own>>

ReadDetached(p) ==
  /\ hpc[p] = "moved"
  /\ \E d \in Dir : place[d] = p /\ journal[d] = [phase |-> "detaching", token |-> p]
  /\ HGoto(p, "purge")
  /\ UNCHANGED <<disk, journal, lock, heir, helperFile, pc, own, hslot, hsnap, faults>>

\* remove_detached_root: the contents one entry at a time, then the journal.
JournalBefore(d) == payload[d] # "whole"
JournalLast(d)   == payload[d] = "none"

Purge(p) ==
  /\ hpc[p] = "purge"
  /\ \E d \in Dir :
       /\ place[d] = p /\ payload[d] # "none"
       /\ payload' = [payload EXCEPT ![d] = IF @ = "whole" THEN "part" ELSE "none"]
  /\ UNCHANGED <<place, ino, marked, journal, lock, heir, helperFile, pc, own, helper, faults>>

PurgeJournal(p) ==
  /\ hpc[p] = "purge"
  /\ \E d \in Dir :
       /\ place[d] = p /\ JournalLast(d) /\ journal[d] # NoJournal
       /\ journal' = [journal EXCEPT ![d] = NoJournal]
  /\ UNCHANGED <<disk, lock, heir, helperFile, pc, own, helper, faults>>

RemoveRoot(p) ==
  /\ hpc[p] = "purge"
  /\ \E d \in Dir :
       /\ place[d] = p /\ payload[d] = "none" /\ journal[d] = NoJournal
       /\ Delete(d)
  /\ HelperDrop(p)
  /\ UNCHANGED <<journal, lock, helperFile, pc, own, faults>>

(***************************************************************************)
(* build_fresh_root: a private sibling, published by one no-clobber move.  *)
(***************************************************************************)
BuildPrivate(p) ==
  /\ pc[p] = "selected" /\ cmd[p] = "install"
  /\ \E d \in Dir, i \in Dir :
       /\ Fresh(d, i) /\ Create(d, i, "private", TRUE)
       /\ fd' = [fd EXCEPT ![p] = d]
  /\ Goto(p, "built")
  /\ UNCHANGED <<journal, lock, heir, helperFile, cmd, slot, snap, helper, faults>>

SelectAgain(p) ==
  /\ pc[p] = "built" /\ Chosen(slot[p]) /\ ~Occupied(slot[p]) /\ Goto(p, "checked")
  /\ UNCHANGED <<disk, journal, lock, heir, helperFile, own, helper, faults>>

PublishRoot(p) ==
  /\ pc[p] = "checked" /\ ~Occupied(slot[p])
  /\ place' = [place EXCEPT ![fd[p]] = slot[p]] /\ Leave(p)
  /\ UNCHANGED <<ino, marked, payload, journal, helperFile, helper, faults>>

DiscardPrivate(p) ==
  /\ \/ pc[p] = "built" /\ ~(Chosen(slot[p]) /\ ~Occupied(slot[p]))
     \/ pc[p] = "checked" /\ Occupied(slot[p])
  /\ Delete(fd[p]) /\ Leave(p)
  /\ UNCHANGED <<journal, helperFile, helper, faults>>

(***************************************************************************)
(* Early returns that leave the disk as it is, and deaths.                 *)
(***************************************************************************)
Refused(p) ==
  \/ pc[p] = "selected" /\ (cmd[p] = "install" \/ Initializes(p) \/ ~Occupied(slot[p]))
  \/ pc[p] = "opened" /\ Locked(fd[p])
  \/ pc[p] = "locked" /\ (~Validated(p) \/ (cmd[p] = "work" /\ Pending(slot[p])))
  \/ pc[p] = "tidied" /\ \E d \in At(slot[p]) : ~Cancellable(d)
  \/ pc[p] = "journal"   \* "Continue? [y/N]" answered no

Refuse(p) ==
  /\ Refused(p) /\ Leave(p)
  /\ UNCHANGED <<disk, journal, helperFile, helper, faults>>

\* A private directory that its installer leaves behind is never looked at again.
Stop(p) ==
  /\ pc[p] # "idle" /\ Fault /\ Leave(p)
  /\ IF pc[p] \in {"built", "checked"} THEN Delete(fd[p]) ELSE UNCHANGED disk
  /\ UNCHANGED <<journal, helperFile, helper>>

HelperStop(p) ==
  /\ hpc[p] # "idle" /\ Fault /\ HelperDrop(p)
  /\ UNCHANGED <<disk, journal, lock, helperFile, pc, own>>

Run(p) ==
  \/ OpenLock(p) \/ Lock(p) \/ Enter(p) \/ Finish(p) \/ Refuse(p)
  \/ MakeRoot(p) \/ MarkRoot(p) \/ MarkFails(p)
  \/ NothingPending(p) \/ RecoverHelper(p) \/ RecoverJournal(p)
  \/ PublishJournal(p) \/ PrepareHelper(p) \/ StartHelper(p) \/ ParentExit(p)
  \/ CancelUninstall(p) \/ CancelHelper(p) \/ CancelJournal(p)
  \/ BuildPrivate(p) \/ SelectAgain(p) \/ PublishRoot(p) \/ DiscardPrivate(p)

HelperRun(p) ==
  \/ UnlinkHelper(p) \/ AcceptHandoff(p) \/ SetDetaching(p) \/ Detach(p) \/ DetachFails(p)
  \/ ReadDetached(p) \/ Purge(p) \/ PurgeJournal(p) \/ RemoveRoot(p)

Next == \E p \in Proc : Select(p) \/ Run(p) \/ HelperRun(p) \/ Stop(p) \/ HelperStop(p)

Spec == Init /\ [][Next]_vars

\* Somebody has just taken the lock of the root at s to repair it; an uninstall
\* is pending there and the lock is free.
Repairing(s) == \E p \in Proc : pc[p] = "locked" /\ cmd[p] = "repair" /\ fd[p] \in At(s)
Untended(s)  == \E d \in At(s) : journal[d] # NoJournal /\ ~Locked(d)

\* A process keeps running, its helper too. The lock is only tried, so that no
\* fairness of one attempt suffices; like strong fairness of the command: if it
\* is free again and again while an uninstall is pending, some repair gets it.
\* Nothing is assumed of a lock that stays taken.
FairSpec ==
  /\ Spec
  /\ \A p \in Proc : WF_vars(Run(p)) /\ WF_vars(HelperRun(p))
  /\ \A s \in Slot : []<>Untended(s) => []<>Repairing(s)

(***************************************************************************)
(* Properties.                                                             *)
(***************************************************************************)

Inside(p) ==
  pc[p] \in {"recover", "tidied", "working", "journal", "helper", "start", "cancel", "cancelled"}

\* Who changes the root at s: commands, and helpers that have not detached it.
Acting(s) ==
  {<<p, "command">> : p \in {q \in Proc : Inside(q) /\ slot[q] = s}} \cup
  {<<p, "helper">> : p \in {q \in Proc : hpc[q] \in {"validated", "move"} /\ hslot[q] = s}}

\* State-changing commands exclude each other and a running uninstall, although
\* the lock file lives in a directory that may be deleted and installed anew
\* between opening and locking it.
ExclusiveAccess == \A s \in Slot : \A x, y \in Acting(s) : x = y

\* A command is never left without the root that it has locked: nobody detaches
\* or deletes a root under another command.
RootStays ==
  \A p \in Proc : Inside(p) => place[fd[p]] = slot[p] /\ p \in lock[fd[p]]

\* From the fork to the detaching move, the helper has the lock and the journal
\* of its root: no recovery cancels an uninstall that is still going on, whoever
\* dies.
HandoffHolds ==
  \A p \in Proc : hpc[p] \in {"started", "wait", "validated", "move"} =>
    \E d \in Dir : /\ place[d] = hslot[p] /\ p \in heir[d]
                   /\ journal[d] \in Journal /\ journal[d].token = p

\* However the deletion is interrupted, a partly deleted root is never found at
\* a slot, and what is left of it still holds the journal that identifies it.
ResidueHasEvidence ==
  \A d \in Dir :
    /\ payload[d] # "whole" => place[d] \in Proc
    /\ place[d] \in Proc /\ payload[d] # "none" =>
         journal[d] = [phase |-> "detaching", token |-> place[d]]

\* A helper executable beside the root is always named by the journal of a root
\* at a slot, so that recovery can find it.
HelperResidueOwned ==
  \A t \in helperFile : \E d \in Dir :
    place[d] \in Slot /\ journal[d] \in Journal /\ journal[d].token = t

\* Everything an interrupted uninstall leaves, inside and beside the root, can be
\* attributed and found by a later recovery.
ResidueIdentified == ResidueHasEvidence /\ HelperResidueOwned

\* The fallback is not a second installation slot: never two recognized roots,
\* which would block every command.
OneRoot == ~(Owned("primary") /\ Owned("fallback"))

\* An uninstall that was begun ends: its root is detached, or the journal is
\* taken back, by the command itself, its helper or a repair.
UninstallEnds == \A s \in Slot : Pending(s) ~> ~Pending(s)

\* No lock is held for good: a helper that fails leaves it, and nobody waits for
\* somebody who waits for him.
LocksReleased == \A d \in Dir : []<>~Locked(d)
=============================================================================
