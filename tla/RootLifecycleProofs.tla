------------------------ MODULE RootLifecycleProofs ------------------------
(***************************************************************************)
(* Proofs about RootLifecycle for any number of processes and directories  *)
(* and any bound on faults, where the identity of a deleted directory does *)
(* not come back while a process remembers it.                             *)
(***************************************************************************)
EXTENDS RootLifecycle, TLAPS

\* Deleted identities do not come back while they are remembered.
NoReuse == ReuseIdentity = FALSE

\* Steps at which a process holds the lock of the directory it has opened.
Holding == {"locked", "recover", "tidied", "working", "journal", "helper", "start", "handed",
            "cancel", "cancelled"}
Entered == {"recover", "tidied", "working", "journal", "helper", "start", "cancel", "cancelled"}

\* A path names one directory, and an identity the directory itself.
Paths ==
  /\ \A d, e \in Dir : place[d] = place[e] /\ place[d] \in Slot \cup Proc => d = e
  /\ \A d \in Dir : ino[d] = IF place[d] = "none" THEN NoDir ELSE d
  /\ \A d \in Dir : place[d] \in {"none", "private"} => journal[d] = NoJournal

\* A lock has one holder, or a parent and its helper that waits for its exit.
Locks ==
  /\ \A p \in Proc, d \in Dir : p \in lock[d] <=> fd[p] = d /\ pc[p] \in Holding
  /\ \A d \in Dir : \A p, q \in lock[d] : p = q
  /\ \A d \in Dir : \A p, q \in heir[d] : p = q
  /\ \A d \in Dir : \A p \in lock[d], q \in heir[d] :
       p = q /\ pc[p] = "handed" /\ hpc[p] \in {"started", "wait"}
  /\ \A p \in Proc, d, e \in Dir : p \in heir[d] => hpc[p] # "idle" /\ (p \in heir[e] => d = e)

\* What a snapshot says of the directory it remembers, and why a valid snapshot
\* means that the open lock is the one at the path: no directory returns.
Snapshots ==
  \A p \in Proc :
    /\ pc[p] \notin {"idle", "selected"} => fd[p] \in Dir
    /\ snap[p] # NoDir =>
         /\ place[snap[p]] # "private"
         /\ place[snap[p]] \in Slot /\ pc[p] # "mark" => marked[snap[p]]
         /\ pc[p] \in {"opened", "locked"} /\ place[snap[p]] = slot[p] => fd[p] = snap[p]
    /\ pc[p] \in Entered => snap[p] = fd[p] /\ place[fd[p]] = slot[p]

\* A directory that is being created belongs to its creator alone.
Creations ==
  \A p \in Proc :
    /\ pc[p] = "mark" =>
         /\ snap[p] = fd[p] /\ place[fd[p]] = slot[p] /\ ~marked[fd[p]]
         /\ journal[fd[p]] = NoJournal
         /\ \A q \in Proc \ {p} : snap[q] # fd[p]
    /\ pc[p] \in {"built", "checked"} =>
         /\ place[fd[p]] = "private" /\ \A q \in Proc \ {p} : fd[q] # fd[p]

Acts(p, d) ==
  /\ place[d] = hslot[p] /\ p \in heir[d] /\ marked[d]
  /\ journal[d] = [phase |-> IF hpc[p] = "move" THEN "detaching" ELSE "scheduled", token |-> p]
  /\ hpc[p] \in {"validated", "move"} => hsnap[p] = d

\* A helper has the lock and the journal of its root until it has detached it.
Helpers ==
  \A p \in Proc :
    /\ hpc[p] \in {"started", "wait", "validated", "move"} => \E d \in Dir : Acts(p, d)
    /\ hpc[p] \in {"wait", "validated", "move"} => p \notin helperFile

\* What a command knows of the journal and of the helper file at each step.
Journals ==
  /\ \A d, e \in Dir : journal[d] \in Journal /\ journal[e] \in Journal
                       /\ journal[d].token = journal[e].token => d = e
  /\ \A p \in Proc :
       /\ pc[p] = "tidied" => journal[fd[p]] \in Journal /\ journal[fd[p]].token \notin helperFile
       /\ pc[p] = "journal" => journal[fd[p]] = NoJournal
       /\ pc[p] \in {"helper", "start", "cancel", "cancelled"} =>
            journal[fd[p]] = [phase |-> "scheduled", token |-> p]
       /\ pc[p] \in {"helper", "start"} => hpc[p] = "idle"
       /\ pc[p] = "cancelled" => p \notin helperFile

Inv ==
  /\ TypeOK /\ Paths /\ Locks /\ Snapshots /\ Creations /\ Helpers /\ Journals
  /\ ResidueHasEvidence /\ HelperResidueOwned

\* A command that has entered has the root at its slot, alone.
Holds(p) ==
  /\ fd[p] \in Dir /\ slot[p] \in Slot /\ snap[p] = fd[p]
  /\ place[fd[p]] = slot[p] /\ marked[fd[p]]
  /\ p \in lock[fd[p]] /\ heir[fd[p]] = {} /\ At(slot[p]) = {fd[p]}
  /\ \A q \in Proc \ {p} : pc[q] \in Entered \cup {"mark"} => fd[q] # fd[p]
  /\ \A q \in Proc, d \in Dir : Acts(q, d) => d # fd[p]

LEMMA Possession ==
  ASSUME Inv, NEW p \in Proc, pc[p] \in Entered
  PROVE  Holds(p)
<1> USE DEF Inv, Entered, Holding
<1>1. fd[p] \in Dir /\ slot[p] \in Slot /\ snap[p] = fd[p] /\ place[fd[p]] = slot[p]
  BY DirAssumption DEF Snapshots, TypeOK
<1>2. marked[fd[p]]
  BY <1>1, DirAssumption DEF Snapshots
<1>3. p \in lock[fd[p]] /\ heir[fd[p]] = {}
  BY <1>1 DEF Locks, TypeOK
<1>4. At(slot[p]) = {fd[p]}
  BY <1>1 DEF Paths, At, TypeOK
<1>5. ASSUME NEW q \in Proc \ {p}, pc[q] \in Entered \cup {"mark"} PROVE fd[q] # fd[p]
  BY <1>1, <1>2, <1>3, <1>5 DEF Locks, Creations, TypeOK
<1>6. \A q \in Proc, d \in Dir : Acts(q, d) => d # fd[p]
  BY <1>1, <1>3 DEF Acts
<1> QED
  BY <1>1, <1>2, <1>3, <1>4, <1>5, <1>6 DEF Holds

\* A helper that has accepted the handoff has the root at its slot, alone.
Owns(p, d) ==
  /\ d \in Dir /\ hslot[p] \in Slot /\ Acts(p, d) /\ hsnap[p] = d /\ At(hslot[p]) = {d}
  /\ lock[d] = {} /\ \A q \in Proc : pc[q] \in Entered \cup {"mark"} => fd[q] # d
  /\ \A q \in Proc \ {p}, e \in Dir : Acts(q, e) => e # d

LEMMA Agency ==
  ASSUME Inv, NEW p \in Proc, hpc[p] \in {"validated", "move"}
  PROVE  \E d \in Dir : Owns(p, d)
<1> USE DEF Inv, Entered, Holding
<1>1. PICK d \in Dir : Acts(p, d)
  BY DEF Helpers
<1>2. hslot[p] \in Slot /\ hsnap[p] = d
  BY <1>1 DEF Acts, TypeOK
<1>3. At(hslot[p]) = {d}
  BY <1>1, <1>2 DEF Paths, At, Acts
<1>4. lock[d] = {}
  BY <1>1 DEF Acts, Locks, TypeOK
<1>5. ASSUME NEW q \in Proc, pc[q] \in Entered \cup {"mark"} PROVE fd[q] # d
  BY <1>1, <1>4, <1>5 DEF Locks, Creations, Acts
<1>6. \A q \in Proc \ {p}, e \in Dir : Acts(q, e) => e # d
  BY <1>1 DEF Acts, Locks
<1> QED
  BY <1>1, <1>2, <1>3, <1>4, <1>5, <1>6 DEF Owns

\* A process drops what it has; its helper keeps what it was given.
LEMMA LeaveInv ==
  ASSUME NEW p \in Proc, Inv, Leave(p), UNCHANGED <<disk, journal, helperFile, helper>>,
         faults' \in Nat
  PROVE  Inv'
<1> USE NoneAssumption, DirAssumption DEF Inv, Leave, Forget, DropRef, Goto, disk, own,
      helper, Holding, Entered
<1>1. TypeOK'
  BY DEF TypeOK, Journal, Place, Slot, Step, HelperStep, Command
<1>2. Paths'
  BY DEF TypeOK, Paths, Slot
<1>3. Locks'
  BY DEF TypeOK, Locks
<1>4. Snapshots'
  BY DEF TypeOK, Paths, Snapshots, Slot
<1>5. Creations'
  <2>1. ASSUME NEW q \in Proc, pc'[q] = "mark"
        PROVE  /\ snap[q] = fd[q] /\ place[fd[q]] = slot[q] /\ ~marked[fd[q]] /\ fd[q] \in Dir
               /\ journal[fd[q]] = NoJournal /\ q # p /\ \A r \in Proc \ {q} : snap[r] # fd[q]
    BY <2>1 DEF TypeOK, Creations, Snapshots
  <2>2. ASSUME NEW q \in Proc, pc'[q] \in {"built", "checked"}
        PROVE  /\ place[fd[q]] = "private" /\ fd[q] \in Dir /\ q # p
               /\ \A r \in Proc \ {q} : fd[r] # fd[q]
    BY <2>2 DEF TypeOK, Creations, Snapshots
  <2> QED
    BY <2>1, <2>2 DEF TypeOK, Creations
<1>6. Helpers'
  BY DEF TypeOK, Helpers, Acts
<1>7. Journals'
  BY DEF TypeOK, Snapshots, Journals
<1>8. ResidueHasEvidence'
  BY DEF TypeOK, Paths, ResidueHasEvidence, Slot
<1>9. HelperResidueOwned'
  BY DEF TypeOK, Paths, HelperResidueOwned
<1> QED
  BY <1>1, <1>2, <1>3, <1>4, <1>5, <1>6, <1>7, <1>8, <1>9

\* A snapshot of a recognized root, or of a missing one.
LEMMA SelectInv == NoReuse => \A p \in Proc : Inv /\ Select(p) => Inv'
<1> SUFFICES ASSUME NoReuse, NEW p \in Proc, Inv, Select(p) PROVE Inv'
  OBVIOUS
<1> USE NoneAssumption, DirAssumption DEF Inv, Select, Goto, disk, own, helper, Identity,
      Owned, Command, Holding, Entered
<1>1. TypeOK'
  BY DEF TypeOK, Journal, Place, Slot, Step, HelperStep, Command
<1>2. Paths'
  BY DEF TypeOK, Paths, Slot
<1>3. Locks'
  BY DEF TypeOK, Locks
<1>4. Snapshots'
  BY DEF TypeOK, Paths, Snapshots, Slot
<1>5. Creations'
  BY DEF TypeOK, Paths, Snapshots, Creations, Slot
<1>6. Helpers'
  BY DEF TypeOK, Helpers, Acts
<1>7. Journals'
  BY DEF TypeOK, Snapshots, Journals
<1>8. ResidueHasEvidence'
  BY DEF TypeOK, Paths, ResidueHasEvidence, Slot
<1>9. HelperResidueOwned'
  BY DEF TypeOK, Paths, HelperResidueOwned
<1> QED
  BY <1>1, <1>2, <1>3, <1>4, <1>5, <1>6, <1>7, <1>8, <1>9

\* A fresh directory at a free slot.
LEMMA MakeRootInv == NoReuse => \A p \in Proc : Inv /\ MakeRoot(p) => Inv'
<1> SUFFICES ASSUME NoReuse, NEW p \in Proc, Inv, MakeRoot(p) PROVE Inv'
  OBVIOUS
<1> USE NoneAssumption, DirAssumption DEF Inv, MakeRoot, Goto, disk, own, helper, Fresh,
      Create, Open, Occupied, Initializes, NoReuse, Holding, Entered
<1>1. TypeOK'
  BY DEF TypeOK, Journal, Place, Slot, Step, HelperStep, Command
<1>2. Paths'
  BY DEF TypeOK, Paths, Slot
<1>3. Locks'
  BY DEF TypeOK, Locks
<1>4. Snapshots'
  BY DEF TypeOK, Paths, Snapshots, Slot
<1>5. Creations'
  BY DEF TypeOK, Paths, Snapshots, Creations, Slot
<1>6. Helpers'
  BY DEF TypeOK, Helpers, Acts
<1>7. Journals'
  BY DEF TypeOK, Snapshots, Journals
<1>8. ResidueHasEvidence'
  BY DEF TypeOK, Paths, ResidueHasEvidence, Slot
<1>9. HelperResidueOwned'
  BY DEF TypeOK, Paths, HelperResidueOwned
<1> QED
  BY <1>1, <1>2, <1>3, <1>4, <1>5, <1>6, <1>7, <1>8, <1>9

\* The new root is recognized from now on.
LEMMA MarkRootInv == NoReuse => \A p \in Proc : Inv /\ MarkRoot(p) => Inv'
<1> SUFFICES ASSUME NoReuse, NEW p \in Proc, Inv, MarkRoot(p) PROVE Inv'
  OBVIOUS
<1> USE NoneAssumption, DirAssumption DEF Inv, MarkRoot, Goto, disk, own, helper, Holding,
      Entered
<1>1. TypeOK'
  BY DEF TypeOK, Journal, Place, Slot, Step, HelperStep, Command
<1>2. Paths'
  BY DEF TypeOK, Paths, Slot
<1>3. Locks'
  BY DEF TypeOK, Locks
<1>4. Snapshots'
  BY DEF TypeOK, Paths, Snapshots, Slot, Creations
<1>5. Creations'
  BY DEF TypeOK, Paths, Snapshots, Creations, Slot
<1>6. Helpers'
  BY DEF TypeOK, Helpers, Acts
<1>7. Journals'
  BY DEF TypeOK, Snapshots, Journals
<1>8. ResidueHasEvidence'
  BY DEF TypeOK, Paths, ResidueHasEvidence, Slot
<1>9. HelperResidueOwned'
  BY DEF TypeOK, Paths, HelperResidueOwned
<1> QED
  BY <1>1, <1>2, <1>3, <1>4, <1>5, <1>6, <1>7, <1>8, <1>9

\* Whatever the path names now is opened.
LEMMA OpenLockInv == NoReuse => \A p \in Proc : Inv /\ OpenLock(p) => Inv'
<1> SUFFICES ASSUME NoReuse, NEW p \in Proc, Inv, OpenLock(p) PROVE Inv'
  OBVIOUS
<1> USE NoneAssumption, DirAssumption DEF Inv, OpenLock, Goto, disk, own, helper, Holding,
      Entered
<1>1. TypeOK'
  BY DEF TypeOK, Journal, Place, Slot, Step, HelperStep, Command
<1>2. Paths'
  BY DEF TypeOK, Paths, Slot
<1>3. Locks'
  BY DEF TypeOK, Locks
<1>4. Snapshots'
  BY DEF TypeOK, Paths, Snapshots, Slot
<1>5. Creations'
  BY DEF TypeOK, Paths, Snapshots, Creations, Slot
<1>6. Helpers'
  BY DEF TypeOK, Helpers, Acts
<1>7. Journals'
  BY DEF TypeOK, Snapshots, Journals
<1>8. ResidueHasEvidence'
  BY DEF TypeOK, Paths, ResidueHasEvidence, Slot
<1>9. HelperResidueOwned'
  BY DEF TypeOK, Paths, HelperResidueOwned
<1> QED
  BY <1>1, <1>2, <1>3, <1>4, <1>5, <1>6, <1>7, <1>8, <1>9

\* The lock is free.
LEMMA LockInv == NoReuse => \A p \in Proc : Inv /\ Lock(p) => Inv'
<1> SUFFICES ASSUME NoReuse, NEW p \in Proc, Inv, Lock(p) PROVE Inv'
  OBVIOUS
<1> USE NoneAssumption, DirAssumption DEF Inv, Lock, Goto, disk, own, helper, Locked, Holding,
      Entered
<1>1. TypeOK'
  BY DEF TypeOK, Journal, Place, Slot, Step, HelperStep, Command
<1>2. Paths'
  BY DEF TypeOK, Paths, Slot
<1>3. Locks'
  BY DEF TypeOK, Locks
<1>4. Snapshots'
  BY DEF TypeOK, Paths, Snapshots, Slot
<1>5. Creations'
  BY DEF TypeOK, Paths, Snapshots, Creations, Slot
<1>6. Helpers'
  BY DEF TypeOK, Helpers, Acts
<1>7. Journals'
  BY DEF TypeOK, Snapshots, Journals
<1>8. ResidueHasEvidence'
  BY DEF TypeOK, Paths, ResidueHasEvidence, Slot
<1>9. HelperResidueOwned'
  BY DEF TypeOK, Paths, HelperResidueOwned
<1> QED
  BY <1>1, <1>2, <1>3, <1>4, <1>5, <1>6, <1>7, <1>8, <1>9

\* A valid snapshot is the directory whose lock is held.
LEMMA EnterInv == NoReuse => \A p \in Proc : Inv /\ Enter(p) => Inv'
<1> SUFFICES ASSUME NoReuse, NEW p \in Proc, Inv, Enter(p) PROVE Inv'
  OBVIOUS
<1> USE NoneAssumption, DirAssumption DEF Inv, Enter, Goto, disk, own, helper, Validated,
      Pending, At, Holding, Entered
<1>1. TypeOK'
  BY DEF TypeOK, Journal, Place, Slot, Step, HelperStep, Command
<1>2. Paths'
  BY DEF TypeOK, Paths, Slot
<1>3. Locks'
  BY DEF TypeOK, Locks
<1>4. Snapshots'
  BY DEF TypeOK, Paths, Snapshots, Slot
<1>5. Creations'
  BY DEF TypeOK, Paths, Snapshots, Creations, Slot
<1>6. Helpers'
  BY DEF TypeOK, Helpers, Acts
<1>7. Journals'
  BY DEF TypeOK, Snapshots, Journals
<1>8. ResidueHasEvidence'
  BY DEF TypeOK, Paths, ResidueHasEvidence, Slot
<1>9. HelperResidueOwned'
  BY DEF TypeOK, Paths, HelperResidueOwned
<1> QED
  BY <1>1, <1>2, <1>3, <1>4, <1>5, <1>6, <1>7, <1>8, <1>9

\* No journal, no recovery.
LEMMA NothingPendingInv == NoReuse => \A p \in Proc : Inv /\ NothingPending(p) => Inv'
<1> SUFFICES ASSUME NoReuse, NEW p \in Proc, Inv, NothingPending(p) PROVE Inv'
  OBVIOUS
<1> USE NoneAssumption, DirAssumption DEF Inv, NothingPending, Goto, disk, own, helper,
      Pending, Recovered, Holding, Entered, Holds
<1>0. Holds(p)
  BY Possession DEF Entered
<1>1. TypeOK'
  BY <1>0 DEF TypeOK, Journal, Place, Slot, Step, HelperStep, Command
<1>2. Paths'
  BY <1>0 DEF TypeOK, Paths, Slot
<1>3. Locks'
  BY <1>0 DEF TypeOK, Locks
<1>4. Snapshots'
  BY <1>0 DEF TypeOK, Paths, Snapshots, Slot
<1>5. Creations'
  BY <1>0 DEF TypeOK, Paths, Snapshots, Creations, Slot
<1>6. Helpers'
  BY <1>0 DEF TypeOK, Helpers, Acts
<1>7. Journals'
  BY <1>0 DEF TypeOK, Snapshots, Journals
<1>8. ResidueHasEvidence'
  BY <1>0 DEF TypeOK, Paths, ResidueHasEvidence, Slot
<1>9. HelperResidueOwned'
  BY <1>0 DEF TypeOK, Paths, HelperResidueOwned
<1> QED
  BY <1>1, <1>2, <1>3, <1>4, <1>5, <1>6, <1>7, <1>8, <1>9

\* The helper file of the journal goes first.
LEMMA RecoverHelperInv == NoReuse => \A p \in Proc : Inv /\ RecoverHelper(p) => Inv'
<1> SUFFICES ASSUME NoReuse, NEW p \in Proc, Inv, RecoverHelper(p) PROVE Inv'
  OBVIOUS
<1> USE NoneAssumption, DirAssumption DEF Inv, RecoverHelper, Goto, disk, own, helper,
      Pending, Holding, Entered, Holds
<1>0. Holds(p)
  BY Possession DEF Entered
<1>a. helperFile' = helperFile \ {journal[fd[p]].token} /\ journal' = journal
  BY <1>0 DEF Holds, RemoveStale
<1>1. TypeOK'
  BY <1>0, <1>a DEF TypeOK, Journal, Place, Slot, Step, HelperStep, Command
<1>2. Paths'
  BY <1>0, <1>a DEF TypeOK, Paths, Slot
<1>3. Locks'
  BY <1>0, <1>a DEF TypeOK, Locks
<1>4. Snapshots'
  BY <1>0, <1>a DEF TypeOK, Paths, Snapshots, Slot
<1>5. Creations'
  BY <1>0, <1>a DEF TypeOK, Paths, Snapshots, Creations, Slot
<1>6. Helpers'
  BY <1>0, <1>a DEF TypeOK, Helpers, Acts
<1>7. Journals'
  BY <1>0, <1>a DEF TypeOK, Snapshots, Journals
<1>8. ResidueHasEvidence'
  BY <1>0, <1>a DEF TypeOK, Paths, ResidueHasEvidence, Slot
<1>9. HelperResidueOwned'
  BY <1>0, <1>a DEF TypeOK, Paths, HelperResidueOwned
<1> QED
  BY <1>1, <1>2, <1>3, <1>4, <1>5, <1>6, <1>7, <1>8, <1>9

\* The journal goes last.
LEMMA RecoverJournalInv == NoReuse => \A p \in Proc : Inv /\ RecoverJournal(p) => Inv'
<1> SUFFICES ASSUME NoReuse, NEW p \in Proc, Inv, RecoverJournal(p) PROVE Inv'
  OBVIOUS
<1> USE NoneAssumption, DirAssumption DEF Inv, RecoverJournal, Goto, disk, own, helper,
      Recovered, Holding, Entered, Holds
<1>0. Holds(p)
  BY Possession DEF Entered
<1>a. journal' = [journal EXCEPT ![fd[p]] = NoJournal]
  BY <1>0 DEF Holds
<1>b. \A d \in Dir : journal'[d] = IF d = fd[p] THEN NoJournal ELSE journal[d]
  BY <1>a DEF TypeOK
<1>1. TypeOK'
  BY <1>0, <1>a, <1>b DEF TypeOK, Journal, Place, Slot, Step, HelperStep, Command
<1>2. Paths'
  BY <1>0, <1>a, <1>b DEF TypeOK, Paths, Slot
<1>3. Locks'
  BY <1>0, <1>a, <1>b DEF TypeOK, Locks
<1>4. Snapshots'
  BY <1>0, <1>a, <1>b DEF TypeOK, Paths, Snapshots, Slot
<1>5. Creations'
  BY <1>0, <1>a, <1>b DEF TypeOK, Paths, Snapshots, Creations, Slot, Locks
<1>6. Helpers'
  BY <1>0, <1>a, <1>b DEF TypeOK, Helpers, Acts
<1>7. Journals'
  BY <1>0, <1>a, <1>b DEF TypeOK, Snapshots, Journals
<1>8. ResidueHasEvidence'
  BY <1>0, <1>a, <1>b DEF TypeOK, Paths, ResidueHasEvidence, Slot
<1>9. HelperResidueOwned'
  <2> SUFFICES ASSUME NEW t \in helperFile
               PROVE  \E d \in Dir : place[d] \in Slot /\ journal'[d] \in Journal /\ journal'[d].token = t
    BY DEF HelperResidueOwned
  <2>1. PICK d \in Dir : place[d] \in Slot /\ journal[d] \in Journal /\ journal[d].token = t
    BY DEF HelperResidueOwned
  <2>2. d # fd[p]
    BY <2>1 DEF Journals
  <2> QED
    BY <1>b, <2>1, <2>2
<1> QED
  BY <1>1, <1>2, <1>3, <1>4, <1>5, <1>6, <1>7, <1>8, <1>9

\* A journal with a new token.
LEMMA PublishJournalInv == NoReuse => \A p \in Proc : Inv /\ PublishJournal(p) => Inv'
<1> SUFFICES ASSUME NoReuse, NEW p \in Proc, Inv, PublishJournal(p) PROVE Inv'
  OBVIOUS
<1> USE NoneAssumption, DirAssumption DEF Inv, PublishJournal, Goto, disk, own, helper,
      Unused, Holding, Entered, Holds
<1>0. Holds(p)
  BY Possession DEF Entered
<1>a. journal' = [journal EXCEPT ![fd[p]] = [phase |-> "scheduled", token |-> p]]
  BY <1>0 DEF Holds
<1>b. \A d \in Dir : journal'[d] = IF d = fd[p] THEN [phase |-> "scheduled", token |-> p] ELSE journal[d]
  BY <1>a DEF TypeOK
<1>c. [phase |-> "scheduled", token |-> p] \in Journal /\ [phase |-> "scheduled", token |-> p].token = p
  BY DEF Journal
<1>1. TypeOK'
  BY <1>0, <1>a, <1>b, <1>c DEF TypeOK, Journal, Place, Slot, Step, HelperStep, Command
<1>2. Paths'
  BY <1>0, <1>a, <1>b, <1>c DEF TypeOK, Paths, Slot
<1>3. Locks'
  BY <1>0, <1>a, <1>b, <1>c DEF TypeOK, Locks
<1>4. Snapshots'
  BY <1>0, <1>a, <1>b, <1>c DEF TypeOK, Paths, Snapshots, Slot
<1>5. Creations'
  BY <1>0, <1>a, <1>b, <1>c DEF TypeOK, Paths, Snapshots, Creations, Slot
<1>6. Helpers'
  BY <1>0, <1>a, <1>b, <1>c DEF TypeOK, Helpers, Acts
<1>7. Journals'
  BY <1>0, <1>a, <1>b, <1>c DEF TypeOK, Snapshots, Journals
<1>8. ResidueHasEvidence'
  BY <1>0, <1>a, <1>b, <1>c DEF TypeOK, Paths, ResidueHasEvidence, Slot
<1>9. HelperResidueOwned'
  BY <1>0, <1>a, <1>b, <1>c DEF TypeOK, Paths, HelperResidueOwned, Journals
<1> QED
  BY <1>1, <1>2, <1>3, <1>4, <1>5, <1>6, <1>7, <1>8, <1>9

\* The helper file is named by the journal.
LEMMA PrepareHelperInv == NoReuse => \A p \in Proc : Inv /\ PrepareHelper(p) => Inv'
<1> SUFFICES ASSUME NoReuse, NEW p \in Proc, Inv, PrepareHelper(p) PROVE Inv'
  OBVIOUS
<1> USE NoneAssumption, DirAssumption DEF Inv, PrepareHelper, Goto, disk, own, helper,
      Holding, Entered, Holds
<1>0. Holds(p)
  BY Possession DEF Entered
<1>c. [phase |-> "scheduled", token |-> p] \in Journal /\ [phase |-> "scheduled", token |-> p].token = p
  BY DEF Journal
<1>1. TypeOK'
  BY <1>0, <1>c DEF TypeOK, Journal, Place, Slot, Step, HelperStep, Command
<1>2. Paths'
  BY <1>0, <1>c DEF TypeOK, Paths, Slot
<1>3. Locks'
  BY <1>0, <1>c DEF TypeOK, Locks
<1>4. Snapshots'
  BY <1>0, <1>c DEF TypeOK, Paths, Snapshots, Slot
<1>5. Creations'
  BY <1>0, <1>c DEF TypeOK, Paths, Snapshots, Creations, Slot
<1>6. Helpers'
  BY <1>0, <1>c DEF TypeOK, Helpers, Acts, Journals
<1>7. Journals'
  BY <1>0, <1>c DEF TypeOK, Snapshots, Journals
<1>8. ResidueHasEvidence'
  BY <1>0, <1>c DEF TypeOK, Paths, ResidueHasEvidence, Slot
<1>9. HelperResidueOwned'
  BY <1>0, <1>c DEF TypeOK, Paths, HelperResidueOwned, Journals
<1> QED
  BY <1>1, <1>2, <1>3, <1>4, <1>5, <1>6, <1>7, <1>8, <1>9

\* The child inherits the lock.
LEMMA StartHelperInv == NoReuse => \A p \in Proc : Inv /\ StartHelper(p) => Inv'
<1> SUFFICES ASSUME NoReuse, NEW p \in Proc, Inv, StartHelper(p) PROVE Inv'
  OBVIOUS
<1> USE NoneAssumption, DirAssumption DEF Inv, StartHelper, Goto, disk, own, helper, HGoto,
      Holding, Entered, Holds
<1>0. Holds(p)
  BY Possession DEF Entered
<1>a. /\ hpc[p] = "idle" /\ journal[fd[p]] = [phase |-> "scheduled", token |-> p]
      /\ \A d \in Dir : p \notin heir[d]
  BY DEF Journals, Locks
<1>b. \A d \in Dir : heir'[d] = IF d = fd[p] THEN {p} ELSE heir[d]
  BY <1>0 DEF TypeOK
<1>c. /\ pc' = [pc EXCEPT ![p] = "handed"] /\ hpc' = [hpc EXCEPT ![p] = "started"]
      /\ hslot' = [hslot EXCEPT ![p] = slot[p]]
      /\ pc \in [Proc -> Step] /\ hpc \in [Proc -> HelperStep] /\ hslot \in [Proc -> Slot]
  BY DEF TypeOK
<1>1. TypeOK'
  BY <1>0, <1>a, <1>b, <1>c DEF TypeOK, Journal, Place, Slot, Step, HelperStep, Command
<1>2. Paths'
  BY <1>0, <1>a, <1>b, <1>c DEF TypeOK, Paths, Slot
<1>3. Locks'
  <2>1. \A q \in Proc, d \in Dir : q \in lock'[d] <=> fd'[q] = d /\ pc'[q] \in Holding
    BY <1>c DEF Locks
  <2>2. \A d \in Dir : /\ \A q, r \in lock'[d] : q = r
                       /\ \A q, r \in heir'[d] : q = r
    BY <1>b DEF Locks
  <2>3. ASSUME NEW d \in Dir, NEW q \in lock[d], NEW r \in heir'[d]
        PROVE  q = r /\ pc'[q] = "handed" /\ hpc'[q] \in {"started", "wait"}
    BY <1>0, <1>a, <1>b, <1>c, <2>3 DEF TypeOK, Locks
  <2>4. ASSUME NEW q \in Proc, NEW d \in Dir, NEW e \in Dir, q \in heir'[d]
        PROVE  hpc'[q] # "idle" /\ (q \in heir'[e] => d = e)
    <3>1. CASE q = p
      BY <1>a, <1>b, <1>c, <2>4, <3>1
    <3>2. CASE q # p
      BY <1>0, <1>b, <1>c, <2>4, <3>2 DEF Locks
    <3> QED
      BY <3>1, <3>2
  <2> QED
    BY <2>1, <2>2, <2>3, <2>4 DEF Locks
<1>4. Snapshots'
  BY <1>0, <1>a, <1>b, <1>c DEF TypeOK, Paths, Snapshots, Slot
<1>5. Creations'
  BY <1>0, <1>a, <1>b, <1>c DEF TypeOK, Paths, Snapshots, Creations, Slot
<1>6. Helpers'
  <2>1. Acts(p, fd[p])'
    BY <1>0, <1>a, <1>b, <1>c DEF Acts, TypeOK
  <2>2. ASSUME NEW q \in Proc \ {p}, NEW d \in Dir, Acts(q, d) PROVE Acts(q, d)'
    BY <1>0, <1>b, <1>c, <2>2 DEF Acts
  <2> QED
    BY <1>0, <1>c, <2>1, <2>2 DEF Helpers
<1>7. Journals'
  BY <1>0, <1>a, <1>b, <1>c DEF TypeOK, Snapshots, Journals
<1>8. ResidueHasEvidence'
  BY <1>0, <1>a, <1>b, <1>c DEF TypeOK, Paths, ResidueHasEvidence, Slot
<1>9. HelperResidueOwned'
  BY <1>0, <1>a, <1>b, <1>c DEF TypeOK, Paths, HelperResidueOwned
<1> QED
  BY <1>1, <1>2, <1>3, <1>4, <1>5, <1>6, <1>7, <1>8, <1>9

\* Nothing is taken back yet.
LEMMA CancelUninstallInv == NoReuse => \A p \in Proc : Inv /\ CancelUninstall(p) => Inv'
<1> SUFFICES ASSUME NoReuse, NEW p \in Proc, Inv, CancelUninstall(p) PROVE Inv'
  OBVIOUS
<1> USE NoneAssumption, DirAssumption DEF Inv, CancelUninstall, Goto, disk, own, helper,
      Fault, Holding, Entered
<1>0. Holds(p)
  BY Possession DEF Entered
<1>1. TypeOK'
  BY <1>0 DEF TypeOK, Journal, Place, Slot, Step, HelperStep, Command
<1>2. Paths'
  BY <1>0 DEF TypeOK, Paths, Slot
<1>3. Locks'
  BY <1>0 DEF TypeOK, Locks
<1>4. Snapshots'
  BY <1>0 DEF TypeOK, Paths, Snapshots, Slot
<1>5. Creations'
  BY <1>0 DEF TypeOK, Paths, Snapshots, Creations, Slot
<1>6. Helpers'
  BY <1>0 DEF TypeOK, Helpers, Acts
<1>7. Journals'
  BY <1>0 DEF TypeOK, Snapshots, Journals
<1>8. ResidueHasEvidence'
  BY <1>0 DEF TypeOK, Paths, ResidueHasEvidence, Slot
<1>9. HelperResidueOwned'
  BY <1>0 DEF TypeOK, Paths, HelperResidueOwned
<1> QED
  BY <1>1, <1>2, <1>3, <1>4, <1>5, <1>6, <1>7, <1>8, <1>9

\* The helper file goes before the journal.
LEMMA CancelHelperInv == NoReuse => \A p \in Proc : Inv /\ CancelHelper(p) => Inv'
<1> SUFFICES ASSUME NoReuse, NEW p \in Proc, Inv, CancelHelper(p) PROVE Inv'
  OBVIOUS
<1> USE NoneAssumption, DirAssumption DEF Inv, CancelHelper, Goto, disk, own, helper, Holding,
      Entered, Holds
<1>0. Holds(p)
  BY Possession DEF Entered
<1>a. helperFile' = helperFile \ {journal[fd[p]].token} /\ journal' = journal
  BY <1>0 DEF Holds, RemoveStale
<1>1. TypeOK'
  BY <1>0, <1>a DEF TypeOK, Journal, Place, Slot, Step, HelperStep, Command
<1>2. Paths'
  BY <1>0, <1>a DEF TypeOK, Paths, Slot
<1>3. Locks'
  BY <1>0, <1>a DEF TypeOK, Locks
<1>4. Snapshots'
  BY <1>0, <1>a DEF TypeOK, Paths, Snapshots, Slot
<1>5. Creations'
  BY <1>0, <1>a DEF TypeOK, Paths, Snapshots, Creations, Slot
<1>6. Helpers'
  BY <1>0, <1>a DEF TypeOK, Helpers, Acts
<1>7. Journals'
  BY <1>0, <1>a DEF TypeOK, Snapshots, Journals
<1>8. ResidueHasEvidence'
  BY <1>0, <1>a DEF TypeOK, Paths, ResidueHasEvidence, Slot
<1>9. HelperResidueOwned'
  BY <1>0, <1>a DEF TypeOK, Paths, HelperResidueOwned
<1> QED
  BY <1>1, <1>2, <1>3, <1>4, <1>5, <1>6, <1>7, <1>8, <1>9

\* The command takes its own journal back and leaves.
LEMMA CancelJournalInv == NoReuse => \A p \in Proc : Inv /\ CancelJournal(p) => Inv'
<1> SUFFICES ASSUME NoReuse, NEW p \in Proc, Inv, CancelJournal(p) PROVE Inv'
  OBVIOUS
<1> USE NoneAssumption, DirAssumption DEF Inv, CancelJournal, Leave, Forget, DropRef, Goto,
      disk, own, helper, Holding, Entered, Holds
<1>0. Holds(p)
  BY Possession DEF Entered
<1>a. journal' = [journal EXCEPT ![fd[p]] = NoJournal]
  BY <1>0 DEF Holds
<1>b. \A d \in Dir : journal'[d] = IF d = fd[p] THEN NoJournal ELSE journal[d]
  BY <1>a DEF TypeOK
<1>1. TypeOK'
  BY <1>0, <1>a, <1>b DEF TypeOK, Journal, Place, Slot, Step, HelperStep, Command
<1>2. Paths'
  BY <1>0, <1>a, <1>b DEF TypeOK, Paths, Slot
<1>3. Locks'
  BY <1>0, <1>a, <1>b DEF TypeOK, Locks
<1>4. Snapshots'
  BY <1>0, <1>a, <1>b DEF TypeOK, Paths, Snapshots, Slot
<1>5. Creations'
  BY <1>0, <1>a, <1>b DEF TypeOK, Paths, Snapshots, Creations, Slot
<1>6. Helpers'
  BY <1>0, <1>a, <1>b DEF TypeOK, Helpers, Acts
<1>7. Journals'
  BY <1>0, <1>a, <1>b DEF TypeOK, Snapshots, Journals
<1>8. ResidueHasEvidence'
  BY <1>0, <1>a, <1>b DEF TypeOK, Paths, ResidueHasEvidence, Slot
<1>9. HelperResidueOwned'
  <2> SUFFICES ASSUME NEW t \in helperFile
               PROVE  \E d \in Dir : place[d] \in Slot /\ journal'[d] \in Journal /\ journal'[d].token = t
    BY DEF HelperResidueOwned
  <2>1. PICK d \in Dir : place[d] \in Slot /\ journal[d] \in Journal /\ journal[d].token = t
    BY DEF HelperResidueOwned
  <2>a. pc[p] = "cancelled"
    OBVIOUS
  <2>b. journal[fd[p]] = [phase |-> "scheduled", token |-> p] /\ p \notin helperFile
    BY <2>a DEF Journals
  <2>2. journal[fd[p]].token = p /\ p \notin helperFile
    BY <2>b
  <2>3. d # fd[p]
    BY <2>1, <2>2
  <2> QED
    BY <1>b, <2>1, <2>3
<1> QED
  BY <1>1, <1>2, <1>3, <1>4, <1>5, <1>6, <1>7, <1>8, <1>9

\* The running helper does not need its file.
LEMMA UnlinkHelperInv == NoReuse => \A p \in Proc : Inv /\ UnlinkHelper(p) => Inv'
<1> SUFFICES ASSUME NoReuse, NEW p \in Proc, Inv, UnlinkHelper(p) PROVE Inv'
  OBVIOUS
<1> USE NoneAssumption, DirAssumption DEF Inv, UnlinkHelper, HGoto, disk, own, helper
<1>1. TypeOK'
  BY DEF TypeOK, Journal, Place, Slot, Step, HelperStep, Command
<1>2. Paths'
  BY DEF TypeOK, Paths, Slot
<1>3. Locks'
  BY DEF TypeOK, Locks
<1>4. Snapshots'
  BY DEF TypeOK, Paths, Snapshots, Slot
<1>5. Creations'
  BY DEF TypeOK, Paths, Snapshots, Creations, Slot
<1>6. Helpers'
  BY DEF TypeOK, Helpers, Acts
<1>7. Journals'
  BY DEF TypeOK, Snapshots, Journals
<1>8. ResidueHasEvidence'
  BY DEF TypeOK, Paths, ResidueHasEvidence, Slot
<1>9. HelperResidueOwned'
  BY DEF TypeOK, Paths, HelperResidueOwned
<1> QED
  BY <1>1, <1>2, <1>3, <1>4, <1>5, <1>6, <1>7, <1>8, <1>9

\* The helper finds its root and its journal.
LEMMA AcceptHandoffInv == NoReuse => \A p \in Proc : Inv /\ AcceptHandoff(p) => Inv'
<1> SUFFICES ASSUME NoReuse, NEW p \in Proc, Inv, AcceptHandoff(p) PROVE Inv'
  OBVIOUS
<1> USE NoneAssumption, DirAssumption DEF Inv, AcceptHandoff, HGoto, disk, own, helper
<1>1. TypeOK'
  BY DEF TypeOK, Journal, Place, Slot, Step, HelperStep, Command
<1>2. Paths'
  BY DEF TypeOK, Paths, Slot
<1>3. Locks'
  BY DEF TypeOK, Locks
<1>4. Snapshots'
  BY DEF TypeOK, Paths, Snapshots, Slot
<1>5. Creations'
  BY DEF TypeOK, Paths, Snapshots, Creations, Slot
<1>6. Helpers'
  <2>1. PICK d \in Dir : Acts(p, d)
    BY DEF Helpers
  <2>2. hslot[p] \in Slot /\ place[d] = hslot[p]
    BY <2>1 DEF TypeOK, Acts
  <2>a. ASSUME NEW e \in Dir, place[e] = hslot[p] PROVE e = d /\ ino[e] = d
    BY <2>2, <2>a DEF Paths, Slot
  <2>b. hsnap' = [hsnap EXCEPT ![p] = d]
    BY <2>a
  <2>3. Acts(p, d)'
    BY <2>1, <2>b DEF TypeOK, Acts
  <2>4. ASSUME NEW q \in Proc \ {p}, NEW e \in Dir, Acts(q, e) PROVE Acts(q, e)'
    BY <2>4 DEF TypeOK, Acts
  <2> QED
    BY <2>1, <2>3, <2>4 DEF TypeOK, Helpers
<1>7. Journals'
  BY DEF TypeOK, Snapshots, Journals
<1>8. ResidueHasEvidence'
  BY DEF TypeOK, Paths, ResidueHasEvidence, Slot
<1>9. HelperResidueOwned'
  BY DEF TypeOK, Paths, HelperResidueOwned
<1> QED
  BY <1>1, <1>2, <1>3, <1>4, <1>5, <1>6, <1>7, <1>8, <1>9

\* The journal tells that a detached root may exist.
LEMMA SetDetachingInv == NoReuse => \A p \in Proc : Inv /\ SetDetaching(p) => Inv'
<1> SUFFICES ASSUME NoReuse, NEW p \in Proc, Inv, SetDetaching(p) PROVE Inv'
  OBVIOUS
<1> USE NoneAssumption, DirAssumption DEF Inv, SetDetaching, HGoto, disk, own, helper,
      Entered, Owns, Acts
<1>0. PICK d \in Dir : Owns(p, d)
  BY Agency
<1>a. journal' = [journal EXCEPT ![d] = [phase |-> "detaching", token |-> p]]
  BY <1>0 DEF Owns, SetPhase
<1>b. \A e \in Dir : journal'[e] = IF e = d THEN [phase |-> "detaching", token |-> p] ELSE journal[e]
  BY <1>0, <1>a DEF TypeOK, Owns
<1>c. /\ [phase |-> "detaching", token |-> p] \in Journal /\ [phase |-> "detaching", token |-> p].token = p
      /\ journal[d] \in Journal /\ journal[d].token = p
  BY <1>0 DEF Journal, Owns, Acts
<1>1. TypeOK'
  BY <1>0, <1>a, <1>b, <1>c DEF TypeOK, Journal, Place, Slot, Step, HelperStep, Command
<1>2. Paths'
  BY <1>0, <1>a, <1>b, <1>c DEF TypeOK, Paths, Slot
<1>3. Locks'
  BY <1>0, <1>a, <1>b, <1>c DEF TypeOK, Locks
<1>4. Snapshots'
  BY <1>0, <1>a, <1>b, <1>c DEF TypeOK, Paths, Snapshots, Slot
<1>5. Creations'
  BY <1>0, <1>a, <1>b, <1>c DEF TypeOK, Paths, Snapshots, Creations, Slot
<1>6. Helpers'
  BY <1>0, <1>a, <1>b, <1>c DEF TypeOK, Helpers, Acts
<1>7. Journals'
  BY <1>0, <1>a, <1>b, <1>c DEF TypeOK, Snapshots, Journals
<1>8. ResidueHasEvidence'
  BY <1>0, <1>a, <1>b, <1>c DEF TypeOK, Paths, ResidueHasEvidence, Slot
<1>9. HelperResidueOwned'
  BY <1>0, <1>a, <1>b, <1>c DEF TypeOK, Paths, HelperResidueOwned
<1> QED
  BY <1>1, <1>2, <1>3, <1>4, <1>5, <1>6, <1>7, <1>8, <1>9

\* The root leaves its slot, and with it nobody but its helper.
LEMMA DetachInv == NoReuse => \A p \in Proc : Inv /\ Detach(p) => Inv'
<1> SUFFICES ASSUME NoReuse, NEW p \in Proc, Inv, Detach(p) PROVE Inv'
  OBVIOUS
<1> USE NoneAssumption, DirAssumption DEF Inv, Detach, HGoto, disk, own, helper, Entered,
      Owns, Acts, Residue
<1>0. PICK d \in Dir : Owns(p, d)
  BY Agency
<1>a. place' = [place EXCEPT ![d] = p]
  BY <1>0 DEF Owns, Paths, Acts
<1>b. \A e \in Dir : place'[e] = IF e = d THEN p ELSE place[e]
  BY <1>0, <1>a DEF TypeOK, Owns
<1>c. p \notin Slot \cup {"none", "private"}
  OBVIOUS
<1>1. TypeOK'
  BY <1>0, <1>a, <1>b, <1>c DEF TypeOK, Journal, Place, Slot, Step, HelperStep, Command
<1>2. Paths'
  BY <1>0, <1>a, <1>b, <1>c DEF TypeOK, Paths, Slot
<1>3. Locks'
  BY <1>0, <1>a, <1>b, <1>c DEF TypeOK, Locks
<1>4. Snapshots'
  BY <1>0, <1>a, <1>b, <1>c DEF TypeOK, Paths, Snapshots, Slot
<1>5. Creations'
  BY <1>0, <1>a, <1>b, <1>c DEF TypeOK, Paths, Snapshots, Creations, Slot
<1>6. Helpers'
  BY <1>0, <1>a, <1>b, <1>c DEF TypeOK, Helpers, Acts
<1>7. Journals'
  BY <1>0, <1>a, <1>b, <1>c DEF TypeOK, Snapshots, Journals
<1>8. ResidueHasEvidence'
  BY <1>0, <1>a, <1>b, <1>c DEF TypeOK, Paths, ResidueHasEvidence, Slot, Helpers
<1>9. HelperResidueOwned'
  BY <1>0, <1>a, <1>b, <1>c DEF TypeOK, Paths, HelperResidueOwned, Helpers
<1> QED
  BY <1>1, <1>2, <1>3, <1>4, <1>5, <1>6, <1>7, <1>8, <1>9

\* The root stays, with a journal that tells why.
LEMMA DetachFailsInv == NoReuse => \A p \in Proc : Inv /\ DetachFails(p) => Inv'
<1> SUFFICES ASSUME NoReuse, NEW p \in Proc, Inv, DetachFails(p) PROVE Inv'
  OBVIOUS
<1> USE NoneAssumption, DirAssumption DEF Inv, DetachFails, HGoto, disk, own, helper,
      HelperDrop, Fault, Entered, Owns, Acts
<1>0. PICK d \in Dir : Owns(p, d)
  BY Agency
<1>a. journal' = [journal EXCEPT ![d] = [phase |-> "failed", token |-> p]]
  BY <1>0 DEF Owns, SetPhase
<1>b. \A e \in Dir : journal'[e] = IF e = d THEN [phase |-> "failed", token |-> p] ELSE journal[e]
  BY <1>0, <1>a DEF TypeOK, Owns
<1>c. /\ [phase |-> "failed", token |-> p] \in Journal /\ [phase |-> "failed", token |-> p].token = p
      /\ journal[d] \in Journal /\ journal[d].token = p
  BY <1>0 DEF Journal, Owns, Acts
<1>1. TypeOK'
  BY <1>0, <1>a, <1>b, <1>c DEF TypeOK, Journal, Place, Slot, Step, HelperStep, Command
<1>2. Paths'
  BY <1>0, <1>a, <1>b, <1>c DEF TypeOK, Paths, Slot
<1>3. Locks'
  BY <1>0, <1>a, <1>b, <1>c DEF TypeOK, Locks
<1>4. Snapshots'
  BY <1>0, <1>a, <1>b, <1>c DEF TypeOK, Paths, Snapshots, Slot
<1>5. Creations'
  BY <1>0, <1>a, <1>b, <1>c DEF TypeOK, Paths, Snapshots, Creations, Slot
<1>6. Helpers'
  BY <1>0, <1>a, <1>b, <1>c DEF TypeOK, Helpers, Acts
<1>7. Journals'
  BY <1>0, <1>a, <1>b, <1>c DEF TypeOK, Snapshots, Journals
<1>8. ResidueHasEvidence'
  BY <1>0, <1>a, <1>b, <1>c DEF TypeOK, Paths, ResidueHasEvidence, Slot
<1>9. HelperResidueOwned'
  BY <1>0, <1>a, <1>b, <1>c DEF TypeOK, Paths, HelperResidueOwned
<1> QED
  BY <1>1, <1>2, <1>3, <1>4, <1>5, <1>6, <1>7, <1>8, <1>9

\* The detached root is the one that the journal names.
LEMMA ReadDetachedInv == NoReuse => \A p \in Proc : Inv /\ ReadDetached(p) => Inv'
<1> SUFFICES ASSUME NoReuse, NEW p \in Proc, Inv, ReadDetached(p) PROVE Inv'
  OBVIOUS
<1> USE NoneAssumption, DirAssumption DEF Inv, ReadDetached, HGoto, disk, own, helper
<1>1. TypeOK'
  BY DEF TypeOK, Journal, Place, Slot, Step, HelperStep, Command
<1>2. Paths'
  BY DEF TypeOK, Paths, Slot
<1>3. Locks'
  BY DEF TypeOK, Locks
<1>4. Snapshots'
  BY DEF TypeOK, Paths, Snapshots, Slot
<1>5. Creations'
  BY DEF TypeOK, Paths, Snapshots, Creations, Slot
<1>6. Helpers'
  BY DEF TypeOK, Helpers, Acts
<1>7. Journals'
  BY DEF TypeOK, Snapshots, Journals
<1>8. ResidueHasEvidence'
  BY DEF TypeOK, Paths, ResidueHasEvidence, Slot
<1>9. HelperResidueOwned'
  BY DEF TypeOK, Paths, HelperResidueOwned
<1> QED
  BY <1>1, <1>2, <1>3, <1>4, <1>5, <1>6, <1>7, <1>8, <1>9

\* Contents go while the journal stays.
LEMMA PurgeInv == NoReuse => \A p \in Proc : Inv /\ Purge(p) => Inv'
<1> SUFFICES ASSUME NoReuse, NEW p \in Proc, Inv, Purge(p) PROVE Inv'
  OBVIOUS
<1> USE NoneAssumption, DirAssumption DEF Inv, Purge, HGoto, disk, own, helper, Entered
<1>1. TypeOK'
  BY DEF TypeOK, Journal, Place, Slot, Step, HelperStep, Command
<1>2. Paths'
  BY DEF TypeOK, Paths, Slot
<1>3. Locks'
  BY DEF TypeOK, Locks
<1>4. Snapshots'
  BY DEF TypeOK, Paths, Snapshots, Slot
<1>5. Creations'
  BY DEF TypeOK, Paths, Snapshots, Creations, Slot
<1>6. Helpers'
  BY DEF TypeOK, Helpers, Acts
<1>7. Journals'
  BY DEF TypeOK, Snapshots, Journals
<1>8. ResidueHasEvidence'
  BY DEF TypeOK, Paths, ResidueHasEvidence, Slot
<1>9. HelperResidueOwned'
  BY DEF TypeOK, Paths, HelperResidueOwned
<1> QED
  BY <1>1, <1>2, <1>3, <1>4, <1>5, <1>6, <1>7, <1>8, <1>9

\* The journal goes when nothing else is left.
LEMMA PurgeJournalInv == NoReuse => \A p \in Proc : Inv /\ PurgeJournal(p) => Inv'
<1> SUFFICES ASSUME NoReuse, NEW p \in Proc, Inv, PurgeJournal(p) PROVE Inv'
  OBVIOUS
<1> USE NoneAssumption, DirAssumption DEF Inv, PurgeJournal, HGoto, disk, own, helper,
      Entered, JournalLast
<1>1. TypeOK'
  BY DEF TypeOK, Journal, Place, Slot, Step, HelperStep, Command
<1>2. Paths'
  BY DEF TypeOK, Paths, Slot
<1>3. Locks'
  BY DEF TypeOK, Locks
<1>4. Snapshots'
  BY DEF TypeOK, Paths, Snapshots, Slot
<1>5. Creations'
  BY DEF TypeOK, Paths, Snapshots, Creations, Slot
<1>6. Helpers'
  BY DEF TypeOK, Helpers, Acts
<1>7. Journals'
  BY DEF TypeOK, Snapshots, Journals
<1>8. ResidueHasEvidence'
  BY DEF TypeOK, Paths, ResidueHasEvidence, Slot
<1>9. HelperResidueOwned'
  BY DEF TypeOK, Paths, HelperResidueOwned
<1> QED
  BY <1>1, <1>2, <1>3, <1>4, <1>5, <1>6, <1>7, <1>8, <1>9

\* The detached directory is deleted.
LEMMA RemoveRootInv == NoReuse => \A p \in Proc : Inv /\ RemoveRoot(p) => Inv'
<1> SUFFICES ASSUME NoReuse, NEW p \in Proc, Inv, RemoveRoot(p) PROVE Inv'
  OBVIOUS
<1> USE NoneAssumption, DirAssumption DEF Inv, RemoveRoot, HGoto, disk, own, helper,
      HelperDrop, Delete, Entered
<1>1. TypeOK'
  BY DEF TypeOK, Journal, Place, Slot, Step, HelperStep, Command
<1>2. Paths'
  BY DEF TypeOK, Paths, Slot
<1>3. Locks'
  BY DEF TypeOK, Locks
<1>4. Snapshots'
  BY DEF TypeOK, Paths, Snapshots, Slot
<1>5. Creations'
  BY DEF TypeOK, Paths, Snapshots, Creations, Slot
<1>6. Helpers'
  BY DEF TypeOK, Helpers, Acts
<1>7. Journals'
  BY DEF TypeOK, Snapshots, Journals
<1>8. ResidueHasEvidence'
  BY DEF TypeOK, Paths, ResidueHasEvidence, Slot
<1>9. HelperResidueOwned'
  BY DEF TypeOK, Paths, HelperResidueOwned
<1> QED
  BY <1>1, <1>2, <1>3, <1>4, <1>5, <1>6, <1>7, <1>8, <1>9

\* A fresh private directory.
LEMMA BuildPrivateInv == NoReuse => \A p \in Proc : Inv /\ BuildPrivate(p) => Inv'
<1> SUFFICES ASSUME NoReuse, NEW p \in Proc, Inv, BuildPrivate(p) PROVE Inv'
  OBVIOUS
<1> USE NoneAssumption, DirAssumption DEF Inv, BuildPrivate, Goto, disk, own, helper, Fresh,
      Create, Open, NoReuse, Holding, Entered
<1>1. TypeOK'
  BY DEF TypeOK, Journal, Place, Slot, Step, HelperStep, Command
<1>2. Paths'
  BY DEF TypeOK, Paths, Slot
<1>3. Locks'
  BY DEF TypeOK, Locks
<1>4. Snapshots'
  BY DEF TypeOK, Paths, Snapshots, Slot
<1>5. Creations'
  BY DEF TypeOK, Paths, Snapshots, Creations, Slot
<1>6. Helpers'
  BY DEF TypeOK, Helpers, Acts
<1>7. Journals'
  BY DEF TypeOK, Snapshots, Journals
<1>8. ResidueHasEvidence'
  BY DEF TypeOK, Paths, ResidueHasEvidence, Slot
<1>9. HelperResidueOwned'
  BY DEF TypeOK, Paths, HelperResidueOwned
<1> QED
  BY <1>1, <1>2, <1>3, <1>4, <1>5, <1>6, <1>7, <1>8, <1>9

\* The slot is still free.
LEMMA SelectAgainInv == NoReuse => \A p \in Proc : Inv /\ SelectAgain(p) => Inv'
<1> SUFFICES ASSUME NoReuse, NEW p \in Proc, Inv, SelectAgain(p) PROVE Inv'
  OBVIOUS
<1> USE NoneAssumption, DirAssumption DEF Inv, SelectAgain, Goto, disk, own, helper, Holding,
      Entered
<1>1. TypeOK'
  BY DEF TypeOK, Journal, Place, Slot, Step, HelperStep, Command
<1>2. Paths'
  BY DEF TypeOK, Paths, Slot
<1>3. Locks'
  BY DEF TypeOK, Locks
<1>4. Snapshots'
  BY DEF TypeOK, Paths, Snapshots, Slot
<1>5. Creations'
  BY DEF TypeOK, Paths, Snapshots, Creations, Slot
<1>6. Helpers'
  BY DEF TypeOK, Helpers, Acts
<1>7. Journals'
  BY DEF TypeOK, Snapshots, Journals
<1>8. ResidueHasEvidence'
  BY DEF TypeOK, Paths, ResidueHasEvidence, Slot
<1>9. HelperResidueOwned'
  BY DEF TypeOK, Paths, HelperResidueOwned
<1> QED
  BY <1>1, <1>2, <1>3, <1>4, <1>5, <1>6, <1>7, <1>8, <1>9

\* The private directory is moved to the free slot.
LEMMA PublishRootInv == NoReuse => \A p \in Proc : Inv /\ PublishRoot(p) => Inv'
<1> SUFFICES ASSUME NoReuse, NEW p \in Proc, Inv, PublishRoot(p) PROVE Inv'
  OBVIOUS
<1> USE NoneAssumption, DirAssumption DEF Inv, PublishRoot, Leave, Forget, DropRef, Goto,
      disk, own, helper, Occupied, Holding, Entered
<1>0. fd[p] \in Dir /\ slot[p] \in Slot /\ place[fd[p]] = "private" /\ \A q \in Proc \ {p} : fd[q] # fd[p]
  BY DEF TypeOK, Snapshots, Creations
<1>a. \A d \in Dir : place'[d] = IF d = fd[p] THEN slot[p] ELSE place[d]
  BY <1>0 DEF TypeOK
<1>b. \A q \in Proc : ~Acts(q, fd[p])
  BY <1>0 DEF TypeOK, Acts, Slot
<1>1. TypeOK'
  BY <1>0, <1>a, <1>b DEF TypeOK, Journal, Place, Slot, Step, HelperStep, Command
<1>2. Paths'
  BY <1>0, <1>a, <1>b DEF TypeOK, Paths, Slot
<1>3. Locks'
  BY <1>0, <1>a, <1>b DEF TypeOK, Locks
<1>4. Snapshots'
  BY <1>0, <1>a, <1>b DEF TypeOK, Paths, Snapshots, Slot
<1>5. Creations'
  BY <1>0, <1>a, <1>b DEF TypeOK, Paths, Snapshots, Creations, Slot
<1>6. Helpers'
  BY <1>0, <1>a, <1>b DEF TypeOK, Helpers, Acts
<1>7. Journals'
  BY <1>0, <1>a, <1>b DEF TypeOK, Snapshots, Journals
<1>8. ResidueHasEvidence'
  BY <1>0, <1>a, <1>b DEF TypeOK, Paths, ResidueHasEvidence, Slot
<1>9. HelperResidueOwned'
  BY <1>0, <1>a, <1>b DEF TypeOK, Paths, HelperResidueOwned
<1> QED
  BY <1>1, <1>2, <1>3, <1>4, <1>5, <1>6, <1>7, <1>8, <1>9

\* A directory that only its creator has open is deleted.
LEMMA DiscardInv ==
  ASSUME NEW p \in Proc, Inv, Leave(p), Delete(fd[p]),
         \/ pc[p] \in {"built", "checked"}
         \/ pc[p] = "mark" /\ \A q \in Proc \ {p} : fd[q] # fd[p],
         UNCHANGED <<journal, helperFile, helper>>, faults' \in Nat
  PROVE  Inv'
<1> USE NoneAssumption, DirAssumption DEF Inv, Leave, Forget, DropRef, Goto, disk, own,
      helper, Delete, Holding, Entered
<1>0. /\ fd[p] \in Dir /\ \A q \in Proc \ {p} : fd[q] # fd[p]
      /\ journal[fd[p]] = NoJournal /\ \A q \in Proc : ~Acts(q, fd[p])
  BY DEF TypeOK, Snapshots, Creations, Acts, Paths, Slot
<1>a. \A d \in Dir : place'[d] = IF d = fd[p] THEN "none" ELSE place[d]
  BY <1>0 DEF TypeOK
<1>c. \A d \in Dir : ino'[d] = IF d = fd[p] THEN NoDir ELSE ino[d]
  BY <1>0 DEF TypeOK
<1>b. \A d \in Dir : /\ marked'[d] = IF d = fd[p] THEN FALSE ELSE marked[d]
                     /\ payload'[d] = IF d = fd[p] THEN "whole" ELSE payload[d]
  BY <1>0 DEF TypeOK
<1>1. TypeOK'
  BY <1>0, <1>a, <1>c, <1>b DEF TypeOK, Journal, Place, Slot, Step, HelperStep, Command
<1>2. Paths'
  BY <1>0, <1>a, <1>c, <1>b DEF TypeOK, Paths, Slot
<1>3. Locks'
  BY <1>0, <1>a, <1>c, <1>b DEF TypeOK, Locks
<1>4. Snapshots'
  BY <1>0, <1>a, <1>c, <1>b DEF TypeOK, Paths, Snapshots, Slot
<1>5. Creations'
  BY <1>0, <1>a, <1>c, <1>b DEF TypeOK, Paths, Snapshots, Creations, Slot
<1>6. Helpers'
  BY <1>0, <1>a, <1>c, <1>b DEF TypeOK, Helpers, Acts
<1>7. Journals'
  BY <1>0, <1>a, <1>c, <1>b DEF TypeOK, Snapshots, Journals
<1>8. ResidueHasEvidence'
  BY <1>0, <1>a, <1>c, <1>b DEF TypeOK, Paths, ResidueHasEvidence, Slot
<1>9. HelperResidueOwned'
  BY <1>0, <1>a, <1>c, <1>b DEF TypeOK, Paths, HelperResidueOwned, Journal
<1> QED
  BY <1>1, <1>2, <1>3, <1>4, <1>5, <1>6, <1>7, <1>8, <1>9

\* The helper leaves the disk as it is.
LEMMA HelperStopInv == NoReuse => \A p \in Proc : Inv /\ HelperStop(p) => Inv'
<1> SUFFICES ASSUME NoReuse, NEW p \in Proc, Inv, HelperStop(p) PROVE Inv'
  OBVIOUS
<1> USE NoneAssumption, DirAssumption DEF Inv, HelperStop, HGoto, disk, own, helper,
      HelperDrop, Fault
<1>1. TypeOK'
  BY DEF TypeOK, Journal, Place, Slot, Step, HelperStep, Command
<1>2. Paths'
  BY DEF TypeOK, Paths, Slot
<1>3. Locks'
  BY DEF TypeOK, Locks
<1>4. Snapshots'
  BY DEF TypeOK, Paths, Snapshots, Slot
<1>5. Creations'
  BY DEF TypeOK, Paths, Snapshots, Creations, Slot
<1>6. Helpers'
  BY DEF TypeOK, Helpers, Acts
<1>7. Journals'
  BY DEF TypeOK, Snapshots, Journals
<1>8. ResidueHasEvidence'
  BY DEF TypeOK, Paths, ResidueHasEvidence, Slot
<1>9. HelperResidueOwned'
  BY DEF TypeOK, Paths, HelperResidueOwned
<1> QED
  BY <1>1, <1>2, <1>3, <1>4, <1>5, <1>6, <1>7, <1>8, <1>9

LEMMA InitInv == Init => Inv
<1> SUFFICES ASSUME Init PROVE Inv
  OBVIOUS
<1> USE NoneAssumption, DirAssumption DEF Init
<1>1. TypeOK
  BY DEF TypeOK, Place, Slot, Step, HelperStep, Command
<1>2. Paths
  BY DEF Paths, Slot
<1>3. Locks
  BY DEF Locks, Holding
<1>4. Snapshots
  BY DEF Snapshots, Entered
<1>5. Creations /\ Helpers
  BY DEF Creations, Helpers
<1>6. Journals
  BY DEF Journals
<1>7. ResidueHasEvidence /\ HelperResidueOwned
  BY DEF ResidueHasEvidence, HelperResidueOwned, Slot
<1> QED
  BY <1>1, <1>2, <1>3, <1>4, <1>5, <1>6, <1>7 DEF Inv

\* Steps that leave, or delete what only the process itself has open.
LEMMA EndInv ==
  ASSUME NEW p \in Proc, Inv,
         \/ Finish(p) \/ ParentExit(p) \/ Refuse(p)
         \/ DiscardPrivate(p) \/ MarkFails(p) \/ Stop(p)
  PROVE  Inv'
<1>0. faults \in Nat
  BY DEF Inv, TypeOK
<1>1. CASE Finish(p)
  BY <1>0, <1>1, LeaveInv DEF Finish
<1>2. CASE ParentExit(p)
  BY <1>0, <1>2, LeaveInv DEF ParentExit
<1>3. CASE Refuse(p)
  BY <1>0, <1>3, LeaveInv DEF Refuse
<1>4. CASE DiscardPrivate(p)
  BY <1>0, <1>4, DiscardInv DEF DiscardPrivate
<1>5. CASE MarkFails(p)
  BY <1>0, <1>5, DiscardInv DEF MarkFails, Fault
<1>6. CASE Stop(p)
  <2>1. CASE pc[p] \in {"built", "checked"}
    BY <1>0, <1>6, <2>1, DiscardInv DEF Stop, Fault
  <2>2. CASE pc[p] \notin {"built", "checked"}
    BY <1>0, <1>6, <2>2, LeaveInv DEF Stop, Fault
  <2> QED
    BY <2>1, <2>2
<1> QED
  BY <1>1, <1>2, <1>3, <1>4, <1>5, <1>6

LEMMA NextInv == NoReuse => (Inv /\ [Next]_vars => Inv')
<1> SUFFICES ASSUME NoReuse, Inv, [Next]_vars PROVE Inv'
  OBVIOUS
<1>1. CASE UNCHANGED vars
  BY <1>1 DEF vars, Inv, TypeOK, Paths, Locks, Snapshots, Creations, Helpers, Acts, Journals,
              ResidueHasEvidence, HelperResidueOwned
<1>2. ASSUME NEW p \in Proc, Run(p) PROVE Inv'
  BY <1>2, EndInv, OpenLockInv, LockInv, EnterInv, MakeRootInv, MarkRootInv, NothingPendingInv,
     RecoverHelperInv, RecoverJournalInv, PublishJournalInv, PrepareHelperInv, StartHelperInv,
     CancelUninstallInv, CancelHelperInv, CancelJournalInv, BuildPrivateInv, SelectAgainInv,
     PublishRootInv DEF Run
<1>3. ASSUME NEW p \in Proc, HelperRun(p) PROVE Inv'
  BY <1>3, UnlinkHelperInv, AcceptHandoffInv, SetDetachingInv, DetachInv, DetachFailsInv,
     ReadDetachedInv, PurgeInv, PurgeJournalInv, RemoveRootInv DEF HelperRun
<1> QED
  BY <1>1, <1>2, <1>3, EndInv, SelectInv, HelperStopInv DEF Next

THEOREM Invariance == ASSUME NoReuse PROVE Spec => []Inv
<1>1. Init => Inv
  BY InitInv
<1>2. Inv /\ [Next]_vars => Inv'
  BY NextInv
<1> QED
  BY <1>1, <1>2, PTL DEF Spec

\* Every variable keeps its type.
THEOREM TypeCorrect == ASSUME NoReuse PROVE Spec => []TypeOK
<1>1. Inv => TypeOK
  BY DEF Inv
<1> QED
  BY <1>1, Invariance, PTL

\* Whoever changes a root is alone there: command_context's lock and snapshot
\* validation exclude other commands, and the handed-over lock a recovery.
THEOREM Exclusion == ASSUME NoReuse PROVE Spec => []ExclusiveAccess
<1>1. Inv => ExclusiveAccess
  <2> SUFFICES ASSUME Inv, NEW s \in Slot, NEW x \in Acting(s), NEW y \in Acting(s) PROVE x = y
    BY DEF ExclusiveAccess
  <2>1. ASSUME NEW p \in Proc, NEW q \in Proc, Inside(p), Inside(q), slot[p] = s, slot[q] = s
        PROVE  p = q
    <3>1. Holds(p) /\ Holds(q)
      BY <2>1, Possession DEF Inside, Entered
    <3>2. pc[q] \in Entered /\ fd[p] = fd[q]
      BY <2>1, <3>1 DEF Holds, Inside, Entered, At
    <3> QED
      BY <3>1, <3>2 DEF Holds
  <2>2. ASSUME NEW p \in Proc, NEW q \in Proc, Inside(p), hpc[q] \in {"validated", "move"},
               slot[p] = s, hslot[q] = s
        PROVE  FALSE
    <3>1. Holds(p) /\ pc[p] \in Entered
      BY <2>2, Possession DEF Inside, Entered
    <3>2. PICK d \in Dir : Owns(q, d)
      BY <2>2, Agency
    <3> QED
      BY <2>2, <3>1, <3>2 DEF Holds, Owns
  <2>3. ASSUME NEW p \in Proc, NEW q \in Proc, hpc[p] \in {"validated", "move"},
               hpc[q] \in {"validated", "move"}, hslot[p] = s, hslot[q] = s
        PROVE  p = q
    <3>1. PICK d \in Dir : Owns(p, d)
      BY <2>3, Agency
    <3>2. PICK e \in Dir : Owns(q, e)
      BY <2>3, Agency
    <3> QED
      BY <2>3, <3>1, <3>2 DEF Owns
  <2> QED
    BY <2>1, <2>2, <2>3 DEF Acting
<1> QED
  BY <1>1, Invariance, PTL

\* No root is detached or deleted under a command that has locked and validated it.
THEOREM RootKept == ASSUME NoReuse PROVE Spec => []RootStays
<1>1. Inv => RootStays
  BY Possession DEF RootStays, Inside, Entered, Holds
<1> QED
  BY <1>1, Invariance, PTL

\* The helper of an uninstall keeps lock and journal until the detaching move.
THEOREM HandoffUnbroken == ASSUME NoReuse PROVE Spec => []HandoffHolds
<1>1. Inv => HandoffHolds
  <2> SUFFICES ASSUME Inv, NEW p \in Proc, hpc[p] \in {"started", "wait", "validated", "move"}
               PROVE  \E d \in Dir : /\ place[d] = hslot[p] /\ p \in heir[d]
                                     /\ journal[d] \in Journal /\ journal[d].token = p
    BY DEF HandoffHolds
  <2>1. PICK d \in Dir : Acts(p, d)
    BY DEF Inv, Helpers
  <2>2. journal[d] \in Journal /\ journal[d].token = p
    BY <2>1 DEF Acts, Journal
  <2> QED
    BY <2>1, <2>2 DEF Acts
<1> QED
  BY <1>1, Invariance, PTL

\* What an interrupted deletion leaves is detached and still identifies itself,
\* and every helper executable beside the root can be found by recovery.
THEOREM ResidueFound == ASSUME NoReuse PROVE Spec => []ResidueIdentified
<1>1. Inv => ResidueIdentified
  BY DEF Inv, ResidueIdentified
<1> QED
  BY <1>1, Invariance, PTL

(***************************************************************************)
(* One root, for installed builds.                                         *)
(***************************************************************************)

Foreign  == \E d \in Dir : place[d] = "primary" /\ ~marked[d]
Fallback == Owned("fallback") \/ \E p \in Proc : pc[p] = "checked" /\ slot[p] = "fallback"

\* A fallback is only built beside a directory that is not cup's, which stays.
Beside == (\A p \in Proc : pc[p] # "mark") /\ (Fallback => Foreign)

Discarding(p) == pc[p] \in {"built", "checked"} /\ Delete(fd[p]) /\ Leave(p)

\* The steps that move, mark or delete directories.
LEMMA MovingSteps ==
  ASSUME ~Development, Next, \A p \in Proc : pc[p] # "mark"
  PROVE  \/ UNCHANGED <<place, marked>>
         \/ \E p \in Proc : Detach(p) \/ BuildPrivate(p) \/ PublishRoot(p) \/ Discarding(p) \/ RemoveRoot(p)
<1> USE DEF disk
<1>1. ASSUME NEW p \in Proc, Run(p)
      PROVE  UNCHANGED <<place, marked>> \/ BuildPrivate(p) \/ PublishRoot(p) \/ Discarding(p)
  <2>1. ~MakeRoot(p) /\ ~MarkRoot(p) /\ ~MarkFails(p)
    BY DEF MakeRoot, Initializes, MarkRoot, MarkFails
  <2>2. OpenLock(p) \/ Lock(p) \/ Enter(p) \/ Finish(p) \/ Refuse(p) => UNCHANGED <<place, marked>>
    BY DEF OpenLock, Lock, Enter, Finish, Refuse
  <2>3. NothingPending(p) \/ RecoverHelper(p) \/ RecoverJournal(p) => UNCHANGED <<place, marked>>
    BY DEF NothingPending, RecoverHelper, RecoverJournal
  <2>4. PublishJournal(p) \/ PrepareHelper(p) \/ StartHelper(p) \/ ParentExit(p)
          => UNCHANGED <<place, marked>>
    BY DEF PublishJournal, PrepareHelper, StartHelper, ParentExit
  <2>5. CancelUninstall(p) \/ CancelHelper(p) \/ CancelJournal(p) \/ SelectAgain(p)
          => UNCHANGED <<place, marked>>
    BY DEF CancelUninstall, CancelHelper, CancelJournal, SelectAgain
  <2>6. DiscardPrivate(p) => Discarding(p)
    BY DEF DiscardPrivate, Discarding
  <2> QED
    BY <1>1, <2>1, <2>2, <2>3, <2>4, <2>5, <2>6 DEF Run
<1>2. ASSUME NEW p \in Proc, HelperRun(p)
      PROVE  UNCHANGED <<place, marked>> \/ Detach(p) \/ RemoveRoot(p)
  <2>1. UnlinkHelper(p) \/ AcceptHandoff(p) \/ SetDetaching(p) \/ DetachFails(p)
          => UNCHANGED <<place, marked>>
    BY DEF UnlinkHelper, AcceptHandoff, SetDetaching, DetachFails
  <2>2. ReadDetached(p) \/ Purge(p) \/ PurgeJournal(p) => UNCHANGED <<place, marked>>
    BY DEF ReadDetached, Purge, PurgeJournal
  <2> QED
    BY <1>2, <2>1, <2>2 DEF HelperRun
<1>3. ASSUME NEW p \in Proc, Stop(p) PROVE UNCHANGED <<place, marked>> \/ Discarding(p)
  BY <1>3 DEF Stop, Discarding
<1>4. ASSUME NEW p \in Proc, Select(p) \/ HelperStop(p) PROVE UNCHANGED <<place, marked>>
  BY <1>4 DEF Select, HelperStop
<1> QED
  BY <1>1, <1>2, <1>3, <1>4 DEF Next

\* What is not cup's is left alone.
LEMMA ForeignStays ==
  ASSUME ~Development, Inv, Next, \A p \in Proc : pc[p] # "mark",
         NEW d \in Dir, place[d] = "primary", ~marked[d]
  PROVE  place'[d] = "primary" /\ ~marked'[d]
<1>0. place \in [Dir -> Place] /\ marked \in [Dir -> BOOLEAN] /\ "primary" \notin Proc
  BY NoneAssumption DEF Inv, TypeOK, Slot
<1>1. ASSUME NEW p \in Proc, Detach(p) PROVE marked' = marked /\ place'[d] = place[d]
  <2>1. PICK e \in Dir : Owns(p, e)
    BY <1>1, Agency DEF Detach
  <2>2. place' = [place EXCEPT ![e] = p] /\ marked[e]
    BY <1>1, <2>1 DEF Detach, Owns, Acts, At
  <2> QED
    BY <1>0, <1>1, <2>2 DEF Detach
<1>2. ASSUME NEW p \in Proc, BuildPrivate(p) PROVE marked'[d] = marked[d] /\ place'[d] = place[d]
  BY <1>0, <1>2 DEF BuildPrivate, Fresh, Create
<1>3. ASSUME NEW p \in Proc, PublishRoot(p) \/ Discarding(p)
      PROVE  marked'[d] = marked[d] /\ place'[d] = place[d]
  <2>1. place[fd[p]] = "private"
    BY <1>3 DEF PublishRoot, Discarding, Inv, Creations
  <2> QED
    BY <1>0, <1>3, <2>1 DEF PublishRoot, Discarding, Delete
<1>4. ASSUME NEW p \in Proc, RemoveRoot(p) PROVE marked'[d] = marked[d] /\ place'[d] = place[d]
  BY <1>0, <1>4 DEF RemoveRoot, Delete
<1> QED
  BY <1>1, <1>2, <1>3, <1>4, MovingSteps

\* Only SelectAgain lets an installer publish.
LEMMA CheckedSteps ==
  ASSUME ~Development, Inv, Next, NEW q \in Proc, pc'[q] \in {"checked", "mark"}, pc[q] # "mark"
  PROVE  pc'[q] = "checked" /\ (SelectAgain(q) \/ (pc[q] = "checked" /\ slot'[q] = slot[q]))
<1> USE DEF Goto, own, helper
<1>0. pc \in [Proc -> Step] /\ slot \in [Proc -> Slot]
  BY DEF Inv, TypeOK
<1>1. ASSUME NEW p \in Proc, Leave(p) PROVE q # p /\ pc'[q] = pc[q] /\ slot'[q] = slot[q]
  BY <1>0, <1>1 DEF Leave, Forget
<1>2. ASSUME NEW p \in Proc, Run(p)
      PROVE  SelectAgain(q) \/ (pc'[q] = pc[q] /\ slot'[q] = slot[q])
  <2>1. CASE OpenLock(p) \/ Lock(p) \/ Enter(p) \/ MarkRoot(p) \/ MakeRoot(p)
    BY <1>0, <2>1 DEF OpenLock, Lock, Enter, MarkRoot, MakeRoot, Initializes
  <2>2. CASE NothingPending(p) \/ RecoverHelper(p) \/ RecoverJournal(p)
    BY <1>0, <2>2 DEF NothingPending, RecoverHelper, RecoverJournal, Recovered
  <2>3. CASE PublishJournal(p) \/ PrepareHelper(p) \/ StartHelper(p)
    BY <1>0, <2>3 DEF PublishJournal, PrepareHelper, StartHelper
  <2>4. CASE CancelUninstall(p) \/ CancelHelper(p)
    BY <1>0, <2>4 DEF CancelUninstall, CancelHelper
  <2>5. CASE BuildPrivate(p) \/ SelectAgain(p)
    BY <1>0, <2>5 DEF BuildPrivate, SelectAgain
  <2>6. CASE Finish(p) \/ Refuse(p) \/ MarkFails(p) \/ ParentExit(p) \/ CancelJournal(p)
             \/ PublishRoot(p) \/ DiscardPrivate(p)
    BY <1>1, <2>6 DEF Finish, Refuse, MarkFails, ParentExit, CancelJournal, PublishRoot,
       DiscardPrivate
  <2> QED
    BY <1>2, <2>1, <2>2, <2>3, <2>4, <2>5, <2>6 DEF Run
<1>3. ASSUME NEW p \in Proc, HelperRun(p) PROVE pc' = pc /\ slot' = slot
  BY <1>3 DEF HelperRun, UnlinkHelper, AcceptHandoff, SetDetaching, Detach, DetachFails,
     ReadDetached, Purge, PurgeJournal, RemoveRoot
<1>4. ASSUME NEW p \in Proc, Select(p) PROVE pc'[q] = pc[q] /\ slot'[q] = slot[q]
  BY <1>0, <1>4 DEF Select
<1>5. ASSUME NEW p \in Proc, Stop(p) PROVE pc'[q] = pc[q] /\ slot'[q] = slot[q]
  BY <1>1, <1>5 DEF Stop
<1>6. ASSUME NEW p \in Proc, HelperStop(p) PROVE pc' = pc /\ slot' = slot
  BY <1>6 DEF HelperStop
<1>7. SelectAgain(q) => pc'[q] = "checked"
  BY <1>0 DEF SelectAgain
<1> QED
  BY <1>2, <1>3, <1>4, <1>5, <1>6, <1>7 DEF Next

\* A root appears at the fallback only by an installer's publication.
LEMMA FallbackSteps ==
  ASSUME ~Development, Inv, Next, \A p \in Proc : pc[p] # "mark", Owned("fallback")'
  PROVE  Fallback
<1>0. place \in [Dir -> Place] /\ marked \in [Dir -> BOOLEAN] /\ "fallback" \notin Proc
  BY NoneAssumption DEF Inv, TypeOK, Slot
<1>1. PICK d \in Dir : place'[d] = "fallback" /\ marked'[d]
  BY DEF Owned
<1>2. ASSUME NEW p \in Proc, PublishRoot(p) PROVE Fallback
  BY <1>0, <1>1, <1>2 DEF PublishRoot, Fallback, Owned
<1>3. ASSUME NEW p \in Proc, Detach(p) PROVE place[d] = "fallback" /\ marked[d]
  BY <1>0, <1>1, <1>3 DEF Detach
<1>4. ASSUME NEW p \in Proc, BuildPrivate(p) PROVE place[d] = "fallback" /\ marked[d]
  BY <1>0, <1>1, <1>4 DEF BuildPrivate, Create
<1>5. ASSUME NEW p \in Proc, RemoveRoot(p) \/ Discarding(p) PROVE place[d] = "fallback" /\ marked[d]
  BY <1>0, <1>1, <1>5 DEF RemoveRoot, Discarding, Delete
<1> QED
  BY <1>1, <1>2, <1>3, <1>4, <1>5, MovingSteps DEF Fallback, Owned

LEMMA BesideInv == ~Development => (Inv /\ Beside /\ [Next]_vars => Beside')
<1> SUFFICES ASSUME ~Development, Inv, Beside, [Next]_vars PROVE Beside'
  OBVIOUS
<1>1. CASE UNCHANGED vars
  BY <1>1 DEF vars, Beside, Fallback, Foreign, Owned
<1>2. CASE Next
  <2>1. \A p \in Proc : pc'[p] # "mark"
    BY <1>2, CheckedSteps DEF Beside
  <2>2. ASSUME Fallback' PROVE Foreign
    <3>1. CASE Owned("fallback")'
      BY <1>2, <3>1, FallbackSteps DEF Beside
    <3>2. ASSUME NEW q \in Proc, pc'[q] = "checked", slot'[q] = "fallback" PROVE Foreign
      <4>1. CASE pc[q] = "checked" /\ slot'[q] = slot[q]
        BY <3>2, <4>1 DEF Beside, Fallback
      <4>2. CASE SelectAgain(q)
        BY <3>2, <4>2 DEF SelectAgain, own, Chosen, FirstMissing, Owned, Occupied, Other,
              Foreign
      <4> QED
        BY <1>2, <3>2, <4>1, <4>2, CheckedSteps DEF Beside
    <3> QED
      BY <2>2, <3>1, <3>2 DEF Fallback
  <2>3. Foreign => Foreign'
    BY <1>2, ForeignStays DEF Foreign, Beside
  <2> QED
    BY <2>1, <2>2, <2>3 DEF Beside
<1> QED
  BY <1>1, <1>2

\* Installed builds never have two recognized roots, however many installers,
\* commands and uninstalls run at the same time.
THEOREM SingleRoot == ASSUME NoReuse, ~Development PROVE Spec => []OneRoot
<1>1. Init => Beside
  BY DEF Init, Beside, Fallback, Owned
<1>2. Inv /\ Beside /\ [Next]_vars => Beside'
  BY BesideInv
<1>3. Inv /\ Beside => OneRoot
  BY DEF Beside, Fallback, Foreign, OneRoot, Owned, Inv, Paths, Slot
<1> QED
  BY <1>1, <1>2, <1>3, Invariance, PTL DEF Spec
=============================================================================
