----------------------- MODULE GenerationUpdateProofs -----------------------
(***************************************************************************)
(* Proofs about GenerationUpdate for any releases, any number of           *)
(* processes and any bounds on faults, damage and unidentified journals.   *)
(***************************************************************************)
EXTENDS GenerationUpdate, TLAPS

Quiet == {"idle", "ready"}   \* steps at which a process holds no lock

\* Each file is one release's, damaged or missing.
Unmixed(g) == \E v \in Version : \A a \in Asset : g[a] \in {Bytes[v][a], Bad, Missing}

\* The lock is held by who is at work, and only a parent that has handed over
\* shares it, with its own helper.
Locks ==
  /\ \A x \in Actor : x \in lock <=> pc[x] \notin Quiet
  /\ \A p, q \in Proc : pc[p] \notin Quiet /\ pc[q] \notin Quiet => p = q
  /\ \A p \in Proc : pc[p] \notin Quiet /\ pc[Helper] \notin Quiet =>
       pc[p] = "handed" /\ pc[Helper] = "wait" /\ token = p

\* Who can be at which step, running which command.
Kinds ==
  /\ pc[Helper] \in {"idle", "wait", "commit", "install", "verify"}
  /\ \A p \in Proc :
       /\ pc[p] # "wait"
       /\ pc[p] # "idle" => ver[p] \in Version
       /\ pc[p] \in {"fetch", "prepared"} => cmd[p] \in {"update", "install"}
       /\ pc[p] \in {"recover", "undo", "undone"} => cmd[p] \in {"repair", "install"}
       /\ pc[p] = "admit" => cmd[p] = "install"
       /\ pc[p] \in {"inspect", "fix", "place"} => cmd[p] \in {"repair", "manifest"}
  /\ \A x \in Actor :
       /\ pc[x] = "install" => at[x] \in 1..4
       /\ pc[x] \in {"undo", "fix", "place"} => at[x] \in 1..3

Pending == journal # NoJournal /\ Evidence

\* What a command knows of the journal and the workspace at each step.
Stages ==
  \A x \in Actor :
    /\ pc[x] \in {"fetch", "prepared", "admit", "inspect", "fix", "place"} => journal = NoJournal
    /\ pc[x] = "prepared" => work # NoWork /\ \E v \in Version : work.new = Bytes[v]
    /\ pc[x] \in {"published", "cancel", "wait", "commit", "install", "verify", "undo", "undone"}
         => Pending
    /\ pc[x] \in {"published", "cancel"} => journal.name = x
    /\ x = Helper /\ pc[x] # "idle" => journal.name = token

\* How far a replacement has come, if nobody damages files meanwhile.
Progress ==
  damage = 0 => \A x \in Actor :
    /\ pc[x] = "prepared" => OldMatches
    /\ pc[x] \in {"install", "undo"} => BinaryMatchesOld
    /\ pc[x] = "install" =>
         /\ at[x] > 1 => canon["license"] = work.new["license"]
         /\ at[x] > 2 => canon["notices"] = work.new["notices"]
         /\ at[x] > 3 => canon["release"] = work.new["release"]

\* The canonical files are unmixed until a helper or installer starts on them,
\* old/ always is, and repair works for the release the files belong to.
Unmix ==
  /\ journal = NoJournal \/ (\E p \in Proc : pc[p] \in {"published", "cancel"}) => Unmixed(canon)
  /\ work # NoWork => Unmixed(work.old)
  /\ \A p \in Proc : pc[p] \in {"fix", "place"} =>
       \A a \in Asset : canon[a] \in {Bytes[ver[p]][a], Bad, Missing}
  /\ \A p \in Proc : pc[p] = "place" => aside \in {Bytes[ver[p]][FixOrder[at[p]]], Bad, Missing}

\* A staged target is no older than the manifest it replaces.
Newest ==
  /\ \A p \in Proc, w \in Version :
       pc[p] = "fetch" /\ canon["release"] = Bytes[w]["release"] => w <= ver[p]
  /\ work # NoWork => \A v, w \in Version :
       work.new = Bytes[v] /\ work.old["release"] = Bytes[w]["release"] => v >= w

Inv == /\ TypeOK /\ Locks /\ Kinds /\ Stages /\ Progress /\ Unmix /\ Newest
       /\ Recoverable

\* Who is at work alone, and knows it.
Alone(x) == \A y \in Actor : y # x => pc[y] \in Quiet

LEMMA WorksAlone ==
  ASSUME Inv, NEW x \in Actor, pc[x] \notin Quiet \cup {"handed", "wait"}
  PROVE  Alone(x)
BY DEF Inv, Locks, Alone, Actor

\* Starting a process touches no file.
LEMMA LaunchInv == \A p \in Proc : Inv /\ Launch(p) => Inv'
<1> SUFFICES ASSUME NEW p \in Proc, Inv, Launch(p) PROVE Inv'
  OBVIOUS
<1> USE BytesAssumption, NoneAssumption DEF Inv, Leave, Goto, DropRef, Forget, Fault, counters, Quiet, Actor, Launch
<1>1. TypeOK'
  BY DEF TypeOK, File, Generation, Workspace, Journal, Step, Command, Asset
<1>2. Locks'
  BY DEF TypeOK, Locks, Alone
<1>3. Kinds'
  BY DEF TypeOK, Kinds, Alone
<1>4. Stages'
  BY DEF TypeOK, Stages, Kinds, Pending, Evidence, Alone
<1>5. Progress'
  BY DEF TypeOK, Progress, Kinds, Alone, OldMatches, BinaryMatchesOld
<1>6. Unmix'
  BY DEF TypeOK, Unmix, Unmixed, Kinds, Alone
<1>7. Newest'
  <2>1. \A q \in Proc : pc'[q] = "fetch" => pc[q] = "fetch" /\ ver'[q] = ver[q]
    BY DEF TypeOK
  <2> QED
    BY <2>1 DEF Newest
<1>8. Recoverable'
  BY DEF TypeOK, Recoverable, Evidence, TargetMatches, BinaryMatchesOld
<1> QED
  BY <1>1, <1>2, <1>3, <1>4, <1>5, <1>6, <1>7, <1>8

\* The trusted manifest is of the running version.
LEMMA BeginUpdateInv == \A p \in Proc : Inv /\ BeginUpdate(p) => Inv'
<1> SUFFICES ASSUME NEW p \in Proc, Inv, BeginUpdate(p) PROVE Inv'
  OBVIOUS
<1> USE BytesAssumption, NoneAssumption DEF Inv, Leave, Goto, DropRef, Forget, Fault, counters, Quiet, Actor, BeginUpdate
<1>1. TypeOK'
  BY DEF TypeOK, File, Generation, Workspace, Journal, Step, Command, Asset
<1>2. Locks'
  BY DEF TypeOK, Locks, Alone
<1>3. Kinds'
  BY DEF TypeOK, Kinds, Alone
<1>4. Stages'
  BY DEF TypeOK, Stages, Kinds, Pending, Evidence, Alone
<1>5. Progress'
  BY DEF TypeOK, Progress, Kinds, Alone, OldMatches, BinaryMatchesOld
<1>6. Unmix'
  BY DEF TypeOK, Unmix, Unmixed, Kinds, Alone
<1>7. Newest'
  <2>1. \A q \in Proc : pc'[q] = "fetch" => q = p
    BY DEF TypeOK, Locks
  <2>2. \A w \in Version : canon["release"] = Bytes[w]["release"] => w = ver[p]
    BY DEF Kinds, Trusted
  <2>3. ver[p] \in Nat
    BY DEF Kinds
  <2> QED
    BY <2>1, <2>2, <2>3 DEF Newest
<1>8. Recoverable'
  BY DEF TypeOK, Recoverable, Evidence, TargetMatches, BinaryMatchesOld
<1> QED
  BY <1>1, <1>2, <1>3, <1>4, <1>5, <1>6, <1>7, <1>8

\* The installer and repair start with recovery.
LEMMA BeginRecoveryInv == \A p \in Proc : Inv /\ BeginRecovery(p) => Inv'
<1> SUFFICES ASSUME NEW p \in Proc, Inv, BeginRecovery(p) PROVE Inv'
  OBVIOUS
<1> USE BytesAssumption, NoneAssumption DEF Inv, Leave, Goto, DropRef, Forget, Fault, counters, Quiet, Actor, BeginRecovery
<1>1. TypeOK'
  BY DEF TypeOK, File, Generation, Workspace, Journal, Step, Command, Asset
<1>2. Locks'
  BY DEF TypeOK, Locks, Alone
<1>3. Kinds'
  BY DEF TypeOK, Kinds, Alone
<1>4. Stages'
  BY DEF TypeOK, Stages, Kinds, Pending, Evidence, Alone
<1>5. Progress'
  BY DEF TypeOK, Progress, Kinds, Alone, OldMatches, BinaryMatchesOld
<1>6. Unmix'
  BY DEF TypeOK, Unmix, Unmixed, Kinds, Alone
<1>7. Newest'
  BY DEF TypeOK, Newest, Kinds, Alone
<1>8. Recoverable'
  BY DEF TypeOK, Recoverable, Evidence, TargetMatches, BinaryMatchesOld
<1> QED
  BY <1>1, <1>2, <1>3, <1>4, <1>5, <1>6, <1>7, <1>8

\* The staged target is admissible for the manifest that is snapshotted.
LEMMA PrepareInv == \A p \in Proc : Inv /\ Prepare(p) => Inv'
<1> SUFFICES ASSUME NEW p \in Proc, Inv, Prepare(p) PROVE Inv'
  OBVIOUS
<1> USE BytesAssumption, NoneAssumption DEF Inv, Leave, Goto, DropRef, Forget, Fault, counters, Quiet, Actor, Prepare
<1>0. Alone(p)
  BY WorksAlone
<1>a. PICK v \in Version : Admissible(p, v) /\ work' = [new |-> Bytes[v], old |-> canon]
  OBVIOUS
<1>b. /\ work' \in Workspace /\ work' # NoWork /\ work'.new = Bytes[v] /\ work'.old = canon
      /\ journal = NoJournal /\ journal' = NoJournal
  BY <1>a DEF TypeOK, Workspace, Generation, File, Stages
<1>1. TypeOK'
  BY <1>b DEF TypeOK, Step
<1>2. Locks'
  BY <1>0 DEF TypeOK, Locks, Alone
<1>3. Kinds'
  BY <1>0 DEF TypeOK, Kinds, Alone
<1>4. Stages'
  BY <1>0, <1>b DEF TypeOK, Stages, Kinds, Pending, Evidence, Alone
<1>5. Progress'
  BY <1>0, <1>b DEF TypeOK, Progress, Kinds, Alone, OldMatches, BinaryMatchesOld
<1>6. Unmix'
  <2>1. Unmixed(canon)
    BY <1>b DEF Unmix
  <2>2. \A q \in Proc : pc'[q] \notin {"fix", "place"}
    BY <1>0 DEF TypeOK, Alone
  <2> QED
    BY <1>b, <2>1, <2>2 DEF Unmix, Unmixed
<1>7. Newest'
  <2>1. \A q \in Proc : pc'[q] # "fetch"
    BY <1>0 DEF TypeOK, Alone
  <2>2. \A w \in Version : canon["release"] = Bytes[w]["release"] => w <= ver[p]
    BY DEF Newest
  <2>3. ver[p] \in Nat /\ v \in Nat /\ (v > ver[p] \/ v = ver[p])
    BY <1>a DEF Kinds, Admissible
  <2>4. \A u \in Version : Bytes[v] = Bytes[u] => u = v
    OBVIOUS
  <2>5. ASSUME NEW u \in Version, NEW w \in Version,
               work'.new = Bytes[u], work'.old["release"] = Bytes[w]["release"]
        PROVE  u >= w
    <3>1. u = v /\ w <= ver[p] /\ w \in Nat
      BY <1>b, <2>2, <2>4, <2>5
    <3> QED
      BY <3>1, <2>3
  <2> QED
    BY <2>1, <2>5 DEF Newest
<1>8. Recoverable'
  BY <1>b DEF Recoverable
<1> QED
  BY <1>1, <1>2, <1>3, <1>4, <1>5, <1>6, <1>7, <1>8

\* The journal names the staged target, over an unmixed generation.
LEMMA PublishJournalInv == \A p \in Proc : Inv /\ PublishJournal(p) => Inv'
<1> SUFFICES ASSUME NEW p \in Proc, Inv, PublishJournal(p) PROVE Inv'
  OBVIOUS
<1> USE BytesAssumption, NoneAssumption DEF Inv, Leave, Goto, DropRef, Forget, Fault, counters, Quiet, Actor, PublishJournal
<1>0. Alone(p)
  BY WorksAlone
<1>a. PICK v \in Version : work.new = Bytes[v] /\ journal' = [target |-> v, name |-> p]
  BY DEF Written
<1>b. /\ journal' \in Journal /\ journal' # NoJournal /\ journal'.target = v /\ journal'.name = p
      /\ work # NoWork /\ work \in Workspace /\ journal = NoJournal
  BY <1>a DEF Journal, Stages, TypeOK
<1>1. TypeOK'
  BY <1>b DEF TypeOK, Step
<1>2. Locks'
  BY <1>0 DEF TypeOK, Locks, Alone, Written
<1>3. Kinds'
  BY <1>0 DEF TypeOK, Kinds, Alone, Written
<1>4. Stages'
  BY <1>0, <1>a, <1>b DEF TypeOK, Stages, Kinds, Pending, Evidence, Alone
<1>5. Progress'
  BY <1>0 DEF TypeOK, Progress, Kinds, Alone, OldMatches, BinaryMatchesOld, Written
<1>6. Unmix'
  <2>1. Unmixed(canon) /\ Unmixed(work.old)
    BY <1>b DEF Unmix
  <2>2. \A q \in Proc : pc'[q] \notin {"fix", "place"}
    BY <1>0 DEF TypeOK, Alone
  <2> QED
    BY <2>1, <2>2 DEF Unmix, Unmixed
<1>7. Newest'
  BY <1>0 DEF TypeOK, Newest, Kinds, Alone, Written
<1>8. Recoverable'
  BY <1>a, <1>b DEF Recoverable, Evidence, BinaryMatchesOld, OldMatches, Progress
<1> QED
  BY <1>1, <1>2, <1>3, <1>4, <1>5, <1>6, <1>7, <1>8

\* Nothing was written.
LEMMA PublishFailsInv == \A p \in Proc : Inv /\ PublishFails(p) => Inv'
<1> SUFFICES ASSUME NEW p \in Proc, Inv, PublishFails(p) PROVE Inv'
  OBVIOUS
<1> USE BytesAssumption, NoneAssumption DEF Inv, Leave, Goto, DropRef, Forget, Fault, counters, Quiet, Actor, PublishFails
<1>0. Alone(p)
  BY WorksAlone
<1>1. TypeOK'
  BY <1>0 DEF TypeOK, File, Generation, Workspace, Journal, Step, Command, Asset
<1>2. Locks'
  BY <1>0 DEF TypeOK, Locks, Alone
<1>3. Kinds'
  BY <1>0 DEF TypeOK, Kinds, Alone
<1>4. Stages'
  BY <1>0 DEF TypeOK, Stages, Kinds, Pending, Evidence, Alone
<1>5. Progress'
  BY <1>0 DEF TypeOK, Progress, Kinds, Alone, OldMatches, BinaryMatchesOld
<1>6. Unmix'
  BY <1>0 DEF TypeOK, Unmix, Unmixed, Kinds, Alone
<1>7. Newest'
  BY <1>0 DEF TypeOK, Newest, Kinds, Alone
<1>8. Recoverable'
  BY DEF Stages, Recoverable
<1> QED
  BY <1>1, <1>2, <1>3, <1>4, <1>5, <1>6, <1>7, <1>8

\* The update cancels, the installer leaves its evidence.
LEMMA PublishUnconfirmedInv == \A p \in Proc : Inv /\ PublishUnconfirmed(p) => Inv'
<1> SUFFICES ASSUME NEW p \in Proc, Inv, PublishUnconfirmed(p) PROVE Inv'
  OBVIOUS
<1> USE BytesAssumption, NoneAssumption DEF Inv, Leave, Goto, DropRef, Forget, Fault, counters, Quiet, Actor, PublishUnconfirmed
<1>0. Alone(p)
  BY WorksAlone
<1>a. PICK v \in Version : work.new = Bytes[v] /\ journal' = [target |-> v, name |-> p]
  BY DEF Written
<1>b. /\ journal' \in Journal /\ journal' # NoJournal /\ journal'.target = v /\ journal'.name = p
      /\ work # NoWork /\ work \in Workspace /\ journal = NoJournal
  BY <1>a DEF Journal, Stages, TypeOK
<1>1. TypeOK'
  BY <1>b DEF TypeOK, Step, Command
<1>2. Locks'
  <2>1. CASE cmd[p] = "update"
    BY <1>0, <2>1 DEF TypeOK, Locks, Alone
  <2>2. CASE cmd[p] # "update"
    BY <1>0, <2>2 DEF TypeOK, Locks, Alone
  <2> QED
    BY <2>1, <2>2
<1>3. Kinds'
  BY <1>0 DEF TypeOK, Kinds, Alone, Written
<1>4. Stages'
  <2>1. pc'[p] \in {"cancel", "idle"} /\ \A y \in Actor : y # p => pc'[y] \in Quiet /\ pc'[y] = pc[y]
    BY <1>0 DEF TypeOK, Alone
  <2>2. Pending' /\ journal'.name = p
    BY <1>a, <1>b DEF Pending, Evidence
  <2> QED
    BY <2>1, <2>2 DEF Stages, Kinds
<1>5. Progress'
  BY <1>0 DEF TypeOK, Progress, Kinds, Alone, OldMatches, BinaryMatchesOld, Written
<1>6. Unmix'
  <2>1. Unmixed(canon) /\ Unmixed(work.old)
    BY <1>b DEF Unmix
  <2>2. \A q \in Proc : pc'[q] \notin {"fix", "place"}
    BY <1>0 DEF TypeOK, Alone
  <2> QED
    BY <2>1, <2>2 DEF Unmix, Unmixed
<1>7. Newest'
  BY <1>0 DEF TypeOK, Newest, Kinds, Alone, Written
<1>8. Recoverable'
  BY <1>a, <1>b DEF Recoverable, Evidence, BinaryMatchesOld, OldMatches, Progress
<1> QED
  BY <1>1, <1>2, <1>3, <1>4, <1>5, <1>6, <1>7, <1>8

\* The one step after which a journal may lack evidence.
LEMMA PublishUnidentifiedInv == \A p \in Proc : Inv /\ PublishUnidentified(p) => Inv'
<1> SUFFICES ASSUME NEW p \in Proc, Inv, PublishUnidentified(p) PROVE Inv'
  OBVIOUS
<1> USE BytesAssumption, NoneAssumption DEF Inv, Leave, Goto, DropRef, Forget, Fault, counters, Quiet, Actor, PublishUnidentified
<1>0. Alone(p)
  BY WorksAlone
<1>a. PICK v \in Version : work.new = Bytes[v] /\ journal' = [target |-> v, name |-> p]
  BY DEF Written
<1>b. /\ journal' \in Journal /\ journal' # NoJournal /\ journal'.target = v /\ journal'.name = p
      /\ work # NoWork /\ work \in Workspace /\ journal = NoJournal
  BY <1>a DEF Journal, Stages, TypeOK
<1>1. TypeOK'
  BY <1>b DEF TypeOK, Step, Command
<1>2. Locks'
  BY <1>0 DEF TypeOK, Locks, Alone, Written
<1>3. Kinds'
  BY <1>0 DEF TypeOK, Kinds, Alone, Written
<1>4. Stages'
  BY <1>0 DEF TypeOK, Stages, Kinds, Pending, Evidence, Alone, Written
<1>5. Progress'
  BY <1>0 DEF TypeOK, Progress, Kinds, Alone, OldMatches, BinaryMatchesOld, Written
<1>6. Unmix'
  <2>1. Unmixed(canon) /\ Unmixed(work.old)
    BY <1>b DEF Unmix
  <2>2. \A q \in Proc : pc'[q] \notin {"fix", "place"}
    BY <1>0 DEF TypeOK, Alone
  <2> QED
    BY <2>1, <2>2 DEF Unmix, Unmixed
<1>7. Newest'
  BY <1>0 DEF TypeOK, Newest, Kinds, Alone, Written
<1>8. Recoverable'
  BY DEF Recoverable, TypeOK
<1> QED
  BY <1>1, <1>2, <1>3, <1>4, <1>5, <1>6, <1>7, <1>8

\* The helper joins the parent that published its journal.
LEMMA HandoffInv == \A p \in Proc : Inv /\ Handoff(p) => Inv'
<1> SUFFICES ASSUME NEW p \in Proc, Inv, Handoff(p) PROVE Inv'
  OBVIOUS
<1> USE BytesAssumption, NoneAssumption DEF Inv, Leave, Goto, DropRef, Forget, Fault, counters, Quiet, Actor, Handoff
<1>0. Alone(p)
  BY WorksAlone
<1>1. TypeOK'
  BY <1>0 DEF TypeOK, File, Generation, Workspace, Journal, Step, Command, Asset
<1>2. Locks'
  BY <1>0 DEF TypeOK, Locks, Alone
<1>3. Kinds'
  BY <1>0 DEF TypeOK, Kinds, Alone
<1>4. Stages'
  BY <1>0 DEF TypeOK, Stages, Kinds, Pending, Evidence, Alone
<1>5. Progress'
  BY <1>0 DEF TypeOK, Progress, Kinds, Alone, OldMatches, BinaryMatchesOld
<1>6. Unmix'
  BY <1>0 DEF TypeOK, Unmix, Unmixed, Kinds, Alone
<1>7. Newest'
  BY <1>0 DEF TypeOK, Newest, Kinds, Alone
<1>8. Recoverable'
  BY <1>0 DEF TypeOK, Recoverable, Evidence, TargetMatches, BinaryMatchesOld
<1> QED
  BY <1>1, <1>2, <1>3, <1>4, <1>5, <1>6, <1>7, <1>8

\* The parent still owns the journal it will cancel.
LEMMA HandoffFailsInv == \A p \in Proc : Inv /\ HandoffFails(p) => Inv'
<1> SUFFICES ASSUME NEW p \in Proc, Inv, HandoffFails(p) PROVE Inv'
  OBVIOUS
<1> USE BytesAssumption, NoneAssumption DEF Inv, Leave, Goto, DropRef, Forget, Fault, counters, Quiet, Actor, HandoffFails
<1>0. Alone(p)
  BY WorksAlone
<1>1. TypeOK'
  BY <1>0 DEF TypeOK, File, Generation, Workspace, Journal, Step, Command, Asset
<1>2. Locks'
  BY <1>0 DEF TypeOK, Locks, Alone
<1>3. Kinds'
  BY <1>0 DEF TypeOK, Kinds, Alone
<1>4. Stages'
  BY <1>0 DEF TypeOK, Stages, Kinds, Pending, Evidence, Alone
<1>5. Progress'
  BY <1>0 DEF TypeOK, Progress, Kinds, Alone, OldMatches, BinaryMatchesOld
<1>6. Unmix'
  BY <1>0 DEF TypeOK, Unmix, Unmixed, Kinds, Alone
<1>7. Newest'
  BY <1>0 DEF TypeOK, Newest, Kinds, Alone
<1>8. Recoverable'
  BY <1>0 DEF TypeOK, Recoverable, Evidence, TargetMatches, BinaryMatchesOld
<1> QED
  BY <1>1, <1>2, <1>3, <1>4, <1>5, <1>6, <1>7, <1>8

\* No canonical file was touched before the handoff.
LEMMA CancelUpdateInv == \A p \in Proc : Inv /\ CancelUpdate(p) => Inv'
<1> SUFFICES ASSUME NEW p \in Proc, Inv, CancelUpdate(p) PROVE Inv'
  OBVIOUS
<1> USE BytesAssumption, NoneAssumption DEF Inv, Leave, Goto, DropRef, Forget, Fault, counters, Quiet, Actor, CancelUpdate
<1>0. Alone(p)
  BY WorksAlone
<1>1. TypeOK'
  BY <1>0 DEF TypeOK, File, Generation, Workspace, Journal, Step, Command, Asset, CancelTransaction, ClearTransaction
<1>2. Locks'
  BY <1>0 DEF TypeOK, Locks, Alone, CancelTransaction, ClearTransaction
<1>3. Kinds'
  BY <1>0 DEF TypeOK, Kinds, Alone, CancelTransaction, ClearTransaction
<1>4. Stages'
  BY <1>0 DEF TypeOK, Stages, Kinds, Pending, Evidence, Alone, CancelTransaction, ClearTransaction
<1>5. Progress'
  BY <1>0 DEF TypeOK, Progress, Kinds, Alone, OldMatches, BinaryMatchesOld, CancelTransaction, ClearTransaction
<1>6. Unmix'
  BY <1>0 DEF TypeOK, Unmix, Unmixed, Kinds, Alone, CancelTransaction, ClearTransaction
<1>7. Newest'
  BY <1>0 DEF TypeOK, Newest, Kinds, Alone, CancelTransaction, ClearTransaction
<1>8. Recoverable'
  BY <1>0 DEF TypeOK, Recoverable, Evidence, TargetMatches, BinaryMatchesOld, CancelTransaction, ClearTransaction
<1> QED
  BY <1>1, <1>2, <1>3, <1>4, <1>5, <1>6, <1>7, <1>8

\* The replacement starts from the snapshot.
LEMMA CommitInv == \A x \in Actor : Inv /\ Commit(x) => Inv'
<1> SUFFICES ASSUME NEW x \in Actor, Inv, Commit(x) PROVE Inv'
  OBVIOUS
<1> USE BytesAssumption, NoneAssumption DEF Inv, Leave, Goto, DropRef, Forget, Fault, counters, Quiet, Actor, Commit
<1>0. Alone(x)
  BY WorksAlone
<1>1. TypeOK'
  BY <1>0 DEF TypeOK, File, Generation, Workspace, Journal, Step, Command, Asset, Evidence, OldMatches, Pending, Stages
<1>2. Locks'
  BY <1>0 DEF TypeOK, Locks, Alone, Evidence, OldMatches, Pending, Stages
<1>3. Kinds'
  BY <1>0 DEF TypeOK, Kinds, Alone, Evidence, OldMatches, Pending, Stages
<1>4. Stages'
  BY <1>0 DEF TypeOK, Stages, Kinds, Pending, Evidence, Alone, Evidence, OldMatches, Pending, Stages
<1>5. Progress'
  BY <1>0 DEF TypeOK, Progress, Kinds, Alone, OldMatches, BinaryMatchesOld, Evidence, OldMatches, Pending, Stages
<1>6. Unmix'
  BY <1>0 DEF TypeOK, Unmix, Unmixed, Kinds, Alone, Evidence, OldMatches, Pending, Stages
<1>7. Newest'
  BY <1>0 DEF TypeOK, Newest, Kinds, Alone, Evidence, OldMatches, Pending, Stages
<1>8. Recoverable'
  BY <1>0 DEF TypeOK, Recoverable, Evidence, TargetMatches, BinaryMatchesOld, Evidence, OldMatches, Pending, Stages
<1> QED
  BY <1>1, <1>2, <1>3, <1>4, <1>5, <1>6, <1>7, <1>8

\* The old binary proves the old generation until it is the last to go.
LEMMA InstallAssetInv == \A x \in Actor : Inv /\ InstallAsset(x) => Inv'
<1> SUFFICES ASSUME NEW x \in Actor, Inv, InstallAsset(x) PROVE Inv'
  OBVIOUS
<1> USE BytesAssumption, NoneAssumption DEF Inv, Leave, Goto, DropRef, Forget, Fault, counters, Quiet, Actor, InstallAsset
<1>0. Alone(x)
  BY WorksAlone
<1>a. /\ work \in Workspace /\ work # NoWork /\ at[x] \in 1..4 /\ UNCHANGED <<work, journal, damage, unidentified>>
      /\ journal # NoJournal /\ Evidence
  BY DEF Stages, Pending, Evidence, Kinds, TypeOK
<1>b. /\ at[x] = 1 => canon' = [canon EXCEPT !["license"] = work.new["license"]]
      /\ at[x] = 2 => canon' = [canon EXCEPT !["notices"] = work.new["notices"]]
      /\ at[x] = 3 => canon' = [canon EXCEPT !["release"] = work.new["release"]]
      /\ at[x] = 4 => canon' = [canon EXCEPT !["binary"] = work.new["binary"]]
  <2>1. /\ InstallOrder[1] = "license" /\ InstallOrder[2] = "notices"
        /\ InstallOrder[3] = "release" /\ InstallOrder[4] = "binary"
    BY DEF InstallOrder
  <2> QED
    BY <2>1
<1>1. TypeOK'
  BY <1>0 DEF TypeOK, File, Generation, Workspace, Journal, Step, Command, Asset, InstallOrder, Pending, Stages, Evidence, Kinds
<1>2. Locks'
  BY <1>0 DEF TypeOK, Locks, Alone, InstallOrder, Pending, Stages, Evidence, Kinds
<1>3. Kinds'
  BY <1>0 DEF TypeOK, Kinds, Alone, InstallOrder, Pending, Stages, Evidence, Kinds
<1>4. Stages'
  BY <1>0 DEF TypeOK, Stages, Kinds, Pending, Evidence, Alone, InstallOrder, Pending, Stages, Evidence, Kinds
<1>5. Progress'
  <2>1. \A y \in Actor : y # x => pc'[y] \in Quiet
    BY <1>0 DEF TypeOK, Alone
  <2>2. pc'[x] = IF at[x] = 4 THEN "verify" ELSE "install"
    BY DEF TypeOK
  <2>3. at'[x] = at[x] + 1
    BY DEF TypeOK
  <2>4. CASE damage = 0 /\ at[x] # 4
    <3>1. /\ canon'["binary"] = canon["binary"] /\ canon["binary"] = work.old["binary"]
      BY <1>a, <1>b, <2>4 DEF TypeOK, Generation, Asset, Progress, BinaryMatchesOld
    <3>2. /\ at'[x] > 1 => canon'["license"] = work.new["license"]
          /\ at'[x] > 2 => canon'["notices"] = work.new["notices"]
          /\ at'[x] > 3 => canon'["release"] = work.new["release"]
      BY <1>a, <1>b, <2>3, <2>4 DEF TypeOK, Generation, Asset, Progress
    <3> QED
      BY <1>a, <2>1, <2>2, <3>1, <3>2 DEF Progress, BinaryMatchesOld
  <2> QED
    BY <1>a, <2>1, <2>2, <2>4 DEF Progress
<1>6. Unmix'
  BY <1>0 DEF TypeOK, Unmix, Unmixed, Kinds, Alone, InstallOrder, Pending, Stages, Evidence, Kinds
<1>7. Newest'
  BY <1>0 DEF TypeOK, Newest, Kinds, Alone, InstallOrder, Pending, Stages, Evidence, Kinds
<1>8. Recoverable'
  <2>1. Evidence'
    BY <1>a DEF Evidence
  <2>2. CASE damage = 0 /\ at[x] # 4
    BY <1>a, <1>b, <2>1, <2>2 DEF TypeOK, Generation, Asset, Progress, BinaryMatchesOld, Recoverable
  <2>3. CASE damage = 0 /\ at[x] = 4
    <3>1. \A a \in Asset : canon'[a] = work.new[a]
      BY <1>a, <1>b, <2>3 DEF TypeOK, Generation, Asset, Progress
    <3>2. canon' \in Generation /\ work.new \in Generation
      BY <1>1, <1>a DEF TypeOK, Workspace
    <3>3. canon' = work.new
      BY <3>1, <3>2 DEF Generation
    <3> QED
      BY <1>a, <2>1, <3>3 DEF TargetMatches, Recoverable
  <2> QED
    BY <1>a, <2>1, <2>2, <2>3 DEF Recoverable
<1> QED
  BY <1>1, <1>2, <1>3, <1>4, <1>5, <1>6, <1>7, <1>8

\* The journal is cleared over the whole target.
LEMMA FinishCommitInv == \A x \in Actor : Inv /\ FinishCommit(x) => Inv'
<1> SUFFICES ASSUME NEW x \in Actor, Inv, FinishCommit(x) PROVE Inv'
  OBVIOUS
<1> USE BytesAssumption, NoneAssumption DEF Inv, Leave, Goto, DropRef, Forget, Fault, counters, Quiet, Actor, FinishCommit
<1>0. Alone(x)
  BY WorksAlone
<1>1. TypeOK'
  BY <1>0 DEF TypeOK, File, Generation, Workspace, Journal, Step, Command, Asset, ClearTransaction, Evidence, TargetMatches, Pending, Stages
<1>2. Locks'
  BY <1>0 DEF TypeOK, Locks, Alone, ClearTransaction, Evidence, TargetMatches, Pending, Stages
<1>3. Kinds'
  BY <1>0 DEF TypeOK, Kinds, Alone, ClearTransaction, Evidence, TargetMatches, Pending, Stages
<1>4. Stages'
  BY <1>0 DEF TypeOK, Stages, Kinds, Pending, Evidence, Alone, ClearTransaction, Evidence, TargetMatches, Pending, Stages
<1>5. Progress'
  BY <1>0 DEF TypeOK, Progress, Kinds, Alone, OldMatches, BinaryMatchesOld, ClearTransaction, Evidence, TargetMatches, Pending, Stages
<1>6. Unmix'
  <2>1. journal.target \in Version /\ canon = Bytes[journal.target]
    BY DEF Stages, Pending, Evidence, TargetMatches, TypeOK, Journal
  <2>2. Unmixed(canon)
    BY <2>1 DEF Unmixed
  <2>3. \A q \in Proc : pc'[q] \notin {"fix", "place"}
    BY <1>0 DEF TypeOK, Alone
  <2> QED
    BY <2>2, <2>3 DEF Unmix, Unmixed, ClearTransaction
<1>7. Newest'
  BY <1>0 DEF TypeOK, Newest, Kinds, Alone, ClearTransaction, Evidence, TargetMatches, Pending, Stages
<1>8. Recoverable'
  BY <1>0 DEF TypeOK, Recoverable, Evidence, TargetMatches, BinaryMatchesOld, ClearTransaction, Evidence, TargetMatches, Pending, Stages
<1> QED
  BY <1>1, <1>2, <1>3, <1>4, <1>5, <1>6, <1>7, <1>8

\* Nothing to recover.
LEMMA NothingPendingInv == \A p \in Proc : Inv /\ NothingPending(p) => Inv'
<1> SUFFICES ASSUME NEW p \in Proc, Inv, NothingPending(p) PROVE Inv'
  OBVIOUS
<1> USE BytesAssumption, NoneAssumption DEF Inv, Leave, Goto, DropRef, Forget, Fault, counters, Quiet, Actor, NothingPending
<1>0. Alone(p)
  BY WorksAlone
<1>1. TypeOK'
  BY <1>0 DEF TypeOK, File, Generation, Workspace, Journal, Step, Command, Asset, Recovered
<1>2. Locks'
  BY <1>0 DEF TypeOK, Locks, Alone, Recovered
<1>3. Kinds'
  BY <1>0 DEF TypeOK, Kinds, Alone, Recovered
<1>4. Stages'
  BY <1>0 DEF TypeOK, Stages, Kinds, Pending, Evidence, Alone, Recovered
<1>5. Progress'
  BY <1>0 DEF TypeOK, Progress, Kinds, Alone, OldMatches, BinaryMatchesOld, Recovered
<1>6. Unmix'
  BY <1>0 DEF TypeOK, Unmix, Unmixed, Kinds, Alone, Recovered
<1>7. Newest'
  BY <1>0 DEF TypeOK, Newest, Kinds, Alone, Recovered
<1>8. Recoverable'
  BY <1>0 DEF TypeOK, Recoverable, Evidence, TargetMatches, BinaryMatchesOld, Recovered
<1> QED
  BY <1>1, <1>2, <1>3, <1>4, <1>5, <1>6, <1>7, <1>8

\* Recovery ends on the whole target or the whole old generation.
LEMMA FinishRecoveryInv == \A p \in Proc : Inv /\ FinishRecovery(p) => Inv'
<1> SUFFICES ASSUME NEW p \in Proc, Inv, FinishRecovery(p) PROVE Inv'
  OBVIOUS
<1> USE BytesAssumption, NoneAssumption DEF Inv, Leave, Goto, DropRef, Forget, Fault, counters, Quiet, Actor, FinishRecovery
<1>0. Alone(p)
  BY WorksAlone
<1>1. TypeOK'
  BY <1>0 DEF TypeOK, File, Generation, Workspace, Journal, Step, Command, Asset, ClearTransaction, Recovered, Evidence, TargetMatches, OldMatches, Pending, Stages
<1>2. Locks'
  BY <1>0 DEF TypeOK, Locks, Alone, ClearTransaction, Recovered, Evidence, TargetMatches, OldMatches, Pending, Stages
<1>3. Kinds'
  BY <1>0 DEF TypeOK, Kinds, Alone, ClearTransaction, Recovered, Evidence, TargetMatches, OldMatches, Pending, Stages
<1>4. Stages'
  BY <1>0 DEF TypeOK, Stages, Kinds, Pending, Evidence, Alone, ClearTransaction, Recovered, Evidence, TargetMatches, OldMatches, Pending, Stages
<1>5. Progress'
  BY <1>0 DEF TypeOK, Progress, Kinds, Alone, OldMatches, BinaryMatchesOld, ClearTransaction, Recovered, Evidence, TargetMatches, OldMatches, Pending, Stages
<1>6. Unmix'
  <2>1. ASSUME TargetMatches, Evidence, journal # NoJournal PROVE Unmixed(canon)
    <3>1. journal.target \in Version /\ canon = Bytes[journal.target]
      BY <2>1 DEF Evidence, TargetMatches, TypeOK, Journal
    <3> QED
      BY <3>1 DEF Unmixed
  <2>2. ASSUME OldMatches PROVE Unmixed(canon)
    BY <2>2 DEF OldMatches, Unmix
  <2>3. Unmixed(canon)
    BY <2>1, <2>2
  <2>4. \A q \in Proc : pc'[q] \notin {"fix", "place"}
    BY <1>0 DEF TypeOK, Alone, Recovered
  <2> QED
    BY <2>3, <2>4 DEF Unmix, Unmixed, ClearTransaction
<1>7. Newest'
  BY <1>0 DEF TypeOK, Newest, Kinds, Alone, ClearTransaction, Recovered, Evidence, TargetMatches, OldMatches, Pending, Stages
<1>8. Recoverable'
  BY <1>0 DEF TypeOK, Recoverable, Evidence, TargetMatches, BinaryMatchesOld, ClearTransaction, Recovered, Evidence, TargetMatches, OldMatches, Pending, Stages
<1> QED
  BY <1>1, <1>2, <1>3, <1>4, <1>5, <1>6, <1>7, <1>8

\* Rolling back needs the old binary.
LEMMA RollBackInv == \A p \in Proc : Inv /\ RollBack(p) => Inv'
<1> SUFFICES ASSUME NEW p \in Proc, Inv, RollBack(p) PROVE Inv'
  OBVIOUS
<1> USE BytesAssumption, NoneAssumption DEF Inv, Leave, Goto, DropRef, Forget, Fault, counters, Quiet, Actor, RollBack
<1>0. Alone(p)
  BY WorksAlone
<1>1. TypeOK'
  BY <1>0 DEF TypeOK, File, Generation, Workspace, Journal, Step, Command, Asset, Evidence, BinaryMatchesOld
<1>2. Locks'
  BY <1>0 DEF TypeOK, Locks, Alone, Evidence, BinaryMatchesOld
<1>3. Kinds'
  BY <1>0 DEF TypeOK, Kinds, Alone, Evidence, BinaryMatchesOld
<1>4. Stages'
  BY <1>0 DEF TypeOK, Stages, Kinds, Pending, Evidence, Alone, Evidence, BinaryMatchesOld
<1>5. Progress'
  BY <1>0 DEF TypeOK, Progress, Kinds, Alone, OldMatches, BinaryMatchesOld, Evidence, BinaryMatchesOld
<1>6. Unmix'
  BY <1>0 DEF TypeOK, Unmix, Unmixed, Kinds, Alone, Evidence, BinaryMatchesOld
<1>7. Newest'
  BY <1>0 DEF TypeOK, Newest, Kinds, Alone, Evidence, BinaryMatchesOld
<1>8. Recoverable'
  BY <1>0 DEF TypeOK, Recoverable, Evidence, TargetMatches, BinaryMatchesOld, Evidence, BinaryMatchesOld
<1> QED
  BY <1>1, <1>2, <1>3, <1>4, <1>5, <1>6, <1>7, <1>8

\* Rolling back leaves the binary alone.
LEMMA RestoreOldAssetInv == \A p \in Proc : Inv /\ RestoreOldAsset(p) => Inv'
<1> SUFFICES ASSUME NEW p \in Proc, Inv, RestoreOldAsset(p) PROVE Inv'
  OBVIOUS
<1> USE BytesAssumption, NoneAssumption DEF Inv, Leave, Goto, DropRef, Forget, Fault, counters, Quiet, Actor, RestoreOldAsset
<1>0. Alone(p)
  BY WorksAlone
<1>a. /\ work \in Workspace /\ work # NoWork /\ at[p] \in 1..3 /\ UNCHANGED <<work, journal, damage, unidentified>>
      /\ journal # NoJournal /\ Evidence
  BY DEF Stages, Pending, Evidence, Kinds, TypeOK
<1>b. canon'["binary"] = canon["binary"]
  BY <1>a DEF UndoOrder, TypeOK, Generation, Asset
<1>1. TypeOK'
  BY <1>0 DEF TypeOK, File, Generation, Workspace, Journal, Step, Command, Asset, UndoOrder, Pending, Stages, Evidence, Kinds
<1>2. Locks'
  BY <1>0 DEF TypeOK, Locks, Alone, UndoOrder, Pending, Stages, Evidence, Kinds
<1>3. Kinds'
  BY <1>0 DEF TypeOK, Kinds, Alone, UndoOrder, Pending, Stages, Evidence, Kinds
<1>4. Stages'
  BY <1>0 DEF TypeOK, Stages, Kinds, Pending, Evidence, Alone, UndoOrder, Pending, Stages, Evidence, Kinds
<1>5. Progress'
  BY <1>0 DEF TypeOK, Progress, Kinds, Alone, OldMatches, BinaryMatchesOld, UndoOrder, Pending, Stages, Evidence, Kinds
<1>6. Unmix'
  BY <1>0 DEF TypeOK, Unmix, Unmixed, Kinds, Alone, UndoOrder, Pending, Stages, Evidence, Kinds
<1>7. Newest'
  BY <1>0 DEF TypeOK, Newest, Kinds, Alone, UndoOrder, Pending, Stages, Evidence, Kinds
<1>8. Recoverable'
  BY <1>a, <1>b DEF Recoverable, Evidence, Progress, BinaryMatchesOld
<1> QED
  BY <1>1, <1>2, <1>3, <1>4, <1>5, <1>6, <1>7, <1>8

\* The installer is no older than a readable installed manifest.
LEMMA AdmitInv == \A p \in Proc : Inv /\ Admit(p) => Inv'
<1> SUFFICES ASSUME NEW p \in Proc, Inv, Admit(p) PROVE Inv'
  OBVIOUS
<1> USE BytesAssumption, NoneAssumption DEF Inv, Leave, Goto, DropRef, Forget, Fault, counters, Quiet, Actor, Admit
<1>0. Alone(p)
  BY WorksAlone
<1>1. TypeOK'
  BY <1>0 DEF TypeOK, File, Generation, Workspace, Journal, Step, Command, Asset, Downgrades
<1>2. Locks'
  BY <1>0 DEF TypeOK, Locks, Alone, Downgrades
<1>3. Kinds'
  BY <1>0 DEF TypeOK, Kinds, Alone, Downgrades
<1>4. Stages'
  BY <1>0 DEF TypeOK, Stages, Kinds, Pending, Evidence, Alone, Downgrades
<1>5. Progress'
  BY <1>0 DEF TypeOK, Progress, Kinds, Alone, OldMatches, BinaryMatchesOld, Downgrades
<1>6. Unmix'
  BY <1>0 DEF TypeOK, Unmix, Unmixed, Kinds, Alone, Downgrades
<1>7. Newest'
  <2>1. \A q \in Proc : pc'[q] = "fetch" => q = p
    BY <1>0 DEF TypeOK, Alone
  <2>2. ver[p] \in Version /\ \A w \in Version : canon["release"] = Bytes[w]["release"] => w <= ver[p]
    <3>1. ver[p] \in Version /\ ver[p] \in Nat /\ \A w \in Version : w \in Nat
      BY DEF Kinds
    <3>2. \A w \in Version : canon["release"] = Bytes[w]["release"] => ~(w > ver[p])
      BY DEF Downgrades
    <3> QED
      <4> SUFFICES ASSUME NEW w \in Version, canon["release"] = Bytes[w]["release"] PROVE w <= ver[p]
        BY <3>1
      <4>1. w \in Nat /\ ver[p] \in Nat /\ ~(w > ver[p])
        BY <3>1, <3>2
      <4> QED
        BY <4>1
  <2> QED
    BY <2>1, <2>2 DEF Newest
<1>8. Recoverable'
  BY <1>0 DEF TypeOK, Recoverable, Evidence, TargetMatches, BinaryMatchesOld, Downgrades
<1> QED
  BY <1>1, <1>2, <1>3, <1>4, <1>5, <1>6, <1>7, <1>8

\* The installed binary decides which release repair works for.
LEMMA InspectInv == \A p \in Proc : Inv /\ Inspect(p) => Inv'
<1> SUFFICES ASSUME NEW p \in Proc, Inv, Inspect(p) PROVE Inv'
  OBVIOUS
<1> USE BytesAssumption, NoneAssumption DEF Inv, Leave, Goto, DropRef, Forget, Fault, counters, Quiet, Actor, Inspect
<1>0. Alone(p)
  BY WorksAlone
<1>1. TypeOK'
  BY <1>0 DEF TypeOK, File, Generation, Workspace, Journal, Step, Command, Asset, NamesBinary, Trusted
<1>2. Locks'
  BY <1>0 DEF TypeOK, Locks, Alone, NamesBinary, Trusted
<1>3. Kinds'
  BY <1>0 DEF TypeOK, Kinds, Alone, NamesBinary, Trusted
<1>4. Stages'
  BY <1>0 DEF TypeOK, Stages, Kinds, Pending, Evidence, Alone, NamesBinary, Trusted
<1>5. Progress'
  BY <1>0 DEF TypeOK, Progress, Kinds, Alone, OldMatches, BinaryMatchesOld, NamesBinary, Trusted
<1>6. Unmix'
  <2>1. ver[p] \in Version /\ journal = NoJournal /\ canon["binary"] = Bytes[ver[p]]["binary"]
    BY DEF Kinds, Stages, NamesBinary
  <2>2. PICK v \in Version : \A a \in Asset : canon[a] \in {Bytes[v][a], Bad, Missing}
    BY <2>1 DEF Unmix, Unmixed
  <2>3. canon["binary"] \in Blob
    BY <2>1 DEF Asset
  <2>4. v = ver[p]
    BY <2>1, <2>2, <2>3 DEF Asset
  <2>5. \A q \in Proc : pc'[q] \in {"fix", "place"} => q = p /\ pc'[q] = "fix"
    BY <1>0 DEF TypeOK, Alone
  <2> QED
    BY <2>1, <2>2, <2>4, <2>5 DEF Unmix, Unmixed
<1>7. Newest'
  BY <1>0 DEF TypeOK, Newest, Kinds, Alone, NamesBinary, Trusted
<1>8. Recoverable'
  BY DEF Stages, Recoverable
<1> QED
  BY <1>1, <1>2, <1>3, <1>4, <1>5, <1>6, <1>7, <1>8

\* A file that is right stays.
LEMMA KeepAssetInv == \A p \in Proc : Inv /\ KeepAsset(p) => Inv'
<1> SUFFICES ASSUME NEW p \in Proc, Inv, KeepAsset(p) PROVE Inv'
  OBVIOUS
<1> USE BytesAssumption, NoneAssumption DEF Inv, Leave, Goto, DropRef, Forget, Fault, counters, Quiet, Actor, KeepAsset
<1>0. Alone(p)
  BY WorksAlone
<1>a. at[p] \in 1..3 /\ ver[p] \in Version /\ FixOrder[at[p]] \in Asset
  BY DEF Kinds, FixOrder, Asset
<1>1. TypeOK'
  BY <1>a DEF TypeOK, NextFix, Step, Command
<1>2. Locks'
  BY <1>0 DEF TypeOK, Locks, Alone, NextFix, Keeps, FixOrder, Ships, Stages
<1>3. Kinds'
  BY <1>0 DEF TypeOK, Kinds, Alone, NextFix, Keeps, FixOrder, Ships, Stages
<1>4. Stages'
  BY <1>0 DEF TypeOK, Stages, Kinds, Pending, Evidence, Alone, NextFix, Keeps, FixOrder, Ships, Stages
<1>5. Progress'
  BY <1>0 DEF TypeOK, Progress, Kinds, Alone, OldMatches, BinaryMatchesOld, NextFix, Keeps, FixOrder, Ships, Stages
<1>6. Unmix'
  BY <1>0 DEF TypeOK, Unmix, Unmixed, Kinds, Alone, NextFix, Keeps, FixOrder, Ships, Stages
<1>7. Newest'
  BY <1>0 DEF TypeOK, Newest, Kinds, Alone, NextFix, Keeps, FixOrder, Ships, Stages
<1>8. Recoverable'
  BY <1>0 DEF TypeOK, Recoverable, Evidence, TargetMatches, BinaryMatchesOld, NextFix, Keeps, FixOrder, Ships, Stages
<1> QED
  BY <1>1, <1>2, <1>3, <1>4, <1>5, <1>6, <1>7, <1>8

\* A file that is wrong leaves a gap,
LEMMA MoveAsideInv == \A p \in Proc : Inv /\ MoveAside(p) => Inv'
<1> SUFFICES ASSUME NEW p \in Proc, Inv, MoveAside(p) PROVE Inv'
  OBVIOUS
<1> USE BytesAssumption, NoneAssumption DEF Inv, Leave, Goto, DropRef, Forget, Fault, counters, Quiet, Actor, MoveAside
<1>0. Alone(p)
  BY WorksAlone
<1>a. at[p] \in 1..3 /\ ver[p] \in Version /\ FixOrder[at[p]] \in Asset
  BY DEF Kinds, FixOrder, Asset
<1>1. TypeOK'
  BY <1>a DEF TypeOK, File, Generation, Step
<1>2. Locks'
  BY <1>0 DEF TypeOK, Locks, Alone, FixOrder, Keeps, Stages
<1>3. Kinds'
  BY <1>0 DEF TypeOK, Kinds, Alone, FixOrder, Keeps, Stages
<1>4. Stages'
  BY <1>0 DEF TypeOK, Stages, Kinds, Pending, Evidence, Alone, FixOrder, Keeps, Stages
<1>5. Progress'
  BY <1>0 DEF TypeOK, Progress, Kinds, Alone, OldMatches, BinaryMatchesOld, FixOrder, Keeps, Stages
<1>6. Unmix'
  <2>1. \A a \in Asset : canon'[a] \in {Bytes[ver[p]][a], Bad, Missing}
    BY <1>a DEF Unmix, TypeOK, Generation
  <2>2. aside' \in {Bytes[ver[p]][FixOrder[at[p]]], Bad, Missing}
    BY <1>a DEF Unmix
  <2>3. \A q \in Proc : pc'[q] \in {"fix", "place"} => q = p
    BY <1>0 DEF TypeOK, Alone
  <2> QED
    BY <1>a, <2>1, <2>2, <2>3 DEF Unmix, Unmixed
<1>7. Newest'
  BY <1>0 DEF TypeOK, Newest, Kinds, Alone, FixOrder, Keeps, Stages
<1>8. Recoverable'
  BY <1>0 DEF TypeOK, Recoverable, Evidence, TargetMatches, BinaryMatchesOld, FixOrder, Keeps, Stages
<1> QED
  BY <1>1, <1>2, <1>3, <1>4, <1>5, <1>6, <1>7, <1>8

\* which the release's own file fills,
LEMMA PlaceAssetInv == \A p \in Proc : Inv /\ PlaceAsset(p) => Inv'
<1> SUFFICES ASSUME NEW p \in Proc, Inv, PlaceAsset(p) PROVE Inv'
  OBVIOUS
<1> USE BytesAssumption, NoneAssumption DEF Inv, Leave, Goto, DropRef, Forget, Fault, counters, Quiet, Actor, PlaceAsset
<1>0. Alone(p)
  BY WorksAlone
<1>a. at[p] \in 1..3 /\ ver[p] \in Version /\ FixOrder[at[p]] \in Asset
  BY DEF Kinds, FixOrder, Asset
<1>1. TypeOK'
  <2>1. Ships(p, FixOrder[at[p]]) \in File
    BY <1>a DEF Ships, File
  <2>2. canon' \in Generation
    BY <1>a, <2>1 DEF TypeOK, Generation
  <2> QED
    BY <1>a, <2>2 DEF TypeOK, NextFix, Step, Command, File
<1>2. Locks'
  BY <1>0 DEF TypeOK, Locks, Alone, FixOrder, NextFix, Ships, Stages
<1>3. Kinds'
  BY <1>0 DEF TypeOK, Kinds, Alone, FixOrder, NextFix, Ships, Stages
<1>4. Stages'
  BY <1>0 DEF TypeOK, Stages, Kinds, Pending, Evidence, Alone, FixOrder, NextFix, Ships, Stages
<1>5. Progress'
  BY <1>0 DEF TypeOK, Progress, Kinds, Alone, OldMatches, BinaryMatchesOld, FixOrder, NextFix, Ships, Stages
<1>6. Unmix'
  <2>1. \A a \in Asset : canon'[a] \in {Bytes[ver[p]][a], Bad, Missing}
    BY <1>a DEF Unmix, TypeOK, Generation, Ships
  <2>2. \A q \in Proc : pc'[q] \in {"fix", "place"} => q = p /\ pc'[q] = "fix" /\ ver'[q] = ver[q]
    BY <1>0 DEF TypeOK, Alone, NextFix
  <2> QED
    BY <1>a, <2>1, <2>2 DEF Unmix, Unmixed
<1>7. Newest'
  BY <1>0 DEF TypeOK, Newest, Kinds, Alone, FixOrder, NextFix, Ships, Stages
<1>8. Recoverable'
  BY <1>0 DEF TypeOK, Recoverable, Evidence, TargetMatches, BinaryMatchesOld, FixOrder, NextFix, Ships, Stages
<1> QED
  BY <1>1, <1>2, <1>3, <1>4, <1>5, <1>6, <1>7, <1>8

\* or the file that was there.
LEMMA RestoreAsideInv == \A p \in Proc : Inv /\ RestoreAside(p) => Inv'
<1> SUFFICES ASSUME NEW p \in Proc, Inv, RestoreAside(p) PROVE Inv'
  OBVIOUS
<1> USE BytesAssumption, NoneAssumption DEF Inv, Leave, Goto, DropRef, Forget, Fault, counters, Quiet, Actor, RestoreAside
<1>0. Alone(p)
  BY WorksAlone
<1>a. at[p] \in 1..3 /\ ver[p] \in Version /\ FixOrder[at[p]] \in Asset
  BY DEF Kinds, FixOrder, Asset
<1>1. TypeOK'
  BY <1>a DEF TypeOK, File, Generation, Step, Command
<1>2. Locks'
  BY <1>0 DEF TypeOK, Locks, Alone, FixOrder, Stages
<1>3. Kinds'
  BY <1>0 DEF TypeOK, Kinds, Alone, FixOrder, Stages
<1>4. Stages'
  BY <1>0 DEF TypeOK, Stages, Kinds, Pending, Evidence, Alone, FixOrder, Stages
<1>5. Progress'
  BY <1>0 DEF TypeOK, Progress, Kinds, Alone, OldMatches, BinaryMatchesOld, FixOrder, Stages
<1>6. Unmix'
  <2>1. \A a \in Asset : canon'[a] \in {Bytes[ver[p]][a], Bad, Missing}
    BY <1>a DEF Unmix, TypeOK, Generation
  <2>2. \A q \in Proc : pc'[q] \notin {"fix", "place"}
    BY <1>0 DEF TypeOK, Alone
  <2> QED
    BY <1>a, <2>1, <2>2 DEF Unmix, Unmixed
<1>7. Newest'
  BY <1>0 DEF TypeOK, Newest, Kinds, Alone, FixOrder, Stages
<1>8. Recoverable'
  BY <1>0 DEF TypeOK, Recoverable, Evidence, TargetMatches, BinaryMatchesOld, FixOrder, Stages
<1> QED
  BY <1>1, <1>2, <1>3, <1>4, <1>5, <1>6, <1>7, <1>8

\* Whoever leaves without touching a file leaves the rest as it was.
LEMMA LeaveInv ==
  ASSUME Inv, NEW x \in Actor, Leave(x), faults' \in Nat,
         UNCHANGED <<canon, journal, work, aside, token, counters>>
  PROVE  Inv'
<1> USE BytesAssumption, NoneAssumption DEF Inv, Leave, Goto, DropRef, Forget, counters, Quiet, Actor
<1>0. pc'[x] = "idle" /\ \A y \in Actor : y # x => pc'[y] = pc[y] /\ ver'[y] = ver[y] /\ at'[y] = at[y]
  BY DEF TypeOK
<1>1. TypeOK'
  BY DEF TypeOK, Step, Command
<1>2. Locks'
  BY <1>0 DEF TypeOK, Locks
<1>3. Kinds'
  BY <1>0 DEF TypeOK, Kinds
<1>4. Stages'
  BY <1>0 DEF TypeOK, Stages, Pending, Evidence
<1>5. Progress'
  BY <1>0 DEF Progress, OldMatches, BinaryMatchesOld
<1>6. Unmix'
  BY <1>0 DEF Unmix, Unmixed
<1>7. Newest'
  BY <1>0 DEF Newest
<1>8. Recoverable'
  BY DEF Recoverable, Evidence, TargetMatches, BinaryMatchesOld
<1> QED
  BY <1>1, <1>2, <1>3, <1>4, <1>5, <1>6, <1>7, <1>8

\* No update available, the parent's exit, a refusal, a failure or a death.
LEMMA QuitInv ==
  /\ \A p \in Proc : Inv /\ (NoUpdate(p) \/ ParentExit(p)) => Inv'
  /\ \A x \in Actor : Inv /\ (Refuse(x) \/ Stop(x)) => Inv'
<1>1. ASSUME NEW p \in Proc, Inv, NoUpdate(p) \/ ParentExit(p) PROVE Inv'
  <2>1. Leave(p) /\ p \in Actor /\ faults' \in Nat /\ UNCHANGED <<canon, journal, work, aside, token, counters>>
    BY <1>1 DEF NoUpdate, ParentExit, Actor, Inv, TypeOK, counters
  <2> QED
    BY <1>1, <2>1, LeaveInv
<1>2. ASSUME NEW x \in Actor, Inv, Refuse(x) \/ Stop(x) PROVE Inv'
  <2>1. Leave(x) /\ faults' \in Nat /\ UNCHANGED <<canon, journal, work, aside, token, counters>>
    BY <1>2 DEF Refuse, Stop, Fault, Inv, TypeOK, counters
  <2> QED
    BY <1>2, <2>1, LeaveInv
<1> QED
  BY <1>1, <1>2

\* The helper is alone once its parent is gone.
LEMMA HelperStartInv == Inv /\ HelperStart => Inv'
<1> SUFFICES ASSUME Inv, HelperStart PROVE Inv'
  OBVIOUS
<1> USE BytesAssumption, NoneAssumption DEF Inv, Goto, counters, Quiet, Actor, HelperStart
<1>0. Alone(Helper) /\ pc'[Helper] = "commit" /\ \A y \in Actor : y # Helper => pc'[y] = pc[y]
  BY DEF Alone, TypeOK, Locks
<1>1. TypeOK'
  BY DEF TypeOK, Step
<1>2. Locks'
  BY <1>0 DEF TypeOK, Locks, Alone
<1>3. Kinds'
  BY <1>0 DEF TypeOK, Kinds
<1>4. Stages'
  BY <1>0 DEF TypeOK, Stages, Pending, Evidence
<1>5. Progress'
  BY <1>0 DEF Progress, OldMatches, BinaryMatchesOld
<1>6. Unmix'
  BY <1>0 DEF Unmix, Unmixed
<1>7. Newest'
  BY <1>0 DEF Newest
<1>8. Recoverable'
  BY DEF Recoverable, Evidence, TargetMatches, BinaryMatchesOld
<1> QED
  BY <1>1, <1>2, <1>3, <1>4, <1>5, <1>6, <1>7, <1>8

\* Damage mixes nothing: it brings no bytes of another release.
LEMMA DamageInv == Inv /\ Damage => Inv'
<1> SUFFICES ASSUME Inv, Damage PROVE Inv'
  OBVIOUS
<1> USE BytesAssumption DEF Inv
<1>0. PICK a \in Asset, f \in {Bad, Missing} : canon' = [canon EXCEPT ![a] = f]
  BY DEF Damage
<1>a. /\ damage \in Nat /\ damage' = damage + 1
      /\ UNCHANGED <<journal, work, aside, lock, pc, at, cmd, ver, token, faults, unidentified>>
  BY DEF Damage, TypeOK
<1>b. damage' # 0
  BY <1>a
<1>c. \A b \in Asset : canon'[b] = canon[b] \/ canon'[b] \in {Bad, Missing}
  BY <1>0 DEF TypeOK, Generation
<1>1. TypeOK'
  BY <1>0, <1>a DEF TypeOK, Generation, File
<1>2. Locks' /\ Kinds'
  BY <1>a DEF Locks, Kinds
<1>3. Stages'
  BY <1>a DEF Stages, Pending, Evidence
<1>4. Progress'
  BY <1>b DEF Progress
<1>5. Unmix'
  BY <1>a, <1>c DEF Unmix, Unmixed
<1>6. Newest'
  <2>1. \A w \in Version : Bytes[w]["release"] \notin {Bad, Missing}
    BY DEF Asset
  <2>2. "release" \in Asset
    BY DEF Asset
  <2> QED
    BY <1>a, <1>c, <2>1, <2>2 DEF Newest
<1>7. Recoverable'
  BY <1>a, <1>b DEF Recoverable, Evidence
<1> QED
  BY <1>1, <1>2, <1>3, <1>4, <1>5, <1>6, <1>7

\* A healthy, idle installation.
LEMMA InitInv == Init => Inv
<1> SUFFICES ASSUME Init PROVE Inv
  OBVIOUS
<1> USE BytesAssumption, NoneAssumption DEF Init
<1>0. PICK v \in Version : canon = Bytes[v]
  OBVIOUS
<1>1. canon \in Generation
  BY <1>0 DEF Generation, File
<1>2. TypeOK
  BY <1>1 DEF TypeOK, File, Actor, Step, Command
<1>3. Locks /\ Kinds /\ Stages /\ Progress /\ Newest /\ Recoverable
  BY DEF Locks, Kinds, Stages, Progress, Newest, Recoverable, Quiet, Actor
<1>4. Unmix
  <2>1. Unmixed(canon)
    BY <1>0 DEF Unmixed
  <2> QED
    BY <2>1 DEF Unmix, Actor
<1> QED
  BY <1>2, <1>3, <1>4 DEF Inv

LEMMA NextInv == Inv /\ [Next]_vars => Inv'
<1> SUFFICES ASSUME Inv, [Next]_vars PROVE Inv'
  OBVIOUS
<1>1. CASE UNCHANGED vars
  BY <1>1 DEF vars, counters, Inv, TypeOK, Locks, Kinds, Stages, Progress, Unmix, Unmixed, Newest,
              Recoverable, Pending, Evidence, OldMatches, TargetMatches, BinaryMatchesOld
<1>2. ASSUME NEW x \in Actor, Actions(x) PROVE Inv'
  BY <1>2, CommitInv, InstallAssetInv, FinishCommitInv, QuitInv DEF Actions
<1>3. ASSUME NEW p \in Proc, Update(p) PROVE Inv'
  BY <1>3, BeginUpdateInv, PrepareInv, QuitInv, PublishJournalInv, PublishFailsInv,
     PublishUnconfirmedInv, PublishUnidentifiedInv, HandoffInv, HandoffFailsInv, CancelUpdateInv
     DEF Update
<1>4. ASSUME NEW p \in Proc, Recovery(p) PROVE Inv'
  BY <1>4, BeginRecoveryInv, NothingPendingInv, FinishRecoveryInv, RollBackInv,
     RestoreOldAssetInv, AdmitInv DEF Recovery
<1>5. ASSUME NEW p \in Proc, Repair(p) PROVE Inv'
  BY <1>5, InspectInv, KeepAssetInv, MoveAsideInv, PlaceAssetInv, RestoreAsideInv DEF Repair
<1>6. ASSUME NEW x \in Actor, Work(x) PROVE Inv'
  BY <1>2, <1>3, <1>4, <1>5, <1>6, HelperStartInv DEF Work
<1> QED
  BY <1>1, <1>6, QuitInv, LaunchInv, DamageInv DEF Next

\* The invariant holds in every behaviour of updates, reinstalls and repairs.
THEOREM Invariance == Spec => []Inv
<1> QED
  BY InitInv, NextInv, PTL DEF Spec

\* Every variable keeps its type.
THEOREM TypeCorrect == Spec => []TypeOK
<1>1. Inv => TypeOK
  BY DEF Inv
<1> QED
  BY <1>1, Invariance, PTL

\* Binary-last replacement can be recovered at every point: a pending journal has
\* its evidence, and undamaged files are the whole target or have the old binary.
THEOREM AlwaysRecoverable == Spec => []Recoverable
<1>1. Inv => Recoverable
  BY DEF Inv
<1> QED
  BY <1>1, Invariance, PTL

\* With no journal pending, release.txt, legal files and binary never come from
\* two releases, whatever was damaged and whichever cup versions ran.
THEOREM NoMixture == Spec => []NeverMixed
<1>1. Inv => NeverMixed
  BY DEF Inv, Unmix, Unmixed, NeverMixed
<1> QED
  BY <1>1, Invariance, PTL

\* From the published journal to the end of the helper no other command is at
\* work, and the helper's token, journal and workspace belong together.
THEOREM ContinuousHandoff == Spec => []HandoffContinuous
<1>1. Inv => HandoffContinuous
  <2> SUFFICES ASSUME Inv, pc[Helper] # "idle" PROVE HandoffContinuous
    BY DEF HandoffContinuous
  <2>1. pc[Helper] \in {"wait", "commit", "install", "verify"}
    BY DEF Inv, Kinds
  <2>2. journal # NoJournal /\ journal.name = token /\ Evidence
    BY <2>1 DEF Inv, Stages, Pending, Actor
  <2>3. \A p \in Proc : pc[p] \in Quiet \/ (p = token /\ pc[p] = "handed")
    BY <2>1 DEF Inv, Locks, Quiet
  <2> QED
    BY <2>2, <2>3 DEF HandoffContinuous, Quiet
<1> QED
  BY <1>1, Invariance, PTL

\* Only these steps clear a journal.
LEMMA ClearingSteps ==
  ASSUME Inv, Next, journal # NoJournal, journal' = NoJournal
  PROVE  \/ \E p \in Proc : CancelUpdate(p) \/ FinishRecovery(p)
         \/ \E x \in Actor : FinishCommit(x)
<1> USE NoneAssumption
<1>1. ASSUME NEW p \in Proc, Written(p) PROVE FALSE
  <2>1. PICK v \in Version : journal' = [target |-> v, name |-> p]
    BY <1>1 DEF Written
  <2>2. journal' \in Journal
    BY <2>1 DEF Journal
  <2> QED
    BY <2>2
<1>2. ASSUME NEW p \in Proc, Update(p) PROVE CancelUpdate(p)
  BY <1>1, <1>2 DEF Update, BeginUpdate, Prepare, NoUpdate, PublishJournal, PublishFails,
     PublishUnconfirmed, PublishUnidentified, Handoff, HandoffFails, ParentExit
<1>3. ASSUME NEW p \in Proc, Recovery(p) PROVE FinishRecovery(p)
  BY <1>3 DEF Recovery, BeginRecovery, NothingPending, RollBack, RestoreOldAsset, Admit
<1>4. ASSUME NEW p \in Proc, Repair(p) PROVE FALSE
  BY <1>4 DEF Repair, Inspect, KeepAsset, MoveAside, PlaceAsset, RestoreAside
<1>5. ASSUME NEW x \in Actor, Actions(x) PROVE FinishCommit(x)
  BY <1>5 DEF Actions, Commit, InstallAsset, Refuse
<1>6. ~HelperStart /\ ~Damage /\ (\A x \in Actor : ~Stop(x)) /\ (\A p \in Proc : ~Launch(p))
  BY DEF HelperStart, Damage, Stop, Launch
<1> QED
  BY <1>2, <1>3, <1>4, <1>5, <1>6 DEF Next, Work

\* A journal is cleared only over the whole target or the whole old generation,
\* or by the parent that cancels before the handoff.
THEOREM SettledClearing == Spec => ClearsSettled
<1>1. Inv /\ [Next]_vars =>
        [journal # NoJournal /\ journal' = NoJournal =>
           \/ work # NoWork /\ canon \in {work.new, work.old}
           \/ \E p \in Proc : pc[p] = "cancel"]_vars
  <2> SUFFICES ASSUME Inv, Next, journal # NoJournal, journal' = NoJournal
               PROVE  \/ work # NoWork /\ canon \in {work.new, work.old}
                      \/ \E p \in Proc : pc[p] = "cancel"
    OBVIOUS
  <2> QED
    BY ClearingSteps DEF CancelUpdate, FinishRecovery, FinishCommit, TargetMatches, OldMatches
<1> QED
  BY <1>1, Invariance, PTL DEF Spec, ClearsSettled

\* Only a replacement's last step writes the binary.
LEMMA BinarySteps ==
  ASSUME Inv, Next, canon'["binary"] # canon["binary"], damage' = damage
  PROVE  \E x \in Actor : InstallAsset(x) /\ canon'["binary"] = work.new["binary"]
<1> USE DEF counters
<1>0. canon \in Generation /\ damage \in Nat
  BY DEF Inv, TypeOK
<1>1. ASSUME NEW x \in Actor, InstallAsset(x) PROVE canon'["binary"] = work.new["binary"]
  BY <1>0, <1>1 DEF InstallAsset, Generation, Asset
<1>2. ASSUME NEW p \in Proc, RestoreOldAsset(p) PROVE FALSE
  <2>1. UndoOrder[at[p]] \in Asset \ {"binary"}
    BY <1>2 DEF RestoreOldAsset, Inv, Kinds, UndoOrder, Asset, Actor
  <2> QED
    BY <1>0, <1>2, <2>1 DEF RestoreOldAsset, Generation, Asset
<1>3. ASSUME NEW p \in Proc, MoveAside(p) \/ PlaceAsset(p) \/ RestoreAside(p) PROVE FALSE
  <2>1. pc[p] \in {"fix", "place"}
    BY <1>3 DEF MoveAside, PlaceAsset, RestoreAside
  <2>2. FixOrder[at[p]] \in Asset \ {"binary"}
    BY <2>1 DEF Inv, Kinds, FixOrder, Asset, Actor
  <2> QED
    BY <1>0, <1>3, <2>2 DEF MoveAside, PlaceAsset, RestoreAside, Generation, Asset
<1>4. \A p \in Proc : ~Update(p)
  BY DEF Update, BeginUpdate, Prepare, NoUpdate, PublishJournal, PublishFails, CancelUpdate,
     PublishUnconfirmed, PublishUnidentified, Handoff, HandoffFails, ParentExit
<1>5. \A p \in Proc : ~Recovery(p)
  BY <1>2 DEF Recovery, BeginRecovery, NothingPending, FinishRecovery, RollBack, Admit
<1>6. \A p \in Proc : ~Repair(p)
  BY <1>3 DEF Repair, Inspect, KeepAsset
<1>7. ~Damage
  BY <1>0 DEF Damage
<1>8. ~HelperStart /\ (\A x \in Actor : ~Stop(x)) /\ (\A p \in Proc : ~Launch(p))
  BY DEF HelperStart, Stop, Launch
<1>9. ASSUME NEW x \in Actor, Actions(x) PROVE InstallAsset(x)
  BY <1>9 DEF Actions, Commit, FinishCommit, Refuse
<1> QED
  BY <1>1, <1>4, <1>5, <1>6, <1>7, <1>8, <1>9 DEF Next, Work

\* cup never replaces its binary by one older than the readable manifest that
\* was installed when the replacement was prepared.
THEOREM NoDowngrade == Spec => BinaryAdvances
<1>1. Inv /\ [Next]_vars =>
        [canon'["binary"] # canon["binary"] /\ damage' = damage =>
           \A w \in Version : work.old["release"] = Bytes[w]["release"] =>
             \E v \in Version : v >= w /\ canon'["binary"] = Bytes[v]["binary"]]_vars
  <2> SUFFICES ASSUME Inv, Next, canon'["binary"] # canon["binary"], damage' = damage,
                      NEW w \in Version, work.old["release"] = Bytes[w]["release"]
               PROVE  \E v \in Version : v >= w /\ canon'["binary"] = Bytes[v]["binary"]
    OBVIOUS
  <2>1. PICK x \in Actor : InstallAsset(x) /\ canon'["binary"] = work.new["binary"]
    BY BinarySteps
  <2>2. journal \in Journal /\ work # NoWork /\ work.new = Bytes[journal.target]
    BY <2>1 DEF InstallAsset, Inv, Stages, Pending, Evidence, TypeOK
  <2>3. journal.target \in Version
    BY <2>2 DEF Journal
  <2>4. journal.target >= w
    BY <2>2, <2>3 DEF Inv, Newest
  <2> QED
    BY <2>1, <2>2, <2>3, <2>4
<1> QED
  BY <1>1, Invariance, PTL DEF Spec, BinaryAdvances
=============================================================================
