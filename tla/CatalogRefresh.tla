---------------------------- MODULE CatalogRefresh ----------------------------
(***************************************************************************)
(* config/catalog.cfg and the commands that replace it: catalog refresh    *)
(* (snapshot under a shared lock, download without a lock, compare and     *)
(* swap under an exclusive one), the catalog step of repair, and the seed  *)
(* step of reinstall. A catalog is known by its bytes (its digest); its    *)
(* revision and update URL are functions of them.                          *)
(***************************************************************************)
EXTENDS Naturals

CONSTANTS
  Catalog,      \* catalog contents
  Rev,          \* the revision of a catalog
  Url, UrlOf,   \* update URLs, and the one a catalog names
  Serves,       \* what a URL has served at some time; answers may be stale
  Seeds,        \* the catalogs that cup releases carry
  Id,           \* native file identities, which the file system may reuse
  Proc,         \* cup processes
  NoCat, NoId, NoProc,
  MaxAttempts,  \* CATALOG_REFRESH_MAX_ATTEMPTS
  MaxMisreads   \* reads of a valid catalog that fail

ASSUME CatalogAssumption ==
  /\ Rev \in [Catalog -> Nat] /\ UrlOf \in [Catalog -> Url]
  /\ Serves \in [Url -> SUBSET Catalog] /\ Seeds \subseteq Catalog
  /\ NoCat \notin Catalog /\ NoProc \notin Proc /\ NoId \notin Id

ASSUME AttemptsAssumption == MaxAttempts \in Nat \ {0} /\ MaxMisreads \in Nat

VARIABLES
  local,      \* catalog.cfg: load status, bytes, identity
  pc,         \* what each refresh does next
  before,     \* its snapshot of catalog.cfg
  remote,     \* the bytes it downloaded
  attempt,    \* its loop counter
  seen,       \* how often catalog.cfg changed during it (up to MaxAttempts)
  holder,     \* the repair or reinstall that holds cup.lock exclusively, has
              \* moved the old file aside and has yet to place a seed
  misreads

vars == <<local, pc, before, remote, attempt, seen, holder, misreads>>

Refused == {"future", "oversized"}   \* CUP_ERR_NOT_AVAILABLE, CUP_ERR_BUFFER_TOO_SMALL
Broken  == [status : {"missing", "malformed"} \cup Refused, cat : {NoCat}, id : {NoId}]
Valid(c, i) == [status |-> "valid", cat |-> c, id |-> i]
Locals  == {Valid(c, i) : c \in Catalog, i \in Id} \cup Broken
Missing == [status |-> "missing", cat |-> NoCat, id |-> NoId]

Loads == local.status = "valid"

TypeOK ==
  /\ local \in Locals
  /\ pc \in [Proc -> {"idle", "snapshot", "download", "commit"}]
  /\ before \in [Proc -> Locals]
  /\ remote \in [Proc -> Catalog \cup {NoCat}]
  /\ attempt \in [Proc -> 0..MaxAttempts]
  /\ seen \in [Proc -> 0..MaxAttempts]
  /\ holder \in Proc \cup {NoProc}
  /\ misreads \in Nat

Init ==
  /\ \E c \in Seeds, i \in Id : local = Valid(c, i)
  /\ pc = [p \in Proc |-> "idle"]
  /\ before = [p \in Proc |-> Missing]
  /\ remote = [p \in Proc |-> NoCat]
  /\ attempt = [p \in Proc |-> 0] /\ seen = [p \in Proc |-> 0]
  /\ holder = NoProc /\ misreads = 0

\* catalog.cfg becomes l; every refresh under way is overtaken by the change.
Publish(l) ==
  /\ local' = l
  /\ seen' = [p \in Proc |-> IF l # local /\ seen[p] < MaxAttempts THEN seen[p] + 1 ELSE seen[p]]

\* A refresh keeps nothing between calls.
Return(p) ==
  /\ pc' = [pc EXCEPT ![p] = "idle"]
  /\ before' = [before EXCEPT ![p] = Missing]
  /\ remote' = [remote EXCEPT ![p] = NoCat]

(***************************************************************************)
(* catalog_refresh.c.                                                      *)
(***************************************************************************)
StartRefresh(p) ==
  /\ pc[p] = "idle" /\ holder # p
  /\ pc' = [pc EXCEPT ![p] = "snapshot"]
  /\ attempt' = [attempt EXCEPT ![p] = 0] /\ seen' = [seen EXCEPT ![p] = 0]
  /\ UNCHANGED <<local, before, remote, holder, misreads>>

\* load_locked_catalog under a shared lock.
Snapshot(p) ==
  /\ pc[p] = "snapshot" /\ holder = NoProc /\ Loads
  /\ before' = [before EXCEPT ![p] = local]
  /\ pc' = [pc EXCEPT ![p] = "download"]
  /\ UNCHANGED <<local, remote, attempt, seen, holder, misreads>>

Download(p) ==
  /\ pc[p] = "download"
  /\ \E c \in Serves[UrlOf[before[p].cat]] : remote' = [remote EXCEPT ![p] = c]
  /\ pc' = [pc EXCEPT ![p] = "commit"]
  /\ UNCHANGED <<local, before, attempt, seen, holder, misreads>>

\* same_snapshot compares revision, digest and identity.
AnySnapshot(p)   == TRUE
NoSnapshot(p)    == FALSE
SameSnapshot(p)  == before[p] = local

NotOlder(p) == Rev[remote[p]] >= Rev[local.cat]
Newer(p)    == Rev[remote[p]] > Rev[local.cat]

\* for (attempt = 0; attempt < MAX; ++attempt)
UncountedAttempt(p) ==
  /\ pc' = [pc EXCEPT ![p] = "snapshot"] /\ UNCHANGED <<attempt, before, remote>>
NextAttempt(p) ==
  /\ attempt' = [attempt EXCEPT ![p] = @ + 1]
  /\ IF attempt[p] + 1 < MaxAttempts
     THEN pc' = [pc EXCEPT ![p] = "snapshot"] /\ UNCHANGED <<before, remote>>
     ELSE Return(p)

\* commit_remote_catalog under an exclusive lock: the same bytes are already
\* there; catalog.cfg changed, so start over; replace it; or refuse.
Commit(p) ==
  /\ pc[p] = "commit" /\ holder = NoProc /\ Loads
  /\ \/ /\ local.cat = remote[p]
        /\ Return(p) /\ UNCHANGED <<local, attempt, seen>>
     \/ /\ local.cat # remote[p] /\ ~SameSnapshot(p)
        /\ NextAttempt(p) /\ UNCHANGED <<local, seen>>
     \/ /\ local.cat # remote[p] /\ SameSnapshot(p) /\ Newer(p)
        /\ \E i \in Id : Publish(Valid(remote[p], i))
        /\ Return(p) /\ UNCHANGED attempt
     \/ /\ local.cat # remote[p] /\ SameSnapshot(p) /\ ~Newer(p)
        /\ Return(p) /\ UNCHANGED <<local, attempt, seen>>
  /\ UNCHANGED <<holder, misreads>>

\* The lock is taken, the local catalog does not load, the download fails, the
\* process is interrupted or dies.
Abort(p) ==
  /\ pc[p] # "idle" /\ Return(p)
  /\ UNCHANGED <<local, attempt, seen, holder, misreads>>

(***************************************************************************)
(* repair_catalog of command_repair.c and install_catalog_seed of          *)
(* bootstrap.c: what does not load is moved aside, then a release seed is  *)
(* placed. A valid catalog that cannot be read counts as one that does not *)
(* load.                                                                   *)
(***************************************************************************)
MoveAside(p) ==
  /\ holder' = p /\ Publish(Missing)
  /\ UNCHANGED <<pc, before, remote, attempt>>

RepairCatalog(p) ==
  /\ pc[p] = "idle" /\ holder = NoProc /\ local.status \in {"missing", "malformed"}
  /\ MoveAside(p) /\ UNCHANGED misreads

Reinstall(p) ==
  /\ pc[p] = "idle" /\ holder = NoProc /\ local.status \in {"missing", "malformed", "oversized"}
  /\ MoveAside(p) /\ UNCHANGED misreads

Misread(p) ==
  /\ pc[p] = "idle" /\ holder = NoProc /\ Loads
  /\ misreads < MaxMisreads /\ misreads' = misreads + 1
  /\ MoveAside(p)

PlaceSeed(p) ==
  /\ holder = p
  /\ \E c \in Seeds, i \in Id : Publish(Valid(c, i))
  /\ holder' = NoProc
  /\ UNCHANGED <<pc, before, remote, attempt, misreads>>

\* The seed cannot be downloaded or published, or the process dies.
GiveUp(p) ==
  /\ holder = p
  /\ holder' = NoProc
  /\ UNCHANGED <<local, pc, before, remote, attempt, seen, misreads>>

\* Damage from outside cup.
Damage ==
  /\ holder = NoProc
  /\ \E l \in Broken : Publish(l)
  /\ UNCHANGED <<pc, before, remote, attempt, holder, misreads>>

(***************************************************************************)
(* The specification.                                                      *)
(***************************************************************************)
Refresh(p) == Snapshot(p) \/ Download(p) \/ Commit(p) \/ Abort(p)

Next ==
  \/ \E p \in Proc : \/ StartRefresh(p) \/ Refresh(p)
                     \/ RepairCatalog(p) \/ Reinstall(p) \/ Misread(p)
                     \/ PlaceSeed(p) \/ GiveUp(p)
  \/ Damage

Spec == Init /\ [][Next]_vars

\* A running refresh takes its next step, also while others keep replacing the
\* catalog; nothing is assumed of the others.
FairSpec == Spec /\ \A p \in Proc : WF_vars(Refresh(p))

(***************************************************************************)
(* Properties.                                                             *)
(***************************************************************************)

\* No interleaving of refreshes, with stale or reordered answers, replaces a
\* valid catalog by one of the same or a lower revision (commit_remote_catalog).
OnlyAdvances ==
  [][ Loads /\ Loads' /\ local'.cat # local.cat => Rev[local'.cat] > Rev[local.cat] ]_vars

\* Nor by bytes that were fetched under an older authority: what replaces a
\* valid catalog was served by the update URL of that very catalog.
OwnAuthority ==
  [][ Loads /\ Loads' /\ local'.cat # local.cat
        => local'.cat \in Serves[UrlOf[local.cat]] ]_vars

\* A refresh starts over, and in the end gives up with CUP_ERR_TEMPORARY, only
\* as often as somebody else changed the catalog meanwhile.
RetriesAreCaused == \A p \in Proc : attempt[p] <= seen[p]

\* Every refresh returns, even if the catalog changes for ever.
RefreshReturns == \A p \in Proc : pc[p] # "idle" ~> pc[p] = "idle"

\* docs/design/STATE.md: once a valid runtime catalog exists, reinstall
\* preserves it.
ValidCatalogKept == [][ Loads /\ holder = NoProc /\ holder' # NoProc => local' = local ]_vars
=============================================================================
