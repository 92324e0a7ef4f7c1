---------------------------- MODULE InstallPlanning ----------------------------
(***************************************************************************)
(* cup install: from a selection to packages pinned by their digests, over *)
(* the preferences, the official policy and the catalog.                   *)
(*                                                                         *)
(* A plan is made under a shared lock, the catalog is refreshed without a  *)
(* lock, and each package is installed under an exclusive lock of its own. *)
(* One install command is followed step by step; config, refresh, install, *)
(* remove and repair of other processes, which take the exclusive lock,    *)
(* run between its steps wherever its lock admits them.                    *)
(***************************************************************************)
EXTENDS ReleaseOrder, FiniteSets, SequencesExt

CONSTANTS
  Component, Target, Tool,
  Format,          \* archive formats a catalog may name
  ComponentOf,     \* the compiled registry: the component of each tool
  ScopeOrder,      \* the byte order of <<target, component>>
  Policy,          \* the official tool of a scope, NoTool if there is none
  Supported,       \* archive formats this cup understands
  Catalog,         \* catalogs that may be served, or left by damage
  Selection,       \* the requests users make
  NoTool,
  MaxPreferences   \* MAX_TOOL_PREFERENCES

Scope == Target \X Component

ASSUME RegistryAssumption ==
  /\ ComponentOf \in [Tool -> Component]
  /\ NoTool \notin Tool
  /\ Policy \in [Scope -> Tool \cup {NoTool}]
  /\ \A s \in Scope : Policy[s] # NoTool => ComponentOf[Policy[s]] = s[2]
  /\ ScopeOrder \in [Scope -> Nat] /\ IsInjective(ScopeOrder)
  /\ MaxPreferences \in Nat

\* An entry of a catalog: understood says that this cup knows its component,
\* tool, platforms and version syntax; reason that it explains a revision.
ASSUME CatalogAssumption ==
  \A c \in Catalog :
    /\ c.supported \in BOOLEAN /\ c.revision \in Nat
    /\ \A e \in c.entries :
         /\ DOMAIN e = {"tool", "target", "version", "stable", "understood", "reason", "formats"}
         /\ e.tool \in Tool /\ e.target \in Target /\ e.stable \in BOOLEAN
         /\ e.understood \in BOOLEAN /\ e.reason \in BOOLEAN
         /\ e.understood => Concrete(e.version)
         /\ e.formats \subseteq Format

\* "stable" is the release with an empty base.
Stable == [base |-> <<>>, rev |-> <<>>]

\* A selection names components (a component or a profile), tools (a
\* toolchain) or one tool and release.
ASSUME SelectionAssumption ==
  /\ Selection # {}
  /\ \A s \in Selection :
       /\ s.kind \in {"component", "profile", "toolchain", "tool"}
       /\ s.target \in Target /\ s.format \in Supported
       /\ s.items # <<>>
       /\ s.kind \in {"component", "profile"} =>
            s.items \in Seq(Component) /\ s.release = Stable
       /\ s.kind \in {"toolchain", "tool"} => s.items \in Seq(Tool)
       /\ s.kind = "toolchain" => s.release = Stable
       /\ s.kind \in {"component", "tool"} => Len(s.items) = 1
       /\ s.release = Stable \/ Concrete(s.release)

VARIABLES
  prefs,      \* preferences.txt: whether it is valid, its records in order
  wish,       \* what the users asked for, scope by scope (history)
  catalog,    \* the catalog file
  phase,      \* the step of the install command
  lock,       \* the runtime lock the command holds
  selection,  \* its request
  plan,       \* its InstallPlan: tool and release of each item
  specs,      \* the pinned artifacts of the plan once it is validated
  next,       \* the item that is installed next
  refresh,    \* what catalog_refresh_existing returned
  seen,       \* what the last snapshot said, when it was closed (history)
  result      \* the step that ended the command

files   == <<prefs, wish, catalog>>
command == <<phase, lock, selection, plan, specs, next, refresh, seen, result>>
vars    == <<files, command>>

(***************************************************************************)
(* Preferences.                                                            *)
(***************************************************************************)
ScopeOf(r) == <<r.target, r.component>>

PreferenceIndex(items, s) == {i \in DOMAIN items : ScopeOf(items[i]) = s}

\* tool_preferences_find
Preferred(items, s) ==
  LET found == PreferenceIndex(items, s)
  IN  IF found = {} THEN NoTool ELSE items[Min(found)].tool

\* The records at the given positions by the order of their keys: the n-th
\* is the one with n keys up to its own.
Position(S, key, n) == CHOOSE i \in S : Cardinality({j \in S : key[j] <= key[i]}) = n

Arranged(items, S, key) == [n \in 1..Cardinality(S) |-> items[Position(S, key, n)]]

\* What qsort makes of records with different scopes.
Sorted(items) ==
  Arranged(items, DOMAIN items, [i \in DOMAIN items |-> ScopeOrder[ScopeOf(items[i])]])

\* tool_preferences_set; the capacity is checked by the caller's guard.
SetPreference(items, r) ==
  LET found == PreferenceIndex(items, ScopeOf(r))
  IN  IF found = {} THEN Append(items, r) ELSE [items EXCEPT ![Min(found)] = r]

\* tool_preferences_reset moves the records behind the removed one up.
ResetPreference(items, s) ==
  LET found == PreferenceIndex(items, s)
  IN  IF found = {} THEN items ELSE RemoveAt(items, Min(found))

ResetEverything(items, t) == <<>>

\* tool_preferences_reset_scope moves every record of another target up to
\* the next free position.
ResetScope(items, t) ==
  LET kept == {i \in DOMAIN items : items[i].target # t}
  IN  Arranged(items, kept, [i \in kept |-> i])

(***************************************************************************)
(* The catalog.                                                            *)
(***************************************************************************)
Operational(e) == e.understood /\ e.formats \cap Supported # {}

SameTuple(e, f) == e.tool = f.tool /\ e.target = f.target

\* The checks of validate_catalog that compare entries; a catalog that
\* fails one is refused as a whole.
VersionsUnique(entries) ==
  \A e, f \in entries : SameTuple(e, f) /\ e.version = f.version => e = f

OneStable(entries) ==
  \A e, f \in entries : SameTuple(e, f) /\ e.stable /\ f.stable => e = f

ContractKept(entries) ==
  \A e \in entries : e.understood => (e.version.rev # <<>> <=> e.reason)

StableIsMaximum(entries) ==
  \A e, f \in entries :
    SameTuple(e, f) /\ e.stable /\ Operational(e) /\ Operational(f) =>
      ReleaseCompare(e.version, f.version) >= 0

ValidateCatalog(entries) ==
  /\ \A e \in entries : e.formats # {}
  /\ VersionsUnique(entries)
  /\ OneStable(entries)
  /\ ContractKept(entries)
  /\ StableIsMaximum(entries)

Loads(c) == c.supported /\ ValidateCatalog(c.entries)

FindRelease(c, tool, target, version) ==
  {e \in c.entries : Operational(e) /\ e.tool = tool /\ e.target = target /\ e.version = version}

ResolveStable(c, tool, target) ==
  {e.version : e \in {f \in c.entries : f.stable /\ Operational(f) /\ f.tool = tool /\ f.target = target}}

(***************************************************************************)
(* Plans.                                                                  *)
(***************************************************************************)
Item(tool, release) == [tool |-> tool, release |-> release]

\* install_plan_add_component: a preference comes before the official tool.
ToolFor(items, s) ==
  IF Preferred(items, s) # NoTool THEN Preferred(items, s) ELSE Policy[s]

PlanBuild(s, items) ==
  [i \in DOMAIN s.items |->
     IF s.kind \in {"component", "profile"}
     THEN Item(ToolFor(items, <<s.target, s.items[i]>>), Stable)
     ELSE Item(s.items[i], s.release)]

NeedsPreferences(s) == s.kind \in {"component", "profile"}

\* No item lacks a tool: install_plan_add_component fails otherwise.
Complete(p) == \A i \in DOMAIN p : p[i].tool # NoTool

HasSymbolic(p) == \E i \in DOMAIN p : p[i].release = Stable

Resolutions(c, s, item) ==
  IF item.release = Stable THEN ResolveStable(c, item.tool, s.target) ELSE {item.release}

\* install_plan_validate_item: the pinned artifacts an item may become,
\* none if it is not available.
SpecsOf(c, s, item) ==
  {[tool |-> e.tool, version |-> e.version, catalog |-> c.revision] :
     e \in {f \in UNION {FindRelease(c, item.tool, s.target, v) : v \in Resolutions(c, s, item)} :
              s.format \in f.formats}}

Available(c, s, p) == \A i \in DOMAIN p : SpecsOf(c, s, p[i]) # {}

PlanSpecs(c, s, p) == [i \in DOMAIN p |-> CHOOSE spec \in SpecsOf(c, s, p[i]) : TRUE]

\* An exact request of one tool.
Exact(s) == s.kind = "tool" /\ s.release # Stable

-------------------------------------------------------------------------------
NoSelection == CHOOSE s \in Selection : TRUE
Nothing     == [tools |-> <<>>, catalog |-> {}]

\* The tools the items of a request stand for, by the users' wishes and then
\* by policy.
Wanted(s, w) ==
  [i \in DOMAIN s.items |->
     IF ~NeedsPreferences(s) THEN s.items[i]
     ELSE LET scope == <<s.target, s.items[i]>>
          IN  IF w[scope] # NoTool THEN w[scope] ELSE Policy[scope]]

\* prefs is missing, which counts as empty, or a valid file; an installed
\* root has a catalog.
Init ==
  /\ prefs = [valid |-> TRUE, items |-> <<>>]
  /\ wish = [s \in Scope |-> NoTool]
  /\ catalog \in {c \in Catalog : Loads(c)}
  /\ phase = "idle" /\ lock = "none"
  /\ selection = NoSelection
  /\ plan = <<>> /\ specs = <<>> /\ next = 1
  /\ refresh = "none"
  /\ seen = Nothing
  /\ result = "none"

Enter(p) == phase' = p
\* command_context_end
CloseSnapshot ==
  /\ lock' = "none"
  /\ seen' = [tools |-> Wanted(selection, wish), catalog |-> {catalog}]

Unlocked == lock = "none"

\* The command's memory goes with it.
End(r) ==
  /\ Enter("idle")
  /\ result' = r
  /\ lock' = "none"
  /\ selection' = NoSelection /\ plan' = <<>> /\ specs' = <<>> /\ next' = 1
  /\ refresh' = "none" /\ seen' = Nothing

(***************************************************************************)
(* The install command.                                                    *)
(***************************************************************************)
Install(s) ==
  /\ phase = "idle"
  /\ selection' = s
  /\ result' = "none"
  /\ Enter("open")
  /\ UNCHANGED <<files, lock, plan, specs, next, refresh, seen>>

\* install_plan_open_snapshot, for the local plan and again after the
\* network window: the lock, state, preferences where they count, the plan.
PlanOnce(s)    == IF plan = <<>> THEN PlanBuild(s, prefs.items) ELSE plan
SnapshotPlan(s) == PlanBuild(s, prefs.items)

SnapshotFails ==
  \/ NeedsPreferences(selection) /\ ~prefs.valid
  \/ ~Complete(SnapshotPlan(selection))

OpenSnapshot ==
  /\ phase = "open"
  /\ ~SnapshotFails
  /\ lock' = "shared"
  /\ plan' = SnapshotPlan(selection)
  /\ Enter(IF refresh = "none" THEN "local" ELSE "validate")
  /\ UNCHANGED <<files, selection, specs, next, refresh, seen, result>>

\* No plan, or another process holds the exclusive lock.
NoSnapshot ==
  /\ phase = "open"
  /\ End(IF SnapshotFails THEN "no plan" ELSE "locked")
  /\ UNCHANGED files

\* install_plan_exact_local_noop needs neither catalog nor network: an exact
\* package that is installed (or present and invalid) ends the command.
LocalNoop ==
  /\ phase = "local"
  /\ \/ Exact(selection) /\ \E r \in {"already", "invalid package"} : End(r)
     \/ /\ Enter("authority")
        /\ UNCHANGED <<lock, selection, plan, specs, next, refresh, seen, result>>
  /\ UNCHANGED files

\* A usable local catalog is required; it may already satisfy a plan
\* without symbolic releases.
AlwaysRefresh  == FALSE
LocalSatisfies == ~HasSymbolic(plan) /\ Available(catalog, selection, plan)

LocalCatalog ==
  /\ phase = "authority"
  /\ \/ ~Loads(catalog) /\ End("catalog")
     \/ /\ Loads(catalog)
        /\ CloseSnapshot
        /\ IF LocalSatisfies
           THEN Enter("execute") /\ specs' = PlanSpecs(catalog, selection, plan)
           ELSE Enter("refresh") /\ UNCHANGED specs
        /\ UNCHANGED <<selection, plan, next, refresh, result>>
  /\ UNCHANGED files

\* A failed refresh ends an exact request, and leaves a symbolic one to the
\* valid local catalog.
ExactOnly(p)    == ~HasSymbolic(p)

RefreshFails ==
  /\ phase = "refresh"
  /\ IF ExactOnly(plan) THEN End("refresh")
     ELSE /\ refresh' = "failed"
          /\ Enter("open")
          /\ UNCHANGED <<lock, selection, plan, specs, next, seen, result>>
  /\ UNCHANGED files

NewerThan(c) == {d \in Catalog : Loads(d) /\ d.revision > c.revision}

RefreshSucceeds ==
  /\ phase = "refresh"
  /\ Loads(catalog)
  /\ refresh' = "ok"
  /\ \/ catalog' \in NewerThan(catalog)
     \/ UNCHANGED catalog
  /\ Enter("open")
  /\ UNCHANGED <<prefs, wish, lock, selection, plan, specs, next, seen, result>>

\* The second snapshot: all items are available, or nothing is installed.
\* (What the user is told here is the error of the refresh, if that failed.)
\* An installed package of the plan may also turn out to be invalid.
Satisfies == Loads(catalog) /\ Available(catalog, selection, plan)

ValidatePlan ==
  /\ phase = "validate"
  /\ Satisfies
  /\ CloseSnapshot
  /\ specs' = PlanSpecs(catalog, selection, plan)
  /\ Enter("execute")
  /\ UNCHANGED <<files, selection, plan, next, refresh, result>>

PlanUnavailable ==
  /\ phase = "validate"
  /\ \/ ~Satisfies /\ End("unavailable")
     \/ Satisfies /\ End("invalid package")
  /\ UNCHANGED files

\* package_install_artifact (PackageLifecycle), one item after the other,
\* each with a lock of its own. In a group an item that is installed already
\* is skipped; any other failure stops the group, and what was installed is
\* kept.
ExecuteItem ==
  /\ phase = "execute"
  /\ IF next < Len(specs)
     THEN /\ next' = next + 1
          /\ UNCHANGED <<phase, lock, selection, plan, specs, refresh, seen, result>>
     ELSE \/ End("installed")
          \/ Len(specs) = 1 /\ End("already")
  /\ UNCHANGED files

ExecuteFails ==
  /\ phase = "execute"
  /\ End("stopped")
  /\ UNCHANGED files

(***************************************************************************)
(* Other processes. Each holds the exclusive lock for its change.          *)
(***************************************************************************)
Saved(items) == prefs' = [prefs EXCEPT !.items = Sorted(items)]

\* cup config set; the file is full when it holds MAX_TOOL_PREFERENCES scopes.
ConfigSet(t, tool) ==
  /\ Unlocked /\ prefs.valid
  /\ LET s == <<t, ComponentOf[tool]>>
         r == [target |-> t, component |-> ComponentOf[tool], tool |-> tool]
     IN  /\ PreferenceIndex(prefs.items, s) # {} \/ Len(prefs.items) < MaxPreferences
         /\ Saved(SetPreference(prefs.items, r))
         /\ wish' = [wish EXCEPT ![s] = tool]
  /\ UNCHANGED <<catalog, command>>

ConfigReset(s) ==
  /\ Unlocked /\ prefs.valid
  /\ Saved(ResetPreference(prefs.items, s))
  /\ wish' = [wish EXCEPT ![s] = NoTool]
  /\ UNCHANGED <<catalog, command>>

ConfigResetScope(t) ==
  /\ Unlocked /\ prefs.valid
  /\ Saved(ResetScope(prefs.items, t))
  /\ wish' = [s \in Scope |-> IF s[1] = t THEN NoTool ELSE wish[s]]
  /\ UNCHANGED <<catalog, command>>

OtherRefresh ==
  /\ Unlocked /\ Loads(catalog)
  /\ catalog' \in NewerThan(catalog)
  /\ UNCHANGED <<prefs, wish, command>>

\* Damage from outside, and the repair of it: an invalid preferences.txt is
\* moved aside, a catalog that does not load is replaced by the release's.
Damage ==
  /\ Unlocked
  /\ \/ /\ prefs' = [valid |-> FALSE, items |-> <<>>]
        /\ wish' = [s \in Scope |-> NoTool]
        /\ UNCHANGED catalog
     \/ catalog' \in {c \in Catalog : ~Loads(c)} /\ UNCHANGED <<prefs, wish>>
  /\ UNCHANGED command

Repair ==
  /\ Unlocked
  /\ \/ /\ ~prefs.valid
        /\ prefs' = [valid |-> TRUE, items |-> <<>>]
        /\ UNCHANGED <<wish, catalog>>
     \/ /\ ~Loads(catalog)
        /\ catalog' \in {c \in Catalog : Loads(c)}
        /\ UNCHANGED <<prefs, wish>>
  /\ UNCHANGED command

InstallCommand ==
  \/ \E s \in Selection : Install(s)
  \/ OpenSnapshot \/ NoSnapshot \/ LocalNoop \/ LocalCatalog
  \/ RefreshFails \/ RefreshSucceeds \/ ValidatePlan
  \/ PlanUnavailable \/ ExecuteItem \/ ExecuteFails

Others ==
  \/ \E t \in Target, tool \in Tool : ConfigSet(t, tool)
  \/ \E s \in Scope : ConfigReset(s)
  \/ \E t \in Target : ConfigResetScope(t)
  \/ OtherRefresh \/ Damage \/ Repair

Next == InstallCommand \/ Others

Spec == Init /\ [][Next]_vars

-------------------------------------------------------------------------------
Preference == [target : Target, component : Component, tool : Tool]

TypeOK ==
  /\ prefs \in [valid : BOOLEAN, items : Seq(Preference)]
  /\ Len(prefs.items) <= MaxPreferences
  /\ wish \in [Scope -> Tool \cup {NoTool}]
  /\ catalog \in Catalog
  /\ phase \in {"idle", "open", "local", "authority", "refresh", "validate", "execute"}
  /\ lock \in {"none", "shared"}
  /\ lock = "shared" <=> phase \in {"local", "authority", "validate"}
  /\ selection \in Selection
  /\ phase = "execute" => next \in DOMAIN specs
  /\ refresh \in {"none", "ok", "failed"}

\* What config did last to a scope is what preferences.txt says of it, and
\* the file stays in the canonical form the writer promises and the strict
\* loader accepts: one record for a scope, in the order of the scopes, each
\* for a tool of its component.
PreferencesAreLatest ==
  /\ TypeOK
  /\ prefs.valid =>
       /\ \A s \in Scope : Preferred(prefs.items, s) = wish[s]
       /\ \A i, j \in DOMAIN prefs.items :
            i < j => ScopeOrder[ScopeOf(prefs.items[i])] < ScopeOrder[ScopeOf(prefs.items[j])]
       /\ \A i \in DOMAIN prefs.items : ComponentOf[prefs.items[i].tool] = prefs.items[i].component

\* The newest release of a tool this cup can install, by the values of the
\* numerals.
Newest(c, tool, target) ==
  LET offered == {e \in c.entries : Operational(e) /\ e.tool = tool /\ e.target = target}
  IN  {e \in offered : \A f \in offered : ~Before(e.version, f.version)}

\* What is executed is what the preferences and the catalog of one instant,
\* the last snapshot, say: every item of the request, its tool by preference
\* and then by policy, and the newest release where it says stable. No plan
\* survives the network window.
ExecutesCurrentPlan ==
  phase = "execute" =>
    /\ DOMAIN specs = DOMAIN selection.items
    /\ \A c \in seen.catalog : Loads(c) /\ \A i \in DOMAIN specs : \E e \in c.entries :
         /\ Operational(e) /\ selection.format \in e.formats /\ e.target = selection.target
         /\ specs[i] = [tool |-> seen.tools[i], version |-> e.version, catalog |-> c.revision]
         /\ e.tool = seen.tools[i]
         /\ IF selection.release = Stable
            THEN e.stable /\ e \in Newest(c, e.tool, e.target)
            ELSE e.version = selection.release

\* A refresh that fails ends a request only if the local catalog did not satisfy
\* it when the command looked, before the network window.
OfflineStillInstalls ==
  [][(phase = "refresh" /\ phase' = "idle") =>
       \A c \in seen.catalog : ~Available(c, selection, plan)]_vars

\* The comparison of package_selector.c orders every release of the catalog at
\* hand, and of those it may be replaced by, by the values of their numerals;
\* only equal releases compare as equal.
Versions(c) == {e.version : e \in {f \in c.entries : f.understood}}

ReleaseOrderSound ==
  \A c \in Catalog : \A l \in Versions(catalog), r \in Versions(c) :
    ReleaseCompare(l, r) = IF Before(l, r) THEN -1 ELSE IF l = r THEN 0 ELSE 1

===============================================================================
