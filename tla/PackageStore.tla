---------------------------- MODULE PackageStore ----------------------------
(***************************************************************************)
(* What the package half of a cup root promises, without journals, trees   *)
(* and staging. One package at a time is pending; only its record may      *)
(* change, in one step. A record leaves only by its own removal or because *)
(* its bytes are lost, to damage or to a repair that cannot read them, and *)
(* a lost state.txt comes back with exactly the packages it had.           *)
(***************************************************************************)
CONSTANTS Package, Scope, ScopeOf, NoPkg

VARIABLES
  readable,  \* state.txt can be loaded
  recorded,  \* recorded packages nobody spoilt, known also while unreadable
  default,   \* the default of each scope
  pending    \* the package of an unfinished operation

vars == <<readable, recorded, default, pending>>

Init ==
  /\ readable = TRUE
  /\ recorded = {}
  /\ default = [s \in Scope |-> NoPkg]
  /\ pending = NoPkg

With(p) == [default EXCEPT ![ScopeOf[p]] = p]

\* An operation announces its package before it touches anything.
Announce(p) ==
  /\ readable /\ pending = NoPkg
  /\ pending' = p
  /\ UNCHANGED <<readable, recorded, default>>

\* A pending operation ends, whether or not it has changed the record.
Resolve ==
  /\ readable /\ pending # NoPkg
  /\ pending' = NoPkg
  /\ UNCHANGED <<readable, recorded, default>>

\* The pending package becomes a record. It becomes the default of a scope
\* without packages, or follows the default an update moves.
Admit(p) ==
  /\ readable /\ pending = p
  /\ recorded' = recorded \cup {p}
  /\ \/ UNCHANGED default
     \/ /\ default[ScopeOf[p]] = NoPkg => \A q \in recorded : ScopeOf[q] # ScopeOf[p]
        /\ default' = With(p)
  /\ UNCHANGED <<readable, pending>>

Drop(p) ==
  /\ readable /\ pending = p
  /\ recorded' = recorded \ {p}
  /\ default' = IF default[ScopeOf[p]] = p THEN [default EXCEPT ![ScopeOf[p]] = NoPkg]
                ELSE default
  /\ UNCHANGED <<readable, pending>>

\* Only with nothing pending does a default move on its own.
Choose(p) ==
  /\ readable /\ pending = NoPkg
  /\ default' = With(p)
  /\ UNCHANGED <<readable, recorded, pending>>

\* A package or state.txt is damaged, or a repair takes it for damaged because
\* it cannot read it: both may happen at any time, and the store cannot tell
\* one from the other. The fate of the pending package was known only in
\* state.txt.
Spoil(p) ==
  /\ recorded' = recorded \ {p}
  /\ UNCHANGED <<readable, default, pending>>

Lose ==
  /\ readable' = FALSE
  /\ default' = [s \in Scope |-> NoPkg]
  /\ recorded' \in {recorded, recorded \ {pending}, recorded \cup ({pending} \ {NoPkg})}
  /\ UNCHANGED pending

\* Repair with nothing pending: no unspoilt record is lost or invented, and
\* only the default of a spoilt one is dropped.
Heal ==
  /\ pending = NoPkg
  /\ readable' = TRUE
  /\ default' \in [Scope -> {default[s] : s \in Scope} \cup {NoPkg}]
  /\ \A s \in Scope : default'[s] # default[s] =>
                        default'[s] = NoPkg /\ default[s] \notin recorded
  /\ UNCHANGED <<recorded, pending>>

Next ==
  \/ \E p \in Package : Announce(p) \/ Admit(p) \/ Drop(p) \/ Choose(p) \/ Spoil(p)
  \/ Resolve \/ Lose \/ Heal

Spec == Init /\ [][Next]_vars
=============================================================================
