------------------------- MODULE KpiIngestContract -------------------------
(***************************************************************************)
(* What a KPI ingest run promises to an agent that knows nothing of        *)
(* statuses, drafts, validators or restarts: while the run is open one     *)
(* holder at a time puts revisions into it; a revision may be frozen under *)
(* a manifest; only a frozen one is committed, exactly as frozen; a run    *)
(* that is committed or closed never moves again.                          *)
(***************************************************************************)
EXTENDS Naturals

CONSTANTS Run, Holder, NoHolder, Manifest, NoManifest, RevisionOf(_)

VARIABLES
  phase,     \* none, open, frozen, committed or closed
  owner,     \* who may put revisions in
  revision,  \* how many were put in
  seal       \* the manifest of a frozen or committed run

contractVars == <<phase, owner, revision, seal>>

ContractInit ==
  /\ phase = [r \in Run |-> "none"]
  /\ owner = [r \in Run |-> NoHolder]
  /\ revision = [r \in Run |-> 0]
  /\ seal = [r \in Run |-> NoManifest]

Open(r, h) ==
  /\ phase[r] = "none"
  /\ phase' = [phase EXCEPT ![r] = "open"]
  /\ owner' = [owner EXCEPT ![r] = h]
  /\ UNCHANGED <<revision, seal>>

\* One owner after another, never one beside another.
Take(r, h) ==
  /\ phase[r] = "open"
  /\ owner[r] = NoHolder
  /\ owner' = [owner EXCEPT ![r] = h]
  /\ UNCHANGED <<phase, revision, seal>>

LetGo(r) ==
  /\ owner[r] # NoHolder
  /\ owner' = [owner EXCEPT ![r] = NoHolder]
  /\ UNCHANGED <<phase, revision, seal>>

Put(r) ==
  /\ phase[r] = "open"
  /\ owner[r] # NoHolder
  /\ revision' = [revision EXCEPT ![r] = @ + 1]
  /\ UNCHANGED <<phase, owner, seal>>

\* Freezing takes the run out of its owner's hands.
Freeze(r, m) ==
  /\ phase[r] = "open"
  /\ RevisionOf(m) = revision[r]
  /\ phase' = [phase EXCEPT ![r] = "frozen"]
  /\ seal' = [seal EXCEPT ![r] = m]
  /\ owner' = [owner EXCEPT ![r] = NoHolder]
  /\ UNCHANGED revision

Thaw(r) ==
  /\ phase[r] = "frozen"
  /\ phase' = [phase EXCEPT ![r] = "open"]
  /\ seal' = [seal EXCEPT ![r] = NoManifest]
  /\ UNCHANGED <<owner, revision>>

Commit(r) ==
  /\ phase[r] = "frozen"
  /\ phase' = [phase EXCEPT ![r] = "committed"]
  /\ UNCHANGED <<owner, revision, seal>>

Shut(r) ==
  /\ phase[r] \in {"open", "frozen"}
  /\ phase' = [phase EXCEPT ![r] = "closed"]
  /\ owner' = [owner EXCEPT ![r] = NoHolder]
  /\ seal' = [seal EXCEPT ![r] = NoManifest]
  /\ UNCHANGED revision

ContractNext ==
  \E r \in Run :
    \/ \E h \in Holder : Open(r, h) \/ Take(r, h)
    \/ \E m \in Manifest : Freeze(r, m)
    \/ LetGo(r) \/ Put(r) \/ Thaw(r) \/ Commit(r) \/ Shut(r)

Contract == ContractInit /\ [][ContractNext]_contractVars
=============================================================================
