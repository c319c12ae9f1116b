--------------------------- MODULE InvestmentProfiles ---------------------------
(***************************************************************************)
(* The versions of one user's investment policy (src/backend/storage.py,   *)
(* investment_profile_versions and its audit events).  A version is        *)
(* drafted, activated with the consent of the user and superseded by the   *)
(* next; what the user sees of it is read in several transactions.         *)
(***************************************************************************)
EXTENDS Naturals

CONSTANTS
  Payloads,   \* the answers a user can give, as far as their hashes tell them apart
  Invalid,    \* those that do not pass validate_investment_policy
  Tabs,       \* pages the user has open
  Readers,    \* requests for the current policy
  None,
  MaxVersions \* bound

VersionIds == 1..MaxVersions

VARIABLES
  version,    \* investment_profile_versions by version_no
  audit,      \* investment_profile_audit_events
  tab,        \* what each page shows and has drafted
  reader      \* what each request has read

vars == <<version, audit, tab, reader>>

NoVersion == [status |-> "none", payload |-> None, drawnFrom |-> 0]

NoAnswer == [at |-> "start", seen |-> 0, rows |-> <<>>, alarm |-> FALSE]

Event(type, v) == [type |-> type, version |-> v]

\* _migrate_legacy_investment_profiles has made a version of the policy of a
\* user who was there before versions were, active and in need of confirmation.
Init ==
  /\ \/ version = [v \in VersionIds |-> NoVersion] /\ audit = {}
     \/ /\ version = [v \in VersionIds |->
             IF v = 1 THEN [NoVersion EXCEPT !.status = "active"] ELSE NoVersion]
        /\ audit = {Event("legacy", 1)}
  /\ tab = [t \in Tabs |-> [shown |-> 0, draft |-> 0]]
  /\ reader = [r \in Readers |-> NoAnswer]

Versions == {v \in VersionIds : version[v].status # "none"}

\* 0 when there is none
Active ==
  IF \E v \in Versions : version[v].status = "active"
  THEN CHOOSE v \in Versions : version[v].status = "active" ELSE 0

-----------------------------------------------------------------------------
\* The page loads the current policy and fills its form with it.
Load(t) ==
  /\ tab' = [tab EXCEPT ![t] = [shown |-> Active, draft |-> 0]]
  /\ UNCHANGED <<version, audit, reader>>

Drafts(p) == {v \in Versions : version[v].status = "draft" /\ version[v].payload = p}

\* create_investment_profile_draft: a draft of the same hash is used again.
Draft(t, p) ==
  /\ \/ \E v \in Drafts(p) :
          /\ \A w \in Drafts(p) : w <= v
          /\ tab' = [tab EXCEPT ![t].draft = v]
          /\ UNCHANGED <<version, audit>>
     \/ /\ Drafts(p) = {}
        /\ \E v \in VersionIds :
             /\ Versions = 1..(v - 1)
             /\ version' = [version EXCEPT ![v].status = "draft", ![v].payload = p]
             /\ audit' = audit \cup {Event("draft", v)}
             /\ tab' = [tab EXCEPT ![t].draft = v]
  /\ UNCHANGED reader

\* Mutant: the version in force stays active.
SupersedingNone(v, statuses) ==
  [w \in VersionIds |-> IF w = v THEN "active" ELSE statuses[w].status]

Superseding(v, statuses) ==
  [w \in VersionIds |->
     CASE w = v -> "active"
       [] w # v /\ statuses[w].status = "active" -> "superseded"
       [] OTHER -> statuses[w].status]

Activated(t, v) ==
  /\ version' = [w \in VersionIds |->
       [version[w] EXCEPT !.status = Superseding(v, version)[w],
                          !.drawnFrom = IF w = v THEN tab[t].shown ELSE @]]
  /\ audit' = audit \cup {Event("activated", v)}
                    \cup (IF Active = 0 THEN {} ELSE {Event("superseded", Active)})
  /\ UNCHANGED <<tab, reader>>

\* Mutant: the version the page shows is not compared.
ActivateUnseen(t) ==
  /\ tab[t].draft # 0 /\ version[tab[t].draft].payload \notin Invalid
  /\ version[tab[t].draft].status = "draft"
  /\ Activated(t, tab[t].draft)

\* activate_investment_profile_version: also when the other page has activated
\* the same draft, which changes nothing.
Activate(t) ==
  /\ tab[t].draft # 0 /\ version[tab[t].draft].payload \notin Invalid
  /\ version[tab[t].draft].status = "draft" /\ Active = tab[t].shown
  /\ Activated(t, tab[t].draft)

-----------------------------------------------------------------------------
(* get_investment_profile reads the active version, and                    *)
(* verify_investment_profile_integrity the versions and then the events.   *)
(* The chain of hashes is left out: whatever prefix is read, it verifies;  *)
(* so is the review date, which only makes the answer say configured less  *)
(* often.                                                                  *)

ReadActive(r) ==
  /\ reader[r].at = "start" /\ Active # 0
  /\ reader' = [reader EXCEPT ![r].at = "rows", ![r].seen = Active]
  /\ UNCHANGED <<version, audit, tab>>

Sound(rows, events) ==
  /\ \A v \in DOMAIN rows : rows[v] # "none" =>
       /\ \E type \in {"draft", "legacy"} : Event(type, v) \in events
       /\ rows[v] \in {"active", "superseded"} =>
            \E type \in {"activated", "legacy"} : Event(type, v) \in events
  /\ \A v, w \in DOMAIN rows : rows[v] = "active" /\ rows[w] = "active" => v = w

Statuses == [v \in VersionIds |-> version[v].status]

Answer(r, rows, events) ==
  reader' = [reader EXCEPT ![r] = [NoAnswer EXCEPT !.at = "done", !.seen = reader[r].seen,
                                                   !.alarm = ~Sound(rows, events)]]

\* Mutant: the events are read before the versions.
ReadRowsLast(r) ==
  /\ \/ /\ reader[r].at = "rows"
        /\ reader' = [reader EXCEPT ![r].at = "events", ![r].rows = audit]
     \/ reader[r].at = "events" /\ Answer(r, Statuses, reader[r].rows)
  /\ UNCHANGED <<version, audit, tab>>

Verify(r) ==
  /\ \/ /\ reader[r].at = "rows"
        /\ reader' = [reader EXCEPT ![r].at = "events", ![r].rows = Statuses]
     \/ reader[r].at = "events" /\ Answer(r, reader[r].rows, audit)
  /\ UNCHANGED <<version, audit, tab>>

Again(r) ==
  /\ reader[r].at = "done" /\ reader' = [reader EXCEPT ![r] = NoAnswer]
  /\ UNCHANGED <<version, audit, tab>>

Next ==
  \/ \E t \in Tabs : Load(t) \/ Activate(t) \/ \E p \in Payloads : Draft(t, p)
  \/ \E r \in Readers : ReadActive(r) \/ Verify(r) \/ Again(r)

Spec == Init /\ [][Next]_vars

-----------------------------------------------------------------------------
(* Properties.                                                             *)

\* Everything has its type.
TypeOK ==
  /\ \A v \in VersionIds :
       /\ version[v].status \in {"none", "draft", "active", "superseded"}
       /\ version[v].payload \in Payloads \cup {None} /\ version[v].drawnFrom \in 0..MaxVersions
  /\ \A v, w \in VersionIds : version[v].status = "active" /\ version[w].status = "active" => v = w
  /\ \A t \in Tabs : tab[t].shown \in 0..MaxVersions /\ tab[t].draft \in 0..MaxVersions
  /\ \A r \in Readers : reader[r].at \in {"start", "rows", "events", "done"}

\* The policies that were in force form one line, each activated by a user who
\* was shown the one before it: two pages never overwrite each other's policy.
EachReplacesWhatWasShown ==
  LET inForce == {v \in Versions : version[v].status \in {"active", "superseded"}} IN
  \A v, w \in inForce : v # w => version[v].drawnFrom # version[w].drawnFrom

\* No history of drafts and activations is reported as tampered with, however
\* the reads of a request fall between them: a false alarm withdraws the policy
\* from every decision that asks for it.
NoFalseAlarm == \A r \in Readers : ~reader[r].alarm
=============================================================================
