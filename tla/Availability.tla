----------------------------- MODULE Availability -----------------------------
(***************************************************************************)
(* The availability control plane: probes collect the states of the        *)
(* platform's components (src/backend/availability_service.py) and are     *)
(* recorded one at a time, each advancing the components of the latest one *)
(* (src/backend/availability_repository.py).  A component that keeps       *)
(* failing opens an incident, and one that keeps answering resolves it.    *)
(*                                                                         *)
(* A probe is dated when it has collected, not when it is recorded, and    *)
(* probes overlap: the scheduler's, and those an administrator starts.     *)
(* Nothing puts them in the order of their dates: one may be recorded when *)
(* a later one is the latest already.  No two have the same date.          *)
(* What the components are made of is left out, and rows that are no       *)
(* longer the latest are kept as the times of the scheduled ones.          *)
(***************************************************************************)
EXTENDS Integers, FiniteSets

CONSTANTS
  Components,
  Probers,           \* tasks and requests that run a probe
  FailureThreshold, RecoveryThreshold,
  Interval,          \* PROBE_INTERVAL_SECONDS
  StaleAfter,        \* STALE_AFTER_SECONDS
  MaxTime            \* bound on the clock

Failing == {"degraded", "outage"}
States == {"operational", "unknown"} \cup Failing
Times == 0..MaxTime
Never == MaxTime + 1

VARIABLES
  now,
  latest,   \* the availability_probe_runs row that is newest by its date
  buckets,  \* the buckets that have a scheduled row
  incident, \* availability_incident_events: the last type, by first failure
  probe,    \* what each prober has collected
  astray    \* history: the incidents a probe opened that was recorded late

vars == <<now, latest, buckets, incident, probe, astray>>

Unprobed ==
  [effective |-> "unknown", observed |-> "unknown", failures |-> 0, successes |-> 0,
   first |-> Never, incident |-> Never]

NoRow == [at |-> -1, parts |-> [c \in Components |-> Unprobed]]
Resting == [at |-> -1, scheduled |-> FALSE, seen |-> [c \in Components |-> "unknown"]]

Init ==
  /\ now = 0 /\ latest = NoRow /\ buckets = {}
  /\ incident = [c \in Components |-> [t \in Times |-> "none"]]
  /\ probe = [w \in Probers |-> Resting]
  /\ astray = [c \in Components |-> {}]

-----------------------------------------------------------------------------
(* _advance_component: what an observation makes of the previous part.     *)

UpTo(n, limit) == IF n >= limit THEN limit ELSE n + 1

\* Nothing is known of it, and nothing is decided.
Unknown(p) == [p EXCEPT !.observed = "unknown", !.successes = 0]

Recovering(p) == p.incident # Never /\ p.successes + 1 < RecoveryThreshold

\* Mutant: an incident is forgotten with the first success, not with the last.
WorksAtOnce(p) ==
  [effective |-> IF Recovering(p) THEN p.effective ELSE "operational", observed |-> "operational",
   failures |-> 0, successes |-> UpTo(p.successes, RecoveryThreshold),
   first |-> Never, incident |-> Never]

\* Mutant: a component that recovers counts as operational.
WorksAgain(p) ==
  [effective |-> "operational", observed |-> "operational", failures |-> 0,
   successes |-> UpTo(p.successes, RecoveryThreshold),
   first |-> IF Recovering(p) THEN p.first ELSE Never,
   incident |-> IF Recovering(p) THEN p.incident ELSE Never]

Works(p) ==
  IF Recovering(p)
  THEN [p EXCEPT !.observed = "operational", !.failures = 0,
                 !.successes = UpTo(@, RecoveryThreshold)]
  ELSE [effective |-> "operational", observed |-> "operational", failures |-> 0,
        successes |-> UpTo(p.successes, RecoveryThreshold), first |-> Never, incident |-> Never]

Fails(p, state, t) ==
  LET n == UpTo(p.failures, FailureThreshold)
      first == IF p.first = Never THEN t ELSE p.first
  IN [effective |-> IF p.effective = "operational" /\ n < FailureThreshold
                    THEN "operational" ELSE state,
      observed |-> state, failures |-> n, successes |-> 0, first |-> first,
      incident |-> IF n >= FailureThreshold /\ p.incident = Never THEN first ELSE p.incident]

Advanced(p, state, t) ==
  CASE state = "unknown" -> Unknown(p)
    [] state = "operational" -> Works(p)
    [] state \in Failing -> Fails(p, state, t)

\* The transition of _advance_component, and _append_event
Event(p, q, old) ==
  CASE q.observed = "operational" /\ p.incident # Never /\ ~Recovering(p) ->
         [old EXCEPT ![p.incident] = "resolved"]
    [] q.observed \in Failing /\ p.incident = Never /\ q.incident # Never ->
         [old EXCEPT ![q.incident] = "opened"]
    [] q.observed \in Failing /\ p.incident # Never /\ q.effective # p.effective ->
         [old EXCEPT ![p.incident] = "changed"]
    [] OTHER -> old

-----------------------------------------------------------------------------
(* run_probe.                                                              *)

Pass ==
  /\ now < MaxTime /\ now' = now + 1
  /\ UNCHANGED <<latest, buckets, incident, probe, astray>>

\* collect_components, each in some state, and the date
Collect(w, scheduled, seen) ==
  /\ probe[w] = Resting /\ now < MaxTime /\ now' = now + 1
  /\ probe' = [probe EXCEPT ![w] = [at |-> now, scheduled |-> scheduled, seen |-> seen]]
  /\ UNCHANGED <<latest, buckets, incident, astray>>

\* _scheduled_probe_id
Bucket(t) == t \div Interval

\* A scheduled row of the same bucket is answered as it is.
Repeated(w) == probe[w].scheduled /\ Bucket(probe[w].at) \in buckets

\* record_probe, which takes the newest row for the previous one, also when that
\* one is newer than the probe.
Record(w) ==
  /\ probe[w].at # -1
  /\ \/ Repeated(w) /\ UNCHANGED <<latest, buckets, incident, astray>>
     \/ /\ ~Repeated(w)
        /\ LET parts == [c \in Components |->
                 Advanced(latest.parts[c], probe[w].seen[c], probe[w].at)]
               row == [at |-> probe[w].at, parts |-> parts]
           IN /\ incident' = [c \in Components |->
                   Event(latest.parts[c], parts[c], incident[c])]
              /\ latest' = IF row.at > latest.at THEN row ELSE latest
              /\ astray' = IF row.at > latest.at THEN astray
                           ELSE [c \in Components |-> astray[c] \cup
                                   ({parts[c].incident} \ {latest.parts[c].incident, Never})]
        /\ buckets' = IF probe[w].scheduled THEN buckets \cup {Bucket(probe[w].at)} ELSE buckets
  /\ probe' = [probe EXCEPT ![w] = Resting]
  /\ UNCHANGED now

\* The task is lost, or collecting failed.
Lose(w) ==
  /\ probe[w].at # -1 /\ probe' = [probe EXCEPT ![w] = Resting]
  /\ UNCHANGED <<now, latest, buckets, incident, astray>>

-----------------------------------------------------------------------------
(* What is shown.                                                          *)

Rank(state) ==
  CASE state = "operational" -> 0 [] state = "unknown" -> 1
    [] state = "degraded" -> 2 [] state = "outage" -> 3

Worst(S) == CHOOSE s \in S : \A r \in S : Rank(r) <= Rank(s)

\* public_summary
Status ==
  IF latest.at = -1 \/ now - latest.at > StaleAfter THEN "unknown"
  ELSE Worst({latest.parts[c].observed : c \in Components} \cup
             {latest.parts[c].effective : c \in Components})

\* list_incidents
OpenIncidents(c) == {t \in Times : incident[c][t] \in {"opened", "changed"}}

-----------------------------------------------------------------------------
Next ==
  \/ Pass
  \/ \E w \in Probers :
       \/ Record(w) \/ Lose(w)
       \/ \E scheduled \in BOOLEAN, seen \in [Components -> States] : Collect(w, scheduled, seen)

Spec == Init /\ [][Next]_vars

-----------------------------------------------------------------------------
(* Properties.                                                             *)

Part == [effective : States, observed : States, failures : 0..FailureThreshold,
         successes : 0..RecoveryThreshold, first : 0..Never, incident : 0..Never]

\* Everything has its type.
TypeOK ==
  /\ now \in Times /\ latest.at \in -1..MaxTime /\ latest.parts \in [Components -> Part]
  /\ buckets \subseteq Times
  /\ incident \in [Components -> [Times -> {"none", "opened", "changed", "resolved"}]]
  /\ probe \in [Probers -> [at : -1..MaxTime, scheduled : BOOLEAN, seen : [Components -> States]]]
  /\ astray \in [Components -> SUBSET Times]

\* docs/updates/2026-07-23-001-availability-control-plane.md, section 5: two
\* successes in a row resolve an incident.  They can when the latest row knows of
\* it, and it does: an incident that is open is the one of its component there,
\* unless a probe opened it that was recorded after a later one.
OpenIncidentsAreKnown ==
  \A c \in Components : OpenIncidents(c) \ astray[c] \subseteq {latest.parts[c].incident}

\* While the latest row has an incident the platform is not shown as operational,
\* however the observations between were and in whatever order they came.
IncidentsShow ==
  \A c \in Components :
    latest.parts[c].incident # Never => Status # "operational"
=============================================================================
