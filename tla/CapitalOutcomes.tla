--------------------------- MODULE CapitalOutcomes ---------------------------
(***************************************************************************)
(* What the capital plans of one user taught                               *)
(* (portfolio_capital_learning_service.py,                                 *)
(* portfolio_capital_learning_repository.py).  An execution event says how *)
(* a plan was carried out; a later event of the plan replaces it.  The     *)
(* scheduler has the latest event of every plan observed once a day, until *)
(* all its horizons are complete, and the scorecard counts, for every      *)
(* horizon, the plans whose latest event's latest observation has it.      *)
(* A job of BackgroundJobs is here what it comes to: an observation or a   *)
(* failure.  An observation is as new as its beginning.                    *)
(***************************************************************************)
EXTENDS Naturals, Sequences, FiniteSets, FiniteSetsExt

CONSTANTS
  Plans,
  Horizons,        \* days
  Limit,           \* one pass of the scheduler creates so many jobs
  ScopeWindow,     \* and looks at so many of the newest events
  OutcomeWindow,   \* the scorecard looks at so many of the newest observations
  MaxEvents,       \* of a plan
  MaxRefreshes,    \* the user asks for so many observations
  MaxFaults        \* failed jobs, and observations that lack data

VARIABLES
  events,     \* execution events, by age: the plan of each, and the days since its last purchase
  learnt,     \* for each event, the horizons complete in its latest observation
  newer,      \* how many observations are newer than that; OutcomeWindow: more, or there is none
  keyed,      \* events with a job of today from the scheduler
  observed,   \* events with an observation of today
  pending,    \* events the scheduler has a job for that has not ended
  refreshes, faults

vars == <<events, learnt, newer, keyed, observed, pending, refreshes, faults>>

Last == Max(Horizons)

TypeOK ==
  /\ \A e \in DOMAIN events : events[e] \in [plan : Plans, age : 0 .. Last]
  /\ learnt \in [DOMAIN events -> SUBSET Horizons]
  /\ newer \in [DOMAIN events -> 0 .. OutcomeWindow]
  /\ keyed \subseteq DOMAIN events
  /\ observed \subseteq DOMAIN events
  /\ pending \subseteq keyed \cup DOMAIN events
  /\ refreshes \in 0 .. MaxRefreshes /\ faults \in 0 .. MaxFaults

Init ==
  /\ events = <<>> /\ learnt = <<>> /\ newer = <<>>
  /\ keyed = {} /\ observed = {} /\ pending = {}
  /\ refreshes = 0 /\ faults = 0

OfPlan(p) == {e \in DOMAIN events : events[e].plan = p}

\* A correction has the purchases of the event before it, or a new one.
Confirm(p) ==
  /\ Cardinality(OfPlan(p)) < MaxEvents
  /\ \E age \in {0} \cup {events[e].age : e \in OfPlan(p)} :
       events' = Append(events, [plan |-> p, age |-> age])
  /\ learnt' = Append(learnt, {})
  /\ newer' = Append(newer, OutcomeWindow)
  /\ UNCHANGED <<keyed, observed, pending, refreshes, faults>>

\* The latest event of every plan.
Scopes == {e \in DOMAIN events : \A f \in OfPlan(events[e].plan) : f <= e}

Completed(e) == learnt[e] = Horizons

-----------------------------------------------------------------------------
(* The observation of an event.                                            *)

Matured(e) == {h \in Horizons : h <= events[e].age}

\* One observation a day is kept.
Saved(e, complete) ==
  /\ IF e \in observed THEN UNCHANGED <<learnt, newer>>
     ELSE /\ learnt' = [learnt EXCEPT ![e] = complete]
          /\ newer' = [f \in DOMAIN events |-> IF f = e THEN 0 ELSE Min({newer[f] + 1, OutcomeWindow})]
  /\ observed' = observed \cup {e}

Observe(e) ==
  \/ Saved(e, Matured(e)) /\ UNCHANGED faults
  \/ /\ faults < MaxFaults
     /\ \E h \in Matured(e) : Saved(e, Matured(e) \ {h})
     /\ faults' = faults + 1

\* The user has the latest event of a plan observed, complete or not.
Refresh(e) ==
  /\ e \in Scopes
  /\ refreshes < MaxRefreshes
  /\ Observe(e)
  /\ refreshes' = refreshes + 1
  /\ UNCHANGED <<events, keyed, pending>>

Work(e) ==
  /\ e \in pending
  /\ Observe(e)
  /\ pending' = pending \ {e}
  /\ UNCHANGED <<events, keyed, refreshes>>

FailJob(e) ==
  /\ e \in pending
  /\ faults < MaxFaults
  /\ faults' = faults + 1
  /\ pending' = pending \ {e}
  /\ UNCHANGED <<events, learnt, newer, keyed, observed, refreshes>>

-----------------------------------------------------------------------------
(* The scheduler.  It goes from the newest event to older ones, and passes *)
(* over those that are complete, were observed within hours, or have their *)
(* job of the day.                                                         *)

Listed == {e \in Scopes : Cardinality({f \in Scopes : f > e}) < ScopeWindow}

Wanting == {e \in Listed : ~Completed(e) /\ e \notin observed /\ e \notin keyed}

Chosen == {e \in Wanting : Cardinality({f \in Wanting : f > e}) < Limit}

Dispatch ==
  /\ Chosen # {}
  /\ keyed' = keyed \cup Chosen
  /\ pending' = pending \cup Chosen
  /\ UNCHANGED <<events, learnt, newer, observed, refreshes, faults>>

\* Mutant: the keys of jobs do not name the date.
NextDayKeepsKeys ==
  /\ events' = [e \in DOMAIN events |-> [events[e] EXCEPT !.age = Min({@ + 1, Last})]]
  /\ observed' = {}
  /\ UNCHANGED <<learnt, newer, keyed, pending, refreshes, faults>>

\* Another day: the keys of jobs and observations name the date.
NextDay ==
  /\ events' = [e \in DOMAIN events |-> [events[e] EXCEPT !.age = Min({@ + 1, Last})]]
  /\ keyed' = {} /\ observed' = {}
  /\ UNCHANGED <<learnt, newer, pending, refreshes, faults>>

-----------------------------------------------------------------------------
(* The scorecard.                                                          *)

\* Mutant: the observations of the plan's earlier events count.
ShownOfPlan(e) == UNION {learnt[f] : f \in OfPlan(events[e].plan)}

\* The horizons of an event that its latest observation shows complete.
Shown(e) == IF newer[e] < OutcomeWindow THEN learnt[e] ELSE {}

\* The events that count for a horizon.
Counted(h) == {e \in Scopes : h \in Shown(e)}

-----------------------------------------------------------------------------
Next ==
  \/ \E p \in Plans : Confirm(p)
  \/ \E e \in DOMAIN events : Refresh(e) \/ Work(e) \/ FailJob(e)
  \/ Dispatch \/ NextDay

Fairness ==
  /\ WF_vars(Dispatch) /\ WF_vars(NextDay)
  /\ WF_vars(\E e \in DOMAIN events : Work(e))

Spec == Init /\ [][Next]_vars /\ Fairness

-----------------------------------------------------------------------------
(* Properties.                                                             *)

\* What counts for a plan was learnt of the execution it has now: a corrected
\* plan whose last purchase is too recent for a horizon does not count for it,
\* however complete the observations of its earlier events are.
LearntOfThisExecution ==
  \A h \in Horizons : \A e \in Counted(h) : events[e].age >= h

\* Every plan that was carried out is observed to its last horizon in the end,
\* although jobs fail and observations lack data.
AllObserved == \A e \in Scopes : Completed(e)

EveryPlanIsObserved == []<>AllObserved

\* build_learning_scorecard: every plan counts with the latest complete
\* observation of its latest event.  So one that counts goes on counting while
\* its event is the latest.
LessonsStand ==
  [][\A h \in Horizons : Counted(h) \cap Scopes' \subseteq Counted(h)']_vars
=============================================================================
