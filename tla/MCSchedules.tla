----------------------------- MODULE MCSchedules -----------------------------
(***************************************************************************)
(* The leased schedules of the application for TLC, one after the other:   *)
(* the observation schedule of a run, the decision centre of a user, and   *)
(* the shadow samples of a strategy.  They share no state, so a behaviour  *)
(* is one of a single component, the one in focus, while the others keep   *)
(* their initial state.                                                    *)
(***************************************************************************)
EXTENDS OutcomeSchedules

CONSTANTS
  Visitors, Keys, Fingerprints, Absent, Interval, InboxRetries, InboxLease, SnoozeTicks,
  MaxChanges, MaxDecisions, InboxFaults,
  Signals, NoSignal, LastBaseline, Window, MaxLag, Estimate, ShadowRetries, ShadowFaults,
  TwoWorkers

ASSUME InboxAssumption ==
  /\ Absent \notin Fingerprints /\ Nobody \notin TwoWorkers /\ Visitors \cap TwoWorkers = {}
  /\ Interval \in Nat /\ InboxRetries \in Nat /\ InboxLease \in Nat /\ SnoozeTicks \in Nat
  /\ MaxChanges \in Nat /\ MaxDecisions \in Nat /\ InboxFaults \in Nat
ASSUME ShadowAssumption ==
  /\ LastBaseline \in Nat /\ Window \in Nat /\ MaxLag \in Nat /\ Estimate \in Nat \ {0}
  /\ ShadowRetries \in Nat /\ ShadowFaults \in Nat

VARIABLES
  focus,
  mode, inboxDue, inboxOwner, inboxLease, inboxFailures, task, world, changes,
  checkPhase, seen, complete, checkStalled, latestCheck, view, decisions, inboxFaults,
  baseline, day, enrollment, known, cohort, evidence, at, on, shadowStalled, shadowFaults

Inbox == INSTANCE DecisionInbox WITH
  Workers <- TwoWorkers,
  MaxRetries <- InboxRetries, LeaseTicks <- InboxLease, MaxFaults <- InboxFaults,
  due <- inboxDue, owner <- inboxOwner, lease <- inboxLease, failures <- inboxFailures,
  phase <- checkPhase, stalled <- checkStalled, latest <- latestCheck, faults <- inboxFaults

Shadow == INSTANCE ShadowEnrollments WITH
  Workers <- TwoWorkers, MaxRetries <- ShadowRetries, MaxFaults <- ShadowFaults,
  row <- enrollment, stalled <- shadowStalled, faults <- shadowFaults

inboxVars == <<mode, inboxDue, inboxOwner, inboxLease, inboxFailures, task, world, changes,
               checkPhase, seen, complete, checkStalled, latestCheck, view, decisions, inboxFaults>>

shadowVars == <<baseline, day, enrollment, known, cohort, evidence, at, on, shadowStalled, shadowFaults>>

all == <<focus, vars, inboxVars, shadowVars>>

\* The others start from one of their initial states, whichever.
MCInit ==
  /\ focus \in {"outcomes", "inbox", "page", "shadow"}
  /\ Init /\ (focus = "outcomes" \/ interval = CHOOSE i \in Intervals : TRUE)
  /\ Inbox!Init /\ (focus \in {"inbox", "page"} \/ world = [k \in Keys |-> Absent])
  /\ Shadow!Init /\ (focus = "shadow" \/ baseline = [s \in Signals |-> 0])

Outcomes(A) == focus = "outcomes" /\ A /\ UNCHANGED <<focus, inboxVars, shadowVars>>
OfShadow(A) == focus = "shadow" /\ A /\ UNCHANGED <<focus, vars, inboxVars>>

\* Either two workers check the inbox, or one worker and the page; then the
\* user decides once only.
OfInbox(A) ==
  /\ focus \in {"inbox", "page"} /\ A /\ UNCHANGED <<focus, vars, shadowVars>>
  /\ \A c \in IF focus = "inbox" THEN Visitors ELSE TwoWorkers \ {CHOOSE w \in TwoWorkers : TRUE} :
       checkPhase'[c] = "idle"
  /\ focus = "page" => decisions' < MaxDecisions

MCNext == Outcomes(Next) \/ OfInbox(Inbox!Next) \/ OfShadow(Shadow!Next)

\* The workers poll for ever, time passes, and a worker that has neither
\* stalled nor crashed goes on with what it claimed.
MCFairness ==
  /\ WF_all(Outcomes(Tick)) /\ WF_all(Outcomes(\E w \in Workers : Claim(w)))
  /\ \A w \in Workers : WF_all(Outcomes(Evaluate(w) \/ Report(w)))
  /\ WF_all(OfInbox(Inbox!Tick)) /\ WF_all(OfInbox(\E w \in TwoWorkers : Inbox!Claim(w)))
  /\ WF_all(OfShadow(Shadow!NextDay)) /\ WF_all(OfShadow(Shadow!Poll))
  /\ WF_all(OfShadow(\E s \in Signals : Shadow!Lapse(s)))
  /\ \A w \in TwoWorkers :
       /\ WF_all(OfInbox(Inbox!CheckStep(w) \/ Inbox!Report(w)))
       /\ WF_all(OfShadow(Shadow!Evaluate(w) \/ Shadow!Report(w)))

MCSpec == MCInit /\ [][MCNext]_all /\ MCFairness

-----------------------------------------------------------------------------
\* Every variable of every schedule keeps its type.
TypesOK == TypeOK /\ Inbox!TypeOK /\ Shadow!TypeOK

\* Two versions of a task never carry one revision (DecisionInbox).
RevisionNamesVersion == Inbox!RevisionNamesVersion

\* What the user acknowledged is not put before him again while it stays the
\* same (DecisionInbox).
AcknowledgementStands == Inbox!AcknowledgementStands

\* Samples that a strategy version counts are bound to evidence and cohort and
\* have no day in common, unless the earlier was enrolled later (ShadowEnrollments).
SamplesAreIndependent == Shadow!SamplesAreIndependent

\* strategy_shadow_outcomes.py:855: a sample overlaps with no other one.
SamplesDoNotOverlap == Shadow!SamplesDoNotOverlap

\* Everything that is due is done in the end: a schedule is served
\* (OutcomeSchedules), a window is observed or given up (ShadowEnrollments) and
\* the inbox agrees with the world (DecisionInbox).
DueIsDone ==
  /\ []<>(/\ focus = "outcomes" => Served
          /\ focus = "shadow" => Shadow!AllReleased)
  /\ Inbox!InboxConverges
=============================================================================
