---------------------------- MODULE DecisionInbox ----------------------------
(***************************************************************************)
(* The decision centre of one user: the inbox of decision tasks and the    *)
(* schedule of automatic checks in src/backend/storage.py, the worker that *)
(* leases the schedule (decision_check_worker.py), the page that refreshes *)
(* the same inbox, and the user who acts on the tasks.                     *)
(*                                                                         *)
(* A check observes the portfolio, the market and the research for up to a *)
(* deadline (build_decision_center) and only then synchronises the inbox,  *)
(* in one transaction; several checks may do so at once, and none of them  *)
(* compares its observation with the one before.                           *)
(***************************************************************************)
EXTENDS Naturals

CONSTANTS
  Workers, Visitors,  \* who runs checks: workers, and visits of the page
  Nobody,
  Keys,               \* action ids, the keys of the tasks
  Fingerprints,       \* what may be said about a key
  Absent,             \* a condition that does not hold, a task that is not there
  Never,              \* next_run_at IS NULL
  Interval,           \* interval_hours, in ticks
  RetryTicks,         \* a retry delay, in ticks
  MaxRetries,         \* the number of retry_delays
  LeaseTicks, SnoozeTicks,
  MaxChanges,         \* bound: how often the observed world changes
  MaxDecisions,       \* bound: what the user does to tasks and schedule
  MaxFaults           \* bound: crashes, stalls, missing sources, database errors

Checkers == Workers \cup Visitors

VARIABLES
  \* decision_check_schedules
  mode, due, owner, lease, failures,
  \* decision_tasks
  task,
  \* what is the case, the fingerprint of each key's action or Absent
  world, changes,
  \* the checks: what they observed, and whether all sources answered
  phase, seen, complete, stalled,
  latest,     \* history: this check made the latest claim
  \* the user: the tasks as they were last read
  view, decisions,
  faults

schedule == <<mode, due, owner, lease, failures>>
checks   == <<phase, seen, complete, stalled, latest>>
user     == <<view, decisions>>
vars     == <<schedule, task, world, changes, checks, user, faults>>

NoTask == [status |-> "none", fingerprint |-> Absent, revision |-> 0,
           acknowledged |-> FALSE, snooze |-> 0]

Unresolved == {"open", "snoozed", "acknowledged"}

Task == [status: {"none", "resolved"} \cup Unresolved,
         fingerprint: Fingerprints \cup {Absent}, revision: Nat,
         acknowledged: BOOLEAN, snooze: 0..SnoozeTicks]

TypeOK ==
  /\ mode \in {"active", "paused"}
  /\ due \in 0..Interval \cup 0..RetryTicks \cup {Never}
  /\ owner \in Workers \cup {Nobody} /\ lease \in 0..LeaseTicks
  /\ failures \in 0..(MaxRetries + 1)
  /\ task \in [Keys -> Task] /\ view \in [Keys -> Task]
  /\ world \in [Keys -> Fingerprints \cup {Absent}]
  /\ seen \in [Checkers -> [Keys -> Fingerprints \cup {Absent}]]
  /\ complete \in [Checkers -> BOOLEAN] /\ stalled \in [Checkers -> BOOLEAN]
  /\ phase \in [Checkers -> {"idle", "observing", "syncing", "done", "failing"}]
  /\ latest \in [Workers -> BOOLEAN]
  /\ changes \in 0..MaxChanges /\ decisions \in 0..MaxDecisions
  /\ faults \in 0..MaxFaults

Init ==
  /\ mode = "active" /\ due = 0 /\ owner = Nobody /\ lease = 0 /\ failures = 0
  /\ task = [k \in Keys |-> NoTask] /\ view = task
  /\ world \in [Keys -> Fingerprints \cup {Absent}] /\ changes = 0
  /\ phase = [c \in Checkers |-> "idle"]
  /\ seen = [c \in Checkers |-> [k \in Keys |-> Absent]]
  /\ complete = [c \in Checkers |-> FALSE]
  /\ stalled = [c \in Checkers |-> FALSE]
  /\ latest = [w \in Workers |-> FALSE]
  /\ decisions = 0 /\ faults = 0

-----------------------------------------------------------------------------
(* Tasks.                                                                  *)

\* _open_elapsed_snoozes, which precedes every read and write of the inbox.
Opened(t) ==
  IF t.status = "snoozed" /\ t.snooze = 0
  THEN [t EXCEPT !.status = "open", !.revision = @ + 1] ELSE t

Asserted(observed, revision) ==
  [NoTask EXCEPT !.status = "open", !.fingerprint = observed, !.revision = revision]

Cleared(t) == [t EXCEPT !.status = "resolved", !.revision = @ + 1, !.snooze = 0]

Differs(t, observed) == t.status = "resolved" \/ t.fingerprint # observed

\* Mutant: the task keeps its revision when it is opened again.
SyncedSilently(t, observed, all) ==
  CASE observed # Absent /\ t.status = "none" -> Asserted(observed, 1)
    [] observed # Absent /\ t.status # "none" /\ Differs(t, observed) -> Asserted(observed, t.revision)
    [] observed = Absent /\ all /\ t.status \in Unresolved -> Cleared(t)
    [] OTHER -> t

\* Mutant: whatever was not observed is resolved.
SyncedHastily(t, observed, all) ==
  CASE observed # Absent /\ t.status = "none" -> Asserted(observed, 1)
    [] observed # Absent /\ t.status # "none" /\ Differs(t, observed) -> Asserted(observed, t.revision + 1)
    [] observed = Absent /\ t.status \in Unresolved -> Cleared(t)
    [] OTHER -> t

\* Mutant: a condition that comes back finds its task resolved and leaves it.
SyncedOnce(t, observed, all) ==
  CASE observed # Absent /\ t.status = "none" -> Asserted(observed, 1)
    [] observed # Absent /\ t.status \in Unresolved /\ Differs(t, observed) -> Asserted(observed, t.revision + 1)
    [] observed = Absent /\ all /\ t.status \in Unresolved -> Cleared(t)
    [] OTHER -> t

\* sync_decision_tasks for one key: a new condition creates its task, a changed
\* or a returning one opens it again, and one that is gone resolves it, if all
\* sources answered (resolve_absent).
Synced(t, observed, all) ==
  CASE observed # Absent /\ t.status = "none" -> Asserted(observed, 1)
    [] observed # Absent /\ t.status # "none" /\ Differs(t, observed) -> Asserted(observed, t.revision + 1)
    [] observed = Absent /\ all /\ t.status \in Unresolved -> Cleared(t)
    [] OTHER -> t

-----------------------------------------------------------------------------
(* The user.                                                               *)

Decide == decisions < MaxDecisions /\ decisions' = decisions + 1

\* What the page knows of a task.
Seen(t) == [t EXCEPT !.snooze = 0]

\* list_decision_tasks
ReadInbox ==
  /\ task' = [k \in Keys |-> Opened(task[k])]
  /\ view' = [k \in Keys |-> Seen(task'[k])]
  /\ UNCHANGED <<schedule, world, changes, checks, decisions, faults>>

\* update_decision_task: the user sends the revision he has read.  A conflict
\* rolls everything back, and the page is read again.
UpdateTask(k, status) ==
  LET t == Opened(task[k]) IN
  /\ Decide
  /\ view[k].status # "none"
  /\ t.revision = view[k].revision
  /\ t.status # "resolved"
  /\ \E hours \in 1..SnoozeTicks :
       LET asked == [t EXCEPT !.status = status,
                              !.snooze = IF status = "snoozed" THEN hours ELSE 0,
                              !.acknowledged = status # "open" /\ (@ \/ status = "acknowledged")]
           unchanged == asked = t /\ status # "snoozed" IN
       task' = [j \in Keys |-> IF j # k THEN Opened(task[j])
                               ELSE IF unchanged THEN t
                               ELSE [asked EXCEPT !.revision = @ + 1]]
  /\ view' = [view EXCEPT ![k] = Seen(task'[k])]
  /\ UNCHANGED <<schedule, world, changes, checks, faults>>

\* configure_decision_check_schedule
Pause ==
  /\ Decide /\ mode = "active"
  /\ mode' = "paused" /\ due' = Never
  /\ owner' = Nobody /\ lease' = 0
  /\ UNCHANGED <<failures, task, world, changes, checks, view, faults>>

Enable(immediately) ==
  /\ Decide
  /\ mode = "paused" \/ immediately
  /\ mode' = "active"
  /\ due' = IF immediately THEN 0 ELSE Interval
  /\ failures' = IF mode = "paused" THEN 0 ELSE failures
  /\ UNCHANGED <<owner, lease, task, world, changes, checks, view, faults>>

-----------------------------------------------------------------------------
(* The checks.                                                             *)

Enter(c, p) == phase' = [phase EXCEPT ![c] = p]

Leave(c) ==
  /\ Enter(c, "idle")
  /\ seen' = [seen EXCEPT ![c] = [k \in Keys |-> Absent]]
  /\ complete' = [complete EXCEPT ![c] = FALSE]
  /\ stalled' = [stalled EXCEPT ![c] = FALSE]
  /\ latest' = [w \in Workers |-> w # c /\ latest[w]]

\* claim_due_decision_check
Claim(w) ==
  /\ phase[w] = "idle"
  /\ mode = "active" /\ due = 0 /\ lease = 0
  /\ owner' = w /\ lease' = LeaseTicks
  /\ latest' = [v \in Workers |-> v = w]
  /\ Enter(w, "observing")
  /\ UNCHANGED <<mode, due, failures, task, world, changes, seen, complete, stalled, user, faults>>

\* GET /api/decision-center
Visit(v) ==
  /\ phase[v] = "idle"
  /\ Enter(v, "observing")
  /\ UNCHANGED <<schedule, task, world, changes, seen, complete, stalled, latest, user, faults>>

\* build_decision_center up to the synchronisation, all sources answering.
Observe(c) ==
  /\ phase[c] = "observing"
  /\ seen' = [seen EXCEPT ![c] = world]
  /\ complete' = [complete EXCEPT ![c] = TRUE]
  /\ Enter(c, "syncing")
  /\ UNCHANGED <<schedule, task, world, changes, stalled, latest, user, faults>>

\* The synchronisation.
Synchronise(c) ==
  /\ phase[c] = "syncing"
  /\ task' = [k \in Keys |-> Synced(Opened(task[k]), seen[c][k], complete[c])]
  /\ IF c \in Workers
     THEN Enter(c, "done") /\ UNCHANGED <<seen, complete, stalled, latest>>
     ELSE Leave(c)
  /\ UNCHANGED <<schedule, world, changes, user, faults>>

\* Mutant: WHERE id=? and nothing about the owner.
CompleteUnowned(w) ==
  /\ phase[w] = "done"
  /\ due' = Interval /\ owner' = Nobody /\ lease' = 0 /\ failures' = 0
  /\ Leave(w)
  /\ UNCHANGED <<mode, task, world, changes, user, faults>>

\* complete_decision_check
Complete(w) ==
  /\ phase[w] = "done"
  /\ mode = "active" /\ owner = w
  /\ due' = Interval /\ owner' = Nobody /\ lease' = 0 /\ failures' = 0
  /\ Leave(w)
  /\ UNCHANGED <<mode, task, world, changes, user, faults>>

\* fail_decision_check: after the last retry the schedule is paused.
Fail(w) ==
  /\ phase[w] = "failing"
  /\ owner = w
  /\ failures' = failures + 1
  /\ mode' = IF failures' <= MaxRetries THEN "active" ELSE "paused"
  /\ due' = IF failures' <= MaxRetries THEN RetryTicks ELSE Never
  /\ owner' = Nobody /\ lease' = 0
  /\ Leave(w)
  /\ UNCHANGED <<task, world, changes, user, faults>>

\* DecisionCheckLeaseError
LeaseLost(w) ==
  /\ phase[w] \in {"done", "failing"}
  /\ owner # w
  /\ Leave(w)
  /\ UNCHANGED <<schedule, task, world, changes, user, faults>>

-----------------------------------------------------------------------------
(* The world, failures and time.                                           *)

Change(k) ==
  /\ changes < MaxChanges /\ changes' = changes + 1
  /\ world' \in {[world EXCEPT ![k] = f] : f \in (Fingerprints \cup {Absent}) \ {world[k]}}
  /\ UNCHANGED <<schedule, task, checks, user, faults>>

Fault == faults < MaxFaults /\ faults' = faults + 1

\* A source times out or is down: some actions are missing.
ObservePartly(c) ==
  /\ Fault
  /\ phase[c] = "observing"
  /\ \E missing \in SUBSET Keys :
       seen' = [seen EXCEPT ![c] = [k \in Keys |-> IF k \in missing THEN Absent ELSE world[k]]]
  /\ Enter(c, "syncing")
  /\ UNCHANGED <<schedule, task, world, changes, complete, stalled, latest, user>>

\* The check raises.
ObserveFails(w) ==
  /\ Fault
  /\ phase[w] \in {"observing", "done"}
  /\ Enter(w, "failing")
  /\ UNCHANGED <<schedule, task, world, changes, seen, complete, stalled, latest, user>>

\* The database refuses the synchronisation, which build_decision_center
\* reports as one more unavailable source.
SynchroniseFails(c) ==
  /\ Fault
  /\ phase[c] = "syncing"
  /\ IF c \in Workers
     THEN Enter(c, "done") /\ UNCHANGED <<seen, complete, stalled, latest>>
     ELSE Leave(c)
  /\ UNCHANGED <<schedule, task, world, changes, user>>

Crash(c) ==
  /\ Fault
  /\ phase[c] # "idle"
  /\ Leave(c)
  /\ UNCHANGED <<schedule, task, world, changes, user>>

\* The process is paused for longer than its lease.
Stall(w) ==
  /\ Fault
  /\ phase[w] # "idle" /\ ~stalled[w]
  /\ stalled' = [stalled EXCEPT ![w] = TRUE]
  /\ UNCHANGED <<schedule, task, world, changes, phase, seen, complete, latest, user>>

Less(t) == IF t \in {0, Never} THEN t ELSE t - 1

\* An automatic check is over long before its lease, unless it stalls.
Tick ==
  /\ \A w \in Workers : phase[w] # "idle" /\ ~stalled[w] /\ owner = w => lease # 1
  /\ due' = Less(due) /\ lease' = Less(lease)
  /\ task' = [k \in Keys |-> [task[k] EXCEPT !.snooze = Less(@)]]
  /\ UNCHANGED <<mode, owner, failures, world, changes, checks, user, faults>>

-----------------------------------------------------------------------------
CheckStep(c) == Observe(c) \/ Synchronise(c)

Report(w) == Complete(w) \/ Fail(w) \/ LeaseLost(w)

Next ==
  \/ ReadInbox \/ Pause \/ Tick
  \/ \E immediately \in BOOLEAN : Enable(immediately)
  \/ \E k \in Keys : Change(k) \/ \E status \in Unresolved : UpdateTask(k, status)
  \/ \E w \in Workers : Claim(w) \/ Report(w) \/ ObserveFails(w) \/ Stall(w)
  \/ \E v \in Visitors : Visit(v)
  \/ \E c \in Checkers : \/ CheckStep(c)
                         \/ ObservePartly(c) \/ SynchroniseFails(c) \/ Crash(c)

Spec == Init /\ [][Next]_vars

-----------------------------------------------------------------------------
(* Properties.                                                             *)

\* A revision names one version of a task: the user who acts on the revision
\* he has read acts on the task he has read, whatever checks and elapsed
\* snoozes have done to it since.
RevisionNamesVersion ==
  \A k \in Keys : view[k].revision = task[k].revision =>
    /\ view[k].status = task[k].status
    /\ view[k].fingerprint = task[k].fingerprint
    /\ view[k].acknowledged = task[k].acknowledged

\* No check in progress has seen another condition than this one.
Undisputed(k) ==
  /\ world[k] = task[k].fingerprint
  /\ \A c \in Checkers : phase[c] = "syncing" =>
       seen[c][k] = world[k] \/ (seen[c][k] = Absent /\ ~complete[c])

AcknowledgedIsKept ==
  \A k \in Keys :
    task[k].status = "acknowledged" /\ Undisputed(k) /\ decisions' = decisions =>
      task'[k] = task[k]

\* What the user has acknowledged stays so while the condition stays the same,
\* even if checks run at once or with half of their sources.
AcknowledgementStands == [][AcknowledgedIsKept]_vars

ReportIsLatest ==
  \A w \in Workers :
    phase[w] # "idle" /\ phase'[w] = "idle" /\ schedule' # schedule => owner = w /\ latest[w]

\* The schedule takes a report only from the check that was started last, also
\* when it was paused and resumed during an earlier one.
OnlyLatestCheckReports == [][ReportIsLatest]_vars

\* The inbox says what is the case.
InboxMatches ==
  \A k \in Keys : IF world[k] = Absent THEN task[k].status \notin Unresolved
                  ELSE task[k].status \in Unresolved /\ task[k].fingerprint = world[k]

\* As long as automatic checks stay enabled, the inbox agrees with the world in
\* the end, although stale observations may be written over newer ones.
InboxConverges == []<>(mode = "paused") \/ <>[]InboxMatches
=============================================================================
