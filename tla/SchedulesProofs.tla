---------------------------- MODULE SchedulesProofs ----------------------------
(***************************************************************************)
(* Proofs about the leased schedules: the decision inbox (DecisionInbox),  *)
(* the shadow samples (ShadowEnrollments), and both beside the observation *)
(* schedule of OutcomeSchedules in MCSchedules.                            *)
(*                                                                         *)
(* That a revision names one version of a task rests on what the page has  *)
(* read being of the past of the task (ViewIsOfThePast), and every write   *)
(* being a revision of its own (Follows).  That samples have no day in     *)
(* common is not inductive, for a window in progress may still become a    *)
(* sample: WindowsAreApart says the same of every signal that was let in.  *)
(* That samples are stored needs the same of what a worker is about to     *)
(* report, after others have crashed or taken over (ObservedIsStored).     *)
(***************************************************************************)
EXTENDS MCSchedules, TLAPS

-----------------------------------------------------------------------------
(* The observation schedule alone.                                         *)

USE NobodyAssumption, ClockAssumption, BoundAssumption

\* A schedule that was never created carries nothing.  Without this neither the
\* types nor the coherence of the row are inductive: creation keeps the owner
\* and the count of failures.
Blank == status = "absent" => owner = Nobody /\ failures = 0

\* The inductive invariant.  The types need the rest of it: the count stays in
\* its range only because a schedule without retries has no owner.
IInv == TypeOK /\ Blank /\ OwnerIsLatestClaim /\ RowIsCoherent

\* Every step keeps every variable within its type.
LEMMA TypeStep == IInv /\ [Next]_vars => TypeOK'
<1> SUFFICES ASSUME IInv, [Next]_vars PROVE TypeOK'
  OBVIOUS
<1> USE DEF IInv, TypeOK, Blank, RowIsCoherent, Fault, Leave, row, work
<1>1. ASSUME EnsureSchedule PROVE TypeOK'
  BY <1>1 DEF EnsureSchedule
<1>2. ASSUME NEW i \in Intervals, Pause(i) PROVE TypeOK'
  <2>1. wanted' \in BOOLEAN
    BY <1>2, Zenon DEF Pause
  <2> QED
    BY <1>2, <2>1 DEF Pause
<1>3. ASSUME NEW i \in Intervals, NEW now \in BOOLEAN, Enable(i, now) PROVE TypeOK'
  BY <1>3 DEF Enable
<1>4. ASSUME Tick PROVE TypeOK'
  BY <1>4 DEF Tick, OneLess
<1>5. ASSUME NEW w \in Workers, Claim(w) PROVE TypeOK'
  <2>1. wanted' \in BOOLEAN
    BY <1>5, Zenon DEF Claim
  <2> QED
    BY <1>5, <2>1 DEF Claim, Claimable
<1>6. ASSUME NEW w \in Workers, Evaluate(w) PROVE TypeOK'
  BY <1>6 DEF Evaluate
<1>7. ASSUME NEW w \in Workers, Complete(w) PROVE TypeOK'
  BY <1>7 DEF Complete
<1>8. ASSUME NEW w \in Workers, Fail(w) PROVE TypeOK'
  <2>1. wanted' \in BOOLEAN
    BY <1>8, Zenon DEF Fail
  <2> QED
    BY <1>8, <2>1 DEF Fail
<1>9. ASSUME NEW w \in Workers, LeaseLost(w) PROVE TypeOK'
  BY <1>9 DEF LeaseLost
<1>10. ASSUME NEW w \in Workers, Crash(w) PROVE TypeOK'
  BY <1>10 DEF Crash
<1>11. ASSUME NEW w \in Workers, Stall(w) PROVE TypeOK'
  BY <1>11 DEF Stall
<1>12. ASSUME NEW w \in Workers, CompletionFails(w) PROVE TypeOK'
  BY <1>12 DEF CompletionFails
<1>13. ASSUME UNCHANGED vars PROVE TypeOK'
  BY <1>13 DEF vars
<1> QED
  BY <1>1, <1>2, <1>3, <1>4, <1>5, <1>6, <1>7, <1>8, <1>9,
     <1>10, <1>11, <1>12, <1>13
  DEF Next, Configure, Report

\* Every step keeps the fence and the coherence of the row.
LEMMA InvStep == IInv /\ [Next]_vars => IInv'
<1> SUFFICES ASSUME IInv, [Next]_vars PROVE (Blank /\ OwnerIsLatestClaim /\ RowIsCoherent)'
  BY TypeStep DEF IInv
<1> USE DEF IInv, TypeOK, Blank, OwnerIsLatestClaim, RowIsCoherent, Fault, Leave, row, work
<1>1. ASSUME EnsureSchedule PROVE (Blank /\ OwnerIsLatestClaim /\ RowIsCoherent)'
  BY <1>1 DEF EnsureSchedule
<1>2. ASSUME NEW i \in Intervals, Pause(i) PROVE (Blank /\ OwnerIsLatestClaim /\ RowIsCoherent)'
  BY <1>2 DEF Pause
<1>3. ASSUME NEW i \in Intervals, NEW now \in BOOLEAN, Enable(i, now) PROVE (Blank /\ OwnerIsLatestClaim /\ RowIsCoherent)'
  BY <1>3 DEF Enable
<1>4. ASSUME Tick PROVE (Blank /\ OwnerIsLatestClaim /\ RowIsCoherent)'
  BY <1>4 DEF Tick, OneLess
<1>5. ASSUME NEW w \in Workers, Claim(w) PROVE (Blank /\ OwnerIsLatestClaim /\ RowIsCoherent)'
  BY <1>5 DEF Claim, Claimable
<1>6. ASSUME NEW w \in Workers, Evaluate(w) PROVE (Blank /\ OwnerIsLatestClaim /\ RowIsCoherent)'
  BY <1>6 DEF Evaluate
<1>7. ASSUME NEW w \in Workers, Complete(w) PROVE (Blank /\ OwnerIsLatestClaim /\ RowIsCoherent)'
  BY <1>7 DEF Complete
<1>8. ASSUME NEW w \in Workers, Fail(w) PROVE (Blank /\ OwnerIsLatestClaim /\ RowIsCoherent)'
  BY <1>8 DEF Fail
<1>9. ASSUME NEW w \in Workers, LeaseLost(w) PROVE (Blank /\ OwnerIsLatestClaim /\ RowIsCoherent)'
  BY <1>9 DEF LeaseLost
<1>10. ASSUME NEW w \in Workers, Crash(w) PROVE (Blank /\ OwnerIsLatestClaim /\ RowIsCoherent)'
  BY <1>10 DEF Crash
<1>11. ASSUME NEW w \in Workers, Stall(w) PROVE (Blank /\ OwnerIsLatestClaim /\ RowIsCoherent)'
  BY <1>11 DEF Stall
<1>12. ASSUME NEW w \in Workers, CompletionFails(w) PROVE (Blank /\ OwnerIsLatestClaim /\ RowIsCoherent)'
  BY <1>12 DEF CompletionFails
<1>13. ASSUME UNCHANGED vars PROVE (Blank /\ OwnerIsLatestClaim /\ RowIsCoherent)'
  BY <1>13 DEF vars
<1> QED
  BY <1>1, <1>2, <1>3, <1>4, <1>5, <1>6, <1>7, <1>8, <1>9,
     <1>10, <1>11, <1>12, <1>13
  DEF Next, Configure, Report

\* A schedule that was never enabled is coherent.
LEMMA InvStart == Init => IInv
<1>1. Init => wanted \in BOOLEAN
  BY Zenon DEF Init
<1> QED
  BY <1>1 DEF Init, IInv, TypeOK, Blank, OwnerIsLatestClaim, RowIsCoherent

\* The inductive invariant holds throughout.
LEMMA InvHolds == Spec => []IInv
BY InvStart, InvStep, PTL DEF Spec

\* Type correctness of the schedule.
THEOREM TypeCorrect == Spec => []TypeOK
<1>1. IInv => TypeOK
  BY DEF IInv
<1> QED
  BY <1>1, InvHolds, PTL

\* Whoever the row accepts a report from is the evaluation that claimed last.
THEOREM Fence == Spec => []OwnerIsLatestClaim
<1>1. IInv => OwnerIsLatestClaim
  BY DEF IInv
<1> QED
  BY <1>1, InvHolds, PTL

\* A paused schedule has no lease and no next run; an active one has a next run
\* and retries left.
THEOREM Coherence == Spec => []RowIsCoherent
<1>1. IInv => RowIsCoherent
  BY DEF IInv
<1> QED
  BY <1>1, InvHolds, PTL

-----------------------------------------------------------------------------
\* No step of a worker writes a paused row.
LEMMA SpareStep == IInv /\ [Next]_vars => SparesPaused
<1> SUFFICES ASSUME IInv, [Next]_vars PROVE SparesPaused
  OBVIOUS
<1> USE DEF IInv, TypeOK, RowIsCoherent, SparesPaused, Fault, Leave, row, work
<1>1. ASSUME EnsureSchedule PROVE SparesPaused
  BY <1>1 DEF EnsureSchedule
<1>2. ASSUME NEW i \in Intervals, Pause(i) PROVE SparesPaused
  BY <1>2 DEF Pause
<1>3. ASSUME NEW i \in Intervals, NEW now \in BOOLEAN, Enable(i, now) PROVE SparesPaused
  BY <1>3 DEF Enable
<1>4. ASSUME Tick PROVE SparesPaused
  BY <1>4 DEF Tick, OneLess
<1>5. ASSUME NEW w \in Workers, Claim(w) PROVE SparesPaused
  BY <1>5 DEF Claim, Claimable
<1>6. ASSUME NEW w \in Workers, Evaluate(w) PROVE SparesPaused
  BY <1>6 DEF Evaluate
<1>7. ASSUME NEW w \in Workers, Complete(w) PROVE SparesPaused
  BY <1>7 DEF Complete
<1>8. ASSUME NEW w \in Workers, Fail(w) PROVE SparesPaused
  BY <1>8 DEF Fail
<1>9. ASSUME NEW w \in Workers, LeaseLost(w) PROVE SparesPaused
  BY <1>9 DEF LeaseLost
<1>10. ASSUME NEW w \in Workers, Crash(w) PROVE SparesPaused
  BY <1>10 DEF Crash
<1>11. ASSUME NEW w \in Workers, Stall(w) PROVE SparesPaused
  BY <1>11 DEF Stall
<1>12. ASSUME NEW w \in Workers, CompletionFails(w) PROVE SparesPaused
  BY <1>12 DEF CompletionFails
<1>13. ASSUME UNCHANGED vars PROVE SparesPaused
  BY <1>13 DEF vars
<1> QED
  BY <1>1, <1>2, <1>3, <1>4, <1>5, <1>6, <1>7, <1>8, <1>9,
     <1>10, <1>11, <1>12, <1>13
  DEF Next, Configure, Report

\* A late worker does not revive the schedule its user has paused.
THEOREM PauseHolds == Spec => WorkersSparePaused
<1>1. IInv /\ [Next]_vars => [SparesPaused]_vars
  BY SpareStep
<1> QED
  BY <1>1, InvHolds, PTL DEF Spec, WorkersSparePaused

\* A report that changes the row comes from the latest claim.
LEMMA ReportStep == IInv /\ [Next]_vars => ReportIsLatest
<1> SUFFICES ASSUME IInv, [Next]_vars PROVE ReportIsLatest
  OBVIOUS
<1> USE DEF IInv, TypeOK, OwnerIsLatestClaim, ReportIsLatest, Fault, Leave, row, work
<1>1. ASSUME EnsureSchedule PROVE ReportIsLatest
  BY <1>1 DEF EnsureSchedule
<1>2. ASSUME NEW i \in Intervals, Pause(i) PROVE ReportIsLatest
  BY <1>2 DEF Pause
<1>3. ASSUME NEW i \in Intervals, NEW now \in BOOLEAN, Enable(i, now) PROVE ReportIsLatest
  BY <1>3 DEF Enable
<1>4. ASSUME Tick PROVE ReportIsLatest
  BY <1>4 DEF Tick, OneLess
<1>5. ASSUME NEW w \in Workers, Claim(w) PROVE ReportIsLatest
  BY <1>5 DEF Claim, Claimable
<1>6. ASSUME NEW w \in Workers, Evaluate(w) PROVE ReportIsLatest
  BY <1>6 DEF Evaluate
<1>7. ASSUME NEW w \in Workers, Complete(w) PROVE ReportIsLatest
  BY <1>7 DEF Complete
<1>8. ASSUME NEW w \in Workers, Fail(w) PROVE ReportIsLatest
  BY <1>8 DEF Fail
<1>9. ASSUME NEW w \in Workers, LeaseLost(w) PROVE ReportIsLatest
  BY <1>9 DEF LeaseLost
<1>10. ASSUME NEW w \in Workers, Crash(w) PROVE ReportIsLatest
  BY <1>10 DEF Crash
<1>11. ASSUME NEW w \in Workers, Stall(w) PROVE ReportIsLatest
  BY <1>11 DEF Stall
<1>12. ASSUME NEW w \in Workers, CompletionFails(w) PROVE ReportIsLatest
  BY <1>12 DEF CompletionFails
<1>13. ASSUME UNCHANGED vars PROVE ReportIsLatest
  BY <1>13 DEF vars
<1> QED
  BY <1>1, <1>2, <1>3, <1>4, <1>5, <1>6, <1>7, <1>8, <1>9,
     <1>10, <1>11, <1>12, <1>13
  DEF Next, Configure, Report

\* Only the latest claim reports.
THEOREM ReportsAreFenced == Spec => OnlyLatestReports
<1>1. IInv /\ [Next]_vars => [ReportIsLatest]_vars
  BY ReportStep
<1> QED
  BY <1>1, InvHolds, PTL DEF Spec, OnlyLatestReports


-----------------------------------------------------------------------------
(* The inbox: shapes.                                                      *)

Said == Fingerprints \cup {Absent}

TaskShape == task \in [Keys -> Inbox!Task] /\ view \in [Keys -> Inbox!Task]

\* A schedule without a lease, or whose retries are used up, is not reported on.
ScheduleShape ==
  /\ mode \in {"active", "paused"}
  /\ inboxDue \in 0..Interval \cup 0..RetryTicks \cup {Never}
  /\ inboxOwner \in TwoWorkers \cup {Nobody} /\ inboxLease \in 0..InboxLease
  /\ inboxFailures \in 0..(InboxRetries + 1)
  /\ inboxOwner # Nobody => mode = "active"
  /\ mode = "active" => inboxFailures <= InboxRetries

CheckShape ==
  /\ checkPhase \in [Inbox!Checkers -> {"idle", "observing", "syncing", "done", "failing"}]
  /\ seen \in [Inbox!Checkers -> [Keys -> Said]]
  /\ complete \in [Inbox!Checkers -> BOOLEAN] /\ checkStalled \in [Inbox!Checkers -> BOOLEAN]
  /\ latestCheck \in [TwoWorkers -> BOOLEAN]

WorldShape ==
  /\ world \in [Keys -> Said] /\ changes \in 0..MaxChanges
  /\ decisions \in 0..MaxDecisions /\ inboxFaults \in 0..InboxFaults

InboxShape == TaskShape /\ ScheduleShape /\ CheckShape /\ WorldShape

\* What is asserted has a fingerprint, and only what is snoozed has a time.
TaskIsCoherent ==
  \A k \in Keys :
    /\ task[k].status = "none" => task[k].revision = 0
    /\ task[k].status \in Inbox!Unresolved => task[k].fingerprint \in Fingerprints
    /\ task[k].status # "snoozed" => task[k].snooze = 0

\* What the page has read is a version of the task that was there.
Read(k) ==
  /\ view[k].revision <= task[k].revision
  /\ view[k].revision = task[k].revision =>
       /\ view[k].status = task[k].status /\ view[k].fingerprint = task[k].fingerprint
       /\ view[k].acknowledged = task[k].acknowledged

ViewIsOfThePast == \A k \in Keys : Read(k)

LastClaimOwns ==
  \A w \in TwoWorkers : checkPhase[w] # "idle" /\ inboxOwner = w => latestCheck[w]

InboxInv == InboxShape /\ TaskIsCoherent /\ ViewIsOfThePast /\ LastClaimOwns

-----------------------------------------------------------------------------
(* What the inbox does to one task.                                        *)

\* The task that follows another: the same version, or a later one.
Follows(new, t) ==
  \/ new.revision > t.revision
  \/ /\ new.revision = t.revision /\ new.status = t.status
     /\ new.fingerprint = t.fingerprint /\ new.acknowledged = t.acknowledged

Sane(t) ==
  /\ t.status = "none" => t.revision = 0
  /\ t.status \in Inbox!Unresolved => t.fingerprint \in Fingerprints
  /\ t.status # "snoozed" => t.snooze = 0


LEMMA TaskFields ==
  ASSUME NEW t \in Inbox!Task
  PROVE  /\ t.status \in {"none", "resolved"} \cup Inbox!Unresolved /\ t.fingerprint \in Said
         /\ t.revision \in Nat /\ t.acknowledged \in BOOLEAN /\ t.snooze \in 0..SnoozeTicks
BY DEF Inbox!Task, Said

\* The new tasks, field by field.
LEMMA AssertedTask ==
  ASSUME NEW o \in Said, NEW n \in Nat, NEW new, new = Inbox!Asserted(o, n)
  PROVE  /\ new \in Inbox!Task /\ new.status = "open" /\ new.fingerprint = o
         /\ new.revision = n /\ new.snooze = 0
<1>1. 0 \in 0..SnoozeTicks /\ "open" \in {"none", "resolved"} \cup Inbox!Unresolved
  BY InboxAssumption DEF Inbox!Unresolved
<1> QED
  BY <1>1 DEF Inbox!Asserted, Inbox!NoTask, Inbox!Task, Said

LEMMA ClearedTask ==
  ASSUME NEW t \in Inbox!Task, t.revision + 1 \in Nat
  PROVE  /\ Inbox!Cleared(t) \in Inbox!Task /\ Inbox!Cleared(t).status = "resolved"
         /\ Inbox!Cleared(t).fingerprint = t.fingerprint
         /\ Inbox!Cleared(t).revision = t.revision + 1 /\ Inbox!Cleared(t).snooze = 0
<1>1. 0 \in 0..SnoozeTicks /\ "resolved" \in {"none", "resolved"} \cup Inbox!Unresolved
  BY InboxAssumption
<1> QED
  BY <1>1 DEF Inbox!Task, Inbox!Cleared

LEMMA ReopenedTask ==
  ASSUME NEW t \in Inbox!Task, t.revision + 1 \in Nat,
         NEW new, new = [t EXCEPT !.status = "open", !.revision = @ + 1]
  PROVE  /\ new \in Inbox!Task /\ new.status = "open" /\ new.fingerprint = t.fingerprint
         /\ new.revision = t.revision + 1 /\ new.snooze = t.snooze
<1>1. "open" \in {"none", "resolved"} \cup Inbox!Unresolved
  BY DEF Inbox!Unresolved
<1> QED
  BY <1>1 DEF Inbox!Task

LEMMA OpenedTask ==
  ASSUME NEW t \in Inbox!Task, Sane(t)
  PROVE  /\ Inbox!Opened(t) \in Inbox!Task /\ Sane(Inbox!Opened(t)) /\ Follows(Inbox!Opened(t), t)
         /\ (t.status # "snoozed" => Inbox!Opened(t) = t)
<1>0. /\ t.status \in {"none", "resolved"} \cup Inbox!Unresolved /\ t.fingerprint \in Said
      /\ t.revision \in Nat /\ t.acknowledged \in BOOLEAN /\ t.snooze \in 0..SnoozeTicks
  BY TaskFields
<1>1. CASE t.status = "snoozed" /\ t.snooze = 0
  <2>1. t.revision + 1 \in Nat
    BY <1>0
  <2>2. PICK new : new = [t EXCEPT !.status = "open", !.revision = @ + 1]
    OBVIOUS
  <2>3. Inbox!Opened(t) = new
    BY <1>1, <2>2 DEF Inbox!Opened
  <2>4. /\ new \in Inbox!Task /\ new.status = "open" /\ new.fingerprint = t.fingerprint
        /\ new.revision = t.revision + 1 /\ new.snooze = t.snooze
    BY <2>1, <2>2, ReopenedTask
  <2>5. Sane(new) /\ Follows(new, t)
    BY <1>0, <1>1, <2>4 DEF Sane, Follows, Inbox!Unresolved
  <2> QED
    BY <1>1, <2>3, <2>4, <2>5
<1>2. CASE ~(t.status = "snoozed" /\ t.snooze = 0)
  <2>1. Inbox!Opened(t) = t
    BY <1>2 DEF Inbox!Opened
  <2> QED
    BY <2>1 DEF Follows
<1> QED
  BY <1>1, <1>2

LEMMA SyncedTask ==
  ASSUME NEW t \in Inbox!Task, Sane(t), NEW observed \in Said, NEW every \in BOOLEAN
  PROVE  LET new == Inbox!Synced(t, observed, every) IN
         new \in Inbox!Task /\ Sane(new) /\ Follows(new, t)
<1> DEFINE synced == Inbox!Synced(t, observed, every)
<1>0. /\ t.status \in {"none", "resolved"} \cup Inbox!Unresolved /\ t.fingerprint \in Said
      /\ t.revision \in Nat /\ t.acknowledged \in BOOLEAN /\ t.snooze \in 0..SnoozeTicks
  BY TaskFields
<1>s. "resolved" \notin Inbox!Unresolved
  BY DEF Inbox!Unresolved
<1>a. ASSUME NEW r \in Nat, r > t.revision, observed # Absent, synced = Inbox!Asserted(observed, r)
      PROVE  synced \in Inbox!Task /\ Sane(synced) /\ Follows(synced, t)
  <2>1. /\ synced \in Inbox!Task /\ synced.status = "open" /\ synced.fingerprint = observed
        /\ synced.revision = r /\ synced.snooze = 0
    BY <1>a, AssertedTask
  <2>2. observed \in Fingerprints
    BY <1>a DEF Said
  <2> QED
    BY <1>0, <1>a, <2>1, <2>2 DEF Sane, Follows
<1>1. CASE observed # Absent /\ t.status = "none"
  BY <1>1, <1>a DEF Inbox!Synced, Sane
<1>2. CASE observed # Absent /\ t.status # "none" /\ Inbox!Differs(t, observed)
  <2>1. synced = Inbox!Asserted(observed, t.revision + 1)
    BY <1>2 DEF Inbox!Synced
  <2> QED
    BY <1>0, <1>2, <1>a, <2>1
<1>3. CASE observed = Absent /\ every /\ t.status \in Inbox!Unresolved
  <2>1. synced = Inbox!Cleared(t)
    BY <1>3 DEF Inbox!Synced
  <2>2. /\ synced \in Inbox!Task /\ synced.status = "resolved"
        /\ synced.revision = t.revision + 1 /\ synced.snooze = 0
    BY <1>0, <2>1, ClearedTask
  <2> QED
    BY <1>0, <1>s, <2>2 DEF Sane, Follows
<1>4. CASE /\ ~(observed # Absent /\ t.status = "none")
           /\ ~(observed # Absent /\ t.status # "none" /\ Inbox!Differs(t, observed))
           /\ ~(observed = Absent /\ every /\ t.status \in Inbox!Unresolved)
  <2>1. synced = t
    BY <1>4 DEF Inbox!Synced
  <2> QED
    BY <2>1 DEF Follows
<1> QED
  BY <1>1, <1>2, <1>3, <1>4
LEMMA TickedTask ==
  ASSUME NEW t \in Inbox!Task, Sane(t), NEW new, new = [t EXCEPT !.snooze = Inbox!Less(@)]
  PROVE  new \in Inbox!Task /\ Sane(new) /\ Follows(new, t)
<1>1. Inbox!Less(t.snooze) \in 0..SnoozeTicks /\ (t.snooze = 0 => Inbox!Less(t.snooze) = 0)
  <2>1. t.snooze \in 0..SnoozeTicks
    BY TaskFields
  <2> QED
    BY <2>1, InboxAssumption DEF Inbox!Less
<1>2. /\ new \in Inbox!Task /\ new.status = t.status /\ new.fingerprint = t.fingerprint
      /\ new.revision = t.revision /\ new.acknowledged = t.acknowledged
      /\ new.snooze = Inbox!Less(t.snooze)
  BY <1>1 DEF Inbox!Task
<1> QED
  BY <1>1, <1>2 DEF Sane, Follows

LEMMA SeenTask ==
  ASSUME NEW t \in Inbox!Task
  PROVE  /\ Inbox!Seen(t) \in Inbox!Task
         /\ Inbox!Seen(t).status = t.status /\ Inbox!Seen(t).fingerprint = t.fingerprint
         /\ Inbox!Seen(t).revision = t.revision /\ Inbox!Seen(t).acknowledged = t.acknowledged
<1>1. 0 \in 0..SnoozeTicks
  BY InboxAssumption
<1> QED
  BY <1>1 DEF Inbox!Seen, Inbox!Task

LEMMA NextRevision ==
  ASSUME NEW t \in Inbox!Task, NEW new, new = [t EXCEPT !.revision = @ + 1]
  PROVE  /\ new \in Inbox!Task /\ new.status = t.status /\ new.fingerprint = t.fingerprint
         /\ new.revision = t.revision + 1 /\ new.snooze = t.snooze
<1>1. t.revision + 1 \in Nat
  BY TaskFields
<1> QED
  BY <1>1 DEF Inbox!Task

\* The other tasks are opened, the one decided on becomes what was asked.
LEMMA Decided ==
  ASSUME TaskShape, TaskIsCoherent, ViewIsOfThePast,
         NEW k \in Keys, NEW s \in Inbox!Unresolved, Inbox!UpdateTask(k, s)
  PROVE  /\ task' \in [Keys -> Inbox!Task]
         /\ \A j \in Keys : j # k => task'[j] = Inbox!Opened(task[j])
         /\ Sane(task'[k]) /\ Follows(task'[k], task[k])
         /\ view' = [view EXCEPT ![k] = Inbox!Seen(task'[k])]
<1> DEFINE t == Inbox!Opened(task[k])
<1>0. task[k] \in Inbox!Task /\ view[k] \in Inbox!Task /\ Sane(task[k])
  BY DEF TaskShape, TaskIsCoherent, Sane
<1>1. t \in Inbox!Task /\ Sane(t) /\ Follows(t, task[k])
      /\ (task[k].status # "snoozed" => t = task[k])
  BY <1>0, OpenedTask
<1>2. view[k].status # "none" /\ t.revision = view[k].revision /\ t.status # "resolved"
  BY DEF Inbox!UpdateTask
<1>3. t.status \in Inbox!Unresolved /\ t.fingerprint \in Fingerprints
  <2>1. task[k].status # "none"
    <3>1. task[k].status = "none" => t = task[k] /\ view[k].revision = task[k].revision
      BY <1>1, <1>2
    <3> QED
      BY <1>2, <3>1 DEF ViewIsOfThePast, Read
  <2>2. t.status # "none"
    BY <1>0, <1>1, <2>1 DEF Inbox!Opened, Inbox!Task
  <2>3. t.status \in Inbox!Unresolved
    BY <1>1, <1>2, <2>2, TaskFields
  <2> QED
    BY <1>1, <2>3 DEF Sane
<1>4. PICK hours \in 1..SnoozeTicks :
        LET asked == [t EXCEPT !.status = s,
                               !.snooze = IF s = "snoozed" THEN hours ELSE 0,
                               !.acknowledged = s # "open" /\ (@ \/ s = "acknowledged")]
            unchanged == asked = t /\ s # "snoozed" IN
        task' = [j \in Keys |-> IF j # k THEN Inbox!Opened(task[j])
                                ELSE IF unchanged THEN t
                                ELSE [asked EXCEPT !.revision = @ + 1]]
  BY DEF Inbox!UpdateTask
<1>5. PICK z \in 0..SnoozeTicks : z = IF s = "snoozed" THEN hours ELSE 0
  BY <1>4, InboxAssumption
<1>6. PICK a \in BOOLEAN : a = (s # "open" /\ (t.acknowledged \/ s = "acknowledged"))
  OBVIOUS
<1>7. PICK asked : asked = [t EXCEPT !.status = s, !.snooze = z, !.acknowledged = a]
  OBVIOUS
<1>8. task' = [j \in Keys |-> IF j # k THEN Inbox!Opened(task[j])
                              ELSE IF asked = t /\ s # "snoozed" THEN t
                              ELSE [asked EXCEPT !.revision = @ + 1]]
  BY <1>4, <1>5, <1>6, <1>7
<1>9. PICK new : new = [asked EXCEPT !.revision = @ + 1]
  OBVIOUS
<1>10. /\ asked \in Inbox!Task /\ asked.status = s /\ asked.fingerprint = t.fingerprint
       /\ asked.revision = t.revision /\ asked.snooze = z
  BY <1>1, <1>7 DEF Inbox!Task
<1>11. /\ new \in Inbox!Task /\ new.status = s /\ new.fingerprint = t.fingerprint
       /\ new.revision = t.revision + 1 /\ new.snooze = z
  BY <1>9, <1>10, NextRevision
<1>12. Sane(new) /\ Follows(new, task[k])
  <2>1. s # "none" /\ (s # "snoozed" => z = 0)
    BY <1>5 DEF Inbox!Unresolved
  <2>2. t.revision \in Nat /\ task[k].revision \in Nat /\ t.revision >= task[k].revision
    BY <1>0, <1>1, TaskFields DEF Follows
  <2> QED
    BY <1>3, <1>11, <2>1, <2>2 DEF Sane, Follows
<1>13. task'[k] \in {t, new}
  BY <1>8, <1>9
<1>14. \A j \in Keys : j # k => task'[j] = Inbox!Opened(task[j]) /\ task'[j] \in Inbox!Task
  BY <1>8, OpenedTask DEF TaskShape, TaskIsCoherent, Sane
<1>15. task' \in [Keys -> Inbox!Task]
  <2>1. task'[k] \in Inbox!Task
    BY <1>1, <1>11, <1>13
  <2>2. \A j \in Keys : task'[j] \in Inbox!Task
    BY <1>14, <2>1
  <2>3. task' = [j \in Keys |-> task'[j]]
    BY <1>8
  <2> QED
    BY <2>2, <2>3
<1>16. Sane(task'[k]) /\ Follows(task'[k], task[k])
  BY <1>1, <1>12, <1>13
<1>17. view' = [view EXCEPT ![k] = Inbox!Seen(task'[k])]
  BY DEF Inbox!UpdateTask
<1> QED
  BY <1>14, <1>15, <1>16, <1>17
\* Every step takes each task to the same or a later version, and the page to
\* what it read or to what it reads.
LEMMA InboxMoves ==
  ASSUME InboxInv, Inbox!Next
  PROVE  /\ task' \in [Keys -> Inbox!Task] /\ view' = [k \in Keys |-> view'[k]]
         /\ \A k \in Keys :
              /\ Sane(task'[k]) /\ Follows(task'[k], task[k])
              /\ view'[k] = view[k] \/ view'[k] = Inbox!Seen(task'[k])
<1> DEFINE G == /\ task' \in [Keys -> Inbox!Task] /\ view' = [k \in Keys |-> view'[k]]
                /\ \A k \in Keys :
                     /\ Sane(task'[k]) /\ Follows(task'[k], task[k])
                     /\ view'[k] = view[k] \/ view'[k] = Inbox!Seen(task'[k])
<1>0. task \in [Keys -> Inbox!Task] /\ view = [k \in Keys |-> view[k]] /\ \A k \in Keys : Sane(task[k])
  BY DEF InboxInv, InboxShape, TaskShape, TaskIsCoherent, Sane
<1>1. ASSUME UNCHANGED <<task, view>> PROVE G
  BY <1>0, <1>1 DEF Follows
<1>2. CASE Inbox!ReadInbox
  <2>1. /\ task' = [k \in Keys |-> Inbox!Opened(task[k])]
        /\ view' = [k \in Keys |-> Inbox!Seen(task'[k])]
    BY <1>2 DEF Inbox!ReadInbox
  <2> QED
    BY <1>0, <2>1, OpenedTask
<1>3. CASE Inbox!Tick
  <2>1. task' = [k \in Keys |-> [task[k] EXCEPT !.snooze = Inbox!Less(@)]] /\ view' = view
    BY <1>3 DEF Inbox!Tick, Inbox!user
  <2>2. ASSUME NEW k \in Keys
        PROVE  task'[k] \in Inbox!Task /\ Sane(task'[k]) /\ Follows(task'[k], task[k])
    <3>1. PICK new : new = [task[k] EXCEPT !.snooze = Inbox!Less(@)]
      OBVIOUS
    <3>2. task'[k] = new /\ task[k] \in Inbox!Task /\ Sane(task[k])
      BY <1>0, <2>1, <3>1
    <3> QED
      BY <3>1, <3>2, TickedTask
  <2> QED
    BY <1>0, <2>1, <2>2
<1>4. ASSUME NEW k \in Keys, NEW s \in Inbox!Unresolved, Inbox!UpdateTask(k, s) PROVE G
  <2>1. /\ task' \in [Keys -> Inbox!Task]
        /\ \A j \in Keys : j # k => task'[j] = Inbox!Opened(task[j])
        /\ Sane(task'[k]) /\ Follows(task'[k], task[k])
        /\ view' = [view EXCEPT ![k] = Inbox!Seen(task'[k])]
    BY <1>4, Decided DEF InboxInv, InboxShape
  <2>2. \A j \in Keys : j # k => Sane(task'[j]) /\ Follows(task'[j], task[j])
    BY <1>0, <2>1, OpenedTask
  <2>3. \A j \in Keys : view'[j] = view[j] \/ view'[j] = Inbox!Seen(task'[j])
    BY <1>0, <2>1
  <2> QED
    BY <1>0, <2>1, <2>2, <2>3
<1>5. ASSUME NEW c \in Inbox!Checkers, Inbox!Synchronise(c) PROVE G
  <2>1. task' = [k \in Keys |-> Inbox!Synced(Inbox!Opened(task[k]), seen[c][k], complete[c])]
        /\ view' = view
    BY <1>5 DEF Inbox!Synchronise, Inbox!user
  <2>2. ASSUME NEW k \in Keys
        PROVE  task'[k] \in Inbox!Task /\ Sane(task'[k]) /\ Follows(task'[k], task[k])
    <3>1. PICK t : t = Inbox!Opened(task[k])
      OBVIOUS
    <3>2. t \in Inbox!Task /\ Sane(t) /\ Follows(t, task[k])
      BY <1>0, <3>1, OpenedTask
    <3>3. seen[c][k] \in Said /\ complete[c] \in BOOLEAN
      BY DEF InboxInv, InboxShape, CheckShape
    <3>4. task'[k] = Inbox!Synced(t, seen[c][k], complete[c])
      BY <2>1, <3>1
    <3>5. task'[k] \in Inbox!Task /\ Sane(task'[k]) /\ Follows(task'[k], t)
      BY <3>2, <3>3, <3>4, SyncedTask
    <3>6. task[k].revision \in Nat /\ t.revision \in Nat /\ task'[k].revision \in Nat
      BY <1>0, <3>2, <3>5, TaskFields
    <3>7. Follows(task'[k], task[k])
      BY <3>2, <3>5, <3>6 DEF Follows
    <3> QED
      BY <3>5, <3>7
  <2> QED
    BY <1>0, <2>1, <2>2
<1>6. ASSUME NEW w \in TwoWorkers, Inbox!Claim(w) \/ Inbox!Report(w) \/ Inbox!ObserveFails(w) \/ Inbox!Stall(w)
      PROVE  UNCHANGED <<task, view>>
  BY <1>6 DEF Inbox!Claim, Inbox!Report, Inbox!Complete, Inbox!Fail, Inbox!LeaseLost,
              Inbox!ObserveFails, Inbox!Stall, Inbox!user
<1>7. ASSUME NEW c \in Inbox!Checkers,
             \/ Inbox!Visit(c) \/ Inbox!Observe(c) \/ Inbox!ObservePartly(c)
             \/ Inbox!SynchroniseFails(c) \/ Inbox!Crash(c)
      PROVE  UNCHANGED <<task, view>>
  BY <1>7 DEF Inbox!Visit, Inbox!Observe, Inbox!ObservePartly, Inbox!SynchroniseFails,
              Inbox!Crash, Inbox!user
<1>8. ASSUME NEW k \in Keys, NEW now \in BOOLEAN,
             Inbox!Change(k) \/ Inbox!Pause \/ Inbox!Enable(now)
      PROVE  UNCHANGED <<task, view>>
  BY <1>8 DEF Inbox!Change, Inbox!Pause, Inbox!Enable, Inbox!user
<1>9. ASSUME Inbox!Pause \/ \E now \in BOOLEAN : Inbox!Enable(now)
      PROVE  UNCHANGED <<task, view>>
  BY <1>9 DEF Inbox!Pause, Inbox!Enable
<1>10. Inbox!Checkers = TwoWorkers \cup Visitors
  BY DEF Inbox!Checkers
<1> QED
  BY <1>1, <1>2, <1>3, <1>4, <1>5, <1>6, <1>7, <1>8, <1>9, <1>10 DEF Inbox!Next, Inbox!CheckStep

LEMMA InboxTasks ==
  ASSUME InboxInv, Inbox!Next
  PROVE  TaskShape' /\ TaskIsCoherent' /\ ViewIsOfThePast'
<1>1. /\ task' \in [Keys -> Inbox!Task] /\ view' = [k \in Keys |-> view'[k]]
      /\ \A k \in Keys :
           /\ Sane(task'[k]) /\ Follows(task'[k], task[k])
           /\ view'[k] = view[k] \/ view'[k] = Inbox!Seen(task'[k])
  BY InboxMoves
<1>2. task \in [Keys -> Inbox!Task] /\ view \in [Keys -> Inbox!Task] /\ \A k \in Keys : Read(k)
  BY DEF InboxInv, InboxShape, TaskShape, ViewIsOfThePast
<1>3. ASSUME NEW k \in Keys PROVE view'[k] \in Inbox!Task /\ Read(k)'
  <2>1. /\ task'[k].revision \in Nat /\ task[k].revision \in Nat /\ view[k].revision \in Nat
        /\ Follows(task'[k], task[k])
    BY <1>1, <1>2, TaskFields
  <2>2. CASE view'[k] = view[k]
    BY <1>2, <2>1, <2>2 DEF Read, Follows
  <2>3. CASE view'[k] = Inbox!Seen(task'[k])
    <3>1. /\ view'[k] \in Inbox!Task /\ view'[k].status = task'[k].status
          /\ view'[k].fingerprint = task'[k].fingerprint
          /\ view'[k].revision = task'[k].revision
          /\ view'[k].acknowledged = task'[k].acknowledged
      BY <1>1, <2>3, SeenTask
    <3> QED
      BY <2>1, <3>1 DEF Read
  <2> QED
    BY <1>1, <2>2, <2>3
<1>4. view' \in [Keys -> Inbox!Task]
  BY <1>1, <1>3
<1> QED
  BY <1>1, <1>3, <1>4 DEF TaskShape, TaskIsCoherent, Sane, ViewIsOfThePast
LEMMA InboxSchedule ==
  ASSUME InboxInv, Inbox!Next
  PROVE  ScheduleShape'
<1>0. ScheduleShape
  BY DEF InboxInv, InboxShape
<1> USE InboxAssumption, ClockAssumption DEF ScheduleShape, Inbox!schedule
<1>1. ASSUME UNCHANGED Inbox!schedule PROVE ScheduleShape'
  BY <1>0, <1>1
<1>2. CASE Inbox!Pause
  BY <1>0, <1>2 DEF Inbox!Pause
<1>3. ASSUME NEW now \in BOOLEAN, Inbox!Enable(now) PROVE ScheduleShape'
  BY <1>0, <1>3 DEF Inbox!Enable
<1>4. CASE Inbox!Tick
  BY <1>0, <1>4 DEF Inbox!Tick, Inbox!Less
<1>5. ASSUME NEW w \in TwoWorkers, Inbox!Claim(w) PROVE ScheduleShape'
  BY <1>0, <1>5 DEF Inbox!Claim
<1>6. ASSUME NEW w \in TwoWorkers, Inbox!Complete(w) PROVE ScheduleShape'
  BY <1>0, <1>6 DEF Inbox!Complete
<1>7. ASSUME NEW w \in TwoWorkers, Inbox!Fail(w) PROVE ScheduleShape'
  BY <1>0, <1>7 DEF Inbox!Fail
<1>8. ASSUME NEW w \in TwoWorkers, Inbox!LeaseLost(w) \/ Inbox!ObserveFails(w) \/ Inbox!Stall(w)
      PROVE  UNCHANGED Inbox!schedule
  BY <1>8 DEF Inbox!LeaseLost, Inbox!ObserveFails, Inbox!Stall
<1>9. ASSUME NEW c \in Inbox!Checkers,
             \/ Inbox!Visit(c) \/ Inbox!CheckStep(c) \/ Inbox!ObservePartly(c)
             \/ Inbox!SynchroniseFails(c) \/ Inbox!Crash(c)
      PROVE  UNCHANGED Inbox!schedule
  BY <1>9 DEF Inbox!Visit, Inbox!CheckStep, Inbox!Observe, Inbox!Synchronise,
              Inbox!ObservePartly, Inbox!SynchroniseFails, Inbox!Crash
<1>10. ASSUME NEW k \in Keys,
              Inbox!Change(k) \/ \E s \in Inbox!Unresolved : Inbox!UpdateTask(k, s)
       PROVE  UNCHANGED Inbox!schedule
  BY <1>10 DEF Inbox!Change, Inbox!UpdateTask
<1>11. CASE Inbox!ReadInbox
  BY <1>1, <1>11 DEF Inbox!ReadInbox
<1>12. Inbox!Checkers = TwoWorkers \cup Visitors
  BY DEF Inbox!Checkers
<1> QED
  BY <1>1, <1>2, <1>3, <1>4, <1>5, <1>6, <1>7, <1>8, <1>9, <1>10, <1>11, <1>12
  DEF Inbox!Next, Inbox!Report

\* A check that ends leaves nothing behind.
LEMMA LeftCheck ==
  ASSUME CheckShape, NEW c \in Inbox!Checkers, Inbox!Leave(c)
  PROVE  /\ CheckShape'
         /\ checkPhase'[c] = "idle"
         /\ \A w \in TwoWorkers :
              w # c => checkPhase'[w] = checkPhase[w] /\ latestCheck'[w] = latestCheck[w]
<1>1. [k \in Keys |-> Absent] \in [Keys -> Said] /\ FALSE \in BOOLEAN
  BY DEF Said
<1>2. TwoWorkers \subseteq Inbox!Checkers
  BY DEF Inbox!Checkers
<1>3. latestCheck' \in [TwoWorkers -> BOOLEAN]
  <2>1. \A w \in TwoWorkers : (w # c /\ latestCheck[w]) \in BOOLEAN
    OBVIOUS
  <2> QED
    BY <2>1, Zenon DEF Inbox!Leave
<1>4. \A w \in TwoWorkers : w # c => latestCheck'[w] = latestCheck[w]
  BY DEF CheckShape, Inbox!Leave
<1> QED
  BY <1>1, <1>2, <1>3, <1>4 DEF CheckShape, Inbox!Leave, Inbox!Enter

LEMMA InboxChecks ==
  ASSUME InboxInv, Inbox!Next
  PROVE  CheckShape' /\ LastClaimOwns'
<1> DEFINE G == CheckShape' /\ LastClaimOwns'
<1>0. CheckShape /\ LastClaimOwns /\ world \in [Keys -> Said]
      /\ inboxOwner \in TwoWorkers \cup {Nobody}
  BY DEF InboxInv, InboxShape, WorldShape, ScheduleShape
<1>s. TwoWorkers \subseteq Inbox!Checkers /\ Inbox!Checkers = TwoWorkers \cup Visitors
  BY DEF Inbox!Checkers
<1> USE InboxAssumption DEF LastClaimOwns
<1>1. ASSUME UNCHANGED <<checkPhase, seen, complete, checkStalled, latestCheck>>,
             inboxOwner' \in {inboxOwner, Nobody}
      PROVE  G
  BY <1>0, <1>1 DEF CheckShape
<1>2. ASSUME NEW c \in Inbox!Checkers, Inbox!Leave(c), inboxOwner' \in {inboxOwner, Nobody} PROVE G
  BY <1>0, <1>2, LeftCheck
<1>3. ASSUME NEW c \in Inbox!Checkers, checkPhase[c] # "idle",
             NEW p \in {"syncing", "done", "failing"}, Inbox!Enter(c, p),
             seen' \in [Inbox!Checkers -> [Keys -> Said]],
             complete' \in [Inbox!Checkers -> BOOLEAN],
             UNCHANGED <<inboxOwner, checkStalled, latestCheck>>
      PROVE  G
  BY <1>0, <1>3, <1>s DEF CheckShape, Inbox!Enter
<1>4. ASSUME NEW w \in TwoWorkers, Inbox!Claim(w) PROVE G
  <2>1. latestCheck' \in [TwoWorkers -> BOOLEAN]
    <3>1. \A v \in TwoWorkers : (v = w) \in BOOLEAN
      OBVIOUS
    <3> QED
      BY <1>4, <3>1, Zenon DEF Inbox!Claim
  <2>2. inboxOwner' = w /\ latestCheck'[w]
    BY <1>4 DEF Inbox!Claim
  <2> QED
    BY <1>0, <1>4, <1>s, <2>1, <2>2 DEF CheckShape, Inbox!Claim, Inbox!Enter
<1>5. ASSUME NEW v \in Visitors, Inbox!Visit(v) PROVE G
  BY <1>0, <1>5, <1>s DEF CheckShape, Inbox!Visit, Inbox!Enter, Inbox!schedule
<1>6. ASSUME NEW c \in Inbox!Checkers, Inbox!Observe(c) PROVE G
  <2>1. seen' \in [Inbox!Checkers -> [Keys -> Said]] /\ complete' \in [Inbox!Checkers -> BOOLEAN]
    BY <1>0, <1>6 DEF CheckShape, Inbox!Observe
  <2> QED
    BY <1>3, <1>6, <2>1 DEF Inbox!Observe, Inbox!schedule
<1>7. ASSUME NEW c \in Inbox!Checkers, Inbox!ObservePartly(c) PROVE G
  <2>1. seen' \in [Inbox!Checkers -> [Keys -> Said]] /\ complete' \in [Inbox!Checkers -> BOOLEAN]
    <3>1. PICK missing \in SUBSET Keys :
            seen' = [seen EXCEPT ![c] = [k \in Keys |-> IF k \in missing THEN Absent ELSE world[k]]]
      BY <1>7 DEF Inbox!ObservePartly
    <3>2. [k \in Keys |-> IF k \in missing THEN Absent ELSE world[k]] \in [Keys -> Said]
      BY <1>0 DEF Said
    <3> QED
      BY <1>0, <1>7, <3>1, <3>2 DEF CheckShape, Inbox!ObservePartly
  <2> QED
    BY <1>3, <1>7, <2>1 DEF Inbox!ObservePartly, Inbox!schedule
<1>8. ASSUME NEW c \in Inbox!Checkers, Inbox!Synchronise(c) \/ Inbox!SynchroniseFails(c) PROVE G
  <2>1. checkPhase[c] # "idle" /\ inboxOwner' = inboxOwner
        /\ \/ Inbox!Leave(c)
           \/ Inbox!Enter(c, "done") /\ UNCHANGED <<seen, complete, checkStalled, latestCheck>>
    BY <1>8 DEF Inbox!Synchronise, Inbox!SynchroniseFails, Inbox!schedule
  <2>2. seen \in [Inbox!Checkers -> [Keys -> Said]] /\ complete \in [Inbox!Checkers -> BOOLEAN]
    BY <1>0 DEF CheckShape
  <2> QED
    BY <1>2, <1>3, <2>1, <2>2
<1>9. ASSUME NEW w \in TwoWorkers, Inbox!ObserveFails(w) PROVE G
  <2>1. seen \in [Inbox!Checkers -> [Keys -> Said]] /\ complete \in [Inbox!Checkers -> BOOLEAN]
    BY <1>0 DEF CheckShape
  <2> QED
    BY <1>3, <1>9, <1>s, <2>1 DEF Inbox!ObserveFails, Inbox!schedule
<1>10. ASSUME NEW w \in TwoWorkers, Inbox!Report(w) PROVE G
  <2>1. Inbox!Leave(w) /\ inboxOwner' \in {inboxOwner, Nobody}
    BY <1>10 DEF Inbox!Report, Inbox!Complete, Inbox!Fail, Inbox!LeaseLost, Inbox!schedule
  <2> QED
    BY <1>2, <1>s, <2>1
<1>11. ASSUME NEW c \in Inbox!Checkers, Inbox!Crash(c) PROVE G
  BY <1>2, <1>11 DEF Inbox!Crash, Inbox!schedule
<1>12. ASSUME NEW w \in TwoWorkers, Inbox!Stall(w) PROVE G
  BY <1>0, <1>12, <1>s DEF CheckShape, Inbox!Stall, Inbox!schedule
<1>13. ASSUME \/ Inbox!ReadInbox \/ Inbox!Pause \/ Inbox!Tick
              \/ \E now \in BOOLEAN : Inbox!Enable(now)
              \/ \E k \in Keys :
                   Inbox!Change(k) \/ \E s \in Inbox!Unresolved : Inbox!UpdateTask(k, s)
       PROVE  G
  BY <1>1, <1>13 DEF Inbox!ReadInbox, Inbox!Pause, Inbox!Tick, Inbox!Enable, Inbox!Change,
                     Inbox!UpdateTask, Inbox!checks, Inbox!schedule
<1> QED
  BY <1>4, <1>5, <1>6, <1>7, <1>8, <1>9, <1>10, <1>11, <1>12, <1>13
  DEF Inbox!Next, Inbox!CheckStep
LEMMA InboxWorld ==
  ASSUME InboxInv, Inbox!Next
  PROVE  WorldShape'
<1>0. WorldShape
  BY DEF InboxInv, InboxShape
<1> USE InboxAssumption DEF WorldShape
<1>1. ASSUME NEW k \in Keys, Inbox!Change(k) PROVE WorldShape'
  BY <1>0, <1>1 DEF Inbox!Change, Inbox!user, Said
<1>2. ASSUME UNCHANGED <<world, changes, inboxFaults>>, decisions' = decisions \/ Inbox!Decide
      PROVE  WorldShape'
  BY <1>0, <1>2 DEF Inbox!Decide
<1>3. ASSUME UNCHANGED <<world, changes, decisions>>, Inbox!Fault PROVE WorldShape'
  BY <1>0, <1>3 DEF Inbox!Fault
<1>4. ASSUME \/ Inbox!ReadInbox \/ Inbox!Pause \/ Inbox!Tick
             \/ \E now \in BOOLEAN : Inbox!Enable(now)
             \/ \E k \in Keys, s \in Inbox!Unresolved : Inbox!UpdateTask(k, s)
      PROVE  UNCHANGED <<world, changes, inboxFaults>> /\ (decisions' = decisions \/ Inbox!Decide)
  BY <1>4 DEF Inbox!ReadInbox, Inbox!Pause, Inbox!Tick, Inbox!Enable, Inbox!UpdateTask, Inbox!user
<1>5. ASSUME NEW w \in TwoWorkers, Inbox!Claim(w) \/ Inbox!Report(w)
      PROVE  UNCHANGED <<world, changes, inboxFaults, decisions>>
  BY <1>5 DEF Inbox!Claim, Inbox!Report, Inbox!Complete, Inbox!Fail, Inbox!LeaseLost, Inbox!user
<1>6. ASSUME NEW c \in Inbox!Checkers, Inbox!CheckStep(c) \/ Inbox!Visit(c)
      PROVE  UNCHANGED <<world, changes, inboxFaults, decisions>>
  BY <1>6 DEF Inbox!CheckStep, Inbox!Observe, Inbox!Synchronise, Inbox!Visit, Inbox!user
<1>7. ASSUME NEW c \in Inbox!Checkers,
             \/ Inbox!ObservePartly(c) \/ Inbox!SynchroniseFails(c) \/ Inbox!Crash(c)
             \/ Inbox!ObserveFails(c) \/ Inbox!Stall(c)
      PROVE  UNCHANGED <<world, changes, decisions>> /\ Inbox!Fault
  BY <1>7 DEF Inbox!ObservePartly, Inbox!SynchroniseFails, Inbox!Crash, Inbox!ObserveFails,
              Inbox!Stall, Inbox!user
<1>8. Inbox!Checkers = TwoWorkers \cup Visitors
  BY DEF Inbox!Checkers
<1> QED
  BY <1>1, <1>2, <1>3, <1>4, <1>5, <1>6, <1>7, <1>8 DEF Inbox!Next

LEMMA InboxInvStep == InboxInv /\ [Inbox!Next]_inboxVars => InboxInv'
<1> SUFFICES ASSUME InboxInv, [Inbox!Next]_inboxVars PROVE InboxInv'
  OBVIOUS
<1>1. CASE Inbox!Next
  BY <1>1, InboxTasks, InboxSchedule, InboxChecks, InboxWorld DEF InboxInv, InboxShape
<1>2. CASE UNCHANGED inboxVars
  BY <1>2 DEF inboxVars, InboxInv, InboxShape, TaskShape, ScheduleShape, CheckShape, WorldShape,
              TaskIsCoherent, ViewIsOfThePast, Read, LastClaimOwns
<1> QED
  BY <1>1, <1>2

LEMMA InboxInvInit == Inbox!Init => InboxInv
<1> SUFFICES ASSUME Inbox!Init PROVE InboxInv
  OBVIOUS
<1> USE InboxAssumption, ClockAssumption
<1>1. Inbox!NoTask \in Inbox!Task /\ Inbox!NoTask.status = "none" /\ Inbox!NoTask.revision = 0
      /\ Inbox!NoTask.snooze = 0
  BY DEF Inbox!NoTask, Inbox!Task, Inbox!Unresolved
<1>2. \A k \in Keys : task[k] = Inbox!NoTask /\ view[k] = Inbox!NoTask
  BY DEF Inbox!Init
<1>3. TaskShape
  BY <1>1 DEF Inbox!Init, TaskShape
<1>4. TaskIsCoherent /\ ViewIsOfThePast
  BY <1>1, <1>2 DEF TaskIsCoherent, ViewIsOfThePast, Read, Inbox!Unresolved
<1>5. ScheduleShape
  BY DEF Inbox!Init, ScheduleShape
<1>6. CheckShape
  BY DEF Inbox!Init, CheckShape, Said
<1>7. WorldShape
  BY DEF Inbox!Init, WorldShape, Said
<1>8. LastClaimOwns
  BY DEF Inbox!Init, LastClaimOwns, Inbox!Checkers
<1> QED
  BY <1>3, <1>4, <1>5, <1>6, <1>7, <1>8 DEF InboxInv, InboxShape

LEMMA InboxInvImplies == InboxInv => Inbox!TypeOK /\ Inbox!RevisionNamesVersion
BY DEF InboxInv, InboxShape, TaskShape, ScheduleShape, CheckShape, WorldShape, ViewIsOfThePast,
       Read, Said, Inbox!TypeOK, Inbox!RevisionNamesVersion

\* The task a user has acknowledged, while nobody disputes it.
LEMMA AcknowledgedStep == InboxInv /\ Inbox!Next => Inbox!AcknowledgedIsKept
<1> SUFFICES ASSUME InboxInv, Inbox!Next, NEW k \in Keys,
                    task[k].status = "acknowledged", Inbox!Undisputed(k), decisions' = decisions
             PROVE  task'[k] = task[k]
  BY DEF Inbox!AcknowledgedIsKept
<1>0. /\ task \in [Keys -> Inbox!Task] /\ task[k] \in Inbox!Task /\ Sane(task[k])
      /\ task[k].snooze = 0 /\ task[k].fingerprint \in Fingerprints
      /\ decisions \in Nat
  BY InboxAssumption DEF InboxInv, InboxShape, TaskShape, WorldShape, TaskIsCoherent, Sane, Inbox!Unresolved
<1>1. Inbox!Opened(task[k]) = task[k]
  BY DEF Inbox!Opened
<1>2. CASE Inbox!ReadInbox
  BY <1>1, <1>2 DEF Inbox!ReadInbox
<1>3. CASE Inbox!Tick
  <2>1. task'[k] = [task[k] EXCEPT !.snooze = Inbox!Less(@)]
    BY <1>3 DEF Inbox!Tick
  <2>2. Inbox!Less(task[k].snooze) = task[k].snooze
    BY <1>0 DEF Inbox!Less
  <2> QED
    BY <1>0, <2>1, <2>2 DEF Inbox!Task
<1>4. ASSUME NEW c \in Inbox!Checkers, Inbox!Synchronise(c) PROVE task'[k] = task[k]
  <2>1. task'[k] = Inbox!Synced(task[k], seen[c][k], complete[c]) /\ checkPhase[c] = "syncing"
    BY <1>1, <1>4 DEF Inbox!Synchronise
  <2>2. seen[c][k] = task[k].fingerprint \/ (seen[c][k] = Absent /\ ~complete[c])
    BY <2>1 DEF Inbox!Undisputed
  <2>3. task[k].fingerprint # Absent
    BY <1>0, InboxAssumption
  <2> QED
    BY <2>1, <2>2, <2>3 DEF Inbox!Synced, Inbox!Differs
<1>5. ~Inbox!Decide
  BY <1>0 DEF Inbox!Decide
<1>6. CASE UNCHANGED task
  BY <1>6
<1>7. ASSUME NEW j \in Keys, NEW s \in Inbox!Unresolved PROVE ~Inbox!UpdateTask(j, s)
  BY <1>5 DEF Inbox!UpdateTask
<1>8. ASSUME NEW w \in TwoWorkers,
             Inbox!Claim(w) \/ Inbox!Report(w) \/ Inbox!ObserveFails(w) \/ Inbox!Stall(w)
      PROVE  UNCHANGED task
  BY <1>8 DEF Inbox!Claim, Inbox!Report, Inbox!Complete, Inbox!Fail, Inbox!LeaseLost,
              Inbox!ObserveFails, Inbox!Stall
<1>9. ASSUME NEW c \in Inbox!Checkers,
             \/ Inbox!Visit(c) \/ Inbox!Observe(c) \/ Inbox!ObservePartly(c)
             \/ Inbox!SynchroniseFails(c) \/ Inbox!Crash(c)
      PROVE  UNCHANGED task
  BY <1>9 DEF Inbox!Visit, Inbox!Observe, Inbox!ObservePartly, Inbox!SynchroniseFails,
              Inbox!Crash
<1>10. ASSUME \/ \E j \in Keys : Inbox!Change(j)
              \/ Inbox!Pause \/ \E now \in BOOLEAN : Inbox!Enable(now)
       PROVE  UNCHANGED task
  BY <1>10 DEF Inbox!Change, Inbox!Pause, Inbox!Enable
<1>11. Inbox!Checkers = TwoWorkers \cup Visitors
  BY DEF Inbox!Checkers
<1> QED
  BY <1>2, <1>3, <1>4, <1>6, <1>7, <1>8, <1>9, <1>10, <1>11 DEF Inbox!Next, Inbox!CheckStep

\* A report that changes the schedule comes from the check that claimed last.
LEMMA CheckReportStep == InboxInv /\ Inbox!Next => Inbox!ReportIsLatest
<1> SUFFICES ASSUME InboxInv, Inbox!Next, NEW w \in TwoWorkers,
                    checkPhase[w] # "idle", checkPhase'[w] = "idle",
                    Inbox!schedule' # Inbox!schedule
             PROVE  inboxOwner = w
  BY DEF Inbox!ReportIsLatest, InboxInv, LastClaimOwns
<1>0. CheckShape /\ w \in Inbox!Checkers
  BY DEF InboxInv, InboxShape, Inbox!Checkers
<1>1. ASSUME NEW v \in TwoWorkers, Inbox!Report(v) PROVE inboxOwner = w
  <2>1. Inbox!Leave(v) /\ v \in Inbox!Checkers /\ (Inbox!schedule' # Inbox!schedule => inboxOwner = v)
    BY <1>1 DEF Inbox!Report, Inbox!Complete, Inbox!Fail, Inbox!LeaseLost, Inbox!Checkers
  <2>2. v # w => checkPhase'[w] = checkPhase[w]
    BY <1>0, <2>1, LeftCheck
  <2> QED
    BY <2>1, <2>2
<1>2. ASSUME NEW v \in TwoWorkers, Inbox!Claim(v) PROVE FALSE
  <2>1. checkPhase'[w] = checkPhase[w] \/ checkPhase'[w] = "observing"
    BY <1>0, <1>2 DEF CheckShape, Inbox!Claim, Inbox!Enter
  <2> QED
    BY <2>1
<1>3. ASSUME NEW v \in TwoWorkers, Inbox!ObserveFails(v) \/ Inbox!Stall(v) PROVE FALSE
  BY <1>3 DEF Inbox!ObserveFails, Inbox!Stall
<1>4. ASSUME NEW c \in Inbox!Checkers,
             \/ Inbox!Visit(c) \/ Inbox!CheckStep(c) \/ Inbox!ObservePartly(c)
             \/ Inbox!SynchroniseFails(c) \/ Inbox!Crash(c)
      PROVE  FALSE
  BY <1>4 DEF Inbox!Visit, Inbox!CheckStep, Inbox!Observe, Inbox!Synchronise,
              Inbox!ObservePartly, Inbox!SynchroniseFails, Inbox!Crash
<1>5. ASSUME \/ Inbox!ReadInbox \/ Inbox!Pause \/ Inbox!Tick
             \/ \E now \in BOOLEAN : Inbox!Enable(now)
             \/ \E k \in Keys :
                  Inbox!Change(k) \/ \E s \in Inbox!Unresolved : Inbox!UpdateTask(k, s)
      PROVE  FALSE
  BY <1>5 DEF Inbox!ReadInbox, Inbox!Pause, Inbox!Tick, Inbox!Enable, Inbox!Change,
              Inbox!UpdateTask, Inbox!checks
<1>6. Inbox!Checkers = TwoWorkers \cup Visitors
  BY DEF Inbox!Checkers
<1> QED
  BY <1>1, <1>2, <1>3, <1>4, <1>5, <1>6 DEF Inbox!Next
-----------------------------------------------------------------------------
(* The shadow samples.                                                     *)

\* Only what waits has an owner, and what waits has retries left.
RowShape ==
  /\ enrollment \in [Signals -> Shadow!Row]
  /\ \A s \in Signals :
       /\ enrollment[s].owner # Nobody => enrollment[s].status \in Shadow!Waiting
       /\ enrollment[s].status \in Shadow!Waiting => enrollment[s].failures <= ShadowRetries

WorkerShape ==
  /\ at \in [TwoWorkers -> {"idle", "evaluating", "pending", "observed", "failing", "rejected"}]
  /\ on \in [TwoWorkers -> Signals \cup {NoSignal}]
  /\ shadowStalled \in [TwoWorkers -> BOOLEAN] /\ shadowFaults \in 0..ShadowFaults
  /\ \A w \in TwoWorkers : at[w] # "idle" => on[w] \in Signals

SignalShape ==
  /\ known \in [Signals -> SUBSET Signals]
  /\ baseline \in [Signals -> Shadow!Baselines] /\ day \in 0..Shadow!LastDay
  /\ cohort \subseteq Signals /\ evidence \subseteq Signals

ShadowShape == RowShape /\ WorkerShape /\ SignalShape

\* The signals that were let in.
Live == {s \in Signals : enrollment[s].status \in Shadow!Waiting \cup {"blocked", "observed"}}

\* What a worker has observed is stored and bound, and so is what the row says.
ObservedIsStored ==
  /\ \A w \in TwoWorkers : at[w] = "observed" => on[w] \in evidence \cap cohort
  /\ \A s \in Shadow!Samples : s \in evidence \cap cohort

\* One window after the other, also of those not observed yet, unless the
\* earlier one was enrolled later.
WindowsAreApart ==
  \A s, t \in Live :
    s # t /\ baseline[t] <= baseline[s] /\ s \notin known[t] => Shadow!Apart(s, t)

ShadowInv == ShadowShape /\ ObservedIsStored

LEMMA RowFields ==
  ASSUME RowShape, NEW s \in Signals
  PROVE  /\ enrollment[s] \in Shadow!Row
         /\ enrollment[s].status \in {"none", "excluded", "blocked", "observed"} \cup Shadow!Waiting
         /\ enrollment[s].due \in 0..Estimate /\ enrollment[s].owner \in TwoWorkers \cup {Nobody}
         /\ enrollment[s].failures \in 0..(ShadowRetries + 1)
BY DEF RowShape, Shadow!Row

LEMMA RowWritten ==
  ASSUME RowShape, NEW s \in Signals, NEW new \in Shadow!Row, enrollment' = [enrollment EXCEPT ![s] = new],
         new.owner # Nobody => new.status \in Shadow!Waiting,
         new.status \in Shadow!Waiting => new.failures <= ShadowRetries
  PROVE  RowShape'
BY DEF RowShape

\* What a report writes.
LEMMA Written ==
  ASSUME ShadowShape, NEW w \in TwoWorkers, at[w] # "idle",
         NEW st \in {"scheduled", "observed", "retry_wait", "blocked"}, NEW d \in 0..Estimate,
         NEW f \in 0..(ShadowRetries + 1), st \in Shadow!Waiting => f <= ShadowRetries,
         Shadow!Write(w, st, d, f)
  PROVE  /\ RowShape' /\ enrollment[on[w]].status \in Shadow!Waiting
         /\ \A s \in Signals :
              enrollment'[s].status = IF s = on[w] THEN st ELSE enrollment[s].status
<1> DEFINE new == [status |-> st, due |-> d, owner |-> Nobody, lapsed |-> FALSE, failures |-> f]
<1>1. on[w] \in Signals /\ enrollment[on[w]].owner = w
  BY DEF ShadowShape, WorkerShape, Shadow!Write
<1>2. new \in Shadow!Row /\ new.status = st /\ new.owner = Nobody /\ new.failures = f
  BY DEF Shadow!Row, Shadow!Waiting
<1>3. enrollment' = [enrollment EXCEPT ![on[w]] = new]
  BY DEF Shadow!Write
<1> HIDE DEF new
<1>4. RowShape'
  BY <1>1, <1>2, <1>3, RowWritten DEF ShadowShape
<1>5. enrollment[on[w]].status \in Shadow!Waiting
  BY <1>1, InboxAssumption DEF ShadowShape, RowShape
<1>6. \A s \in Signals : enrollment'[s].status = IF s = on[w] THEN st ELSE enrollment[s].status
  BY <1>1, <1>2, <1>3 DEF ShadowShape, RowShape
<1> QED
  BY <1>4, <1>5, <1>6

\* The four reports, each of which writes the row or nothing.
LEMMA Reported ==
  ASSUME ShadowShape, NEW w \in TwoWorkers, Shadow!Report(w)
  PROVE  /\ RowShape' /\ Shadow!Leave(w)
         /\ UNCHANGED <<baseline, known, day, cohort, evidence, shadowFaults>>
         /\ \/ UNCHANGED enrollment
            \/ /\ enrollment[on[w]].status \in Shadow!Waiting
               /\ \E st \in {"scheduled", "observed", "retry_wait", "blocked"} :
                    /\ st = "observed" => at[w] = "observed"
                    /\ \A s \in Signals :
                         enrollment'[s].status = IF s = on[w] THEN st ELSE enrollment[s].status
<1> USE ShadowAssumption
<1>1. CASE Shadow!MarkPending(w)
  <2>1. /\ at[w] # "idle" /\ Shadow!Write(w, "scheduled", 1, 0) /\ 1 \in 0..Estimate
        /\ 0 \in 0..(ShadowRetries + 1) /\ 0 <= ShadowRetries
    BY <1>1 DEF Shadow!MarkPending
  <2>2. /\ RowShape' /\ enrollment[on[w]].status \in Shadow!Waiting
        /\ \A s \in Signals :
             enrollment'[s].status = IF s = on[w] THEN "scheduled" ELSE enrollment[s].status
    BY <2>1, Written
  <2> QED
    BY <2>1, <2>2 DEF Shadow!Write
<1>2. CASE Shadow!Complete(w)
  <2>1. /\ at[w] = "observed" /\ Shadow!Write(w, "observed", 0, 0) /\ 0 \in 0..Estimate
        /\ 0 \in 0..(ShadowRetries + 1) /\ 0 <= ShadowRetries
    BY <1>2 DEF Shadow!Complete
  <2>2. /\ RowShape' /\ enrollment[on[w]].status \in Shadow!Waiting
        /\ \A s \in Signals :
             enrollment'[s].status = IF s = on[w] THEN "observed" ELSE enrollment[s].status
    BY <2>1, Written
  <2> QED
    BY <2>1, <2>2 DEF Shadow!Write
<1>3. CASE Shadow!Fail(w)
  <2> DEFINE f == enrollment[on[w]].failures + 1
  <2>1. /\ at[w] # "idle"
        /\ IF at[w] = "failing" /\ f <= ShadowRetries
           THEN Shadow!Write(w, "retry_wait", 1, f) ELSE Shadow!Write(w, "blocked", 0, f)
    BY <1>3 DEF Shadow!Fail
  <2>2. enrollment[on[w]].owner = w /\ on[w] \in Signals
    BY <2>1 DEF Shadow!Write, ShadowShape, WorkerShape
  <2>3. enrollment[on[w]].failures \in Nat /\ enrollment[on[w]].failures <= ShadowRetries
    BY <2>2, RowFields, InboxAssumption DEF ShadowShape, RowShape
  <2>4. f \in 0..(ShadowRetries + 1) /\ 0 \in 0..Estimate /\ 1 \in 0..Estimate
    BY <2>3
  <2>5. CASE Shadow!Write(w, "retry_wait", 1, f) /\ f <= ShadowRetries
    <3>1. /\ RowShape' /\ enrollment[on[w]].status \in Shadow!Waiting
          /\ \A s \in Signals :
               enrollment'[s].status = IF s = on[w] THEN "retry_wait" ELSE enrollment[s].status
      BY <2>1, <2>4, <2>5, Written
    <3> QED
      BY <2>5, <3>1 DEF Shadow!Write
  <2>6. CASE Shadow!Write(w, "blocked", 0, f)
    <3>1. "blocked" \notin Shadow!Waiting
      BY DEF Shadow!Waiting
    <3>2. /\ RowShape' /\ enrollment[on[w]].status \in Shadow!Waiting
          /\ \A s \in Signals :
               enrollment'[s].status = IF s = on[w] THEN "blocked" ELSE enrollment[s].status
      BY <2>1, <2>4, <2>6, <3>1, Written
    <3> QED
      BY <2>6, <3>2 DEF Shadow!Write
  <2> QED
    BY <2>1, <2>5, <2>6
<1>4. CASE Shadow!LeaseLost(w)
  BY <1>4 DEF Shadow!LeaseLost, ShadowShape, RowShape
<1> QED
  BY <1>1, <1>2, <1>3, <1>4 DEF Shadow!Report
-----------------------------------------------------------------------------
\* The rows, the workers and the signals of a state in which only one of them
\* has moved.
LEMMA RowsKept == ASSUME RowShape, UNCHANGED enrollment PROVE RowShape'
BY DEF RowShape

LEMMA WorkersKept ==
  ASSUME WorkerShape, UNCHANGED <<at, on, shadowStalled, shadowFaults>> PROVE WorkerShape'
BY DEF WorkerShape

LEMMA SignalsKept ==
  ASSUME SignalShape, UNCHANGED <<baseline, known, day, cohort, evidence>> PROVE SignalShape'
BY DEF SignalShape

LEMMA WorkerLeaves ==
  ASSUME WorkerShape, NEW w \in TwoWorkers, Shadow!Leave(w), UNCHANGED shadowFaults
  PROVE  WorkerShape' /\ at'[w] = "idle" /\ \A v \in TwoWorkers \ {w} : at'[v] = at[v] /\ on'[v] = on[v]
BY DEF WorkerShape, Shadow!Leave

\* Evidence and cohorts only grow, and nobody observes anew.
LEMMA StillStored ==
  ASSUME ShadowShape, ObservedIsStored, evidence \subseteq evidence', cohort \subseteq cohort',
         \A s \in Signals : enrollment'[s].status = "observed" =>
           enrollment[s].status = "observed" \/ s \in evidence \cap cohort,
         \A w \in TwoWorkers : at'[w] = "observed" => at[w] = "observed" /\ on'[w] = on[w]
  PROVE  ObservedIsStored'
BY DEF ObservedIsStored, Shadow!Samples

\* No signal is let in, and the windows are what they were.
LEMMA StillApart ==
  ASSUME WindowsAreApart, UNCHANGED <<baseline, known>>, Live' \subseteq Live
  PROVE  WindowsAreApart'
BY DEF WindowsAreApart, Shadow!Apart

LEMMA ShadowEnroll ==
  ASSUME ShadowInv, NEW s \in Signals, Shadow!Enroll(s)
  PROVE  ShadowInv' /\ (WindowsAreApart => WindowsAreApart')
<1> USE ShadowAssumption
<1>1. PICK new : /\ new = IF Shadow!Occupants(s) # {} THEN [Shadow!NoRow EXCEPT !.status = "excluded"]
                          ELSE [Shadow!NoRow EXCEPT !.status = "scheduled", !.due = Estimate]
                 /\ enrollment' = [enrollment EXCEPT ![s] = new]
  BY DEF Shadow!Enroll
<1>2. /\ new \in Shadow!Row /\ new.owner = Nobody /\ new.failures = 0
      /\ new.status = IF Shadow!Occupants(s) # {} THEN "excluded" ELSE "scheduled"
  <2>1. Estimate \in 0..Estimate /\ 0 \in 0..Estimate /\ 0 \in 0..(ShadowRetries + 1)
    OBVIOUS
  <2> QED
    BY <1>1, <2>1 DEF Shadow!NoRow, Shadow!Row, Shadow!Waiting
<1>3. RowShape'
  <2>1. 0 <= ShadowRetries
    OBVIOUS
  <2> QED
    BY <1>1, <1>2, <2>1, RowWritten DEF ShadowInv, ShadowShape
<1>4. /\ UNCHANGED <<baseline, day, cohort, evidence, at, on, shadowStalled, shadowFaults>>
      /\ known' = [known EXCEPT ![s] = Shadow!Enrolled] /\ s \notin Shadow!Enrolled
  BY DEF Shadow!Enroll
<1>5. ShadowShape'
  <2>1. SignalShape'
    BY <1>4 DEF ShadowInv, ShadowShape, SignalShape, Shadow!Enrolled
  <2> QED
    BY <1>3, <1>4, <2>1, WorkersKept DEF ShadowInv, ShadowShape
<1>6. \A t \in Signals : enrollment'[t].status = IF t = s THEN new.status ELSE enrollment[t].status
  BY <1>1 DEF ShadowInv, ShadowShape, RowShape
<1>7. ObservedIsStored'
  <2>1. \A t \in Signals : enrollment'[t].status = "observed" => enrollment[t].status = "observed"
    BY <1>2, <1>6
  <2> QED
    BY <1>4, <2>1, StillStored DEF ShadowInv
<1>8. \A t \in Signals : known'[t] = IF t = s THEN Shadow!Enrolled ELSE known[t]
  BY <1>4 DEF ShadowInv, ShadowShape, SignalShape
<1>9. Live \subseteq Shadow!Enrolled /\ Live' \subseteq Live \cup {s}
  BY <1>6 DEF Live, Shadow!Enrolled, Shadow!Waiting
<1>10. ASSUME WindowsAreApart,
              NEW u \in Live', NEW t \in Live', u # t, baseline[t] <= baseline[u], u \notin known'[t]
       PROVE  Shadow!Apart(u, t)
  <2>1. CASE u # s /\ t # s
    BY <1>8, <1>9, <1>10, <2>1 DEF WindowsAreApart, Live
  <2>2. CASE t = s
    BY <1>8, <1>9, <1>10, <2>2
  <2>3. CASE u = s
    <3>1. t \in Live /\ t \in Shadow!Enrolled \ {s}
      BY <1>9, <1>10, <2>3
    <3>2. t \in Signals /\ enrollment[t].status \in {"scheduled", "retry_wait", "blocked", "observed"}
      BY <3>1 DEF Live, Shadow!Waiting
    <3>3. enrollment'[s].status # "excluded"
      BY <1>10, <2>3 DEF Live, Shadow!Waiting
    <3>4. t \notin Shadow!Occupants(s)
      BY <1>2, <1>6, <3>3
    <3>5. ~(baseline[t] + Window >= baseline[s])
      BY <1>10, <2>3, <3>1, <3>2, <3>4 DEF Shadow!Occupants
    <3>6. baseline[t] \in Nat /\ baseline[s] \in Nat
      BY <3>2 DEF ShadowInv, ShadowShape, SignalShape, Shadow!Baselines
    <3> QED
      BY <2>3, <3>5, <3>6 DEF Shadow!Apart
  <2> QED
    BY <2>1, <2>2, <2>3
<1>11. WindowsAreApart => WindowsAreApart'
  BY <1>4, <1>10 DEF WindowsAreApart, Shadow!Apart
<1> QED
  BY <1>5, <1>7, <1>11 DEF ShadowInv

LEMMA ShadowBinds ==
  ASSUME ShadowInv, NEW s \in Signals, Shadow!BindCohort(s)
  PROVE  ShadowInv' /\ (WindowsAreApart => WindowsAreApart')
<1>1. /\ UNCHANGED <<baseline, known, day, enrollment, evidence, at, on, shadowStalled, shadowFaults>>
      /\ cohort' = cohort \cup {s}
  BY DEF Shadow!BindCohort
<1>2. SignalShape'
  BY <1>1 DEF ShadowInv, ShadowShape, SignalShape
<1>3. ShadowShape'
  BY <1>1, <1>2, RowsKept, WorkersKept DEF ShadowInv, ShadowShape
<1>4. ObservedIsStored'
  BY <1>1, StillStored DEF ShadowInv
<1>5. WindowsAreApart => WindowsAreApart'
  BY <1>1, StillApart DEF Live
<1> QED
  BY <1>3, <1>4, <1>5 DEF ShadowInv

LEMMA ShadowClaims ==
  ASSUME ShadowInv, NEW w \in TwoWorkers, NEW s \in Signals, Shadow!Claim(w, s)
  PROVE  ShadowInv' /\ (WindowsAreApart => WindowsAreApart')
<1>1. PICK new : /\ new = [enrollment[s] EXCEPT !.owner = w, !.lapsed = FALSE]
                 /\ enrollment' = [enrollment EXCEPT ![s] = new]
  BY DEF Shadow!Claim, ShadowInv, ShadowShape, RowShape
<1>2. enrollment[s] \in Shadow!Row /\ enrollment[s].status \in Shadow!Waiting
  BY RowFields DEF ShadowInv, ShadowShape, Shadow!Claim, Shadow!Claimable, Shadow!Due
<1>3. /\ new \in Shadow!Row /\ new.owner = w /\ new.status = enrollment[s].status
      /\ new.failures = enrollment[s].failures
  BY <1>1, <1>2 DEF Shadow!Row
<1>4. enrollment[s].failures <= ShadowRetries
  BY <1>2 DEF ShadowInv, ShadowShape, RowShape
<1>5. RowShape'
  BY <1>1, <1>2, <1>3, <1>4, RowWritten DEF ShadowInv, ShadowShape
<1>6. /\ UNCHANGED <<baseline, known, day, cohort, evidence, shadowStalled, shadowFaults>>
      /\ at' = [at EXCEPT ![w] = "evaluating"] /\ on' = [on EXCEPT ![w] = s]
  BY DEF Shadow!Claim
<1>7. WorkerShape'
  BY <1>6 DEF ShadowInv, ShadowShape, WorkerShape
<1>8. ShadowShape'
  BY <1>5, <1>6, <1>7, SignalsKept DEF ShadowInv, ShadowShape
<1>9. \A t \in Signals : enrollment'[t].status = enrollment[t].status
  BY <1>1, <1>3 DEF ShadowInv, ShadowShape, RowShape
<1>10. \A v \in TwoWorkers : at'[v] = "observed" => at[v] = "observed" /\ on'[v] = on[v]
  BY <1>6 DEF ShadowInv, ShadowShape, WorkerShape
<1>11. ObservedIsStored'
  BY <1>6, <1>9, <1>10, StillStored DEF ShadowInv
<1>12. WindowsAreApart => WindowsAreApart'
  BY <1>6, <1>9, StillApart DEF Live
<1> QED
  BY <1>8, <1>11, <1>12 DEF ShadowInv

LEMMA ShadowEvaluates ==
  ASSUME ShadowInv, NEW w \in TwoWorkers, Shadow!Evaluate(w)
  PROVE  ShadowInv' /\ (WindowsAreApart => WindowsAreApart')
<1>1. PICK answer \in {"pending", "observed", "failing", "rejected"} :
        /\ ~Shadow!Bound(on[w]) => answer = "rejected"
        /\ at' = [at EXCEPT ![w] = answer]
        /\ evidence' = IF answer = "observed" THEN evidence \cup {on[w]} ELSE evidence
  BY DEF Shadow!Evaluate
<1>2. on[w] \in Signals
  BY DEF ShadowInv, ShadowShape, WorkerShape, Shadow!Evaluate
<1>3. UNCHANGED <<baseline, known, day, enrollment, cohort, on, shadowStalled, shadowFaults>>
  BY DEF Shadow!Evaluate
<1>4. WorkerShape'
  BY <1>1, <1>2, <1>3 DEF ShadowInv, ShadowShape, WorkerShape
<1>5. SignalShape'
  BY <1>1, <1>2, <1>3 DEF ShadowInv, ShadowShape, SignalShape
<1>6. ShadowShape'
  BY <1>3, <1>4, <1>5, RowsKept DEF ShadowInv, ShadowShape
<1>7. \A v \in TwoWorkers : at'[v] = "observed" => on'[v] \in evidence' \cap cohort'
  BY <1>1, <1>2, <1>3 DEF ShadowInv, ShadowShape, WorkerShape, ObservedIsStored, Shadow!Bound
<1>8. \A s \in Shadow!Samples' : s \in evidence' \cap cohort'
  BY <1>1, <1>3 DEF ShadowInv, ObservedIsStored, Shadow!Samples
<1>9. ObservedIsStored'
  BY <1>7, <1>8 DEF ObservedIsStored
<1>10. WindowsAreApart => WindowsAreApart'
  BY <1>3, StillApart DEF Live
<1> QED
  BY <1>6, <1>9, <1>10 DEF ShadowInv

LEMMA ShadowReports ==
  ASSUME ShadowInv, NEW w \in TwoWorkers, Shadow!Report(w)
  PROVE  ShadowInv' /\ (WindowsAreApart => WindowsAreApart')
<1>1. /\ RowShape' /\ Shadow!Leave(w)
      /\ UNCHANGED <<baseline, known, day, cohort, evidence, shadowFaults>>
      /\ \/ UNCHANGED enrollment
         \/ /\ enrollment[on[w]].status \in Shadow!Waiting
            /\ \E st \in {"scheduled", "observed", "retry_wait", "blocked"} :
                 /\ st = "observed" => at[w] = "observed"
                 /\ \A s \in Signals :
                      enrollment'[s].status = IF s = on[w] THEN st ELSE enrollment[s].status
  BY Reported DEF ShadowInv
<1>2. /\ WorkerShape' /\ at'[w] = "idle"
      /\ \A v \in TwoWorkers \ {w} : at'[v] = at[v] /\ on'[v] = on[v]
  BY <1>1, WorkerLeaves DEF ShadowInv, ShadowShape
<1>3. ShadowShape'
  BY <1>1, <1>2, SignalsKept DEF ShadowInv, ShadowShape
<1>4. at[w] = "observed" => on[w] \in evidence \cap cohort
  BY DEF ShadowInv, ObservedIsStored
<1>5. \A s \in Signals : enrollment'[s].status = "observed" =>
        enrollment[s].status = "observed" \/ s \in evidence \cap cohort
  BY <1>1, <1>4
<1>6. \A v \in TwoWorkers : at'[v] = "observed" => at[v] = "observed" /\ on'[v] = on[v]
  BY <1>2
<1>7. ObservedIsStored'
  BY <1>1, <1>5, <1>6, StillStored DEF ShadowInv
<1>8. Live' \subseteq Live
  BY <1>1 DEF Live
<1>9. WindowsAreApart => WindowsAreApart'
  BY <1>1, <1>8, StillApart
<1> QED
  BY <1>3, <1>7, <1>9 DEF ShadowInv

LEMMA ShadowCrashes ==
  ASSUME ShadowInv, NEW w \in TwoWorkers, Shadow!Crash(w) \/ Shadow!Stall(w)
  PROVE  ShadowInv' /\ (WindowsAreApart => WindowsAreApart')
<1> USE ShadowAssumption
<1>1. UNCHANGED <<baseline, known, day, enrollment, cohort, evidence>>
  BY DEF Shadow!Crash, Shadow!Stall
<1>2. shadowFaults' \in 0..ShadowFaults
  BY DEF Shadow!Crash, Shadow!Stall, Shadow!Fault, ShadowInv, ShadowShape, WorkerShape
<1>3. WorkerShape' /\ \A v \in TwoWorkers : at'[v] = "observed" => at[v] = "observed" /\ on'[v] = on[v]
  <2>1. CASE Shadow!Crash(w)
    BY <1>2, <2>1 DEF ShadowInv, ShadowShape, WorkerShape, Shadow!Crash, Shadow!Leave
  <2>2. CASE Shadow!Stall(w)
    BY <1>2, <2>2 DEF ShadowInv, ShadowShape, WorkerShape, Shadow!Stall
  <2> QED
    BY <2>1, <2>2
<1>4. ShadowShape'
  BY <1>1, <1>3, RowsKept, SignalsKept DEF ShadowInv, ShadowShape
<1>5. ObservedIsStored'
  BY <1>1, <1>3, StillStored DEF ShadowInv
<1>6. WindowsAreApart => WindowsAreApart'
  BY <1>1, StillApart DEF Live
<1> QED
  BY <1>4, <1>5, <1>6 DEF ShadowInv

\* A step of the clock, or of a lease, leaves every row what it was.
LEMMA ShadowAges ==
  ASSUME ShadowInv, RowShape', day' \in 0..Shadow!LastDay,
         UNCHANGED <<baseline, known, cohort, evidence, at, on, shadowStalled, shadowFaults>>,
         \A s \in Signals : enrollment'[s].status = enrollment[s].status
  PROVE  ShadowInv' /\ (WindowsAreApart => WindowsAreApart')
<1>1. SignalShape'
  BY DEF ShadowInv, ShadowShape, SignalShape
<1>2. ShadowShape'
  BY <1>1, WorkersKept DEF ShadowInv, ShadowShape
<1>3. ObservedIsStored'
  BY StillStored DEF ShadowInv
<1>4. WindowsAreApart => WindowsAreApart'
  BY StillApart DEF Live
<1> QED
  BY <1>2, <1>3, <1>4 DEF ShadowInv

LEMMA ShadowLapses ==
  ASSUME ShadowInv, NEW s \in Signals, Shadow!Lapse(s)
  PROVE  ShadowInv' /\ (WindowsAreApart => WindowsAreApart')
<1>1. PICK new : new = [enrollment[s] EXCEPT !.lapsed = TRUE] /\ enrollment' = [enrollment EXCEPT ![s] = new]
  BY DEF Shadow!Lapse
<1>2. enrollment[s] \in Shadow!Row
  BY RowFields DEF ShadowInv, ShadowShape
<1>3. /\ new \in Shadow!Row /\ new.owner = enrollment[s].owner
      /\ new.status = enrollment[s].status /\ new.failures = enrollment[s].failures
  BY <1>1, <1>2 DEF Shadow!Row
<1>4. RowShape'
  <2>1. /\ new.owner # Nobody => new.status \in Shadow!Waiting
        /\ new.status \in Shadow!Waiting => new.failures <= ShadowRetries
    BY <1>3 DEF ShadowInv, ShadowShape, RowShape
  <2> QED
    BY <1>1, <1>3, <2>1, RowWritten DEF ShadowInv, ShadowShape
<1>5. \A t \in Signals : enrollment'[t].status = enrollment[t].status
  BY <1>1, <1>3 DEF ShadowInv, ShadowShape, RowShape
<1>6. /\ UNCHANGED <<baseline, known, day, cohort, evidence, at, on, shadowStalled, shadowFaults>>
      /\ day \in 0..Shadow!LastDay
  BY DEF Shadow!Lapse, ShadowInv, ShadowShape, SignalShape
<1> QED
  BY <1>4, <1>5, <1>6, ShadowAges

LEMMA ShadowTurns ==
  ASSUME ShadowInv, Shadow!NextDay
  PROVE  ShadowInv' /\ (WindowsAreApart => WindowsAreApart')
<1> USE ShadowAssumption
<1> DEFINE aged(s) == [enrollment[s] EXCEPT !.due = IF @ = 0 THEN 0 ELSE @ - 1]
<1>1. enrollment' = [s \in Signals |-> aged(s)]
  BY DEF Shadow!NextDay
<1>2. ASSUME NEW s \in Signals
      PROVE  /\ aged(s) \in Shadow!Row /\ aged(s).owner = enrollment[s].owner
             /\ aged(s).status = enrollment[s].status /\ aged(s).failures = enrollment[s].failures
  <2>1. enrollment[s] \in Shadow!Row
    BY <1>2, RowFields DEF ShadowInv, ShadowShape
  <2>2. enrollment[s].due \in 0..Estimate
    BY <2>1 DEF Shadow!Row
  <2>3. (IF enrollment[s].due = 0 THEN 0 ELSE enrollment[s].due - 1) \in 0..Estimate
    BY <2>2
  <2> QED
    BY <2>1, <2>3 DEF Shadow!Row
<1> HIDE DEF aged
<1>3. RowShape'
  <2>1. enrollment' \in [Signals -> Shadow!Row]
    BY <1>1, <1>2
  <2>2. ASSUME NEW s \in Signals
        PROVE  /\ enrollment'[s].owner # Nobody => enrollment'[s].status \in Shadow!Waiting
               /\ enrollment'[s].status \in Shadow!Waiting => enrollment'[s].failures <= ShadowRetries
    BY <1>1, <1>2, <2>2 DEF ShadowInv, ShadowShape, RowShape
  <2> QED
    BY <2>1, <2>2 DEF RowShape
<1>4. \A s \in Signals : enrollment'[s].status = enrollment[s].status
  BY <1>1, <1>2
<1>5. day' \in 0..Shadow!LastDay
  BY DEF Shadow!NextDay, Shadow!LastDay, ShadowInv, ShadowShape, SignalShape
<1>6. UNCHANGED <<baseline, known, cohort, evidence, at, on, shadowStalled, shadowFaults>>
  BY DEF Shadow!NextDay
<1> QED
  BY <1>3, <1>4, <1>5, <1>6, ShadowAges

\* Every step of the shadow samples.
LEMMA ShadowStep ==
  ShadowInv /\ [Shadow!Next]_shadowVars =>
    ShadowInv' /\ (WindowsAreApart => WindowsAreApart')
<1> SUFFICES ASSUME ShadowInv, [Shadow!Next]_shadowVars
             PROVE  ShadowInv' /\ (WindowsAreApart => WindowsAreApart')
  OBVIOUS
<1>1. CASE UNCHANGED shadowVars
  <2>1. /\ UNCHANGED <<baseline, known, day, cohort, evidence, at, on, shadowStalled, shadowFaults>>
        /\ UNCHANGED enrollment
    BY <1>1 DEF shadowVars
  <2>2. RowShape' /\ day' \in 0..Shadow!LastDay
    BY <2>1, RowsKept DEF ShadowInv, ShadowShape, SignalShape
  <2> QED
    BY <2>1, <2>2, ShadowAges
<1>2. CASE Shadow!NextDay
  BY <1>2, ShadowTurns
<1>3. CASE Shadow!Poll
  BY <1>3, ShadowClaims DEF Shadow!Poll
<1>4. ASSUME NEW s \in Signals, Shadow!Enroll(s) \/ Shadow!BindCohort(s) \/ Shadow!Lapse(s)
      PROVE  ShadowInv' /\ (WindowsAreApart => WindowsAreApart')
  BY <1>4, ShadowEnroll, ShadowBinds, ShadowLapses
<1>5. ASSUME NEW w \in TwoWorkers,
             Shadow!Evaluate(w) \/ Shadow!Report(w) \/ Shadow!Crash(w) \/ Shadow!Stall(w)
      PROVE  ShadowInv' /\ (WindowsAreApart => WindowsAreApart')
  BY <1>5, ShadowEvaluates, ShadowReports, ShadowCrashes
<1> QED
  BY <1>1, <1>2, <1>3, <1>4, <1>5 DEF Shadow!Next

LEMMA ShadowStart == Shadow!Init => ShadowInv /\ WindowsAreApart
<1> SUFFICES ASSUME Shadow!Init PROVE ShadowInv /\ WindowsAreApart
  OBVIOUS
<1> USE ShadowAssumption
<1>1. Shadow!NoRow \in Shadow!Row /\ Shadow!NoRow.status = "none" /\ Shadow!NoRow.owner = Nobody
  <2>1. 0 \in 0..Estimate /\ 0 \in 0..(ShadowRetries + 1)
    OBVIOUS
  <2> QED
    BY <2>1 DEF Shadow!NoRow, Shadow!Row, Shadow!Waiting
<1>2. RowShape /\ \A s \in Signals : enrollment[s].status = "none"
  BY <1>1 DEF Shadow!Init, RowShape, Shadow!Waiting
<1>3. WorkerShape
  BY DEF Shadow!Init, WorkerShape
<1>4. SignalShape
  BY DEF Shadow!Init, SignalShape, Shadow!LastDay
<1>5. ObservedIsStored
  BY <1>2 DEF Shadow!Init, ObservedIsStored, Shadow!Samples
<1>6. WindowsAreApart
  BY <1>2 DEF WindowsAreApart, Live, Shadow!Waiting
<1> QED
  BY <1>2, <1>3, <1>4, <1>5, <1>6 DEF ShadowInv, ShadowShape

LEMMA ShadowMeans ==
  ShadowInv => Shadow!TypeOK /\ (WindowsAreApart => Shadow!SamplesAreIndependent)
<1> SUFFICES ASSUME ShadowInv
             PROVE  Shadow!TypeOK /\ (WindowsAreApart => Shadow!SamplesAreIndependent)
  OBVIOUS
<1>1. Shadow!TypeOK
  BY DEF ShadowInv, ShadowShape, RowShape, WorkerShape, SignalShape, Shadow!TypeOK
<1>2. Shadow!Samples \subseteq Live
  BY DEF Shadow!Samples, Live
<1>3. ASSUME WindowsAreApart PROVE Shadow!SamplesAreIndependent
  BY <1>2, <1>3 DEF WindowsAreApart, ShadowInv, ObservedIsStored, Shadow!SamplesAreIndependent
<1> QED
  BY <1>1, <1>3

-----------------------------------------------------------------------------
(* The theorems.                                                           *)

\* However the checks of two workers and a page overlap, a revision names one
\* version of a task (decision_inbox_service.py, agent/repository.py).
THEOREM Revisions == Inbox!Spec => []Inbox!RevisionNamesVersion
<1>1. InboxInv /\ [Inbox!Next]_(Inbox!vars) => InboxInv'
  BY InboxInvStep DEF Inbox!vars, Inbox!schedule, Inbox!checks, Inbox!user, inboxVars
<1>2. InboxInv => Inbox!RevisionNamesVersion
  BY InboxInvImplies
<1> QED
  BY InboxInvInit, <1>1, <1>2, PTL DEF Inbox!Spec

\* A check of the inbox that changes the schedule is the one that claimed last
\* (complete_decision_check, fail_decision_check of agent/repository.py).
THEOREM ChecksAreFenced == Inbox!Spec => Inbox!OnlyLatestCheckReports
<1>1. InboxInv /\ [Inbox!Next]_(Inbox!vars) => InboxInv'
  BY InboxInvStep DEF Inbox!vars, Inbox!schedule, Inbox!checks, Inbox!user, inboxVars
<1>2. InboxInv /\ [Inbox!Next]_(Inbox!vars) => [Inbox!ReportIsLatest]_(Inbox!vars)
  BY CheckReportStep
<1> QED
  BY InboxInvInit, <1>1, <1>2, PTL DEF Inbox!Spec, Inbox!OnlyLatestCheckReports

\* The components beside each other: no step of one disturbs what holds of another.
LEMMA FocusStep ==
  ASSUME [MCNext]_all
  PROVE  [Next]_vars /\ [Inbox!Next]_inboxVars /\ [Shadow!Next]_shadowVars
<1>1. CASE Outcomes(Next)
  BY <1>1 DEF Outcomes
<1>2. CASE OfInbox(Inbox!Next)
  BY <1>2 DEF OfInbox
<1>3. CASE OfShadow(Shadow!Next)
  BY <1>3 DEF OfShadow
<1>4. CASE UNCHANGED all
  BY <1>4 DEF all
<1> QED
  BY <1>1, <1>2, <1>3, <1>4 DEF MCNext

\* All that is inductive of the three schedules.
SchedulesInv == IInv /\ InboxInv /\ ShadowInv /\ WindowsAreApart

LEMMA SchedulesHold == MCSpec => []SchedulesInv
<1>1. MCInit => SchedulesInv
  BY InvStart, InboxInvInit, ShadowStart DEF MCInit, SchedulesInv
<1>2. SchedulesInv /\ [MCNext]_all => SchedulesInv'
  BY InvStep, InboxInvStep, ShadowStep, FocusStep DEF SchedulesInv
<1> QED
  BY <1>1, <1>2, PTL DEF MCSpec

\* Every variable of the three schedules keeps its type.
THEOREM ScheduleTypes == MCSpec => []TypesOK
<1>1. SchedulesInv => TypesOK
  BY InboxInvImplies, ShadowMeans DEF SchedulesInv, IInv, TypesOK
<1> QED
  BY <1>1, SchedulesHold, PTL

\* Two versions of a task never carry one revision, in the composition that is
\* model-checked: a user's decision meets the version he saw
\* (update_decision_inbox_task of agent/repository.py).
THEOREM VersionsAreNamed == MCSpec => []RevisionNamesVersion
<1>1. SchedulesInv => RevisionNamesVersion
  BY InboxInvImplies DEF SchedulesInv, RevisionNamesVersion
<1> QED
  BY <1>1, SchedulesHold, PTL

\* What the user acknowledged is not put before him again while the world
\* stays what it was (sync_decision_inbox_tasks of agent/repository.py).
THEOREM Acknowledged == MCSpec => AcknowledgementStands
<1>1. SchedulesInv /\ [MCNext]_all => [Inbox!AcknowledgedIsKept]_(Inbox!vars)
  <2> SUFFICES ASSUME SchedulesInv, [MCNext]_all
               PROVE  [Inbox!AcknowledgedIsKept]_(Inbox!vars)
    OBVIOUS
  <2>1. Inbox!Next \/ UNCHANGED Inbox!vars
    BY FocusStep DEF Inbox!vars, Inbox!schedule, Inbox!checks, Inbox!user, inboxVars
  <2> QED
    BY <2>1, AcknowledgedStep DEF SchedulesInv
<1> QED
  BY <1>1, SchedulesHold, PTL DEF MCSpec, AcknowledgementStands, Inbox!AcknowledgementStands

\* In whatever order signals are enrolled, each sample has its evidence and its
\* cohort, and its window has no day in common with that of an earlier sample
\* unless that one was enrolled later (ensure_strategy_shadow_enrollment of
\* agent/repository.py, which looks at earlier baselines only).
THEOREM SamplesAreApart == MCSpec => []SamplesAreIndependent
<1>1. SchedulesInv => SamplesAreIndependent
  BY ShadowMeans DEF SchedulesInv, SamplesAreIndependent
<1> QED
  BY <1>1, SchedulesHold, PTL

\* In whatever order signals are enrolled, a sample has its evidence and its
\* cohort, and the variables keep their types.
THEOREM ShadowTypes == Shadow!Spec => [](Shadow!TypeOK /\ ObservedIsStored)
<1>1. ShadowInv /\ [Shadow!Next]_(Shadow!vars) => ShadowInv'
  BY ShadowStep DEF Shadow!vars, shadowVars
<1>2. Shadow!Init => ShadowInv
  BY ShadowStart
<1>3. ShadowInv => Shadow!TypeOK /\ ObservedIsStored
  BY ShadowMeans DEF ShadowInv
<1> QED
  BY <1>1, <1>2, <1>3, PTL DEF Shadow!Spec
=============================================================================
