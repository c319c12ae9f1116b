---------------------------- MODULE ProgramsProofs ----------------------------
(***************************************************************************)
(* What holds of the programs of MCPrograms for any number of runs, days,  *)
(* workers, requests, settlements, cycles, reconciliations and faults.     *)
(*                                                                         *)
(* A forecast's run is open until it succeeds or fails, at most one is,    *)
(* and every message, request and execution names one that was made: so    *)
(* that forecasts are stored only for a run that has none.                 *)
(*                                                                         *)
(* A research cycle that was claimed belongs to the reconciliation that    *)
(* claimed it until it is attached, even when another one closes it as an  *)
(* orphan meanwhile: so that nobody else touches its run before.  Whoever  *)
(* follows an attached run to its validation has seen it succeed, and a    *)
(* run that succeeded is never anything else again.                        *)
(*                                                                         *)
(* The collection's invariant adds to its types                            *)
(*   Budget   a run that may be claimed, or is yet to be created, has an   *)
(*            attempt left: the claim does not look at max_attempts;       *)
(*   Order    an execution never holds the number of a later attempt, and  *)
(*            one that holds the number of the running attempt has not     *)
(*            lost its run since;                                          *)
(*   Backing  an execution that completes has stored its response, and so  *)
(*            has somebody for every finished run.                         *)
(***************************************************************************)
EXTENDS MCPrograms, FiniteSetTheorems, TLAPS

-----------------------------------------------------------------------------
(* The factor warehouse.                                                   *)

USE TargetAssumption, BoundAssumption

\* The claim relies on whoever queued the run.
Budget == \A t \in Targets : status[t] \in {"absent", "queued"} => attempts[t] < MaxAttempts

\* Attempt numbers order the executions of a run.
Order ==
  \A w \in Workers : phase[w] \in {"calling", "saving"} =>
    /\ expected[w] <= attempts[doing[w]]
    /\ status[doing[w]] = "running" /\ expected[w] = attempts[doing[w]] => current[w]

\* The response is stored before anybody calls the run finished.
Backing ==
  /\ FinishedIsBacked
  /\ \A w \in Workers : phase[w] = "completing" => saved[doing[w]] # "no"

\* The inductive invariant.
IInv == TypeOK /\ Budget /\ Order /\ Backing

\* The initial states.
LEMMA Initially == Init => IInv
  BY DEF Init, IInv, TypeOK, Budget, Order, Backing, FinishedIsBacked, Targets, NoTarget,
         Finished

\* Every step keeps every variable within its type.  The claim needs Budget.
LEMMA TypeStep == IInv /\ [Next]_vars => TypeOK'
<1> SUFFICES ASSUME IInv, [Next]_vars PROVE TypeOK'
  OBVIOUS
<1> USE DEF IInv, TypeOK, Budget, NoTarget, Finished, runs, work
<1>1. ASSUME NEW t \in Targets, Enqueue(t) PROVE TypeOK'
  BY <1>1 DEF Enqueue
<1>2. ASSUME NEW t \in Targets, DispatchAgain(t) PROVE TypeOK'
  BY <1>2 DEF DispatchAgain
<1>3. ASSUME NEW t \in Targets, Publish(t) PROVE TypeOK'
  BY <1>3 DEF Publish
<1>4. ASSUME RecoverStaleSyncs PROVE TypeOK'
  BY <1>4 DEF RecoverStaleSyncs, Stale, Outdate
<1>5. ASSUME NEW w \in Workers, NEW t \in Targets, Claim(w, t) PROVE TypeOK'
  BY <1>5 DEF Claim, Deliver
<1>6. ASSUME NEW w \in Workers, NEW t \in Targets, Join(w, t) PROVE TypeOK'
  BY <1>6 DEF Join, Deliver, BeginCall
<1>7. ASSUME NEW w \in Workers, NEW t \in Targets, Ignore(w, t) PROVE TypeOK'
  BY <1>7 DEF Ignore, Deliver
<1>8. ASSUME NEW w \in Workers, Reread(w) PROVE TypeOK'
  <2>1. phase[w] = "claimed" /\ doing[w] \in Targets /\ attempts[doing[w]] \in 0..MaxAttempts
    BY <1>8 DEF Reread
  <2>2. phase' \in [Workers -> {"idle", "claimed", "calling", "saving", "completing", "failing"}]
    BY <1>8, <2>1 DEF Reread, BeginCall
  <2>3. expected' \in [Workers -> 0..MaxAttempts]
    BY <1>8, <2>1 DEF Reread, BeginCall
  <2>4. doing' \in [Workers -> Targets \cup {NoTarget}]
    BY <1>8, <2>1 DEF Reread
  <2>5. current' \in [Workers -> BOOLEAN] /\ stalled' \in [Workers -> BOOLEAN]
    BY <1>8, <2>1 DEF Reread, BeginCall
  <2>6. \A v \in Workers : phase'[v] # "idle" => doing'[v] \in Targets
    BY <1>8, <2>1 DEF Reread, BeginCall
  <2> QED
    BY <1>8, <2>2, <2>3, <2>4, <2>5, <2>6 DEF Reread
<1>9. ASSUME NEW w \in Workers, ProviderReturns(w) PROVE TypeOK'
  BY <1>9 DEF ProviderReturns
<1>10. ASSUME NEW w \in Workers, Save(w) PROVE TypeOK'
  BY <1>10 DEF Save, Writable
<1>11. ASSUME NEW w \in Workers, Conflict(w) PROVE TypeOK'
  BY <1>11 DEF Conflict, Leave
<1>12. ASSUME NEW w \in Workers, Complete(w) PROVE TypeOK'
  BY <1>12 DEF Complete, Leave, Outdate
<1>13. ASSUME NEW w \in Workers, Fail(w) PROVE TypeOK'
  BY <1>13 DEF Fail, Leave, Outdate
<1>14. ASSUME NEW w \in Workers, Crash(w) PROVE TypeOK'
  BY <1>14 DEF Crash, Fault, Leave, MayPublish
<1>15. ASSUME NEW w \in Workers, Stall(w) PROVE TypeOK'
  BY <1>15 DEF Stall, Fault
<1>16. ASSUME NEW w \in Workers, WriteFails(w) PROVE TypeOK'
  BY <1>16 DEF WriteFails, Fault
<1>17. ASSUME NEW t \in Targets, BrokerFault(t) PROVE TypeOK'
  <2>1. messages' \in [Targets -> 0..MaxMessages]
    BY <1>17 DEF BrokerFault
  <2>2. outbox' \in [Targets -> BOOLEAN]
    BY <1>17 DEF BrokerFault
  <2>3. faults' \in 0..MaxFaults
    BY <1>17 DEF BrokerFault, Fault
  <2> QED
    BY <1>17, <2>1, <2>2, <2>3 DEF BrokerFault
<1>18. ASSUME Tick PROVE TypeOK'
  BY <1>18 DEF Tick, OneLess
<1>19. ASSUME UNCHANGED vars PROVE TypeOK'
  BY <1>19 DEF vars
<1> QED
  BY <1>1, <1>2, <1>3, <1>4, <1>5, <1>6, <1>7, <1>8, <1>9, <1>10,
     <1>11, <1>12, <1>13, <1>14, <1>15, <1>16, <1>17, <1>18, <1>19
  DEF Next, ScheduleDueSync, RequestSync, Receive, Work

\* A requeued run has an attempt left, and nothing else queues one.
LEMMA BudgetStep == IInv /\ [Next]_vars => Budget'
<1> SUFFICES ASSUME IInv, [Next]_vars PROVE Budget'
  OBVIOUS
<1> USE DEF IInv, TypeOK, Budget, NoTarget, Finished, runs, work
<1>1. ASSUME NEW t \in Targets, Enqueue(t) PROVE Budget'
  BY <1>1 DEF Enqueue
<1>2. ASSUME NEW t \in Targets, DispatchAgain(t) PROVE Budget'
  BY <1>2 DEF DispatchAgain
<1>3. ASSUME NEW t \in Targets, Publish(t) PROVE Budget'
  BY <1>3 DEF Publish
<1>4. ASSUME RecoverStaleSyncs PROVE Budget'
  BY <1>4 DEF RecoverStaleSyncs, Stale, Outdate
<1>5. ASSUME NEW w \in Workers, NEW t \in Targets, Claim(w, t) PROVE Budget'
  BY <1>5 DEF Claim, Deliver
<1>6. ASSUME NEW w \in Workers, NEW t \in Targets, Join(w, t) PROVE Budget'
  BY <1>6 DEF Join, Deliver, BeginCall
<1>7. ASSUME NEW w \in Workers, NEW t \in Targets, Ignore(w, t) PROVE Budget'
  BY <1>7 DEF Ignore, Deliver
<1>8. ASSUME NEW w \in Workers, Reread(w) PROVE Budget'
  BY <1>8 DEF Reread, BeginCall
<1>9. ASSUME NEW w \in Workers, ProviderReturns(w) PROVE Budget'
  BY <1>9 DEF ProviderReturns
<1>10. ASSUME NEW w \in Workers, Save(w) PROVE Budget'
  BY <1>10 DEF Save, Writable
<1>11. ASSUME NEW w \in Workers, Conflict(w) PROVE Budget'
  BY <1>11 DEF Conflict, Leave
<1>12. ASSUME NEW w \in Workers, Complete(w) PROVE Budget'
  BY <1>12 DEF Complete, Leave, Outdate
<1>13. ASSUME NEW w \in Workers, Fail(w) PROVE Budget'
  BY <1>13 DEF Fail, Leave, Outdate
<1>14. ASSUME NEW w \in Workers, Crash(w) PROVE Budget'
  BY <1>14 DEF Crash, Fault, Leave, MayPublish
<1>15. ASSUME NEW w \in Workers, Stall(w) PROVE Budget'
  BY <1>15 DEF Stall, Fault
<1>16. ASSUME NEW w \in Workers, WriteFails(w) PROVE Budget'
  BY <1>16 DEF WriteFails, Fault
<1>17. ASSUME NEW t \in Targets, BrokerFault(t) PROVE Budget'
  BY <1>17 DEF BrokerFault, Fault
<1>18. ASSUME Tick PROVE Budget'
  BY <1>18 DEF Tick, OneLess
<1>19. ASSUME UNCHANGED vars PROVE Budget'
  BY <1>19 DEF vars
<1> QED
  BY <1>1, <1>2, <1>3, <1>4, <1>5, <1>6, <1>7, <1>8, <1>9, <1>10,
     <1>11, <1>12, <1>13, <1>14, <1>15, <1>16, <1>17, <1>18, <1>19
  DEF Next, ScheduleDueSync, RequestSync, Receive, Work

\* Whatever takes a run out of "running" outdates its executions, and the claim
\* that takes it back raises the attempt above every number they hold.
LEMMA OrderStep == IInv /\ [Next]_vars => Order'
<1> SUFFICES ASSUME IInv, [Next]_vars PROVE Order'
  OBVIOUS
<1> USE DEF IInv, TypeOK, Order, Finished, runs, work
<1>1. ASSUME NEW t \in Targets, Enqueue(t) PROVE Order'
  BY <1>1 DEF Enqueue
<1>2. ASSUME NEW t \in Targets, DispatchAgain(t) PROVE Order'
  BY <1>2 DEF DispatchAgain
<1>3. ASSUME NEW t \in Targets, Publish(t) PROVE Order'
  BY <1>3 DEF Publish
<1>4. ASSUME RecoverStaleSyncs PROVE Order'
  BY <1>4 DEF RecoverStaleSyncs, Stale, Outdate
<1>5. ASSUME NEW w \in Workers, NEW t \in Targets, Claim(w, t) PROVE Order'
  BY <1>5 DEF Claim, Deliver
<1>6. ASSUME NEW w \in Workers, NEW t \in Targets, Join(w, t) PROVE Order'
  BY <1>6 DEF Join, Deliver, BeginCall
<1>7. ASSUME NEW w \in Workers, NEW t \in Targets, Ignore(w, t) PROVE Order'
  BY <1>7 DEF Ignore, Deliver
<1>8. ASSUME NEW w \in Workers, Reread(w) PROVE Order'
  BY <1>8 DEF Reread, BeginCall
<1>9. ASSUME NEW w \in Workers, ProviderReturns(w) PROVE Order'
  BY <1>9 DEF ProviderReturns
<1>10. ASSUME NEW w \in Workers, Save(w) PROVE Order'
  BY <1>10 DEF Save, Writable
<1>11. ASSUME NEW w \in Workers, Conflict(w) PROVE Order'
  BY <1>11 DEF Conflict, Leave
<1>12. ASSUME NEW w \in Workers, Complete(w) PROVE Order'
  BY <1>12 DEF Complete, Leave, Outdate
<1>13. ASSUME NEW w \in Workers, Fail(w) PROVE Order'
  BY <1>13 DEF Fail, Leave, Outdate
<1>14. ASSUME NEW w \in Workers, Crash(w) PROVE Order'
  BY <1>14 DEF Crash, Fault, Leave, MayPublish
<1>15. ASSUME NEW w \in Workers, Stall(w) PROVE Order'
  BY <1>15 DEF Stall, Fault
<1>16. ASSUME NEW w \in Workers, WriteFails(w) PROVE Order'
  BY <1>16 DEF WriteFails, Fault
<1>17. ASSUME NEW t \in Targets, BrokerFault(t) PROVE Order'
  BY <1>17 DEF BrokerFault, Fault
<1>18. ASSUME Tick PROVE Order'
  BY <1>18 DEF Tick, OneLess
<1>19. ASSUME UNCHANGED vars PROVE Order'
  BY <1>19 DEF vars
<1> QED
  BY <1>1, <1>2, <1>3, <1>4, <1>5, <1>6, <1>7, <1>8, <1>9, <1>10,
     <1>11, <1>12, <1>13, <1>14, <1>15, <1>16, <1>17, <1>18, <1>19
  DEF Next, ScheduleDueSync, RequestSync, Receive, Work

\* Responses are stored before runs are completed, and are never removed.
LEMMA BackingStep == IInv /\ [Next]_vars => Backing'
<1> SUFFICES ASSUME IInv, [Next]_vars PROVE Backing'
  OBVIOUS
<1> USE DEF IInv, TypeOK, Backing, FinishedIsBacked, Finished, runs, work
<1>1. ASSUME NEW t \in Targets, Enqueue(t) PROVE Backing'
  BY <1>1 DEF Enqueue
<1>2. ASSUME NEW t \in Targets, DispatchAgain(t) PROVE Backing'
  BY <1>2 DEF DispatchAgain
<1>3. ASSUME NEW t \in Targets, Publish(t) PROVE Backing'
  BY <1>3 DEF Publish
<1>4. ASSUME RecoverStaleSyncs PROVE Backing'
  BY <1>4 DEF RecoverStaleSyncs, Stale, Outdate
<1>5. ASSUME NEW w \in Workers, NEW t \in Targets, Claim(w, t) PROVE Backing'
  BY <1>5 DEF Claim, Deliver
<1>6. ASSUME NEW w \in Workers, NEW t \in Targets, Join(w, t) PROVE Backing'
  BY <1>6 DEF Join, Deliver, BeginCall
<1>7. ASSUME NEW w \in Workers, NEW t \in Targets, Ignore(w, t) PROVE Backing'
  BY <1>7 DEF Ignore, Deliver
<1>8. ASSUME NEW w \in Workers, Reread(w) PROVE Backing'
  BY <1>8 DEF Reread, BeginCall
<1>9. ASSUME NEW w \in Workers, ProviderReturns(w) PROVE Backing'
  BY <1>9 DEF ProviderReturns
<1>10. ASSUME NEW w \in Workers, Save(w) PROVE Backing'
  BY <1>10 DEF Save, Writable
<1>11. ASSUME NEW w \in Workers, Conflict(w) PROVE Backing'
  BY <1>11 DEF Conflict, Leave
<1>12. ASSUME NEW w \in Workers, Complete(w) PROVE Backing'
  BY <1>12 DEF Complete, Leave, Outdate
<1>13. ASSUME NEW w \in Workers, Fail(w) PROVE Backing'
  BY <1>13 DEF Fail, Leave, Outdate
<1>14. ASSUME NEW w \in Workers, Crash(w) PROVE Backing'
  BY <1>14 DEF Crash, Fault, Leave, MayPublish
<1>15. ASSUME NEW w \in Workers, Stall(w) PROVE Backing'
  BY <1>15 DEF Stall, Fault
<1>16. ASSUME NEW w \in Workers, WriteFails(w) PROVE Backing'
  BY <1>16 DEF WriteFails, Fault
<1>17. ASSUME NEW t \in Targets, BrokerFault(t) PROVE Backing'
  BY <1>17 DEF BrokerFault, Fault
<1>18. ASSUME Tick PROVE Backing'
  BY <1>18 DEF Tick, OneLess
<1>19. ASSUME UNCHANGED vars PROVE Backing'
  BY <1>19 DEF vars
<1> QED
  BY <1>1, <1>2, <1>3, <1>4, <1>5, <1>6, <1>7, <1>8, <1>9, <1>10,
     <1>11, <1>12, <1>13, <1>14, <1>15, <1>16, <1>17, <1>18, <1>19
  DEF Next, ScheduleDueSync, RequestSync, Receive, Work

\* The inductive invariant holds throughout.
LEMMA InvHolds == Spec => []IInv
<1>1. IInv /\ [Next]_vars => IInv'
  BY TypeStep, BudgetStep, OrderStep, BackingStep DEF IInv
<1> QED
  BY <1>1, Initially, PTL DEF Spec

\* Type correctness; with it, no run is attempted more often than it may be.
THEOREM TypeCorrect == Spec => []TypeOK
<1>1. IInv => TypeOK
  BY DEF IInv
<1> QED
  BY <1>1, InvHolds, PTL

\* A finished run has its response in the warehouse.
THEOREM FinishedRunsAreBacked == Spec => []FinishedIsBacked
<1>1. IInv => FinishedIsBacked
  BY DEF IInv, Backing
<1> QED
  BY <1>1, InvHolds, PTL

-----------------------------------------------------------------------------
\* Only Save takes an execution from saving to completing.
LEMMA SaveStep == IInv /\ [Next]_vars => SaveIsCurrent
<1> SUFFICES ASSUME IInv, [Next]_vars PROVE SaveIsCurrent
  OBVIOUS
<1> USE DEF IInv, TypeOK, Order, SaveIsCurrent, runs, work
<1>1. ASSUME NEW t \in Targets, Enqueue(t) PROVE SaveIsCurrent
  BY <1>1 DEF Enqueue
<1>2. ASSUME NEW t \in Targets, DispatchAgain(t) PROVE SaveIsCurrent
  BY <1>2 DEF DispatchAgain
<1>3. ASSUME NEW t \in Targets, Publish(t) PROVE SaveIsCurrent
  BY <1>3 DEF Publish
<1>4. ASSUME RecoverStaleSyncs PROVE SaveIsCurrent
  BY <1>4 DEF RecoverStaleSyncs, Stale, Outdate
<1>5. ASSUME NEW w \in Workers, NEW t \in Targets, Claim(w, t) PROVE SaveIsCurrent
  BY <1>5 DEF Claim, Deliver
<1>6. ASSUME NEW w \in Workers, NEW t \in Targets, Join(w, t) PROVE SaveIsCurrent
  BY <1>6 DEF Join, Deliver, BeginCall
<1>7. ASSUME NEW w \in Workers, NEW t \in Targets, Ignore(w, t) PROVE SaveIsCurrent
  BY <1>7 DEF Ignore, Deliver
<1>8. ASSUME NEW w \in Workers, Reread(w) PROVE SaveIsCurrent
  BY <1>8 DEF Reread, BeginCall
<1>9. ASSUME NEW w \in Workers, ProviderReturns(w) PROVE SaveIsCurrent
  BY <1>9 DEF ProviderReturns
<1>10. ASSUME NEW w \in Workers, Save(w) PROVE SaveIsCurrent
  BY <1>10 DEF Save, Writable
<1>11. ASSUME NEW w \in Workers, Conflict(w) PROVE SaveIsCurrent
  BY <1>11 DEF Conflict, Leave
<1>12. ASSUME NEW w \in Workers, Complete(w) PROVE SaveIsCurrent
  BY <1>12 DEF Complete, Leave, Outdate
<1>13. ASSUME NEW w \in Workers, Fail(w) PROVE SaveIsCurrent
  BY <1>13 DEF Fail, Leave, Outdate
<1>14. ASSUME NEW w \in Workers, Crash(w) PROVE SaveIsCurrent
  BY <1>14 DEF Crash, Fault, Leave, MayPublish
<1>15. ASSUME NEW w \in Workers, Stall(w) PROVE SaveIsCurrent
  BY <1>15 DEF Stall, Fault
<1>16. ASSUME NEW w \in Workers, WriteFails(w) PROVE SaveIsCurrent
  BY <1>16 DEF WriteFails, Fault
<1>17. ASSUME NEW t \in Targets, BrokerFault(t) PROVE SaveIsCurrent
  BY <1>17 DEF BrokerFault, Fault
<1>18. ASSUME Tick PROVE SaveIsCurrent
  BY <1>18 DEF Tick, OneLess
<1>19. ASSUME UNCHANGED vars PROVE SaveIsCurrent
  BY <1>19 DEF vars
<1> QED
  BY <1>1, <1>2, <1>3, <1>4, <1>5, <1>6, <1>7, <1>8, <1>9, <1>10,
     <1>11, <1>12, <1>13, <1>14, <1>15, <1>16, <1>17, <1>18, <1>19
  DEF Next, ScheduleDueSync, RequestSync, Receive, Work

\* A late response is refused: one whose run was recovered, failed or taken up
\* again since its call began.
THEOREM LateResponses == Spec => LateResponsesAreRefused
<1>1. IInv /\ [Next]_vars => [SaveIsCurrent]_vars
  BY SaveStep
<1> QED
  BY <1>1, InvHolds, PTL DEF Spec, LateResponsesAreRefused

\* No step changes a finished run or loses what was collected.
LEMMA FinalStep == IInv /\ [Next]_vars => FinishedRunIsKept
<1> SUFFICES ASSUME IInv, [Next]_vars PROVE FinishedRunIsKept
  OBVIOUS
<1> USE DEF IInv, TypeOK, FinishedRunIsKept, Finished, runs, work
<1>1. ASSUME NEW t \in Targets, Enqueue(t) PROVE FinishedRunIsKept
  BY <1>1 DEF Enqueue
<1>2. ASSUME NEW t \in Targets, DispatchAgain(t) PROVE FinishedRunIsKept
  BY <1>2 DEF DispatchAgain
<1>3. ASSUME NEW t \in Targets, Publish(t) PROVE FinishedRunIsKept
  BY <1>3 DEF Publish
<1>4. ASSUME RecoverStaleSyncs PROVE FinishedRunIsKept
  BY <1>4 DEF RecoverStaleSyncs, Stale, Outdate
<1>5. ASSUME NEW w \in Workers, NEW t \in Targets, Claim(w, t) PROVE FinishedRunIsKept
  BY <1>5 DEF Claim, Deliver
<1>6. ASSUME NEW w \in Workers, NEW t \in Targets, Join(w, t) PROVE FinishedRunIsKept
  BY <1>6 DEF Join, Deliver, BeginCall
<1>7. ASSUME NEW w \in Workers, NEW t \in Targets, Ignore(w, t) PROVE FinishedRunIsKept
  BY <1>7 DEF Ignore, Deliver
<1>8. ASSUME NEW w \in Workers, Reread(w) PROVE FinishedRunIsKept
  BY <1>8 DEF Reread, BeginCall
<1>9. ASSUME NEW w \in Workers, ProviderReturns(w) PROVE FinishedRunIsKept
  BY <1>9 DEF ProviderReturns
<1>10. ASSUME NEW w \in Workers, Save(w) PROVE FinishedRunIsKept
  BY <1>10 DEF Save, Writable
<1>11. ASSUME NEW w \in Workers, Conflict(w) PROVE FinishedRunIsKept
  BY <1>11 DEF Conflict, Leave
<1>12. ASSUME NEW w \in Workers, Complete(w) PROVE FinishedRunIsKept
  BY <1>12 DEF Complete, Leave, Outdate
<1>13. ASSUME NEW w \in Workers, Fail(w) PROVE FinishedRunIsKept
  BY <1>13 DEF Fail, Leave, Outdate
<1>14. ASSUME NEW w \in Workers, Crash(w) PROVE FinishedRunIsKept
  BY <1>14 DEF Crash, Fault, Leave, MayPublish
<1>15. ASSUME NEW w \in Workers, Stall(w) PROVE FinishedRunIsKept
  BY <1>15 DEF Stall, Fault
<1>16. ASSUME NEW w \in Workers, WriteFails(w) PROVE FinishedRunIsKept
  BY <1>16 DEF WriteFails, Fault
<1>17. ASSUME NEW t \in Targets, BrokerFault(t) PROVE FinishedRunIsKept
  BY <1>17 DEF BrokerFault, Fault
<1>18. ASSUME Tick PROVE FinishedRunIsKept
  BY <1>18 DEF Tick, OneLess
<1>19. ASSUME UNCHANGED vars PROVE FinishedRunIsKept
  BY <1>19 DEF vars
<1> QED
  BY <1>1, <1>2, <1>3, <1>4, <1>5, <1>6, <1>7, <1>8, <1>9, <1>10,
     <1>11, <1>12, <1>13, <1>14, <1>15, <1>16, <1>17, <1>18, <1>19
  DEF Next, ScheduleDueSync, RequestSync, Receive, Work

\* Finished runs are final.
THEOREM FinishedRunsAreFinal == Spec => FinishedIsFinal
<1>1. IInv /\ [Next]_vars => [FinishedRunIsKept]_vars
  BY FinalStep
<1> QED
  BY <1>1, InvHolds, PTL DEF Spec, FinishedIsFinal


-----------------------------------------------------------------------------
(* The forecasts.                                                          *)

Days == 0..MaxDays
RunNames == Alpha!Runs

RunRecords ==
  [status: {"none", "queued", "running", "succeeded", "failed"}, manual: BOOLEAN, day: Days,
   sent: BOOLEAN]

\* A request and an execution name a run that was made, and so does a message.
RunsAreMade ==
  /\ \A c \in Callers : caller[c] # 0 => caller[c] \in Alpha!Made
  /\ \A w \in Executors : forecasting[w] # 0 => forecasting[w] \in Alpha!Made
  /\ queue \subseteq Alpha!Made

\* The forecasts of a run are stored as it succeeds.
Backed == \A r \in RunNames : published[r] # Nobody <=> forecastRun[r].status = "succeeded"

\* A run is made when no other has yet to end.
OneIsOpen == \A r, s \in Alpha!Unfinished : r = s

\* The inductive invariant of the forecasts.
AlphaInv ==
  /\ forecastRun \in [RunNames -> RunRecords] /\ Alpha!TypeOK
  /\ RunsAreMade /\ Backed /\ OneIsOpen


USE ProgramAssumption

\* No run is made yet.
LEMMA AlphaStarts == Alpha!Init => AlphaInv
<1> SUFFICES ASSUME Alpha!Init PROVE AlphaInv
  OBVIOUS
<1> USE DEF Alpha!Init
<1>1. forecastRun \in [RunNames -> RunRecords] /\ Alpha!Made = {} /\ Alpha!Unfinished = {}
  BY DEF RunNames, Alpha!Runs, RunRecords, Days, Alpha!NoRun, Alpha!Made, Alpha!Unfinished
<1>2. Alpha!TypeOK
  BY <1>1 DEF Alpha!TypeOK, Alpha!Runs, RunNames, RunRecords, Days
<1>3. RunsAreMade /\ OneIsOpen
  BY <1>1 DEF RunsAreMade, OneIsOpen
<1>4. Backed
  BY DEF Backed, RunNames, Alpha!NoRun
<1> QED
  BY <1>1, <1>2, <1>3, <1>4 DEF AlphaInv

\* A run that is written keeps its day, its kind and its place among those made.
LEMMA Written ==
  ASSUME AlphaInv, NEW r \in RunNames, NEW new \in RunRecords,
         forecastRun' = [forecastRun EXCEPT ![r] = new], new.status # "none"
  PROVE  /\ forecastRun' \in [RunNames -> RunRecords]
         /\ Alpha!Made' = Alpha!Made \cup {r}
         /\ Alpha!Unfinished' = IF new.status \in {"queued", "running"}
                                THEN Alpha!Unfinished \cup {r} ELSE Alpha!Unfinished \ {r}
         /\ \A q \in RunNames : forecastRun'[q] = IF q = r THEN new ELSE forecastRun[q]
  BY DEF AlphaInv, Alpha!Made, Alpha!Unfinished, RunNames, Alpha!Runs, RunRecords

\* What a status field is changed to.
LEMMA Marked ==
  ASSUME AlphaInv, NEW r \in RunNames,
         NEW to \in {"queued", "running", "succeeded", "failed"},
         forecastRun' = [forecastRun EXCEPT ![r].status = to]
  PROVE  \E new \in RunRecords :
           forecastRun' = [forecastRun EXCEPT ![r] = new] /\ new.status = to
<1> DEFINE new == [forecastRun[r] EXCEPT !.status = to]
<1>1. forecastRun[r] \in RunRecords /\ forecastRun \in [RunNames -> RunRecords]
  BY DEF AlphaInv
<1>2. new \in RunRecords /\ new.status = to
  BY <1>1 DEF RunRecords
<1>3. forecastRun' = [forecastRun EXCEPT ![r] = new]
  BY <1>1
<1> QED
  BY <1>2, <1>3

\* The parts of the type invariant.
LEMMA AlphaParts ==
  ASSUME forecastRun \in [RunNames -> RunRecords]
  PROVE  Alpha!TypeOK <=>
    /\ program \in {"active", "paused", "retired"} /\ dueOn \in 0..(MaxDays + 1) /\ today \in Days
    /\ published \in [RunNames -> Executors \cup {Nobody}]
    /\ outcome \in [RunNames -> Settlers \cup {Nobody}]
    /\ queue \subseteq RunNames
    /\ caller \in [Callers -> 0..MaxRuns] /\ forecasting \in [Executors -> 0..MaxRuns]
    /\ settler \in [Settlers -> SUBSET RunNames] /\ stranded \subseteq RunNames
  BY DEF Alpha!TypeOK, RunNames, Days, RunRecords

\* What is open was made, and what was made has a name.
LEMMA RunsMade == Alpha!Made \subseteq RunNames /\ Alpha!Unfinished \subseteq Alpha!Made
  BY DEF Alpha!Made, Alpha!Unfinished, RunNames

\* Steps that write no run make none and end none.
LEMMA RunsKept ==
  forecastRun' = forecastRun => Alpha!Made' = Alpha!Made /\ Alpha!Unfinished' = Alpha!Unfinished
  BY DEF Alpha!Made, Alpha!Unfinished

\* create_run
LEMMA Creation ==
  ASSUME AlphaInv, NEW c \in Callers, NEW manual \in BOOLEAN, Alpha!Create(c, manual)
  PROVE  AlphaInv'
<1> USE DEF Alpha!Create
<1>1. PICK r \in RunNames : /\ Alpha!Made = 1..(r - 1)
                            /\ forecastRun' = [forecastRun EXCEPT ![r] =
                                 [Alpha!NoRun EXCEPT !.status = "queued", !.manual = manual, !.day = today]]
                            /\ caller' = [caller EXCEPT ![c] = r]
  BY DEF RunNames
<1>2. PICK new : new = [Alpha!NoRun EXCEPT !.status = "queued", !.manual = manual, !.day = today]
  OBVIOUS
<1>3. forecastRun' = [forecastRun EXCEPT ![r] = new]
  BY <1>1, <1>2
<1>4. today \in Days
  BY DEF AlphaInv, Alpha!TypeOK, Days
<1>5. new \in RunRecords /\ new.status = "queued"
  BY <1>2, <1>4 DEF RunRecords, Alpha!NoRun, Days
<1>6. forecastRun' = [forecastRun EXCEPT ![r] = new] /\ new.status # "none"
  BY <1>3, <1>5
<1>7. /\ forecastRun' \in [RunNames -> RunRecords] /\ Alpha!Made' = Alpha!Made \cup {r}
      /\ Alpha!Unfinished' = {r}
      /\ \A q \in RunNames : forecastRun'[q] = IF q = r THEN new ELSE forecastRun[q]
  BY <1>5, <1>6, Written
<1>8. r \notin Alpha!Made /\ r # 0 /\ r \in 0..MaxRuns
  BY <1>1 DEF RunNames, Alpha!Runs
<1>9. published[r] = Nobody
  BY <1>8 DEF AlphaInv, Backed, Alpha!Made, RunNames
<1>10. Alpha!TypeOK'
  BY <1>1, <1>7, <1>8, AlphaParts DEF AlphaInv, Alpha!TypeOK, RunNames, Days, RunRecords
<1>11. RunsAreMade'
  BY <1>1, <1>7 DEF AlphaInv, RunsAreMade, Alpha!TypeOK
<1>12. Backed'
  BY <1>5, <1>7, <1>9 DEF AlphaInv, Backed
<1>13. OneIsOpen'
  BY <1>7 DEF OneIsOpen
<1> QED
  BY <1>7, <1>10, <1>11, <1>12, <1>13 DEF AlphaInv

\* A run that is marked other than succeeded while it is open, and then has the others open.
LEMMA Marking ==
  ASSUME AlphaInv, NEW r \in Alpha!Unfinished, NEW to \in {"running", "succeeded", "failed"},
         forecastRun' = [forecastRun EXCEPT ![r].status = to],
         \/ to # "succeeded" /\ published' = published
         \/ /\ to = "succeeded"
            /\ \E w \in Executors : published' = [published EXCEPT ![r] = w]
  PROVE  /\ forecastRun' \in [RunNames -> RunRecords] /\ Alpha!Made' = Alpha!Made
         /\ published' \in [RunNames -> Executors \cup {Nobody}]
         /\ Backed' /\ OneIsOpen'
<1>1. r \in RunNames /\ r \in Alpha!Made
  BY RunsMade
<1>2. to \in {"queued", "running", "succeeded", "failed"}
  OBVIOUS
<1>3. PICK new \in RunRecords : forecastRun' = [forecastRun EXCEPT ![r] = new] /\ new.status = to
  BY <1>1, <1>2, Marked
<1>4. new.status # "none"
  BY <1>3
<1>5. /\ forecastRun' \in [RunNames -> RunRecords] /\ Alpha!Made' = Alpha!Made \cup {r}
      /\ Alpha!Unfinished' = IF new.status \in {"queued", "running"}
                             THEN Alpha!Unfinished \cup {r} ELSE Alpha!Unfinished \ {r}
      /\ \A q \in RunNames : forecastRun'[q] = IF q = r THEN new ELSE forecastRun[q]
  BY <1>1, <1>3, <1>4, Written
<1>6. /\ forecastRun' \in [RunNames -> RunRecords] /\ Alpha!Made' = Alpha!Made
      /\ Alpha!Unfinished' \subseteq Alpha!Unfinished
      /\ \A q \in RunNames : forecastRun'[q] = IF q = r THEN new ELSE forecastRun[q]
  BY <1>1, <1>5
<1>7. published \in [RunNames -> Executors \cup {Nobody}]
  BY DEF AlphaInv, Alpha!TypeOK, RunNames
<1>8. forecastRun[r].status # "succeeded" /\ published[r] = Nobody
  BY <1>1 DEF AlphaInv, Backed, Alpha!Unfinished
<1>9. CASE to # "succeeded" /\ published' = published
  BY <1>3, <1>6, <1>7, <1>8, <1>9 DEF AlphaInv, Backed, OneIsOpen
<1>10. ASSUME to = "succeeded", NEW w \in Executors, published' = [published EXCEPT ![r] = w]
      PROVE  published' \in [RunNames -> Executors \cup {Nobody}] /\ Backed' /\ OneIsOpen'
  <2>1. published'[r] # Nobody /\ \A q \in RunNames : q # r => published'[q] = published[q]
    BY <1>1, <1>7, <1>10
  <2>2. Backed'
    BY <1>1, <1>3, <1>6, <1>10, <2>1 DEF AlphaInv, Backed
  <2> QED
    BY <1>6, <1>7, <1>10, <2>2 DEF AlphaInv, OneIsOpen
<1> QED
  BY <1>6, <1>9, <1>10

\* fail_run
LEMMA Failing ==
  ASSUME AlphaInv, NEW r, Alpha!Failed(r), published' = published
  PROVE  /\ forecastRun' \in [RunNames -> RunRecords] /\ Alpha!Made' = Alpha!Made
         /\ Backed' /\ OneIsOpen'
<1>1. CASE r \in Alpha!Unfinished
  BY <1>1, Marking DEF Alpha!Failed
<1>2. CASE r \notin Alpha!Unfinished
  BY <1>2, RunsKept DEF Alpha!Failed, AlphaInv, Backed, OneIsOpen
<1> QED
  BY <1>1, <1>2

\* What the steps that mark a run leave.
LEMMA AlphaTypes ==
  ASSUME AlphaInv, forecastRun' \in [RunNames -> RunRecords], Alpha!Made' = Alpha!Made,
         published' \in [RunNames -> Executors \cup {Nobody}], Backed', OneIsOpen',
         program' \in {"active", "paused", "retired"}, dueOn' \in 0..(MaxDays + 1), today' \in Days,
         outcome' \in [RunNames -> Settlers \cup {Nobody}],
         settler' \in [Settlers -> SUBSET RunNames], stranded' \subseteq RunNames,
         queue' \subseteq Alpha!Made,
         \/ caller' = caller
         \/ \E c \in Callers : caller' = [caller EXCEPT ![c] = 0],
         \/ forecasting' = forecasting
         \/ \E w \in Executors, r \in Alpha!Made \cup {0} :
              forecasting' = [forecasting EXCEPT ![w] = r]
  PROVE  AlphaInv'
<1>1. /\ caller \in [Callers -> 0..MaxRuns] /\ forecasting \in [Executors -> 0..MaxRuns]
      /\ Alpha!Made \subseteq RunNames /\ RunNames \subseteq 0..MaxRuns /\ 0 \in 0..MaxRuns
  BY RunsMade DEF AlphaInv, Alpha!TypeOK, RunNames, Alpha!Runs
<1>2. caller' \in [Callers -> 0..MaxRuns] /\ \A c \in Callers : caller'[c] \in {0, caller[c]}
  BY <1>1
<1>3. /\ forecasting' \in [Executors -> 0..MaxRuns]
      /\ \A w \in Executors : forecasting'[w] = forecasting[w] \/ forecasting'[w] \in Alpha!Made \cup {0}
  BY <1>1
<1>4. Alpha!TypeOK'
  BY <1>1, <1>2, <1>3, AlphaParts DEF Alpha!TypeOK, RunNames, Days, RunRecords
<1>5. RunsAreMade'
  BY <1>2, <1>3 DEF AlphaInv, RunsAreMade
<1> QED
  BY <1>4, <1>5 DEF AlphaInv

\* What the invariant says of each variable.
LEMMA AlphaBounds ==
  ASSUME AlphaInv
  PROVE  /\ forecastRun \in [RunNames -> RunRecords]
         /\ published \in [RunNames -> Executors \cup {Nobody}] /\ Backed /\ OneIsOpen
         /\ program \in {"active", "paused", "retired"} /\ dueOn \in 0..(MaxDays + 1) /\ today \in Days
         /\ outcome \in [RunNames -> Settlers \cup {Nobody}]
         /\ settler \in [Settlers -> SUBSET RunNames] /\ stranded \subseteq RunNames
         /\ queue \subseteq Alpha!Made /\ today + 1 \in 0..(MaxDays + 1)
         /\ \A c \in Callers : caller[c] # 0 => caller[c] \in Alpha!Made
         /\ \A w \in Executors : forecasting[w] # 0 => forecasting[w] \in Alpha!Made
  BY DEF AlphaInv, Alpha!TypeOK, RunNames, Days, RunsAreMade

\* Steps that write no run.
LEMMA RunsStand ==
  ASSUME AlphaInv, forecastRun' = forecastRun, published' = published,
         program' \in {"active", "paused", "retired"}, dueOn' \in 0..(MaxDays + 1), today' \in Days,
         outcome' \in [RunNames -> Settlers \cup {Nobody}],
         settler' \in [Settlers -> SUBSET RunNames], stranded' \subseteq RunNames,
         queue' \subseteq Alpha!Made,
         \/ caller' = caller
         \/ \E c \in Callers : caller' = [caller EXCEPT ![c] = 0],
         \/ forecasting' = forecasting
         \/ \E w \in Executors, r \in Alpha!Made \cup {0} :
              forecasting' = [forecasting EXCEPT ![w] = r]
  PROVE  AlphaInv'
<1>1. Alpha!Made' = Alpha!Made /\ Alpha!Unfinished' = Alpha!Unfinished
  BY RunsKept
<1>2. Backed' /\ OneIsOpen'
  BY <1>1, AlphaBounds DEF Backed, OneIsOpen
<1>3. /\ forecastRun' \in [RunNames -> RunRecords]
      /\ published' \in [RunNames -> Executors \cup {Nobody}]
  BY AlphaBounds
<1> QED
  BY <1>1, <1>2, <1>3, AlphaTypes

\* enqueue_alpha_forecast_run, which leaves the status alone.
LEMMA Sending == ASSUME AlphaInv, NEW c \in Callers, Alpha!Send(c) PROVE AlphaInv'
<1> USE DEF Alpha!Send
<1>1. PICK r : r = caller[c]
  OBVIOUS
<1>2. r \in Alpha!Made /\ r \in RunNames /\ forecastRun[r] \in RunRecords
  BY <1>1, AlphaBounds, RunsMade
<1>3. PICK new : new = [forecastRun[r] EXCEPT !.sent = TRUE]
  OBVIOUS
<1>4. new \in RunRecords /\ new.status = forecastRun[r].status
  BY <1>2, <1>3 DEF RunRecords
<1>5. forecastRun' = [forecastRun EXCEPT ![r] = new] /\ new.status # "none"
  BY <1>1, <1>2, <1>3, <1>4 DEF Alpha!Made
<1>6. /\ forecastRun' \in [RunNames -> RunRecords] /\ Alpha!Made' = Alpha!Made \cup {r}
      /\ Alpha!Unfinished' = IF new.status \in {"queued", "running"}
                             THEN Alpha!Unfinished \cup {r} ELSE Alpha!Unfinished \ {r}
      /\ \A q \in RunNames : forecastRun'[q] = IF q = r THEN new ELSE forecastRun[q]
  BY <1>2, <1>4, <1>5, Written
<1>7. Alpha!Made' = Alpha!Made /\ Alpha!Unfinished' = Alpha!Unfinished
  BY <1>2, <1>4, <1>6 DEF Alpha!Unfinished
<1>8. Backed' /\ OneIsOpen'
  BY <1>4, <1>6, <1>7, AlphaBounds DEF Backed, OneIsOpen
<1>9. queue' \subseteq Alpha!Made
  BY <1>1, <1>2, AlphaBounds
<1> QED
  BY <1>6, <1>7, <1>8, <1>9, AlphaTypes, AlphaBounds

\* Every step of the forecasts keeps their invariant.
LEMMA AlphaStep == AlphaInv /\ [Alpha!Next]_alphaVars => AlphaInv'
<1> SUFFICES ASSUME AlphaInv, [Alpha!Next]_alphaVars PROVE AlphaInv'
  OBVIOUS
<1> USE AlphaBounds
<1>1. CASE Alpha!NextDay
  <2>1. today' \in Days
    BY <1>1 DEF Alpha!NextDay, Days
  <2> QED
    BY <1>1, <2>1, RunsStand DEF Alpha!NextDay
<1>2. CASE Alpha!Transition
  <2>1. dueOn' \in 0..(MaxDays + 1) /\ program' \in {"active", "paused", "retired"}
    BY <1>2 DEF Alpha!Transition, Days
  <2> QED
    BY <1>2, <2>1, RunsStand DEF Alpha!Transition
<1>3. ASSUME NEW c \in Callers, Alpha!Request(c) \/ Alpha!Maintain(c) PROVE AlphaInv'
  BY <1>3, Creation DEF Alpha!Request, Alpha!Maintain
<1>4. ASSUME NEW c \in Callers, Alpha!Send(c) PROVE AlphaInv'
  BY <1>4, Sending
<1>5. ASSUME NEW c \in Callers, Alpha!Bind(c) \/ Alpha!CallerDies(c) PROVE AlphaInv'
  BY <1>5, RunsStand DEF Alpha!Bind, Alpha!CallerDies
<1>6. ASSUME NEW c \in Callers, Alpha!SendFails(c) PROVE AlphaInv'
  BY <1>6, Failing, AlphaTypes DEF Alpha!SendFails
<1>7. ASSUME NEW w \in Executors, Alpha!Execute(w) PROVE AlphaInv'
  <2>1. PICK r \in queue :
          /\ queue' = queue \ {r}
          /\ \/ /\ r \in Alpha!Unfinished
                /\ forecasting' = [forecasting EXCEPT ![w] = r]
                /\ forecastRun' = [forecastRun EXCEPT ![r].status = "running"]
             \/ forecasting' = forecasting /\ forecastRun' = forecastRun
    BY <1>7 DEF Alpha!Execute
  <2>2. CASE forecasting' = forecasting /\ forecastRun' = forecastRun
    BY <1>7, <2>1, <2>2, RunsStand DEF Alpha!Execute
  <2>3. CASE /\ r \in Alpha!Unfinished
             /\ forecasting' = [forecasting EXCEPT ![w] = r]
             /\ forecastRun' = [forecastRun EXCEPT ![r].status = "running"]
    <3>1. /\ forecastRun' \in [RunNames -> RunRecords] /\ Alpha!Made' = Alpha!Made
          /\ Backed' /\ OneIsOpen'
      BY <1>7, <2>3, Marking DEF Alpha!Execute
    <3> QED
      BY <1>7, <2>1, <2>3, <3>1, AlphaTypes DEF Alpha!Execute
  <2> QED
    BY <2>1, <2>2, <2>3
<1>8. ASSUME NEW w \in Executors, Alpha!Finish(w) PROVE AlphaInv'
  <2>1. CASE forecasting[w] \in Alpha!Unfinished
    <3>1. PICK r : r = forecasting[w]
      OBVIOUS
    <3>2. /\ forecastRun' = [forecastRun EXCEPT ![r].status = "succeeded"]
          /\ published' = [published EXCEPT ![r] = w] /\ dueOn' = today + 1
      BY <1>8, <2>1, <3>1 DEF Alpha!Finish
    <3>3. /\ forecastRun' \in [RunNames -> RunRecords] /\ Alpha!Made' = Alpha!Made
          /\ published' \in [RunNames -> Executors \cup {Nobody}] /\ Backed' /\ OneIsOpen'
      BY <2>1, <3>1, <3>2, Marking
    <3> QED
      BY <1>8, <3>2, <3>3, AlphaTypes DEF Alpha!Finish
  <2>2. CASE forecasting[w] \notin Alpha!Unfinished
    BY <1>8, <2>2, RunsStand DEF Alpha!Finish
  <2> QED
    BY <2>1, <2>2
<1>9. ASSUME NEW w \in Executors, Alpha!Fail(w) PROVE AlphaInv'
  BY <1>9, Failing, AlphaTypes DEF Alpha!Fail
<1>10. ASSUME NEW w \in Executors, Alpha!WorkerDies(w) \/ Alpha!Redeliver(w) PROVE AlphaInv'
  <2>1. queue' \subseteq Alpha!Made
    BY <1>10 DEF Alpha!WorkerDies, Alpha!Redeliver
  <2> QED
    BY <1>10, <2>1, RunsStand DEF Alpha!WorkerDies, Alpha!Redeliver
<1>11. ASSUME NEW r \in RunNames, Alpha!Lose(r) PROVE AlphaInv'
  <2>1. r \in Alpha!Made /\ queue' \subseteq Alpha!Made /\ stranded' \subseteq RunNames
    BY <1>11, RunsMade DEF Alpha!Lose
  <2>2. CASE forecastRun' = forecastRun
    BY <1>11, <2>1, <2>2, RunsStand DEF Alpha!Lose
  <2>3. CASE r \in Alpha!Unfinished /\ forecastRun' = [forecastRun EXCEPT ![r].status = "running"]
    <3>1. /\ forecastRun' \in [RunNames -> RunRecords] /\ Alpha!Made' = Alpha!Made
          /\ Backed' /\ OneIsOpen'
      BY <1>11, <2>3, Marking DEF Alpha!Lose
    <3> QED
      BY <1>11, <2>1, <3>1, AlphaTypes DEF Alpha!Lose
  <2> QED
    BY <1>11, <2>2, <2>3 DEF Alpha!Lose
<1>12. ASSUME NEW w \in Executors, Alpha!Abandon(w) PROVE AlphaInv'
  <2>1. stranded' \subseteq RunNames
    BY <1>12, RunsMade DEF Alpha!Abandon
  <2> QED
    BY <1>12, <2>1, RunsStand DEF Alpha!Abandon
<1>13. ASSUME NEW s \in Settlers, Alpha!Settle(s) PROVE AlphaInv'
  <2>1. settler' \in [Settlers -> SUBSET RunNames]
    BY <1>13 DEF Alpha!Settle, Alpha!Pending, RunNames
  <2> QED
    BY <1>13, <2>1, RunsStand DEF Alpha!Settle
<1>14. ASSUME NEW s \in Settlers, Alpha!Record(s) PROVE AlphaInv'
  <2>1. settler' \in [Settlers -> SUBSET RunNames] /\ outcome' \in [RunNames -> Settlers \cup {Nobody}]
    BY <1>14 DEF Alpha!Record
  <2> QED
    BY <1>14, <2>1, RunsStand DEF Alpha!Record
<1>15. ASSUME NEW s \in Settlers, Alpha!Miss(s) PROVE AlphaInv'
  BY <1>15, RunsStand DEF Alpha!Miss
<1>16. CASE UNCHANGED alphaVars
  BY <1>16, RunsStand DEF alphaVars
<1> QED
  BY <1>1, <1>2, <1>3, <1>4, <1>5, <1>6, <1>7, <1>8, <1>9, <1>10, <1>11, <1>12, <1>13, <1>14, <1>15,
     <1>16
  DEF Alpha!Next, RunNames

\* Two open runs would be the same run.
LEMMA AlphaBacked == AlphaInv => Alpha!PublishedIsSucceeded
<1> SUFFICES ASSUME AlphaInv PROVE Alpha!PublishedIsSucceeded
  OBVIOUS
<1>1. Cardinality(Alpha!Unfinished) \in {0, 1}
  <2>1. CASE Alpha!Unfinished = {}
    BY <2>1, FS_EmptySet
  <2>2. ASSUME NEW r \in Alpha!Unfinished PROVE Cardinality(Alpha!Unfinished) = 1
    <3>1. Alpha!Unfinished = {r}
      BY DEF AlphaInv, OneIsOpen
    <3> QED
      BY <3>1, FS_Singleton
  <2> QED
    BY <2>1, <2>2
<1>2. \A S : Alpha!Cardinality(S) = Cardinality(S)
  BY DEF Alpha!Cardinality, Cardinality
<1>3. Alpha!Cardinality(Alpha!Unfinished) <= 1
  BY <1>1, <1>2
<1> QED
  BY <1>3 DEF Alpha!PublishedIsSucceeded, AlphaInv, Backed, RunNames

\* What a step may not do to what was published or observed.
FactsKept ==
  \A r \in RunNames : /\ published[r] # Nobody => published'[r] = published[r]
                      /\ outcome[r] # Nobody => outcome'[r] = outcome[r]

\* Only a run that has yet to end is given forecasts, and it has none.
LEMMA FactStep == AlphaInv /\ [Alpha!Next]_alphaVars => FactsKept
<1> SUFFICES ASSUME AlphaInv, [Alpha!Next]_alphaVars PROVE FactsKept
  OBVIOUS
<1> USE AlphaBounds DEF FactsKept
<1>1. ASSUME NEW w \in Executors, Alpha!Finish(w) PROVE FactsKept
  <2>1. CASE forecasting[w] \in Alpha!Unfinished
    <3>1. forecasting[w] \in RunNames /\ forecastRun[forecasting[w]].status # "succeeded"
      BY <2>1, RunsMade DEF Alpha!Unfinished
    <3>2. published[forecasting[w]] = Nobody
      BY <3>1 DEF Backed
    <3> QED
      BY <1>1, <2>1, <3>2 DEF Alpha!Finish
  <2>2. CASE forecasting[w] \notin Alpha!Unfinished
    BY <1>1, <2>2 DEF Alpha!Finish
  <2> QED
    BY <2>1, <2>2
<1>2. ASSUME NEW s \in Settlers, Alpha!Record(s) PROVE FactsKept
  BY <1>2 DEF Alpha!Record
<1>3. CASE UNCHANGED <<published, outcome>>
  BY <1>3
<1>4. \/ \E w \in Executors : Alpha!Finish(w)
      \/ \E s \in Settlers : Alpha!Record(s)
      \/ UNCHANGED <<published, outcome>>
  BY DEF Alpha!Next, Alpha!NextDay, Alpha!Transition, Alpha!Request, Alpha!Maintain, Alpha!Create,
         Alpha!Send, Alpha!Bind, Alpha!SendFails, Alpha!CallerDies, Alpha!Execute, Alpha!Fail,
         Alpha!WorkerDies, Alpha!Redeliver, Alpha!Lose, Alpha!Abandon, Alpha!Settle, Alpha!Miss,
         alphaVars
<1> QED
  BY <1>1, <1>2, <1>3, <1>4

-----------------------------------------------------------------------------
(* The research programs.                                                  *)

Places ==
  {"idle", "claim", "start", "dispatch", "attach", "refresh", "orphan", "freeze", "enroll", "close"}

ResearchTypes ==
  /\ Research!TypeOK
  /\ attached \in [Cycles -> BOOLEAN] /\ passes \in [Cycles -> BOOLEAN]
  /\ recon \in [Reconcilers -> [at: Places, cycle: Cycles \cup {None}]]
  /\ exec \in [Executors -> Cycles \cup {None}]
  /\ \A p \in Reconcilers : recon[p].at # "idle" => recon[p].cycle \in Cycles

Starting(p) == recon[p].at \in {"start", "dispatch", "attach"}

\* What was not claimed has neither run nor job.
Untouched ==
  \A c \in Cycles : cycle[c] \in {"scheduled", "retired_unrun"} =>
    run[c] = "none" /\ job[c] = "none" /\ ~attached[c]

\* A cycle is dispatched by who claimed it and nobody else, whatever happens
\* to the cycle meanwhile, and its run is touched by nobody else.
OneStarts ==
  \A p \in Reconcilers : Starting(p) =>
    /\ cycle[recon[p].cycle] \in {"dispatching", "failed"} /\ ~attached[recon[p].cycle]
    /\ recon[p].at # "attach" => job[recon[p].cycle] = "none"
    /\ recon[p].at = "start" => run[recon[p].cycle] = "none"
    /\ recon[p].at = "dispatch" => run[recon[p].cycle] = "queued"
    /\ \A q \in Reconcilers : Starting(q) /\ recon[q].cycle = recon[p].cycle => q = p

\* What a worker executes has a job.
Executed == \A w \in Executors : exec[w] # None => job[exec[w]] # "none"

\* Who follows a run to its validation has seen it succeed and pass.
Following ==
  \A p \in Reconcilers :
    /\ recon[p].at \in {"refresh", "freeze", "enroll", "close"} => attached[recon[p].cycle]
    /\ recon[p].at \in {"freeze", "enroll", "close"} =>
         run[recon[p].cycle] = "succeeded" /\ passes[recon[p].cycle]
    /\ recon[p].at \in {"enroll", "close"} => recon[p].cycle \in mandate
    /\ recon[p].at = "close" => recon[p].cycle \in validation

\* Evidence is of runs that pass, and what the cycle says is so.
Evidence ==
  /\ \A c \in mandate : passes[c] /\ c \notin thin
  /\ \A c \in Cycles : cycle[c] = "research_only" => run[c] = "succeeded" /\ ~passes[c]
  /\ \A c \in Cycles : cycle[c] = "forward_enrolled" =>
       /\ c \in mandate /\ c \in validation /\ passes[c] /\ c \notin thin
       /\ attached[c] /\ run[c] = "succeeded"

\* The inductive invariant of the research programs.
ProgramInv == ResearchTypes /\ Untouched /\ OneStarts /\ Executed /\ Following /\ Evidence

\* Where the reconciliations are.
Doing == [at: Places, cycle: Cycles \cup {None}]

\* One of them goes on, or leaves its cycle.
Moved(p, at) ==
  /\ recon' \in [Reconcilers -> Doing]
  /\ recon'[p].at = at /\ (at # "idle" => recon'[p].cycle = recon[p].cycle)
  /\ \A q \in Reconcilers : q # p => recon'[q] = recon[q]

\* A step to another place.
LEMMA Moves ==
  ASSUME ResearchTypes, NEW p \in Reconcilers, NEW at \in Places, Research!At(p, at)
  PROVE  Moved(p, at)
<1>1. recon \in [Reconcilers -> Doing] /\ recon[p] \in Doing
  BY DEF ResearchTypes, Doing
<1>2. PICK new : new = [recon[p] EXCEPT !.at = at]
  OBVIOUS
<1>3. new \in Doing /\ new.at = at /\ new.cycle = recon[p].cycle
  BY <1>1, <1>2 DEF Doing
<1>4. recon' = [recon EXCEPT ![p] = new]
  BY <1>1, <1>2 DEF Research!At
<1> QED
  BY <1>1, <1>3, <1>4 DEF Moved

\* A step out of the cycle.
LEMMA Leaves ==
  ASSUME ResearchTypes, NEW p \in Reconcilers, Research!Done(p)
  PROVE  Moved(p, "idle")
<1>1. Research!Idle \in Doing /\ Research!Idle.at = "idle"
  BY DEF Research!Idle, Doing, Places
<1>2. recon \in [Reconcilers -> Doing] /\ recon' = [recon EXCEPT ![p] = Research!Idle]
  BY DEF ResearchTypes, Doing, Research!Done
<1> QED
  BY <1>1, <1>2 DEF Moved

\* Either keeps the types.
LEMMA Stays ==
  ASSUME ResearchTypes, NEW p \in Reconcilers, NEW at \in Places, Moved(p, at),
         at = "idle" \/ recon[p].at # "idle"
  PROVE  /\ recon' \in [Reconcilers -> [at: Places, cycle: Cycles \cup {None}]]
         /\ \A q \in Reconcilers : recon'[q].at # "idle" => recon'[q].cycle \in Cycles
  BY DEF ResearchTypes, Moved, Doing

\* Nothing is claimed yet.
LEMMA ResearchStarts == Research!Init => ProgramInv
<1> SUFFICES ASSUME Research!Init PROVE ProgramInv
  OBVIOUS
<1> USE DEF Research!Init
<1>1. \A p \in Reconcilers : recon[p] = Research!Idle /\ recon[p].at = "idle" /\ recon[p] \in Doing
  BY DEF Research!Idle, Doing, Places
<1>2. recon \in [Reconcilers -> Doing]
  BY <1>1
<1>3. ResearchTypes
  BY <1>1, <1>2 DEF ResearchTypes, Research!TypeOK, Research!Ended, Doing
<1>4. Untouched /\ Executed /\ Evidence
  BY DEF Untouched, Executed, Evidence
<1>5. OneStarts /\ Following
  BY <1>1 DEF OneStarts, Following, Starting
<1> QED
  BY <1>3, <1>4, <1>5 DEF ProgramInv

\* Every step of the research programs keeps the types.
LEMMA ResearchTypeStep == ProgramInv /\ [Research!Next]_researchVars => ResearchTypes'
<1> SUFFICES ASSUME ProgramInv, [Research!Next]_researchVars PROVE ResearchTypes'
  OBVIOUS
<1> USE DEF ProgramInv, ResearchTypes, Research!TypeOK, Research!Ended,
            Research!Closed, Research!Jobless, Research!reconVars
<1>0. \A at \in {"idle", "claim", "start", "dispatch", "attach", "refresh", "orphan", "freeze", "enroll",
                "close"} : at \in Places
  BY DEF Places
<1>1. ASSUME NEW c \in Cycles, Research!Due(c) PROVE ResearchTypes'
  BY <1>1 DEF Research!Due
<1>2. CASE Research!Retire
  BY <1>2 DEF Research!Retire
<1>3. ASSUME NEW w \in Executors, NEW c \in Cycles, Research!Execute(w, c) PROVE ResearchTypes'
  BY <1>3 DEF Research!Execute
<1>4. ASSUME NEW w \in Executors, Research!Finish(w) PROVE ResearchTypes'
  BY <1>4 DEF Research!Finish
<1>5. ASSUME NEW w \in Executors, Research!Expire(w) PROVE ResearchTypes'
  BY <1>5 DEF Research!Expire
<1>6. ASSUME NEW p \in Reconcilers, NEW c \in Cycles, Research!List(p, c) PROVE ResearchTypes'
  BY <1>0, <1>6 DEF Research!List
<1>7. ASSUME NEW p \in Reconcilers, Research!Claim(p) PROVE ResearchTypes'
  <2>1. recon[p].at # "idle" /\ recon[p].cycle \in Cycles
    BY <1>7 DEF Research!Claim
  <2>2. Moved(p, "start") \/ Moved(p, "idle")
    BY <1>0, <1>7, Moves, Leaves DEF Research!Claim
  <2>3. /\ recon' \in [Reconcilers -> [at: Places, cycle: Cycles \cup {None}]]
        /\ \A q \in Reconcilers : recon'[q].at # "idle" => recon'[q].cycle \in Cycles
    BY <1>0, <2>1, <2>2, Stays
  <2> QED
    BY <1>7, <2>1, <2>3 DEF Research!Claim
<1>8. ASSUME NEW p \in Reconcilers, Research!Start(p) PROVE ResearchTypes'
  <2>1. recon[p].at # "idle" /\ recon[p].cycle \in Cycles
    BY <1>8 DEF Research!Start
  <2>2. Moved(p, "dispatch") \/ Moved(p, "attach")
    BY <1>0, <1>8, Moves, Leaves DEF Research!Start
  <2>3. /\ recon' \in [Reconcilers -> [at: Places, cycle: Cycles \cup {None}]]
        /\ \A q \in Reconcilers : recon'[q].at # "idle" => recon'[q].cycle \in Cycles
    BY <1>0, <2>1, <2>2, Stays
  <2> QED
    BY <1>8, <2>1, <2>3 DEF Research!Start
<1>9. ASSUME NEW p \in Reconcilers, Research!StartFails(p) PROVE ResearchTypes'
  <2>1. recon[p].at # "idle" /\ recon[p].cycle \in Cycles
    BY <1>9 DEF Research!StartFails
  <2>2. Moved(p, "idle")
    BY <1>0, <1>9, Moves, Leaves DEF Research!StartFails
  <2>3. /\ recon' \in [Reconcilers -> [at: Places, cycle: Cycles \cup {None}]]
        /\ \A q \in Reconcilers : recon'[q].at # "idle" => recon'[q].cycle \in Cycles
    BY <1>0, <2>1, <2>2, Stays
  <2> QED
    BY <1>9, <2>1, <2>3 DEF Research!StartFails
<1>10. ASSUME NEW p \in Reconcilers, Research!Attach(p) PROVE ResearchTypes'
  <2>1. recon[p].at # "idle" /\ recon[p].cycle \in Cycles
    BY <1>10 DEF Research!Attach
  <2>2. Moved(p, "refresh") \/ Moved(p, "idle")
    BY <1>0, <1>10, Moves, Leaves DEF Research!Attach
  <2>3. /\ recon' \in [Reconcilers -> [at: Places, cycle: Cycles \cup {None}]]
        /\ \A q \in Reconcilers : recon'[q].at # "idle" => recon'[q].cycle \in Cycles
    BY <1>0, <2>1, <2>2, Stays
  <2>4. cycle' \in [Cycles -> Research!Ended \cup
                                {"scheduled", "dispatching", "run_queued", "run_running"}]
    BY <1>10, <2>1 DEF Research!Attach
  <2>5. attached' \in [Cycles -> BOOLEAN]
    BY <1>10, <2>1 DEF Research!Attach
  <2> QED
    BY <1>10, <2>1, <2>3, <2>4, <2>5 DEF Research!Attach
<1>11. ASSUME NEW p \in Reconcilers, Research!Orphan(p) PROVE ResearchTypes'
  <2>1. recon[p].at # "idle" /\ recon[p].cycle \in Cycles
    BY <1>11 DEF Research!Orphan
  <2>2. Moved(p, "idle")
    BY <1>0, <1>11, Moves, Leaves DEF Research!Orphan
  <2>3. /\ recon' \in [Reconcilers -> [at: Places, cycle: Cycles \cup {None}]]
        /\ \A q \in Reconcilers : recon'[q].at # "idle" => recon'[q].cycle \in Cycles
    BY <1>0, <2>1, <2>2, Stays
  <2> QED
    BY <1>11, <2>1, <2>3 DEF Research!Orphan
<1>12. ASSUME NEW p \in Reconcilers, Research!Refresh(p) PROVE ResearchTypes'
  <2>1. recon[p].at # "idle" /\ recon[p].cycle \in Cycles
    BY <1>12 DEF Research!Refresh
  <2>2. Moved(p, "freeze") \/ Moved(p, "idle")
    BY <1>0, <1>12, Moves, Leaves DEF Research!Refresh
  <2>3. /\ recon' \in [Reconcilers -> [at: Places, cycle: Cycles \cup {None}]]
        /\ \A q \in Reconcilers : recon'[q].at # "idle" => recon'[q].cycle \in Cycles
    BY <1>0, <2>1, <2>2, Stays
  <2> QED
    BY <1>12, <2>1, <2>3 DEF Research!Refresh
<1>13. ASSUME NEW p \in Reconcilers, Research!Enroll(p) PROVE ResearchTypes'
  <2>1. recon[p].at # "idle" /\ recon[p].cycle \in Cycles
    BY <1>13 DEF Research!Enroll
  <2>2. Moved(p, "enroll") \/ Moved(p, "close") \/ Moved(p, "idle")
    BY <1>0, <1>13, Moves, Leaves DEF Research!Enroll
  <2>3. /\ recon' \in [Reconcilers -> [at: Places, cycle: Cycles \cup {None}]]
        /\ \A q \in Reconcilers : recon'[q].at # "idle" => recon'[q].cycle \in Cycles
    BY <1>0, <2>1, <2>2, Stays
  <2> QED
    BY <1>13, <2>1, <2>3 DEF Research!Enroll
<1>14. ASSUME NEW p \in Reconcilers, Research!Die(p) PROVE ResearchTypes'
  <2>2. Moved(p, "idle")
    BY <1>14, Leaves DEF Research!Die
  <2>3. /\ recon' \in [Reconcilers -> [at: Places, cycle: Cycles \cup {None}]]
        /\ \A q \in Reconcilers : recon'[q].at # "idle" => recon'[q].cycle \in Cycles
    BY <1>0, <2>2, Stays
  <2> QED
    BY <1>14, <2>3 DEF Research!Die
<1>15. CASE UNCHANGED researchVars
  BY <1>15 DEF researchVars
<1> QED
  BY <1>1, <1>2, <1>3, <1>4, <1>5, <1>6, <1>7, <1>8, <1>9, <1>10, <1>11, <1>12, <1>13, <1>14, <1>15
  DEF Research!Next, Research!Step

\* What is shown of every step, its types aside.
Ordered == Untouched /\ OneStarts /\ Executed /\ Following /\ Evidence

\* What executing a run, or losing its lease, may do to runs and jobs.
Running ==
  /\ UNCHANGED <<cycle, attached, passes, thin, mandate, validation, recon>>
  /\ \A c \in Cycles : /\ job[c] = "none" => job'[c] = "none" /\ run'[c] = run[c]
                       /\ run[c] = "succeeded" => run'[c] = "succeeded"
                       /\ job[c] # "none" => job'[c] # "none"
  /\ \A w \in Executors : exec'[w] # None => exec'[w] \in Cycles /\ job'[exec'[w]] # "none"

\* Executing, ending and losing a run do no more than that.
LEMMA RunSteps ==
  ASSUME ProgramInv, NEW w \in Executors,
         \/ \E c \in Cycles : Research!Execute(w, c)
         \/ Research!Finish(w) \/ Research!Expire(w)
  PROVE  Running
<1> USE DEF ProgramInv, ResearchTypes, Research!TypeOK, Executed, Research!Live, Research!Jobless, Running
<1>1. ASSUME NEW c \in Cycles, Research!Execute(w, c) PROVE Running
  BY <1>1 DEF Research!Execute
<1>2. CASE Research!Finish(w)
  BY <1>2 DEF Research!Finish
<1>3. CASE Research!Expire(w)
  BY <1>3 DEF Research!Expire
<1> QED
  BY <1>1, <1>2, <1>3

\* No reconciliation has a job before it attaches its run, so none is disturbed.
LEMMA RunsAreOrdered == ASSUME ProgramInv, Running PROVE Ordered'
<1> USE DEF ProgramInv, ResearchTypes, Research!TypeOK, Running
<1>1. Untouched'
  BY DEF Untouched
<1>2. OneStarts'
  BY DEF OneStarts, Starting
<1>3. Executed'
  BY DEF Executed
<1>4. Following'
  BY DEF Following
<1>5. Evidence'
  BY DEF Evidence
<1> QED
  BY <1>1, <1>2, <1>3, <1>4, <1>5 DEF Ordered

\* A cycle is begun or retired, and its evidence is not touched.
LEMMA SlotSteps ==
  ASSUME ProgramInv, (\E c \in Cycles : Research!Due(c)) \/ Research!Retire
  PROVE  Ordered'
<1> USE DEF ProgramInv, ResearchTypes, Research!TypeOK
<1>1. /\ UNCHANGED <<attached, run, job, passes, thin, mandate, validation, recon, exec>>
      /\ \A c \in Cycles : \/ cycle'[c] = cycle[c]
                           \/ cycle[c] = "scheduled" /\ cycle'[c] = "retired_unrun"
  BY DEF Research!Due, Research!Retire
<1>2. Untouched' /\ OneStarts'
  BY <1>1 DEF Untouched, OneStarts, Starting
<1>3. Executed' /\ Following' /\ Evidence'
  BY <1>1 DEF Executed, Following, Evidence
<1> QED
  BY <1>2, <1>3 DEF Ordered

\* Nobody else is starting the cycle of a process that is, or one that is
\* scheduled or attached: steps that touch only that cycle disturb no other
\* start.
LEMMA OthersStart ==
  ASSUME ProgramInv, NEW p \in Reconcilers, NEW at \in Places, Moved(p, at),
         NEW c \in Cycles, c = recon[p].cycle,
         Starting(p) \/ attached[c] \/ cycle[c] = "scheduled",
         \A d \in Cycles : d # c =>
           cycle'[d] = cycle[d] /\ attached'[d] = attached[d] /\ run'[d] = run[d] /\ job'[d] = job[d],
         at \in {"start", "dispatch", "attach"} =>
           /\ cycle'[c] \in {"dispatching", "failed"} /\ ~attached'[c]
           /\ at # "attach" => job'[c] = "none"
           /\ at = "start" => run'[c] = "none"
           /\ at = "dispatch" => run'[c] = "queued"
  PROVE  OneStarts'
<1>1. \A q \in Reconcilers : q # p /\ Starting(q) => recon[q].cycle # c /\ recon[q].cycle \in Cycles
  BY DEF ProgramInv, OneStarts, Starting, ResearchTypes
<1>2. \A q \in Reconcilers : q # p => recon'[q] = recon[q]
  BY DEF Moved
<1>3. recon'[p].at = at /\ (at # "idle" => recon'[p].cycle = c)
  BY DEF Moved
<1> SUFFICES ASSUME NEW q \in Reconcilers, Starting(q)'
             PROVE  /\ cycle'[recon'[q].cycle] \in {"dispatching", "failed"} /\ ~attached'[recon'[q].cycle]
                    /\ recon'[q].at # "attach" => job'[recon'[q].cycle] = "none"
                    /\ recon'[q].at = "start" => run'[recon'[q].cycle] = "none"
                    /\ recon'[q].at = "dispatch" => run'[recon'[q].cycle] = "queued"
                    /\ \A r \in Reconcilers : Starting(r)' /\ recon'[r].cycle = recon'[q].cycle => r = q
  BY DEF OneStarts
<1>4. CASE q = p
  <2>1. \A r \in Reconcilers : r # p /\ Starting(r)' => recon'[r].cycle # c
    BY <1>1, <1>2 DEF Starting
  <2> QED
    BY <1>3, <1>4, <2>1 DEF Starting
<1>5. CASE q # p
  <2>1. Starting(q) /\ recon'[q] = recon[q] /\ recon[q].cycle # c /\ recon[q].cycle \in Cycles
    BY <1>1, <1>2, <1>5 DEF Starting
  <2>2. \A r \in Reconcilers : r # p /\ Starting(r)' => Starting(r) /\ recon'[r] = recon[r]
    BY <1>2 DEF Starting
  <2>3. Starting(p)' => recon'[p].cycle = c
    BY <1>3 DEF Starting
  <2>4. /\ cycle[recon[q].cycle] \in {"dispatching", "failed"} /\ ~attached[recon[q].cycle]
        /\ recon[q].at # "attach" => job[recon[q].cycle] = "none"
        /\ recon[q].at = "start" => run[recon[q].cycle] = "none"
        /\ recon[q].at = "dispatch" => run[recon[q].cycle] = "queued"
        /\ \A r \in Reconcilers : Starting(r) /\ recon[r].cycle = recon[q].cycle => r = q
    BY <2>1 DEF ProgramInv, OneStarts
  <2> QED
    BY <2>1, <2>2, <2>3, <2>4
<1> QED
  BY <1>4, <1>5

\* list_reconcilable
LEMMA ListStep ==
  ASSUME ProgramInv, NEW p \in Reconcilers, NEW c \in Cycles, Research!List(p, c) PROVE Ordered'
<1> USE DEF ProgramInv, ResearchTypes, Research!TypeOK
<1>1. /\ UNCHANGED <<cycle, attached, run, job, passes, thin, mandate, validation, exec>>
      /\ \A q \in Reconcilers : q # p => recon'[q] = recon[q]
      /\ recon'[p].cycle = c /\ recon'[p].at \in {"claim", "refresh", "orphan"}
      /\ recon'[p].at = "refresh" => attached[c]
  BY DEF Research!List, Research!reconVars
<1>2. Untouched' /\ OneStarts'
  BY <1>1 DEF Untouched, OneStarts, Starting
<1>3. Executed' /\ Following' /\ Evidence'
  BY <1>1 DEF Executed, Following, Evidence
<1> QED
  BY <1>2, <1>3 DEF Ordered

\* claim_cycle: a cycle that is scheduled has no run, and nobody is starting one.
LEMMA ClaimStep == ASSUME ProgramInv, NEW p \in Reconcilers, Research!Claim(p) PROVE Ordered'
<1> USE DEF ProgramInv, ResearchTypes, Research!TypeOK
<1>1. PICK c \in Cycles : c = recon[p].cycle
  BY DEF Research!Claim
<1>2. /\ UNCHANGED <<attached, run, job, passes, thin, mandate, validation, exec>>
      /\ \/ cycle[c] = "scheduled" /\ cycle' = [cycle EXCEPT ![c] = "dispatching"] /\ Moved(p, "start")
         \/ cycle' = cycle /\ Moved(p, "idle")
  BY <1>1, Moves, Leaves DEF Research!Claim, Research!reconVars, Places
<1>3. Untouched'
  BY <1>2 DEF Untouched
<1>4. OneStarts'
  <2>1. CASE cycle[c] = "scheduled" /\ cycle' = [cycle EXCEPT ![c] = "dispatching"] /\ Moved(p, "start")
    BY <1>1, <1>2, <2>1, OthersStart DEF Untouched, Places
  <2>2. CASE cycle' = cycle /\ Moved(p, "idle")
    BY <1>2, <2>2 DEF OneStarts, Starting, Moved
  <2> QED
    BY <1>2, <2>1, <2>2
<1>5. Executed' /\ Following'
  BY <1>1, <1>2 DEF Executed, Following, Moved
<1>6. Evidence'
  BY <1>1, <1>2 DEF Evidence
<1> QED
  BY <1>3, <1>4, <1>5, <1>6 DEF Ordered

\* start_run, by the one process that may.
LEMMA StartStep == ASSUME ProgramInv, NEW p \in Reconcilers, Research!Start(p) PROVE Ordered'
<1> USE DEF ProgramInv, ResearchTypes, Research!TypeOK
<1>1. PICK c \in Cycles : c = recon[p].cycle
  BY DEF Research!Start
<1>2. /\ UNCHANGED <<cycle, attached, passes, thin, mandate, validation, exec>>
      /\ \/ /\ recon[p].at = "start" /\ Moved(p, "dispatch")
            /\ run' = [run EXCEPT ![c] = "queued"] /\ job' = job
         \/ /\ recon[p].at = "dispatch" /\ Moved(p, "attach")
            /\ job' = [job EXCEPT ![c] = "queued"] /\ run' = run
  BY <1>1, Moves DEF Research!Start, Research!reconVars, Places
<1>3. cycle[c] \in {"dispatching", "failed"} /\ ~attached[c] /\ run[c] \in {"none", "queued"}
  BY <1>1, <1>2 DEF OneStarts, Starting
<1>4. Untouched'
  BY <1>2, <1>3 DEF Untouched
<1>5. Starting(p) /\ (recon[p].at = "start" => job[c] = "none")
  BY <1>1, <1>2 DEF OneStarts, Starting
<1>6. OneStarts'
  <2>1. CASE recon[p].at = "start" /\ Moved(p, "dispatch") /\ run' = [run EXCEPT ![c] = "queued"] /\ job' = job
    BY <1>1, <1>2, <1>3, <1>5, <2>1, OthersStart DEF Places
  <2>2. CASE recon[p].at = "dispatch" /\ Moved(p, "attach") /\ job' = [job EXCEPT ![c] = "queued"] /\ run' = run
    BY <1>1, <1>2, <1>3, <1>5, <2>2, OthersStart DEF Places
  <2> QED
    BY <1>2, <2>1, <2>2
<1>7. Executed' /\ Following'
  BY <1>1, <1>2, <1>3 DEF Executed, Following, Moved
<1>8. Evidence'
  BY <1>2, <1>3 DEF Evidence
<1> QED
  BY <1>4, <1>6, <1>7, <1>8 DEF Ordered

\* A start that fails leaves a cycle that has failed.
LEMMA StartFailsStep == ASSUME ProgramInv, NEW p \in Reconcilers, Research!StartFails(p) PROVE Ordered'
<1> USE DEF ProgramInv, ResearchTypes, Research!TypeOK
<1>1. PICK c \in Cycles : c = recon[p].cycle
  BY DEF Research!StartFails
<1>2. /\ UNCHANGED <<attached, passes, thin, mandate, validation, exec>> /\ Moved(p, "idle") /\ Starting(p)
      /\ run' = [run EXCEPT ![c] = IF @ = "none" THEN @ ELSE "failed"]
      /\ job' = job \/ job' = [job EXCEPT ![c] = "queued"]
      /\ cycle' = cycle \/ cycle' = [cycle EXCEPT ![c] = "failed"]
  BY <1>1, Leaves DEF Research!StartFails, Research!Closed, Starting
<1>3. cycle[c] \in {"dispatching", "failed"} /\ ~attached[c] /\ run[c] \in {"none", "queued"}
  BY <1>1, <1>2 DEF OneStarts, Starting, Research!StartFails
<1>4. Untouched'
  BY <1>2, <1>3 DEF Untouched
<1>5. OneStarts'
  BY <1>1, <1>2, OthersStart DEF Places
<1>6. Executed' /\ Following'
  BY <1>1, <1>2, <1>3 DEF Executed, Following, Moved
<1>7. Evidence'
  BY <1>2, <1>3 DEF Evidence
<1> QED
  BY <1>4, <1>5, <1>6, <1>7 DEF Ordered

\* attach_run, after which nobody is starting this cycle.
LEMMA AttachStep == ASSUME ProgramInv, NEW p \in Reconcilers, Research!Attach(p) PROVE Ordered'
<1> USE DEF ProgramInv, ResearchTypes, Research!TypeOK
<1>1. PICK c \in Cycles : c = recon[p].cycle
  BY DEF Research!Attach
<1>2. /\ UNCHANGED <<run, job, passes, thin, mandate, validation, exec>> /\ Starting(p)
      /\ \/ /\ cycle' = [cycle EXCEPT ![c] = "run_queued"] /\ attached' = [attached EXCEPT ![c] = TRUE]
            /\ Moved(p, "refresh")
         \/ /\ cycle' = cycle \/ cycle' = [cycle EXCEPT ![c] = "failed"]
            /\ attached' = attached /\ Moved(p, "idle")
  BY <1>1, Moves, Leaves DEF Research!Attach, Research!Closed, Research!reconVars, Starting, Places
<1>3. cycle[c] \in {"dispatching", "failed"} /\ ~attached[c]
  BY <1>1, <1>2 DEF OneStarts
<1>4. Untouched'
  BY <1>2, <1>3 DEF Untouched
<1>5. OneStarts'
  <2>1. \A d \in Cycles : d # c => cycle'[d] = cycle[d] /\ attached'[d] = attached[d]
    BY <1>2
  <2>2. Moved(p, "refresh") \/ Moved(p, "idle")
    BY <1>2
  <2> QED
    BY <1>1, <1>2, <2>1, <2>2, OthersStart DEF Places
<1>6. Executed' /\ Following'
  BY <1>1, <1>2 DEF Executed, Following, Moved
<1>7. Evidence'
  BY <1>2, <1>3 DEF Evidence
<1> QED
  BY <1>4, <1>5, <1>6, <1>7 DEF Ordered

\* A cycle closed as an orphan has failed, which its starter accepts.
LEMMA OrphanStep == ASSUME ProgramInv, NEW p \in Reconcilers, Research!Orphan(p) PROVE Ordered'
<1> USE DEF ProgramInv, ResearchTypes, Research!TypeOK
<1>1. PICK c \in Cycles : c = recon[p].cycle
  BY DEF Research!Orphan
<1>2. /\ UNCHANGED <<attached, run, job, passes, thin, mandate, validation, exec>> /\ Moved(p, "idle")
      /\ cycle' = cycle \/ cycle' = [cycle EXCEPT ![c] = "failed"]
  BY <1>1, Leaves DEF Research!Orphan, Research!Closed, Research!reconVars
<1>3. Untouched'
  BY <1>2 DEF Untouched
<1>4. OneStarts'
  BY <1>1, <1>2 DEF OneStarts, Starting, Moved
<1>5. Executed' /\ Following' /\ Evidence'
  BY <1>1, <1>2 DEF Executed, Following, Moved, Evidence
<1> QED
  BY <1>3, <1>4, <1>5 DEF Ordered

\* refresh_run_status: a run that succeeded is left alone.
LEMMA RefreshStep == ASSUME ProgramInv, NEW p \in Reconcilers, Research!Refresh(p) PROVE Ordered'
<1> USE DEF ProgramInv, ResearchTypes, Research!TypeOK
<1>1. PICK c \in Cycles : c = recon[p].cycle
  BY DEF Research!Refresh
<1>2. attached[c] /\ ~Starting(p)
  BY <1>1 DEF Following, Starting, Research!Refresh
<1>3. /\ UNCHANGED <<attached, job, passes, thin, mandate, validation, exec>>
      /\ run' = run \/ (run[c] # "succeeded" /\ run' = [run EXCEPT ![c] = "failed"])
      /\ \/ cycle' = cycle
         \/ cycle' = [cycle EXCEPT ![c] = "failed"] /\ cycle[c] \notin Research!Ended
         \/ /\ \E to \in {"run_queued", "run_running"} : cycle' = [cycle EXCEPT ![c] = to]
            /\ cycle[c] \notin Research!Ended
         \/ /\ cycle' = [cycle EXCEPT ![c] = "research_only"] /\ cycle[c] \notin Research!Ended
            /\ run[c] = "succeeded" /\ run' = run /\ ~passes[c]
      /\ \/ Moved(p, "idle")
         \/ Moved(p, "freeze") /\ run'[c] = "succeeded" /\ passes[c]
  <2>1. run' = run \/ (run[c] # "succeeded" /\ run' = [run EXCEPT ![c] = "failed"])
    <3>1. CASE Research!Live(c) /\ job[c] = "failed"
      BY <1>1, <3>1 DEF Research!Refresh, Research!Live
    <3>2. CASE ~(Research!Live(c) /\ job[c] = "failed")
      BY <1>1, <3>2 DEF Research!Refresh
    <3> QED
      BY <3>1, <3>2
  <2>2. run'[c] = "succeeded" => run' = run
    BY <2>1
  <2>3. UNCHANGED <<attached, job, passes, thin, mandate, validation, exec>>
    BY DEF Research!Refresh, Research!reconVars
  <2>4. \/ Moved(p, "idle")
        \/ Moved(p, "freeze") /\ run'[c] = "succeeded" /\ passes[c]
    BY <1>1, Moves, Leaves DEF Research!Refresh, Places
  <2>5. \/ cycle' = cycle
        \/ cycle' = [cycle EXCEPT ![c] = "failed"] /\ cycle[c] \notin Research!Ended
        \/ /\ \E to \in {"run_queued", "run_running"} : cycle' = [cycle EXCEPT ![c] = to]
           /\ cycle[c] \notin Research!Ended
        \/ /\ cycle' = [cycle EXCEPT ![c] = "research_only"] /\ cycle[c] \notin Research!Ended
           /\ run'[c] = "succeeded" /\ ~passes[c]
    BY <1>1 DEF Research!Refresh, Research!Closed, Research!Ended
  <2> QED
    BY <2>1, <2>2, <2>3, <2>4, <2>5
<1>4. Untouched'
  BY <1>2, <1>3 DEF Untouched, Research!Ended
<1>5. OneStarts'
  <2>1. \A d \in Cycles : d # c => cycle'[d] = cycle[d] /\ run'[d] = run[d]
    BY <1>3
  <2>2. Moved(p, "idle") \/ Moved(p, "freeze")
    BY <1>3
  <2> QED
    BY <1>1, <1>2, <1>3, <2>1, <2>2, OthersStart DEF Places
<1>6. Executed'
  BY <1>3 DEF Executed
<1>7. Following'
  <2>1. \A d \in Cycles : run[d] = "succeeded" => run'[d] = "succeeded"
    BY <1>3
  <2> QED
    BY <1>1, <1>2, <1>3, <2>1 DEF Following, Moved
<1>8. Evidence'
  <2>1. \A d \in Cycles : run[d] = "succeeded" => run'[d] = "succeeded"
    BY <1>3
  <2>2. \A d \in Cycles : cycle'[d] \in {"research_only", "forward_enrolled"} =>
          \/ cycle'[d] = cycle[d]
          \/ cycle'[d] = "research_only" /\ run'[d] = "succeeded" /\ ~passes[d]
    BY <1>3
  <2> QED
    BY <1>3, <2>1, <2>2 DEF Evidence
<1> QED
  BY <1>4, <1>5, <1>6, <1>7, <1>8 DEF Ordered

\* freeze_shadow_mandate, enroll_validation and complete_cycle, in this order.
LEMMA EnrollStep == ASSUME ProgramInv, NEW p \in Reconcilers, Research!Enroll(p) PROVE Ordered'
<1> USE DEF ProgramInv, ResearchTypes, Research!TypeOK
<1>1. PICK c \in Cycles : c = recon[p].cycle
  BY DEF Research!Enroll
<1>2. attached[c] /\ run[c] = "succeeded" /\ passes[c] /\ ~Starting(p)
  BY <1>1 DEF Following, Starting, Research!Enroll
<1>3. /\ UNCHANGED <<attached, run, job, passes, thin, exec>>
      /\ \/ mandate' = mandate /\ validation' = validation /\ cycle' = cycle /\ Moved(p, "idle")
         \/ /\ mandate' = mandate \cup {c} /\ validation' = validation /\ cycle' = cycle
            /\ c \notin thin /\ Moved(p, "enroll")
         \/ /\ validation' = validation \cup {c} /\ mandate' = mandate /\ cycle' = cycle
            /\ recon[p].at = "enroll" /\ Moved(p, "close")
         \/ /\ mandate' = mandate /\ validation' = validation /\ Moved(p, "idle")
            /\ c \in mandate /\ c \in validation
            /\ \/ cycle' = cycle
               \/ cycle[c] \notin Research!Ended /\ cycle' = [cycle EXCEPT ![c] = "forward_enrolled"]
  BY <1>1, Moves, Leaves DEF Research!Enroll, Research!reconVars, Research!Closed, Following, Places
<1>4. Untouched'
  BY <1>2, <1>3 DEF Untouched
<1>5. OneStarts'
  <2>1. \A d \in Cycles : d # c => cycle'[d] = cycle[d] /\ run'[d] = run[d]
    BY <1>3
  <2>2. Moved(p, "enroll") \/ Moved(p, "close") \/ Moved(p, "idle")
    BY <1>3
  <2> QED
    BY <1>1, <1>2, <1>3, <2>1, <2>2, OthersStart DEF Places
<1>6. Executed'
  BY <1>3 DEF Executed
<1>7. Following'
  BY <1>1, <1>2, <1>3 DEF Following, Moved
<1>8. Evidence'
  BY <1>2, <1>3 DEF Evidence
<1> QED
  BY <1>4, <1>5, <1>6, <1>7, <1>8 DEF Ordered

\* The cycle of a process that ends is left as it is.
LEMMA DieStep == ASSUME ProgramInv, NEW p \in Reconcilers, Research!Die(p) PROVE Ordered'
<1> USE DEF ProgramInv, ResearchTypes, Research!TypeOK
<1>1. /\ UNCHANGED <<cycle, attached, run, job, passes, thin, mandate, validation, exec>> /\ Moved(p, "idle")
  BY Leaves DEF Research!Die
<1>2. Untouched' /\ Executed' /\ Evidence'
  BY <1>1 DEF Untouched, Executed, Evidence
<1>3. OneStarts' /\ Following'
  BY <1>1 DEF OneStarts, Starting, Following, Moved
<1> QED
  BY <1>2, <1>3 DEF Ordered

\* Every step of the research programs keeps their invariant.
LEMMA ProgramStep == ProgramInv /\ [Research!Next]_researchVars => ProgramInv'
<1> SUFFICES ASSUME ProgramInv, [Research!Next]_researchVars PROVE ProgramInv'
  OBVIOUS
<1>1. ResearchTypes'
  BY ResearchTypeStep
<1>2. Ordered'
  <2>1. CASE UNCHANGED researchVars
    BY <2>1 DEF researchVars, ProgramInv, ResearchTypes, Ordered, Untouched, OneStarts, Starting,
                Executed, Following, Evidence
  <2>2. CASE Research!Next
    BY <2>2, SlotSteps, RunSteps, RunsAreOrdered, ListStep, ClaimStep, StartStep, StartFailsStep,
       AttachStep, OrphanStep, RefreshStep, EnrollStep, DieStep
    DEF Research!Next, Research!Step
  <2> QED
    BY <2>1, <2>2
<1> QED
  BY <1>1, <1>2 DEF ProgramInv, Ordered

\* What a cycle says is what its evidence shows.
LEMMA ProgramBacked == ProgramInv => Research!EnrolledIsBacked
  BY DEF ProgramInv, Untouched, Evidence, Research!EnrolledIsBacked, ResearchTypes, Research!TypeOK

-----------------------------------------------------------------------------
(* All of them.                                                            *)

\* A step of the component in focus is a step of each that has none.
LEMMA FocusStep ==
  [MCNext]_all => [Next]_vars /\ [Alpha!Next]_alphaVars /\ [Research!Next]_researchVars
<1> SUFFICES ASSUME [MCNext]_all
             PROVE  [Next]_vars /\ [Alpha!Next]_alphaVars /\ [Research!Next]_researchVars
  OBVIOUS
<1>1. CASE OfFactors(Next) \/ OfWorkers(Next)
  BY <1>1 DEF OfFactors, OfWorkers
<1>2. CASE OfAlpha(Alpha!Next)
  BY <1>2 DEF OfAlpha
<1>3. CASE OfResearch(Research!Next)
  BY <1>3 DEF OfResearch
<1>4. CASE OfAgent(Agent!Next)
  BY <1>4 DEF OfAgent
<1>5. CASE UNCHANGED all
  BY <1>5 DEF all
<1> QED
  BY <1>1, <1>2, <1>3, <1>4, <1>5 DEF MCNext

MCInv == IInv /\ AlphaInv /\ ProgramInv

\* The three invariants together.
LEMMA MCInvHolds == MCSpec => []MCInv
<1>1. MCInit => MCInv
  BY Initially, AlphaStarts, ResearchStarts DEF MCInit, MCInv
<1>2. MCInv /\ [MCNext]_all => MCInv'
  <2> SUFFICES ASSUME MCInv, [MCNext]_all PROVE MCInv'
    OBVIOUS
  <2>1. IInv'
    BY FocusStep, TypeStep, BudgetStep, OrderStep, BackingStep DEF MCInv, IInv
  <2>2. AlphaInv' /\ ProgramInv'
    BY FocusStep, AlphaStep, ProgramStep DEF MCInv
  <2> QED
    BY <2>1, <2>2 DEF MCInv
<1> QED
  BY <1>1, <1>2, PTL DEF MCSpec

\* Every variable of every program keeps its type.
THEOREM ProgramTypes == MCSpec => []TypesOK
<1>1. MCInv => TypesOK
  BY DEF MCInv, IInv, AlphaInv, ProgramInv, ResearchTypes, TypesOK
<1> QED
  BY <1>1, MCInvHolds, PTL

\* What is said to have succeeded has its result, for any number of workers,
\* requests, reconciliations, runs and faults.
THEOREM Results == MCSpec => []ResultsAreBacked
<1>1. MCInv => ResultsAreBacked
  BY AlphaBacked, ProgramBacked DEF MCInv, IInv, Backing, ResultsAreBacked
<1> QED
  BY <1>1, MCInvHolds, PTL

\* A cycle is dispatched by the one process that claimed it, and its run is
\* what that process made, whatever else happens to the cycle.
THEOREM DispatchIsOwned == MCSpec => []OneStarts
<1>1. MCInv => OneStarts
  BY DEF MCInv, ProgramInv
<1> QED
  BY <1>1, MCInvHolds, PTL

\* Finished collections, published forecasts and their outcomes stand.
THEOREM Facts == MCSpec => FactsStand
<1>1. MCInv /\ [MCNext]_all => [FinishedRunIsKept]_vars
  BY FocusStep, FinalStep DEF MCInv
<1>2. MCSpec => FinishedIsFinal
  BY <1>1, MCInvHolds, PTL DEF MCSpec, FinishedIsFinal
<1>3. MCInv /\ [MCNext]_all =>
        [\A r \in Alpha!Runs : /\ published[r] # Nobody => published'[r] = published[r]
                               /\ outcome[r] # Nobody => outcome'[r] = outcome[r]]_(Alpha!vars)
  BY FocusStep, FactStep DEF MCInv, FactsKept, RunNames
<1>4. MCSpec => Alpha!FactsStand
  BY <1>3, MCInvHolds, PTL DEF MCSpec, Alpha!FactsStand
<1> QED
  BY <1>2, <1>4 DEF FactsStand
=============================================================================
