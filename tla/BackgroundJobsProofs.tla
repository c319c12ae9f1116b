------------------------ MODULE BackgroundJobsProofs ------------------------
(***************************************************************************)
(* Theorems about the durable job envelope, for every set of jobs and of   *)
(* workers and every value of the bounds.                                  *)
(***************************************************************************)
EXTENDS BackgroundJobs, TLAPS

USE NullAssumption, BoundAssumption

\* Every step keeps every variable within its type: attempts and leases never
\* leave their ranges, and a row never names an unknown worker.
LEMMA TypeStep == TypeOK /\ [Next]_vars => TypeOK'
<1> SUFFICES ASSUME TypeOK, [Next]_vars PROVE TypeOK'
  OBVIOUS
<1> USE DEF TypeOK, Active, Decided, Finished, StatusEvents, Fault, Move, Leave, Deliver,
           MayPublish, columns, slots
<1>1. ASSUME NEW j \in Jobs, CreateJob(j) PROVE TypeOK'
  BY <1>1 DEF CreateJob
<1>2. ASSUME NEW j \in Jobs, RequestCancel(j) PROVE TypeOK'
  BY <1>2 DEF RequestCancel
<1>3. ASSUME NEW j \in Jobs, List(j) PROVE TypeOK'
  BY <1>3 DEF List
<1>4. ASSUME NEW j \in Jobs, Send(j) PROVE TypeOK'
  BY <1>4 DEF Send
<1>5. ASSUME NEW j \in Jobs, MarkDispatched(j) PROVE TypeOK'
  BY <1>5 DEF MarkDispatched
<1>6. ASSUME NEW j \in Jobs, PublisherFails(j) PROVE TypeOK'
  BY <1>6 DEF PublisherFails
<1>7. ASSUME NEW j \in Jobs, LoseMessage(j) PROVE TypeOK'
  BY <1>7 DEF LoseMessage
<1>8. ASSUME NEW w \in Workers, NEW j \in Jobs, ClaimGranted(w, j) PROVE TypeOK'
  BY <1>8 DEF ClaimGranted
<1>9. ASSUME NEW w \in Workers, NEW j \in Jobs, ClaimCancels(w, j) PROVE TypeOK'
  BY <1>9 DEF ClaimCancels
<1>10. ASSUME NEW w \in Workers, NEW j \in Jobs, ClaimRefused(w, j) PROVE TypeOK'
  BY <1>10 DEF ClaimRefused
<1>11. ASSUME NEW w \in Workers, HandlerEnds(w) PROVE TypeOK'
  BY <1>11 DEF HandlerEnds
<1>12. ASSUME NEW w \in Workers, Heartbeat(w) PROVE TypeOK'
  BY <1>12 DEF Heartbeat
<1>13. ASSUME NEW w \in Workers, CompleteJob(w) PROVE TypeOK'
  BY <1>13 DEF CompleteJob
<1>14. ASSUME NEW w \in Workers, RetryJob(w) PROVE TypeOK'
  BY <1>14 DEF RetryJob
<1>15. ASSUME NEW w \in Workers, FailJob(w) PROVE TypeOK'
  BY <1>15 DEF FailJob
<1>16. ASSUME NEW w \in Workers, LeaseLost(w) PROVE TypeOK'
  BY <1>16 DEF LeaseLost
<1>17. ASSUME NEW w \in Workers, Crash(w) PROVE TypeOK'
  BY <1>17 DEF Crash
<1>18. ASSUME NEW w \in Workers, Stall(w) PROVE TypeOK'
  BY <1>18 DEF Stall
<1>19. ASSUME NEW w \in Workers, CommitFails(w) PROVE TypeOK'
  BY <1>19 DEF CommitFails
<1>20. ASSUME NEW w \in Workers, Redeliver(w) PROVE TypeOK'
  BY <1>20 DEF Redeliver
<1>21. ASSUME RecoverExpiredJobs PROVE TypeOK'
  BY <1>21 DEF RecoverExpiredJobs
<1>22. ASSUME Tick PROVE TypeOK'
  BY <1>22 DEF Tick, OneLess
<1>23. ASSUME UNCHANGED vars PROVE TypeOK'
  BY <1>23 DEF vars, slots
<1> QED
  BY <1>1, <1>2, <1>3, <1>4, <1>5, <1>6, <1>7, <1>8, <1>9, <1>10, <1>11, <1>12,
     <1>13, <1>14, <1>15, <1>16, <1>17, <1>18, <1>19, <1>20, <1>21, <1>22, <1>23
  DEF Next, Claim, Settle

\* The type invariant of the job envelope.
THEOREM TypeCorrect == Spec => []TypeOK
<1>1. Init => TypeOK
  BY DEF Init, TypeOK, Active, StatusEvents
<1> QED
  BY <1>1, TypeStep, PTL DEF Spec

-----------------------------------------------------------------------------
\* A lease is held exactly while the job runs.
Held ==
  \A j \in Jobs : /\ status[j] = "running" <=> worker[j] # NoWorker
                  /\ status[j] # "running" => lease[j] = 0

\* What the properties need to be inductive: an owner's claim was the latest,
\* and rows that do not run have neither owner nor lease.
IInv == TypeOK /\ Held /\ OwnerIsLatestClaim /\ ChainAgreesWithRow

\* Every step preserves the invariant.  A claim that takes the job from
\* another worker also takes its name out of the row, so the old execution
\* no longer owns it.
LEMMA InvStep == IInv /\ [Next]_vars => IInv'
<1> SUFFICES ASSUME IInv, [Next]_vars
             PROVE Held' /\ OwnerIsLatestClaim' /\ ChainAgreesWithRow'
  BY TypeStep DEF IInv
<1> USE DEF IInv, TypeOK, Held, OwnerIsLatestClaim, ChainAgreesWithRow, StatusOf, Owns,
           Active, Decided, Finished, StatusEvents, Fault, Move, Leave, Deliver,
           MayPublish, columns, slots
<1>1. ASSUME NEW j \in Jobs, CreateJob(j) PROVE Held' /\ OwnerIsLatestClaim' /\ ChainAgreesWithRow'
  BY <1>1 DEF CreateJob
<1>2. ASSUME NEW j \in Jobs, RequestCancel(j) PROVE Held' /\ OwnerIsLatestClaim' /\ ChainAgreesWithRow'
  BY <1>2 DEF RequestCancel
<1>3. ASSUME NEW j \in Jobs, List(j) PROVE Held' /\ OwnerIsLatestClaim' /\ ChainAgreesWithRow'
  BY <1>3 DEF List
<1>4. ASSUME NEW j \in Jobs, Send(j) PROVE Held' /\ OwnerIsLatestClaim' /\ ChainAgreesWithRow'
  BY <1>4 DEF Send
<1>5. ASSUME NEW j \in Jobs, MarkDispatched(j) PROVE Held' /\ OwnerIsLatestClaim' /\ ChainAgreesWithRow'
  BY <1>5 DEF MarkDispatched
<1>6. ASSUME NEW j \in Jobs, PublisherFails(j) PROVE Held' /\ OwnerIsLatestClaim' /\ ChainAgreesWithRow'
  BY <1>6 DEF PublisherFails
<1>7. ASSUME NEW j \in Jobs, LoseMessage(j) PROVE Held' /\ OwnerIsLatestClaim' /\ ChainAgreesWithRow'
  BY <1>7 DEF LoseMessage
<1>8. ASSUME NEW w \in Workers, NEW j \in Jobs, ClaimGranted(w, j) PROVE Held' /\ OwnerIsLatestClaim' /\ ChainAgreesWithRow'
  BY <1>8 DEF ClaimGranted, Claimable, Expired
<1>9. ASSUME NEW w \in Workers, NEW j \in Jobs, ClaimCancels(w, j) PROVE Held' /\ OwnerIsLatestClaim' /\ ChainAgreesWithRow'
  BY <1>9 DEF ClaimCancels
<1>10. ASSUME NEW w \in Workers, NEW j \in Jobs, ClaimRefused(w, j) PROVE Held' /\ OwnerIsLatestClaim' /\ ChainAgreesWithRow'
  BY <1>10 DEF ClaimRefused
<1>11. ASSUME NEW w \in Workers, HandlerEnds(w) PROVE Held' /\ OwnerIsLatestClaim' /\ ChainAgreesWithRow'
  BY <1>11 DEF HandlerEnds
<1>12. ASSUME NEW w \in Workers, Heartbeat(w) PROVE Held' /\ OwnerIsLatestClaim' /\ ChainAgreesWithRow'
  BY <1>12 DEF Heartbeat
<1>13. ASSUME NEW w \in Workers, CompleteJob(w) PROVE Held' /\ OwnerIsLatestClaim' /\ ChainAgreesWithRow'
  BY <1>13 DEF CompleteJob
<1>14. ASSUME NEW w \in Workers, RetryJob(w) PROVE Held' /\ OwnerIsLatestClaim' /\ ChainAgreesWithRow'
  BY <1>14 DEF RetryJob
<1>15. ASSUME NEW w \in Workers, FailJob(w) PROVE Held' /\ OwnerIsLatestClaim' /\ ChainAgreesWithRow'
  BY <1>15 DEF FailJob
<1>16. ASSUME NEW w \in Workers, LeaseLost(w) PROVE Held' /\ OwnerIsLatestClaim' /\ ChainAgreesWithRow'
  BY <1>16 DEF LeaseLost
<1>17. ASSUME NEW w \in Workers, Crash(w) PROVE Held' /\ OwnerIsLatestClaim' /\ ChainAgreesWithRow'
  BY <1>17 DEF Crash
<1>18. ASSUME NEW w \in Workers, Stall(w) PROVE Held' /\ OwnerIsLatestClaim' /\ ChainAgreesWithRow'
  BY <1>18 DEF Stall
<1>19. ASSUME NEW w \in Workers, CommitFails(w) PROVE Held' /\ OwnerIsLatestClaim' /\ ChainAgreesWithRow'
  BY <1>19 DEF CommitFails
<1>20. ASSUME NEW w \in Workers, Redeliver(w) PROVE Held' /\ OwnerIsLatestClaim' /\ ChainAgreesWithRow'
  BY <1>20 DEF Redeliver
<1>21. ASSUME RecoverExpiredJobs PROVE Held' /\ OwnerIsLatestClaim' /\ ChainAgreesWithRow'
  BY <1>21 DEF RecoverExpiredJobs, Expired
<1>22. ASSUME Tick PROVE Held' /\ OwnerIsLatestClaim' /\ ChainAgreesWithRow'
  BY <1>22 DEF Tick, OneLess
<1>23. ASSUME UNCHANGED vars PROVE Held' /\ OwnerIsLatestClaim' /\ ChainAgreesWithRow'
  BY <1>23 DEF vars, slots
<1> QED
  BY <1>1, <1>2, <1>3, <1>4, <1>5, <1>6, <1>7, <1>8, <1>9, <1>10, <1>11, <1>12,
     <1>13, <1>14, <1>15, <1>16, <1>17, <1>18, <1>19, <1>20, <1>21, <1>22, <1>23
  DEF Next, Claim, Settle

LEMMA InvHolds == Spec => []IInv
<1>1. Init => IInv
  BY DEF Init, IInv, TypeOK, Held, OwnerIsLatestClaim, ChainAgreesWithRow, StatusOf,
         Active, StatusEvents
<1> QED
  BY <1>1, InvStep, PTL DEF Spec

\* The fence holds for every number of workers: an execution whose complete_job
\* or fail_job would be accepted made the latest claim of its job.
THEOREM Fence == Spec => []OwnerIsLatestClaim
<1>1. IInv => OwnerIsLatestClaim
  BY DEF IInv
<1> QED
  BY <1>1, InvHolds, PTL

\* The event chain always replays into the status column.
THEOREM ChainReplays == Spec => []ChainAgreesWithRow
<1>1. IInv => ChainAgreesWithRow
  BY DEF IInv
<1> QED
  BY <1>1, InvHolds, PTL

-----------------------------------------------------------------------------
\* No step writes a terminal row.  The clock does not either: Held gives a
\* terminal row no lease that could run down.
LEMMA FinalStep == IInv /\ [Next]_vars => RowIsFinal
<1> SUFFICES ASSUME IInv, [Next]_vars PROVE RowIsFinal
  OBVIOUS
<1> USE DEF IInv, TypeOK, Held, RowIsFinal, row, Owns, Active, Decided, Finished,
           Fault, Move, Deliver, columns
<1>1. ASSUME NEW j \in Jobs, CreateJob(j) PROVE RowIsFinal
  BY <1>1 DEF CreateJob
<1>2. ASSUME NEW j \in Jobs, RequestCancel(j) PROVE RowIsFinal
  BY <1>2 DEF RequestCancel
<1>3. ASSUME NEW j \in Jobs, List(j) PROVE RowIsFinal
  BY <1>3 DEF List
<1>4. ASSUME NEW j \in Jobs, Send(j) PROVE RowIsFinal
  BY <1>4 DEF Send
<1>5. ASSUME NEW j \in Jobs, MarkDispatched(j) PROVE RowIsFinal
  BY <1>5 DEF MarkDispatched
<1>6. ASSUME NEW j \in Jobs, PublisherFails(j) PROVE RowIsFinal
  BY <1>6 DEF PublisherFails
<1>7. ASSUME NEW j \in Jobs, LoseMessage(j) PROVE RowIsFinal
  BY <1>7 DEF LoseMessage
<1>8. ASSUME NEW w \in Workers, NEW j \in Jobs, ClaimGranted(w, j) PROVE RowIsFinal
  BY <1>8 DEF ClaimGranted, Claimable, Expired
<1>9. ASSUME NEW w \in Workers, NEW j \in Jobs, ClaimCancels(w, j) PROVE RowIsFinal
  BY <1>9 DEF ClaimCancels
<1>10. ASSUME NEW w \in Workers, NEW j \in Jobs, ClaimRefused(w, j) PROVE RowIsFinal
  BY <1>10 DEF ClaimRefused
<1>11. ASSUME NEW w \in Workers, HandlerEnds(w) PROVE RowIsFinal
  BY <1>11 DEF HandlerEnds
<1>12. ASSUME NEW w \in Workers, Heartbeat(w) PROVE RowIsFinal
  BY <1>12 DEF Heartbeat
<1>13. ASSUME NEW w \in Workers, CompleteJob(w) PROVE RowIsFinal
  BY <1>13 DEF CompleteJob
<1>14. ASSUME NEW w \in Workers, RetryJob(w) PROVE RowIsFinal
  BY <1>14 DEF RetryJob
<1>15. ASSUME NEW w \in Workers, FailJob(w) PROVE RowIsFinal
  BY <1>15 DEF FailJob
<1>16. ASSUME NEW w \in Workers, LeaseLost(w) PROVE RowIsFinal
  BY <1>16 DEF LeaseLost
<1>17. ASSUME NEW w \in Workers, Crash(w) PROVE RowIsFinal
  BY <1>17 DEF Crash
<1>18. ASSUME NEW w \in Workers, Stall(w) PROVE RowIsFinal
  BY <1>18 DEF Stall
<1>19. ASSUME NEW w \in Workers, CommitFails(w) PROVE RowIsFinal
  BY <1>19 DEF CommitFails
<1>20. ASSUME NEW w \in Workers, Redeliver(w) PROVE RowIsFinal
  BY <1>20 DEF Redeliver
<1>21. ASSUME RecoverExpiredJobs PROVE RowIsFinal
  BY <1>21 DEF RecoverExpiredJobs, Expired
<1>22. ASSUME Tick PROVE RowIsFinal
  BY <1>22 DEF Tick, OneLess
<1>23. ASSUME UNCHANGED vars PROVE RowIsFinal
  BY <1>23 DEF vars, slots
<1> QED
  BY <1>1, <1>2, <1>3, <1>4, <1>5, <1>6, <1>7, <1>8, <1>9, <1>10, <1>11, <1>12,
     <1>13, <1>14, <1>15, <1>16, <1>17, <1>18, <1>19, <1>20, <1>21, <1>22, <1>23
  DEF Next, Claim, Settle

\* Terminal rows are immutable.
THEOREM TerminalRowsAreFinal == Spec => DecidedIsFinal
<1>1. IInv /\ [Next]_vars => [RowIsFinal]_vars
  BY FinalStep
<1> QED
  BY <1>1, InvHolds, PTL DEF Spec, DecidedIsFinal

-----------------------------------------------------------------------------
\* Only CompleteJob enters Finished, and it checks ownership.
LEMMA CommitStep == IInv /\ [Next]_vars => LatestCommits
<1> SUFFICES ASSUME IInv, [Next]_vars PROVE LatestCommits
  OBVIOUS
<1> USE DEF IInv, TypeOK, OwnerIsLatestClaim, LatestCommits, Owns, Active, Decided,
           Finished, Fault, Move, Leave, Deliver, columns
<1>1. ASSUME NEW j \in Jobs, CreateJob(j) PROVE LatestCommits
  BY <1>1 DEF CreateJob
<1>2. ASSUME NEW j \in Jobs, RequestCancel(j) PROVE LatestCommits
  BY <1>2 DEF RequestCancel
<1>3. ASSUME NEW j \in Jobs, List(j) PROVE LatestCommits
  BY <1>3 DEF List
<1>4. ASSUME NEW j \in Jobs, Send(j) PROVE LatestCommits
  BY <1>4 DEF Send
<1>5. ASSUME NEW j \in Jobs, MarkDispatched(j) PROVE LatestCommits
  BY <1>5 DEF MarkDispatched
<1>6. ASSUME NEW j \in Jobs, PublisherFails(j) PROVE LatestCommits
  BY <1>6 DEF PublisherFails
<1>7. ASSUME NEW j \in Jobs, LoseMessage(j) PROVE LatestCommits
  BY <1>7 DEF LoseMessage
<1>8. ASSUME NEW w \in Workers, NEW j \in Jobs, ClaimGranted(w, j) PROVE LatestCommits
  BY <1>8 DEF ClaimGranted
<1>9. ASSUME NEW w \in Workers, NEW j \in Jobs, ClaimCancels(w, j) PROVE LatestCommits
  BY <1>9 DEF ClaimCancels
<1>10. ASSUME NEW w \in Workers, NEW j \in Jobs, ClaimRefused(w, j) PROVE LatestCommits
  BY <1>10 DEF ClaimRefused
<1>11. ASSUME NEW w \in Workers, HandlerEnds(w) PROVE LatestCommits
  BY <1>11 DEF HandlerEnds
<1>12. ASSUME NEW w \in Workers, Heartbeat(w) PROVE LatestCommits
  BY <1>12 DEF Heartbeat
<1>13. ASSUME NEW w \in Workers, CompleteJob(w) PROVE LatestCommits
  BY <1>13 DEF CompleteJob
<1>14. ASSUME NEW w \in Workers, RetryJob(w) PROVE LatestCommits
  BY <1>14 DEF RetryJob
<1>15. ASSUME NEW w \in Workers, FailJob(w) PROVE LatestCommits
  BY <1>15 DEF FailJob
<1>16. ASSUME NEW w \in Workers, LeaseLost(w) PROVE LatestCommits
  BY <1>16 DEF LeaseLost
<1>17. ASSUME NEW w \in Workers, Crash(w) PROVE LatestCommits
  BY <1>17 DEF Crash
<1>18. ASSUME NEW w \in Workers, Stall(w) PROVE LatestCommits
  BY <1>18 DEF Stall
<1>19. ASSUME NEW w \in Workers, CommitFails(w) PROVE LatestCommits
  BY <1>19 DEF CommitFails
<1>20. ASSUME NEW w \in Workers, Redeliver(w) PROVE LatestCommits
  BY <1>20 DEF Redeliver
<1>21. ASSUME RecoverExpiredJobs PROVE LatestCommits
  BY <1>21 DEF RecoverExpiredJobs, Expired
<1>22. ASSUME Tick PROVE LatestCommits
  BY <1>22 DEF Tick, OneLess
<1>23. ASSUME UNCHANGED vars PROVE LatestCommits
  BY <1>23 DEF vars, slots
<1> QED
  BY <1>1, <1>2, <1>3, <1>4, <1>5, <1>6, <1>7, <1>8, <1>9, <1>10, <1>11, <1>12,
     <1>13, <1>14, <1>15, <1>16, <1>17, <1>18, <1>19, <1>20, <1>21, <1>22, <1>23
  DEF Next, Claim, Settle

\* A result is only ever written by the execution of the latest claim.
THEOREM ResultsAreFenced == Spec => OnlyLatestClaimCommits
<1>1. IInv /\ [Next]_vars => [LatestCommits]_vars
  BY CommitStep
<1> QED
  BY <1>1, InvHolds, PTL DEF Spec, OnlyLatestClaimCommits

-----------------------------------------------------------------------------
\* The flag is never lowered, and a claim looks at it first.
LEMMA CancelStep == IInv /\ [Next]_vars => NoNewAttempt
<1> SUFFICES ASSUME IInv, [Next]_vars PROVE NoNewAttempt
  OBVIOUS
<1> USE DEF IInv, TypeOK, NoNewAttempt, Owns, Active, Decided, Finished, Fault, Move,
           Deliver, columns
<1>1. ASSUME NEW j \in Jobs, CreateJob(j) PROVE NoNewAttempt
  BY <1>1 DEF CreateJob
<1>2. ASSUME NEW j \in Jobs, RequestCancel(j) PROVE NoNewAttempt
  BY <1>2 DEF RequestCancel
<1>3. ASSUME NEW j \in Jobs, List(j) PROVE NoNewAttempt
  BY <1>3 DEF List
<1>4. ASSUME NEW j \in Jobs, Send(j) PROVE NoNewAttempt
  BY <1>4 DEF Send
<1>5. ASSUME NEW j \in Jobs, MarkDispatched(j) PROVE NoNewAttempt
  BY <1>5 DEF MarkDispatched
<1>6. ASSUME NEW j \in Jobs, PublisherFails(j) PROVE NoNewAttempt
  BY <1>6 DEF PublisherFails
<1>7. ASSUME NEW j \in Jobs, LoseMessage(j) PROVE NoNewAttempt
  BY <1>7 DEF LoseMessage
<1>8. ASSUME NEW w \in Workers, NEW j \in Jobs, ClaimGranted(w, j) PROVE NoNewAttempt
  BY <1>8 DEF ClaimGranted, Claimable
<1>9. ASSUME NEW w \in Workers, NEW j \in Jobs, ClaimCancels(w, j) PROVE NoNewAttempt
  BY <1>9 DEF ClaimCancels
<1>10. ASSUME NEW w \in Workers, NEW j \in Jobs, ClaimRefused(w, j) PROVE NoNewAttempt
  BY <1>10 DEF ClaimRefused
<1>11. ASSUME NEW w \in Workers, HandlerEnds(w) PROVE NoNewAttempt
  BY <1>11 DEF HandlerEnds
<1>12. ASSUME NEW w \in Workers, Heartbeat(w) PROVE NoNewAttempt
  BY <1>12 DEF Heartbeat
<1>13. ASSUME NEW w \in Workers, CompleteJob(w) PROVE NoNewAttempt
  BY <1>13 DEF CompleteJob
<1>14. ASSUME NEW w \in Workers, RetryJob(w) PROVE NoNewAttempt
  BY <1>14 DEF RetryJob
<1>15. ASSUME NEW w \in Workers, FailJob(w) PROVE NoNewAttempt
  BY <1>15 DEF FailJob
<1>16. ASSUME NEW w \in Workers, LeaseLost(w) PROVE NoNewAttempt
  BY <1>16 DEF LeaseLost
<1>17. ASSUME NEW w \in Workers, Crash(w) PROVE NoNewAttempt
  BY <1>17 DEF Crash
<1>18. ASSUME NEW w \in Workers, Stall(w) PROVE NoNewAttempt
  BY <1>18 DEF Stall
<1>19. ASSUME NEW w \in Workers, CommitFails(w) PROVE NoNewAttempt
  BY <1>19 DEF CommitFails
<1>20. ASSUME NEW w \in Workers, Redeliver(w) PROVE NoNewAttempt
  BY <1>20 DEF Redeliver
<1>21. ASSUME RecoverExpiredJobs PROVE NoNewAttempt
  BY <1>21 DEF RecoverExpiredJobs, Expired
<1>22. ASSUME Tick PROVE NoNewAttempt
  BY <1>22 DEF Tick, OneLess
<1>23. ASSUME UNCHANGED vars PROVE NoNewAttempt
  BY <1>23 DEF vars, slots
<1> QED
  BY <1>1, <1>2, <1>3, <1>4, <1>5, <1>6, <1>7, <1>8, <1>9, <1>10, <1>11, <1>12,
     <1>13, <1>14, <1>15, <1>16, <1>17, <1>18, <1>19, <1>20, <1>21, <1>22, <1>23
  DEF Next, Claim, Settle

\* A cancelled job starts no further attempt.
THEOREM CancelledJobsStartNothing == Spec => CancelStopsAttempts
<1>1. IInv /\ [Next]_vars => [NoNewAttempt]_vars
  BY CancelStep
<1> QED
  BY <1>1, InvHolds, PTL DEF Spec, CancelStopsAttempts

-----------------------------------------------------------------------------
\* Each step of the envelope is a step of the promise or a stutter.
LEMMA PromiseStep == IInv /\ [Next]_vars => [Promise!Next]_(Promise!vars)
<1> SUFFICES ASSUME IInv, [Next]_vars PROVE [Promise!Next]_(Promise!vars)
  OBVIOUS
<1> DEFINE result == [j \in Jobs |-> IF status[j] \in Decided THEN status[j] ELSE "pending"]
<1> USE DEF IInv, TypeOK, Active, Decided, Finished
<1>1. CASE UNCHANGED <<status, worker>>
  BY <1>1 DEF Promise!vars
<1>2. ASSUME NEW j \in Jobs, CreateJob(j) PROVE UNCHANGED <<worker, result>>
  BY <1>2 DEF CreateJob, Move, Held
<1>3. ASSUME NEW w \in Workers, NEW j \in Jobs, ClaimGranted(w, j) PROVE Promise!Grant(j, w)
  <2>1. result[j] = "pending" /\ result' = result
    BY <1>3 DEF ClaimGranted, Claimable, Move
  <2> QED
    BY <1>3, <2>1 DEF ClaimGranted, Move, Promise!Grant
<1>4. ASSUME NEW w \in Workers, NEW j \in Jobs, ClaimCancels(w, j)
      PROVE Promise!Withdraw(j, "cancelled")
  BY <1>4 DEF ClaimCancels, Move, Promise!Withdraw
<1>5. ASSUME NEW w \in Workers, CompleteJob(w)
      PROVE \E s \in Finished : Promise!Decide(doing[w], w, s)
  <2>1. PICK s \in Finished : Move(doing[w], s, NoWorker, 0, "job_completed")
    BY <1>5 DEF CompleteJob
  <2>2. result[doing[w]] = "pending" /\ result' = [result EXCEPT ![doing[w]] = s]
    BY <1>5, <2>1 DEF CompleteJob, Owns, Move
  <2> QED
    BY <1>5, <2>1, <2>2 DEF CompleteJob, Owns, Move, Promise!Decide
<1>6. ASSUME NEW w \in Workers, RetryJob(w) PROVE Promise!Revoke({doing[w]})
  BY <1>6 DEF RetryJob, Owns, Move, Promise!Revoke
<1>7. ASSUME NEW w \in Workers, FailJob(w) PROVE Promise!Decide(doing[w], w, "failed")
  BY <1>7 DEF FailJob, Owns, Move, Promise!Decide
<1>8. ASSUME RecoverExpiredJobs PROVE Promise!Revoke({j \in Jobs : Expired(j)})
  BY <1>8 DEF RecoverExpiredJobs, Expired, Promise!Revoke
<1>9. CASE \E j \in Jobs : CreateJob(j)
  BY <1>2, <1>9 DEF Promise!vars
<1>10. CASE \E w \in Workers, j \in Jobs : ClaimGranted(w, j) \/ ClaimCancels(w, j)
  BY <1>3, <1>4, <1>10 DEF Promise!Next
<1>11. CASE \E w \in Workers : CompleteJob(w) \/ RetryJob(w) \/ FailJob(w)
  <2>1. PICK w \in Workers : CompleteJob(w) \/ RetryJob(w) \/ FailJob(w)
    BY <1>11
  <2>2. doing[w] \in Jobs
    BY <2>1 DEF CompleteJob, RetryJob, FailJob
  <2>3. CASE CompleteJob(w)
    BY <1>5, <2>2, <2>3 DEF Promise!Next
  <2>4. CASE RetryJob(w)
    <3>1. {doing[w]} \in SUBSET Jobs
      BY <2>2
    <3> QED
      BY <1>6, <2>4, <3>1 DEF Promise!Next
  <2>5. CASE FailJob(w)
    BY <1>7, <2>2, <2>5 DEF Promise!Next
  <2> QED
    BY <2>1, <2>3, <2>4, <2>5
<1>12. CASE RecoverExpiredJobs
  BY <1>8, <1>12 DEF Promise!Next
<1> QED
  BY <1>1, <1>9, <1>10, <1>11, <1>12
  DEF Next, Claim, Settle, vars, columns, RequestCancel, List, Send, MarkDispatched,
      PublisherFails, LoseMessage, ClaimRefused, HandlerEnds, Heartbeat, LeaseLost,
      Crash, Stall, CommitFails, Redeliver, Tick

\* The envelope, with all of Celery's failures, implements the leased outcome:
\* one holder at a time, decided by its holder or withdrawn, and decided once.
THEOREM EnvelopeKeepsPromise == Spec => KeepsPromise
<1>1. Init => Promise!Init
  BY DEF Init, Promise!Init, Decided
<1> QED
  BY <1>1, PromiseStep, InvHolds, PTL DEF Spec, KeepsPromise, Promise!Spec
=============================================================================
