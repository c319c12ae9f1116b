--------------------------- MODULE AgentRunsProofs ---------------------------
(***************************************************************************)
(* Theorems about an Agent Run, for every set of workers, every plan of    *)
(* steps, both deployments and every value of the bounds.                  *)
(***************************************************************************)
EXTENDS AgentRuns, TLAPS

USE NobodyAssumption, PlanAssumption, BoundAssumption

\* A finished step has evidence: NothingToReuse lets through only steps that
\* still have to be done.
StepsHaveEvidence == \A s \in Steps : step[s] \in Reusable => evidence[s] # 0

\* As long as no execution outlived its lease there is one execution at most,
\* and it is its worker that the run names, or the run has been cancelled
\* behind its back.
OneExecution ==
  stalls = 0 =>
    /\ \A w \in Workers : ~stalled[w]
    /\ \A w \in Workers : at[w] # "idle" =>
         status = "cancelled" \/ (status = "running" /\ owner = w /\ lease > 0)
    /\ \A v, w \in Workers : at[v] # "idle" /\ at[w] # "idle" => v = w

\* The step an execution is busy with has not been finished.
Busy == {"start", "tool", "commit", "failing", "cancelling"}

\* What an execution has passed is settled, and it cites exactly the evidence
\* of what was finished; from the build on that is also what the claims cite.
StepsAgree(w) ==
  \A s \in Steps : s < pos[w] =>
    /\ step[s] \in Reusable \cup {"failed"}
    /\ s \in Required \/ ~lacking[w] => step[s] \in Reusable

CitesItsSteps(w) ==
  \A s \in Steps :
    cited[w][s] = IF s < pos[w] /\ step[s] \in Reusable THEN evidence[s] ELSE 0

Answering(w) == at[w] \in {"finish", "handle"} /\ verdict[w] \in Answered

Agrees(w) ==
  /\ StepsAgree(w) /\ CitesItsSteps(w)
  /\ at[w] \in Busy => step[pos[w]] \notin Reusable
  /\ at[w] \in {"build", "confirm"} \/ Answering(w) => pos[w] = StepCount + 1
  /\ at[w] = "confirm" \/ Answering(w) => \A s \in Steps : claims[s] = cited[w][s]
  /\ Answering(w) /\ verdict[w] = "completed" => ~lacking[w]

ExecutionsAgree ==
  stalls = 0 => \A w \in Workers : at[w] # "idle" => Agrees(w)

\* Claims of an execution that was interrupted after the build rest on steps
\* that its successor reuses.
ClaimsAreBacked ==
  stalls = 0 => \A s \in Steps :
    claims[s] # 0 => step[s] \in Reusable /\ claims[s] = evidence[s]

\* The inductive invariant.
IInv ==
  /\ TypeOK /\ StepsHaveEvidence /\ OneExecution /\ ExecutionsAgree /\ ClaimsAreBacked
  /\ ResultIsBacked /\ AnsweredIsSettled

-----------------------------------------------------------------------------
(* Type correctness, in the groups that the actions change together.       *)

RowType ==
  /\ status \in Active \cup Terminal
  /\ owner \in Workers \cup {Nobody}
  /\ lease \in 0..LeaseTicks
  /\ cancel \in BOOLEAN
  /\ result \in [Steps -> 0..MaxEvidence]

StepType ==
  step \in [Steps -> {"absent", "queued", "running", "failed", "cancelled"} \cup Reusable]

FactsType ==
  /\ evidence \in [Steps -> 0..MaxEvidence]
  /\ written \in 0..MaxEvidence
  /\ claims \in [Steps -> 0..MaxEvidence]

InputType == \A s \in Steps : input[s] \in [Inputs[s] -> 0..MaxEvidence]

PlaceType ==
  /\ at \in [Workers -> Places]
  /\ pos \in [Workers -> 1..(StepCount + 1)]
  /\ verdict \in [Workers -> Terminal]
  /\ \A w \in Workers :
       at[w] \in {"read", "start", "tool", "commit", "failing", "cancelling"} =>
         pos[w] \in Steps

LocalType ==
  /\ cited \in [Workers -> [Steps -> 0..MaxEvidence]]
  /\ lacking \in [Workers -> BOOLEAN]
  /\ stalled \in [Workers -> BOOLEAN]

EnvType ==
  /\ embedded \in Deployments
  /\ messages \in 0..MaxMessages
  /\ faults \in 0..MaxFaults /\ stalls \in 0..MaxStalls

LEMMA TypeParts ==
  TypeOK <=> RowType /\ StepType /\ FactsType /\ InputType
             /\ PlaceType /\ LocalType /\ EnvType
BY DEF TypeOK, RowType, StepType, FactsType, InputType, PlaceType, LocalType, EnvType

-----------------------------------------------------------------------------
(* Who writes what.  The steps of the workflow write the run's steps, and  *)
(* only the last of them the row.                                          *)

LEMMA RowFrame ==
  ASSUME [Next]_vars
  PROVE  \/ UNCHANGED run
         \/ RequestCancel \/ RecoverExpired \/ Restart \/ Tick
         \/ \E w \in Workers :
              ClaimRun(w) \/ ClaimCancels(w) \/ ClaimNextRun(w) \/ RenewLease(w) \/ FinishRun(w)
<1> USE DEF run, vars
<1>1. ASSUME Dispatch \/ BrokerFault PROVE UNCHANGED run
  BY <1>1 DEF Dispatch, BrokerFault
<1>2. ASSUME NEW w \in Workers, ClaimRefused(w) PROVE UNCHANGED run
  BY <1>2 DEF ClaimRefused
<1>3. ASSUME NEW w \in Workers, Work(w), ~FinishRun(w) PROVE UNCHANGED run
  BY <1>3 DEF Work, CheckCancel, ReuseStep, ContractDiffers, NothingToReuse, StartStep,
     ToolReturns, ToolFails, ToolCancelled, CommitEvidence, FailStep, CancelStep,
     BuildResult, Confirm
<1>4. ASSUME NEW w \in Workers, Crash(w) \/ CommitFails(w) \/ WorkflowFails(w) \/ Abandon(w) \/ Stall(w)
      PROVE  UNCHANGED run
  BY <1>4 DEF Crash, CommitFails, WorkflowFails, Abandon, Stall
<1> QED
  BY <1>1, <1>2, <1>3, <1>4 DEF Next, Claim

LEMMA FactsFrame ==
  ASSUME [Next]_vars
  PROVE  \/ UNCHANGED facts
         \/ RecoverExpired \/ Restart
         \/ \E w \in Workers : StartStep(w) \/ CommitEvidence(w) \/ FailStep(w)
                               \/ CancelStep(w) \/ BuildResult(w)
<1> USE DEF facts, vars
<1>1. ASSUME RequestCancel \/ Dispatch \/ BrokerFault \/ Tick PROVE UNCHANGED facts
  BY <1>1 DEF RequestCancel, Dispatch, BrokerFault, Tick
<1>2. ASSUME NEW w \in Workers, Claim(w) \/ RenewLease(w) PROVE UNCHANGED facts
  BY <1>2 DEF Claim, ClaimRun, ClaimCancels, ClaimRefused, ClaimNextRun, Enter,
     RenewLease
<1>3. ASSUME NEW w \in Workers,
             CheckCancel(w) \/ ReuseStep(w) \/ ContractDiffers(w) \/ NothingToReuse(w)
             \/ ToolReturns(w) \/ ToolFails(w) \/ ToolCancelled(w) \/ Confirm(w) \/ FinishRun(w)
      PROVE  UNCHANGED facts
  BY <1>3 DEF CheckCancel, ReuseStep, ContractDiffers, NothingToReuse,
     ToolReturns, ToolFails, ToolCancelled, Confirm, FinishRun
<1>4. ASSUME NEW w \in Workers, Crash(w) \/ CommitFails(w) \/ WorkflowFails(w) \/ Abandon(w) \/ Stall(w)
      PROVE  UNCHANGED facts
  BY <1>4 DEF Crash, CommitFails, WorkflowFails, Abandon, Stall
<1> QED
  BY <1>1, <1>2, <1>3, <1>4 DEF Next, Work

\* The program counters move with every step of a worker; what it remembers
\* changes when it enters, cites, falls short, stalls or leaves.
LEMMA LocalFrame ==
  ASSUME [Next]_vars
  PROVE  \/ UNCHANGED <<cited, lacking, stalled>>
         \/ \E w \in Workers :
              ClaimRun(w) \/ ClaimNextRun(w) \/ ReuseStep(w) \/ CommitEvidence(w) \/ FailStep(w)
              \/ FinishRun(w) \/ Crash(w) \/ Stall(w)
<1> USE DEF locals, vars
<1>1. ASSUME RequestCancel \/ Dispatch \/ BrokerFault \/ Tick \/ RecoverExpired \/ Restart
      PROVE  UNCHANGED <<cited, lacking, stalled>>
  BY <1>1 DEF RequestCancel, Dispatch, BrokerFault, Tick, RecoverExpired, Restart
<1>2. ASSUME NEW w \in Workers,
             ClaimCancels(w) \/ ClaimRefused(w) \/ RenewLease(w) \/ CommitFails(w)
             \/ WorkflowFails(w) \/ Abandon(w)
      PROVE  UNCHANGED <<cited, lacking, stalled>>
  BY <1>2 DEF ClaimCancels, ClaimRefused, RenewLease, CommitFails, WorkflowFails, Abandon
<1>3. ASSUME NEW w \in Workers,
             CheckCancel(w) \/ ContractDiffers(w) \/ NothingToReuse(w) \/ StartStep(w)
             \/ ToolReturns(w) \/ ToolFails(w) \/ ToolCancelled(w)
             \/ CancelStep(w) \/ BuildResult(w) \/ Confirm(w)
      PROVE  UNCHANGED <<cited, lacking, stalled>>
  BY <1>3 DEF CheckCancel, ContractDiffers, NothingToReuse, StartStep,
     ToolReturns, ToolFails, ToolCancelled, CancelStep, BuildResult, Confirm
<1> QED
  BY <1>1, <1>2, <1>3 DEF Next, Claim, Work

LEMMA EnvFrame ==
  ASSUME [Next]_vars
  PROVE  \/ UNCHANGED env
         \/ Dispatch \/ Restart \/ BrokerFault
         \/ \E w \in Workers : Deliver(w) \/ Crash(w) \/ CommitFails(w)
                               \/ WorkflowFails(w) \/ Abandon(w) \/ Stall(w)
<1> USE DEF env, vars
<1>1. ASSUME RequestCancel \/ RecoverExpired \/ Tick PROVE UNCHANGED env
  BY <1>1 DEF RequestCancel, RecoverExpired, Tick
<1>2. ASSUME NEW w \in Workers, Claim(w), ~Deliver(w) PROVE UNCHANGED env
  BY <1>2 DEF Claim, ClaimRun, ClaimCancels, ClaimRefused, ClaimNextRun
<1>3. ASSUME NEW w \in Workers, Work(w) \/ RenewLease(w) PROVE UNCHANGED env
  BY <1>3 DEF RenewLease, Work, CheckCancel, ReuseStep, ContractDiffers, NothingToReuse,
     StartStep, ToolReturns, ToolFails, ToolCancelled, CommitEvidence, FailStep, CancelStep,
     BuildResult, Confirm, FinishRun
<1> QED
  BY <1>1, <1>2, <1>3 DEF Next

-----------------------------------------------------------------------------
(* Types, group by group.                                                  *)

LEMMA RowTypeStep == TypeOK /\ [Next]_vars => RowType'
<1> SUFFICES ASSUME TypeOK, [Next]_vars PROVE RowType'
  OBVIOUS
<1>0. RowType
  BY TypeParts
<1> USE DEF RowType, run, Active, Answered, Terminal
<1>1. ASSUME RequestCancel PROVE RowType'
  BY <1>0, <1>1 DEF RequestCancel
<1>2. ASSUME RecoverExpired PROVE RowType'
  BY <1>0, <1>2 DEF RecoverExpired
<1>3. ASSUME Restart PROVE RowType'
  <2>1. CASE status = "running"
    BY <1>0, <1>3, <2>1 DEF Restart
  <2>2. CASE status # "running"
    BY <1>0, <1>3, <2>2 DEF Restart
  <2> QED
    BY <2>1, <2>2
<1>4. ASSUME Tick PROVE RowType'
  BY <1>0, <1>4 DEF Tick
<1>5. ASSUME NEW w \in Workers, ClaimRun(w) \/ ClaimNextRun(w) PROVE RowType'
  BY <1>0, <1>5 DEF ClaimRun, ClaimNextRun, Enter
<1>6. ASSUME NEW w \in Workers, ClaimCancels(w) PROVE RowType'
  BY <1>0, <1>6 DEF ClaimCancels
<1>7. ASSUME NEW w \in Workers, RenewLease(w) PROVE RowType'
  BY <1>0, <1>7 DEF RenewLease
<1>8. ASSUME NEW w \in Workers, FinishRun(w) PROVE RowType'
  <2>1. CASE status \in Terminal
    BY <1>0, <1>8, <2>1 DEF FinishRun
  <2>2. CASE status \notin Terminal
    <3>1. cited[w] \in [Steps -> 0..MaxEvidence] /\ verdict[w] \in Terminal
      BY DEF TypeOK
    <3>2. NoCitation \in [Steps -> 0..MaxEvidence]
      BY DEF NoCitation
    <3> QED
      BY <1>0, <1>8, <2>2, <3>1, <3>2 DEF FinishRun
  <2> QED
    BY <2>1, <2>2
<1> QED
  BY <1>0, <1>1, <1>2, <1>3, <1>4, <1>5, <1>6, <1>7, <1>8, RowFrame

LEMMA FactsTypeStep == TypeOK /\ [Next]_vars => StepType' /\ FactsType' /\ InputType'
<1> SUFFICES ASSUME TypeOK, [Next]_vars PROVE StepType' /\ FactsType' /\ InputType'
  OBVIOUS
<1>0. StepType /\ FactsType /\ InputType
  BY TypeParts
<1> USE DEF StepType, FactsType, InputType, facts, Reusable
<1>1. ASSUME RecoverExpired PROVE StepType' /\ FactsType' /\ InputType'
  BY <1>0, <1>1 DEF RecoverExpired, Requeued
<1>2. ASSUME Restart PROVE StepType' /\ FactsType' /\ InputType'
  <2>1. StepType'
    BY <1>0, <1>2 DEF Restart
  <2> QED
    BY <1>0, <1>2, <2>1 DEF Restart
<1>3. ASSUME NEW w \in Workers, StartStep(w) PROVE StepType' /\ FactsType' /\ InputType'
  <2>1. pos[w] \in Steps
    BY <1>3 DEF StartStep, TypeOK
  <2>2. Named(w, pos[w]) \in [Inputs[pos[w]] -> 0..MaxEvidence]
    <3>1. Inputs[pos[w]] \subseteq Steps
      BY <2>1 DEF Steps
    <3> QED
      BY <2>1, <3>1 DEF Named, TypeOK
  <2>3. StepType'
    BY <1>0, <1>3, <2>1 DEF StartStep
  <2>4. InputType'
    BY <1>0, <1>3, <2>1, <2>2 DEF StartStep
  <2>5. FactsType'
    BY <1>0, <1>3, <2>1 DEF StartStep
  <2> QED
    BY <2>3, <2>4, <2>5
<1>4. ASSUME NEW w \in Workers, CommitEvidence(w) PROVE StepType' /\ FactsType' /\ InputType'
  <2>1. pos[w] \in Steps /\ written + 1 \in 0..MaxEvidence
    BY <1>4 DEF CommitEvidence, TypeOK
  <2>2. evidence' = [evidence EXCEPT ![pos[w]] = written + 1]
    BY <1>4 DEF CommitEvidence
  <2>3. evidence' \in [Steps -> 0..MaxEvidence]
    BY <1>0, <2>1, <2>2
  <2>4. StepType'
    BY <1>0, <1>4, <2>1 DEF CommitEvidence
  <2> QED
    BY <1>0, <1>4, <2>1, <2>3, <2>4 DEF CommitEvidence
<1>5. ASSUME NEW w \in Workers, FailStep(w) PROVE StepType' /\ FactsType' /\ InputType'
  BY <1>0, <1>5 DEF FailStep
<1>6. ASSUME NEW w \in Workers, CancelStep(w) PROVE StepType' /\ FactsType' /\ InputType'
  BY <1>0, <1>6 DEF CancelStep
<1>7. ASSUME NEW w \in Workers, BuildResult(w) PROVE StepType' /\ FactsType' /\ InputType'
  <2>1. cited[w] \in [Steps -> 0..MaxEvidence]
    BY DEF TypeOK
  <2> QED
    BY <1>0, <1>7, <2>1 DEF BuildResult
<1> QED
  BY <1>0, <1>1, <1>2, <1>3, <1>4, <1>5, <1>6, <1>7, FactsFrame

LEMMA LocalTypeStep == TypeOK /\ [Next]_vars => LocalType'
<1> SUFFICES ASSUME TypeOK, [Next]_vars PROVE LocalType'
  OBVIOUS
<1>0. LocalType
  BY TypeParts
<1> USE DEF LocalType
<1>1. ASSUME NEW w \in Workers, ClaimRun(w) \/ ClaimNextRun(w) PROVE LocalType'
  <2>1. NoCitation \in [Steps -> 0..MaxEvidence]
    BY DEF NoCitation
  <2> QED
    BY <1>0, <1>1, <2>1 DEF ClaimRun, ClaimNextRun, Enter
<1>2. ASSUME NEW w \in Workers, ReuseStep(w) PROVE LocalType'
  <2>1. pos[w] \in Steps /\ evidence[pos[w]] \in 0..MaxEvidence
    BY <1>2 DEF ReuseStep, TypeOK
  <2> QED
    BY <1>0, <1>2, <2>1 DEF ReuseStep
<1>3. ASSUME NEW w \in Workers, CommitEvidence(w) PROVE LocalType'
  <2>1. pos[w] \in Steps /\ written + 1 \in 0..MaxEvidence
    BY <1>3 DEF CommitEvidence, TypeOK
  <2>2. cited' = [cited EXCEPT ![w][pos[w]] = written + 1]
    BY <1>3 DEF CommitEvidence
  <2>3. cited' \in [Workers -> [Steps -> 0..MaxEvidence]]
    BY <1>0, <2>1, <2>2
  <2>4. lacking' \in [Workers -> BOOLEAN]
    BY <1>0, <1>3 DEF CommitEvidence
  <2> QED
    BY <1>0, <1>3, <2>3, <2>4 DEF CommitEvidence
<1>4. ASSUME NEW w \in Workers, FailStep(w) PROVE LocalType'
  BY <1>0, <1>4 DEF FailStep
<1>5. ASSUME NEW w \in Workers, FinishRun(w) PROVE LocalType'
  BY <1>0, <1>5 DEF FinishRun
<1>6. ASSUME NEW w \in Workers, Crash(w) \/ Stall(w) PROVE LocalType'
  BY <1>0, <1>6 DEF Crash, Stall
<1> QED
  BY <1>0, <1>1, <1>2, <1>3, <1>4, <1>5, <1>6, LocalFrame

\* Program counters stay within the workflow.
LEMMA PlaceTypeStep == TypeOK /\ [Next]_vars => PlaceType'
<1> SUFFICES ASSUME TypeOK, [Next]_vars PROVE PlaceType'
  OBVIOUS
<1>0. PlaceType
  BY TypeParts
<1> USE DEF PlaceType, Places, Answered, Terminal, Steps, locals
<1>1. ASSUME RequestCancel PROVE PlaceType'
  BY <1>0, <1>1 DEF RequestCancel
<1>2. ASSUME Dispatch PROVE PlaceType'
  BY <1>0, <1>2 DEF Dispatch
<1>3. ASSUME RecoverExpired PROVE PlaceType'
  BY <1>0, <1>3 DEF RecoverExpired, Requeued
<1>4. ASSUME Restart PROVE PlaceType'
  BY <1>0, <1>4 DEF Restart, Fault
<1>5. ASSUME BrokerFault PROVE PlaceType'
  BY <1>0, <1>5 DEF BrokerFault, Fault
<1>6. ASSUME Tick PROVE PlaceType'
  BY <1>0, <1>6 DEF Tick
<1>7. ASSUME NEW w \in Workers, ClaimRun(w) PROVE PlaceType'
  BY <1>0, <1>7 DEF ClaimRun, Enter
<1>8. ASSUME NEW w \in Workers, ClaimCancels(w) PROVE PlaceType'
  BY <1>0, <1>8 DEF ClaimCancels, Deliver
<1>9. ASSUME NEW w \in Workers, ClaimRefused(w) PROVE PlaceType'
  BY <1>0, <1>9 DEF ClaimRefused, Deliver, Claimable
<1>10. ASSUME NEW w \in Workers, ClaimNextRun(w) PROVE PlaceType'
  BY <1>0, <1>10 DEF ClaimNextRun, Enter
<1>11. ASSUME NEW w \in Workers, RenewLease(w) PROVE PlaceType'
  BY <1>0, <1>11 DEF RenewLease
<1>12. ASSUME NEW w \in Workers, CheckCancel(w) PROVE PlaceType'
  BY <1>0, <1>12 DEF CheckCancel, Conclude, Raise, Go
<1>13. ASSUME NEW w \in Workers, ReuseStep(w) PROVE PlaceType'
  <2>1. pos[w] \in 1..StepCount
    BY <1>13 DEF ReuseStep, TypeOK, Steps
  <2>2. pos' \in [Workers -> 1..(StepCount + 1)]
    BY <1>0, <1>13, <2>1 DEF ReuseStep, NextStep
  <2> QED
    BY <1>0, <1>13, <2>2 DEF ReuseStep, NextStep, Go
<1>14. ASSUME NEW w \in Workers, ContractDiffers(w) PROVE PlaceType'
  BY <1>0, <1>14 DEF ContractDiffers, Conclude, Raise, Go, Finished, Named
<1>15. ASSUME NEW w \in Workers, NothingToReuse(w) PROVE PlaceType'
  BY <1>0, <1>15 DEF NothingToReuse, Finished, Go
<1>16. ASSUME NEW w \in Workers, StartStep(w) PROVE PlaceType'
  BY <1>0, <1>16 DEF StartStep, Named, Go
<1>17. ASSUME NEW w \in Workers, ToolReturns(w) PROVE PlaceType'
  BY <1>0, <1>17 DEF ToolReturns, Go
<1>18. ASSUME NEW w \in Workers, ToolFails(w) PROVE PlaceType'
  BY <1>0, <1>18 DEF ToolFails, Go
<1>19. ASSUME NEW w \in Workers, ToolCancelled(w) PROVE PlaceType'
  BY <1>0, <1>19 DEF ToolCancelled, Go
<1>20. ASSUME NEW w \in Workers, CommitEvidence(w) PROVE PlaceType'
  <2>1. pos[w] \in 1..StepCount
    BY <1>20 DEF CommitEvidence, TypeOK, Steps
  <2>2. pos' \in [Workers -> 1..(StepCount + 1)]
    BY <1>0, <1>20, <2>1 DEF CommitEvidence, NextStep
  <2> QED
    BY <1>0, <1>20, <2>2 DEF CommitEvidence, NextStep, Go
<1>21. ASSUME NEW w \in Workers, FailStep(w) PROVE PlaceType'
  <2>1. pos[w] \in 1..StepCount
    BY <1>21 DEF FailStep, TypeOK, Steps
  <2>2. pos' \in [Workers -> 1..(StepCount + 1)]
    BY <1>0, <1>21, <2>1 DEF FailStep, NextStep, Conclude, Raise
  <2> QED
    BY <1>0, <1>21, <2>2 DEF FailStep, NextStep, Go, Conclude, Raise
<1>22. ASSUME NEW w \in Workers, CancelStep(w) PROVE PlaceType'
  BY <1>0, <1>22 DEF CancelStep, Conclude, Raise, Go
<1>23. ASSUME NEW w \in Workers, BuildResult(w) PROVE PlaceType'
  BY <1>0, <1>23 DEF BuildResult, Go
<1>24. ASSUME NEW w \in Workers, Confirm(w) PROVE PlaceType'
  BY <1>0, <1>24 DEF Confirm, Conclude, Raise, Go
<1>25. ASSUME NEW w \in Workers, FinishRun(w) PROVE PlaceType'
  BY <1>0, <1>25 DEF FinishRun, Go
<1>26. ASSUME NEW w \in Workers, Crash(w) PROVE PlaceType'
  BY <1>0, <1>26 DEF Crash, Fault, MayPublish, Go
<1>27. ASSUME NEW w \in Workers, CommitFails(w) PROVE PlaceType'
  BY <1>0, <1>27 DEF CommitFails, Fault, Go
<1>28. ASSUME NEW w \in Workers, Stall(w) PROVE PlaceType'
  BY <1>0, <1>28 DEF Stall, Fault
<1>29. ASSUME NEW w \in Workers, WorkflowFails(w) PROVE PlaceType'
  BY <1>0, <1>29 DEF WorkflowFails, Fault, Raise, Go
<1>30. ASSUME NEW w \in Workers, Abandon(w) PROVE PlaceType'
  BY <1>0, <1>30 DEF Abandon, Fault, Go
<1>31. ASSUME UNCHANGED vars PROVE PlaceType'
  BY <1>0, <1>31 DEF vars
<1> QED
  BY <1>1, <1>2, <1>3, <1>4, <1>5, <1>6, <1>7, <1>8, <1>9, <1>10, <1>11, <1>12,
     <1>13, <1>14, <1>15, <1>16, <1>17, <1>18, <1>19, <1>20, <1>21, <1>22, <1>23, <1>24,
     <1>25, <1>26, <1>27, <1>28, <1>29, <1>30, <1>31
  DEF Next, Claim, Work

LEMMA EnvTypeStep == TypeOK /\ [Next]_vars => EnvType'
<1> SUFFICES ASSUME TypeOK, [Next]_vars PROVE EnvType'
  OBVIOUS
<1>0. EnvType
  BY TypeParts
<1> USE DEF EnvType, env, Fault
<1>1. ASSUME Dispatch PROVE EnvType'
  BY <1>0, <1>1 DEF Dispatch
<1>2. ASSUME Restart PROVE EnvType'
  <2>1. UNCHANGED <<embedded, messages, stalls>> /\ faults < MaxFaults /\ faults' = faults + 1
    BY <1>2 DEF Restart
  <2> QED
    BY <1>0, <2>1
<1>3. ASSUME BrokerFault PROVE EnvType'
  BY <1>0, <1>3 DEF BrokerFault
<1>4. ASSUME NEW w \in Workers, Deliver(w) PROVE EnvType'
  BY <1>0, <1>4 DEF Deliver
<1>5. ASSUME NEW w \in Workers, Crash(w) PROVE EnvType'
  BY <1>0, <1>5 DEF Crash, MayPublish
<1>6. ASSUME NEW w \in Workers, CommitFails(w) \/ WorkflowFails(w) \/ Abandon(w) \/ Stall(w)
      PROVE  EnvType'
  BY <1>0, <1>6 DEF CommitFails, WorkflowFails, Abandon, Stall
<1> QED
  BY <1>0, <1>1, <1>2, <1>3, <1>4, <1>5, <1>6, EnvFrame


LEMMA TypeStep == TypeOK /\ [Next]_vars => TypeOK'
BY RowTypeStep, FactsTypeStep, LocalTypeStep, PlaceTypeStep, EnvTypeStep
   DEF TypeOK, RowType, StepType, FactsType, InputType, PlaceType, LocalType, EnvType

-----------------------------------------------------------------------------
\* A second execution is admitted when the lease is over or by nobody's name,
\* and then the first is gone.
LEMMA OneStep == IInv /\ [Next]_vars => OneExecution'
<1> SUFFICES ASSUME IInv, [Next]_vars PROVE OneExecution'
  OBVIOUS
<1> USE DEF IInv, TypeOK, OneExecution, Active, Answered, Terminal, Reusable, run,
   facts, locals, env
<1>1. ASSUME RequestCancel PROVE OneExecution'
  BY <1>1 DEF RequestCancel
<1>2. ASSUME Dispatch PROVE OneExecution'
  BY <1>2 DEF Dispatch
<1>3. ASSUME RecoverExpired PROVE OneExecution'
  BY <1>3 DEF RecoverExpired, Requeued
<1>4. ASSUME Restart PROVE OneExecution'
  BY <1>4 DEF Restart, Fault
<1>5. ASSUME BrokerFault PROVE OneExecution'
  BY <1>5 DEF BrokerFault, Fault
<1>6. ASSUME Tick PROVE OneExecution'
  BY <1>6 DEF Tick
<1>7. ASSUME NEW w \in Workers, ClaimRun(w) PROVE OneExecution'
  BY <1>7 DEF ClaimRun, Deliver, Claimable, Enter
<1>8. ASSUME NEW w \in Workers, ClaimCancels(w) PROVE OneExecution'
  BY <1>8 DEF ClaimCancels, Deliver
<1>9. ASSUME NEW w \in Workers, ClaimRefused(w) PROVE OneExecution'
  BY <1>9 DEF ClaimRefused, Deliver, Claimable
<1>10. ASSUME NEW w \in Workers, ClaimNextRun(w) PROVE OneExecution'
  BY <1>10 DEF ClaimNextRun, Enter
<1>11. ASSUME NEW w \in Workers, RenewLease(w) PROVE OneExecution'
  BY <1>11 DEF RenewLease
<1>12. ASSUME NEW w \in Workers, CheckCancel(w) PROVE OneExecution'
  BY <1>12 DEF CheckCancel, Conclude, Raise, Go
<1>13. ASSUME NEW w \in Workers, ReuseStep(w) PROVE OneExecution'
  BY <1>13 DEF ReuseStep, Finished, Named, NextStep, Go
<1>14. ASSUME NEW w \in Workers, ContractDiffers(w) PROVE OneExecution'
  BY <1>14 DEF ContractDiffers, Conclude, Raise, Go, Finished, Named
<1>15. ASSUME NEW w \in Workers, NothingToReuse(w) PROVE OneExecution'
  BY <1>15 DEF NothingToReuse, Finished, Go
<1>16. ASSUME NEW w \in Workers, StartStep(w) PROVE OneExecution'
  BY <1>16 DEF StartStep, Named, Go
<1>17. ASSUME NEW w \in Workers, ToolReturns(w) PROVE OneExecution'
  BY <1>17 DEF ToolReturns, Go
<1>18. ASSUME NEW w \in Workers, ToolFails(w) PROVE OneExecution'
  BY <1>18 DEF ToolFails, Go
<1>19. ASSUME NEW w \in Workers, ToolCancelled(w) PROVE OneExecution'
  BY <1>19 DEF ToolCancelled, Go
<1>20. ASSUME NEW w \in Workers, CommitEvidence(w) PROVE OneExecution'
  BY <1>20 DEF CommitEvidence, NextStep, Go
<1>21. ASSUME NEW w \in Workers, FailStep(w) PROVE OneExecution'
  BY <1>21 DEF FailStep, NextStep, Go, Conclude, Raise
<1>22. ASSUME NEW w \in Workers, CancelStep(w) PROVE OneExecution'
  BY <1>22 DEF CancelStep, Conclude, Raise, Go
<1>23. ASSUME NEW w \in Workers, BuildResult(w) PROVE OneExecution'
  BY <1>23 DEF BuildResult, Go
<1>24. ASSUME NEW w \in Workers, Confirm(w) PROVE OneExecution'
  BY <1>24 DEF Confirm, Conclude, Raise, Go
<1>25. ASSUME NEW w \in Workers, FinishRun(w) PROVE OneExecution'
  BY <1>25 DEF FinishRun, Go
<1>26. ASSUME NEW w \in Workers, Crash(w) PROVE OneExecution'
  BY <1>26 DEF Crash, Fault, MayPublish, Go
<1>27. ASSUME NEW w \in Workers, CommitFails(w) PROVE OneExecution'
  BY <1>27 DEF CommitFails, Fault, Go
<1>28. ASSUME NEW w \in Workers, Stall(w) PROVE OneExecution'
  BY <1>28 DEF Stall, Fault
<1>29. ASSUME NEW w \in Workers, WorkflowFails(w) PROVE OneExecution'
  BY <1>29 DEF WorkflowFails, Fault, Raise, Go
<1>30. ASSUME NEW w \in Workers, Abandon(w) PROVE OneExecution'
  BY <1>30 DEF Abandon, Fault, Go
<1>31. ASSUME UNCHANGED vars PROVE OneExecution'
  BY <1>31 DEF vars
<1> QED
  BY <1>1, <1>2, <1>3, <1>4, <1>5, <1>6, <1>7, <1>8, <1>9, <1>10, <1>11, <1>12,
     <1>13, <1>14, <1>15, <1>16, <1>17, <1>18, <1>19, <1>20, <1>21, <1>22, <1>23, <1>24,
     <1>25, <1>26, <1>27, <1>28, <1>29, <1>30, <1>31
  DEF Next, Claim, Work

-----------------------------------------------------------------------------
(* What an execution cites.                                                *)

\* Unless it is its own step, a step leaves an execution as it is, and the
\* facts under it.
Own(w) == Work(w) \/ ClaimRun(w) \/ ClaimNextRun(w) \/ CommitFails(w) \/ WorkflowFails(w)

Undisturbed(w) ==
  /\ at'[w] = at[w] /\ pos'[w] = pos[w] /\ cited'[w] = cited[w]
  /\ lacking'[w] = lacking[w] /\ verdict'[w] = verdict[w]
  /\ UNCHANGED facts

LEMMA Undisturbance ==
  ASSUME IInv, [Next]_vars, stalls' = 0,
         NEW v \in Workers, at'[v] # "idle", ~Own(v)
  PROVE  stalls = 0 /\ Undisturbed(v)
<1> USE DEF IInv, TypeOK, OneExecution, Undisturbed, run, facts, locals, env
<1>1. ASSUME RequestCancel PROVE stalls = 0 /\ Undisturbed(v)
  BY <1>1 DEF Own, RequestCancel
<1>2. ASSUME Dispatch PROVE stalls = 0 /\ Undisturbed(v)
  BY <1>2 DEF Own, Dispatch
<1>3. ASSUME RecoverExpired PROVE stalls = 0 /\ Undisturbed(v)
  BY <1>3 DEF Own, RecoverExpired, Requeued
<1>4. ASSUME Restart PROVE stalls = 0 /\ Undisturbed(v)
  BY <1>4 DEF Own, Restart, Fault
<1>5. ASSUME BrokerFault PROVE stalls = 0 /\ Undisturbed(v)
  BY <1>5 DEF Own, BrokerFault, Fault
<1>6. ASSUME Tick PROVE stalls = 0 /\ Undisturbed(v)
  BY <1>6 DEF Own, Tick
<1>7. ASSUME NEW w \in Workers, ClaimRun(w) PROVE stalls = 0 /\ Undisturbed(v)
  BY <1>7 DEF Own, ClaimRun, Deliver, Claimable, Enter
<1>8. ASSUME NEW w \in Workers, ClaimCancels(w) PROVE stalls = 0 /\ Undisturbed(v)
  BY <1>8 DEF Own, ClaimCancels, Deliver
<1>9. ASSUME NEW w \in Workers, ClaimRefused(w) PROVE stalls = 0 /\ Undisturbed(v)
  BY <1>9 DEF Own, ClaimRefused, Deliver, Claimable
<1>10. ASSUME NEW w \in Workers, ClaimNextRun(w) PROVE stalls = 0 /\ Undisturbed(v)
  BY <1>10 DEF Own, ClaimNextRun, Enter
<1>11. ASSUME NEW w \in Workers, RenewLease(w) PROVE stalls = 0 /\ Undisturbed(v)
  BY <1>11 DEF Own, RenewLease
<1>12. ASSUME NEW w \in Workers, Crash(w) PROVE stalls = 0 /\ Undisturbed(v)
  BY <1>12 DEF Own, Crash, Fault, MayPublish, Go
<1>13. ASSUME NEW w \in Workers, CommitFails(w) PROVE stalls = 0 /\ Undisturbed(v)
  BY <1>13 DEF Own, CommitFails, Fault, Go
<1>14. ASSUME NEW w \in Workers, Stall(w) PROVE stalls = 0 /\ Undisturbed(v)
  BY <1>14 DEF Own, Stall, Fault
<1>15. ASSUME NEW w \in Workers, Work(w) PROVE stalls = 0 /\ Undisturbed(v)
  <2>1. w # v
    BY <1>15 DEF Own
  <2>2. at[w] # "idle" /\ stalls' = stalls
    BY <1>15 DEF Work, CheckCancel, ReuseStep, ContractDiffers, NothingToReuse,
       StartStep, ToolReturns, ToolFails, ToolCancelled, CommitEvidence, FailStep,
       CancelStep, BuildResult, Confirm, FinishRun
  <2>3. \E place \in Places : at' = [at EXCEPT ![w] = place]
    BY <1>15 DEF Places, Steps, Work, CheckCancel, ReuseStep, ContractDiffers,
       NothingToReuse, StartStep, ToolReturns, ToolFails, ToolCancelled, CommitEvidence,
       FailStep, CancelStep, BuildResult, Confirm, FinishRun, NextStep, Conclude, Raise, Go
  <2>4. at[v] # "idle"
    BY <2>1, <2>3
  <2> QED
    BY <2>1, <2>2, <2>4
<1>16. ASSUME NEW w \in Workers, WorkflowFails(w) PROVE stalls = 0 /\ Undisturbed(v)
  BY <1>16 DEF Own, WorkflowFails, Fault, Raise, Go
<1>17. ASSUME NEW w \in Workers, Abandon(w) PROVE stalls = 0 /\ Undisturbed(v)
  BY <1>17 DEF Own, Abandon, Fault, Go
<1>18. ASSUME UNCHANGED vars PROVE stalls = 0 /\ Undisturbed(v)
  BY <1>18 DEF vars
<1> QED
  BY <1>1, <1>2, <1>3, <1>4, <1>5, <1>6, <1>7, <1>8, <1>9, <1>10, <1>11, <1>12, <1>13,
     <1>14, <1>15, <1>16, <1>17, <1>18 DEF Next, Claim

LEMMA Passed ==
  ASSUME NEW p \in Steps
  PROVE  \A s \in Steps : (s < p + 1) <=> (s < p \/ s = p)
BY DEF Steps

\* Each step of an execution keeps what it cites in agreement with the facts.
LEMMA AgreeStep == IInv /\ [Next]_vars => ExecutionsAgree'
<1> SUFFICES ASSUME IInv, [Next]_vars, stalls' = 0, NEW v \in Workers, at'[v] # "idle"
             PROVE  Agrees(v)'
  BY DEF ExecutionsAgree
<1>0. /\ at \in [Workers -> Places] /\ pos \in [Workers -> 1..(StepCount + 1)]
      /\ cited \in [Workers -> [Steps -> 0..MaxEvidence]]
      /\ lacking \in [Workers -> BOOLEAN] /\ verdict \in [Workers -> Terminal]
      /\ evidence \in [Steps -> 0..MaxEvidence] /\ claims \in [Steps -> 0..MaxEvidence]
      /\ written \in 0..MaxEvidence
      /\ DOMAIN step = Steps
      /\ at[v] \in {"read", "start", "tool", "commit", "failing", "cancelling"} => pos[v] \in Steps
  BY DEF IInv, TypeOK
<1>1. CASE ~Own(v)
  <2>1. stalls = 0 /\ Undisturbed(v)
    BY <1>1, Undisturbance
  <2>2. Agrees(v)
    BY <2>1 DEF IInv, ExecutionsAgree, Undisturbed
  <2> QED
    BY <2>1, <2>2 DEF Undisturbed, Agrees, StepsAgree, CitesItsSteps, Answering, facts
<1> USE DEF Agrees, StepsAgree, CitesItsSteps, Answering, Busy, run, facts, locals, env
<1>2. CASE ClaimRun(v) \/ ClaimNextRun(v)
  <2>1. at'[v] = "check" /\ pos'[v] = 1 /\ cited'[v] = NoCitation
    BY <1>0, <1>2 DEF ClaimRun, ClaimNextRun, Enter
  <2> QED
    BY <2>1 DEF NoCitation, Steps
<1>3. CASE Work(v) \/ CommitFails(v) \/ WorkflowFails(v)
  <2>0. stalls = 0 /\ Agrees(v)
    BY <1>3 DEF IInv, ExecutionsAgree, Work, CommitFails, WorkflowFails, CheckCancel, ReuseStep,
       ContractDiffers, NothingToReuse, StartStep, ToolReturns, ToolFails,
       ToolCancelled, CommitEvidence, FailStep, CancelStep, BuildResult, Confirm,
       FinishRun
  <2>1. CASE CheckCancel(v)
    BY <1>0, <2>0, <2>1 DEF CheckCancel, Conclude, Raise, Go, Steps, Answered
  <2>2. CASE ReuseStep(v)
    <3>1. /\ at'[v] = "check" /\ pos[v] \in Steps /\ pos'[v] = pos[v] + 1
          /\ cited'[v] = [cited[v] EXCEPT ![pos[v]] = evidence[pos[v]]]
          /\ step[pos[v]] \in Reusable /\ lacking'[v] = lacking[v]
          /\ UNCHANGED <<step, evidence>>
      BY <1>0, <2>2 DEF ReuseStep, Finished, NextStep, Go
    <3>2. StepsAgree(v)'
      <4>1. \A s \in Steps : s < pos'[v] <=> s < pos[v] \/ s = pos[v]
        BY <3>1, Passed
      <4>2. StepsAgree(v)
        BY <2>0
      <4> QED
        BY <3>1, <4>1, <4>2
    <3>3. CitesItsSteps(v)'
      <4>1. \A s \in Steps : cited'[v][s] = IF s = pos[v] THEN evidence[s] ELSE cited[v][s]
        BY <1>0, <3>1
      <4>2. \A s \in Steps : s < pos'[v] <=> s < pos[v] \/ s = pos[v]
        BY <3>1, Passed
      <4> QED
        BY <2>0, <3>1, <4>1, <4>2
    <3> QED
      BY <3>1, <3>2, <3>3
  <2>3. CASE ContractDiffers(v)
    BY <1>0, <2>0, <2>3 DEF ContractDiffers, Conclude, Raise, Go, Steps, Answered
  <2>4. CASE NothingToReuse(v)
    <3>1. step[pos[v]] \notin Reusable
      BY <1>0, <2>4 DEF NothingToReuse, Finished, IInv, StepsHaveEvidence
    <3> QED
      BY <1>0, <2>0, <3>1, <2>4 DEF NothingToReuse, Go
  <2>5. CASE StartStep(v)
    <3>1. /\ at'[v] = "tool" /\ pos[v] \in Steps /\ step[pos[v]] \notin Reusable
          /\ step' = [step EXCEPT ![pos[v]] = "running"]
          /\ evidence' = [evidence EXCEPT ![pos[v]] = 0]
          /\ UNCHANGED <<pos, cited, lacking, claims>>
      BY <1>0, <2>0, <2>5 DEF StartStep, Go
    <3>2. \A s \in Steps : s < pos[v] => step'[s] = step[s] /\ evidence'[s] = evidence[s]
      BY <1>0, <3>1 DEF Steps
    <3>3. CitesItsSteps(v)'
      BY <1>0, <2>0, <3>1, <3>2 DEF Steps, Reusable
    <3>4. StepsAgree(v)'
      BY <2>0, <3>1, <3>2
    <3> QED
      BY <1>0, <3>1, <3>3, <3>4 DEF Reusable
  <2>6. CASE ToolReturns(v)
    BY <1>0, <2>0, <2>6 DEF ToolReturns, Go, Steps, Answered
  <2>7. CASE ToolFails(v)
    BY <1>0, <2>0, <2>7 DEF ToolFails, Go, Steps, Answered
  <2>8. CASE ToolCancelled(v)
    BY <1>0, <2>0, <2>8 DEF ToolCancelled, Go, Steps, Answered
  <2>9. CASE CommitEvidence(v)
    <3>1. PICK quality \in Reusable :
            /\ step' = [step EXCEPT ![pos[v]] = quality]
            /\ lacking' = [lacking EXCEPT ![v] = (lacking[v] \/ quality = "partial")]
      BY <2>9 DEF CommitEvidence
    <3>2. lacking'[v] = FALSE => lacking[v] = FALSE
      BY <1>0, <3>1
    <3>3. /\ at'[v] = "check" /\ pos[v] \in Steps /\ pos'[v] = pos[v] + 1
          /\ cited'[v] = [cited[v] EXCEPT ![pos[v]] = written + 1]
          /\ evidence' = [evidence EXCEPT ![pos[v]] = written + 1]
      BY <1>0, <2>9 DEF CommitEvidence, NextStep, Go
    <3>4. \A s \in Steps : s < pos'[v] <=> s < pos[v] \/ s = pos[v]
      BY <3>3, Passed
    <3>5. StepsAgree(v)'
      BY <1>0, <2>0, <3>1, <3>2, <3>3, <3>4
    <3>6. CitesItsSteps(v)'
      <4>1. \A s \in Steps : cited'[v][s] = IF s = pos[v] THEN evidence'[s] ELSE cited[v][s]
        BY <1>0, <3>3
      <4>2. \A s \in Steps : s # pos[v] => step'[s] = step[s] /\ evidence'[s] = evidence[s]
        BY <1>0, <3>1, <3>3
      <4>3. step'[pos[v]] \in Reusable
        BY <1>0, <3>1, <3>3
      <4> QED
        BY <1>0, <2>0, <3>3, <3>4, <4>1, <4>2, <4>3
    <3> QED
      BY <3>3, <3>5, <3>6
  <2>10. CASE FailStep(v)
    <3>1. /\ pos[v] \in Steps /\ step[pos[v]] \notin Reusable
          /\ step' = [step EXCEPT ![pos[v]] = "failed"]
          /\ UNCHANGED <<cited, evidence, claims>>
      BY <1>0, <2>0, <2>10 DEF FailStep
    <3>2. CASE pos[v] \in Required /\ Raise(v, "failed") /\ UNCHANGED <<pos, lacking>>
      <4>1. at'[v] = "handle" /\ verdict'[v] = "failed"
        BY <1>0, <3>2 DEF Raise, Go
      <4> QED
        BY <1>0, <2>0, <3>1, <3>2, <4>1 DEF Steps, Reusable, Answered
    <3>3. CASE pos[v] \notin Required /\ lacking' = [lacking EXCEPT ![v] = TRUE] /\ NextStep(v)
      <4>1. at'[v] = "check" /\ pos'[v] = pos[v] + 1 /\ lacking'[v]
        BY <1>0, <3>3 DEF NextStep, Go
      <4>2. \A s \in Steps : s < pos'[v] <=> s < pos[v] \/ s = pos[v]
        BY <3>1, <4>1, Passed
      <4>3. StepsAgree(v)'
        BY <1>0, <2>0, <3>1, <3>3, <4>1, <4>2
      <4>4. CitesItsSteps(v)'
        BY <1>0, <2>0, <3>1, <4>1, <4>2 DEF Reusable
      <4> QED
        BY <4>1, <4>3, <4>4
    <3> QED
      BY <3>2, <3>3, <2>10 DEF FailStep
  <2>11. CASE CancelStep(v)
    BY <1>0, <2>0, <2>11 DEF CancelStep, Conclude, Raise, Go, Steps, Answered
  <2>12. CASE BuildResult(v)
    <3>1. /\ at'[v] = "confirm" /\ pos[v] = StepCount + 1
          /\ claims' = [s \in Steps |-> IF cited[v][s] # 0 THEN cited[v][s] ELSE claims[s]]
          /\ UNCHANGED <<step, evidence, pos, cited, lacking>>
      BY <1>0, <2>0, <2>12 DEF BuildResult, Go
    <3>2. \A s \in Steps : cited[v][s] = 0 => claims[s] = 0
      BY <1>0, <2>0, <3>1 DEF IInv, ClaimsAreBacked, StepsHaveEvidence, Steps
    <3> QED
      BY <1>0, <2>0, <3>1, <3>2 DEF Steps
  <2>13. CASE Confirm(v)
    BY <1>0, <2>0, <2>13 DEF Confirm, Conclude, Raise, Go, Steps, Answered
  <2>14. CASE FinishRun(v)
    BY <1>0, <2>0, <2>14 DEF FinishRun, Go, Steps, Answered
  <2>15. CASE CommitFails(v)
    BY <1>0, <2>0, <2>15 DEF CommitFails, Fault, Go, Steps, Answered
  <2>16. CASE WorkflowFails(v)
    BY <1>0, <2>0, <2>16 DEF WorkflowFails, Fault, Raise, Go, Steps, Answered
  <2> QED
    BY <1>3, <2>1, <2>2, <2>3, <2>4, <2>5, <2>6, <2>7, <2>8, <2>9, <2>10, <2>11, <2>12,
       <2>13, <2>14, <2>15, <2>16 DEF Work
<1> QED
  BY <1>1, <1>2, <1>3 DEF Own

\* A finished step keeps its evidence, for NothingToReuse lets through only the
\* others.
LEMMA EvidenceStep == IInv /\ [Next]_vars => StepsHaveEvidence'
<1> SUFFICES ASSUME IInv, [Next]_vars PROVE StepsHaveEvidence'
  OBVIOUS
<1>0. /\ DOMAIN step = Steps /\ evidence \in [Steps -> 0..MaxEvidence] /\ written \in 0..MaxEvidence
      /\ StepsHaveEvidence
  BY DEF IInv, TypeOK
<1> USE DEF StepsHaveEvidence, Reusable, facts
<1>1. ASSUME RecoverExpired \/ Restart PROVE StepsHaveEvidence'
  BY <1>0, <1>1 DEF RecoverExpired, Restart, Requeued
<1>2. ASSUME NEW w \in Workers, StartStep(w) PROVE StepsHaveEvidence'
  BY <1>0, <1>2 DEF StartStep
<1>3. ASSUME NEW w \in Workers, CommitEvidence(w) PROVE StepsHaveEvidence'
  <2>1. evidence' = [evidence EXCEPT ![pos[w]] = written + 1] /\ written + 1 # 0
    BY <1>0, <1>3 DEF CommitEvidence
  <2>2. \A s \in Steps : s # pos[w] => step'[s] = step[s]
    BY <1>0, <1>3 DEF CommitEvidence
  <2> QED
    BY <1>0, <2>1, <2>2
<1>4. ASSUME NEW w \in Workers, FailStep(w) \/ CancelStep(w) \/ BuildResult(w)
      PROVE  StepsHaveEvidence'
  BY <1>0, <1>4 DEF FailStep, CancelStep, BuildResult
<1> QED
  BY <1>0, <1>1, <1>2, <1>3, <1>4, FactsFrame

\* No step of anybody touches a finished step.
LEMMA KeepStep == IInv /\ [Next]_vars => StepIsKept
<1> SUFFICES ASSUME IInv, [Next]_vars, stalls = 0,
                    NEW s \in Steps, step[s] \in Reusable
             PROVE  step'[s] = step[s] /\ evidence'[s] = evidence[s]
  BY DEF StepIsKept
<1>0. DOMAIN step = Steps /\ DOMAIN evidence = Steps
  BY DEF IInv, TypeOK
<1> USE DEF Reusable, facts
<1>1. ASSUME RecoverExpired \/ Restart PROVE step'[s] = step[s] /\ evidence'[s] = evidence[s]
  BY <1>0, <1>1 DEF RecoverExpired, Restart, Requeued
<1>2. ASSUME NEW w \in Workers,
             StartStep(w) \/ CommitEvidence(w) \/ FailStep(w) \/ CancelStep(w)
      PROVE  step'[s] = step[s] /\ evidence'[s] = evidence[s]
  <2>1. at[w] \in Busy
    BY <1>2 DEF StartStep, CommitEvidence, FailStep, CancelStep, Busy
  <2>2. s # pos[w]
    BY <2>1 DEF IInv, ExecutionsAgree, Agrees, Busy
  <2> QED
    BY <1>0, <1>2, <2>2 DEF StartStep, CommitEvidence, FailStep, CancelStep
<1>3. ASSUME NEW w \in Workers, BuildResult(w)
      PROVE  step'[s] = step[s] /\ evidence'[s] = evidence[s]
  BY <1>3 DEF BuildResult
<1> QED
  BY <1>1, <1>2, <1>3, FactsFrame

LEMMA StallsGrow == ASSUME TypeOK, [Next]_vars PROVE stalls' = 0 => stalls = 0
BY EnvFrame DEF TypeOK, env, Dispatch, Restart, BrokerFault, Deliver, Crash,
   CommitFails, WorkflowFails, Abandon, Stall

\* Claims rest on steps that are finished, also those of an execution that was
\* interrupted after the build.
LEMMA ClaimsStep == IInv /\ [Next]_vars => ClaimsAreBacked'
<1> SUFFICES ASSUME IInv, [Next]_vars, stalls' = 0, NEW s \in Steps, claims'[s] # 0
             PROVE  step'[s] \in Reusable /\ claims'[s] = evidence'[s]
  BY DEF ClaimsAreBacked
<1>1. stalls = 0
  BY StallsGrow DEF IInv
<1>2. CASE claims'[s] = claims[s]
  <2>1. step[s] \in Reusable /\ claims[s] = evidence[s]
    BY <1>1, <1>2 DEF IInv, ClaimsAreBacked
  <2> QED
    BY <1>1, <1>2, <2>1, KeepStep DEF StepIsKept
<1>3. CASE claims'[s] # claims[s]
  <2>1. PICK w \in Workers : BuildResult(w)
    BY <1>3, FactsFrame DEF facts, RecoverExpired, Restart, StartStep, CommitEvidence,
       FailStep, CancelStep
  <2>2. at[w] = "build" /\ UNCHANGED <<step, evidence>>
        /\ claims'[s] = IF cited[w][s] # 0 THEN cited[w][s] ELSE claims[s]
    BY <2>1 DEF BuildResult
  <2>3. CitesItsSteps(w)
    BY <1>1, <2>2 DEF IInv, ExecutionsAgree, Agrees
  <2> QED
    BY <1>3, <2>2, <2>3 DEF CitesItsSteps
<1> QED
  BY <1>2, <1>3

\* The verdict of an execution is what its steps and claims say.
LEMMA AnswerStep == IInv /\ [Next]_vars => ResultIsBacked' /\ AnsweredIsSettled'
<1> SUFFICES ASSUME IInv, [Next]_vars, stalls' = 0, status' \in Answered
             PROVE  ResultIsBacked' /\ AnsweredIsSettled'
  BY DEF ResultIsBacked, AnsweredIsSettled
<1>1. stalls = 0
  BY StallsGrow DEF IInv
<1>2. CASE UNCHANGED <<status, result>>
  <2>1. ResultIsBacked /\ AnsweredIsSettled
    BY DEF IInv
  <2>2. status \in Answered
    BY <1>2
  <2>3. \A w \in Workers : at[w] = "idle"
    BY <1>1, <2>2 DEF IInv, OneExecution, Answered
  <2>4. UNCHANGED <<step, evidence, claims>>
    BY <2>2, <2>3, FactsFrame DEF facts, Answered, RecoverExpired, Restart, StartStep,
       CommitEvidence, FailStep, CancelStep, BuildResult
  <2> QED
    BY <1>1, <1>2, <2>1, <2>2, <2>4 DEF ResultIsBacked, AnsweredIsSettled
<1>3. CASE ~UNCHANGED <<status, result>>
  <2>1. PICK w \in Workers : FinishRun(w)
    BY <1>3, RowFrame DEF run, Answered, Active, Terminal, RequestCancel,
       RecoverExpired, Restart, Tick,
       ClaimRun, ClaimCancels, ClaimNextRun, Enter, RenewLease
  <2>2. /\ at[w] \in {"finish", "handle"} /\ status' = verdict[w] /\ result' = cited[w]
        /\ UNCHANGED <<step, evidence, claims>>
    BY <1>3, <2>1 DEF FinishRun, run, facts
  <2>3. Agrees(w) /\ Answering(w) /\ pos[w] = StepCount + 1
    BY <1>1, <2>2 DEF IInv, ExecutionsAgree, Agrees, Answering
  <2>4. \A s \in Steps : s < pos[w]
    BY <2>3 DEF Steps
  <2>5. \A s \in Steps :
          /\ result'[s] = IF step'[s] \in Reusable THEN evidence'[s] ELSE 0
          /\ claims'[s] = result'[s]
    BY <2>2, <2>3, <2>4 DEF Agrees, CitesItsSteps
  <2>6. /\ \A s \in Steps : step'[s] \in Reusable \cup {"failed"}
        /\ \A s \in Required : step'[s] \in Reusable
        /\ status' = "completed" => \A s \in Steps : step'[s] \in Reusable
    BY <2>2, <2>3, <2>4 DEF Agrees, StepsAgree, Steps
  <2> QED
    BY <2>5, <2>6 DEF ResultIsBacked, AnsweredIsSettled
<1> QED
  BY <1>2, <1>3

-----------------------------------------------------------------------------
LEMMA InvHolds == Spec => []IInv
<1>1. Init => IInv
  <2>1. Init => TypeOK
    <3>1. NoCitation \in [Steps -> 0..MaxEvidence]
      BY DEF NoCitation
    <3>2. Init => RowType
      <4>1. Init => cancel \in BOOLEAN
        BY Zenon DEF Init
      <4> QED
        BY <3>1, <4>1 DEF Init, RowType, Active
    <3>5. Init => LocalType
      BY <3>1 DEF Init, LocalType
    <3>3. Init => StepType /\ FactsType /\ InputType
      BY <3>1 DEF Init, StepType, FactsType, InputType
    <3>4. Init => PlaceType /\ EnvType
      BY DEF Init, PlaceType, EnvType, Places, Terminal
    <3> QED
      BY <3>2, <3>5, <3>3, <3>4, TypeParts
  <2> QED
    BY <2>1 DEF Init, IInv, StepsHaveEvidence, OneExecution, ExecutionsAgree,
       ClaimsAreBacked, ResultIsBacked, AnsweredIsSettled, NoCitation, Answered, Reusable
<1>2. IInv /\ [Next]_vars => IInv'
  BY TypeStep, EvidenceStep, OneStep, AgreeStep, ClaimsStep, AnswerStep DEF IInv
<1> QED
  BY <1>1, <1>2, PTL DEF Spec

\* Type correctness of the run and of its executions.
THEOREM TypeCorrect == Spec => []TypeOK
<1>1. IInv => TypeOK
  BY DEF IInv
<1> QED
  BY <1>1, InvHolds, PTL

\* What a finished run cites, what its claims cite and what its steps hold is
\* the same evidence, however often it was interrupted.
THEOREM Backed == Spec => []ResultIsBacked
<1>1. IInv => ResultIsBacked
  BY DEF IInv
<1> QED
  BY <1>1, InvHolds, PTL

\* A run that produced an answer has no loose ends.
THEOREM NoLooseEnds == Spec => []AnsweredIsSettled
<1>1. IInv => AnsweredIsSettled
  BY DEF IInv
<1> QED
  BY <1>1, InvHolds, PTL

\* Without an execution that outlived its lease there is one at a time.
THEOREM OneAtATime == Spec => []OneExecution
<1>1. IInv => OneExecution
  BY DEF IInv
<1> QED
  BY <1>1, InvHolds, PTL

\* Finished steps are neither done again nor replaced.
THEOREM Reuse == Spec => EvidenceIsReused
<1>1. IInv /\ [Next]_vars => [StepIsKept]_vars
  BY KeepStep
<1> QED
  BY <1>1, InvHolds, PTL DEF Spec, EvidenceIsReused

\* A terminal run is never changed, stalled executions or not.
THEOREM Final == Spec => TerminalIsFinal
<1>1. [Next]_vars => [RunIsFinal]_vars
  <2> SUFFICES ASSUME [Next]_vars, status \in Terminal PROVE UNCHANGED <<status, result>>
    BY DEF RunIsFinal
  <2> QED
    BY RowFrame DEF run, Terminal, Answered, Active, RequestCancel, RecoverExpired,
       Restart,
       Tick, ClaimRun, Claimable, ClaimCancels, ClaimNextRun, RenewLease, FinishRun
<1> QED
  BY <1>1, PTL DEF Spec, TerminalIsFinal
=============================================================================
