---------------------------- MODULE PortfolioQuant ----------------------------
(***************************************************************************)
(* Portfolio experiments of one user (src/backend/portfolio_quant_service  *)
(* .py, portfolio_quant_repository.py): an experiment is made from the     *)
(* holdings, the newest valuation (portfolio_valuation.py) and the         *)
(* investment policy, which are read one after the other.  It is executed  *)
(* by a job, and its result may be frozen as a paper mandate after the     *)
(* three were read again.                                                  *)
(*                                                                         *)
(* The job is the durable one of BackgroundJobs with a single attempt; a   *)
(* queued one is dispatched whether it is bound or not.  What is computed  *)
(* is left out except for the gate, which is a choice.                     *)
(***************************************************************************)
EXTENDS Integers, FiniteSets, FiniteSetsExt

CONSTANTS
  Portfolios,  \* what the user may hold: he can return to any of them
  Requests,    \* requests that are served at the same time
  MaxProfiles, MaxSnapshots, MaxRuns \* bounds

Runs == 1..MaxRuns
Snapshots == 1..MaxSnapshots
Terminal == {"succeeded", "partial", "failed"}

VARIABLES
  holdings,
  profile,   \* the version of the policy; whether it is in force is a choice
  dated,     \* portfolio_valuation_snapshots are dated when they are begun
  snapshot,  \* of each date: what was held, and the gate it passes today
  was,       \* holdings, newest snapshot and policy version there have been
             \* together, once there is a snapshot
  run,       \* portfolio_quant_runs
  job,       \* background_jobs of the runs
  executor,  \* what the workers that hold each job have come to
  mandate,   \* runs with a row in portfolio_quant_mandates
  request    \* what each request has read

vars == <<holdings, profile, dated, snapshot, was, run, job, executor, mandate, request>>
world == <<holdings, profile, dated, snapshot, was>>
experiment == <<run, job, executor, mandate>>

NoSnapshot == [holdings |-> {}, gate |-> "none"]
NoRun == [status |-> "none", holdings |-> {}, snapshot |-> 0, profile |-> 0,
          eligible |-> FALSE, bound |-> FALSE, paper |-> FALSE]
Idle == [at |-> "none", run |-> 0, holdings |-> {}, snapshot |-> 0, trade |-> FALSE]

\* latest_snapshot
Existing(s) == {i \in Snapshots : s[i].gate # "none"}
NewestOf(s) == IF Existing(s) = {} THEN 0 ELSE Max(Existing(s))
Newest == NewestOf(snapshot)

Init ==
  /\ \E h \in Portfolios : holdings = {h}
  /\ profile = 1
  /\ dated = 0 /\ snapshot = [i \in Snapshots |-> NoSnapshot]
  /\ was = {}
  /\ run = [r \in Runs |-> NoRun] /\ job = [r \in Runs |-> "none"]
  /\ executor = [r \in Runs |-> {}] /\ mandate = {}
  /\ request = [q \in Requests |-> Idle]

Become(q, r) == request' = [request EXCEPT ![q] = r]
Seen(h, s, p) == was' = was \cup {<<h, s, p>> : i \in {s} \ {0}}

-----------------------------------------------------------------------------
(* What experiments are made from.                                         *)

Hold(h) ==
  /\ holdings' = {h} /\ Seen({h}, Newest, profile)
  /\ UNCHANGED <<profile, dated, snapshot, experiment, request>>

ChangePolicy ==
  /\ profile < MaxProfiles /\ profile' = profile + 1
  /\ Seen(holdings, Newest, profile')
  /\ UNCHANGED <<holdings, dated, snapshot, experiment, request>>

\* refresh_portfolio_valuation: the date and the holdings, then observations
Value(q) ==
  /\ request[q] = Idle /\ dated < MaxSnapshots /\ dated' = dated + 1
  /\ Become(q, [Idle EXCEPT !.at = "valuing", !.snapshot = dated + 1, !.holdings = holdings])
  /\ UNCHANGED <<holdings, profile, snapshot, was, experiment>>

\* create_snapshot
Save(q, gate) ==
  /\ request[q].at = "valuing" /\ Become(q, Idle)
  /\ snapshot' = [snapshot EXCEPT ![request[q].snapshot] =
       [holdings |-> request[q].holdings, gate |-> gate]]
  /\ Seen(holdings, NewestOf(snapshot'), profile)
  /\ UNCHANGED <<holdings, profile, dated, experiment>>

\* fresh_until passes
Expire(i) ==
  /\ snapshot[i].gate \in {"risk", "trade"}
  /\ snapshot' = [snapshot EXCEPT ![i].gate = "blocked"]
  /\ UNCHANGED <<holdings, profile, dated, was, experiment, request>>

\* runtime_gate of latest_portfolio_valuation, for the holdings that were read
Passes(h, gates) ==
  Newest # 0 /\ snapshot[Newest].holdings = h /\ snapshot[Newest].gate \in gates

-----------------------------------------------------------------------------
(* start_run: _prepare_evidence reads the three in this order.             *)

StartHoldings(q) ==
  /\ request[q] = Idle
  /\ Become(q, [Idle EXCEPT !.at = "start", !.holdings = holdings])
  /\ UNCHANGED <<world, experiment>>

StartValuation(q) ==
  /\ request[q].at = "start" /\ Passes(request[q].holdings, {"risk", "trade"})
  /\ Become(q, [request[q] EXCEPT !.at = "valued", !.snapshot = Newest,
                                  !.trade = Passes(request[q].holdings, {"trade"})])
  /\ UNCHANGED <<world, experiment>>

\* The policy, and create_run
Create(q, r) ==
  /\ request[q].at = "valued" /\ r = Cardinality({i \in Runs : run[i] # NoRun}) + 1
  /\ \E configured \in BOOLEAN : run' = [run EXCEPT ![r] =
       [NoRun EXCEPT !.status = "queued", !.holdings = request[q].holdings,
                     !.snapshot = request[q].snapshot, !.profile = profile,
                     !.eligible = configured /\ request[q].trade]]
  /\ Become(q, [Idle EXCEPT !.at = "created", !.run = r])
  /\ UNCHANGED <<world, job, executor, mandate>>

CreateJob(q) ==
  /\ request[q].at = "created" /\ job' = [job EXCEPT ![request[q].run] = "queued"]
  /\ Become(q, [request[q] EXCEPT !.at = "bind"])
  /\ UNCHANGED <<world, run, executor, mandate>>

\* fail_run leaves a run that has ended as it is.
Failed(r) == IF run[r].status \in Terminal THEN run[r] ELSE [run[r] EXCEPT !.status = "failed"]

\* bind_job, and the message; any exception fails the run, also one that is
\* executed already.
Bind(q) ==
  /\ request[q].at = "bind" /\ Become(q, Idle)
  /\ LET r == request[q].run IN
     \/ /\ run[r].status = "queued"
        /\ run' = [run EXCEPT ![r].bound = TRUE]
     \/ run' = [run EXCEPT ![r] = Failed(r)]
  /\ UNCHANGED <<world, job, executor, mandate>>

\* refresh_run_status
Reconcile(r) ==
  /\ run[r].status \in {"queued", "running"} /\ run[r].bound /\ job[r] = "failed"
  /\ run' = [run EXCEPT ![r] = Failed(r)]
  /\ UNCHANGED <<world, job, executor, mandate, request>>

-----------------------------------------------------------------------------
(* execute_portfolio_quant_run_job: the worker that is known to the job    *)
(* and those that lost it.                                                 *)

Owns(e) == e = "owner" \/ e = "computing"

\* claim_job: a queued job, or one whose lease has passed
Claim(r) ==
  /\ job[r] \in {"queued", "running"} /\ executor[r] \subseteq {"computing"}
  /\ job' = [job EXCEPT ![r] = "running"]
  /\ executor' = [executor EXCEPT ![r] = {"owner"} \cup {"lost" : e \in @}]
  /\ UNCHANGED <<world, run, mandate, request>>

\* Mutant: an experiment that has ended in any way is answered.
AnsweredEnded(r) == run[r].status \in Terminal

\* execute_run answers an experiment that has a result.
Answered(r) == run[r].status \in {"succeeded", "partial"}

\* execute_run up to mark_running, which refuses one that has ended
Begin(r) ==
  /\ "owner" \in executor[r]
  /\ \/ /\ Answered(r) /\ UNCHANGED run
        /\ job' = [job EXCEPT ![r] = "succeeded"]
        /\ executor' = [executor EXCEPT ![r] = @ \ {"owner"}]
     \/ /\ ~Answered(r) /\ run[r].status = "failed" /\ UNCHANGED run
        /\ job' = [job EXCEPT ![r] = "failed"]
        /\ executor' = [executor EXCEPT ![r] = @ \ {"owner"}]
     \/ /\ ~Answered(r) /\ run[r].status # "failed"
        /\ run' = [run EXCEPT ![r].status = "running"] /\ UNCHANGED job
        /\ executor' = [executor EXCEPT ![r] = (@ \ {"owner"}) \cup {"computing"}]
  /\ UNCHANGED <<world, mandate, request>>

\* The job of a worker that lost it is left alone.
Concluded(r, e, status) == IF Owns(e) THEN [job EXCEPT ![r] = status] ELSE job

\* complete_run, or its conflict, and complete_job or fail_job
Finish(r, e) ==
  /\ e \in executor[r] /\ e \in {"computing", "lost"}
  /\ \/ /\ run[r].status \notin Terminal
        /\ \E status \in {"succeeded", "partial"}, paper \in {FALSE, run[r].eligible} :
             run' = [run EXCEPT ![r].status = status, ![r].paper = paper]
        /\ job' = Concluded(r, e, "succeeded")
     \/ /\ run' = [run EXCEPT ![r] = Failed(r)]
        /\ job' = Concluded(r, e, "failed")
  /\ executor' = [executor EXCEPT ![r] = @ \ {e}]
  /\ UNCHANGED <<world, mandate, request>>

\* The process dies, and the job is recovered after its only attempt.
Die(r, e) ==
  /\ e \in executor[r] /\ executor' = [executor EXCEPT ![r] = @ \ {e}]
  /\ job' = Concluded(r, e, "failed")
  /\ UNCHANGED <<world, run, mandate, request>>

-----------------------------------------------------------------------------
(* freeze_mandate.                                                         *)

FreezeRun(q, r) ==
  /\ request[q] = Idle /\ run[r].paper
  /\ Become(q, [Idle EXCEPT !.at = "freeze", !.run = r])
  /\ UNCHANGED <<world, experiment>>

HoldingsAgree(q) == holdings = run[request[q].run].holdings

ValuationAgrees(q) ==
  LET r == run[request[q].run] IN Newest = r.snapshot /\ Passes(r.holdings, {"trade"})

PolicyAgrees(q) == profile = run[request[q].run].profile

\* Mutant: the holdings are read last.
ChecksFromPolicy ==
  [at \in {"freeze", "held", "worth"} |->
     CASE at = "freeze" -> [holds |-> "policy", next |-> "held"]
       [] at = "held" -> [holds |-> "valuation", next |-> "worth"]
       [] at = "worth" -> [holds |-> "holdings", next |-> "agreed"]]

\* What is compared with the run, one reading after the other
Checks ==
  [at \in {"freeze", "held", "worth"} |->
     CASE at = "freeze" -> [holds |-> "holdings", next |-> "held"]
       [] at = "held" -> [holds |-> "valuation", next |-> "worth"]
       [] at = "worth" -> [holds |-> "policy", next |-> "agreed"]]

Check(q) ==
  /\ request[q].at \in DOMAIN Checks
  /\ CASE Checks[request[q].at].holds = "holdings" -> HoldingsAgree(q)
       [] Checks[request[q].at].holds = "valuation" -> ValuationAgrees(q)
       [] Checks[request[q].at].holds = "policy" -> PolicyAgrees(q)
  /\ Become(q, [request[q] EXCEPT !.at = Checks[@].next])
  /\ UNCHANGED <<world, experiment>>

\* create_mandate: one for an experiment
Freeze(q) ==
  /\ request[q].at = "agreed" /\ Become(q, Idle)
  /\ mandate' = mandate \cup {request[q].run}
  /\ UNCHANGED <<world, run, job, executor>>

\* A request is refused, or its process ends.
Drop(q) ==
  /\ request[q] # Idle /\ Become(q, Idle)
  /\ UNCHANGED <<world, experiment>>

-----------------------------------------------------------------------------
Next ==
  \/ \E h \in Portfolios : Hold(h)
  \/ ChangePolicy
  \/ \E i \in Snapshots : Expire(i)
  \/ \E q \in Requests :
       \/ Value(q) \/ StartHoldings(q) \/ StartValuation(q) \/ CreateJob(q) \/ Bind(q)
       \/ Check(q) \/ Freeze(q) \/ Drop(q)
       \/ \E gate \in {"blocked", "risk", "trade"} : Save(q, gate)
       \/ \E r \in Runs : Create(q, r) \/ FreezeRun(q, r)
  \/ \E r \in Runs :
       \/ Reconcile(r) \/ Claim(r) \/ Begin(r)
       \/ \E e \in {"owner", "computing", "lost"} : Finish(r, e) \/ Die(r, e)

Spec == Init /\ [][Next]_vars

-----------------------------------------------------------------------------
(* Properties.                                                             *)

Held == {{}} \cup {{h} : h \in Portfolios}

\* Everything has its type.
TypeOK ==
  /\ holdings \in Held /\ profile \in 1..MaxProfiles /\ dated \in 0..MaxSnapshots
  /\ \A i \in Snapshots : snapshot[i].holdings \in Held
                          /\ snapshot[i].gate \in {"none", "blocked", "risk", "trade"}
  /\ \A r \in Runs : /\ run[r].status \in {"none", "queued", "running"} \cup Terminal
                     /\ job[r] \in {"none", "queued", "running", "succeeded", "failed"}
                     /\ executor[r] \subseteq {"owner", "computing", "lost"}
  /\ mandate \subseteq Runs
  /\ \A q \in Requests : request[q].at \in
       {"none", "valuing", "start", "valued", "created", "bind", "agreed"} \cup DOMAIN Checks

\* A mandate names holdings, a valuation and a policy that were in force at
\* one and the same moment, although experiment and mandate read them one
\* after the other and the user may return to what he held.
MandateWasTrue ==
  \A r \in mandate : <<run[r].holdings, run[r].snapshot, run[r].profile>> \in was

\* A job succeeds only when its experiment has a result, whichever of several
\* executions brought it and whichever failed.
JobSuccessIsBacked ==
  \A r \in Runs : job[r] = "succeeded" => run[r].status \in {"succeeded", "partial"}
=============================================================================
