# Verification of stock-assistant

TLA+ models of what stock-assistant does concurrently, over time and under
failures, and of the calculations its decisions rest on, with the TLC runs that
check them and the TLAPS proofs that hold for every value of their constants.
The modules are translated from the Python under `src/backend`; `PROJECT.json`
names the lines that each definition stands for, the hazards of the code with the
properties that cover them, and a mutated definition that breaks each property.

Contents: [the system](#the-system), [the modules](#the-modules),
[how the runs are built](#how-the-runs-are-built),
[what the runs show](#what-the-runs-show), [bounds](#bounds),
[fairness and time](#fairness-and-time), [what is proved](#what-is-proved),
[what is only model-checked](#what-is-only-model-checked),
[disagreements](#disagreements), [what is not modelled](#what-is-not-modelled),
[plan](#plan).

Checking and proving, in this directory:

    tlc -workers 2 -config Engines.cfg MCEngines.tla
    tlapm EnginesProofs.tla

## The system

A FastAPI service for personal stock and fund research.  PostgreSQL (SQLite in
isolated tests) holds all state.  `database.py` turns every `BEGIN IMMEDIATE`
into a transaction that takes one advisory lock, so **repository methods that
write are serialised**; everything between two repository calls interleaves.
Celery with Redis carries messages that name a row and nothing else: the row is
the truth, a message a hint.  Beat runs the scheduler tasks; each worker service
has one prefork slot (`--concurrency=1`).  Tasks are acknowledged late and
rejected when their worker is lost, so a message may be delivered twice, and
Redis may lose it.

| Component | State | Operations | What makes it hard | What makes it correct |
|---|---|---|---|---|
| Durable jobs: `background_jobs.py`, `background_tasks.py`, `task_queue.py` | `background_jobs`, hash chain `background_job_events` | create, dispatch, claim, heartbeat, complete, fail, cancel, recover | duplicate and lost messages, lapsed leases, a worker name that is only the host's, publishing outside the transaction | only the latest claim commits; decided rows are final; the chain tells the table; jobs settle |
| Agent runs: `agent/repository.py`, `agent/workflow.py`, `agent/worker.py` | `agent_runs`, `agent_steps`, `agent_evidence`, `agent_claims` | create, dispatch, claim, renew, recover, steps, finish, cancel | resumption in the middle of a plan, unfenced writes, cancellation by polling | result, claims and steps agree; finished steps are reused; a verdict is final; runs settle |
| Observation schedules: `agent/outcome_worker.py`, `agent/outcomes.py` | `agent_outcome_schedules` | ensure, configure, claim, complete, fail | the user changes a schedule that is being evaluated | paused schedules are left alone; only the latest claim reports; due schedules are served |
| Decision inbox: `storage.py`, `decision_check_worker.py`, `decision_center.py` | decision tasks with revisions, the check schedule | synchronise, acknowledge, snooze, claim, complete, fail | page, worker and user act on observations of different moments | a revision names one version; what was acknowledged stands; findings reach the inbox |
| Shadow samples: `agent/strategy_shadow_*.py` | enrolments, cohorts, evidence | enrol, claim, evaluate, report | runs are enrolled and evaluated in any order | each sample has its evidence and no day in common with what its enrolment saw |
| Factor warehouse: `quant_factor_*.py` | plans, sync runs, observations | request, schedule, claim, save, complete, fail, recover | a lease without heartbeat, messages that join an attempt, late provider answers | late answers are refused; finished runs are backed and final; the latest days are collected |
| Research programs: `quant_research_program_*.py` | programs, cycles | claim, bind, attach, reconcile, enrol | crashes between creating and attaching a run, two reconcilers | a cycle claims what it has; a cycle whose signal can be frozen is decided |
| Alpha forecasts: `alpha_forecast_*.py` | programs, runs, forecasts, outcomes | request, dispatch, execute, publish, settle, maintain | overlapping executions and settlements, lost messages, nothing that recovers a run | a run has forecasts if and only if it succeeded; facts are written once |
| Alpha engine: `alpha_forecast_engine.py` | frames, folds, predictions, gate | fit folds, calibrate, judge, forecast | labels that end after the row they belong to | nothing is learnt from the days it is tested on |
| Quant selection: `quant_selection_engine.py`, `_service.py`, `_repository.py` | price and disclosure frames, signals, orders; runs, mandates | score, weigh, simulate, judge; create, execute, freeze, enrol | late disclosures, partial fills, overlapping executions, a strategy that changes | signals are of their day's knowledge; orders add up; paper follows one result |
| Execution backtest: `backtest.py` | windows, trades | simulate a window | trades that would cross a window's end | windows share no bar |
| Portfolio quant runs: `portfolio_quant_*.py`, `portfolio_valuation*.py` | valuations, runs beside their jobs, mandates | value, run, reconcile, freeze | two tables that report one execution, a user who trades meanwhile | a mandate names one moment; a job that succeeded has its run |
| Capital plans: `portfolio_capital_*.py`, `alpha_capital_*.py` | plans, confirmations, bindings, routes, outcomes | freeze, confirm, review, observe, learn | concurrent confirmations, a route that is replaced | a purchase serves one plan; a plan follows its own route; sizes keep their limits |
| Opportunity committee: `opportunity_committee_*.py`, `opportunity_regime_*.py`, scorecards of `opportunity_profit_*.py` | regime snapshots, committee mandates, frozen scorecards | freeze a snapshot, freeze a mandate, serve the latest | inputs of four reads, requests that overlap, evidence that returns | a mandate is of one state of its inputs; its weights keep their caps |
| Fund switches: `fund_switch_*.py`, `strategies/fund_switch_*.py`, `storage.py` | cost reviews, quotes, execution reviews, cases with an event chain | review, quote, judge, start, execute, record, attribute | concurrent requests to two replicas, deletions in the ledger, quotes that lapse | no evidence serves two cases; a process opens one case at a time; what is shown as ready rests on what there is |
| Batches: `agent/batch*.py`, `strategies/portfolio_batch_*.py` | batches, allocations, preflights, purchases | start, allocate, preflight, purchase, reconcile, attribute | a preflight gone stale, concurrent clients, a queue limit | what follows is chained to what it rests on; the budget and its limits are kept |
| Ledger: `portfolio_review.py`, `storage.py` | transactions, confirmed holdings, snapshots | enter, import, confirm, delete, review | entries are validated against what was read | lots are first in first out; what is shown was made |
| Investment policies: `storage.py` | profile versions, audit events | draft, activate, verify | two tabs, verification while rows change | a version replaces the one its user saw; no false alarm |
| Paper baskets: `opportunity_*.py`, `quant_selection_forward_*.py` | strategies, scans, baskets, observations | scan, freeze, observe, count | late and overlapping observations, gaps | what was counted stands |
| Hot stocks: `hot_stocks.py` | two caches, circuit breaker | rank, fetch, fall back | two caches over one another, threads | answers are of now; a provider that answers is used again |
| Strategy governance: `agent/strategy_governance.py` | versions, audit chain | transition, assess, use | transitions that race, a stale read | use is of released versions; no stage is skipped |
| Availability: `availability_*.py` | snapshots, incidents | probe, record | probes that overlap | incidents are known and shown |
| Everything else | accounts, uploads, caches | single-transaction records, calculations, I/O | little concurrency | see [what is not modelled](#what-is-not-modelled) |

How they interact: the API creates rows and publishes messages.  A finished run
creates its observation schedule, whose evaluations append evidence to the run; a
batch is a set of runs, and its purchases and those of fund switches use one
ledger.  Research programs execute quant selections and enrol their results among
the paper baskets.  Capital plans read the routes, the valuations and the policies
that others replace.

## The modules

Every module begins with a comment that says what it models and what it leaves
out.  Operators whose comment starts with "Mutant:" are altered copies of the
definition below them, with a bug the code might have had; they take part in no
specification and show that a property can fail.  More of them are kept than
`PROJECT.json` lists: one per property of a run is listed there.

| Module | Models | Harness |
|---|---|---|
| `BackgroundJobs` | job rows, publishers, broker, worker slots | run as it is |
| `LeasedOutcome` | abstract: what a leased piece of work promises its callers | |
| `AgentRuns` | one run, its workflow and both ways of scheduling it | `MCAgentRuns`, `MCPrograms` |
| `OutcomeSchedules` | one observation schedule, its user and its workers | `MCSchedules` |
| `DecisionInbox` | tasks, their synchronisation by page and worker, the check schedule | `MCSchedules` |
| `ShadowEnrollments` | samples of a strategy version, their leases and evidence | `MCSchedules` |
| `FundSwitches` | cases and batch purchases over one ledger | `MCRecords` |
| `InvestmentProfiles` | policy versions, tabs, verifying readers | `MCRecords` |
| `AgentBatches` | the queue, a batch and everything that follows from it | `MCRecords` |
| `FactorSync` | sync runs, scheduler, administrators, executions | `MCPrograms` |
| `AlphaForecasts` | forecast runs, publication, settlement | `MCPrograms` |
| `ResearchPrograms` | cycles, reconcilers, executions | `MCPrograms` |
| `CapitalPlans` | plans, confirmations and reviews over the ledger | `MCPortfolio` |
| `PortfolioQuant` | valuations, experiments beside their jobs, mandates | `MCPortfolio` |
| `FrozenRoutes` | routes that are frozen and read while a plan is made | `MCPortfolio` |
| `CapitalSizing` | the weights of a route, the sizes of a plan, its stress search | `MCPortfolio` |
| `OpportunityCommittee` | scans, cohorts, snapshots of the regime, mandates and their weights | `MCPortfolio` |
| `AlphaEngine` | labels, folds, purging, calibration, gate, forecasts | `MCEngines` |
| `SelectionScores` | what is loaded and known, scores, weights, promotion gate | `MCEngines` |
| `QuantSimulation` | orders, fills, cash and positions, session by session | `MCEngines` |
| `SelectionRuns` | runs, executions, mandates and their enrolment | `MCEngines` |
| `ExecutionBacktest` | windows and the trades in them | `MCEngines` |
| `BatchAmounts` | shares, money given, orders and spending of a batch | `MCEngines` |
| `LotLedger` | entries, lots, profit, snapshots, the outcome of a purchase | `MCEngines` |
| `Availability` | probes, snapshots, incidents, the public summary | `MCEngines` |
| `StrategyGovernance` | transitions, release assessment, the runtime gate | `MCEngines` |
| `HotStocks` | threads over two caches and a circuit breaker | `MCServices` |
| `PaperBaskets` | strategies, scans, baskets, observations, what counts | `MCServices` |
| `CapitalOutcomes` | confirmed plans, their observation, the scorecard | `MCServices` |
| `SwitchReviews` | costs of a switch, its quotes and verdicts, the order and the money of its case | `MCServices` |
| `Sums` | the sum of a function over a finite set, for the modules that add amounts | |

Conventions.  A row's columns are functions or records with the names of the
source.  Times are usually the time left: `lease = 0` is a lapsed lease.  What a
request has read and not written yet is a variable of its own (`request`, `tab`,
`reader`, `caller`, `phase`): each read and each transaction of the code is one
action, so that everything may happen between them.  What a provider, a model or
a user answers is `\E` over the answers the code tells apart.  Amounts are whole
units, with the rounding the code applies where a property depends on it.

Some choices a reader may want to know of:

- **BackgroundJobs.** `event` is the last status event of the chain; `outbox` is a
  publisher between reading the row, `send_task` and `mark_dispatched`.  `attempts`
  stops at `MaxAttempts`, since only `fail_job` reads it, to ask whether it is
  smaller; `claim_job` grants leases beyond it.
- **AgentRuns.** `at` is the program counter of an execution, `cited` and
  `lacking` its local dictionaries.  `embedded` tells `AgentWorker` threads from
  Celery.  `Guarded` are the steps before which the cancel flag is read.  The
  database may refuse any query: within a step the step fails (`CommitFails`),
  elsewhere the handlers of `execute` conclude that the run failed
  (`WorkflowFails`, then `FinishRun` at `handle`), and if they are refused too a
  Celery task is retried (`Crash`) and a thread goes on without the run (`Abandon`).
- **AlphaForecasts.** `Lose` is a message that is lost, or whose run could not be
  marked as running; `Abandon` an execution whose failure could not be written.
  `stranded` remembers their runs, which nothing recovers.
- **FundSwitches.** `Replicas` are the API processes.  `_CASE_START_LOCK` belongs
  to a process, so that two starts exclude each other only on one replica;
  `known` remembers which cases a start saw.
- **ShadowEnrollments** and **Availability** enrol and record in any order:
  `known` and `astray` remember what came late.
- **FactorSync.** `joined` executions were handed a run that somebody else had
  claimed; `current` remembers that the run has been running without a break since
  the provider was called.
- **SelectionScores** scores every signal day twice in its property: from the data
  and from what was known on the day; **AlphaEngine** and **ExecutionBacktest**
  start from every calendar or signal set of a small frame.
- **LotLedger** has a world (prices, dividends, trades) beside what the user
  enters of it, so that what is shown can be compared with what was made.

## How the runs are built

A harness `MC...` instantiates several components.  They share no state, so a
behaviour of a harness is one of a single component: `focus` names it and stays;
the variables of the others keep their initial value or are 0.  Properties about a
component are guarded by its focus.  A focus may also be one half of a component
(`cases` and `batches` of `FundSwitches`, `lots` and `changes` of `LotLedger`):
each half restrains what does not matter to its questions, in a comment beside it.
So the passing runs together fire every action, at a size TLC finishes in minutes.

## What the runs show

| Run | Properties | Question |
|---|---|---|
| `BackgroundJobs` | `TypeOK` `ChainAgreesWithRow` `OnlyLatestClaimCommits` `CancelStopsAttempts` `KeepsPromise` `JobsSettle` | Do crashes, stalls, duplicates and losses ever get a stale result in, the chain out of step, or an attempt started after a cancellation?  Is the envelope a `LeasedOutcome`, and is every job decided that nobody cancels? |
| `AgentRunsSafety` | `TypeOK` `ResultIsBacked` `TerminalIsFinal` `EvidenceIsReused` | Under Celery or as threads, after any interruption: do result, claims and steps agree, is no finished step repeated, and does the first verdict stand, even when two executions overlap? |
| `Schedules` | `TypesOK` `RevisionNamesVersion` `SamplesAreIndependent` `OnlyLatestReports` `AcknowledgementStands` `DueIsDone` | Do late reports disturb a schedule that was paused, resumed or claimed again?  Does a revision name one version, and what the user acknowledged stay away, while page and worker synchronise?  Has a sample its evidence, and no day in common with one its enrolment saw?  Is everything that is due done? |
| `Records` | `TypesOK` `CasesAreApart` `PoliciesAreSound` `BatchesAreSound` | May two requests use one transaction, or open two cases other than on two replicas at once, replace a policy their user never saw, or append to a batch what its parent no longer backs?  Do runs, but for repeated ones, keep their limit?  Is an honest history reported as tampered with? |
| `Programs` | `TypesOK` `ResultsAreBacked` `LateResponsesAreRefused` `FactsStand` `RunsAreSettled` `ProgramsGoOn` | Is what is said to have succeeded there, whichever executions overlap?  Are facts written once?  Do the programs go on after crashes and losses, and where do they not?  Is an agent run settled, by Celery or by threads, but for the cases the code leaves open? |
| `Portfolio` | `TypesOK` `ReadsAgree` `JobSuccessIsBacked` `AmountsAreRight` `PurchasesAreCountedOnce` | Does a mandate, of an experiment or of the committee, or a plan name what was true at one moment?  Does a purchase serve one plan?  Do weights and sizes keep their limits for every input, and the committee's for every evidence? |
| `Engines` | `TypesOK` `PastAndFutureAreSeparate` `BooksBalance` `GatesAreTrue` `AllowedIsReleased` | Does a model, a signal or a window know of later days?  Do the orders of a simulation, the money of a batch, and the lots and returns of a ledger add up?  Do the gates let through what they should? |
| `Services` | `TypesOK` `ShownIsCurrent` `CountedStands` `EveryoneIsServed` | Do caches add up their ages, is a fund switch shown as ready only on the evidence there is, does what was counted stand, and is everybody served in the end? |

The four runs that expect a violation are under [disagreements](#disagreements).

An execution that outlives its lease (`MaxStalls = 1` in `AgentRunsSafety`) does
break `EvidenceIsReused` and `ResultIsBacked`: steps, evidence and claims are
written without the worker or its lease, and two executions of a run replace each
other's evidence.  The repository relies on a two-hour lease that is renewed every
minute, and these properties say so: they hold while `stalls = 0`.
`TerminalIsFinal` needs no such condition.

Some properties name, in so many words, the executions the code leaves open, and
hold in all others; each exception is a row under [disagreements](#disagreements).

- `SamplesAreIndependent`: a sample may share days with an earlier one that was
  enrolled later.  Signals are enrolled in any order.
- `GatesAreTrue`: an open incident is the one the latest snapshot knows, unless a
  probe opened it that was recorded after a later one.  Probes are recorded in any
  order, and while the latest snapshot knows of an incident the platform is not
  shown as operational, whatever the order.
- `CasesAreApart`: two cases are open only if two replicas started them at once, so
  that neither start could see the other's.
- `BatchesAreSound`: the limit of active runs holds for runs that repeat no other
  one, up to the requests that have counted and not yet created theirs.
- `RunsAreSettled`: under Celery a run whose cancellation was asked for may stay
  queued, and a thread leaves a run behind when the database refuses its verdict.
- `ProgramsGoOn`: a forecast run may stay open once its message or an execution of
  it was lost for good, and nothing is left that could end it; a research cycle that
  passed stays undecided when its signal has fewer than two targets.  The promotion
  gate of a run is not given its latest signal.

## Bounds

Every bound is a constant.  `MaxFaults` and its like are the number of crashes,
stalls, losses, duplications and database errors of a behaviour, all kinds
together; `MaxMessages` the undelivered messages about one row; leases, delays and
cooldowns are one or two ticks.

- Two workers, requests, tabs or reconcilers suffice for one to be superseded by
  the other; nothing in the code compares a third.
- One job, run, schedule or portfolio suffices where rows share nothing but
  workers; two where the code looks at the others (cases, batches, plans, baskets,
  samples, days of the collection).
- Two attempts and a lease of one or two ticks let a lease be granted, lapse, and
  be granted again, with a renewal on either side.
- One or two faults allow a stall and a crash in one behaviour.
- Three steps of a run: a required, an optional and one whose input names the
  evidence of others, the three kinds the workflow tells apart; in `Programs` two,
  a guarded one and a required one that names its evidence, with two faults: a
  refused query and the refusal of its handler, or two restarts.
- `AlphaEngine` has sixteen days and two assets, one of which is suspended for any
  stretch of them: enough for two folds, a calibration and an evaluation.
  `SelectionScores` has three stocks, seven days and two rows of disclosures;
  `QuantSimulation` two symbols, two signals and capital for two orders, with
  partial fills; `ExecutionBacktest` eleven bars and up to four signals; `LotLedger`
  three trades in three days, `BatchAmounts` two funds at the edges of their limits;
  `CapitalSizing` three assets with scores and rooms on either side of each cap.
- `OpportunityCommittee` has three strategies on two markets, two of which fit in a
  mandate, two requests and one scan more than there were: enough for evidence that
  changes under a request, comes back, and empties a mandate.  `SwitchReviews` has
  two lots, two quotes, a cost review and a verdict, and two requests that read
  before they write while the ledger, the holding, the policy and the thesis change.

The longest runs are `Portfolio` and `Records` (three minutes each); the others
take less.

Where the proofs reach, these bounds do not matter.

## Fairness and time

Specifications are fair only in what the deployment keeps doing: Beat dispatches,
recovers, schedules and reconciles for ever (weak fairness); time passes; a slot
that has a task finishes it, since every handler has a time limit; Redis lists are
first-in first-out and embedded threads poll for ever, so a message that is in the
broker again and again is received (strong fairness of a claim by *some* worker).
A cycle that can be reconciled is listed again and again (strong fairness, since
another reconciler may hold it for a moment); of the observations of a basket again
and again one finds complete data.  Users, administrators and faults have no
fairness.  Because faults are bounded, the liveness properties say: once the faults
stop, the work settles, with the exceptions named above.  They are none of fairness:
no scheduler would end those rows.

Time is discrete.  `Tick` is not enabled while it would let the lease of an
execution lapse that has not stalled: heartbeats come every third of a lease
(jobs), every minute of two hours (runs), and evaluations and syncs without a
heartbeat end well within theirs (45 of 120 seconds, 330 of 600).  `Stall` lifts
that for one execution: a heartbeat thread that died, or a paused host.

## What is proved

Theorems hold for any number of jobs, workers, requests, days, assets, messages and
faults, under the assumptions named in the modules: null values differ from the
rest, bounds are natural numbers, leases and budgets are positive; what is summed
is finite; and a strategy has at least three mature cohorts before it is judged
(`MinMature`; the code allows 6 to 100, `opportunity_profit_service.py:122`).  Each
rests on an inductive invariant that TLC checked first, kept by every action.

| Module | Theorems (with the run's property they state) |
|---|---|
| `BackgroundJobsProofs` | `TypeCorrect` (`TypeOK`), `Fence`, `ChainReplays` (`ChainAgreesWithRow`), `TerminalRowsAreFinal`, `ResultsAreFenced` (`OnlyLatestClaimCommits`), `CancelledJobsStartNothing` (`CancelStopsAttempts`), `EnvelopeKeepsPromise` (`KeepsPromise`) |
| `AgentRunsProofs` | `TypeCorrect` (`TypeOK`), `Backed` (`ResultIsBacked`), `NoLooseEnds`, `OneAtATime`, `Reuse` (`EvidenceIsReused`), `Final` (`TerminalIsFinal`) |
| `SchedulesProofs` | `ScheduleTypes` (`TypesOK`), `VersionsAreNamed` (`RevisionNamesVersion`), `Acknowledged` (`AcknowledgementStands`), `SamplesAreApart` (`SamplesAreIndependent`), `ReportsAreFenced` (`OnlyLatestReports`), `TypeCorrect`, `Fence`, `Coherence`, `PauseHolds`, `Revisions`, `ChecksAreFenced`, `ShadowTypes` |
| `RecordsProofs` | `RecordTypes` (`TypesOK`), `RecordsApart` (`CasesAreApart`), `RecordsSound` (`PoliciesAreSound`), `Chained` (`BatchesAreSound`), `Apart`, `PurchaseTypes`, `Sound`, `PolicyTypes` |
| `ProgramsProofs` | `ProgramTypes` (`TypesOK`), `Results` (`ResultsAreBacked`), `LateResponses` (`LateResponsesAreRefused`), `Facts` (`FactsStand`), `TypeCorrect`, `FinishedRunsAreBacked`, `FinishedRunsAreFinal`, `DispatchIsOwned` |
| `PortfolioProofs` | `Typed` (`TypesOK`), `Readings` (`ReadsAgree`), `AmountsRight` (`AmountsAreRight`), `JobSuccess` (`JobSuccessIsBacked`), `CountedOnce` (`PurchasesAreCountedOnce`), `ConfirmedStays` |
| `EnginesProofs` | `Allowed` (`AllowedIsReleased`), `Separate` (`PastAndFutureAreSeparate`), `Gated` (`GatesAreTrue`), `Accounts` |
| `ServicesProofs` | `Typed` (`TypesOK`), `Shown` (`ShownIsCurrent`) |

The arguments, and why the invariants are stronger than what they show:

- **A fence** (`BackgroundJobsProofs`, `SchedulesProofs`).  That an accepted
  execution made the latest claim needs that a running row is held by the worker it
  names and a row that is not running by nobody, because a claim hands the history
  bit to its maker exactly when it writes the name.  `EnvelopeKeepsPromise` maps
  `worker` to the holder and decided statuses to the outcome: each action is a step
  of `LeasedOutcome` or a stutter.
- **An order of attempts** (`ProgramsProofs`).  An execution never holds a number
  above the run's, and one that holds the number of a *running* run has not lost it
  since: whatever stops a run outdates its executions, and the next claim raises
  the number above theirs.  A run that may be claimed has an attempt left, although
  the claim does not look.
- **One execution** (`AgentRunsProofs`).  While no execution outlives its lease, at
  most one executes the run, and what it cites is what the steps hold.
- **What was read still is** (`RecordsProofs`, `PortfolioProofs`,
  `SchedulesProofs`, `EnginesProofs`).  Requests act on what they have read.  Their
  reads are of the past of rows that only grow or get newer: chains of
  confirmations, valuations, revisions, events.  A step that compares the head of
  what it read with the head of now therefore knows everything between; where the
  code compares nothing, the invariant says why it need not (ids of deleted
  transactions are not given again; starts of one replica exclude each other; a
  result is written once).
- **Apart in time** (`SchedulesProofs`).  That samples have no day in common is not
  inductive, for a window in progress may still become a sample: the invariant says
  it of every signal that was let in, and of those it was compared with, whose
  number only grows.
- **Past and future** (`EnginesProofs`).  Days are ranked, chunks of ranks follow
  one another, and a label that ends before the first day of a chunk ends before
  all of it.  That a signal does not change with later knowledge is shown operator
  by operator: members, history, disclosures, eligibility, scores.  The rows a trade
  uses are inside its window because `FirstRow`, `Start` and `End` grow from window
  to window for any length of the frame.
- **Accounts** (`EnginesProofs`).  An order that is pending or yet to be tried in the
  session has asked for what is filled, cancelled or remaining; one that is neither
  has ended once with less than the minimum as dust; and what is affordable is
  payable with its commission because commissions grow with amounts.
- **Sums** (`PortfolioProofs`).  `Sum` is a recursive function on the subsets of a
  set.  That it is there at all, and does not depend on the order, needs induction
  on a finite set, and the library's rules cannot be cited.  The first lemmas do
  without: among the sets on which a law fails there would be one of least
  cardinality, and taking an element away contradicts it.  From there sums of
  natural numbers grow with their terms, are apart on disjoint sets, and keep
  bounds that their terms keep.
- **Amounts** (`PortfolioProofs`).  A route has either shared nothing yet out of
  what is left, or shared out all of it: then each open asset has its part of one
  `amount` in proportion, rounded down, and what the rounding leaves is less than
  the number of open assets.  Closed assets are at their cap and score more.  In a
  plan the part of the room an asset gets is right but for a half, and the stress
  search keeps `low` among the parts that pass.  The committee caps weights in
  passes; each narrows what is free, and no pass gives more than there is.
- **A budget that stays taken** (`PortfolioProofs`).  A purchase serves one plan
  because a confirmation binds it in the transaction that finds it free.  What was
  settled of a month never shrinks because a plan that is ready stays one of its
  month, each confirmation of a plan names what the ones before it named, whatever
  is deleted from the ledger, and sums grow with their terms.
- **Evidence names what it is of** (`PortfolioProofs`, the committee).  Whatever
  rows, fits and budget make an evidence can be read off it, so that a mandate
  bound to the present evidence has the result of the present inputs; its drift is
  from a mandate with an earlier time, for every request that has taken one.
- **A switch that is ready** (`ServicesProofs`).  A verdict names the review, the
  quote, the revision of the holding, the policy and the thesis it was made from,
  and each is appended with a new number: equal numbers are equal rows.  What was
  settled and spent differs from the ledger by the tolerance at most, in each step.
- **Ages of caches** (`ServicesProofs`).  A provider's cache never holds data older
  than its entry, a page none older than a provider's cache may get when it is
  stored: the two limits bound what is shown together.

## What is only model-checked

- *Liveness* (`JobsSettle`, `RunsAreSettled`, `DueIsDone`, `ProgramsGoOn`,
  `EveryoneIsServed`): reasoning about fairness and `ENABLED` is beyond the prover.
- *Folds over sequences and nested recursion* (the rest of `BooksBalance`: weights
  that are capped round by round in `SelectionScores`, the money of a batch, and
  the lots and returns of a ledger): lots that are first in first out are a fold of
  a fold, which needs induction over an operator.  `Accounts` is the part of it
  that a simulation's orders are.
- *The types of `Engines`*: they contain the types of those amounts.
- *`CountedStands`*: it counts the baskets that are independent, one after the
  other, by recursion over their order.
- *Disagreements* are counterexamples.

## Disagreements

Four have a run that TLC must find violated.

| Run | The documents say | The code does |
|---|---|---|
| `FundSwitchesBound` | `README.md:345`: one transaction may not be bound again across batches or fund switches | `record_purchase` of a switch never looks at the bindings of batches |
| `AgentRunsResume` | `README.md:675`: a failing source makes a run partial or failed | a resumed run forgets the gap of a partial step it reuses and is completed |
| `ShadowOverlap` | every outcome says that its sample overlaps with none of its fund, version and horizon (`agent/strategy_shadow_outcomes.py:855`) | an enrolment is compared with the rows of earlier baselines only (`agent/repository.py:4596`), and runs are enrolled in any order |
| `FrozenRoutesAgain` | `docs/updates/2026-07-27-001-multi-horizon-alpha-capital-router.md:182`: a plan reads the frozen instruction of the current evidence | freezing A, B and A again returns A's old row, and every plan reads B's |

Others were met while modelling.  The modules keep the properties that show them,
or the action that does; a reader who wants the counterexample states the property
in a configuration of its own.

| Where | The documents say | The code does |
|---|---|---|
| `background_jobs.py:319` (`BackgroundJobs`) | `DEPLOY.md:51`: after Redis is lost, unfinished tasks are dispatched again | a queued job with a cancel request is not listed and stays queued |
| `background_jobs.py`, `complete_job` (`BackgroundJobs`) | `ARCHITECTURE.md:103`: an old worker cannot commit after its lease has lapsed | it asks for the worker's name, never for the time; what it commits is still the latest claim's |
| `agent/workflow.py` (`AgentRuns`, `ContractDiffers`) | `README.md:662`: after a restart unfinished tasks resume and reuse their evidence | a run whose optional step succeeds only on resumption is failed by the contract check of the finished synthesis |
| `agent/worker.py:81` (`AgentRuns`, `Abandon`) | `README.md:662`: unfinished tasks resume after a restart | without one a run whose verdict the database refused stays `running`: threads take queued runs only |
| `agent/workflow.py` (`AgentRuns`) | `docs/industrial-agent-prd.md:1009`: no new tool starts after a cancellation | governance, decision and synthesis start without a look at the flag |
| `agent/repository.py:3395` (`OutcomeSchedules`, `WantedStaysDue`) | the durable-outcome-scheduler notes, line 159: the next run is now | the completion of a running evaluation overwrites it |
| `quant_factor_repository.py:917` (`FactorSync`) | `quant_factor_warehouse_service.py:675`: the old worker must not rewrite the recovered run | it does when its provider call raises |
| `quant_factor_warehouse_service.py:954` (`FactorSync`) | `ARCHITECTURE.md:66`: after the latest days the backfill is advanced | one exhausted target stops the plan and all plans behind it |
| `storage.py:3036` (`FundSwitches`) | a purchase is recorded against the latest quote | a quote may be replaced between the check and the event |
| `fund_switch_lifecycle_service.py:41`, `:733` (`FundSwitches`) | line 768 and `tests/test_fund_switch_lifecycle.py:433`: a second start is refused while a case is in progress | the lock is one process's and `DEPLOY.md:28` runs two; starts on both at once open two cases |
| `alpha_forecast_service.py:1345` (`AlphaForecasts`) | `docs/updates/2026-07-26-004`, line 191: the maintenance recovers and dispatches abnormal runs again | it does neither: a run whose message was never sent, or lost, or whose `mark_running` (`:796`) or `fail_run` raised, stays open and keeps its program from running again (`alpha_forecast_repository.py:668`, `:799`) |
| `quant_research_program_service.py:312` (`ResearchPrograms`) | `docs/updates/2026-07-26-001`, line 100: an orphan is what a crash left | a slow reconciler's cycle is closed as one too |
| `quant_selection_service.py:1474` (`ResearchPrograms`) | `docs/updates/2026-07-26-001`, line 97: a cycle whose binding fails is `failed` | with fewer than two targets the freezing raises, the reconciliation only reports it (`quant_research_program_service.py:442`), and the cycle is tried again for ever |
| `portfolio_capital_learning_service.py:1418` (`CapitalPlans`) | `docs/updates/2026-07-24-001`, line 150: the previous plan is closed before the next | the previous plan is read before the new one is frozen and may change between |
| `portfolio_capital_learning_service.py:1543` (`CapitalOutcomes`) | lessons are of the executions that stand | an observation that was under way is stored for the event before a correction |
| `opportunity_committee_repository.py:233` (`OpportunityCommittee`) | `docs/updates/2026-07-23-005`, line 206: freezing the same evidence again reuses its mandate | after A, B and A again the mandate of A is returned and B's stays the latest, so that none is shown as binding |
| `opportunity_committee_service.py:938` (`OpportunityCommittee`) | `docs/updates/2026-07-23-005`, line 214: the drift is from the previous mandate | requests that overlap measure it against the same older mandate, and the time of a row is taken before its transaction |
| `opportunity_regime_service.py:1117` (`OpportunityCommittee`) | the regime never raises the total risk, it only adds cash | leaving out a strategy that does not fit may select a less redundant set, whose budget is larger |
| `opportunity_committee_service.py:572` (`OpportunityCommittee`) | strategies rank by the lower bound of their excess return | a bound of exactly 0 ranks last (`or -1_000_000`) |
| `portfolio_capital_decision.py:1507` (`CapitalSizing`) | a plan fits the room the policy leaves | rounding to whole steps may exceed it by less than one |
| `hot_stocks.py:1247` (`HotStocks`) | `docs/updates/2026-07-22-004`, line 93: failures in a row open the circuit | concurrent failures are counted once |
| `availability_repository.py:384` (`Availability`) | `docs/updates/2026-07-23-001`, section 5: two successes in a row resolve an incident | each probe is compared with the row recorded last (`:384`), so that an incident which a late probe opens beside the one that row knows is found by none after it |
| `opportunity_repository.py:884` (`PaperBaskets`) | `README.md:168`: every basket is observed | the sweep takes the oldest 250 and may stay with them |
| `opportunity_profit_service.py:848` (`PaperBaskets`) | `README.md:170`: all baskets of a version count | the window of baskets that are read is limited |
| `alpha_forecast_engine.py:868` (`AlphaEngine`) | line 959: evaluation days are untouched by calibration | the calibrator that forecasts learns from every out-of-sample row |
| `routers/agent.py:661` (`AgentBatches`) | `README.md:505`: the number of active runs is limited | the limit is read before the row is written, so requests under way exceed it; a run that is repeated (`:1238`) is created without a look at it |
| `batch_purchase_execution.py:323` (`AgentBatches`) | a correction replaces what it corrects | the integrity check also reads superseded transactions, so deleting one blocks reconciliation for ever |
| `quant_selection_engine.py`, `_promotion_gate` (`SelectionScores`) | a drawdown within its limit passes | one of exactly 0 fails (`0.0 or -1e9`) |
| `quant_selection_service.py` (`SelectionRuns`) | a job tells how its run ended | a second, overlapping execution ends its job as failed although the run succeeded; a run whose starter dies before `bind_job` stays queued |
| `portfolio_review.py:221` (`LotLedger`) | the ledger never sells what it does not hold | concurrent entries are validated against the same rows, deletions are not validated, and a statement whose rows were entered by hand is stored twice |

## What is not modelled

- *Floating-point calculations* (`funds.py`, `analysis.py`, `fundamentals.py`,
  `ml_model.py`, most of `strategies/`, exposure and the decision twin): statistics
  of series, beyond TLC.  Where a calculation decides something (folds, weights,
  shares, gates, fees), its arithmetic is in the modules above.
- *External I/O*: providers, the LLM gateway, object storage, text recognition.
  Their answers are choices of the actions that ask.
- *Single-transaction records*: theses, uploads, watchlists, accounts.
- *Presentation and operations*: frontend, routers, migrations, deployment.
- Within modelled components, `PROJECT.json` says under `components` what is left
  out of each: contents of payloads and hashes throughout; plans that are paused,
  and conflict rows, of the factor warehouse; queued tools within agent runs;
  annualised rates and drawdowns of the ledger; performance statistics of the
  engines.

## Plan

Done: the modules above, each with its runs, and the theorems above, for every
harness.

Next, in this order:

1. The types of `Engines` and the money of a batch, with the laws of sums of
   `PortfolioProofs` in a module of their own, beside `Sums`.
2. The liveness properties as properties of smaller specifications: `LeasedOutcome`
   with fairness, implemented by each leased schedule.
3. Disclosures and prices of a fund switch, which the cases and their reviews take
   as choices.
