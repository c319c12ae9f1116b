----------------------------- MODULE CapitalPlans -----------------------------
(***************************************************************************)
(* The monthly capital plans of one user (src/backend/                     *)
(* portfolio_capital_decision.py, portfolio_capital_repository.py) and the *)
(* purchases he confirms for them (portfolio_capital_learning_service.py   *)
(* and _repository.py).  A plan is frozen from what was read in several    *)
(* transactions; its execution is a chain of events, each of which names   *)
(* all purchases so far and is appended after its predecessor was read.    *)
(*                                                                         *)
(* Every plan is for one candidate, and amounts are in percent of it.  The *)
(* gates on holdings, valuation, risk and strategies are one choice, and   *)
(* the outcomes that are observed later are left out.                      *)
(***************************************************************************)
EXTENDS Integers, FiniteSets, Sequences, FiniteSetsExt, Sums

CONSTANTS
  Purchases,  \* stock purchases the user may enter
  Amount,     \* what he paid for each, in percent of what a plan allots
  OffPlan,    \* those of another stock than the candidate
  Requests,   \* requests that are served at the same time
  MaxPlans, MaxMonths, MaxWorlds \* bounds

PlanIds == 1..MaxPlans
Months == 1..MaxMonths

VARIABLES
  month,      \* the current one
  world,      \* what a decision is made from apart from plans: a version
  ledger,     \* portfolio_transactions: the month of each, 0 if it is not there
  spent,      \* ids that were deleted, which are not given again
  plan,       \* portfolio_capital_decision_plans in the order of their creation
  events,     \* portfolio_capital_execution_events of each plan
  binding,    \* portfolio_capital_transaction_bindings, 0 if there is none
  request     \* what each request has read

vars == <<month, world, ledger, spent, plan, events, binding, request>>

NoPlan == [status |-> "none", month |-> 0, evidence |-> <<>>]
Idle == [op |-> "none", plan |-> 0, txs |-> {}, head |-> 0, evidence |-> <<>>, blocked |-> FALSE]

Init ==
  /\ month = 1 /\ world = 0
  /\ ledger = [t \in Purchases |-> 0] /\ spent = {}
  /\ plan = [p \in PlanIds |-> NoPlan] /\ events = [p \in PlanIds |-> <<>>]
  /\ binding = [t \in Purchases |-> 0]
  /\ request = [q \in Requests |-> Idle]

-----------------------------------------------------------------------------
\* Time passes, and the user or the market changes what plans are made from.
NextMonth ==
  /\ month < MaxMonths /\ month' = month + 1
  /\ UNCHANGED <<world, ledger, spent, plan, events, binding, request>>

Change ==
  /\ world < MaxWorlds /\ world' = world + 1
  /\ UNCHANGED <<month, ledger, spent, plan, events, binding, request>>

Enter(t) ==
  /\ ledger[t] = 0 /\ t \notin spent
  /\ ledger' = [ledger EXCEPT ![t] = month]
  /\ UNCHANGED <<month, world, spent, plan, events, binding, request>>

\* delete_portfolio_transaction, whatever is bound to it
Delete(t) ==
  /\ ledger[t] # 0
  /\ ledger' = [ledger EXCEPT ![t] = 0] /\ spent' = spent \cup {t}
  /\ UNCHANGED <<month, world, plan, events, binding, request>>

-----------------------------------------------------------------------------
(* What a plan has come to.                                                *)

Frozen == {p \in PlanIds : plan[p].status # "none"}
Ready == {p \in Frozen : plan[p].status = "ready"}

HeadNo(p) == Len(events[p])
Confirmed(p) == IF events[p] = <<>> THEN {} ELSE events[p][HeadNo(p)].txs

Paid(txs) == Sum(Amount, txs)

\* _reconcile: more than 30 percent off, or 5 off plan, is a deviation; less
\* than 85 is partial.
Reconciled(txs) ==
  LET on == Paid(txs \ OffPlan)
      off == Paid(txs \cap OffPlan)
      deviation == off + IF on > 100 THEN on - 100 ELSE 100 - on
  IN CASE off > 5 \/ on + off > 115 \/ deviation > 30 -> "deviated"
       [] ~(off > 5 \/ on + off > 115 \/ deviation > 30) /\ on < 85 -> "partial"
       [] OTHER -> "reconciled"

\* verify_execution_event
Intact(p) == \A t \in Confirmed(p) : ledger[t] # 0

\* _execution_lifecycle
Lifecycle(p) ==
  CASE events[p] = <<>> -> "awaiting_execution"
    [] events[p] # <<>> /\ ~Intact(p) -> "integrity_failed"
    [] OTHER -> events[p][HeadNo(p)].status

Open(p) == Lifecycle(p) \in {"awaiting_execution", "partial", "deviated", "integrity_failed"}

\* monthly_execution_summary
OfMonth(m) == {p \in Ready : plan[p].month = m}
Settled(m) == Sum([p \in OfMonth(m) |-> Paid(Confirmed(p))], OfMonth(m))
Summary(m) == {<<p, HeadNo(p), Lifecycle(p)>> : p \in OfMonth(m)}
Blocked(m) == OfMonth(m) # {} /\ Open(Max(OfMonth(m)))

-----------------------------------------------------------------------------
(* Freezing.                                                               *)

Begin(q, r) ==
  /\ request[q] = Idle /\ request' = [request EXCEPT ![q] = r]
  /\ UNCHANGED <<month, world, ledger, spent, plan, events, binding>>

\* _assemble
ReadFreeze(q) ==
  Begin(q, [Idle EXCEPT !.op = "freeze", !.evidence = <<month, world, Summary(month)>>,
                        !.blocked = Blocked(month)])

Answered(q) == request' = [request EXCEPT ![q] = Idle]

\* create_plan, in which equal evidence is the same plan.  The month is the
\* one in which the request began.
Freeze(q) ==
  /\ request[q].op = "freeze"
  /\ LET evidence == request[q].evidence IN
     \/ /\ \/ request[q].blocked /\ plan[Max(Frozen)].status = "ready"
           \/ \E p \in Frozen : plan[p].evidence = evidence
        /\ UNCHANGED plan
     \/ /\ ~(request[q].blocked /\ plan[Max(Frozen)].status = "ready")
        /\ \A p \in Frozen : plan[p].evidence # evidence
        /\ \E p \in PlanIds, status \in {"ready", "watch", "blocked"} :
             /\ Frozen = 1..(p - 1)
             /\ request[q].blocked => status = "blocked"
             /\ plan' = [plan EXCEPT ![p] =
                  [status |-> status, month |-> evidence[1], evidence |-> evidence]]
  /\ Answered(q)
  /\ UNCHANGED <<month, world, ledger, spent, events, binding>>

-----------------------------------------------------------------------------
(* Execution.                                                              *)

\* Within 45 days of the decision.
Eligible(p, t) == ledger[t] \in {plan[p].month, plan[p].month + 1}

Bindable(p, t) == binding[t] \in {0, p}

\* create_execution_event of the service: purchases may only be added.
ReadConfirm(q, p, txs) ==
  /\ p \in Ready /\ Confirmed(p) \subseteq txs /\ txs # Confirmed(p)
  /\ \A t \in txs : Eligible(p, t) /\ Bindable(p, t)
  /\ Begin(q, [Idle EXCEPT !.op = "confirm", !.plan = p, !.txs = txs, !.head = HeadNo(p)])

\* review_execution_deviation
ReadReview(q, p) ==
  /\ p \in Ready /\ events[p] # <<>> /\ Lifecycle(p) = "deviated"
  /\ Begin(q, [Idle EXCEPT !.op = "review", !.plan = p, !.txs = Confirmed(p), !.head = HeadNo(p)])

\* Mutant: the head of the chain is not compared.
UnchangedUnread(q) == TRUE

Unchanged(q) == HeadNo(request[q].plan) = request[q].head

\* Mutant: bindings are looked at only when the request begins.
FreeUnread(q) == TRUE

Free(q) == \A t \in request[q].txs : Bindable(request[q].plan, t)

\* create_execution_event of the repository compares the head and the bindings
\* again, and leaves the ledger as it was read.
Record(q) ==
  /\ request[q].op \in {"confirm", "review"} /\ Unchanged(q) /\ Free(q)
  /\ LET p == request[q].plan
         txs == request[q].txs
         status == IF request[q].op = "review" THEN "reviewed" ELSE Reconciled(txs)
     IN /\ events' = [events EXCEPT ![p] = Append(@, [txs |-> txs, status |-> status])]
        /\ binding' = [t \in Purchases |-> IF t \in txs THEN p ELSE binding[t]]
  /\ Answered(q)
  /\ UNCHANGED <<month, world, ledger, spent, plan>>

\* The conflict, or the request fails before.
Refuse(q) ==
  /\ request[q] # Idle /\ Answered(q)
  /\ UNCHANGED <<month, world, ledger, spent, plan, events, binding>>

-----------------------------------------------------------------------------
Next ==
  \/ NextMonth \/ Change
  \/ \E t \in Purchases : Enter(t) \/ Delete(t)
  \/ \E q \in Requests :
       \/ ReadFreeze(q) \/ Freeze(q) \/ Record(q) \/ Refuse(q)
       \/ \E p \in PlanIds : ReadReview(q, p) \/ \E txs \in SUBSET Purchases : ReadConfirm(q, p, txs)

Spec == Init /\ [][Next]_vars

-----------------------------------------------------------------------------
(* Properties.                                                             *)

\* Everything has its type.
TypeOK ==
  /\ month \in Months /\ world \in 0..MaxWorlds
  /\ ledger \in [Purchases -> 0..MaxMonths] /\ spent \subseteq Purchases
  /\ binding \in [Purchases -> 0..MaxPlans]
  /\ \A p \in PlanIds :
       /\ plan[p].status \in {"none", "ready", "watch", "blocked"} /\ plan[p].month \in 0..MaxMonths
       /\ \A n \in 1..HeadNo(p) :
            events[p][n].status \in {"partial", "reconciled", "deviated", "reviewed"}
  /\ \A q \in Requests : request[q].op \in {"none", "freeze", "confirm", "review"}

\* A purchase is confirmed for one plan, and only while it stands there: two
\* requests that both saw it free cannot both have it.
ServesOnePlan ==
  \A p \in PlanIds : \A n \in 1..HeadNo(p) : \A t \in events[p][n].txs : binding[t] = p

\* What was confirmed of a month's budget stays taken, whatever is deleted
\* from the ledger and however confirmations and reviews overlap.
StaysTaken == \A m \in Months : Settled(m)' >= Settled(m)

BudgetStaysTaken == [][StaysTaken]_vars

\* A deviation is reviewed as it is: nothing was confirmed between.
ReviewIsOfWhatStands ==
  \A p \in PlanIds : \A n \in 1..HeadNo(p) :
    events[p][n].status = "reviewed" =>
      n > 1 /\ events[p][n - 1].status = "deviated" /\ events[p][n].txs = events[p][n - 1].txs

\* docs/updates/2026-07-24-001-capital-plan-execution-learning.md: no plan is
\* added while the previous one is neither reconciled nor reviewed.
PreviousPlanIsClosed ==
  [][\A p \in Ready' \ Ready : Ready # {} => ~Open(Max(Ready))]_vars
=============================================================================
