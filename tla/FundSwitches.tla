----------------------------- MODULE FundSwitches -----------------------------
(***************************************************************************)
(* The records a user keeps of purchases that already happened: the cases  *)
(* that replace one fund by another (src/backend/                          *)
(* fund_switch_lifecycle_service.py, tables of storage.py) and the batches *)
(* that buy several funds (agent/batch_purchase_*.py, tables of            *)
(* agent/repository.py).  Both bind transactions of the same ledger        *)
(* (portfolio_review.py), whose rows the user adds and deletes.            *)
(*                                                                         *)
(* All cases here are of one holding and one candidate, which is also a    *)
(* fund of the batches, and every transaction is of one unit.  Events are  *)
(* appended in a transaction; what a case's request reads before it, it    *)
(* reads outside, so that requests interleave, of one replica or of two    *)
(* (DEPLOY.md:28).                                                         *)
(***************************************************************************)
EXTENDS Naturals, FiniteSets

CONSTANTS
  Sales,      \* sales of the old fund
  Rebuys,     \* purchases of the old fund
  Buys,       \* purchases of the candidate
  Cases, Batches, Reviews,
  Requests,   \* requests that are served at the same time
  Replicas,   \* API processes that serve them
  None,
  MaxQuotes, MaxPreflights, MaxDeletions \* bounds

Ledger == Sales \cup Rebuys \cup Buys

ASSUME NoneAssumption == None \notin Ledger \cup Cases \cup Batches \cup Reviews
ASSUME BoundAssumption ==
  MaxQuotes \in Nat /\ MaxPreflights \in Nat /\ MaxDeletions \in Nat

VARIABLES
  rows,       \* portfolio_transactions
  deleted,    \* ids that were deleted, which are not given again
  agreed,     \* whether the confirmed shares of the holdings reflect the ledger
  review,     \* fund_switch_execution_reviews: the ledger each is bound to
  case,       \* fund_switch_lifecycle_events
  batch,      \* agent_batch_purchase_preflight_events and _execution_events
  binding,    \* agent_batch_purchase_transaction_bindings
  request     \* what each request has read

vars == <<rows, deleted, agreed, review, case, batch, binding, request>>

userVars == <<rows, deleted, agreed, review>>

NoCase ==
  [stage |-> "none", sale |-> None, review |-> None, quotes |-> 0, ready |-> FALSE,
   fresh |-> FALSE, buy |-> None, under |-> 0, closed |-> None, outcome |-> "none",
   by |-> None, known |-> {}] \* history: the replica of its start, and the cases it saw

NoBatch == [preflights |-> 0, ready |-> FALSE, under |-> 0, bought |-> {}, stage |-> "none"]

Idle ==
  [op |-> "none", case |-> None, tx |-> None, review |-> None, seen |-> None, fresh |-> FALSE,
   at |-> None]

Init ==
  /\ rows = {} /\ deleted = {} /\ agreed = TRUE
  /\ review = [r \in Reviews |-> None]
  /\ case = [c \in Cases |-> NoCase]
  /\ batch = [b \in Batches |-> NoBatch] /\ binding = [t \in Buys |-> None]
  /\ request = [q \in Requests |-> Idle]

-----------------------------------------------------------------------------
(* The ledger.  One unit of the old fund is there from the start.          *)

Selected(ledger) == ledger \cap (Sales \cup Rebuys)

Open(ledger) == 1 + Cardinality(ledger \cap Rebuys) - Cardinality(ledger \cap Sales)

\* create_transaction: a sale needs something left to sell.
Add(t) ==
  /\ t \notin rows \cup deleted
  /\ t \in Sales => Open(rows) > 0
  /\ rows' = rows \cup {t} /\ agreed' = FALSE
  /\ UNCHANGED <<deleted, review, case, batch, binding, request>>

\* delete_portfolio_transaction, whatever is bound to it
Delete(t) ==
  /\ t \in rows /\ Cardinality(deleted) < MaxDeletions
  /\ rows' = rows \ {t} /\ deleted' = deleted \cup {t} /\ agreed' = FALSE
  /\ UNCHANGED <<review, case, batch, binding, request>>

\* The user confirms the shares he holds, or activates another profile: what a
\* quote was evaluated with is no longer current.
ConfirmOrProfile ==
  /\ agreed' \in {agreed, TRUE}
  /\ case' = [c \in Cases |-> [case[c] EXCEPT !.fresh = FALSE]]
  /\ request' = [q \in Requests |-> [request[q] EXCEPT !.fresh = FALSE]]
  /\ UNCHANGED <<rows, deleted, review, batch, binding>>

\* The cost review, its platform quote and the execution review of one sale of
\* all there is, each bound to the ledger it was made from.
Review(r) ==
  /\ review[r] = None /\ Open(rows) = 1 /\ agreed
  /\ review' = [review EXCEPT ![r] = Selected(rows)]
  /\ UNCHANGED <<rows, deleted, agreed, case, batch, binding, request>>

-----------------------------------------------------------------------------
(* Cases.                                                                  *)

Started == {c \in Cases : case[c].stage # "none"}

\* _event_transaction_integrity: what a case binds is still in the ledger.
Intact(c) == case[c].sale \in rows /\ (case[c].buy = None \/ case[c].buy \in rows)

\* _reconciliation_preview
Reconciles == Open(rows) = 0 /\ agreed

\* _reconciliation_binding_state
StillReconciled(c) == Reconciles /\ case[c].closed = rows

\* The status decorate_case gives to a case.
Status(c) ==
  CASE ~Intact(c) -> "integrity_failed"
    [] Intact(c) /\ case[c].stage = "reconciled" /\ case[c].outcome # "none" -> case[c].outcome
    [] Intact(c) /\ case[c].stage = "reconciled" /\ case[c].outcome = "none" ->
         IF StillReconciled(c) THEN "completed_pending" ELSE "completed_blocked"
    [] Intact(c) /\ case[c].stage = "requoted" ->
         IF case[c].ready /\ case[c].fresh THEN "ready" ELSE "superseded"
    [] OTHER -> case[c].stage

\* TERMINAL_CASE_STATUSES
Terminal(c) == Status(c) \in {"completed_available", "completed_blocked", "integrity_failed"}

BoundSale(s) == \E c \in Started : case[c].sale = s
BoundBuy(t)  == \E c \in Started : case[c].buy = t

ReadAt(q, op, c, t, r, seen, x) ==
  /\ request[q] = Idle
  /\ request' = [request EXCEPT ![q] =
       [op |-> op, case |-> c, tx |-> t, review |-> r, seen |-> seen, fresh |-> TRUE, at |-> x]]
  /\ UNCHANGED <<userVars, case, batch, binding>>

\* Only a start holds a lock, so that only there the replica matters.
Read(q, op, c, t, r, seen) == ReadAt(q, op, c, t, r, seen, None)

Starting == {q \in Requests : request[q].op = "start"}

\* The checks of a start: the other cases are over, review and sale unused.
Startable(c, s, r) ==
  /\ c \notin Started \cup {request[q].case : q \in Starting}
  /\ \A d \in Started : Terminal(d) /\ case[d].review # r
  /\ review[r] # None /\ s \in rows /\ ~BoundSale(s)
  /\ Selected(rows) \ {s} = review[r]

\* Mutant: the checks of a start are not under a lock.
ReadStartUnlocked(q, c, s, r, x) ==
  Startable(c, s, r) /\ ReadAt(q, "start", c, s, r, Started, x)

\* create_redemption_settlement holds _CASE_START_LOCK from here to its append:
\* a lock of its process, which does not hold up a start of another replica.
ReadStart(q, c, s, r, x) ==
  /\ \A p \in Starting : request[p].at # x
  /\ Startable(c, s, r)
  /\ ReadAt(q, "start", c, s, r, Started, x)

\* create_purchase_requote reads profile and holdings to evaluate the gates.
ReadRequote(q, c) ==
  /\ case[c].stage \in {"settled", "requoted"}
  /\ Read(q, "requote", c, None, None, None)

\* record_purchase
ReadPurchase(q, c, t) ==
  /\ case[c].stage = "requoted" /\ Status(c) = "ready"
  /\ t \in rows /\ ~BoundBuy(t)
  /\ Read(q, "purchase", c, t, None, case[c].quotes)

\* reconcile_holdings
ReadReconcile(q, c) ==
  /\ case[c].stage = "purchased" /\ Reconciles
  /\ Read(q, "reconcile", c, None, None, rows)

\* create_attribution_snapshot
ReadAttribution(q, c) ==
  /\ case[c].stage = "reconciled" /\ Intact(c) /\ StillReconciled(c)
  /\ Read(q, "attribute", c, None, None, None)

Answered(q) == request' = [request EXCEPT ![q] = Idle]

\* Mutant: there are no unique indexes.
UnusedUnchecked(q) == request[q].op \in {"start", "purchase"}

\* The unique indexes on review, sale and purchase of the events.
Unused(q) ==
  \/ /\ request[q].op = "start" /\ ~BoundSale(request[q].tx)
     /\ \A d \in Started : case[d].review # request[q].review
  \/ request[q].op = "purchase" /\ ~BoundBuy(request[q].tx)

\* append_fund_switch_lifecycle_event checks the order of the events and the
\* indexes again, and nothing else that the request has read.
AppendEvent(q) ==
  LET c == request[q].case IN
  /\ \/ /\ request[q].op = "start" /\ Unused(q)
        /\ case' = [case EXCEPT ![c] = [NoCase EXCEPT !.stage = "settled",
                                        !.sale = request[q].tx, !.review = request[q].review,
                                        !.by = request[q].at, !.known = request[q].seen]]
     \/ /\ request[q].op = "requote" /\ case[c].stage \in {"settled", "requoted"}
        /\ case[c].quotes < MaxQuotes
        /\ \E ready \in BOOLEAN :
             case' = [case EXCEPT ![c].stage = "requoted", ![c].quotes = @ + 1,
                                  ![c].ready = ready, ![c].fresh = request[q].fresh]
     \/ /\ request[q].op = "purchase" /\ case[c].stage = "requoted" /\ Unused(q)
        /\ case' = [case EXCEPT ![c].stage = "purchased", ![c].buy = request[q].tx,
                                ![c].under = request[q].seen]
     \/ /\ request[q].op = "reconcile" /\ case[c].stage = "purchased"
        /\ case' = [case EXCEPT ![c].stage = "reconciled", ![c].closed = request[q].seen]
     \/ /\ request[q].op = "attribute"
        /\ \E outcome \in {"completed_available", "completed_blocked"} :
             case' = [case EXCEPT ![c].outcome = outcome]
  /\ Answered(q)
  /\ UNCHANGED <<userVars, batch, binding>>

\* The append raises, or a check of the request that is not modelled fails.
Refuse(q) ==
  /\ request[q] # Idle
  /\ Answered(q)
  /\ UNCHANGED <<userVars, case, batch, binding>>

-----------------------------------------------------------------------------
(* Batches: everything is checked again in the transaction of the append.  *)

\* append_batch_purchase_preflight_event
Preflight(b) ==
  /\ batch[b].stage = "none" /\ batch[b].preflights < MaxPreflights
  /\ \E ready \in BOOLEAN :
       batch' = [batch EXCEPT ![b].preflights = @ + 1, ![b].ready = ready]
  /\ UNCHANGED <<userVars, case, binding, request>>

\* The checks of append_batch_purchase_execution_event on each transaction.
Bindable(b, t) == t \in rows /\ ~BoundBuy(t) /\ binding[t] \in {None, b}

\* record_batch_purchase_execution, also to correct what was recorded
RecordPurchases(b, bought) ==
  /\ batch[b].ready /\ batch[b].stage \in {"none", "recorded"}
  /\ \A t \in bought : Bindable(b, t)
  /\ batch' = [batch EXCEPT ![b].stage = "recorded", ![b].bought = bought,
                            ![b].under = batch[b].preflights]
  /\ binding' = [t \in Buys |-> IF t \in bought THEN b ELSE binding[t]]
  /\ UNCHANGED <<userVars, case, request>>

\* reconcile_batch_purchase_holdings
ReconcileBatch(b) ==
  /\ batch[b].stage = "recorded" /\ batch[b].bought # {}
  /\ \A t \in batch[b].bought : Bindable(b, t)
  /\ agreed
  /\ batch' = [batch EXCEPT ![b].stage = "reconciled"]
  /\ UNCHANGED <<userVars, case, binding, request>>

-----------------------------------------------------------------------------
User ==
  \/ ConfirmOrProfile
  \/ \E t \in Ledger : Add(t) \/ Delete(t)
  \/ \E r \in Reviews : Review(r)

CaseNext ==
  \E q \in Requests :
    \/ AppendEvent(q) \/ Refuse(q)
    \/ \E c \in Cases :
         \/ ReadRequote(q, c) \/ ReadReconcile(q, c) \/ ReadAttribution(q, c)
         \/ \E t \in Buys : ReadPurchase(q, c, t)
         \/ \E s \in Sales, r \in Reviews, x \in Replicas : ReadStart(q, c, s, r, x)

BatchNext ==
  \E b \in Batches :
    \/ Preflight(b) \/ ReconcileBatch(b)
    \/ \E bought \in SUBSET Buys : RecordPurchases(b, bought)

Next == User \/ CaseNext \/ BatchNext

Spec == Init /\ [][Next]_vars

-----------------------------------------------------------------------------
(* Properties.                                                             *)

\* Everything has its type.
TypeOK ==
  /\ rows \subseteq Ledger /\ deleted \subseteq Ledger /\ agreed \in BOOLEAN
  /\ \A c \in Cases :
       /\ case[c].stage \in {"none", "settled", "requoted", "purchased", "reconciled"}
       /\ case[c].quotes \in 0..MaxQuotes /\ case[c].under \in 0..MaxQuotes
  /\ \A b \in Batches : batch[b].stage \in {"none", "recorded", "reconciled"}
  /\ binding \in [Buys -> Batches \cup {None}]
  /\ \A q \in Requests :
       request[q].op \in {"none", "start", "requote", "purchase", "reconcile", "attribute"}

\* No review, sale or purchase is the evidence of two cases, and no purchase
\* that of two batches, however requests overlap: what a request read about a
\* transaction may be over when it appends.
EvidenceIsUsedOnce ==
  /\ \A c, d \in Started : c # d =>
       /\ case[c].review # case[d].review /\ case[c].sale # case[d].sale
       /\ case[c].buy = None \/ case[c].buy # case[d].buy
  /\ \A b \in Batches : \A t \in batch[b].bought : binding[t] = b

IsOpen(c) == ~Terminal(c) /\ case[c].stage # "reconciled"

\* The holding is being replaced by the candidate once at a time: two cases wait
\* for their purchase or reconciliation only if they were started at once on two
\* replicas, so that neither start saw the other's case, whatever happened since
\* to the transactions of either.
OneOpenCase ==
  \A c, d \in {e \in Started : IsOpen(e)} :
    c # d => case[c].by # case[d].by /\ c \notin case[d].known

\* The purchases a batch has recorded and reconciled were made under its
\* latest preflight, and that one passed.
ExecutionRestsOnLatestPreflight ==
  \A b \in Batches : batch[b].stage # "none" =>
    batch[b].ready /\ batch[b].under = batch[b].preflights

\* README.md:345: a transaction is not bound to a batch and to a fund switch.
TransactionBoundOnce == \A t \in Buys : ~(BoundBuy(t) /\ binding[t] # None)

\* docs/updates/2026-07-15-007-fund-switch-lifecycle.md: the record of a
\* purchase is bound to the latest quote of its case.
PurchaseNamesLatestQuote ==
  \A c \in Cases : case[c].stage \in {"purchased", "reconciled"} => case[c].under = case[c].quotes
=============================================================================
