---------------------------- MODULE AgentBatches ----------------------------
(***************************************************************************)
(* Batches of fund research and what follows from one: the shares of one   *)
(* budget (agent/batch_allocations.py), the reviews before the purchases   *)
(* (agent/batch_purchase_preflight.py), the purchases that were made and   *)
(* their reconciliation with the holdings (agent/batch_purchase_execution  *)
(* .py) and what came of them (agent/batch_purchase_attribution.py).  The  *)
(* tables and appends are those of agent/repository.py, the limit on       *)
(* active runs that of routers/agent.py.                                   *)
(*                                                                         *)
(* A client reads, computes, calls providers, and appends in a transaction *)
(* of its own: anything may happen in between.  Runs execute as AgentRuns  *)
(* says; of the portfolio only the version of the holdings, the purchases  *)
(* in the ledger and whether the two agree are of interest.  The policy is *)
(* compared wherever the holdings are, and not modelled on its own.        *)
(***************************************************************************)
EXTENDS Naturals, Sequences, FiniteSets

CONSTANTS
  Batches,      \* by the Idempotency-Key of their request
  Funds,        \* of a batch: sequence numbers, codes
  Singles,      \* runs that are of no batch
  Reruns,       \* runs that repeat another one
  Clients,      \* requests that are being answered
  Trades,       \* purchases a user may record in his ledger
  Quotes,       \* what a platform may quote
  None,
  MaxActive,    \* AGENT_MAX_PENDING_RUNS
  MaxVersion,   \* bound: the holdings change so often
  MaxReviews, MaxBuys, MaxResults   \* bounds: the lengths of the histories

VARIABLES
  run,         \* agent_runs, agent_batch_items: status, and of which holdings
  version, ledger, agrees,  \* holdings, transactions, and whether they agree
  gone,        \* the trades that were deleted
  allocation,  \* agent_batch_allocation_events
  reviews,     \* agent_batch_purchase_preflight_events
  expired,     \* the latest review's quotes are older than 24 hours
  buys,        \* agent_batch_purchase_execution_events
  owner,       \* agent_batch_purchase_transaction_bindings
  results,     \* agent_batch_purchase_attribution_snapshots
  client       \* what a request has read

portfolio == <<version, agrees, ledger, gone>>
tables == <<allocation, reviews, expired, buys, owner, results>>
vars == <<run, portfolio, tables, client>>

Items(b) == {b} \X Funds
Runs == (Batches \X Funds) \cup Singles \cup Reruns
Idle == [op |-> "none"]

Init ==
  /\ run = [r \in Runs |-> [status |-> "none", basis |-> 0]]
  /\ version = 0 /\ agrees = TRUE /\ ledger = {} /\ gone = {}
  /\ allocation = [b \in Batches |-> None]
  /\ reviews = [b \in Batches |-> <<>>] /\ expired = [b \in Batches |-> FALSE]
  /\ buys = [b \in Batches |-> <<>>]
  /\ owner = [t \in Trades |-> None]
  /\ results = [b \in Batches |-> <<>>]
  /\ client = [c \in Clients |-> Idle]

-----------------------------------------------------------------------------
(* Runs, and the limit on those that are active.                           *)

Ended == {"completed", "partial", "failed", "cancelled", "abstained"}
Active == {r \in Runs : run[r].status \in {"queued", "running"}}
Queued == [status |-> "queued", basis |-> 0]

Terminal(b) == \A r \in Items(b) : run[r].status \in Ended

\* _batch_status
BatchStatus(b) ==
  LET has == {run[r].status : r \in Items(b)} IN
  IF has \subseteq Ended
  THEN IF has \in {{"completed"}, {"failed"}, {"cancelled"}}
       THEN CHOOSE s \in has : TRUE
       ELSE "partial"
  ELSE IF has = {"queued"} THEN "queued" ELSE "running"

\* create_agent_run counts before the transaction that creates the run.
Count(c) ==
  /\ client[c] = Idle /\ Cardinality(Active) < MaxActive
  /\ client' = [client EXCEPT ![c] = [op |-> "single"]]
  /\ UNCHANGED <<run, portfolio, tables>>

CreateSingle(c, r) ==
  /\ client[c].op = "single" /\ run[r].status = "none"
  /\ run' = [run EXCEPT ![r] = Queued]
  /\ client' = [client EXCEPT ![c] = Idle]
  /\ UNCHANGED <<portfolio, tables>>

\* rerun_agent_run looks at the run it repeats, which has ended for good, and does
\* not count.
Rerun(r) ==
  /\ run[r].status = "none" /\ \E source \in Runs : run[source].status \in Ended
  /\ run' = [run EXCEPT ![r] = Queued]
  /\ UNCHANGED <<portfolio, tables, client>>

\* create_batch counts in its transaction, the runs of the batch included.
Fits(b) == Cardinality(Active) + Cardinality(Funds) <= MaxActive

CreateBatch(b) ==
  /\ \A r \in Items(b) : run[r].status = "none"
  /\ Fits(b)
  /\ run' = [r \in Runs |-> IF r \in Items(b) THEN Queued ELSE run[r]]
  /\ UNCHANGED <<portfolio, tables, client>>

\* A result is of the holdings the run has read.
RunGoes(r) ==
  /\ \/ run[r].status = "queued" /\ run' = [run EXCEPT ![r].status = "running"]
     \/ /\ run[r].status = "running"
        /\ \E s \in {"completed", "failed"} :
             run' = [run EXCEPT ![r] = [status |-> s, basis |-> version]]
  /\ UNCHANGED <<portfolio, tables, client>>

-----------------------------------------------------------------------------
(* The portfolio, and time.                                                *)

ConfirmHoldings ==
  /\ version < MaxVersion /\ version' = version + 1 /\ agrees' \in BOOLEAN
  /\ UNCHANGED <<run, ledger, gone, tables, client>>

Add(t) ==
  /\ t \notin ledger \cup gone /\ ledger' = ledger \cup {t} /\ agrees' \in BOOLEAN
  /\ UNCHANGED <<run, version, gone, tables, client>>

Delete(t) ==
  /\ t \in ledger /\ ledger' = ledger \ {t} /\ gone' = gone \cup {t} /\ agrees' \in BOOLEAN
  /\ UNCHANGED <<run, version, tables, client>>

Expire(b) ==
  /\ reviews[b] # <<>> /\ ~expired[b]
  /\ expired' = [expired EXCEPT ![b] = TRUE]
  /\ UNCHANGED <<run, portfolio, allocation, reviews, buys, owner, results, client>>

-----------------------------------------------------------------------------
(* One budget is shared out among the funds of a batch, once.              *)

Basis(b) == {run[r].basis : r \in Items(b)}

\* Mutant: the runs may have been of different portfolios.
ShareableAnyway(b) == \A r \in Items(b) : run[r].status = "completed"

\* The gates of evaluate_portfolio_batch_allocation: every run brought its
\* evidence, and all are of one portfolio and one policy.
Shareable(b) == ShareableAnyway(b) /\ Cardinality(Basis(b)) = 1

\* create_batch_allocation, create_batch_allocation_event: the append looks at
\* the runs again, and they are as they were.
Allocate(b) ==
  /\ allocation[b] = None /\ Terminal(b)
  /\ \E ready \in {FALSE, Shareable(b)} :
       allocation' = [allocation EXCEPT
         ![b] = [ready |-> ready, basis |-> CHOOSE v \in Basis(b) : TRUE]]
  /\ UNCHANGED <<run, portfolio, reviews, expired, buys, owner, results, client>>

-----------------------------------------------------------------------------
(* The histories that follow.  A request names the event it comes after.   *)

Last(s) == s[Len(s)]
Reads(c, form) ==
  /\ client[c] = Idle /\ client' = [client EXCEPT ![c] = form]
  /\ UNCHANGED <<run, portfolio, tables>>
Answers(c) == client' = [client EXCEPT ![c] = Idle] /\ UNCHANGED <<run, portfolio>>
Answered(c) == Answers(c) /\ UNCHANGED tables

\* The request was appended already: its event is the answer.
Repeats(history, form) ==
  Len(history) > form.after /\ history[form.after + 1].request = form.event.request

\* create_batch_purchase_preflight; whether the portfolio is still the one the
\* shares were computed for is part of what is stored
ReadReview(c, b, q) ==
  /\ allocation[b] # None /\ allocation[b].ready
  /\ \E passes \in BOOLEAN :
       Reads(c, [op |-> "review", batch |-> b, after |-> Len(reviews[b]),
                 event |-> [request |-> q, version |-> version,
                            ready |-> passes /\ version = allocation[b].basis]])

\* Mutant: a review is appended although purchases are recorded.
MayReviewAlways(b, form) == Len(reviews[b]) = form.after

MayReview(b, form) == buys[b] = <<>> /\ Len(reviews[b]) = form.after

AppendReview(c) ==
  LET form == client[c] b == form.batch IN
  /\ form.op = "review" /\ Len(reviews[b]) < MaxReviews
  /\ ~Repeats(reviews[b], form) /\ MayReview(b, form)
  /\ reviews' = [reviews EXCEPT ![b] = Append(@, form.event)]
  /\ expired' = [expired EXCEPT ![b] = FALSE]
  /\ Answers(c) /\ UNCHANGED <<allocation, buys, owner, results>>

Free(t, b) == t \in ledger /\ owner[t] \in {None, b}

\* transaction_integrity_snapshot: of every purchase ever recorded, also of
\* those a correction has replaced
Intact(b) ==
  \A i \in DOMAIN buys[b] : buys[b][i].trades \subseteq {t \in ledger : owner[t] = b}

\* record_batch_purchase_execution, for the first time or as a correction
ReadRecord(c, b, trades) ==
  /\ reviews[b] # <<>> /\ Last(reviews[b]).ready
  /\ \A t \in trades : Free(t, b)
  /\ Reads(c, [op |-> "buy", batch |-> b, after |-> Len(buys[b]),
               event |-> [request |-> <<trades>>, kind |-> "recorded", trades |-> trades,
                          review |-> Len(reviews[b])]])

\* reconcile_batch_purchase_holdings
ReadReconcile(c, b) ==
  /\ buys[b] # <<>> /\ Last(buys[b]).kind = "recorded" /\ Last(buys[b]).trades # {}
  /\ Intact(b) /\ agrees
  /\ Reads(c, [op |-> "buy", batch |-> b, after |-> Len(buys[b]),
               event |-> [request |-> <<version, ledger>>, kind |-> "reconciled",
                          trades |-> Last(buys[b]).trades, review |-> Len(reviews[b])]])

\* Mutant: what is reconciled may be corrected.
MayBuyAgain(b, form) ==
  /\ Len(buys[b]) = form.after /\ Len(reviews[b]) = form.event.review
  /\ \A t \in form.event.trades : Free(t, b)

MayBuy(b, form) ==
  /\ MayBuyAgain(b, form)
  /\ buys[b] # <<>> => Last(buys[b]).kind = "recorded"

\* append_batch_purchase_execution_event
AppendBuy(c) ==
  LET form == client[c] b == form.batch IN
  /\ form.op = "buy" /\ Len(buys[b]) < MaxBuys
  /\ ~Repeats(buys[b], form) /\ MayBuy(b, form)
  /\ buys' = [buys EXCEPT ![b] = Append(@, form.event)]
  /\ owner' = [t \in Trades |-> IF t \in form.event.trades THEN b ELSE owner[t]]
  /\ Answers(c) /\ UNCHANGED <<allocation, reviews, expired, results>>

\* create_batch_purchase_attribution_snapshot
ReadResult(c, b) ==
  /\ buys[b] # <<>> /\ Last(buys[b]).kind = "reconciled"
  /\ Intact(b) /\ agrees
  /\ Reads(c, [op |-> "result", batch |-> b, after |-> Len(results[b]),
               event |-> [request |-> <<version, ledger>>, of |-> Len(buys[b]),
                          trades |-> buys[b][Len(buys[b]) - 1].trades]])

\* append_batch_purchase_attribution_snapshot
AppendResult(c) ==
  LET form == client[c] b == form.batch IN
  /\ form.op = "result" /\ Len(results[b]) < MaxResults
  /\ ~Repeats(results[b], form)
  /\ Len(results[b]) = form.after /\ Len(buys[b]) = form.event.of
  /\ results' = [results EXCEPT ![b] = Append(@, form.event)]
  /\ Answers(c) /\ UNCHANGED <<allocation, reviews, expired, buys, owner>>

\* The append raises or finds its request, or the client is gone.
Refuse(c) == client[c] # Idle /\ Answered(c)

-----------------------------------------------------------------------------
Next ==
  \/ \E b \in Batches : CreateBatch(b) \/ Allocate(b) \/ Expire(b)
  \/ \E r \in Runs : RunGoes(r)
  \/ \E r \in Reruns : Rerun(r)
  \/ ConfirmHoldings \/ \E t \in Trades : Add(t) \/ Delete(t)
  \/ \E c \in Clients :
       \/ Count(c) \/ AppendReview(c) \/ AppendBuy(c) \/ AppendResult(c) \/ Refuse(c)
       \/ \E r \in Singles : CreateSingle(c, r)
       \/ \E b \in Batches :
            \/ ReadReconcile(c, b) \/ ReadResult(c, b)
            \/ \E q \in Quotes : ReadReview(c, b, q)
            \/ \E trades \in SUBSET Trades : ReadRecord(c, b, trades)

Spec == Init /\ [][Next]_vars

-----------------------------------------------------------------------------
(* What is shown.                                                          *)

\* decorate_batch_purchase_preflight
ReviewShown(b) ==
  LET latest == Last(reviews[b]) IN
  IF latest.version # version THEN "superseded"
  ELSE IF expired[b] THEN "expired"
  ELSE IF latest.ready THEN "ready" ELSE "blocked"

\* decorate_batch_purchase_execution
PurchaseShown(b) ==
  CASE ~Intact(b) -> "integrity_failed"
    [] Intact(b) /\ Last(buys[b]).kind = "recorded" -> "recorded"
    [] OTHER -> IF Last(buys[b]).request = <<version, ledger>> /\ agrees
                THEN "reconciled" ELSE "reconciliation_stale"

\* decorate_batch_purchase_attribution
ResultShown(b) ==
  IF ~Intact(b) THEN "integrity_failed"
  ELSE IF Last(results[b]).request = <<version, ledger>> THEN "current" ELSE "stale"

-----------------------------------------------------------------------------
(* Properties.                                                             *)

\* Everything has its type.
TypeOK ==
  /\ \A r \in Runs : run[r].status \in Ended \cup {"none", "queued", "running"}
  /\ version \in 0 .. MaxVersion /\ ledger \subseteq Trades /\ gone \subseteq Trades
  /\ owner \in [Trades -> Batches \cup {None}]
  /\ \A b \in Batches :
       /\ Len(reviews[b]) <= MaxReviews /\ Len(buys[b]) <= MaxBuys
       /\ Len(results[b]) <= MaxResults

\* The number of active runs that repeat no other one is limited, up to the requests
\* for single runs that have counted and not created theirs: batches never take it
\* further, and those that are repeated, which no limit stops, leave room for no
\* more than there would be without them.
QueueIsBounded ==
  Cardinality(Active \ Reruns) + Cardinality({c \in Clients : client[c].op = "single"})
    <= MaxActive + Cardinality(Clients)

\* Shares are of runs that ended with one portfolio; a review that passed is of
\* that portfolio; every purchase was recorded under the last review, which
\* passed; nothing comes after a reconciliation, and results are of what was
\* reconciled, whatever clients do at the same time and whatever the user
\* changes in between.
EvidenceIsChained ==
  \A b \in Batches :
    /\ allocation[b] # None => BatchStatus(b) \notin {"queued", "running"}
    /\ allocation[b] # None /\ allocation[b].ready => Basis(b) = {allocation[b].basis}
    /\ \A i \in DOMAIN reviews[b] : reviews[b][i].ready => Basis(b) = {reviews[b][i].version}
    /\ \A i \in DOMAIN buys[b] :
         /\ buys[b][i].review = Len(reviews[b]) /\ Last(reviews[b]).ready
         /\ \A t \in buys[b][i].trades : owner[t] = b
         /\ buys[b][i].kind = "reconciled" =>
              /\ i = Len(buys[b]) /\ i > 1 /\ buys[b][i].trades = buys[b][i - 1].trades
              /\ buys[b][i].trades # {}
    /\ \A i \in DOMAIN results[b] :
         results[b][i].of = Len(buys[b]) /\ results[b][i].trades = Last(buys[b]).trades

\* A review is shown as ready only while the holdings are those that the shares
\* were computed for; a result is shown as current only while every purchase
\* that it counts is in the ledger, and a purchase as reconciled only while it is.
ShownIsOfToday ==
  \A b \in Batches :
    /\ reviews[b] # <<>> /\ ReviewShown(b) = "ready" => Basis(b) = {version}
    /\ results[b] # <<>> /\ ResultShown(b) = "current" => Last(results[b]).trades \subseteq ledger
    /\ buys[b] # <<>> /\ PurchaseShown(b) = "reconciled" => Last(buys[b]).trades \subseteq ledger
=============================================================================
