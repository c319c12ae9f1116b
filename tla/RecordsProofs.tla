----------------------------- MODULE RecordsProofs -----------------------------
(***************************************************************************)
(* Proofs about the records of what a user decides: the cases and batches  *)
(* of FundSwitches, the policy of InvestmentProfiles and the batches of    *)
(* AgentBatches, each alone and beside the others in MCRecords.            *)
(*                                                                         *)
(* That two open cases were started at once on two replicas is not         *)
(* inductive: between the look of a start at the other cases and its       *)
(* append, one of them must not be reopened.  It cannot, because a case is *)
(* over when evidence of it was deleted, and the id of a deleted           *)
(* transaction is not given again (EvidenceIsKnown); and the starts of one *)
(* replica exclude each other (StartsAreApart).  That no honest history is reported rests on the line *)
(* of the policies in force (PolicyLine) and on events that are only added *)
(* (AuditTells), whatever a request has read of either.  That what follows *)
(* from a batch is chained needs the same of what a request has read and   *)
(* not appended yet (FormsAreBacked): runs that ended and events that were *)
(* appended stand, so what was backed when it was read still is.           *)
(***************************************************************************)
EXTENDS MCRecords, Sequences, FiniteSetTheorems, TLAPS

-----------------------------------------------------------------------------
(* Purchases: the shapes of the records.                                   *)

Case ==
  [stage : {"none", "settled", "requoted", "purchased", "reconciled"},
   sale : Sales \cup {None}, review : Reviews \cup {None}, quotes : 0..MaxQuotes,
   ready : BOOLEAN, fresh : BOOLEAN, buy : Buys \cup {None}, under : 0..MaxQuotes,
   closed : (SUBSET Ledger) \cup {None},
   outcome : {"none", "completed_available", "completed_blocked"},
   by : Replicas \cup {None}, known : SUBSET Cases]

Seen == (0..MaxQuotes) \cup (SUBSET Ledger) \cup (SUBSET Cases) \cup {None}

CaseRequest ==
  [op : {"none", "start", "requote", "purchase", "reconcile", "attribute"},
   case : Cases \cup {None}, tx : Ledger \cup {None}, review : Reviews \cup {None},
   seen : Seen, fresh : BOOLEAN, at : Replicas \cup {None}]

Batch ==
  [preflights : 0..MaxPreflights, ready : BOOLEAN, under : 0..MaxPreflights,
   bought : SUBSET Buys, stage : {"none", "recorded", "reconciled"}]

LedgerShape == rows \subseteq Ledger /\ deleted \subseteq Ledger /\ rows \cap deleted = {}

RequestShape ==
  /\ request \in [Requests -> CaseRequest]
  /\ \A q \in Requests :
       /\ request[q].op # "none" => request[q].case \in Cases
       /\ request[q].op = "start" =>
            request[q].tx \in Sales /\ request[q].seen \in SUBSET Cases
       /\ request[q].op = "purchase" =>
            request[q].tx \in Buys /\ request[q].seen \in 0..MaxQuotes
       /\ request[q].op = "reconcile" => request[q].seen \in SUBSET Ledger

CaseShape == case \in [Cases -> Case]

BatchShape == batch \in [Batches -> Batch] /\ binding \in [Buys -> Batches \cup {None}]

PurchaseShape == LedgerShape /\ RequestShape /\ CaseShape /\ BatchShape /\ agreed \in BOOLEAN

\* Who writes what.
LEMMA UserFrame ==
  ASSUME User
  PROVE  /\ UNCHANGED <<batch, binding>>
         /\ \/ UNCHANGED <<case, request>>
            \/ ConfirmOrProfile
         /\ UNCHANGED <<rows, deleted>> \/ \E t \in Ledger : Add(t) \/ Delete(t)
BY DEF User, ConfirmOrProfile, Add, Delete, Review

LEMMA CaseFrame ==
  ASSUME CaseNext
  PROVE  /\ UNCHANGED <<rows, deleted, agreed, review, batch, binding>>
         /\ UNCHANGED case \/ \E q \in Requests : AppendEvent(q)
<1> USE DEF Read, ReadAt, userVars
<1>1. ASSUME NEW q \in Requests, AppendEvent(q)
      PROVE  UNCHANGED <<rows, deleted, agreed, review, batch, binding>>
  BY <1>1 DEF AppendEvent
<1>2. ASSUME NEW q \in Requests, Refuse(q)
      PROVE  UNCHANGED <<rows, deleted, agreed, review, case, batch, binding>>
  BY <1>2 DEF Refuse
<1>3. ASSUME NEW q \in Requests, NEW c \in Cases,
             \/ ReadRequote(q, c) \/ ReadReconcile(q, c) \/ ReadAttribution(q, c)
             \/ \E t \in Buys : ReadPurchase(q, c, t)
             \/ \E s \in Sales, r \in Reviews, x \in Replicas : ReadStart(q, c, s, r, x)
      PROVE  UNCHANGED <<rows, deleted, agreed, review, case, batch, binding>>
  BY <1>3 DEF ReadRequote, ReadReconcile, ReadAttribution, ReadPurchase, ReadStart
<1> QED
  BY <1>1, <1>2, <1>3 DEF CaseNext

LEMMA BatchFrame ==
  ASSUME BatchNext
  PROVE  UNCHANGED <<rows, deleted, agreed, review, case, request>>
BY DEF BatchNext, Preflight, ReconcileBatch, RecordPurchases, userVars

LEMMA LedgerShapeStep == LedgerShape /\ Next => LedgerShape'
<1> SUFFICES ASSUME LedgerShape, Next PROVE LedgerShape'
  OBVIOUS
<1> USE DEF LedgerShape
<1>1. ASSUME UNCHANGED <<rows, deleted>> PROVE LedgerShape'
  BY <1>1
<1>2. ASSUME NEW t \in Ledger, Add(t) \/ Delete(t) PROVE LedgerShape'
  BY <1>2 DEF Add, Delete
<1> QED
  BY <1>1, <1>2, UserFrame, CaseFrame, BatchFrame DEF Next

LEMMA RequestShapeStep == PurchaseShape /\ Next => RequestShape'
<1> SUFFICES ASSUME PurchaseShape, Next PROVE RequestShape'
  OBVIOUS
<1>0. RequestShape
  BY DEF PurchaseShape
<1>s. /\ None \in Seen /\ 0..MaxQuotes \subseteq Seen /\ SUBSET Ledger \subseteq Seen
      /\ SUBSET Cases \subseteq Seen
  <2>1. None \in Seen
    BY DEF Seen
  <2>2. \A e : e \in 0..MaxQuotes => e \in Seen
    BY DEF Seen
  <2>3. \A e : e \in SUBSET Ledger => e \in Seen
    BY DEF Seen
  <2>4. \A e : e \in SUBSET Cases => e \in Seen
    BY DEF Seen
  <2> QED
    BY <2>1, <2>2, <2>3, <2>4, Zenon
<1> USE BoundAssumption DEF RequestShape
<1>1. ASSUME UNCHANGED request PROVE RequestShape'
  BY <1>0, <1>1
<1>2. ASSUME ConfirmOrProfile PROVE RequestShape'
  <2>1. request' = [q \in Requests |-> [request[q] EXCEPT !.fresh = FALSE]]
    BY <1>2 DEF ConfirmOrProfile
  <2>2. ASSUME NEW q \in Requests
        PROVE  /\ request'[q] \in CaseRequest
               /\ request'[q].op = request[q].op /\ request'[q].case = request[q].case
               /\ request'[q].tx = request[q].tx /\ request'[q].seen = request[q].seen
    BY <1>0, <2>1, <2>2 DEF CaseRequest
  <2> QED
    BY <1>0, <2>1, <2>2
<1>3. ASSUME NEW q \in Requests, Answered(q) PROVE RequestShape'
  <2>1. Idle \in CaseRequest /\ Idle.op = "none"
    BY <1>s DEF Idle, CaseRequest
  <2> QED
    BY <1>0, <1>3, <2>1 DEF Answered
<1>4. ASSUME NEW q \in Requests, NEW form \in CaseRequest,
             request' = [request EXCEPT ![q] = form],
             form.op # "none" => form.case \in Cases,
             form.op = "start" => form.tx \in Sales /\ form.seen \in SUBSET Cases,
             form.op = "purchase" => form.tx \in Buys /\ form.seen \in 0..MaxQuotes,
             form.op = "reconcile" => form.seen \in SUBSET Ledger
      PROVE  RequestShape'
  BY <1>0, <1>4
<1>5. ASSUME NEW q \in Requests, NEW c \in Cases, ReadRequote(q, c) PROVE RequestShape'
  <2> DEFINE form == [op |-> "requote", case |-> c, tx |-> None, review |-> None,
                      seen |-> None, fresh |-> TRUE, at |-> None]
  <2>1. form \in CaseRequest
    BY <1>s DEF CaseRequest
  <2>2. request' = [request EXCEPT ![q] = form]
    BY <1>5 DEF ReadRequote, Read, ReadAt
  <2> QED
    BY <1>4, <2>1, <2>2
<1>6. ASSUME NEW q \in Requests, NEW c \in Cases, ReadReconcile(q, c) PROVE RequestShape'
  <2> DEFINE form == [op |-> "reconcile", case |-> c, tx |-> None, review |-> None,
                      seen |-> rows, fresh |-> TRUE, at |-> None]
  <2>1. form \in CaseRequest /\ form.seen \in SUBSET Ledger
    BY <1>s DEF CaseRequest, PurchaseShape, LedgerShape
  <2>2. request' = [request EXCEPT ![q] = form]
    BY <1>6 DEF ReadReconcile, Read, ReadAt
  <2> QED
    BY <1>4, <2>1, <2>2
<1>7. ASSUME NEW q \in Requests, NEW c \in Cases, ReadAttribution(q, c) PROVE RequestShape'
  <2> DEFINE form == [op |-> "attribute", case |-> c, tx |-> None, review |-> None,
                      seen |-> None, fresh |-> TRUE, at |-> None]
  <2>1. form \in CaseRequest
    BY <1>s DEF CaseRequest
  <2>2. request' = [request EXCEPT ![q] = form]
    BY <1>7 DEF ReadAttribution, Read, ReadAt
  <2> QED
    BY <1>4, <2>1, <2>2
<1>8. ASSUME NEW q \in Requests, NEW c \in Cases, NEW t \in Buys, ReadPurchase(q, c, t)
      PROVE  RequestShape'
  <2> DEFINE form == [op |-> "purchase", case |-> c, tx |-> t, review |-> None,
                      seen |-> case[c].quotes, fresh |-> TRUE, at |-> None]
  <2>1. form \in CaseRequest /\ form.seen \in 0..MaxQuotes /\ form.tx \in Buys
    BY <1>s DEF CaseRequest, PurchaseShape, CaseShape, Case, Ledger
  <2>2. request' = [request EXCEPT ![q] = form]
    BY <1>8 DEF ReadPurchase, Read, ReadAt
  <2> QED
    BY <1>4, <2>1, <2>2
<1>9. ASSUME NEW q \in Requests, NEW c \in Cases, NEW s \in Sales, NEW r \in Reviews,
             NEW x \in Replicas, ReadStart(q, c, s, r, x)
      PROVE  RequestShape'
  <2> DEFINE form == [op |-> "start", case |-> c, tx |-> s, review |-> r,
                      seen |-> Started, fresh |-> TRUE, at |-> x]
  <2>1. form \in CaseRequest /\ form.tx \in Sales /\ form.seen \in SUBSET Cases
    BY <1>s DEF CaseRequest, Ledger, Started
  <2>2. request' = [request EXCEPT ![q] = form]
    BY <1>9 DEF ReadStart, ReadAt
  <2> QED
    BY <1>4, <2>1, <2>2
<1> QED
  BY <1>1, <1>2, <1>3, <1>5, <1>6, <1>7, <1>8, <1>9, UserFrame, BatchFrame
  DEF Next, CaseNext, AppendEvent, Refuse
-----------------------------------------------------------------------------
(* Purchases: what is inductive.                                           *)

Known == rows \cup deleted

\* What a case is bound to was once in the ledger, and an id is not given again.
EvidenceIsKnown ==
  \A c \in Started :
    /\ case[c].sale \in Known
    /\ case[c].buy # None =>
         case[c].buy \in Known /\ case[c].stage \in {"purchased", "reconciled"}

\* A case that does not stand in the way of another.
Over(c) == ~Intact(c) \/ case[c].stage = "reconciled"

\* A start under way is the only one of its replica and of its case; what it saw is
\* over and stays over, and the cases it did not see are of other replicas.
StartsAreApart ==
  /\ \A p, q \in Requests :
       p # q /\ request[p].op = "start" /\ request[q].op = "start" =>
         request[p].at # request[q].at /\ request[p].case # request[q].case
  /\ \A q \in Requests :
       /\ request[q].op \in {"start", "purchase"} => request[q].tx \in Known
       /\ request[q].op = "start" =>
            /\ request[q].case \notin Started
            /\ request[q].seen \subseteq Started /\ \A d \in request[q].seen : Over(d)
            /\ \A d \in Started : d \in request[q].seen \/ case[d].by # request[q].at

\* What the start of a case saw is over, and it saw those its replica had started.
SeenIsOver ==
  /\ \A c \in Started : case[c].known \subseteq Started /\ \A d \in case[c].known : Over(d)
  /\ \A c, d \in Started :
       c # d /\ case[c].by = case[d].by => c \in case[d].known \/ d \in case[c].known

CaseInv ==
  /\ PurchaseShape /\ EvidenceIsKnown /\ StartsAreApart /\ SeenIsOver
  /\ EvidenceIsUsedOnce /\ ExecutionRestsOnLatestPreflight
\* What an append makes of the case it is about.
Becomes(q, new) ==
  LET old == case[request[q].case] IN
  /\ case' = [case EXCEPT ![request[q].case] = new]
  /\ \/ /\ request[q].op = "start" /\ new.stage = "settled" /\ new.buy = None
        /\ new.sale = request[q].tx /\ new.review = request[q].review
        /\ new.by = request[q].at /\ new.known = request[q].seen
     \/ /\ new.sale = old.sale /\ new.review = old.review
        /\ new.by = old.by /\ new.known = old.known
        /\ \/ /\ request[q].op = "requote" /\ old.stage \in {"settled", "requoted"}
              /\ new.stage = "requoted" /\ new.buy = old.buy
           \/ /\ request[q].op = "purchase" /\ old.stage = "requoted"
              /\ new.stage = "purchased" /\ new.buy = request[q].tx
           \/ /\ request[q].op = "reconcile" /\ old.stage = "purchased"
              /\ new.stage = "reconciled" /\ new.buy = old.buy
           \/ /\ request[q].op = "attribute"
              /\ new.stage = old.stage /\ new.buy = old.buy

LEMMA Events ==
  ASSUME PurchaseShape, NEW q \in Requests, AppendEvent(q)
  PROVE  /\ request[q] \in CaseRequest /\ request[q].op # "none"
         /\ request[q].case \in Cases /\ case \in [Cases -> Case]
         /\ \E new \in Case : Becomes(q, new)
<1> DEFINE c == request[q].case
           old == case[c]
<1>1. /\ request[q] \in CaseRequest /\ request[q].op # "none" /\ c \in Cases
      /\ request[q].op = "start" =>
           request[q].tx \in Sales /\ request[q].seen \in SUBSET Cases
      /\ request[q].op = "purchase" => request[q].tx \in Buys /\ request[q].seen \in 0..MaxQuotes
      /\ request[q].op = "reconcile" => request[q].seen \in SUBSET Ledger
  BY DEF PurchaseShape, RequestShape, AppendEvent
<1>2. case \in [Cases -> Case] /\ old \in Case
  BY <1>1 DEF PurchaseShape, CaseShape
<1>3. CASE request[q].op = "start"
  <2> DEFINE new == [NoCase EXCEPT !.stage = "settled", !.sale = request[q].tx,
                                   !.review = request[q].review,
                                   !.by = request[q].at, !.known = request[q].seen]
  <2>1. None \in (SUBSET Ledger) \cup {None}
    OBVIOUS
  <2>2. request[q].tx \in Sales /\ request[q].review \in Reviews \cup {None} /\ 0 \in 0..MaxQuotes
        /\ request[q].seen \in SUBSET Cases /\ request[q].at \in Replicas \cup {None}
    BY <1>1, <1>3, BoundAssumption DEF CaseRequest
  <2>3. new \in Case /\ new.stage = "settled" /\ new.buy = None
        /\ new.sale = request[q].tx /\ new.review = request[q].review
        /\ new.by = request[q].at /\ new.known = request[q].seen
    BY <2>1, <2>2 DEF NoCase, Case
  <2>4. case' = [case EXCEPT ![c] = new]
    BY <1>3 DEF AppendEvent
  <2> HIDE DEF new
  <2> QED
    BY <1>1, <1>2, <1>3, <2>3, <2>4 DEF Becomes
<1>4. CASE request[q].op = "requote"
  <2>1. PICK ready \in BOOLEAN :
          case' = [case EXCEPT ![c].stage = "requoted", ![c].quotes = @ + 1,
                               ![c].ready = ready, ![c].fresh = request[q].fresh]
    BY <1>4 DEF AppendEvent
  <2> DEFINE new == [old EXCEPT !.stage = "requoted", !.quotes = @ + 1,
                                !.ready = ready, !.fresh = request[q].fresh]
  <2>2. old.quotes < MaxQuotes /\ old.stage \in {"settled", "requoted"}
    BY <1>4 DEF AppendEvent
  <2>3. old.quotes + 1 \in 0..MaxQuotes /\ request[q].fresh \in BOOLEAN
    BY <1>1, <1>2, <2>2, BoundAssumption DEF Case, CaseRequest
  <2>4. new \in Case /\ new.stage = "requoted" /\ new.buy = old.buy
        /\ new.sale = old.sale /\ new.review = old.review
        /\ new.by = old.by /\ new.known = old.known
    BY <1>2, <2>3 DEF Case
  <2>5. case' = [case EXCEPT ![c] = new]
    BY <1>1, <1>2, <2>1 DEF Case
  <2> HIDE DEF new
  <2> QED
    BY <1>1, <1>2, <1>4, <2>2, <2>4, <2>5 DEF Becomes
<1>5. CASE request[q].op = "purchase"
  <2> DEFINE new == [old EXCEPT !.stage = "purchased", !.buy = request[q].tx,
                                !.under = request[q].seen]
  <2>1. new \in Case /\ new.stage = "purchased" /\ new.buy = request[q].tx
        /\ new.sale = old.sale /\ new.review = old.review
        /\ new.by = old.by /\ new.known = old.known
    BY <1>1, <1>2, <1>5 DEF Case
  <2>2. case' = [case EXCEPT ![c].stage = "purchased", ![c].buy = request[q].tx,
                             ![c].under = request[q].seen]
    BY <1>5 DEF AppendEvent
  <2>3. case' = [case EXCEPT ![c] = new] /\ old.stage = "requoted"
    BY <1>1, <1>2, <1>5, <2>2 DEF Case, AppendEvent
  <2> HIDE DEF new
  <2> QED
    BY <1>1, <1>2, <1>5, <2>1, <2>3 DEF Becomes
<1>6. CASE request[q].op = "reconcile"
  <2> DEFINE new == [old EXCEPT !.stage = "reconciled", !.closed = request[q].seen]
  <2>1. request[q].seen \in (SUBSET Ledger) \cup {None}
    BY <1>1, <1>6
  <2>2. new \in Case /\ new.stage = "reconciled" /\ new.buy = old.buy
        /\ new.sale = old.sale /\ new.review = old.review
        /\ new.by = old.by /\ new.known = old.known
    BY <1>2, <2>1 DEF Case
  <2>3. case' = [case EXCEPT ![c].stage = "reconciled", ![c].closed = request[q].seen]
    BY <1>6 DEF AppendEvent
  <2>4. case' = [case EXCEPT ![c] = new] /\ old.stage = "purchased"
    BY <1>1, <1>2, <1>6, <2>3 DEF Case, AppendEvent
  <2> HIDE DEF new
  <2> QED
    BY <1>1, <1>2, <1>6, <2>2, <2>4 DEF Becomes
<1>7. CASE request[q].op = "attribute"
  <2>1. PICK outcome \in {"completed_available", "completed_blocked"} :
          case' = [case EXCEPT ![c].outcome = outcome]
    BY <1>7 DEF AppendEvent
  <2> DEFINE new == [old EXCEPT !.outcome = outcome]
  <2>2. new \in Case /\ new.stage = old.stage /\ new.buy = old.buy
        /\ new.sale = old.sale /\ new.review = old.review
        /\ new.by = old.by /\ new.known = old.known
    BY <1>2, <2>1 DEF Case
  <2>3. case' = [case EXCEPT ![c] = new]
    BY <1>1, <1>2, <2>1 DEF Case
  <2> HIDE DEF new
  <2> QED
    BY <1>1, <1>2, <1>7, <2>2, <2>3 DEF Becomes
<1> QED
  BY <1>1, <1>3, <1>4, <1>5, <1>6, <1>7 DEF AppendEvent
LEMMA CaseShapeStep == PurchaseShape /\ Next => CaseShape'
<1> SUFFICES ASSUME PurchaseShape, Next PROVE CaseShape'
  OBVIOUS
<1>0. case \in [Cases -> Case]
  BY DEF PurchaseShape, CaseShape
<1>1. ASSUME UNCHANGED case PROVE CaseShape'
  BY <1>0, <1>1 DEF CaseShape
<1>2. ASSUME ConfirmOrProfile PROVE CaseShape'
  <2>1. case' = [c \in Cases |-> [case[c] EXCEPT !.fresh = FALSE]]
    BY <1>2 DEF ConfirmOrProfile
  <2>2. ASSUME NEW c \in Cases PROVE case'[c] \in Case
    <3>1. case[c] \in Case /\ case'[c] = [case[c] EXCEPT !.fresh = FALSE]
      BY <1>0, <2>1
    <3> QED
      BY <3>1 DEF Case
  <2> QED
    BY <2>1, <2>2 DEF CaseShape
<1>3. ASSUME NEW q \in Requests, AppendEvent(q) PROVE CaseShape'
  BY <1>0, <1>3, Events DEF CaseShape, Becomes
<1> QED
  BY <1>1, <1>2, <1>3, UserFrame, CaseFrame, BatchFrame DEF Next

LEMMA BatchShapeStep == PurchaseShape /\ Next => BatchShape'
<1> SUFFICES ASSUME PurchaseShape, Next PROVE BatchShape'
  OBVIOUS
<1>0. batch \in [Batches -> Batch] /\ binding \in [Buys -> Batches \cup {None}]
  BY DEF PurchaseShape, BatchShape
<1>1. ASSUME UNCHANGED <<batch, binding>> PROVE BatchShape'
  BY <1>0, <1>1 DEF BatchShape
<1>2. ASSUME NEW b \in Batches, NEW new \in Batch, batch' = [batch EXCEPT ![b] = new],
             binding' \in [Buys -> Batches \cup {None}]
      PROVE  BatchShape'
  BY <1>0, <1>2 DEF BatchShape
<1>3. ASSUME NEW b \in Batches, Preflight(b) PROVE BatchShape'
  <2>1. PICK ready \in BOOLEAN :
          batch' = [batch EXCEPT ![b].preflights = @ + 1, ![b].ready = ready]
    BY <1>3 DEF Preflight
  <2> DEFINE new == [batch[b] EXCEPT !.preflights = @ + 1, !.ready = ready]
  <2>2. batch[b] \in Batch /\ batch[b].preflights + 1 \in 0..MaxPreflights
    BY <1>0, <1>3, BoundAssumption DEF Preflight, Batch
  <2>3. new \in Batch /\ batch' = [batch EXCEPT ![b] = new]
    BY <1>0, <2>1, <2>2 DEF Batch
  <2>4. binding' \in [Buys -> Batches \cup {None}]
    BY <1>0, <1>3 DEF Preflight
  <2> HIDE DEF new
  <2> QED
    BY <1>2, <2>3, <2>4
<1>4. ASSUME NEW b \in Batches, NEW bought \in SUBSET Buys, RecordPurchases(b, bought)
      PROVE  BatchShape'
  <2> DEFINE new == [batch[b] EXCEPT !.stage = "recorded", !.bought = bought,
                                     !.under = batch[b].preflights]
  <2>1. batch' = [batch EXCEPT ![b].stage = "recorded", ![b].bought = bought,
                               ![b].under = batch[b].preflights]
    BY <1>4 DEF RecordPurchases
  <2>2. new \in Batch /\ batch' = [batch EXCEPT ![b] = new]
    BY <1>0, <2>1 DEF Batch
  <2>3. binding' \in [Buys -> Batches \cup {None}]
    BY <1>0, <1>4 DEF RecordPurchases
  <2> HIDE DEF new
  <2> QED
    BY <1>2, <2>2, <2>3
<1>5. ASSUME NEW b \in Batches, ReconcileBatch(b) PROVE BatchShape'
  <2> DEFINE new == [batch[b] EXCEPT !.stage = "reconciled"]
  <2>1. new \in Batch /\ batch' = [batch EXCEPT ![b] = new]
    BY <1>0, <1>5 DEF ReconcileBatch, Batch
  <2>2. binding' \in [Buys -> Batches \cup {None}]
    BY <1>0, <1>5 DEF ReconcileBatch
  <2> HIDE DEF new
  <2> QED
    BY <1>2, <2>1, <2>2
<1> QED
  BY <1>1, <1>3, <1>4, <1>5, UserFrame, CaseFrame DEF Next, BatchNext

LEMMA AgreedStep == agreed \in BOOLEAN /\ Next => agreed' \in BOOLEAN
<1> SUFFICES ASSUME agreed \in BOOLEAN, Next PROVE agreed' \in BOOLEAN
  OBVIOUS
<1>1. ASSUME User PROVE agreed' \in BOOLEAN
  <2>1. agreed' = agreed \/ agreed' = TRUE \/ agreed' = FALSE
    BY <1>1 DEF User, ConfirmOrProfile, Add, Delete, Review
  <2> QED
    BY <2>1, Zenon
<1>2. agreed' = agreed \/ User
  BY CaseFrame, BatchFrame DEF Next
<1> QED
  BY <1>1, <1>2, Zenon

\* Purchases keep their shapes.
LEMMA PurchaseShapeStep == PurchaseShape /\ [Next]_vars => PurchaseShape'
<1> SUFFICES ASSUME PurchaseShape, [Next]_vars PROVE PurchaseShape'
  OBVIOUS
<1>1. ASSUME Next PROVE PurchaseShape'
  BY <1>1, LedgerShapeStep, RequestShapeStep, CaseShapeStep, BatchShapeStep, AgreedStep
  DEF PurchaseShape
<1>2. ASSUME UNCHANGED vars PROVE PurchaseShape'
  BY <1>2 DEF vars, PurchaseShape, LedgerShape, RequestShape, CaseShape, BatchShape
<1> QED
  BY <1>1, <1>2
\* What was deleted stays away.
LEMMA KnownStays ==
  ASSUME Next
  PROVE  Known \subseteq Known' /\ \A t \in Known : t \in rows' => t \in rows
<1>1. ASSUME NEW t \in Ledger, Add(t) \/ Delete(t)
      PROVE  Known \subseteq Known' /\ \A u \in Known : u \in rows' => u \in rows
  BY <1>1 DEF Add, Delete, Known
<1> QED
  BY <1>1, UserFrame, CaseFrame, BatchFrame DEF Next, Known

Same(c) ==
  /\ case'[c].stage = case[c].stage /\ case'[c].sale = case[c].sale
  /\ case'[c].review = case[c].review /\ case'[c].buy = case[c].buy
  /\ case'[c].by = case[c].by /\ case'[c].known = case[c].known

LEMMA CaseMoves ==
  ASSUME PurchaseShape, Next
  PROVE  \/ \A c \in Cases : Same(c)
         \/ \E q \in Requests : AppendEvent(q)
<1>0. case \in [Cases -> Case]
  BY DEF PurchaseShape, CaseShape
<1>1. ASSUME ConfirmOrProfile, NEW c \in Cases PROVE Same(c)
  <2>1. case'[c] = [case[c] EXCEPT !.fresh = FALSE]
    BY <1>1 DEF ConfirmOrProfile
  <2> QED
    BY <1>0, <2>1 DEF Same, Case
<1>2. ASSUME UNCHANGED case, NEW c \in Cases PROVE Same(c)
  BY <1>2 DEF Same
<1> QED
  BY <1>1, <1>2, UserFrame, CaseFrame, BatchFrame DEF Next

SameRequest(q) ==
  /\ request'[q].op = request[q].op /\ request'[q].case = request[q].case
  /\ request'[q].tx = request[q].tx /\ request'[q].review = request[q].review
  /\ request'[q].seen = request[q].seen /\ request'[q].at = request[q].at

ReadsStart(q) ==
  /\ request'[q].op = "start" /\ request'[q].tx \in rows /\ request'[q].seen = Started
  /\ \A p \in Requests \ {q} :
       /\ SameRequest(p)
       /\ request[p].op = "start" =>
            request[p].at # request'[q].at /\ request[p].case # request'[q].case
  /\ UNCHANGED <<rows, deleted, case>> /\ request'[q].case \notin Started
  /\ \A d \in Started : Terminal(d)

LEMMA RequestMoves ==
  ASSUME PurchaseShape, Next, NEW q \in Requests
  PROVE  \/ SameRequest(q)
         \/ request'[q].op \notin {"start", "purchase"}
         \/ request'[q].op = "purchase" /\ request'[q].tx \in rows
         \/ ReadsStart(q)
<1>0. request \in [Requests -> CaseRequest]
  BY DEF PurchaseShape, RequestShape
<1> DEFINE G == \/ SameRequest(q)
                \/ request'[q].op \notin {"start", "purchase"}
                \/ request'[q].op = "purchase" /\ request'[q].tx \in rows
                \/ ReadsStart(q)
<1>1. ASSUME UNCHANGED request PROVE G
  BY <1>1 DEF SameRequest
<1>2. ASSUME ConfirmOrProfile PROVE G
  <2>1. request'[q] = [request[q] EXCEPT !.fresh = FALSE]
    BY <1>2 DEF ConfirmOrProfile
  <2> QED
    BY <1>0, <2>1 DEF SameRequest, CaseRequest
<1>3. ASSUME NEW p \in Requests, Answered(p) PROVE G
  BY <1>0, <1>3 DEF Answered, Idle, SameRequest
<1>4. ASSUME NEW p \in Requests, NEW c \in Cases,
             ReadRequote(p, c) \/ ReadReconcile(p, c) \/ ReadAttribution(p, c)
      PROVE  G
  BY <1>0, <1>4 DEF ReadRequote, ReadReconcile, ReadAttribution, Read, ReadAt, SameRequest
<1>5. ASSUME NEW p \in Requests, NEW c \in Cases, NEW t \in Buys, ReadPurchase(p, c, t)
      PROVE  G
  BY <1>0, <1>5 DEF ReadPurchase, Read, ReadAt, SameRequest
<1>6. ASSUME NEW p \in Requests, NEW c \in Cases, NEW s \in Sales, NEW r \in Reviews,
             NEW x \in Replicas, ReadStart(p, c, s, r, x)
      PROVE  G
  <2>1. /\ request' = [request EXCEPT ![p] =
             [op |-> "start", case |-> c, tx |-> s, review |-> r, seen |-> Started,
              fresh |-> TRUE, at |-> x]]
        /\ UNCHANGED <<rows, deleted, case>>
        /\ s \in rows /\ c \notin Started /\ \A d \in Started : Terminal(d)
        /\ \A y \in Requests : request[y].op = "start" => request[y].at # x /\ request[y].case # c
    BY <1>6 DEF ReadStart, ReadAt, Startable, Starting, userVars
  <2>2. \A y \in Requests \ {p} : SameRequest(y)
    BY <1>0, <2>1 DEF SameRequest
  <2>3. /\ request'[p].op = "start" /\ request'[p].tx = s /\ request'[p].seen = Started
        /\ request'[p].at = x /\ request'[p].case = c
    BY <1>0, <2>1
  <2>4. ReadsStart(p)
    BY <2>1, <2>2, <2>3 DEF ReadsStart
  <2> QED
    BY <2>2, <2>4
<1> QED
  BY <1>1, <1>2, <1>3, <1>4, <1>5, <1>6, UserFrame, BatchFrame
  DEF Next, CaseNext, AppendEvent, Refuse

LEMMA TerminalIsOver ==
  ASSUME PurchaseShape, NEW c \in Cases, Terminal(c), case[c].stage # "reconciled"
  PROVE  ~Intact(c)
<1> SUFFICES ASSUME Intact(c) PROVE FALSE
  OBVIOUS
<1>1. Status(c) \in {"ready", "superseded", case[c].stage}
  BY DEF Status
<1>2. case[c].stage \in {"none", "settled", "requoted", "purchased", "reconciled"}
  BY DEF PurchaseShape, CaseShape, Case
<1> QED
  BY <1>1, <1>2 DEF Terminal
LEMMA OverStays ==
  ASSUME PurchaseShape, EvidenceIsKnown, StartsAreApart, Next, NEW c \in Started, Over(c)
  PROVE  Over(c)' /\ c \in Started'
<1>0. c \in Cases /\ case[c].stage # "none" /\ case[c].sale \in Known
      /\ (case[c].buy # None =>
            case[c].buy \in Known /\ case[c].stage \in {"purchased", "reconciled"})
      /\ (~Intact(c) \/ case[c].stage = "reconciled")
  BY DEF Started, EvidenceIsKnown, Over
<1>1. \A t \in Known : t \in rows' => t \in rows
  BY KnownStays
<1>2. CASE Same(c)
  BY <1>0, <1>1, <1>2 DEF Same, Over, Started, Intact
<1>3. ASSUME NEW q \in Requests, AppendEvent(q), ~Same(c) PROVE Over(c)' /\ c \in Started'
  <2>1. PICK new \in Case : Becomes(q, new)
    BY <1>3, Events
  <2>2. /\ request[q].case \in Cases /\ case \in [Cases -> Case]
        /\ case' = [case EXCEPT ![request[q].case] = new]
    BY <1>3, <2>1, Events DEF Becomes
  <2>3. request[q].case = c /\ case'[c] = new
    BY <1>0, <1>3, <2>2 DEF Same
  <2>4. request[q].op # "start"
    BY <2>3 DEF StartsAreApart
  <2>5. /\ new.sale = case[c].sale
        /\ new.stage # "none" /\ (case[c].stage = "reconciled" => new.stage = "reconciled")
        /\ new.buy = case[c].buy \/ case[c].stage = "requoted"
    BY <1>0, <2>1, <2>3, <2>4 DEF Becomes
  <2>6. CASE case[c].stage = "reconciled"
    BY <1>0, <2>2, <2>3, <2>5, <2>6 DEF Over, Started
  <2>7. CASE ~Intact(c)
    <3>1. ~(case[c].sale \in rows') \/ (case[c].buy # None /\ ~(case[c].buy \in rows'))
      BY <1>0, <1>1, <2>7 DEF Intact
    <3>2. ~(case'[c].sale \in rows') \/ (case'[c].buy # None /\ ~(case'[c].buy \in rows'))
      BY <1>0, <2>3, <2>5, <3>1
    <3> QED
      BY <1>0, <2>3, <2>5, <3>2 DEF Over, Intact, Started
  <2> QED
    BY <1>0, <2>6, <2>7
<1> QED
  BY <1>0, <1>2, <1>3, CaseMoves

LEMMA EvidenceIsKnownStep ==
  PurchaseShape /\ EvidenceIsKnown /\ StartsAreApart /\ Next => EvidenceIsKnown'
<1> SUFFICES ASSUME PurchaseShape, EvidenceIsKnown, StartsAreApart, Next, NEW c \in Started'
             PROVE  /\ case'[c].sale \in Known'
                    /\ case'[c].buy # None =>
                         /\ case'[c].buy \in Known'
                         /\ case'[c].stage \in {"purchased", "reconciled"}
  BY DEF EvidenceIsKnown
<1>0. c \in Cases /\ case'[c].stage # "none" /\ Known \subseteq Known'
  BY KnownStays DEF Started
<1>1. CASE Same(c)
  BY <1>0, <1>1 DEF Same, Started, EvidenceIsKnown
<1>2. ASSUME NEW q \in Requests, AppendEvent(q), ~Same(c)
      PROVE  /\ case'[c].sale \in Known'
             /\ case'[c].buy # None =>
                  case'[c].buy \in Known' /\ case'[c].stage \in {"purchased", "reconciled"}
  <2>1. PICK new \in Case : Becomes(q, new)
    BY <1>2, Events
  <2>2. /\ request[q].case \in Cases /\ case \in [Cases -> Case]
        /\ case' = [case EXCEPT ![request[q].case] = new]
    BY <1>2, <2>1, Events DEF Becomes
  <2>3. request[q].case = c /\ case'[c] = new
    BY <1>0, <1>2, <2>2 DEF Same
  <2>4. request[q].op \in {"start", "purchase"} => request[q].tx \in Known
    BY DEF StartsAreApart
  <2>5. CASE request[q].op = "start"
    BY <1>0, <2>1, <2>3, <2>4, <2>5 DEF Becomes
  <2>6. CASE request[q].op # "start"
    <3>1. case[c].stage # "none" /\ c \in Started
      BY <1>0, <2>1, <2>3, <2>6 DEF Becomes, Started
    <3>2. /\ case[c].sale \in Known
          /\ case[c].buy # None =>
               case[c].buy \in Known /\ case[c].stage \in {"purchased", "reconciled"}
      BY <3>1 DEF EvidenceIsKnown
    <3> QED
      BY <1>0, <2>1, <2>3, <2>4, <2>6, <3>2 DEF Becomes
  <2> QED
    BY <2>5, <2>6
<1> QED
  BY <1>0, <1>1, <1>2, CaseMoves

\* A case that starts is the one of its request.
LEMMA NewlyStarted ==
  ASSUME PurchaseShape, Next, NEW c \in Started', c \notin Started
  PROVE  \E q \in Requests :
           /\ AppendEvent(q) /\ request[q].op = "start" /\ request[q].case = c
           /\ case'[c].sale = request[q].tx /\ case'[c].review = request[q].review
           /\ case'[c].buy = None
           /\ case'[c].by = request[q].at /\ case'[c].known = request[q].seen
           /\ \A d \in Cases : d # c => Same(d)
<1>0. c \in Cases /\ case'[c].stage # "none" /\ case[c].stage = "none"
  BY DEF Started
<1>1. ~Same(c)
  BY <1>0 DEF Same
<1>2. PICK q \in Requests : AppendEvent(q)
  BY <1>0, <1>1, CaseMoves
<1>3. PICK new \in Case : Becomes(q, new)
  BY <1>2, Events
<1>4. /\ request[q].case \in Cases /\ case \in [Cases -> Case]
      /\ case' = [case EXCEPT ![request[q].case] = new]
  BY <1>2, <1>3, Events DEF Becomes
<1>5. request[q].case = c /\ case'[c] = new /\ \A d \in Cases : d # c => Same(d)
  BY <1>0, <1>1, <1>4 DEF Same
<1>6. request[q].op = "start"
  BY <1>0, <1>3, <1>5 DEF Becomes
<1> QED
  BY <1>2, <1>3, <1>5, <1>6 DEF Becomes

\* A case that started stays so, and with the origin it has.
LEMMA StartedStays ==
  ASSUME PurchaseShape, StartsAreApart, Next, NEW c \in Started
  PROVE  c \in Started' /\ case'[c].by = case[c].by /\ case'[c].known = case[c].known
<1>0. c \in Cases /\ case[c].stage # "none"
  BY DEF Started
<1>1. CASE Same(c)
  BY <1>0, <1>1 DEF Same, Started
<1>2. ASSUME NEW q \in Requests, AppendEvent(q), ~Same(c)
      PROVE  c \in Started' /\ case'[c].by = case[c].by /\ case'[c].known = case[c].known
  <2>1. PICK new \in Case : Becomes(q, new)
    BY <1>2, Events
  <2>2. /\ request[q].case \in Cases /\ case \in [Cases -> Case]
        /\ case' = [case EXCEPT ![request[q].case] = new]
    BY <1>2, <2>1, Events DEF Becomes
  <2>3. request[q].case = c /\ case'[c] = new
    BY <1>0, <1>2, <2>2 DEF Same
  <2>4. request[q].op # "start"
    BY <2>3 DEF StartsAreApart
  <2> QED
    BY <1>0, <2>1, <2>3, <2>4 DEF Becomes, Started
<1> QED
  BY <1>0, <1>1, <1>2, CaseMoves

LEMMA StartsAreApartStep ==
  PurchaseShape /\ EvidenceIsKnown /\ StartsAreApart /\ Next => StartsAreApart'
<1> SUFFICES ASSUME PurchaseShape, EvidenceIsKnown, StartsAreApart, Next
             PROVE  StartsAreApart'
  OBVIOUS
<1>1. ASSUME NEW p \in Requests, NEW q \in Requests, p # q,
             request'[p].op = "start", request'[q].op = "start"
      PROVE  request'[p].at # request'[q].at /\ request'[p].case # request'[q].case
  <2>1. SameRequest(p) \/ ReadsStart(p)
    BY <1>1, RequestMoves DEF ReadsStart
  <2>2. SameRequest(q) \/ ReadsStart(q)
    BY <1>1, RequestMoves DEF ReadsStart
  <2>3. CASE SameRequest(p) /\ SameRequest(q)
    BY <1>1, <2>3 DEF SameRequest, StartsAreApart
  <2>4. ASSUME NEW x \in Requests, NEW y \in Requests, x # y, ReadsStart(x),
               request'[y].op = "start"
        PROVE  request'[x].at # request'[y].at /\ request'[x].case # request'[y].case
    BY <2>4 DEF ReadsStart, SameRequest
  <2> QED
    BY <1>1, <2>1, <2>2, <2>3, <2>4
<1>2. ASSUME NEW q \in Requests, request'[q].op \in {"start", "purchase"}
      PROVE  request'[q].tx \in Known'
  <2>1. SameRequest(q) \/ request'[q].tx \in rows
    BY <1>2, RequestMoves DEF ReadsStart
  <2> QED
    BY <1>2, <2>1, KnownStays DEF SameRequest, StartsAreApart, Known
<1>3. ASSUME NEW q \in Requests, request'[q].op = "start"
      PROVE  /\ request'[q].case \notin Started'
             /\ request'[q].seen \subseteq Started' /\ \A d \in request'[q].seen : Over(d)'
             /\ \A d \in Started' : d \in request'[q].seen \/ case'[d].by # request'[q].at
  <2>1. CASE ReadsStart(q)
    <3>1. UNCHANGED <<rows, case>> /\ Started' = Started
      BY <2>1 DEF ReadsStart, Started
    <3>2. \A d \in Started : Over(d)
      BY <2>1, TerminalIsOver DEF ReadsStart, Over, Started
    <3>3. \A d : Over(d) => Over(d)'
      BY <3>1 DEF Over, Intact
    <3> QED
      BY <2>1, <3>1, <3>2, <3>3 DEF ReadsStart
  <2>2. CASE SameRequest(q)
    <3>1. /\ request[q].op = "start" /\ request[q].case = request'[q].case
          /\ request[q].seen = request'[q].seen /\ request[q].at = request'[q].at
      BY <1>3, <2>2 DEF SameRequest
    <3>2. /\ request[q].case \notin Started
          /\ request[q].seen \subseteq Started /\ \A d \in request[q].seen : Over(d)
          /\ \A d \in Started : d \in request[q].seen \/ case[d].by # request[q].at
      BY <3>1 DEF StartsAreApart
    <3>3. ASSUME NEW d \in Started', d \notin Started
          PROVE  d # request[q].case /\ case'[d].by # request[q].at
      <4>1. PICK p \in Requests : /\ AppendEvent(p) /\ request[p].op = "start"
                                  /\ request[p].case = d /\ case'[d].by = request[p].at
        BY <3>3, NewlyStarted
      <4>2. request'[p].op = "none"
        BY <4>1 DEF AppendEvent, Answered, Idle, PurchaseShape, RequestShape
      <4>3. p # q
        BY <1>3, <4>2
      <4> QED
        BY <3>1, <4>1, <4>3 DEF StartsAreApart
    <3>4. \A d \in request[q].seen : d \in Started' /\ Over(d)'
      BY <3>2, OverStays
    <3>5. \A d \in Started : d \in Started' /\ case'[d].by = case[d].by
      BY StartedStays
    <3>6. request[q].case \notin Started'
      BY <3>2, <3>3
    <3>7. \A d \in Started' : d \in request[q].seen \/ case'[d].by # request[q].at
      BY <3>2, <3>3, <3>5
    <3> QED
      BY <3>1, <3>4, <3>6, <3>7
  <2> QED
    BY <1>3, <2>1, <2>2, RequestMoves
<1> QED
  BY <1>1, <1>2, <1>3 DEF StartsAreApart

LEMMA SeenIsOverStep ==
  PurchaseShape /\ EvidenceIsKnown /\ StartsAreApart /\ SeenIsOver /\ Next => SeenIsOver'
<1> SUFFICES ASSUME PurchaseShape, EvidenceIsKnown, StartsAreApart, SeenIsOver, Next
             PROVE  SeenIsOver'
  OBVIOUS
<1>1. \A c \in Started : /\ c \in Started' /\ case'[c].by = case[c].by
                         /\ case'[c].known = case[c].known
  BY StartedStays
<1>2. ASSUME NEW c \in Started', c \notin Started
      PROVE  /\ case'[c].known \subseteq Started /\ \A d \in case'[c].known : Over(d)
             /\ \A d \in Started : d \in case'[c].known \/ case[d].by # case'[c].by
             /\ \A d \in Started' : d # c => d \in Started
  <2>1. PICK q \in Requests :
          /\ request[q].op = "start" /\ request[q].case = c
          /\ case'[c].by = request[q].at /\ case'[c].known = request[q].seen
          /\ \A d \in Cases : d # c => Same(d)
    BY <1>2, NewlyStarted
  <2>2. \A d \in Started' : d # c => d \in Started
    BY <2>1 DEF Same, Started
  <2> QED
    BY <2>1, <2>2 DEF StartsAreApart
<1>3. ASSUME NEW c \in Started'
      PROVE  case'[c].known \subseteq Started' /\ \A d \in case'[c].known : Over(d)'
  <2>1. case'[c].known \subseteq Started /\ \A d \in case'[c].known : Over(d)
    BY <1>1, <1>2, <1>3 DEF SeenIsOver
  <2> QED
    BY <2>1, OverStays
<1>4. ASSUME NEW c \in Started', NEW d \in Started', c # d, case'[c].by = case'[d].by
      PROVE  c \in case'[d].known \/ d \in case'[c].known
  <2>1. CASE c \in Started /\ d \in Started
    BY <1>1, <1>4, <2>1 DEF SeenIsOver
  <2>2. CASE c \notin Started
    BY <1>1, <1>2, <1>4, <2>2
  <2>3. CASE d \notin Started
    BY <1>1, <1>2, <1>4, <2>3
  <2> QED
    BY <2>1, <2>2, <2>3
<1> QED
  BY <1>3, <1>4 DEF SeenIsOver

LEMMA UsedOnceStep ==
  /\ PurchaseShape /\ EvidenceIsKnown /\ StartsAreApart /\ EvidenceIsUsedOnce /\ Next
  => EvidenceIsUsedOnce'
<1> SUFFICES ASSUME PurchaseShape, EvidenceIsKnown, StartsAreApart, EvidenceIsUsedOnce, Next
             PROVE  EvidenceIsUsedOnce'
  OBVIOUS
<1> DEFINE Apart(c, d) == /\ case[c].review # case[d].review /\ case[c].sale # case[d].sale
                          /\ case[c].buy = None \/ case[c].buy # case[d].buy
<1>1. ASSUME NEW c \in Started', NEW d \in Started', c # d PROVE Apart(c, d)'
  <2>0. c \in Cases /\ d \in Cases /\ case'[c].stage # "none" /\ case'[d].stage # "none"
    BY DEF Started
  <2>1. CASE \A e \in Cases : Same(e)
    <3>1. c \in Started /\ d \in Started
      BY <2>0, <2>1 DEF Same, Started
    <3>2. Apart(c, d)
      BY <1>1, <3>1 DEF EvidenceIsUsedOnce
    <3> QED
      BY <2>0, <2>1, <3>2 DEF Same
  <2>2. ASSUME NEW q \in Requests, AppendEvent(q) PROVE Apart(c, d)'
    <3>1. PICK new \in Case : Becomes(q, new)
      BY <2>2, Events
    <3>2. /\ request[q].case \in Cases /\ case \in [Cases -> Case]
          /\ case' = [case EXCEPT ![request[q].case] = new]
      BY <2>2, <3>1, Events DEF Becomes
    <3>3. case'[request[q].case] = new /\ \A e \in Cases : e # request[q].case => case'[e] = case[e]
      BY <3>2
    <3>4. CASE request[q].op = "start"
      <4>1. \A e \in Started : case[e].sale # request[q].tx /\ case[e].review # request[q].review
        BY <2>2, <3>4 DEF AppendEvent, Unused, BoundSale
      <4>2. new.sale = request[q].tx /\ new.review = request[q].review /\ new.buy = None
        BY <3>1, <3>4 DEF Becomes
      <4>3. \A e \in Started' : e # request[q].case => e \in Started
        BY <3>3 DEF Started
      <4>4. CASE c = request[q].case
        <5>1. d \in Started /\ case'[d] = case[d] /\ case'[c] = new
          BY <1>1, <2>0, <3>3, <4>3, <4>4
        <5> QED
          BY <4>1, <4>2, <5>1
      <4>5. CASE d = request[q].case
        <5>1. c \in Started /\ case'[c] = case[c] /\ case'[d] = new
          BY <1>1, <2>0, <3>3, <4>3, <4>5
        <5> QED
          BY <4>1, <4>2, <5>1
      <4>6. CASE c # request[q].case /\ d # request[q].case
        <5>1. c \in Started /\ d \in Started
          BY <4>3, <4>6
        <5> QED
          BY <1>1, <2>0, <3>3, <4>6, <5>1 DEF EvidenceIsUsedOnce
      <4> QED
        BY <4>4, <4>5, <4>6
    <3>5. CASE request[q].op # "start"
      <4>1. \A e \in Started' : e \in Started
        BY <3>1, <3>3, <3>5 DEF Started, Becomes
      <4>2. Apart(c, d) /\ Apart(d, c)
        BY <1>1, <4>1 DEF EvidenceIsUsedOnce
      <4>3. /\ new.sale = case[request[q].case].sale /\ new.review = case[request[q].case].review
            /\ \/ new.buy = case[request[q].case].buy
               \/ new.buy = request[q].tx /\ \A e \in Started : case[e].buy # request[q].tx
        BY <2>2, <3>1, <3>5 DEF Becomes, AppendEvent, Unused, BoundBuy
      <4>4. case'[c].sale = case[c].sale /\ case'[c].review = case[c].review
            /\ case'[d].sale = case[d].sale /\ case'[d].review = case[d].review
        BY <2>0, <3>3, <4>3
      <4>5. case'[c].buy = None \/ case'[c].buy # case'[d].buy
        BY <1>1, <2>0, <3>3, <4>1, <4>2, <4>3
      <4> QED
        BY <4>2, <4>4, <4>5
    <3> QED
      BY <3>4, <3>5
  <2> QED
    BY <2>1, <2>2, CaseMoves
<1>2. ASSUME NEW b \in Batches, NEW t \in batch'[b].bought PROVE binding'[t] = b
  <2>0. /\ batch \in [Batches -> Batch] /\ binding \in [Buys -> Batches \cup {None}]
        /\ \A k \in Batches : \A u \in batch[k].bought : binding[u] = k /\ u \in Buys
    BY DEF PurchaseShape, BatchShape, EvidenceIsUsedOnce, Batch
  <2>1. CASE UNCHANGED <<batch, binding>>
    BY <1>2, <2>0, <2>1
  <2>2. ASSUME NEW k \in Batches, Preflight(k) \/ ReconcileBatch(k) PROVE binding'[t] = b
    <3>1. batch'[b].bought = batch[b].bought /\ binding' = binding
      BY <2>0, <2>2 DEF Preflight, ReconcileBatch, Batch
    <3> QED
      BY <1>2, <2>0, <3>1
  <2>3. ASSUME NEW k \in Batches, NEW bought \in SUBSET Buys, RecordPurchases(k, bought)
        PROVE  binding'[t] = b
    <3>1. /\ b = k => batch'[b].bought = bought
          /\ b # k => batch'[b].bought = batch[b].bought
      BY <2>0, <2>3 DEF RecordPurchases, Batch
    <3>2. binding' = [u \in Buys |-> IF u \in bought THEN k ELSE binding[u]]
          /\ \A u \in bought : binding[u] \in {None, k}
      BY <2>3 DEF RecordPurchases, Bindable
    <3>3. None \notin Batches
      BY NoneAssumption
    <3> QED
      BY <1>2, <2>0, <3>1, <3>2, <3>3
  <2> QED
    BY <2>1, <2>2, <2>3, UserFrame, CaseFrame DEF Next, BatchNext
<1> QED
  BY <1>1, <1>2 DEF EvidenceIsUsedOnce

LEMMA LatestPreflightStep ==
  /\ PurchaseShape /\ ExecutionRestsOnLatestPreflight /\ Next
  => ExecutionRestsOnLatestPreflight'
<1> SUFFICES ASSUME PurchaseShape, ExecutionRestsOnLatestPreflight, Next, NEW b \in Batches,
                    batch'[b].stage # "none"
             PROVE  batch'[b].ready /\ batch'[b].under = batch'[b].preflights
  BY DEF ExecutionRestsOnLatestPreflight
<1>0. /\ batch \in [Batches -> Batch]
      /\ batch[b].stage # "none" => batch[b].ready /\ batch[b].under = batch[b].preflights
  BY DEF PurchaseShape, BatchShape, ExecutionRestsOnLatestPreflight
<1>1. CASE UNCHANGED batch
  BY <1>0, <1>1
<1>2. ASSUME NEW k \in Batches, Preflight(k)
      PROVE  batch'[b].ready /\ batch'[b].under = batch'[b].preflights
  BY <1>0, <1>2 DEF Preflight, Batch
<1>3. ASSUME NEW k \in Batches, ReconcileBatch(k)
      PROVE  batch'[b].ready /\ batch'[b].under = batch'[b].preflights
  BY <1>0, <1>3 DEF ReconcileBatch, Batch
<1>4. ASSUME NEW k \in Batches, NEW bought \in SUBSET Buys, RecordPurchases(k, bought)
      PROVE  batch'[b].ready /\ batch'[b].under = batch'[b].preflights
  BY <1>0, <1>4 DEF RecordPurchases, Batch
<1> QED
  BY <1>1, <1>2, <1>3, <1>4, UserFrame, CaseFrame DEF Next, BatchNext
-----------------------------------------------------------------------------
(* The policy.                                                             *)

InForce == {"active", "superseded"}

Version ==
  [status : {"none", "draft"} \cup InForce, payload : Payloads \cup {None},
   drawnFrom : 0..MaxVersions]

Readings == [Profiles!VersionIds -> {"none", "draft"} \cup InForce]

Request ==
  [at : {"start", "rows", "events", "done"}, seen : 0..MaxVersions,
   rows : {<<>>} \cup Readings, alarm : BOOLEAN]

PolicyShape ==
  /\ version \in [Profiles!VersionIds -> Version]
  /\ tab \in [Tabs -> [shown : 0..MaxVersions, draft : 0..MaxVersions]]
  /\ reader \in [Readers -> Request]

\* At most one version is in force, and those before it led to it one by one:
\* each version in force was drawn from one that has been superseded since, or
\* from nothing, and there is always one in force once there was one.
PolicyLine ==
  /\ \A v, w \in Profiles!VersionIds :
       version[v].status = "active" /\ version[w].status = "active" => v = w
  /\ \A v \in Profiles!VersionIds : version[v].status \in InForce =>
       /\ \E w \in Profiles!VersionIds : version[w].status = "active"
       /\ version[v].drawnFrom # 0 =>
            /\ version[v].drawnFrom \in Profiles!VersionIds
            /\ version[version[v].drawnFrom].status = "superseded"

\* The events tell every version that is there, also to a request that has read
\* the versions and not the events: no event is ever taken back.
AuditTells ==
  /\ Profiles!Sound(Profiles!Statuses, audit)
  /\ \A r \in Readers : reader[r].at = "events" => Profiles!Sound(reader[r].rows, audit)

PolicyInv ==
  /\ PolicyShape /\ PolicyLine /\ AuditTells
  /\ Profiles!EachReplacesWhatWasShown /\ Profiles!NoFalseAlarm

\* What Active chooses is the one active version, or 0.
LEMMA ActiveVersion ==
  ASSUME PolicyShape, PolicyLine
  PROVE  \/ /\ Profiles!Active = 0
            /\ \A w \in Profiles!VersionIds : version[w].status # "active"
         \/ /\ Profiles!Active \in Profiles!VersionIds
            /\ \A w \in Profiles!VersionIds : version[w].status = "active" <=> w = Profiles!Active
<1>1. CASE \E v \in Profiles!Versions : version[v].status = "active"
  <2>1. Profiles!Active \in Profiles!Versions /\ version[Profiles!Active].status = "active"
    BY <1>1 DEF Profiles!Active
  <2> QED
    BY <2>1 DEF Profiles!Versions, PolicyLine
<1>2. CASE ~\E v \in Profiles!Versions : version[v].status = "active"
  BY <1>2 DEF Profiles!Active, Profiles!Versions
<1> QED
  BY <1>1, <1>2

\* Events are only added, and more events make nothing less sound.
LEMMA MoreEvents ==
  ASSUME NEW rs, NEW es, NEW fs, Profiles!Sound(rs, es), es \subseteq fs
  PROVE  Profiles!Sound(rs, fs)
BY DEF Profiles!Sound

\* What Sound asks of the versions as they are.
Told(vs, es) ==
  /\ \A v \in Profiles!VersionIds :
       /\ vs[v].status # "none" =>
            Profiles!Event("draft", v) \in es \/ Profiles!Event("legacy", v) \in es
       /\ vs[v].status \in InForce =>
            Profiles!Event("activated", v) \in es \/ Profiles!Event("legacy", v) \in es
  /\ \A v, w \in Profiles!VersionIds :
       vs[v].status = "active" /\ vs[w].status = "active" => v = w

LEMMA SoundIsTold ==
  ASSUME NEW vs, NEW es
  PROVE  Profiles!Sound([v \in Profiles!VersionIds |-> vs[v].status], es) <=> Told(vs, es)
<1> DEFINE rs == [v \in Profiles!VersionIds |-> vs[v].status]
<1>1. DOMAIN rs = Profiles!VersionIds /\ \A v \in Profiles!VersionIds : rs[v] = vs[v].status
  OBVIOUS
<1> HIDE DEF rs
<1>2. Profiles!Sound(rs, es) <=> Told(vs, es)
  BY <1>1 DEF Profiles!Sound, Told, InForce
<1> QED
  BY <1>2 DEF rs

\* What an activation does to the versions.
LEMMA ActivationStep ==
  ASSUME PolicyShape, PolicyLine, NEW t \in Tabs, Profiles!Activate(t)
  PROVE  LET v == tab[t].draft IN
         /\ v \in Profiles!VersionIds /\ version[v].status = "draft"
         /\ tab[t].shown = Profiles!Active
         /\ version' \in [Profiles!VersionIds -> Version]
         /\ \A w \in Profiles!VersionIds :
              /\ version'[w].status = IF w = v THEN "active"
                                      ELSE IF version[w].status = "active" THEN "superseded"
                                      ELSE version[w].status
              /\ version'[w].drawnFrom = IF w = v THEN Profiles!Active ELSE version[w].drawnFrom
<1> DEFINE v == tab[t].draft
<1>1. v \in Profiles!VersionIds /\ version[v].status = "draft" /\ tab[t].shown = Profiles!Active
  BY PolicyAssumption DEF PolicyShape, Profiles!Activate, Profiles!VersionIds
<1>2. version' = [w \in Profiles!VersionIds |->
        [version[w] EXCEPT !.status = Profiles!Superseding(v, version)[w],
                           !.drawnFrom = IF w = v THEN tab[t].shown ELSE @]]
  BY DEF Profiles!Activate, Profiles!Activated
<1>3. ASSUME NEW w \in Profiles!VersionIds
      PROVE  /\ version'[w] \in Version
             /\ version'[w].status = IF w = v THEN "active"
                                     ELSE IF version[w].status = "active" THEN "superseded"
                                     ELSE version[w].status
             /\ version'[w].drawnFrom = IF w = v THEN Profiles!Active ELSE version[w].drawnFrom
  <2>1. Profiles!Superseding(v, version)[w] =
          IF w = v THEN "active" ELSE IF version[w].status = "active" THEN "superseded"
                                 ELSE version[w].status
    BY <1>3 DEF Profiles!Superseding
  <2>2. version'[w] = [version[w] EXCEPT !.status = Profiles!Superseding(v, version)[w],
                                         !.drawnFrom = IF w = v THEN tab[t].shown ELSE @]
    BY <1>2, <1>3
  <2>3. version[w] \in Version
    BY <1>3 DEF PolicyShape, Version
  <2>4. tab[t].shown \in 0..MaxVersions
    BY DEF PolicyShape
  <2> HIDE DEF v
  <2> QED
    BY <1>1, <2>1, <2>2, <2>3, <2>4 DEF Version, InForce
<1>4. version' \in [Profiles!VersionIds -> Version]
  BY <1>2, <1>3
<1> QED
  BY <1>1, <1>3, <1>4

\* What a request has read before an answer is sound, so that it never alarms.
LEMMA AnswerIsCalm ==
  ASSUME PolicyShape, AuditTells, NEW r \in Readers, Profiles!Verify(r), reader[r].at = "events"
  PROVE  /\ reader' \in [Readers -> Request]
         /\ reader'[r].at = "done" /\ ~reader'[r].alarm
         /\ UNCHANGED <<version, audit, tab>>
<1>1. Profiles!Sound(reader[r].rows, audit)
  BY DEF AuditTells
<1>2. reader' = [reader EXCEPT ![r] = [Profiles!NoAnswer EXCEPT
        !.at = "done", !.seen = reader[r].seen, !.alarm = ~Profiles!Sound(reader[r].rows, audit)]]
  BY DEF Profiles!Verify, Profiles!Answer
<1>3. (~Profiles!Sound(reader[r].rows, audit)) = FALSE
  BY <1>1, Zenon
<1>4. reader' = [reader EXCEPT ![r] = [Profiles!NoAnswer EXCEPT
        !.at = "done", !.seen = reader[r].seen, !.alarm = FALSE]]
  BY <1>2, <1>3, Zenon
<1>5. [Profiles!NoAnswer EXCEPT !.at = "done", !.seen = reader[r].seen, !.alarm = FALSE] \in
        [at : {"done"}, seen : 0..MaxVersions, rows : {<<>>}, alarm : {FALSE}]
  BY DEF Profiles!NoAnswer, PolicyShape, Request
<1>6. UNCHANGED <<version, audit, tab>>
  BY DEF Profiles!Verify
<1>7. reader'[r].at = "done" /\ ~reader'[r].alarm
  BY <1>4, <1>5 DEF PolicyShape
<1>8. reader' \in [Readers -> Request]
  BY <1>4, <1>5 DEF PolicyShape, Request
<1> QED
  BY <1>6, <1>7, <1>8

LEMMA PolicyShapeStep == PolicyShape /\ PolicyLine /\ AuditTells /\ Profiles!Next => PolicyShape'
<1> SUFFICES ASSUME PolicyShape, PolicyLine, AuditTells, Profiles!Next PROVE PolicyShape'
  OBVIOUS
<1> USE PolicyAssumption DEF PolicyShape, InForce, Request, Version
<1>0. Profiles!Active \in 0..MaxVersions
  BY ActiveVersion DEF Profiles!VersionIds
<1>1. ASSUME NEW t \in Tabs, Profiles!Load(t) PROVE PolicyShape'
  BY <1>0, <1>1 DEF Profiles!Load
<1>2. ASSUME NEW t \in Tabs, Profiles!Activate(t) PROVE PolicyShape'
  <2>1. UNCHANGED <<tab, reader>>
    BY <1>2 DEF Profiles!Activate, Profiles!Activated
  <2> QED
    BY <1>2, <2>1, ActivationStep DEF Version
<1>3. ASSUME NEW t \in Tabs, NEW p \in Payloads, Profiles!Draft(t, p) PROVE PolicyShape'
  <2>1. CASE \E d \in Profiles!Drafts(p) :
               tab' = [tab EXCEPT ![t].draft = d] /\ UNCHANGED <<version, audit>>
    <3>1. PICK d \in Profiles!Drafts(p) : tab' = [tab EXCEPT ![t].draft = d]
      BY <2>1
    <3>2. d \in 0..MaxVersions
      BY DEF Profiles!Drafts, Profiles!Versions, Profiles!VersionIds
    <3> QED
      BY <1>3, <2>1, <3>1, <3>2 DEF Profiles!Draft
  <2>2. CASE Profiles!Drafts(p) = {}
    <3>1. PICK v \in Profiles!VersionIds :
            /\ version' = [version EXCEPT ![v].status = "draft", ![v].payload = p]
            /\ tab' = [tab EXCEPT ![t].draft = v]
      BY <1>3, <2>2 DEF Profiles!Draft
    <3>2. v \in 0..MaxVersions /\ UNCHANGED reader
      BY <1>3 DEF Profiles!Draft, Profiles!VersionIds
    <3>3. tab' \in [Tabs -> [shown : 0..MaxVersions, draft : 0..MaxVersions]]
      BY <3>1, <3>2
    <3> QED
      BY <3>1, <3>2, <3>3
  <2> QED
    BY <1>3, <2>1, <2>2 DEF Profiles!Draft
<1>4. ASSUME NEW r \in Readers, Profiles!ReadActive(r) PROVE PolicyShape'
  BY <1>0, <1>4 DEF Profiles!ReadActive
<1>5. ASSUME NEW r \in Readers, Profiles!Verify(r) PROVE PolicyShape'
  <2>1. CASE reader[r].at = "rows"
    <3>1. Profiles!Statuses \in Readings
      BY DEF Profiles!Statuses, Readings
    <3>2. /\ reader' = [reader EXCEPT ![r].at = "events", ![r].rows = Profiles!Statuses]
          /\ UNCHANGED <<version, audit, tab>>
      BY <1>5, <2>1 DEF Profiles!Verify
    <3> QED
      BY <3>1, <3>2
  <2>2. CASE reader[r].at = "events"
    BY <1>5, <2>2, AnswerIsCalm
  <2> QED
    BY <1>5, <2>1, <2>2 DEF Profiles!Verify
<1>6. ASSUME NEW r \in Readers, Profiles!Again(r) PROVE PolicyShape'
  BY <1>6 DEF Profiles!Again, Profiles!NoAnswer
<1> QED
  BY <1>1, <1>2, <1>3, <1>4, <1>5, <1>6 DEF Profiles!Next

\* A draft does nothing to the versions in force, nor to the events that are
\* there.
LEMMA DraftStep ==
  ASSUME PolicyShape, NEW t \in Tabs, NEW p \in Payloads, Profiles!Draft(t, p)
  PROVE  /\ UNCHANGED reader /\ audit \subseteq audit'
         /\ \/ UNCHANGED <<version, audit>>
            \/ \E v \in Profiles!VersionIds :
                 /\ version[v].status = "none"
                 /\ \A w \in Profiles!VersionIds :
                      /\ version'[w].drawnFrom = version[w].drawnFrom
                      /\ version'[w].status = IF w = v THEN "draft" ELSE version[w].status
                 /\ Profiles!Event("draft", v) \in audit'
<1>1. CASE Profiles!Drafts(p) = {} /\ ~UNCHANGED <<version, audit>>
  <2>1. PICK v \in Profiles!VersionIds :
          /\ Profiles!Versions = 1..(v - 1)
          /\ version' = [version EXCEPT ![v].status = "draft", ![v].payload = p]
          /\ audit' = audit \cup {Profiles!Event("draft", v)}
    BY <1>1 DEF Profiles!Draft
  <2>2. v \notin Profiles!Versions
    BY <2>1 DEF Profiles!VersionIds
  <2>3. \A w \in Profiles!VersionIds :
          /\ version'[w].drawnFrom = version[w].drawnFrom
          /\ version'[w].status = IF w = v THEN "draft" ELSE version[w].status
    BY <2>1 DEF PolicyShape, Version, Request
  <2>4. UNCHANGED reader
    BY DEF Profiles!Draft
  <2> QED
    BY <2>1, <2>2, <2>3, <2>4 DEF Profiles!Versions
<1> QED
  BY <1>1 DEF Profiles!Draft

LEMMA PolicyLineStep ==
  PolicyShape /\ PolicyLine /\ Profiles!EachReplacesWhatWasShown /\ Profiles!Next =>
    PolicyLine' /\ Profiles!EachReplacesWhatWasShown'
<1> SUFFICES ASSUME PolicyShape, PolicyLine, Profiles!EachReplacesWhatWasShown, Profiles!Next
             PROVE  PolicyLine' /\ Profiles!EachReplacesWhatWasShown'
  OBVIOUS
<1> USE DEF PolicyLine, Profiles!EachReplacesWhatWasShown, Profiles!Versions, InForce
<1>1. ASSUME UNCHANGED version PROVE PolicyLine' /\ Profiles!EachReplacesWhatWasShown'
  BY <1>1
<1>2. ASSUME NEW t \in Tabs, Profiles!Activate(t)
      PROVE  PolicyLine' /\ Profiles!EachReplacesWhatWasShown'
  <2> DEFINE v == tab[t].draft
             a == Profiles!Active
  <2>1. /\ v \in Profiles!VersionIds /\ version[v].status = "draft"
        /\ \A w \in Profiles!VersionIds :
             /\ version'[w].status = IF w = v THEN "active"
                                     ELSE IF version[w].status = "active" THEN "superseded"
                                     ELSE version[w].status
             /\ version'[w].drawnFrom = IF w = v THEN a ELSE version[w].drawnFrom
    BY <1>2, ActivationStep
  <2>2. \/ a = 0 /\ \A w \in Profiles!VersionIds : version[w].status \notin InForce
        \/ /\ a \in Profiles!VersionIds
           /\ \A w \in Profiles!VersionIds : version[w].status = "active" <=> w = a
    BY ActiveVersion
  <2> HIDE DEF v, a
  <2>3. PolicyLine'
    BY <2>1, <2>2
  <2>4. \A w \in Profiles!VersionIds : version[w].status \in InForce => version[w].drawnFrom # a
    BY <2>2 DEF Profiles!VersionIds
  <2>5. Profiles!EachReplacesWhatWasShown'
    BY <2>1, <2>4
  <2> QED
    BY <2>3, <2>5
<1>3. ASSUME NEW t \in Tabs, NEW p \in Payloads, Profiles!Draft(t, p), ~UNCHANGED version
      PROVE  PolicyLine' /\ Profiles!EachReplacesWhatWasShown'
  <2>1. PICK v \in Profiles!VersionIds :
          /\ version[v].status = "none"
          /\ \A w \in Profiles!VersionIds :
               /\ version'[w].drawnFrom = version[w].drawnFrom
               /\ version'[w].status = IF w = v THEN "draft" ELSE version[w].status
    BY <1>3, DraftStep
  <2>2. PolicyLine'
    BY <2>1
  <2>3. Profiles!EachReplacesWhatWasShown'
    BY <2>1
  <2> QED
    BY <2>2, <2>3
<1> QED
  BY <1>1, <1>2, <1>3
  DEF Profiles!Next, Profiles!Load, Profiles!ReadActive, Profiles!Verify, Profiles!Again

LEMMA AuditStep ==
  PolicyShape /\ PolicyLine /\ AuditTells /\ Profiles!NoFalseAlarm /\ Profiles!Next =>
    AuditTells' /\ Profiles!NoFalseAlarm'
<1> SUFFICES ASSUME PolicyShape, PolicyLine, AuditTells, Profiles!NoFalseAlarm, Profiles!Next
             PROVE  AuditTells' /\ Profiles!NoFalseAlarm'
  OBVIOUS
<1> USE DEF AuditTells, Profiles!NoFalseAlarm
<1>0. Told(version, audit)
  BY SoundIsTold DEF Profiles!Statuses
<1>1. ASSUME UNCHANGED reader, audit \subseteq audit',
             Told(version', audit')
      PROVE  AuditTells' /\ Profiles!NoFalseAlarm'
  <2>1. ASSUME NEW r \in Readers, reader[r].at = "events"
        PROVE  Profiles!Sound(reader[r].rows, audit')
    BY <1>1, <2>1, MoreEvents
  <2>2. Profiles!Sound(Profiles!Statuses', audit')
    BY <1>1, SoundIsTold DEF Profiles!Statuses
  <2> QED
    BY <1>1, <2>1, <2>2
<1>2. ASSUME UNCHANGED <<version, audit, reader>> PROVE AuditTells' /\ Profiles!NoFalseAlarm'
  BY <1>2 DEF Profiles!Statuses
<1>3. ASSUME NEW t \in Tabs, Profiles!Activate(t) PROVE AuditTells' /\ Profiles!NoFalseAlarm'
  <2> DEFINE v == tab[t].draft
  <2>1. /\ UNCHANGED reader /\ audit \subseteq audit'
        /\ Profiles!Event("activated", v) \in audit'
    BY <1>3 DEF Profiles!Activate, Profiles!Activated
  <2>2. /\ v \in Profiles!VersionIds /\ version[v].status = "draft"
        /\ \A w \in Profiles!VersionIds :
             version'[w].status = IF w = v THEN "active"
                                  ELSE IF version[w].status = "active" THEN "superseded"
                                  ELSE version[w].status
    BY <1>3, ActivationStep
  <2> HIDE DEF v
  <2>3. Told(version', audit')
    BY <1>0, <2>1, <2>2 DEF Told, InForce
  <2> QED
    BY <1>1, <2>1, <2>3
<1>4. ASSUME NEW t \in Tabs, NEW p \in Payloads, Profiles!Draft(t, p)
      PROVE  AuditTells' /\ Profiles!NoFalseAlarm'
  <2>1. UNCHANGED reader /\ audit \subseteq audit'
    BY <1>4, DraftStep
  <2>2. CASE UNCHANGED <<version, audit>>
    BY <1>2, <2>1, <2>2
  <2>3. CASE ~UNCHANGED <<version, audit>>
    <3>1. PICK v \in Profiles!VersionIds :
            /\ version[v].status = "none"
            /\ \A w \in Profiles!VersionIds :
                 version'[w].status = IF w = v THEN "draft" ELSE version[w].status
            /\ Profiles!Event("draft", v) \in audit'
      BY <1>4, <2>3, DraftStep
    <3>3. Told(version', audit')
      BY <1>0, <2>1, <3>1 DEF Told, InForce
    <3> QED
      BY <1>1, <2>1, <3>3
  <2> QED
    BY <2>2, <2>3
<1>5. ASSUME NEW r \in Readers, Profiles!ReadActive(r) \/ Profiles!Again(r)
      PROVE  AuditTells' /\ Profiles!NoFalseAlarm'
  <2>1. /\ UNCHANGED <<version, audit>>
        /\ \A q \in Readers : q # r => reader'[q] = reader[q]
        /\ reader'[r].at # "events" /\ ~reader'[r].alarm
    BY <1>5 DEF PolicyShape, Version, Request, Profiles!ReadActive, Profiles!Again, Profiles!NoAnswer
  <2> QED
    BY <2>1 DEF Profiles!Statuses
<1>6. ASSUME NEW r \in Readers, Profiles!Verify(r)
      PROVE  AuditTells' /\ Profiles!NoFalseAlarm'
  <2>1. UNCHANGED <<version, audit>> /\ \A q \in Readers : q # r => reader'[q] = reader[q]
    BY <1>6 DEF PolicyShape, Version, Request, Profiles!Verify, Profiles!Answer
  <2>2. CASE reader[r].at = "rows"
    <3>1. reader'[r].at = "events" /\ reader'[r].rows = Profiles!Statuses /\ ~reader'[r].alarm
      BY <1>6, <2>2 DEF PolicyShape, Version, Request, Profiles!Verify
    <3> QED
      BY <2>1, <3>1 DEF Profiles!Statuses
  <2>3. CASE reader[r].at = "events"
    <3>1. reader'[r].at = "done" /\ ~reader'[r].alarm
      BY <1>6, <2>3, AnswerIsCalm DEF PolicyShape, Version, Request
    <3> QED
      BY <2>1, <3>1 DEF Profiles!Statuses
  <2> QED
    BY <1>6, <2>2, <2>3 DEF Profiles!Verify
<1> QED
  BY <1>2, <1>3, <1>4, <1>5, <1>6 DEF Profiles!Next, Profiles!Load
-----------------------------------------------------------------------------
(* The invariants of each component, and of them together.                 *)

LEMMA CaseInvInit == Init => CaseInv
<1> SUFFICES ASSUME Init PROVE CaseInv
  OBVIOUS
<1> USE BoundAssumption
<1>1. LedgerShape /\ agreed \in BOOLEAN
  BY DEF Init, LedgerShape
<1>2. Idle \in CaseRequest
  <2>1. None \in Seen
    BY DEF Seen
  <2> QED
    BY <2>1 DEF Idle, CaseRequest
<1>3. RequestShape
  <2>1. request = [q \in Requests |-> Idle]
    BY DEF Init
  <2> QED
    BY <1>2, <2>1 DEF RequestShape, Idle
<1>4. NoCase \in Case
  <2>1. None \in (SUBSET Ledger) \cup {None} /\ 0 \in 0..MaxQuotes
    OBVIOUS
  <2> QED
    BY <2>1 DEF NoCase, Case
<1>5. NoBatch \in Batch
  <2>1. {} \in SUBSET Buys /\ 0 \in 0..MaxPreflights
    OBVIOUS
  <2> QED
    BY <2>1 DEF NoBatch, Batch
<1>6. CaseShape /\ BatchShape
  BY <1>4, <1>5 DEF Init, CaseShape, BatchShape
<1>7. Started = {}
  BY DEF Init, NoCase, Started
<1>8. \A q \in Requests : request[q].op = "none"
  BY DEF Init, Idle
<1>9. \A b \in Batches : batch[b].bought = {} /\ batch[b].stage = "none"
  BY DEF Init, NoBatch
<1>10. EvidenceIsKnown /\ StartsAreApart /\ SeenIsOver
  BY <1>7, <1>8 DEF EvidenceIsKnown, StartsAreApart, SeenIsOver
<1>11. EvidenceIsUsedOnce /\ ExecutionRestsOnLatestPreflight
  BY <1>7, <1>9 DEF EvidenceIsUsedOnce, ExecutionRestsOnLatestPreflight
<1> QED
  BY <1>1, <1>3, <1>6, <1>10, <1>11 DEF CaseInv, PurchaseShape

LEMMA CaseInvStep == CaseInv /\ [Next]_vars => CaseInv'
<1> SUFFICES ASSUME CaseInv, [Next]_vars PROVE CaseInv'
  OBVIOUS
<1>1. PurchaseShape'
  BY PurchaseShapeStep DEF CaseInv
<1>2. CASE Next
  BY <1>1, <1>2, EvidenceIsKnownStep, StartsAreApartStep, SeenIsOverStep, UsedOnceStep,
     LatestPreflightStep
  DEF CaseInv
<1>3. CASE UNCHANGED vars
  <2> USE <1>3 DEF vars
  <2>1. Started' = Started /\ Known' = Known /\ \A c : Over(c)' <=> Over(c)
    BY DEF Started, Known, Over, Intact
  <2>2. EvidenceIsKnown' /\ StartsAreApart' /\ SeenIsOver'
    BY <2>1 DEF CaseInv, EvidenceIsKnown, StartsAreApart, SeenIsOver
  <2>3. EvidenceIsUsedOnce' /\ ExecutionRestsOnLatestPreflight'
    BY <2>1 DEF CaseInv, EvidenceIsUsedOnce, ExecutionRestsOnLatestPreflight
  <2> QED
    BY <1>1, <2>2, <2>3 DEF CaseInv
<1> QED
  BY <1>2, <1>3

LEMMA CaseInvImplies == CaseInv => TypeOK /\ CasesAreApart
<1> SUFFICES ASSUME CaseInv PROVE TypeOK /\ CasesAreApart
  OBVIOUS
<1>1. TypeOK
  BY DEF CaseInv, PurchaseShape, LedgerShape, RequestShape, CaseShape, BatchShape, Case,
         CaseRequest, Batch, TypeOK
<1>2. OneOpenCase
  <2>1. \A e \in Started : IsOpen(e) => ~Over(e)
    BY DEF Status, Terminal, IsOpen, Over
  <2>2. \A e \in Started : \A f \in case[e].known : Over(f)
    BY DEF CaseInv, SeenIsOver
  <2>3. \A e, f \in Started :
          e # f /\ case[e].by = case[f].by => e \in case[f].known \/ f \in case[e].known
    BY DEF CaseInv, SeenIsOver
  <2> QED
    BY <2>1, <2>2, <2>3 DEF OneOpenCase
<1> QED
  BY <1>1, <1>2 DEF CaseInv, CasesAreApart

\* However requests overlap, no sale, review or purchase serves two cases or two
\* batches, two cases are open only if they were started at once on two replicas,
\* and a batch was bought under its latest preflight (fund_switch_lifecycle_service.py, agent/repository.py).
THEOREM Apart == Spec => []CasesAreApart
<1>1. CaseInv => CasesAreApart
  BY CaseInvImplies
<1> QED
  BY CaseInvInit, CaseInvStep, <1>1, PTL DEF Spec

\* The variables of the purchases keep their types.
THEOREM PurchaseTypes == Spec => []TypeOK
<1>1. CaseInv => TypeOK
  BY CaseInvImplies
<1> QED
  BY CaseInvInit, CaseInvStep, <1>1, PTL DEF Spec

\* The components beside each other: no step of one disturbs what holds of another.
LEMMA FocusStep ==
  ASSUME [MCNext]_all
  PROVE  [Next]_vars /\ [Profiles!Next]_policyVars /\ [Research!Next]_researchVars
<1>1. CASE MCNext
  <2>1. CASE (OfCases \/ OfBatches) /\ UNCHANGED <<policyVars, researchVars>>
    BY <2>1 DEF OfCases, OfBatches, Next
  <2>2. CASE Profiles!Next /\ UNCHANGED <<vars, researchVars>>
    BY <2>2
  <2>3. CASE (OfQueue \/ OfResearch) /\ UNCHANGED <<vars, policyVars>>
    BY <2>3 DEF OfQueue, OfResearch
  <2> QED
    BY <1>1, <2>1, <2>2, <2>3 DEF MCNext
<1>2. CASE UNCHANGED all
  BY <1>2 DEF all
<1> QED
  BY <1>1, <1>2

\* The same of the composition that is model-checked.
THEOREM RecordsApart == MCSpec => []CasesAreApart
<1>1. MCInit => CaseInv
  BY CaseInvInit DEF MCInit
<1>2. CaseInv /\ [MCNext]_all => CaseInv'
  BY CaseInvStep, FocusStep
<1>3. CaseInv => CasesAreApart
  BY CaseInvImplies
<1> QED
  BY <1>1, <1>2, <1>3, PTL DEF MCSpec
LEMMA PolicyInvInit == Profiles!Init => PolicyInv
<1> SUFFICES ASSUME Profiles!Init PROVE PolicyInv
  OBVIOUS
<1> USE PolicyAssumption
<1>1. \A v \in Profiles!VersionIds :
        /\ version[v].drawnFrom = 0
        /\ version[v].status = "none" \/ (version[v].status = "active" /\ v = 1)
  <2>1. CASE version = [v \in Profiles!VersionIds |-> Profiles!NoVersion]
    <3>1. \A v \in Profiles!VersionIds : version[v] = Profiles!NoVersion
      BY <2>1
    <3> QED
      BY <3>1 DEF Profiles!NoVersion
  <2>2. CASE version = [v \in Profiles!VersionIds |->
               IF v = 1 THEN [Profiles!NoVersion EXCEPT !.status = "active"]
               ELSE Profiles!NoVersion]
    <3>1. \A v \in Profiles!VersionIds :
            /\ v = 1 => version[v] = [Profiles!NoVersion EXCEPT !.status = "active"]
            /\ v # 1 => version[v] = Profiles!NoVersion
      BY <2>2
    <3>2. /\ Profiles!NoVersion.drawnFrom = 0 /\ Profiles!NoVersion.status = "none"
          /\ [Profiles!NoVersion EXCEPT !.status = "active"].drawnFrom = 0
          /\ [Profiles!NoVersion EXCEPT !.status = "active"].status = "active"
      BY DEF Profiles!NoVersion
    <3> QED
      BY <3>1, <3>2
  <2> QED
    BY <2>1, <2>2 DEF Profiles!Init
<1>2. \A v \in Profiles!VersionIds :
        version[v].status # "none" => Profiles!Event("legacy", v) \in audit
  BY DEF Profiles!Init, Profiles!NoVersion
<1>3. \A r \in Readers : reader[r].at = "start" /\ ~reader[r].alarm
  BY DEF Profiles!Init, Profiles!NoAnswer
<1>4. PolicyShape
  <2>1. version \in [Profiles!VersionIds -> Version]
    <3>1. Profiles!NoVersion \in Version /\ [Profiles!NoVersion EXCEPT !.status = "active"] \in Version
      BY DEF Profiles!NoVersion, Version, InForce
    <3> QED
      BY <3>1 DEF Profiles!Init
  <2>2. tab \in [Tabs -> [shown : 0..MaxVersions, draft : 0..MaxVersions]]
    BY DEF Profiles!Init
  <2>3. reader \in [Readers -> Request]
    <3>1. <<>> \in {<<>>} \cup Readings
      OBVIOUS
    <3>2. Profiles!NoAnswer \in Request
      BY <3>1 DEF Profiles!NoAnswer, Request
    <3> QED
      BY <3>2 DEF Profiles!Init
  <2> QED
    BY <2>1, <2>2, <2>3 DEF PolicyShape
<1>5. PolicyLine
  BY <1>1 DEF PolicyLine, InForce
<1>6. Told(version, audit)
  BY <1>1, <1>2 DEF Told, InForce
<1>7. AuditTells
  BY <1>3, <1>6, SoundIsTold DEF AuditTells, Profiles!Statuses
<1>8. Profiles!EachReplacesWhatWasShown /\ Profiles!NoFalseAlarm
  BY <1>1, <1>3 DEF Profiles!EachReplacesWhatWasShown, Profiles!NoFalseAlarm, Profiles!Versions
<1> QED
  BY <1>4, <1>5, <1>7, <1>8 DEF PolicyInv

LEMMA PolicyInvStep == PolicyInv /\ [Profiles!Next]_policyVars => PolicyInv'
<1> SUFFICES ASSUME PolicyInv, [Profiles!Next]_policyVars PROVE PolicyInv'
  OBVIOUS
<1>1. CASE Profiles!Next
  BY <1>1, PolicyShapeStep, PolicyLineStep, AuditStep DEF PolicyInv
<1>2. CASE UNCHANGED policyVars
  BY <1>2 DEF policyVars, PolicyInv, PolicyShape, PolicyLine, AuditTells, Profiles!Statuses,
              Profiles!EachReplacesWhatWasShown, Profiles!Versions, Profiles!NoFalseAlarm
<1> QED
  BY <1>1, <1>2

LEMMA PolicyInvImplies == PolicyInv => Profiles!TypeOK /\ PoliciesAreSound
BY DEF PolicyInv, PolicyShape, PolicyLine, Version, Request, InForce, Profiles!TypeOK,
       PoliciesAreSound

\* However pages and readers interleave, a policy replaces the one its user was
\* shown, and no honest history is reported as tampered with
\* (storage.py, the functions of investment_profile_versions).
THEOREM Sound == Profiles!Spec => []PoliciesAreSound
<1>1. PolicyInv => PoliciesAreSound
  BY PolicyInvImplies
<1>2. PolicyInv /\ [Profiles!Next]_(Profiles!vars) => PolicyInv'
  BY PolicyInvStep DEF Profiles!vars, policyVars
<1> QED
  BY PolicyInvInit, <1>1, <1>2, PTL DEF Profiles!Spec

\* The variables of the policies keep their types, and one version is active.
THEOREM PolicyTypes == Profiles!Spec => []Profiles!TypeOK
<1>1. PolicyInv => Profiles!TypeOK
  BY PolicyInvImplies
<1>2. PolicyInv /\ [Profiles!Next]_(Profiles!vars) => PolicyInv'
  BY PolicyInvStep DEF Profiles!vars, policyVars
<1> QED
  BY PolicyInvInit, <1>1, <1>2, PTL DEF Profiles!Spec

\* The same of the composition that is model-checked.
THEOREM RecordsSound == MCSpec => []PoliciesAreSound
<1>1. MCInit => PolicyInv
  BY PolicyInvInit DEF MCInit
<1>2. PolicyInv /\ [MCNext]_all => PolicyInv'
  BY PolicyInvStep, FocusStep
<1>3. PolicyInv => PoliciesAreSound
  BY PolicyInvImplies
<1> QED
  BY <1>1, <1>2, <1>3, PTL DEF MCSpec

-----------------------------------------------------------------------------
(* Batches of research: shapes.                                            *)

Statuses == Research!Ended \cup {"none", "queued", "running"}

ReviewEvent == [request : Quotes, version : 0..MaxVersion, ready : BOOLEAN]

State == (0..MaxVersion) \X (SUBSET Trades)

BuyEvent ==
  [request : {<<s>> : s \in SUBSET Trades} \cup State, kind : {"recorded", "reconciled"},
   trades : SUBSET Trades, review : Nat]

ResultEvent == [request : State, of : Nat, trades : SUBSET Trades]

Client ==
  {Research!Idle} \cup [op : {"single"}]
  \cup [op : {"review"}, batch : ResearchBatches, after : Nat, event : ReviewEvent]
  \cup [op : {"buy"}, batch : ResearchBatches, after : Nat, event : BuyEvent]
  \cup [op : {"result"}, batch : ResearchBatches, after : Nat, event : ResultEvent]

RunShape == run \in [Research!Runs -> [status : Statuses, basis : 0..MaxVersion]]

HoldingsShape == holdings \in 0..MaxVersion /\ ledger \subseteq Trades /\ gone \subseteq Trades

HistoryShape ==
  /\ reviews \in [ResearchBatches -> Seq(ReviewEvent)] /\ buys \in [ResearchBatches -> Seq(BuyEvent)]
  /\ results \in [ResearchBatches -> Seq(ResultEvent)]
  /\ owner \in [Trades -> ResearchBatches \cup {None}]
  /\ \A b \in ResearchBatches :
       /\ Len(reviews[b]) <= MaxReviews /\ Len(buys[b]) <= MaxBuys /\ Len(results[b]) <= MaxResults

ClientShape == client \in [Clients -> Client]

ResearchShape == RunShape /\ HoldingsShape /\ HistoryShape /\ ClientShape

LEMMA Forms ==
  ASSUME ClientShape, NEW c \in Clients
  PROVE  /\ client[c].op \in {"none", "single", "review", "buy", "result"}
         /\ client[c].op = "none" => client[c] = Research!Idle
         /\ client[c].op \in {"review", "buy", "result"} =>
              client[c].batch \in ResearchBatches /\ client[c].after \in Nat
         /\ client[c].op = "review" => client[c].event \in ReviewEvent
         /\ client[c].op = "buy" => client[c].event \in BuyEvent
         /\ client[c].op = "result" => client[c].event \in ResultEvent
<1>1. client[c] \in Client
  BY DEF ClientShape
<1> QED
  BY <1>1 DEF Client, Research!Idle

\* A form that is read.
LEMMA FormRead ==
  ASSUME ClientShape, NEW c \in Clients, NEW form \in Client, client' = [client EXCEPT ![c] = form]
  PROVE  /\ ClientShape' /\ client'[c] = form
         /\ \A d \in Clients \ {c} : client'[d] = client[d]
BY DEF ClientShape

-----------------------------------------------------------------------------
(* Runs and the queue.                                                     *)

Counting == {c \in Clients : client[c].op = "single"}

\* The active runs that the limit is about
Limited == Research!Active \ Reruns

\* FiniteSets by way of AgentBatches.
LEMMA SameSize == \A s : Research!Cardinality(s) = Cardinality(s)
BY DEF Cardinality, Research!Cardinality

LEMMA Bound ==
  Research!QueueIsBounded <=>
    Cardinality(Limited) + Cardinality(Counting) <= MaxActive + Cardinality(Clients)
BY SameSize DEF Research!QueueIsBounded, Counting, Limited

LEMMA RunsAreFinite ==
  /\ IsFiniteSet(Research!Runs)
  /\ \A b \in ResearchBatches :
       IsFiniteSet(Research!Items(b)) /\ Cardinality(Research!Items(b)) = Cardinality(Funds)
<1> USE ResearchAssumption
<1>1. IsFiniteSet(ResearchBatches \X Funds)
  BY FS_Product
<1>2. IsFiniteSet(Research!Runs)
  BY <1>1, FS_Union DEF Research!Runs
<1>3. ASSUME NEW b \in ResearchBatches
      PROVE  IsFiniteSet(Research!Items(b)) /\ Cardinality(Research!Items(b)) = Cardinality(Funds)
  <2>1. IsFiniteSet({b}) /\ Cardinality({b}) = 1
    BY FS_Singleton
  <2>2. /\ IsFiniteSet({b} \X Funds)
        /\ Cardinality({b} \X Funds) = Cardinality({b}) * Cardinality(Funds)
    BY <2>1, FS_Product
  <2>3. Cardinality(Funds) \in Nat
    BY FS_CardinalityType
  <2> QED
    BY <2>1, <2>2, <2>3 DEF Research!Items
<1> QED
  BY <1>2, <1>3

LEMMA QueueIsFinite ==
  /\ IsFiniteSet(Limited) /\ Cardinality(Limited) \in Nat
  /\ Cardinality(Research!Active) \in Nat
  /\ Cardinality(Limited) <= Cardinality(Research!Active)
  /\ IsFiniteSet(Counting) /\ Cardinality(Counting) \in Nat
  /\ Cardinality(Clients) \in Nat /\ Cardinality(Counting) <= Cardinality(Clients)
  /\ Cardinality(Funds) \in Nat
<1>1. /\ Research!Active \subseteq Research!Runs /\ Counting \subseteq Clients
      /\ Limited \subseteq Research!Active
  BY DEF Research!Active, Counting, Limited
<1>2. IsFiniteSet(Research!Runs)
  BY RunsAreFinite
<1>3. IsFiniteSet(Research!Active)
  BY <1>1, <1>2, FS_Subset
<1>4. IsFiniteSet(Counting) /\ Cardinality(Counting) <= Cardinality(Clients)
  BY <1>1, ResearchAssumption, FS_Subset
<1>5. IsFiniteSet(Limited) /\ Cardinality(Limited) <= Cardinality(Research!Active)
  BY <1>1, <1>3, FS_Subset
<1> QED
  BY <1>3, <1>4, <1>5, ResearchAssumption, FS_CardinalityType

LEMMA QueueKept ==
  ASSUME Research!QueueIsBounded, NEW A, NEW C, A \subseteq Limited, C \subseteq Counting
  PROVE  Cardinality(A) + Cardinality(C) <= MaxActive + Cardinality(Clients)
<1>1. /\ IsFiniteSet(A) /\ Cardinality(A) <= Cardinality(Limited)
      /\ IsFiniteSet(C) /\ Cardinality(C) <= Cardinality(Counting)
  BY QueueIsFinite, FS_Subset
<1>2. Cardinality(A) \in Nat /\ Cardinality(C) \in Nat
  BY <1>1, FS_CardinalityType
<1>3. Cardinality(Limited) + Cardinality(Counting) <= MaxActive + Cardinality(Clients)
  BY Bound
<1> QED
  BY <1>1, <1>2, <1>3, QueueIsFinite, ResearchAssumption

QueueInv == Research!QueueIsBounded

LEMMA QueueStep ==
  ASSUME ResearchShape, QueueInv, Research!Next
  PROVE  QueueInv'
<1> USE ResearchAssumption DEF ResearchShape
<1> DEFINE Bounded(A, C) == Cardinality(A) + Cardinality(C) <= MaxActive + Cardinality(Clients)
<1> SUFFICES Bounded(Limited', Counting')
  BY SameSize DEF QueueInv, Research!QueueIsBounded, Counting, Limited
<1>1. ASSUME NEW b \in ResearchBatches, Research!CreateBatch(b)
      PROVE  Bounded(Limited', Counting')
  <2>1. /\ Counting' = Counting
        /\ Limited' \subseteq Limited \cup Research!Items(b)
    BY <1>1 DEF Research!CreateBatch, Research!Active, Limited, Counting, RunShape
  <2>2. /\ IsFiniteSet(Limited \cup Research!Items(b))
        /\ Cardinality(Limited \cup Research!Items(b)) =
             Cardinality(Limited) + Cardinality(Research!Items(b))
               - Cardinality(Limited \cap Research!Items(b))
    BY QueueIsFinite, RunsAreFinite, FS_Union
  <2>3. Cardinality(Limited \cap Research!Items(b)) \in Nat
    BY QueueIsFinite, FS_Subset, FS_CardinalityType
  <2>4. /\ Cardinality(Limited') \in Nat
        /\ Cardinality(Limited') <= Cardinality(Limited \cup Research!Items(b))
    BY <2>1, <2>2, FS_Subset, FS_CardinalityType
  <2>5. Cardinality(Limited) + Cardinality(Funds) <= MaxActive
    BY <1>1, SameSize, QueueIsFinite, ResearchAssumption DEF Research!CreateBatch, Research!Fits
  <2>6. Cardinality(Research!Items(b)) = Cardinality(Funds)
    BY RunsAreFinite
  <2>7. Cardinality(Limited') <= MaxActive
    BY <2>2, <2>3, <2>4, <2>5, <2>6, QueueIsFinite
  <2> QED
    BY <2>1, <2>4, <2>7, QueueIsFinite
<1>2. ASSUME NEW r \in Research!Runs, Research!RunGoes(r)
      PROVE  Bounded(Limited', Counting')
  <2>1. /\ Counting' = Counting /\ Limited' \subseteq Limited
    BY <1>2 DEF Research!RunGoes, Research!Active, Limited, Counting, RunShape
  <2> QED
    BY <2>1, QueueKept DEF QueueInv
<1>3. ASSUME NEW c \in Clients, Research!Count(c)
      PROVE  Bounded(Limited', Counting')
  <2>1. Limited' = Limited /\ Counting' \subseteq Clients
    BY <1>3 DEF Research!Count, Research!Active, Limited, Counting
  <2>2. Cardinality(Counting') \in Nat /\ Cardinality(Counting') <= Cardinality(Clients)
    BY <2>1, FS_Subset, FS_CardinalityType
  <2>3. Cardinality(Limited) < MaxActive
    BY <1>3, SameSize, QueueIsFinite DEF Research!Count
  <2> QED
    BY <2>1, <2>2, <2>3, QueueIsFinite
<1>4. ASSUME NEW c \in Clients, NEW r \in Singles, Research!CreateSingle(c, r)
      PROVE  Bounded(Limited', Counting')
  <2>1. /\ client[c].op = "single" /\ client' = [client EXCEPT ![c] = Research!Idle]
        /\ Limited' \subseteq Limited \cup {r}
    BY <1>4 DEF Research!CreateSingle, Research!Active, Limited, RunShape
  <2>2. Counting' = Counting \ {c} /\ c \in Counting
    BY <2>1 DEF Counting, ClientShape, Research!Idle
  <2>3. /\ Cardinality(Counting') = Cardinality(Counting) - 1
        /\ IsFiniteSet(Counting')
    BY <2>2, QueueIsFinite, FS_RemoveElement
  <2>4. /\ IsFiniteSet(Limited \cup {r})
        /\ Cardinality(Limited \cup {r}) <= Cardinality(Limited) + 1
    <3>1. IsFiniteSet(Limited) /\ Cardinality(Limited) \in Nat
      BY QueueIsFinite
    <3>2. /\ IsFiniteSet(Limited \cup {r})
          /\ Cardinality(Limited \cup {r}) =
               IF r \in Limited THEN Cardinality(Limited)
               ELSE Cardinality(Limited) + 1
      BY <3>1, FS_AddElement
    <3> QED
      BY <3>1, <3>2
  <2>5. /\ Cardinality(Limited') \in Nat
        /\ Cardinality(Limited') <= Cardinality(Limited \cup {r})
        /\ Cardinality(Limited \cup {r}) \in Nat
    BY <2>1, <2>4, FS_Subset, FS_CardinalityType
  <2>6. Cardinality(Limited) + Cardinality(Counting) <= MaxActive + Cardinality(Clients)
    BY Bound DEF QueueInv
  <2> QED
    BY <2>3, <2>4, <2>5, <2>6, QueueIsFinite
<1>5. ASSUME Counting' \subseteq Counting, UNCHANGED run
      PROVE  Bounded(Limited', Counting')
  BY <1>5, QueueKept DEF QueueInv, Research!Active, Limited
<1>6. ASSUME \/ \E b \in ResearchBatches : Research!Allocate(b) \/ Research!Expire(b)
             \/ Research!ConfirmHoldings
             \/ \E t \in Trades : Research!Add(t) \/ Research!Delete(t)
      PROVE  Bounded(Limited', Counting')
  <2>1. UNCHANGED <<run, client>>
    BY <1>6 DEF Research!Allocate, Research!Expire, Research!ConfirmHoldings, Research!Add,
                Research!Delete
  <2> QED
    BY <1>5, <2>1 DEF Counting
<1>7. ASSUME NEW c \in Clients,
             \/ Research!AppendReview(c) \/ Research!AppendBuy(c) \/ Research!AppendResult(c)
             \/ Research!Refuse(c)
      PROVE  Bounded(Limited', Counting')
  <2>1. UNCHANGED run /\ client' = [client EXCEPT ![c] = Research!Idle]
    BY <1>7 DEF Research!AppendReview, Research!AppendBuy, Research!AppendResult, Research!Refuse,
                Research!Answered, Research!Answers
  <2>2. Counting' \subseteq Counting
    BY <2>1 DEF Counting, ClientShape, Research!Idle
  <2> QED
    BY <1>5, <2>1, <2>2
<1>8. ASSUME NEW c \in Clients, NEW b \in ResearchBatches,
             \/ Research!ReadReconcile(c, b) \/ Research!ReadResult(c, b)
             \/ \E q \in Quotes : Research!ReadReview(c, b, q)
             \/ \E trades \in SUBSET Trades : Research!ReadRecord(c, b, trades)
      PROVE  Bounded(Limited', Counting')
  <2>1. UNCHANGED run
    BY <1>8 DEF Research!ReadReconcile, Research!ReadResult, Research!ReadReview,
                Research!ReadRecord, Research!Reads
  <2>2. client'[c].op # "single" /\ \A d \in Clients \ {c} : client'[d] = client[d]
    BY <1>8 DEF Research!ReadReconcile, Research!ReadResult, Research!ReadReview,
                Research!ReadRecord, Research!Reads, ClientShape
  <2>3. Counting' \subseteq Counting
    BY <2>2 DEF Counting
  <2> QED
    BY <1>5, <2>1, <2>3
<1>9. ASSUME NEW r \in Reruns, Research!Rerun(r)
      PROVE  Bounded(Limited', Counting')
  <2>1. /\ Counting' = Counting /\ Limited' \subseteq Limited
    BY <1>9 DEF Research!Rerun, Research!Active, Limited, Counting, RunShape
  <2> QED
    BY <2>1, QueueKept DEF QueueInv
<1> QED
  BY <1>1, <1>2, <1>3, <1>4, <1>6, <1>7, <1>8, <1>9 DEF Research!Next
-----------------------------------------------------------------------------
(* What the histories of a batch rest on.                                  *)

AllocationShape == allocation = [b \in ResearchBatches |-> allocation[b]]

\* The holdings that every run of the batch ended with.
OfHoldings(b, v) == Research!Terminal(b) /\ Research!Basis(b) = {v}

SharesRest ==
  \A b \in ResearchBatches : allocation[b] # None =>
    /\ Research!Terminal(b)
    /\ allocation[b].ready => OfHoldings(b, allocation[b].basis)

ReviewsRest ==
  \A b \in ResearchBatches : \A i \in 1..Len(reviews[b]) :
    reviews[b][i].ready => OfHoldings(b, reviews[b][i].version)

Passed(b, i) == i \in 1..Len(reviews[b]) /\ reviews[b][i].ready

Confirms(b, i) ==
  /\ i \in 2..Len(buys[b]) /\ buys[b][i].kind = "reconciled"
  /\ buys[b][i].trades = buys[b][i - 1].trades

BuysRest ==
  \A b \in ResearchBatches : \A i \in 1..Len(buys[b]) :
    /\ buys[b][i].review = Len(reviews[b]) /\ Passed(b, Len(reviews[b]))
    /\ \A t \in buys[b][i].trades : owner[t] = b
    /\ buys[b][i].kind = "reconciled" =>
         i = Len(buys[b]) /\ Confirms(b, i) /\ buys[b][i].trades # {}

ResultsRest ==
  \A b \in ResearchBatches : \A i \in 1..Len(results[b]) :
    /\ results[b][i].of = Len(buys[b]) /\ Confirms(b, Len(buys[b]))
    /\ results[b][i].trades = buys[b][Len(buys[b])].trades

\* What a request has read is still so when it appends, for histories only grow.
Backed(f) ==
  /\ f.op = "review" /\ f.event.ready => OfHoldings(f.batch, f.event.version)
  /\ f.op = "buy" =>
       /\ Passed(f.batch, f.event.review)
       /\ f.event.kind = "reconciled" =>
            /\ f.after \in 1..Len(buys[f.batch]) /\ f.event.trades # {}
            /\ buys[f.batch][f.after].trades = f.event.trades
  /\ f.op = "result" =>
       Confirms(f.batch, f.event.of) /\ f.event.trades = buys[f.batch][f.event.of].trades

FormsAreBacked == \A c \in Clients : Backed(client[c])

ChainInv ==
  /\ ResearchShape /\ AllocationShape
  /\ SharesRest /\ ReviewsRest /\ BuysRest /\ ResultsRest /\ FormsAreBacked

\* Runs that ended, and events that were appended, stand.
EndedStand ==
  \A b \in ResearchBatches :
    Research!Terminal(b) => Research!Terminal(b)' /\ Research!Basis(b)' = Research!Basis(b)

HistoriesGrow ==
  \A b \in ResearchBatches :
    /\ Len(reviews[b]) <= Len(reviews'[b]) /\ Len(buys[b]) <= Len(buys'[b])
    /\ \A i \in 1..Len(reviews[b]) : reviews'[b][i] = reviews[b][i]
    /\ \A i \in 1..Len(buys[b]) : buys'[b][i] = buys[b][i]

LEMMA Lengths ==
  ASSUME HistoryShape, NEW b \in ResearchBatches
  PROVE  /\ Len(reviews[b]) \in Nat /\ Len(buys[b]) \in Nat /\ Len(results[b]) \in Nat
         /\ reviews[b] = <<>> <=> Len(reviews[b]) = 0
         /\ buys[b] = <<>> <=> Len(buys[b]) = 0
         /\ results[b] = <<>> <=> Len(results[b]) = 0
BY DEF HistoryShape

LEMMA EventTypes ==
  ASSUME HistoryShape, NEW b \in ResearchBatches
  PROVE  /\ \A i \in 1..Len(reviews[b]) : reviews[b][i] \in ReviewEvent
         /\ \A i \in 1..Len(buys[b]) : buys[b][i] \in BuyEvent
         /\ \A i \in 1..Len(results[b]) : results[b][i] \in ResultEvent
BY DEF HistoryShape

\* An event more.
LEMMA ReviewAppended ==
  ASSUME HistoryShape, NEW b \in ResearchBatches, NEW e \in ReviewEvent, Len(reviews[b]) < MaxReviews,
         reviews' = [reviews EXCEPT ![b] = Append(@, e)], UNCHANGED <<buys, results, owner>>
  PROVE  /\ HistoryShape' /\ HistoriesGrow
         /\ Len(reviews'[b]) = Len(reviews[b]) + 1 /\ reviews'[b][Len(reviews[b]) + 1] = e
         /\ \A a \in ResearchBatches \ {b} : reviews'[a] = reviews[a]
<1>1. reviews'[b] = Append(reviews[b], e) /\ \A a \in ResearchBatches \ {b} : reviews'[a] = reviews[a]
  BY DEF HistoryShape
<1>2. reviews[b] \in Seq(ReviewEvent)
  BY DEF HistoryShape
<1>3. /\ reviews'[b] \in Seq(ReviewEvent) /\ Len(reviews'[b]) = Len(reviews[b]) + 1
      /\ reviews'[b][Len(reviews[b]) + 1] = e /\ Len(reviews[b]) \in Nat
      /\ \A i \in 1..Len(reviews[b]) : reviews'[b][i] = reviews[b][i]
  BY <1>1, <1>2
<1>4. HistoryShape'
  BY <1>1, <1>3, ResearchAssumption DEF HistoryShape
<1>5. HistoriesGrow
  BY <1>1, <1>3, Lengths DEF HistoriesGrow
<1> QED
  BY <1>1, <1>3, <1>4, <1>5

LEMMA BuyAppended ==
  ASSUME HistoryShape, NEW b \in ResearchBatches, NEW e \in BuyEvent, Len(buys[b]) < MaxBuys,
         buys' = [buys EXCEPT ![b] = Append(@, e)], UNCHANGED <<reviews, results>>,
         owner' = [t \in Trades |-> IF t \in e.trades THEN b ELSE owner[t]]
  PROVE  /\ HistoryShape' /\ HistoriesGrow
         /\ Len(buys'[b]) = Len(buys[b]) + 1 /\ buys'[b][Len(buys[b]) + 1] = e
         /\ \A a \in ResearchBatches \ {b} : buys'[a] = buys[a]
<1>1. buys'[b] = Append(buys[b], e) /\ \A a \in ResearchBatches \ {b} : buys'[a] = buys[a]
  BY DEF HistoryShape
<1>2. buys[b] \in Seq(BuyEvent)
  BY DEF HistoryShape
<1>3. /\ buys'[b] \in Seq(BuyEvent) /\ Len(buys'[b]) = Len(buys[b]) + 1
      /\ buys'[b][Len(buys[b]) + 1] = e /\ Len(buys[b]) \in Nat
      /\ \A i \in 1..Len(buys[b]) : buys'[b][i] = buys[b][i]
  BY <1>1, <1>2
<1>4. HistoryShape'
  <2>1. buys' \in [ResearchBatches -> Seq(BuyEvent)] /\ owner' \in [Trades -> ResearchBatches \cup {None}]
    BY <1>1, <1>3 DEF HistoryShape
  <2> QED
    BY <1>1, <1>3, <2>1, ResearchAssumption DEF HistoryShape
<1>5. HistoriesGrow
  BY <1>1, <1>3, Lengths DEF HistoriesGrow
<1> QED
  BY <1>1, <1>3, <1>4, <1>5

LEMMA ResultAppended ==
  ASSUME HistoryShape, NEW b \in ResearchBatches, NEW e \in ResultEvent, Len(results[b]) < MaxResults,
         results' = [results EXCEPT ![b] = Append(@, e)], UNCHANGED <<reviews, buys, owner>>
  PROVE  /\ HistoryShape' /\ HistoriesGrow
         /\ Len(results'[b]) = Len(results[b]) + 1 /\ results'[b][Len(results[b]) + 1] = e
         /\ \A i \in 1..Len(results[b]) : results'[b][i] = results[b][i]
         /\ \A a \in ResearchBatches \ {b} : results'[a] = results[a]
<1>1. results'[b] = Append(results[b], e) /\ \A a \in ResearchBatches \ {b} : results'[a] = results[a]
  BY DEF HistoryShape
<1>2. results[b] \in Seq(ResultEvent)
  BY DEF HistoryShape
<1>3. /\ results'[b] \in Seq(ResultEvent) /\ Len(results'[b]) = Len(results[b]) + 1
      /\ results'[b][Len(results[b]) + 1] = e /\ Len(results[b]) \in Nat
      /\ \A i \in 1..Len(results[b]) : results'[b][i] = results[b][i]
  BY <1>1, <1>2
<1>4. HistoryShape'
  BY <1>1, <1>3, ResearchAssumption DEF HistoryShape
<1>5. HistoriesGrow
  BY Lengths DEF HistoriesGrow
<1> QED
  BY <1>1, <1>3, <1>4, <1>5

\* What was backed stays so.
LEMMA StaysBacked ==
  ASSUME ResearchShape, EndedStand, HistoriesGrow, NEW f \in Client, Backed(f)
  PROVE  Backed(f)'
<1>1. ASSUME f.op = "review", f.event.ready PROVE OfHoldings(f.batch, f.event.version)'
  <2>1. f.batch \in ResearchBatches
    BY <1>1 DEF Client, Research!Idle
  <2> QED
    BY <1>1, <2>1 DEF Backed, EndedStand, OfHoldings
<1>2. ASSUME f.op = "buy"
      PROVE  /\ Passed(f.batch, f.event.review)'
             /\ f.event.kind = "reconciled" =>
                  /\ f.after \in 1..Len(buys'[f.batch]) /\ f.event.trades # {}
                  /\ buys'[f.batch][f.after].trades = f.event.trades
  <2>1. f.batch \in ResearchBatches
    BY <1>2 DEF Client, Research!Idle
  <2>2. /\ Len(reviews[f.batch]) \in Nat /\ Len(buys[f.batch]) \in Nat
        /\ Len(reviews[f.batch]) <= Len(reviews'[f.batch]) /\ Len(buys[f.batch]) <= Len(buys'[f.batch])
        /\ \A i \in 1..Len(reviews[f.batch]) : reviews'[f.batch][i] = reviews[f.batch][i]
        /\ \A i \in 1..Len(buys[f.batch]) : buys'[f.batch][i] = buys[f.batch][i]
    BY <2>1, Lengths DEF HistoriesGrow, ResearchShape
  <2>3. /\ Passed(f.batch, f.event.review)
        /\ f.event.kind = "reconciled" =>
             /\ f.after \in 1..Len(buys[f.batch]) /\ f.event.trades # {}
             /\ buys[f.batch][f.after].trades = f.event.trades
    BY <1>2 DEF Backed
  <2> QED
    BY <2>2, <2>3 DEF Passed
<1>3. ASSUME f.op = "result"
      PROVE  (Confirms(f.batch, f.event.of) /\ f.event.trades = buys[f.batch][f.event.of].trades)'
  <2>1. f.batch \in ResearchBatches
    BY <1>3 DEF Client, Research!Idle
  <2>2. /\ Len(buys[f.batch]) \in Nat /\ Len(buys[f.batch]) <= Len(buys'[f.batch])
        /\ \A i \in 1..Len(buys[f.batch]) : buys'[f.batch][i] = buys[f.batch][i]
    BY <2>1, Lengths DEF HistoriesGrow, ResearchShape
  <2>3. Confirms(f.batch, f.event.of) /\ f.event.trades = buys[f.batch][f.event.of].trades
    BY <1>3 DEF Backed
  <2>4. /\ f.event.of \in 1..Len(buys[f.batch]) /\ f.event.of - 1 \in 1..Len(buys[f.batch])
        /\ f.event.of \in 2..Len(buys'[f.batch])
    BY <2>2, <2>3 DEF Confirms
  <2>5. /\ buys'[f.batch][f.event.of] = buys[f.batch][f.event.of]
        /\ buys'[f.batch][f.event.of - 1] = buys[f.batch][f.event.of - 1]
    BY <2>2, <2>4
  <2>6. /\ buys[f.batch][f.event.of].kind = "reconciled"
        /\ buys[f.batch][f.event.of].trades = buys[f.batch][f.event.of - 1].trades
    BY <2>3 DEF Confirms
  <2>7. Confirms(f.batch, f.event.of)'
    BY <2>4, <2>5, <2>6 DEF Confirms
  <2> QED
    BY <2>3, <2>5, <2>7
<1> QED
  BY <1>1, <1>2, <1>3 DEF Backed
-----------------------------------------------------------------------------
(* The steps.                                                              *)

\* No event, and no form that says more than the one before.
LEMMA NoEvent ==
  ASSUME HistoryShape, UNCHANGED <<reviews, buys, results, owner>>
  PROVE  HistoryShape' /\ HistoriesGrow
<1>1. HistoryShape'
  BY DEF HistoryShape
<1>2. HistoriesGrow
  BY Lengths DEF HistoriesGrow
<1> QED
  BY <1>1, <1>2

\* The histories rest on the same, if none has grown.
LEMMA RestAsBefore ==
  ASSUME ResearchShape, ReviewsRest, BuysRest, ResultsRest, EndedStand,
         UNCHANGED <<reviews, buys, results, owner>>
  PROVE  ReviewsRest' /\ BuysRest' /\ ResultsRest'
<1>1. ReviewsRest'
  <2> SUFFICES ASSUME NEW b \in ResearchBatches, NEW i \in 1..Len(reviews[b]), reviews[b][i].ready
               PROVE  OfHoldings(b, reviews[b][i].version)'
    BY DEF ReviewsRest
  <2>1. OfHoldings(b, reviews[b][i].version)
    BY DEF ReviewsRest
  <2> QED
    BY <2>1 DEF EndedStand, OfHoldings
<1>2. BuysRest' /\ ResultsRest'
  BY DEF BuysRest, ResultsRest, Passed, Confirms
<1> QED
  BY <1>1, <1>2

LEMMA FormsStayBacked ==
  ASSUME ResearchShape, FormsAreBacked, EndedStand, HistoriesGrow, NEW c \in Clients,
         \A d \in Clients \ {c} : client'[d] = client[d],
         client'[c] = client[c] \/ client'[c].op \in {"none", "single"}
  PROVE  FormsAreBacked'
<1> SUFFICES ASSUME NEW d \in Clients PROVE Backed(client[d])'
  BY DEF FormsAreBacked
<1>1. CASE client'[d] = client[d]
  <2>1. PICK f \in Client : f = client[d]
    BY DEF ResearchShape, ClientShape
  <2>2. Backed(f)
    BY <2>1 DEF FormsAreBacked
  <2>3. Backed(f)'
    BY <2>2, StaysBacked
  <2> QED
    BY <1>1, <2>1, <2>3
<1>2. CASE client'[d] # client[d]
  BY <1>2 DEF Backed
<1> QED
  BY <1>1, <1>2

\* Runs.
LEMMA EndedRunsStand ==
  ASSUME ResearchShape,
         \A r \in Research!Runs : run[r].status \in Research!Ended => run'[r] = run[r]
  PROVE  EndedStand
<1> SUFFICES ASSUME NEW b \in ResearchBatches, Research!Terminal(b)
             PROVE  Research!Terminal(b)' /\ Research!Basis(b)' = Research!Basis(b)
  BY DEF EndedStand
<1>1. \A r \in Research!Items(b) : r \in Research!Runs /\ run'[r] = run[r]
  BY DEF Research!Terminal, Research!Items, Research!Runs
<1> QED
  BY <1>1 DEF Research!Terminal, Research!Basis

\* Steps of runs and of single requests.
LEMMA RunSteps ==
  ASSUME ResearchShape,
         \/ \E b \in ResearchBatches : Research!CreateBatch(b)
         \/ \E r \in Research!Runs : Research!RunGoes(r)
         \/ \E c \in Clients : Research!Count(c)
         \/ \E c \in Clients, r \in Singles : Research!CreateSingle(c, r)
         \/ \E r \in Reruns : Research!Rerun(r)
  PROVE  /\ ResearchShape' /\ EndedStand
         /\ UNCHANGED <<allocation, reviews, buys, results, owner>>
         /\ \/ UNCHANGED client
            \/ \E c \in Clients : /\ \A d \in Clients \ {c} : client'[d] = client[d]
                                  /\ client'[c].op \in {"none", "single"}
<1> USE ResearchAssumption
<1>0. Research!Queued \in [status : Statuses, basis : 0..MaxVersion]
  BY DEF Research!Queued, Statuses
<1>1. ASSUME NEW b \in ResearchBatches, Research!CreateBatch(b)
      PROVE  RunShape' /\ \A r \in Research!Runs : run[r].status \in Research!Ended => run'[r] = run[r]
  <2>1. /\ \A r \in Research!Items(b) : run[r].status = "none"
        /\ run' = [r \in Research!Runs |-> IF r \in Research!Items(b) THEN Research!Queued ELSE run[r]]
    BY <1>1 DEF Research!CreateBatch
  <2> QED
    BY <1>0, <2>1 DEF ResearchShape, RunShape, Research!Ended
<1>2. ASSUME NEW r \in Research!Runs, Research!RunGoes(r)
      PROVE  RunShape' /\ \A q \in Research!Runs : run[q].status \in Research!Ended => run'[q] = run[q]
  <2>1. run[r] \in [status : Statuses, basis : 0..MaxVersion] /\ run[r].status \in {"queued", "running"}
    BY <1>2 DEF Research!RunGoes, ResearchShape, RunShape
  <2>2. PICK new \in [status : Statuses, basis : 0..MaxVersion] : run' = [run EXCEPT ![r] = new]
    <3>1. CASE run' = [run EXCEPT ![r].status = "running"]
      <4>1. [run[r] EXCEPT !.status = "running"] \in [status : Statuses, basis : 0..MaxVersion]
        BY <2>1 DEF Statuses
      <4>2. run' = [run EXCEPT ![r] = [run[r] EXCEPT !.status = "running"]]
        BY <3>1
      <4> QED
        BY <4>1, <4>2
    <3>2. ASSUME NEW s \in {"completed", "failed"}, run' = [run EXCEPT ![r] = [status |-> s, basis |-> holdings]]
          PROVE  \E new \in [status : Statuses, basis : 0..MaxVersion] : run' = [run EXCEPT ![r] = new]
      <4>1. [status |-> s, basis |-> holdings] \in [status : Statuses, basis : 0..MaxVersion]
        BY DEF ResearchShape, HoldingsShape, Statuses, Research!Ended
      <4> QED
        BY <3>2, <4>1
    <3> QED
      BY <1>2, <3>1, <3>2 DEF Research!RunGoes
  <2> QED
    BY <2>1, <2>2 DEF ResearchShape, RunShape, Research!Ended
<1>3. ASSUME NEW c \in Clients, NEW r \in Singles, Research!CreateSingle(c, r)
      PROVE  RunShape' /\ \A q \in Research!Runs : run[q].status \in Research!Ended => run'[q] = run[q]
  <2>1. run[r].status = "none" /\ run' = [run EXCEPT ![r] = Research!Queued]
    BY <1>3 DEF Research!CreateSingle
  <2> QED
    BY <1>0, <2>1 DEF ResearchShape, RunShape, Research!Ended, Research!Runs
<1>4. ASSUME NEW c \in Clients, Research!Count(c)
      PROVE  RunShape' /\ \A q \in Research!Runs : run[q].status \in Research!Ended => run'[q] = run[q]
  BY <1>4 DEF Research!Count, ResearchShape, RunShape
<1>5. ASSUME NEW r \in Reruns, Research!Rerun(r)
      PROVE  RunShape' /\ \A q \in Research!Runs : run[q].status \in Research!Ended => run'[q] = run[q]
  <2>1. run[r].status = "none" /\ run' = [run EXCEPT ![r] = Research!Queued]
    BY <1>5 DEF Research!Rerun
  <2> QED
    BY <1>0, <2>1 DEF ResearchShape, RunShape, Research!Ended, Research!Runs
<1>6. RunShape' /\ EndedStand
  BY <1>1, <1>2, <1>3, <1>4, <1>5, EndedRunsStand
<1>7. UNCHANGED <<holdings, ledger, gone, allocation, reviews, buys, results, owner>>
  BY DEF Research!CreateBatch, Research!RunGoes, Research!Count, Research!CreateSingle,
         Research!Rerun, Research!portfolio, Research!tables
<1>8. /\ ClientShape'
      /\ \/ UNCHANGED client
         \/ \E c \in Clients : /\ \A d \in Clients \ {c} : client'[d] = client[d]
                               /\ client'[c].op \in {"none", "single"}
  <2>1. CASE UNCHANGED client
    BY <2>1 DEF ResearchShape, ClientShape
  <2>2. ASSUME NEW c \in Clients, NEW f \in {Research!Idle, [op |-> "single"]},
               client' = [client EXCEPT ![c] = f]
        PROVE  ClientShape' /\ client'[c] = f /\ \A d \in Clients \ {c} : client'[d] = client[d]
    BY <2>2, FormRead DEF ResearchShape, Client
  <2>3. \A f \in {Research!Idle, [op |-> "single"]} : f.op \in {"none", "single"}
    BY DEF Research!Idle
  <2> QED
    BY <2>1, <2>2, <2>3 DEF Research!CreateBatch, Research!RunGoes, Research!Count,
                            Research!CreateSingle, Research!Rerun
<1>9. HoldingsShape' /\ HistoryShape'
  BY <1>7, NoEvent DEF ResearchShape, HoldingsShape
<1> QED
  BY <1>6, <1>7, <1>8, <1>9 DEF ResearchShape

\* A step that appends nothing.
LEMMA NothingAppended ==
  ASSUME ChainInv, ResearchShape', EndedStand, UNCHANGED <<allocation, reviews, buys, results, owner>>,
         \/ UNCHANGED client
         \/ \E c \in Clients : /\ \A d \in Clients \ {c} : client'[d] = client[d]
                               /\ client'[c].op \in {"none", "single"}
  PROVE  ChainInv'
<1>1. AllocationShape' /\ SharesRest'
  BY DEF ChainInv, AllocationShape, SharesRest, OfHoldings, EndedStand
<1>2. ReviewsRest' /\ BuysRest' /\ ResultsRest'
  BY RestAsBefore DEF ChainInv
<1>3. HistoriesGrow
  BY NoEvent DEF ChainInv, ResearchShape
<1>4. FormsAreBacked'
  <2>1. CASE UNCHANGED client
    <3> SUFFICES ASSUME NEW c \in Clients PROVE FormsAreBacked'
      BY <2>1 DEF FormsAreBacked
    <3> QED
      BY <1>3, <2>1, FormsStayBacked DEF ChainInv
  <2>2. CASE ~UNCHANGED client
    BY <1>3, <2>2, FormsStayBacked DEF ChainInv
  <2> QED
    BY <2>1, <2>2
<1> QED
  BY <1>1, <1>2, <1>4 DEF ChainInv

LEMMA ChainOfRuns ==
  ASSUME ChainInv,
         \/ \E b \in ResearchBatches : Research!CreateBatch(b)
         \/ \E r \in Research!Runs : Research!RunGoes(r)
         \/ \E c \in Clients : Research!Count(c)
         \/ \E c \in Clients, r \in Singles : Research!CreateSingle(c, r)
         \/ \E r \in Reruns : Research!Rerun(r)
  PROVE  ChainInv'
BY RunSteps, NothingAppended DEF ChainInv

\* Holdings, transactions and time.
LEMMA ChainOfPortfolio ==
  ASSUME ChainInv,
         \/ Research!ConfirmHoldings \/ \E t \in Trades : Research!Add(t) \/ Research!Delete(t)
         \/ \E b \in ResearchBatches : Research!Expire(b)
         \/ \E c \in Clients : Research!Refuse(c)
  PROVE  ChainInv'
<1> USE ResearchAssumption
<1>1. UNCHANGED <<run, allocation, reviews, buys, results, owner>>
  BY DEF Research!ConfirmHoldings, Research!Add, Research!Delete, Research!Expire, Research!Refuse,
         Research!Answered, Research!Answers, Research!tables
<1>2. HoldingsShape'
  <2>1. CASE Research!ConfirmHoldings
    BY <2>1 DEF ChainInv, ResearchShape, HoldingsShape, Research!ConfirmHoldings
  <2>2. CASE \E t \in Trades : Research!Add(t) \/ Research!Delete(t)
    BY <2>2 DEF ChainInv, ResearchShape, HoldingsShape, Research!Add, Research!Delete
  <2>3. CASE \/ \E b \in ResearchBatches : Research!Expire(b)
             \/ \E c \in Clients : Research!Refuse(c)
    BY <2>3 DEF ChainInv, ResearchShape, HoldingsShape, Research!Expire, Research!Refuse,
                Research!Answered, Research!Answers, Research!portfolio
  <2> QED
    BY <2>1, <2>2, <2>3
<1>3. /\ ClientShape'
      /\ \/ UNCHANGED client
         \/ \E c \in Clients : /\ \A d \in Clients \ {c} : client'[d] = client[d]
                               /\ client'[c].op \in {"none", "single"}
  <2>1. CASE UNCHANGED client
    BY <2>1 DEF ChainInv, ResearchShape, ClientShape
  <2>2. ASSUME NEW c \in Clients, client' = [client EXCEPT ![c] = Research!Idle]
        PROVE  /\ ClientShape' /\ client'[c] = Research!Idle
               /\ \A d \in Clients \ {c} : client'[d] = client[d]
    BY <2>2, FormRead DEF ChainInv, ResearchShape, Client
  <2>3. Research!Idle.op = "none"
    BY DEF Research!Idle
  <2> QED
    BY <2>1, <2>2, <2>3 DEF Research!ConfirmHoldings, Research!Add, Research!Delete,
       Research!Expire, Research!Refuse, Research!Answered, Research!Answers
<1>4. RunShape' /\ EndedStand
  BY <1>1, EndedRunsStand DEF ChainInv, ResearchShape, RunShape
<1>5. HistoryShape'
  BY <1>1, NoEvent DEF ChainInv, ResearchShape
<1>6. ResearchShape'
  BY <1>2, <1>3, <1>4, <1>5 DEF ResearchShape
<1> QED
  BY <1>1, <1>3, <1>4, <1>6, NothingAppended

\* A budget is shared out.
LEMMA OneHolding ==
  ASSUME RunShape, NEW b \in ResearchBatches, Research!Shareable(b)
  PROVE  Research!Basis(b) = {CHOOSE v \in Research!Basis(b) : TRUE}
<1>1. Research!Basis(b) \subseteq 0..MaxVersion
  BY DEF Research!Basis, Research!Items, Research!Runs, RunShape
<1>2. IsFiniteSet(0..MaxVersion)
  BY FS_Interval, ResearchAssumption
<1>3. IsFiniteSet(Research!Basis(b))
  BY <1>1, <1>2, FS_Subset
<1>4. Cardinality(Research!Basis(b)) = 1
  BY SameSize DEF Research!Shareable
<1>5. PICK v : Research!Basis(b) = {v}
  BY <1>3, <1>4, FS_Singleton
<1> QED
  BY <1>5

LEMMA ChainOfShares ==
  ASSUME ChainInv, NEW b \in ResearchBatches, Research!Allocate(b)
  PROVE  ChainInv'
<1>1. /\ Research!Terminal(b) /\ UNCHANGED <<run, holdings, agrees, ledger, gone>>
      /\ UNCHANGED <<reviews, buys, owner, results, client>>
  BY DEF Research!Allocate, Research!portfolio
<1>2. PICK ready \in {FALSE, Research!Shareable(b)} :
        allocation' = [allocation EXCEPT
          ![b] = [ready |-> ready, basis |-> CHOOSE v \in Research!Basis(b) : TRUE]]
  BY DEF Research!Allocate
<1>3. /\ allocation'[b].ready = ready
      /\ allocation'[b].basis = (CHOOSE v \in Research!Basis(b) : TRUE)
      /\ \A a \in ResearchBatches \ {b} : allocation'[a] = allocation[a]
      /\ AllocationShape'
  BY <1>2 DEF ChainInv, AllocationShape
<1>4. allocation'[b].ready => OfHoldings(b, allocation'[b].basis)
  <2>1. allocation'[b].ready => Research!Shareable(b)
    BY <1>2, <1>3
  <2> QED
    BY <1>1, <1>3, <2>1, OneHolding DEF OfHoldings, ChainInv, ResearchShape
<1>5. Research!Terminal(b)' = Research!Terminal(b) /\ Research!Basis(b)' = Research!Basis(b)
  BY <1>1 DEF Research!Terminal, Research!Basis
<1>6. SharesRest'
  <2> SUFFICES ASSUME NEW a \in ResearchBatches, allocation'[a] # None
               PROVE  (/\ Research!Terminal(a)
                       /\ allocation[a].ready => OfHoldings(a, allocation[a].basis))'
    BY DEF SharesRest
  <2>1. CASE a = b
    BY <1>1, <1>4, <1>5, <2>1 DEF OfHoldings
  <2>2. CASE a # b
    BY <1>1, <1>3, <2>2 DEF ChainInv, SharesRest, OfHoldings, Research!Terminal, Research!Basis
  <2> QED
    BY <2>1, <2>2
<1>7. ResearchShape'
  BY <1>1 DEF ChainInv, ResearchShape, RunShape, HoldingsShape, HistoryShape, ClientShape
<1>8. EndedStand /\ HistoriesGrow
  BY <1>1, NoEvent DEF ChainInv, ResearchShape, EndedStand, Research!Terminal, Research!Basis
<1>9. ReviewsRest' /\ BuysRest' /\ ResultsRest'
  BY <1>1, <1>8, RestAsBefore DEF ChainInv
<1>10. ASSUME NEW c \in Clients PROVE FormsAreBacked'
  BY <1>1, <1>8, FormsStayBacked DEF ChainInv
<1>11. FormsAreBacked'
  BY <1>10 DEF FormsAreBacked
<1> QED
  BY <1>3, <1>6, <1>7, <1>9, <1>11 DEF ChainInv

\* A request reads.
LEMMA RequestReads ==
  ASSUME ChainInv, NEW c \in Clients, NEW f \in Client, Backed(f), client' = [client EXCEPT ![c] = f],
         UNCHANGED <<run, holdings, ledger, gone, allocation, reviews, buys, results, owner>>
  PROVE  ChainInv'
<1>1. ClientShape' /\ client'[c] = f /\ \A d \in Clients \ {c} : client'[d] = client[d]
  BY FormRead DEF ChainInv, ResearchShape
<1>2. RunShape' /\ HoldingsShape' /\ HistoryShape' /\ HistoriesGrow
  BY NoEvent DEF ChainInv, ResearchShape, RunShape, HoldingsShape
<1>3. EndedStand
  BY EndedRunsStand DEF ChainInv
<1>4. ReviewsRest' /\ BuysRest' /\ ResultsRest'
  BY <1>3, RestAsBefore DEF ChainInv
<1>5. AllocationShape' /\ SharesRest'
  BY <1>3 DEF ChainInv, AllocationShape, SharesRest, OfHoldings, EndedStand
<1>6. FormsAreBacked'
  <2> SUFFICES ASSUME NEW d \in Clients PROVE Backed(client[d])'
    BY DEF FormsAreBacked
  <2>1. PICK g \in Client : g = client'[d] /\ Backed(g)
    BY <1>1 DEF ChainInv, ResearchShape, ClientShape, FormsAreBacked
  <2>2. Backed(g)'
    BY <1>2, <1>3, <2>1, StaysBacked DEF ChainInv
  <2> QED
    BY <2>1, <2>2
<1> QED
  BY <1>1, <1>2, <1>4, <1>5, <1>6 DEF ChainInv, ResearchShape

LEMMA ReviewsRead ==
  ASSUME ChainInv, NEW c \in Clients, NEW b \in ResearchBatches, NEW q \in Quotes,
         Research!ReadReview(c, b, q)
  PROVE  ChainInv'
<1>1. PICK passes \in BOOLEAN :
        Research!Reads(c, [op |-> "review", batch |-> b, after |-> Len(reviews[b]),
          event |-> [request |-> q, version |-> holdings,
                     ready |-> passes /\ holdings = allocation[b].basis]])
  BY DEF Research!ReadReview
<1>2. PICK ready \in BOOLEAN : ready = (passes /\ holdings = allocation[b].basis)
  OBVIOUS
<1>3. PICK e : e = [request |-> q, version |-> holdings, ready |-> ready]
  OBVIOUS
<1>4. PICK f : f = [op |-> "review", batch |-> b, after |-> Len(reviews[b]), event |-> e]
  OBVIOUS
<1>5. e \in ReviewEvent
  BY <1>2, <1>3 DEF ReviewEvent, ChainInv, ResearchShape, HoldingsShape
<1>6. f \in Client
  BY <1>4, <1>5, Lengths DEF Client, ChainInv, ResearchShape
<1>7. Backed(f)
  <2>1. ready => OfHoldings(b, holdings)
    BY <1>2 DEF Research!ReadReview, ChainInv, SharesRest
  <2> QED
    BY <1>3, <1>4, <2>1 DEF Backed
<1>8. Research!Reads(c, f)
  BY <1>1, <1>2, <1>3, <1>4
<1> QED
  BY <1>6, <1>7, <1>8, RequestReads DEF Research!Reads, Research!portfolio, Research!tables

LEMMA LastEvents ==
  ASSUME HistoryShape, NEW b \in ResearchBatches
  PROVE  /\ reviews[b] # <<>> =>
              Len(reviews[b]) \in 1..Len(reviews[b]) /\ Research!Last(reviews[b]) = reviews[b][Len(reviews[b])]
         /\ buys[b] # <<>> =>
              Len(buys[b]) \in 1..Len(buys[b]) /\ Research!Last(buys[b]) = buys[b][Len(buys[b])]
         /\ results[b] # <<>> =>
              Len(results[b]) \in 1..Len(results[b]) /\ Research!Last(results[b]) = results[b][Len(results[b])]
BY Lengths DEF Research!Last

LEMMA RecordRead ==
  ASSUME ChainInv, NEW c \in Clients, NEW b \in ResearchBatches, NEW trades \in SUBSET Trades,
         Research!ReadRecord(c, b, trades)
  PROVE  ChainInv'
<1>1. PICK e : e = [request |-> <<trades>>, kind |-> "recorded", trades |-> trades,
                    review |-> Len(reviews[b])]
  OBVIOUS
<1>2. PICK f : f = [op |-> "buy", batch |-> b, after |-> Len(buys[b]), event |-> e]
  OBVIOUS
<1>3. Len(reviews[b]) \in Nat /\ Len(buys[b]) \in Nat
  BY Lengths DEF ChainInv, ResearchShape
<1>4. e \in BuyEvent
  BY <1>1, <1>3 DEF BuyEvent
<1>5. f \in Client
  BY <1>2, <1>3, <1>4 DEF Client
<1>6. Passed(b, Len(reviews[b]))
  BY LastEvents DEF Research!ReadRecord, Passed, ChainInv, ResearchShape
<1>7. Backed(f)
  BY <1>1, <1>2, <1>6 DEF Backed
<1>8. Research!Reads(c, f)
  BY <1>1, <1>2 DEF Research!ReadRecord
<1> QED
  BY <1>5, <1>7, <1>8, RequestReads DEF Research!Reads, Research!portfolio, Research!tables

LEMMA ReconcileRead ==
  ASSUME ChainInv, NEW c \in Clients, NEW b \in ResearchBatches, Research!ReadReconcile(c, b)
  PROVE  ChainInv'
<1> DEFINE last == buys[b][Len(buys[b])]
<1>1. /\ buys[b] # <<>> /\ last.trades # {} /\ Len(buys[b]) \in 1..Len(buys[b])
      /\ Research!Reads(c, [op |-> "buy", batch |-> b, after |-> Len(buys[b]),
           event |-> [request |-> <<holdings, ledger>>, kind |-> "reconciled",
                      trades |-> last.trades, review |-> Len(reviews[b])]])
  BY LastEvents DEF Research!ReadReconcile, ChainInv, ResearchShape
<1>2. last \in BuyEvent
  BY <1>1, EventTypes DEF ChainInv, ResearchShape
<1>3. PICK e : e = [request |-> <<holdings, ledger>>, kind |-> "reconciled",
                    trades |-> last.trades, review |-> Len(reviews[b])]
  OBVIOUS
<1>4. PICK f : f = [op |-> "buy", batch |-> b, after |-> Len(buys[b]), event |-> e]
  OBVIOUS
<1>5. Len(reviews[b]) \in Nat /\ Len(buys[b]) \in Nat
  BY Lengths DEF ChainInv, ResearchShape
<1>6. e \in BuyEvent
  <2>1. <<holdings, ledger>> \in State
    BY DEF State, ChainInv, ResearchShape, HoldingsShape
  <2> QED
    BY <1>2, <1>3, <1>5, <2>1 DEF BuyEvent
<1>7. f \in Client
  BY <1>4, <1>5, <1>6 DEF Client
<1>8. Passed(b, Len(reviews[b]))
  BY <1>1 DEF ChainInv, BuysRest
<1>9. Backed(f)
  BY <1>1, <1>3, <1>4, <1>8 DEF Backed
<1>10. Research!Reads(c, f)
  BY <1>1, <1>3, <1>4
<1> QED
  BY <1>7, <1>9, <1>10, RequestReads DEF Research!Reads, Research!portfolio, Research!tables

LEMMA ResultRead ==
  ASSUME ChainInv, NEW c \in Clients, NEW b \in ResearchBatches, Research!ReadResult(c, b)
  PROVE  ChainInv'
<1> DEFINE n == Len(buys[b])
<1>1. /\ n \in 1..Len(buys[b]) /\ buys[b][n].kind = "reconciled"
      /\ Research!Reads(c, [op |-> "result", batch |-> b, after |-> Len(results[b]),
           event |-> [request |-> <<holdings, ledger>>, of |-> n, trades |-> buys[b][n - 1].trades]])
  BY LastEvents DEF Research!ReadResult, ChainInv, ResearchShape
<1>2. Confirms(b, n)
  BY <1>1 DEF ChainInv, BuysRest
<1>3. n - 1 \in 1..Len(buys[b]) /\ n \in Nat
  BY <1>2, Lengths DEF Confirms, ChainInv, ResearchShape
<1>4. buys[b][n - 1] \in BuyEvent
  BY <1>3, EventTypes DEF ChainInv, ResearchShape
<1>5. PICK e : e = [request |-> <<holdings, ledger>>, of |-> n, trades |-> buys[b][n - 1].trades]
  OBVIOUS
<1>6. PICK f : f = [op |-> "result", batch |-> b, after |-> Len(results[b]), event |-> e]
  OBVIOUS
<1>7. e \in ResultEvent
  <2>1. <<holdings, ledger>> \in State
    BY DEF State, ChainInv, ResearchShape, HoldingsShape
  <2>2. buys[b][n - 1].trades \in SUBSET Trades
    BY <1>4 DEF BuyEvent
  <2> QED
    BY <1>3, <1>5, <2>1, <2>2 DEF ResultEvent
<1>8. f \in Client
  BY <1>6, <1>7, Lengths DEF Client, ChainInv, ResearchShape
<1>9. Backed(f)
  <2>1. buys[b][n].trades = buys[b][n - 1].trades
    BY <1>2 DEF Confirms
  <2> QED
    BY <1>2, <1>5, <1>6, <2>1 DEF Backed
<1>10. Research!Reads(c, f)
  BY <1>1, <1>5, <1>6
<1> QED
  BY <1>8, <1>9, <1>10, RequestReads DEF Research!Reads, Research!portfolio, Research!tables

\* A request appends.
LEMMA RequestEnds ==
  ASSUME ClientShape, NEW c \in Clients, client' = [client EXCEPT ![c] = Research!Idle]
  PROVE  /\ ClientShape' /\ client'[c].op = "none"
         /\ \A d \in Clients \ {c} : client'[d] = client[d]
<1>1. Research!Idle \in Client /\ Research!Idle.op = "none"
  BY DEF Client, Research!Idle
<1> QED
  BY <1>1, FormRead

LEMMA ReviewsKept ==
  ASSUME ReviewsRest, UNCHANGED <<run, reviews>> PROVE ReviewsRest'
<1>1. \A b \in ResearchBatches : Research!Terminal(b)' = Research!Terminal(b) /\ Research!Basis(b)' = Research!Basis(b)
  BY DEF Research!Terminal, Research!Basis
<1> QED
  BY <1>1 DEF ReviewsRest, OfHoldings

LEMMA ReviewStored ==
  ASSUME ChainInv, NEW c \in Clients, Research!AppendReview(c)
  PROVE  ChainInv'
<1>1. PICK f \in Client : f = client[c] /\ Backed(f)
  BY DEF ChainInv, ResearchShape, ClientShape, FormsAreBacked
<1>2. PICK b : b = f.batch
  OBVIOUS
<1>3. PICK e : e = f.event
  OBVIOUS
<1>4. /\ f.op = "review" /\ Len(reviews[b]) < MaxReviews /\ buys[b] = <<>>
      /\ reviews' = [reviews EXCEPT ![b] = Append(@, e)]
      /\ client' = [client EXCEPT ![c] = Research!Idle]
      /\ UNCHANGED <<run, holdings, ledger, gone, allocation, buys, owner, results>>
  BY <1>1, <1>2, <1>3 DEF Research!AppendReview, Research!MayReview, Research!Answers, Research!portfolio
<1>5. b \in ResearchBatches /\ e \in ReviewEvent
  BY <1>1, <1>2, <1>3, <1>4, Forms DEF ChainInv, ResearchShape
<1>6. /\ HistoryShape' /\ HistoriesGrow
      /\ Len(reviews'[b]) = Len(reviews[b]) + 1 /\ reviews'[b][Len(reviews[b]) + 1] = e
      /\ \A a \in ResearchBatches \ {b} : reviews'[a] = reviews[a]
  BY <1>4, <1>5, ReviewAppended DEF ChainInv, ResearchShape
<1>7. /\ ClientShape' /\ client'[c].op = "none"
      /\ \A d \in Clients \ {c} : client'[d] = client[d]
  BY <1>4, RequestEnds DEF ChainInv, ResearchShape
<1>8. ResearchShape'
  BY <1>4, <1>6, <1>7 DEF ChainInv, ResearchShape, RunShape, HoldingsShape
<1>9. EndedStand /\ \A a, v : OfHoldings(a, v)' <=> OfHoldings(a, v)
  BY <1>4 DEF EndedStand, OfHoldings, Research!Terminal, Research!Basis
<1>10. AllocationShape' /\ SharesRest'
  BY <1>4, <1>9 DEF ChainInv, AllocationShape, SharesRest, OfHoldings, EndedStand
<1>11. ReviewsRest'
  <2> SUFFICES ASSUME NEW a \in ResearchBatches, NEW i \in 1..Len(reviews'[a]), reviews'[a][i].ready
               PROVE  OfHoldings(a, reviews'[a][i].version)
    BY <1>9 DEF ReviewsRest, OfHoldings, EndedStand
  <2>1. CASE a # b \/ i # Len(reviews[b]) + 1
    <3>1. i \in 1..Len(reviews[a]) /\ reviews'[a][i] = reviews[a][i]
      BY <1>5, <1>6, <2>1, Lengths DEF HistoriesGrow, ChainInv, ResearchShape
    <3> QED
      BY <3>1 DEF ChainInv, ReviewsRest
  <2>2. CASE a = b /\ i = Len(reviews[b]) + 1
    BY <1>1, <1>2, <1>3, <1>4, <1>6, <2>2 DEF Backed
  <2> QED
    BY <2>1, <2>2
<1>12. BuysRest'
  <2> SUFFICES ASSUME NEW a \in ResearchBatches, NEW i \in 1..Len(buys[a])
               PROVE  /\ reviews'[a] = reviews[a]
                      /\ UNCHANGED <<buys, owner>>
    BY <1>4 DEF ChainInv, BuysRest, Passed, Confirms
  <2>1. a # b
    BY <1>4
  <2> QED
    BY <1>4, <1>6, <2>1
<1>13. ResultsRest'
  BY <1>4 DEF ChainInv, ResultsRest, Confirms
<1>14. FormsAreBacked'
  BY <1>6, <1>7, <1>9, FormsStayBacked DEF ChainInv
<1> QED
  BY <1>8, <1>10, <1>11, <1>12, <1>13, <1>14 DEF ChainInv

LEMMA BuyStored ==
  ASSUME ChainInv, NEW c \in Clients, Research!AppendBuy(c)
  PROVE  ChainInv'
<1>1. PICK f \in Client : f = client[c] /\ Backed(f)
  BY DEF ChainInv, ResearchShape, ClientShape, FormsAreBacked
<1>2. PICK b : b = f.batch
  OBVIOUS
<1>3. PICK e : e = f.event
  OBVIOUS
<1>4. /\ f.op = "buy" /\ Len(buys[b]) < MaxBuys
      /\ Len(buys[b]) = f.after /\ Len(reviews[b]) = e.review
      /\ \A t \in e.trades : owner[t] \in {None, b}
      /\ buys[b] # <<>> => Research!Last(buys[b]).kind = "recorded"
      /\ buys' = [buys EXCEPT ![b] = Append(@, e)]
      /\ owner' = [t \in Trades |-> IF t \in e.trades THEN b ELSE owner[t]]
      /\ client' = [client EXCEPT ![c] = Research!Idle]
      /\ UNCHANGED <<run, holdings, ledger, gone, allocation, reviews, results>>
  BY <1>1, <1>2, <1>3 DEF Research!AppendBuy, Research!MayBuy, Research!MayBuyAgain, Research!Free,
                          Research!Answers, Research!portfolio
<1>5. b \in ResearchBatches /\ e \in BuyEvent
  BY <1>1, <1>2, <1>3, <1>4, Forms DEF ChainInv, ResearchShape
<1>6. /\ HistoryShape' /\ HistoriesGrow
      /\ Len(buys'[b]) = Len(buys[b]) + 1 /\ buys'[b][Len(buys[b]) + 1] = e
      /\ \A a \in ResearchBatches \ {b} : buys'[a] = buys[a]
  BY <1>4, <1>5, BuyAppended DEF ChainInv, ResearchShape
<1>7. /\ ClientShape' /\ client'[c].op = "none"
      /\ \A d \in Clients \ {c} : client'[d] = client[d]
  BY <1>4, RequestEnds DEF ChainInv, ResearchShape
<1>8. ResearchShape'
  BY <1>4, <1>6, <1>7 DEF ChainInv, ResearchShape, RunShape, HoldingsShape
<1>9. EndedStand
  BY <1>4 DEF EndedStand, Research!Terminal, Research!Basis
<1>10. AllocationShape' /\ SharesRest'
  BY <1>4, <1>9 DEF ChainInv, AllocationShape, SharesRest, OfHoldings, EndedStand
<1>11. ReviewsRest'
  BY <1>4, ReviewsKept DEF ChainInv
<1>12. Len(buys[b]) \in Nat /\ (buys[b] # <<>> => buys[b][Len(buys[b])].kind = "recorded")
  BY <1>4, <1>5, LastEvents, Lengths DEF ChainInv, ResearchShape
<1>13. \A i \in 1..Len(buys[b]) : buys'[b][i] = buys[b][i] /\ buys[b][i].kind # "reconciled"
  <2> SUFFICES ASSUME NEW i \in 1..Len(buys[b]) PROVE buys[b][i].kind # "reconciled"
    BY <1>5, <1>6 DEF HistoriesGrow
  <2>1. buys[b] # <<>>
    OBVIOUS
  <2> QED
    BY <1>5, <1>12, <2>1 DEF ChainInv, BuysRest
<1>14. BuysRest'
  <2> SUFFICES ASSUME NEW a \in ResearchBatches, NEW i \in 1..Len(buys'[a])
               PROVE  (/\ buys[a][i].review = Len(reviews[a]) /\ Passed(a, Len(reviews[a]))
                       /\ \A t \in buys[a][i].trades : owner[t] = a
                       /\ buys[a][i].kind = "reconciled" =>
                            i = Len(buys[a]) /\ Confirms(a, i) /\ buys[a][i].trades # {})'
    BY DEF BuysRest
  <2>1. CASE a # b
    <3>1. buys'[a] = buys[a] /\ UNCHANGED reviews
      BY <1>4, <1>6, <2>1
    <3>2. /\ buys[a][i].review = Len(reviews[a]) /\ Passed(a, Len(reviews[a]))
          /\ \A t \in buys[a][i].trades : owner[t] = a
          /\ buys[a][i].kind = "reconciled" =>
               i = Len(buys[a]) /\ Confirms(a, i) /\ buys[a][i].trades # {}
      BY <3>1 DEF ChainInv, BuysRest
    <3>3. \A t \in buys[a][i].trades : owner'[t] = a
      <4>1. buys[a][i].trades \subseteq Trades
        BY <3>1, EventTypes DEF ChainInv, ResearchShape, BuyEvent
      <4> QED
        BY <1>4, <2>1, <3>2, <4>1, ResearchAssumption
    <3> QED
      BY <3>1, <3>2, <3>3 DEF Passed, Confirms
  <2>2. CASE a = b /\ i \in 1..Len(buys[b])
    <3>1. buys'[b][i] = buys[b][i] /\ buys[b][i].kind # "reconciled"
      BY <1>13, <2>2
    <3>2. /\ buys[b][i].review = Len(reviews[b]) /\ Passed(b, Len(reviews[b]))
          /\ \A t \in buys[b][i].trades : owner[t] = b
      BY <1>5, <2>2 DEF ChainInv, BuysRest
    <3>3. buys[b][i].trades \subseteq Trades
      BY <1>5, <2>2, EventTypes DEF ChainInv, ResearchShape, BuyEvent
    <3>4. \A t \in buys[b][i].trades : owner'[t] = b
      BY <1>4, <3>2, <3>3
    <3> QED
      BY <1>4, <2>2, <3>1, <3>2, <3>4 DEF Passed
  <2>3. CASE a = b /\ i = Len(buys[b]) + 1
    <3>1. buys'[b][i] = e /\ e.trades \subseteq Trades /\ UNCHANGED reviews
      BY <1>4, <1>5, <1>6, <2>3 DEF BuyEvent
    <3>2. e.review = Len(reviews[b]) /\ Passed(b, Len(reviews[b]))
      BY <1>1, <1>2, <1>3, <1>4 DEF Backed
    <3>3. \A t \in e.trades : owner'[t] = b
      BY <1>4, <3>1
    <3>4. ASSUME e.kind = "reconciled"
          PROVE  i = Len(buys'[b]) /\ Confirms(b, i)' /\ e.trades # {}
      <4>1. /\ Len(buys[b]) \in 1..Len(buys[b]) /\ e.trades # {}
            /\ buys[b][Len(buys[b])].trades = e.trades
        BY <1>1, <1>2, <1>3, <1>4, <3>4 DEF Backed
      <4>2. buys'[b][i - 1].trades = e.trades /\ i \in 2..Len(buys'[b])
        BY <1>6, <1>12, <1>13, <2>3, <4>1
      <4> QED
        BY <1>6, <2>3, <3>1, <3>4, <4>1, <4>2 DEF Confirms
    <3> QED
      BY <2>3, <3>1, <3>2, <3>3, <3>4 DEF Passed
  <2> QED
    BY <1>6, <1>12, <2>1, <2>2, <2>3
<1>15. ResultsRest'
  <2>1. ASSUME NEW i \in 1..Len(results[b]) PROVE FALSE
    <3>1. Confirms(b, Len(buys[b]))
      BY <1>5 DEF ChainInv, ResultsRest
    <3> QED
      BY <1>12, <1>13, <3>1 DEF Confirms
  <2>2. \A a \in ResearchBatches \ {b} : buys'[a] = buys[a] /\ UNCHANGED results
    BY <1>4, <1>6
  <2> QED
    BY <1>4, <2>1, <2>2 DEF ChainInv, ResultsRest, Confirms
<1>16. FormsAreBacked'
  BY <1>6, <1>7, <1>9, FormsStayBacked DEF ChainInv
<1> QED
  BY <1>8, <1>10, <1>11, <1>14, <1>15, <1>16 DEF ChainInv

LEMMA ResultStored ==
  ASSUME ChainInv, NEW c \in Clients, Research!AppendResult(c)
  PROVE  ChainInv'
<1>1. PICK f \in Client : f = client[c] /\ Backed(f)
  BY DEF ChainInv, ResearchShape, ClientShape, FormsAreBacked
<1>2. PICK b : b = f.batch
  OBVIOUS
<1>3. PICK e : e = f.event
  OBVIOUS
<1>4. /\ f.op = "result" /\ Len(results[b]) < MaxResults /\ Len(buys[b]) = e.of
      /\ results' = [results EXCEPT ![b] = Append(@, e)]
      /\ client' = [client EXCEPT ![c] = Research!Idle]
      /\ UNCHANGED <<run, holdings, ledger, gone, allocation, reviews, buys, owner>>
  BY <1>1, <1>2, <1>3 DEF Research!AppendResult, Research!Answers, Research!portfolio
<1>5. b \in ResearchBatches /\ e \in ResultEvent
  BY <1>1, <1>2, <1>3, <1>4, Forms DEF ChainInv, ResearchShape
<1>6. /\ HistoryShape' /\ HistoriesGrow
      /\ Len(results'[b]) = Len(results[b]) + 1 /\ results'[b][Len(results[b]) + 1] = e
      /\ \A i \in 1..Len(results[b]) : results'[b][i] = results[b][i]
      /\ \A a \in ResearchBatches \ {b} : results'[a] = results[a]
  BY <1>4, <1>5, ResultAppended DEF ChainInv, ResearchShape
<1>7. /\ ClientShape' /\ client'[c].op = "none"
      /\ \A d \in Clients \ {c} : client'[d] = client[d]
  BY <1>4, RequestEnds DEF ChainInv, ResearchShape
<1>8. ResearchShape'
  BY <1>4, <1>6, <1>7 DEF ChainInv, ResearchShape, RunShape, HoldingsShape
<1>9. EndedStand
  BY <1>4 DEF EndedStand, Research!Terminal, Research!Basis
<1>10. AllocationShape' /\ SharesRest'
  BY <1>4, <1>9 DEF ChainInv, AllocationShape, SharesRest, OfHoldings, EndedStand
<1>11. ReviewsRest' /\ BuysRest'
  BY <1>4, ReviewsKept DEF ChainInv, BuysRest, Passed, Confirms
<1>12. ResultsRest'
  <2> SUFFICES ASSUME NEW a \in ResearchBatches, NEW i \in 1..Len(results'[a])
               PROVE  /\ results'[a][i].of = Len(buys[a]) /\ Confirms(a, Len(buys[a]))
                      /\ results'[a][i].trades = buys[a][Len(buys[a])].trades
    BY <1>4 DEF ResultsRest, Confirms
  <2>1. CASE a # b \/ i # Len(results[b]) + 1
    <3>1. i \in 1..Len(results[a]) /\ results'[a][i] = results[a][i]
      BY <1>5, <1>6, <2>1, Lengths DEF ChainInv, ResearchShape
    <3> QED
      BY <3>1 DEF ChainInv, ResultsRest
  <2>2. CASE a = b /\ i = Len(results[b]) + 1
    BY <1>1, <1>2, <1>3, <1>4, <1>6, <2>2 DEF Backed
  <2> QED
    BY <2>1, <2>2
<1>13. FormsAreBacked'
  BY <1>6, <1>7, <1>9, FormsStayBacked DEF ChainInv
<1> QED
  BY <1>8, <1>10, <1>11, <1>12, <1>13 DEF ChainInv

-----------------------------------------------------------------------------
(* The batches in every state.                                             *)

LEMMA ChainStep == ChainInv /\ [Research!Next]_researchVars => ChainInv'
<1> SUFFICES ASSUME ChainInv, [Research!Next]_researchVars PROVE ChainInv'
  OBVIOUS
<1>1. CASE UNCHANGED researchVars
  <2>1. UNCHANGED <<run, holdings, ledger, gone, allocation, reviews, buys, owner, results, client>>
    BY <1>1 DEF researchVars
  <2>2. ResearchShape'
    BY <2>1 DEF ChainInv, ResearchShape, RunShape, HoldingsShape, HistoryShape, ClientShape
  <2>3. EndedStand
    BY <2>1 DEF EndedStand, Research!Terminal, Research!Basis
  <2> QED
    BY <2>1, <2>2, <2>3, NothingAppended
<1>2. ASSUME NEW b \in ResearchBatches,
             Research!CreateBatch(b) \/ Research!Allocate(b) \/ Research!Expire(b)
      PROVE  ChainInv'
  BY <1>2, ChainOfRuns, ChainOfShares, ChainOfPortfolio
<1>3. ASSUME NEW r \in Research!Runs, Research!RunGoes(r) PROVE ChainInv'
  BY <1>3, ChainOfRuns
<1>4. ASSUME Research!ConfirmHoldings \/ \E t \in Trades : Research!Add(t) \/ Research!Delete(t)
      PROVE  ChainInv'
  BY <1>4, ChainOfPortfolio
<1>5. ASSUME NEW c \in Clients,
             \/ Research!Count(c) \/ Research!AppendReview(c) \/ Research!AppendBuy(c)
             \/ Research!AppendResult(c) \/ Research!Refuse(c)
             \/ \E r \in Singles : Research!CreateSingle(c, r)
      PROVE  ChainInv'
  BY <1>5, ChainOfRuns, ReviewStored, BuyStored, ResultStored, ChainOfPortfolio
<1>6. ASSUME NEW c \in Clients, NEW b \in ResearchBatches,
             \/ Research!ReadReconcile(c, b) \/ Research!ReadResult(c, b)
             \/ \E q \in Quotes : Research!ReadReview(c, b, q)
             \/ \E trades \in SUBSET Trades : Research!ReadRecord(c, b, trades)
      PROVE  ChainInv'
  BY <1>6, ReconcileRead, ResultRead, ReviewsRead, RecordRead
<1>7. ASSUME NEW r \in Reruns, Research!Rerun(r) PROVE ChainInv'
  BY <1>7, ChainOfRuns
<1> QED
  BY <1>1, <1>2, <1>3, <1>4, <1>5, <1>6, <1>7 DEF Research!Next

ResearchInv == ChainInv /\ QueueInv

LEMMA ResearchStep == ResearchInv /\ [Research!Next]_researchVars => ResearchInv'
<1> SUFFICES ASSUME ResearchInv, [Research!Next]_researchVars PROVE ResearchInv'
  OBVIOUS
<1>1. ChainInv'
  BY ChainStep DEF ResearchInv
<1>2. CASE Research!Next
  BY <1>1, <1>2, QueueStep DEF ResearchInv, ChainInv
<1>3. CASE UNCHANGED researchVars
  <2>1. Limited' = Limited /\ Counting' = Counting
    BY <1>3 DEF researchVars, Research!Active, Limited, Counting
  <2>2. QueueInv'
    BY <2>1, SameSize DEF ResearchInv, QueueInv, Research!QueueIsBounded, Counting, Limited
  <2> QED
    BY <1>1, <2>2 DEF ResearchInv
<1> QED
  BY <1>2, <1>3

LEMMA ResearchStart == Research!Init => ResearchInv
<1> SUFFICES ASSUME Research!Init PROVE ResearchInv
  OBVIOUS
<1> USE ResearchAssumption
<1>1. RunShape /\ \A r \in Research!Runs : run[r].status = "none"
  <2>1. [status |-> "none", basis |-> 0] \in [status : Statuses, basis : 0..MaxVersion]
    BY DEF Statuses
  <2> QED
    BY <2>1 DEF Research!Init, RunShape
<1>2. HoldingsShape
  BY DEF Research!Init, HoldingsShape
<1>3. HistoryShape /\ \A b \in ResearchBatches : Len(reviews[b]) = 0 /\ Len(buys[b]) = 0 /\ Len(results[b]) = 0
  BY DEF Research!Init, HistoryShape
<1>4. ClientShape /\ \A c \in Clients : client[c].op = "none"
  BY DEF Research!Init, ClientShape, Client, Research!Idle
<1>5. AllocationShape /\ SharesRest
  BY DEF Research!Init, AllocationShape, SharesRest
<1>6. ReviewsRest /\ BuysRest /\ ResultsRest
  BY <1>3 DEF ReviewsRest, BuysRest, ResultsRest
<1>7. FormsAreBacked
  BY <1>4 DEF FormsAreBacked, Backed
<1>8. QueueInv
  <2>1. Limited = {} /\ Counting = {}
    BY <1>1, <1>4 DEF Research!Active, Limited, Counting
  <2>2. Cardinality({}) = 0
    BY FS_EmptySet
  <2> QED
    BY <2>1, <2>2, QueueIsFinite, Bound DEF QueueInv
<1> QED
  BY <1>1, <1>2, <1>3, <1>4, <1>5, <1>6, <1>7, <1>8 DEF ResearchInv, ChainInv, ResearchShape

LEMMA ResearchMeans == ResearchInv => Research!TypeOK /\ BatchesAreSound
<1> SUFFICES ASSUME ResearchInv PROVE Research!TypeOK /\ BatchesAreSound
  OBVIOUS
<1> USE DEF ResearchInv, ChainInv, ResearchShape
<1>1. Research!TypeOK
  BY DEF RunShape, HoldingsShape, HistoryShape, Statuses, Research!TypeOK
<1>2. Research!EvidenceIsChained
  <2> SUFFICES ASSUME NEW b \in ResearchBatches
               PROVE  /\ allocation[b] # None => Research!BatchStatus(b) \notin {"queued", "running"}
                      /\ allocation[b] # None /\ allocation[b].ready =>
                           Research!Basis(b) = {allocation[b].basis}
                      /\ \A i \in 1..Len(reviews[b]) :
                           reviews[b][i].ready => Research!Basis(b) = {reviews[b][i].version}
                      /\ \A i \in 1..Len(buys[b]) :
                           /\ buys[b][i].review = Len(reviews[b]) /\ Research!Last(reviews[b]).ready
                           /\ \A t \in buys[b][i].trades : owner[t] = b
                           /\ buys[b][i].kind = "reconciled" =>
                                /\ i = Len(buys[b]) /\ i > 1
                                /\ buys[b][i].trades = buys[b][i - 1].trades /\ buys[b][i].trades # {}
                      /\ \A i \in 1..Len(results[b]) :
                           /\ results[b][i].of = Len(buys[b])
                           /\ results[b][i].trades = Research!Last(buys[b]).trades
    <3>1. \A b \in ResearchBatches :
            /\ DOMAIN reviews[b] = 1..Len(reviews[b]) /\ DOMAIN buys[b] = 1..Len(buys[b])
            /\ DOMAIN results[b] = 1..Len(results[b])
      BY DEF HistoryShape
    <3> QED
      BY <3>1 DEF Research!EvidenceIsChained
  <2>1. Research!Terminal(b) => Research!BatchStatus(b) \notin {"queued", "running"}
    <3> SUFFICES ASSUME Research!Terminal(b) PROVE Research!BatchStatus(b) \notin {"queued", "running"}
      OBVIOUS
    <3> DEFINE has == {run[r].status : r \in Research!Items(b)}
    <3>1. has \subseteq Research!Ended
      BY DEF Research!Terminal
    <3>2. "queued" \notin Research!Ended /\ "running" \notin Research!Ended
      BY DEF Research!Ended
    <3>3. has \in {{"completed"}, {"failed"}, {"cancelled"}} => (CHOOSE s \in has : TRUE) \in has
      OBVIOUS
    <3>4. Research!BatchStatus(b) = IF has \in {{"completed"}, {"failed"}, {"cancelled"}}
                                    THEN CHOOSE s \in has : TRUE ELSE "partial"
      BY <3>1 DEF Research!BatchStatus
    <3> QED
      BY <3>1, <3>2, <3>3, <3>4
  <2>2. allocation[b] # None => Research!BatchStatus(b) \notin {"queued", "running"}
    BY <2>1 DEF SharesRest
  <2>3. allocation[b] # None /\ allocation[b].ready => Research!Basis(b) = {allocation[b].basis}
    BY DEF SharesRest, OfHoldings
  <2>4. \A i \in 1..Len(reviews[b]) :
          reviews[b][i].ready => Research!Basis(b) = {reviews[b][i].version}
    BY DEF ReviewsRest, OfHoldings
  <2>5. \A i \in 1..Len(buys[b]) :
          /\ buys[b][i].review = Len(reviews[b]) /\ reviews[b][Len(reviews[b])].ready
          /\ \A t \in buys[b][i].trades : owner[t] = b
          /\ buys[b][i].kind = "reconciled" =>
               /\ i = Len(buys[b]) /\ i > 1
               /\ buys[b][i].trades = buys[b][i - 1].trades /\ buys[b][i].trades # {}
    BY DEF BuysRest, Passed, Confirms
  <2>6. \A i \in 1..Len(results[b]) :
          results[b][i].of = Len(buys[b]) /\ results[b][i].trades = buys[b][Len(buys[b])].trades
    BY DEF ResultsRest
  <2> QED
    BY <2>2, <2>3, <2>4, <2>5, <2>6 DEF Research!Last
<1>3. Research!ShownIsOfToday
  <2> SUFFICES ASSUME NEW b \in ResearchBatches
               PROVE  /\ reviews[b] # <<>> /\ Research!ReviewShown(b) = "ready" =>
                           Research!Basis(b) = {holdings}
                      /\ results[b] # <<>> /\ Research!ResultShown(b) = "current" =>
                           Research!Last(results[b]).trades \subseteq ledger
                      /\ buys[b] # <<>> /\ Research!PurchaseShown(b) = "reconciled" =>
                           Research!Last(buys[b]).trades \subseteq ledger
    BY DEF Research!ShownIsOfToday
  <2>1. ASSUME reviews[b] # <<>>, Research!ReviewShown(b) = "ready" PROVE Research!Basis(b) = {holdings}
    <3>1. /\ Len(reviews[b]) \in 1..Len(reviews[b])
          /\ Research!Last(reviews[b]) = reviews[b][Len(reviews[b])]
      BY <2>1, LastEvents
    <3>2. Research!Last(reviews[b]).version = holdings /\ Research!Last(reviews[b]).ready
      BY <2>1 DEF Research!ReviewShown
    <3> QED
      BY <3>1, <3>2 DEF ReviewsRest, OfHoldings
  <2>2. ASSUME Research!Intact(b), buys[b] # <<>> PROVE Research!Last(buys[b]).trades \subseteq ledger
    <3>1. /\ Len(buys[b]) \in 1..Len(buys[b]) /\ Research!Last(buys[b]) = buys[b][Len(buys[b])]
          /\ DOMAIN buys[b] = 1..Len(buys[b])
      BY <2>2, LastEvents DEF HistoryShape
    <3> QED
      BY <2>2, <3>1 DEF Research!Intact
  <2>3. ASSUME results[b] # <<>>, Research!ResultShown(b) = "current"
        PROVE  Research!Last(results[b]).trades \subseteq ledger
    <3>1. Research!Intact(b)
      BY <2>3 DEF Research!ResultShown
    <3>2. /\ Len(results[b]) \in 1..Len(results[b])
          /\ Research!Last(results[b]) = results[b][Len(results[b])]
      BY <2>3, LastEvents
    <3>3. Confirms(b, Len(buys[b])) /\ Research!Last(results[b]).trades = buys[b][Len(buys[b])].trades
      BY <3>2 DEF ResultsRest
    <3>4. buys[b] # <<>>
      BY <3>3, Lengths DEF Confirms
    <3> QED
      BY <2>2, <3>1, <3>3, <3>4, LastEvents
  <2>4. ASSUME buys[b] # <<>>, Research!PurchaseShown(b) = "reconciled"
        PROVE  Research!Last(buys[b]).trades \subseteq ledger
    <3>1. Research!Intact(b)
      BY <2>4 DEF Research!PurchaseShown
    <3> QED
      BY <2>2, <2>4, <3>1
  <2> QED
    BY <2>1, <2>3, <2>4
<1> QED
  BY <1>1, <1>2, <1>3 DEF BatchesAreSound, QueueInv

\* However requests overlap and whatever the user changes in between, what
\* follows from a batch is chained to what it rests on, is shown as valid only
\* while it is, and the queue keeps its limit up to the requests under way
\* (the agent_batch tables of agent/repository.py, routers/agent.py).
THEOREM Chained == MCSpec => []BatchesAreSound
<1>1. MCInit => ResearchInv
  BY ResearchStart DEF MCInit
<1>2. ResearchInv /\ [MCNext]_all => ResearchInv'
  BY ResearchStep, FocusStep
<1>3. ResearchInv => BatchesAreSound
  BY ResearchMeans
<1> QED
  BY <1>1, <1>2, <1>3, PTL DEF MCSpec

\* Every variable of every record keeps its type, in the composition that is
\* model-checked.
THEOREM RecordTypes == MCSpec => []TypesOK
<1>1. MCInit => CaseInv /\ PolicyInv /\ ResearchInv
  BY CaseInvInit, PolicyInvInit, ResearchStart DEF MCInit
<1>2. CaseInv /\ PolicyInv /\ ResearchInv /\ [MCNext]_all =>
        CaseInv' /\ PolicyInv' /\ ResearchInv'
  BY CaseInvStep, PolicyInvStep, ResearchStep, FocusStep
<1>3. CaseInv /\ PolicyInv /\ ResearchInv => TypesOK
  BY CaseInvImplies, PolicyInvImplies, ResearchMeans DEF TypesOK
<1> QED
  BY <1>1, <1>2, <1>3, PTL DEF MCSpec
=============================================================================
