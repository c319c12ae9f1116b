------------------------------ MODULE MCRecords ------------------------------
(***************************************************************************)
(* The records the application keeps of what a user decides, for TLC: the  *)
(* purchases of FundSwitches, the policy of InvestmentProfiles and the     *)
(* batches of AgentBatches.  They share no state: a behaviour is one of a  *)
(* single component, the one in focus.  Of the purchases it is one of the  *)
(* cases or one of the batches, which meet in a single case and a single   *)
(* transaction; of research it is one of the queue or one of a batch.      *)
(***************************************************************************)
EXTENDS FundSwitches, TLC

CONSTANTS
  Payloads, Invalid, Tabs, Readers, MaxVersions,
  ResearchBatches, Funds, Singles, Reruns, Clients, Trades, Quotes, MaxActive, MaxVersion,
  MaxReviews, MaxBuys, MaxResults

ASSUME PolicyAssumption == MaxVersions \in Nat
ASSUME ResearchAssumption ==
  /\ IsFiniteSet(ResearchBatches) /\ IsFiniteSet(Funds) /\ IsFiniteSet(Singles)
  /\ IsFiniteSet(Reruns) /\ IsFiniteSet(Clients) /\ None \notin ResearchBatches
  /\ MaxActive \in Nat /\ MaxVersion \in Nat
  /\ MaxReviews \in Nat /\ MaxBuys \in Nat /\ MaxResults \in Nat

VARIABLES
  focus,
  version, audit, tab, reader,
  run, holdings, ledger, agrees, gone, allocation, reviews, expired, buys, owner, results, client

Profiles == INSTANCE InvestmentProfiles

Research == INSTANCE AgentBatches WITH Batches <- ResearchBatches, version <- holdings

policyVars == <<version, audit, tab, reader>>
researchVars ==
  <<run, holdings, ledger, agrees, gone, allocation, reviews, expired, buys, owner, results, client>>

all == <<focus, vars, policyVars, researchVars>>

\* The others start from one of their initial states, whichever.
MCInit ==
  /\ focus \in {"cases", "batches", "policy", "queue", "research"}
  /\ Init /\ Research!Init
  /\ Profiles!Init /\ (focus = "policy" \/ audit = {})

\* Of the sales and of the buys that are all alike, this is the one that is made
\* where one will do.
One(transactions) == {CHOOSE t \in transactions : TRUE}

OfCases ==
  /\ focus = "cases" /\ (User \/ CaseNext)
  /\ (rows' \cup deleted') \cap Buys \subseteq One(Buys)

\* Two batches meet, or one of them and a case, which is at most purchased.
OfBatches ==
  /\ focus = "batches" /\ Next
  /\ rows' \cap Rebuys = {} /\ deleted' \cap Sales = {}
  /\ rows' \cap Sales \subseteq One(Sales)
  /\ Cardinality({r \in Reviews : review'[r] # None}) <= 1
  /\ Cardinality(Started') <= 1 /\ \A c \in Cases : case'[c].outcome = "none"
  /\ Cardinality({q \in Requests : request'[q] # Idle}) <= 1
  /\ Started' = {} \/ \E b \in Batches : batch'[b] = NoBatch

OfQueue ==
  /\ focus = "queue" /\ Research!Next
  /\ UNCHANGED <<holdings, ledger, agrees, gone>>
  /\ UNCHANGED <<allocation, reviews, expired, buys, owner, results>>

\* No runs of their own, shares that are ready, purchases once a review is there and
\* has not expired.
OfResearch ==
  /\ focus = "research" /\ Research!Next
  /\ \A r \in Singles \cup Reruns : run'[r].status = "none"
  /\ \A c \in Clients : client'[c].op # "single"
  /\ Cardinality(gone') <= 1
  /\ \A b \in ResearchBatches :
       /\ allocation'[b] # allocation[b] => allocation'[b].ready
       /\ reviews[b] = <<>> => UNCHANGED ledger /\ agrees'
       /\ expired[b] => buys'[b] = <<>> /\ UNCHANGED ledger
       /\ buys[b] # <<>> => UNCHANGED <<expired, run>>

MCNext ==
  /\ UNCHANGED focus
  /\ \/ (OfCases \/ OfBatches) /\ UNCHANGED <<policyVars, researchVars>>
     \/ focus = "policy" /\ Profiles!Next /\ UNCHANGED <<vars, researchVars>>
     \/ (OfQueue \/ OfResearch) /\ UNCHANGED <<vars, policyVars>>

MCSpec == MCInit /\ [][MCNext]_all

\* Clients are requests too, and quotes are named as reviews are.
Symmetry == Permutations(Reviews) \cup Permutations(Requests) \cup Permutations(Cases)
            \cup Permutations(Replicas)

-----------------------------------------------------------------------------
\* Every variable of every component keeps its type.
TypesOK == TypeOK /\ Profiles!TypeOK /\ Research!TypeOK

\* No evidence serves two cases or two batches, two are open only if they were
\* started at once on two replicas, and what is executed rests on the latest
\* preflight (FundSwitches).
CasesAreApart == EvidenceIsUsedOnce /\ OneOpenCase /\ ExecutionRestsOnLatestPreflight

\* A version replaces the one its user was shown, and a policy that nobody
\* tampered with is not reported as such (InvestmentProfiles).
PoliciesAreSound == Profiles!EachReplacesWhatWasShown /\ Profiles!NoFalseAlarm

\* What follows from a batch of research is chained to what it rests on and is
\* shown as valid only while it is; the queue keeps its limit, up to requests
\* that are under way and runs that repeat others (AgentBatches).
BatchesAreSound ==
  Research!EvidenceIsChained /\ Research!ShownIsOfToday /\ Research!QueueIsBounded
=============================================================================
