------------------------------ MODULE HotStocks ------------------------------
(***************************************************************************)
(* The rankings of one market (src/backend/hot_stocks.py): threads serve   *)
(* pages from a cache, or from the first provider of the market's route    *)
(* that answers.  A professional provider has a cache of its own, and each *)
(* provider has a circuit that opens when it fails repeatedly.             *)
(*                                                                         *)
(* Time is kept as ages and as what is left, in ticks.  What a thread does *)
(* takes no time except a provider's call, and it begins at most one       *)
(* request in a tick.  Rankings are abstracted to their age, and the probe *)
(* of a provider is left out.                                              *)
(***************************************************************************)
EXTENDS Integers, Sequences

CONSTANTS
  Threads,
  Keys,          \* period, kind and limit of a page
  Professional,  \* the professional providers in the order of the route
  Public,        \* the public one, tried last
  Unconfigured,  \* those without a key
  Threshold,     \* HOT_STOCK_PROVIDER_FAILURE_THRESHOLD
  CircuitTicks,  \* HOT_STOCK_PROVIDER_CIRCUIT_SECONDS
  PageTTL, BundleTTL, \* _CACHE_TTL and _PROVIDER_CACHE_TTL
  CallTicks      \* the time in which a call answers or fails

Route == Append(Professional, Public)
Licensed == {Professional[i] : i \in DOMAIN Professional}
Providers == Licensed \cup {Public}

\* No answer is expected to be as old.
TooOld == PageTTL + BundleTTL
None == [age |-> TooOld, data |-> -1, from |-> Public]

VARIABLES
  up,       \* whether each provider answers
  failures, \* consecutive_failures, counted to the threshold
  open,     \* what is left until circuit_open_until
  bundle,   \* _provider_bundle_cache
  page,     \* _cache
  thread    \* what each thread is doing

vars == <<up, failures, open, bundle, page, thread>>

\* A thread is at rest until its first request and until time has passed after
\* one that was answered.
Idle ==
  [at |-> "idle", key |-> CHOOSE k \in Keys : TRUE, step |-> 0, saw |-> None, left |-> 0,
   answer |-> [data |-> -1, from |-> Public, stale |-> TRUE]]
Answered(answer) == [Idle EXCEPT !.at = "served", !.answer = answer]

Init ==
  /\ up = [p \in Providers |-> TRUE]
  /\ failures = [p \in Providers |-> 0] /\ open = [p \in Providers |-> 0]
  /\ bundle = [b \in Licensed \X Keys |-> None] /\ page = [k \in Keys |-> None]
  /\ thread = [t \in Threads |-> Idle]

-----------------------------------------------------------------------------
(* The world.                                                              *)

Older(n) == IF n = -1 \/ n = TooOld THEN n ELSE n + 1
Aged(e) == [e EXCEPT !.age = Older(@), !.data = Older(@)]

Tick ==
  /\ \A t \in Threads :
       thread[t].at \in {"idle", "served"} \/ (thread[t].at = "calling" /\ thread[t].left > 0)
  /\ open' = [p \in Providers |-> IF open[p] = 0 THEN 0 ELSE open[p] - 1]
  /\ bundle' = [b \in DOMAIN bundle |-> Aged(bundle[b])]
  /\ page' = [k \in Keys |-> Aged(page[k])]
  /\ thread' = [t \in Threads |->
       IF thread[t].at # "calling" THEN Idle
       ELSE [thread[t] EXCEPT !.left = @ - 1, !.saw = Aged(@)]]
  /\ UNCHANGED <<up, failures>>

Flip(p) ==
  /\ up' = [up EXCEPT ![p] = ~@]
  /\ UNCHANGED <<failures, open, bundle, page, thread>>

-----------------------------------------------------------------------------
(* get_hot_stocks, of a period of one day.                                 *)

Ask(t, k) ==
  /\ thread[t].at = "idle"
  /\ thread' = [thread EXCEPT ![t] =
       IF page[k].age < PageTTL
       THEN Answered([data |-> page[k].data, from |-> page[k].from, stale |-> FALSE])
       ELSE [Idle EXCEPT !.at = "trying", !.key = k, !.step = 1, !.saw = page[k]]]
  /\ UNCHANGED <<up, failures, open, bundle, page>>

\* The next provider, or after the last one the page that was seen at first.
Onward(t) ==
  IF thread[t].step < Len(Route)
  THEN [thread[t] EXCEPT !.at = "trying", !.step = @ + 1]
  ELSE Answered([data |-> thread[t].saw.data, from |-> thread[t].saw.from, stale |-> TRUE])

\* A result whose data is so old is cached and answered.
Serve(t, p, age) ==
  /\ page' = [page EXCEPT ![thread[t].key] = [age |-> 0, data |-> age, from |-> p]]
  /\ thread' = [thread EXCEPT ![t] = Answered([data |-> age, from |-> p, stale |-> FALSE])]

\* _record_provider_success
Succeeded(p) == failures' = [failures EXCEPT ![p] = 0] /\ open' = [open EXCEPT ![p] = 0]

\* _record_provider_failure
Failed(p) ==
  LET n == IF failures[p] = Threshold THEN Threshold ELSE failures[p] + 1
  IN /\ failures' = [failures EXCEPT ![p] = n]
     /\ open' = IF n = Threshold THEN [open EXCEPT ![p] = CircuitTicks] ELSE open

Admits(p) == open[p] = 0 /\ p \notin Unconfigured

Held(t, p) == p \in Licensed /\ bundle[<<p, thread[t].key>>].age < BundleTTL

\* Mutant: to be refused counts as a failure.
SkipAsFailure(t, p) ==
  /\ ~Admits(p)
  /\ IF open[p] > 0 THEN Failed(p) ELSE UNCHANGED <<failures, open>>
  /\ thread' = [thread EXCEPT ![t] = Onward(t)]
  /\ UNCHANGED <<up, bundle, page>>

\* _attempt_provider: the circuit is open, or there is no key.
Skip(t, p) ==
  /\ ~Admits(p)
  /\ thread' = [thread EXCEPT ![t] = Onward(t)]
  /\ UNCHANGED <<up, failures, open, bundle, page>>

\* Mutant: what is served from the cache is cached anew.
HitAnew(t, p) ==
  /\ Admits(p) /\ Held(t, p) /\ Succeeded(p) /\ Serve(t, p, bundle[<<p, thread[t].key>>].data)
  /\ bundle' = [bundle EXCEPT ![<<p, thread[t].key>>].age = 0]
  /\ UNCHANGED up

\* The provider's own cache, which counts as a success.
Hit(t, p) ==
  /\ Admits(p) /\ Held(t, p) /\ Succeeded(p) /\ Serve(t, p, bundle[<<p, thread[t].key>>].data)
  /\ UNCHANGED <<up, bundle>>

Call(t, p) ==
  /\ Admits(p) /\ ~Held(t, p)
  /\ thread' = [thread EXCEPT ![t].at = "calling", ![t].left = CallTicks]
  /\ UNCHANGED <<up, failures, open, bundle, page>>

Try(t) ==
  /\ thread[t].at = "trying"
  /\ LET p == Route[thread[t].step] IN Skip(t, p) \/ Hit(t, p) \/ Call(t, p)

\* The call ends, whatever happened to the circuit since it began.
Return(t) ==
  /\ thread[t].at = "calling"
  /\ LET p == Route[thread[t].step] IN
     \/ /\ up[p] /\ Succeeded(p) /\ Serve(t, p, 0)
        /\ bundle' = IF p \in Licensed
             THEN [bundle EXCEPT ![<<p, thread[t].key>>] = [age |-> 0, data |-> 0, from |-> p]]
             ELSE bundle
     \/ /\ ~up[p] /\ Failed(p)
        /\ thread' = [thread EXCEPT ![t] = Onward(t)]
        /\ UNCHANGED <<bundle, page>>
  /\ UNCHANGED up

-----------------------------------------------------------------------------
Next ==
  \/ Tick
  \/ \E p \in Providers : Flip(p)
  \/ \E t \in Threads : Try(t) \/ Return(t) \/ \E k \in Keys : Ask(t, k)

\* A request that was begun is served, and time passes.
Fairness == WF_vars(Tick) /\ \A t \in Threads : WF_vars(Try(t) \/ Return(t))

Spec == Init /\ [][Next]_vars /\ Fairness

-----------------------------------------------------------------------------
(* Properties.                                                             *)

Entry == [age : 0..TooOld, data : -1..TooOld, from : Providers]

\* Everything has its type.
TypeOK ==
  /\ up \in [Providers -> BOOLEAN] /\ failures \in [Providers -> 0..Threshold]
  /\ open \in [Providers -> 0..CircuitTicks]
  /\ bundle \in [Licensed \X Keys -> Entry] /\ page \in [Keys -> Entry]
  /\ \A t \in Threads :
       /\ thread[t].at \in {"idle", "trying", "calling", "served"} /\ thread[t].key \in Keys
       /\ thread[t].step \in 0..Len(Route) /\ thread[t].left \in 0..CallTicks
       /\ thread[t].saw \in Entry

\* Two caches in a row do not add up beyond their times: an answer that is not
\* called stale was retrieved less than both of them ago.
AnswersAreRecent ==
  \A t \in Threads : thread[t].answer.stale \/ thread[t].answer.data < TooOld - 1

\* A request that is served now is so from a professional provider, and fresh.
ServedWell ==
  \A t \in Threads :
    thread[t].at # "served" /\ thread'[t].at = "served" =>
      ~thread'[t].answer.stale /\ thread'[t].answer.from \in Licensed

\* Once a professional provider answers for good, requests are again answered
\* from a professional one and not with a stale page, however many threads had
\* kept its circuit open.
Recovers ==
  \A p \in Licensed \ Unconfigured : <>[]up[p] => <>[][ServedWell]_vars

\* docs/updates/2026-07-22-004-professional-market-provider-router.md: a
\* provider is left alone after so many consecutive failures.  Its failures
\* are forgotten only when it answered.
FailuresAddUp ==
  [][\A p \in Providers : failures[p] > 0 /\ failures'[p] = 0 => up[p]]_vars
=============================================================================
