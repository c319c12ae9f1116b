---------------------------- MODULE ServicesProofs ----------------------------
(***************************************************************************)
(* What TLAPS proves about MCServices, for every value of its constants:   *)
(* the types of the rankings, paper baskets, lessons and switches, and that*)
(* what is shown is of now.  The two caches of the rankings do not add up  *)
(* because a provider's cache never holds data older than the entry and a  *)
(* page never data older than a provider's cache may get; what was learnt  *)
(* of an event is of horizons its purchases have reached, since purchases  *)
(* only get older and a correction begins with nothing learnt; there is    *)
(* one basket for a scan because scans are numbered in their order; and a  *)
(* switch shown as ready is of now because whatever it was judged by has a *)
(* revision, and so long as the revision is the same it is the same.       *)
(***************************************************************************)
EXTENDS MCServices, FiniteSetTheorems, TLAPS

\* The constants, one by one
LEMMA Bounds ==
  /\ PageTTL \in Nat /\ PageTTL >= 1 /\ BundleTTL \in Nat /\ BundleTTL >= 1
  /\ Threshold \in Nat /\ Threshold >= 1 /\ MaxVersions \in Nat /\ MaxVersions >= 1
  /\ CircuitTicks \in Nat /\ CallTicks \in Nat /\ MaxRuns \in Nat /\ MaxDay \in Nat
  /\ Horizon \in Nat /\ OutcomeWindow \in Nat /\ MaxEvents \in Nat /\ MaxRefreshes \in Nat
  /\ MaxFaults \in Nat
  BY ServiceAssumption

-----------------------------------------------------------------------------
(* The rankings.                                                           *)

Answer == [data : -1 .. Stocks!TooOld, from : Stocks!Providers, stale : BOOLEAN]

Task ==
  [at : {"idle", "trying", "calling", "served"}, key : Keys, step : 0 .. 2, saw : Stocks!Entry,
   left : 0 .. CallTicks, answer : Answer]

StockTypes ==
  /\ up \in [Stocks!Providers -> BOOLEAN] /\ failures \in [Stocks!Providers -> 0 .. Threshold]
  /\ open \in [Stocks!Providers -> 0 .. CircuitTicks]
  /\ bundle \in [Stocks!Licensed \X Keys -> Stocks!Entry] /\ page \in [Keys -> Stocks!Entry]
  /\ thread \in [Threads -> Task]
  /\ \A t \in Threads : thread[t].at \in {"trying", "calling"} => thread[t].step \in 1 .. 2

\* A page was at most as old as a provider's cache when it was stored, and an
\* answer is no older than a page may get.
StocksInv ==
  /\ StockTypes
  /\ \A b \in Stocks!Licensed \X Keys : bundle[b].data <= bundle[b].age
  /\ \A k \in Keys : page[k].data <= page[k].age + BundleTTL - 1
  /\ Stocks!AnswersAreRecent

\* The route of the market has the professional provider and the public one.
LEMMA Routing ==
  /\ Stocks!Licensed = {Vendor} /\ Stocks!Providers = {Vendor, Public}
  /\ Len(Stocks!Route) = 2 /\ Stocks!Route[1] = Vendor /\ Stocks!Route[2] = Public
<1>1. Stocks!Licensed = {Vendor}
  BY DEF Stocks!Licensed
<1>2. Stocks!Providers = {Vendor, Public}
  BY <1>1 DEF Stocks!Providers
<1> QED
  BY <1>1, <1>2 DEF Stocks!Route

\* The times, one by one
LEMMA Times ==
  /\ Stocks!TooOld \in Nat /\ Stocks!TooOld = PageTTL + BundleTTL /\ PageTTL \in Nat
  /\ BundleTTL \in Nat /\ PageTTL >= 1 /\ BundleTTL >= 1
  BY Bounds DEF Stocks!TooOld

\* What is not cached is too old for everyone.
LEMMA NoneIs ==
  /\ Stocks!None \in Stocks!Entry /\ Stocks!None.age = Stocks!TooOld /\ Stocks!None.data = -1
  BY Routing, Times DEF Stocks!None, Stocks!Entry

\* A thread that does nothing has an answer nobody takes for fresh.
LEMMA IdleIs ==
  Stocks!Idle \in Task /\ Stocks!Idle.at = "idle" /\ Stocks!Idle.answer.stale
<1>1. Stocks!Idle.key \in Keys
  BY ServiceAssumption DEF Stocks!Idle
<1>2. Stocks!Idle.answer \in Answer
  BY Routing, Times DEF Stocks!Idle, Answer
<1> QED
  BY <1>1, <1>2, NoneIs, Bounds DEF Stocks!Idle, Task

\* A thread that answers
LEMMA AnsweredIs ==
  ASSUME NEW a \in Answer
  PROVE  /\ Stocks!Answered(a) \in Task /\ Stocks!Answered(a).at = "served"
         /\ Stocks!Answered(a).answer = a
  BY IdleIs DEF Stocks!Answered, Task

\* Nothing is cached, and nobody has asked.
LEMMA StocksStart == Stocks!Init => StocksInv
<1> SUFFICES ASSUME Stocks!Init PROVE StocksInv
  OBVIOUS
<1> USE DEF Stocks!Init
<1>1. thread \in [Threads -> Task] /\ \A t \in Threads : thread[t] = Stocks!Idle
  BY IdleIs
<1>2. StockTypes
  BY <1>1, IdleIs, NoneIs, Bounds DEF StockTypes
<1>3. \A b \in Stocks!Licensed \X Keys : bundle[b] = Stocks!None
  OBVIOUS
<1>4. \A b \in Stocks!Licensed \X Keys : bundle[b].data <= bundle[b].age
  BY <1>3, NoneIs, Times
<1>5. \A k \in Keys : page[k].data <= page[k].age + BundleTTL - 1
  BY NoneIs, Times
<1>6. Stocks!AnswersAreRecent
  BY <1>1, IdleIs DEF Stocks!AnswersAreRecent
<1> QED
  BY <1>2, <1>4, <1>5, <1>6 DEF StocksInv

\* A tick later, what is cached is a tick older, to the limit.
LEMMA Ageing ==
  ASSUME NEW e \in Stocks!Entry, NEW n \in Nat, e.data <= e.age + n
  PROVE  /\ Stocks!Aged(e) \in Stocks!Entry /\ Stocks!Aged(e).data <= Stocks!Aged(e).age + n
<1>1. e.age \in 0 .. Stocks!TooOld /\ e.data \in -1 .. Stocks!TooOld /\ e.from \in Stocks!Providers
  BY DEF Stocks!Entry
<1>2. PICK a : a = Stocks!Older(e.age)
  OBVIOUS
<1>3. PICK d : d = Stocks!Older(e.data)
  OBVIOUS
<1>4. a \in 0 .. Stocks!TooOld /\ d \in -1 .. Stocks!TooOld /\ d <= a + n
  BY <1>1, <1>2, <1>3, Times DEF Stocks!Older
<1>5. Stocks!Aged(e) = [e EXCEPT !.age = a, !.data = d]
  BY <1>1, <1>2, <1>3 DEF Stocks!Aged, Stocks!Entry
<1>6. Stocks!Aged(e).age = a /\ Stocks!Aged(e).data = d /\ Stocks!Aged(e) \in Stocks!Entry
  BY <1>4, <1>5 DEF Stocks!Entry
<1> QED
  BY <1>4, <1>6


\* What a thread goes on with leaves the caches alone.
LEMMA ThreadGoes ==
  ASSUME StocksInv, NEW t \in Threads, NEW new \in Task, thread' = [thread EXCEPT ![t] = new],
         new.at \in {"trying", "calling"} => new.step \in 1 .. 2,
         new.answer.stale \/ new.answer.data < Stocks!TooOld - 1
  PROVE  /\ thread' \in [Threads -> Task] /\ Stocks!AnswersAreRecent'
         /\ \A u \in Threads : thread'[u].at \in {"trying", "calling"} => thread'[u].step \in 1 .. 2
<1>1. thread \in [Threads -> Task] /\ Stocks!AnswersAreRecent
      /\ \A u \in Threads : thread[u].at \in {"trying", "calling"} => thread[u].step \in 1 .. 2
  BY DEF StocksInv, StockTypes
<1>2. /\ thread' \in [Threads -> Task]
      /\ \A u \in Threads : thread'[u] = IF u = t THEN new ELSE thread[u]
  BY <1>1
<1>3. Stocks!AnswersAreRecent'
  BY <1>1, <1>2 DEF Stocks!AnswersAreRecent
<1> QED
  BY <1>1, <1>2, <1>3

\* The page that was seen first is called stale when it is the answer.
LEMMA OnwardIs ==
  ASSUME StocksInv, NEW t \in Threads, thread[t].at \in {"trying", "calling"}
  PROVE  /\ Stocks!Onward(t) \in Task
         /\ Stocks!Onward(t).at \in {"trying", "calling"} => Stocks!Onward(t).step \in 1 .. 2
         /\ Stocks!Onward(t).answer.stale \/ Stocks!Onward(t).answer.data < Stocks!TooOld - 1
<1>1. thread[t] \in Task /\ thread[t].step \in 1 .. 2
  BY DEF StocksInv, StockTypes
<1>2. CASE thread[t].step < Len(Stocks!Route)
  <2>1. PICK new : new = [thread[t] EXCEPT !.at = "trying", !.step = thread[t].step + 1]
    OBVIOUS
  <2>2. thread[t].step + 1 \in 1 .. 2
    BY <1>1, <1>2, Routing
  <2>3. Stocks!Onward(t) = new
    BY <1>2, <2>1 DEF Stocks!Onward
  <2>6. new.step = thread[t].step + 1 /\ new.answer = thread[t].answer
    BY <1>1, <2>1 DEF Task
  <2>7. thread[t].step + 1 \in 0 .. 2
    BY <2>2
  <2>8. new \in Task
    BY <1>1, <2>1, <2>7 DEF Task
  <2>4. new \in Task /\ new.step \in 1 .. 2 /\ new.answer = thread[t].answer
    BY <2>2, <2>6, <2>8
  <2>5. thread[t].answer.stale \/ thread[t].answer.data < Stocks!TooOld - 1
    BY DEF StocksInv, Stocks!AnswersAreRecent
  <2> QED
    BY <2>3, <2>4, <2>5
<1>3. CASE ~(thread[t].step < Len(Stocks!Route))
  <2>1. PICK a : a = [data |-> thread[t].saw.data, from |-> thread[t].saw.from, stale |-> TRUE]
    OBVIOUS
  <2>2. a \in Answer /\ a.stale
    BY <1>1, <2>1 DEF Answer, Task, Stocks!Entry
  <2>3. Stocks!Onward(t) = Stocks!Answered(a)
    BY <1>3, <2>1 DEF Stocks!Onward
  <2> QED
    BY <2>2, <2>3, AnsweredIs
<1> QED
  BY <1>2, <1>3

\* A result is cached as the page, and answered.
LEMMA Serving ==
  ASSUME StocksInv, NEW t \in Threads, NEW p \in Stocks!Providers, NEW age \in -1 .. BundleTTL - 1,
         Stocks!Serve(t, p, age)
  PROVE  /\ page' \in [Keys -> Stocks!Entry] /\ thread' \in [Threads -> Task]
         /\ \A k \in Keys : page'[k].data <= page'[k].age + BundleTTL - 1
         /\ \A u \in Threads : thread'[u].at \in {"trying", "calling"} => thread'[u].step \in 1 .. 2
         /\ Stocks!AnswersAreRecent'
<1>1. thread[t].key \in Keys /\ page \in [Keys -> Stocks!Entry]
  BY DEF StocksInv, StockTypes, Task
<1>2. PICK e : e = [age |-> 0, data |-> age, from |-> p]
  OBVIOUS
<1>3. age \in -1 .. Stocks!TooOld /\ age <= BundleTTL - 1 /\ age < Stocks!TooOld - 1
  BY Times
<1>4. e \in Stocks!Entry /\ e.age = 0 /\ e.data = age
  BY <1>2, <1>3, Times DEF Stocks!Entry
<1>5. page' = [page EXCEPT ![thread[t].key] = e]
  BY <1>2 DEF Stocks!Serve
<1>6. /\ page' \in [Keys -> Stocks!Entry]
      /\ \A k \in Keys : page'[k] = e \/ page'[k] = page[k]
  BY <1>1, <1>4, <1>5
<1>7. \A k \in Keys : page'[k].data <= page'[k].age + BundleTTL - 1
  <2> SUFFICES ASSUME NEW k \in Keys PROVE page'[k].data <= page'[k].age + BundleTTL - 1
    OBVIOUS
  <2>1. CASE page'[k] = e
    BY <1>3, <1>4, <2>1, Times
  <2>2. CASE page'[k] = page[k]
    BY <2>2 DEF StocksInv
  <2> QED
    BY <1>6, <2>1, <2>2
<1>8. PICK a : a = [data |-> age, from |-> p, stale |-> FALSE]
  OBVIOUS
<1>9. a \in Answer /\ a.data = age
  BY <1>3, <1>8 DEF Answer
<1>10. PICK new : new = Stocks!Answered(a)
  OBVIOUS
<1>11. new \in Task /\ new.at = "served" /\ new.answer = a
  BY <1>9, <1>10, AnsweredIs
<1>12. thread' = [thread EXCEPT ![t] = new]
  BY <1>8, <1>10 DEF Stocks!Serve
<1>13. /\ thread' \in [Threads -> Task] /\ Stocks!AnswersAreRecent'
       /\ \A u \in Threads : thread'[u].at \in {"trying", "calling"} => thread'[u].step \in 1 .. 2
  BY <1>3, <1>9, <1>11, <1>12, ThreadGoes
<1> QED
  BY <1>6, <1>7, <1>13

\* _record_provider_success and _record_provider_failure
LEMMA Counting ==
  ASSUME StockTypes, NEW p \in Stocks!Providers, Stocks!Succeeded(p) \/ Stocks!Failed(p)
  PROVE  /\ failures' \in [Stocks!Providers -> 0 .. Threshold]
         /\ open' \in [Stocks!Providers -> 0 .. CircuitTicks]
<1>1. failures[p] \in 0 .. Threshold /\ Threshold \in Nat /\ CircuitTicks \in Nat
  BY Bounds DEF StockTypes
<1>2. CASE Stocks!Succeeded(p)
  BY <1>1, <1>2 DEF Stocks!Succeeded, StockTypes
<1>3. CASE Stocks!Failed(p)
  <2>1. PICK n : n = IF failures[p] = Threshold THEN Threshold ELSE failures[p] + 1
    OBVIOUS
  <2>2. n \in 0 .. Threshold
    BY <1>1, <2>1
  <2>3. /\ failures' = [failures EXCEPT ![p] = n]
        /\ open' = IF n = Threshold THEN [open EXCEPT ![p] = CircuitTicks] ELSE open
    BY <1>3, <2>1 DEF Stocks!Failed
  <2> QED
    BY <1>1, <2>2, <2>3 DEF StockTypes
<1> QED
  BY <1>2, <1>3


\* Time passes: what is cached gets older, and calls go on.
LEMMA Ticking ==
  ASSUME StocksInv, Stocks!Tick
  PROVE  StocksInv'
<1>1. StockTypes
  BY DEF StocksInv
<1>9. /\ open' = [p \in Stocks!Providers |-> IF open[p] = 0 THEN 0 ELSE open[p] - 1]
      /\ bundle' = [b \in DOMAIN bundle |-> Stocks!Aged(bundle[b])]
      /\ page' = [k \in Keys |-> Stocks!Aged(page[k])] /\ UNCHANGED <<up, failures>>
  BY DEF Stocks!Tick
<1>10. /\ \A t \in Threads : thread[t].at = "calling" => thread[t].left > 0
       /\ thread' = [t \in Threads |->
            IF thread[t].at # "calling" THEN Stocks!Idle
            ELSE [thread[t] EXCEPT !.left = @ - 1, !.saw = Stocks!Aged(@)]]
  BY DEF Stocks!Tick
<1>2. open' \in [Stocks!Providers -> 0 .. CircuitTicks]
  <2>1. ASSUME NEW p \in Stocks!Providers
        PROVE  (IF open[p] = 0 THEN 0 ELSE open[p] - 1) \in 0 .. CircuitTicks
    <3>1. open[p] \in 0 .. CircuitTicks
      BY <1>1 DEF StockTypes
    <3> QED
      BY <3>1, Bounds
  <2> QED
    BY <1>9, <2>1
<1>3. /\ bundle' \in [Stocks!Licensed \X Keys -> Stocks!Entry]
      /\ \A b \in Stocks!Licensed \X Keys : bundle'[b].data <= bundle'[b].age
  <2>1. DOMAIN bundle = Stocks!Licensed \X Keys
    BY <1>1 DEF StockTypes
  <2>2. bundle' = [b \in Stocks!Licensed \X Keys |-> Stocks!Aged(bundle[b])]
    BY <1>9, <2>1
  <2>3. ASSUME NEW b \in Stocks!Licensed \X Keys
        PROVE  /\ Stocks!Aged(bundle[b]) \in Stocks!Entry
               /\ Stocks!Aged(bundle[b]).data <= Stocks!Aged(bundle[b]).age
    <3>1. PICK e : e = bundle[b]
      OBVIOUS
    <3>2. e \in Stocks!Entry /\ e.data <= e.age
      BY <1>1, <3>1 DEF StockTypes, StocksInv
    <3>3. e.data <= e.age + 0
      BY <3>2 DEF Stocks!Entry
    <3>4. Stocks!Aged(e) \in Stocks!Entry /\ Stocks!Aged(e).data <= Stocks!Aged(e).age + 0
      BY <3>2, <3>3, Ageing
    <3>5. Stocks!Aged(e).age \in Nat
      BY <3>4, Times DEF Stocks!Entry
    <3>6. Stocks!Aged(e).data <= Stocks!Aged(e).age
      BY <3>4, <3>5
    <3> QED
      BY <3>1, <3>4, <3>6
  <2> QED
    BY <2>2, <2>3
<1>4. /\ page' \in [Keys -> Stocks!Entry]
      /\ \A k \in Keys : page'[k].data <= page'[k].age + BundleTTL - 1
  <2>1. ASSUME NEW k \in Keys
        PROVE  /\ Stocks!Aged(page[k]) \in Stocks!Entry
               /\ Stocks!Aged(page[k]).data <= Stocks!Aged(page[k]).age + BundleTTL - 1
    <3>1. PICK e : e = page[k]
      OBVIOUS
    <3>2. e \in Stocks!Entry /\ e.data <= e.age + BundleTTL - 1
      BY <1>1, <3>1 DEF StockTypes, StocksInv
    <3>3. PICK n : n = BundleTTL - 1
      OBVIOUS
    <3>4. n \in Nat
      BY <3>3, Times
    <3>5. e.data <= e.age + n
      BY <3>2, <3>3, Times DEF Stocks!Entry
    <3>6. Stocks!Aged(e) \in Stocks!Entry /\ Stocks!Aged(e).data <= Stocks!Aged(e).age + n
      BY <3>2, <3>4, <3>5, Ageing
    <3>7. Stocks!Aged(e).age \in Nat
      BY <3>6, Times DEF Stocks!Entry
    <3>8. Stocks!Aged(e).data <= Stocks!Aged(e).age + BundleTTL - 1
      BY <3>3, <3>6, <3>7, Times
    <3> QED
      BY <3>1, <3>6, <3>8
  <2> QED
    BY <1>9, <2>1
<1>5. ASSUME NEW t \in Threads
      PROVE  /\ thread'[t] \in Task
             /\ thread'[t].at \in {"trying", "calling"} => thread'[t].step \in 1 .. 2
             /\ thread'[t].answer.stale \/ thread'[t].answer.data < Stocks!TooOld - 1
  <2>1. CASE thread[t].at # "calling"
    <3>1. thread'[t] = Stocks!Idle
      BY <1>10, <2>1
    <3> QED
      BY <3>1, IdleIs
  <2>2. CASE thread[t].at = "calling"
    <3>1. thread[t] \in Task /\ thread[t].step \in 1 .. 2 /\ thread[t].left > 0
      BY <1>1, <1>10, <2>2 DEF StockTypes
    <3>2. PICK saw : saw = Stocks!Aged(thread[t].saw)
      OBVIOUS
    <3>3. saw \in Stocks!Entry
      <4>1. PICK e : e = thread[t].saw
        OBVIOUS
      <4>2. e \in Stocks!Entry
        BY <3>1, <4>1 DEF Task
      <4>3. e.data <= e.age + Stocks!TooOld
        BY <4>2, Times DEF Stocks!Entry
      <4> QED
        BY <3>2, <4>1, <4>2, <4>3, Ageing, Times
    <3>4. PICK left : left = thread[t].left - 1
      OBVIOUS
    <3>5. left \in 0 .. CallTicks
      BY <3>1, <3>4, Bounds DEF Task
    <3>6. thread'[t] = [thread[t] EXCEPT !.left = left, !.saw = saw]
      <4>1. thread'[t] = [thread[t] EXCEPT !.left = @ - 1, !.saw = Stocks!Aged(@)]
        BY <1>10, <2>2
      <4> QED
        BY <3>1, <3>2, <3>4, <4>1 DEF Task
    <3>7. thread'[t] \in Task /\ thread'[t].step = thread[t].step
          /\ thread'[t].answer = thread[t].answer
      BY <3>1, <3>3, <3>5, <3>6 DEF Task
    <3>8. thread[t].answer.stale \/ thread[t].answer.data < Stocks!TooOld - 1
      BY DEF StocksInv, Stocks!AnswersAreRecent
    <3> QED
      BY <3>1, <3>7, <3>8
  <2> QED
    BY <2>1, <2>2
<1>6. thread' \in [Threads -> Task]
  BY <1>5, <1>10
<1>7. StockTypes'
  BY <1>1, <1>2, <1>3, <1>4, <1>5, <1>6, <1>9 DEF StockTypes
<1>8. Stocks!AnswersAreRecent'
  BY <1>5 DEF Stocks!AnswersAreRecent
<1> QED
  BY <1>3, <1>4, <1>7, <1>8 DEF StocksInv

\* get_hot_stocks: a page that has not expired, or the first provider
LEMMA Asking ==
  ASSUME StocksInv, NEW t \in Threads, NEW k \in Keys, Stocks!Ask(t, k)
  PROVE  StocksInv'
<1>1. StockTypes /\ page[k] \in Stocks!Entry /\ page[k].data <= page[k].age + BundleTTL - 1
      /\ thread[t] \in Task
  BY DEF StocksInv, StockTypes
<1>2. UNCHANGED <<up, failures, open, bundle, page>>
  BY DEF Stocks!Ask
<1>3. ASSUME NEW new \in Task, thread' = [thread EXCEPT ![t] = new],
             new.at \in {"trying", "calling"} => new.step \in 1 .. 2,
             new.answer.stale \/ new.answer.data < Stocks!TooOld - 1
      PROVE  StocksInv'
  <2>1. /\ thread' \in [Threads -> Task] /\ Stocks!AnswersAreRecent'
        /\ \A u \in Threads : thread'[u].at \in {"trying", "calling"} => thread'[u].step \in 1 .. 2
    BY <1>3, ThreadGoes
  <2> QED
    BY <1>1, <1>2, <2>1 DEF StocksInv, StockTypes
<1>4. CASE page[k].age < PageTTL
  <2>1. PICK a : a = [data |-> page[k].data, from |-> page[k].from, stale |-> FALSE]
    OBVIOUS
  <2>2. a \in Answer /\ a.data = page[k].data
    BY <1>1, <2>1 DEF Answer, Stocks!Entry
  <2>3. a.data < Stocks!TooOld - 1
    BY <1>1, <1>4, <2>2, Times DEF Stocks!Entry
  <2>4. PICK new : new = Stocks!Answered(a)
    OBVIOUS
  <2>5. thread' = [thread EXCEPT ![t] = new]
    BY <1>4, <2>1, <2>4 DEF Stocks!Ask
  <2>6. new \in Task /\ new.at = "served" /\ new.answer = a
    BY <2>2, <2>4, AnsweredIs
  <2> QED
    BY <1>3, <2>3, <2>5, <2>6
<1>5. CASE ~(page[k].age < PageTTL)
  <2>1. PICK new :
          new = [Stocks!Idle EXCEPT !.at = "trying", !.key = k, !.step = 1, !.saw = page[k]]
    OBVIOUS
  <2>2. thread' = [thread EXCEPT ![t] = new]
    BY <1>5, <2>1 DEF Stocks!Ask
  <2>3. Stocks!Idle \in Task /\ Stocks!Idle.answer.stale
    BY IdleIs
  <2>4. new.step = 1 /\ new.answer = Stocks!Idle.answer
    BY <2>1, <2>3 DEF Task
  <2>5. 1 \in 0 .. 2 /\ 1 \in 1 .. 2
    OBVIOUS
  <2>6. new \in Task
    BY <1>1, <2>1, <2>3, <2>5 DEF Task
  <2>7. new.step \in 1 .. 2
    BY <2>4, <2>5
  <2>8. new.answer.stale
    BY <2>3, <2>4
  <2> QED
    BY <1>3, <2>2, <2>6, <2>7, <2>8
<1> QED
  BY <1>4, <1>5

\* _attempt_provider: refused, from the provider's cache, or called
LEMMA Trying ==
  ASSUME StocksInv, NEW t \in Threads, Stocks!Try(t)
  PROVE  StocksInv'
<1>1. PICK p : p = Stocks!Route[thread[t].step]
  OBVIOUS
<1>2. StockTypes /\ thread[t] \in Task /\ thread[t].at = "trying" /\ thread[t].step \in 1 .. 2
  BY DEF StocksInv, StockTypes, Stocks!Try
<1>3. p \in Stocks!Providers
  BY <1>1, <1>2, Routing
<1>4. CASE Stocks!Skip(t, p)
  <2>1. PICK new : new = Stocks!Onward(t)
    OBVIOUS
  <2>2. thread' = [thread EXCEPT ![t] = new] /\ UNCHANGED <<up, failures, open, bundle, page>>
    BY <1>4, <2>1 DEF Stocks!Skip
  <2>3. /\ new \in Task /\ (new.at \in {"trying", "calling"} => new.step \in 1 .. 2)
        /\ new.answer.stale \/ new.answer.data < Stocks!TooOld - 1
    BY <1>2, <2>1, OnwardIs
  <2>4. /\ thread' \in [Threads -> Task] /\ Stocks!AnswersAreRecent'
        /\ \A u \in Threads : thread'[u].at \in {"trying", "calling"} => thread'[u].step \in 1 .. 2
    BY <2>2, <2>3, ThreadGoes
  <2> QED
    BY <1>2, <2>2, <2>4 DEF StocksInv, StockTypes
<1>5. CASE Stocks!Hit(t, p)
  <2>1. PICK b : b = <<p, thread[t].key>>
    OBVIOUS
  <2>2. b \in Stocks!Licensed \X Keys /\ bundle[b].age < BundleTTL
    BY <1>2, <1>5, <2>1 DEF Stocks!Hit, Stocks!Held, Task
  <2>3. PICK age : age = bundle[b].data
    OBVIOUS
  <2>4. bundle[b] \in Stocks!Entry /\ bundle[b].data <= bundle[b].age
    BY <1>2, <2>2 DEF StockTypes, StocksInv
  <2>5. age \in -1 .. BundleTTL - 1
    BY <2>2, <2>3, <2>4, Times DEF Stocks!Entry
  <2>6. Stocks!Serve(t, p, age)
    BY <1>5, <2>1, <2>3 DEF Stocks!Hit
  <2>7. /\ page' \in [Keys -> Stocks!Entry] /\ thread' \in [Threads -> Task]
        /\ \A k \in Keys : page'[k].data <= page'[k].age + BundleTTL - 1
        /\ \A u \in Threads : thread'[u].at \in {"trying", "calling"} => thread'[u].step \in 1 .. 2
        /\ Stocks!AnswersAreRecent'
    BY <1>3, <2>5, <2>6, Serving
  <2>8. /\ failures' \in [Stocks!Providers -> 0 .. Threshold]
        /\ open' \in [Stocks!Providers -> 0 .. CircuitTicks]
    BY <1>2, <1>3, <1>5, Counting DEF Stocks!Hit
  <2>9. UNCHANGED <<up, bundle>>
    BY <1>5 DEF Stocks!Hit
  <2> QED
    BY <1>2, <2>7, <2>8, <2>9 DEF StocksInv, StockTypes
<1>6. CASE Stocks!Call(t, p)
  <2>1. PICK new : new = [thread[t] EXCEPT !.at = "calling", !.left = CallTicks]
    OBVIOUS
  <2>2. thread' = [thread EXCEPT ![t].at = "calling", ![t].left = CallTicks]
        /\ UNCHANGED <<up, failures, open, bundle, page>>
    BY <1>6 DEF Stocks!Call
  <2>3. thread' = [thread EXCEPT ![t] = new]
    BY <1>2, <2>1, <2>2 DEF StockTypes
  <2>4. new.step = thread[t].step /\ new.answer = thread[t].answer
    BY <1>2, <2>1 DEF Task
  <2>5. CallTicks \in 0 .. CallTicks
    BY Bounds
  <2>6. new \in Task
    BY <1>2, <2>1, <2>5 DEF Task
  <2>7. thread[t].answer.stale \/ thread[t].answer.data < Stocks!TooOld - 1
    BY DEF StocksInv, Stocks!AnswersAreRecent
  <2>8. /\ thread' \in [Threads -> Task] /\ Stocks!AnswersAreRecent'
        /\ \A u \in Threads : thread'[u].at \in {"trying", "calling"} => thread'[u].step \in 1 .. 2
    BY <1>2, <2>3, <2>4, <2>6, <2>7, ThreadGoes
  <2> QED
    BY <1>2, <2>2, <2>8 DEF StocksInv, StockTypes
<1> QED
  BY <1>1, <1>4, <1>5, <1>6 DEF Stocks!Try

\* The call ends.
LEMMA Returning ==
  ASSUME StocksInv, NEW t \in Threads, Stocks!Return(t)
  PROVE  StocksInv'
<1>1. PICK p : p = Stocks!Route[thread[t].step]
  OBVIOUS
<1>2. StockTypes /\ thread[t] \in Task /\ thread[t].at = "calling" /\ thread[t].step \in 1 .. 2
  BY DEF StocksInv, StockTypes, Stocks!Return
<1>3. p \in Stocks!Providers
  BY <1>1, <1>2, Routing
<1>4. CASE /\ up[p] /\ Stocks!Succeeded(p) /\ Stocks!Serve(t, p, 0)
           /\ bundle' = IF p \in Stocks!Licensed
                THEN [bundle EXCEPT ![<<p, thread[t].key>>] = [age |-> 0, data |-> 0, from |-> p]]
                ELSE bundle
  <2>1. 0 \in -1 .. BundleTTL - 1
    BY Times
  <2>2. /\ page' \in [Keys -> Stocks!Entry] /\ thread' \in [Threads -> Task]
        /\ \A k \in Keys : page'[k].data <= page'[k].age + BundleTTL - 1
        /\ \A u \in Threads : thread'[u].at \in {"trying", "calling"} => thread'[u].step \in 1 .. 2
        /\ Stocks!AnswersAreRecent'
    BY <1>3, <1>4, <2>1, Serving
  <2>3. /\ failures' \in [Stocks!Providers -> 0 .. Threshold]
        /\ open' \in [Stocks!Providers -> 0 .. CircuitTicks]
    BY <1>2, <1>3, <1>4, Counting
  <2>4. PICK e : e = [age |-> 0, data |-> 0, from |-> p]
    OBVIOUS
  <2>5. e \in Stocks!Entry /\ e.data <= e.age
    BY <1>3, <2>4, Times DEF Stocks!Entry
  <2>6. bundle' = bundle
        \/ (<<p, thread[t].key>> \in Stocks!Licensed \X Keys
            /\ bundle' = [bundle EXCEPT ![<<p, thread[t].key>>] = e])
    BY <1>2, <1>4, <2>4 DEF Task
  <2>7. /\ bundle' \in [Stocks!Licensed \X Keys -> Stocks!Entry]
        /\ \A b \in Stocks!Licensed \X Keys : bundle'[b] = e \/ bundle'[b] = bundle[b]
    BY <1>2, <2>5, <2>6 DEF StockTypes
  <2>8. \A b \in Stocks!Licensed \X Keys : bundle'[b].data <= bundle'[b].age
    BY <2>5, <2>7 DEF StocksInv
  <2>9. up' = up
    BY DEF Stocks!Return
  <2> QED
    BY <1>2, <2>2, <2>3, <2>7, <2>8, <2>9 DEF StocksInv, StockTypes
<1>5. CASE /\ ~up[p] /\ Stocks!Failed(p) /\ thread' = [thread EXCEPT ![t] = Stocks!Onward(t)]
           /\ UNCHANGED <<bundle, page>>
  <2>1. PICK new : new = Stocks!Onward(t)
    OBVIOUS
  <2>2. thread' = [thread EXCEPT ![t] = new]
    BY <1>5, <2>1
  <2>3. /\ new \in Task /\ (new.at \in {"trying", "calling"} => new.step \in 1 .. 2)
        /\ new.answer.stale \/ new.answer.data < Stocks!TooOld - 1
    BY <1>2, <2>1, OnwardIs
  <2>4. /\ thread' \in [Threads -> Task] /\ Stocks!AnswersAreRecent'
        /\ \A u \in Threads : thread'[u].at \in {"trying", "calling"} => thread'[u].step \in 1 .. 2
    BY <2>2, <2>3, ThreadGoes
  <2>5. /\ failures' \in [Stocks!Providers -> 0 .. Threshold]
        /\ open' \in [Stocks!Providers -> 0 .. CircuitTicks]
    BY <1>2, <1>3, <1>5, Counting
  <2>6. up' = up
    BY DEF Stocks!Return
  <2> QED
    BY <1>2, <1>5, <2>4, <2>5, <2>6 DEF StocksInv, StockTypes
<1> QED
  BY <1>1, <1>4, <1>5 DEF Stocks!Return

\* Every step of the rankings keeps the invariant,
LEMMA StocksStep == StocksInv /\ [Stocks!Next]_(Stocks!vars) => StocksInv'
<1> SUFFICES ASSUME StocksInv, [Stocks!Next]_(Stocks!vars) PROVE StocksInv'
  OBVIOUS
<1>1. CASE UNCHANGED Stocks!vars
  BY <1>1 DEF Stocks!vars, StocksInv, StockTypes, Stocks!AnswersAreRecent
<1>2. ASSUME NEW p \in Stocks!Providers, Stocks!Flip(p) PROVE StocksInv'
  BY <1>2 DEF Stocks!Flip, StocksInv, StockTypes, Stocks!AnswersAreRecent
<1> QED
  BY <1>1, <1>2, Ticking, Asking, Trying, Returning DEF Stocks!Next

\* from which their types follow.
LEMMA StocksTyped == StocksInv => Stocks!TypeOK
  BY Routing DEF StocksInv, StockTypes, Stocks!TypeOK, Task

-----------------------------------------------------------------------------
(* The lessons.                                                            *)

Event == [plan : Plans, age : 0 .. Lessons!Last]

LessonsTypes ==
  /\ events \in Seq(Event) /\ learnt \in Seq(SUBSET Horizons) /\ newer \in Seq(0 .. OutcomeWindow)
  /\ Len(learnt) = Len(events) /\ Len(newer) = Len(events)
  /\ asked \in SUBSET (DOMAIN events) /\ recorded \in SUBSET (DOMAIN events)
  /\ pending \in SUBSET (DOMAIN events)
  /\ refreshes \in 0 .. MaxRefreshes /\ faults \in 0 .. MaxFaults

\* No horizon was found complete that the plan's last purchase is too recent for.
LessonsInv ==
  /\ LessonsTypes
  /\ \A e \in DOMAIN events : learnt[e] \subseteq Lessons!Matured(e)

\* A finite set of numbers has a greatest.
LEMMA Greatest ==
  ASSUME NEW S \in SUBSET Nat, IsFiniteSet(S), S # {}
  PROVE  \E x \in S : \A y \in S : x >= y
<1> DEFINE Above(x) == {y \in S : y > x}
<1>7. PICK T : T = {Above(x) : x \in S}
  OBVIOUS
<1>0. FiniteSubsetsOf(S) = SUBSET S
  BY FS_FiniteSubsetsOfFinite
<1>8. \A x : Above(x) \in SUBSET S
  OBVIOUS
<1>9. PICK a : a \in S
  OBVIOUS
<1>2. T \subseteq FiniteSubsetsOf(S) /\ Above(a) \in T
  BY <1>0, <1>7, <1>8, <1>9
<1>3. IsWellFoundedOn(StrictSubsetOrdering(S), FiniteSubsetsOf(S))
  BY FS_StrictSubsetOrderingWellFounded
<1>4. \E t \in T : \A u \in T : ~(<<u, t>> \in StrictSubsetOrdering(S))
  BY <1>2, <1>3, WFMin
<1>5. PICK x \in S : \A z \in S : ~(<<Above(z), Above(x)>> \in StrictSubsetOrdering(S))
  BY <1>4, <1>7
<1>6. ASSUME NEW z \in S, ~(x >= z) PROVE FALSE
  <2>1. z \in Nat /\ x \in Nat /\ z > x
    BY <1>6
  <2>4. \A y \in S : y > z => y > x
    BY <2>1
  <2>5. Above(z) \subseteq Above(x)
    BY <2>4
  <2>6. ~(z > z)
    BY <2>1
  <2>2. Above(z) \subseteq Above(x) /\ z \in Above(x) /\ z \notin Above(z)
    BY <2>1, <2>5, <2>6
  <2>3. <<Above(z), Above(x)>> \in StrictSubsetOrdering(S)
    BY <2>2 DEF StrictSubsetOrdering
  <2> QED
    BY <1>5, <2>3
<1> QED
  BY <1>6

\* The last horizon is one.
LEMMA LastIs ==
  /\ Lessons!Last \in Horizons /\ Lessons!Last \in Nat
  /\ \A h \in Horizons : h <= Lessons!Last
<1>1. IsFiniteSet(Horizons) /\ Horizons \in SUBSET Nat /\ Horizons # {}
  BY ServiceAssumption
<1>2. \E x \in Horizons : \A y \in Horizons : x >= y
  BY <1>1, Greatest
<1>3. Lessons!Max(Horizons) \in Horizons /\ \A y \in Horizons : Lessons!Max(Horizons) >= y
  BY <1>2 DEF Lessons!Max
<1>4. Lessons!Last \in Horizons /\ \A y \in Horizons : Lessons!Last >= y
  BY <1>3 DEF Lessons!Last
<1>5. \A h \in Horizons : h \in Nat
  BY <1>1
<1> QED
  BY <1>4, <1>5

\* The smaller of two numbers
LEMMA Smaller ==
  ASSUME NEW a \in Nat, NEW b \in Nat
  PROVE  Lessons!Min({a, b}) = IF a <= b THEN a ELSE b
<1>1. PICK m : m = IF a <= b THEN a ELSE b
  OBVIOUS
<1>2. m \in {a, b} /\ \A y \in {a, b} : m <= y
  BY <1>1
<1>3. \A x \in {a, b} : (\A y \in {a, b} : x <= y) => x = m
  BY <1>1
<1>4. Lessons!Min({a, b}) = m
  BY <1>2, <1>3 DEF Lessons!Min
<1> QED
  BY <1>1, <1>4

\* What is added to a sequence
LEMMA Appending ==
  ASSUME NEW S, NEW s \in Seq(S), NEW x \in S
  PROVE  /\ Append(s, x) \in Seq(S) /\ Len(Append(s, x)) = Len(s) + 1
         /\ DOMAIN Append(s, x) = 1 .. Len(s) + 1 /\ DOMAIN s = 1 .. Len(s) /\ Len(s) \in Nat
         /\ \A i \in DOMAIN s : Append(s, x)[i] = s[i]
         /\ Append(s, x)[Len(s) + 1] = x
  OBVIOUS

\* The values over a sequence are one.
LEMMA Mapped ==
  ASSUME NEW T, NEW s \in Seq(T), NEW S, NEW f \in [DOMAIN s -> S]
  PROVE  f \in Seq(S) /\ Len(f) = Len(s)
  OBVIOUS

\* A sequence is a function of its positions.
LEMMA Entries ==
  ASSUME NEW S, NEW s \in Seq(S)
  PROVE  s \in [1 .. Len(s) -> S] /\ DOMAIN s = 1 .. Len(s)
  OBVIOUS


\* No plan has been carried out.
LEMMA LessonsStart == Lessons!Init => LessonsInv
<1> SUFFICES ASSUME Lessons!Init PROVE LessonsInv
  OBVIOUS
<1>1. events = <<>> /\ learnt = <<>> /\ newer = <<>> /\ asked = {} /\ recorded = {}
      /\ pending = {} /\ refreshes = 0 /\ faults = 0
  BY DEF Lessons!Init
<1>2. <<>> \in Seq(Event) /\ <<>> \in Seq(SUBSET Horizons) /\ <<>> \in Seq(0 .. OutcomeWindow)
      /\ DOMAIN <<>> = {}
  OBVIOUS
<1>3. 0 \in 0 .. MaxRefreshes /\ 0 \in 0 .. MaxFaults
  BY Bounds
<1>4. LessonsTypes
  BY <1>1, <1>2, <1>3 DEF LessonsTypes
<1> QED
  BY <1>1, <1>2, <1>4 DEF LessonsInv

\* confirm: an event of which nothing was learnt
LEMMA Confirming ==
  ASSUME LessonsInv, NEW p \in Plans, Lessons!Confirm(p)
  PROVE  LessonsInv'
<1>1. LessonsTypes
  BY DEF LessonsInv
<1>2. PICK age \in {0} \cup {events[e].age : e \in Lessons!OfPlan(p)} :
        events' = Append(events, [plan |-> p, age |-> age])
  BY DEF Lessons!Confirm
<1>3. /\ learnt' = Append(learnt, {}) /\ newer' = Append(newer, OutcomeWindow)
      /\ UNCHANGED <<asked, recorded, pending, refreshes, faults>>
  BY DEF Lessons!Confirm
<1>4. \A e \in DOMAIN events : events[e] \in Event
  BY <1>1 DEF LessonsTypes
<1>5. age \in 0 .. Lessons!Last
  <2>1. CASE age = 0
    BY <2>1, LastIs
  <2>2. CASE age # 0
    <3>1. PICK e \in Lessons!OfPlan(p) : age = events[e].age
      BY <1>2, <2>2
    <3>2. events[e] \in Event
      BY <1>4, <3>1 DEF Lessons!OfPlan
    <3> QED
      BY <3>1, <3>2 DEF Event
  <2> QED
    BY <2>1, <2>2
<1>6. PICK x : x = [plan |-> p, age |-> age]
  OBVIOUS
<1>7. x \in Event /\ events' = Append(events, x)
  BY <1>2, <1>5, <1>6 DEF Event
<1>8. {} \in SUBSET Horizons /\ OutcomeWindow \in 0 .. OutcomeWindow
  BY Bounds
<1>9. /\ events' \in Seq(Event) /\ Len(events') = Len(events) + 1
      /\ DOMAIN events' = 1 .. Len(events) + 1 /\ DOMAIN events = 1 .. Len(events)
      /\ Len(events) \in Nat /\ \A i \in DOMAIN events : events'[i] = events[i]
  BY <1>1, <1>7, Appending DEF LessonsTypes
<1>10. /\ learnt' \in Seq(SUBSET Horizons) /\ Len(learnt') = Len(learnt) + 1
       /\ DOMAIN learnt = 1 .. Len(learnt) /\ \A i \in DOMAIN learnt : learnt'[i] = learnt[i]
       /\ learnt'[Len(learnt) + 1] = {}
  BY <1>1, <1>3, <1>8, Appending DEF LessonsTypes
<1>11. newer' \in Seq(0 .. OutcomeWindow) /\ Len(newer') = Len(newer) + 1
  BY <1>1, <1>3, <1>8, Appending DEF LessonsTypes
<1>12. DOMAIN events \subseteq DOMAIN events'
  BY <1>9
<1>13. asked' \in SUBSET (DOMAIN events') /\ recorded' \in SUBSET (DOMAIN events')
       /\ pending' \in SUBSET (DOMAIN events')
  BY <1>1, <1>3, <1>12 DEF LessonsTypes
<1>14. Len(learnt') = Len(events') /\ Len(newer') = Len(events')
  BY <1>1, <1>9, <1>10, <1>11 DEF LessonsTypes
<1>15. LessonsTypes'
  BY <1>1, <1>3, <1>9, <1>10, <1>11, <1>13, <1>14 DEF LessonsTypes
<1>16. ASSUME NEW e \in DOMAIN events' PROVE learnt'[e] \subseteq Lessons!Matured(e)'
  <2>1. CASE e \in DOMAIN events
    <3>1. events'[e] = events[e] /\ learnt'[e] = learnt[e]
      BY <1>1, <1>9, <1>10, <2>1 DEF LessonsTypes
    <3>2. learnt[e] \subseteq Lessons!Matured(e)
      BY <2>1 DEF LessonsInv
    <3> QED
      BY <3>1, <3>2 DEF Lessons!Matured
  <2>2. CASE e \notin DOMAIN events
    <3>1. e = Len(events) + 1
      BY <1>9, <2>2
    <3>2. learnt'[e] = {}
      BY <1>1, <1>10, <3>1 DEF LessonsTypes
    <3> QED
      BY <3>2
  <2> QED
    BY <2>1, <2>2
<1> QED
  BY <1>15, <1>16 DEF LessonsInv

\* save_observation: what it shows complete, the event's purchases are old enough for.
LEMMA Saving ==
  ASSUME LessonsInv, NEW e \in DOMAIN events, NEW complete \in SUBSET Lessons!Matured(e),
         Lessons!Saved(e, complete), UNCHANGED events
  PROVE  /\ learnt' \in Seq(SUBSET Horizons) /\ newer' \in Seq(0 .. OutcomeWindow)
         /\ Len(learnt') = Len(events') /\ Len(newer') = Len(events')
         /\ recorded' \in SUBSET (DOMAIN events')
         /\ \A f \in DOMAIN events' : learnt'[f] \subseteq Lessons!Matured(f)'
<1>1. LessonsTypes /\ \A f \in DOMAIN events : learnt[f] \subseteq Lessons!Matured(f)
  BY DEF LessonsInv
<1>2. /\ learnt \in Seq(SUBSET Horizons) /\ newer \in Seq(0 .. OutcomeWindow)
      /\ events \in Seq(Event)
      /\ Len(learnt) = Len(events) /\ Len(newer) = Len(events)
  BY <1>1 DEF LessonsTypes
<1>3. recorded' \in SUBSET (DOMAIN events')
  BY <1>1 DEF Lessons!Saved, LessonsTypes
<1>4. complete \in SUBSET Horizons
  BY DEF Lessons!Matured
<1>5. /\ learnt' \in Seq(SUBSET Horizons) /\ Len(learnt') = Len(events)
      /\ \A f \in DOMAIN events :
           learnt'[f] = learnt[f] \/ (f = e /\ learnt'[f] = complete)
  <2>1. CASE e \in recorded
    BY <1>2, <2>1 DEF Lessons!Saved
  <2>2. CASE e \notin recorded
    <3>1. learnt' = [learnt EXCEPT ![e] = complete]
      BY <2>2 DEF Lessons!Saved
    <3> QED
      BY <1>2, <1>4, <3>1
  <2> QED
    BY <2>1, <2>2
<1>6. newer' \in Seq(0 .. OutcomeWindow) /\ Len(newer') = Len(events)
  <2>1. CASE e \in recorded
    BY <1>2, <2>1 DEF Lessons!Saved
  <2>2. CASE e \notin recorded
    <3>1. newer' = [f \in DOMAIN events |->
                      IF f = e THEN 0 ELSE Lessons!Min({newer[f] + 1, OutcomeWindow})]
      BY <2>2 DEF Lessons!Saved
    <3>2. ASSUME NEW f \in DOMAIN events
          PROVE  (IF f = e THEN 0 ELSE Lessons!Min({newer[f] + 1, OutcomeWindow}))
                   \in 0 .. OutcomeWindow
      <4>4. OutcomeWindow \in Nat
        BY Bounds
      <4>5. f \in 1 .. Len(newer)
        BY <1>2
      <4>1. newer[f] \in 0 .. OutcomeWindow /\ OutcomeWindow \in Nat
        BY <1>2, <4>4, <4>5
      <4>2. newer[f] + 1 \in Nat
        BY <4>1
      <4>3. Lessons!Min({newer[f] + 1, OutcomeWindow})
            = IF newer[f] + 1 <= OutcomeWindow THEN newer[f] + 1 ELSE OutcomeWindow
        BY <4>1, <4>2, Smaller
      <4> QED
        BY <4>1, <4>2, <4>3
    <3>3. newer' \in [DOMAIN events -> 0 .. OutcomeWindow]
      BY <3>1, <3>2
    <3> QED
      BY <1>2, <3>3, Mapped
  <2> QED
    BY <2>1, <2>2
<1>7. \A f \in DOMAIN events' : learnt'[f] \subseteq Lessons!Matured(f)'
  BY <1>1, <1>5 DEF Lessons!Matured
<1> QED
  BY <1>3, <1>5, <1>6, <1>7

\* An observation, whoever wanted it
LEMMA Observing ==
  ASSUME LessonsInv, NEW e \in DOMAIN events, Lessons!Observe(e), UNCHANGED <<events, asked>>,
         pending' \in SUBSET pending, refreshes' \in 0 .. MaxRefreshes
  PROVE  LessonsInv'
<1>1. LessonsTypes
  BY DEF LessonsInv
<1>2. PICK complete \in SUBSET Lessons!Matured(e) : Lessons!Saved(e, complete)
  BY DEF Lessons!Observe
<1>3. faults' \in 0 .. MaxFaults
  BY <1>1, Bounds DEF Lessons!Observe, LessonsTypes
<1>4. /\ learnt' \in Seq(SUBSET Horizons) /\ newer' \in Seq(0 .. OutcomeWindow)
      /\ Len(learnt') = Len(events') /\ Len(newer') = Len(events')
      /\ recorded' \in SUBSET (DOMAIN events')
      /\ \A f \in DOMAIN events' : learnt'[f] \subseteq Lessons!Matured(f)'
  BY <1>2, Saving
<1>5. LessonsTypes'
  BY <1>1, <1>3, <1>4 DEF LessonsTypes
<1> QED
  BY <1>4, <1>5 DEF LessonsInv

\* Another day: purchases only get older.
LEMMA Passing ==
  ASSUME LessonsInv, Lessons!NextDay
  PROVE  LessonsInv'
<1>1. LessonsTypes /\ \A f \in DOMAIN events : learnt[f] \subseteq Lessons!Matured(f)
  BY DEF LessonsInv
<1>2. /\ events' = [e \in DOMAIN events |->
           [events[e] EXCEPT !.age = Lessons!Min({@ + 1, Lessons!Last})]]
      /\ asked' = {} /\ recorded' = {} /\ UNCHANGED <<learnt, newer, pending, refreshes, faults>>
  BY DEF Lessons!NextDay
<1>3. ASSUME NEW e \in DOMAIN events
      PROVE  /\ events'[e] \in Event
             /\ \A h \in Horizons : h <= events[e].age => h <= events'[e].age
  <2>1. events[e] \in Event
    BY <1>1 DEF LessonsTypes
  <2>2. events[e].age \in 0 .. Lessons!Last /\ Lessons!Last \in Nat
    BY <2>1, LastIs DEF Event
  <2>3. PICK age : age = Lessons!Min({events[e].age + 1, Lessons!Last})
    OBVIOUS
  <2>4. events[e].age + 1 \in Nat
    BY <2>2
  <2>5. age = IF events[e].age + 1 <= Lessons!Last THEN events[e].age + 1 ELSE Lessons!Last
    BY <2>2, <2>3, <2>4, Smaller
  <2>6. age \in 0 .. Lessons!Last /\ age >= events[e].age
    BY <2>2, <2>5
  <2>7. events'[e] = [events[e] EXCEPT !.age = age]
    BY <1>2, <2>1, <2>3 DEF Event
  <2>8. events'[e] \in Event /\ events'[e].age = age
    BY <2>1, <2>6, <2>7 DEF Event
  <2>9. \A h \in Horizons : h \in Nat
    BY ServiceAssumption
  <2> QED
    BY <2>2, <2>6, <2>8, <2>9
<1>4. events' \in [DOMAIN events -> Event]
  BY <1>2, <1>3
<1>5. events' \in Seq(Event) /\ Len(events') = Len(events)
  BY <1>1, <1>4, Mapped DEF LessonsTypes
<1>6. DOMAIN events' = DOMAIN events
  BY <1>2
<1>7. {} \in SUBSET (DOMAIN events')
  OBVIOUS
<1>8. LessonsTypes'
  BY <1>1, <1>2, <1>5, <1>6, <1>7 DEF LessonsTypes
<1>9. \A f \in DOMAIN events' : learnt'[f] \subseteq Lessons!Matured(f)'
  BY <1>1, <1>2, <1>3, <1>6 DEF Lessons!Matured
<1> QED
  BY <1>8, <1>9 DEF LessonsInv

\* Every step of the lessons keeps the invariant.
LEMMA LessonsStep == LessonsInv /\ [Lessons!Next]_(Lessons!vars) => LessonsInv'
<1> SUFFICES ASSUME LessonsInv, [Lessons!Next]_(Lessons!vars) PROVE LessonsInv'
  OBVIOUS
<1>1. LessonsTypes
  BY DEF LessonsInv
<1>2. CASE UNCHANGED Lessons!vars
  BY <1>2 DEF Lessons!vars, LessonsInv, LessonsTypes, Lessons!Matured
<1>3. ASSUME NEW e \in DOMAIN events, Lessons!Refresh(e) PROVE LessonsInv'
  <2>1. Lessons!Observe(e) /\ UNCHANGED <<events, asked, pending>> /\ refreshes < MaxRefreshes
        /\ refreshes' = refreshes + 1
    BY <1>3 DEF Lessons!Refresh
  <2>2. refreshes' \in 0 .. MaxRefreshes /\ pending' \in SUBSET pending
    BY <1>1, <2>1, Bounds DEF LessonsTypes
  <2> QED
    BY <2>1, <2>2, Observing
<1>4. ASSUME NEW e \in DOMAIN events, Lessons!Work(e) PROVE LessonsInv'
  <2>1. Lessons!Observe(e) /\ UNCHANGED <<events, asked, refreshes>> /\ pending' = pending \ {e}
    BY <1>4 DEF Lessons!Work
  <2>2. refreshes' \in 0 .. MaxRefreshes /\ pending' \in SUBSET pending
    BY <1>1, <2>1 DEF LessonsTypes
  <2> QED
    BY <2>1, <2>2, Observing
<1>5. ASSUME NEW e \in DOMAIN events, Lessons!FailJob(e) PROVE LessonsInv'
  <2>1. /\ faults < MaxFaults /\ faults' = faults + 1 /\ pending' = pending \ {e}
        /\ UNCHANGED <<events, learnt, newer, asked, recorded, refreshes>>
    BY <1>5 DEF Lessons!FailJob
  <2>2. faults' \in 0 .. MaxFaults
    BY <1>1, <2>1, Bounds DEF LessonsTypes
  <2> QED
    BY <2>1, <2>2 DEF LessonsInv, LessonsTypes, Lessons!Matured
<1>6. CASE Lessons!Dispatch
  <2>1. Lessons!Chosen \subseteq DOMAIN events
    BY DEF Lessons!Chosen, Lessons!Wanting, Lessons!Listed, Lessons!Scopes
  <2>2. /\ asked' = asked \cup Lessons!Chosen /\ pending' = pending \cup Lessons!Chosen
        /\ UNCHANGED <<events, learnt, newer, recorded, refreshes, faults>>
    BY <1>6 DEF Lessons!Dispatch
  <2> QED
    BY <2>1, <2>2 DEF LessonsInv, LessonsTypes, Lessons!Matured
<1> QED
  BY <1>2, <1>3, <1>4, <1>5, <1>6, Confirming, Passing DEF Lessons!Next

\* The types, and that what counts was learnt of the execution there is
LEMMA LessonsShown ==
  ASSUME LessonsInv
  PROVE  Lessons!TypeOK /\ Lessons!LearntOfThisExecution
<1>1. LessonsTypes /\ \A f \in DOMAIN events : learnt[f] \subseteq Lessons!Matured(f)
  BY DEF LessonsInv
<1>5. /\ events \in Seq(Event) /\ learnt \in Seq(SUBSET Horizons)
      /\ newer \in Seq(0 .. OutcomeWindow)
      /\ Len(learnt) = Len(events) /\ Len(newer) = Len(events)
  BY <1>1 DEF LessonsTypes
<1>6. /\ DOMAIN events = 1 .. Len(events) /\ events \in [1 .. Len(events) -> Event]
      /\ learnt \in [1 .. Len(learnt) -> SUBSET Horizons]
      /\ newer \in [1 .. Len(newer) -> 0 .. OutcomeWindow]
  BY <1>5, Entries
<1>2. /\ \A e \in DOMAIN events : events[e] \in [plan : Plans, age : 0 .. Lessons!Last]
      /\ learnt \in [DOMAIN events -> SUBSET Horizons]
      /\ newer \in [DOMAIN events -> 0 .. OutcomeWindow]
  BY <1>5, <1>6 DEF Event
<1>3. Lessons!TypeOK
  BY <1>1, <1>2 DEF Lessons!TypeOK, LessonsTypes
<1>4. ASSUME NEW h \in Horizons, NEW e \in Lessons!Counted(h) PROVE events[e].age >= h
  <2>1. e \in DOMAIN events /\ h \in learnt[e]
    BY <1>4 DEF Lessons!Counted, Lessons!Shown, Lessons!Scopes
  <2>2. h <= events[e].age
    BY <1>1, <2>1 DEF Lessons!Matured
  <2>3. h \in Nat /\ events[e].age \in Nat
    BY <1>2, <2>1, ServiceAssumption, LastIs
  <2> QED
    BY <2>2, <2>3
<1> QED
  BY <1>3, <1>4 DEF Lessons!LearntOfThisExecution

-----------------------------------------------------------------------------
(* The paper baskets.                                                      *)

Scan == [status : {"none", "queued", "running"} \cup Baskets!Terminal, version : 0 .. MaxVersions]

Basket == [run : Baskets!Runs, version : 0 .. MaxVersions, frozen : 0 .. MaxDay - Horizon]

Finding == [basket : Nat, elapsed : 0 .. MaxDay, covered : Baskets!Coverage]

BasketsTypes ==
  /\ day \in 0 .. MaxDay /\ strategy \in [version : 1 .. MaxVersions, active : BOOLEAN]
  /\ run \in [Baskets!Runs -> Scan] /\ basket \in Seq(Basket)
  /\ observed \in Seq(Seq(Finding)) /\ Len(observed) = Len(basket)
  /\ today \in SUBSET (1 .. Len(basket)) /\ keyed \in SUBSET (1 .. Len(basket))
  /\ jobs \in SUBSET (1 .. Len(basket))
  /\ viewer \in Finding /\ (viewer = Baskets!Nothing \/ viewer.basket \in 1 .. Len(basket))

Begun(r) == run[r].status # "none"

\* Baskets are of scans there are, one for each, and no later than today; the
\* scans there are have the first numbers.
BasketsInv ==
  /\ BasketsTypes
  /\ \A r, s \in Baskets!Runs : r < s /\ Begun(s) => Begun(r)
  /\ \A b \in 1 .. Len(basket) : Begun(basket[b].run) /\ basket[b].frozen <= day
  /\ \A b, c \in 1 .. Len(basket) : basket[b].run = basket[c].run => b = c

\* There is no scan and no basket.
LEMMA BasketsStart == Baskets!Init => BasketsInv
<1> SUFFICES ASSUME Baskets!Init PROVE BasketsInv
  OBVIOUS
<1>1. /\ day = 0 /\ strategy = [version |-> 1, active |-> TRUE]
      /\ run = [r \in Baskets!Runs |-> [status |-> "none", version |-> 0]]
      /\ basket = <<>> /\ observed = <<>> /\ today = {} /\ keyed = {} /\ jobs = {}
      /\ viewer = [basket |-> 0, elapsed |-> 0, covered |-> "none"]
  BY DEF Baskets!Init, Baskets!Nothing
<1>2. /\ <<>> \in Seq(Basket) /\ <<>> \in Seq(Seq(Finding)) /\ Len(<<>>) = 0
      /\ 0 \in 0 .. MaxDay /\ 1 \in 1 .. MaxVersions /\ 0 \in 0 .. MaxVersions
  BY Bounds
<1>3. strategy \in [version : 1 .. MaxVersions, active : BOOLEAN]
  BY <1>1, <1>2
<1>4. run \in [Baskets!Runs -> Scan]
  BY <1>1, <1>2 DEF Scan
<1>5. viewer \in Finding /\ viewer = Baskets!Nothing
  BY <1>1, <1>2 DEF Finding, Baskets!Coverage, Baskets!Nothing
<1>6. BasketsTypes
  BY <1>1, <1>2, <1>3, <1>4, <1>5 DEF BasketsTypes
<1>7. \A r \in Baskets!Runs : ~Begun(r)
  BY <1>1 DEF Begun
<1>8. Len(basket) = 0
  BY <1>1
<1> QED
  BY <1>6, <1>7, <1>8 DEF BasketsInv

\* create_run takes the next number, which no scan has.
LEMMA NextScan ==
  ASSUME BasketsInv, NEW r \in Baskets!Runs, r = Baskets!NextRun
  PROVE  ~Begun(r) /\ \A s \in Baskets!Runs : s < r => Begun(s)
<1>1. PICK S : S = {i \in Baskets!Runs : run[i].status # "none"}
  OBVIOUS
<1>2. Baskets!Cardinality(S) = Cardinality(S)
  BY DEF Cardinality, Baskets!Cardinality
<1>9. Baskets!Runs = 1 .. MaxRuns /\ MaxRuns \in Int /\ S \subseteq Baskets!Runs
  BY <1>1, Bounds DEF Baskets!Runs
<1>14. 1 \in Int
  OBVIOUS
<1>10. IsFiniteSet(1 .. MaxRuns)
  BY <1>9, <1>14, FS_Interval
<1>12. IsFiniteSet(S)
  BY <1>9, <1>10, FS_Subset
<1>3. Cardinality(S) \in Nat
  BY <1>12, FS_CardinalityType
<1>4. r = Cardinality(S) + 1 /\ r \in Nat /\ r >= 1
  BY <1>1, <1>2, <1>3 DEF Baskets!NextRun
<1>5. \A i \in Baskets!Runs : i \in S <=> Begun(i)
  BY <1>1 DEF Begun
<1>13. \A i, j \in Baskets!Runs : i < j /\ Begun(j) => Begun(i)
  BY DEF BasketsInv
<1>6. ASSUME Begun(r) PROVE FALSE
  <2>1. ASSUME NEW i \in 1 .. r PROVE i \in S
    <3>1. i \in Baskets!Runs /\ (i < r \/ i = r)
      BY <1>4, <1>9, <2>1
    <3>2. Begun(i)
      BY <1>6, <1>13, <3>1
    <3> QED
      BY <1>5, <3>1, <3>2
  <2>4. r \in Int /\ ~(1 > r) /\ r - 1 + 1 = r
    BY <1>4
  <2>5. Cardinality(1 .. r) = IF 1 > r THEN 0 ELSE r - 1 + 1
    BY <1>14, <2>4, FS_Interval
  <2>2. Cardinality(1 .. r) = r
    BY <2>4, <2>5
  <2>6. 1 .. r \subseteq S
    BY <2>1
  <2>3. Cardinality(1 .. r) <= Cardinality(S)
    BY <1>12, <2>6, FS_Subset
  <2> QED
    BY <1>3, <1>4, <2>2, <2>3
<1>7. ASSUME NEW s \in Baskets!Runs, s < r, ~Begun(s) PROVE FALSE
  <2>1. s \in Nat /\ s >= 1
    BY <1>9
  <2>2. PICK m : m = s - 1
    OBVIOUS
  <2>3. m \in Nat /\ m \in Int /\ m < r - 1
    BY <1>4, <1>7, <2>1, <2>2
  <2>4. ASSUME NEW i \in S PROVE i \in 1 .. m
    <3>1. i \in Baskets!Runs /\ Begun(i) /\ i \in Nat /\ i >= 1
      BY <1>5, <1>9
    <3>2. ~(s < i) /\ i # s
      BY <1>7, <1>13, <3>1
    <3> QED
      BY <2>1, <2>2, <3>1, <3>2
  <2>5. S \subseteq 1 .. m
    BY <2>4
  <2>6. IsFiniteSet(1 .. m) /\ Cardinality(1 .. m) = IF 1 > m THEN 0 ELSE m - 1 + 1
    BY <1>14, <2>3, FS_Interval
  <2>7. Cardinality(1 .. m) = m
    BY <2>3, <2>6
  <2>8. Cardinality(S) <= Cardinality(1 .. m)
    BY <2>5, <2>6, FS_Subset
  <2> QED
    BY <1>3, <1>4, <2>3, <2>7, <2>8
<1> QED
  BY <1>6, <1>7

\* A scan that is begun or goes on leaves the baskets alone.
LEMMA ScanGoes ==
  ASSUME BasketsInv, NEW r \in Baskets!Runs, NEW new \in Scan, run' = [run EXCEPT ![r] = new],
         new.status # "none", Begun(r) \/ r = Baskets!NextRun
  PROVE  /\ run' \in [Baskets!Runs -> Scan] /\ \A s \in Baskets!Runs : Begun(s) => Begun(s)'
         /\ Begun(r)' /\ \A q, s \in Baskets!Runs : q < s /\ Begun(s)' => Begun(q)'
<1>1. run \in [Baskets!Runs -> Scan] /\ \A q, s \in Baskets!Runs : q < s /\ Begun(s) => Begun(q)
  BY DEF BasketsInv, BasketsTypes
<1>2. /\ run' \in [Baskets!Runs -> Scan]
      /\ \A s \in Baskets!Runs : Begun(s)' <=> (s = r \/ Begun(s))
  BY <1>1 DEF Begun
<1>3. \A s \in Baskets!Runs : s < r => Begun(s)
  BY <1>1, NextScan
<1> QED
  BY <1>1, <1>2, <1>3

\* Nothing but the scans changes.
LEMMA ScansOnly ==
  ASSUME BasketsInv, run' \in [Baskets!Runs -> Scan],
         \A s \in Baskets!Runs : Begun(s) => Begun(s)',
         \A q, s \in Baskets!Runs : q < s /\ Begun(s)' => Begun(q)',
         strategy' \in [version : 1 .. MaxVersions, active : BOOLEAN],
         UNCHANGED <<day, basket, observed, today, keyed, jobs, viewer>>
  PROVE  BasketsInv'
<1>1. BasketsTypes'
  BY DEF BasketsInv, BasketsTypes, Baskets!Nothing
<1>2. ASSUME NEW b \in 1 .. Len(basket)
      PROVE  basket[b].run \in Baskets!Runs /\ Begun(basket[b].run) /\ basket[b].frozen <= day
  <2>1. basket \in Seq(Basket)
    BY DEF BasketsInv, BasketsTypes
  <2>2. basket[b] \in Basket
    BY <2>1
  <2> QED
    BY <2>2 DEF Basket, BasketsInv
<1>3. \A b \in 1 .. Len(basket') : run'[basket'[b].run].status # "none" /\ basket'[b].frozen <= day'
  BY <1>2 DEF Begun
<1>4. \A b, c \in 1 .. Len(basket') : basket'[b].run = basket'[c].run => b = c
  BY DEF BasketsInv
<1> QED
  BY <1>1, <1>3, <1>4 DEF BasketsInv, Begun

\* A basket is frozen of a scan that has none.
LEMMA Freezing ==
  ASSUME BasketsInv, NEW x \in Basket, basket' = Append(basket, x),
         observed' = Append(observed, <<>>),
         run' \in [Baskets!Runs -> Scan], \A s \in Baskets!Runs : Begun(s) => Begun(s)',
         \A q, s \in Baskets!Runs : q < s /\ Begun(s)' => Begun(q)',
         Begun(x.run)', x.frozen = day, \A b \in 1 .. Len(basket) : basket[b].run # x.run,
         UNCHANGED <<day, strategy, today, keyed, jobs, viewer>>
  PROVE  BasketsInv'
<1>1. BasketsTypes
  BY DEF BasketsInv
<1>2. basket \in Seq(Basket) /\ observed \in Seq(Seq(Finding)) /\ Len(observed) = Len(basket)
      /\ <<>> \in Seq(Finding)
  BY <1>1 DEF BasketsTypes
<1>3. /\ basket' \in Seq(Basket) /\ Len(basket') = Len(basket) + 1 /\ Len(basket) \in Nat
      /\ DOMAIN basket = 1 .. Len(basket)
      /\ \A b \in DOMAIN basket : basket'[b] = basket[b] /\ basket'[Len(basket) + 1] = x
  BY <1>2, Appending
<1>8. basket'[Len(basket) + 1] = x
  BY <1>2, Appending
<1>4. observed' \in Seq(Seq(Finding)) /\ Len(observed') = Len(observed) + 1
  BY <1>2, Appending
<1>5. 1 .. Len(basket) \subseteq 1 .. Len(basket')
  BY <1>3
<1>6. BasketsTypes'
  BY <1>1, <1>2, <1>3, <1>4, <1>5 DEF BasketsTypes, Baskets!Nothing
<1>7. ASSUME NEW b \in 1 .. Len(basket')
      PROVE  (b \in 1 .. Len(basket) /\ basket'[b] = basket[b])
             \/ (b = Len(basket) + 1 /\ basket'[b] = x)
  BY <1>3, <1>8
<1>9. ASSUME NEW b \in 1 .. Len(basket)
      PROVE  basket[b].run \in Baskets!Runs /\ Begun(basket[b].run) /\ basket[b].frozen <= day
  <2>1. basket[b] \in Basket
    BY <1>2
  <2> QED
    BY <2>1 DEF Basket, BasketsInv
<1>10. ASSUME NEW b \in 1 .. Len(basket')
       PROVE  run'[basket'[b].run].status # "none" /\ basket'[b].frozen <= day'
  <2>1. CASE b \in 1 .. Len(basket) /\ basket'[b] = basket[b]
    BY <1>9, <2>1 DEF Begun
  <2>2. CASE basket'[b] = x
    <3>1. day \in Nat
      BY <1>1, Bounds DEF BasketsTypes
    <3> QED
      BY <2>2, <3>1 DEF Begun
  <2> QED
    BY <1>7, <2>1, <2>2
<1>11. \A b, c \in 1 .. Len(basket') : basket'[b].run = basket'[c].run => b = c
  <2>1. \A b, c \in 1 .. Len(basket) : basket[b].run = basket[c].run => b = c
    BY DEF BasketsInv
  <2> QED
    BY <1>7, <2>1
<1> QED
  BY <1>6, <1>10, <1>11 DEF BasketsInv, Begun


\* What is found of a basket today
LEMMA FindingIs ==
  ASSUME BasketsInv, NEW b \in 1 .. Len(basket), NEW o \in Baskets!Findings(b)
  PROVE  o \in Finding /\ o.basket = b
<1>1. basket \in Seq(Basket) /\ day \in 0 .. MaxDay /\ basket[b].frozen <= day
  BY DEF BasketsInv, BasketsTypes
<1>2. basket[b] \in Basket /\ b \in Nat
  BY <1>1
<1>3. basket[b].frozen \in Nat /\ day \in Nat /\ MaxDay \in Nat
  BY <1>1, <1>2, Bounds DEF Basket
<1>4. Baskets!Elapsed(b) \in 0 .. MaxDay
  BY <1>1, <1>3 DEF Baskets!Elapsed
<1> QED
  BY <1>2, <1>4 DEF Baskets!Findings, Baskets!Coverage, Finding

\* append_paper_observation
LEMMA Keeping ==
  ASSUME BasketsInv, NEW o \in Finding, o.basket \in 1 .. Len(basket), Baskets!Save(o)
  PROVE  /\ observed' \in Seq(Seq(Finding)) /\ Len(observed') = Len(basket)
         /\ today' \in SUBSET (1 .. Len(basket))
<1>1. observed \in Seq(Seq(Finding)) /\ Len(observed) = Len(basket)
      /\ today \in SUBSET (1 .. Len(basket))
  BY DEF BasketsInv, BasketsTypes
<1>2. PICK kept : kept = observed[o.basket]
  OBVIOUS
<1>3. kept \in Seq(Finding)
  BY <1>1, <1>2
<1>4. CASE UNCHANGED <<observed, today>>
  BY <1>1, <1>4
<1>5. CASE /\ observed' = [observed EXCEPT ![o.basket] = Append(kept, o)]
           /\ today' = IF o.elapsed = Baskets!Elapsed(o.basket) THEN today \cup {o.basket}
                       ELSE today \ {o.basket}
  <2>1. Append(kept, o) \in Seq(Finding)
    BY <1>3, Appending
  <2>2. observed' \in Seq(Seq(Finding)) /\ Len(observed') = Len(observed)
    BY <1>1, <1>5, <2>1
  <2> QED
    BY <1>1, <1>5, <2>2
<1> QED
  BY <1>2, <1>4, <1>5 DEF Baskets!Save

\* Observations and their jobs leave the baskets and the scans alone.
LEMMA SweepsOnly ==
  ASSUME BasketsInv, observed' \in Seq(Seq(Finding)), Len(observed') = Len(basket),
         today' \in SUBSET (1 .. Len(basket)), keyed' \in SUBSET (1 .. Len(basket)),
         jobs' \in SUBSET (1 .. Len(basket)), viewer' \in Finding,
         viewer' = Baskets!Nothing \/ viewer'.basket \in 1 .. Len(basket),
         UNCHANGED <<day, strategy, run, basket>>
  PROVE  BasketsInv'
<1>1. BasketsTypes'
  BY DEF BasketsInv, BasketsTypes, Baskets!Nothing
<1> QED
  BY <1>1 DEF BasketsInv, Begun

\* Every step of the baskets keeps the invariant,
LEMMA BasketsStep == BasketsInv /\ [Baskets!Next]_(Baskets!vars) => BasketsInv'
<1> SUFFICES ASSUME BasketsInv, [Baskets!Next]_(Baskets!vars) PROVE BasketsInv'
  OBVIOUS
<1>1. BasketsTypes
  BY DEF BasketsInv
<1>2. /\ day \in 0 .. MaxDay /\ strategy \in [version : 1 .. MaxVersions, active : BOOLEAN]
      /\ run \in [Baskets!Runs -> Scan] /\ basket \in Seq(Basket)
      /\ observed \in Seq(Seq(Finding)) /\ Len(observed) = Len(basket)
      /\ today \in SUBSET (1 .. Len(basket)) /\ keyed \in SUBSET (1 .. Len(basket))
      /\ jobs \in SUBSET (1 .. Len(basket))
      /\ viewer \in Finding /\ (viewer = Baskets!Nothing \/ viewer.basket \in 1 .. Len(basket))
  BY <1>1 DEF BasketsTypes
<1>3. DOMAIN basket = 1 .. Len(basket) /\ Len(basket) \in Nat
  BY <1>2
<1>4. \A q, s \in Baskets!Runs : q < s /\ Begun(s) => Begun(q)
  BY DEF BasketsInv
<1>5. Baskets!Nothing \in Finding
  BY Bounds DEF Baskets!Nothing, Finding, Baskets!Coverage
<1>6. CASE UNCHANGED Baskets!vars
  BY <1>6 DEF Baskets!vars, BasketsInv, BasketsTypes, Begun, Baskets!Nothing
<1>7. ASSUME UNCHANGED <<run, day, basket, observed, today, keyed, jobs, viewer>>,
             strategy' \in [version : 1 .. MaxVersions, active : BOOLEAN]
      PROVE  BasketsInv'
  <2>1. \A s \in Baskets!Runs : Begun(s)' <=> Begun(s)
    BY <1>7 DEF Begun
  <2>2. run' \in [Baskets!Runs -> Scan]
    BY <1>2, <1>7
  <2> QED
    BY <1>4, <1>7, <2>1, <2>2, ScansOnly
<1>8. CASE Baskets!AddVersion
  <2>1. strategy' = [strategy EXCEPT !.version = strategy.version + 1]
        /\ strategy.version < MaxVersions
        /\ UNCHANGED <<run, day, basket, observed, today, keyed, jobs, viewer>>
    BY <1>8 DEF Baskets!AddVersion, Baskets!sweep
  <2>2. strategy.version + 1 \in 1 .. MaxVersions
    BY <1>2, <2>1, Bounds
  <2>3. strategy' \in [version : 1 .. MaxVersions, active : BOOLEAN]
    BY <1>2, <2>1, <2>2
  <2> QED
    BY <1>7, <2>1, <2>3
<1>9. CASE Baskets!Archive
  <2>1. strategy' = [strategy EXCEPT !.active = FALSE]
        /\ UNCHANGED <<run, day, basket, observed, today, keyed, jobs, viewer>>
    BY <1>9 DEF Baskets!Archive, Baskets!sweep
  <2>3. strategy' \in [version : 1 .. MaxVersions, active : BOOLEAN]
    BY <1>2, <2>1
  <2> QED
    BY <1>7, <2>1, <2>3
<1>10. CASE Baskets!SaveView
  <2>1. Baskets!Save(viewer) /\ viewer # Baskets!Nothing /\ viewer' = Baskets!Nothing
        /\ UNCHANGED <<day, strategy, run, basket, keyed, jobs>>
    BY <1>10 DEF Baskets!SaveView, Baskets!scans, Baskets!sweep
  <2>2. /\ observed' \in Seq(Seq(Finding)) /\ Len(observed') = Len(basket)
        /\ today' \in SUBSET (1 .. Len(basket))
    BY <1>2, <2>1, Keeping
  <2> QED
    BY <1>2, <1>5, <2>1, <2>2, SweepsOnly
<1>11. CASE Baskets!NextDay
  <2>1. day' = (IF day < MaxDay THEN day + 1 ELSE day) /\ today' = {} /\ keyed' = {}
        /\ UNCHANGED <<strategy, run, basket, observed, jobs, viewer>>
    BY <1>11 DEF Baskets!NextDay, Baskets!scans
  <2>2. day' \in 0 .. MaxDay /\ day <= day' /\ day \in Nat /\ day' \in Nat
    BY <1>2, <2>1, Bounds
  <2>3. BasketsTypes'
    BY <1>2, <2>1, <2>2 DEF BasketsTypes, Baskets!Nothing
  <2>4. ASSUME NEW b \in 1 .. Len(basket) PROVE Begun(basket[b].run) /\ basket[b].frozen <= day'
    <3>1. basket[b] \in Basket
      BY <1>2
    <3>2. basket[b].frozen \in Nat /\ basket[b].frozen <= day
      BY <3>1 DEF Basket, BasketsInv
    <3>3. basket[b].frozen <= day'
      BY <2>2, <3>2
    <3> QED
      BY <3>3 DEF BasketsInv
  <2> QED
    BY <1>4, <2>1, <2>3, <2>4 DEF BasketsInv, Begun
<1>12. ASSUME NEW r \in Baskets!Runs, Baskets!Scan(r) PROVE BasketsInv'
  <2>1. PICK new : new = [status |-> "queued", version |-> strategy.version]
    OBVIOUS
  <2>2. run' = [run EXCEPT ![r] = new] /\ r = Baskets!NextRun
        /\ UNCHANGED <<day, strategy, basket, observed, today, keyed, jobs, viewer>>
    BY <1>12, <2>1 DEF Baskets!Scan, Baskets!sweep
  <2>3. strategy.version \in 0 .. MaxVersions
    BY <1>2, Bounds
  <2>4. new \in Scan /\ new.status # "none"
    BY <2>1, <2>3 DEF Scan
  <2>5. /\ run' \in [Baskets!Runs -> Scan] /\ \A s \in Baskets!Runs : Begun(s) => Begun(s)'
        /\ \A q, s \in Baskets!Runs : q < s /\ Begun(s)' => Begun(q)'
    BY <2>2, <2>4, ScanGoes
  <2> QED
    BY <1>2, <2>2, <2>5, ScansOnly
<1>13. ASSUME NEW r \in Baskets!Runs, NEW status \in {"running"} \cup Baskets!Terminal,
              Baskets!Move(r, status)
       PROVE  BasketsInv'
  <2>1. PICK new : new = [run[r] EXCEPT !.status = status]
    OBVIOUS
  <2>2. run' = [run EXCEPT ![r].status = status] /\ run[r].status # "none"
        /\ UNCHANGED <<day, strategy, basket, observed, today, keyed, jobs, viewer>>
    BY <1>13 DEF Baskets!Move, Baskets!sweep
  <2>3. run' = [run EXCEPT ![r] = new]
    BY <1>2, <2>1, <2>2
  <2>4. new \in Scan /\ new.status # "none" /\ Begun(r)
    BY <1>2, <2>1, <2>2 DEF Scan, Begun, Baskets!Terminal
  <2>5. /\ run' \in [Baskets!Runs -> Scan] /\ \A s \in Baskets!Runs : Begun(s) => Begun(s)'
        /\ \A q, s \in Baskets!Runs : q < s /\ Begun(s)' => Begun(q)'
    BY <2>3, <2>4, ScanGoes
  <2> QED
    BY <1>2, <2>2, <2>5, ScansOnly
<1>20. ASSUME day + Horizon <= MaxDay PROVE day \in 0 .. MaxDay - Horizon
  BY <1>2, <1>20, Bounds
<1>14. ASSUME NEW r \in Baskets!Runs, Baskets!Freeze(r) PROVE BasketsInv'
  <2>1. PICK x : x = [run |-> r, version |-> run[r].version, frozen |-> day]
    OBVIOUS
  <2>2. /\ basket' = Append(basket, x) /\ observed' = Append(observed, <<>>)
        /\ run[r].status = "succeeded" /\ \A b \in DOMAIN basket : basket[b].run # r
        /\ day + Horizon <= MaxDay
        /\ UNCHANGED <<day, strategy, run, today, keyed, jobs, viewer>>
    BY <1>14, <2>1 DEF Baskets!Freeze, Baskets!scans, Baskets!sweep
  <2>3. run[r].version \in 0 .. MaxVersions
    BY <1>2 DEF Scan
  <2>4. x \in Basket /\ x.run = r /\ x.frozen = day
    BY <1>20, <2>1, <2>2, <2>3 DEF Basket
  <2>5. \A s \in Baskets!Runs : Begun(s)' <=> Begun(s)
    BY <2>2 DEF Begun
  <2>6. Begun(r)' /\ run' \in [Baskets!Runs -> Scan]
    BY <1>2, <2>2 DEF Begun
  <2>7. Begun(x.run)'
    BY <2>4, <2>6 DEF Begun
  <2> QED
    BY <1>3, <1>4, <2>2, <2>4, <2>5, <2>6, <2>7, Freezing
<1>15. ASSUME NEW r \in Baskets!Runs, Baskets!Enroll(r) PROVE BasketsInv'
  <2>1. PICK x : x = [run |-> r, version |-> 1, frozen |-> day]
    OBVIOUS
  <2>2. PICK new : new = [status |-> "succeeded", version |-> 1]
    OBVIOUS
  <2>3. /\ basket' = Append(basket, x) /\ observed' = Append(observed, <<>>)
        /\ run' = [run EXCEPT ![r] = new] /\ r = Baskets!NextRun /\ day + Horizon <= MaxDay
        /\ UNCHANGED <<day, strategy, today, keyed, jobs, viewer>>
    BY <1>15, <2>1, <2>2 DEF Baskets!Enroll, Baskets!sweep
  <2>4. 1 \in 0 .. MaxVersions
    BY Bounds
  <2>5. new \in Scan /\ new.status # "none"
    BY <2>2, <2>4 DEF Scan, Baskets!Terminal
  <2>6. /\ run' \in [Baskets!Runs -> Scan] /\ \A s \in Baskets!Runs : Begun(s) => Begun(s)'
        /\ Begun(r)' /\ \A q, s \in Baskets!Runs : q < s /\ Begun(s)' => Begun(q)'
    BY <2>3, <2>5, ScanGoes
  <2>7. x \in Basket /\ x.run = r /\ x.frozen = day
    BY <1>20, <2>1, <2>3, <2>4 DEF Basket
  <2>8. Begun(x.run)'
    BY <2>6, <2>7 DEF Begun
  <2>9. \A b \in 1 .. Len(basket) : basket[b].run # x.run
    <3>1. ~Begun(r)
      BY <2>3, NextScan
    <3>2. \A b \in 1 .. Len(basket) : Begun(basket[b].run)
      BY DEF BasketsInv
    <3> QED
      BY <2>7, <3>1, <3>2 DEF Begun
  <2> QED
    BY <2>3, <2>6, <2>7, <2>8, <2>9, Freezing
<1>16. ASSUME NEW b \in DOMAIN basket, Baskets!View(b) PROVE BasketsInv'
  <2>1. viewer' \in Baskets!Findings(b)
        /\ UNCHANGED <<day, strategy, run, basket, observed, today, keyed, jobs>>
    BY <1>16 DEF Baskets!View, Baskets!scans, Baskets!sweep
  <2>2. PICK o \in Baskets!Findings(b) : viewer' = o
    BY <2>1
  <2>3. o \in Finding /\ o.basket = b
    BY <1>3, <2>2, FindingIs
  <2>4. viewer'.basket \in 1 .. Len(basket)
    BY <1>3, <2>2, <2>3
  <2> QED
    BY <1>2, <2>1, <2>2, <2>3, <2>4, SweepsOnly
<1>17. ASSUME NEW b \in DOMAIN basket,
              Baskets!Request(b) \/ Baskets!FailJob(b) \/ Baskets!Dispatch(b)
       PROVE  BasketsInv'
  <2>1. /\ jobs' \in {jobs \cup {b}, jobs \ {b}} /\ keyed' \in {keyed, keyed \cup {b}}
        /\ UNCHANGED <<day, strategy, run, basket, observed, today, viewer>>
    BY <1>17 DEF Baskets!Request, Baskets!FailJob, Baskets!Dispatch, Baskets!scans
  <2>2. jobs' \in SUBSET (1 .. Len(basket)) /\ keyed' \in SUBSET (1 .. Len(basket))
    BY <1>2, <1>3, <2>1
  <2> QED
    BY <1>2, <2>1, <2>2, SweepsOnly
<1>18. ASSUME NEW b \in DOMAIN basket, NEW c \in Baskets!Coverage, Baskets!Observe(b, c)
       PROVE  BasketsInv'
  <2>1. /\ jobs' = jobs \ {b} /\ \E o \in Baskets!Findings(b) : Baskets!Save(o)
        /\ UNCHANGED <<day, strategy, run, basket, keyed, viewer>>
    BY <1>18 DEF Baskets!Observe, Baskets!scans
  <2>2. PICK o \in Baskets!Findings(b) : Baskets!Save(o)
    BY <2>1
  <2>3. o \in Finding /\ o.basket \in 1 .. Len(basket)
    BY <1>3, FindingIs
  <2>4. /\ observed' \in Seq(Seq(Finding)) /\ Len(observed') = Len(basket)
        /\ today' \in SUBSET (1 .. Len(basket))
    BY <2>2, <2>3, Keeping
  <2>5. jobs' \in SUBSET (1 .. Len(basket))
    BY <1>2, <2>1
  <2> QED
    BY <1>2, <2>1, <2>4, <2>5, SweepsOnly
<1> QED
  BY <1>6, <1>8, <1>9, <1>10, <1>11, <1>12, <1>13, <1>14, <1>15, <1>16, <1>17, <1>18
  DEF Baskets!Next

\* from which their types follow.
LEMMA BasketsTyped == BasketsInv => Baskets!TypeOK
<1> SUFFICES ASSUME BasketsInv PROVE Baskets!TypeOK
  OBVIOUS
<1>1. BasketsTypes /\ basket \in Seq(Basket)
  BY DEF BasketsInv, BasketsTypes
<1>2. DOMAIN basket = 1 .. Len(basket) /\ \A b \in 1 .. Len(basket) : basket[b] \in Basket
  BY <1>1
<1>3. \A b \in DOMAIN basket : basket[b].frozen \in 0 .. (MaxDay - Horizon)
  BY <1>2 DEF Basket
<1>4. \A b, c \in DOMAIN basket : basket[b].run = basket[c].run => b = c
  BY <1>2 DEF BasketsInv
<1>7. Len(basket) \in Nat
  BY <1>1
<1>8. viewer.basket \in 0 .. Len(basket)
  BY <1>1, <1>7 DEF BasketsTypes, Baskets!Nothing
<1>5. viewer \in [basket : 0 .. Len(basket), elapsed : 0 .. MaxDay, covered : Baskets!Coverage]
  BY <1>1, <1>8 DEF BasketsTypes, Finding
<1>6. today \cup keyed \cup jobs \subseteq DOMAIN basket
  BY <1>1, <1>2 DEF BasketsTypes
<1> QED
  BY <1>1, <1>3, <1>4, <1>5, <1>6 DEF BasketsTypes, Baskets!TypeOK, Scan

-----------------------------------------------------------------------------
(* Switches.                                                               *)

Trade == [on : Int, shares : Nat, price : Nat, fee : Nat]

Held == [rev : Nat, shares : Nat, other : Nat, candidate : Nat]

Chosen == [version : Nat, cap : Nat, configured : BOOLEAN]

Served ==
  [op : Switch!Ops, at : 0 .. MaxHour, held : Held, policy : Chosen, thesis : Nat, of : Nat]

Quoted ==
  [review : Nat, at : 0 .. MaxHour, gross : Nat, fee : Nat, amount : Nat, entry : Nat,
   available : BOOLEAN]

Judged == [quote : Nat, rev : Nat, policy : Nat, thesis : Nat, status : Switch!Statuses]

Offer ==
  [ready : BOOLEAN, at : 0 .. MaxHour, amount : Nat, entry : Nat, rev : Nat, policy : Nat]

Money ==
  [stage : {"none", "settled", "bought", "reconciled"}, sale : Trade, received : Nat, buy : Trade]

UserTypes ==
  /\ hour \in 0 .. MaxHour
  /\ ledger = [day |-> ledger.day, sale |-> ledger.sale]
  /\ ledger.day \in [Switch!Lots -> -2 .. MaxHour] /\ ledger.sale \in Trade
  /\ holding \in Held /\ holding.rev \in 1 .. MaxChanges
  /\ policy \in Chosen /\ policy.version \in 0 .. MaxChanges
  /\ (policy.version = 0 => policy.cap = 0) /\ thesis \in 0 .. MaxChanges

CaseTypes ==
  /\ quote \in Seq(Quoted) /\ verdict \in Seq(Judged)
  /\ case \in Money /\ order \in Offer
  /\ gain \in [known : BOOLEAN, old : Nat, new : Nat, incremental : Int]
  /\ request \in [Requests -> Served]

\* A review is of the purchases whose shares were confirmed.
Reviewed(r) ==
  r.shares = Switch!Cardinality(r.lots) /\ r.lots # {} /\ r.lots \cap Openings = {}

Reviews == (\E S : review \in Seq(S)) /\ \A i \in DOMAIN review : Reviewed(review[i])

\* While holdings and policy are of these revisions, so much of the candidate fits.
FitsAs(rev, version, net) ==
  rev = holding.rev /\ version = policy.version => Switch!Fits(holding, net, policy.cap)

\* A verdict is of a quote and of holdings and a policy there were.
Verdict(v) ==
  /\ v.quote \in DOMAIN quote /\ v.rev <= holding.rev /\ v.policy <= policy.version
  /\ v.status = "ready_for_redemption_review" =>
       v.thesis > 0 /\ FitsAs(v.rev, v.policy, quote[v.quote].amount - quote[v.quote].entry)

\* What a request has read was so once, and is so until the revision changes.
Read(r) ==
  /\ r.held.rev <= holding.rev /\ (r.held.rev = holding.rev => r.held = holding)
  /\ r.policy.version <= policy.version
  /\ (r.policy.version = policy.version => r.policy.cap = policy.cap)
  /\ (r.op = "quote" => r.of \in DOMAIN review)
  /\ (r.op \in {"quoted", "thesis", "verdict"} => r.of \in DOMAIN quote)

Offered ==
  /\ order.rev <= holding.rev /\ order.policy <= policy.version
  /\ order.amount <= case.received + Tolerance
  /\ order.ready => FitsAs(order.rev, order.policy, order.amount - order.entry)

Evidence ==
  /\ \A i \in DOMAIN quote :
       quote[i].review \in DOMAIN review /\ quote[i].amount + quote[i].fee <= quote[i].gross + Tolerance
  /\ \A v \in DOMAIN verdict : Verdict(verdict[v])

Accounted ==
  /\ case.stage = "none" => case.received = 0
  /\ case.stage # "none" =>
       /\ case.received <= Switch!Gross(case.sale) - case.sale.fee + Tolerance
       /\ case.received >= Switch!Gross(case.sale) - case.sale.fee - Tolerance
  /\ case.stage \in {"bought", "reconciled"} => Switch!Spent <= case.received + Tolerance
  /\ gain.known =>
       /\ case.stage = "reconciled"
       /\ gain.incremental =
            case.buy.shares * gain.new + Switch!Residual - case.sale.shares * gain.old

SwitchInv ==
  /\ UserTypes /\ CaseTypes /\ Reviews /\ Evidence /\ Offered /\ Accounted
  /\ \A q \in Requests : Read(request[q])

\* The constants of the switches, one by one
LEMMA SwitchBounds ==
  /\ DayLength \in Nat /\ DayLength >= 1 /\ MaxChanges \in Nat /\ MaxChanges >= 1
  /\ Tolerance \in Nat /\ Validity \in Nat /\ MaxHour \in Nat
  /\ \A x \in Prices \cup Fees \cup Amounts \cup Caps : x \in Nat
  /\ IsFiniteSet(Switch!Lots)
  BY ServiceAssumption DEF Switch!Lots

\* Days are numbers.
LEMMA Dated == ASSUME NEW h \in 0 .. MaxHour PROVE Switch!Day(h) \in Int
  BY SwitchBounds DEF Switch!Day

\* An idle request has read nothing there was.
LEMMA IdleReads ==
  /\ Switch!Idle \in Served
  /\ SwitchInv => Read(Switch!Idle)
<1>1. Switch!Idle \in Served
  BY SwitchBounds DEF Switch!Idle, Served, Switch!Ops, Held, Chosen, Switch!Position, Switch!Policy
<1>2. ASSUME SwitchInv PROVE Read(Switch!Idle)
  <2>1. holding.rev \in 1 .. MaxChanges /\ policy \in Chosen /\ policy.version \in 0 .. MaxChanges
        /\ (policy.version = 0 => policy.cap = 0)
    BY <1>2 DEF SwitchInv, UserTypes
  <2> QED
    BY <2>1, SwitchBounds DEF Switch!Idle, Read, Switch!Position, Switch!Policy
<1> QED
  BY <1>1, <1>2

\* Nothing is held, reviewed, quoted or bought.
LEMMA SwitchStart == Switch!Init => SwitchInv
<1> SUFFICES ASSUME Switch!Init PROVE SwitchInv
  OBVIOUS
<1> USE DEF Switch!Init
<1>1. Switch!NoTrade \in Trade
  BY DEF Switch!NoTrade, Trade
<1>2. UserTypes
  BY <1>1, SwitchBounds
  DEF UserTypes, Held, Chosen, Switch!Position, Switch!Policy, Switch!New
<1>3. case \in Money
  BY <1>1 DEF Money
<1>4. order \in Offer
  BY SwitchBounds DEF Offer, Switch!NoOrder
<1>5. request \in [Requests -> Served] /\ \A q \in Requests : request[q] = Switch!Idle
  BY IdleReads
<1>6. CaseTypes
  BY <1>3, <1>4, <1>5 DEF CaseTypes, Switch!NoGain
<1>7. Reviews /\ Evidence
  BY DEF Reviews, Evidence
<1>8. Offered
  <2>1. ~order.ready
    BY DEF Switch!NoOrder
  <2>5. order.rev = 0 /\ order.policy = 0 /\ order.amount = 0 /\ case.received = 0
    BY DEF Switch!NoOrder
  <2>2. holding.rev \in Nat /\ policy.version \in Nat
    BY <1>2 DEF UserTypes, Held, Chosen
  <2> HIDE DEF Switch!Init
  <2>3. order.rev <= holding.rev /\ order.policy <= policy.version
        /\ order.amount <= case.received + Tolerance
    BY <2>2, <2>5, SwitchBounds
  <2>4. order.ready => FitsAs(order.rev, order.policy, order.amount - order.entry)
    BY <2>1, Zenon
  <2> QED
    BY <2>3, <2>4 DEF Offered
<1>9. Accounted
  BY DEF Accounted, Switch!NoGain
<1>10. \A q \in Requests : Read(request[q])
  BY <1>5 DEF Read, Switch!Idle, Switch!Position, Switch!Policy
<1> QED
  BY <1>2, <1>6, <1>7, <1>8, <1>9, <1>10 DEF SwitchInv

\* What the user changes has a new revision, so that what was read before does
\* not bind any more.
LEMMA UserGoes ==
  ASSUME SwitchInv, UserTypes',
         holding' = holding \/ holding'.rev > holding.rev,
         \/ policy'.version = policy.version /\ policy'.cap = policy.cap
         \/ policy'.version > policy.version,
         UNCHANGED Switch!evidence, UNCHANGED Switch!life, UNCHANGED request
  PROVE  SwitchInv'
<1>1. UNCHANGED <<review, quote, verdict, case, order, gain, request>>
  BY DEF Switch!evidence, Switch!life
<1>2. /\ holding \in Held /\ holding' \in Held /\ policy \in Chosen /\ policy' \in Chosen
      /\ quote \in Seq(Quoted) /\ verdict \in Seq(Judged) /\ order \in Offer
      /\ request \in [Requests -> Served]
  BY DEF SwitchInv, UserTypes, CaseTypes
<1>3. holding.rev \in Nat /\ holding'.rev \in Nat /\ policy.version \in Nat /\ policy'.version \in Nat
  BY <1>2 DEF Held, Chosen
<1>4. ASSUME NEW rev \in Nat, NEW version \in Nat, NEW net, rev <= holding.rev,
             version <= policy.version, FitsAs(rev, version, net)
      PROVE  FitsAs(rev, version, net)'
  BY <1>3, <1>4 DEF FitsAs, Switch!Fits
<1>5. ASSUME NEW v \in DOMAIN verdict PROVE Verdict(verdict[v])'
  <2>1. verdict[v] \in Judged /\ Verdict(verdict[v])
    BY <1>2 DEF SwitchInv, Evidence
  <2>2. verdict[v].rev \in Nat /\ verdict[v].policy \in Nat
    BY <2>1 DEF Judged
  <2> QED
    BY <1>1, <1>3, <1>4, <2>1, <2>2 DEF Verdict
<1>6. Offered'
  <2>1. order.rev \in Nat /\ order.policy \in Nat /\ Offered
    BY <1>2 DEF Offer, SwitchInv
  <2> QED
    BY <1>1, <1>3, <1>4, <2>1 DEF Offered
<1>7. ASSUME NEW q \in Requests PROVE Read(request[q])'
  <2>1. request[q] \in Served /\ Read(request[q])
    BY <1>2 DEF SwitchInv
  <2>2. request[q].held.rev \in Nat /\ request[q].policy.version \in Nat
    BY <2>1 DEF Served, Held, Chosen
  <2> QED
    BY <1>1, <1>3, <2>1, <2>2 DEF Read
<1>8. CaseTypes' /\ Reviews' /\ Accounted'
  BY <1>1 DEF SwitchInv, CaseTypes, Reviews, Accounted, Switch!Spent, Switch!Residual, Switch!Gross,
     Reviewed
<1>9. Evidence'
  BY <1>1, <1>5 DEF SwitchInv, Evidence
<1> QED
  BY <1>6, <1>7, <1>8, <1>9 DEF SwitchInv

\* What the user does keeps the invariant,
LEMMA UsersStep == SwitchInv /\ (Switch!Users \/ Switch!Tick) => SwitchInv'
<1> SUFFICES ASSUME SwitchInv, Switch!Users \/ Switch!Tick PROVE SwitchInv'
  OBVIOUS
<1>1. UserTypes
  BY DEF SwitchInv
<1>2. hour \in 0 .. MaxHour /\ holding \in Held /\ holding.rev \in 1 .. MaxChanges
      /\ policy \in Chosen /\ policy.version \in 0 .. MaxChanges /\ thesis \in 0 .. MaxChanges
      /\ ledger.day \in [Switch!Lots -> -2 .. MaxHour] /\ ledger.sale \in Trade
      /\ (policy.version = 0 => policy.cap = 0)
      /\ ledger = [day |-> ledger.day, sale |-> ledger.sale]
  BY <1>1 DEF UserTypes
<1>3. \A h \in Held : h.rev \in Nat
  BY DEF Held
<1>4. ASSUME NEW d, d \in [Switch!Lots -> -2 .. MaxHour], NEW t, t \in Trade,
             ledger' = [day |-> d, sale |-> t],
             UNCHANGED <<hour, holding, policy, thesis, Switch!evidence, Switch!life, request>>
      PROVE  SwitchInv'
  <2>1. UserTypes'
    BY <1>2, <1>4 DEF UserTypes
  <2>2. UNCHANGED Switch!evidence /\ UNCHANGED Switch!life /\ UNCHANGED request
        /\ holding' = holding /\ policy' = policy
    BY <1>4
  <2> QED
    BY <2>1, <2>2, UserGoes
<1>5. ASSUME NEW l \in Switch!Lots, Switch!Delete(l) PROVE SwitchInv'
  <2>1. PICK d : d = [ledger.day EXCEPT ![l] = -2]
    OBVIOUS
  <2>2. d \in [Switch!Lots -> -2 .. MaxHour]
    BY <1>2, <2>1, SwitchBounds
  <2>3. ledger' = [ledger EXCEPT !.day[l] = -2]
        /\ UNCHANGED <<hour, holding, policy, thesis, Switch!evidence, Switch!life, request>>
    BY <1>5 DEF Switch!Delete, Switch!Gone
  <2>4. ledger' = [day |-> d, sale |-> ledger.sale]
    BY <1>2, <2>1, <2>3
  <2> QED
    BY <1>2, <1>4, <2>2, <2>3, <2>4
<1>6. ASSUME NEW l \in Switch!Lots, NEW e \in 0 .. MaxHour, Switch!Enter(l, e) PROVE SwitchInv'
  <2>1. PICK d : d = [ledger.day EXCEPT ![l] = e]
    OBVIOUS
  <2>2. d \in [Switch!Lots -> -2 .. MaxHour]
    BY <1>2, <2>1, SwitchBounds
  <2>3. ledger' = [ledger EXCEPT !.day[l] = e]
        /\ UNCHANGED <<hour, holding, policy, thesis, Switch!evidence, Switch!life, request>>
    BY <1>6 DEF Switch!Enter
  <2>4. ledger' = [day |-> d, sale |-> ledger.sale]
    BY <1>2, <2>1, <2>3
  <2> QED
    BY <1>2, <1>4, <2>2, <2>3, <2>4
<1>7. ASSUME NEW price \in Prices, NEW fee \in Fees, Switch!Sell(price, fee) PROVE SwitchInv'
  <2>1. PICK n : n = Switch!Cardinality(Switch!Left)
    OBVIOUS
  <2>2. PICK t : t = [on |-> Switch!Day(hour), shares |-> n, price |-> price, fee |-> fee]
    OBVIOUS
  <2>3. n \in Nat
    <3>1. IsFiniteSet(Switch!Left)
      <4>1. Switch!Left \subseteq Switch!Lots
        BY DEF Switch!Left, Switch!Entered
      <4> QED
        BY <4>1, SwitchBounds, FS_Subset
    <3>2. Cardinality(Switch!Left) \in Nat
      BY <3>1, FS_CardinalityType
    <3>3. Switch!Cardinality(Switch!Left) = Cardinality(Switch!Left)
      BY DEF Cardinality, Switch!Cardinality
    <3> QED
      BY <2>1, <3>2, <3>3
  <2>4. t \in Trade
    BY <1>2, <2>2, <2>3, SwitchBounds, Dated DEF Trade
  <2>5. ledger' = [ledger EXCEPT !.sale = t]
        /\ UNCHANGED <<hour, holding, policy, thesis, Switch!evidence, Switch!life, request>>
    BY <1>7, <2>1, <2>2 DEF Switch!Sell
  <2>6. ledger' = [day |-> ledger.day, sale |-> t]
    BY <1>2, <2>5
  <2> QED
    BY <1>2, <1>4, <2>4, <2>5, <2>6
<1>8. ASSUME NEW n \in 0 .. Switch!Cardinality(Switch!Lots), NEW other \in Amounts,
             NEW candidate \in Amounts, Switch!Hold(n, other, candidate)
      PROVE  SwitchInv'
  <2>1. holding' = Switch!Position(holding.rev + 1, n, other, candidate) /\ holding.rev < MaxChanges
        /\ UNCHANGED <<hour, ledger, policy, thesis, Switch!evidence, Switch!life, request>>
    BY <1>8 DEF Switch!Hold
  <2>2. n \in Nat /\ other \in Nat /\ candidate \in Nat /\ holding.rev + 1 \in 1 .. MaxChanges
    BY <1>2, <2>1, SwitchBounds
  <2>3. holding' \in Held /\ holding'.rev = holding.rev + 1
    BY <2>1, <2>2 DEF Held, Switch!Position
  <2>4. UserTypes'
    BY <1>2, <2>1, <2>2, <2>3 DEF UserTypes
  <2>5. UNCHANGED Switch!evidence /\ UNCHANGED Switch!life /\ UNCHANGED request /\ policy' = policy
        /\ holding'.rev > holding.rev
    BY <1>2, <2>1, <2>3
  <2> QED
    BY <2>4, <2>5, UserGoes
<1>9. ASSUME NEW cap \in Caps, Switch!Activate(cap) PROVE SwitchInv'
  <2>1. policy' = Switch!Policy(policy.version + 1, cap, TRUE) /\ policy.version < MaxChanges
        /\ UNCHANGED <<hour, ledger, holding, thesis, Switch!evidence, Switch!life, request>>
    BY <1>9 DEF Switch!Activate
  <2>2. policy.version \in Nat /\ policy.version + 1 \in 1 .. MaxChanges /\ cap \in Nat
    BY <1>2, <2>1, SwitchBounds
  <2>3. policy' \in Chosen /\ policy'.version = policy.version + 1
    BY <2>1, <2>2 DEF Chosen, Switch!Policy
  <2>4. UNCHANGED <<hour, ledger, holding, thesis, Switch!evidence, Switch!life, request>>
    BY <2>1
  <2>5. UserTypes'
    BY <1>2, <2>2, <2>3, <2>4 DEF UserTypes
  <2>6. policy'.version > policy.version
    BY <2>2, <2>3
  <2> QED
    BY <2>4, <2>5, <2>6, UserGoes
<1>10. CASE Switch!Lapse
  <2>1. policy' = [policy EXCEPT !.configured = FALSE]
        /\ UNCHANGED <<hour, ledger, holding, thesis, Switch!evidence, Switch!life, request>>
    BY <1>10 DEF Switch!Lapse
  <2>3. policy' \in Chosen /\ policy'.version = policy.version /\ policy'.cap = policy.cap
    BY <1>2, <2>1 DEF Chosen
  <2>4. UserTypes'
    BY <1>2, <2>1, <2>3 DEF UserTypes
  <2>5. UNCHANGED Switch!evidence /\ UNCHANGED Switch!life /\ UNCHANGED request /\ holding' = holding
    BY <2>1
  <2> QED
    BY <2>3, <2>4, <2>5, UserGoes
<1>11. CASE Switch!SaveThesis
  <2>1. thesis' = thesis + 1 /\ thesis < MaxChanges
        /\ UNCHANGED <<hour, ledger, holding, policy, Switch!evidence, Switch!life, request>>
    BY <1>11 DEF Switch!SaveThesis
  <2>2. thesis' \in 0 .. MaxChanges
    BY <1>2, <2>1, SwitchBounds
  <2>4. UserTypes'
    BY <1>2, <2>1, <2>2 DEF UserTypes
  <2>5. UNCHANGED Switch!evidence /\ UNCHANGED Switch!life /\ UNCHANGED request /\ holding' = holding
        /\ policy' = policy
    BY <2>1
  <2> QED
    BY <2>4, <2>5, UserGoes
<1>12. CASE Switch!Tick
  <2>1. hour' = hour + 1 /\ hour < MaxHour
        /\ UNCHANGED <<Switch!user, Switch!evidence, Switch!life, request>>
    BY <1>12 DEF Switch!Tick
  <2>2. hour' \in 0 .. MaxHour /\ UNCHANGED <<ledger, holding, policy, thesis>>
    BY <1>2, <2>1, SwitchBounds DEF Switch!user
  <2>4. UserTypes'
    BY <1>2, <2>1, <2>2 DEF UserTypes
  <2>5. UNCHANGED Switch!evidence /\ UNCHANGED Switch!life /\ UNCHANGED request /\ holding' = holding
        /\ policy' = policy
    BY <2>1, <2>2
  <2> QED
    BY <2>4, <2>5, UserGoes
<1> QED
  BY <1>5, <1>6, <1>7, <1>8, <1>9, <1>10, <1>11, <1>12 DEF Switch!Users

\* A request that goes on, with what it has read
LEMMA RequestGoes ==
  ASSUME SwitchInv, NEW q \in Requests, NEW new \in Served, Read(new),
         request' = [request EXCEPT ![q] = new],
         UNCHANGED <<hour, Switch!user, Switch!evidence, Switch!life>>
  PROVE  SwitchInv'
<1>1. UNCHANGED <<hour, ledger, holding, policy, thesis, review, quote, verdict, case, order, gain>>
  BY DEF Switch!user, Switch!evidence, Switch!life
<1>2. request \in [Requests -> Served] /\ \A p \in Requests : Read(request[p])
  BY DEF SwitchInv, CaseTypes
<1>3. /\ request' \in [Requests -> Served]
      /\ \A p \in Requests : request'[p] = IF p = q THEN new ELSE request[p]
  BY <1>2
<1>4. ASSUME NEW p \in Requests PROVE Read(request'[p])
  BY <1>2, <1>3
<1>5. \A p \in Requests : Read(request[p])'
  BY <1>1, <1>4 DEF Read
<1>6. UserTypes' /\ CaseTypes'
  BY <1>1, <1>3 DEF SwitchInv, UserTypes, CaseTypes
<1>7. Reviews' /\ Evidence' /\ Offered' /\ Accounted'
  BY <1>1 DEF SwitchInv, Reviews, Reviewed, Evidence, Verdict, Offered, Accounted, FitsAs,
     Switch!Fits, Switch!Spent, Switch!Residual, Switch!Gross
<1> QED
  BY <1>5, <1>6, <1>7 DEF SwitchInv

\* A request that is done has read nothing, and evidence is only added.
LEMMA RequestEnds ==
  ASSUME SwitchInv, NEW q \in Requests, Switch!Done(q), DOMAIN review \subseteq DOMAIN review',
         DOMAIN quote \subseteq DOMAIN quote', UNCHANGED <<holding, policy>>
  PROVE  request' \in [Requests -> Served] /\ \A p \in Requests : Read(request[p])'
<1>1. request' = [request EXCEPT ![q] = Switch!Idle]
  BY DEF Switch!Done
<1>2. request \in [Requests -> Served] /\ \A p \in Requests : Read(request[p])
  BY DEF SwitchInv, CaseTypes
<1>3. /\ request' \in [Requests -> Served]
      /\ \A p \in Requests : request'[p] = IF p = q THEN Switch!Idle ELSE request[p]
  BY <1>1, <1>2, IdleReads
<1>4. ASSUME NEW p \in Requests PROVE Read(request'[p])
  BY <1>2, <1>3, IdleReads
<1>5. \A p \in Requests : Read(request[p])'
  BY <1>4 DEF Read
<1> QED
  BY <1>3, <1>5

\* SaveReview
LEMMA ReviewStep ==
  ASSUME SwitchInv, NEW q \in Requests, NEW nav, NEW price, NEW bands, NEW rates,
         Switch!SaveReview(q, nav, price, bands, rates)
  PROVE  SwitchInv'
<1>1. PICK r : r = [lots |-> Switch!Left, shares |-> request[q].held.shares,
                    day |-> Switch!Day(request[q].at), nav |-> nav,
                    gross |-> Switch!Cardinality(Switch!Left) * price,
                    costs |-> Switch!Costs(Switch!Left, price, bands, rates,
                                           Switch!Day(request[q].at))]
  OBVIOUS
<1>2. /\ Switch!Reconciled(Switch!Left, request[q].held.shares) /\ Switch!Save(r)
      /\ Switch!Done(q) /\ UNCHANGED <<hour, Switch!user, quote, verdict, Switch!life>>
  BY <1>1 DEF Switch!SaveReview
<1>3. Reviewed(r)
  BY <1>1, <1>2 DEF Switch!Reconciled, Reviewed
<1>4. PICK S : review \in Seq(S)
  BY DEF SwitchInv, Reviews
<1>5. \A i \in DOMAIN review : Reviewed(review[i])
  BY DEF SwitchInv, Reviews
<1>6. UNCHANGED <<hour, ledger, holding, policy, thesis, quote, verdict, case, order, gain>>
  BY <1>2 DEF Switch!user, Switch!life
<1>7. /\ \E T : review' \in Seq(T)
      /\ DOMAIN review \subseteq DOMAIN review' /\ \A i \in DOMAIN review' : Reviewed(review'[i])
  <2>1. CASE review' = review
    BY <1>4, <1>5, <2>1
  <2>2. CASE review' = Append(review, r)
    <3>1. review \in Seq(S \cup {r}) /\ r \in S \cup {r}
      BY <1>4
    <3>2. /\ Append(review, r) \in Seq(S \cup {r})
          /\ DOMAIN Append(review, r) = 1 .. Len(review) + 1 /\ DOMAIN review = 1 .. Len(review)
          /\ Len(review) \in Nat /\ \A i \in DOMAIN review : Append(review, r)[i] = review[i]
          /\ Append(review, r)[Len(review) + 1] = r
      BY <3>1, Appending
    <3>3. ASSUME NEW i \in 1 .. Len(review) + 1 PROVE Reviewed(review'[i])
      <4>1. i \in 1 .. Len(review) \/ i = Len(review) + 1
        BY <3>2
      <4> QED
        BY <1>3, <1>5, <2>2, <3>2, <4>1
    <3> QED
      BY <2>2, <3>2, <3>3
  <2> QED
    BY <1>2, <2>1, <2>2 DEF Switch!Save
<1>8. Reviews'
  BY <1>7 DEF Reviews, Reviewed
<1>9. request' \in [Requests -> Served] /\ \A p \in Requests : Read(request[p])'
  BY <1>2, <1>6, <1>7, RequestEnds
<1>10. Evidence'
  BY <1>6, <1>7 DEF SwitchInv, Evidence, Verdict, FitsAs, Switch!Fits
<1>11. UserTypes' /\ CaseTypes'
  BY <1>6, <1>9 DEF SwitchInv, UserTypes, CaseTypes
<1>12. Offered' /\ Accounted'
  BY <1>6 DEF SwitchInv, Offered, Accounted, FitsAs, Switch!Fits, Switch!Spent, Switch!Residual,
     Switch!Gross
<1> QED
  BY <1>8, <1>9, <1>10, <1>11, <1>12 DEF SwitchInv

\* AppendQuote
LEMMA QuoteStep ==
  ASSUME SwitchInv, NEW q \in Requests, NEW at \in 0 .. MaxHour, NEW gross \in Amounts,
         NEW fee \in Fees, NEW amount \in Amounts, NEW entry \in Fees, NEW available \in BOOLEAN,
         Switch!AppendQuote(q, at, gross, fee, amount, entry, available)
  PROVE  SwitchInv'
<1>1. PICK n : n = [review |-> request[q].of, at |-> at, gross |-> gross, fee |-> fee,
                    amount |-> amount, entry |-> entry, available |-> available]
  OBVIOUS
<1>2. request[q].op = "quote" /\ amount <= gross - fee + Tolerance
  BY DEF Switch!AppendQuote
<1>3. quote' = Append(quote, n)
  BY <1>1 DEF Switch!AppendQuote, Switch!AddQuote
<1>13. Switch!Done(q) /\ UNCHANGED <<hour, Switch!user, review, verdict, Switch!life>>
  BY DEF Switch!AppendQuote
<1>4. UNCHANGED <<hour, ledger, holding, policy, thesis, review, verdict, case, order, gain>>
  BY <1>13 DEF Switch!user, Switch!life
<1>5. request[q] \in Served /\ Read(request[q]) /\ quote \in Seq(Quoted)
  BY DEF SwitchInv, CaseTypes
<1>6. request[q].of \in DOMAIN review /\ request[q].of \in Nat
  BY <1>2, <1>5 DEF Read, Served
<1>7. gross \in Nat /\ fee \in Nat /\ amount \in Nat /\ entry \in Nat
  BY SwitchBounds
<1>8. n \in Quoted /\ n.review \in DOMAIN review /\ n.amount + n.fee <= n.gross + Tolerance
  BY <1>1, <1>2, <1>6, <1>7, SwitchBounds DEF Quoted
<1>9. /\ quote' \in Seq(Quoted) /\ Len(quote) \in Nat
      /\ DOMAIN quote' = 1 .. Len(quote) + 1 /\ DOMAIN quote = 1 .. Len(quote)
      /\ \A i \in DOMAIN quote : quote'[i] = quote[i]
      /\ quote'[Len(quote) + 1] = n
  BY <1>3, <1>5, <1>8, Appending
<1>10. request' \in [Requests -> Served] /\ \A p \in Requests : Read(request[p])'
  BY <1>4, <1>9, <1>13, RequestEnds
<1>11. Evidence'
  <2>1. ASSUME NEW i \in DOMAIN quote'
        PROVE  /\ quote'[i].review \in DOMAIN review
               /\ quote'[i].amount + quote'[i].fee <= quote'[i].gross + Tolerance
    <3>1. i \in DOMAIN quote \/ i = Len(quote) + 1
      BY <1>9
    <3> QED
      BY <1>8, <1>9, <3>1 DEF SwitchInv, Evidence
  <2>2. ASSUME NEW v \in DOMAIN verdict PROVE Verdict(verdict[v])'
    <3>1. Verdict(verdict[v])
      BY DEF SwitchInv, Evidence
    <3>2. quote'[verdict[v].quote] = quote[verdict[v].quote] /\ verdict[v].quote \in DOMAIN quote'
      BY <1>9, <3>1 DEF Verdict
    <3> QED
      BY <1>4, <3>1, <3>2 DEF Verdict, FitsAs, Switch!Fits
  <2> QED
    BY <1>4, <2>1, <2>2 DEF Evidence
<1>12. UserTypes' /\ CaseTypes'
  BY <1>4, <1>9, <1>10 DEF SwitchInv, UserTypes, CaseTypes
<1>14. Offered' /\ Accounted' /\ Reviews'
  BY <1>4 DEF SwitchInv, Offered, Accounted, FitsAs, Switch!Fits, Switch!Spent, Switch!Residual,
     Switch!Gross, Reviews, Reviewed
<1> QED
  BY <1>10, <1>11, <1>12, <1>14 DEF SwitchInv

\* AppendVerdict
LEMMA VerdictStep ==
  ASSUME SwitchInv, NEW q \in Requests, NEW market \in BOOLEAN, NEW disclosed \in BOOLEAN,
         Switch!AppendVerdict(q, market, disclosed)
  PROVE  SwitchInv'
<1>1. PICK r : r = request[q]
  OBVIOUS
<1>2. PICK s : s = Switch!VerdictStatus(r.of, r.held, r.policy, r.thesis, market, disclosed)
  OBVIOUS
<1>3. PICK n : n = [quote |-> r.of, rev |-> r.held.rev, policy |-> r.policy.version,
                    thesis |-> r.thesis, status |-> s]
  OBVIOUS
<1>4. r.op = "verdict" /\ verdict' = Append(verdict, n)
  BY <1>1, <1>2, <1>3 DEF Switch!AppendVerdict
<1>5. Switch!Done(q) /\ UNCHANGED <<hour, Switch!user, review, quote, Switch!life>>
  BY DEF Switch!AppendVerdict
<1>6. UNCHANGED <<hour, ledger, holding, policy, thesis, review, quote, case, order, gain>>
  BY <1>5 DEF Switch!user, Switch!life
<1>7. r \in Served /\ Read(r) /\ verdict \in Seq(Judged)
  BY <1>1 DEF SwitchInv, CaseTypes
<1>8. r.of \in Nat /\ r.held \in Held /\ r.policy \in Chosen /\ r.thesis \in Nat
  BY <1>7 DEF Served
<1>9. s \in Switch!Statuses
  BY <1>2 DEF Switch!VerdictStatus, Switch!Statuses
<1>10. s = "ready_for_redemption_review" =>
        /\ r.thesis # 0
        /\ Switch!Fits(r.held, quote[r.of].amount - quote[r.of].entry, r.policy.cap)
  BY <1>2 DEF Switch!VerdictStatus
<1>11. n \in Judged
  BY <1>3, <1>8, <1>9 DEF Judged, Held, Chosen
<1>12. Verdict(n)
  <2>1. r.of \in DOMAIN quote
    BY <1>4, <1>7 DEF Read
  <2> QED
    BY <1>3, <1>7, <1>8, <1>10, <2>1 DEF Verdict, Read, FitsAs
<1>13. /\ verdict' \in Seq(Judged) /\ Len(verdict) \in Nat
       /\ DOMAIN verdict' = 1 .. Len(verdict) + 1 /\ DOMAIN verdict = 1 .. Len(verdict)
       /\ \A i \in DOMAIN verdict : verdict'[i] = verdict[i]
       /\ verdict'[Len(verdict) + 1] = n
  BY <1>4, <1>7, <1>11, Appending
<1>14. request' \in [Requests -> Served] /\ \A p \in Requests : Read(request[p])'
  BY <1>5, <1>6, RequestEnds
<1>15. Evidence'
  <2>1. ASSUME NEW v \in DOMAIN verdict' PROVE Verdict(verdict'[v])
    <3>1. v \in DOMAIN verdict \/ v = Len(verdict) + 1
      BY <1>13
    <3> QED
      BY <1>12, <1>13, <3>1 DEF SwitchInv, Evidence
  <2> QED
    BY <1>6, <2>1 DEF SwitchInv, Evidence, Verdict, FitsAs, Switch!Fits
<1>16. UserTypes' /\ CaseTypes'
  BY <1>6, <1>13, <1>14 DEF SwitchInv, UserTypes, CaseTypes
<1>17. Offered' /\ Accounted' /\ Reviews'
  BY <1>6 DEF SwitchInv, Offered, Accounted, FitsAs, Switch!Fits, Switch!Spent, Switch!Residual,
     Switch!Gross, Reviews, Reviewed
<1> QED
  BY <1>14, <1>15, <1>16, <1>17 DEF SwitchInv

\* What a request reads is what there is, and what it goes on to is of that.
LEMMA ReadingStep ==
  ASSUME SwitchInv, NEW q \in Requests,
         \/ Switch!Begin(q, "cost", 0) \/ Switch!Begin(q, "review", 0) \/ Switch!Begin(q, "offer", 0)
         \/ \E i \in DOMAIN review : Switch!BeginQuote(q, i)
         \/ Switch!ReadQuote(q) \/ Switch!ReadPolicy(q) \/ Switch!ReadThesis(q) \/ Switch!Refuse(q)
  PROVE  SwitchInv'
<1>1. PICK r : r = request[q]
  OBVIOUS
<1>2. /\ request \in [Requests -> Served] /\ r \in Served /\ Read(r)
      /\ holding \in Held /\ policy \in Chosen /\ thesis \in Nat /\ hour \in 0 .. MaxHour
  BY <1>1, SwitchBounds DEF SwitchInv, CaseTypes, UserTypes
<1>3. holding.rev \in Nat /\ policy.version \in Nat
  BY <1>2 DEF Held, Chosen
<1>4. DOMAIN review = 1 .. Len(review) /\ DOMAIN quote = 1 .. Len(quote) /\ Len(quote) \in Nat
      /\ Len(review) \in Nat
  BY DEF SwitchInv, Reviews, CaseTypes
<1>5. ASSUME NEW op \in Switch!Ops, NEW i \in Nat, Switch!Begin(q, op, i),
             op = "quote" => i \in DOMAIN review, op \notin {"quoted", "thesis", "verdict"}
      PROVE  SwitchInv'
  <2>1. PICK new : new = [Switch!Idle EXCEPT !.op = op, !.at = hour, !.held = holding, !.of = i]
    OBVIOUS
  <2>2. request' = [request EXCEPT ![q] = new]
        /\ UNCHANGED <<hour, Switch!user, Switch!evidence, Switch!life>>
    BY <1>5, <2>1 DEF Switch!Begin
  <2>3. PICK idle : idle = Switch!Idle
    OBVIOUS
  <2>4. idle \in Served /\ Read(idle) /\ new = [idle EXCEPT !.op = op, !.at = hour, !.held = holding, !.of = i]
    BY <2>1, <2>3, IdleReads
  <2>5. new \in Served /\ new.op = op /\ new.held = holding /\ new.of = i /\ new.policy = idle.policy
    BY <1>2, <2>4 DEF Served
  <2>6. Read(new)
    BY <1>2, <1>3, <1>5, <2>4, <2>5 DEF Read
  <2> QED
    BY <2>2, <2>5, <2>6, RequestGoes
<1>6. CASE Switch!Begin(q, "cost", 0) \/ Switch!Begin(q, "review", 0) \/ Switch!Begin(q, "offer", 0)
  BY <1>5, <1>6 DEF Switch!Ops
<1>7. ASSUME NEW i \in DOMAIN review, Switch!BeginQuote(q, i) PROVE SwitchInv'
  <2>1. i \in Nat /\ Switch!Begin(q, "quote", i) /\ "quote" \in Switch!Ops
    BY <1>4, <1>7 DEF Switch!BeginQuote, Switch!Ops
  <2> QED
    BY <1>5, <1>7, <2>1
<1>8. CASE Switch!ReadQuote(q)
  <2>1. PICK new : new = [r EXCEPT !.op = "quoted", !.of = Switch!Latest]
    OBVIOUS
  <2>2. request' = [request EXCEPT ![q].op = "quoted", ![q].of = Switch!Latest]
        /\ Switch!Latest > 0 /\ UNCHANGED <<hour, Switch!user, Switch!evidence, Switch!life>>
    BY <1>8 DEF Switch!ReadQuote
  <2>3. request' = [request EXCEPT ![q] = new]
    BY <1>1, <1>2, <2>1, <2>2
  <2>4. Switch!Latest \in Nat /\ Switch!Latest \in DOMAIN quote
    BY <1>4, <2>2 DEF Switch!Latest
  <2>5. new \in Served /\ new.op = "quoted" /\ new.of = Switch!Latest /\ new.held = r.held
        /\ new.policy = r.policy
    BY <1>2, <2>1, <2>4 DEF Served, Switch!Ops
  <2>6. Read(new)
    BY <1>2, <2>4, <2>5 DEF Read
  <2> QED
    BY <2>2, <2>3, <2>5, <2>6, RequestGoes
<1>9. ASSUME NEW op \in {"thesis", "order"}, op = "thesis" => r.op = "quoted",
             request' = [request EXCEPT ![q].op = op, ![q].policy = policy],
             UNCHANGED <<hour, Switch!user, Switch!evidence, Switch!life>>
      PROVE  SwitchInv'
  <2>1. PICK new : new = [r EXCEPT !.op = op, !.policy = policy]
    OBVIOUS
  <2>3. request' = [request EXCEPT ![q] = new]
    BY <1>1, <1>2, <1>9, <2>1
  <2>5. new \in Served /\ new.op = op /\ new.of = r.of /\ new.held = r.held /\ new.policy = policy
    BY <1>2, <2>1 DEF Served, Switch!Ops
  <2>6. Read(new)
    BY <1>2, <1>3, <1>9, <2>5 DEF Read
  <2> QED
    BY <1>9, <2>3, <2>5, <2>6, RequestGoes
<1>10. CASE Switch!ReadPolicy(q)
  BY <1>1, <1>9, <1>10 DEF Switch!ReadPolicy
<1>11. CASE Switch!ReadThesis(q)
  <2>1. PICK new : new = [r EXCEPT !.op = "verdict", !.thesis = thesis]
    OBVIOUS
  <2>2. request' = [request EXCEPT ![q].op = "verdict", ![q].thesis = thesis]
        /\ r.op = "thesis" /\ UNCHANGED <<hour, Switch!user, Switch!evidence, Switch!life>>
    BY <1>1, <1>11 DEF Switch!ReadThesis
  <2>3. request' = [request EXCEPT ![q] = new]
    BY <1>1, <1>2, <2>1, <2>2
  <2>5. new \in Served /\ new.op = "verdict" /\ new.of = r.of /\ new.held = r.held
        /\ new.policy = r.policy
    BY <1>2, <2>1 DEF Served, Switch!Ops
  <2>6. Read(new)
    BY <1>2, <2>2, <2>5 DEF Read
  <2> QED
    BY <2>2, <2>3, <2>5, <2>6, RequestGoes
<1>12. CASE Switch!Refuse(q)
  <2>1. request' = [request EXCEPT ![q] = Switch!Idle]
        /\ UNCHANGED <<hour, Switch!user, Switch!evidence, Switch!life>>
    BY <1>12 DEF Switch!Refuse
  <2> QED
    BY <2>1, IdleReads, RequestGoes
<1> QED
  BY <1>6, <1>7, <1>8, <1>10, <1>11, <1>12

\* The case goes on, and what is held, quoted and reviewed is left alone.
LEMMA CaseGoes ==
  ASSUME SwitchInv, case' \in Money, order' \in Offer,
         gain' \in [known : BOOLEAN, old : Nat, new : Nat, incremental : Int],
         Offered', Accounted', UNCHANGED <<hour, Switch!user, Switch!evidence, request>>
  PROVE  SwitchInv'
<1>1. UNCHANGED <<hour, ledger, holding, policy, thesis, review, quote, verdict, request>>
  BY DEF Switch!user, Switch!evidence
<1>2. UserTypes' /\ CaseTypes'
  BY <1>1 DEF SwitchInv, UserTypes, CaseTypes
<1>3. Reviews' /\ Evidence'
  BY <1>1 DEF SwitchInv, Reviews, Reviewed, Evidence, Verdict, FitsAs, Switch!Fits
<1>4. \A q \in Requests : Read(request[q])'
  BY <1>1 DEF SwitchInv, Read
<1> QED
  BY <1>2, <1>3, <1>4 DEF SwitchInv

\* Shares at a price, to the yuan
LEMMA GrossIs == ASSUME NEW t \in Trade PROVE Switch!Gross(t) \in Nat /\ t.fee \in Nat
  BY DEF Switch!Gross, Trade

\* Settle
LEMMA SettleStep ==
  ASSUME SwitchInv, NEW v, NEW received \in Amounts, NEW at, Switch!Settle(v, received, at)
  PROVE  SwitchInv'
<1>1. PICK c : c = [stage |-> "settled", sale |-> ledger.sale, received |-> received,
                    buy |-> Switch!NoTrade]
  OBVIOUS
<1>2. /\ case.stage = "none" /\ case' = c /\ received > 0
      /\ received <= Switch!Gross(ledger.sale) - ledger.sale.fee + Tolerance
      /\ received >= Switch!Gross(ledger.sale) - ledger.sale.fee - Tolerance
      /\ UNCHANGED <<hour, Switch!user, Switch!evidence, order, gain, request>>
  BY <1>1 DEF Switch!Settle
<1>3. ledger.sale \in Trade /\ order \in Offer /\ Offered /\ Accounted /\ case \in Money
      /\ gain \in [known : BOOLEAN, old : Nat, new : Nat, incremental : Int]
  BY DEF SwitchInv, UserTypes, CaseTypes
<1>4. c \in Money
  BY <1>1, <1>3, SwitchBounds DEF Money, Trade, Switch!NoTrade
<1>5. UNCHANGED <<holding, policy, ledger>>
  BY <1>2 DEF Switch!user
<1>6. Accounted'
  <2>1. ~gain.known
    BY <1>2, <1>3 DEF Accounted
  <2>2. c.stage = "settled" /\ c.received = received /\ c.sale = ledger.sale
    BY <1>1
  <2> QED
    BY <1>2, <2>1, <2>2 DEF Accounted, Switch!Gross
<1>7. Offered'
  <2>1. order.amount <= received + Tolerance /\ received = case'.received
    <3>1. order.amount \in Nat /\ received \in Nat /\ case.received \in Nat
      BY <1>3, SwitchBounds DEF Offer, Money
    <3>2. order.amount <= case.received + Tolerance
      BY <1>3 DEF Offered
    <3>3. case.received = 0 \/ case.received <= received
      BY <1>2, <1>3 DEF Accounted
    <3> QED
      BY <1>1, <1>2, <3>1, <3>2, <3>3, SwitchBounds
  <2> QED
    BY <1>2, <1>3, <1>5, <2>1 DEF Offered, FitsAs, Switch!Fits
<1> QED
  BY <1>2, <1>3, <1>4, <1>6, <1>7, CaseGoes

\* AppendOrder
LEMMA OrderStep ==
  ASSUME SwitchInv, NEW q \in Requests, NEW at \in 0 .. MaxHour, NEW amount \in Amounts,
         NEW entry \in Fees, NEW available \in BOOLEAN, NEW market \in BOOLEAN,
         NEW disclosed \in BOOLEAN,
         Switch!AppendOrder(q, at, amount, entry, available, market, disclosed)
  PROVE  SwitchInv'
<1>1. PICK r : r = request[q]
  OBVIOUS
<1>2. PICK ready \in BOOLEAN :
        ready = (/\ available /\ r.policy.configured /\ market /\ disclosed
                 /\ Switch!Fits(r.held, amount - entry, r.policy.cap))
  OBVIOUS
<1>3. PICK o : o = [ready |-> ready, at |-> at, amount |-> amount, entry |-> entry,
                    rev |-> r.held.rev, policy |-> r.policy.version]
  OBVIOUS
<1>4. order' = o
  BY <1>1, <1>2, <1>3 DEF Switch!AppendOrder
<1>5. amount <= case.received + Tolerance /\ Switch!Done(q)
      /\ UNCHANGED <<hour, Switch!user, Switch!evidence, case, gain>>
  BY DEF Switch!AppendOrder
<1>6. UNCHANGED <<hour, ledger, holding, policy, thesis, review, quote, verdict, case, gain>>
  BY <1>5 DEF Switch!user, Switch!evidence
<1>7. r \in Served /\ Read(r) /\ case \in Money
  BY <1>1 DEF SwitchInv, CaseTypes
<1>8. r.held \in Held /\ r.policy \in Chosen
  BY <1>7 DEF Served
<1>9. o \in Offer
  <2>1. r.held.rev \in Nat /\ r.policy.version \in Nat /\ amount \in Nat /\ entry \in Nat
    BY <1>8, SwitchBounds DEF Held, Chosen
  <2> QED
    BY <1>3, <2>1 DEF Offer
<1>10. o.ready = ready /\ o.rev = r.held.rev /\ o.policy = r.policy.version /\ o.amount = amount
       /\ o.entry = entry
  BY <1>3
<1>11. ready => Switch!Fits(r.held, amount - entry, r.policy.cap)
  BY <1>2
<1>12. ready => FitsAs(r.held.rev, r.policy.version, amount - entry)
  BY <1>7, <1>11 DEF Read, FitsAs
<1>13. Offered'
  <2>1. o.rev <= holding.rev /\ o.policy <= policy.version /\ o.amount <= case.received + Tolerance
    BY <1>5, <1>7, <1>10 DEF Read
  <2>2. o.ready => FitsAs(o.rev, o.policy, o.amount - o.entry)
    BY <1>10, <1>12
  <2> QED
    BY <1>4, <1>6, <2>1, <2>2 DEF Offered, FitsAs, Switch!Fits
<1>14. request' \in [Requests -> Served] /\ \A p \in Requests : Read(request[p])'
  BY <1>5, <1>6, RequestEnds
<1>15. UserTypes' /\ CaseTypes'
  BY <1>4, <1>6, <1>9, <1>14 DEF SwitchInv, UserTypes, CaseTypes
<1>16. Reviews' /\ Evidence' /\ Accounted'
  BY <1>6 DEF SwitchInv, Reviews, Reviewed, Evidence, Verdict, FitsAs, Switch!Fits, Accounted,
     Switch!Spent, Switch!Residual, Switch!Gross
<1> QED
  BY <1>13, <1>14, <1>15, <1>16 DEF SwitchInv

\* Buy
LEMMA BuyStep ==
  ASSUME SwitchInv, NEW shares \in Nat, NEW price \in Prices, NEW fee \in Fees, NEW at,
         Switch!Buy(shares, price, fee, at)
  PROVE  SwitchInv'
<1>1. PICK t : t = [on |-> Switch!Day(hour), shares |-> shares, price |-> price, fee |-> fee]
  OBVIOUS
<1>2. /\ case.stage = "settled" /\ shares * price + fee <= case.received + Tolerance
      /\ case' = [case EXCEPT !.stage = "bought", !.buy = t]
      /\ UNCHANGED <<hour, Switch!user, Switch!evidence, order, gain, request>>
  BY <1>1 DEF Switch!Buy, Switch!OrderStands
<1>3. hour \in 0 .. MaxHour /\ order \in Offer /\ Offered /\ Accounted /\ case \in Money
      /\ gain \in [known : BOOLEAN, old : Nat, new : Nat, incremental : Int]
  BY DEF SwitchInv, UserTypes, CaseTypes
<1>4. t \in Trade
  BY <1>1, <1>3, SwitchBounds, Dated DEF Trade
<1>5. /\ case' \in Money /\ case'.stage = "bought" /\ case'.buy = t /\ case'.sale = case.sale
      /\ case'.received = case.received
  BY <1>2, <1>3, <1>4 DEF Money
<1>6. UNCHANGED <<holding, policy>>
  BY <1>2 DEF Switch!user
<1>7. Offered'
  BY <1>2, <1>3, <1>5, <1>6 DEF Offered, FitsAs, Switch!Fits
<1>8. Accounted'
  <2>1. ~gain.known
    BY <1>2, <1>3 DEF Accounted
  <2>2. Switch!Spent' <= case.received + Tolerance
    BY <1>1, <1>2, <1>5 DEF Switch!Spent, Switch!Gross
  <2>3. /\ case.received <= Switch!Gross(case.sale) - case.sale.fee + Tolerance
        /\ case.received >= Switch!Gross(case.sale) - case.sale.fee - Tolerance
    BY <1>2, <1>3 DEF Accounted
  <2>4. Switch!Gross(case.sale)' = Switch!Gross(case.sale)
    BY <1>5 DEF Switch!Gross
  <2> QED
    BY <1>2, <1>5, <2>1, <2>2, <2>3, <2>4 DEF Accounted
<1> QED
  BY <1>2, <1>3, <1>5, <1>7, <1>8, CaseGoes

\* Reconcile, and Attribute
LEMMA ClosingStep ==
  ASSUME SwitchInv,
         \/ Switch!Reconcile
         \/ \E old \in Prices, new \in Prices, clean \in BOOLEAN : Switch!Attribute(old, new, clean)
  PROVE  SwitchInv'
<1>1. /\ order \in Offer /\ Offered /\ Accounted /\ case \in Money
      /\ gain \in [known : BOOLEAN, old : Nat, new : Nat, incremental : Int]
  BY DEF SwitchInv, CaseTypes
<1>2. CASE Switch!Reconcile
  <2>1. /\ case.stage = "bought" /\ case' = [case EXCEPT !.stage = "reconciled"]
        /\ UNCHANGED <<hour, Switch!user, Switch!evidence, order, gain, request>>
    BY <1>2 DEF Switch!Reconcile
  <2>2. UNCHANGED <<holding, policy>>
    BY <2>1 DEF Switch!user
  <2>3. /\ case' \in Money /\ case'.stage = "reconciled" /\ case'.buy = case.buy
        /\ case'.sale = case.sale /\ case'.received = case.received
    BY <1>1, <2>1 DEF Money
  <2>4. Offered'
    BY <1>1, <2>1, <2>2, <2>3 DEF Offered, FitsAs, Switch!Fits
  <2>5. Accounted'
    <3>1. ~gain.known
      BY <1>1, <2>1 DEF Accounted
    <3> QED
      BY <1>1, <2>1, <2>3, <3>1 DEF Accounted, Switch!Spent, Switch!Gross
  <2> QED
    BY <1>1, <2>1, <2>3, <2>4, <2>5, CaseGoes
<1>3. ASSUME NEW old \in Prices, NEW new \in Prices, NEW clean \in BOOLEAN,
             Switch!Attribute(old, new, clean)
      PROVE  SwitchInv'
  <2>1. /\ case.stage = "reconciled"
        /\ UNCHANGED <<hour, Switch!user, Switch!evidence, case, order, request>>
    BY <1>3 DEF Switch!Attribute
  <2>2. UNCHANGED <<holding, policy>>
    BY <2>1 DEF Switch!user
  <2>3. PICK sum : sum = case.buy.shares * new + Switch!Residual - case.sale.shares * old
    OBVIOUS
  <2>4. gain' = Switch!NoGain
        \/ gain' = [known |-> TRUE, old |-> old, new |-> new, incremental |-> sum]
    BY <1>3, <2>3 DEF Switch!Attribute
  <2>5. sum \in Int
    <3>1. case.buy \in Trade /\ case.sale \in Trade /\ case.received \in Nat
      BY <1>1 DEF Money
    <3>2. Switch!Spent \in Nat
      BY <3>1, GrossIs DEF Switch!Spent
    <3>3. Switch!Residual \in Nat
      BY <3>1, <3>2 DEF Switch!Residual
    <3>4. case.buy.shares \in Nat /\ case.sale.shares \in Nat /\ new \in Nat /\ old \in Nat
      BY <3>1, SwitchBounds DEF Trade
    <3>5. case.buy.shares * new \in Int /\ case.sale.shares * old \in Int
      BY <3>4
    <3> QED
      BY <2>3, <3>3, <3>5
  <2>6. gain' \in [known : BOOLEAN, old : Nat, new : Nat, incremental : Int]
    <3>1. Switch!NoGain \in [known : BOOLEAN, old : Nat, new : Nat, incremental : Int]
      BY DEF Switch!NoGain
    <3>2. old \in Nat /\ new \in Nat
      BY SwitchBounds
    <3>3. [known |-> TRUE, old |-> old, new |-> new, incremental |-> sum]
            \in [known : BOOLEAN, old : Nat, new : Nat, incremental : Int]
      BY <2>5, <3>2
    <3> QED
      BY <2>4, <3>1, <3>3
  <2>7. Offered'
    BY <1>1, <2>1, <2>2 DEF Offered, FitsAs, Switch!Fits
  <2>8. Accounted'
    <3>1. UNCHANGED <<Switch!Spent, Switch!Residual>>
      BY <2>1 DEF Switch!Spent, Switch!Residual, Switch!Gross
    <3>2. gain'.known => gain'.old = old /\ gain'.new = new /\ gain'.incremental = sum
      BY <2>4 DEF Switch!NoGain
    <3> QED
      BY <1>1, <2>1, <2>3, <3>1, <3>2 DEF Accounted, Switch!Gross
  <2> QED
    BY <1>1, <2>1, <2>6, <2>7, <2>8, CaseGoes
<1> QED
  BY <1>2, <1>3

\* Every step of the switches keeps the invariant,
LEMMA SwitchStep == SwitchInv /\ [Switch!Next]_(Switch!vars) => SwitchInv'
<1> SUFFICES ASSUME SwitchInv, [Switch!Next]_(Switch!vars) PROVE SwitchInv'
  OBVIOUS
<1>1. CASE UNCHANGED Switch!vars
  <2>1. /\ UNCHANGED Switch!evidence /\ UNCHANGED Switch!life /\ UNCHANGED request
        /\ UNCHANGED <<hour, ledger, holding, policy, thesis>>
    BY <1>1 DEF Switch!vars, Switch!evidence, Switch!life
  <2>2. UserTypes'
    BY <2>1 DEF SwitchInv, UserTypes
  <2> QED
    BY <2>1, <2>2, UserGoes
<1>2. CASE Switch!Users \/ Switch!Tick
  BY <1>2, UsersStep
<1>3. CASE Switch!Switching
  <2>1. 1 .. Switch!Cardinality(Switch!Lots) \subseteq Nat
    OBVIOUS
  <2> QED
    BY <1>3, <2>1, SettleStep, OrderStep, BuyStep, ClosingStep, ReadingStep DEF Switch!Switching
<1>4. ASSUME NEW q \in Requests, Switch!Reviewing(q) PROVE SwitchInv'
  BY <1>4, ReadingStep, ReviewStep, QuoteStep, VerdictStep DEF Switch!Reviewing
<1> QED
  BY <1>1, <1>2, <1>3, <1>4 DEF Switch!Next

\* from which the types follow,
LEMMA SwitchTyped == SwitchInv => Switch!TypeOK
<1> SUFFICES ASSUME SwitchInv PROVE Switch!TypeOK
  OBVIOUS
<1>1. UserTypes /\ CaseTypes /\ Evidence
  BY DEF SwitchInv
<1>5. /\ quote \in Seq(Quoted) /\ \A i \in DOMAIN quote : quote[i] \in Quoted
      /\ verdict \in Seq(Judged) /\ \A v \in DOMAIN verdict : verdict[v] \in Judged
  BY <1>1 DEF CaseTypes
<1>2. \A i \in DOMAIN quote : quote[i].review \in DOMAIN review /\ quote[i].at \in 0 .. MaxHour
  BY <1>1, <1>5 DEF Evidence, Quoted
<1>3. \A v \in DOMAIN verdict :
        verdict[v].quote \in DOMAIN quote /\ verdict[v].status \in Switch!Statuses
  BY <1>1, <1>5 DEF Evidence, Verdict, Judged
<1>4. \A q \in Requests : request[q].op \in Switch!Ops /\ request[q].at \in 0 .. MaxHour
  BY <1>1 DEF CaseTypes, Served
<1> QED
  BY <1>1, <1>2, <1>3, <1>4 DEF UserTypes, CaseTypes, Money, Switch!TypeOK

\* and that what is shown as ready is of now.
LEMMA SwitchShown ==
  SwitchInv => Switch!ReviewsAreOfNow /\ Switch!OrdersAreOfNow /\ Switch!MoneyAddsUp
<1> SUFFICES ASSUME SwitchInv
             PROVE  Switch!ReviewsAreOfNow /\ Switch!OrdersAreOfNow /\ Switch!MoneyAddsUp
  OBVIOUS
<1>1. UserTypes /\ CaseTypes /\ Reviews /\ Evidence /\ Offered /\ Accounted
  BY DEF SwitchInv
<1>2. ASSUME NEW v \in DOMAIN verdict, Switch!ReadyNow(v)
      PROVE  LET q == quote[verdict[v].quote] IN
             /\ Switch!Cardinality(Switch!Left) = holding.shares /\ Switch!Left # {}
             /\ Switch!Left \cap Openings = {} /\ q.amount + q.fee <= q.gross + Tolerance
             /\ thesis > 0 /\ Switch!Fits(holding, q.amount - q.entry, policy.cap)
  <2>1. /\ verdict[v].status = "ready_for_redemption_review" /\ verdict[v].quote = Switch!Latest
        /\ Switch!QuoteStatus(Switch!Latest, hour) = "confirmed_current"
        /\ verdict[v].policy = policy.version /\ verdict[v].thesis = thesis
        /\ verdict[v].rev = holding.rev
    BY <1>2 DEF Switch!ReadyNow, Switch!Binds
  <2>2. PICK q : q = quote[verdict[v].quote]
    OBVIOUS
  <2>3. Verdict(verdict[v]) /\ verdict[v].quote \in DOMAIN quote
    BY <1>1 DEF Evidence, Verdict
  <2>4. q.review \in DOMAIN review /\ q.amount + q.fee <= q.gross + Tolerance
    BY <1>1, <2>2, <2>3 DEF Evidence
  <2>5. Switch!Bound(q.review)
    BY <2>1, <2>2 DEF Switch!QuoteStatus
  <2>6. Reviewed(review[q.review])
    BY <1>1, <2>4 DEF Reviews
  <2>7. /\ Switch!Cardinality(Switch!Left) = holding.shares /\ Switch!Left # {}
        /\ Switch!Left \cap Openings = {}
    BY <2>5, <2>6 DEF Reviewed, Switch!Bound
  <2>8. thesis > 0 /\ Switch!Fits(holding, q.amount - q.entry, policy.cap)
    BY <2>1, <2>2, <2>3 DEF Verdict, FitsAs
  <2> QED
    BY <2>2, <2>4, <2>7, <2>8
<1>3. Switch!ReviewsAreOfNow
  BY <1>2 DEF Switch!ReviewsAreOfNow
<1>4. Switch!OrdersAreOfNow
  BY <1>1 DEF Switch!OrdersAreOfNow, Switch!OrderStands, Offered, FitsAs
<1>5. case.buy \in Trade /\ case.sale \in Trade /\ case.received \in Nat
  BY <1>1 DEF CaseTypes, Money
<1>6. PICK a, b, s, t, fs, fb, on, nn, rec :
        /\ a = case.buy.shares /\ b = case.buy.price /\ s = case.sale.shares /\ t = case.sale.price
        /\ fs = case.sale.fee /\ fb = case.buy.fee /\ on = gain.old /\ nn = gain.new
        /\ rec = case.received
  OBVIOUS
<1>7. a \in Nat /\ b \in Nat /\ s \in Nat /\ t \in Nat /\ fs \in Nat /\ fb \in Nat /\ rec \in Nat
      /\ Tolerance \in Nat
  BY <1>5, <1>6, SwitchBounds DEF Trade
<1>8. Switch!Gross(case.sale) = s * t /\ Switch!Gross(case.buy) = a * b /\ Switch!Spent = a * b + fb
  BY <1>6 DEF Switch!Gross, Switch!Spent
<1>9. s * t \in Nat /\ a * b \in Nat
  BY <1>7
<1>10. case.stage # "none" => rec <= s * t - fs + Tolerance /\ rec >= s * t - fs - Tolerance
  BY <1>1, <1>6, <1>8 DEF Accounted
<1>11. case.stage \in {"bought", "reconciled"} => a * b + fb <= rec + Tolerance
  BY <1>1, <1>6, <1>8 DEF Accounted
<1>12. case.stage \in {"bought", "reconciled"} => a * b + fb <= s * t - fs + 2 * Tolerance
  BY <1>7, <1>9, <1>10, <1>11
<1>13. ASSUME gain.known
       PROVE  LET expected == case.buy.shares * (gain.new - case.buy.price)
                              - case.sale.shares * (gain.old - case.sale.price)
                              - case.sale.fee - case.buy.fee
              IN /\ gain.incremental <= expected + 2 * Tolerance
                 /\ gain.incremental >= expected - 2 * Tolerance
  <2>1. gain \in [known : BOOLEAN, old : Nat, new : Nat, incremental : Int]
    BY <1>1 DEF CaseTypes
  <2>2. on \in Nat /\ nn \in Nat
    BY <1>6, <2>1
  <2>3. case.stage = "reconciled" /\ gain.incremental = a * nn + Switch!Residual - s * on
    BY <1>1, <1>6, <1>13 DEF Accounted
  <2>4. PICK res : res = Switch!Residual
    OBVIOUS
  <2>5. res = IF a * b + fb > rec THEN 0 ELSE rec - (a * b + fb)
    BY <1>6, <1>8, <2>4 DEF Switch!Residual
  <2>6. a * (nn - b) = a * nn - a * b /\ s * (on - t) = s * on - s * t
    BY <1>7, <2>2
  <2>7. a * nn \in Int /\ s * on \in Int
    BY <1>7, <2>2
  <2>8. PICK ab, st, an, so : ab = a * b /\ st = s * t /\ an = a * nn /\ so = s * on
    OBVIOUS
  <2>9. ab \in Int /\ st \in Int /\ an \in Int /\ so \in Int
    BY <1>9, <2>7, <2>8
  <2>10. /\ rec <= st - fs + Tolerance /\ rec >= st - fs - Tolerance /\ ab + fb <= rec + Tolerance
         /\ res = IF ab + fb > rec THEN 0 ELSE rec - (ab + fb)
    BY <1>10, <1>11, <2>3, <2>5, <2>8
  <2>11. res <= rec - ab - fb + Tolerance /\ res >= rec - ab - fb /\ res \in Int
    BY <1>7, <2>9, <2>10
  <2>12. /\ an + res - so <= an - ab - (so - st) - fs - fb + 2 * Tolerance
         /\ an + res - so >= an - ab - (so - st) - fs - fb - 2 * Tolerance
    BY <1>7, <2>9, <2>10, <2>11
  <2>13. gain.incremental = an + res - so
    BY <2>3, <2>4, <2>8
  <2>14. /\ gain.incremental <= a * (nn - b) - s * (on - t) - fs - fb + 2 * Tolerance
         /\ gain.incremental >= a * (nn - b) - s * (on - t) - fs - fb - 2 * Tolerance
    BY <2>6, <2>8, <2>12, <2>13
  <2> QED
    BY <1>6, <2>14
<1>14. Switch!MoneyAddsUp
  BY <1>6, <1>8, <1>12, <1>13 DEF Switch!MoneyAddsUp
<1> QED
  BY <1>3, <1>4, <1>14

-----------------------------------------------------------------------------
(* All of them together.                                                    *)

ServicesInv ==
  /\ focus = "stocks" => StocksInv
  /\ focus = "baskets" => BasketsInv
  /\ focus = "lessons" => LessonsInv
  /\ focus = "switch" => SwitchInv

\* The component in focus starts in its invariant,
LEMMA ServicesStart == MCInit => ServicesInv
  BY StocksStart, BasketsStart, LessonsStart, SwitchStart DEF MCInit, ServicesInv

\* its steps keep it,
LEMMA ServicesStep == ServicesInv /\ [MCNext]_all => ServicesInv'
<1> SUFFICES ASSUME ServicesInv, [MCNext]_all PROVE ServicesInv'
  OBVIOUS
<1>1. CASE UNCHANGED all
  <2>1. UNCHANGED focus /\ UNCHANGED Stocks!vars /\ UNCHANGED Baskets!vars
        /\ UNCHANGED Lessons!vars /\ UNCHANGED Switch!vars
    BY <1>1 DEF all, stocksVars, basketsVars, lessonsVars, switchVars, Stocks!vars, Baskets!vars,
       Lessons!vars, Switch!vars
  <2> QED
    BY <2>1, StocksStep, BasketsStep, LessonsStep, SwitchStep DEF ServicesInv
<1>2. CASE OfStocks(Stocks!Next)
  BY <1>2, StocksStep DEF OfStocks, ServicesInv
<1>3. CASE OfBaskets(Baskets!Next)
  BY <1>3, BasketsStep DEF OfBaskets, ServicesInv
<1>4. CASE OfLessons(Lessons!Next)
  BY <1>4, LessonsStep DEF OfLessons, ServicesInv
<1>5. CASE OfSwitch(Switch!Next)
  <2>1. focus = "switch" /\ focus' = focus /\ Switch!Next
    BY <1>5 DEF OfSwitch
  <2> QED
    BY <2>1, SwitchStep DEF ServicesInv
<1> QED
  BY <1>1, <1>2, <1>3, <1>4, <1>5 DEF MCNext

\* Every variable of the component in focus has its type: no two baskets are of
\* one scan (create_paper_basket), and a basket is frozen early enough to mature.
THEOREM Typed == MCSpec => []TypesOK
<1>1. ServicesInv => TypesOK
  BY StocksTyped, BasketsTyped, LessonsShown, SwitchTyped DEF ServicesInv, TypesOK
<1> QED
  BY <1>1, ServicesStart, ServicesStep, PTL DEF MCSpec

\* An answer that is not called stale is younger than the two caches together
\* (get_hot_stocks, _attempt_provider), and a plan counts for a horizon only if the
\* purchases of its latest event are old enough (build_learning_scorecard); a
\* review or an offer that is shown as ready fits the holdings and the policy of now
\* (decorate_execution_review), and a switch is paid by what it sold.
THEOREM Shown == MCSpec => []ShownIsCurrent
<1>1. ServicesInv => ShownIsCurrent
  BY LessonsShown, SwitchShown DEF ServicesInv, StocksInv, ShownIsCurrent
<1> QED
  BY <1>1, ServicesStart, ServicesStep, PTL DEF MCSpec
=============================================================================
