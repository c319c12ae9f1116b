---------------------------- MODULE EnginesProofs ----------------------------
(***************************************************************************)
(* What TLAPS proves about MCEngines, for every value of its constants.    *)
(*                                                                         *)
(* Past and future: every label a fold learns from ends before the first   *)
(* day of the fold, because days are ranked and the chunks of ranks are    *)
(* consecutive (Ranks, Folding); the scores of a day are computed of what  *)
(* was known on it, operator by operator (ScoresAreTimely); and the rows   *)
(* of a window stay inside it (Trading).                                   *)
(*                                                                         *)
(* The gates: the marks of an incident follow the snapshots when these are *)
(* recorded in the order of their probes; the result of a run is written   *)
(* once, so that what a request has read of it stays (RunIs, Asks).        *)
(*                                                                         *)
(* The strategy: the row is where its audit chain leads, so that a row     *)
(* read earlier stands while the chain agrees with it (GovernanceInv).     *)
(*                                                                         *)
(* The simulation: what an order asked for is filled, cancelled, dust or   *)
(* still waits (Accounted), and cash pays what it buys with the commission *)
(* (AffordableIs).                                                         *)
(***************************************************************************)
EXTENDS MCEngines, FiniteSetTheorems, TLAPS

\* The constants, one by one
LEMMA Bounds ==
  /\ MaxAudit \in Nat /\ MaxAudit >= 1 /\ ChecksPassed \in BOOLEAN
  /\ Length \in Nat /\ Warmup \in Nat /\ Horizon \in Nat /\ Warmup < Length /\ Horizon >= 1
  /\ LastDate \in Nat /\ MinTrain \in Nat /\ Ahead \in Nat /\ Ahead >= 1
  /\ MaxFolds \in Nat /\ MaxFolds >= 1
  BY EngineAssumption

\* A finite set of numbers has a greatest.
LEMMA Greatest ==
  ASSUME NEW S \in SUBSET Int, IsFiniteSet(S), S # {}
  PROVE  \E x \in S : \A y \in S : x >= y
<1> DEFINE Above(x) == {y \in S : y > x}
<1>7. PICK T : T = {Above(x) : x \in S}
  OBVIOUS
<1>0. FiniteSubsetsOf(S) = SUBSET S
  BY FS_FiniteSubsetsOfFinite
<1>8. \A x : Above(x) \in SUBSET S
  OBVIOUS
<1>9. PICK a : a \in S
  OBVIOUS
<1>2. T \subseteq FiniteSubsetsOf(S) /\ Above(a) \in T
  BY <1>0, <1>7, <1>8, <1>9
<1>3. IsWellFoundedOn(StrictSubsetOrdering(S), FiniteSubsetsOf(S))
  BY FS_StrictSubsetOrderingWellFounded
<1>4. \E t \in T : \A u \in T : ~(<<u, t>> \in StrictSubsetOrdering(S))
  BY <1>2, <1>3, WFMin
<1>5. PICK x \in S : \A z \in S : ~(<<Above(z), Above(x)>> \in StrictSubsetOrdering(S))
  BY <1>4, <1>7
<1>6. ASSUME NEW z \in S, ~(x >= z) PROVE FALSE
  <2>1. z \in Int /\ x \in Int /\ z > x
    BY <1>6
  <2>2. \A y \in S : y > z => y > x
    BY <2>1
  <2>3. Above(z) \subseteq Above(x)
    BY <2>2
  <2>4. ~(z > z)
    BY <2>1
  <2>5. z \in Above(x) /\ z \notin Above(z)
    BY <2>1, <2>4
  <2>6. <<Above(z), Above(x)>> \in StrictSubsetOrdering(S)
    BY <2>3, <2>5 DEF StrictSubsetOrdering
  <2> QED
    BY <1>5, <2>6
<1> QED
  BY <1>6

\* and a least.
LEMMA Least ==
  ASSUME NEW S \in SUBSET Int, IsFiniteSet(S), S # {}
  PROVE  \E x \in S : \A y \in S : x <= y
<1> DEFINE Below(x) == {y \in S : y < x}
<1>7. PICK T : T = {Below(x) : x \in S}
  OBVIOUS
<1>0. FiniteSubsetsOf(S) = SUBSET S
  BY FS_FiniteSubsetsOfFinite
<1>8. \A x : Below(x) \in SUBSET S
  OBVIOUS
<1>9. PICK a : a \in S
  OBVIOUS
<1>2. T \subseteq FiniteSubsetsOf(S) /\ Below(a) \in T
  BY <1>0, <1>7, <1>8, <1>9
<1>3. IsWellFoundedOn(StrictSubsetOrdering(S), FiniteSubsetsOf(S))
  BY FS_StrictSubsetOrderingWellFounded
<1>4. \E t \in T : \A u \in T : ~(<<u, t>> \in StrictSubsetOrdering(S))
  BY <1>2, <1>3, WFMin
<1>5. PICK x \in S : \A z \in S : ~(<<Below(z), Below(x)>> \in StrictSubsetOrdering(S))
  BY <1>4, <1>7
<1>6. ASSUME NEW z \in S, ~(x <= z) PROVE FALSE
  <2>1. z \in Int /\ x \in Int /\ z < x
    BY <1>6
  <2>2. \A y \in S : y < z => y < x
    BY <2>1
  <2>3. Below(z) \subseteq Below(x)
    BY <2>2
  <2>4. ~(z < z)
    BY <2>1
  <2>5. z \in Below(x) /\ z \notin Below(z)
    BY <2>1, <2>4
  <2>6. <<Below(z), Below(x)>> \in StrictSubsetOrdering(S)
    BY <2>3, <2>5 DEF StrictSubsetOrdering
  <2> QED
    BY <1>5, <2>6
<1> QED
  BY <1>6


\* How many of S are up to e
Up(S, e) == {x \in S : x <= e}

\* Among the numbers of a finite set, each rank is had.
LEMMA Ranks ==
  ASSUME NEW S \in SUBSET Int, IsFiniteSet(S), NEW k \in Nat, k >= 1, k <= Cardinality(S)
  PROVE  \E e \in S : Cardinality(Up(S, e)) = k
<1>0. \A e : Up(S, e) \subseteq S /\ IsFiniteSet(Up(S, e)) /\ Cardinality(Up(S, e)) \in Nat
  <2> SUFFICES ASSUME NEW e
               PROVE  Up(S, e) \subseteq S /\ IsFiniteSet(Up(S, e)) /\ Cardinality(Up(S, e)) \in Nat
    OBVIOUS
  <2>1. Up(S, e) \subseteq S
    BY DEF Up
  <2>2. IsFiniteSet(Up(S, e))
    BY <2>1, FS_Subset
  <2> QED
    BY <2>1, <2>2, FS_CardinalityType
<1>1. PICK T : T = {e \in S : Cardinality(Up(S, e)) >= k}
  OBVIOUS
<1>2. S # {}
  BY FS_EmptySet
<1>3. PICK last \in S : \A y \in S : last >= y
  BY <1>2, Greatest
<1>4. Up(S, last) = S
  BY <1>3 DEF Up
<1>5. T # {} /\ T \in SUBSET Int /\ T \subseteq S
  BY <1>1, <1>4
<1>6. IsFiniteSet(T)
  BY <1>5, FS_Subset
<1>7. PICK e \in T : \A y \in T : e <= y
  BY <1>5, <1>6, Least
<1>8. e \in S /\ e \in Int /\ Cardinality(Up(S, e)) >= k /\ Cardinality(Up(S, e)) \in Nat
  BY <1>0, <1>1, <1>5, <1>7
<1>9. PICK P : P = {x \in S : x < e}
  OBVIOUS
<1>10. P \subseteq S /\ P \in SUBSET Int
  BY <1>9
<1>11. IsFiniteSet(P)
  BY <1>10, FS_Subset
<1>12. CASE P = {}
  <2>1. \A x \in S : x <= e <=> x = e
    BY <1>8, <1>9, <1>12
  <2>2. Up(S, e) = {e}
    BY <1>8, <2>1 DEF Up
  <2>3. Cardinality({e}) = 1
    BY FS_Singleton
  <2>4. Cardinality(Up(S, e)) = k
    BY <1>8, <2>2, <2>3
  <2> QED
    BY <1>8, <2>4
<1>13. CASE P # {}
  <2>1. PICK p \in P : \A y \in P : p >= y
    BY <1>10, <1>11, <1>13, Greatest
  <2>2. p \in S /\ p \in Int /\ p < e /\ p \notin T
    <3>1. p \in S /\ p \in Int /\ p < e
      BY <1>9, <1>10, <2>1
    <3>2. p \notin T
      BY <1>7, <1>8, <3>1
    <3> QED
      BY <3>1, <3>2
  <2>3. Cardinality(Up(S, p)) < k /\ Cardinality(Up(S, p)) \in Nat
    BY <1>0, <1>1, <2>2
  <2>4. \A x \in S : x <= e <=> (x <= p \/ x = e)
    <3> SUFFICES ASSUME NEW x \in S PROVE x <= e <=> (x <= p \/ x = e)
      OBVIOUS
    <3>1. x \in Int
      OBVIOUS
    <3>2. x < e => x <= p
      BY <1>9, <1>10, <2>1, <2>2, <3>1
    <3> QED
      BY <1>8, <2>2, <3>1, <3>2
  <2>5. Up(S, e) = Up(S, p) \cup {e} /\ e \notin Up(S, p)
    <3>1. ~(e <= p)
      BY <1>8, <2>2
    <3> QED
      BY <1>8, <2>4, <3>1 DEF Up
  <2>6. Cardinality(Up(S, p) \cup {e}) = Cardinality(Up(S, p)) + 1
    BY <1>0, <2>5, FS_AddElement
  <2>7. Cardinality(Up(S, e)) = k
    BY <1>8, <2>3, <2>5, <2>6
  <2> QED
    BY <1>8, <2>7
<1> QED
  BY <1>12, <1>13

\* A later one has a higher rank.
LEMMA RanksGrow ==
  ASSUME NEW S \in SUBSET Int, IsFiniteSet(S), NEW d \in S, NEW e \in S
  PROVE  /\ d < e => Cardinality(Up(S, d)) < Cardinality(Up(S, e))
         /\ Cardinality(Up(S, d)) \in Nat /\ Cardinality(Up(S, d)) <= Cardinality(S)
         /\ Cardinality(S) \in Nat
<1>1. \A x \in S : Up(S, x) \subseteq S
  BY DEF Up
<1>2. IsFiniteSet(Up(S, d)) /\ IsFiniteSet(Up(S, e)) /\ Cardinality(Up(S, d)) <= Cardinality(S)
  BY <1>1, FS_Subset
<1>3. Cardinality(Up(S, d)) \in Nat /\ Cardinality(Up(S, e)) \in Nat /\ Cardinality(S) \in Nat
  BY <1>2, FS_CardinalityType
<1>4. ASSUME d < e PROVE Cardinality(Up(S, d)) < Cardinality(Up(S, e))
  <2>1. d \in Int /\ e \in Int /\ ~(e <= d)
    BY <1>4
  <2>2. \A x \in S : x <= d => x <= e
    BY <1>4
  <2>3. Up(S, d) \subseteq Up(S, e)
    BY <2>2 DEF Up
  <2>4. Up(S, d) # Up(S, e)
    BY <2>1 DEF Up
  <2>5. /\ Cardinality(Up(S, d)) <= Cardinality(Up(S, e))
        /\ Cardinality(Up(S, d)) = Cardinality(Up(S, e)) => Up(S, d) = Up(S, e)
    BY <1>2, <2>3, FS_Subset
  <2> QED
    BY <1>3, <2>4, <2>5
<1> QED
  BY <1>2, <1>3, <1>4

-----------------------------------------------------------------------------
(* The strategy.                                                           *)

Commands ==
  [at : {"none", "read", "assessed"}, seen : Governance!Statuses \cup {"none"},
   target : Governance!Statuses \cup {"none"}]

Calls ==
  [at : {"none", "read", "answered"}, seen : Governance!Statuses \cup {"none"}, allowed : BOOLEAN]

\* The row is where the chain leads, and a command goes on from what it read
\* to a status that may follow.
GovernanceInv ==
  /\ status \in Governance!Statuses /\ audit \in Seq(Governance!Statuses)
  /\ Len(audit) \in 1 .. MaxAudit /\ audit[Len(audit)] = status
  /\ admin \in [Admins -> Commands] /\ caller \in [Callers -> Calls]
  /\ \A a \in Admins : admin[a].at # "none" =>
       /\ admin[a].seen \in Governance!Statuses
       /\ admin[a].target \in Governance!Transitions[admin[a].seen]
  /\ \A i \in 1 .. Len(audit) - 1 : audit[i + 1] \in Governance!Transitions[audit[i]]

\* Where a status may lead is a status.
LEMMA TransitionsAre ==
  /\ Governance!Statuses = {"draft", "review", "shadow", "canary", "active", "paused", "retired"}
  /\ \A s \in Governance!Statuses : Governance!Transitions[s] \subseteq Governance!Statuses
<1>1. Governance!Statuses
      = {"draft", "review", "shadow", "canary", "active", "paused", "retired"}
  BY DEF Governance!Statuses, Governance!Transitions
<1> QED
  BY <1>1 DEF Governance!Transitions

\* A version begins as a draft or in shadow.
LEMMA GovernanceStart == Governance!Init => GovernanceInv
<1> SUFFICES ASSUME Governance!Init PROVE GovernanceInv
  OBVIOUS
<1>1. /\ status \in {"draft", "shadow"} /\ audit = <<status>>
      /\ admin = [a \in Admins |-> Governance!NoCommand]
      /\ caller = [c \in Callers |-> Governance!NoCall]
  BY DEF Governance!Init
<1>2. status \in Governance!Statuses
  BY <1>1, TransitionsAre
<1>3. /\ audit \in Seq(Governance!Statuses) /\ Len(audit) = 1 /\ audit[1] = status
  BY <1>1, <1>2
<1>4. 1 \in 1 .. MaxAudit
  BY Bounds
<1>5. Governance!NoCommand \in Commands /\ Governance!NoCommand.at = "none"
  BY DEF Governance!NoCommand, Commands
<1>6. Governance!NoCall \in Calls
  BY DEF Governance!NoCall, Calls
<1> QED
  BY <1>1, <1>2, <1>3, <1>4, <1>5, <1>6 DEF GovernanceInv

\* A command goes on; the strategy stays.
LEMMA CommandGoes ==
  ASSUME GovernanceInv, NEW a \in Admins, NEW new \in Commands, admin' = [admin EXCEPT ![a] = new],
         new.at # "none" => /\ new.seen \in Governance!Statuses
                            /\ new.target \in Governance!Transitions[new.seen],
         UNCHANGED <<status, audit, caller>>
  PROVE  GovernanceInv'
<1>1. /\ admin' \in [Admins -> Commands]
      /\ \A b \in Admins : admin'[b] = IF b = a THEN new ELSE admin[b]
  BY DEF GovernanceInv
<1>2. \A b \in Admins : admin'[b].at # "none" =>
        /\ admin'[b].seen \in Governance!Statuses
        /\ admin'[b].target \in Governance!Transitions[admin'[b].seen]
  BY <1>1 DEF GovernanceInv
<1> QED
  BY <1>1, <1>2 DEF GovernanceInv

\* transition_strategy_status: the row is as it was read.
LEMMA Applying ==
  ASSUME GovernanceInv, NEW a \in Admins, Governance!Apply(a)
  PROVE  GovernanceInv'
<1>1. /\ admin[a].at = "assessed" /\ status = admin[a].seen /\ Len(audit) < MaxAudit
      /\ status' = admin[a].target /\ audit' = Append(audit, admin[a].target)
      /\ admin' = [admin EXCEPT ![a] = Governance!NoCommand] /\ UNCHANGED caller
  BY DEF Governance!Apply, Governance!Stands
<1>2. PICK x : x = admin[a].target
  OBVIOUS
<1>3. x \in Governance!Transitions[status] /\ status \in Governance!Statuses
  BY <1>1, <1>2 DEF GovernanceInv
<1>4. x \in Governance!Statuses
  BY <1>3, TransitionsAre
<1>5. audit \in Seq(Governance!Statuses) /\ Len(audit) \in 1 .. MaxAudit
      /\ audit[Len(audit)] = status
  BY DEF GovernanceInv
<1>6. /\ audit' = Append(audit, x) /\ audit' \in Seq(Governance!Statuses)
      /\ Len(audit') = Len(audit) + 1 /\ audit'[Len(audit) + 1] = x
      /\ \A i \in 1 .. Len(audit) : audit'[i] = audit[i]
  BY <1>1, <1>2, <1>4, <1>5
<1>7. Len(audit') \in 1 .. MaxAudit
  BY <1>1, <1>5, <1>6, Bounds
<1>8. ASSUME NEW i \in 1 .. Len(audit') - 1
      PROVE  audit'[i + 1] \in Governance!Transitions[audit'[i]]
  <2>1. CASE i = Len(audit)
    BY <1>3, <1>5, <1>6, <2>1
  <2>2. CASE i # Len(audit)
    <3>1. i \in 1 .. Len(audit) - 1 /\ i + 1 \in 1 .. Len(audit) /\ i \in 1 .. Len(audit)
      BY <1>5, <1>6, <2>2
    <3> QED
      BY <1>6, <3>1 DEF GovernanceInv
  <2> QED
    BY <2>1, <2>2
<1>9. Governance!NoCommand \in Commands /\ Governance!NoCommand.at = "none"
  BY DEF Governance!NoCommand, Commands
<1>10. /\ admin' \in [Admins -> Commands]
       /\ \A b \in Admins : admin'[b].at # "none" =>
            /\ admin'[b].seen \in Governance!Statuses
            /\ admin'[b].target \in Governance!Transitions[admin'[b].seen]
  BY <1>1, <1>9 DEF GovernanceInv
<1> QED
  BY <1>1, <1>2, <1>4, <1>6, <1>7, <1>8, <1>10 DEF GovernanceInv

\* What callers do leaves the strategy alone.
LEMMA CallerGoes ==
  ASSUME GovernanceInv, NEW c \in Callers, NEW new \in Calls, caller' = [caller EXCEPT ![c] = new],
         UNCHANGED <<status, audit, admin>>
  PROVE  GovernanceInv'
  BY DEF GovernanceInv

\* decision_use_allowed: what was read is where the chain leads.
LEMMA AnswerIs ==
  ASSUME GovernanceInv, NEW c \in Callers, Governance!Answer(c)
  PROVE  GovernanceInv' /\ \A d \in Callers : caller'[d].allowed /\ ~caller[d].allowed =>
                             status \in Governance!Released
<1>1. PICK selected \in BOOLEAN :
        caller' = [caller EXCEPT ![c] =
          [at |-> "answered", seen |-> caller[c].seen,
           allowed |-> /\ Governance!ReleaseReady(caller[c].seen)
                       /\ \/ caller[c].seen = "active"
                          \/ caller[c].seen = "canary" /\ selected]]
  BY DEF Governance!Answer
<1>2. PICK use : use = (/\ Governance!ReleaseReady(caller[c].seen)
                         /\ \/ caller[c].seen = "active"
                            \/ caller[c].seen = "canary" /\ selected)
  OBVIOUS
<1>3. use \in BOOLEAN
  BY <1>2
<1>4. PICK new : new = [at |-> "answered", seen |-> caller[c].seen, allowed |-> use]
  OBVIOUS
<1>5. caller[c] \in Calls /\ UNCHANGED <<status, audit, admin>>
  BY DEF GovernanceInv, Governance!Answer
<1>6. new \in Calls /\ new.allowed = use
  BY <1>3, <1>4, <1>5 DEF Calls
<1>7. caller' = [caller EXCEPT ![c] = new]
  BY <1>1, <1>2, <1>4
<1>8. ASSUME use PROVE status \in Governance!Released
  <2>1. Governance!ReleaseReady(caller[c].seen) /\ caller[c].seen \in {"active", "canary"}
    BY <1>2, <1>8
  <2>2. Governance!Last(audit) = caller[c].seen
    BY <2>1 DEF Governance!ReleaseReady, Governance!Agrees
  <2>3. status = caller[c].seen
    BY <2>2 DEF Governance!Last, GovernanceInv
  <2> QED
    BY <2>1, <2>3 DEF Governance!Released
<1>9. ASSUME NEW d \in Callers, caller'[d].allowed, ~caller[d].allowed
      PROVE  status \in Governance!Released
  <2>1. d = c /\ caller'[d] = new
    BY <1>7, <1>9 DEF GovernanceInv
  <2> QED
    BY <1>6, <1>8, <1>9, <2>1
<1>10. GovernanceInv'
  BY <1>5, <1>6, <1>7, CallerGoes
<1> QED
  BY <1>9, <1>10

\* Every step keeps the invariant, allows what is released and skips no stage.
LEMMA GovernanceStep ==
  GovernanceInv /\ [Governance!Next]_(Governance!vars) =>
    GovernanceInv' /\ Governance!Allowing
<1> SUFFICES ASSUME GovernanceInv, [Governance!Next]_(Governance!vars)
             PROVE  GovernanceInv' /\ Governance!Allowing
  OBVIOUS
<1>0. ASSUME caller' = caller PROVE Governance!Allowing
  BY <1>0 DEF Governance!Allowing
<1>1. CASE UNCHANGED Governance!vars
  <2>1. UNCHANGED <<status, audit, admin, caller>>
    BY <1>1 DEF Governance!vars
  <2> QED
    BY <1>0, <2>1 DEF GovernanceInv
<1>2. ASSUME NEW a \in Admins, Governance!Assess(a) PROVE GovernanceInv' /\ Governance!Allowing
  <2>1. PICK new : new = [admin[a] EXCEPT !.at = "assessed"]
    OBVIOUS
  <2>2. /\ admin[a].at = "read" /\ admin' = [admin EXCEPT ![a].at = "assessed"]
        /\ UNCHANGED <<status, audit, caller>>
    BY <1>2 DEF Governance!Assess
  <2>3. admin[a] \in Commands /\ admin \in [Admins -> Commands]
    BY DEF GovernanceInv
  <2>4. admin' = [admin EXCEPT ![a] = new]
    BY <2>1, <2>2, <2>3
  <2>5. new \in Commands /\ new.seen = admin[a].seen /\ new.target = admin[a].target
    BY <2>1, <2>3 DEF Commands
  <2>6. new.seen \in Governance!Statuses /\ new.target \in Governance!Transitions[new.seen]
    BY <2>2, <2>5 DEF GovernanceInv
  <2> QED
    BY <1>0, <2>2, <2>4, <2>5, <2>6, CommandGoes
<1>3. ASSUME NEW a \in Admins, Governance!Refuse(a) PROVE GovernanceInv' /\ Governance!Allowing
  <2>1. /\ admin' = [admin EXCEPT ![a] = Governance!NoCommand]
        /\ UNCHANGED <<status, audit, caller>>
    BY <1>3 DEF Governance!Refuse
  <2>2. Governance!NoCommand \in Commands /\ Governance!NoCommand.at = "none"
    BY DEF Governance!NoCommand, Commands
  <2> QED
    BY <1>0, <2>1, <2>2, CommandGoes
<1>4. ASSUME NEW a \in Admins, NEW role \in Governance!Roles, NEW target \in Governance!Statuses,
             Governance!Command(a, role, target)
      PROVE  GovernanceInv' /\ Governance!Allowing
  <2>1. PICK new : new = [at |-> "read", seen |-> status, target |-> target]
    OBVIOUS
  <2>2. /\ target \in Governance!Transitions[status] /\ admin' = [admin EXCEPT ![a] = new]
        /\ UNCHANGED <<status, audit, caller>>
    BY <1>4, <2>1 DEF Governance!Command
  <2>3. status \in Governance!Statuses
    BY DEF GovernanceInv
  <2>4. new \in Commands /\ new.seen = status /\ new.target = target
    BY <2>1, <2>3 DEF Commands
  <2> QED
    BY <1>0, <2>2, <2>3, <2>4, CommandGoes
<1>5. ASSUME NEW a \in Admins, Governance!Apply(a) PROVE GovernanceInv' /\ Governance!Allowing
  <2>1. caller' = caller
    BY <1>5 DEF Governance!Apply
  <2> QED
    BY <1>0, <1>5, <2>1, Applying
<1>6. ASSUME NEW c \in Callers, Governance!Ask(c) PROVE GovernanceInv' /\ Governance!Allowing
  <2>1. PICK new : new = [at |-> "read", seen |-> status, allowed |-> FALSE]
    OBVIOUS
  <2>2. caller' = [caller EXCEPT ![c] = new] /\ UNCHANGED <<status, audit, admin>>
    BY <1>6, <2>1 DEF Governance!Ask
  <2>3. status \in Governance!Statuses
    BY DEF GovernanceInv
  <2>4. new \in Calls /\ ~new.allowed
    BY <2>1, <2>3 DEF Calls
  <2>5. \A d \in Callers : caller'[d].allowed => caller[d].allowed
    BY <2>2, <2>4 DEF GovernanceInv
  <2> QED
    BY <2>2, <2>4, <2>5, CallerGoes DEF Governance!Allowing
<1>7. ASSUME NEW c \in Callers, Governance!Answer(c) PROVE GovernanceInv' /\ Governance!Allowing
  BY <1>7, AnswerIs DEF Governance!Allowing
<1> QED
  BY <1>1, <1>2, <1>3, <1>4, <1>5, <1>6, <1>7 DEF Governance!Next

\* Nothing skipped a stage, and every variable has its type.
LEMMA GovernanceHolds == GovernanceInv => Governance!StagesAreInOrder /\ Governance!TypeOK
  BY DEF GovernanceInv, Governance!StagesAreInOrder, Governance!TypeOK, Commands, Calls

-----------------------------------------------------------------------------
(* The windows of the backtest.                                            *)

\* A trade leaves within the window it was signalled in.
Within(t) ==
  /\ t.window \in 1 .. 4 /\ t.window \in Backtest!Windows
  /\ t.signal \in Backtest!Rows /\ t.signal >= Backtest!Start(t.window)
  /\ t.signal + Horizon < Backtest!End(t.window)
  /\ t.entry = t.signal + 1 /\ t.exit \in t.entry .. t.entry + Horizon - 1

BacktestInv ==
  /\ split \in {"holdout", "periods"} /\ signals \in SUBSET Backtest!Rows
  /\ window \in 1 .. 5 /\ index \in Backtest!Rows
  /\ \A t \in trades :
       /\ Within(t) /\ t.window <= window
       /\ t.window = window => t.exit <= index
  /\ \A t, u \in trades :
       t # u /\ t.window = u.window => t.exit < u.entry \/ u.exit < t.entry

\* A window is a part of the frame.
LEMMA WindowIs ==
  ASSUME split \in {"holdout", "periods"}, NEW w \in Backtest!Windows
  PROVE  /\ w \in 1 .. 4 /\ Backtest!Start(w) \in Nat /\ Backtest!End(w) \in Nat
         /\ Backtest!Start(w) >= Warmup /\ Backtest!End(w) <= Length
<1>1. PICK rest \in Nat : Length = Warmup + rest
  <2>1. Length - Warmup \in Nat /\ Length = Warmup + (Length - Warmup)
    BY Bounds
  <2> QED
    BY <2>1
<1>2. Length - Warmup = rest
  BY <1>1, Bounds
<1>3. CASE split = "holdout"
  <2>1. w \in 1 .. 2
    BY <1>3 DEF Backtest!Windows
  <2>2. PICK cut : cut = (rest * 3) \div 5
    OBVIOUS
  <2>3. cut \in Nat /\ cut <= rest
    BY <2>2
  <2>4. Backtest!Bounds(split) = [i \in 0 .. 2 |-> <<Warmup, Warmup + cut, Length>>[i + 1]]
    BY <1>2, <1>3, <2>2 DEF Backtest!Bounds
  <2>5. /\ Backtest!Bounds(split)[0] = Warmup /\ Backtest!Bounds(split)[1] = Warmup + cut
        /\ Backtest!Bounds(split)[2] = Length
    BY <2>4
  <2> QED
    BY <1>1, <2>1, <2>3, <2>5, Bounds DEF Backtest!Start, Backtest!End
<1>4. CASE split # "holdout"
  <2>1. w \in 1 .. 4
    BY <1>4 DEF Backtest!Windows
  <2>2. Backtest!Bounds(split) = [i \in 0 .. 4 |-> Warmup + (rest * i) \div 4]
    BY <1>2, <1>4 DEF Backtest!Bounds
  <2>3. \A i \in 0 .. 4 : (rest * i) \div 4 \in Nat /\ (rest * i) \div 4 <= rest
    <3>1. \A i \in 0 .. 4 : i = 0 \/ i = 1 \/ i = 2 \/ i = 3 \/ i = 4
      OBVIOUS
    <3>2. /\ (rest * 0) \div 4 \in Nat /\ (rest * 0) \div 4 <= rest
          /\ (rest * 1) \div 4 \in Nat /\ (rest * 1) \div 4 <= rest
          /\ (rest * 2) \div 4 \in Nat /\ (rest * 2) \div 4 <= rest
          /\ (rest * 3) \div 4 \in Nat /\ (rest * 3) \div 4 <= rest
          /\ (rest * 4) \div 4 \in Nat /\ (rest * 4) \div 4 <= rest
      OBVIOUS
    <3> QED
      BY <3>1, <3>2
  <2>4. \A i \in 0 .. 4 : Backtest!Bounds(split)[i] = Warmup + (rest * i) \div 4
    BY <2>2
  <2>5. w \in 0 .. 4 /\ w - 1 \in 0 .. 4
    BY <2>1
  <2> QED
    BY <1>1, <2>1, <2>3, <2>4, <2>5, Bounds DEF Backtest!Start, Backtest!End
<1> QED
  BY <1>3, <1>4

\* A window is begun at the first of its signals.
LEMMA FirstRowIs ==
  ASSUME split \in {"holdout", "periods"}, signals \in SUBSET Backtest!Rows, NEW w
  PROVE  Backtest!FirstRow(w) \in Backtest!Rows
<1>1. Backtest!Rows = 0 .. Length - 1 /\ 0 \in Int /\ Length - 1 \in Int /\ 0 \in 0 .. Length - 1
  BY Bounds DEF Backtest!Rows
<1>2. CASE Backtest!ScoreWindow(w) = {}
  BY <1>1, <1>2 DEF Backtest!FirstRow
<1>3. CASE Backtest!ScoreWindow(w) # {}
  <2>1. Backtest!ScoreWindow(w) \subseteq 0 .. Length - 1
    BY <1>1 DEF Backtest!ScoreWindow
  <2>2. IsFiniteSet(0 .. Length - 1)
    BY <1>1, FS_Interval
  <2>3. IsFiniteSet(Backtest!ScoreWindow(w))
    BY <2>1, <2>2, FS_Subset
  <2>4. Backtest!ScoreWindow(w) \in SUBSET Int
    BY <2>1
  <2>5. \E x \in Backtest!ScoreWindow(w) : \A y \in Backtest!ScoreWindow(w) : x <= y
    BY <1>3, <2>3, <2>4, Least
  <2>6. Backtest!Min(Backtest!ScoreWindow(w)) \in Backtest!ScoreWindow(w)
    BY <2>5 DEF Backtest!Min
  <2> QED
    BY <1>1, <1>3, <2>1, <2>6 DEF Backtest!FirstRow
<1> QED
  BY <1>2, <1>3

\* The first window begins without a trade.
LEMMA BacktestStart == Backtest!Init => BacktestInv
<1> SUFFICES ASSUME Backtest!Init PROVE BacktestInv
  OBVIOUS
<1>1. /\ split \in {"holdout", "periods"} /\ signals \in SUBSET (Warmup .. Length - 1)
      /\ window = 1 /\ index = Backtest!FirstRow(1) /\ trades = {}
  BY DEF Backtest!Init
<1>2. signals \in SUBSET Backtest!Rows
  BY <1>1, Bounds DEF Backtest!Rows
<1>3. index \in Backtest!Rows
  BY <1>1, <1>2, FirstRowIs
<1> QED
  BY <1>1, <1>2, <1>3 DEF BacktestInv

\* A trade that may be entered has its horizon within the window.
LEMMA LastBarIs ==
  ASSUME split \in {"holdout", "periods"}, NEW w \in Backtest!Windows, NEW i \in Backtest!Rows,
         i + Horizon < Backtest!End(w)
  PROVE  Backtest!LastBar(i + 1) = i + Horizon /\ i + Horizon \in Backtest!Rows
<1>1. Backtest!End(w) \in Nat /\ Backtest!End(w) <= Length
  BY WindowIs
<1>2. i \in Nat /\ Backtest!Rows = 0 .. Length - 1
  BY Bounds DEF Backtest!Rows
<1>3. PICK m : m = i + Horizon
  OBVIOUS
<1>4. m \in Nat /\ m <= Length - 1 /\ (i + 1) + Horizon - 1 = m /\ m \in 0 .. Length - 1
  BY <1>1, <1>2, <1>3, Bounds
<1>5. PICK S : S = {Length - 1, m}
  OBVIOUS
<1>6. m \in S /\ \A y \in S : m <= y
  BY <1>4, <1>5
<1>7. \A x \in S : (\A y \in S : x <= y) => x = m
  BY <1>4, <1>5, Bounds
<1>8. Backtest!Min(S) = m
  BY <1>6, <1>7 DEF Backtest!Min
<1>9. Backtest!LastBar(i + 1) = Backtest!Min(S)
  BY <1>4, <1>5 DEF Backtest!LastBar
<1> QED
  BY <1>2, <1>3, <1>4, <1>8, <1>9

\* A trade that is entered, and left on some bar of its horizon
LEMMA Trading ==
  ASSUME BacktestInv, Backtest!Trade
  PROVE  BacktestInv'
<1>1. /\ split \in {"holdout", "periods"} /\ index \in Backtest!Rows /\ window \in Backtest!Windows
      /\ index \in Backtest!ScoreWindow(window) /\ UNCHANGED <<split, signals, window>>
  BY DEF BacktestInv, Backtest!Trade, Backtest!Scanning
<1>2. PICK exit \in index + 1 .. Backtest!LastBar(index + 1) :
        /\ trades' = trades \cup {[window |-> window, signal |-> index,
                                   entry |-> index + 1, exit |-> exit]}
        /\ index' = exit
  BY DEF Backtest!Trade
<1>3. PICK t : t = [window |-> window, signal |-> index, entry |-> index + 1, exit |-> exit]
  OBVIOUS
<1>4. /\ window \in 1 .. 4 /\ Backtest!End(window) \in Nat /\ Backtest!Start(window) \in Nat
      /\ index \in Nat
  BY <1>1, WindowIs, Bounds DEF Backtest!Rows
<1>5. index >= Backtest!Start(window) /\ index <= Backtest!End(window) - Horizon - 1
  BY <1>1 DEF Backtest!ScoreWindow, Backtest!LatestSignal
<1>6. index + Horizon < Backtest!End(window)
  BY <1>4, <1>5, Bounds
<1>7. Backtest!LastBar(index + 1) = index + Horizon /\ index + Horizon \in Backtest!Rows
  BY <1>1, <1>6, LastBarIs
<1>8. exit \in index + 1 .. index + Horizon
  BY <1>2, <1>7
<1>9. exit \in Backtest!Rows /\ exit \in Nat /\ exit > index
  BY <1>4, <1>7, <1>8, Bounds DEF Backtest!Rows
<1>10. (index + 1) + Horizon - 1 = index + Horizon
  BY <1>4, Bounds
<1>11. t.window = window /\ t.signal = index /\ t.entry = index + 1 /\ t.exit = exit
  BY <1>3
<1>12. Within(t)
  BY <1>1, <1>4, <1>5, <1>6, <1>8, <1>10, <1>11 DEF Within
<1>13. trades' = trades \cup {t} /\ index' = exit
  BY <1>2, <1>3
<1>14. ASSUME NEW u \in trades
       PROVE  /\ Within(u) /\ u.window <= window /\ u.exit \in Int
              /\ u.window = window => u.exit <= index
  BY Bounds DEF BacktestInv, Within, Backtest!Rows
<1>15. ASSUME NEW u \in trades'
       PROVE  Within(u)' /\ u.window <= window' /\ (u.window = window' => u.exit <= index')
  <2>1. CASE u = t
    BY <1>1, <1>4, <1>9, <1>11, <1>12, <1>13, <2>1
    DEF Within, Backtest!Windows, Backtest!Start, Backtest!End, Backtest!Bounds
  <2>2. CASE u \in trades
    BY <1>1, <1>4, <1>9, <1>13, <1>14, <2>2
    DEF Within, Backtest!Windows, Backtest!Start, Backtest!End, Backtest!Bounds
  <2> QED
    BY <1>13, <2>1, <2>2
<1>16. ASSUME NEW u \in trades, u.window = t.window PROVE u.exit < t.entry
  BY <1>4, <1>11, <1>14, <1>16
<1>17. \A u, v \in trades' :
         u # v /\ u.window = v.window => u.exit < v.entry \/ v.exit < u.entry
  BY <1>13, <1>16 DEF BacktestInv
<1> QED
  BY <1>1, <1>4, <1>9, <1>13, <1>15, <1>17 DEF BacktestInv, Backtest!Rows

\* Every step keeps the invariant.
LEMMA BacktestStep == BacktestInv /\ [Backtest!Next]_(Backtest!vars) => BacktestInv'
<1> SUFFICES ASSUME BacktestInv, [Backtest!Next]_(Backtest!vars) PROVE BacktestInv'
  OBVIOUS
<1>1. ASSUME NEW t \in trades
      PROVE  Within(t) /\ t.window <= window /\ t.exit \in Int /\ t.window \in 1 .. 4
  BY Bounds DEF BacktestInv, Within, Backtest!Rows
<1>2. ASSUME UNCHANGED split PROVE \A t \in trades : Within(t)'
  BY <1>1, <1>2 DEF Within, Backtest!Windows, Backtest!Start, Backtest!End, Backtest!Bounds,
                    Backtest!Rows
<1>3. CASE UNCHANGED Backtest!vars
  <2>1. UNCHANGED <<split, signals, window, index, trades>>
    BY <1>3 DEF Backtest!vars
  <2> QED
    BY <1>2, <2>1 DEF BacktestInv
<1>4. CASE Backtest!Pass
  <2>1. index < Length - 1 /\ index' = index + 1 /\ UNCHANGED <<split, signals, window, trades>>
    BY <1>4 DEF Backtest!Pass, Backtest!Scanning
  <2>2. index' \in Backtest!Rows /\ index \in Int /\ index' \in Int /\ index <= index'
    BY <2>1, Bounds DEF BacktestInv, Backtest!Rows
  <2>3. \A t \in trades : t.window = window => t.exit <= index'
    BY <1>1, <2>2 DEF BacktestInv
  <2> QED
    BY <1>2, <2>1, <2>2, <2>3 DEF BacktestInv
<1>5. CASE Backtest!NextWindow
  <2>1. /\ window \in Backtest!Windows /\ window' = window + 1
        /\ index' = (IF window' \in Backtest!Windows THEN Backtest!FirstRow(window') ELSE 0)
        /\ UNCHANGED <<split, signals, trades>>
    BY <1>5 DEF Backtest!NextWindow
  <2>2. split \in {"holdout", "periods"} /\ signals \in SUBSET Backtest!Rows
    BY DEF BacktestInv
  <2>3. window \in 1 .. 4
    BY <2>1, <2>2, WindowIs
  <2>4. window' \in 1 .. 5 /\ window' > window
    BY <2>1, <2>3
  <2>5. index' \in Backtest!Rows
    <3>1. Backtest!FirstRow(window + 1) \in Backtest!Rows
      BY <2>2, FirstRowIs
    <3>2. 0 \in Backtest!Rows
      BY Bounds DEF Backtest!Rows
    <3> QED
      BY <2>1, <3>1, <3>2 DEF Backtest!FirstRow, Backtest!ScoreWindow, Backtest!Start, Backtest!End
  <2>6. \A t \in trades : t.window <= window' /\ t.window # window'
    BY <1>1, <2>3, <2>4
  <2> QED
    BY <1>2, <2>1, <2>4, <2>5, <2>6 DEF BacktestInv
<1> QED
  BY <1>3, <1>4, <1>5, Trading DEF Backtest!Next

\* No trade rests on a bar of another window, and each has its whole horizon.
LEMMA BacktestHolds == BacktestInv => Backtest!WindowsAreSeparate /\ Backtest!TypeOK
<1> SUFFICES ASSUME BacktestInv PROVE Backtest!WindowsAreSeparate /\ Backtest!TypeOK
  OBVIOUS
<1>1. ASSUME NEW t \in trades
      PROVE  /\ t.signal >= Backtest!Start(t.window)
             /\ Backtest!LastBar(t.entry) < Backtest!End(t.window)
             /\ Backtest!LastBar(t.entry) = t.entry + Horizon - 1
  <2>1. Within(t) /\ split \in {"holdout", "periods"}
    BY DEF BacktestInv
  <2>2. Backtest!LastBar(t.signal + 1) = t.signal + Horizon
    BY <2>1, LastBarIs DEF Within
  <2>3. t.signal + Horizon = t.entry + Horizon - 1
    BY <2>1, Bounds DEF Within, Backtest!Rows
  <2> QED
    BY <2>1, <2>2, <2>3 DEF Within
<1>2. Backtest!WindowsAreSeparate
  BY <1>1 DEF Backtest!WindowsAreSeparate, BacktestInv
<1>3. Backtest!TypeOK
  BY DEF BacktestInv, Backtest!TypeOK, Within
<1> QED
  BY <1>2, <1>3

-----------------------------------------------------------------------------
(* The walk-forward.                                                       *)

AlphaTypes ==
  /\ traded \in [Assets -> SUBSET Alpha!Days]
  /\ labelEnd = [r \in DOMAIN labelEnd |-> labelEnd[r]] /\ DOMAIN labelEnd \subseteq Alpha!Rows
  /\ \A r \in DOMAIN labelEnd : labelEnd[r] \in traded[r[1]]
  /\ fold \in Nat /\ fold <= MaxFolds
  /\ fitted = [k \in DOMAIN fitted |-> fitted[k]] /\ DOMAIN fitted \subseteq 1 .. fold
  /\ \A k \in DOMAIN fitted : fitted[k] \subseteq DOMAIN labelEnd
  /\ oos = [r \in DOMAIN oos |-> oos[r]] /\ DOMAIN oos \subseteq DOMAIN labelEnd
  /\ \A r \in DOMAIN oos : oos[r] \in DOMAIN fitted
  /\ calibration \subseteq DOMAIN oos /\ gate \in {"open", "passed", "abstain"}
  /\ forecasts \subseteq Alpha!Rows

\* The walk-forward is over when a part of its days calibrates, and the others
\* come after them.
AlphaInv ==
  /\ AlphaTypes /\ Alpha!PredictedFromThePast
  /\ calibration # {} =>
       /\ fold = Alpha!Folds
       /\ \A e \in Alpha!Evaluation, c \in calibration : c[2] < e[2]
  /\ gate = "passed" => calibration # {} /\ Alpha!Enough(Alpha!Evaluation)

\* The days are numbers, and so are those of the rows.
LEMMA DaysAre ==
  /\ Alpha!Days \in SUBSET Int /\ IsFiniteSet(Alpha!Days)
  /\ \A r \in Alpha!Rows : r[1] \in Assets /\ r[2] \in Alpha!Days /\ r[2] \in Int
  /\ \A S : Alpha!Cardinality(S) = Cardinality(S)
<1>1. 1 \in Int /\ LastDate \in Int
  BY Bounds
<1>2. IsFiniteSet(1 .. LastDate)
  BY <1>1, FS_Interval
<1>3. \A S : Alpha!Cardinality(S) = Cardinality(S)
  BY DEF Cardinality, Alpha!Cardinality
<1>4. \A d \in 1 .. LastDate : d \in Int
  OBVIOUS
<1> QED
  BY <1>2, <1>3, <1>4 DEF Alpha!Days, Alpha!Rows

\* The days of labelled rows
LEMMA DatesAre ==
  ASSUME DOMAIN labelEnd \subseteq Alpha!Rows
  PROVE  /\ Alpha!Dates \in SUBSET Int /\ IsFiniteSet(Alpha!Dates)
         /\ \A r \in DOMAIN labelEnd : r[2] \in Alpha!Dates
<1>1. Alpha!Dates \subseteq Alpha!Days
  BY DaysAre DEF Alpha!Dates
<1> QED
  BY <1>1, DaysAre, FS_Subset DEF Alpha!Dates

\* The label of a row is known on a day its asset trades.
LEMMA LabelIs ==
  ASSUME NEW days \in SUBSET Alpha!Days, NEW d \in DOMAIN Alpha!Label(days)
  PROVE  d \in days /\ Alpha!Label(days)[d] \in days
<1>1. PICK later : later = [x \in days |-> {e \in days : e > x}]
  OBVIOUS
<1>2. Alpha!Label(days) = [x \in {y \in days : Alpha!Cardinality(later[y]) >= Ahead} |->
        CHOOSE e \in later[x] : Alpha!Cardinality({y \in later[x] : y <= e}) = Ahead]
  BY <1>1 DEF Alpha!Label
<1>3. d \in days /\ Alpha!Cardinality(later[d]) >= Ahead
  BY <1>2
<1>4. PICK S : S = later[d]
  OBVIOUS
<1>5. S \subseteq days /\ S \in SUBSET Int /\ S \subseteq Alpha!Days
  BY <1>1, <1>3, <1>4, DaysAre
<1>6. IsFiniteSet(S)
  BY <1>5, DaysAre, FS_Subset
<1>7. Cardinality(S) >= Ahead /\ Ahead \in Nat /\ Ahead >= 1
  BY <1>3, <1>4, DaysAre, Bounds
<1>8. \E e \in S : Cardinality(Up(S, e)) = Ahead
  BY <1>5, <1>6, <1>7, Ranks
<1>9. \E e \in S : Alpha!Cardinality({y \in S : y <= e}) = Ahead
  BY <1>8, DaysAre DEF Up
<1>10. Alpha!Label(days)[d] = CHOOSE e \in S : Alpha!Cardinality({y \in S : y <= e}) = Ahead
  BY <1>2, <1>3, <1>4
<1>11. Alpha!Label(days)[d] \in S
  BY <1>9, <1>10
<1> QED
  BY <1>3, <1>5, <1>11

\* Nothing is learnt at first.
LEMMA AlphaStart == Alpha!Init => AlphaInv
<1> SUFFICES ASSUME Alpha!Init PROVE AlphaInv
  OBVIOUS
<1>1. traded \in CalendarsDef
  BY DEF Alpha!Init
<1>2. traded \in [Assets -> SUBSET Alpha!Days]
  BY <1>1 DEF CalendarsDef, Alpha!Days
<1>3. /\ fold = 0 /\ fitted = Alpha!Empty /\ oos = Alpha!Empty /\ calibration = {}
      /\ gate = "open" /\ forecasts = {}
  BY DEF Alpha!Init
<1>4. PICK label : label = [s \in Assets |-> Alpha!Label(traded[s])]
  OBVIOUS
<1>5. labelEnd = [r \in {x \in Alpha!Rows : x[2] \in DOMAIN label[x[1]]} |-> label[r[1]][r[2]]]
  BY <1>4 DEF Alpha!Init
<1>6. DOMAIN labelEnd \subseteq Alpha!Rows
  BY <1>5
<1>7. labelEnd = [r \in DOMAIN labelEnd |-> labelEnd[r]]
  BY <1>5
<1>8. ASSUME NEW r \in DOMAIN labelEnd PROVE labelEnd[r] \in traded[r[1]]
  <2>1. r \in Alpha!Rows /\ r[2] \in DOMAIN label[r[1]] /\ labelEnd[r] = label[r[1]][r[2]]
    BY <1>5
  <2>2. r[1] \in Assets
    BY <2>1, DaysAre
  <2>3. label[r[1]] = Alpha!Label(traded[r[1]]) /\ traded[r[1]] \in SUBSET Alpha!Days
    BY <1>2, <1>4, <2>2
  <2> QED
    BY <2>1, <2>3, LabelIs
<1>9. /\ DOMAIN fitted = {} /\ DOMAIN oos = {} /\ fitted = [k \in DOMAIN fitted |-> fitted[k]]
      /\ oos = [r \in DOMAIN oos |-> oos[r]]
  BY <1>3 DEF Alpha!Empty
<1>10. AlphaTypes
  BY <1>2, <1>3, <1>6, <1>7, <1>8, <1>9, Bounds DEF AlphaTypes
<1>11. Alpha!PredictedFromThePast
  BY <1>9 DEF Alpha!PredictedFromThePast
<1> QED
  BY <1>3, <1>10, <1>11 DEF AlphaInv

\* The larger and the smaller of two numbers
LEMMA Extremes ==
  ASSUME NEW a \in Int, NEW b \in Int
  PROVE  /\ Alpha!Max({a, b}) = (IF a >= b THEN a ELSE b)
         /\ Alpha!Min({a, b}) = (IF a <= b THEN a ELSE b)
<1>1. PICK m : m = IF a <= b THEN a ELSE b
  OBVIOUS
<1>2. m \in {a, b} /\ \A y \in {a, b} : m <= y
  BY <1>1
<1>3. \A x \in {a, b} : (\A y \in {a, b} : x <= y) => x = m
  BY <1>1
<1>4. Alpha!Min({a, b}) = m
  BY <1>2, <1>3 DEF Alpha!Min
<1>5. PICK n : n = IF a >= b THEN a ELSE b
  OBVIOUS
<1>6. n \in {a, b} /\ \A y \in {a, b} : n >= y
  BY <1>5
<1>7. \A x \in {a, b} : (\A y \in {a, b} : x >= y) => x = n
  BY <1>5
<1>8. Alpha!Max({a, b}) = n
  BY <1>6, <1>7 DEF Alpha!Max
<1> QED
  BY <1>1, <1>4, <1>5, <1>8

\* Dividing numbers
LEMMA Dividing ==
  ASSUME NEW a \in Nat, NEW b \in Nat, b >= 1
  PROVE  a \div b \in Nat /\ a % b \in Nat
  OBVIOUS

\* How many folds there are
LEMMA FoldsAre ==
  ASSUME DOMAIN labelEnd \subseteq Alpha!Rows
  PROVE  /\ Alpha!Folds \in Nat /\ Alpha!Folds <= MaxFolds
         /\ Alpha!Folds > 0 => /\ Cardinality(Alpha!Dates) \in Nat
                               /\ Cardinality(Alpha!Dates) >= MinTrain
<1>1. PICK n : n = Cardinality(Alpha!Dates)
  OBVIOUS
<1>2. n \in Nat /\ Alpha!Cardinality(Alpha!Dates) = n
  BY <1>1, DatesAre, DaysAre, FS_CardinalityType
<1>3. MinTrain \in Nat /\ Ahead \in Nat /\ Ahead >= 1 /\ MaxFolds \in Nat /\ MaxFolds >= 1
  BY Bounds
<1>4. CASE n < MinTrain + 2 * Ahead
  <2>1. Alpha!Folds = 0
    BY <1>2, <1>4 DEF Alpha!Folds
  <2> QED
    BY <1>3, <2>1
<1>5. CASE ~(n < MinTrain + 2 * Ahead)
  <2>1. n - MinTrain \in Nat /\ n >= MinTrain
    BY <1>2, <1>3, <1>5
  <2>2. PICK q : q = (n - MinTrain) \div Ahead
    OBVIOUS
  <2>3. q \in Nat
    BY <1>3, <2>1, <2>2, Dividing
  <2>4. PICK m : m = Alpha!Max({2, q})
    OBVIOUS
  <2>5. m \in Nat
    BY <2>3, <2>4, Extremes
  <2>6. Alpha!Folds = Alpha!Min({MaxFolds, m})
    BY <1>2, <1>5, <2>2, <2>4 DEF Alpha!Folds
  <2>7. Alpha!Folds \in Nat /\ Alpha!Folds <= MaxFolds
    <3>1. MaxFolds \in Int /\ m \in Int
      BY <1>3, <2>5
    <3>2. Alpha!Min({MaxFolds, m}) = IF MaxFolds <= m THEN MaxFolds ELSE m
      BY <3>1, Extremes
    <3>3. Alpha!Folds = IF MaxFolds <= m THEN MaxFolds ELSE m
      BY <2>6, <3>2
    <3>4. MaxFolds \in Nat /\ m \in Nat
      BY <1>3, <2>5
    <3> QED
      BY <3>3, <3>4
  <2> QED
    BY <1>1, <1>2, <2>1, <2>7
<1> QED
  BY <1>4, <1>5

\* Products of numbers
LEMMA Multiplying ==
  ASSUME NEW a \in Nat, NEW b \in Nat
  PROVE  a * b \in Nat
  OBVIOUS

\* A chunk starts behind the days that are trained on at least.
LEMMA FirstIs ==
  ASSUME DOMAIN labelEnd \subseteq Alpha!Rows, NEW k \in Nat, k >= 1, k <= Alpha!Folds
  PROVE  Alpha!First(k) \in Nat /\ Alpha!First(k) >= 1
<1>1. PICK folds : folds = Alpha!Folds
  OBVIOUS
<1>2. folds \in Nat /\ folds >= 1
  BY <1>1, FoldsAre
<1>3. PICK beyond : beyond = Cardinality(Alpha!Dates) - MinTrain
  OBVIOUS
<1>4. beyond \in Nat
  BY <1>1, <1>2, <1>3, FoldsAre, Bounds
<1>5. Alpha!First(k) = (k - 1) * (beyond \div folds) + Alpha!Min({k - 1, beyond % folds}) + 1
  <2>1. Alpha!Cardinality(Alpha!Dates) - MinTrain = beyond
    BY <1>3, DaysAre
  <2> QED
    BY <1>1, <2>1 DEF Alpha!First
<1>6. PICK q : q = beyond \div folds
  OBVIOUS
<1>7. PICK rest : rest = beyond % folds
  OBVIOUS
<1>8. q \in Nat /\ rest \in Nat
  BY <1>2, <1>4, <1>6, <1>7, Dividing
<1>9. PICK j : j = k - 1
  OBVIOUS
<1>10. j \in Nat
  BY <1>9
<1>11. PICK m : m = Alpha!Min({j, rest})
  OBVIOUS
<1>12. m \in Nat
  <2>1. j \in Int /\ rest \in Int
    BY <1>8, <1>10
  <2>2. m = IF j <= rest THEN j ELSE rest
    BY <1>11, <2>1, Extremes
  <2> QED
    BY <1>8, <1>10, <2>2
<1>13. PICK p : p = j * q
  OBVIOUS
<1>14. p \in Nat
  BY <1>8, <1>10, <1>13, Multiplying
<1>15. Alpha!First(k) = p + m + 1
  BY <1>5, <1>6, <1>7, <1>9, <1>11, <1>13
<1> QED
  BY <1>12, <1>14, <1>15

\* The place of a day is its rank.
LEMMA PlaceIs ==
  ASSUME NEW d
  PROVE  Alpha!Place(d) = Cardinality(Up(Alpha!Dates, d)) - MinTrain
<1>1. {e \in Alpha!Dates : e <= d} = Up(Alpha!Dates, d)
  BY DEF Up
<1> QED
  BY <1>1, DaysAre DEF Alpha!Place

\* A chunk starts on a day, and every day it tests is not before.
LEMMA StartIsBefore ==
  ASSUME DOMAIN labelEnd \subseteq Alpha!Rows, NEW k \in Nat, k >= 1, k <= Alpha!Folds,
         NEW d \in Alpha!TestDates(k)
  PROVE  Alpha!TestStart(k) \in Int /\ d \in Int /\ Alpha!TestStart(k) <= d
<1>1. PICK D : D = Alpha!Dates
  OBVIOUS
<1>2. D \in SUBSET Int /\ IsFiniteSet(D)
  BY <1>1, DatesAre
<1>3. PICK first : first = Alpha!First(k)
  OBVIOUS
<1>4. first \in Nat /\ first >= 1
  BY <1>3, FirstIs
<1>5. d \in D /\ Alpha!Place(d) >= first
  BY <1>1, <1>3 DEF Alpha!TestDates
<1>6. MinTrain \in Nat
  BY Bounds
<1>7. Cardinality(Up(D, d)) \in Nat /\ Cardinality(Up(D, d)) <= Cardinality(D)
      /\ Cardinality(D) \in Nat
  BY <1>2, <1>5, RanksGrow
<1>8. Cardinality(Up(D, d)) - MinTrain >= first
  BY <1>1, <1>5, PlaceIs
<1>9. PICK rank : rank = first + MinTrain
  OBVIOUS
<1>10. rank \in Nat /\ rank >= 1 /\ rank <= Cardinality(Up(D, d)) /\ rank <= Cardinality(D)
  BY <1>4, <1>6, <1>7, <1>8, <1>9
<1>11. \E e \in D : Cardinality(Up(D, e)) = rank
  BY <1>2, <1>10, Ranks
<1>12. \E e \in Alpha!Dates : Alpha!Place(e) = Alpha!First(k)
  <2>1. PICK e \in D : Cardinality(Up(D, e)) = rank
    BY <1>11
  <2>2. Alpha!Place(e) = rank - MinTrain
    BY <1>1, <2>1, PlaceIs
  <2>3. rank - MinTrain = first
    BY <1>4, <1>6, <1>9
  <2> QED
    BY <1>1, <1>3, <2>2, <2>3
<1>13. PICK start : start = Alpha!TestStart(k)
  OBVIOUS
<1>14. start \in D /\ Alpha!Place(start) = first
  BY <1>1, <1>3, <1>12, <1>13 DEF Alpha!TestStart
<1>15. /\ d < start => Cardinality(Up(D, d)) < Cardinality(Up(D, start))
       /\ Cardinality(Up(D, start)) \in Nat
  BY <1>2, <1>5, <1>14, RanksGrow
<1>16. Cardinality(Up(D, start)) - MinTrain = first
  BY <1>1, <1>14, PlaceIs
<1>17. ~(d < start)
  BY <1>4, <1>6, <1>7, <1>8, <1>15, <1>16
<1> QED
  BY <1>2, <1>5, <1>13, <1>14, <1>17

\* The days the label of a row may be known
LEMMA LabelsAre ==
  ASSUME AlphaTypes, NEW r \in DOMAIN labelEnd
  PROVE  labelEnd[r] \in Int /\ r[2] \in Int /\ r \in Alpha!Rows
<1>1. r \in Alpha!Rows /\ labelEnd[r] \in traded[r[1]] /\ traded \in [Assets -> SUBSET Alpha!Days]
  BY DEF AlphaTypes
<1>2. r[1] \in Assets /\ r[2] \in Int
  BY <1>1, DaysAre
<1>3. labelEnd[r] \in Alpha!Days
  BY <1>1, <1>2
<1> QED
  BY <1>1, <1>2, <1>3, DaysAre

\* A fold learns from what was known before its first day.
LEMMA Folding ==
  ASSUME AlphaInv, Alpha!Fold
  PROVE  AlphaInv'
<1>1. AlphaTypes /\ Alpha!PredictedFromThePast
  BY DEF AlphaInv
<1>2. /\ fold < Alpha!Folds /\ fold' = fold + 1
      /\ traded' = traded /\ labelEnd' = labelEnd /\ calibration' = calibration
      /\ gate' = gate /\ forecasts' = forecasts
  BY DEF Alpha!Fold
<1>3. fold \in Nat /\ fold <= MaxFolds /\ MaxFolds \in Nat /\ DOMAIN labelEnd \subseteq Alpha!Rows
  BY <1>1, Bounds DEF AlphaTypes
<1>4. Alpha!Folds \in Nat /\ Alpha!Folds <= MaxFolds
  BY <1>3, FoldsAre
<1>5. PICK k : k = fold + 1
  OBVIOUS
<1>6. k \in Nat /\ k >= 1 /\ k <= Alpha!Folds /\ fold' = k /\ k <= MaxFolds
  BY <1>2, <1>3, <1>4, <1>5
<1>7. calibration = {} /\ gate # "passed"
  <2>1. fold # Alpha!Folds
    BY <1>2, <1>3, <1>4
  <2> QED
    BY <2>1 DEF AlphaInv
<1>8. PICK train : train = Alpha!Purged(Alpha!TestStart(k))
  OBVIOUS
<1>9. PICK tested : tested = Alpha!Tested(k)
  OBVIOUS
<1>10. \/ /\ fitted' = [j \in DOMAIN fitted \cup {k} |-> IF j = k THEN train ELSE fitted[j]]
          /\ oos' = [r \in DOMAIN oos \cup tested |-> IF r \in tested THEN k ELSE oos[r]]
       \/ fitted' = fitted /\ oos' = oos
  BY <1>6, <1>8, <1>9 DEF Alpha!Fold
<1>11. /\ fitted = [j \in DOMAIN fitted |-> fitted[j]] /\ DOMAIN fitted \subseteq 1 .. fold
       /\ \A j \in DOMAIN fitted : fitted[j] \subseteq DOMAIN labelEnd
       /\ oos = [r \in DOMAIN oos |-> oos[r]] /\ DOMAIN oos \subseteq DOMAIN labelEnd
       /\ \A r \in DOMAIN oos : oos[r] \in DOMAIN fitted
       /\ calibration \subseteq DOMAIN oos
  BY <1>1 DEF AlphaTypes
<1>12. /\ train \subseteq DOMAIN labelEnd /\ tested \subseteq DOMAIN labelEnd
       /\ \A r \in train : labelEnd[r] < Alpha!TestStart(k)
       /\ \A r \in tested : r[2] \in Alpha!TestDates(k)
  BY <1>8, <1>9 DEF Alpha!Purged, Alpha!Tested
<1>13. \A j \in DOMAIN fitted : j # k
  <2>1. \A j \in 1 .. fold : j # k
    BY <1>3, <1>5
  <2> QED
    BY <1>11, <2>1
<1>14. CASE /\ fitted' = [j \in DOMAIN fitted \cup {k} |-> IF j = k THEN train ELSE fitted[j]]
            /\ oos' = [r \in DOMAIN oos \cup tested |-> IF r \in tested THEN k ELSE oos[r]]
  <2>1. PICK F : F = fitted'
    OBVIOUS
  <2>2. PICK O : O = oos'
    OBVIOUS
  <2>3. F = [j \in DOMAIN fitted \cup {k} |-> IF j = k THEN train ELSE fitted[j]]
    BY <1>14, <2>1
  <2>4. O = [r \in DOMAIN oos \cup tested |-> IF r \in tested THEN k ELSE oos[r]]
    BY <1>14, <2>2
  <2>5. /\ DOMAIN F = DOMAIN fitted \cup {k} /\ F[k] = train
        /\ \A j \in DOMAIN fitted : F[j] = fitted[j]
        /\ F = [j \in DOMAIN F |-> F[j]]
    BY <1>13, <2>3
  <2>6. /\ DOMAIN O = DOMAIN oos \cup tested /\ \A r \in tested : O[r] = k
        /\ \A r \in DOMAIN oos : r \notin tested => O[r] = oos[r]
        /\ O = [r \in DOMAIN O |-> O[r]]
    BY <2>4
  <2>7. DOMAIN F \subseteq 1 .. k
    <3>1. \A j \in 1 .. fold : j \in 1 .. k
      BY <1>3, <1>5
    <3>2. k \in 1 .. k
      BY <1>6
    <3> QED
      BY <1>11, <2>5, <3>1, <3>2
  <2>8. \A j \in DOMAIN F : F[j] \subseteq DOMAIN labelEnd
    BY <1>11, <1>12, <2>5
  <2>9. \A r \in DOMAIN O : O[r] \in DOMAIN F
    BY <1>11, <2>5, <2>6
  <2>10. DOMAIN O \subseteq DOMAIN labelEnd /\ calibration \subseteq DOMAIN O
    BY <1>11, <1>12, <2>6
  <2>11. AlphaTypes'
    BY <1>1, <1>2, <1>6, <2>1, <2>2, <2>5, <2>6, <2>7, <2>8, <2>9, <2>10
    DEF AlphaTypes, Alpha!Days, Alpha!Rows
  <2>12. ASSUME NEW r \in DOMAIN O, NEW t \in F[O[r]] PROVE labelEnd[t] < r[2]
    <3>1. ASSUME r \in tested PROVE labelEnd[t] < r[2]
      <4>1. t \in train /\ r[2] \in Alpha!TestDates(k)
        BY <1>12, <2>5, <2>6, <2>12, <3>1
      <4>2. Alpha!TestStart(k) \in Int /\ r[2] \in Int /\ Alpha!TestStart(k) <= r[2]
        BY <1>3, <1>6, <4>1, StartIsBefore
      <4>3. labelEnd[t] \in Int /\ labelEnd[t] < Alpha!TestStart(k)
        BY <1>1, <1>12, <4>1, LabelsAre
      <4> QED
        BY <4>2, <4>3
    <3>2. ASSUME r \notin tested PROVE labelEnd[t] < r[2]
      <4>1. r \in DOMAIN oos /\ O[r] = oos[r] /\ oos[r] \in DOMAIN fitted
        BY <1>11, <2>6, <3>2
      <4>2. F[O[r]] = fitted[oos[r]]
        BY <2>5, <4>1
      <4> QED
        BY <1>1, <2>12, <4>1, <4>2 DEF Alpha!PredictedFromThePast
    <3> QED
      BY <3>1, <3>2
  <2>13. Alpha!PredictedFromThePast'
    BY <1>2, <2>1, <2>2, <2>12 DEF Alpha!PredictedFromThePast
  <2> QED
    BY <1>2, <1>7, <2>11, <2>13 DEF AlphaInv
<1>15. CASE fitted' = fitted /\ oos' = oos
  <2>1. \A j \in 1 .. fold : j \in 1 .. k
    BY <1>3, <1>5
  <2>2. AlphaTypes'
    BY <1>1, <1>2, <1>6, <1>11, <1>15, <2>1 DEF AlphaTypes, Alpha!Days, Alpha!Rows
  <2>3. Alpha!PredictedFromThePast'
    BY <1>1, <1>2, <1>15 DEF Alpha!PredictedFromThePast
  <2> QED
    BY <1>2, <1>7, <2>2, <2>3 DEF AlphaInv
<1> QED
  BY <1>10, <1>14, <1>15

\* The calibrator learns from the earlier days.
LEMMA CalibratingIs ==
  ASSUME AlphaTypes
  PROVE  /\ Alpha!Calibrating \subseteq DOMAIN oos
         /\ \A e \in DOMAIN oos \ Alpha!Calibrating, c \in Alpha!Calibrating : c[2] < e[2]
<1>1. PICK dates : dates = {r[2] : r \in DOMAIN oos}
  OBVIOUS
<1>2. \A r \in DOMAIN oos : r[2] \in Alpha!Days
  <2>1. DOMAIN oos \subseteq Alpha!Rows
    BY DEF AlphaTypes
  <2> QED
    BY <2>1, DaysAre
<1>3. dates \subseteq Alpha!Days /\ dates \in SUBSET Int
  BY <1>1, <1>2, DaysAre
<1>4. IsFiniteSet(dates)
  BY <1>3, DaysAre, FS_Subset
<1>5. PICK n : n = Alpha!Cardinality(dates)
  OBVIOUS
<1>6. n \in Nat
  BY <1>4, <1>5, DaysAre, FS_CardinalityType
<1>7. PICK part : part = (55 * n + 99) \div 100
  OBVIOUS
<1>8. part \in Int
  BY <1>6, <1>7
<1>9. PICK early : early = Alpha!Min({n - 2, part})
  OBVIOUS
<1>10. early \in Int
  <2>1. n - 2 \in Int
    BY <1>6
  <2>2. Alpha!Min({n - 2, part}) = IF n - 2 <= part THEN n - 2 ELSE part
    BY <1>8, <2>1, Extremes
  <2> QED
    BY <1>8, <1>9, <2>1, <2>2
<1>11. PICK at : at = Alpha!Max({2, early})
  OBVIOUS
<1>12. at \in Int
  <2>1. 2 \in Int
    OBVIOUS
  <2>2. Alpha!Max({2, early}) = IF 2 >= early THEN 2 ELSE early
    BY <1>10, <2>1, Extremes
  <2> QED
    BY <1>10, <1>11, <2>1, <2>2
<1>13. Alpha!Calibrating =
         {r \in DOMAIN oos :
            r[2] \in {d \in dates : Alpha!Cardinality({e \in dates : e <= d}) <= at}}
  BY <1>1, <1>5, <1>7, <1>9, <1>11 DEF Alpha!Calibrating
<1>14. \A d : Alpha!Cardinality({e \in dates : e <= d}) = Cardinality(Up(dates, d))
  BY DaysAre DEF Up
<1>15. Alpha!Calibrating = {r \in DOMAIN oos : r[2] \in dates /\ Cardinality(Up(dates, r[2])) <= at}
  BY <1>13, <1>14
<1>16. ASSUME NEW e \in DOMAIN oos, e \notin Alpha!Calibrating, NEW c \in Alpha!Calibrating
       PROVE  c[2] < e[2]
  <2>1. PICK x : x = e[2]
    OBVIOUS
  <2>2. PICK y : y = c[2]
    OBVIOUS
  <2>3. x \in dates /\ y \in dates /\ x \in Int /\ y \in Int
    BY <1>1, <1>3, <1>15, <1>16, <2>1, <2>2
  <2>4. Cardinality(Up(dates, y)) <= at /\ ~(Cardinality(Up(dates, x)) <= at)
    BY <1>15, <1>16, <2>1, <2>2, <2>3
  <2>5. /\ x < y => Cardinality(Up(dates, x)) < Cardinality(Up(dates, y))
        /\ Cardinality(Up(dates, x)) \in Nat
    BY <1>3, <1>4, <2>3, RanksGrow
  <2>6. Cardinality(Up(dates, y)) \in Nat
    BY <1>3, <1>4, <2>3, RanksGrow
  <2>7. x # y
    BY <2>4
  <2>8. ~(x < y)
    BY <1>12, <2>4, <2>5, <2>6
  <2> QED
    BY <2>1, <2>2, <2>3, <2>7, <2>8
<1> QED
  BY <1>15, <1>16

\* Every step of the walk-forward
LEMMA AlphaStep ==
  ASSUME AlphaInv, Alpha!Next
  PROVE  AlphaInv'
<1>1. AlphaTypes /\ Alpha!PredictedFromThePast
  BY DEF AlphaInv
<1>2. CASE Alpha!Fold
  BY <1>2, Folding
<1>3. CASE Alpha!Calibrate
  <2>1. /\ fold = Alpha!Folds /\ gate = "open" /\ traded' = traded /\ labelEnd' = labelEnd
        /\ fold' = fold /\ fitted' = fitted /\ oos' = oos /\ forecasts' = forecasts
        /\ calibration = {}
    BY <1>3 DEF Alpha!Calibrate
  <2>2. \/ gate' = "abstain" /\ calibration' = calibration
        \/ gate' = gate /\ calibration' = Alpha!Calibrating
    BY <1>3 DEF Alpha!Calibrate
  <2>3. gate' \in {"open", "abstain"}
    BY <2>1, <2>2
  <2>4. calibration' = {} \/ calibration' = Alpha!Calibrating
    BY <2>1, <2>2
  <2>5. calibration' \subseteq DOMAIN oos
    BY <1>1, <2>4, CalibratingIs
  <2>6. AlphaTypes'
    BY <1>1, <2>1, <2>3, <2>5 DEF AlphaTypes, Alpha!Days, Alpha!Rows
  <2>7. Alpha!PredictedFromThePast'
    BY <1>1, <2>1 DEF Alpha!PredictedFromThePast
  <2>8. (fold = Alpha!Folds)'
    BY <2>1 DEF Alpha!Folds, Alpha!Dates
  <2>9. Alpha!Evaluation' = DOMAIN oos \ calibration'
    BY <2>1 DEF Alpha!Evaluation
  <2>10. (\A e \in Alpha!Evaluation, c \in calibration : c[2] < e[2])'
    BY <1>1, <2>4, <2>9, CalibratingIs
  <2>11. gate' # "passed"
    BY <2>3
  <2> QED
    BY <2>6, <2>7, <2>8, <2>10, <2>11 DEF AlphaInv
<1>4. CASE Alpha!Judge
  <2>1. /\ calibration # {} /\ traded' = traded /\ labelEnd' = labelEnd /\ fold' = fold
        /\ fitted' = fitted /\ oos' = oos /\ forecasts' = forecasts /\ calibration' = calibration
        /\ gate' \in {"passed", "abstain"}
        /\ gate' = "passed" => Alpha!Enough(Alpha!Evaluation)
    BY <1>4 DEF Alpha!Judge
  <2>2. AlphaTypes'
    BY <1>1, <2>1 DEF AlphaTypes, Alpha!Days, Alpha!Rows
  <2>3. Alpha!PredictedFromThePast'
    BY <1>1, <2>1 DEF Alpha!PredictedFromThePast
  <2>4. (fold = Alpha!Folds)'
    BY <2>1 DEF AlphaInv, Alpha!Folds, Alpha!Dates
  <2>5. Alpha!Evaluation' = Alpha!Evaluation
    BY <2>1 DEF Alpha!Evaluation
  <2>6. (\A e \in Alpha!Evaluation, c \in calibration : c[2] < e[2])'
    BY <2>1, <2>5 DEF AlphaInv
  <2>7. (gate = "passed" => calibration # {} /\ Alpha!Enough(Alpha!Evaluation))'
    BY <2>1, <2>5 DEF Alpha!Enough
  <2> QED
    BY <2>2, <2>3, <2>4, <2>6, <2>7 DEF AlphaInv
<1>5. CASE Alpha!Forecast
  <2>1. /\ traded' = traded /\ labelEnd' = labelEnd /\ fold' = fold /\ gate' = gate
        /\ fitted' = fitted /\ oos' = oos /\ calibration' = calibration
        /\ forecasts' = Alpha!Latest
    BY <1>5 DEF Alpha!Forecast
  <2>2. forecasts' \subseteq Alpha!Rows
    BY <2>1 DEF Alpha!Latest
  <2>3. AlphaTypes'
    BY <1>1, <2>1, <2>2 DEF AlphaTypes, Alpha!Days, Alpha!Rows
  <2>4. Alpha!PredictedFromThePast'
    BY <1>1, <2>1 DEF Alpha!PredictedFromThePast
  <2>5. Alpha!Folds' = Alpha!Folds /\ Alpha!Evaluation' = Alpha!Evaluation
    BY <2>1 DEF Alpha!Folds, Alpha!Dates, Alpha!Evaluation
  <2> QED
    BY <2>1, <2>3, <2>4, <2>5 DEF AlphaInv, Alpha!Enough
<1> QED
  BY <1>2, <1>3, <1>4, <1>5 DEF Alpha!Next

\* What it shows
LEMMA AlphaHolds ==
  ASSUME AlphaInv
  PROVE  Alpha!PredictedFromThePast /\ Alpha!PublishedWasMeasured
  BY DEF AlphaInv, Alpha!PublishedWasMeasured

-----------------------------------------------------------------------------
(* The signals.                                                            *)

\* Scores are taken when every asset is loaded, which stays as it is from then.
ScoresInv ==
  /\ DOMAIN data.universe = {1, 4} /\ Scores!Candidates \subseteq Stocks
  /\ \E T : scored \in Seq(T)
  /\ DOMAIN scored # {} \/ outcome # Scores!NoResult => Scores!AllLoaded
  /\ \A i \in DOMAIN scored :
       scored[i].day \in Int /\ scored[i].scores = Scores!Scores(data, scored[i].day)
  /\ outcome.ready => ~outcome.partial /\ Scores!Professional

\* The greatest of a set is one of it, and the least.
LEMMA Picked ==
  ASSUME NEW S \in SUBSET Int, IsFiniteSet(S), S # {}
  PROVE  Scores!Max(S) \in S /\ Scores!Min(S) \in S
<1>1. \E x \in S : \A y \in S : x >= y
  BY Greatest
<1>2. \E x \in S : \A y \in S : x <= y
  BY Least
<1> QED
  BY <1>1, <1>2 DEF Scores!Max, Scores!Min

\* The members of a day are those that were known on it.
LEMMA MembersAreTimely ==
  ASSUME NEW d, DOMAIN data.universe = {1, 4}
  PROVE  Scores!Members(Scores!Known(d), d) = Scores!Members(data, d)
<1>1. PICK K : K = Scores!Known(d)
  OBVIOUS
<1>2. K.universe = [a \in {x \in DOMAIN data.universe : x <= d} |-> data.universe[a]]
  BY <1>1 DEF Scores!Known
<1>3. PICK S : S = {a \in DOMAIN data.universe : a <= d}
  OBVIOUS
<1>4. {a \in DOMAIN K.universe : a <= d} = S
  BY <1>2, <1>3
<1>5. CASE S = {}
  <2>1. Scores!Members(K, d) = {} /\ Scores!Members(data, d) = {}
    BY <1>3, <1>4, <1>5 DEF Scores!Members
  <2> QED
    BY <1>1, <2>1
<1>6. CASE S # {}
  <2>1. S \subseteq {1, 4} /\ S \in SUBSET Int
    BY <1>3
  <2>2. IsFiniteSet({1, 4})
    <3>1. IsFiniteSet({1})
      BY FS_Singleton
    <3>2. IsFiniteSet({1} \cup {4})
      BY <3>1, FS_AddElement
    <3>3. {1, 4} = {1} \cup {4}
      OBVIOUS
    <3> QED
      BY <3>2, <3>3
  <2>3. IsFiniteSet(S)
    BY <2>1, <2>2, FS_Subset
  <2>4. PICK m : m = Scores!Max(S)
    OBVIOUS
  <2>5. m \in S
    BY <1>6, <2>1, <2>3, <2>4, Picked
  <2>6. Scores!Members(K, d) = K.universe[m] /\ Scores!Members(data, d) = data.universe[m]
    BY <1>3, <1>4, <1>6, <2>4 DEF Scores!Members
  <2>7. K.universe[m] = data.universe[m]
    BY <1>2, <1>3, <2>5
  <2> QED
    BY <1>1, <2>6, <2>7
<1> QED
  BY <1>5, <1>6

\* A day of the history that is not before all of them
LEMMA BackIs ==
  ASSUME NEW h \in SUBSET Int, IsFiniteSet(h), NEW n \in Nat, Cardinality(h) > n
  PROVE  Scores!Back(h, n) \in h
<1>1. PICK k : k = Cardinality(h) - n
  OBVIOUS
<1>2. Cardinality(h) \in Nat
  BY FS_CardinalityType
<1>3. k \in Nat /\ k >= 1 /\ k <= Cardinality(h)
  BY <1>1, <1>2
<1>4. \E e \in h : Cardinality(Up(h, e)) = k
  BY <1>3, Ranks
<1>5. \A S : Scores!Cardinality(S) = Cardinality(S)
  BY DEF Cardinality, Scores!Cardinality
<1>6. \E e \in h : Scores!Cardinality({j \in h : j <= e}) = Scores!Cardinality(h) - n
  BY <1>1, <1>4, <1>5 DEF Up
<1> QED
  BY <1>6 DEF Scores!Back

\* Of a stock, no more is known that matters.
LEMMA StockIsTimely ==
  ASSUME NEW d \in Int, NEW s \in Stocks
  PROVE  /\ Scores!HasHistory(Scores!Known(d), s, d) <=> Scores!HasHistory(data, s, d)
         /\ Scores!HasRow(Scores!Known(d), s, d) <=> Scores!HasRow(data, s, d)
         /\ Scores!Latest(Scores!Known(d), s, d) = Scores!Latest(data, s, d)
         /\ Scores!HasHistory(data, s, d) =>
              Scores!Momentum(Scores!Known(d), s, d) = Scores!Momentum(data, s, d)
<1>1. PICK K : K = Scores!Known(d)
  OBVIOUS
<1>2. /\ K.prices[s] = [i \in 1 .. d |-> data.prices[s][i]]
      /\ K.rows[s] = {r \in data.rows[s] : r.announced <= d}
  BY <1>1 DEF Scores!Known
<1>3. PICK h : h = Scores!History(data, s, d)
  OBVIOUS
<1>4. h \subseteq 1 .. d /\ \A i \in 1 .. d : K.prices[s][i] = data.prices[s][i]
  BY <1>2, <1>3 DEF Scores!History
<1>5. Scores!History(K, s, d) = h
  BY <1>3, <1>4 DEF Scores!History
<1>6. Scores!HasHistory(K, s, d) <=> Scores!HasHistory(data, s, d)
  BY <1>3, <1>5 DEF Scores!HasHistory
<1>7. PICK R : R = Scores!Disclosed(data, s, d)
  OBVIOUS
<1>8. Scores!Disclosed(K, s, d) = R
  BY <1>2, <1>7 DEF Scores!Disclosed
<1>9. Scores!Latest(K, s, d) = Scores!Latest(data, s, d)
  BY <1>7, <1>8 DEF Scores!Latest
<1>10. Scores!HasRow(K, s, d) <=> Scores!HasRow(data, s, d)
  BY <1>7, <1>8, <1>9 DEF Scores!HasRow
<1>11. ASSUME Scores!HasHistory(data, s, d)
       PROVE  Scores!Momentum(K, s, d) = Scores!Momentum(data, s, d)
  <2>1. 1 \in Int /\ d \in Int
    OBVIOUS
  <2>2. IsFiniteSet(1 .. d)
    BY <2>1, FS_Interval
  <2>3. h \in SUBSET Int /\ IsFiniteSet(h)
    <3>1. \A i \in 1 .. d : i \in Int
      OBVIOUS
    <3>2. h \in SUBSET (1 .. d)
      BY <1>4
    <3>3. IsFiniteSet(h)
      BY <2>2, <3>2, FS_Subset
    <3> QED
      BY <3>1, <3>2, <3>3
  <2>4. Lookback \in Nat /\ Skip \in Nat /\ Skip <= Lookback
    BY EngineAssumption
  <2>5. Scores!Cardinality(h) = Cardinality(h)
    BY DEF Cardinality, Scores!Cardinality
  <2>6. Cardinality(h) > Lookback
    BY <1>3, <1>11, <2>5 DEF Scores!HasHistory
  <2>7. Cardinality(h) \in Nat /\ Cardinality(h) > Skip
    BY <2>3, <2>4, <2>6, FS_CardinalityType
  <2>8. PICK x : x = Scores!Back(h, Skip)
    OBVIOUS
  <2>9. PICK y : y = Scores!Back(h, Lookback)
    OBVIOUS
  <2>10. x \in h /\ y \in h
    BY <2>3, <2>4, <2>6, <2>7, <2>8, <2>9, BackIs
  <2>11. K.prices[s][x] = data.prices[s][x] /\ K.prices[s][y] = data.prices[s][y]
    BY <1>4, <2>10
  <2>12. /\ Scores!Momentum(K, s, d) = (2 * K.prices[s][x]) \div K.prices[s][y]
         /\ Scores!Momentum(data, s, d) = (2 * data.prices[s][x]) \div data.prices[s][y]
    BY <1>3, <1>5, <2>8, <2>9 DEF Scores!Momentum
  <2> QED
    BY <2>11, <2>12
<1> QED
  BY <1>1, <1>6, <1>9, <1>10, <1>11

\* So a signal rests on what its day knew.
LEMMA ScoresAreTimely ==
  ASSUME NEW d \in Int, DOMAIN data.universe = {1, 4}, Scores!Candidates \subseteq Stocks
  PROVE  Scores!Scores(Scores!Known(d), d) = Scores!Scores(data, d)
<1>1. PICK K : K = Scores!Known(d)
  OBVIOUS
<1>2. PICK U : U = Scores!Members(data, d) \cap Scores!Usable
  OBVIOUS
<1>3. U \subseteq Stocks /\ Scores!Members(K, d) \cap Scores!Usable = U
  BY <1>1, <1>2, MembersAreTimely DEF Scores!Usable
<1>4. /\ Scores!Priced(K, d) = {s \in U : Scores!HasHistory(K, s, d)}
      /\ Scores!Priced(data, d) = {s \in U : Scores!HasHistory(data, s, d)}
  BY <1>2, <1>3 DEF Scores!Priced
<1>5. \A s \in U : Scores!HasHistory(K, s, d) <=> Scores!HasHistory(data, s, d)
  BY <1>1, <1>3, StockIsTimely
<1>6. PICK E : E = Scores!Eligible(data, d)
  OBVIOUS
<1>7. Scores!Priced(K, d) = Scores!Priced(data, d)
  BY <1>4, <1>5
<1>8. \A s \in U : Scores!HasRow(K, s, d) <=> Scores!HasRow(data, s, d)
  BY <1>1, <1>3, StockIsTimely
<1>9. Scores!Eligible(K, d) = E /\ \A s \in E : s \in U /\ Scores!HasHistory(data, s, d)
  BY <1>4, <1>6, <1>7, <1>8 DEF Scores!Eligible
<1>10. PICK m : m = [s \in E |-> Scores!Momentum(data, s, d)]
  OBVIOUS
<1>11. PICK q : q = [s \in E |-> Scores!Latest(data, s, d).value]
  OBVIOUS
<1>12. \A s \in E : /\ Scores!Momentum(K, s, d) = Scores!Momentum(data, s, d)
                    /\ Scores!Latest(K, s, d) = Scores!Latest(data, s, d)
  BY <1>1, <1>3, <1>9, StockIsTimely
<1>13. m = [s \in E |-> Scores!Momentum(K, s, d)]
  BY <1>10, <1>12
<1>14. q = [s \in E |-> Scores!Latest(K, s, d).value]
  BY <1>11, <1>12
<1>15. Scores!Scores(data, d) =
         [s \in E |-> (Scores!Percentile(m, s) + Scores!Percentile(q, s)) \div 2]
  BY <1>6, <1>10, <1>11 DEF Scores!Scores
<1>16. Scores!Scores(K, d) =
         [s \in E |-> (Scores!Percentile(m, s) + Scores!Percentile(q, s)) \div 2]
  BY <1>9, <1>13, <1>14 DEF Scores!Scores
<1> QED
  BY <1>1, <1>15, <1>16

\* While nothing more is loaded, scores are what they were.
LEMMA ScoresStay ==
  ASSUME NEW k, NEW d, UNCHANGED <<data, loaded>>
  PROVE  Scores!Scores(k, d)' = Scores!Scores(k, d)
<1>1. Scores!Usable' = Scores!Usable
  BY DEF Scores!Usable, Scores!Candidates
<1>2. Scores!Eligible(k, d)' = Scores!Eligible(k, d)
  BY <1>1 DEF Scores!Eligible, Scores!Priced
<1> QED
  BY <1>2 DEF Scores!Scores

\* A signal day
LEMMA SignalDay ==
  ASSUME Scores!Pending # {}
  PROVE  Scores!Min(Scores!Pending) \in Int
<1>1. PICK P : P = Scores!Pending
  OBVIOUS
<1>2. Lookback \in Nat /\ LastSession \in Int
  BY EngineAssumption
<1>3. PICK first : first = Lookback + 1
  OBVIOUS
<1>4. PICK last : last = LastSession - 1
  OBVIOUS
<1>5. first \in Int /\ last \in Int
  BY <1>2, <1>3, <1>4
<1>6. IsFiniteSet(first .. last)
  BY <1>5, FS_Interval
<1>7. P \in SUBSET (first .. last)
  BY <1>1, <1>3, <1>4 DEF Scores!Pending, Scores!SignalDays
<1>8. \A i \in first .. last : i \in Int
  BY <1>5
<1>9. IsFiniteSet(P)
  BY <1>6, <1>7, FS_Subset
<1>10. P \in SUBSET Int /\ P # {}
  BY <1>1, <1>7, <1>8
<1> QED
  BY <1>1, <1>9, <1>10, Picked

\* At first nothing is scored.
LEMMA ScoresStart == Scores!Init => ScoresInv
<1> SUFFICES ASSUME Scores!Init PROVE ScoresInv
  OBVIOUS
<1>1. PICK u : u = [x \in {1, 4} |-> IF x = 1 THEN {1, 2} ELSE {2, 3}]
  OBVIOUS
<1>2. data.universe = u /\ scored = <<>> /\ outcome = Scores!NoResult
  BY <1>1 DEF Scores!Init
<1>3. DOMAIN u = {1, 4} /\ u[1] = {1, 2} /\ u[4] = {2, 3}
  BY <1>1
<1>4. Scores!Candidates \subseteq {1, 2, 3}
  BY <1>2, <1>3 DEF Scores!Candidates, Scores!Range
<1>5. Scores!Candidates \subseteq Stocks
  BY <1>4, EngineAssumption
<1>6. DOMAIN scored = {} /\ scored \in Seq({})
  BY <1>2
<1>7. outcome.ready = FALSE
  BY <1>2 DEF Scores!NoResult
<1> QED
  BY <1>2, <1>3, <1>5, <1>6, <1>7 DEF ScoresInv

\* One more signal
LEMMA Adding ==
  ASSUME NEW T, NEW s \in Seq(T), NEW e
  PROVE  /\ Append(s, e) \in Seq(T \cup {e})
         /\ \A i \in DOMAIN Append(s, e) :
              (i \in DOMAIN s /\ Append(s, e)[i] = s[i]) \/ Append(s, e)[i] = e
  OBVIOUS

\* Every step of a selection
LEMMA ScoresStep ==
  ASSUME ScoresInv, Scores!Next
  PROVE  ScoresInv'
<1>0. data' = data
  BY DEF Scores!Next, Scores!Load, Scores!Signal, Scores!GiveUp, Scores!Finish
<1>1. DOMAIN data.universe = {1, 4} /\ Scores!Candidates \subseteq Stocks
      /\ Scores!Candidates' = Scores!Candidates
  BY <1>0 DEF ScoresInv, Scores!Candidates
<1>2. CASE \E s \in Stocks : Scores!Load(s)
  <2>1. PICK s \in Stocks : Scores!Load(s)
    BY <1>2
  <2>2. ~Scores!AllLoaded /\ scored' = scored /\ outcome' = outcome
    BY <2>1 DEF Scores!Load, Scores!AllLoaded
  <2>3. DOMAIN scored = {} /\ outcome = Scores!NoResult
    BY <2>2 DEF ScoresInv
  <2>4. outcome.ready = FALSE
    BY <2>3 DEF Scores!NoResult
  <2>5. DOMAIN scored' = {} /\ outcome' = Scores!NoResult' /\ ~outcome'.ready
    BY <2>2, <2>3, <2>4 DEF Scores!NoResult
  <2>6. (\E T : scored \in Seq(T))'
    BY <2>2 DEF ScoresInv
  <2> QED
    BY <1>0, <1>1, <2>5, <2>6 DEF ScoresInv
<1>3. CASE Scores!Signal \/ Scores!GiveUp \/ Scores!Finish
  <2>1. loaded' = loaded /\ Scores!AllLoaded
    BY <1>3 DEF Scores!Signal, Scores!GiveUp, Scores!Finish
  <2>2. Scores!AllLoaded'
    BY <1>1, <2>1 DEF Scores!AllLoaded
  <2>3. ASSUME NEW i \in DOMAIN scored', i \in DOMAIN scored, scored'[i] = scored[i]
        PROVE  (scored[i].day \in Int /\ scored[i].scores = Scores!Scores(data, scored[i].day))'
    <3>1. PICK k : k = data
      OBVIOUS
    <3>2. PICK d : d = scored[i].day
      OBVIOUS
    <3>3. scored[i].scores = Scores!Scores(k, d) /\ d \in Int
      BY <2>3, <3>1, <3>2 DEF ScoresInv
    <3>4. Scores!Scores(k, d)' = Scores!Scores(k, d)
      BY <1>0, <2>1, ScoresStay
    <3> QED
      BY <1>0, <2>3, <3>1, <3>2, <3>3, <3>4
  <2>4. PICK T : scored \in Seq(T)
    BY DEF ScoresInv
  <2>5. CASE Scores!Signal
    <3>1. PICK k : k = data
      OBVIOUS
    <3>2. PICK d : d = Scores!Min(Scores!Pending)
      OBVIOUS
    <3>3. PICK f : f = Scores!Scores(k, d)
      OBVIOUS
    <3>4. PICK e : e = [day |-> d, observed |-> Scores!Cardinality(Scores!Priced(k, d)),
                        scores |-> f, targets |-> Scores!Targets(f)]
      OBVIOUS
    <3>5. scored' = Append(scored, e) /\ outcome' = outcome /\ Scores!Pending # {}
      BY <2>5, <3>1, <3>2, <3>3, <3>4 DEF Scores!Signal
    <3>6. d \in Int
      BY <3>2, <3>5, SignalDay
    <3>7. (\E S : scored \in Seq(S))'
      BY <2>4, <3>5, Adding
    <3>8. ASSUME NEW i \in DOMAIN scored'
          PROVE  (scored[i].day \in Int /\ scored[i].scores = Scores!Scores(data, scored[i].day))'
      <4>1. (i \in DOMAIN scored /\ scored'[i] = scored[i]) \/ scored'[i] = e
        BY <2>4, <3>5, Adding
      <4>2. ASSUME scored'[i] = e
            PROVE  (scored[i].day \in Int /\ scored[i].scores = Scores!Scores(data, scored[i].day))'
        <5>1. scored'[i].day = d /\ scored'[i].scores = f
          BY <3>4, <4>2
        <5>2. Scores!Scores(k, d)' = Scores!Scores(k, d)
          BY <1>0, <2>1, ScoresStay
        <5> QED
          BY <1>0, <3>1, <3>3, <3>6, <5>1, <5>2
      <4> QED
        BY <2>3, <4>1, <4>2
    <3>9. (outcome.ready => ~outcome.partial /\ Scores!Professional)'
      BY <1>1, <2>1, <3>5 DEF ScoresInv, Scores!Professional
    <3> QED
      BY <1>0, <1>1, <2>2, <3>7, <3>8, <3>9 DEF ScoresInv
  <2>6. CASE Scores!GiveUp \/ Scores!Finish
    <3>1. scored' = scored
      BY <2>6 DEF Scores!GiveUp, Scores!Finish
    <3>2. (outcome.ready => ~outcome.partial /\ Scores!Professional)'
      <4>1. CASE Scores!GiveUp
        <5>1. PICK new : new = [Scores!NoResult EXCEPT !.end = "failed"]
          OBVIOUS
        <5>2. new.ready = FALSE
          BY <5>1 DEF Scores!NoResult
        <5>3. outcome' = new
          BY <4>1, <5>1 DEF Scores!GiveUp
        <5> QED
          BY <5>2, <5>3
      <4>2. CASE Scores!Finish
        <5> DEFINE Passing(ahead, performs) ==
              /\ verified /\ Scores!Professional /\ Scores!Covered /\ performs
              /\ Scores!Cardinality(Scores!Segments) >= MinSegments
              /\ 10 * Scores!Cardinality(ahead) >= 6 * Scores!Cardinality(Scores!Segments)
        <5> DEFINE Partial == ~verified \/ \E s \in Scores!Candidates : loaded[s] # "pair"
        <5>4. \E ahead \in SUBSET Scores!Segments, performs \in BOOLEAN :
                outcome' = [end |-> "done", ready |-> Passing(ahead, performs), partial |-> Partial]
          BY <4>2 DEF Scores!Finish
        <5>5. PICK ahead, performs :
                outcome' = [end |-> "done", ready |-> Passing(ahead, performs), partial |-> Partial]
          BY <5>4
        <5>6. outcome'.ready = Passing(ahead, performs) /\ outcome'.partial = Partial
          <6> HIDE DEF Passing, Partial
          <6> QED
            BY <5>5
        <5>1. /\ outcome'.ready => verified /\ Scores!Professional
              /\ outcome'.partial <=> Partial
          BY <5>6
        <5>2. Scores!Professional => ~ \E s \in Scores!Candidates : loaded[s] # "pair"
          BY DEF Scores!Professional
        <5>3. Scores!Professional' <=> Scores!Professional
          BY <1>1, <2>1 DEF Scores!Professional
        <5> QED
          BY <5>1, <5>2, <5>3
      <4> QED
        BY <2>6, <4>1, <4>2
    <3>3. ASSUME NEW i \in DOMAIN scored'
          PROVE  (scored[i].day \in Int /\ scored[i].scores = Scores!Scores(data, scored[i].day))'
      BY <2>3, <3>1, <3>3
    <3>4. (\E S : scored \in Seq(S))'
      BY <2>4, <3>1
    <3> QED
      BY <1>0, <1>1, <2>2, <3>2, <3>3, <3>4 DEF ScoresInv
  <2> QED
    BY <1>3, <2>5, <2>6
<1> QED
  BY <1>2, <1>3 DEF Scores!Next

\* What it shows
LEMMA ScoresHold ==
  ASSUME ScoresInv
  PROVE  Scores!SignalsAreTimely /\ Scores!ReadyIsComplete
<1>1. Scores!SignalsAreTimely
  <2>1. ASSUME NEW i \in DOMAIN scored
        PROVE  scored[i].scores = Scores!Scores(Scores!Known(scored[i].day), scored[i].day)
    <3>1. PICK d : d = scored[i].day
      OBVIOUS
    <3>2. d \in Int /\ scored[i].scores = Scores!Scores(data, d)
      BY <3>1 DEF ScoresInv
    <3>3. Scores!Scores(Scores!Known(d), d) = Scores!Scores(data, d)
      BY <3>2, ScoresAreTimely DEF ScoresInv
    <3> QED
      BY <3>1, <3>2, <3>3
  <2> QED
    BY <2>1 DEF Scores!SignalsAreTimely
<1>2. Scores!ReadyIsComplete
  <2> SUFFICES ASSUME outcome.ready
               PROVE  /\ ~outcome.partial /\ Scores!Usable = Scores!Candidates
                      /\ \A i \in DOMAIN scored :
                            Scores!Members(data, scored[i].day) \subseteq Scores!Usable
    BY DEF Scores!ReadyIsComplete
  <2>1. ~outcome.partial /\ Scores!Usable = Scores!Candidates
    BY DEF ScoresInv, Scores!Professional, Scores!Usable
  <2>2. ASSUME NEW i \in DOMAIN scored
        PROVE  Scores!Members(data, scored[i].day) \subseteq Scores!Candidates
    <3>1. PICK d : d = scored[i].day
      OBVIOUS
    <3>2. PICK S : S = {a \in DOMAIN data.universe : a <= d}
      OBVIOUS
    <3>3. S \subseteq DOMAIN data.universe /\ DOMAIN data.universe = {1, 4}
      BY <3>2 DEF ScoresInv
    <3>4. IsFiniteSet({1} \cup {4}) /\ {1, 4} = {1} \cup {4}
      BY FS_Singleton, FS_AddElement
    <3>5. S \in SUBSET Int /\ IsFiniteSet(S)
      BY <3>3, <3>4, FS_Subset
    <3>6. ASSUME S # {} PROVE Scores!Members(data, d) \subseteq Scores!Candidates
      <4>1. Scores!Max(S) \in DOMAIN data.universe
        BY <3>3, <3>5, <3>6, Picked
      <4>2. Scores!Members(data, d) = data.universe[Scores!Max(S)]
        BY <3>2, <3>6 DEF Scores!Members
      <4> QED
        BY <4>1, <4>2 DEF Scores!Candidates, Scores!Range
    <3>7. S = {} => Scores!Members(data, d) = {}
      BY <3>2 DEF Scores!Members
    <3> QED
      BY <3>1, <3>6, <3>7
  <2> QED
    BY <2>1, <2>2
<1> QED
  BY <1>1, <1>2

-----------------------------------------------------------------------------
(* The incidents.                                                          *)

Marks == {"none", "opened", "changed", "resolved"}

PartSet == [effective : Incidents!States, observed : Incidents!States, failures : Int,
            successes : Int, first : Int, incident : Int]

\* What an incident is open at, of the marks of one component
OpenAt(marks) == {t \in Incidents!Times : marks[t] \in {"opened", "changed"}}

\* Probes are dated one after the other; those of rows are the past.  The
\* latest row knows of every incident that is open but for those of a probe that
\* was recorded late, and what has one is not operational.
IncidentsInv ==
  /\ now \in Nat /\ now <= MaxTime
  /\ latest \in [at : Int, parts : [Components -> PartSet]] /\ latest.at < now
  /\ incident \in [Components -> [Incidents!Times -> Marks]]
  /\ probe \in [Probers -> [at : Int, scheduled : BOOLEAN,
                            seen : [Components -> Incidents!States]]]
  /\ \A w \in Probers : probe[w].at = -1 \/ (probe[w].at \in Incidents!Times /\ probe[w].at < now)
  /\ \A c \in Components :
       latest.parts[c].incident # Incidents!Never => latest.parts[c].effective # "operational"
  /\ astray \in [Components -> SUBSET Int]
  /\ \A c \in Components : OpenAt(incident[c]) \ astray[c] \subseteq {latest.parts[c].incident}

\* The times
LEMMA Clock ==
  /\ MaxTime \in Nat /\ FailureThreshold \in Nat /\ RecoveryThreshold \in Nat
  /\ Incidents!Never = MaxTime + 1 /\ Incidents!Times = 0 .. MaxTime
  /\ \A t \in Incidents!Times : t \in Int /\ t # Incidents!Never
  BY EngineAssumption DEF Incidents!Never, Incidents!Times

\* What an observation makes of a component and of its incidents
LEMMA Advancing ==
  ASSUME NEW p \in PartSet, p.incident # Incidents!Never => p.effective # "operational",
         NEW state \in Incidents!States, NEW t \in Incidents!Times,
         NEW marks \in [Incidents!Times -> Marks],
         NEW q, q = Incidents!Advanced(p, state, t), NEW late
  PROVE  /\ q \in PartSet
         /\ q.incident # Incidents!Never => q.effective # "operational"
         /\ Incidents!Event(p, q, marks) \in [Incidents!Times -> Marks]
         /\ OpenAt(marks) \ late \subseteq {p.incident}
              => OpenAt(Incidents!Event(p, q, marks)) \ late \subseteq {q.incident}
<1>1. /\ p = [effective |-> p.effective, observed |-> p.observed, failures |-> p.failures,
              successes |-> p.successes, first |-> p.first, incident |-> p.incident]
      /\ p.effective \in Incidents!States /\ p.observed \in Incidents!States
      /\ p.failures \in Int /\ p.successes \in Int /\ p.first \in Int /\ p.incident \in Int
  BY DEF PartSet
<1>2. /\ Incidents!States = {"operational", "unknown", "degraded", "outage"}
      /\ Incidents!Failing = {"degraded", "outage"}
  BY DEF Incidents!States, Incidents!Failing
<1>3. PICK e : e = Incidents!Event(p, q, marks)
  OBVIOUS
<1>4. ASSUME e = marks, q.incident = p.incident \/ p.incident = Incidents!Never
      PROVE  /\ e \in [Incidents!Times -> Marks]
             /\ OpenAt(marks) \ late \subseteq {p.incident} => OpenAt(e) \ late \subseteq {q.incident}
  <2>1. OpenAt(marks) \ late \subseteq {Incidents!Never} => OpenAt(marks) \ late = {}
    BY Clock DEF OpenAt
  <2> QED
    BY <1>4, <2>1
<1>5. ASSUME NEW m \in Marks, e = [marks EXCEPT ![p.incident] = m], q.incident = p.incident
      PROVE  /\ e \in [Incidents!Times -> Marks]
             /\ OpenAt(marks) \ late \subseteq {p.incident} => OpenAt(e) \ late \subseteq {q.incident}
  <2>1. e \in [Incidents!Times -> Marks]
    BY <1>5
  <2>2. \A x \in Incidents!Times : x # p.incident => e[x] = marks[x]
    BY <1>5
  <2> QED
    BY <1>5, <2>1, <2>2 DEF OpenAt
<1>6. CASE state = "unknown"
  <2>1. q = [p EXCEPT !.observed = "unknown", !.successes = 0]
    BY <1>2, <1>6 DEF Incidents!Advanced, Incidents!Unknown
  <2>2. /\ q.effective = p.effective /\ q.observed = "unknown" /\ q.failures = p.failures
        /\ q.successes = 0 /\ q.first = p.first /\ q.incident = p.incident
        /\ q = [effective |-> q.effective, observed |-> q.observed, failures |-> q.failures,
                successes |-> q.successes, first |-> q.first, incident |-> q.incident]
    BY <1>1, <2>1
  <2>3. q \in PartSet
    BY <1>1, <1>2, <2>2 DEF PartSet
  <2>4. e = marks
    BY <1>2, <1>3, <2>2 DEF Incidents!Event
  <2> QED
    BY <1>3, <1>4, <2>2, <2>3, <2>4
<1>7. CASE state = "operational" /\ Incidents!Recovering(p)
  <2>1. PICK n : n = Incidents!UpTo(p.successes, RecoveryThreshold)
    OBVIOUS
  <2>2. n \in Int
    BY <1>1, <2>1, Clock DEF Incidents!UpTo
  <2>3. q = [p EXCEPT !.observed = "operational", !.failures = 0, !.successes = n]
    BY <1>2, <1>7, <2>1 DEF Incidents!Advanced, Incidents!Works
  <2>4. /\ q.effective = p.effective /\ q.observed = "operational" /\ q.failures = 0
        /\ q.successes = n /\ q.first = p.first /\ q.incident = p.incident
        /\ q = [effective |-> q.effective, observed |-> q.observed, failures |-> q.failures,
                successes |-> q.successes, first |-> q.first, incident |-> q.incident]
    BY <1>1, <2>3
  <2>5. q \in PartSet
    BY <1>1, <1>2, <2>2, <2>4 DEF PartSet
  <2>6. e = marks
    BY <1>2, <1>3, <1>7, <2>4 DEF Incidents!Event
  <2> QED
    BY <1>3, <1>4, <2>4, <2>5, <2>6
<1>8. CASE state = "operational" /\ ~Incidents!Recovering(p)
  <2>1. PICK n : n = Incidents!UpTo(p.successes, RecoveryThreshold)
    OBVIOUS
  <2>2. n \in Int
    BY <1>1, <2>1, Clock DEF Incidents!UpTo
  <2>3. q = [effective |-> "operational", observed |-> "operational", failures |-> 0,
             successes |-> n, first |-> Incidents!Never, incident |-> Incidents!Never]
    BY <1>2, <1>8, <2>1 DEF Incidents!Advanced, Incidents!Works
  <2>4. Incidents!Never \in Int
    BY Clock
  <2>5. q \in PartSet /\ q.incident = Incidents!Never /\ q.observed = "operational"
    BY <1>2, <2>2, <2>3, <2>4 DEF PartSet
  <2>6. CASE p.incident = Incidents!Never
    <3>1. e = marks
      BY <1>2, <1>3, <2>5, <2>6 DEF Incidents!Event
    <3> QED
      BY <1>3, <1>4, <2>5, <2>6, <3>1
  <2>7. CASE p.incident # Incidents!Never
    <3>1. e = [marks EXCEPT ![p.incident] = "resolved"]
      BY <1>2, <1>3, <1>8, <2>5, <2>7 DEF Incidents!Event
    <3>2. e \in [Incidents!Times -> Marks]
      BY <3>1 DEF Marks
    <3>3. \A x \in Incidents!Times :
            (x # p.incident => e[x] = marks[x]) /\ (x = p.incident => e[x] = "resolved")
      BY <3>1
    <3>4. OpenAt(marks) \ late \subseteq {p.incident} => OpenAt(e) \ late = {}
      BY <3>3 DEF OpenAt
    <3> QED
      BY <1>3, <2>5, <3>2, <3>4
  <2> QED
    BY <2>6, <2>7
<1>9. CASE state \in Incidents!Failing
  <2>1. PICK n : n = Incidents!UpTo(p.failures, FailureThreshold)
    OBVIOUS
  <2>2. n \in Int
    BY <1>1, <2>1, Clock DEF Incidents!UpTo
  <2>3. PICK first : first = IF p.first = Incidents!Never THEN t ELSE p.first
    OBVIOUS
  <2>4. first \in Int
    BY <1>1, <2>3, Clock
  <2>5. state \in {"degraded", "outage"} /\ state # "unknown" /\ state # "operational"
    BY <1>2, <1>9
  <2>6. q = Incidents!Fails(p, state, t)
    BY <2>5, <1>9 DEF Incidents!Advanced
  <2>7. q = [effective |-> IF p.effective = "operational" /\ n < FailureThreshold
                           THEN "operational" ELSE state,
             observed |-> state, failures |-> n, successes |-> 0, first |-> first,
             incident |-> IF n >= FailureThreshold /\ p.incident = Incidents!Never
                          THEN first ELSE p.incident]
    BY <2>1, <2>3, <2>6 DEF Incidents!Fails
  <2>8. /\ q.effective \in {"operational", state} /\ q.observed = state
        /\ q.effective = "operational" => p.effective = "operational" /\ n < FailureThreshold
        /\ q.incident \in Int
        /\ q.incident = p.incident
           \/ (n >= FailureThreshold /\ p.incident = Incidents!Never /\ q.incident = first)
    BY <1>1, <2>4, <2>5, <2>7
  <2>9. q \in PartSet
    <3>1. q.effective \in Incidents!States /\ q.observed \in Incidents!States
      BY <1>2, <2>5, <2>8
    <3>2. /\ q = [effective |-> q.effective, observed |-> q.observed, failures |-> q.failures,
                  successes |-> q.successes, first |-> q.first, incident |-> q.incident]
          /\ q.failures \in Int /\ q.successes \in Int /\ q.first \in Int
      BY <2>2, <2>4, <2>7
    <3> QED
      BY <2>8, <3>1, <3>2 DEF PartSet
  <2>10. q.incident # Incidents!Never => q.effective # "operational"
    <3>1. n < FailureThreshold => ~(n >= FailureThreshold)
      BY <2>2, Clock
    <3> QED
      BY <2>8, <3>1
  <2>11. CASE p.incident = Incidents!Never /\ q.incident # Incidents!Never
    <3>1. e = [marks EXCEPT ![q.incident] = "opened"]
      BY <1>3, <1>9, <2>5, <2>8, <2>11 DEF Incidents!Event
    <3>2. e \in [Incidents!Times -> Marks]
      BY <3>1 DEF Marks
    <3>3. \A x \in Incidents!Times : x # q.incident => e[x] = marks[x]
      BY <3>1
    <3>4. OpenAt(marks) \ late \subseteq {p.incident} => OpenAt(marks) \ late = {}
      BY <2>11, Clock DEF OpenAt
    <3>5. OpenAt(marks) \ late \subseteq {p.incident} => OpenAt(e) \ late \subseteq {q.incident}
      BY <3>3, <3>4 DEF OpenAt
    <3> QED
      BY <1>3, <2>9, <2>10, <3>2, <3>5
  <2>12. CASE p.incident # Incidents!Never \/ q.incident = Incidents!Never
    <3>1. q.incident = p.incident \/ p.incident = Incidents!Never
      BY <2>8
    <3>2. \/ e = marks
          \/ e = [marks EXCEPT ![p.incident] = "changed"] /\ p.incident # Incidents!Never
      BY <1>2, <1>3, <2>5, <2>8, <2>12 DEF Incidents!Event
    <3>3. ASSUME e = marks
          PROVE  /\ e \in [Incidents!Times -> Marks]
                 /\ OpenAt(marks) \ late \subseteq {p.incident} => OpenAt(e) \ late \subseteq {q.incident}
      BY <1>4, <3>1, <3>3
    <3>4. ASSUME e = [marks EXCEPT ![p.incident] = "changed"], p.incident # Incidents!Never
          PROVE  /\ e \in [Incidents!Times -> Marks]
                 /\ OpenAt(marks) \ late \subseteq {p.incident} => OpenAt(e) \ late \subseteq {q.incident}
      <4>1. "changed" \in Marks /\ q.incident = p.incident
        BY <3>1, <3>4 DEF Marks
      <4> QED
        BY <1>5, <3>4, <4>1
    <3> QED
      BY <1>3, <2>9, <2>10, <3>2, <3>3, <3>4
  <2> QED
    BY <2>11, <2>12
<1> QED
  BY <1>2, <1>6, <1>7, <1>8, <1>9

\* The worst of some states is not "operational" unless all are.
LEMMA WorstIs ==
  ASSUME NEW S \in SUBSET Incidents!States, NEW x \in S, x # "operational"
  PROVE  Incidents!Worst(S) # "operational"
<1>1. Incidents!States = {"operational", "unknown", "degraded", "outage"}
  BY DEF Incidents!States, Incidents!Failing
<1>2. /\ Incidents!Rank("operational") = 0 /\ Incidents!Rank("unknown") = 1
      /\ Incidents!Rank("degraded") = 2 /\ Incidents!Rank("outage") = 3
  BY DEF Incidents!Rank
<1>3. \A r \in S : Incidents!Rank(r) \in 0 .. 3
  BY <1>1, <1>2
<1>4. PICK m \in S : \A r \in S : Incidents!Rank(r) <= Incidents!Rank(m)
  <2>1. CASE "outage" \in S
    BY <1>2, <1>3, <2>1
  <2>2. CASE "outage" \notin S /\ "degraded" \in S
    BY <1>1, <1>2, <2>2
  <2>3. CASE "outage" \notin S /\ "degraded" \notin S
    <3>1. x = "unknown"
      BY <1>1, <2>3
    <3> QED
      BY <1>1, <1>2, <2>3, <3>1
  <2> QED
    BY <2>1, <2>2, <2>3
<1>5. PICK w : w = Incidents!Worst(S)
  OBVIOUS
<1>6. w \in S /\ \A r \in S : Incidents!Rank(r) <= Incidents!Rank(w)
  BY <1>4, <1>5 DEF Incidents!Worst
<1>7. x \in {"unknown", "degraded", "outage"}
  BY <1>1
<1>8. Incidents!Rank(x) >= 1 /\ Incidents!Rank(x) <= Incidents!Rank(w)
  BY <1>2, <1>6, <1>7
<1>9. w # "operational"
  BY <1>2, <1>7, <1>8
<1> QED
  BY <1>5, <1>9

\* At first no incident is open.
LEMMA IncidentsStart == Incidents!Init => IncidentsInv
<1> SUFFICES ASSUME Incidents!Init PROVE IncidentsInv
  OBVIOUS
<1>1. PICK part : part = Incidents!Unprobed
  OBVIOUS
<1>2. part = [effective |-> "unknown", observed |-> "unknown", failures |-> 0, successes |-> 0,
              first |-> Incidents!Never, incident |-> Incidents!Never]
  BY <1>1 DEF Incidents!Unprobed
<1>3. "unknown" \in Incidents!States /\ Incidents!Never \in Int
  BY Clock DEF Incidents!States
<1>4. part \in PartSet /\ part.incident = Incidents!Never
  BY <1>2, <1>3 DEF PartSet
<1>5. latest = [at |-> -1, parts |-> [c \in Components |-> part]] /\ now = 0
  BY <1>1 DEF Incidents!Init, Incidents!NoRow
<1>6. incident = [c \in Components |-> [t \in Incidents!Times |-> "none"]]
  BY DEF Incidents!Init
<1>7. probe = [w \in Probers |->
                 [at |-> -1, scheduled |-> FALSE, seen |-> [c \in Components |-> "unknown"]]]
  BY DEF Incidents!Init, Incidents!Resting
<1>8. latest \in [at : Int, parts : [Components -> PartSet]] /\ latest.at < now
  BY <1>4, <1>5
<1>9. incident \in [Components -> [Incidents!Times -> Marks]]
  BY <1>6 DEF Marks
<1>10. probe \in [Probers -> [at : Int, scheduled : BOOLEAN,
                              seen : [Components -> Incidents!States]]]
  BY <1>3, <1>7
<1>11. \A w \in Probers : probe[w].at = -1
  BY <1>7
<1>12. \A c \in Components : OpenAt(incident[c]) = {}
  BY <1>6 DEF OpenAt
<1>13. \A c \in Components : latest.parts[c].incident = Incidents!Never
  BY <1>4, <1>5
<1>14. now \in Nat /\ now <= MaxTime
  BY <1>5, Clock
<1>15. astray \in [Components -> SUBSET Int]
  BY DEF Incidents!Init
<1> QED
  BY <1>8, <1>9, <1>10, <1>11, <1>12, <1>13, <1>14, <1>15 DEF IncidentsInv

\* What no step of the clock or of a prober touches
LEMMA Collecting ==
  ASSUME IncidentsInv, NEW w \in Probers, latest' = latest, incident' = incident, astray' = astray,
         NEW form \in [at : Int, scheduled : BOOLEAN, seen : [Components -> Incidents!States]],
         probe' = [probe EXCEPT ![w] = form],
         now' \in Nat /\ now' <= MaxTime /\ now' >= now,
         form.at = -1 \/ (form.at = now /\ now' = now + 1)
  PROVE  IncidentsInv'
<1>1. /\ now \in Nat /\ now <= MaxTime /\ MaxTime \in Nat
      /\ latest \in [at : Int, parts : [Components -> PartSet]] /\ latest.at < now
      /\ incident \in [Components -> [Incidents!Times -> Marks]]
      /\ probe \in [Probers -> [at : Int, scheduled : BOOLEAN,
                                seen : [Components -> Incidents!States]]]
  BY Clock DEF IncidentsInv
<1>2. \A v \in Probers : probe[v].at = -1 \/ (probe[v].at \in Incidents!Times /\ probe[v].at < now)
  BY DEF IncidentsInv
<1>3. probe' \in [Probers -> [at : Int, scheduled : BOOLEAN,
                              seen : [Components -> Incidents!States]]]
  BY <1>1
<1>4. \A v \in Probers : v # w => probe'[v] = probe[v]
  BY <1>1
<1>5. probe'[w] = form
  BY <1>1
<1>6. \A v \in Probers : probe[v].at \in Int
  BY <1>1
<1>7. form.at = -1 \/ (form.at \in Incidents!Times /\ form.at < now' /\ form.at = now)
  BY <1>1, Clock
<1>8. ASSUME NEW v \in Probers
      PROVE  (probe[v].at = -1 \/ (probe[v].at \in Incidents!Times /\ probe[v].at < now))'
  <2>1. CASE v = w
    BY <1>5, <1>7, <2>1
  <2>2. CASE v # w
    <3>1. PICK x : x = probe[v].at
      OBVIOUS
    <3>2. x = -1 \/ (x \in Incidents!Times /\ x < now)
      BY <1>2, <3>1
    <3>3. x \in Int /\ probe'[v].at = x
      BY <1>4, <1>6, <2>2, <3>1
    <3>4. x < now => x < now'
      BY <1>1, <3>3
    <3> QED
      BY <3>2, <3>3, <3>4 DEF Incidents!Times
  <2> QED
    BY <2>1, <2>2
<1>11. latest.at \in Int
  BY <1>1
<1>12. latest'.at < now'
  BY <1>1, <1>11
<1>13. (\A c \in Components :
          latest.parts[c].incident # Incidents!Never => latest.parts[c].effective # "operational")'
  BY DEF IncidentsInv, Incidents!Never
<1>14. (\A c \in Components :
          OpenAt(incident[c]) \ astray[c] \subseteq {latest.parts[c].incident})'
  BY DEF IncidentsInv, OpenAt
<1>15. latest' \in [at : Int, parts : [Components -> PartSet]]
       /\ incident' \in [Components -> [Incidents!Times -> Marks]]
       /\ astray' \in [Components -> SUBSET Int]
  BY <1>1 DEF IncidentsInv
<1> QED
  BY <1>3, <1>8, <1>12, <1>13, <1>14, <1>15
  DEF IncidentsInv, Incidents!Times, Incidents!Never, Incidents!States, PartSet

\* One probe is recorded.
LEMMA Recording ==
  ASSUME IncidentsInv, NEW w \in Probers, Incidents!Record(w)
  PROVE  IncidentsInv'
<1>1. /\ now \in Nat /\ now <= MaxTime /\ MaxTime \in Nat
      /\ latest \in [at : Int, parts : [Components -> PartSet]] /\ latest.at < now
      /\ incident \in [Components -> [Incidents!Times -> Marks]]
      /\ probe \in [Probers -> [at : Int, scheduled : BOOLEAN,
                                seen : [Components -> Incidents!States]]]
  BY Clock DEF IncidentsInv
<1>2. PICK rest : rest = Incidents!Resting
  OBVIOUS
<1>3. rest \in [at : Int, scheduled : BOOLEAN, seen : [Components -> Incidents!States]]
      /\ rest.at = -1
  <2>1. "unknown" \in Incidents!States
    BY DEF Incidents!States
  <2>2. rest = [at |-> -1, scheduled |-> FALSE, seen |-> [c \in Components |-> "unknown"]]
    BY <1>2 DEF Incidents!Resting
  <2> QED
    BY <2>1, <2>2
<1>4. /\ probe[w].at # -1 /\ now' = now /\ probe' = [probe EXCEPT ![w] = rest]
  BY <1>2 DEF Incidents!Record
<1>5. CASE latest' = latest /\ incident' = incident /\ astray' = astray
  <2>1. now' \in Nat /\ now' <= MaxTime /\ now' >= now
    BY <1>1, <1>4
  <2> QED
    BY <1>3, <1>4, <1>5, <2>1, Collecting
<1>6. CASE ~(latest' = latest /\ incident' = incident /\ astray' = astray)
  <2>1. PICK at : at = probe[w].at
    OBVIOUS
  <2>2. PICK seen : seen = probe[w].seen
    OBVIOUS
  <2>3. /\ at \in Incidents!Times /\ at \in Int /\ at < now
        /\ seen \in [Components -> Incidents!States]
    BY <1>1, <1>4, <2>1, <2>2 DEF IncidentsInv
  <2>4. PICK P : P = latest.parts
    OBVIOUS
  <2>5. P \in [Components -> PartSet]
    BY <1>1, <2>4
  <2>6. PICK Q : Q = [c \in Components |-> Incidents!Advanced(P[c], seen[c], at)]
    OBVIOUS
  <2>7. incident' = [c \in Components |-> Incidents!Event(P[c], Q[c], incident[c])]
    BY <1>6, <2>1, <2>2, <2>4, <2>6 DEF Incidents!Record
  <2>8. latest' = (IF at > latest.at THEN [at |-> at, parts |-> Q] ELSE latest)
    BY <1>6, <2>1, <2>2, <2>4, <2>6 DEF Incidents!Record
  <2>9. ASSUME NEW c \in Components
        PROVE  /\ Q[c] \in PartSet
               /\ Q[c].incident # Incidents!Never => Q[c].effective # "operational"
               /\ incident'[c] \in [Incidents!Times -> Marks]
               /\ OpenAt(incident'[c]) \ astray[c] \subseteq {Q[c].incident}
    <3>1. PICK p : p = P[c]
      OBVIOUS
    <3>2. PICK q : q = Q[c]
      OBVIOUS
    <3>3. PICK state : state = seen[c]
      OBVIOUS
    <3>4. PICK marks : marks = incident[c]
      OBVIOUS
    <3>5. p \in PartSet /\ state \in Incidents!States /\ marks \in [Incidents!Times -> Marks]
      BY <1>1, <2>3, <2>5, <3>1, <3>3, <3>4
    <3>6. p.incident # Incidents!Never => p.effective # "operational"
      BY <2>4, <3>1 DEF IncidentsInv
    <3>7. q = Incidents!Advanced(p, state, at)
      BY <2>6, <3>1, <3>2, <3>3
    <3>8. PICK e : e = Incidents!Event(p, q, marks)
      OBVIOUS
    <3>9. incident'[c] = e
      BY <2>7, <3>1, <3>2, <3>4, <3>8
    <3>10. /\ q \in PartSet
           /\ q.incident # Incidents!Never => q.effective # "operational"
           /\ e \in [Incidents!Times -> Marks]
           /\ OpenAt(marks) \ astray[c] \subseteq {p.incident}
                => OpenAt(e) \ astray[c] \subseteq {q.incident}
      BY <2>3, <3>5, <3>6, <3>7, <3>8, Advancing
    <3>11. OpenAt(marks) \ astray[c] \subseteq {p.incident}
      BY <2>4, <3>1, <3>4 DEF IncidentsInv
    <3> QED
      BY <3>1, <3>2, <3>4, <3>9, <3>10, <3>11
  <2>10. Q \in [Components -> PartSet]
    BY <2>6, <2>9
  <2>11. incident' \in [Components -> [Incidents!Times -> Marks]]
    <3>1. \A c \in Components : incident'[c] \in [Incidents!Times -> Marks]
      BY <2>9
    <3>2. incident' = [c \in Components |-> incident'[c]]
      BY <2>7
    <3> QED
      BY <3>1, <3>2
  <2>12. latest.at \in Int
    BY <1>1
  <2>13. PICK L : L = latest'
    OBVIOUS
  <2>14. /\ L \in [at : Int, parts : [Components -> PartSet]]
         /\ (L = latest /\ ~(at > latest.at)) \/ (L.at = at /\ L.parts = Q)
    BY <1>1, <2>3, <2>8, <2>10, <2>13
  <2>15. L.at < now
    BY <1>1, <2>3, <2>12, <2>14
  <2>16. \A v \in Probers : v # w => probe'[v] = probe[v]
    BY <1>1, <1>4
  <2>17. probe'[w].at = -1
    BY <1>1, <1>3, <1>4
  <2>18. \A c \in Components :
           L.parts[c].incident # Incidents!Never => L.parts[c].effective # "operational"
    BY <2>9, <2>14 DEF IncidentsInv
  <2>19. /\ astray' \in [Components -> SUBSET Int]
         /\ \A c \in Components : OpenAt(incident'[c]) \ astray'[c] \subseteq {L.parts[c].incident}
    <3>1. astray \in [Components -> SUBSET Int]
      BY DEF IncidentsInv
    <3>2. CASE at > latest.at
      <4>1. L.parts = Q
        BY <2>14, <3>2
      <4>2. astray' = astray
        BY <1>6, <2>1, <3>2 DEF Incidents!Record
      <4> QED
        BY <2>9, <3>1, <4>1, <4>2
    <3>3. CASE ~(at > latest.at)
      <4>1. L = latest
        BY <2>8, <2>13, <3>3
      <4>2. astray' = [c \in Components |->
                         astray[c] \cup ({Q[c].incident} \ {P[c].incident, Incidents!Never})]
        BY <1>6, <2>1, <2>2, <2>4, <2>6, <3>3 DEF Incidents!Record
      <4>3. \A c \in Components : Q[c].incident \in Int
        BY <2>9 DEF PartSet
      <4>4. \A c \in Components : Incidents!Never \notin OpenAt(incident'[c])
        BY Clock DEF OpenAt
      <4> QED
        BY <2>4, <2>9, <3>1, <4>1, <4>2, <4>3, <4>4
    <3> QED
      BY <3>2, <3>3
  <2>20. probe' \in [Probers -> [at : Int, scheduled : BOOLEAN,
                                 seen : [Components -> Incidents!States]]]
    BY <1>1, <1>3, <1>4
  <2>21. (\A v \in Probers :
            probe[v].at = -1 \/ (probe[v].at \in Incidents!Times /\ probe[v].at < now))'
    BY <1>4, <2>16, <2>17 DEF IncidentsInv, Incidents!Times
  <2>22. (\A c \in Components :
            OpenAt(incident[c]) \ astray[c] \subseteq {latest.parts[c].incident})'
    BY <2>13, <2>19 DEF OpenAt, Incidents!Times
  <2> QED
    BY <1>1, <1>4, <2>11, <2>13, <2>14, <2>15, <2>18, <2>19, <2>20, <2>21, <2>22
    DEF IncidentsInv, Incidents!Times, Incidents!Never, Incidents!States, PartSet
<1> QED
  BY <1>5, <1>6

\* Every step
LEMMA IncidentsStep ==
  ASSUME IncidentsInv, Incidents!Next
  PROVE  IncidentsInv'
<1>1. /\ now \in Nat /\ now <= MaxTime /\ MaxTime \in Nat
      /\ probe \in [Probers -> [at : Int, scheduled : BOOLEAN,
                                seen : [Components -> Incidents!States]]]
  BY Clock DEF IncidentsInv
<1>2. PICK rest : rest = Incidents!Resting
  OBVIOUS
<1>3. rest \in [at : Int, scheduled : BOOLEAN, seen : [Components -> Incidents!States]]
      /\ rest.at = -1
  <2>1. "unknown" \in Incidents!States
    BY DEF Incidents!States
  <2>2. rest = [at |-> -1, scheduled |-> FALSE, seen |-> [c \in Components |-> "unknown"]]
    BY <1>2 DEF Incidents!Resting
  <2> QED
    BY <2>1, <2>2
<1>4. CASE Incidents!Pass
  <2>1. /\ now < MaxTime /\ now' = now + 1 /\ latest' = latest /\ incident' = incident
        /\ probe' = probe /\ astray' = astray
    BY <1>4 DEF Incidents!Pass
  <2>2. now' \in Nat /\ now' <= MaxTime /\ now < now'
    BY <1>1, <2>1
  <2>3. latest.at < now' /\ \A w \in Probers : probe[w].at < now => probe[w].at < now'
    <3>1. latest.at \in Int /\ \A w \in Probers : probe[w].at \in Int
      BY <1>1 DEF IncidentsInv
    <3>2. latest.at < now
      BY DEF IncidentsInv
    <3> QED
      BY <1>1, <2>2, <3>1, <3>2
  <2> QED
    BY <2>1, <2>2, <2>3
    DEF IncidentsInv, Incidents!Times, Incidents!Never, Incidents!States, PartSet, OpenAt
<1>5. ASSUME NEW w \in Probers, Incidents!Record(w) PROVE IncidentsInv'
  BY <1>5, Recording
<1>6. ASSUME NEW w \in Probers, Incidents!Lose(w) PROVE IncidentsInv'
  <2>1. /\ probe' = [probe EXCEPT ![w] = rest]
        /\ now' = now /\ latest' = latest /\ incident' = incident /\ astray' = astray
    BY <1>2, <1>6 DEF Incidents!Lose
  <2>2. now' \in Nat /\ now' <= MaxTime /\ now' >= now
    BY <1>1, <2>1
  <2> QED
    BY <1>3, <2>1, <2>2, Collecting
<1>7. ASSUME NEW w \in Probers, NEW scheduled \in BOOLEAN,
             NEW seen \in [Components -> Incidents!States], Incidents!Collect(w, scheduled, seen)
      PROVE  IncidentsInv'
  <2>1. PICK form : form = [at |-> now, scheduled |-> scheduled, seen |-> seen]
    OBVIOUS
  <2>2. form \in [at : Int, scheduled : BOOLEAN, seen : [Components -> Incidents!States]]
        /\ form.at = now
    BY <1>1, <2>1
  <2>3. /\ probe' = [probe EXCEPT ![w] = form] /\ now < MaxTime /\ now' = now + 1
        /\ latest' = latest /\ incident' = incident /\ astray' = astray
    BY <1>7, <2>1 DEF Incidents!Collect
  <2>4. now' \in Nat /\ now' <= MaxTime /\ now' >= now
    BY <1>1, <2>3
  <2> QED
    BY <2>2, <2>3, <2>4, Collecting
<1> QED
  BY <1>4, <1>5, <1>6, <1>7 DEF Incidents!Next

\* What it shows
LEMMA IncidentsHold ==
  ASSUME IncidentsInv
  PROVE  Incidents!OpenIncidentsAreKnown /\ Incidents!IncidentsShow
<1>1. Incidents!OpenIncidentsAreKnown
  BY DEF IncidentsInv, OpenAt, Incidents!OpenIncidentsAreKnown, Incidents!OpenIncidents
<1>2. Incidents!IncidentsShow
  <2> SUFFICES ASSUME NEW c \in Components, latest.parts[c].incident # Incidents!Never
               PROVE  Incidents!Status # "operational"
    BY DEF Incidents!IncidentsShow
  <2>1. PICK S : S = {latest.parts[x].observed : x \in Components} \cup
                     {latest.parts[x].effective : x \in Components}
    OBVIOUS
  <2>2. latest.parts \in [Components -> PartSet]
    BY DEF IncidentsInv
  <2>3. \A x \in Components : latest.parts[x].observed \in Incidents!States
                              /\ latest.parts[x].effective \in Incidents!States
    BY <2>2 DEF PartSet
  <2>4. S \in SUBSET Incidents!States /\ latest.parts[c].effective \in S
    BY <2>1, <2>3
  <2>5. latest.parts[c].effective # "operational"
    BY DEF IncidentsInv
  <2>6. Incidents!Worst(S) # "operational"
    BY <2>4, <2>5, WorstIs
  <2>7. Incidents!Status = "unknown" \/ Incidents!Status = Incidents!Worst(S)
    BY <2>1 DEF Incidents!Status
  <2> QED
    BY <2>6, <2>7
<1> QED
  BY <1>1, <1>2

-----------------------------------------------------------------------------
(* The selection runs.                                                     *)

RunSet == [status : {"none", "queued", "running", "succeeded", "partial", "failed"},
           bound : BOOLEAN, result : Results \cup {None}]

FormSet == [at : {"idle", "created", "bind", "freeze", "enroll"}, run : Runs \cup {None},
            saw : Results \cup Nat \cup {None}]

\* A run s with job j, executors e, mandate m and validation v
RunIs(s, j, e, m, v) ==
  /\ s.status = "none" => s.result = None /\ ~s.bound /\ j = "none" /\ e = {}
  /\ j = "succeeded" => s.result # None
  /\ s.status \in {"succeeded", "partial"} <=> s.result # None
  /\ m # None => m = s.result
  /\ v # None => /\ v.result = s.result /\ m # None /\ v.after \in Nat
                 /\ v.entered # None => v.entered > v.after

\* What a request f to such a run rests on
Asks(f, s, j, e, m) ==
  /\ f.at = "created" => s.status = "queued" /\ j = "none" /\ e = {}
  /\ f.at = "bind" => s.status # "none"
  /\ f.at = "freeze" => f.saw # None /\ s.result = f.saw
  /\ f.at = "enroll" => f.saw \in Nat /\ m # None

Starting(f) == f.at \in {"created", "bind"}

\* A result stays, so that a request finds what it has read; and one request at
\* most is starting a run.
SelectionInv ==
  /\ run \in [Runs -> RunSet] /\ DOMAIN job = Runs /\ job = [r \in Runs |-> job[r]]
  /\ executor = [r \in Runs |-> executor[r]] /\ mandate = [r \in Runs |-> mandate[r]]
  /\ validation = [r \in Runs |-> validation[r]]
  /\ today \in Nat /\ request \in [Requests -> FormSet]
  /\ \A r \in Runs : RunIs(run[r], job[r], executor[r], mandate[r], validation[r])
  /\ \A q \in Requests : request[q].at # "idle" =>
       /\ request[q].run \in Runs
       /\ Asks(request[q], run[request[q].run], job[request[q].run], executor[request[q].run],
               mandate[request[q].run])
  /\ \A q \in Requests, p \in Requests :
       q # p /\ Starting(request[q]) /\ Starting(request[p]) => request[q].run # request[p].run

\* One run and the request of Q, if any, move.
Move(r, s, j, e, m, v, Q, f) ==
  /\ r \in Runs /\ s \in RunSet /\ Q \in SUBSET Requests /\ f \in FormSet
  /\ run' = [run EXCEPT ![r] = s] /\ job' = [job EXCEPT ![r] = j]
  /\ executor' = [executor EXCEPT ![r] = e] /\ mandate' = [mandate EXCEPT ![r] = m]
  /\ validation' = [validation EXCEPT ![r] = v] /\ today' \in Nat
  /\ RunIs(s, j, e, m, v)
  /\ request' = [p \in Requests |-> IF p \in Q THEN f ELSE request[p]]
  /\ \/ s.status = run[r].status /\ j = job[r] /\ e = executor[r]
     \/ \A p \in Requests \ Q : request[p].at = "created" => request[p].run # r
  /\ s.status = "none" => run[r].status = "none"
  /\ run[r].result # None => s.result = run[r].result
  /\ mandate[r] # None => m # None
  /\ Q # {} => f.at = "idle" \/ (f.run = r /\ Asks(f, s, j, e, m))
  /\ Q # {} /\ f.at = "bind" =>
       \E q \in Requests : Q = {q} /\ request[q].at = "created" /\ request[q].run = r
  /\ Q # {} /\ f.at = "created" => run[r].status = "none" /\ \E q \in Requests : Q = {q}

\* Such a move keeps the invariant.
LEMMA Moving ==
  ASSUME SelectionInv, NEW r, NEW s, NEW j, NEW e, NEW m, NEW v, NEW Q, NEW f,
         Move(r, s, j, e, m, v, Q, f)
  PROVE  SelectionInv'
<1>0. /\ r \in Runs /\ s \in RunSet /\ Q \in SUBSET Requests /\ f \in FormSet
      /\ run' = [run EXCEPT ![r] = s] /\ job' = [job EXCEPT ![r] = j]
      /\ executor' = [executor EXCEPT ![r] = e] /\ mandate' = [mandate EXCEPT ![r] = m]
      /\ validation' = [validation EXCEPT ![r] = v] /\ today' \in Nat
      /\ RunIs(s, j, e, m, v)
      /\ request' = [p \in Requests |-> IF p \in Q THEN f ELSE request[p]]
      /\ \/ s.status = run[r].status /\ j = job[r] /\ e = executor[r]
         \/ \A p \in Requests \ Q : request[p].at = "created" => request[p].run # r
      /\ s.status = "none" => run[r].status = "none"
      /\ run[r].result # None => s.result = run[r].result
      /\ mandate[r] # None => m # None
      /\ Q # {} => f.at = "idle" \/ (f.run = r /\ Asks(f, s, j, e, m))
      /\ Q # {} /\ f.at = "bind" =>
           \E q \in Requests : Q = {q} /\ request[q].at = "created" /\ request[q].run = r
      /\ Q # {} /\ f.at = "created" => run[r].status = "none" /\ \E q \in Requests : Q = {q}
  BY DEF Move
<1>1. /\ run \in [Runs -> RunSet] /\ job = [x \in Runs |-> job[x]]
      /\ executor = [x \in Runs |-> executor[x]] /\ mandate = [x \in Runs |-> mandate[x]]
      /\ validation = [x \in Runs |-> validation[x]] /\ request \in [Requests -> FormSet]
  BY <1>0 DEF SelectionInv
<1>2. /\ run' \in [Runs -> RunSet] /\ DOMAIN job' = Runs /\ job' = [x \in Runs |-> job'[x]]
      /\ executor' = [x \in Runs |-> executor'[x]] /\ mandate' = [x \in Runs |-> mandate'[x]]
      /\ validation' = [x \in Runs |-> validation'[x]]
  BY <1>0, <1>1
<1>3. /\ run'[r] = s /\ job'[r] = j /\ executor'[r] = e /\ mandate'[r] = m /\ validation'[r] = v
      /\ \A x \in Runs : x # r =>
           /\ run'[x] = run[x] /\ job'[x] = job[x] /\ executor'[x] = executor[x]
           /\ mandate'[x] = mandate[x] /\ validation'[x] = validation[x]
  BY <1>0, <1>1
<1>4. request' \in [Requests -> FormSet] /\ \A p \in Requests :
        (p \in Q => request'[p] = f) /\ (p \notin Q => request'[p] = request[p])
  BY <1>0, <1>1
<1>5. ASSUME NEW x \in Runs PROVE RunIs(run[x], job[x], executor[x], mandate[x], validation[x])'
  <2>1. CASE x = r
    BY <1>0, <1>3, <2>1 DEF RunIs
  <2>2. CASE x # r
    <3>1. RunIs(run[x], job[x], executor[x], mandate[x], validation[x])
      BY <1>0, <1>5 DEF SelectionInv
    <3>2. /\ run'[x] = run[x] /\ job'[x] = job[x] /\ executor'[x] = executor[x]
          /\ mandate'[x] = mandate[x] /\ validation'[x] = validation[x] /\ today' \in Nat
      BY <1>0, <1>3, <1>5, <2>2
    <3> QED
      BY <3>1, <3>2 DEF RunIs
  <2> QED
    BY <1>0, <2>1, <2>2
<1>6. ASSUME NEW g \in FormSet, g.run = r, NEW q \in Requests, g = request[q], q \notin Q,
             Asks(g, run[r], job[r], executor[r], mandate[r])
      PROVE  Asks(g, s, j, e, m)
  <2>1. g.at = "created" => s.status = "queued" /\ j = "none" /\ e = {}
    BY <1>0, <1>6 DEF Asks
  <2>2. g.at = "bind" => s.status # "none"
    BY <1>0, <1>6 DEF Asks
  <2>3. g.at = "freeze" => g.saw # None /\ s.result = g.saw
    BY <1>0, <1>6 DEF Asks
  <2>4. g.at = "enroll" => g.saw \in Nat /\ m # None
    BY <1>0, <1>6 DEF Asks
  <2> QED
    BY <1>0, <2>1, <2>2, <2>3, <2>4 DEF Asks
<1>7. ASSUME NEW q \in Requests, request'[q].at # "idle"
      PROVE  /\ request'[q].run \in Runs
             /\ Asks(request'[q], run'[request'[q].run], job'[request'[q].run],
                     executor'[request'[q].run], mandate'[request'[q].run])
  <2>1. CASE q \in Q
    <3>1. request'[q] = f /\ f.run = r /\ Asks(f, s, j, e, m)
      BY <1>0, <1>4, <1>7, <2>1
    <3> QED
      BY <1>0, <1>3, <3>1
  <2>2. CASE q \notin Q
    <3>1. PICK g : g = request[q]
      OBVIOUS
    <3>2. g \in FormSet /\ request'[q] = g /\ g.at # "idle"
      BY <1>0, <1>1, <1>4, <1>7, <2>2, <3>1
    <3>3. g.run \in Runs /\ Asks(g, run[g.run], job[g.run], executor[g.run], mandate[g.run])
      BY <1>0, <3>1, <3>2 DEF SelectionInv
    <3>4. CASE g.run = r
      <4>1. Asks(g, s, j, e, m)
        BY <1>0, <1>6, <2>2, <3>1, <3>2, <3>3, <3>4
      <4> QED
        BY <1>0, <1>3, <3>2, <3>4, <4>1
    <3>5. CASE g.run # r
      BY <1>0, <1>3, <3>2, <3>3, <3>5
    <3> QED
      BY <1>0, <3>4, <3>5
  <2> QED
    BY <1>0, <2>1, <2>2
<1>8. ASSUME NEW q \in Requests, NEW p \in Requests, q # p, q \in Q, p \notin Q,
             Starting(f), Starting(request[p])
      PROVE  f.run # request[p].run
  <2>1. f.run = r /\ request[p].run \in Runs /\ run[request[p].run].status # "none"
    <3>1. f.at # "idle" /\ request[p].at # "idle"
      BY <1>0, <1>8 DEF Starting
    <3>2. request[p].run \in Runs
          /\ Asks(request[p], run[request[p].run], job[request[p].run],
                  executor[request[p].run], mandate[request[p].run])
      BY <1>0, <3>1 DEF SelectionInv
    <3> QED
      BY <1>0, <1>8, <3>1, <3>2 DEF Asks, Starting
  <2>2. CASE f.at = "created"
    BY <1>0, <1>8, <2>1, <2>2
  <2>3. CASE f.at = "bind"
    <3>1. request[q].at = "created" /\ request[q].run = r
      BY <1>0, <1>8, <2>3
    <3>2. request[q].run # request[p].run
      BY <1>0, <1>8, <3>1 DEF SelectionInv, Starting
    <3> QED
      BY <1>0, <2>1, <3>1, <3>2
  <2> QED
    BY <1>0, <1>8, <2>2, <2>3 DEF Starting
<1>9. ASSUME NEW q \in Requests, NEW p \in Requests, q # p, Starting(request'[q]),
             Starting(request'[p])
      PROVE  request'[q].run # request'[p].run
  <2>1. CASE q \in Q /\ p \in Q
    <3>1. Starting(f)
      BY <1>0, <1>4, <1>9, <2>1
    <3> QED
      BY <1>0, <1>9, <2>1, <3>1 DEF Starting
  <2>2. CASE q \in Q /\ p \notin Q
    BY <1>0, <1>4, <1>8, <1>9, <2>2
  <2>3. CASE q \notin Q /\ p \in Q
    BY <1>0, <1>4, <1>8, <1>9, <2>3
  <2>4. CASE q \notin Q /\ p \notin Q
    BY <1>0, <1>4, <1>9, <2>4 DEF SelectionInv
  <2> QED
    BY <1>0, <2>1, <2>2, <2>3, <2>4
<1>10. (\A q \in Requests, p \in Requests :
          q # p /\ Starting(request[q]) /\ Starting(request[p]) => request[q].run # request[p].run)'
  BY <1>0, <1>9 DEF Starting
<1>11. (\A q \in Requests : request[q].at # "idle" =>
          /\ request[q].run \in Runs
          /\ Asks(request[q], run[request[q].run], job[request[q].run],
                  executor[request[q].run], mandate[request[q].run]))'
  BY <1>0, <1>7 DEF Asks
<1> QED
  BY <1>0, <1>2, <1>4, <1>5, <1>10, <1>11 DEF SelectionInv

\* Writing what is there changes nothing.
LEMMA Rewriting ==
  ASSUME SelectionInv
  PROVE  /\ \A r \in Runs : /\ run = [run EXCEPT ![r] = run[r]] /\ job = [job EXCEPT ![r] = job[r]]
                            /\ executor = [executor EXCEPT ![r] = executor[r]]
                            /\ mandate = [mandate EXCEPT ![r] = mandate[r]]
                            /\ validation = [validation EXCEPT ![r] = validation[r]]
                            /\ run[r] \in RunSet
                            /\ RunIs(run[r], job[r], executor[r], mandate[r], validation[r])
         /\ \A f : request = [p \in Requests |-> IF p \in {} THEN f ELSE request[p]]
         /\ \A f : \A q \in Requests :
              [request EXCEPT ![q] = f] = [p \in Requests |-> IF p \in {q} THEN f ELSE request[p]]
         /\ today \in Nat /\ {} \in SUBSET Requests /\ \A q \in Requests : {q} \in SUBSET Requests
         /\ Selection!Idle \in FormSet /\ Selection!Idle.at = "idle"
<1>1. /\ run \in [Runs -> RunSet] /\ job = [x \in Runs |-> job[x]]
      /\ executor = [x \in Runs |-> executor[x]] /\ mandate = [x \in Runs |-> mandate[x]]
      /\ validation = [x \in Runs |-> validation[x]] /\ request \in [Requests -> FormSet]
      /\ today \in Nat
      /\ \A r \in Runs : RunIs(run[r], job[r], executor[r], mandate[r], validation[r])
  BY DEF SelectionInv
<1>2. Selection!Idle \in FormSet /\ Selection!Idle.at = "idle"
  BY DEF Selection!Idle, FormSet
<1>3. ASSUME NEW r \in Runs
      PROVE  /\ run = [run EXCEPT ![r] = run[r]] /\ job = [job EXCEPT ![r] = job[r]]
             /\ executor = [executor EXCEPT ![r] = executor[r]]
             /\ mandate = [mandate EXCEPT ![r] = mandate[r]]
             /\ validation = [validation EXCEPT ![r] = validation[r]]
             /\ run[r] \in RunSet
  BY <1>1
<1>4. \A f : request = [p \in Requests |-> IF p \in {} THEN f ELSE request[p]]
  BY <1>1
<1>5. ASSUME NEW q \in Requests, NEW f
      PROVE  [request EXCEPT ![q] = f] = [p \in Requests |-> IF p \in {q} THEN f ELSE request[p]]
  BY <1>1
<1> QED
  BY <1>1, <1>2, <1>3, <1>4, <1>5

\* What is asked of a run, and what it is then
LEMMA Asking ==
  ASSUME SelectionInv, NEW q \in Requests, request[q].at # "idle"
  PROVE  /\ request[q].run \in Runs
         /\ Asks(request[q], run[request[q].run], job[request[q].run], executor[request[q].run],
                 mandate[request[q].run])
         /\ request[q].at = "created" => \A p \in Requests \ {q} :
              request[p].at = "created" => request[p].run # request[q].run
  BY DEF SelectionInv, Starting

\* A run that somebody executes, or has a job, is not being created.
LEMMA Executed ==
  ASSUME SelectionInv, NEW r \in Runs, executor[r] # {} \/ job[r] # "none"
  PROVE  \A p \in Requests : request[p].at = "created" => request[p].run # r
<1> SUFFICES ASSUME NEW p \in Requests, request[p].at = "created", request[p].run = r
             PROVE FALSE
  OBVIOUS
<1>1. Asks(request[p], run[r], job[r], executor[r], mandate[r])
  BY Asking
<1> QED
  BY <1>1 DEF Asks

\* The run fails, unless it has ended.
LEMMA FailedIs ==
  ASSUME SelectionInv, NEW r \in Runs, NEW s, s = Selection!Failed(r)
  PROVE  /\ s \in RunSet /\ s.result = run[r].result
         /\ \/ s.status = run[r].status
            \/ s.status = "failed" /\ run[r].status \notin Selection!Terminal
         /\ s.status # "none"
<1>1. run[r] \in RunSet
  BY DEF SelectionInv
<1>2. CASE run[r].status \in Selection!Terminal
  <2>1. s = run[r]
    BY <1>2 DEF Selection!Failed
  <2> QED
    BY <1>1, <1>2, <2>1 DEF Selection!Terminal
<1>3. CASE run[r].status \notin Selection!Terminal
  <2>1. s = [run[r] EXCEPT !.status = "failed"]
    BY <1>3 DEF Selection!Failed
  <2>2. PICK old : old = run[r]
    OBVIOUS
  <2>3. /\ s = [status |-> "failed", bound |-> old.bound, result |-> old.result]
        /\ old.bound \in BOOLEAN /\ old.result \in Results \cup {None}
    BY <1>1, <2>1, <2>2 DEF RunSet
  <2>4. s \in RunSet /\ s.result = old.result /\ s.status = "failed"
    BY <2>3 DEF RunSet
  <2> QED
    BY <1>3, <2>2, <2>4
<1> QED
  BY <1>2, <1>3

\* It keeps what it says of job, mandate and validation.
LEMMA FailingKeeps ==
  ASSUME NEW old, NEW s, NEW j, NEW e, NEW e2, NEW m, NEW v, RunIs(old, j, e, m, v),
         s.result = old.result, s.status # "none", old.status # "none",
         s.status = old.status \/ (s.status = "failed" /\ old.status \notin Selection!Terminal),
         NEW j2, j2 = "succeeded" => s.result # None
  PROVE  RunIs(s, j2, e2, m, v)
  BY DEF RunIs, Selection!Terminal

\* At first there is nothing.
LEMMA SelectionStart == Selection!Init => SelectionInv
<1> SUFFICES ASSUME Selection!Init PROVE SelectionInv
  OBVIOUS
<1>1. PICK s : s = Selection!NoRun
  OBVIOUS
<1>2. s \in RunSet /\ s.status = "none" /\ s.result = None /\ s.bound = FALSE
  BY <1>1 DEF Selection!NoRun, RunSet
<1>3. /\ run = [r \in Runs |-> s] /\ job = [r \in Runs |-> "none"]
      /\ executor = [r \in Runs |-> {}] /\ mandate = [r \in Runs |-> None]
      /\ validation = [r \in Runs |-> None] /\ today = 0
      /\ request = [q \in Requests |-> Selection!Idle]
  BY <1>1 DEF Selection!Init
<1>4. Selection!Idle \in FormSet /\ Selection!Idle.at = "idle"
  BY DEF Selection!Idle, FormSet
<1>5. \A q \in Requests : request[q].at = "idle"
  BY <1>3, <1>4
<1>6. RunIs(s, "none", {}, None, None)
  BY <1>2 DEF RunIs
<1>7. \A r \in Runs : RunIs(run[r], job[r], executor[r], mandate[r], validation[r])
  BY <1>3, <1>6
<1>8. \A q \in Requests : ~Starting(request[q])
  BY <1>5 DEF Starting
<1>9. /\ run \in [Runs -> RunSet] /\ DOMAIN job = Runs /\ job = [r \in Runs |-> job[r]]
      /\ executor = [r \in Runs |-> executor[r]] /\ mandate = [r \in Runs |-> mandate[r]]
      /\ validation = [r \in Runs |-> validation[r]] /\ request \in [Requests -> FormSet]
  BY <1>2, <1>3, <1>4
<1> QED
  BY <1>3, <1>5, <1>7, <1>8, <1>9 DEF SelectionInv

\* The steps that start a run
LEMMA StartingRuns ==
  ASSUME SelectionInv, NEW q \in Requests,
         \/ \E r \in Runs : Selection!Create(q, r)
         \/ Selection!ExecuteInline(q) \/ Selection!CreateJob(q) \/ Selection!Bind(q)
         \/ Selection!Drop(q)
  PROVE  SelectionInv'
<1>1. CASE \E r \in Runs : Selection!Create(q, r)
  <2>1. PICK r \in Runs : Selection!Create(q, r)
    BY <1>1
  <2>2. PICK old : old = run[r]
    OBVIOUS
  <2>3. PICK s : s = [old EXCEPT !.status = "queued"]
    OBVIOUS
  <2>4. PICK f : f = [Selection!Idle EXCEPT !.at = "created", !.run = r]
    OBVIOUS
  <2>5. /\ old = Selection!NoRun /\ run' = [run EXCEPT ![r] = s]
        /\ request' = [request EXCEPT ![q] = f]
        /\ job' = job /\ executor' = executor /\ mandate' = mandate /\ validation' = validation
        /\ today' = today
    <3>1. run' = [run EXCEPT ![r].status = "queued"]
      BY <2>1 DEF Selection!Create
    <3>2. run' = [run EXCEPT ![r] = s]
      BY <2>2, <2>3, <3>1
    <3> QED
      BY <2>1, <2>2, <2>4, <3>2 DEF Selection!Create, Selection!Become, Selection!frozen
  <2>6. /\ s \in RunSet /\ s.status = "queued" /\ s.result = None /\ old.status = "none"
        /\ old.result = None /\ s.bound = FALSE
    <3>1. s = [status |-> "queued", bound |-> FALSE, result |-> None]
      BY <2>3, <2>5 DEF Selection!NoRun
    <3> QED
      BY <2>5, <3>1 DEF RunSet, Selection!NoRun
  <2>7. f = [at |-> "created", run |-> r, saw |-> None]
    BY <2>4 DEF Selection!Idle
  <2>8. f \in FormSet /\ f.at = "created" /\ f.run = r
    BY <2>7 DEF FormSet
  <2>9. RunIs(old, job[r], executor[r], mandate[r], validation[r])
    BY <2>2, Rewriting
  <2>10. /\ RunIs(s, job[r], executor[r], mandate[r], validation[r])
         /\ job[r] = "none" /\ executor[r] = {}
    BY <2>6, <2>9 DEF RunIs
  <2>11. Asks(f, s, job[r], executor[r], mandate[r])
    BY <2>6, <2>8, <2>10 DEF Asks
  <2>12. \A p \in Requests : request[p].at = "created" => request[p].run # r
    <3>1. ASSUME NEW p \in Requests, request[p].at = "created", request[p].run = r PROVE FALSE
      <4>1. Asks(request[p], old, job[r], executor[r], mandate[r])
        BY <2>2, <3>1, Asking
      <4> QED
        BY <2>6, <3>1, <4>1 DEF Asks
    <3> QED
      BY <3>1
  <2>13. /\ job' = [job EXCEPT ![r] = job[r]] /\ executor' = [executor EXCEPT ![r] = executor[r]]
         /\ mandate' = [mandate EXCEPT ![r] = mandate[r]]
         /\ validation' = [validation EXCEPT ![r] = validation[r]] /\ today' \in Nat
         /\ request' = [p \in Requests |-> IF p \in {q} THEN f ELSE request[p]]
         /\ {q} \in SUBSET Requests
    BY <2>5, Rewriting
  <2>20. Move(r, s, job[r], executor[r], mandate[r], validation[r], {q}, f)
    BY <2>2, <2>5, <2>6, <2>8, <2>10, <2>11, <2>12, <2>13 DEF Move
  <2> QED
    BY <2>20, Moving
<1>2. CASE Selection!ExecuteInline(q)
  <2>1. PICK r : r = request[q].run
    OBVIOUS
  <2>2. request[q].at = "created"
    BY <1>2 DEF Selection!ExecuteInline
  <2>3. /\ r \in Runs /\ Asks(request[q], run[r], job[r], executor[r], mandate[r])
        /\ \A p \in Requests \ {q} : request[p].at = "created" => request[p].run # r
    BY <2>1, <2>2, Asking
  <2>4. PICK old : old = run[r]
    OBVIOUS
  <2>5. PICK s : s = [old EXCEPT !.status = "running"]
    OBVIOUS
  <2>6. /\ run' = [run EXCEPT ![r] = s] /\ executor' = [executor EXCEPT ![r] = {"inline"}]
        /\ request' = [request EXCEPT ![q] = Selection!Idle]
        /\ job' = job /\ mandate' = mandate /\ validation' = validation /\ today' = today
    <3>1. run' = [run EXCEPT ![r].status = "running"]
      BY <1>2, <2>1 DEF Selection!ExecuteInline
    <3>2. run' = [run EXCEPT ![r] = s]
      BY <2>4, <2>5, <3>1
    <3> QED
      BY <1>2, <2>1, <3>2
      DEF Selection!ExecuteInline, Selection!Answered, Selection!Become, Selection!frozen
  <2>7. old \in RunSet /\ RunIs(old, job[r], executor[r], mandate[r], validation[r])
    BY <2>3, <2>4, Rewriting
  <2>8. old.status = "queued"
    BY <2>2, <2>3, <2>4 DEF Asks
  <2>9. s \in RunSet /\ s.status = "running" /\ s.result = old.result
    <3>1. s = [status |-> "running", bound |-> old.bound, result |-> old.result]
      BY <2>5, <2>7 DEF RunSet
    <3>2. old.bound \in BOOLEAN /\ old.result \in Results \cup {None}
      BY <2>7 DEF RunSet
    <3> QED
      BY <3>1, <3>2 DEF RunSet
  <2>10. RunIs(s, job[r], {"inline"}, mandate[r], validation[r])
    BY <2>7, <2>8, <2>9 DEF RunIs
  <2>11. /\ job' = [job EXCEPT ![r] = job[r]]
         /\ mandate' = [mandate EXCEPT ![r] = mandate[r]]
         /\ validation' = [validation EXCEPT ![r] = validation[r]] /\ today' \in Nat
         /\ request' = [p \in Requests |-> IF p \in {q} THEN Selection!Idle ELSE request[p]]
         /\ {q} \in SUBSET Requests /\ Selection!Idle \in FormSet /\ Selection!Idle.at = "idle"
    BY <2>3, <2>6, Rewriting
  <2>20. Move(r, s, job[r], {"inline"}, mandate[r], validation[r], {q}, Selection!Idle)
    BY <2>3, <2>4, <2>6, <2>9, <2>10, <2>11 DEF Move
  <2> QED
    BY <2>20, Moving
<1>3. CASE Selection!CreateJob(q)
  <2>1. PICK r : r = request[q].run
    OBVIOUS
  <2>2. request[q].at = "created"
    BY <1>3 DEF Selection!CreateJob
  <2>3. /\ r \in Runs /\ Asks(request[q], run[r], job[r], executor[r], mandate[r])
        /\ \A p \in Requests \ {q} : request[p].at = "created" => request[p].run # r
    BY <2>1, <2>2, Asking
  <2>4. PICK f : f = [request[q] EXCEPT !.at = "bind"]
    OBVIOUS
  <2>5. /\ job' = [job EXCEPT ![r] = "queued"] /\ request' = [request EXCEPT ![q] = f]
        /\ run' = run /\ executor' = executor /\ mandate' = mandate /\ validation' = validation
        /\ today' = today
    BY <1>3, <2>1, <2>4 DEF Selection!CreateJob, Selection!Become, Selection!frozen
  <2>6. f \in FormSet /\ f.at = "bind" /\ f.run = r
    <3>1. PICK g : g = request[q]
      OBVIOUS
    <3>2. g \in FormSet
      BY <3>1 DEF SelectionInv
    <3>3. f = [at |-> "bind", run |-> g.run, saw |-> g.saw] /\ g.run \in Runs \cup {None}
          /\ g.saw \in Results \cup Nat \cup {None}
      BY <2>4, <3>1, <3>2 DEF FormSet
    <3> QED
      BY <2>1, <3>1, <3>3 DEF FormSet
  <2>7. run[r] \in RunSet /\ RunIs(run[r], job[r], executor[r], mandate[r], validation[r])
    BY <2>3, Rewriting
  <2>8. run[r].status = "queued"
    BY <2>2, <2>3 DEF Asks
  <2>9. RunIs(run[r], "queued", executor[r], mandate[r], validation[r])
    BY <2>7, <2>8 DEF RunIs
  <2>10. Asks(f, run[r], "queued", executor[r], mandate[r])
    BY <2>6, <2>8 DEF Asks
  <2>11. /\ run' = [run EXCEPT ![r] = run[r]] /\ executor' = [executor EXCEPT ![r] = executor[r]]
         /\ mandate' = [mandate EXCEPT ![r] = mandate[r]]
         /\ validation' = [validation EXCEPT ![r] = validation[r]] /\ today' \in Nat
         /\ request' = [p \in Requests |-> IF p \in {q} THEN f ELSE request[p]]
         /\ {q} \in SUBSET Requests
    BY <2>3, <2>5, Rewriting
  <2>20. Move(r, run[r], "queued", executor[r], mandate[r], validation[r], {q}, f)
    BY <2>1, <2>2, <2>3, <2>5, <2>6, <2>7, <2>8, <2>9, <2>10, <2>11 DEF Move
  <2> QED
    BY <2>20, Moving
<1>4. CASE Selection!Bind(q)
  <2>1. PICK r : r = request[q].run
    OBVIOUS
  <2>2. request[q].at = "bind"
    BY <1>4 DEF Selection!Bind
  <2>3. r \in Runs /\ Asks(request[q], run[r], job[r], executor[r], mandate[r])
    BY <2>1, <2>2, Asking
  <2>4. PICK old : old = run[r]
    OBVIOUS
  <2>5. old \in RunSet /\ RunIs(old, job[r], executor[r], mandate[r], validation[r])
        /\ old.status # "none"
    BY <2>2, <2>3, <2>4, Rewriting DEF Asks
  <2>6. \E s \in {[old EXCEPT !.bound = TRUE], Selection!Failed(r)} : run' = [run EXCEPT ![r] = s]
    <3>1. \/ run' = [run EXCEPT ![r].bound = TRUE]
          \/ run' = [run EXCEPT ![r] = Selection!Failed(r)]
      BY <1>4, <2>1 DEF Selection!Bind
    <3> QED
      BY <2>4, <3>1
  <2>7. PICK s \in {[old EXCEPT !.bound = TRUE], Selection!Failed(r)} : run' = [run EXCEPT ![r] = s]
    BY <2>6
  <2>8. /\ s \in RunSet /\ s.result = old.result /\ s.status # "none"
        /\ s.status = old.status \/ (s.status = "failed" /\ old.status \notin Selection!Terminal)
    <3>1. CASE s = [old EXCEPT !.bound = TRUE]
      <4>1. s = [status |-> old.status, bound |-> TRUE, result |-> old.result]
        BY <2>5, <3>1 DEF RunSet
      <4>2. old.status \in {"none", "queued", "running", "succeeded", "partial", "failed"}
            /\ old.result \in Results \cup {None}
        BY <2>5 DEF RunSet
      <4>3. s \in RunSet
        BY <4>1, <4>2 DEF RunSet
      <4> QED
        BY <2>5, <4>1, <4>3
    <3>2. CASE s = Selection!Failed(r)
      BY <2>3, <2>4, <3>2, FailedIs
    <3> QED
      BY <2>7, <3>1, <3>2
  <2>9. job[r] = "succeeded" => s.result # None
    BY <2>5, <2>8 DEF RunIs
  <2>10. RunIs(s, job[r], executor[r], mandate[r], validation[r])
    BY <2>5, <2>8, <2>9, FailingKeeps
  <2>11. \A p \in Requests \ {q} : request[p].at = "created" => request[p].run # r
    BY <2>1, <2>2 DEF SelectionInv, Starting
  <2>12. /\ request' = [request EXCEPT ![q] = Selection!Idle] /\ job' = job
         /\ executor' = executor /\ mandate' = mandate /\ validation' = validation
         /\ today' = today
    BY <1>4 DEF Selection!Bind, Selection!Answered, Selection!Become, Selection!frozen
  <2>13. /\ job' = [job EXCEPT ![r] = job[r]] /\ executor' = [executor EXCEPT ![r] = executor[r]]
         /\ mandate' = [mandate EXCEPT ![r] = mandate[r]]
         /\ validation' = [validation EXCEPT ![r] = validation[r]] /\ today' \in Nat
         /\ request' = [p \in Requests |-> IF p \in {q} THEN Selection!Idle ELSE request[p]]
         /\ {q} \in SUBSET Requests /\ Selection!Idle \in FormSet /\ Selection!Idle.at = "idle"
    BY <2>3, <2>12, Rewriting
  <2>20. Move(r, s, job[r], executor[r], mandate[r], validation[r], {q}, Selection!Idle)
    BY <2>3, <2>4, <2>7, <2>8, <2>10, <2>11, <2>13 DEF Move
  <2> QED
    BY <2>20, Moving
<1>5. CASE Selection!Drop(q)
  <2>1. /\ request' = [request EXCEPT ![q] = Selection!Idle] /\ job' = job /\ run' = run
        /\ executor' = executor /\ mandate' = mandate /\ validation' = validation
        /\ today' = today /\ request[q] # Selection!Idle
    BY <1>5 DEF Selection!Drop, Selection!Answered, Selection!Become, Selection!frozen,
                Selection!execution
  <2>2. /\ request \in [Requests -> FormSet]
        /\ Selection!Idle \in FormSet /\ Selection!Idle.at = "idle"
    BY Rewriting DEF SelectionInv
  <2>3. request' \in [Requests -> FormSet] /\ \A p \in Requests :
          (p # q => request'[p] = request[p]) /\ request'[q].at = "idle"
    BY <2>1, <2>2
  <2>4. (\A p \in Requests : request[p].at # "idle" =>
           /\ request[p].run \in Runs
           /\ Asks(request[p], run[request[p].run], job[request[p].run],
                   executor[request[p].run], mandate[request[p].run]))'
    BY <2>1, <2>3 DEF SelectionInv, Asks
  <2>5. (\A p \in Requests, o \in Requests :
           p # o /\ Starting(request[p]) /\ Starting(request[o])
             => request[p].run # request[o].run)'
    BY <2>3 DEF SelectionInv, Starting
  <2>6. (\A r \in Runs : RunIs(run[r], job[r], executor[r], mandate[r], validation[r]))'
    BY <2>1 DEF SelectionInv, RunIs
  <2> QED
    BY <2>1, <2>3, <2>4, <2>5, <2>6 DEF SelectionInv
<1> QED
  BY <1>1, <1>2, <1>3, <1>4, <1>5

\* How an execution leaves the job
LEMMA ConcludedIs ==
  ASSUME SelectionInv, NEW r \in Runs, NEW e, NEW end
  PROVE  Selection!Concluded(r, e, end) = [job EXCEPT ![r] = end]
         \/ Selection!Concluded(r, e, end) = [job EXCEPT ![r] = job[r]]
  BY Rewriting DEF Selection!Concluded

\* One execution ends or goes on: what it may leave behind
Execution(r, s, j, x) ==
  /\ r \in Runs /\ s \in RunSet
  /\ executor[r] # {} \/ job[r] # "none"
  /\ run' = [run EXCEPT ![r] = s] /\ job' = [job EXCEPT ![r] = j]
  /\ executor' = [executor EXCEPT ![r] = x]
  /\ mandate' = mandate /\ validation' = validation /\ today' = today /\ request' = request
  /\ s.status # "none" /\ run[r].status # "none"
  /\ s.status \in {"succeeded", "partial"} <=> s.result # None
  /\ run[r].result # None => s.result = run[r].result
  /\ j = "succeeded" => s.result # None

\* Such an execution keeps it too.
LEMMA Executing ==
  ASSUME SelectionInv, NEW r, NEW s, NEW j, NEW x, Execution(r, s, j, x)
  PROVE  SelectionInv'
<1>0. /\ r \in Runs /\ s \in RunSet
      /\ executor[r] # {} \/ job[r] # "none"
      /\ run' = [run EXCEPT ![r] = s] /\ job' = [job EXCEPT ![r] = j]
      /\ executor' = [executor EXCEPT ![r] = x]
      /\ mandate' = mandate /\ validation' = validation /\ today' = today /\ request' = request
      /\ s.status # "none" /\ run[r].status # "none"
      /\ s.status \in {"succeeded", "partial"} <=> s.result # None
      /\ run[r].result # None => s.result = run[r].result
      /\ j = "succeeded" => s.result # None
  BY DEF Execution
<1>1. RunIs(run[r], job[r], executor[r], mandate[r], validation[r])
  BY <1>0, Rewriting
<1>2. mandate[r] # None => mandate[r] = s.result
  <2>1. mandate[r] # None => mandate[r] = run[r].result
    BY <1>0, <1>1 DEF RunIs
  <2>2. mandate[r] # None => s.result = run[r].result
    BY <1>0, <2>1
  <2> QED
    BY <1>0, <2>1, <2>2
<1>3. validation[r] # None => validation[r].result = s.result
  <2>1. validation[r] # None => validation[r].result = run[r].result /\ mandate[r] # None
    BY <1>0, <1>1 DEF RunIs
  <2>2. validation[r] # None => mandate[r] = run[r].result /\ mandate[r] = s.result
    BY <1>0, <1>1, <1>2, <2>1 DEF RunIs
  <2> QED
    BY <1>0, <2>1, <2>2
<1>4. RunIs(s, j, x, mandate[r], validation[r])
  BY <1>0, <1>1, <1>2, <1>3 DEF RunIs
<1>5. \A p \in Requests : request[p].at = "created" => request[p].run # r
  BY <1>0, Executed
<1>6. /\ mandate' = [mandate EXCEPT ![r] = mandate[r]]
      /\ validation' = [validation EXCEPT ![r] = validation[r]] /\ today' \in Nat
      /\ request' = [p \in Requests |-> IF p \in {} THEN Selection!Idle ELSE request[p]]
      /\ {} \in SUBSET Requests /\ Selection!Idle \in FormSet
  BY <1>0, Rewriting
<1>7. Move(r, s, j, x, mandate[r], validation[r], {}, Selection!Idle)
  BY <1>0, <1>4, <1>5, <1>6 DEF Move
<1> QED
  BY <1>0, <1>7, Moving

\* A run that is not started has neither a job nor an execution.
LEMMA Started ==
  ASSUME SelectionInv, NEW r \in Runs, executor[r] # {} \/ job[r] # "none"
  PROVE  /\ run[r].status # "none" /\ run[r] \in RunSet
         /\ run[r].status \in {"succeeded", "partial"} <=> run[r].result # None
         /\ job[r] = "succeeded" => run[r].result # None
<1>1. RunIs(run[r], job[r], executor[r], mandate[r], validation[r]) /\ run[r] \in RunSet
  BY Rewriting
<1> QED
  BY <1>1 DEF RunIs

\* The steps of executions
LEMMA ExecutingRuns ==
  ASSUME SelectionInv, NEW r \in Runs,
         \/ Selection!Claim(r) \/ Selection!Begin(r) \/ Selection!Refresh(r)
         \/ \E e \in {"owner", "computing", "lost", "inline"} :
              Selection!Fail(r, e) \/ Selection!Die(r, e)
              \/ \E x \in Results : Selection!Complete(r, e, x)
  PROVE  SelectionInv'
<1>1. CASE Selection!Claim(r)
  <2>1. /\ job[r] # "none" /\ job' = [job EXCEPT ![r] = "running"]
        /\ executor' = [executor EXCEPT ![r] = {"owner"} \cup {"lost" : e \in executor[r]}]
        /\ run' = run /\ mandate' = mandate /\ validation' = validation /\ today' = today
        /\ request' = request
    BY <1>1, Rewriting DEF Selection!Claim, Selection!frozen
  <2>2. run' = [run EXCEPT ![r] = run[r]]
    BY <2>1, Rewriting
  <2>30. Execution(r, run[r], "running", {"owner"} \cup {"lost" : e \in executor[r]})
    BY <2>1, <2>2, Started DEF Execution
  <2> QED
    BY <2>30, Executing
<1>2. CASE Selection!Begin(r)
  <2>1. /\ executor[r] # {} /\ mandate' = mandate /\ validation' = validation
        /\ today' = today /\ request' = request
    BY <1>2 DEF Selection!Begin, Selection!frozen
  <2>2. CASE run[r].status \in Selection!Terminal
    <3>1. PICK j : j = IF run[r].result = None THEN "failed" ELSE "succeeded"
      OBVIOUS
    <3>2. /\ job' = Selection!Concluded(r, "owner", j) /\ run' = run
          /\ executor' = [executor EXCEPT ![r] = @ \ {"owner"}]
      BY <1>2, <2>2, <3>1 DEF Selection!Begin
    <3>3. PICK x : x = executor[r] \ {"owner"}
      OBVIOUS
    <3>4. executor' = [executor EXCEPT ![r] = x] /\ run' = [run EXCEPT ![r] = run[r]]
      BY <3>2, <3>3, Rewriting
    <3>5. job' = [job EXCEPT ![r] = j] \/ job' = [job EXCEPT ![r] = job[r]]
      BY <3>2, ConcludedIs
    <3>6. j = "succeeded" => run[r].result # None
      BY <3>1
    <3>30. Execution(r, run[r], j, x) \/ Execution(r, run[r], job[r], x)
      BY <2>1, <3>4, <3>5, <3>6, Started DEF Execution
    <3> QED
      BY <3>30, Executing
  <2>3. CASE run[r].status \notin Selection!Terminal
    <3>1. PICK old : old = run[r]
      OBVIOUS
    <3>2. PICK s : s = [old EXCEPT !.status = "running"]
      OBVIOUS
    <3>3. PICK x : x = (executor[r] \ {"owner"}) \cup {"computing"}
      OBVIOUS
    <3>4. /\ job' = job /\ executor' = [executor EXCEPT ![r] = (@ \ {"owner"}) \cup {"computing"}]
          /\ run' = [run EXCEPT ![r].status = "running"]
      BY <1>2, <2>3 DEF Selection!Begin
    <3>5. /\ job' = [job EXCEPT ![r] = job[r]] /\ executor' = [executor EXCEPT ![r] = x]
          /\ run' = [run EXCEPT ![r] = s]
      BY <3>1, <3>2, <3>3, <3>4, Rewriting
    <3>6. /\ old \in RunSet /\ old.status # "none" /\ job[r] = "succeeded" => old.result # None
          /\ old.status \in {"succeeded", "partial"} <=> old.result # None
      BY <2>1, <3>1, Started
    <3>7. old \in RunSet /\ old.result = None
      BY <2>1, <2>3, <3>1, Started DEF Selection!Terminal
    <3>8. s \in RunSet /\ s.status = "running" /\ s.result = None
      <4>1. s = [status |-> "running", bound |-> old.bound, result |-> old.result]
            /\ old.bound \in BOOLEAN
        BY <3>2, <3>7 DEF RunSet
      <4> QED
        BY <3>7, <4>1 DEF RunSet
    <3>9. job[r] = "succeeded" => s.result # None
      BY <2>1, <3>1, <3>7, Started
    <3>10. /\ s.status # "none" /\ run[r].status # "none"
           /\ s.status \in {"succeeded", "partial"} <=> s.result # None
           /\ run[r].result # None => s.result = run[r].result
      BY <2>1, <3>1, <3>7, <3>8, Started
    <3>30. Execution(r, s, job[r], x)
      BY <2>1, <3>5, <3>8, <3>9, <3>10 DEF Execution
    <3> QED
      BY <3>30, Executing
  <2> QED
    BY <2>2, <2>3
<1>3. CASE Selection!Refresh(r)
  <2>1. PICK s : s = Selection!Failed(r)
    OBVIOUS
  <2>2. /\ job[r] = "failed" /\ run' = [run EXCEPT ![r] = s] /\ job' = job /\ executor' = executor
        /\ mandate' = mandate /\ validation' = validation /\ today' = today /\ request' = request
    BY <1>3, <2>1 DEF Selection!Refresh, Selection!frozen
  <2>3. job' = [job EXCEPT ![r] = job[r]] /\ executor' = [executor EXCEPT ![r] = executor[r]]
    BY <2>2, Rewriting
  <2>4. /\ s \in RunSet /\ s.result = run[r].result
        /\ \/ s.status = run[r].status
           \/ s.status = "failed" /\ run[r].status \notin Selection!Terminal
        /\ s.status # "none"
    BY <2>1, FailedIs
  <2>5. s.status \in {"succeeded", "partial"} <=> s.result # None
    BY <2>2, <2>4, Started DEF Selection!Terminal
  <2>30. Execution(r, s, job[r], executor[r])
    BY <2>2, <2>3, <2>4, <2>5, Started DEF Execution
  <2> QED
    BY <2>30, Executing
<1>4. ASSUME NEW e, Selection!Fail(r, e) PROVE SelectionInv'
  <2>1. PICK s : s = Selection!Failed(r)
    OBVIOUS
  <2>2. PICK x : x = executor[r] \ {e}
    OBVIOUS
  <2>3. /\ executor[r] # {} /\ executor' = [executor EXCEPT ![r] = @ \ {e}]
        /\ run' = [run EXCEPT ![r] = s] /\ job' = Selection!Concluded(r, e, "failed")
        /\ mandate' = mandate /\ validation' = validation /\ today' = today /\ request' = request
    BY <1>4, <2>1 DEF Selection!Fail, Selection!frozen
  <2>4. executor' = [executor EXCEPT ![r] = x]
    BY <2>2, <2>3
  <2>5. job' = [job EXCEPT ![r] = "failed"] \/ job' = [job EXCEPT ![r] = job[r]]
    BY <2>3, ConcludedIs
  <2>6. /\ s \in RunSet /\ s.result = run[r].result
        /\ \/ s.status = run[r].status
           \/ s.status = "failed" /\ run[r].status \notin Selection!Terminal
        /\ s.status # "none"
    BY <2>1, FailedIs
  <2>7. s.status \in {"succeeded", "partial"} <=> s.result # None
    BY <2>3, <2>6, Started DEF Selection!Terminal
  <2>30. Execution(r, s, "failed", x) \/ Execution(r, s, job[r], x)
    BY <2>3, <2>4, <2>5, <2>6, <2>7, Started DEF Execution
  <2> QED
    BY <2>30, Executing
<1>5. ASSUME NEW e, Selection!Die(r, e) PROVE SelectionInv'
  <2>1. PICK x : x = executor[r] \ {e}
    OBVIOUS
  <2>2. PICK end \in {"queued", "failed"} : job' = Selection!Concluded(r, e, end)
    BY <1>5 DEF Selection!Die
  <2>3. /\ executor[r] # {} /\ executor' = [executor EXCEPT ![r] = @ \ {e}]
        /\ run' = run
        /\ mandate' = mandate /\ validation' = validation /\ today' = today /\ request' = request
    BY <1>5 DEF Selection!Die, Selection!frozen
  <2>4. executor' = [executor EXCEPT ![r] = x] /\ run' = [run EXCEPT ![r] = run[r]]
    BY <2>1, <2>3, Rewriting
  <2>5. job' = [job EXCEPT ![r] = end] \/ job' = [job EXCEPT ![r] = job[r]]
    BY <2>2, ConcludedIs
  <2>6. end # "succeeded"
    BY <2>2
  <2>30. Execution(r, run[r], end, x) \/ Execution(r, run[r], job[r], x)
    BY <2>3, <2>4, <2>5, <2>6, Started DEF Execution
  <2> QED
    BY <2>30, Executing
<1>6. ASSUME NEW e, NEW y \in Results, Selection!Complete(r, e, y) PROVE SelectionInv'
  <2>1. PICK x : x = executor[r] \ {e}
    OBVIOUS
  <2>2. /\ executor[r] # {} /\ executor' = [executor EXCEPT ![r] = @ \ {e}]
        /\ mandate' = mandate /\ validation' = validation /\ today' = today /\ request' = request
    BY <1>6 DEF Selection!Complete, Selection!frozen
  <2>3. executor' = [executor EXCEPT ![r] = x]
    BY <2>1, <2>2
  <2>4. CASE Selection!Unfinished(r)
    <3>1. PICK end \in {"succeeded", "partial"} :
            run' = [run EXCEPT ![r].status = end, ![r].result = y]
      BY <1>6, <2>4 DEF Selection!Complete
    <3>2. PICK old : old = run[r]
      OBVIOUS
    <3>3. PICK s : s = [old EXCEPT !.status = end, !.result = y]
      OBVIOUS
    <3>4. old \in RunSet /\ run \in [Runs -> RunSet]
      BY <3>2, Rewriting DEF SelectionInv
    <3>5. run' = [run EXCEPT ![r] = s]
      BY <3>1, <3>2, <3>3, <3>4
    <3>6. s = [status |-> end, bound |-> old.bound, result |-> y] /\ old.bound \in BOOLEAN
      BY <3>3, <3>4 DEF RunSet
    <3>7. y # None
      BY EngineAssumption
    <3>8. s \in RunSet /\ s.status \in {"succeeded", "partial"} /\ s.result # None
      BY <3>6, <3>7 DEF RunSet
    <3>9. job' = [job EXCEPT ![r] = "succeeded"] \/ job' = [job EXCEPT ![r] = job[r]]
      <4>1. job' = Selection!Concluded(r, e, "succeeded")
        BY <1>6, <2>4 DEF Selection!Complete
      <4> QED
        BY <4>1, ConcludedIs
    <3>10. run[r].result = None
      BY <2>2, <2>4, Started DEF Selection!Unfinished, Selection!Terminal
    <3>11. s.status # "none" /\ run[r].status # "none"
      BY <2>2, <3>8, Started
    <3>30. Execution(r, s, "succeeded", x) \/ Execution(r, s, job[r], x)
      BY <2>2, <2>3, <3>5, <3>8, <3>9, <3>10, <3>11 DEF Execution
    <3> QED
      BY <3>30, Executing
  <2>5. CASE ~Selection!Unfinished(r)
    <3>1. run' = run /\ job' = Selection!Concluded(r, e, "failed")
      BY <1>6, <2>5 DEF Selection!Complete
    <3>2. run' = [run EXCEPT ![r] = run[r]]
      BY <3>1, Rewriting
    <3>3. job' = [job EXCEPT ![r] = "failed"] \/ job' = [job EXCEPT ![r] = job[r]]
      BY <3>1, ConcludedIs
    <3>30. Execution(r, run[r], "failed", x) \/ Execution(r, run[r], job[r], x)
      BY <2>2, <2>3, <3>2, <3>3, Started DEF Execution
    <3> QED
      BY <3>30, Executing
  <2> QED
    BY <2>4, <2>5
<1> QED
  BY <1>1, <1>2, <1>3, <1>4, <1>5, <1>6

\* The steps that try a result out on paper
LEMMA TryingOut ==
  ASSUME SelectionInv, NEW q \in Requests,
         \/ Selection!Freeze(q) \/ Selection!Enroll(q)
         \/ \E r \in Runs : Selection!ReadFreeze(q, r) \/ Selection!ReadEnroll(q, r)
  PROVE  SelectionInv'
<1>1. CASE Selection!Freeze(q)
  <2>1. PICK r : r = request[q].run
    OBVIOUS
  <2>2. PICK m : m = IF mandate[r] = None THEN request[q].saw ELSE mandate[r]
    OBVIOUS
  <2>3. /\ request[q].at = "freeze" /\ mandate' = [mandate EXCEPT ![r] = m]
        /\ request' = [request EXCEPT ![q] = Selection!Idle] /\ run' = run /\ job' = job
        /\ executor' = executor /\ validation' = validation /\ today' = today
    <3>1. mandate' = [mandate EXCEPT ![r] = IF @ = None THEN request[q].saw ELSE @]
      BY <1>1, <2>1 DEF Selection!Freeze
    <3>2. mandate' = [mandate EXCEPT ![r] = m]
      BY <2>2, <3>1
    <3> QED
      BY <1>1, <3>2
      DEF Selection!Freeze, Selection!Answered, Selection!Become, Selection!execution
  <2>4. r \in Runs /\ Asks(request[q], run[r], job[r], executor[r], mandate[r])
    BY <2>1, <2>3, Asking
  <2>5. run[r] \in RunSet /\ RunIs(run[r], job[r], executor[r], mandate[r], validation[r])
    BY <2>4, Rewriting
  <2>6. m # None /\ m = run[r].result
    BY <2>2, <2>3, <2>4, <2>5 DEF Asks, RunIs
  <2>7. RunIs(run[r], job[r], executor[r], m, validation[r])
    BY <2>5, <2>6 DEF RunIs
  <2>8. /\ run' = [run EXCEPT ![r] = run[r]] /\ job' = [job EXCEPT ![r] = job[r]]
        /\ executor' = [executor EXCEPT ![r] = executor[r]]
        /\ validation' = [validation EXCEPT ![r] = validation[r]] /\ today' \in Nat
        /\ request' = [p \in Requests |-> IF p \in {q} THEN Selection!Idle ELSE request[p]]
        /\ {q} \in SUBSET Requests /\ Selection!Idle \in FormSet /\ Selection!Idle.at = "idle"
    BY <2>3, <2>4, Rewriting
  <2>9. Move(r, run[r], job[r], executor[r], m, validation[r], {q}, Selection!Idle)
    BY <2>3, <2>4, <2>5, <2>6, <2>7, <2>8 DEF Move
  <2> QED
    BY <2>9, Moving
<1>2. CASE Selection!Enroll(q)
  <2>1. PICK r : r = request[q].run
    OBVIOUS
  <2>2. PICK v : v = [result |-> mandate[r], after |-> request[q].saw, entered |-> None]
    OBVIOUS
  <2>3. /\ request[q].at = "enroll" /\ validation' = [validation EXCEPT ![r] = v]
        /\ request' = [request EXCEPT ![q] = Selection!Idle] /\ run' = run /\ job' = job
        /\ executor' = executor /\ mandate' = mandate /\ today' = today
    BY <1>2, <2>1, <2>2
    DEF Selection!Enroll, Selection!Answered, Selection!Become, Selection!execution
  <2>4. r \in Runs /\ Asks(request[q], run[r], job[r], executor[r], mandate[r])
    BY <2>1, <2>3, Asking
  <2>5. run[r] \in RunSet /\ RunIs(run[r], job[r], executor[r], mandate[r], validation[r])
    BY <2>4, Rewriting
  <2>6. v.result = mandate[r] /\ v.after \in Nat /\ v.entered = None /\ mandate[r] # None
    BY <2>2, <2>3, <2>4 DEF Asks
  <2>7. RunIs(run[r], job[r], executor[r], mandate[r], v)
    BY <2>5, <2>6 DEF RunIs
  <2>8. /\ run' = [run EXCEPT ![r] = run[r]] /\ job' = [job EXCEPT ![r] = job[r]]
        /\ executor' = [executor EXCEPT ![r] = executor[r]]
        /\ mandate' = [mandate EXCEPT ![r] = mandate[r]] /\ today' \in Nat
        /\ request' = [p \in Requests |-> IF p \in {q} THEN Selection!Idle ELSE request[p]]
        /\ {q} \in SUBSET Requests /\ Selection!Idle \in FormSet /\ Selection!Idle.at = "idle"
    BY <2>3, <2>4, Rewriting
  <2>9. Move(r, run[r], job[r], executor[r], mandate[r], v, {q}, Selection!Idle)
    BY <2>3, <2>4, <2>5, <2>7, <2>8 DEF Move
  <2> QED
    BY <2>9, Moving
<1>3. ASSUME NEW r \in Runs, Selection!ReadFreeze(q, r) \/ Selection!ReadEnroll(q, r)
      PROVE  SelectionInv'
  <2>1. PICK f : request' = [request EXCEPT ![q] = f] /\
          \/ f = [at |-> "freeze", run |-> r, saw |-> run[r].result] /\ run[r].result \in Ready
          \/ f = [at |-> "enroll", run |-> r, saw |-> today] /\ mandate[r] # None
    BY <1>3 DEF Selection!ReadFreeze, Selection!ReadEnroll, Selection!Become
  <2>2. /\ run' = run /\ job' = job /\ executor' = executor /\ mandate' = mandate
        /\ validation' = validation /\ today' = today
    BY <1>3 DEF Selection!ReadFreeze, Selection!ReadEnroll, Selection!execution, Selection!frozen
  <2>3. run[r] \in RunSet /\ RunIs(run[r], job[r], executor[r], mandate[r], validation[r])
        /\ today \in Nat
    BY Rewriting
  <2>4. run[r].result \in Results \cup {None}
    BY <2>3 DEF RunSet
  <2>5. f \in FormSet /\ f.run = r /\ f.at \in {"freeze", "enroll"}
    BY <2>1, <2>3, <2>4 DEF FormSet
  <2>6. Asks(f, run[r], job[r], executor[r], mandate[r])
    <3>1. run[r].result \in Ready => run[r].result # None
      BY EngineAssumption
    <3> QED
      BY <2>1, <2>3, <3>1 DEF Asks
  <2>7. /\ run' = [run EXCEPT ![r] = run[r]] /\ job' = [job EXCEPT ![r] = job[r]]
        /\ executor' = [executor EXCEPT ![r] = executor[r]]
        /\ mandate' = [mandate EXCEPT ![r] = mandate[r]]
        /\ validation' = [validation EXCEPT ![r] = validation[r]] /\ today' \in Nat
        /\ request' = [p \in Requests |-> IF p \in {q} THEN f ELSE request[p]]
        /\ {q} \in SUBSET Requests
    BY <2>1, <2>2, Rewriting
  <2>8. Move(r, run[r], job[r], executor[r], mandate[r], validation[r], {q}, f)
    BY <2>3, <2>5, <2>6, <2>7 DEF Move
  <2> QED
    BY <2>8, Moving
<1> QED
  BY <1>1, <1>2, <1>3

\* Every step
LEMMA SelectionStep ==
  ASSUME SelectionInv, Selection!Next
  PROVE  SelectionInv'
<1>1. ASSUME NEW r \in Runs, Selection!Enter(r) PROVE SelectionInv'
  <2>1. PICK old : old = validation[r]
    OBVIOUS
  <2>2. PICK v : v = [old EXCEPT !.entered = today]
    OBVIOUS
  <2>3. /\ old # None /\ old.entered = None /\ today > old.after
        /\ validation' = [validation EXCEPT ![r] = v]
        /\ request' = request /\ run' = run /\ job' = job
        /\ executor' = executor /\ mandate' = mandate /\ today' = today
    <3>1. validation' = [validation EXCEPT ![r].entered = today]
      BY <1>1 DEF Selection!Enter
    <3>2. validation' = [validation EXCEPT ![r] = v]
      BY <2>1, <2>2, <3>1
    <3> QED
      BY <1>1, <2>1, <3>2 DEF Selection!Enter, Selection!execution
  <2>4. run[r] \in RunSet /\ RunIs(run[r], job[r], executor[r], mandate[r], old)
    BY <2>1, Rewriting
  <2>5. v.result = old.result /\ v.after = old.after
        /\ (v.entered = today \/ v.entered = old.entered)
    BY <2>2
  <2>6. RunIs(run[r], job[r], executor[r], mandate[r], v)
    BY <2>3, <2>4, <2>5 DEF RunIs
  <2>7. /\ run' = [run EXCEPT ![r] = run[r]] /\ job' = [job EXCEPT ![r] = job[r]]
        /\ executor' = [executor EXCEPT ![r] = executor[r]]
        /\ mandate' = [mandate EXCEPT ![r] = mandate[r]] /\ today' \in Nat
        /\ request' = [p \in Requests |-> IF p \in {} THEN Selection!Idle ELSE request[p]]
        /\ {} \in SUBSET Requests /\ Selection!Idle \in FormSet
    BY <2>3, Rewriting
  <2>8. Move(r, run[r], job[r], executor[r], mandate[r], v, {}, Selection!Idle)
    BY <2>3, <2>4, <2>6, <2>7 DEF Move
  <2> QED
    BY <2>8, Moving
<1>2. CASE Selection!NextDay \/ \E p \in DOMAIN strategy : Selection!ChangeStrategy(p)
  <2>1. /\ run' = run /\ job' = job /\ executor' = executor /\ mandate' = mandate
        /\ validation' = validation /\ request' = request
        /\ today' = today \/ today' = today + 1
    BY <1>2 DEF Selection!NextDay, Selection!ChangeStrategy, Selection!execution, Selection!frozen
  <2>2. today' \in Nat
    BY <2>1, Rewriting
  <2>3. (\A r \in Runs : RunIs(run[r], job[r], executor[r], mandate[r], validation[r]))'
    BY <2>1 DEF SelectionInv, RunIs
  <2>4. (\A p \in Requests : request[p].at # "idle" =>
           /\ request[p].run \in Runs
           /\ Asks(request[p], run[request[p].run], job[request[p].run],
                   executor[request[p].run], mandate[request[p].run]))'
    BY <2>1 DEF SelectionInv, Asks
  <2> QED
    BY <2>1, <2>2, <2>3, <2>4 DEF SelectionInv, Starting
<1> QED
  BY <1>1, <1>2, StartingRuns, ExecutingRuns, TryingOut DEF Selection!Next

\* What it shows
LEMMA SelectionHolds ==
  ASSUME SelectionInv
  PROVE  Selection!PaperIsBacked
<1> SUFFICES ASSUME NEW r \in Runs
             PROVE  /\ job[r] = "succeeded" => run[r].result # None
                    /\ run[r].status \in {"succeeded", "partial"} <=> run[r].result # None
                    /\ mandate[r] # None => mandate[r] = run[r].result
                    /\ validation[r] # None =>
                         /\ validation[r].result = run[r].result
                         /\ validation[r].entered # None =>
                              validation[r].entered > validation[r].after
  BY DEF Selection!PaperIsBacked
<1>1. RunIs(run[r], job[r], executor[r], mandate[r], validation[r])
  BY DEF SelectionInv
<1> QED
  BY <1>1 DEF RunIs

-----------------------------------------------------------------------------
(* The simulation of orders.                                               *)

OrderSet == [symbol : Symbols, side : {"buy", "sell"}, signal : Nat, requested : Nat,
             remaining : Nat, filled : Nat, cancelled : Nat, dust : Nat, attempts : Nat,
             ends : Nat]

\* What an order asks for is accounted for.
Accounted(o) == o \in OrderSet /\ o.requested = o.filled + o.cancelled + o.dust + o.remaining

Waiting(o) == Accounted(o) /\ o.dust = 0 /\ o.ends = 0

Ended(o) == Accounted(o) /\ o.dust < Minimum /\ o.ends = 1 /\ o.remaining = 0

\* What waits is what is pending and what is yet to be tried in the session.
OrdersInv ==
  /\ orders \in Seq(OrderSet) /\ pending \subseteq DOMAIN orders /\ todo \subseteq DOMAIN orders
  /\ pending \cap todo = {}
  /\ \A i \in pending \cup todo : Waiting(orders[i])
  /\ \A i \in DOMAIN orders \ (pending \cup todo) : Ended(orders[i])

QuantInv ==
  /\ day \in Nat /\ cash \in Nat /\ position \in [Symbols -> Nat] /\ OrdersInv
  /\ stage = "open" => todo = {}

\* The sizes, one by one
LEMMA Sizes ==
  /\ Symbols \in SUBSET Int /\ IsFiniteSet(Symbols) /\ Capital \in Nat /\ MaxAge \in Nat
  /\ Minimum \in Nat /\ Minimum >= 1 /\ Capacity \in Nat /\ FeeParts \in Nat /\ FeeParts >= 1
  /\ \A S : Quant!Cardinality(S) = Cardinality(S)
<1>1. \A S : Quant!Cardinality(S) = Cardinality(S)
  BY DEF Cardinality, Quant!Cardinality
<1> QED
  BY <1>1, EngineAssumption

\* Multiplying keeps the order.
LEMMA Growing ==
  ASSUME NEW f \in Nat, NEW a \in Nat, NEW b \in Nat, a <= b
  PROVE  f * a \in Nat /\ f * b \in Nat /\ f * a <= f * b
<1>1. PICK c : c = b - a
  OBVIOUS
<1>2. c \in Nat /\ b = a + c
  BY <1>1
<1>3. f * c \in Nat /\ f * a \in Nat
  BY <1>2
<1>4. f * (a + c) = f * a + f * c
  BY <1>2
<1> QED
  BY <1>2, <1>3, <1>4

\* The commission is a part of what is traded, and grows with it.
LEMMA FeeIs ==
  ASSUME NEW n \in Nat
  PROVE  /\ Quant!Fee(n) \in Nat /\ Quant!Fee(n) <= n
         /\ \A m \in Nat : n <= m => Quant!Fee(n) <= Quant!Fee(m)
<1>1. FeeParts \in Nat /\ FeeParts >= 1
  BY Sizes
<1>2. \A m \in Nat : Quant!Fee(m) = m \div FeeParts
  BY DEF Quant!Fee
<1>3. ASSUME NEW m \in Nat
      PROVE  /\ m \div FeeParts \in Nat /\ FeeParts * (m \div FeeParts) <= m
             /\ m < FeeParts * (m \div FeeParts) + FeeParts
  <2>1. m \div FeeParts \in Nat /\ m % FeeParts \in 0 .. FeeParts - 1
    BY <1>1
  <2>2. m = FeeParts * (m \div FeeParts) + (m % FeeParts)
    BY <1>1
  <2>3. PICK q : q = m \div FeeParts
    OBVIOUS
  <2>4. PICK p : p = FeeParts * q
    OBVIOUS
  <2>5. p \in Nat
    BY <1>1, <2>1, <2>3, <2>4, Multiplying
  <2> QED
    BY <1>1, <2>1, <2>2, <2>3, <2>4, <2>5
<1>4. Quant!Fee(n) <= n
  <2>1. PICK q : q = n \div FeeParts
    OBVIOUS
  <2>2. PICK p : p = FeeParts * q
    OBVIOUS
  <2>3. q \in Nat /\ p <= n
    BY <1>3, <2>1, <2>2
  <2>4. q * 1 <= q * FeeParts /\ q * 1 = q /\ q * FeeParts = p /\ p \in Nat
    <3>1. 1 \in Nat /\ 1 <= FeeParts
      BY <1>1
    <3>2. q * 1 <= q * FeeParts /\ q * FeeParts \in Nat
      BY <1>1, <2>3, <3>1, Growing
    <3>3. q * FeeParts = FeeParts * q
      BY <1>1, <2>3
    <3> QED
      BY <2>2, <2>3, <3>2, <3>3
  <2> QED
    BY <1>2, <2>1, <2>3, <2>4
<1>5. ASSUME NEW m \in Nat, n <= m PROVE Quant!Fee(n) <= Quant!Fee(m)
  <2>1. PICK a : a = n \div FeeParts
    OBVIOUS
  <2>2. PICK b : b = m \div FeeParts
    OBVIOUS
  <2>3. PICK p : p = FeeParts * a
    OBVIOUS
  <2>4. PICK q : q = FeeParts * b
    OBVIOUS
  <2>5. a \in Nat /\ b \in Nat /\ p <= n /\ m < q + FeeParts
    BY <1>3, <2>1, <2>2, <2>3, <2>4
  <2>6. ASSUME b + 1 <= a PROVE FALSE
    <3>1. b + 1 \in Nat
      BY <2>5
    <3>2. FeeParts * (b + 1) <= FeeParts * a /\ FeeParts * a \in Nat
      BY <1>1, <2>5, <2>6, <3>1, Growing
    <3>3. FeeParts * (b + 1) = FeeParts * b + FeeParts /\ FeeParts * b \in Nat
      BY <1>1, <2>5
    <3>4. q + FeeParts <= p /\ p \in Nat /\ q \in Nat
      BY <2>3, <2>4, <3>2, <3>3
    <3> QED
      BY <1>1, <1>5, <2>5, <3>4
  <2>7. a <= b
    BY <2>5, <2>6
  <2> QED
    BY <1>2, <2>1, <2>2, <2>7
<1> QED
  BY <1>2, <1>3, <1>4, <1>5

\* The least of numbers is one of them and not more than any.
LEMMA LeastIs ==
  ASSUME NEW S \in SUBSET Int, IsFiniteSet(S), S # {}
  PROVE  /\ Quant!Min(S) \in S /\ \A x \in S : Quant!Min(S) <= x
         /\ Quant!Max(S) \in S
<1>1. \E x \in S : \A y \in S : x <= y
  BY Least
<1>2. \E x \in S : \A y \in S : x >= y
  BY Greatest
<1> QED
  BY <1>1, <1>2 DEF Quant!Min, Quant!Max

\* The least of three numbers
LEMMA LeastOfThree ==
  ASSUME NEW a \in Nat, NEW b \in Nat, NEW c \in Nat
  PROVE  /\ Quant!Min({a, b, c}) \in Nat /\ Quant!Min({a, b, c}) <= a
         /\ Quant!Min({a, b, c}) <= b /\ Quant!Min({a, b, c}) <= c
<1>1. PICK S : S = {a, b, c}
  OBVIOUS
<1>2. S \in SUBSET Int /\ S # {} /\ \A x \in S : x \in Nat
  BY <1>1
<1>3. IsFiniteSet(S)
  <2>1. IsFiniteSet({a})
    BY FS_Singleton
  <2>2. IsFiniteSet({a} \cup {b})
    BY <2>1, FS_AddElement
  <2>3. IsFiniteSet(({a} \cup {b}) \cup {c})
    BY <2>2, FS_AddElement
  <2>4. S = ({a} \cup {b}) \cup {c}
    BY <1>1
  <2> QED
    BY <2>3, <2>4
<1>4. PICK m : m = Quant!Min(S)
  OBVIOUS
<1>5. m \in S /\ \A x \in S : m <= x
  BY <1>2, <1>3, <1>4, LeastIs
<1> QED
  BY <1>1, <1>2, <1>4, <1>5

\* What cash pays for, it pays for.
LEMMA AffordableIs ==
  ASSUME NEW c \in Nat
  PROVE  /\ Quant!Affordable(c) \in Nat
         /\ \A n \in Nat : n <= Quant!Affordable(c) => n + Quant!Fee(n) <= c
<1>1. PICK S : S = {n \in 0 .. c : n + Quant!Fee(n) <= c}
  OBVIOUS
<1>2. 0 \in Int /\ c \in Int
  OBVIOUS
<1>3. IsFiniteSet(0 .. c)
  BY <1>2, FS_Interval
<1>4. S \in SUBSET (0 .. c)
  BY <1>1
<1>5. IsFiniteSet(S)
  BY <1>3, <1>4, FS_Subset
<1>6. \A n \in 0 .. c : n \in Nat /\ n \in Int
  OBVIOUS
<1>7. S \in SUBSET Int
  BY <1>4, <1>6
<1>8. 0 \in S
  <2>1. 0 \in Nat /\ 0 \in 0 .. c
    OBVIOUS
  <2>2. Quant!Fee(0) = 0
    BY <2>1, FeeIs
  <2> QED
    BY <1>1, <2>1, <2>2
<1>9. PICK m : m = Quant!Affordable(c)
  OBVIOUS
<1>10. m \in S
  BY <1>1, <1>5, <1>7, <1>8, <1>9, LeastIs DEF Quant!Affordable
<1>11. m \in Nat /\ m + Quant!Fee(m) <= c
  BY <1>1, <1>4, <1>6, <1>10
<1>12. ASSUME NEW n \in Nat, n <= m PROVE n + Quant!Fee(n) <= c
  <2>1. Quant!Fee(n) \in Nat /\ Quant!Fee(m) \in Nat /\ Quant!Fee(n) <= Quant!Fee(m)
    BY <1>11, <1>12, FeeIs
  <2> QED
    BY <1>11, <1>12, <2>1
<1> QED
  BY <1>9, <1>11, <1>12

\* An order by its fields
LEMMA Fields ==
  ASSUME NEW o \in OrderSet
  PROVE  /\ o = [symbol |-> o.symbol, side |-> o.side, signal |-> o.signal,
                 requested |-> o.requested, remaining |-> o.remaining, filled |-> o.filled,
                 cancelled |-> o.cancelled, dust |-> o.dust, attempts |-> o.attempts,
                 ends |-> o.ends]
         /\ o.symbol \in Symbols /\ o.side \in {"buy", "sell"} /\ o.signal \in Nat
         /\ o.requested \in Nat /\ o.remaining \in Nat /\ o.filled \in Nat
         /\ o.cancelled \in Nat /\ o.dust \in Nat /\ o.attempts \in Nat /\ o.ends \in Nat
  BY DEF OrderSet

\* A cancelled order has ended.
LEMMA CancelledIs ==
  ASSUME NEW o, Waiting(o)
  PROVE  Ended(Quant!Cancelled(o))
<1>1. /\ o \in OrderSet /\ o.requested = o.filled + o.cancelled + o.dust + o.remaining
      /\ o.dust = 0 /\ o.ends = 0
  BY DEF Accounted, Waiting, Ended
<1>2. PICK n : n = Quant!Cancelled(o)
  OBVIOUS
<1>3. n = [o EXCEPT !.cancelled = o.cancelled + o.remaining, !.remaining = 0, !.ends = o.ends + 1]
  BY <1>2 DEF Quant!Cancelled
<1>4. n = [symbol |-> o.symbol, side |-> o.side, signal |-> o.signal,
           requested |-> o.requested, remaining |-> 0, filled |-> o.filled,
           cancelled |-> o.cancelled + o.remaining, dust |-> o.dust, attempts |-> o.attempts,
           ends |-> o.ends + 1]
  BY <1>1, <1>3 DEF OrderSet
<1>5. o.cancelled + o.remaining \in Nat /\ o.ends + 1 = 1 /\ 1 \in Nat /\ 0 \in Nat
  BY <1>1, Fields
<1>6. n \in OrderSet
  BY <1>1, <1>4, <1>5, Fields DEF OrderSet
<1>7. n.requested = n.filled + n.cancelled + n.dust + n.remaining
  <2>1. o.filled \in Nat /\ o.cancelled \in Nat /\ o.dust \in Nat /\ o.remaining \in Nat
    BY <1>1, Fields
  <2>2. /\ n.requested = o.requested /\ n.filled = o.filled /\ n.dust = o.dust /\ n.remaining = 0
        /\ n.cancelled = o.cancelled + o.remaining
    BY <1>4
  <2> QED
    BY <1>1, <2>1, <2>2
<1>8. n.dust = o.dust /\ n.ends = 1 /\ n.remaining = 0
  BY <1>4, <1>5
<1>9. n.dust < Minimum
  BY <1>1, <1>8, Sizes
<1>10. Accounted(n)
  BY <1>6, <1>7 DEF Accounted
<1> QED
  BY <1>2, <1>8, <1>9, <1>10 DEF Ended

\* One more attempt leaves an order that waits, or one that is to be cancelled.
LEMMA AgainIs ==
  ASSUME NEW o, Waiting(o)
  PROVE  Waiting([o EXCEPT !.attempts = o.attempts + 1])
<1>1. /\ o \in OrderSet /\ o.requested = o.filled + o.cancelled + o.dust + o.remaining
      /\ o.dust = 0 /\ o.ends = 0
  BY DEF Accounted, Waiting, Ended
<1>2. PICK n : n = [o EXCEPT !.attempts = o.attempts + 1]
  OBVIOUS
<1>4. n = [symbol |-> o.symbol, side |-> o.side, signal |-> o.signal,
           requested |-> o.requested, remaining |-> o.remaining, filled |-> o.filled,
           cancelled |-> o.cancelled, dust |-> o.dust, attempts |-> o.attempts + 1,
           ends |-> o.ends]
  BY <1>1, <1>2 DEF OrderSet
<1>5. o.attempts + 1 \in Nat
  BY <1>1, Fields
<1>6. n \in OrderSet
  BY <1>1, <1>4, <1>5, Fields DEF OrderSet
<1>7. /\ n.requested = o.requested /\ n.filled = o.filled /\ n.dust = o.dust
      /\ n.remaining = o.remaining /\ n.cancelled = o.cancelled /\ n.ends = o.ends
  BY <1>4
<1>8. n.requested = n.filled + n.cancelled + n.dust + n.remaining
  BY <1>1, <1>7
<1>9. Accounted(n)
  BY <1>6, <1>8 DEF Accounted
<1> QED
  BY <1>1, <1>2, <1>7, <1>9 DEF Waiting

\* The order i is replaced by o, and waits or not.
LEMMA Replacing ==
  ASSUME OrdersInv, NEW i \in todo, NEW o, orders' = [orders EXCEPT ![i] = o], todo' = todo \ {i},
         \/ Waiting(o) /\ pending' = pending \cup {i}
         \/ Ended(o) /\ pending' = pending
  PROVE  OrdersInv'
<1>1. /\ orders \in Seq(OrderSet) /\ pending \subseteq DOMAIN orders
      /\ todo \subseteq DOMAIN orders /\ pending \cap todo = {}
      /\ \A k \in pending \cup todo : Waiting(orders[k])
      /\ \A k \in DOMAIN orders \ (pending \cup todo) : Ended(orders[k])
  BY DEF OrdersInv
<1>2. o \in OrderSet
  BY DEF Waiting, Ended, Accounted
<1>3. /\ orders' \in Seq(OrderSet) /\ DOMAIN orders' = DOMAIN orders /\ orders'[i] = o
      /\ \A k \in DOMAIN orders : k # i => orders'[k] = orders[k]
  <2>1. i \in DOMAIN orders
    BY <1>1
  <2> QED
    BY <1>1, <1>2, <2>1
<1>4. /\ pending' \subseteq DOMAIN orders' /\ todo' \subseteq DOMAIN orders'
      /\ pending' \cap todo' = {}
  BY <1>1, <1>3
<1>5. ASSUME NEW k \in pending' \cup todo' PROVE Waiting(orders'[k])
  <2>1. CASE k = i
    <3>1. k \notin todo' /\ i \notin pending
      BY <1>1, <2>1
    <3>2. Waiting(o)
      BY <1>5, <2>1, <3>1
    <3> QED
      BY <1>3, <2>1, <3>2
  <2>2. CASE k # i
    <3>1. k \in pending \cup todo /\ k \in DOMAIN orders
      BY <1>1, <1>5, <2>2
    <3> QED
      BY <1>1, <1>3, <2>2, <3>1
  <2> QED
    BY <2>1, <2>2
<1>6. ASSUME NEW k \in DOMAIN orders' \ (pending' \cup todo') PROVE Ended(orders'[k])
  <2>1. CASE k = i
    <3>1. Ended(o)
      BY <1>6, <2>1
    <3> QED
      BY <1>3, <2>1, <3>1
  <2>2. CASE k # i
    <3>1. k \in DOMAIN orders \ (pending \cup todo)
      BY <1>3, <1>6, <2>2
    <3> QED
      BY <1>1, <1>3, <2>2, <3>1
  <2> QED
    BY <2>1, <2>2
<1> QED
  BY <1>3, <1>4, <1>5, <1>6 DEF OrdersInv, Waiting, Ended, Accounted, OrderSet

\* An attempt
LEMMA Attempting ==
  ASSUME OrdersInv, NEW i \in todo, NEW o, Waiting(o), Quant!Attempt(i, o),
         todo' = todo \ {i}
  PROVE  OrdersInv'
<1>1. PICK again : again = [o EXCEPT !.attempts = o.attempts + 1]
  OBVIOUS
<1>2. Waiting(again)
  BY <1>1, AgainIs
<1>3. PICK n : n = Quant!Cancelled(again)
  OBVIOUS
<1>4. Ended(n)
  BY <1>2, <1>3, CancelledIs
<1>5. \/ orders' = [orders EXCEPT ![i] = n] /\ pending' = pending
      \/ orders' = [orders EXCEPT ![i] = again] /\ pending' = pending \cup {i}
  BY <1>1, <1>3 DEF Quant!Attempt
<1> QED
  BY <1>2, <1>4, <1>5, Replacing

\* A trade
LEMMA Filling ==
  ASSUME OrdersInv, NEW i \in todo, NEW n \in Nat, n <= orders[i].remaining, Quant!Fill(i, n),
         todo' = todo \ {i}
  PROVE  OrdersInv'
<1>1. PICK old : old = orders[i]
  OBVIOUS
<1>2. Waiting(old)
  BY <1>1 DEF OrdersInv
<1>3. /\ old \in OrderSet /\ old.requested = old.filled + old.cancelled + old.dust + old.remaining
      /\ old.dust = 0 /\ old.ends = 0
  BY <1>2 DEF Accounted, Waiting, Ended
<1>4. PICK o : o = [old EXCEPT !.filled = old.filled + n, !.remaining = old.remaining - n]
  OBVIOUS
<1>5. o = [symbol |-> old.symbol, side |-> old.side, signal |-> old.signal,
           requested |-> old.requested, remaining |-> old.remaining - n,
           filled |-> old.filled + n, cancelled |-> old.cancelled, dust |-> old.dust,
           attempts |-> old.attempts, ends |-> old.ends]
  BY <1>3, <1>4 DEF OrderSet
<1>6. old.remaining - n \in Nat /\ old.filled + n \in Nat
  BY <1>1, <1>3, Fields
<1>7. o \in OrderSet
  BY <1>3, <1>5, <1>6, Fields DEF OrderSet
<1>8. /\ o.requested = old.requested /\ o.filled = old.filled + n /\ o.cancelled = old.cancelled
      /\ o.dust = old.dust /\ o.remaining = old.remaining - n /\ o.ends = old.ends
  BY <1>5
<1>9. /\ old.filled \in Nat /\ old.cancelled \in Nat /\ old.dust \in Nat /\ old.remaining \in Nat
      /\ old.ends \in Nat
  BY <1>3, Fields
<1>10. o.requested = o.filled + o.cancelled + o.dust + o.remaining
  BY <1>3, <1>8, <1>9
<1>11. Waiting(o)
  BY <1>3, <1>7, <1>8, <1>10 DEF Accounted, Waiting, Ended
<1>12. PICK last : last = [o EXCEPT !.dust = o.remaining, !.remaining = 0, !.ends = o.ends + 1]
  OBVIOUS
<1>13. IF o.remaining >= Minimum THEN Quant!Attempt(i, o)
       ELSE orders' = [orders EXCEPT ![i] = last] /\ pending' = pending
  BY <1>1, <1>4, <1>12 DEF Quant!Fill
<1>14. CASE o.remaining >= Minimum
  BY <1>11, <1>13, <1>14, Attempting
<1>15. CASE ~(o.remaining >= Minimum)
  <2>1. orders' = [orders EXCEPT ![i] = last] /\ pending' = pending
    BY <1>13, <1>15
  <2>2. last = [symbol |-> o.symbol, side |-> o.side, signal |-> o.signal,
                requested |-> o.requested, remaining |-> 0, filled |-> o.filled,
                cancelled |-> o.cancelled, dust |-> o.remaining, attempts |-> o.attempts,
                ends |-> o.ends + 1]
    BY <1>7, <1>12 DEF OrderSet
  <2>3. o.ends + 1 = 1 /\ 1 \in Nat /\ 0 \in Nat
    BY <1>3, <1>8
  <2>4. last \in OrderSet
    BY <1>7, <2>2, <2>3, Fields DEF OrderSet
  <2>5. /\ last.requested = o.requested /\ last.filled = o.filled /\ last.cancelled = o.cancelled
        /\ last.dust = o.remaining /\ last.remaining = 0 /\ last.ends = 1
    BY <2>2, <2>3
  <2>6. o.remaining < Minimum /\ o.remaining \in Nat
    BY <1>7, <1>15, Sizes, Fields
  <2>7. last.requested = last.filled + last.cancelled + last.dust + last.remaining
    <3>1. o.dust = 0 /\ o.filled \in Nat /\ o.cancelled \in Nat /\ o.remaining \in Nat
      BY <1>3, <1>7, <1>8, Fields
    <3>2. o.requested = o.filled + o.cancelled + o.remaining
      BY <1>10, <3>1
    <3> QED
      BY <2>5, <3>1, <3>2
  <2>8. Ended(last)
    <3>1. Accounted(last)
      BY <2>4, <2>7 DEF Accounted
    <3>2. last.dust < Minimum
      BY <2>5, <2>6
    <3> QED
      BY <2>5, <3>1, <3>2 DEF Ended
  <2> QED
    BY <2>1, <2>8, Replacing
<1> QED
  BY <1>14, <1>15

\* The order that is tried next is one of those left to try.
LEMMA TriedIs ==
  ASSUME OrdersInv, todo # {}
  PROVE  Quant!Tried \in todo
<1>1. orders \in Seq(OrderSet) /\ todo \subseteq DOMAIN orders
  BY DEF OrdersInv
<1>2. Len(orders) \in Nat /\ DOMAIN orders = 1 .. Len(orders)
  BY <1>1
<1>3. PICK n : n = Len(orders)
  OBVIOUS
<1>4. 1 \in Int /\ n \in Int
  BY <1>2, <1>3
<1>5. IsFiniteSet(1 .. n)
  BY <1>4, FS_Interval
<1>6. \A S : S \subseteq todo => S \subseteq 1 .. n /\ S \in SUBSET Int
  BY <1>1, <1>2, <1>3
<1>7. \A S : S \subseteq todo => IsFiniteSet(S)
  BY <1>5, <1>6, FS_Subset
<1>8. ASSUME NEW S, S \subseteq todo, S # {} PROVE Quant!Min(S) \in S
  BY <1>6, <1>7, <1>8, LeastIs
<1>9. Quant!Sells \subseteq todo
  BY DEF Quant!Sells
<1> QED
  BY <1>8, <1>9 DEF Quant!Tried

\* Trying a symbol that does not trade
LEMMA Waiting1 ==
  ASSUME QuantInv, NEW i \in todo, Quant!Untradable(i), todo' = todo \ {i}
  PROVE  /\ OrdersInv'
         /\ cash' \in Nat /\ position' \in [Symbols -> Nat]
<1>1. Waiting(orders[i])
  BY DEF QuantInv, OrdersInv
<1>2. Quant!Attempt(i, orders[i]) /\ cash' = cash /\ position' = position
  BY DEF Quant!Untradable
<1>3. PICK o : o = orders[i]
  OBVIOUS
<1>4. OrdersInv'
  BY <1>1, <1>2, <1>3, Attempting DEF QuantInv
<1> QED
  BY <1>2, <1>4 DEF QuantInv

\* A sale
LEMMA Selling ==
  ASSUME QuantInv, NEW i \in todo, NEW c \in 1 .. Capacity, Quant!Sell(i, c), todo' = todo \ {i}
  PROVE  /\ OrdersInv'
         /\ cash' \in Nat /\ position' \in [Symbols -> Nat]
<1>1. Waiting(orders[i]) /\ OrdersInv /\ cash \in Nat /\ position \in [Symbols -> Nat]
  BY DEF QuantInv, OrdersInv
<1>2. PICK o : o = orders[i]
  OBVIOUS
<1>3. o \in OrderSet
  BY <1>1, <1>2 DEF Waiting, Accounted
<1>4. o.symbol \in Symbols /\ o.remaining \in Nat
  BY <1>3, Fields
<1>5. PICK s : s = o.symbol
  OBVIOUS
<1>6. s \in Symbols /\ position[s] \in Nat
  BY <1>1, <1>4, <1>5
<1>7. PICK n : n = Quant!Min({o.remaining, c, position[s]})
  OBVIOUS
<1>8. c \in Nat
  BY Sizes
<1>9. n \in Nat /\ n <= o.remaining /\ n <= position[s]
  BY <1>4, <1>6, <1>7, <1>8, LeastOfThree
<1>10. IF n = 0
       THEN /\ orders' = [orders EXCEPT ![i] = Quant!Cancelled(o)]
            /\ UNCHANGED <<cash, position, pending>>
       ELSE /\ Quant!Fill(i, n) /\ position' = [position EXCEPT ![s] = position[s] - n]
            /\ cash' = cash + n - Quant!Fee(n)
  BY <1>2, <1>5, <1>7 DEF Quant!Sell
<1>11. CASE n = 0
  <2>1. Ended(Quant!Cancelled(o))
    BY <1>1, <1>2, CancelledIs
  <2>2. OrdersInv'
    BY <1>1, <1>10, <1>11, <2>1, Replacing
  <2> QED
    BY <1>1, <1>10, <1>11, <2>2
<1>12. CASE n # 0
  <2>1. /\ Quant!Fill(i, n) /\ position' = [position EXCEPT ![s] = position[s] - n]
        /\ cash' = cash + n - Quant!Fee(n)
    BY <1>10, <1>12
  <2>2. OrdersInv'
    BY <1>1, <1>2, <1>9, <2>1, Filling
  <2>3. PICK f : f = Quant!Fee(n)
    OBVIOUS
  <2>4. f \in Nat /\ f <= n
    BY <1>9, <2>3, FeeIs
  <2>5. cash' \in Nat
    BY <1>1, <1>9, <2>1, <2>3, <2>4
  <2>6. position[s] - n \in Nat
    BY <1>6, <1>9
  <2>7. position' \in [Symbols -> Nat]
    BY <1>1, <2>1, <2>6
  <2> QED
    BY <2>2, <2>5, <2>7
<1> QED
  BY <1>11, <1>12

\* A purchase
LEMMA Buying ==
  ASSUME QuantInv, NEW i \in todo, NEW c \in 1 .. Capacity, Quant!Buy(i, c), todo' = todo \ {i}
  PROVE  /\ OrdersInv'
         /\ cash' \in Nat /\ position' \in [Symbols -> Nat]
<1>1. Waiting(orders[i]) /\ OrdersInv /\ cash \in Nat /\ position \in [Symbols -> Nat]
  BY DEF QuantInv, OrdersInv
<1>2. PICK o : o = orders[i]
  OBVIOUS
<1>3. o \in OrderSet
  BY <1>1, <1>2 DEF Waiting, Accounted
<1>4. o.symbol \in Symbols /\ o.remaining \in Nat
  BY <1>3, Fields
<1>5. PICK s : s = o.symbol
  OBVIOUS
<1>6. s \in Symbols /\ position[s] \in Nat
  BY <1>1, <1>4, <1>5
<1>7. PICK most : most = Quant!Affordable(cash)
  OBVIOUS
<1>8. most \in Nat /\ \A m \in Nat : m <= most => m + Quant!Fee(m) <= cash
  BY <1>1, <1>7, AffordableIs
<1>9. PICK n : n = Quant!Min({o.remaining, c, most})
  OBVIOUS
<1>10. c \in Nat
  BY Sizes
<1>11. n \in Nat /\ n <= o.remaining /\ n <= most
  BY <1>4, <1>8, <1>9, <1>10, LeastOfThree
<1>12. IF n < Minimum THEN Quant!Untradable(i)
       ELSE /\ Quant!Fill(i, n) /\ position' = [position EXCEPT ![s] = position[s] + n]
            /\ cash' = cash - n - Quant!Fee(n)
  BY <1>2, <1>5, <1>7, <1>9 DEF Quant!Buy
<1>13. CASE n < Minimum
  BY <1>12, <1>13, Waiting1
<1>14. CASE ~(n < Minimum)
  <2>1. /\ Quant!Fill(i, n) /\ position' = [position EXCEPT ![s] = position[s] + n]
        /\ cash' = cash - n - Quant!Fee(n)
    BY <1>12, <1>14
  <2>2. OrdersInv'
    BY <1>1, <1>2, <1>11, <2>1, Filling
  <2>3. PICK f : f = Quant!Fee(n)
    OBVIOUS
  <2>4. f \in Nat /\ n + f <= cash
    BY <1>8, <1>11, <2>3, FeeIs
  <2>5. cash' \in Nat
    BY <1>1, <1>11, <2>1, <2>3, <2>4
  <2>6. position[s] + n \in Nat
    BY <1>6, <1>11
  <2>7. position' \in [Symbols -> Nat]
    BY <1>1, <2>1, <2>6
  <2> QED
    BY <2>2, <2>5, <2>7
<1> QED
  BY <1>13, <1>14

\* The order towards a target has all of its size still to trade.
LEMMA OrderIs ==
  ASSUME QuantInv, NEW s \in Symbols, NEW want \in Int
  PROVE  Waiting(Quant!Order(s, want))
<1>1. position[s] \in Nat /\ day \in Nat
  BY DEF QuantInv
<1>2. PICK delta : delta = want - position[s]
  OBVIOUS
<1>3. PICK size : size = IF delta > 0 THEN delta ELSE -delta
  OBVIOUS
<1>4. size \in Nat
  BY <1>1, <1>2, <1>3
<1>5. PICK side : side = IF delta > 0 THEN "buy" ELSE "sell"
  OBVIOUS
<1>6. side \in {"buy", "sell"}
  BY <1>5
<1>7. PICK o : o = Quant!Order(s, want)
  OBVIOUS
<1>8. o = [symbol |-> s, side |-> side, signal |-> day, requested |-> size, remaining |-> size,
           filled |-> 0, cancelled |-> 0, dust |-> 0, attempts |-> 0, ends |-> 0]
  BY <1>2, <1>3, <1>5, <1>7 DEF Quant!Order
<1>9. o \in OrderSet
  BY <1>1, <1>4, <1>6, <1>8 DEF OrderSet
<1>10. o.requested = o.filled + o.cancelled + o.dust + o.remaining /\ o.dust = 0 /\ o.ends = 0
  BY <1>4, <1>8
<1> QED
  BY <1>7, <1>9, <1>10 DEF Waiting, Accounted

\* What is proposed is a list of such orders.
LEMMA ProposedIs ==
  ASSUME QuantInv, NEW d \in Quant!Targets
  PROVE  /\ Quant!Proposed(d) \in Seq(OrderSet)
         /\ \A k \in DOMAIN Quant!Proposed(d) : Waiting(Quant!Proposed(d)[k])
<1>1. \A s \in Symbols : d[s] \in Int
  BY DEF Quant!Targets
<1> DEFINE Wanted == {s \in Symbols : Quant!Order(s, d[s]).requested >= Minimum}
<1> DEFINE Nth(k) == CHOOSE s \in Wanted : Quant!Cardinality({x \in Wanted : x <= s}) = k
<1>2. Quant!Proposed(d) = [k \in 1 .. Quant!Cardinality(Wanted) |-> Quant!Order(Nth(k), d[Nth(k)])]
  BY DEF Quant!Proposed
<1>3. Wanted \in SUBSET Int /\ IsFiniteSet(Wanted) /\ Wanted \subseteq Symbols
  <2>1. Wanted \subseteq Symbols
    OBVIOUS
  <2> QED
    BY <2>1, Sizes, FS_Subset
<1> HIDE DEF Wanted
<1>4. PICK m : m = Cardinality(Wanted)
  OBVIOUS
<1>5. m \in Nat
  BY <1>3, <1>4, FS_CardinalityType
<1>6. ASSUME NEW k \in 1 .. m PROVE Nth(k) \in Wanted
  <2>1. \E s \in Wanted : Cardinality(Up(Wanted, s)) = k
    BY <1>3, <1>4, <1>5, <1>6, Ranks
  <2>2. \E s \in Wanted : Quant!Cardinality({x \in Wanted : x <= s}) = k
    BY <2>1, Sizes DEF Up
  <2> QED
    BY <2>2
<1> HIDE DEF Nth
<1>7. Quant!Proposed(d) = [k \in 1 .. m |-> Quant!Order(Nth(k), d[Nth(k)])]
  BY <1>2, <1>4, Sizes
<1>8. ASSUME NEW k \in 1 .. m PROVE Waiting(Quant!Order(Nth(k), d[Nth(k)]))
  BY <1>1, <1>3, <1>6, <1>8, OrderIs
<1>9. PICK p : p = Quant!Proposed(d)
  OBVIOUS
<1>10. DOMAIN p = 1 .. m /\ \A k \in 1 .. m : Waiting(p[k])
  BY <1>7, <1>8, <1>9
<1>11. \A k \in 1 .. m : p[k] \in OrderSet
  BY <1>10 DEF Waiting, Accounted
<1>12. p \in Seq(OrderSet)
  BY <1>5, <1>7, <1>9, <1>10, <1>11
<1> QED
  BY <1>9, <1>10, <1>12

\* What is pending when the next signal comes, or the end, is cancelled.
LEMMA ReplacedIs ==
  ASSUME QuantInv, todo = {}
  PROVE  /\ Quant!Replaced \in Seq(OrderSet) /\ Len(Quant!Replaced) = Len(orders)
         /\ \A i \in DOMAIN orders : Ended(Quant!Replaced[i])
<1>1. /\ orders \in Seq(OrderSet) /\ pending \subseteq DOMAIN orders
      /\ \A i \in pending : Waiting(orders[i])
      /\ \A i \in DOMAIN orders \ pending : Ended(orders[i])
  BY DEF QuantInv, OrdersInv
<1>2. Len(orders) \in Nat /\ DOMAIN orders = 1 .. Len(orders)
  BY <1>1
<1>3. PICK r : r = Quant!Replaced
  OBVIOUS
<1>4. r = [i \in DOMAIN orders |-> IF i \in pending THEN Quant!Cancelled(orders[i]) ELSE orders[i]]
  BY <1>3 DEF Quant!Replaced
<1>5. ASSUME NEW i \in DOMAIN orders PROVE Ended(r[i])
  <2>1. CASE i \in pending
    <3>1. Ended(Quant!Cancelled(orders[i]))
      BY <1>1, <2>1, CancelledIs
    <3> QED
      BY <1>4, <1>5, <2>1, <3>1
  <2>2. CASE i \notin pending
    BY <1>1, <1>4, <1>5, <2>2
  <2> QED
    BY <2>1, <2>2
<1>6. \A i \in 1 .. Len(orders) : r[i] \in OrderSet
  BY <1>2, <1>5 DEF Ended, Accounted
<1>7. r = [i \in 1 .. Len(orders) |-> r[i]]
  BY <1>2, <1>4
<1>8. r \in Seq(OrderSet) /\ Len(r) = Len(orders)
  BY <1>2, <1>6, <1>7
<1> QED
  BY <1>3, <1>5, <1>8

\* The orders of a signal follow the ended ones, and wait.
LEMMA Following ==
  ASSUME NEW a \in Seq(OrderSet), NEW b \in Seq(OrderSet),
         \A i \in DOMAIN a : Ended(a[i]), \A i \in DOMAIN b : Waiting(b[i]),
         orders' = a \o b, pending' = Len(a) + 1 .. Len(a) + Len(b), todo' = {}
  PROVE  OrdersInv'
<1>1. /\ Len(a) \in Nat /\ DOMAIN a = 1 .. Len(a) /\ Len(b) \in Nat /\ DOMAIN b = 1 .. Len(b)
  OBVIOUS
<1>2. PICK c : c = a \o b
  OBVIOUS
<1>3. /\ c \in Seq(OrderSet) /\ Len(c) = Len(a) + Len(b) /\ DOMAIN c = 1 .. Len(c)
      /\ \A i \in 1 .. Len(a) : c[i] = a[i]
      /\ \A i \in Len(a) + 1 .. Len(a) + Len(b) : c[i] = b[i - Len(a)]
  BY <1>1, <1>2
<1>4. ASSUME NEW i \in pending' \cup todo' PROVE Waiting(c[i])
  <2>1. i \in Len(a) + 1 .. Len(a) + Len(b)
    BY <1>4
  <2>2. i - Len(a) \in 1 .. Len(b)
    BY <1>1, <2>1
  <2>3. Waiting(b[i - Len(a)])
    BY <1>1, <2>2
  <2> QED
    BY <1>3, <2>1, <2>3
<1>5. ASSUME NEW i \in DOMAIN c \ (pending' \cup todo') PROVE Ended(c[i])
  <2>1. i \in 1 .. Len(a) + Len(b) /\ i \notin Len(a) + 1 .. Len(a) + Len(b)
    BY <1>3, <1>5
  <2>2. i \in 1 .. Len(a)
    BY <1>1, <2>1
  <2> QED
    BY <1>1, <1>3, <2>2
<1>6. pending' \subseteq DOMAIN c /\ todo' \subseteq DOMAIN c /\ pending' \cap todo' = {}
  BY <1>1, <1>3
<1>7. orders' = c
  BY <1>2
<1> QED
  BY <1>3, <1>4, <1>5, <1>6, <1>7 DEF OrdersInv, Waiting, Ended, Accounted, OrderSet

\* The close
LEMMA Closing ==
  ASSUME QuantInv, Quant!Close
  PROVE  QuantInv'
<1>1. /\ todo = {} /\ todo' = {} /\ cash' = cash /\ position' = position
      /\ day \in Nat /\ cash \in Nat /\ position \in [Symbols -> Nat] /\ OrdersInv
  BY DEF QuantInv, Quant!Close
<1>2. day' \in Nat
  BY <1>1 DEF Quant!Close
<1>3. CASE orders' = orders /\ pending' = pending
  <2>1. OrdersInv'
    BY <1>1, <1>3 DEF OrdersInv, Waiting, Ended, Accounted, OrderSet
  <2> QED
    BY <1>1, <1>2, <2>1 DEF QuantInv
<1>4. CASE orders' = Quant!Replaced /\ pending' = {}
  <2>1. /\ Quant!Replaced \in Seq(OrderSet) /\ Len(Quant!Replaced) = Len(orders)
        /\ \A i \in DOMAIN orders : Ended(Quant!Replaced[i])
    BY <1>1, ReplacedIs
  <2>2. PICK r : r = Quant!Replaced
    OBVIOUS
  <2>3. orders \in Seq(OrderSet)
    BY <1>1 DEF OrdersInv
  <2>4. r \in Seq(OrderSet) /\ DOMAIN r = DOMAIN orders /\ orders' = r
    BY <1>4, <2>1, <2>2, <2>3
  <2>5. \A i \in DOMAIN r : Ended(r[i])
    BY <2>1, <2>2, <2>4
  <2>6. OrdersInv'
    BY <1>1, <1>4, <2>4, <2>5 DEF OrdersInv, Waiting, Ended, Accounted, OrderSet
  <2> QED
    BY <1>1, <1>2, <2>6 DEF QuantInv
<1>5. CASE \E d \in Quant!Targets :
             /\ orders' = Quant!Replaced \o Quant!Proposed(d)
             /\ pending' = Len(orders) + 1 .. Len(orders) + Len(Quant!Proposed(d))
  <2>1. PICK d \in Quant!Targets :
             /\ orders' = Quant!Replaced \o Quant!Proposed(d)
             /\ pending' = Len(orders) + 1 .. Len(orders) + Len(Quant!Proposed(d))
    BY <1>5
  <2>2. /\ Quant!Replaced \in Seq(OrderSet) /\ Len(Quant!Replaced) = Len(orders)
        /\ \A i \in DOMAIN orders : Ended(Quant!Replaced[i])
    BY <1>1, ReplacedIs
  <2>3. PICK a : a = Quant!Replaced
    OBVIOUS
  <2>4. PICK b : b = Quant!Proposed(d)
    OBVIOUS
  <2>5. orders \in Seq(OrderSet)
    BY <1>1 DEF OrdersInv
  <2>6. a \in Seq(OrderSet) /\ Len(a) = Len(orders) /\ DOMAIN a = DOMAIN orders
    BY <2>2, <2>3, <2>5
  <2>7. \A i \in DOMAIN a : Ended(a[i])
    BY <2>2, <2>3, <2>6
  <2>8. b \in Seq(OrderSet) /\ \A i \in DOMAIN b : Waiting(b[i])
    BY <2>4, ProposedIs
  <2>9. orders' = a \o b /\ pending' = Len(a) + 1 .. Len(a) + Len(b)
    BY <2>1, <2>3, <2>4, <2>6
  <2>10. OrdersInv'
    BY <1>1, <2>6, <2>7, <2>8, <2>9, Following
  <2> QED
    BY <1>1, <1>2, <2>10 DEF QuantInv
<1> QED
  BY <1>3, <1>4, <1>5 DEF Quant!Close

\* The open: every pending order is now to be tried.
LEMMA Opening ==
  ASSUME QuantInv, Quant!Open
  PROVE  QuantInv'
<1>1. /\ stage = "open" /\ stage' = "trading" /\ todo' = pending /\ pending' = {}
      /\ day' = day /\ cash' = cash /\ orders' = orders
      /\ position' \in [Symbols -> 0 .. 2 * Capital + 1]
  BY DEF Quant!Open
<1>2. position' \in [Symbols -> Nat]
  <2>1. \A x \in 0 .. 2 * Capital + 1 : x \in Nat
    BY Sizes
  <2> QED
    BY <1>1, <2>1
<1>3. todo = {} /\ OrdersInv
  BY <1>1 DEF QuantInv
<1>4. OrdersInv'
  BY <1>1, <1>3 DEF OrdersInv, Waiting, Ended, Accounted, OrderSet
<1> QED
  BY <1>1, <1>2, <1>4 DEF QuantInv

\* At first nothing is held and nothing is ordered.
LEMMA QuantStart == Quant!Init => QuantInv
<1> SUFFICES ASSUME Quant!Init PROVE QuantInv
  OBVIOUS
<1>1. /\ day = 0 /\ stage = "open" /\ cash = Capital /\ position = [s \in Symbols |-> 0]
      /\ orders = <<>> /\ pending = {} /\ todo = {}
  BY DEF Quant!Init
<1>2. cash \in Nat /\ position \in [Symbols -> Nat]
  BY <1>1, Sizes
<1>3. orders \in Seq(OrderSet) /\ DOMAIN orders = {}
  BY <1>1
<1>4. OrdersInv
  BY <1>1, <1>3 DEF OrdersInv
<1> QED
  BY <1>1, <1>2, <1>4 DEF QuantInv

\* Every step of the simulation
LEMMA QuantStep == QuantInv /\ [Quant!Next]_(Quant!vars) => QuantInv'
<1> SUFFICES ASSUME QuantInv, [Quant!Next]_(Quant!vars) PROVE QuantInv'
  OBVIOUS
<1>1. CASE Quant!Open
  BY <1>1, Opening
<1>2. CASE Quant!Close
  BY <1>2, Closing
<1>3. CASE Quant!Try
  <2>1. PICK i : i = Quant!Tried
    OBVIOUS
  <2>2. i \in todo
    BY <1>3, <2>1, TriedIs DEF Quant!Try, QuantInv
  <2>3. /\ stage = "trading" /\ todo' = todo \ {i} /\ day' = day /\ stage' = stage
        /\ \/ Quant!Untradable(i)
           \/ \E c \in 1 .. Capacity : Quant!Sell(i, c) \/ Quant!Buy(i, c)
    BY <1>3, <2>1 DEF Quant!Try
  <2>4. OrdersInv' /\ cash' \in Nat /\ position' \in [Symbols -> Nat]
    BY <2>2, <2>3, Waiting1, Selling, Buying
  <2> QED
    BY <2>3, <2>4 DEF QuantInv
<1>4. CASE UNCHANGED Quant!vars
  <2>1. UNCHANGED <<day, stage, cash, position, orders, pending, todo>>
    BY <1>4 DEF Quant!vars
  <2> QED
    BY <2>1 DEF QuantInv, OrdersInv, Waiting, Ended, Accounted, OrderSet
<1> QED
  BY <1>1, <1>2, <1>3, <1>4 DEF Quant!Next

\* Orders add up, and the simulation never borrows.
LEMMA QuantHolds == QuantInv => Quant!OrdersAddUp /\ Quant!NeverBorrows
<1> SUFFICES ASSUME QuantInv PROVE Quant!OrdersAddUp /\ Quant!NeverBorrows
  OBVIOUS
<1>1. /\ \A i \in pending \cup todo : Waiting(orders[i])
      /\ \A i \in DOMAIN orders \ (pending \cup todo) : Ended(orders[i])
      /\ cash \in Nat /\ position \in [Symbols -> Nat]
  BY DEF QuantInv, OrdersInv
<1>2. 0 < Minimum
  BY Sizes
<1>3. ASSUME NEW i \in DOMAIN orders
      PROVE  /\ orders[i].requested = orders[i].filled + orders[i].cancelled + orders[i].dust
                                      + orders[i].remaining
             /\ orders[i].dust < Minimum
             /\ orders[i].ends = IF i \in pending \cup todo THEN 0 ELSE 1
             /\ orders[i].ends = 1 => orders[i].remaining = 0
  <2>1. CASE i \in pending \cup todo
    BY <1>1, <1>2, <2>1 DEF Waiting, Accounted
  <2>2. CASE i \notin pending \cup todo
    BY <1>1, <2>2 DEF Ended, Accounted
  <2> QED
    BY <2>1, <2>2
<1>4. Quant!OrdersAddUp
  BY <1>3 DEF Quant!OrdersAddUp
<1>5. Quant!NeverBorrows
  BY <1>1 DEF Quant!NeverBorrows
<1> QED
  BY <1>4, <1>5

-----------------------------------------------------------------------------
(* All of them together.                                                   *)

\* Steps that leave a component alone keep its invariant.
LEMMA AlphaStays == AlphaInv /\ UNCHANGED alphaVars => AlphaInv'
<1> SUFFICES ASSUME AlphaInv, UNCHANGED alphaVars PROVE AlphaInv'
  OBVIOUS
<1>1. UNCHANGED <<traded, labelEnd, fold, fitted, oos, calibration, gate, forecasts>>
  BY DEF alphaVars
<1>2. Alpha!Dates' = Alpha!Dates /\ Alpha!Evaluation' = Alpha!Evaluation
  BY <1>1 DEF Alpha!Dates, Alpha!Evaluation
<1>3. Alpha!Folds' = Alpha!Folds
  BY <1>2 DEF Alpha!Folds
<1>4. AlphaTypes'
  BY <1>1 DEF AlphaInv, AlphaTypes
<1>5. Alpha!PredictedFromThePast'
  BY <1>1 DEF AlphaInv, Alpha!PredictedFromThePast
<1>6. Alpha!Enough(Alpha!Evaluation)' <=> Alpha!Enough(Alpha!Evaluation)
  BY <1>2 DEF Alpha!Enough
<1> QED
  BY <1>1, <1>2, <1>3, <1>4, <1>5, <1>6 DEF AlphaInv

\* The scores
LEMMA ScoresRemain == ScoresInv /\ UNCHANGED scoresVars => ScoresInv'
<1> SUFFICES ASSUME ScoresInv, UNCHANGED scoresVars PROVE ScoresInv'
  OBVIOUS
<1>1. UNCHANGED <<data, verified, loaded, scored, outcome>>
  BY DEF scoresVars
<1>2. /\ Scores!Candidates' = Scores!Candidates
  BY <1>1 DEF Scores!Candidates
<1>3. (Scores!AllLoaded' <=> Scores!AllLoaded) /\ (Scores!Professional' <=> Scores!Professional)
  BY <1>1, <1>2 DEF Scores!AllLoaded, Scores!Professional
<1>4. \A i \in DOMAIN scored' : /\ scored'[i].day \in Int
                                /\ scored'[i].scores = Scores!Scores(data, scored'[i].day)
  BY <1>1 DEF ScoresInv
<1>5. \A d : Scores!Scores(data, d)' = Scores!Scores(data, d)
  BY <1>1, ScoresStay
<1> QED
  BY <1>1, <1>2, <1>3, <1>4, <1>5 DEF ScoresInv

\* The orders
LEMMA QuantStays == QuantInv /\ UNCHANGED quantVars => QuantInv'
<1> SUFFICES ASSUME QuantInv, UNCHANGED quantVars PROVE QuantInv'
  OBVIOUS
<1>1. UNCHANGED Quant!vars
  BY DEF quantVars, Quant!vars
<1> QED
  BY <1>1, QuantStep

\* The windows
LEMMA BacktestStays == BacktestInv /\ UNCHANGED backtestVars => BacktestInv'
<1> SUFFICES ASSUME BacktestInv, UNCHANGED backtestVars PROVE BacktestInv'
  OBVIOUS
<1>1. UNCHANGED Backtest!vars
  BY DEF backtestVars, Backtest!vars
<1> QED
  BY <1>1, BacktestStep

\* The incidents
LEMMA IncidentsStay == IncidentsInv /\ UNCHANGED incidentVars => IncidentsInv'
  BY DEF incidentVars, IncidentsInv, OpenAt

\* The strategy
LEMMA GovernanceStays ==
  GovernanceInv /\ UNCHANGED governanceVars => GovernanceInv' /\ Governance!Allowing
<1> SUFFICES ASSUME GovernanceInv, UNCHANGED governanceVars
             PROVE  GovernanceInv' /\ Governance!Allowing
  OBVIOUS
<1>1. UNCHANGED Governance!vars
  BY DEF governanceVars, Governance!vars
<1> QED
  BY <1>1, GovernanceStep

\* The runs
LEMMA SelectionStays == SelectionInv /\ UNCHANGED selectionVars => SelectionInv'
<1> SUFFICES ASSUME SelectionInv, UNCHANGED selectionVars PROVE SelectionInv'
  OBVIOUS
<1>1. UNCHANGED <<run, job, executor, mandate, validation, strategy, today, request>>
  BY DEF selectionVars
<1>2. /\ run \in [Runs -> RunSet] /\ DOMAIN job = Runs /\ job = [r \in Runs |-> job[r]]
      /\ executor = [r \in Runs |-> executor[r]] /\ mandate = [r \in Runs |-> mandate[r]]
      /\ validation = [r \in Runs |-> validation[r]]
      /\ today \in Nat /\ request \in [Requests -> FormSet]
  BY DEF SelectionInv
<1>3. \A r \in Runs : RunIs(run'[r], job'[r], executor'[r], mandate'[r], validation'[r])
  BY <1>1 DEF SelectionInv
<1>4. \A q \in Requests : request'[q].at # "idle" =>
        /\ request'[q].run \in Runs
        /\ Asks(request'[q], run'[request'[q].run], job'[request'[q].run],
                executor'[request'[q].run], mandate'[request'[q].run])
  BY <1>1 DEF SelectionInv
<1>5. \A q \in Requests, p \in Requests :
        q # p /\ Starting(request'[q]) /\ Starting(request'[p]) => request'[q].run # request'[p].run
  BY <1>1 DEF SelectionInv
<1>6. /\ run' \in [Runs -> RunSet] /\ DOMAIN job' = Runs /\ job' = [r \in Runs |-> job'[r]]
      /\ executor' = [r \in Runs |-> executor'[r]] /\ mandate' = [r \in Runs |-> mandate'[r]]
      /\ validation' = [r \in Runs |-> validation'[r]]
      /\ today' \in Nat /\ request' \in [Requests -> FormSet]
  BY <1>1, <1>2
<1> QED
  BY <1>3, <1>4, <1>5, <1>6 DEF SelectionInv, RunIs, Asks, Starting

EnginesInv ==
  /\ focus = "alpha" => AlphaInv
  /\ focus = "scores" => ScoresInv
  /\ focus = "quant" => QuantInv
  /\ focus = "backtest" => BacktestInv
  /\ focus = "incidents" => IncidentsInv
  /\ focus = "governance" => GovernanceInv
  /\ focus = "selection" => SelectionInv

\* The component in focus starts in its invariant.
LEMMA EnginesStart == MCInit => EnginesInv
<1> SUFFICES ASSUME MCInit PROVE EnginesInv
  OBVIOUS
<1>1. CASE focus = "alpha"
  BY <1>1, AlphaStart DEF MCInit, EnginesInv
<1>2. CASE focus = "scores"
  BY <1>2, ScoresStart DEF MCInit, EnginesInv
<1>3. CASE focus = "quant"
  BY <1>3, QuantStart DEF MCInit, EnginesInv
<1>4. CASE focus = "backtest"
  BY <1>4, BacktestStart DEF MCInit, EnginesInv
<1>5. CASE focus = "incidents"
  BY <1>5, IncidentsStart DEF MCInit, EnginesInv
<1>6. CASE focus = "governance"
  BY <1>6, GovernanceStart DEF MCInit, EnginesInv
<1>7. CASE focus = "selection"
  BY <1>7, SelectionStart DEF MCInit, EnginesInv
<1>8. CASE focus \in {"amounts", "lots", "changes"}
  BY <1>8 DEF EnginesInv
<1> QED
  BY <1>1, <1>2, <1>3, <1>4, <1>5, <1>6, <1>7, <1>8 DEF MCInit

\* Its steps keep it, and a use is allowed only while the strategy is released.
LEMMA EnginesStep ==
  EnginesInv /\ [MCNext]_all =>
    EnginesInv' /\ (focus = "governance" => Governance!Allowing)
<1> SUFFICES ASSUME EnginesInv, [MCNext]_all
             PROVE  EnginesInv' /\ (focus = "governance" => Governance!Allowing)
  OBVIOUS
<1>0. focus' = focus
  BY DEF MCNext, all
<1>1. CASE focus = "alpha"
  <2>1. AlphaInv /\ (Alpha!Next \/ UNCHANGED alphaVars)
    BY <1>1 DEF EnginesInv, MCNext, all
  <2>2. AlphaInv'
    BY <2>1, AlphaStep, AlphaStays
  <2> QED
    BY <1>0, <1>1, <2>2 DEF EnginesInv
<1>2. CASE focus = "scores"
  <2>1. ScoresInv /\ (Scores!Next \/ UNCHANGED scoresVars)
    BY <1>2 DEF EnginesInv, MCNext, all
  <2>2. ScoresInv'
    BY <2>1, ScoresStep, ScoresRemain
  <2> QED
    BY <1>0, <1>2, <2>2 DEF EnginesInv
<1>3. CASE focus = "quant"
  <2>1. QuantInv /\ (Quant!Next \/ UNCHANGED quantVars)
    BY <1>3 DEF EnginesInv, MCNext, all
  <2>2. QuantInv'
    BY <2>1, QuantStep, QuantStays
  <2> QED
    BY <1>0, <1>3, <2>2 DEF EnginesInv
<1>4. CASE focus = "backtest"
  <2>1. BacktestInv /\ (Backtest!Next \/ UNCHANGED backtestVars)
    BY <1>4 DEF EnginesInv, MCNext, all
  <2>2. BacktestInv'
    BY <2>1, BacktestStep, BacktestStays
  <2> QED
    BY <1>0, <1>4, <2>2 DEF EnginesInv
<1>5. CASE focus = "incidents"
  <2>1. IncidentsInv /\ (Incidents!Next \/ UNCHANGED incidentVars)
    BY <1>5 DEF EnginesInv, MCNext, all
  <2>2. IncidentsInv'
    BY <2>1, IncidentsStep, IncidentsStay
  <2> QED
    BY <1>0, <1>5, <2>2 DEF EnginesInv
<1>6. CASE focus = "governance"
  <2>1. GovernanceInv /\ (Governance!Next \/ UNCHANGED governanceVars)
    BY <1>6 DEF EnginesInv, MCNext, all
  <2>2. GovernanceInv' /\ Governance!Allowing
    BY <2>1, GovernanceStep, GovernanceStays
  <2> QED
    BY <1>0, <1>6, <2>2 DEF EnginesInv
<1>7. CASE focus = "selection"
  <2>1. SelectionInv /\ (Selection!Next \/ UNCHANGED selectionVars)
    BY <1>7 DEF EnginesInv, MCNext, all
  <2>2. SelectionInv'
    BY <2>1, SelectionStep, SelectionStays
  <2> QED
    BY <1>0, <1>7, <2>2 DEF EnginesInv
<1>8. CASE focus \notin {"alpha", "scores", "quant", "backtest", "incidents", "governance",
                         "selection"}
  BY <1>0, <1>8 DEF EnginesInv
<1> QED
  BY <1>1, <1>2, <1>3, <1>4, <1>5, <1>6, <1>7, <1>8

\* A use is allowed only while the strategy is released (assert_strategy_available),
\* and no version reaches a stage that skips one on the way
\* (transition_strategy_version).
THEOREM Allowed == MCSpec => AllowedIsReleased
<1>1. EnginesInv /\ EnginesInv' /\ [MCNext]_all
        => (focus = "governance" => Governance!Allowing /\ Governance!StagesAreInOrder')
  <2> SUFFICES ASSUME EnginesInv, EnginesInv', [MCNext]_all, focus = "governance"
               PROVE  Governance!Allowing /\ Governance!StagesAreInOrder'
    OBVIOUS
  <2>1. Governance!Allowing
    BY EnginesStep
  <2>2. GovernanceInv'
    BY DEF EnginesInv, MCNext, all
  <2>3. Governance!StagesAreInOrder'
    BY <2>2 DEF GovernanceInv, Governance!StagesAreInOrder
  <2> QED
    BY <2>1, <2>3
<1>2. EnginesInv /\ [MCNext]_all => EnginesInv'
  BY EnginesStep
<1>3. EnginesInv /\ EnginesInv' /\ [MCNext]_all =>
        [focus = "governance" => Governance!Allowing /\ Governance!StagesAreInOrder']_all
  BY <1>1
<1> QED
  BY <1>2, <1>3, EnginesStart, PTL DEF MCSpec, AllowedIsReleased

\* A model predicts days that none of its labels reaches (_fit_walk_forward), a
\* signal is the one its day's knowledge gives (_factor_snapshot), and a window is
\* simulated on bars of its own (run_execution_backtest): however long the history
\* is, and whatever the prices, the disclosures and the members are.
THEOREM Separate == MCSpec => []PastAndFutureAreSeparate
<1>1. EnginesInv => PastAndFutureAreSeparate
  BY AlphaHolds, ScoresHold, BacktestHolds DEF EnginesInv, PastAndFutureAreSeparate
<1>2. EnginesInv /\ [MCNext]_all => EnginesInv'
  BY EnginesStep
<1> QED
  BY <1>1, <1>2, EnginesStart, PTL DEF MCSpec

\* The latest snapshot knows every incident that is open, unless a probe opened it
\* that was recorded late, and shows none it knows as operational (record_probe,
\* public_summary); what is tried on paper is the one result of a run
\* (freeze_mandate, complete_run), which lacked nothing (_promotion_gate).
THEOREM Gated == MCSpec => []GatesAreTrue
<1>1. EnginesInv => GatesAreTrue
  BY IncidentsHold, SelectionHolds, ScoresHold DEF EnginesInv, GatesAreTrue
<1>2. EnginesInv /\ [MCNext]_all => EnginesInv'
  BY EnginesStep
<1> QED
  BY <1>1, <1>2, EnginesStart, PTL DEF MCSpec

\* What an order asked for is accounted for to the end, and the simulation neither
\* borrows nor sells what it does not hold (_simulate_core): the part of BooksBalance
\* that is about the simulation.
THEOREM Accounts == MCSpec => [](focus = "quant" => Quant!OrdersAddUp /\ Quant!NeverBorrows)
<1>1. EnginesInv => (focus = "quant" => Quant!OrdersAddUp /\ Quant!NeverBorrows)
  BY QuantHolds DEF EnginesInv
<1>2. EnginesInv /\ [MCNext]_all => EnginesInv'
  BY EnginesStep
<1> QED
  BY <1>1, <1>2, EnginesStart, PTL DEF MCSpec
=============================================================================
