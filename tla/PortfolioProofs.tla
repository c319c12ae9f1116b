---------------------------- MODULE PortfolioProofs ----------------------------
(***************************************************************************)
(* Theorems about what becomes of a user's money, for every number of      *)
(* plans, requests, experiments and readers: a purchase serves one plan    *)
(* and stays confirmed, a mandate and a plan are made from what was true   *)
(* at one moment, a job that succeeded has its result, and a committee's   *)
(* mandate that is shown as current gives what would be given now.         *)
(*                                                                         *)
(* Each component has an invariant that remembers what its requests have   *)
(* read: of a chain of confirmations that has only grown since             *)
(* (CapitalInv), of valuations and policies that only get newer, so that   *)
(* one which is still the newest has been all the time (QuantInv), of rows *)
(* that are never rewritten (RoutesInv), and of mandates that stay and     *)
(* times that nobody else has (CommitteeInv).  SizingInv bounds what is    *)
(* still to be given by what is left; it rests on the laws of sums over a  *)
(* finite set, proved first.                                               *)
(***************************************************************************)
EXTENDS MCPortfolio, Sums, Sequences, FiniteSetTheorems, TLAPS

Sums(f, S, g) ==
  g = [T \in SUBSET S |->
         IF T = {} THEN 0 ELSE LET x == CHOOSE x \in T : TRUE IN f[x] + g[T \ {x}]]

\* Among sets of members of a finite set there is a smallest.
LEMMA Smallest ==
  ASSUME NEW S, IsFiniteSet(S), NEW Q, Q \subseteq SUBSET S, Q # {}
  PROVE  \E T \in Q : \A U \in Q : U \subseteq T => U = T
<1>1. FiniteSubsetsOf(S) = SUBSET S
  BY FS_FiniteSubsetsOfFinite
<1>2. IsWellFoundedOn(StrictSubsetOrdering(S), FiniteSubsetsOf(S))
  BY FS_StrictSubsetOrderingWellFounded
<1>3. PICK T \in Q : \A U \in Q : ~(<<U, T>> \in StrictSubsetOrdering(S))
  BY <1>1, <1>2, WFMin
<1>4. ASSUME NEW U \in Q, U \subseteq T, U # T PROVE FALSE
  <2>1. <<U, T>> \in StrictSubsetOrdering(S)
    BY <1>4 DEF StrictSubsetOrdering
  <2> QED
    BY <1>3, <2>1
<1> QED
  BY <1>3, <1>4

\* The equation of such a function.
LEMMA SumsEquation ==
  ASSUME NEW f, NEW S, NEW g, Sums(f, S, g), NEW T, T \subseteq S
  PROVE  IF T = {} THEN g[T] = 0
         ELSE \E x \in T : x = (CHOOSE y \in T : TRUE) /\ g[T] = f[x] + g[T \ {x}]
<1>1. g[T] = IF T = {} THEN 0 ELSE LET x == CHOOSE x \in T : TRUE IN f[x] + g[T \ {x}]
  BY Zenon DEF Sums
<1>2. T # {} => (CHOOSE y \in T : TRUE) \in T
  OBVIOUS
<1> QED
  BY <1>1, <1>2

LEMMA SumsAgree ==
  ASSUME NEW f, NEW S, NEW V, NEW g, NEW h, NEW T, T \subseteq S, T \subseteq V, IsFiniteSet(T),
         Sums(f, S, g), Sums(f, V, h)
  PROVE  g[T] = h[T]
<1>0. PICK Q : Q = {U \in SUBSET T : g[U] # h[U]}
  OBVIOUS
<1>1. SUFFICES ASSUME Q # {} PROVE FALSE
  BY <1>0
<1>2. PICK U \in Q : \A W \in Q : W \subseteq U => W = U
  BY <1>0, <1>1, Smallest
<1>3. U \subseteq S /\ U \subseteq V /\ U \in SUBSET T /\ g[U] # h[U]
  BY <1>0, <1>2
<1>4. U # {}
  BY <1>3, SumsEquation
<1>5. PICK x \in U : x = (CHOOSE y \in U : TRUE) /\ g[U] = f[x] + g[U \ {x}]
  BY <1>3, <1>4, SumsEquation
<1>8. PICK y \in U : y = (CHOOSE z \in U : TRUE) /\ h[U] = f[y] + h[U \ {y}]
  BY <1>3, <1>4, SumsEquation
<1>6. h[U] = f[x] + h[U \ {x}]
  BY <1>5, <1>8
<1>7. g[U \ {x}] = h[U \ {x}]
  BY <1>0, <1>2, <1>3
<1> QED
  BY <1>3, <1>5, <1>6, <1>7

LEMMA SumsExist ==
  ASSUME NEW f, NEW S, IsFiniteSet(S)
  PROVE  \E g : Sums(f, S, g)
<1>0. PICK Q : Q = {T \in SUBSET S : ~ \E g : Sums(f, T, g)}
  OBVIOUS
<1>1. SUFFICES ASSUME Q # {} PROVE FALSE
  BY <1>0
<1>20. Q \subseteq SUBSET S
  BY <1>0, Zenon
<1>2. PICK T \in Q : \A U \in Q : U \subseteq T => U = T
  BY <1>1, <1>20, Smallest
<1>3. T \in SUBSET S /\ ~ \E g : Sums(f, T, g)
  BY <1>0, <1>2
<1>4. T # {}
  <2>1. Sums(f, {}, [U \in {{}} |-> 0])
    BY DEF Sums
  <2> QED
    BY <1>3, <2>1
<1>5. PICK h : h = [x \in T |-> CHOOSE g : Sums(f, T \ {x}, g)]
  OBVIOUS
<1>6. \A x \in T : Sums(f, T \ {x}, h[x])
  <2>1. \A x \in T : T \ {x} \notin Q
    BY <1>2
  <2>2. \A x \in T : \E g : Sums(f, T \ {x}, g)
    BY <1>0, <1>3, <2>1
  <2> QED
    BY <1>5, <2>2, Zenon
<1>7. PICK c : c = [U \in SUBSET T |-> CHOOSE x \in U : TRUE]
  OBVIOUS
<1>8. \A U \in SUBSET T : c[U] = (CHOOSE x \in U : TRUE) /\ (U # {} => c[U] \in U)
  BY <1>7
<1>9. PICK g : g = [U \in SUBSET T |-> IF U = T THEN f[c[T]] + h[c[T]][T \ {c[T]}]
                                       ELSE h[c[T \ U]][U]]
  OBVIOUS
<1>10. g = [U \in SUBSET T |-> g[U]]
  BY <1>9
<1>11. c[T] \in T
  BY <1>4, <1>8
\* A value is that of every function it could have been taken from.
<1>12. ASSUME NEW x \in T, NEW U \in SUBSET (T \ {x}) PROVE g[U] = h[x][U]
  <2>1. PICK y : y = c[T \ U]
    OBVIOUS
  <2>2. y \in T /\ U \subseteq T \ {y}
    BY <1>8, <2>1
  <2>3. U \in SUBSET T /\ U # T
    OBVIOUS
  <2>4. g[U] = h[y][U]
    BY <1>9, <2>1, <2>3, Zenon
  <2>5. Sums(f, T \ {x}, h[x]) /\ Sums(f, T \ {y}, h[y])
    BY <1>6, <2>2
  <2>6. IsFiniteSet(U)
    BY <1>3, FS_Subset
  <2> QED
    BY <2>2, <2>4, <2>5, <2>6, SumsAgree
<1>13. g[T] = f[c[T]] + g[T \ {c[T]}]
  <2>1. g[T] = f[c[T]] + h[c[T]][T \ {c[T]}]
    BY <1>9, Zenon
  <2>2. g[T \ {c[T]}] = h[c[T]][T \ {c[T]}]
    BY <1>11, <1>12
  <2> QED
    BY <2>1, <2>2
<1>14. ASSUME NEW U \in SUBSET T, U # T, U # {} PROVE g[U] = f[c[U]] + g[U \ {c[U]}]
  <2>1. PICK x \in T : x \notin U
    BY <1>14
  <2>2. U \in SUBSET (T \ {x}) /\ U \ {c[U]} \in SUBSET (T \ {x})
    BY <2>1
  <2>3. g[U] = h[x][U] /\ g[U \ {c[U]}] = h[x][U \ {c[U]}]
    BY <1>12, <2>2
  <2>4. Sums(f, T \ {x}, h[x])
    BY <1>6
  <2>6. PICK y \in U : y = (CHOOSE z \in U : TRUE) /\ h[x][U] = f[y] + h[x][U \ {y}]
    BY <1>14, <2>2, <2>4, SumsEquation
  <2>5. h[x][U] = f[c[U]] + h[x][U \ {c[U]}]
    BY <1>8, <2>6
  <2> QED
    BY <2>3, <2>5
<1>15. g[{}] = 0
  <2>1. g[{}] = h[c[T]][{}] /\ Sums(f, T \ {c[T]}, h[c[T]])
    BY <1>6, <1>11, <1>12
  <2> QED
    BY <2>1, SumsEquation
<1>16. \A U \in SUBSET T : g[U] = IF U = {} THEN 0 ELSE f[c[U]] + g[U \ {c[U]}]
  BY <1>13, <1>14, <1>15
<1>17. g = [U \in SUBSET T |-> IF U = {} THEN 0 ELSE f[c[U]] + g[U \ {c[U]}]]
  BY <1>10, <1>16
<1>18. Sums(f, T, g)
  <2>1. \A U \in SUBSET T :
          (IF U = {} THEN 0 ELSE f[c[U]] + g[U \ {c[U]}])
            = IF U = {} THEN 0 ELSE LET x == CHOOSE x \in U : TRUE IN f[x] + g[U \ {x}]
    BY <1>8, Zenon
  <2> QED
    BY <1>17, <2>1, Zenon DEF Sums
<1> QED
  BY <1>3, <1>18

LEMMA SumIs ==
  ASSUME NEW f, NEW S, IsFiniteSet(S)
  PROVE  \E g : Sums(f, S, g) /\ Sum(f, S) = g[S]
<1>1. \E g : Sums(f, S, g)
  BY SumsExist
<1> QED
  BY <1>1, Zenon DEF Sum, Sums

LEMMA SumOfPart ==
  ASSUME NEW f, NEW T, IsFiniteSet(T), NEW g, Sums(f, T, g), NEW U, U \subseteq T
  PROVE  Sum(f, U) = g[U]
<1>1. IsFiniteSet(U)
  BY FS_Subset
<1>2. PICK h : Sums(f, U, h) /\ Sum(f, U) = h[U]
  BY <1>1, SumIs
<1>3. g[U] = h[U]
  BY <1>1, <1>2, SumsAgree
<1> QED
  BY <1>2, <1>3

\* The sum over a set without one of its members.
LEMMA SumWithout ==
  ASSUME NEW f, NEW S, IsFiniteSet(S), \A x \in S : f[x] \in Int
  PROVE  /\ Sum(f, S) \in Int
         /\ \A x \in S : Sum(f, S) = f[x] + Sum(f, S \ {x})
<1> DEFINE P(T) == Sum(f, T) \in Int /\ \A x \in T : Sum(f, T) = f[x] + Sum(f, T \ {x})
<1>0. PICK Q : Q = {T \in SUBSET S : ~ P(T)}
  OBVIOUS
<1>1. SUFFICES ASSUME Q # {} PROVE FALSE
  BY <1>0
<1>20. Q \subseteq SUBSET S
  BY <1>0, Zenon
<1>2. PICK T \in Q : \A U \in Q : U \subseteq T => U = T
  BY <1>1, <1>20, Smallest
<1>14. T \in SUBSET S /\ ~P(T)
  BY <1>0, <1>2
<1>3. \A U : U \subseteq T /\ U # T => P(U)
  BY <1>0, <1>2, <1>14
<1>4. PICK g : Sums(f, T, g) /\ Sum(f, T) = g[T]
  BY <1>14, FS_Subset, SumIs
<1>5. \A U : U \subseteq T => Sum(f, U) = g[U]
  <2>1. IsFiniteSet(T)
    BY <1>14, FS_Subset
  <2> QED
    BY <1>4, <2>1, SumOfPart
<1>6. T # {}
  <2>1. T = {} => Sum(f, T) = 0
    BY <1>4, SumsEquation
  <2> QED
    BY <1>14, <2>1
<1>8. PICK c \in T : g[T] = f[c] + g[T \ {c}]
  BY <1>4, <1>6, SumsEquation
<1>10. Sum(f, T) = f[c] + Sum(f, T \ {c})
  BY <1>4, <1>5, <1>8
<1>11. T \ {c} # T /\ f[c] \in Int
  BY <1>14, <1>8
<1>12. Sum(f, T \ {c}) \in Int
  BY <1>3, <1>11
<1>13. ASSUME NEW x \in T, x # c PROVE Sum(f, T) = f[x] + Sum(f, T \ {x})
  <2>1. T \ {x} # T /\ x \in T \ {c} /\ c \in T \ {x} /\ (T \ {x}) \ {c} = (T \ {c}) \ {x}
    BY <1>8, <1>13
  <2>2. Sum(f, T \ {c}) = f[x] + Sum(f, (T \ {c}) \ {x})
    BY <1>3, <1>11, <2>1
  <2>3. Sum(f, T \ {x}) = f[c] + Sum(f, (T \ {c}) \ {x})
    BY <1>3, <2>1
  <2>4. Sum(f, (T \ {c}) \ {x}) \in Int /\ f[x] \in Int
    BY <1>14, <1>3, <1>8, <1>13, <2>1
  <2> QED
    BY <1>10, <1>11, <2>2, <2>3, <2>4
<1>15. Sum(f, T) \in Int
  BY <1>10, <1>11, <1>12
<1>16. \A x \in T : Sum(f, T) = f[x] + Sum(f, T \ {x})
  BY <1>10, <1>13
<1> QED
  BY <1>14, <1>15, <1>16

\* The sum over nothing.
LEMMA SumOfNone == ASSUME NEW f PROVE Sum(f, {}) = 0
<1>1. IsFiniteSet({})
  BY FS_EmptySet
<1>2. PICK g : Sums(f, {}, g) /\ Sum(f, {}) = g[{}]
  BY <1>1, SumIs
<1> QED
  BY <1>2, SumsEquation

\* A bound on each value bounds the sum.
LEMMA SumBound ==
  ASSUME NEW S, IsFiniteSet(S), NEW f, NEW g, \A x \in S : f[x] \in Int /\ g[x] \in Int,
         NEW p \in Int, NEW q \in Int, NEW r \in Int,
         \A x \in S : p * f[x] <= q * g[x] + r
  PROVE  p * Sum(f, S) <= q * Sum(g, S) + r * Cardinality(S)
<1> DEFINE P(T) == p * Sum(f, T) <= q * Sum(g, T) + r * Cardinality(T)
<1>0. PICK Q : Q = {T \in SUBSET S : ~ P(T)}
  OBVIOUS
<1>1. SUFFICES ASSUME Q # {} PROVE FALSE
  BY <1>0
<1>20. Q \subseteq SUBSET S
  BY <1>0, Zenon
<1>2. PICK T \in Q : \A U \in Q : U \subseteq T => U = T
  BY <1>1, <1>20, Smallest
<1>3. T \in SUBSET S /\ ~P(T)
  BY <1>0, <1>2
<1>4. T # {}
  <2>1. Sum(f, {}) = 0 /\ Sum(g, {}) = 0 /\ Cardinality({}) = 0
    BY SumOfNone, FS_EmptySet
  <2>2. p * 0 <= q * 0 + r * 0
    OBVIOUS
  <2>3. P({})
    BY <2>1, <2>2
  <2> QED
    BY <1>3, <2>3
<1>5. PICK x \in T : TRUE
  BY <1>4
<1>6. P(T \ {x})
  BY <1>0, <1>2, <1>3, <1>5
<1>7. IsFiniteSet(T) /\ IsFiniteSet(T \ {x})
  BY <1>3, FS_Subset
<1>8. Cardinality(T) \in Nat /\ Cardinality(T \ {x}) = Cardinality(T) - 1
  BY <1>7, <1>5, FS_CardinalityType, FS_RemoveElement
<1>9. /\ Sum(f, T) = f[x] + Sum(f, T \ {x}) /\ Sum(f, T \ {x}) \in Int
      /\ Sum(g, T) = g[x] + Sum(g, T \ {x}) /\ Sum(g, T \ {x}) \in Int
  BY <1>3, <1>5, <1>7, SumWithout
<1>10. f[x] \in Int /\ g[x] \in Int /\ p * f[x] <= q * g[x] + r
  BY <1>3, <1>5
<1>11. PICK a, b, c, d, n :
         /\ a = f[x] /\ b = Sum(f, T \ {x}) /\ c = g[x] /\ d = Sum(g, T \ {x}) /\ n = Cardinality(T)
  OBVIOUS
<1>15. a \in Int /\ b \in Int /\ c \in Int /\ d \in Int /\ n \in Int
  BY <1>8, <1>9, <1>10, <1>11
<1>12. /\ p * (a + b) = p * a + p * b /\ q * (c + d) = q * c + q * d
       /\ r * (n - 1) = r * n - r
       /\ {p * a, p * b, q * c, q * d, r * n} \subseteq Int
  BY <1>15
<1>13. p * a <= q * c + r /\ p * b <= q * d + r * (n - 1)
  BY <1>6, <1>8, <1>10, <1>11
<1>14. p * (a + b) <= q * (c + d) + r * n
  BY <1>12, <1>13, <1>15
<1> QED
  BY <1>3, <1>8, <1>9, <1>11, <1>14

\* The sum of sums.
LEMMA SumOfBoth ==
  ASSUME NEW S, IsFiniteSet(S), NEW f, NEW g, NEW h,
         \A x \in S : f[x] \in Int /\ g[x] \in Int /\ h[x] = f[x] + g[x]
  PROVE  Sum(h, S) = Sum(f, S) + Sum(g, S)
<1> DEFINE P(T) == Sum(h, T) = Sum(f, T) + Sum(g, T)
<1>0. PICK Q : Q = {T \in SUBSET S : ~ P(T)}
  OBVIOUS
<1>1. SUFFICES ASSUME Q # {} PROVE FALSE
  BY <1>0
<1>20. Q \subseteq SUBSET S
  BY <1>0, Zenon
<1>2. PICK T \in Q : \A U \in Q : U \subseteq T => U = T
  BY <1>1, <1>20, Smallest
<1>3. T \in SUBSET S /\ ~P(T)
  BY <1>0, <1>2
<1>4. T # {}
  <2>1. P({})
    BY SumOfNone
  <2> QED
    BY <1>3, <2>1
<1>5. PICK x \in T : TRUE
  BY <1>4
<1>6. P(T \ {x})
  BY <1>0, <1>2, <1>3, <1>5
<1>7. IsFiniteSet(T)
  BY <1>3, FS_Subset
<1>8. \A y \in T : h[y] \in Int
  BY <1>3
<1>9. /\ Sum(f, T) = f[x] + Sum(f, T \ {x}) /\ Sum(f, T \ {x}) \in Int
      /\ Sum(g, T) = g[x] + Sum(g, T \ {x}) /\ Sum(g, T \ {x}) \in Int
      /\ Sum(h, T) = h[x] + Sum(h, T \ {x}) /\ Sum(h, T \ {x}) \in Int
  BY <1>3, <1>5, <1>7, <1>8, SumWithout, FS_Subset
<1>10. f[x] \in Int /\ g[x] \in Int /\ h[x] = f[x] + g[x]
  BY <1>3, <1>5
<1> QED
  BY <1>3, <1>6, <1>9, <1>10

\* Members whose value is 0 add nothing.
LEMMA SumOfRest ==
  ASSUME NEW S, IsFiniteSet(S), NEW f, \A x \in S : f[x] \in Int,
         NEW T, T \subseteq S, \A x \in S \ T : f[x] = 0
  PROVE  Sum(f, S) = Sum(f, T)
<1> DEFINE P(V) == Sum(f, V) = Sum(f, V \cap T)
<1>0. PICK Q : Q = {V \in SUBSET S : ~ P(V)}
  OBVIOUS
<1>1. Q = {} => Sum(f, S) = Sum(f, T)
  <2>1. S \in SUBSET S /\ S \cap T = T
    OBVIOUS
  <2> QED
    BY <1>0, <2>1
<1>21. SUFFICES ASSUME Q # {} PROVE FALSE
  BY <1>1
<1>20. Q \subseteq SUBSET S
  BY <1>0, Zenon
<1>2. PICK V \in Q : \A U \in Q : U \subseteq V => U = V
  BY <1>21, <1>20, Smallest
<1>3. V \in SUBSET S /\ ~P(V)
  BY <1>0, <1>2
<1>4. V # {} /\ V \cap T # V
  BY <1>3
<1>5. PICK x \in V : x \notin T
  BY <1>4
<1>6. Sum(f, V \ {x}) = Sum(f, (V \ {x}) \cap T) /\ (V \ {x}) \cap T = V \cap T
  BY <1>0, <1>2, <1>3, <1>5
<1>7. IsFiniteSet(V)
  BY <1>3, FS_Subset
<1>8. Sum(f, V) = f[x] + Sum(f, V \ {x}) /\ Sum(f, V \ {x}) \in Int
  BY <1>3, <1>5, <1>7, SumWithout, FS_Subset
<1>9. f[x] = 0
  BY <1>3, <1>5
<1>11. Sum(f, V) = Sum(f, V \ {x})
  BY <1>8, <1>9
<1>12. Sum(f, V \ {x}) = Sum(f, V \cap T)
  BY <1>6, Zenon
<1>10. Sum(f, V) = Sum(f, V \cap T)
  BY <1>11, <1>12
<1> QED
  BY <1>3, <1>10

\* Equal values have equal sums.
LEMMA SumOfSame ==
  ASSUME NEW S, IsFiniteSet(S), NEW f, NEW g, \A x \in S : f[x] \in Int /\ f[x] = g[x]
  PROVE  Sum(f, S) = Sum(g, S)
<1>1. Sum(f, S) \in Int /\ Sum(g, S) \in Int
  BY SumWithout
<1>2. Cardinality(S) \in Nat
  BY FS_CardinalityType
<1>3. /\ 1 * Sum(f, S) <= 1 * Sum(g, S) + 0 * Cardinality(S)
      /\ 1 * Sum(g, S) <= 1 * Sum(f, S) + 0 * Cardinality(S)
  <2>1. \A x \in S : /\ f[x] \in Int /\ g[x] \in Int
                     /\ 1 * f[x] <= 1 * g[x] + 0 /\ 1 * g[x] <= 1 * f[x] + 0
    OBVIOUS
  <2>2. 0 \in Int /\ 1 \in Int
    OBVIOUS
  <2> QED
    BY <2>1, <2>2, SumBound
<1> QED
  BY <1>1, <1>2, <1>3

\* Smaller values, none of them negative, and fewer have a smaller sum.
LEMMA SumOfLess ==
  ASSUME NEW S, IsFiniteSet(S), NEW f, NEW g, \A x \in S : f[x] \in Int /\ g[x] \in Int /\ f[x] <= g[x]
  PROVE  Sum(f, S) <= Sum(g, S)
<1>1. Sum(f, S) \in Int /\ Sum(g, S) \in Int /\ Cardinality(S) \in Nat
  BY SumWithout, FS_CardinalityType
<1>2. 1 * Sum(f, S) <= 1 * Sum(g, S) + 0 * Cardinality(S)
  <2>1. \A x \in S : f[x] \in Int /\ g[x] \in Int /\ 1 * f[x] <= 1 * g[x] + 0
    OBVIOUS
  <2>2. 0 \in Int /\ 1 \in Int
    OBVIOUS
  <2> QED
    BY <2>1, <2>2, SumBound
<1> QED
  BY <1>1, <1>2

\* What is nowhere negative has no negative sum, of a part no greater one,
\* and a positive one when some value is positive.
LEMMA SumOfNaturals ==
  ASSUME NEW S, IsFiniteSet(S), NEW f, \A x \in S : f[x] \in Nat
  PROVE  /\ Sum(f, S) \in Nat
         /\ \A T : T \subseteq S => Sum(f, T) \in Nat /\ Sum(f, T) <= Sum(f, S)
         /\ \A x \in S : f[x] <= Sum(f, S)
         /\ Sum(f, S) > 0 => \E x \in S : f[x] > 0
<1> DEFINE zero == [x \in S |-> 0]
<1>1. \A T : T \subseteq S => Sum(f, T) \in Nat
  <2> SUFFICES ASSUME NEW T, T \subseteq S PROVE Sum(f, T) \in Nat
    OBVIOUS
  <2>1. IsFiniteSet(T) /\ \A x \in T : f[x] \in Int
    BY FS_Subset
  <2>2. Sum(f, T) \in Int /\ Cardinality(T) \in Nat
    BY <2>1, SumWithout, FS_CardinalityType
  <2>3. 0 * Sum(f, T) <= 1 * Sum(f, T) + 0 * Cardinality(T)
    <3>1. \A x \in T : 0 * f[x] <= 1 * f[x] + 0
      OBVIOUS
    <3>2. 0 \in Int /\ 1 \in Int
      OBVIOUS
    <3> QED
      BY <2>1, <3>1, <3>2, SumBound
  <2> QED
    BY <2>2, <2>3
<1>2. \A T : T \subseteq S => Sum(f, T) <= Sum(f, S)
  <2> SUFFICES ASSUME NEW T, T \subseteq S PROVE Sum(f, T) <= Sum(f, S)
    OBVIOUS
  <2>1. PICK g : g = [x \in S |-> IF x \in T THEN f[x] ELSE 0]
    OBVIOUS
  <2>2. \A x \in S : g[x] \in Int /\ f[x] \in Int /\ g[x] <= f[x] /\ (x \notin T => g[x] = 0)
                     /\ (x \in T => g[x] = f[x])
    BY <2>1
  <2>3. Sum(g, S) <= Sum(f, S)
    BY <2>2, SumOfLess
  <2>4. Sum(g, S) = Sum(g, T)
    BY <2>2, SumOfRest
  <2>5. IsFiniteSet(T) /\ \A x \in T : g[x] \in Int /\ g[x] = f[x]
    BY <2>2, FS_Subset
  <2>6. Sum(g, T) = Sum(f, T)
    BY <2>5, SumOfSame
  <2> QED
    BY <2>3, <2>4, <2>6
<1>3. \A x \in S : f[x] <= Sum(f, S)
  <2> TAKE x \in S
  <2>1. Sum(f, S) = f[x] + Sum(f, S \ {x}) /\ Sum(f, S \ {x}) \in Nat
    BY <1>1, SumWithout
  <2> QED
    BY <2>1
<1>4. ASSUME \A x \in S : ~(f[x] > 0) PROVE Sum(f, S) = 0
  <2>1. \A x \in S \ {} : f[x] = 0
    BY <1>4
  <2>2. Sum(f, S) = Sum(f, {})
    BY <2>1, SumOfRest
  <2> QED
    BY <2>2, SumOfNone
<1> QED
  BY <1>1, <1>2, <1>3, <1>4

\* So many times the same.
LEMMA SumOfEqual ==
  ASSUME NEW S, IsFiniteSet(S), NEW f, NEW k \in Int, \A x \in S : f[x] = k
  PROVE  Sum(f, S) = k * Cardinality(S)
<1>1. PICK g : g = [x \in S |-> 0]
  OBVIOUS
<1>2. \A x \in S : g[x] \in Int /\ g[x] = 0 /\ f[x] \in Int
  BY <1>1
<1>3. Sum(f, S) \in Int /\ Sum(g, S) \in Int /\ Cardinality(S) \in Nat
  BY <1>2, SumWithout, FS_CardinalityType
<1>4. 1 * Sum(f, S) <= 0 * Sum(g, S) + k * Cardinality(S)
  <2>3. 1 * k <= 0 * 0 + k
    OBVIOUS
  <2>1. \A x \in S : 1 * f[x] <= 0 * g[x] + k
    BY <1>2, <2>3
  <2>2. 0 \in Int /\ 1 \in Int
    OBVIOUS
  <2> QED
    BY <1>2, <2>1, <2>2, SumBound
<1>5. 0 * Sum(g, S) <= 1 * Sum(f, S) + (-k) * Cardinality(S)
  <2>3. 0 * 0 <= 1 * k + (-k)
    OBVIOUS
  <2>1. \A x \in S : 0 * g[x] <= 1 * f[x] + (-k)
    BY <1>2, <2>3
  <2>2. 0 \in Int /\ 1 \in Int /\ -k \in Int
    OBVIOUS
  <2> QED
    BY <1>2, <2>1, <2>2, SumBound
<1>6. PICK s, n, z : s = Sum(f, S) /\ n = Cardinality(S) /\ z = Sum(g, S)
  OBVIOUS
<1>7. s \in Int /\ n \in Int /\ z \in Int /\ 1 * s <= 0 * z + k * n /\ 0 * z <= 1 * s + (-k) * n
  BY <1>3, <1>4, <1>5, <1>6
<1>8. (-k) * n = -(k * n) /\ k * n \in Int
  BY <1>7
<1>9. s = k * n
  BY <1>7, <1>8
<1> QED
  BY <1>6, <1>9

USE PortfolioAssumption

-----------------------------------------------------------------------------
(* The frozen routes.                                                      *)

\* A reader goes on with what it has read, and a row, once there, stays.
RoutesInv ==
  /\ rows \in Seq(shown)
  /\ ask = [u \in Users |-> ask[u]] /\ reader = [p \in Planners |-> reader[p]]
  /\ \A u \in Users : ask[u].at # "idle" => ask[u].expected \in shown \cup {Routes!Nothing}
  /\ \A p \in Planners :
       /\ reader[p].at \in {"latest", "compose"} =>
            reader[p].given = [holdings |-> reader[p].holdings, policy |-> reader[p].policy]
       /\ reader[p].at = "compose" => reader[p].latest \in 0 .. Len(rows)
       /\ reader[p].at = "done" /\ reader[p].route # 0 =>
            /\ reader[p].route \in 1 .. Len(rows)
            /\ rows[reader[p].route].holdings = reader[p].holdings
            /\ rows[reader[p].route].policy = reader[p].policy

\* Nobody has read anything yet.
LEMMA RoutesStart == Routes!Init => RoutesInv
  BY DEF Routes!Init, RoutesInv, Routes!Idle

\* The other readers' rows and answers stay.
LEMMA RowsGrow ==
  ASSUME RoutesInv, NEW e \in shown, rows' = Routes!Saved(e), shown' = shown
  PROVE  rows' \in Seq(shown') /\ Len(rows) <= Len(rows')
         /\ \A i \in 1 .. Len(rows) : rows'[i] = rows[i]
<1>1. rows \in Seq(shown)
  BY DEF RoutesInv
<1>2. Append(rows, e) \in Seq(shown) /\ Len(Append(rows, e)) = Len(rows) + 1
      /\ \A i \in 1 .. Len(rows) : Append(rows, e)[i] = rows[i]
  BY <1>1
<1> QED
  BY <1>1, <1>2 DEF Routes!Saved

\* Answers grow.
LEMMA ShownGrow ==
  ASSUME NEW A, NEW B, A \subseteq B, NEW s \in Seq(A) PROVE s \in Seq(B)
  OBVIOUS

\* A plan's reading.
LEMMA PlanRead ==
  ASSUME RoutesInv, NEW p \in Planners, NEW new, reader' = [reader EXCEPT ![p] = new],
         UNCHANGED <<rows, shown, ask>>,
         new.at \in {"latest", "compose"} =>
           new.given = [holdings |-> new.holdings, policy |-> new.policy],
         new.at = "compose" => new.latest \in 0 .. Len(rows),
         new.at = "done" /\ new.route # 0 =>
            /\ new.route \in 1 .. Len(rows)
            /\ rows[new.route].holdings = new.holdings
            /\ rows[new.route].policy = new.policy
  PROVE  RoutesInv'
<1>1. reader' = [q \in Planners |-> IF q = p THEN new ELSE reader[q]]
  BY DEF RoutesInv
<1> QED
  BY <1>1 DEF RoutesInv

\* A request's reading.
LEMMA AskRead ==
  ASSUME RoutesInv, NEW u \in Users, NEW new, ask' = [ask EXCEPT ![u] = new],
         UNCHANGED reader, shown \subseteq shown',
         rows' = rows \/ (shown' = shown /\ \E e \in shown : rows' = Routes!Saved(e)),
         new.at # "idle" => new.expected \in shown \cup {Routes!Nothing}
  PROVE  RoutesInv'
<1>1. ask' = [v \in Users |-> IF v = u THEN new ELSE ask[v]]
  BY DEF RoutesInv
<1>2. /\ rows' \in Seq(shown') /\ Len(rows) <= Len(rows')
      /\ \A i \in 1 .. Len(rows) : rows'[i] = rows[i]
  BY RowsGrow, ShownGrow DEF RoutesInv
<1>3. \A v \in Users : ask'[v].at # "idle" => ask'[v].expected \in shown' \cup {Routes!Nothing}
  BY <1>1 DEF RoutesInv
<1>4. Len(rows) \in Nat /\ Len(rows') \in Nat
  BY <1>2 DEF RoutesInv
<1> QED
  BY <1>1, <1>2, <1>3, <1>4 DEF RoutesInv

\* Every step of the routes, and none
LEMMA RoutesStep == RoutesInv /\ [Routes!Next]_(Routes!vars) => RoutesInv'
<1> SUFFICES ASSUME RoutesInv, [Routes!Next]_(Routes!vars) PROVE RoutesInv'
  OBVIOUS
<1>1. CASE UNCHANGED <<rows, shown, ask, reader>>
  BY <1>1 DEF RoutesInv
<1>2. ASSUME NEW u \in Users, Routes!Ask(u) PROVE RoutesInv'
  <2>1. PICK expected \in shown \cup {Routes!Nothing} :
          ask' = [ask EXCEPT ![u] = [at |-> "policy", expected |-> expected, run |-> Len(runs)]]
    BY <1>2 DEF Routes!Ask
  <2>2. PICK new : new = [at |-> "policy", expected |-> expected, run |-> Len(runs)]
    OBVIOUS
  <2>3. ask' = [ask EXCEPT ![u] = new] /\ new.expected \in shown \cup {Routes!Nothing}
    BY <2>1, <2>2
  <2>4. rows' = rows /\ shown' = shown /\ reader' = reader
    BY <1>2 DEF Routes!Ask
  <2> QED
    BY <2>3, <2>4, AskRead
<1>3. ASSUME NEW u \in Users, Routes!ReadPolicy(u) PROVE RoutesInv'
  <2>1. PICK new : new = [at |-> "holdings", expected |-> ask[u].expected, run |-> ask[u].run,
                    policy |-> policy]
    OBVIOUS
  <2>2. ask' = [ask EXCEPT ![u] = new]
    BY <1>3, <2>1 DEF Routes!ReadPolicy, RoutesInv
  <2>3. new.expected \in shown \cup {Routes!Nothing}
    BY <1>3, <2>1 DEF Routes!ReadPolicy, RoutesInv
  <2>4. rows' = rows /\ shown' = shown /\ reader' = reader
    BY <1>3 DEF Routes!ReadPolicy
  <2> QED
    BY <2>2, <2>3, <2>4, AskRead
<1>4. ASSUME NEW u \in Users, Routes!ReadHoldings(u) PROVE RoutesInv'
  <2>1. PICK new : new = [at |-> "compose", expected |-> ask[u].expected, run |-> ask[u].run,
                    policy |-> ask[u].policy, holdings |-> holdings]
    OBVIOUS
  <2>2. ask' = [ask EXCEPT ![u] = new]
    BY <1>4, <2>1 DEF Routes!ReadHoldings, RoutesInv
  <2>3. new.expected \in shown \cup {Routes!Nothing}
    BY <1>4, <2>1 DEF Routes!ReadHoldings, RoutesInv
  <2>4. rows' = rows /\ shown' = shown /\ reader' = reader
    BY <1>4 DEF Routes!ReadHoldings
  <2> QED
    BY <2>2, <2>3, <2>4, AskRead
<1>5. ASSUME NEW u \in Users, Routes!Show(u) \/ Routes!Refuse(u) PROVE RoutesInv'
  <2>1. PICK new : new = Routes!Idle
    OBVIOUS
  <2>2. ask' = [ask EXCEPT ![u] = new] /\ new.at = "idle"
    BY <1>5, <2>1 DEF Routes!Show, Routes!Refuse, Routes!Idle
  <2>3. rows' = rows /\ shown \subseteq shown' /\ reader' = reader
    BY <1>5 DEF Routes!Show, Routes!Refuse
  <2> QED
    BY <2>2, <2>3, AskRead
<1>6. ASSUME NEW u \in Users, Routes!Freeze(u) PROVE RoutesInv'
  <2>1. ask[u].expected \in shown /\ Routes!Composed(ask[u]) = ask[u].expected
    BY <1>6 DEF Routes!Freeze, Routes!Agrees, RoutesInv
  <2> QED
    BY <1>6, <2>1, AskRead DEF Routes!Freeze, Routes!Idle
<1>7. ASSUME NEW p \in Planners, Routes!PlanHoldings(p) \/ Routes!PlanAgain(p) PROVE RoutesInv'
  BY <1>7, PlanRead DEF Routes!PlanHoldings, Routes!PlanAgain, Routes!Idle
<1>8. ASSUME NEW p \in Planners, Routes!PlanPolicy(p) PROVE RoutesInv'
  BY <1>8, PlanRead DEF Routes!PlanPolicy
<1>9. ASSUME NEW p \in Planners, Routes!PlanPrograms(p) PROVE RoutesInv'
  <2>1. reader' = [reader EXCEPT ![p] =
          [at |-> "latest", holdings |-> reader[p].holdings, policy |-> reader[p].policy,
           given |-> [holdings |-> reader[p].holdings, policy |-> reader[p].policy],
           run |-> Len(runs)]]
    BY <1>9 DEF Routes!PlanPrograms, Routes!Given, RoutesInv
  <2> QED
    BY <1>9, <2>1, PlanRead DEF Routes!PlanPrograms
<1>10. ASSUME NEW p \in Planners, Routes!PlanLatest(p) PROVE RoutesInv'
  <2>1. reader' = [reader EXCEPT ![p] =
          [at |-> "compose", holdings |-> reader[p].holdings, policy |-> reader[p].policy,
           given |-> reader[p].given, run |-> reader[p].run, latest |-> Routes!Latest]]
    BY <1>10 DEF Routes!PlanLatest, RoutesInv
  <2>2. Routes!Latest \in 0 .. Len(rows)
    BY DEF RoutesInv, Routes!Latest
  <2>3. reader[p].given = [holdings |-> reader[p].holdings, policy |-> reader[p].policy]
    BY <1>10 DEF Routes!PlanLatest, RoutesInv
  <2> QED
    BY <1>10, <2>1, <2>2, <2>3, PlanRead DEF Routes!PlanLatest
<1>11. ASSUME NEW p \in Planners, Routes!PlanRoute(p) PROVE RoutesInv'
  <2>1. PICK route : route = Routes!RouteOf(reader[p])
    OBVIOUS
  <2>2. reader' = [reader EXCEPT ![p] =
          [at |-> "done", holdings |-> reader[p].holdings, policy |-> reader[p].policy,
           route |-> route]]
    BY <1>11, <2>1 DEF Routes!PlanRoute, RoutesInv
  <2>3. /\ reader[p].given = [holdings |-> reader[p].holdings, policy |-> reader[p].policy]
        /\ reader[p].latest \in 0 .. Len(rows)
    BY <1>11 DEF Routes!PlanRoute, RoutesInv
  <2>4. route # 0 => /\ route \in 1 .. Len(rows)
                     /\ rows[route].holdings = reader[p].holdings
                     /\ rows[route].policy = reader[p].policy
    BY <2>1, <2>3 DEF Routes!RouteOf, Routes!IsCurrent, Routes!Composed
  <2> QED
    BY <1>11, <2>2, <2>4, PlanRead DEF Routes!PlanRoute
<1> QED
  BY <1>1, <1>2, <1>3, <1>4, <1>5, <1>6, <1>7, <1>8, <1>9, <1>10, <1>11
  DEF Routes!Next, Routes!vars, Routes!Hold, Routes!Activate, Routes!CompleteRun, Routes!NextDay

\* The route of a plan, and what the user was shown.
LEMMA RoutesFollowed == RoutesInv => Routes!PlanFollowsItsOwnRoute
<1> SUFFICES ASSUME RoutesInv PROVE Routes!PlanFollowsItsOwnRoute
  OBVIOUS
<1>1. \A i \in DOMAIN rows : rows[i] \in shown
  BY DEF RoutesInv
<1>2. Routes!ToSet(rows) \subseteq shown
  BY <1>1 DEF Routes!ToSet
<1> QED
  BY <1>2 DEF RoutesInv, Routes!PlanFollowsItsOwnRoute
-----------------------------------------------------------------------------
(* The capital plans.                                                      *)

PlanNames == Capital!PlanIds
Bought == {First, Second}

Event ==
  [txs: SUBSET Bought, status: {"partial", "reconciled", "deviated", "reviewed"}]

\* The chain of a plan's confirmations only grows, and a review repeats the
\* deviation it follows.
Grows(chain) ==
  \A n \in 2 .. Len(chain) :
    /\ chain[n - 1].txs \subseteq chain[n].txs
    /\ chain[n].status = "reviewed" =>
         chain[n - 1].status = "deviated" /\ chain[n].txs = chain[n - 1].txs

\* What a request has read of its plan's chain is still there.
HasRead(r) ==
  r.op \in {"confirm", "review"} =>
    /\ r.plan \in PlanNames /\ r.txs \subseteq Bought /\ r.head \in 0 .. Len(events[r.plan])
    /\ r.head > 0 => events[r.plan][r.head].txs \subseteq r.txs
    /\ r.op = "review" =>
         /\ r.head > 0 /\ events[r.plan][r.head].status = "deviated"
         /\ events[r.plan][r.head].txs = r.txs

CapitalInv ==
  /\ events \in [PlanNames -> Seq(Event)] /\ binding \in [Bought -> 0 .. MaxPlans]
  /\ request = [q \in Requests |-> request[q]]
  /\ \A p \in PlanNames :
       Grows(events[p]) /\ (events[p] # <<>> => events[p][1].status # "reviewed")
  /\ Capital!ServesOnePlan
  /\ \A q \in Requests : HasRead(request[q])


\* There is nothing yet.
LEMMA CapitalStarts == Capital!Init => CapitalInv
<1> SUFFICES ASSUME Capital!Init PROVE CapitalInv
  OBVIOUS
<1> USE DEF Capital!Init
<1>1. \A q \in Requests : request[q] = Capital!Idle /\ request[q].op = "none"
  BY DEF Capital!Idle
<1>2. \A p \in PlanNames : events[p] = <<>>
  BY DEF PlanNames
<1>3. events \in [PlanNames -> Seq(Event)] /\ binding \in [Bought -> 0 .. MaxPlans]
  BY <1>2 DEF PlanNames, Bought
<1>4. \A p \in PlanNames : Grows(events[p])
  BY <1>2 DEF Grows
<1>5. Capital!ServesOnePlan
  BY <1>2 DEF Capital!ServesOnePlan, Capital!HeadNo, PlanNames
<1> QED
  BY <1>1, <1>2, <1>3, <1>4, <1>5 DEF CapitalInv, HasRead

\* A request begins, or is answered, with what it has read.
LEMMA Asked ==
  ASSUME CapitalInv, NEW q \in Requests, NEW r, request' = [request EXCEPT ![q] = r],
         UNCHANGED <<events, binding>>, HasRead(r)
  PROVE  CapitalInv'
<1>1. request' = [u \in Requests |-> IF u = q THEN r ELSE request[u]]
  BY DEF CapitalInv
<1>2. HasRead(r)'  <=> HasRead(r)
  BY DEF HasRead
<1>3. \A u \in Requests : HasRead(request'[u])
  BY <1>1 DEF CapitalInv
<1>4. Capital!ServesOnePlan'
  BY DEF CapitalInv, Capital!ServesOnePlan, Capital!HeadNo
<1> QED
  BY <1>1, <1>3, <1>4 DEF CapitalInv, HasRead

\* Freezing reads nothing of a chain,
LEMMA NothingRead == \A r : r.op \notin {"confirm", "review"} => HasRead(r)
  BY DEF HasRead

\* and neither does a request that has ended.
LEMMA IdleRead == HasRead(Capital!Idle)
  BY DEF HasRead, Capital!Idle

\* What _reconcile comes to
LEMMA Statuses ==
  \A txs : Capital!Reconciled(txs) \in {"partial", "reconciled", "deviated"}
  BY DEF Capital!Reconciled

\* create_execution_event: the event that is appended follows the one that
\* was read.
LEMMA Recording == ASSUME CapitalInv, NEW q \in Requests, Capital!Record(q) PROVE CapitalInv'
<1> USE DEF Capital!Record
<1>1. PICK p : p = request[q].plan
  OBVIOUS
<1>2. PICK txs : txs = request[q].txs
  OBVIOUS
<1>3. PICK e : e = [txs |-> txs, status |-> IF request[q].op = "review" THEN "reviewed"
                                            ELSE Capital!Reconciled(txs)]
  OBVIOUS
<1>4. /\ events' = [events EXCEPT ![p] = Append(@, e)]
      /\ binding' = [t \in Bought |-> IF t \in txs THEN p ELSE binding[t]]
  BY <1>1, <1>2, <1>3 DEF Bought
<1>5. /\ p \in PlanNames /\ txs \in SUBSET Bought /\ request[q].op \in {"confirm", "review"}
      /\ Len(events[p]) = request[q].head
      /\ events[p] # <<>> => events[p][Len(events[p])].txs \subseteq txs
      /\ request[q].op = "review" =>
           /\ Len(events[p]) > 0 /\ events[p][Len(events[p])].status = "deviated"
           /\ events[p][Len(events[p])].txs = txs
  BY <1>1, <1>2 DEF CapitalInv, HasRead, Capital!Unchanged, Capital!HeadNo
<1>6. e \in Event /\ (e.status = "reviewed" => request[q].op = "review") /\ e.txs = txs
  BY <1>3, <1>5, Statuses DEF Event
<1>7. events[p] \in Seq(Event) /\ p \in 0 .. MaxPlans /\ Grows(events[p])
      /\ (events[p] # <<>> => events[p][1].status # "reviewed")
  BY <1>5 DEF CapitalInv, PlanNames, Capital!PlanIds
<1>8. PICK chain : chain = Append(events[p], e)
  OBVIOUS
<1>9. /\ chain \in Seq(Event) /\ Len(chain) = Len(events[p]) + 1 /\ Len(events[p]) \in Nat
      /\ chain[Len(chain)] = e /\ \A n \in 1 .. Len(events[p]) : chain[n] = events[p][n]
  BY <1>6, <1>7, <1>8
<1>10. Grows(chain)
  <2> SUFFICES ASSUME NEW n \in 2 .. Len(chain)
               PROVE  /\ chain[n - 1].txs \subseteq chain[n].txs
                      /\ chain[n].status = "reviewed" =>
                           chain[n - 1].status = "deviated" /\ chain[n].txs = chain[n - 1].txs
    BY DEF Grows
  <2>0. n \in Nat /\ n >= 2 /\ n <= Len(events[p]) + 1
    BY <1>9
  <2>1. n - 1 \in 1 .. Len(events[p])
    BY <1>9, <2>0
  <2>4. chain[n - 1] = events[p][n - 1]
    BY <1>9, <2>1
  <2>2. CASE n = Len(chain)
    <3>1. n - 1 = Len(events[p]) /\ chain[n] = e /\ events[p] # <<>>
      BY <1>9, <2>1, <2>2
    <3> QED
      BY <1>5, <1>6, <2>1, <2>4, <3>1
  <2>3. CASE n # Len(chain)
    <3>0. n <= Len(events[p])
      BY <1>9, <2>0, <2>3
    <3>1. n \in 2 .. Len(events[p]) /\ n \in 1 .. Len(events[p])
      BY <1>9, <2>0, <3>0
    <3>2. chain[n] = events[p][n]
      BY <1>9, <3>1
    <3> QED
      BY <1>7, <2>4, <3>1, <3>2 DEF Grows
  <2> QED
    BY <2>2, <2>3
<1>11. chain[1].status # "reviewed"
  <2>1. CASE events[p] = <<>>
    <3>1. chain[1] = e /\ Len(events[p]) = 0
      BY <1>9, <2>1
    <3> QED
      BY <1>5, <1>6, <3>1
  <2>2. CASE events[p] # <<>>
    BY <1>7, <1>9, <2>2
  <2> QED
    BY <2>1, <2>2
<1>12. /\ events' \in [PlanNames -> Seq(Event)]
       /\ \A s \in PlanNames : events'[s] = IF s = p THEN chain ELSE events[s]
  BY <1>4, <1>5, <1>8, <1>9 DEF CapitalInv
<1>13. binding' \in [Bought -> 0 .. MaxPlans]
  BY <1>4, <1>7 DEF CapitalInv
<1>14. request' = [u \in Requests |-> IF u = q THEN Capital!Idle ELSE request[u]]
  BY DEF CapitalInv, Capital!Answered
<1>15. \A s \in PlanNames :
         Grows(events'[s]) /\ (events'[s] # <<>> => events'[s][1].status # "reviewed")
  BY <1>10, <1>11, <1>12 DEF CapitalInv
<1>16. Capital!ServesOnePlan'
  <2> SUFFICES ASSUME NEW s \in PlanNames, NEW n \in 1 .. Len(events'[s]),
                      NEW t \in events'[s][n].txs
               PROVE  binding'[t] = s
    BY DEF Capital!ServesOnePlan, Capital!HeadNo, PlanNames
  <2>1. \A t1 \in txs : binding[t1] \in {0, p}
    BY <1>1, <1>2 DEF Capital!Free, Capital!Bindable
  <2>0. \A s1 \in PlanNames : \A m \in 1 .. Len(events[s1]) : events[s1][m] \in Event
    BY DEF CapitalInv
  <2>6. \A s1 \in PlanNames : \A m \in 1 .. Len(events[s1]) : \A t1 \in events[s1][m].txs :
          t1 \in Bought
    BY <2>0 DEF Event
  <2>7. \A s1 \in PlanNames : \A m \in 1 .. Len(events[s1]) : \A t1 \in events[s1][m].txs :
          binding[t1] = s1
    BY DEF CapitalInv, Capital!ServesOnePlan, Capital!HeadNo, PlanNames
  <2>2. \A s1 \in PlanNames : \A m \in 1 .. Len(events[s1]) : \A t1 \in events[s1][m].txs :
          binding[t1] = s1 /\ t1 \in Bought
    BY <2>6, <2>7
  <2>3. CASE s = p /\ n = Len(chain)
    BY <1>4, <1>5, <1>6, <1>9, <1>12, <2>3
  <2>4. CASE s = p /\ n # Len(chain)
    <3>1. n \in 1 .. Len(events[p]) /\ events'[s][n] = events[p][n]
      BY <1>9, <1>12, <2>4
    <3>2. binding[t] = p /\ t \in Bought
      BY <1>5, <2>2, <3>1
    <3> QED
      BY <1>4, <2>4, <3>2
  <2>5. CASE s # p
    <3>1. events'[s] = events[s]
      BY <1>12, <2>5
    <3>2. binding[t] = s /\ t \in Bought
      BY <2>2, <3>1
    <3>3. s # 0
      BY DEF PlanNames, Capital!PlanIds
    <3>4. t \notin txs
      BY <2>1, <2>5, <3>2, <3>3
    <3> QED
      BY <1>4, <3>2, <3>4
  <2> QED
    BY <2>3, <2>4, <2>5
<1>17. \A u \in Requests : HasRead(request[u])' \/ request'[u] # request[u]
  <2> SUFFICES ASSUME NEW u \in Requests, request'[u] = request[u],
                      request[u].op \in {"confirm", "review"}
               PROVE  HasRead(request[u])'
    BY DEF HasRead
  <2>1. HasRead(request[u])
    BY DEF CapitalInv
  <2>2. /\ Len(events[request[u].plan]) <= Len(events'[request[u].plan])
        /\ \A m \in 1 .. Len(events[request[u].plan]) :
             events'[request[u].plan][m] = events[request[u].plan][m]
    BY <1>9, <1>12, <2>1 DEF HasRead, CapitalInv
  <2>3. Len(events[request[u].plan]) \in Nat /\ Len(events'[request[u].plan]) \in Nat
    BY <1>12, <2>1 DEF HasRead, CapitalInv
  <2>4. /\ request[u].plan \in PlanNames /\ request[u].txs \subseteq Bought
        /\ request[u].head \in 0 .. Len(events[request[u].plan])
    BY <2>1 DEF HasRead
  <2>5. request[u].head \in 0 .. Len(events'[request[u].plan])
    BY <2>2, <2>3, <2>4
  <2>6. request[u].head > 0 =>
          events'[request[u].plan][request[u].head] = events[request[u].plan][request[u].head]
    BY <2>2, <2>4
  <2> QED
    BY <2>1, <2>4, <2>5, <2>6 DEF HasRead
<1>18. \A u \in Requests : HasRead(request[u])'
  BY <1>14, <1>17, IdleRead DEF HasRead, Capital!Idle
<1> QED
  BY <1>12, <1>13, <1>14, <1>15, <1>16, <1>18 DEF CapitalInv

\* A request begins, and the records stay.
LEMMA Beginning ==
  ASSUME CapitalInv, NEW q \in Requests, NEW r, Capital!Begin(q, r), HasRead(r)
  PROVE  CapitalInv'
  BY Asked DEF Capital!Begin

\* A request ends, and the records stay.
LEMMA Answering ==
  ASSUME CapitalInv, NEW q \in Requests, Capital!Answered(q), UNCHANGED <<events, binding>>
  PROVE  CapitalInv'
  BY Asked, IdleRead DEF Capital!Answered

\* create_execution_event of the service: a confirmation is of at least what
\* was confirmed.
LEMMA Confirming ==
  ASSUME CapitalInv, NEW q \in Requests, NEW p \in PlanNames, NEW txs \in SUBSET Bought,
         Capital!ReadConfirm(q, p, txs)
  PROVE  CapitalInv'
<1>1. PICK r : r = [Capital!Idle EXCEPT !.op = "confirm", !.plan = p, !.txs = txs,
                                        !.head = Capital!HeadNo(p)]
  OBVIOUS
<1>2. /\ r.op = "confirm" /\ r.plan = p /\ r.txs = txs /\ r.head = Len(events[p])
  BY <1>1 DEF Capital!Idle, Capital!HeadNo
<1>3. events[p] \in Seq(Event) /\ Len(events[p]) \in Nat
  BY DEF CapitalInv
<1>4. r.head > 0 => events[p][r.head].txs \subseteq txs
  BY <1>2, <1>3 DEF Capital!ReadConfirm, Capital!Confirmed, Capital!HeadNo
<1>5. HasRead(r)
  BY <1>2, <1>3, <1>4 DEF HasRead
<1>6. Capital!Begin(q, r)
  BY <1>1 DEF Capital!ReadConfirm
<1> QED
  BY <1>5, <1>6, Beginning

\* review_execution_deviation: a review is of a deviation.
LEMMA Reviewing ==
  ASSUME CapitalInv, NEW q \in Requests, NEW p \in PlanNames, Capital!ReadReview(q, p)
  PROVE  CapitalInv'
<1>1. PICK r : r = [Capital!Idle EXCEPT !.op = "review", !.plan = p,
                                        !.txs = Capital!Confirmed(p), !.head = Capital!HeadNo(p)]
  OBVIOUS
<1>2. events[p] \in Seq(Event) /\ Len(events[p]) \in Nat /\ events[p] # <<>>
  BY DEF CapitalInv, Capital!ReadReview
<1>3. PICK n : n = Len(events[p])
  OBVIOUS
<1>4. n \in 1 .. Len(events[p]) /\ n > 0
  BY <1>2, <1>3
<1>5. events[p][n] \in Event
  BY <1>2, <1>4
<1>6. /\ r.op = "review" /\ r.plan = p /\ r.txs = events[p][n].txs /\ r.head = n
  BY <1>1, <1>2, <1>3 DEF Capital!Idle, Capital!HeadNo, Capital!Confirmed
<1>7. events[p][n].status = "deviated"
  BY <1>2, <1>3 DEF Capital!ReadReview, Capital!Lifecycle, Capital!HeadNo
<1>8. HasRead(r)
  BY <1>4, <1>5, <1>6, <1>7 DEF HasRead, Event
<1>9. Capital!Begin(q, r)
  BY <1>1 DEF Capital!ReadReview
<1> QED
  BY <1>8, <1>9, Beginning

\* What freezing a plan reads is nothing of a chain.
LEMMA Freezing ==
  ASSUME CapitalInv, NEW q \in Requests, Capital!ReadFreeze(q) \/ Capital!Freeze(q)
  PROVE  CapitalInv'
<1>1. CASE Capital!ReadFreeze(q)
  <2>1. PICK r : r = [Capital!Idle EXCEPT !.op = "freeze",
                        !.evidence = <<month, world, Capital!Summary(month)>>,
                        !.blocked = Capital!Blocked(month)]
    OBVIOUS
  <2>2. r.op = "freeze"
    BY <2>1 DEF Capital!Idle
  <2>3. Capital!Begin(q, r)
    BY <1>1, <2>1 DEF Capital!ReadFreeze
  <2> QED
    BY <2>2, <2>3, NothingRead, Beginning
<1>2. CASE Capital!Freeze(q)
  BY <1>2, Answering DEF Capital!Freeze
<1> QED
  BY <1>1, <1>2

\* Chains, bindings and requests stay as they are.
LEMMA CapitalStands ==
  ASSUME CapitalInv, UNCHANGED <<events, binding, request>>
  PROVE  CapitalInv'
  BY DEF CapitalInv, Capital!ServesOnePlan, Capital!HeadNo, HasRead

\* Every step of the capital plans, and none
LEMMA CapitalStep == CapitalInv /\ [Capital!Next]_(Capital!vars) => CapitalInv'
<1> SUFFICES ASSUME CapitalInv, [Capital!Next]_(Capital!vars) PROVE CapitalInv'
  OBVIOUS
<1>1. CASE UNCHANGED Capital!vars
  BY <1>1, CapitalStands DEF Capital!vars
<1>2. CASE Capital!NextMonth \/ Capital!Change
  BY <1>2, CapitalStands DEF Capital!NextMonth, Capital!Change
<1>3. ASSUME NEW t \in Bought, Capital!Enter(t) \/ Capital!Delete(t) PROVE CapitalInv'
  BY <1>3, CapitalStands DEF Capital!Enter, Capital!Delete
<1>4. ASSUME NEW q \in Requests, Capital!Next, Capital!ReadFreeze(q) \/ Capital!Freeze(q)
      PROVE  CapitalInv'
  BY <1>4, Freezing
<1>5. ASSUME NEW q \in Requests, Capital!Record(q) PROVE CapitalInv'
  BY <1>5, Recording
<1>6. ASSUME NEW q \in Requests, Capital!Refuse(q) PROVE CapitalInv'
  BY <1>6, Answering DEF Capital!Refuse
<1>7. ASSUME NEW q \in Requests, NEW p \in PlanNames, Capital!ReadReview(q, p) PROVE CapitalInv'
  BY <1>7, Reviewing
<1>8. ASSUME NEW q \in Requests, NEW p \in PlanNames, NEW txs \in SUBSET Bought,
             Capital!ReadConfirm(q, p, txs)
      PROVE  CapitalInv'
  BY <1>8, Confirming
<1> QED
  BY <1>1, <1>2, <1>3, <1>4, <1>5, <1>6, <1>7, <1>8 DEF Capital!Next, PlanNames, Bought

\* The reviews are of what stands, by what the chain and the requests know.
LEMMA ReviewedStands == CapitalInv => Capital!ReviewIsOfWhatStands
<1> SUFFICES ASSUME CapitalInv, NEW p \in PlanNames, NEW n \in 1 .. Len(events[p]),
                    events[p][n].status = "reviewed"
             PROVE  /\ n > 1 /\ events[p][n - 1].status = "deviated"
                    /\ events[p][n].txs = events[p][n - 1].txs
  BY DEF Capital!ReviewIsOfWhatStands, Capital!HeadNo, PlanNames
<1>1. events[p] \in Seq(Event) /\ Len(events[p]) \in Nat /\ Grows(events[p])
      /\ (events[p] # <<>> => events[p][1].status # "reviewed")
  BY DEF CapitalInv
<1>2. events[p] # <<>> /\ n \in Nat
  BY <1>1
<1>3. n # 1
  BY <1>1, <1>2
<1>4. n \in 2 .. Len(events[p])
  BY <1>1, <1>2, <1>3
<1> QED
  BY <1>1, <1>4 DEF Grows

\* No step takes a purchase back that was confirmed for a plan.
LEMMA ConfirmedGrows ==
  CapitalInv /\ [Capital!Next]_(Capital!vars) =>
    \A p \in PlanNames : Capital!Confirmed(p) \subseteq Capital!Confirmed(p)'
<1> SUFFICES ASSUME CapitalInv, [Capital!Next]_(Capital!vars), NEW p \in PlanNames
             PROVE  Capital!Confirmed(p) \subseteq Capital!Confirmed(p)'
  OBVIOUS
<1>1. CASE UNCHANGED events
  BY <1>1 DEF Capital!Confirmed, Capital!HeadNo
<1>2. ASSUME NEW q \in Requests, Capital!Record(q)
      PROVE  Capital!Confirmed(p) \subseteq Capital!Confirmed(p)'
  <2>1. PICK s : s = request[q].plan
    OBVIOUS
  <2>2. PICK e : /\ e.txs = request[q].txs /\ events' = [events EXCEPT ![s] = Append(@, e)]
    BY <1>2, <2>1 DEF Capital!Record
  <2>3. /\ s \in PlanNames /\ Len(events[s]) = request[q].head
        /\ request[q].head > 0 => events[s][request[q].head].txs \subseteq e.txs
    BY <1>2, <2>1, <2>2 DEF Capital!Record, Capital!Unchanged, Capital!HeadNo, CapitalInv, HasRead
  <2>4. events[s] \in Seq(Event) /\ Len(events[s]) \in Nat /\ events \in [PlanNames -> Seq(Event)]
    BY <2>3 DEF CapitalInv
  <2>5. CASE p # s
    <3>1. events'[p] = events[p]
      BY <2>2, <2>4, <2>5
    <3> QED
      BY <3>1 DEF Capital!Confirmed, Capital!HeadNo
  <2>6. CASE p = s /\ events[p] = <<>>
    BY <2>6 DEF Capital!Confirmed
  <2>7. CASE p = s /\ events[p] # <<>>
    <3>1. Len(events[p]) > 0 /\ Capital!Confirmed(p) = events[p][request[q].head].txs
      BY <2>3, <2>4, <2>7 DEF Capital!Confirmed, Capital!HeadNo
    <3>2. PICK chain : chain = Append(events[p], e)
      OBVIOUS
    <3>3. Len(chain) = Len(events[p]) + 1 /\ chain[Len(events[p]) + 1] = e
      BY <2>4, <2>7, <3>2
    <3>4. events'[p] = chain /\ chain # <<>>
      BY <2>2, <2>4, <2>7, <3>2
    <3>5. Capital!Confirmed(p)' = e.txs
      BY <3>3, <3>4 DEF Capital!Confirmed, Capital!HeadNo
    <3> QED
      BY <2>3, <2>7, <3>1, <3>5
  <2> QED
    BY <2>5, <2>6, <2>7
<1>3. UNCHANGED events \/ \E q \in Requests : Capital!Record(q)
  BY DEF Capital!Next, Capital!vars, Capital!NextMonth, Capital!Change, Capital!Enter,
         Capital!Delete, Capital!ReadFreeze, Capital!Freeze, Capital!Refuse, Capital!ReadReview,
         Capital!ReadConfirm, Capital!Begin
<1> QED
  BY <1>1, <1>2, <1>3
-----------------------------------------------------------------------------
(* The experiments.                                                        *)

\* Valuations have numbers up to a bound, so the newest of some is one of them.
LEMMA Greatest ==
  ASSUME NEW n \in Nat, NEW S \in SUBSET (1 .. n), S # {}
  PROVE  \E x \in S : \A y \in S : y <= x
<1> DEFINE Above(x) == {y \in 1 .. n : y > x}
<1>7. PICK T : T = {Above(x) : x \in S}
  OBVIOUS
<1>10. 1 \in Int /\ n \in Int
  OBVIOUS
<1>1. IsFiniteSet(1 .. n)
  BY <1>10, FS_Interval
<1>0. FiniteSubsetsOf(1 .. n) = SUBSET (1 .. n)
  BY <1>1, FS_FiniteSubsetsOfFinite
<1>8. \A x : Above(x) \in SUBSET (1 .. n)
  OBVIOUS
<1>9. PICK a : a \in S
  OBVIOUS
<1>2. T \subseteq FiniteSubsetsOf(1 .. n) /\ Above(a) \in T
  BY <1>0, <1>7, <1>8, <1>9
<1>3. IsWellFoundedOn(StrictSubsetOrdering(1 .. n), FiniteSubsetsOf(1 .. n))
  BY FS_StrictSubsetOrderingWellFounded
<1>4. \E t \in T : \A u \in T : ~(<<u, t>> \in StrictSubsetOrdering(1 .. n))
  BY <1>2, <1>3, WFMin
<1>5. PICK x \in S : \A z \in S : ~(<<Above(z), Above(x)>> \in StrictSubsetOrdering(1 .. n))
  BY <1>4, <1>7
<1>6. ASSUME NEW z \in S, ~(z <= x) PROVE FALSE
  <2>1. z \in 1 .. n /\ x \in 1 .. n /\ z > x
    BY <1>6
  <2>2. Above(z) \subseteq Above(x) /\ z \in Above(x) /\ z \notin Above(z)
    BY <2>1
  <2>3. <<Above(z), Above(x)>> \in StrictSubsetOrdering(1 .. n)
    BY <2>2 DEF StrictSubsetOrdering
  <2> QED
    BY <1>5, <2>3
<1> QED
  BY <1>6

Dates == Quant!Snapshots

\* latest_snapshot, of whatever valuations there are
LEMMA NewestIs ==
  ASSUME NEW s
  PROVE  /\ Quant!NewestOf(s) \in 0 .. MaxSnapshots
         /\ Quant!NewestOf(s) = 0 <=> Quant!Existing(s) = {}
         /\ Quant!NewestOf(s) # 0 => Quant!NewestOf(s) \in Quant!Existing(s)
         /\ \A i \in Quant!Existing(s) : i <= Quant!NewestOf(s)
<1>1. PICK S : S = Quant!Existing(s)
  OBVIOUS
<1>2. S \in SUBSET (1 .. MaxSnapshots) /\ MaxSnapshots \in Nat
  BY <1>1 DEF Quant!Existing, Quant!Snapshots
<1>3. CASE S = {}
  BY <1>1, <1>2, <1>3 DEF Quant!NewestOf
<1>4. CASE S # {}
  <2>1. \E x \in S : \A y \in S : y <= x
    BY <1>2, <1>4, Greatest
  <2>2. \E x \in S : \A y \in S : x >= y
    BY <1>2, <2>1
  <2>3. Quant!Max(S) \in S /\ \A y \in S : Quant!Max(S) >= y
    BY <2>2 DEF Quant!Max
  <2>4. Quant!NewestOf(s) = Quant!Max(S)
    BY <1>1, <1>4 DEF Quant!NewestOf
  <2> QED
    BY <1>1, <1>2, <1>4, <2>3, <2>4
<1> QED
  BY <1>3, <1>4

Gates == {"none", "blocked", "risk", "trade"}
Owned == Quant!Held

Valuation == [holdings : Owned, gate : Gates]

Experiment ==
  [status : {"none", "queued", "running", "succeeded", "partial", "failed"}, holdings : Owned,
   snapshot : 0 .. MaxSnapshots, profile : Nat, eligible : BOOLEAN, bound : BOOLEAN,
   paper : BOOLEAN]

Question ==
  [at : {"none", "valuing", "start", "valued", "created", "bind", "freeze", "held", "worth",
         "agreed"},
   run : 0 .. MaxRuns, holdings : Owned, snapshot : 0 .. MaxSnapshots, trade : BOOLEAN]

QuantTypes ==
  /\ held \in Owned /\ profile \in 1 .. MaxProfiles /\ dated \in 0 .. MaxSnapshots
  /\ snapshot \in [Dates -> Valuation]
  /\ run \in [Quant!Runs -> Experiment]
  /\ job \in [Quant!Runs -> {"none", "queued", "running", "succeeded", "failed"}]
  /\ executor \in [Quant!Runs -> SUBSET {"owner", "computing", "lost"}]
  /\ mandate \in SUBSET Quant!Runs
  /\ experiment \in [Requests -> Question]

Made(r) == run[r].status # "none"

\* Experiments are made one after the other, and a job or a worker has one.
RunsAreMade ==
  /\ \A r \in Quant!Runs : ~Made(r) => run[r] = Quant!NoRun
  /\ \A r, s \in Quant!Runs : s < r /\ Made(r) => Made(s)
  /\ \A r \in Quant!Runs : job[r] # "none" \/ executor[r] # {} \/ r \in mandate => Made(r)

\* What an experiment is made from is not later than what there is.
RunsAreOld ==
  \A r \in Quant!Runs : Made(r) =>
    run[r].snapshot \in 1 .. Quant!Newest /\ run[r].profile <= profile

Together(r) == <<run[r].holdings, run[r].snapshot, run[r].profile>> \in was

\* What a request has read and compared
Compared(q) ==
  LET r == q.run IN
  /\ q.at = "valuing" => q.snapshot \in Dates
  /\ q.at = "valued" => q.snapshot \in 1 .. Quant!Newest
  /\ q.at \in {"created", "bind", "freeze", "held", "worth", "agreed"} =>
       r \in Quant!Runs /\ Made(r)
  /\ q.at = "held" => (Quant!Newest = run[r].snapshot /\ profile = run[r].profile => Together(r))
  /\ q.at = "worth" => (profile = run[r].profile => Together(r))
  /\ q.at = "agreed" => Together(r)

QuantInv ==
  /\ QuantTypes /\ RunsAreMade /\ RunsAreOld
  /\ Quant!Newest # 0 => <<held, Quant!Newest, profile>> \in was
  /\ \A q \in Requests : Compared(experiment[q])
  /\ Quant!MandateWasTrue /\ Quant!JobSuccessIsBacked

\* There is nothing yet.
LEMMA QuantStarts == Quant!Init => QuantInv
<1> SUFFICES ASSUME Quant!Init PROVE QuantInv
  OBVIOUS
<1> USE DEF Quant!Init
<1>1. \A q \in Requests : experiment[q] = Quant!Idle
  OBVIOUS
<1>2. \A r \in Quant!Runs : run[r] = Quant!NoRun /\ ~Made(r)
  BY DEF Quant!NoRun, Made
<1>3. Quant!Existing(snapshot) = {}
  BY DEF Quant!Existing, Quant!NoSnapshot
<1>4. Quant!Newest = 0
  BY <1>3, NewestIs DEF Quant!Newest
<1>5. QuantTypes
  <2>1. Quant!NoSnapshot \in Valuation /\ Quant!Idle \in Question /\ Quant!NoRun \in Experiment
    BY DEF Quant!NoSnapshot, Valuation, Owned, Quant!Held, Gates, Quant!Idle, Question,
           Quant!NoRun, Experiment
  <2>2. snapshot \in [Dates -> Valuation]
    BY <2>1 DEF Dates
  <2>3. run \in [Quant!Runs -> Experiment] /\ experiment \in [Requests -> Question]
    BY <2>1
  <2> QED
    BY <2>2, <2>3, BoundsAssumption DEF QuantTypes, Owned, Quant!Held
<1>6. RunsAreMade /\ RunsAreOld
  BY <1>2 DEF RunsAreMade, RunsAreOld
<1>7. \A q \in Requests : Compared(experiment[q])
  BY <1>1 DEF Compared, Quant!Idle
<1>8. Quant!MandateWasTrue /\ Quant!JobSuccessIsBacked
  BY DEF Quant!MandateWasTrue, Quant!JobSuccessIsBacked
<1> QED
  BY <1>4, <1>5, <1>6, <1>7, <1>8 DEF QuantInv

\* The facts of the experiments that were made stay, and there may be more.
FactsStay ==
  \A r \in Quant!Runs : Made(r) =>
    /\ Made(r)' /\ run'[r].holdings = run[r].holdings /\ run'[r].snapshot = run[r].snapshot
    /\ run'[r].profile = run[r].profile

Forward ==
  /\ Quant!Newest \in Nat /\ Quant!Newest' \in Nat /\ profile \in Nat /\ profile' \in Nat
  /\ Quant!Newest <= Quant!Newest' /\ profile <= profile' /\ was \subseteq was'

\* What was at one moment has been for ever,
LEMMA TogetherStays ==
  ASSUME FactsStay, Forward, NEW r \in Quant!Runs, Made(r), Together(r)
  PROVE  Together(r)'
  BY DEF FactsStay, Forward, Together

\* and what a request has read and compared stands.
LEMMA ComparedStays ==
  ASSUME FactsStay, Forward, RunsAreOld, NEW q \in Question, Compared(q),
         QuantTypes
  PROVE  Compared(q)'
<1>1. PICK r : r = q.run
  OBVIOUS
<1>2. q.at = "valuing" => q.snapshot \in Dates
  BY DEF Compared
<1>3. q.at = "valued" => q.snapshot \in 1 .. Quant!Newest'
  BY DEF Compared, Forward
<1>4. SUFFICES ASSUME q.at \in {"created", "bind", "freeze", "held", "worth", "agreed"}
               PROVE  Compared(q)'
  BY <1>2, <1>3 DEF Compared
<1>5. r \in Quant!Runs /\ Made(r)
  BY <1>1, <1>4 DEF Compared
<1>6. Made(r)' /\ run'[r].snapshot = run[r].snapshot /\ run'[r].profile = run[r].profile
  BY <1>5 DEF FactsStay
<1>7. run[r].snapshot <= Quant!Newest /\ run[r].profile <= profile /\ run[r].snapshot \in Nat
      /\ run[r].profile \in Nat
  BY <1>5 DEF RunsAreOld, Forward, QuantTypes, Experiment
<1>8. q.at = "held" =>
        (Quant!Newest' = run'[r].snapshot /\ profile' = run'[r].profile => Together(r)')
  <2> SUFFICES ASSUME q.at = "held", Quant!Newest' = run'[r].snapshot, profile' = run'[r].profile
               PROVE  Together(r)'
    OBVIOUS
  <2>1. Quant!Newest = run[r].snapshot /\ profile = run[r].profile
    BY <1>6, <1>7 DEF Forward
  <2>2. Together(r)
    BY <1>1, <2>1 DEF Compared
  <2> QED
    BY <1>5, <2>2, TogetherStays
<1>9. q.at = "worth" => (profile' = run'[r].profile => Together(r)')
  <2> SUFFICES ASSUME q.at = "worth", profile' = run'[r].profile
               PROVE  Together(r)'
    OBVIOUS
  <2>1. profile = run[r].profile
    BY <1>6, <1>7 DEF Forward
  <2>2. Together(r)
    BY <1>1, <2>1 DEF Compared
  <2> QED
    BY <1>5, <2>2, TogetherStays
<1>10. q.at = "agreed" => Together(r)'
  BY <1>1, <1>5, TogetherStays DEF Compared
<1> QED
  BY <1>1, <1>2, <1>3, <1>5, <1>6, <1>8, <1>9, <1>10 DEF Compared

\* What a step has to show, wherever it is taken
LEMMA Onward ==
  ASSUME QuantInv, QuantTypes', FactsStay, Forward, RunsAreMade', RunsAreOld',
         \A q \in Requests : experiment'[q] = experiment[q] \/ Compared(experiment[q])',
         \A r \in mandate' : r \in mandate \/ (r \in Quant!Runs /\ Together(r)'),
         Quant!Newest' # 0 => <<held', Quant!Newest', profile'>> \in was',
         Quant!JobSuccessIsBacked'
  PROVE  QuantInv'
<1>1. \A q \in Requests : Compared(experiment[q])'
  <2> SUFFICES ASSUME NEW q \in Requests PROVE Compared(experiment[q])'
    OBVIOUS
  <2>1. CASE experiment'[q] = experiment[q]
    <3>1. experiment[q] \in Question /\ Compared(experiment[q])
      BY DEF QuantInv, QuantTypes
    <3>2. ASSUME NEW u \in Question, Compared(u) PROVE Compared(u)'
      BY <3>2, ComparedStays DEF QuantInv
    <3>3. PICK u : u = experiment[q]
      OBVIOUS
    <3>4. Compared(u)'
      BY <3>1, <3>2, <3>3
    <3> QED
      BY <2>1, <3>3, <3>4 DEF Compared
  <2>2. CASE experiment'[q] # experiment[q]
    BY <2>2
  <2> QED
    BY <2>1, <2>2
<1>2. Quant!MandateWasTrue'
  <2> SUFFICES ASSUME NEW r \in mandate' PROVE Together(r)'
    BY DEF Quant!MandateWasTrue, Together
  <2>1. CASE r \in mandate
    <3>1. r \in Quant!Runs /\ Made(r) /\ Together(r)
      BY <2>1 DEF QuantInv, QuantTypes, RunsAreMade, Quant!MandateWasTrue, Together
    <3> QED
      BY <3>1, TogetherStays
  <2> QED
    BY <2>1
<1> QED
  BY <1>1, <1>2 DEF QuantInv

\* One request moves on, and the others wait.
LEMMA Asks ==
  ASSUME QuantInv, NEW q \in Requests, NEW r \in Question, Quant!Become(q, r)
  PROVE  /\ experiment' \in [Requests -> Question] /\ experiment'[q] = r
         /\ \A u \in Requests : u # q => experiment'[u] = experiment[u]
  BY DEF Quant!Become, QuantInv, QuantTypes

\* A request that has ended
LEMMA QuestionType == Quant!Idle \in Question
  BY DEF Quant!Idle, Question, Owned, Quant!Held

\* The experiments stay as they are.
LEMMA Undone ==
  ASSUME QuantInv, UNCHANGED <<run, job, executor>>
  PROVE  /\ FactsStay /\ Quant!JobSuccessIsBacked'
         /\ (Forward => RunsAreOld')
         /\ (mandate' = mandate => RunsAreMade')
<1>1. \A r \in Quant!Runs : Made(r)' <=> Made(r)
  BY DEF Made
<1>2. FactsStay
  BY <1>1 DEF FactsStay
<1>3. Quant!JobSuccessIsBacked'
  BY DEF QuantInv, Quant!JobSuccessIsBacked
<1>4. ASSUME Forward PROVE RunsAreOld'
  BY <1>1, <1>4 DEF QuantInv, RunsAreOld, Forward, QuantTypes, Experiment
<1>5. ASSUME mandate' = mandate PROVE RunsAreMade'
  BY <1>1, <1>5 DEF QuantInv, RunsAreMade
<1> QED
  BY <1>2, <1>3, <1>4, <1>5

\* Holdings, valuations and the policy stay as they are.
LEMMA Still ==
  ASSUME QuantInv, UNCHANGED <<held, profile, snapshot, was>>
  PROVE  /\ Forward /\ Quant!Newest' = Quant!Newest
         /\ Quant!Newest' # 0 => <<held', Quant!Newest', profile'>> \in was'
<1>1. Quant!Newest' = Quant!Newest /\ Quant!Newest \in Nat
  BY NewestIs DEF Quant!Newest
<1> QED
  BY <1>1 DEF Forward, QuantInv, QuantTypes

\* A request reads or compares, and nothing else happens.
LEMMA Reading ==
  ASSUME QuantInv, NEW q \in Requests, NEW r \in Question, Quant!Become(q, r), Compared(r),
         UNCHANGED <<held, profile, snapshot, was, run, job, executor, mandate>>,
         dated' \in 0 .. MaxSnapshots
  PROVE  QuantInv'
<1>1. Forward /\ (Quant!Newest' # 0 => <<held', Quant!Newest', profile'>> \in was')
  BY Still
<1>2. FactsStay /\ Quant!JobSuccessIsBacked' /\ RunsAreOld' /\ RunsAreMade'
  BY <1>1, Undone
<1>3. /\ experiment' \in [Requests -> Question] /\ experiment'[q] = r
      /\ \A u \in Requests : u # q => experiment'[u] = experiment[u]
  BY Asks
<1>4. Compared(r)'
  BY <1>1, <1>2, ComparedStays DEF QuantInv
<1>5. Compared(experiment[q])'
  BY <1>3, <1>4 DEF Compared
<1>6. QuantTypes'
  BY <1>3 DEF QuantInv, QuantTypes
<1> QED
  BY <1>1, <1>2, <1>3, <1>5, <1>6, Onward

\* Requests that read and compare, one after the other
LEMMA Requested ==
  ASSUME QuantInv, NEW q \in Requests,
         \/ Quant!Value(q) \/ Quant!StartHoldings(q) \/ Quant!StartValuation(q)
         \/ Quant!Drop(q) \/ \E r \in Quant!Runs : Quant!FreezeRun(q, r)
  PROVE  QuantInv'
<1> USE DEF Quant!world, Quant!experiment
<1>1. experiment[q] \in Question /\ Compared(experiment[q]) /\ held \in Owned
      /\ Quant!Newest \in 0 .. MaxSnapshots
  BY NewestIs DEF QuantInv, QuantTypes, Quant!Held, Owned, Quant!Newest
<1>2. CASE Quant!Value(q)
  <2>1. PICK r : r = [Quant!Idle EXCEPT !.at = "valuing", !.snapshot = dated + 1, !.holdings = held]
    OBVIOUS
  <2>0. r = [at |-> "valuing", run |-> 0, holdings |-> held, snapshot |-> dated + 1,
                  trade |-> FALSE]
    BY <2>1 DEF Quant!Idle
  <2>2. dated + 1 \in 1 .. MaxSnapshots
    BY <1>2 DEF Quant!Value, QuantInv, QuantTypes
  <2>3. r \in Question /\ r.at = "valuing" /\ r.snapshot \in 1 .. MaxSnapshots
    BY <1>1, <2>0, <2>2 DEF Question, Owned, Quant!Held
  <2>4. Compared(r)
    BY <2>3 DEF Compared, Dates, Quant!Snapshots
  <2>5. Quant!Become(q, r) /\ dated' \in 0 .. MaxSnapshots
        /\ UNCHANGED <<held, profile, snapshot, was, run, job, executor, mandate>>
    BY <1>2, <2>1, <2>2 DEF Quant!Value
  <2> QED
    BY <2>3, <2>4, <2>5, Reading
<1>3. CASE Quant!StartHoldings(q)
  <2>1. PICK r : r = [Quant!Idle EXCEPT !.at = "start", !.holdings = held]
    OBVIOUS
  <2>0. r = [at |-> "start", run |-> 0, holdings |-> held, snapshot |-> 0,
                  trade |-> FALSE]
    BY <2>1 DEF Quant!Idle
  <2>2. r \in Question /\ r.at = "start"
    BY <1>1, <2>0 DEF Question, Owned, Quant!Held
  <2>3. Compared(r)
    BY <2>2 DEF Compared
  <2>4. Quant!Become(q, r) /\ dated' = dated
        /\ UNCHANGED <<held, profile, snapshot, was, run, job, executor, mandate>>
    BY <1>3, <2>1 DEF Quant!StartHoldings
  <2> QED
    BY <2>2, <2>3, <2>4, Reading DEF QuantInv, QuantTypes
<1>4. CASE Quant!StartValuation(q)
  <2>1. PICK trade : trade = Quant!Passes(experiment[q].holdings, {"trade"})
    OBVIOUS
  <2>2. trade \in BOOLEAN
    BY <2>1 DEF Quant!Passes
  <2>3. PICK r : r = [experiment[q] EXCEPT !.at = "valued", !.snapshot = Quant!Newest,
                                           !.trade = trade]
    OBVIOUS
  <2>4. Quant!Newest # 0
    BY <1>4 DEF Quant!StartValuation, Quant!Passes
  <2>5. r \in Question /\ r.at = "valued" /\ r.snapshot = Quant!Newest
    BY <1>1, <2>2, <2>3 DEF Question
  <2>6. Compared(r)
    BY <1>1, <2>4, <2>5 DEF Compared
  <2>7. Quant!Become(q, r) /\ dated' = dated
        /\ UNCHANGED <<held, profile, snapshot, was, run, job, executor, mandate>>
    BY <1>4, <2>1, <2>3 DEF Quant!StartValuation
  <2> QED
    BY <2>5, <2>6, <2>7, Reading DEF QuantInv, QuantTypes
<1>5. CASE Quant!Drop(q)
  <2>1. PICK r : r = Quant!Idle
    OBVIOUS
  <2>2. r \in Question /\ Compared(r)
    BY <2>1, QuestionType DEF Compared, Quant!Idle
  <2>3. Quant!Become(q, r) /\ dated' = dated
        /\ UNCHANGED <<held, profile, snapshot, was, run, job, executor, mandate>>
    BY <1>5, <2>1 DEF Quant!Drop
  <2> QED
    BY <2>2, <2>3, Reading DEF QuantInv, QuantTypes
<1>6. ASSUME NEW s \in Quant!Runs, Quant!FreezeRun(q, s) PROVE QuantInv'
  <2>1. PICK r : r = [Quant!Idle EXCEPT !.at = "freeze", !.run = s]
    OBVIOUS
  <2>0. r = [at |-> "freeze", run |-> s, holdings |-> {}, snapshot |-> 0,
                  trade |-> FALSE]
    BY <2>1 DEF Quant!Idle
  <2>2. r \in Question /\ r.at = "freeze" /\ r.run = s
    BY <2>0 DEF Question, Owned, Quant!Held, Quant!Runs
  <2>6. Quant!NoRun.paper = FALSE
    BY DEF Quant!NoRun
  <2>3. Made(s)
    BY <1>6, <2>6 DEF Quant!FreezeRun, QuantInv, RunsAreMade
  <2>4. Compared(r)
    BY <2>2, <2>3 DEF Compared
  <2>5. Quant!Become(q, r) /\ dated' = dated
        /\ UNCHANGED <<held, profile, snapshot, was, run, job, executor, mandate>>
    BY <1>6, <2>1 DEF Quant!FreezeRun
  <2> QED
    BY <2>2, <2>4, <2>5, Reading DEF QuantInv, QuantTypes
<1> QED
  BY <1>2, <1>3, <1>4, <1>5, <1>6

\* What freeze_mandate compares, one reading after the other
LEMMA Comparing ==
  ASSUME QuantInv, NEW q \in Requests, Quant!Check(q)
  PROVE  QuantInv'
<1> USE DEF Quant!world, Quant!experiment
<1>1. PICK n : n = experiment[q].run
  OBVIOUS
<1>2. PICK at : at = experiment[q].at
  OBVIOUS
<1>3. /\ Quant!Checks["freeze"].next = "held" /\ Quant!Checks["held"].next = "worth"
      /\ Quant!Checks["worth"].next = "agreed"
      /\ Quant!Checks["freeze"].holds = "holdings" /\ Quant!Checks["held"].holds = "valuation"
      /\ Quant!Checks["worth"].holds = "policy"
      /\ DOMAIN Quant!Checks = {"freeze", "held", "worth"}
  BY DEF Quant!Checks
<1>4. at \in {"freeze", "held", "worth"} /\ n \in Quant!Runs /\ Made(n)
      /\ experiment[q] \in Question
  BY <1>1, <1>2, <1>3 DEF Quant!Check, QuantInv, QuantTypes, Compared
<1>5. PICK r : r = [experiment[q] EXCEPT !.at = Quant!Checks[at].next]
  OBVIOUS
<1>6. r \in Question /\ r.at = Quant!Checks[at].next /\ r.run = n
  BY <1>1, <1>3, <1>4, <1>5 DEF Question
<1>7. Quant!Become(q, r) /\ dated' = dated
      /\ UNCHANGED <<held, profile, snapshot, was, run, job, executor, mandate>>
  BY <1>2, <1>5 DEF Quant!Check
<1>8. Compared(experiment[q]) /\ (Quant!Newest # 0 => <<held, Quant!Newest, profile>> \in was)
      /\ run[n].snapshot \in 1 .. Quant!Newest
  BY <1>4 DEF QuantInv, RunsAreOld
<1>9. ASSUME at = "freeze" PROVE Compared(r)
  <2>1. held = run[n].holdings
    BY <1>1, <1>2, <1>3, <1>9 DEF Quant!Check, Quant!HoldingsAgree
  <2>2. Quant!Newest = run[n].snapshot /\ profile = run[n].profile => Together(n)
    BY <1>8, <2>1 DEF Together
  <2>3. r.at = "held"
    BY <1>3, <1>6, <1>9
  <2> QED
    BY <1>4, <1>6, <2>2, <2>3 DEF Compared
<1>10. ASSUME at = "held" PROVE Compared(r)
  <2>1. Quant!Newest = run[n].snapshot
    BY <1>1, <1>2, <1>3, <1>10 DEF Quant!Check, Quant!ValuationAgrees
  <2>2. profile = run[n].profile => Together(n)
    BY <1>1, <1>2, <1>8, <1>10, <2>1 DEF Compared
  <2>3. r.at = "worth"
    BY <1>3, <1>6, <1>10
  <2> QED
    BY <1>4, <1>6, <2>2, <2>3 DEF Compared
<1>11. ASSUME at = "worth" PROVE Compared(r)
  <2>1. profile = run[n].profile
    BY <1>1, <1>2, <1>3, <1>11 DEF Quant!Check, Quant!PolicyAgrees
  <2>2. Together(n)
    BY <1>1, <1>2, <1>8, <1>11, <2>1 DEF Compared
  <2>3. r.at = "agreed"
    BY <1>3, <1>6, <1>11
  <2> QED
    BY <1>4, <1>6, <2>2, <2>3 DEF Compared
<1>12. Compared(r) => QuantInv'
  BY <1>6, <1>7, Reading DEF QuantInv, QuantTypes
<1>13. Compared(r)
  BY <1>4, <1>9, <1>10, <1>11
<1> QED
  BY <1>12, <1>13

\* Holdings, valuations and the policy change, and the experiments do not.
LEMMA WorldTurns ==
  ASSUME QuantInv, Forward, UNCHANGED <<run, job, executor, mandate>>, QuantTypes',
         Quant!Newest' # 0 => <<held', Quant!Newest', profile'>> \in was',
         \A q \in Requests : experiment'[q] = experiment[q] \/ Compared(experiment[q])'
  PROVE  QuantInv'
<1>1. FactsStay /\ Quant!JobSuccessIsBacked' /\ RunsAreOld' /\ RunsAreMade'
  BY Undone
<1> QED
  BY <1>1, Onward

\* What was at one moment is remembered.
LEMMA Remembered ==
  ASSUME NEW h, NEW s, NEW p, Quant!Seen(h, s, p)
  PROVE  was \subseteq was' /\ (s # 0 => <<h, s, p>> \in was')
<1>1. s # 0 => s \in {s} \ {0}
  OBVIOUS
<1> QED
  BY <1>1 DEF Quant!Seen

\* The user trades, changes his policy or has his holdings valued.
LEMMA Turning ==
  ASSUME QuantInv,
         \/ \E h \in Portfolios : Quant!Hold(h)
         \/ Quant!ChangePolicy
         \/ \E i \in Dates : Quant!Expire(i)
         \/ \E q \in Requests, gate \in {"blocked", "risk", "trade"} : Quant!Save(q, gate)
  PROVE  QuantInv'
<1> USE DEF Quant!world, Quant!experiment
<1>1. QuantTypes /\ Quant!Newest \in 0 .. MaxSnapshots /\ Quant!Newest' \in 0 .. MaxSnapshots
  BY NewestIs DEF QuantInv, Quant!Newest
<1>2. ASSUME NEW h \in Portfolios, Quant!Hold(h) PROVE QuantInv'
  <2>1. held' = {h} /\ Quant!Newest' = Quant!Newest
        /\ UNCHANGED <<profile, dated, snapshot, run, job, executor, mandate, experiment>>
    BY <1>2 DEF Quant!Hold, Quant!Newest
  <2>2. PICK n, p, g : n = Quant!Newest /\ p = profile /\ g = {h}
    OBVIOUS
  <2>3. Quant!Seen(g, n, p)
    BY <1>2, <2>2 DEF Quant!Hold
  <2>4. was \subseteq was' /\ (n # 0 => <<g, n, p>> \in was')
    BY <2>3, Remembered
  <2>5. Forward
    BY <1>1, <2>1, <2>4 DEF Forward, QuantTypes
  <2>6. held' \in Owned
    BY <2>1 DEF Owned, Quant!Held
  <2>7. QuantTypes'
    BY <1>1, <2>1, <2>6 DEF QuantTypes
  <2> QED
    BY <2>1, <2>2, <2>4, <2>5, <2>7, WorldTurns
<1>3. CASE Quant!ChangePolicy
  <2>1. profile' = profile + 1 /\ Quant!Newest' = Quant!Newest
        /\ UNCHANGED <<held, dated, snapshot, run, job, executor, mandate, experiment>>
    BY <1>3 DEF Quant!ChangePolicy, Quant!Newest
  <2>2. PICK n, p, g : n = Quant!Newest /\ p = profile' /\ g = held
    OBVIOUS
  <2>3. Quant!Seen(g, n, p)
    BY <1>3, <2>2 DEF Quant!ChangePolicy
  <2>4. was \subseteq was' /\ (n # 0 => <<g, n, p>> \in was')
    BY <2>3, Remembered
  <2>5. Forward
    BY <1>1, <2>1, <2>4 DEF Forward, QuantTypes
  <2>6. profile' \in 1 .. MaxProfiles
    BY <1>1, <1>3, <2>1 DEF QuantTypes, Quant!ChangePolicy
  <2>7. QuantTypes'
    BY <1>1, <2>1, <2>6 DEF QuantTypes
  <2> QED
    BY <2>1, <2>2, <2>4, <2>5, <2>7, WorldTurns
<1>4. ASSUME NEW i \in Dates, Quant!Expire(i) PROVE QuantInv'
  <2>1. PICK v : v = [snapshot[i] EXCEPT !.gate = "blocked"]
    OBVIOUS
  <2>2. snapshot' = [snapshot EXCEPT ![i] = v] /\ snapshot[i].gate # "none"
    BY <1>4, <2>1 DEF Quant!Expire
  <2>3. v \in Valuation /\ v.gate = "blocked"
    BY <1>1, <2>1 DEF QuantTypes, Valuation, Gates
  <2>4. /\ snapshot' \in [Dates -> Valuation]
        /\ \A j \in Dates : snapshot'[j].gate # "none" <=> snapshot[j].gate # "none"
    BY <1>1, <2>2, <2>3 DEF QuantTypes
  <2>5. Quant!Existing(snapshot) = Quant!Existing(snapshot)'
    BY <2>4 DEF Quant!Existing, Dates
  <2>6. Quant!Newest' = Quant!Newest
    BY <2>5 DEF Quant!Newest, Quant!NewestOf, Quant!Existing
  <2>7. UNCHANGED <<held, profile, dated, was, run, job, executor, mandate, experiment>>
    BY <1>4 DEF Quant!Expire
  <2>8. Forward
    BY <1>1, <2>6, <2>7 DEF Forward, QuantTypes
  <2>9. QuantTypes'
    BY <1>1, <2>4, <2>7 DEF QuantTypes
  <2>10. Quant!Newest' # 0 => <<held', Quant!Newest', profile'>> \in was'
    BY <2>6, <2>7 DEF QuantInv
  <2> QED
    BY <2>7, <2>8, <2>9, <2>10, WorldTurns
<1>5. ASSUME NEW q \in Requests, NEW gate \in {"blocked", "risk", "trade"}, Quant!Save(q, gate)
      PROVE  QuantInv'
  <2>1. PICK i : i = experiment[q].snapshot
    OBVIOUS
  <2>2. PICK v : v = [holdings |-> experiment[q].holdings, gate |-> gate]
    OBVIOUS
  <2>3. i \in Dates /\ experiment[q] \in Question
    BY <1>1, <1>5, <2>1 DEF Quant!Save, QuantInv, Compared, QuantTypes
  <2>4. snapshot' = [snapshot EXCEPT ![i] = v] /\ v \in Valuation /\ v.gate # "none"
    BY <1>5, <2>1, <2>2, <2>3 DEF Quant!Save, Valuation, Question, Gates
  <2>5. /\ snapshot' \in [Dates -> Valuation]
        /\ \A j \in Dates : snapshot[j].gate # "none" => snapshot'[j].gate # "none"
    BY <1>1, <2>3, <2>4 DEF QuantTypes
  <2>6. Quant!Existing(snapshot) \subseteq Quant!Existing(snapshot)'
    BY <2>5 DEF Quant!Existing, Dates
  <2>7. PICK s, t : s = snapshot /\ t = snapshot'
    OBVIOUS
  <2>8. Quant!Newest = Quant!NewestOf(s) /\ Quant!Newest' = Quant!NewestOf(t)
        /\ Quant!Existing(s) \subseteq Quant!Existing(t)
    BY <2>6, <2>7 DEF Quant!Newest, Quant!NewestOf, Quant!Existing
  <2>9. Quant!Newest <= Quant!Newest'
    <3>1. CASE Quant!NewestOf(s) = 0
      BY <1>1, <2>8, <3>1
    <3>2. CASE Quant!NewestOf(s) # 0
      <4>1. Quant!NewestOf(s) \in Quant!Existing(t)
        BY <2>8, <3>2, NewestIs
      <4> QED
        BY <2>8, <4>1, NewestIs
    <3> QED
      BY <3>1, <3>2
  <2>10. UNCHANGED <<held, profile, dated, run, job, executor, mandate>>
    BY <1>5 DEF Quant!Save
  <2>11. PICK n, p, g : n = Quant!Newest' /\ p = profile /\ g = held
    OBVIOUS
  <2>12. Quant!Seen(g, n, p)
    BY <1>5, <2>11 DEF Quant!Save, Quant!Newest
  <2>13. was \subseteq was' /\ (n # 0 => <<g, n, p>> \in was')
    BY <2>12, Remembered
  <2>14. Forward
    BY <1>1, <2>9, <2>10, <2>13 DEF Forward, QuantTypes
  <2>15. PICK r : r = Quant!Idle
    OBVIOUS
  <2>16. r \in Question /\ Quant!Become(q, r) /\ r.at = "none"
    BY <1>5, <2>15, QuestionType DEF Quant!Save, Quant!Idle
  <2>17. /\ experiment' \in [Requests -> Question] /\ experiment'[q] = r
         /\ \A u \in Requests : u # q => experiment'[u] = experiment[u]
    BY <2>16, Asks
  <2>18. \A u \in Requests : experiment'[u] = experiment[u] \/ Compared(experiment[u])'
    BY <2>16, <2>17 DEF Compared
  <2>19. QuantTypes'
    BY <1>1, <2>5, <2>10, <2>17 DEF QuantTypes
  <2> QED
    BY <2>10, <2>11, <2>13, <2>14, <2>18, <2>19, WorldTurns
<1> QED
  BY <1>2, <1>3, <1>4, <1>5

\* The experiments go on, and the world stands still.
LEMMA GoesOn ==
  ASSUME QuantInv, UNCHANGED <<held, profile, dated, snapshot, was, mandate>>,
         experiment' \in [Requests -> Question],
         \A q \in Requests : experiment'[q] = experiment[q] \/ Compared(experiment[q])',
         run' \in [Quant!Runs -> Experiment], FactsStay,
         \A r \in Quant!Runs : Made(r)' <=> Made(r),
         \A r \in Quant!Runs : run'[r] = run[r] \/ Made(r),
         job' \in [Quant!Runs -> {"none", "queued", "running", "succeeded", "failed"}],
         executor' \in [Quant!Runs -> SUBSET {"owner", "computing", "lost"}],
         \A r \in Quant!Runs : (job'[r] # "none" \/ executor'[r] # {}) => Made(r),
         Quant!JobSuccessIsBacked'
  PROVE  QuantInv'
<1>1. Forward /\ Quant!Newest' = Quant!Newest
      /\ (Quant!Newest' # 0 => <<held', Quant!Newest', profile'>> \in was')
  BY Still
<1>2. QuantTypes'
  BY DEF QuantInv, QuantTypes
<1>3. RunsAreMade'
  BY DEF QuantInv, RunsAreMade
<1>4. RunsAreOld'
  BY <1>1 DEF QuantInv, RunsAreOld, FactsStay
<1> QED
  BY <1>1, <1>2, <1>3, <1>4, Onward

\* An experiment gets another status.
LEMMA RunMoves ==
  ASSUME QuantInv, NEW r \in Quant!Runs, Made(r), NEW new \in Experiment,
         run' = [run EXCEPT ![r] = new], new.status # "none", new.holdings = run[r].holdings,
         new.snapshot = run[r].snapshot, new.profile = run[r].profile
  PROVE  /\ run' \in [Quant!Runs -> Experiment] /\ FactsStay
         /\ \A s \in Quant!Runs : run'[s] = IF s = r THEN new ELSE run[s]
         /\ \A s \in Quant!Runs : Made(s)' <=> Made(s)
         /\ \A s \in Quant!Runs : run'[s] = run[s] \/ Made(s)
<1>1. run \in [Quant!Runs -> Experiment]
  BY DEF QuantInv, QuantTypes
<1>2. /\ run' \in [Quant!Runs -> Experiment]
      /\ \A s \in Quant!Runs : run'[s] = IF s = r THEN new ELSE run[s]
  BY <1>1
<1>3. \A s \in Quant!Runs : Made(s)' <=> Made(s)
  BY <1>2 DEF Made
<1>4. FactsStay
  BY <1>2, <1>3 DEF FactsStay
<1> QED
  BY <1>2, <1>3, <1>4

\* No experiment changes.
LEMMA RunStays ==
  ASSUME QuantInv, run' = run
  PROVE  /\ run' \in [Quant!Runs -> Experiment] /\ FactsStay
         /\ \A s \in Quant!Runs : Made(s)' <=> Made(s)
  BY DEF QuantInv, QuantTypes, FactsStay, Made

\* fail_run
LEMMA Failing ==
  ASSUME QuantInv, NEW r \in Quant!Runs, Made(r), run' = [run EXCEPT ![r] = Quant!Failed(r)]
  PROVE  /\ run' \in [Quant!Runs -> Experiment] /\ FactsStay
         /\ \A s \in Quant!Runs : Made(s)' <=> Made(s)
         /\ \A s \in Quant!Runs : run'[s] = run[s] \/ Made(s)
         /\ \A s \in Quant!Runs :
              run[s].status \in {"succeeded", "partial"} => run'[s].status = run[s].status
<1>1. PICK new : new = Quant!Failed(r)
  OBVIOUS
<1>2. run[r] \in Experiment /\ run[r].status # "none"
  BY DEF QuantInv, QuantTypes, Made
<1>3. /\ new \in Experiment /\ new.status # "none" /\ new.holdings = run[r].holdings
      /\ new.snapshot = run[r].snapshot /\ new.profile = run[r].profile
      /\ run[r].status \in {"succeeded", "partial"} => new.status = run[r].status
  BY <1>1, <1>2 DEF Quant!Failed, Quant!Terminal, Experiment
<1>4. run' = [run EXCEPT ![r] = new]
  BY <1>1
<1> QED
  BY <1>3, <1>4, RunMoves

\* create_run takes the next number, which no experiment has.
LEMMA NextRun ==
  ASSUME QuantInv, NEW r \in Quant!Runs,
         r = Quant!Cardinality({i \in Quant!Runs : run[i] # Quant!NoRun}) + 1
  PROVE  ~Made(r) /\ \A s \in Quant!Runs : s < r => Made(s)
<1>1. PICK S : S = {i \in Quant!Runs : run[i] # Quant!NoRun}
  OBVIOUS
<1>2. Quant!Cardinality(S) = Cardinality(S)
  BY DEF Cardinality, Quant!Cardinality
<1>9. Quant!Runs = 1 .. MaxRuns /\ MaxRuns \in Int /\ S \subseteq Quant!Runs
  BY <1>1 DEF Quant!Runs
<1>10. IsFiniteSet(1 .. MaxRuns)
  BY <1>9, FS_Interval
<1>11. IsFiniteSet(Quant!Runs)
  BY <1>9, <1>10
<1>12. IsFiniteSet(S)
  BY <1>9, <1>11, FS_Subset
<1>3. S \subseteq Quant!Runs /\ IsFiniteSet(S) /\ Quant!Runs \subseteq Nat
  BY <1>9, <1>12
<1>4. Cardinality(S) \in Nat /\ r = Cardinality(S) + 1 /\ r \in Nat /\ r >= 1
  BY <1>1, <1>2, <1>3, FS_CardinalityType DEF Quant!Runs
<1>5. \A i \in Quant!Runs : i \in S <=> Made(i)
  BY <1>1 DEF QuantInv, RunsAreMade, Made, Quant!NoRun
<1>6. ASSUME Made(r) PROVE FALSE
  <2>1. ASSUME NEW i \in 1 .. r PROVE i \in S
    <3>1. i \in Quant!Runs /\ (i < r \/ i = r)
      BY <1>4, <1>9, <2>1
    <3>2. Made(i)
      BY <1>6, <3>1 DEF QuantInv, RunsAreMade
    <3> QED
      BY <1>5, <3>1, <3>2
  <2>4. r \in Int /\ 1 \in Int /\ ~(1 > r) /\ r - 1 + 1 = r
    BY <1>4
  <2>5. Cardinality(1 .. r) = IF 1 > r THEN 0 ELSE r - 1 + 1
    BY <2>4, FS_Interval
  <2>2. Cardinality(1 .. r) = r
    BY <2>4, <2>5
  <2>3. Cardinality(1 .. r) <= Cardinality(S)
    BY <1>3, <2>1, FS_Subset
  <2> QED
    BY <1>4, <2>2, <2>3
<1>7. ASSUME NEW s \in Quant!Runs, s < r, ~Made(s) PROVE FALSE
  <2>1. s \in Nat /\ s >= 1
    BY DEF Quant!Runs
  <2>2. ASSUME NEW i \in S PROVE i \in 1 .. (s - 1)
    <3>1. i \in Quant!Runs /\ Made(i)
      BY <1>1, <1>5, <2>2
    <3>2. ~(s < i) /\ s # i
      BY <1>7, <3>1 DEF QuantInv, RunsAreMade
    <3> QED
      BY <2>1, <3>1, <3>2 DEF Quant!Runs
  <2>3. S \subseteq 1 .. (s - 1)
    BY <2>2
  <2>6. PICK m : m = s - 1
    OBVIOUS
  <2>7. m \in Nat /\ m \in Int /\ 1 \in Int /\ (1 > m => m = 0) /\ m - 1 + 1 = m
    BY <2>1, <2>6
  <2>8. /\ IsFiniteSet(1 .. m)
        /\ Cardinality(1 .. m) = IF 1 > m THEN 0 ELSE m - 1 + 1
    BY <2>7, FS_Interval
  <2>4. Cardinality(1 .. (s - 1)) = s - 1 /\ IsFiniteSet(1 .. (s - 1))
    BY <2>6, <2>7, <2>8
  <2>5. Cardinality(S) <= s - 1
    BY <2>3, <2>4, FS_Subset
  <2> QED
    BY <1>4, <1>7, <2>1, <2>5
<1> QED
  BY <1>6, <1>7

\* _prepare_evidence ends with the policy, and create_run
LEMMA Creating ==
  ASSUME QuantInv, NEW q \in Requests, NEW n \in Quant!Runs, Quant!Create(q, n)
  PROVE  QuantInv'
<1> USE DEF Quant!world, Quant!experiment
<1>1. experiment[q] \in Question /\ experiment[q].snapshot \in 1 .. Quant!Newest
      /\ QuantTypes /\ RunsAreMade /\ RunsAreOld /\ profile \in Nat
  BY DEF Quant!Create, QuantInv, QuantTypes, Compared
<1>2. ~Made(n) /\ \A s \in Quant!Runs : s < n => Made(s)
  BY NextRun DEF Quant!Create
<1>3. PICK configured \in BOOLEAN :
        run' = [run EXCEPT ![n] =
          [Quant!NoRun EXCEPT !.status = "queued", !.holdings = experiment[q].holdings,
                              !.snapshot = experiment[q].snapshot, !.profile = profile,
                              !.eligible = configured /\ experiment[q].trade]]
  BY DEF Quant!Create
<1>24. PICK new :
         new = [Quant!NoRun EXCEPT !.status = "queued", !.holdings = experiment[q].holdings,
                                   !.snapshot = experiment[q].snapshot, !.profile = profile,
                                   !.eligible = configured /\ experiment[q].trade]
  OBVIOUS
<1>4. new = [status |-> "queued", holdings |-> experiment[q].holdings,
             snapshot |-> experiment[q].snapshot, profile |-> profile,
             eligible |-> configured /\ experiment[q].trade, bound |-> FALSE, paper |-> FALSE]
  BY <1>24 DEF Quant!NoRun
<1>5. run' = [run EXCEPT ![n] = new]
  BY <1>3, <1>24
<1>6. (configured /\ experiment[q].trade) \in BOOLEAN
  BY <1>1 DEF Question
<1>7. new \in Experiment /\ new.status = "queued" /\ new.snapshot \in 1 .. Quant!Newest
      /\ new.profile = profile
  BY <1>1, <1>4, <1>6 DEF Experiment, Question
<1>8. /\ run' \in [Quant!Runs -> Experiment]
      /\ \A s \in Quant!Runs : run'[s] = IF s = n THEN new ELSE run[s]
  BY <1>1, <1>5, <1>7 DEF QuantTypes
<1>9. \A s \in Quant!Runs : Made(s)' <=> (Made(s) \/ s = n)
  BY <1>7, <1>8 DEF Made
<1>10. FactsStay
  BY <1>2, <1>8, <1>9 DEF FactsStay
<1>11. UNCHANGED <<held, profile, dated, snapshot, was, job, executor, mandate>>
  BY DEF Quant!Create
<1>12. Forward /\ Quant!Newest' = Quant!Newest
       /\ (Quant!Newest' # 0 => <<held', Quant!Newest', profile'>> \in was')
  BY <1>11, Still
<1>13. PICK r : r = [Quant!Idle EXCEPT !.at = "created", !.run = n]
  OBVIOUS
<1>14. r = [at |-> "created", run |-> n, holdings |-> {}, snapshot |-> 0, trade |-> FALSE]
  BY <1>13 DEF Quant!Idle
<1>15. r \in Question /\ r.at = "created" /\ r.run = n
  BY <1>14 DEF Question, Owned, Quant!Held, Quant!Runs
<1>16. Quant!Become(q, r)
  BY <1>13 DEF Quant!Create
<1>17. /\ experiment' \in [Requests -> Question] /\ experiment'[q] = r
       /\ \A u \in Requests : u # q => experiment'[u] = experiment[u]
  BY <1>15, <1>16, Asks
<1>18. Compared(experiment[q])'
  BY <1>9, <1>15, <1>17 DEF Compared
<1>19. \A u \in Requests : experiment'[u] = experiment[u] \/ Compared(experiment[u])'
  BY <1>17, <1>18
<1>20. QuantTypes'
  BY <1>1, <1>8, <1>11, <1>17 DEF QuantTypes
<1>21. RunsAreMade'
  <2>1. \A s \in Quant!Runs : ~Made(s)' => run'[s] = Quant!NoRun
    BY <1>1, <1>8, <1>9 DEF RunsAreMade
  <2>2. \A s, t \in Quant!Runs : t < s /\ Made(s)' => Made(t)'
    BY <1>1, <1>2, <1>9 DEF RunsAreMade
  <2>3. \A s \in Quant!Runs : job'[s] # "none" \/ executor'[s] # {} \/ s \in mandate' => Made(s)'
    BY <1>1, <1>9, <1>11 DEF RunsAreMade
  <2> QED
    BY <2>1, <2>2, <2>3 DEF RunsAreMade
<1>22. RunsAreOld'
  BY <1>1, <1>7, <1>8, <1>9, <1>11, <1>12 DEF RunsAreOld
<1>23. Quant!JobSuccessIsBacked'
  BY <1>2, <1>8, <1>11 DEF QuantInv, Quant!JobSuccessIsBacked, Made
<1> QED
  BY <1>10, <1>11, <1>12, <1>19, <1>20, <1>21, <1>22, <1>23, Onward

\* The job of an experiment, and what binds it to it
LEMMA Binding ==
  ASSUME QuantInv, NEW q \in Requests, Quant!CreateJob(q) \/ Quant!Bind(q)
  PROVE  QuantInv'
<1> USE DEF Quant!world, Quant!experiment
<1>1. PICK n : n = experiment[q].run
  OBVIOUS
<1>2. experiment[q] \in Question /\ n \in Quant!Runs /\ Made(n) /\ QuantTypes /\ RunsAreMade
  BY <1>1 DEF Quant!CreateJob, Quant!Bind, QuantInv, QuantTypes, Compared
<1>3. Quant!JobSuccessIsBacked
  BY DEF QuantInv
<1>4. CASE Quant!CreateJob(q)
  <2>1. PICK r : r = [experiment[q] EXCEPT !.at = "bind"]
    OBVIOUS
  <2>2. r \in Question /\ r.at = "bind" /\ r.run = n
    BY <1>1, <1>2, <2>1 DEF Question
  <2>3. Quant!Become(q, r) /\ job' = [job EXCEPT ![n] = "queued"]
        /\ UNCHANGED <<held, profile, dated, snapshot, was, run, executor, mandate>>
    BY <1>1, <1>4, <2>1 DEF Quant!CreateJob
  <2>4. /\ experiment' \in [Requests -> Question] /\ experiment'[q] = r
        /\ \A u \in Requests : u # q => experiment'[u] = experiment[u]
    BY <2>2, <2>3, Asks
  <2>5. /\ job' \in [Quant!Runs -> {"none", "queued", "running", "succeeded", "failed"}]
        /\ \A s \in Quant!Runs : job'[s] = IF s = n THEN "queued" ELSE job[s]
    BY <1>2, <2>3 DEF QuantTypes
  <2>6. /\ run' \in [Quant!Runs -> Experiment] /\ FactsStay
        /\ \A s \in Quant!Runs : Made(s)' <=> Made(s)
    BY <2>3, RunStays
  <2>7. Compared(experiment[q])'
    BY <1>2, <2>2, <2>4, <2>6 DEF Compared
  <2>8. \A s \in Quant!Runs : (job'[s] # "none" \/ executor'[s] # {}) => Made(s)
    BY <1>2, <2>3, <2>5 DEF RunsAreMade
  <2>9. Quant!JobSuccessIsBacked'
    BY <1>3, <2>3, <2>5 DEF Quant!JobSuccessIsBacked
  <2>10. executor' \in [Quant!Runs -> SUBSET {"owner", "computing", "lost"}]
    BY <1>2, <2>3 DEF QuantTypes
  <2> QED
    BY <2>3, <2>4, <2>5, <2>6, <2>7, <2>8, <2>9, <2>10, GoesOn
<1>5. CASE Quant!Bind(q)
  <2>1. PICK r : r = Quant!Idle
    OBVIOUS
  <2>2. r \in Question /\ r.at = "none"
    BY <2>1, QuestionType DEF Quant!Idle
  <2>3. Quant!Become(q, r)
        /\ UNCHANGED <<held, profile, dated, snapshot, was, job, executor, mandate>>
    BY <1>5, <2>1 DEF Quant!Bind
  <2>4. /\ experiment' \in [Requests -> Question] /\ experiment'[q] = r
        /\ \A u \in Requests : u # q => experiment'[u] = experiment[u]
    BY <2>2, <2>3, Asks
  <2>5. Compared(experiment[q])'
    BY <2>2, <2>4 DEF Compared
  <2>6. /\ run' \in [Quant!Runs -> Experiment] /\ FactsStay
        /\ \A s \in Quant!Runs : Made(s)' <=> Made(s)
        /\ \A s \in Quant!Runs : run'[s] = run[s] \/ Made(s)
        /\ \A s \in Quant!Runs :
             run[s].status \in {"succeeded", "partial"} => run'[s].status = run[s].status
    <3>1. CASE run[n].status = "queued" /\ run' = [run EXCEPT ![n].bound = TRUE]
      <4>1. PICK new : new = [run[n] EXCEPT !.bound = TRUE]
        OBVIOUS
      <4>2. run[n] \in Experiment
        BY <1>2 DEF QuantTypes
      <4>3. /\ new \in Experiment /\ new.status = "queued" /\ new.holdings = run[n].holdings
            /\ new.snapshot = run[n].snapshot /\ new.profile = run[n].profile
        BY <3>1, <4>1, <4>2 DEF Experiment
      <4>4. run' = [run EXCEPT ![n] = new]
        BY <3>1, <4>1
      <4> QED
        BY <1>2, <3>1, <4>3, <4>4, RunMoves
    <3>2. CASE run' = [run EXCEPT ![n] = Quant!Failed(n)]
      BY <1>2, <3>2, Failing
    <3> QED
      BY <1>1, <1>5, <3>1, <3>2 DEF Quant!Bind
  <2>7. Quant!JobSuccessIsBacked'
    BY <1>3, <2>3, <2>6 DEF Quant!JobSuccessIsBacked
  <2>8. \A s \in Quant!Runs : (job'[s] # "none" \/ executor'[s] # {}) => Made(s)
    BY <1>2, <2>3 DEF RunsAreMade
  <2>9. job' \in [Quant!Runs -> {"none", "queued", "running", "succeeded", "failed"}]
        /\ executor' \in [Quant!Runs -> SUBSET {"owner", "computing", "lost"}]
    BY <1>2, <2>3 DEF QuantTypes
  <2> QED
    BY <2>3, <2>4, <2>5, <2>6, <2>7, <2>8, <2>9, GoesOn
<1> QED
  BY <1>4, <1>5

\* refresh_run_status, and what a worker does with the experiment and its job
LEMMA Working ==
  ASSUME QuantInv, NEW n \in Quant!Runs,
         \/ Quant!Reconcile(n) \/ Quant!Claim(n) \/ Quant!Begin(n)
         \/ \E e \in {"owner", "computing", "lost"} : Quant!Finish(n, e) \/ Quant!Die(n, e)
  PROVE  QuantInv'
<1> USE DEF Quant!world, Quant!experiment
<1>1. QuantTypes /\ RunsAreMade /\ Quant!JobSuccessIsBacked /\ run[n] \in Experiment
  BY DEF QuantInv, QuantTypes
<1>2. Made(n)
  <2>1. ASSUME NEW e, e \in executor[n] PROVE Made(n)
    BY <1>1, <2>1 DEF RunsAreMade
  <2>2. job[n] # "none" => Made(n)
    BY <1>1 DEF RunsAreMade
  <2> QED
    BY <2>1, <2>2 DEF Quant!Reconcile, Quant!Claim, Quant!Begin, Quant!Finish, Quant!Die
<1>3. UNCHANGED <<held, profile, dated, snapshot, was, mandate, experiment>>
  BY DEF Quant!Reconcile, Quant!Claim, Quant!Begin, Quant!Finish, Quant!Die
<1>4. /\ run' \in [Quant!Runs -> Experiment] /\ FactsStay
      /\ \A s \in Quant!Runs : Made(s)' <=> Made(s)
      /\ \A s \in Quant!Runs : run'[s] = run[s] \/ Made(s)
      /\ \A s \in Quant!Runs :
           run[s].status \in {"succeeded", "partial"} => run'[s].status = run[s].status
  <2>1. CASE run' = run
    <3>1. run' \in [Quant!Runs -> Experiment] /\ FactsStay
          /\ \A s \in Quant!Runs : Made(s)' <=> Made(s)
      BY <2>1, RunStays
    <3> QED
      BY <2>1, <3>1
  <2>2. CASE run' = [run EXCEPT ![n] = Quant!Failed(n)]
    BY <1>2, <2>2, Failing
  <2>3. CASE /\ run[n].status # "failed" /\ ~Quant!Answered(n)
             /\ run' = [run EXCEPT ![n].status = "running"]
    <3>1. PICK new : new = [run[n] EXCEPT !.status = "running"]
      OBVIOUS
    <3>2. /\ new \in Experiment /\ new.status = "running" /\ new.holdings = run[n].holdings
          /\ new.snapshot = run[n].snapshot /\ new.profile = run[n].profile
      BY <1>1, <3>1 DEF Experiment
    <3>3. run' = [run EXCEPT ![n] = new]
      BY <2>3, <3>1
    <3>4. /\ run' \in [Quant!Runs -> Experiment] /\ FactsStay
          /\ \A s \in Quant!Runs : run'[s] = IF s = n THEN new ELSE run[s]
          /\ \A s \in Quant!Runs : Made(s)' <=> Made(s)
          /\ \A s \in Quant!Runs : run'[s] = run[s] \/ Made(s)
      BY <1>2, <3>2, <3>3, RunMoves
    <3> QED
      BY <2>3, <3>4 DEF Quant!Answered
  <2>4. ASSUME NEW status \in {"succeeded", "partial"}, NEW paper \in {FALSE, run[n].eligible},
               run[n].status \notin Quant!Terminal,
               run' = [run EXCEPT ![n].status = status, ![n].paper = paper]
        PROVE  /\ run' \in [Quant!Runs -> Experiment] /\ FactsStay
               /\ \A s \in Quant!Runs : Made(s)' <=> Made(s)
               /\ \A s \in Quant!Runs : run'[s] = run[s] \/ Made(s)
               /\ \A s \in Quant!Runs :
                    run[s].status \in {"succeeded", "partial"} => run'[s].status = run[s].status
    <3>1. PICK new : new = [run[n] EXCEPT !.status = status, !.paper = paper]
      OBVIOUS
    <3>5. paper \in BOOLEAN
      BY <1>1 DEF Experiment
    <3>2. /\ new \in Experiment /\ new.status = status /\ new.holdings = run[n].holdings
          /\ new.snapshot = run[n].snapshot /\ new.profile = run[n].profile
      BY <1>1, <3>1, <3>5 DEF Experiment
    <3>3. run' = [run EXCEPT ![n] = new]
      BY <1>1, <2>4, <3>1 DEF QuantTypes
    <3>4. /\ run' \in [Quant!Runs -> Experiment] /\ FactsStay
          /\ \A s \in Quant!Runs : run'[s] = IF s = n THEN new ELSE run[s]
          /\ \A s \in Quant!Runs : Made(s)' <=> Made(s)
          /\ \A s \in Quant!Runs : run'[s] = run[s] \/ Made(s)
      BY <1>2, <3>2, <3>3, RunMoves
    <3> QED
      BY <2>4, <3>4 DEF Quant!Terminal
  <2>5. CASE Quant!Reconcile(n)
    BY <2>2, <2>5 DEF Quant!Reconcile
  <2>6. CASE Quant!Claim(n) \/ \E e \in {"owner", "computing", "lost"} : Quant!Die(n, e)
    BY <2>1, <2>6 DEF Quant!Claim, Quant!Die
  <2>7. CASE Quant!Begin(n)
    BY <2>1, <2>3, <2>7 DEF Quant!Begin
  <2>8. CASE \E e \in {"owner", "computing", "lost"} : Quant!Finish(n, e)
    BY <2>2, <2>4, <2>8 DEF Quant!Finish
  <2> QED
    BY <2>5, <2>6, <2>7, <2>8
<1>5. /\ \A s \in Quant!Runs : s # n => job'[s] = job[s] /\ executor'[s] = executor[s]
      /\ job' \in [Quant!Runs -> {"none", "queued", "running", "succeeded", "failed"}]
      /\ executor' \in [Quant!Runs -> SUBSET {"owner", "computing", "lost"}]
  <2>1. CASE Quant!Reconcile(n)
    BY <1>1, <2>1 DEF Quant!Reconcile, QuantTypes
  <2>2. CASE Quant!Claim(n)
    BY <1>1, <2>2 DEF Quant!Claim, QuantTypes
  <2>3. CASE Quant!Begin(n)
    BY <1>1, <2>3 DEF Quant!Begin, QuantTypes
  <2>4. CASE \E e \in {"owner", "computing", "lost"} : Quant!Finish(n, e) \/ Quant!Die(n, e)
    BY <1>1, <2>4 DEF Quant!Finish, Quant!Die, Quant!Concluded, QuantTypes
  <2> QED
    BY <2>1, <2>2, <2>3, <2>4
<1>6. job'[n] = "succeeded" => run'[n].status \in {"succeeded", "partial"}
  <2>1. CASE job'[n] = job[n]
    BY <1>1, <1>4, <2>1 DEF Quant!JobSuccessIsBacked
  <2>2. CASE Quant!Reconcile(n)
    BY <2>1, <2>2 DEF Quant!Reconcile
  <2>3. CASE Quant!Claim(n)
    BY <1>1, <2>3 DEF Quant!Claim, QuantTypes
  <2>4. CASE Quant!Begin(n)
    BY <1>1, <2>1, <2>4 DEF Quant!Begin, Quant!Answered, QuantTypes
  <2>5. ASSUME NEW e \in {"owner", "computing", "lost"}, Quant!Finish(n, e)
        PROVE  job'[n] = "succeeded" => run'[n].status \in {"succeeded", "partial"}
    <3>1. ASSUME NEW status \in {"succeeded", "partial"}, NEW paper,
                 run' = [run EXCEPT ![n].status = status, ![n].paper = paper]
          PROVE  run'[n].status \in {"succeeded", "partial"}
      <4>1. PICK new : new = [run[n] EXCEPT !.status = status, !.paper = paper]
        OBVIOUS
      <4>2. new.status = status
        BY <1>1, <4>1 DEF Experiment
      <4>3. run'[n] = new
        BY <1>1, <3>1, <4>1 DEF QuantTypes
      <4> QED
        BY <4>2, <4>3
    <3>2. CASE job' = Quant!Concluded(n, e, "failed")
      BY <1>1, <2>1, <3>2 DEF Quant!Concluded, QuantTypes
    <3> QED
      BY <2>5, <3>1, <3>2 DEF Quant!Finish
  <2>6. ASSUME NEW e \in {"owner", "computing", "lost"}, Quant!Die(n, e)
        PROVE  job'[n] = "succeeded" => run'[n].status \in {"succeeded", "partial"}
    BY <1>1, <2>1, <2>6 DEF Quant!Die, Quant!Concluded, QuantTypes
  <2> QED
    BY <2>2, <2>3, <2>4, <2>5, <2>6
<1>7. Quant!JobSuccessIsBacked'
  BY <1>1, <1>4, <1>5, <1>6 DEF Quant!JobSuccessIsBacked
<1>8. \A s \in Quant!Runs : (job'[s] # "none" \/ executor'[s] # {}) => Made(s)
  BY <1>1, <1>2, <1>5 DEF RunsAreMade
<1>9. experiment' \in [Requests -> Question]
  BY <1>1, <1>3 DEF QuantTypes
<1> QED
  BY <1>3, <1>4, <1>5, <1>7, <1>8, <1>9, GoesOn

\* create_mandate
LEMMA Mandating ==
  ASSUME QuantInv, NEW q \in Requests, Quant!Freeze(q)
  PROVE  QuantInv'
<1> USE DEF Quant!world, Quant!experiment
<1>1. PICK n : n = experiment[q].run
  OBVIOUS
<1>2. n \in Quant!Runs /\ Made(n) /\ Together(n) /\ QuantTypes /\ RunsAreMade
  BY <1>1 DEF Quant!Freeze, QuantInv, Compared
<1>3. PICK r : r = Quant!Idle
  OBVIOUS
<1>4. r \in Question /\ r.at = "none"
  BY <1>3, QuestionType DEF Quant!Idle
<1>5. Quant!Become(q, r) /\ mandate' = mandate \cup {n}
      /\ UNCHANGED <<held, profile, dated, snapshot, was, run, job, executor>>
  BY <1>1, <1>3 DEF Quant!Freeze
<1>6. /\ experiment' \in [Requests -> Question] /\ experiment'[q] = r
      /\ \A u \in Requests : u # q => experiment'[u] = experiment[u]
  BY <1>4, <1>5, Asks
<1>7. Forward /\ (Quant!Newest' # 0 => <<held', Quant!Newest', profile'>> \in was')
  BY <1>5, Still
<1>8. FactsStay /\ Quant!JobSuccessIsBacked' /\ RunsAreOld'
  BY <1>5, <1>7, Undone
<1>9. RunsAreMade'
  BY <1>2, <1>5 DEF RunsAreMade, Made
<1>10. Together(n)'
  BY <1>2, <1>7, <1>8, TogetherStays
<1>11. QuantTypes'
  BY <1>2, <1>5, <1>6 DEF QuantTypes
<1>12. \A u \in Requests : experiment'[u] = experiment[u] \/ Compared(experiment[u])'
  BY <1>4, <1>6 DEF Compared
<1>13. \A s \in mandate' : s \in mandate \/ (s \in Quant!Runs /\ Together(s)')
  BY <1>2, <1>5, <1>10
<1> QED
  BY <1>7, <1>8, <1>9, <1>11, <1>12, <1>13, Onward

\* Nothing changes.
LEMMA QuantStands ==
  ASSUME QuantInv, UNCHANGED Quant!vars
  PROVE  QuantInv'
<1> USE DEF Quant!vars
<1>1. Forward /\ (Quant!Newest' # 0 => <<held', Quant!Newest', profile'>> \in was')
  BY Still
<1>2. QuantTypes'
  BY DEF QuantInv, QuantTypes
<1> QED
  BY <1>1, <1>2, WorldTurns

\* Every step of the experiments, and none
LEMMA QuantStep == QuantInv /\ [Quant!Next]_(Quant!vars) => QuantInv'
<1> SUFFICES ASSUME QuantInv, [Quant!Next]_(Quant!vars) PROVE QuantInv'
  OBVIOUS
<1>1. CASE UNCHANGED Quant!vars
  BY <1>1, QuantStands
<1>2. CASE Quant!Next
  BY <1>2, Turning, Requested, Comparing, Creating, Binding, Working, Mandating
     DEF Quant!Next, Dates
<1> QED
  BY <1>1, <1>2

-----------------------------------------------------------------------------
(* The committee.                                                          *)

\* A request, field by field
Asking(r) ==
  r = [at |-> r.at, kind |-> r.kind, rows |-> r.rows, hub |-> r.hub, snapshot |-> r.snapshot,
       prior |-> r.prior, stamp |-> r.stamp]

\* A mandate with such a stamp has been frozen, or none was asked for.
Frozen(stamp) == stamp = 0 \/ \E p \in mandates : p.stamp = stamp

\* What a mandate says follows from its evidence.
Composed(m) ==
  \E r, hub, s : /\ m.evidence = Committee!Evidence(r, hub, s)
                 /\ m.result = Committee!Compose(r, hub.fits, hub.budget)

\* Of a time nobody else has, and after what it is measured against
Dated(d) ==
  desk[d].at = "insert" =>
    /\ desk[d].stamp \in 1 .. clock /\ desk[d].prior < desk[d].stamp
    /\ \A m \in mandates : m.stamp # desk[d].stamp
    /\ \A e \in Desks : e # d /\ desk[e].at = "insert" => desk[e].stamp # desk[d].stamp

\* Every request has a time of its own and is measured against a mandate that
\* stays, and every mandate was composed from its evidence.
CommitteeInv ==
  /\ clock \in Nat
  /\ desk = [d \in Desks |-> desk[d]]
  /\ \A d \in Desks : Asking(desk[d]) /\ Frozen(desk[d].prior) /\ Dated(d)
  /\ \A m \in mandates : m.stamp \in 1 .. clock /\ Composed(m)
  /\ \A m, n \in mandates : m.stamp = n.stamp => m = n
  /\ Committee!DriftIsFromAnOlderMandate

\* Nobody has asked yet.
LEMMA CommitteeStarts == Committee!Init => CommitteeInv
  BY DEF Committee!Init, CommitteeInv, Committee!Idle, Asking, Frozen, Dated,
         Committee!DriftIsFromAnOlderMandate

\* The evidence tells what it was made of.
LEMMA EvidenceTells ==
  ASSUME NEW r, NEW hub, NEW s, NEW q, NEW other, NEW t,
         Committee!Evidence(r, hub, s) = Committee!Evidence(q, other, t)
  PROVE  r = q /\ hub.fits = other.fits /\ hub.budget = other.budget
<1>1. PICK a, b, c, d : /\ a = hub.fits /\ b = hub.budget /\ c = other.fits /\ d = other.budget
  OBVIOUS
<1>2. /\ Committee!Evidence(r, hub, s).rows = r /\ Committee!Evidence(q, other, t).rows = q
      /\ Committee!Evidence(r, hub, s).fits = a /\ Committee!Evidence(q, other, t).fits = c
      /\ Committee!Evidence(r, hub, s).budget = b /\ Committee!Evidence(q, other, t).budget = d
  BY <1>1 DEF Committee!Evidence
<1> QED
  BY <1>1, <1>2

\* A mandate that is bound to the present evidence gives what is given now.
LEMMA BoundIsOfNow == CommitteeInv => Committee!CurrentMandateIsOfNow
<1> SUFFICES ASSUME CommitteeInv PROVE Committee!CurrentMandateIsOfNow
  OBVIOUS
<1>1. PICK q : q = Committee!Evidence_Rows
  OBVIOUS
<1>2. PICK other : other = Committee!Hub(q, scans, day)
  OBVIOUS
<1>3. PICK t : t = Committee!LatestStamp(snapshots)
  OBVIOUS
<1>4. ASSUME NEW m \in mandates, m.evidence = Committee!Evidence(q, other, t)
      PROVE  m.result = Committee!Compose(q, other.fits, other.budget)
  <2>1. PICK r, hub, s : /\ m.evidence = Committee!Evidence(r, hub, s)
                         /\ m.result = Committee!Compose(r, hub.fits, hub.budget)
    BY DEF CommitteeInv, Composed
  <2>3. Committee!Evidence(r, hub, s) = Committee!Evidence(q, other, t)
    BY <1>4, <2>1
  <2>2. r = q /\ hub.fits = other.fits /\ hub.budget = other.budget
    BY <2>3, EvidenceTells
  <2> QED
    BY <2>1, <2>2
<1> QED
  BY <1>1, <1>2, <1>3, <1>4
     DEF Committee!CurrentMandateIsOfNow, Committee!GivesOf, Committee!Latest

\* latest_mandate, of whatever mandates there are
LEMMA LatestIsFrozen ==
  ASSUME CommitteeInv
  PROVE  Frozen(Committee!LatestStamp(mandates)) /\ Committee!LatestStamp(mandates) \in 0 .. clock
<1>1. PICK S : S = {m.stamp : m \in mandates}
  OBVIOUS
<1>2. clock \in Nat /\ S \in SUBSET (1 .. clock)
  BY <1>1 DEF CommitteeInv
<1>3. PICK T : T = {0} \cup S
  OBVIOUS
<1>4. \E x \in T : \A y \in T : x >= y
  <2>1. CASE S = {}
    BY <1>3, <2>1
  <2>2. CASE S # {}
    <3>1. PICK x \in S : \A y \in S : y <= x
      BY <1>2, <2>2, Greatest
    <3>2. x \in 1 .. clock /\ \A y \in S : y \in 1 .. clock
      BY <1>2
    <3> QED
      BY <1>2, <1>3, <3>1, <3>2
  <2> QED
    BY <2>1, <2>2
<1>5. Committee!LatestStamp(mandates) = Committee!Max(T)
  BY <1>1, <1>3 DEF Committee!LatestStamp
<1>6. Committee!Max(T) \in T
  BY <1>4 DEF Committee!Max
<1>7. PICK x : x = Committee!LatestStamp(mandates)
  OBVIOUS
<1>8. x = 0 \/ x \in S
  BY <1>3, <1>5, <1>6, <1>7
<1>9. Frozen(x)
  BY <1>1, <1>8 DEF Frozen
<1>10. x \in S => x \in 1 .. clock
  BY <1>2
<1>11. clock \in Nat
  BY <1>2
<1>12. x \in 0 .. clock
  BY <1>8, <1>10, <1>11
<1> QED
  BY <1>7, <1>9, <1>12

\* A request goes on.
LEMMA Going ==
  ASSUME CommitteeInv, NEW d \in Desks, NEW new, desk' = [desk EXCEPT ![d] = new],
         Asking(new), new.at # "insert", Frozen(new.prior), UNCHANGED <<clock, mandates>>
  PROVE  CommitteeInv'
<1>1. desk = [e \in Desks |-> desk[e]]
  BY DEF CommitteeInv
<1>2. desk' = [e \in Desks |-> desk'[e]] /\ desk'[d] = new
      /\ \A e \in Desks : e # d => desk'[e] = desk[e]
  BY <1>1
<1>3. \A e \in Desks : Asking(desk[e])' /\ Frozen(desk[e].prior)'
  BY <1>2 DEF CommitteeInv, Frozen, Asking
<1>4. \A e \in Desks : Dated(e)'
  BY <1>2 DEF CommitteeInv, Dated
<1>5. Committee!DriftIsFromAnOlderMandate'
  BY DEF CommitteeInv, Committee!DriftIsFromAnOlderMandate
<1>6. /\ \A m \in mandates' : (m.stamp \in 1 .. clock)' /\ Composed(m)'
      /\ \A m, n \in mandates' : m.stamp = n.stamp => m = n
  BY DEF CommitteeInv, Composed
<1>7. clock' \in Nat
  BY DEF CommitteeInv
<1> QED
  BY <1>2, <1>3, <1>4, <1>5, <1>6, <1>7 DEF CommitteeInv

\* _evidence_rows, load_current_inputs and the latest rows
LEMMA AskingOn ==
  ASSUME CommitteeInv, NEW d \in Desks,
         \/ \E kind \in {"hub", "committee"} : Committee!Read_Rows(d, kind)
         \/ Committee!Load_Current_Inputs(d) \/ Committee!Latest_Snapshot(d)
         \/ Committee!Latest_Mandate(d)
  PROVE  CommitteeInv'
<1>1. Asking(desk[d]) /\ Frozen(desk[d].prior)
  BY DEF CommitteeInv
<1>2. ASSUME NEW kind \in {"hub", "committee"}, Committee!Read_Rows(d, kind) PROVE CommitteeInv'
  <2>1. PICK r : r = Committee!Evidence_Rows
    OBVIOUS
  <2>2. PICK new : new = [Committee!Idle EXCEPT !.at = "inputs", !.kind = kind, !.rows = r]
    OBVIOUS
  <2>3. Asking(new) /\ new.at = "inputs" /\ new.prior = 0
    BY <2>2 DEF Asking, Committee!Idle
  <2>4. desk' = [desk EXCEPT ![d] = new] /\ UNCHANGED <<clock, mandates>>
    BY <1>2, <2>1, <2>2 DEF Committee!Read_Rows, Committee!Goes
  <2> QED
    BY <2>3, <2>4, Going DEF Frozen
<1>3. ASSUME Committee!Load_Current_Inputs(d) PROVE CommitteeInv'
  <2>1. PICK h : h = Committee!Hub(desk[d].rows, scans, day)
    OBVIOUS
  <2>2. PICK new : new = [desk[d] EXCEPT !.at = "snapshot", !.hub = h]
    OBVIOUS
  <2>3. Asking(new) /\ new.at = "snapshot" /\ new.prior = desk[d].prior
    BY <1>1, <2>2 DEF Asking
  <2>4. desk' = [desk EXCEPT ![d] = new] /\ UNCHANGED <<clock, mandates>>
    BY <1>3, <2>1, <2>2 DEF Committee!Load_Current_Inputs, Committee!Goes
  <2> QED
    BY <1>1, <2>3, <2>4, Going
<1>4. ASSUME Committee!Latest_Snapshot(d) PROVE CommitteeInv'
  <2>1. PICK s : s = Committee!LatestStamp(snapshots)
    OBVIOUS
  <2>2. PICK at : at = IF desk[d].kind = "hub" THEN "compose" ELSE "mandate"
    OBVIOUS
  <2>3. PICK new : new = [desk[d] EXCEPT !.at = at, !.snapshot = s]
    OBVIOUS
  <2>4. Asking(new) /\ new.at = at /\ at # "insert" /\ new.prior = desk[d].prior
    BY <1>1, <2>2, <2>3 DEF Asking
  <2>5. desk' = [desk EXCEPT ![d] = new] /\ UNCHANGED <<clock, mandates>>
    BY <1>4, <2>1, <2>2, <2>3 DEF Committee!Latest_Snapshot, Committee!Goes
  <2> QED
    BY <1>1, <2>4, <2>5, Going
<1>5. ASSUME Committee!Latest_Mandate(d) PROVE CommitteeInv'
  <2>1. PICK s : s = Committee!LatestStamp(mandates)
    OBVIOUS
  <2>2. PICK new : new = [desk[d] EXCEPT !.at = "compose", !.prior = s]
    OBVIOUS
  <2>3. Asking(new) /\ new.at = "compose" /\ new.prior = s
    BY <1>1, <2>2 DEF Asking
  <2>4. desk' = [desk EXCEPT ![d] = new] /\ UNCHANGED <<clock, mandates>>
    BY <1>5, <2>1, <2>2 DEF Committee!Latest_Mandate, Committee!Goes
  <2>5. Frozen(new.prior)
    BY <2>1, <2>3, LatestIsFrozen
  <2> QED
    BY <2>3, <2>4, <2>5, Going
<1> QED
  BY <1>2, <1>3, <1>4, <1>5

\* Everybody's stamp is left alone but the one's whose time is taken.
LEMMA Timing ==
  ASSUME CommitteeInv, NEW d \in Desks, Committee!Take_Time(d)
  PROVE  CommitteeInv'
<1>1. desk = [e \in Desks |-> desk[e]] /\ clock \in Nat /\ Asking(desk[d])
      /\ Frozen(desk[d].prior)
  BY DEF CommitteeInv
<1>2. PICK new : new = [desk[d] EXCEPT !.at = "insert", !.stamp = clock + 1]
  OBVIOUS
<1>3. Asking(new) /\ new.at = "insert" /\ new.prior = desk[d].prior /\ new.stamp = clock + 1
  BY <1>1, <1>2 DEF Asking
<1>4. desk' = [desk EXCEPT ![d] = new] /\ clock' = clock + 1 /\ mandates' = mandates
  BY <1>1, <1>2 DEF Committee!Take_Time
<1>5. desk' = [e \in Desks |-> desk'[e]] /\ desk'[d] = new
      /\ \A e \in Desks : e # d => desk'[e] = desk[e]
  BY <1>1, <1>4
<1>6. \A e \in Desks : Asking(desk[e])' /\ Frozen(desk[e].prior)'
  BY <1>3, <1>4, <1>5 DEF CommitteeInv, Frozen, Asking
<1>7. \A m \in mandates : m.stamp \in 1 .. clock
  BY DEF CommitteeInv
<1>8. new.prior \in 0 .. clock
  BY <1>1, <1>3, <1>7 DEF Frozen
<1>9. \A e \in Desks : e # d /\ desk[e].at = "insert" => desk[e].stamp \in 1 .. clock
  BY DEF CommitteeInv, Dated
<1>10. Dated(d)'
  BY <1>1, <1>3, <1>4, <1>5, <1>7, <1>8, <1>9 DEF Dated
<1>11. ASSUME NEW e \in Desks, e # d PROVE Dated(e)'
  <2>1. Dated(e)
    BY DEF CommitteeInv
  <2> QED
    BY <1>1, <1>3, <1>4, <1>5, <1>9, <1>11, <2>1 DEF Dated
<1>12. Committee!DriftIsFromAnOlderMandate'
  BY <1>4 DEF CommitteeInv, Committee!DriftIsFromAnOlderMandate
<1>13. /\ \A m \in mandates' : (m.stamp \in 1 .. clock)' /\ Composed(m)'
       /\ \A m, n \in mandates' : m.stamp = n.stamp => m = n
  BY <1>1, <1>4, <1>7 DEF CommitteeInv, Composed
<1> QED
  BY <1>1, <1>4, <1>5, <1>6, <1>10, <1>11, <1>12, <1>13 DEF CommitteeInv

\* An idle request
LEMMA IdleDesk ==
  Asking(Committee!Idle) /\ Committee!Idle.at = "idle" /\ Committee!Idle.prior = 0
  BY DEF Asking, Committee!Idle

\* freeze_hub
LEMMA Snapping ==
  ASSUME CommitteeInv, NEW d \in Desks, Committee!Create_Snapshot(d)
  PROVE  CommitteeInv'
<1>1. PICK new : new = Committee!Idle
  OBVIOUS
<1>2. Asking(new) /\ new.at # "insert" /\ Frozen(new.prior)
  BY <1>1, IdleDesk DEF Frozen
<1>3. desk' = [desk EXCEPT ![d] = new] /\ UNCHANGED <<clock, mandates>>
  BY <1>1 DEF Committee!Create_Snapshot
<1> QED
  BY <1>2, <1>3, Going

\* freeze_committee: the row is of its evidence, and measured against a
\* mandate that was there before.
LEMMA Mandated ==
  ASSUME CommitteeInv, NEW d \in Desks, Committee!Create_Mandate(d)
  PROVE  CommitteeInv'
<1>1. PICK r : r = desk[d]
  OBVIOUS
<1>2. desk = [e \in Desks |-> desk[e]] /\ clock \in Nat /\ r.at = "insert" /\ Frozen(r.prior)
      /\ r.stamp \in 1 .. clock /\ r.prior < r.stamp /\ \A m \in mandates : m.stamp # r.stamp
  BY <1>1 DEF CommitteeInv, Dated, Committee!Create_Mandate
<1>3. PICK result : result = Committee!Compose(r.rows, r.hub.fits, r.hub.budget)
  OBVIOUS
<1>4. PICK evidence : evidence = Committee!Evidence(r.rows, r.hub, r.snapshot)
  OBVIOUS
<1>5. PICK previous : previous = {p \in mandates : p.stamp = r.prior}
  OBVIOUS
<1>6. PICK drift : drift = Committee!Drift(result, previous)
  OBVIOUS
<1>7. PICK new : new = [stamp |-> r.stamp, evidence |-> evidence, result |-> result,
                        prior |-> r.prior, drift |-> drift]
  OBVIOUS
<1>8. mandates' = Committee!Inserted(mandates, new)
  BY <1>1, <1>3, <1>4, <1>5, <1>6, <1>7 DEF Committee!Create_Mandate, Committee!MandateOf
<1>9. mandates \subseteq mandates' /\ mandates' \subseteq mandates \cup {new}
  BY <1>8 DEF Committee!Inserted
<1>10. PICK idle : idle = Committee!Idle
  OBVIOUS
<1>11. Asking(idle) /\ idle.at # "insert" /\ idle.prior = 0
  BY <1>10, IdleDesk
<1>12. desk' = [desk EXCEPT ![d] = idle] /\ clock' = clock
  BY <1>10 DEF Committee!Create_Mandate
<1>13. desk' = [e \in Desks |-> desk'[e]] /\ desk'[d] = idle
       /\ \A e \in Desks : e # d => desk'[e] = desk[e]
  BY <1>2, <1>12
<1>14. \A e \in Desks : Asking(desk[e])' /\ Frozen(desk[e].prior)'
  BY <1>9, <1>11, <1>13 DEF CommitteeInv, Frozen, Asking
<1>15. Dated(d)'
  BY <1>11, <1>13 DEF Dated
<1>16. ASSUME NEW e \in Desks, e # d PROVE Dated(e)'
  <2>1. Dated(e) /\ (desk[e].at = "insert" => r.stamp # desk[e].stamp)
    BY <1>1, <1>2, <1>16 DEF CommitteeInv, Dated
  <2> QED
    BY <1>7, <1>9, <1>11, <1>12, <1>13, <1>16, <2>1 DEF Dated
<1>17. \A m \in mandates' : m.stamp \in 1 .. clock
  BY <1>2, <1>7, <1>9 DEF CommitteeInv
<1>18. \A m, n \in mandates' : m.stamp = n.stamp => m = n
  BY <1>2, <1>7, <1>9 DEF CommitteeInv
<1>19. Composed(new)
  BY <1>3, <1>4, <1>7 DEF Composed
<1>20. \A m \in mandates' : Composed(m)'
  BY <1>9, <1>19 DEF CommitteeInv, Composed
<1>21. ASSUME NEW m \in mandates' PROVE
         IF m.prior = 0 THEN m.drift = "initial_mandate"
         ELSE \E p \in mandates' : /\ p.stamp = m.prior /\ p.stamp < m.stamp
                                  /\ m.drift = Committee!Drift(m.result, {p})
  <2>1. CASE m \in mandates
    BY <1>9, <2>1 DEF CommitteeInv, Committee!DriftIsFromAnOlderMandate
  <2>2. CASE m = new /\ r.prior = 0
    <3>1. previous = {}
      BY <1>5, <2>2 DEF CommitteeInv
    <3>2. drift = "initial_mandate"
      BY <1>6, <3>1 DEF Committee!Drift
    <3> QED
      BY <1>7, <2>2, <3>2
  <2>3. CASE m = new /\ r.prior # 0
    <3>1. PICK p \in mandates : p.stamp = r.prior
      BY <1>2, <2>3 DEF Frozen
    <3>2. previous = {p}
      BY <1>5, <3>1 DEF CommitteeInv
    <3>3. drift = Committee!Drift(result, {p})
      BY <1>6, <3>2
    <3> QED
      BY <1>2, <1>7, <1>9, <2>3, <3>1, <3>3
  <2> QED
    BY <1>9, <2>1, <2>2, <2>3
<1>22. Committee!DriftIsFromAnOlderMandate'
  BY <1>21 DEF Committee!DriftIsFromAnOlderMandate
<1> QED
  BY <1>2, <1>12, <1>13, <1>14, <1>15, <1>16, <1>17, <1>18, <1>20, <1>22 DEF CommitteeInv

\* The markets and the strategies go their way.
LEMMA Elsewhere ==
  ASSUME CommitteeInv, UNCHANGED <<clock, mandates, desk>>
  PROVE  CommitteeInv'
<1>1. \A d \in Desks : Asking(desk[d])' /\ Frozen(desk[d].prior)' /\ Dated(d)'
  BY DEF CommitteeInv, Asking, Frozen, Dated
<1>2. Committee!DriftIsFromAnOlderMandate'
  BY DEF CommitteeInv, Committee!DriftIsFromAnOlderMandate
<1> QED
  BY <1>1, <1>2 DEF CommitteeInv, Composed

\* Every step of the committee, and none
LEMMA CommitteeStep == CommitteeInv /\ [Committee!Next]_(Committee!vars) => CommitteeInv'
<1> SUFFICES ASSUME CommitteeInv, [Committee!Next]_(Committee!vars) PROVE CommitteeInv'
  OBVIOUS
<1>1. CASE UNCHANGED Committee!vars
  BY <1>1, Elsewhere DEF Committee!vars
<1>2. CASE Committee!NewDay \/ \E s \in Strategies : Committee!World(s)
  BY <1>2, Elsewhere
     DEF Committee!NewDay, Committee!World, Committee!Scan, Committee!Mature,
         Committee!Persist_Scorecard, Committee!Plan
<1>3. CASE \E d \in Desks : Committee!Request(d)
  BY <1>3, AskingOn, Timing, Snapping, Mandated DEF Committee!Request
<1> QED
  BY <1>1, <1>2, <1>3 DEF Committee!Next

-----------------------------------------------------------------------------
(* The types of the capital plans.                                         *)

\* The month of a plan is one there has been.
CapitalTypes ==
  /\ Capital!TypeOK
  /\ plan = [p \in PlanNames |-> plan[p]]
  /\ \A q \in Requests : request[q].op = "freeze" => request[q].evidence[1] \in Capital!Months

\* There is nothing yet.
LEMMA CapitalTypesStart == Capital!Init => CapitalTypes
<1> SUFFICES ASSUME Capital!Init PROVE CapitalTypes
  OBVIOUS
<1>1. /\ month = 1 /\ world = 0 /\ ledger = [t \in Bought |-> 0] /\ spent = {}
      /\ plan = [p \in PlanNames |-> Capital!NoPlan] /\ events = [p \in PlanNames |-> <<>>]
      /\ binding = [t \in Bought |-> 0] /\ request = [q \in Requests |-> Capital!Idle]
  BY DEF Capital!Init, Bought, PlanNames
<1>2. 1 \in 1 .. MaxMonths /\ MaxWorlds \in Nat /\ MaxMonths \in Nat /\ MaxPlans \in Nat
  BY BoundsAssumption
<1>3. \A q \in Requests : request[q].op = "none"
  BY <1>1 DEF Capital!Idle
<1>4. \A p \in PlanNames : /\ plan[p].status = "none" /\ plan[p].month = 0
                           /\ Len(events[p]) = 0
  BY <1>1 DEF Capital!NoPlan
<1>5. Capital!TypeOK
  BY <1>1, <1>2, <1>3, <1>4 DEF Capital!TypeOK, Capital!Months, Capital!HeadNo, Bought, PlanNames
<1> QED
  BY <1>1, <1>3, <1>5 DEF CapitalTypes

\* The statuses of a chain are those of its events.
LEMMA ChainsTyped ==
  ASSUME NEW chains \in [PlanNames -> Seq(Event)]
  PROVE  \A p \in PlanNames : \A n \in 1 .. Len(chains[p]) :
           chains[p][n].status \in {"partial", "reconciled", "deviated", "reviewed"}
<1>1. ASSUME NEW p \in PlanNames, NEW n \in 1 .. Len(chains[p])
      PROVE  chains[p][n].status \in {"partial", "reconciled", "deviated", "reviewed"}
  <2>1. chains[p] \in Seq(Event)
    OBVIOUS
  <2>2. chains[p][n] \in Event
    BY <2>1
  <2> QED
    BY <2>2 DEF Event
<1> QED
  BY <1>1

\* A request begins, or is answered, and nothing else changes.
LEMMA AskedTyped ==
  ASSUME CapitalInv, CapitalTypes, CapitalInv', NEW q \in Requests, NEW r,
         request' = [request EXCEPT ![q] = r],
         r.op \in {"none", "freeze", "confirm", "review"},
         r.op = "freeze" => r.evidence[1] \in Capital!Months,
         UNCHANGED <<month, world, ledger, spent, plan>>
  PROVE  CapitalTypes'
<1>1. request' = [u \in Requests |-> IF u = q THEN r ELSE request[u]]
  BY DEF CapitalInv
<1>2. \A u \in Requests : /\ request'[u].op \in {"none", "freeze", "confirm", "review"}
                          /\ request'[u].op = "freeze" => request'[u].evidence[1] \in Capital!Months
  BY <1>1 DEF CapitalTypes, Capital!TypeOK
<1>3. /\ month' \in Capital!Months /\ world' \in 0 .. MaxWorlds
      /\ ledger' \in [Bought -> 0 .. MaxMonths] /\ spent' \subseteq Bought
      /\ \A p \in PlanNames : /\ plan'[p].status \in {"none", "ready", "watch", "blocked"}
                              /\ plan'[p].month \in 0 .. MaxMonths
  BY DEF CapitalTypes, Capital!TypeOK, Bought, PlanNames
<1>4. binding' \in [Bought -> 0 .. MaxPlans]
  BY DEF CapitalInv
<1>5. \A p \in PlanNames : \A n \in 1 .. Capital!HeadNo(p)' :
        events'[p][n].status \in {"partial", "reconciled", "deviated", "reviewed"}
  <2>1. events' \in [PlanNames -> Seq(Event)]
    BY DEF CapitalInv, PlanNames, Capital!PlanIds
  <2> QED
    BY <2>1, ChainsTyped DEF Capital!HeadNo
<1>6. Capital!TypeOK'
  BY <1>2, <1>3, <1>4, <1>5 DEF Capital!TypeOK, Bought, PlanNames
<1> QED
  BY <1>2, <1>6 DEF CapitalTypes, PlanNames, Capital!PlanIds

\* The ledger, the month and the world change by themselves.
LEMMA WorldTyped ==
  ASSUME CapitalTypes, UNCHANGED <<plan, events, binding, request>>,
         month' \in Capital!Months, world' \in 0 .. MaxWorlds,
         ledger' \in [Bought -> 0 .. MaxMonths], spent' \subseteq Bought
  PROVE  CapitalTypes'
<1>1. \A p \in PlanNames :
        /\ plan'[p].status \in {"none", "ready", "watch", "blocked"} /\ plan'[p].month \in 0 .. MaxMonths
        /\ \A n \in 1 .. Capital!HeadNo(p)' :
             events'[p][n].status \in {"partial", "reconciled", "deviated", "reviewed"}
  BY DEF CapitalTypes, Capital!TypeOK, PlanNames, Capital!HeadNo
<1>2. /\ binding' \in [Bought -> 0 .. MaxPlans]
      /\ \A q \in Requests : request'[q].op \in {"none", "freeze", "confirm", "review"}
  BY DEF CapitalTypes, Capital!TypeOK, Bought
<1>3. Capital!TypeOK'
  BY <1>1, <1>2 DEF Capital!TypeOK, PlanNames, Bought
<1> QED
  BY <1>3 DEF CapitalTypes, PlanNames, Capital!PlanIds, Capital!Months

\* A plan is added, or not.
LEMMA FreezeTyped ==
  ASSUME CapitalInv, CapitalTypes, CapitalInv', NEW q \in Requests, Capital!Freeze(q)
  PROVE  CapitalTypes'
<1>1. /\ request[q].op = "freeze" /\ request' = [request EXCEPT ![q] = Capital!Idle]
      /\ UNCHANGED <<month, world, ledger, spent, events, binding>>
  BY DEF Capital!Freeze, Capital!Answered
<1>2. CASE UNCHANGED plan
  <2>1. Capital!Idle.op = "none"
    BY DEF Capital!Idle
  <2> QED
    BY <1>1, <1>2, <2>1, AskedTyped
<1>3. ASSUME NEW p \in PlanNames, NEW status \in {"ready", "watch", "blocked"},
             plan' = [plan EXCEPT ![p] = [status |-> status, month |-> request[q].evidence[1],
                                          evidence |-> request[q].evidence]]
      PROVE  CapitalTypes'
  <2>1. PICK new : new = [status |-> status, month |-> request[q].evidence[1],
                          evidence |-> request[q].evidence]
    OBVIOUS
  <2>2. request[q].evidence[1] \in 0 .. MaxMonths
    BY <1>1 DEF CapitalTypes, Capital!Months
  <2>3. new.status = status /\ new.month \in 0 .. MaxMonths
    BY <2>1, <2>2
  <2>4. plan' = [u \in PlanNames |-> IF u = p THEN new ELSE plan[u]]
    BY <1>3, <2>1 DEF CapitalTypes
  <2>5. \A u \in PlanNames : /\ plan'[u].status \in {"none", "ready", "watch", "blocked"}
                             /\ plan'[u].month \in 0 .. MaxMonths
    BY <2>3, <2>4 DEF CapitalTypes, Capital!TypeOK, PlanNames
  <2>6. request' = [u \in Requests |-> IF u = q THEN Capital!Idle ELSE request[u]]
    BY <1>1 DEF CapitalInv
  <2>7. \A u \in Requests : /\ request'[u].op \in {"none", "freeze", "confirm", "review"}
                            /\ request'[u].op = "freeze" => request'[u].evidence[1] \in Capital!Months
    BY <2>6 DEF CapitalTypes, Capital!TypeOK, Capital!Idle
  <2>8. \A u \in PlanNames : \A n \in 1 .. Capital!HeadNo(u)' :
          events'[u][n].status \in {"partial", "reconciled", "deviated", "reviewed"}
    BY <1>1 DEF CapitalTypes, Capital!TypeOK, PlanNames, Capital!HeadNo
  <2>9. Capital!TypeOK'
    BY <1>1, <2>5, <2>7, <2>8 DEF CapitalTypes, Capital!TypeOK, PlanNames
  <2>10. plan' = [u \in PlanNames |-> plan'[u]]
    BY <2>4
  <2> QED
    BY <2>7, <2>9, <2>10 DEF CapitalTypes, PlanNames, Capital!PlanIds, Capital!Months
<1> QED
  BY <1>2, <1>3 DEF Capital!Freeze, PlanNames

\* Every step keeps them.
LEMMA CapitalTyped ==
  ASSUME CapitalInv, CapitalTypes, CapitalInv', [Capital!Next]_(Capital!vars)
  PROVE  CapitalTypes'
<1> USE BoundsAssumption
<1>1. CASE UNCHANGED Capital!vars
  BY <1>1 DEF Capital!vars, CapitalTypes, Capital!TypeOK, Capital!HeadNo, PlanNames,
              Capital!PlanIds, Capital!Months
<1>2. CASE Capital!NextMonth \/ Capital!Change
  <2>1. /\ month' \in Capital!Months /\ world' \in 0 .. MaxWorlds
        /\ UNCHANGED <<ledger, spent, plan, events, binding, request>>
    BY <1>2 DEF Capital!NextMonth, Capital!Change, CapitalTypes, Capital!TypeOK, Capital!Months
  <2> QED
    BY <2>1, WorldTyped DEF CapitalTypes, Capital!TypeOK, Bought
<1>3. ASSUME NEW t \in Bought, Capital!Enter(t) \/ Capital!Delete(t) PROVE CapitalTypes'
  <2>1. month \in 0 .. MaxMonths /\ month \in Capital!Months /\ world \in 0 .. MaxWorlds
        /\ ledger \in [Bought -> 0 .. MaxMonths] /\ spent \subseteq Bought
    BY DEF CapitalTypes, Capital!TypeOK, Capital!Months, Bought
  <2>2. UNCHANGED <<month, world, plan, events, binding, request>>
    BY <1>3 DEF Capital!Enter, Capital!Delete
  <2>3. ledger' \in [Bought -> 0 .. MaxMonths] /\ spent' \subseteq Bought
    BY <1>3, <2>1 DEF Capital!Enter, Capital!Delete
  <2> QED
    BY <2>1, <2>2, <2>3, WorldTyped
<1>4. ASSUME NEW q \in Requests, Capital!ReadFreeze(q) PROVE CapitalTypes'
  <2>1. PICK r : r = [Capital!Idle EXCEPT !.op = "freeze",
                        !.evidence = <<month, world, Capital!Summary(month)>>,
                        !.blocked = Capital!Blocked(month)]
    OBVIOUS
  <2>2. request' = [request EXCEPT ![q] = r] /\ UNCHANGED <<month, world, ledger, spent, plan>>
    BY <1>4, <2>1, Zenon DEF Capital!ReadFreeze, Capital!Begin
  <2>3. r.op = "freeze" /\ r.evidence = <<month, world, Capital!Summary(month)>>
    BY <2>1 DEF Capital!Idle
  <2>4. r.evidence[1] \in Capital!Months
    BY <2>3 DEF CapitalTypes, Capital!TypeOK
  <2> QED
    BY <2>2, <2>3, <2>4, AskedTyped
<1>5. ASSUME NEW q \in Requests, Capital!Freeze(q) PROVE CapitalTypes'
  BY <1>5, FreezeTyped
<1>6. ASSUME NEW q \in Requests, Capital!Record(q) \/ Capital!Refuse(q) PROVE CapitalTypes'
  <2>1. request' = [request EXCEPT ![q] = Capital!Idle] /\ UNCHANGED <<month, world, ledger, spent, plan>>
    BY <1>6 DEF Capital!Record, Capital!Refuse, Capital!Answered
  <2>2. Capital!Idle.op = "none"
    BY DEF Capital!Idle
  <2> QED
    BY <2>1, <2>2, AskedTyped
<1>7. ASSUME NEW q \in Requests, NEW p \in PlanNames, Capital!ReadReview(q, p) PROVE CapitalTypes'
  <2>1. PICK r : r = [Capital!Idle EXCEPT !.op = "review", !.plan = p,
                        !.txs = Capital!Confirmed(p), !.head = Capital!HeadNo(p)]
    OBVIOUS
  <2>2. request' = [request EXCEPT ![q] = r] /\ UNCHANGED <<month, world, ledger, spent, plan>>
    BY <1>7, <2>1, Zenon DEF Capital!ReadReview, Capital!Begin
  <2>3. r.op = "review"
    BY <2>1 DEF Capital!Idle
  <2> QED
    BY <2>2, <2>3, AskedTyped
<1>8. ASSUME NEW q \in Requests, NEW p \in PlanNames, NEW txs \in SUBSET Bought,
             Capital!ReadConfirm(q, p, txs)
      PROVE  CapitalTypes'
  <2>1. PICK r : r = [Capital!Idle EXCEPT !.op = "confirm", !.plan = p, !.txs = txs,
                        !.head = Capital!HeadNo(p)]
    OBVIOUS
  <2>2. request' = [request EXCEPT ![q] = r] /\ UNCHANGED <<month, world, ledger, spent, plan>>
    BY <1>8, <2>1, Zenon DEF Capital!ReadConfirm, Capital!Begin
  <2>3. r.op = "confirm"
    BY <2>1 DEF Capital!Idle
  <2> QED
    BY <2>2, <2>3, AskedTyped
<1> QED
  BY <1>1, <1>2, <1>3, <1>4, <1>5, <1>6, <1>7, <1>8 DEF Capital!Next, Bought, PlanNames

\* Sums of the module are sums.
LEMMA CapitalSum == ASSUME NEW f, NEW S PROVE Capital!Sum(f, S) = Sum(f, S)
  BY Zenon DEF Capital!Sum, Sum

\* More purchases cost more.
LEMMA MorePaid ==
  ASSUME NEW T, T \subseteq Bought, NEW S, S \subseteq T
  PROVE  {Capital!Paid(S), Capital!Paid(T)} \subseteq Nat /\ Capital!Paid(S) <= Capital!Paid(T)
<1>1. \A t \in T : Amount[t] \in Nat
  BY DEF Amount, Bought
<1>2. IsFiniteSet(T)
  <2>1. IsFiniteSet(Bought)
    <3>1. IsFiniteSet({First}) /\ IsFiniteSet({First} \cup {Second})
      BY FS_Singleton, FS_AddElement
    <3>2. Bought = {First} \cup {Second}
      BY DEF Bought
    <3> QED
      BY <3>1, <3>2
  <2> QED
    BY <2>1, FS_Subset
<1>3. Capital!Paid(S) = Sum(Amount, S) /\ Capital!Paid(T) = Sum(Amount, T)
  BY CapitalSum DEF Capital!Paid
<1>4. /\ Sum(Amount, T) \in Nat
      /\ \A V : V \subseteq T => Sum(Amount, V) \in Nat /\ Sum(Amount, V) <= Sum(Amount, T)
  BY <1>1, <1>2, SumOfNaturals
<1> QED
  BY <1>3, <1>4

\* Purchases that were confirmed are purchases.
LEMMA ConfirmedTyped ==
  ASSUME NEW chain \in Seq(Event), chain # <<>> PROVE chain[Len(chain)].txs \subseteq Bought
<1>1. chain[Len(chain)] \in Event
  OBVIOUS
<1> QED
  BY <1>1 DEF Event

\* A plan that is ready stays one of its month.
LEMMA PlansStay ==
  ASSUME CapitalTypes, [Capital!Next]_(Capital!vars), NEW m
  PROVE  Capital!OfMonth(m) \subseteq Capital!OfMonth(m)'
<1>1. CASE UNCHANGED plan
  BY <1>1 DEF Capital!OfMonth, Capital!Ready, Capital!Frozen
<1>2. ASSUME NEW q \in Requests, Capital!Freeze(q), ~UNCHANGED plan
      PROVE  Capital!OfMonth(m) \subseteq Capital!OfMonth(m)'
  <2>1. PICK p, new : /\ p \in PlanNames /\ Capital!Frozen = 1 .. (p - 1)
                      /\ plan' = [plan EXCEPT ![p] = new]
    BY <1>2 DEF Capital!Freeze, PlanNames
  <2>2. p \in Int /\ p \notin Capital!Frozen
    BY <2>1 DEF PlanNames, Capital!PlanIds
  <2>3. \A r \in Capital!Frozen : plan'[r] = plan[r]
    BY <2>1, <2>2 DEF CapitalTypes, Capital!Frozen, PlanNames
  <2> QED
    BY <2>3 DEF Capital!OfMonth, Capital!Ready, Capital!Frozen
<1>3. UNCHANGED plan \/ \E q \in Requests : Capital!Freeze(q)
  BY DEF Capital!Next, Capital!vars, Capital!NextMonth, Capital!Change, Capital!Enter,
         Capital!Delete, Capital!ReadFreeze, Capital!Record, Capital!Refuse, Capital!ReadReview,
         Capital!ReadConfirm, Capital!Begin
<1> QED
  BY <1>1, <1>2, <1>3

\* What was confirmed of a month's budget stays taken.
LEMMA Taken ==
  ASSUME CapitalInv, CapitalTypes, CapitalInv', [Capital!Next]_(Capital!vars)
  PROVE  Capital!StaysTaken
<1> SUFFICES ASSUME NEW m \in Capital!Months PROVE Capital!Settled(m)' >= Capital!Settled(m)
  BY DEF Capital!StaysTaken
<1>1. PICK S, f : /\ S = Capital!OfMonth(m)
                  /\ f = [p \in S |-> Capital!Paid(Capital!Confirmed(p))]
  OBVIOUS
<1>2. PICK T, g : /\ T = Capital!OfMonth(m)'
                  /\ g = [p \in T |-> Capital!Paid(Capital!Confirmed(p)')]
  OBVIOUS
<1>3. Capital!Settled(m) = Sum(f, S)
  BY <1>1, CapitalSum DEF Capital!Settled
<1>4. Capital!Settled(m)' = Sum(g, T)
  BY <1>2, CapitalSum DEF Capital!Settled
<1>5. S \subseteq T /\ T \subseteq PlanNames
  BY <1>1, <1>2, PlansStay DEF Capital!OfMonth, Capital!Ready, Capital!Frozen, PlanNames
<1>6. IsFiniteSet(T)
  <2>1. IsFiniteSet(PlanNames)
    BY PortfolioAssumption, FS_Interval DEF PlanNames, Capital!PlanIds
  <2> QED
    BY <1>5, <2>1, FS_Subset
<1>7. \A p \in PlanNames : /\ Capital!Confirmed(p) \subseteq Capital!Confirmed(p)'
                          /\ Capital!Confirmed(p)' \subseteq Bought
  <2> TAKE p \in PlanNames
  <2>1. events'[p] \in Seq(Event)
    BY DEF CapitalInv, PlanNames, Capital!PlanIds
  <2>2. events'[p] # <<>> => events'[p][Len(events'[p])].txs \subseteq Bought
    BY <2>1, ConfirmedTyped
  <2>3. Capital!Confirmed(p)' \subseteq Bought
    BY <2>2 DEF Capital!Confirmed, Capital!HeadNo
  <2> QED
    BY <2>3, ConfirmedGrows
<1>8. \A p \in T : g[p] \in Nat
  BY <1>2, <1>5, <1>7, MorePaid
<1>9. \A p \in S : f[p] \in Nat /\ f[p] <= g[p]
  BY <1>1, <1>2, <1>5, <1>7, MorePaid
<1>10. IsFiniteSet(S) /\ Sum(f, S) <= Sum(g, S)
  <2>1. IsFiniteSet(S)
    BY <1>5, <1>6, FS_Subset
  <2>2. \A p \in S : f[p] \in Int /\ g[p] \in Int /\ f[p] <= g[p]
    BY <1>5, <1>8, <1>9
  <2> QED
    BY <2>1, <2>2, SumOfLess
<1>11. Sum(g, S) \in Nat /\ Sum(g, S) <= Sum(g, T) /\ Sum(g, T) \in Nat
  BY <1>5, <1>6, <1>8, SumOfNaturals
<1>12. Sum(f, S) \in Nat
  BY <1>9, <1>10, SumOfNaturals
<1> QED
  BY <1>3, <1>4, <1>10, <1>11, <1>12

-----------------------------------------------------------------------------
(* The types of the frozen routes.                                         *)

\* What a request has read so far
ReadSoFar(a) ==
  /\ a.at \in {"idle", "policy", "holdings", "compose"}
  /\ a.at \in {"policy", "holdings", "compose"} => a.run \in 0 .. Len(runs)
  /\ a.at \in {"holdings", "compose"} => a.policy \in 0 .. MaxVersions
  /\ a.at = "compose" => a.holdings \in Holdings

PlanStages == {"idle", "policy", "programs", "latest", "compose", "done"}

\* No run is later than today, so that no age is negative.
RoutesTypes ==
  /\ holdings \in Holdings /\ policy \in 0 .. MaxVersions /\ today \in 0 .. MaxDay
  /\ runs \in Seq(0 .. today) /\ Len(runs) <= RouteRuns
  /\ shown \subseteq Routes!Evidence
  /\ \A u \in Users : ReadSoFar(ask[u])
  /\ \A p \in Planners : reader[p].at \in PlanStages

LEMMA RoutesTypesOK == RoutesInv /\ RoutesTypes => Routes!TypeOK
<1> SUFFICES ASSUME RoutesInv, RoutesTypes PROVE Routes!TypeOK
  OBVIOUS
<1>1. \A i \in DOMAIN rows : rows[i] \in Routes!Evidence
  BY DEF RoutesInv, RoutesTypes
<1>2. runs \in Routes!BoundedSeq(0 .. MaxDay, RouteRuns)
  <2>1. today \in 0 .. MaxDay /\ MaxDay \in Nat /\ RouteRuns \in Nat /\ runs \in Seq(0 .. today)
    BY BoundsAssumption DEF RoutesTypes
  <2>2. Len(runs) \in 0 .. RouteRuns
    BY <2>1 DEF RoutesTypes
  <2>3. runs \in [1 .. Len(runs) -> 0 .. MaxDay]
    BY <2>1
  <2> QED
    BY <2>2, <2>3 DEF Routes!BoundedSeq, Routes!SeqOf
<1> QED
  BY <1>1, <1>2 DEF RoutesTypes, Routes!TypeOK, ReadSoFar, PlanStages

\* Nobody has read anything yet.
LEMMA RoutesTypesStart == Routes!Init => RoutesTypes
<1> SUFFICES ASSUME Routes!Init PROVE RoutesTypes
  OBVIOUS
<1>1. MaxVersions \in Nat /\ MaxDay \in Nat /\ RouteRuns \in Nat
  BY BoundsAssumption
<1>2. \A u \in Users : ReadSoFar(ask[u])
  BY DEF Routes!Init, Routes!Idle, ReadSoFar
<1>3. \A p \in Planners : reader[p].at \in PlanStages
  BY DEF Routes!Init, Routes!Idle, PlanStages
<1> QED
  BY <1>1, <1>2, <1>3 DEF Routes!Init, RoutesTypes

\* What was composed is evidence.
LEMMA ComposedTyped ==
  ASSUME RoutesTypes, NEW a, ReadSoFar(a), a.at = "compose"
  PROVE  Routes!Composed(a) \in Routes!Evidence
<1>1. /\ a.run \in 0 .. Len(runs) /\ a.policy \in 0 .. MaxVersions /\ a.holdings \in Holdings
      /\ Len(runs) \in Nat /\ Len(runs) <= RouteRuns /\ RouteRuns \in Nat /\ MaxDay \in Nat
      /\ today \in 0 .. MaxDay /\ runs \in Seq(0 .. today)
  BY BoundsAssumption DEF RoutesTypes, ReadSoFar
<1>2. PICK age : age = IF a.run = 0 THEN 0 ELSE today - runs[a.run]
  OBVIOUS
<1>3. age \in 0 .. MaxDay
  <2>1. CASE a.run = 0
    BY <1>1, <1>2, <2>1
  <2>2. CASE a.run # 0
    <3>1. PICK r, t : r = runs[a.run] /\ t = today
      OBVIOUS
    <3>2. r \in Nat /\ r <= t
      <4>1. a.run \in 1 .. Len(runs)
        BY <1>1, <2>2
      <4>2. runs[a.run] \in 0 .. today
        BY <1>1, <4>1
      <4> QED
        BY <1>1, <3>1, <4>2
    <3>3. age = t - r
      BY <1>2, <2>2, <3>1
    <3>4. t \in Nat /\ t <= MaxDay /\ MaxDay \in Nat
      BY <1>1, <3>1
    <3> QED
      BY <3>2, <3>3, <3>4
  <2> QED
    BY <2>1, <2>2
<1>4. a.run \in 0 .. RouteRuns
  BY <1>1
<1>5. Routes!Composed(a) = [policy |-> a.policy, holdings |-> a.holdings, run |-> a.run, age |-> age]
  BY <1>2 DEF Routes!Composed
<1> QED
  BY <1>1, <1>3, <1>4, <1>5 DEF Routes!Evidence

\* One request goes on.
LEMMA AskTyped ==
  ASSUME RoutesInv, RoutesTypes, NEW u \in Users, NEW new, ReadSoFar(new),
         ask' = [ask EXCEPT ![u] = new], UNCHANGED <<holdings, policy, runs, today, reader>>,
         shown' \subseteq Routes!Evidence
  PROVE  RoutesTypes'
<1>1. ask' = [v \in Users |-> IF v = u THEN new ELSE ask[v]]
  BY DEF RoutesInv
<1>2. \A v \in Users : ReadSoFar(ask'[v])
  BY <1>1 DEF RoutesTypes
<1>3. \A v \in Users : ReadSoFar(ask[v])'
  BY <1>2 DEF ReadSoFar
<1> QED
  BY <1>3 DEF RoutesTypes, Routes!Evidence

\* A plan goes on.
LEMMA PlanTyped ==
  ASSUME RoutesInv, RoutesTypes, NEW p \in Planners, NEW new, new.at \in PlanStages,
         reader' = [reader EXCEPT ![p] = new],
         UNCHANGED <<holdings, policy, runs, today, shown, ask>>
  PROVE  RoutesTypes'
<1>1. reader' = [v \in Planners |-> IF v = p THEN new ELSE reader[v]]
  BY DEF RoutesInv
<1>2. \A v \in Planners : reader'[v].at \in PlanStages
  BY <1>1 DEF RoutesTypes
<1> QED
  BY <1>2 DEF RoutesTypes, ReadSoFar, Routes!Evidence, PlanStages

\* The world goes on.
LEMMA RoutesWorldTyped ==
  ASSUME RoutesTypes, UNCHANGED <<shown, ask, reader>>,
         holdings' \in Holdings, policy' \in 0 .. MaxVersions, today' \in 0 .. MaxDay,
         runs' \in Seq(0 .. today'), Len(runs) <= Len(runs'), Len(runs') <= RouteRuns
  PROVE  RoutesTypes'
<1>1. Len(runs) \in Nat /\ Len(runs') \in Nat
  BY DEF RoutesTypes
<1>2. \A u \in Users : ReadSoFar(ask[u])'
  BY <1>1 DEF RoutesTypes, ReadSoFar
<1> QED
  BY <1>2 DEF RoutesTypes, Routes!Evidence, PlanStages

\* Every step keeps them.
LEMMA RoutesTyped ==
  ASSUME RoutesInv, RoutesTypes, [Routes!Next]_(Routes!vars) PROVE RoutesTypes'
<1>0. /\ holdings \in Holdings /\ policy \in 0 .. MaxVersions /\ today \in 0 .. MaxDay
      /\ runs \in Seq(0 .. today) /\ Len(runs) <= RouteRuns
      /\ shown \subseteq Routes!Evidence
      /\ MaxVersions \in Nat /\ MaxDay \in Nat /\ RouteRuns \in Nat /\ Len(runs) \in Nat
  BY BoundsAssumption DEF RoutesTypes
<1>1. CASE UNCHANGED Routes!vars
  BY <1>0, <1>1, RoutesWorldTyped DEF Routes!vars
<1>2. CASE (\E h \in Holdings : Routes!Hold(h)) \/ Routes!Activate
  <2>1. holdings' \in Holdings /\ policy' \in 0 .. MaxVersions
        /\ UNCHANGED <<runs, today, shown, ask, reader>>
    BY <1>0, <1>2 DEF Routes!Hold, Routes!Activate
  <2> QED
    BY <1>0, <2>1, RoutesWorldTyped
<1>3. CASE Routes!CompleteRun
  <2>1. runs' = Append(runs, today) /\ Len(runs) < RouteRuns
        /\ UNCHANGED <<holdings, policy, today, shown, ask, reader>>
    BY <1>3 DEF Routes!CompleteRun
  <2>2. today \in 0 .. today
    BY <1>0
  <2>3. runs' \in Seq(0 .. today) /\ Len(runs') = Len(runs) + 1
    BY <1>0, <2>1, <2>2
  <2> QED
    BY <1>0, <2>1, <2>3, RoutesWorldTyped
<1>4. CASE Routes!NextDay
  <2>1. today' = today + 1 /\ today < MaxDay
        /\ UNCHANGED <<holdings, policy, runs, shown, ask, reader>>
    BY <1>4 DEF Routes!NextDay
  <2>2. 0 .. today \subseteq 0 .. today'
    BY <1>0, <2>1
  <2>3. runs \in Seq(0 .. today')
    BY <1>0, <2>2, ShownGrow
  <2> QED
    BY <1>0, <2>1, <2>3, RoutesWorldTyped
<1>5. ASSUME NEW u \in Users, Routes!Ask(u) PROVE RoutesTypes'
  <2>1. PICK expected \in shown \cup {Routes!Nothing} :
          ask' = [ask EXCEPT ![u] = [at |-> "policy", expected |-> expected, run |-> Len(runs)]]
    BY <1>5 DEF Routes!Ask
  <2>2. PICK new : new = [at |-> "policy", expected |-> expected, run |-> Len(runs)]
    OBVIOUS
  <2>3. ReadSoFar(new) /\ ask' = [ask EXCEPT ![u] = new]
    BY <1>0, <2>1, <2>2 DEF ReadSoFar
  <2> QED
    BY <1>0, <1>5, <2>3, AskTyped DEF Routes!Ask
<1>6. ASSUME NEW u \in Users, Routes!ReadPolicy(u) PROVE RoutesTypes'
  <2>1. PICK new : new = [at |-> "holdings", expected |-> ask[u].expected, run |-> ask[u].run,
                          policy |-> policy]
    OBVIOUS
  <2>2. ask' = [ask EXCEPT ![u] = new] /\ ask[u].at = "policy"
    BY <1>6, <2>1 DEF Routes!ReadPolicy, RoutesInv
  <2>3. ReadSoFar(new)
    BY <1>0, <2>1, <2>2 DEF RoutesTypes, ReadSoFar
  <2> QED
    BY <1>0, <1>6, <2>2, <2>3, AskTyped DEF Routes!ReadPolicy
<1>7. ASSUME NEW u \in Users, Routes!ReadHoldings(u) PROVE RoutesTypes'
  <2>1. PICK new : new = [at |-> "compose", expected |-> ask[u].expected, run |-> ask[u].run,
                          policy |-> ask[u].policy, holdings |-> holdings]
    OBVIOUS
  <2>2. ask' = [ask EXCEPT ![u] = new] /\ ask[u].at = "holdings"
    BY <1>7, <2>1 DEF Routes!ReadHoldings, RoutesInv
  <2>3. ReadSoFar(new)
    BY <1>0, <2>1, <2>2 DEF RoutesTypes, ReadSoFar
  <2> QED
    BY <1>0, <1>7, <2>2, <2>3, AskTyped DEF Routes!ReadHoldings
<1>8. ASSUME NEW u \in Users, Routes!Show(u) \/ Routes!Freeze(u) \/ Routes!Refuse(u)
      PROVE  RoutesTypes'
  <2>1. ask[u].at = "compose" /\ ask' = [ask EXCEPT ![u] = Routes!Idle]
        /\ UNCHANGED <<holdings, policy, runs, today, reader>>
        /\ shown' \subseteq shown \cup {Routes!Composed(ask[u])}
    BY <1>8 DEF Routes!Show, Routes!Freeze, Routes!Refuse
  <2>2. Routes!Composed(ask[u]) \in Routes!Evidence
    BY <2>1, ComposedTyped DEF RoutesTypes
  <2>3. ReadSoFar(Routes!Idle)
    BY DEF ReadSoFar, Routes!Idle
  <2> QED
    BY <1>0, <2>1, <2>2, <2>3, AskTyped
<1>9. ASSUME NEW p \in Planners, Routes!PlanHoldings(p) \/ Routes!PlanAgain(p) PROVE RoutesTypes'
  BY <1>9, PlanTyped DEF Routes!PlanHoldings, Routes!PlanAgain, Routes!Idle, PlanStages
<1>10. ASSUME NEW p \in Planners, Routes!PlanPolicy(p) \/ Routes!PlanPrograms(p) PROVE RoutesTypes'
  <2>1. CASE Routes!PlanPolicy(p)
    <3>1. PICK new : new = [at |-> "programs", holdings |-> reader[p].holdings, policy |-> policy]
      OBVIOUS
    <3>2. reader' = [reader EXCEPT ![p] = new]
          /\ UNCHANGED <<holdings, policy, runs, today, shown, ask>>
      BY <2>1, <3>1 DEF Routes!PlanPolicy, RoutesInv
    <3>3. new.at \in PlanStages
      BY <3>1 DEF PlanStages
    <3> QED
      BY <3>2, <3>3, PlanTyped
  <2>2. CASE Routes!PlanPrograms(p)
    <3>1. PICK new : new = [at |-> "latest", holdings |-> reader[p].holdings,
                            policy |-> reader[p].policy, given |-> Routes!Given(reader[p]),
                            run |-> Len(runs)]
      OBVIOUS
    <3>2. reader' = [reader EXCEPT ![p] = new]
          /\ UNCHANGED <<holdings, policy, runs, today, shown, ask>>
      BY <2>2, <3>1 DEF Routes!PlanPrograms, RoutesInv
    <3>3. new.at \in PlanStages
      BY <3>1 DEF PlanStages
    <3> QED
      BY <3>2, <3>3, PlanTyped
  <2> QED
    BY <1>10, <2>1, <2>2
<1>11. ASSUME NEW p \in Planners, Routes!PlanLatest(p) PROVE RoutesTypes'
  <2>1. PICK new : new = [at |-> "compose", holdings |-> reader[p].holdings,
                          policy |-> reader[p].policy, given |-> reader[p].given,
                          run |-> reader[p].run, latest |-> Routes!Latest]
    OBVIOUS
  <2>2. reader' = [reader EXCEPT ![p] = new]
        /\ UNCHANGED <<holdings, policy, runs, today, shown, ask>>
    BY <1>11, <2>1 DEF Routes!PlanLatest, RoutesInv
  <2>3. new.at \in PlanStages
    BY <2>1 DEF PlanStages
  <2> QED
    BY <2>2, <2>3, PlanTyped
<1>12. ASSUME NEW p \in Planners, Routes!PlanRoute(p) PROVE RoutesTypes'
  <2>1. PICK new : new = [at |-> "done", holdings |-> reader[p].holdings,
                          policy |-> reader[p].policy, route |-> Routes!RouteOf(reader[p])]
    OBVIOUS
  <2>2. reader' = [reader EXCEPT ![p] = new]
        /\ UNCHANGED <<holdings, policy, runs, today, shown, ask>>
    BY <1>12, <2>1 DEF Routes!PlanRoute, RoutesInv
  <2>3. new.at \in PlanStages
    BY <2>1 DEF PlanStages
  <2> QED
    BY <2>2, <2>3, PlanTyped
<1> QED
  BY <1>1, <1>2, <1>3, <1>4, <1>5, <1>6, <1>7, <1>8, <1>9, <1>10, <1>11, <1>12 DEF Routes!Next

-----------------------------------------------------------------------------
(* The types of the committee.                                             *)

Reported == [of : Strategies, day : Int, report : {Calm, Alarm}]

\* The cohorts that are there already, and the one that may mature
Matured ==
  {Good[i] : i \in 1 .. 6} \cup {Faded[i] : i \in 1 .. 8} \cup {Spoilt[i] : i \in 1 .. 9}
  \cup {Cohort(Falling, -1)}

Stages == {"idle", "inputs", "snapshot", "mandate", "compose", "insert"}

CommitteeTypes ==
  /\ day \in 0 .. LastDay /\ scans \in Seq(Reported)
  /\ \A i \in 1 .. Len(scans) : scans[i].day <= day
  /\ cohorts \in [Strategies -> Seq(Matured)]
  /\ card = [s \in Strategies |-> card[s]]
  /\ \A s \in Strategies : card[s] \in 0 .. Len(cohorts[s])
  /\ ready \subseteq Strategies
  /\ \A r \in snapshots : r.stamp \in 1 .. clock
  /\ \A d \in Desks : desk[d].at \in Stages /\ desk[d].stamp \in 0 .. clock

LEMMA CommitteeTypesOK == CommitteeInv /\ CommitteeTypes => Committee!TypeOK
<1> SUFFICES ASSUME CommitteeInv, CommitteeTypes PROVE Committee!TypeOK
  OBVIOUS
<1>1. \A i \in DOMAIN scans : scans[i].of \in Strategies /\ scans[i].day <= day
  <2> TAKE i \in DOMAIN scans
  <2>1. i \in 1 .. Len(scans) /\ scans[i] \in Reported
    BY DEF CommitteeTypes
  <2> QED
    BY <2>1 DEF CommitteeTypes, Reported
<1>2. \A r \in snapshots \cup mandates : r.stamp \in 1 .. clock
  BY DEF CommitteeInv, CommitteeTypes
<1> QED
  BY <1>1, <1>2 DEF CommitteeInv, CommitteeTypes, Committee!TypeOK, Stages

\* Where the histories come from
LEMMA HistoriesTyped == {Good, Faded, Spoilt} \subseteq Seq(Matured)
<1>1. Good \in Seq(Matured)
  <2>1. PICK a, b, c, d, e, f : Good = <<a, b, c, d, e, f>>
    BY DEF Good
  <2>2. Good = [i \in 1 .. 6 |-> Good[i]]
    BY <2>1
  <2>3. \A i \in 1 .. 6 : Good[i] \in Matured
    BY DEF Matured
  <2> QED
    BY <2>2, <2>3
<1>2. Faded \in Seq(Matured)
  <2>1. PICK a, b, c, d, e, f, g, h : Faded = <<a, b, c, d, e, f, g, h>>
    BY DEF Faded
  <2>2. Faded = [i \in 1 .. 8 |-> Faded[i]]
    BY <2>1
  <2>3. \A i \in 1 .. 8 : Faded[i] \in Matured
    BY DEF Matured
  <2> QED
    BY <2>2, <2>3
<1>3. Spoilt \in Seq(Matured)
  <2>1. PICK a, b, c, d, e, f, g, h, i : Spoilt = <<a, b, c, d, e, f, g, h, i>>
    BY DEF Spoilt
  <2>2. Spoilt = [n \in 1 .. 9 |-> Spoilt[n]]
    BY <2>1
  <2>3. \A n \in 1 .. 9 : Spoilt[n] \in Matured
    BY DEF Matured
  <2> QED
    BY <2>2, <2>3
<1> QED
  BY <1>1, <1>2, <1>3

\* Nobody has asked yet.
LEMMA CommitteeTypesStart == Committee!Init => CommitteeTypes
<1> SUFFICES ASSUME Committee!Init PROVE CommitteeTypes
  OBVIOUS
<1>1. /\ day = 0 /\ clock = 0 /\ scans \in {<<[of |-> 1, day |-> -14, report |-> Calm]>>}
      /\ cohorts \in [Strategies -> {Good, Faded, Spoilt}]
      /\ card = [s \in Strategies |-> Len(cohorts[s])]
      /\ ready = Strategies /\ snapshots = {} /\ desk = [d \in Desks |-> Committee!Idle]
  BY DEF Committee!Init
<1>2. PICK first : first = [of |-> 1, day |-> -14, report |-> Calm]
  OBVIOUS
<1>3. first \in Reported /\ first.day <= 0
  BY <1>2 DEF Reported, Strategies
<1>4. scans = <<first>>
  BY <1>1, <1>2
<1>5. scans \in Seq(Reported) /\ \A i \in 1 .. Len(scans) : scans[i].day <= day
  BY <1>1, <1>3, <1>4
<1>6. cohorts \in [Strategies -> Seq(Matured)]
  BY <1>1, HistoriesTyped
<1>7. \A s \in Strategies : card[s] \in 0 .. Len(cohorts[s])
  <2> TAKE s \in Strategies
  <2>1. Len(cohorts[s]) \in Nat /\ card[s] = Len(cohorts[s])
    BY <1>1, <1>6
  <2> QED
    BY <2>1
<1>8. \A d \in Desks : desk[d].at \in Stages /\ desk[d].stamp \in 0 .. clock
  BY <1>1 DEF Committee!Idle, Stages
<1>9. day \in 0 .. LastDay /\ card = [s \in Strategies |-> card[s]] /\ ready \subseteq Strategies
      /\ \A r \in snapshots : r.stamp \in 1 .. clock
  BY <1>1, BoundsAssumption
<1> QED
  BY <1>5, <1>6, <1>7, <1>8, <1>9 DEF CommitteeTypes

\* The markets and the strategies go their way.
LEMMA MarketsTyped ==
  ASSUME CommitteeTypes, UNCHANGED <<clock, snapshots, desk>>,
         day' \in 0 .. LastDay, scans' \in Seq(Reported),
         \A i \in 1 .. Len(scans') : scans'[i].day <= day',
         cohorts' \in [Strategies -> Seq(Matured)],
         card' = [s \in Strategies |-> card'[s]],
         \A s \in Strategies : card'[s] \in 0 .. Len(cohorts'[s]),
         ready' \subseteq Strategies
  PROVE  CommitteeTypes'
  BY DEF CommitteeTypes, Stages, Reported, Matured

\* A request goes on.
LEMMA DeskTyped ==
  ASSUME CommitteeInv, CommitteeTypes, NEW d \in Desks, NEW new,
         desk' = [desk EXCEPT ![d] = new], new.at \in Stages, new.stamp \in 0 .. clock',
         clock' \in Nat, clock <= clock', UNCHANGED <<day, scans, cohorts, card, ready>>,
         \A r \in snapshots' : r.stamp \in 1 .. clock'
  PROVE  CommitteeTypes'
<1>1. desk' = [e \in Desks |-> IF e = d THEN new ELSE desk[e]] /\ clock \in Nat
  BY DEF CommitteeInv
<1>2. \A e \in Desks : desk'[e].at \in Stages /\ desk'[e].stamp \in 0 .. clock'
  BY <1>1 DEF CommitteeTypes
<1> QED
  BY <1>2 DEF CommitteeTypes, Stages, Reported, Matured

\* A request reads.
LEMMA ReadingTyped ==
  ASSUME CommitteeInv, CommitteeTypes, NEW d \in Desks,
         \/ \E kind \in {"hub", "committee"} : Committee!Read_Rows(d, kind)
         \/ Committee!Load_Current_Inputs(d) \/ Committee!Latest_Snapshot(d)
         \/ Committee!Latest_Mandate(d)
  PROVE  CommitteeTypes'
<1>1. Asking(desk[d]) /\ clock \in Nat /\ desk[d].stamp \in 0 .. clock
      /\ \A r \in snapshots : r.stamp \in 1 .. clock
  BY DEF CommitteeInv, CommitteeTypes
<1>2. UNCHANGED <<day, scans, cohorts, card, ready, clock, snapshots, mandates>>
  BY DEF Committee!Read_Rows, Committee!Load_Current_Inputs, Committee!Latest_Snapshot,
         Committee!Latest_Mandate, Committee!Goes, Committee!world
<1>3. ASSUME NEW new, desk' = [desk EXCEPT ![d] = new], new.at \in Stages,
             new.stamp \in 0 .. clock
      PROVE  CommitteeTypes'
  <2>1. clock' \in Nat /\ clock <= clock' /\ new.stamp \in 0 .. clock'
        /\ \A r \in snapshots' : r.stamp \in 1 .. clock'
    BY <1>1, <1>2, <1>3
  <2>2. UNCHANGED <<day, scans, cohorts, card, ready>>
    BY <1>2
  <2> QED
    BY <1>3, <2>1, <2>2, DeskTyped
<1>4. ASSUME NEW kind \in {"hub", "committee"}, Committee!Read_Rows(d, kind) PROVE CommitteeTypes'
  <2>1. PICK r : r = Committee!Evidence_Rows
    OBVIOUS
  <2>2. PICK new : new = [Committee!Idle EXCEPT !.at = "inputs", !.kind = kind, !.rows = r]
    OBVIOUS
  <2>3. new.at \in Stages /\ new.stamp \in 0 .. clock
    BY <1>1, <2>2 DEF Stages, Committee!Idle
  <2>4. desk' = [desk EXCEPT ![d] = new]
    BY <1>4, <2>1, <2>2 DEF Committee!Read_Rows, Committee!Goes
  <2> QED
    BY <1>3, <2>3, <2>4
<1>5. ASSUME Committee!Load_Current_Inputs(d) PROVE CommitteeTypes'
  <2>1. PICK h : h = Committee!Hub(desk[d].rows, scans, day)
    OBVIOUS
  <2>2. PICK new : new = [desk[d] EXCEPT !.at = "snapshot", !.hub = h]
    OBVIOUS
  <2>3. new.at = "snapshot" /\ new.stamp = desk[d].stamp
    BY <1>1, <2>2 DEF Asking
  <2>4. desk' = [desk EXCEPT ![d] = new]
    BY <1>5, <2>1, <2>2 DEF Committee!Load_Current_Inputs, Committee!Goes
  <2> QED
    BY <1>1, <1>3, <2>3, <2>4 DEF Stages
<1>6. ASSUME Committee!Latest_Snapshot(d) PROVE CommitteeTypes'
  <2>1. PICK s : s = Committee!LatestStamp(snapshots)
    OBVIOUS
  <2>2. PICK at : at = IF desk[d].kind = "hub" THEN "compose" ELSE "mandate"
    OBVIOUS
  <2>3. PICK new : new = [desk[d] EXCEPT !.at = at, !.snapshot = s]
    OBVIOUS
  <2>4. new.at = at /\ new.stamp = desk[d].stamp
    BY <1>1, <2>3 DEF Asking
  <2>5. desk' = [desk EXCEPT ![d] = new]
    BY <1>6, <2>1, <2>2, <2>3 DEF Committee!Latest_Snapshot, Committee!Goes
  <2>6. at \in Stages
    BY <2>2 DEF Stages
  <2> QED
    BY <1>1, <1>3, <2>4, <2>5, <2>6
<1>7. ASSUME Committee!Latest_Mandate(d) PROVE CommitteeTypes'
  <2>1. PICK s : s = Committee!LatestStamp(mandates)
    OBVIOUS
  <2>2. PICK new : new = [desk[d] EXCEPT !.at = "compose", !.prior = s]
    OBVIOUS
  <2>3. new.at = "compose" /\ new.stamp = desk[d].stamp
    BY <1>1, <2>2 DEF Asking
  <2>4. desk' = [desk EXCEPT ![d] = new]
    BY <1>7, <2>1, <2>2 DEF Committee!Latest_Mandate, Committee!Goes
  <2> QED
    BY <1>1, <1>3, <2>3, <2>4 DEF Stages
<1> QED
  BY <1>4, <1>5, <1>6, <1>7

\* A time is taken, or a row is inserted.
LEMMA InsertTyped ==
  ASSUME CommitteeInv, CommitteeTypes, NEW d \in Desks,
         Committee!Take_Time(d) \/ Committee!Create_Snapshot(d) \/ Committee!Create_Mandate(d)
  PROVE  CommitteeTypes'
<1>1. /\ Asking(desk[d]) /\ clock \in Nat /\ \A r \in snapshots : r.stamp \in 1 .. clock
      /\ desk[d].at = "insert" => desk[d].stamp \in 1 .. clock
  BY DEF CommitteeInv, CommitteeTypes, Dated
<1>2. UNCHANGED <<day, scans, cohorts, card, ready>>
  BY DEF Committee!Take_Time, Committee!Create_Snapshot, Committee!Create_Mandate, Committee!world
<1>3. CASE Committee!Take_Time(d)
  <2>1. PICK new : new = [desk[d] EXCEPT !.at = "insert", !.stamp = clock + 1]
    OBVIOUS
  <2>2. new.at = "insert" /\ new.stamp = clock + 1
    BY <1>1, <2>1 DEF Asking
  <2>3. desk' = [desk EXCEPT ![d] = new] /\ clock' = clock + 1 /\ snapshots' = snapshots
    BY <1>3, <2>1 DEF Committee!Take_Time, CommitteeInv
  <2>4. clock' \in Nat /\ clock <= clock' /\ new.stamp \in 0 .. clock'
        /\ \A r \in snapshots' : r.stamp \in 1 .. clock'
    <3>1. \A r \in snapshots : r.stamp \in 1 .. clock + 1
      BY <1>1
    <3> QED
      BY <1>1, <2>2, <2>3, <3>1
  <2>5. new.at \in Stages
    BY <2>2 DEF Stages
  <2> QED
    BY <1>2, <2>3, <2>4, <2>5, DeskTyped
<1>4. CASE Committee!Create_Snapshot(d) \/ Committee!Create_Mandate(d)
  <2>1. PICK new, row : new = Committee!Idle /\ row = Committee!SnapshotOf(desk[d])
    OBVIOUS
  <2>2. new.at \in Stages /\ new.stamp = 0
    BY <2>1 DEF Stages, Committee!Idle
  <2>3. desk' = [desk EXCEPT ![d] = new] /\ clock' = clock /\ desk[d].at = "insert"
    BY <1>4, <2>1 DEF Committee!Create_Snapshot, Committee!Create_Mandate
  <2>4. snapshots' \subseteq snapshots \cup {row}
    BY <1>4, <2>1 DEF Committee!Create_Snapshot, Committee!Create_Mandate, Committee!Inserted
  <2>5. row.stamp = desk[d].stamp
    BY <2>1 DEF Committee!SnapshotOf
  <2>6. \A r \in snapshots' : r.stamp \in 1 .. clock'
    BY <1>1, <2>3, <2>4, <2>5
  <2>7. clock' \in Nat /\ clock <= clock' /\ new.stamp \in 0 .. clock'
    BY <1>1, <2>2, <2>3
  <2> QED
    BY <1>2, <2>2, <2>3, <2>6, <2>7, DeskTyped
<1> QED
  BY <1>3, <1>4

\* Every step keeps them.
LEMMA CommitteeTyped ==
  ASSUME CommitteeInv, CommitteeTypes, [Committee!Next]_(Committee!vars) PROVE CommitteeTypes'
<1>0. /\ day \in 0 .. LastDay /\ LastDay \in Nat /\ scans \in Seq(Reported)
      /\ \A i \in 1 .. Len(scans) : scans[i].day <= day
      /\ cohorts \in [Strategies -> Seq(Matured)]
      /\ card = [s \in Strategies |-> card[s]]
      /\ \A s \in Strategies : card[s] \in 0 .. Len(cohorts[s])
      /\ ready \subseteq Strategies
  BY BoundsAssumption DEF CommitteeTypes
<1>a. \A i \in 1 .. Len(scans) : scans[i].day \in Int
  <2> TAKE i \in 1 .. Len(scans)
  <2>1. scans[i] \in Reported
    BY <1>0
  <2> QED
    BY <2>1 DEF Reported
<1>1. CASE UNCHANGED Committee!vars
  <2>1. UNCHANGED <<day, scans, cohorts, card, ready, clock, snapshots, desk>>
    BY <1>1 DEF Committee!vars, Committee!world
  <2> QED
    BY <1>0, <2>1, MarketsTyped
<1>2. CASE Committee!NewDay
  <2>1. day' \in 0 .. LastDay /\ day <= day'
        /\ UNCHANGED <<scans, cohorts, card, ready, clock, snapshots, desk>>
    BY <1>0, <1>2 DEF Committee!NewDay
  <2>2. \A i \in 1 .. Len(scans') : scans'[i].day <= day'
    <3>1. day' \in Int /\ day \in Int
      BY <1>0, <2>1
    <3> QED
      BY <1>0, <1>a, <2>1, <3>1
  <2> QED
    BY <1>0, <2>1, <2>2, MarketsTyped
<1>3. ASSUME NEW s \in Strategies, Committee!Scan(s) PROVE CommitteeTypes'
  <2>1. PICK r \in {Calm, Alarm} : scans' = Append(scans, [of |-> s, day |-> day, report |-> r])
    BY <1>3 DEF Committee!Scan
  <2>2. PICK new : new = [of |-> s, day |-> day, report |-> r]
    OBVIOUS
  <2>3. new \in Reported /\ new.day = day /\ day \in Int
    BY <1>0, <2>2 DEF Reported
  <2>4. scans' = Append(scans, new) /\ UNCHANGED <<day, cohorts, card, ready, clock, snapshots, desk>>
    BY <1>3, <2>1, <2>2 DEF Committee!Scan
  <2>5. scans' \in Seq(Reported) /\ \A i \in 1 .. Len(scans') : scans'[i].day <= day
    BY <1>0, <1>a, <2>3, <2>4
  <2> QED
    BY <1>0, <2>4, <2>5, MarketsTyped
<1>4. ASSUME NEW s \in Strategies, Committee!Mature(s) PROVE CommitteeTypes'
  <2>1. PICK c : c = Cohort(Falling, -1)
    OBVIOUS
  <2>2. cohorts' = [cohorts EXCEPT ![s] = Append(@, c)]
        /\ UNCHANGED <<day, scans, card, ready, clock, snapshots, desk>>
    BY <1>4, <2>1 DEF Committee!Mature
  <2>3. c \in Matured
    BY <2>1 DEF Matured
  <2>4. cohorts' \in [Strategies -> Seq(Matured)]
    BY <1>0, <2>2, <2>3
  <2>5. \A t \in Strategies : card[t] \in 0 .. Len(cohorts'[t])
    <3> TAKE t \in Strategies
    <3>1. Len(cohorts[t]) \in Nat /\ Len(cohorts'[t]) \in Nat /\ Len(cohorts[t]) <= Len(cohorts'[t])
      BY <1>0, <2>2, <2>3
    <3> QED
      BY <1>0, <3>1
  <2> QED
    BY <1>0, <2>2, <2>4, <2>5, MarketsTyped
<1>5. ASSUME NEW s \in Strategies, Committee!Persist_Scorecard(s) PROVE CommitteeTypes'
  <2>1. card' = [card EXCEPT ![s] = Len(cohorts[s])]
        /\ UNCHANGED <<day, scans, cohorts, ready, clock, snapshots, desk>>
    BY <1>5 DEF Committee!Persist_Scorecard
  <2>2. card' = [t \in Strategies |-> IF t = s THEN Len(cohorts[s]) ELSE card[t]]
    BY <1>0, <2>1
  <2>3. \A t \in Strategies : card'[t] \in 0 .. Len(cohorts[t])
    <3> TAKE t \in Strategies
    <3>1. Len(cohorts[s]) \in Nat
      BY <1>0
    <3> QED
      BY <1>0, <2>2, <3>1
  <2>4. card' = [t \in Strategies |-> card'[t]]
    BY <2>2
  <2> QED
    BY <1>0, <2>1, <2>3, <2>4, MarketsTyped
<1>6. ASSUME NEW s \in Strategies, Committee!Plan(s) PROVE CommitteeTypes'
  <2>1. ready' \subseteq Strategies /\ UNCHANGED <<day, scans, cohorts, card, clock, snapshots, desk>>
    BY <1>0, <1>6 DEF Committee!Plan
  <2> QED
    BY <1>0, <2>1, MarketsTyped
<1>7. ASSUME NEW d \in Desks, Committee!Request(d) PROVE CommitteeTypes'
  BY <1>7, ReadingTyped, InsertTyped DEF Committee!Request
<1> QED
  BY <1>1, <1>2, <1>3, <1>4, <1>5, <1>6, <1>7 DEF Committee!Next, Committee!World

-----------------------------------------------------------------------------
(* What a committee's mandate gives.                                       *)

HIDE PortfolioAssumption

\* Division with what is left over.
LEMMA Division ==
  ASSUME NEW x \in Nat, NEW y \in Nat \ {0}
  PROVE  x \div y \in Nat /\ y * (x \div y) <= x /\ x < y * ((x \div y) + 1)
  OBVIOUS

\* A common factor may be left out.
LEMMA Cancelled ==
  ASSUME NEW x \in Int, NEW y \in Int, NEW w \in Nat \ {0}
  PROVE  /\ w * x <= w * y => x <= y
         /\ w * x < w * y => x < y
  OBVIOUS

LEMMA Scaling ==
  ASSUME NEW x \in Nat, NEW y \in Nat, NEW w \in Nat, x <= y
  PROVE  x * w <= y * w /\ w * x <= w * y
  OBVIOUS

\* Sums of the module are sums.
LEMMA CommitteeSums ==
  ASSUME NEW f, NEW S PROVE Committee!Sum(f, S) = Sum(f, S)
  BY Zenon DEF Committee!Sum, Sum

LEMMA CommitteeTotal == ASSUME NEW f PROVE Committee!Total(f) = Sum(f, DOMAIN f)
<1>1. Committee!Sum(f, DOMAIN f) = Sum(f, DOMAIN f)
  BY CommitteeSums
<1> QED
  BY <1>1, Zenon DEF Committee!Total

\* A total of integers is one, and one of naturals is one.
LEMMA TotalTyped ==
  ASSUME NEW S, IsFiniteSet(S), NEW f, DOMAIN f = S
  PROVE  /\ (\A x \in S : f[x] \in Int) => Committee!Total(f) \in Int
         /\ (\A x \in S : f[x] \in Nat) => Committee!Total(f) \in Nat
<1>1. Committee!Total(f) = Sum(f, S)
  BY CommitteeTotal
<1> QED
  BY <1>1, SumWithout, SumOfNaturals

\* The larger and the smaller of two.
LEMMA LargerSmaller ==
  ASSUME NEW x \in Int, NEW y \in Int
  PROVE  /\ Committee!Max({x, y}) = IF x >= y THEN x ELSE y
         /\ Committee!Min({x, y}) = IF x <= y THEN x ELSE y
<1>1. \E z \in {x, y} : \A w \in {x, y} : z >= w
  OBVIOUS
<1>2. \E z \in {x, y} : \A w \in {x, y} : z =< w
  OBVIOUS
<1>3. Committee!Max({x, y}) \in {x, y} /\ \A w \in {x, y} : Committee!Max({x, y}) >= w
  BY <1>1 DEF Committee!Max
<1>4. Committee!Min({x, y}) \in {x, y} /\ \A w \in {x, y} : Committee!Min({x, y}) =< w
  BY <1>2 DEF Committee!Min
<1> QED
  BY <1>3, <1>4

\* Whole division
LEMMA Divided ==
  ASSUME NEW x \in Int, NEW y \in Nat \ {0}
  PROVE  /\ x \div y \in Int /\ y * (x \div y) <= x
         /\ x \in Nat => x \div y \in Nat
  OBVIOUS

\* The size of an interval
LEMMA IntervalSize ==
  ASSUME NEW a \in Int, NEW b \in Int, NEW S, S = a .. b
  PROVE  IsFiniteSet(S) /\ Cardinality(S) = IF a > b THEN 0 ELSE b - a + 1
  BY FS_Interval

\* There are finitely many strategies, markets and symbols.
LEMMA FewOfEach ==
  /\ IsFiniteSet(Strategies) /\ Strategies \subseteq Nat
  /\ IsFiniteSet(Markets) /\ IsFiniteSet(Symbols)
<1>1. IsFiniteSet(Strategies)
  <2>1. 1 \in Int /\ 3 \in Int
    OBVIOUS
  <2> QED
    BY <2>1, FS_Interval DEF Strategies
<1>2. IsFiniteSet(Markets)
  <2>1. IsFiniteSet({}) /\ Markets = ({} \cup {"home"}) \cup {"abroad"}
    BY FS_EmptySet DEF Markets
  <2>2. IsFiniteSet({} \cup {"home"})
    BY <2>1, FS_AddElement
  <2> QED
    BY <2>1, <2>2, FS_AddElement
<1>3. IsFiniteSet(Symbols)
  <2>1. IsFiniteSet({}) /\ Symbols = (({} \cup {"a"}) \cup {"b"}) \cup {"c"}
    BY FS_EmptySet DEF Symbols
  <2>2. IsFiniteSet({} \cup {"a"})
    BY <2>1, FS_AddElement
  <2>3. IsFiniteSet(({} \cup {"a"}) \cup {"b"})
    BY <2>2, FS_AddElement
  <2> QED
    BY <2>1, <2>3, FS_AddElement
<1> QED
  BY <1>1, <1>2, <1>3 DEF Strategies

\* An average of naturals is one.
LEMMA AverageTyped ==
  ASSUME NEW S, IsFiniteSet(S), NEW f, DOMAIN f = S
  PROVE  /\ (\A x \in S : f[x] \in Int) => Committee!Average(f) \in Int
         /\ (\A x \in S : f[x] \in Nat) => Committee!Average(f) \in Nat
<1>1. CASE S = {}
  BY <1>1 DEF Committee!Average
<1>2. CASE S # {}
  <2>1. Committee!Count(f) = Cardinality(S)
    BY DEF Committee!Count, Committee!Cardinality, Cardinality
  <2>2. Cardinality(S) \in Nat \ {0}
    BY <1>2, FS_CardinalityType, FS_EmptySet
  <2>3. Committee!Average(f) = Committee!Total(f) \div Cardinality(S)
    BY <1>2, <2>1 DEF Committee!Average
  <2> QED
    BY <2>2, <2>3, TotalTyped, Divided
<1> QED
  BY <1>1, <1>2

\* What a cohort has earned is a number.
LEMMA ExcessTyped == \A c \in Matured : c.excess \in Int
<1>1. \A i \in 1 .. 6 : Good[i].excess \in Int
  BY DEF Good, Cohort
<1>2. \A i \in 1 .. 8 : Faded[i].excess \in Int
  BY DEF Faded, Cohort
<1>3. \A i \in 1 .. 9 : Spoilt[i].excess \in Int
  BY DEF Spoilt, Cohort
<1>4. Cohort(Falling, -1).excess \in Int
  BY DEF Cohort
<1> QED
  BY <1>1, <1>2, <1>3, <1>4 DEF Matured

\* Of a strategy, the cohorts that have matured and the gate they pass
Seen(table) ==
  /\ table = [s \in Strategies |-> table[s]]
  /\ \A s \in Strategies : /\ table[s].cohorts \in Seq(Matured)
                           /\ table[s].gate = Committee!Capital_Gate(table[s].cohorts)

\* Risks and tilts that are numbers
Sound(fits, budget) ==
  /\ budget \in Nat
  /\ \A s \in Strategies : fits[s].risk \in Nat /\ fits[s].tilt \in Nat

\* What a request reads of the strategies is so.
LEMMA RowsAreSeen == CommitteeTypes => Seen(Committee!Evidence_Rows)
<1> SUFFICES ASSUME CommitteeTypes PROVE Seen(Committee!Evidence_Rows)
  OBVIOUS
<1>1. PICK table : table = Committee!Evidence_Rows
  OBVIOUS
<1>2. table = [s \in Strategies |-> Committee!Evidence_Row(s)]
  BY <1>1 DEF Committee!Evidence_Rows
<1>3. ASSUME NEW s \in Strategies
      PROVE  /\ table[s].cohorts = cohorts[s]
             /\ table[s].gate = Committee!Capital_Gate(cohorts[s])
  <2>1. \E p, q : Committee!Evidence_Row(s) =
          [cohorts |-> cohorts[s], gate |-> Committee!Capital_Gate(cohorts[s]),
           plan |-> p, current |-> q]
    BY Zenon DEF Committee!Evidence_Row
  <2>2. PICK p, q : Committee!Evidence_Row(s) =
          [cohorts |-> cohorts[s], gate |-> Committee!Capital_Gate(cohorts[s]),
           plan |-> p, current |-> q]
    BY <2>1
  <2>3. table[s] = Committee!Evidence_Row(s)
    BY <1>2
  <2> QED
    BY <2>2, <2>3
<1>4. \A s \in Strategies : cohorts[s] \in Seq(Matured)
  BY DEF CommitteeTypes
<1> QED
  BY <1>1, <1>2, <1>3, <1>4 DEF Seen

\* A strategy that is approved has not just lost three times (_base_state).
LEMMA ApprovedHasWon ==
  ASSUME NEW table, Seen(table), NEW fit, NEW s \in Strategies, MinMature \in Nat, MinMature >= 3,
         Committee!Committee_State(table[s], fit) = "approved"
  PROVE  Committee!HasEarned(table[s], fit)
<1>1. PICK row : row = table[s]
  OBVIOUS
<1>2. Committee!Base_State(row) = "approved" /\ fit.fit # "avoid"
  BY <1>1 DEF Committee!Committee_State
<1>3. /\ ~ Committee!Failing(row) /\ row.gate = "limited_manual_pilot"
      /\ row.plan /\ row.current
  BY <1>2, Zenon DEF Committee!Base_State
<1>4. PICK cs : cs = row.cohorts
  OBVIOUS
<1>5. cs \in Seq(Matured) /\ row.gate = Committee!Capital_Gate(cs)
  BY <1>1, <1>4 DEF Seen
<1>6. PICK n : n = Len(cs)
  OBVIOUS
<1>7. n \in Nat /\ DOMAIN cs = 1 .. n
  BY <1>5, <1>6
<1>8. PICK xs : xs = [i \in 1 .. n |-> cs[i].excess]
  OBVIOUS
<1>9. Committee!Excess(cs) = xs
  BY <1>7, <1>8 DEF Committee!Excess
<1>11. Committee!Count(xs) = n
  <2>1. PICK D : D = DOMAIN xs
    OBVIOUS
  <2>2. D = 1 .. n /\ 1 \in Int /\ n \in Int
    BY <1>7, <1>8, <2>1
  <2>3. Cardinality(D) = n
    BY <1>7, <2>2, IntervalSize
  <2> QED
    BY <2>1, <2>3 DEF Committee!Count, Committee!Cardinality, Cardinality
<1>12. n >= 3
  <2>1. ~(n < MinMature)
    BY <1>3, <1>5, <1>9, <1>11 DEF Committee!Capital_Gate
  <2> QED
    BY <1>7, <2>1
<1>13. PICK late : late = {i \in 1 .. n : Cardinality({j \in 1 .. n : j > i}) < 3}
  OBVIOUS
<1>14. late = n - 2 .. n
  <2>1. ASSUME NEW i \in 1 .. n PROVE Cardinality({j \in 1 .. n : j > i}) = n - i
    <3>1. PICK K, k : K = {j \in 1 .. n : j > i} /\ k = i + 1
      OBVIOUS
    <3>2. K = k .. n /\ k \in Int /\ n \in Int /\ k <= n + 1
      BY <1>7, <3>1
    <3>3. Cardinality(K) = IF k > n THEN 0 ELSE n - k + 1
      BY <3>2, IntervalSize
    <3>4. Cardinality(K) = n - i
      BY <1>7, <3>1, <3>2, <3>3
    <3> QED
      BY <3>1, <3>4
  <2>2. late = {i \in 1 .. n : n - i < 3}
    BY <1>13, <2>1
  <2> QED
    BY <1>7, <1>12, <2>2
<1>15. PICK last : last = [i \in late |-> xs[i]]
  OBVIOUS
<1>16. Committee!Recent(row) = last
  <2>1. DOMAIN xs = 1 .. n
    BY <1>8
  <2>2. Committee!Last(xs, 3) = last
    BY <1>13, <1>15, <2>1
       DEF Committee!Last, Committee!Cardinality, Cardinality
  <2> QED
    BY <1>4, <1>9, <2>2 DEF Committee!Recent, Committee!RECENT_DECAY_COHORTS
<1>17. Committee!Count(last) = 3
  <2>1. PICK D, k : D = DOMAIN last /\ k = n - 2
    OBVIOUS
  <2>2. D = k .. n /\ k \in Int /\ n \in Int /\ k <= n
    BY <1>7, <1>12, <1>14, <1>15, <2>1
  <2>3. Cardinality(D) = n - k + 1
    BY <2>2, IntervalSize
  <2>4. Cardinality(D) = 3
    BY <1>7, <2>1, <2>3
  <2> QED
    BY <2>1, <2>4 DEF Committee!Count, Committee!Cardinality, Cardinality
<1>18. Committee!Wins(last) # 0
  BY <1>3, <1>16, <1>17 DEF Committee!Failing, Committee!RECENT_DECAY_COHORTS
<1>19. {i \in late : last[i] > 0} # {}
  <2>1. Cardinality({}) = 0 /\ DOMAIN last = late
    BY <1>15, FS_EmptySet
  <2> QED
    BY <1>18, <2>1 DEF Committee!Wins, Committee!Cardinality, Cardinality
<1>20. PICK i \in n - 2 .. n : xs[i] > 0
  BY <1>14, <1>15, <1>19
<1>21. cs[i].excess > 0
  <2>1. i \in 1 .. n
    BY <1>7, <1>12
  <2> QED
    BY <1>8, <1>20, <2>1
<1> QED
  BY <1>1, <1>2, <1>3, <1>4, <1>6, <1>20, <1>21, Zenon DEF Committee!HasEarned

LEMMA OneOfThree ==
  ASSUME NEW x \in Int, NEW y \in Int, NEW z \in Int
  PROVE  Committee!Min({x, y, z}) \in {x, y, z}
<1>1. \E v \in {x, y, z} : \A w \in {x, y, z} : v =< w
  OBVIOUS
<1> QED
  BY <1>1 DEF Committee!Min

\* The risk of a market
LEMMA MarketRisk ==
  ASSUME NEW m, NEW sc, NEW date
  PROVE  Committee!Market_State(m, sc, date).risk \in Nat
<1>1. \A status : Committee!Base_Risk(status) \in Nat
  BY DEF Committee!Base_Risk
<1>2. \A sum, weightOf : Committee!Volatility_Multiplier(sum, weightOf) \in Nat
  BY Zenon DEF Committee!Volatility_Multiplier
<1> DEFINE sources == Committee!Sources(m, sc, date)
           weights == [i \in sources |-> Committee!Weight(m, sc[i], date)]
           weightOf == Committee!Total(weights)
           sum == Committee!Total([i \in sources |->
                                     weights[i] * Committee!Regime_Score(sc[i].report[m].status)])
           vol == Committee!Total([i \in sources |-> weights[i] * sc[i].report[m].vol])
           a == Committee!Status_From(sum, weightOf)
           cap == IF Committee!Cardinality(sources) = 1 THEN 85 ELSE 100
<1>3. Committee!Market_State(m, sc, date)
        = IF sources = {} THEN [status |-> "insufficient", score |-> 0, risk |-> 50]
          ELSE [status |-> a, score |-> (100 * sum) \div weightOf,
                risk |-> Committee!Min({Committee!Base_Risk(a),
                                        Committee!Volatility_Multiplier(vol, weightOf), cap})]
  BY DEF Committee!Market_State
<1>4. cap = 85 \/ cap = 100
  OBVIOUS
<1> HIDE DEF a, cap, vol, sum, weightOf, weights, sources
<1>5. PICK x, y : x = Committee!Base_Risk(a) /\ y = Committee!Volatility_Multiplier(vol, weightOf)
  OBVIOUS
<1>6. x \in Nat /\ y \in Nat
  BY <1>1, <1>2, <1>5
<1>7. Committee!Min({x, y, 85}) \in Nat /\ Committee!Min({x, y, 100}) \in Nat
  <2>1. x \in Int /\ y \in Int /\ 85 \in Int /\ 100 \in Int
    BY <1>6
  <2>2. Committee!Min({x, y, 85}) \in {x, y, 85}
    BY <2>1, OneOfThree
  <2>3. Committee!Min({x, y, 100}) \in {x, y, 100}
    BY <2>1, OneOfThree
  <2> QED
    BY <1>6, <2>2, <2>3
<1>8. CASE sources = {}
  <2>1. Committee!Market_State(m, sc, date) = [status |-> "insufficient", score |-> 0, risk |-> 50]
    BY <1>3, <1>8
  <2> QED
    BY <2>1
<1>9. CASE sources # {}
  <2>1. PICK k, r : k = (100 * sum) \div weightOf /\ r = Committee!Min({x, y, cap})
    OBVIOUS
  <2>2. Committee!Market_State(m, sc, date) = [status |-> a, score |-> k, risk |-> r]
    BY <1>3, <1>5, <1>9, <2>1
  <2>3. r \in Nat
    BY <1>4, <1>7, <2>1
  <2> QED
    BY <2>2, <2>3
<1> QED
  BY <1>8, <1>9

\* What a basket holds, symbol by symbol and market by market
LEMMA HoldsTyped ==
  \A s \in Strategies : /\ \A y \in Symbols : Holds[s][y] \in Nat
                        /\ \E y \in Symbols : Holds[s][y] > 0
<1>1. \A s \in 1 .. 3, y \in {"a", "b", "c"} : Holds[s][y] \in Nat
  BY DEF Holds
<1>2. Holds[1]["a"] > 0 /\ Holds[2]["a"] > 0 /\ Holds[3]["c"] > 0
  BY DEF Holds
<1> QED
  BY <1>1, <1>2 DEF Strategies, Symbols

LEMMA ExposureTyped ==
  \A s \in Strategies, m \in Markets : Committee!Exposure[s][m] \in Nat
<1> TAKE s \in Strategies, m \in Markets
<1>1. PICK S : S = {y \in Symbols : MarketOf[y] = m}
  OBVIOUS
<1>2. Committee!Exposure[s][m] = Committee!Sum(Holds[s], S)
  BY <1>1 DEF Committee!Exposure
<1>3. Committee!Exposure[s][m] = Sum(Holds[s], S)
  BY <1>2, CommitteeSums
<1>4. IsFiniteSet(S) /\ \A y \in S : Holds[s][y] \in Nat
  BY <1>1, FewOfEach, HoldsTyped, FS_Subset
<1> QED
  BY <1>3, <1>4, SumOfNaturals

\* The risk of some positions
LEMMA PositionRisk ==
  ASSUME NEW weights, NEW states,
         \A m \in Markets : weights[m] \in Nat /\ states[m].risk \in Nat
  PROVE  Committee!Position_Regime(weights, states).risk \in Nat
<1>1. PICK entire, part : /\ entire = Committee!Sum(weights, Markets)
                          /\ part = [m \in Markets |-> weights[m] * states[m].risk]
  OBVIOUS
<1>2. entire \in Nat
  BY <1>1, CommitteeSums, FewOfEach, SumOfNaturals
<1>3. Committee!Total(part) \in Nat
  <2>1. \A m \in Markets : part[m] \in Nat
    <3> TAKE m \in Markets
    <3>1. PICK u, v : u = weights[m] /\ v = states[m].risk
      OBVIOUS
    <3>2. u \in Nat /\ v \in Nat /\ part[m] = u * v
      BY <1>1, <3>1
    <3> QED
      BY <3>2
  <2>2. DOMAIN part = Markets
    BY <1>1
  <2> QED
    BY <2>1, <2>2, FewOfEach, TotalTyped
<1> DEFINE known == {m \in Markets : states[m].status \in Committee!Regimes}
           covered == Committee!Sum(weights, known)
           sum == Committee!Total([m \in known |-> weights[m] * Committee!Regime_Score(states[m].status)])
           a == IF 2 * covered < entire THEN "insufficient" ELSE Committee!Status_From(sum, covered)
           c == (100 * covered) \div entire
           enough == 5 * covered < 4 * entire
<1>4. PICK risk : risk = Committee!Total(part) \div entire
  OBVIOUS
<1>5. Committee!Position_Regime(weights, states)
        = IF entire = 0 THEN [status |-> "insufficient", coverage |-> 0, risk |-> 50]
          ELSE [status |-> a, coverage |-> c,
                risk |-> IF enough THEN Committee!Min({risk, 75}) ELSE risk]
  BY <1>1, <1>4 DEF Committee!Position_Regime
<1> HIDE DEF enough, c, a, sum, covered, known
<1>6. entire # 0 => risk \in Nat
  BY <1>2, <1>3, <1>4, Divided
<1>7. risk \in Nat => Committee!Min({risk, 75}) \in Nat
  BY LargerSmaller
<1> QED
  BY <1>5, <1>6, <1>7

\* A tilt within bounds
LEMMA TiltTyped == ASSUME NEW fit, NEW n \in Nat PROVE Committee!Allocation_Tilt(fit, n) \in Nat
<1>1. PICK k : k = Committee!Min({n, 8})
  OBVIOUS
<1>2. k \in 0 .. 8
  <2>1. n \in Int /\ 8 \in Int
    OBVIOUS
  <2>2. k = IF n <= 8 THEN n ELSE 8
    BY <1>1, <2>1, LargerSmaller
  <2> QED
    BY <2>2
<1>3. PICK raw : raw = CASE fit = "underweight" -> 75 [] fit = "preferred" -> 110 [] OTHER -> 100
  OBVIOUS
<1>4. raw \in {75, 100, 110}
  BY <1>3
<1>5. Committee!Allocation_Tilt(fit, n) =
        IF fit = "avoid" THEN 0 ELSE 100 + ((raw - 100) * k) \div 8
  BY <1>1, <1>3 DEF Committee!Allocation_Tilt, Committee!FULL_RELIABILITY_COHORTS
<1>6. 100 + ((raw - 100) * k) \div 8 \in Nat
  <2>1. CASE raw = 75
    BY <1>2, <2>1
  <2>2. CASE raw = 100
    BY <1>2, <2>2
  <2>3. CASE raw = 110
    BY <1>2, <2>3
  <2> QED
    BY <1>4, <2>1, <2>2, <2>3
<1> QED
  BY <1>5, <1>6

\* The fit of a strategy: its risk, and its tilt
LEMMA FitTyped ==
  ASSUME NEW s \in Strategies, NEW row, row.cohorts \in Seq(Matured), NEW states,
         \A m \in Markets : states[m].risk \in Nat
  PROVE  /\ Committee!Regime_Fit(s, row, states).risk \in Nat
         /\ Committee!Regime_Fit(s, row, states).tilt \in Nat
<1>1. PICK weights : weights = IF row.plan \/ row.cohorts # <<>> THEN Committee!Exposure[s]
                               ELSE [m \in Markets |-> 0]
  OBVIOUS
<1>2. \A m \in Markets : weights[m] \in Nat
  BY <1>1, ExposureTyped
<1>3. PICK now : now = Committee!Position_Regime(weights, states)
  OBVIOUS
<1>4. now.risk \in Nat
  BY <1>2, <1>3, PositionRisk
<1>5. PICK like : like = Committee!Alike(s, row, now.status)
  OBVIOUS
<1>6. PICK xs : xs = [i \in like |-> row.cohorts[i].excess]
  OBVIOUS
<1>7. PICK fit, n : fit = Committee!Fit_Status(now.status, xs) /\ n = Committee!Count(xs)
  OBVIOUS
<1>8. Committee!Regime_Fit(s, row, states) =
        [fit |-> fit, risk |-> now.risk, status |-> now.status,
         tilt |-> Committee!Allocation_Tilt(fit, n)]
  BY <1>1, <1>3, <1>5, <1>6, <1>7, Zenon DEF Committee!Regime_Fit
<1>9. n \in Nat
  <2>1. PICK k, D : k = Len(row.cohorts) /\ D = DOMAIN row.cohorts
    OBVIOUS
  <2>2. D = 1 .. k /\ 1 \in Int /\ k \in Int
    BY <2>1
  <2>3. IsFiniteSet(D)
    BY <2>2, IntervalSize
  <2>4. like \subseteq D
    BY <1>5, <2>1 DEF Committee!Alike
  <2>5. DOMAIN xs = like /\ IsFiniteSet(like)
    BY <1>6, <2>3, <2>4, FS_Subset
  <2> QED
    BY <1>7, <2>5, FS_CardinalityType DEF Committee!Count, Committee!Cardinality, Cardinality
<1> QED
  BY <1>4, <1>8, <1>9, TiltTyped

\* What the hub says of seen rows is sound.
LEMMA HubIsSound ==
  ASSUME NEW table, Seen(table), NEW sc, NEW date
  PROVE  Sound(Committee!Hub(table, sc, date).fits, Committee!Hub(table, sc, date).budget)
<1>1. PICK states : states = [m \in Markets |-> Committee!Market_State(m, sc, date)]
  OBVIOUS
<1>2. \A m \in Markets : states[m].risk \in Nat
  BY <1>1, MarketRisk
<1>3. PICK fits : fits = [s \in Strategies |-> Committee!Regime_Fit(s, table[s], states)]
  OBVIOUS
<1>4. \A s \in Strategies : fits[s].risk \in Nat /\ fits[s].tilt \in Nat
  <2> TAKE s \in Strategies
  <2>1. PICK row : row = table[s]
    OBVIOUS
  <2>2. row.cohorts \in Seq(Matured)
    BY <2>1 DEF Seen
  <2> QED
    BY <1>2, <1>3, <2>1, <2>2, FitTyped
<1>5. PICK exposed : exposed = {s \in Strategies : table[s].plan \/ table[s].cohorts # <<>>}
  OBVIOUS
<1>6. PICK a, b : /\ a = Committee!Average([s \in exposed |-> fits[s].risk])
                  /\ b = Committee!Average([m \in Markets |-> states[m].risk])
  OBVIOUS
<1>7. a \in Nat /\ b \in Nat
  <2>1. PICK f, g : f = [s \in exposed |-> fits[s].risk] /\ g = [m \in Markets |-> states[m].risk]
    OBVIOUS
  <2>2. IsFiniteSet(exposed) /\ IsFiniteSet(Markets) /\ exposed \subseteq Strategies
    BY <1>5, FewOfEach, FS_Subset
  <2>3. \A s \in exposed : f[s] \in Nat
    BY <1>4, <2>1, <2>2
  <2>4. \A m \in Markets : g[m] \in Nat
    BY <1>2, <2>1
  <2>5. DOMAIN f = exposed /\ DOMAIN g = Markets
    BY <2>1
  <2>6. Committee!Average(f) \in Nat
    BY <2>2, <2>3, <2>5, AverageTyped
  <2>7. Committee!Average(g) \in Nat
    BY <2>2, <2>4, <2>5, AverageTyped
  <2> QED
    BY <1>6, <2>1, <2>6, <2>7
<1>8. \E c, d, e : Committee!Hub(table, sc, date) =
        [states |-> states, fits |-> fits, status |-> c, budget |-> d, sources |-> e]
        /\ d \in {a, b}
  BY <1>1, <1>3, <1>5, <1>6, Zenon DEF Committee!Hub
<1>9. Committee!Hub(table, sc, date).fits = fits
      /\ Committee!Hub(table, sc, date).budget \in {a, b}
  BY <1>8
<1> QED
  BY <1>4, <1>7, <1>9 DEF Sound

\* Shares of a basket come to 100 at most.
LEMMA NormalisedTyped ==
  ASSUME NEW s \in Strategies
  PROVE  /\ \A y \in Symbols : Committee!Normalised[s][y] \in Nat
         /\ DOMAIN Committee!Normalised[s] = Symbols
         /\ Sum(Committee!Normalised[s], Symbols) <= 100
<1>1. PICK kept, h : kept = Sum(Holds[s], Symbols) /\ h = Holds[s]
  OBVIOUS
<1>2. PICK shares : shares = [y \in Symbols |-> (100 * h[y]) \div kept]
  OBVIOUS
<1>3. Committee!Normalised[s] = shares
  <2>1. Committee!Sum(Holds[s], Symbols) = kept
    BY <1>1, CommitteeSums
  <2> QED
    BY <1>1, <1>2, <2>1 DEF Committee!Normalised
<1>4. \A y \in Symbols : h[y] \in Nat
  BY <1>1, HoldsTyped
<1>5. kept \in Nat \ {0}
  <2>1. PICK y \in Symbols : h[y] > 0
    BY <1>1, HoldsTyped
  <2>2. kept \in Nat /\ h[y] <= kept
    BY <1>1, <1>4, FewOfEach, SumOfNaturals
  <2> QED
    BY <1>4, <2>1, <2>2
<1>6. \A y \in Symbols : shares[y] \in Nat /\ kept * shares[y] <= 100 * h[y] + 0
  <2> TAKE y \in Symbols
  <2>1. PICK x : x = 100 * h[y]
    OBVIOUS
  <2>2. x \in Nat /\ x \in Int
    BY <1>4, <2>1
  <2>3. x \div kept \in Nat /\ kept * (x \div kept) <= x
    BY <1>5, <2>2, Divided
  <2> QED
    BY <1>2, <2>1, <2>2, <2>3
<1>7. kept * Sum(shares, Symbols) <= 100 * Sum(h, Symbols) + 0 * Cardinality(Symbols)
  <2>1. kept \in Int /\ 100 \in Int /\ 0 \in Int
    BY <1>5
  <2>2. \A y \in Symbols : shares[y] \in Int /\ h[y] \in Int
    BY <1>4, <1>6
  <2> QED
    BY <1>6, <2>1, <2>2, FewOfEach, SumBound
<1>8. PICK t : t = Sum(shares, Symbols)
  OBVIOUS
<1>9. t \in Nat /\ Cardinality(Symbols) \in Nat
  BY <1>6, <1>8, FewOfEach, SumOfNaturals, FS_CardinalityType
<1>10. kept * t <= kept * 100
  BY <1>1, <1>5, <1>7, <1>8, <1>9
<1>11. t <= 100
  BY <1>5, <1>9, <1>10, Cancelled
<1> QED
  BY <1>2, <1>3, <1>6, <1>8, <1>11

LEMMA OverlapTyped ==
  ASSUME NEW s \in Strategies, NEW t \in Strategies
  PROVE  Committee!Position_Overlap[s][t] \in Int
<1>1. PICK a, b : a = Committee!Normalised[s] /\ b = Committee!Normalised[t]
  OBVIOUS
<1>2. PICK f : f = [y \in Symbols |-> Committee!Min({a[y], b[y]})]
  OBVIOUS
<1>3. \A y \in Symbols : f[y] \in Int
  <2> TAKE y \in Symbols
  <2>1. PICK u, v : u = a[y] /\ v = b[y]
    OBVIOUS
  <2>2. u \in Int /\ v \in Int
    BY <1>1, <2>1, NormalisedTyped
  <2>3. Committee!Min({u, v}) \in Int
    BY <2>2, LargerSmaller
  <2> QED
    BY <1>2, <2>1, <2>3
<1>4. Committee!Position_Overlap[s][t] = Committee!Total(f)
  BY <1>1, <1>2 DEF Committee!Position_Overlap
<1>5. DOMAIN f = Symbols
  BY <1>2
<1> QED
  BY <1>3, <1>4, <1>5, FewOfEach, TotalTyped

LEMMA Powers == \A k \in 0 .. 11 : 2 ^ k \in Nat
<1>1. /\ 2 ^ 0 \in Nat /\ 2 ^ 1 \in Nat /\ 2 ^ 2 \in Nat /\ 2 ^ 3 \in Nat /\ 2 ^ 4 \in Nat /\ 2 ^ 5 \in Nat
      /\ 2 ^ 6 \in Nat /\ 2 ^ 7 \in Nat /\ 2 ^ 8 \in Nat /\ 2 ^ 9 \in Nat /\ 2 ^ 10 \in Nat /\ 2 ^ 11 \in Nat
  OBVIOUS
<1>2. ASSUME NEW k \in {0, 1, 2, 3, 4, 5} PROVE 2 ^ k \in Nat
  BY <1>1, Zenon
<1>3. ASSUME NEW k \in {6, 7, 8, 9, 10, 11} PROVE 2 ^ k \in Nat
  BY <1>1, Zenon
<1>4. \A k \in 0 .. 11 : k \in {0, 1, 2, 3, 4, 5} \/ k \in {6, 7, 8, 9, 10, 11}
  OBVIOUS
<1> QED
  BY <1>2, <1>3, <1>4, Zenon

\* Twelve steps down, each from what the one before has come to
LEMMA StepsDown ==
  ASSUME NEW turn, \A k \in 0 .. 11, h \in Nat : turn[k][h] \in Nat
  PROVE  \E b : /\ b = [k \in 0 .. 12 |-> IF k = 12 THEN 0 ELSE turn[k][b[k + 1]]]
                /\ \A k \in 0 .. 12 : b[k] \in Nat
<1>1. PICK v11 : v11 = turn[11][0]
  OBVIOUS
<1>2. PICK v10 : v10 = turn[10][v11]
  OBVIOUS
<1>3. PICK v9 : v9 = turn[9][v10]
  OBVIOUS
<1>4. PICK v8 : v8 = turn[8][v9]
  OBVIOUS
<1>5. PICK v7 : v7 = turn[7][v8]
  OBVIOUS
<1>6. PICK v6 : v6 = turn[6][v7]
  OBVIOUS
<1>7. PICK v5 : v5 = turn[5][v6]
  OBVIOUS
<1>8. PICK v4 : v4 = turn[4][v5]
  OBVIOUS
<1>9. PICK v3 : v3 = turn[3][v4]
  OBVIOUS
<1>10. PICK v2 : v2 = turn[2][v3]
  OBVIOUS
<1>11. PICK v1 : v1 = turn[1][v2]
  OBVIOUS
<1>12. PICK v0 : v0 = turn[0][v1]
  OBVIOUS
<1>20. /\ {v11, v10, v9, v8, v7, v6} \subseteq Nat
  <2>0. 0 \in Nat
    OBVIOUS
  <2>1. v11 \in Nat
    BY <1>1, <2>0
  <2>2. v10 \in Nat
    BY <1>2, <2>1
  <2>3. v9 \in Nat
    BY <1>3, <2>2
  <2>4. v8 \in Nat
    BY <1>4, <2>3
  <2>5. v7 \in Nat
    BY <1>5, <2>4
  <2>6. v6 \in Nat
    BY <1>6, <2>5
  <2> QED
    BY <2>1, <2>2, <2>3, <2>4, <2>5, <2>6
<1>21. /\ {v5, v4, v3, v2, v1, v0} \subseteq Nat
  <2>0. v6 \in Nat
    BY <1>20
  <2>1. v5 \in Nat
    BY <1>7, <2>0
  <2>2. v4 \in Nat
    BY <1>8, <2>1
  <2>3. v3 \in Nat
    BY <1>9, <2>2
  <2>4. v2 \in Nat
    BY <1>10, <2>3
  <2>5. v1 \in Nat
    BY <1>11, <2>4
  <2>6. v0 \in Nat
    BY <1>12, <2>5
  <2> QED
    BY <2>1, <2>2, <2>3, <2>4, <2>5, <2>6
<1>22. PICK b : b = [k \in 0 .. 12 |->
         CASE k = 12 -> 0
           [] k = 11 -> v11
           [] k = 10 -> v10
           [] k = 9 -> v9
           [] k = 8 -> v8
           [] k = 7 -> v7
           [] k = 6 -> v6
           [] k = 5 -> v5
           [] k = 4 -> v4
           [] k = 3 -> v3
           [] k = 2 -> v2
           [] k = 1 -> v1
           [] k = 0 -> v0]
  OBVIOUS
<1>23. /\ b[12] = 0 /\ b[11] = v11 /\ b[10] = v10 /\ b[9] = v9 /\ b[8] = v8 /\ b[7] = v7 /\ b[6] = v6
      /\ b[5] = v5 /\ b[4] = v4 /\ b[3] = v3 /\ b[2] = v2 /\ b[1] = v1 /\ b[0] = v0
  BY <1>22
<1>24. \A k \in 0 .. 12 : k \in {0, 1, 2, 3, 4, 5, 6, 7, 8, 9, 10, 11, 12}
  OBVIOUS
<1>25. \A k \in 0 .. 12 : b[k] \in Nat
  BY <1>20, <1>21, <1>23, <1>24
<1>26. \A k \in 0 .. 12 : b[k] = IF k = 12 THEN 0 ELSE turn[k][b[k + 1]]
  <2>1. b[11] = turn[11][b[11 + 1]]
    BY <1>1, <1>23
  <2>2. b[10] = turn[10][b[10 + 1]]
    BY <1>2, <1>23
  <2>3. b[9] = turn[9][b[9 + 1]]
    BY <1>3, <1>23
  <2>4. b[8] = turn[8][b[8 + 1]]
    BY <1>4, <1>23
  <2>5. b[7] = turn[7][b[7 + 1]]
    BY <1>5, <1>23
  <2>6. b[6] = turn[6][b[6 + 1]]
    BY <1>6, <1>23
  <2>7. b[5] = turn[5][b[5 + 1]]
    BY <1>7, <1>23
  <2>8. b[4] = turn[4][b[4 + 1]]
    BY <1>8, <1>23
  <2>9. b[3] = turn[3][b[3 + 1]]
    BY <1>9, <1>23
  <2>10. b[2] = turn[2][b[2 + 1]]
    BY <1>10, <1>23
  <2>11. b[1] = turn[1][b[1 + 1]]
    BY <1>11, <1>23
  <2>12. b[0] = turn[0][b[0 + 1]]
    BY <1>12, <1>23
  <2>13. \A k \in {6, 7, 8, 9, 10, 11} : b[k] = turn[k][b[k + 1]]
    BY <2>1, <2>2, <2>3, <2>4, <2>5, <2>6
  <2>14. \A k \in {0, 1, 2, 3, 4, 5} : b[k] = turn[k][b[k + 1]]
    BY <2>7, <2>8, <2>9, <2>10, <2>11, <2>12
  <2> QED
    BY <1>23, <1>24, <2>13, <2>14
<1>27. b = [k \in 0 .. 12 |-> b[k]]
  BY <1>22
<1>28. b = [k \in 0 .. 12 |-> IF k = 12 THEN 0 ELSE turn[k][b[k + 1]]]
  BY <1>26, <1>27
<1> QED
  BY <1>25, <1>28

\* The square root of what is positive is, too.
LEMMA RootTyped ==
  ASSUME NEW x \in Nat \ {0}
  PROVE  Committee!Root(x) \in Nat \ {0}
<1> DEFINE Bit(k, upper) ==
             LET more == upper + 2 ^ k IN IF more * more <= x THEN more ELSE upper
           Bits(b) == b = [k \in 0 .. 12 |-> IF k = 12 THEN 0 ELSE Bit(k, b[k + 1])]
<1>1. PICK turn : turn = [k \in 0 .. 11 |-> [h \in Nat |-> Bit(k, h)]]
  OBVIOUS
<1>2. \A k \in 0 .. 11, h \in Nat : turn[k][h] = Bit(k, h) /\ Bit(k, h) \in {h, h + 2 ^ k}
  BY <1>1
<1>3. \A k \in 0 .. 11, h \in Nat : turn[k][h] \in Nat
  <2> TAKE k \in 0 .. 11, h \in Nat
  <2>1. PICK p : p = 2 ^ k
    OBVIOUS
  <2>2. p \in Nat /\ turn[k][h] \in {h, h + p}
    BY <1>2, <2>1, Powers, Zenon
  <2> QED
    BY <2>2
<1>4. ASSUME NEW b, b = [k \in 0 .. 12 |-> IF k = 12 THEN 0 ELSE turn[k][b[k + 1]]],
             \A k \in 0 .. 12 : b[k] \in Nat
      PROVE  Bits(b)
  <2>1. \A k \in 0 .. 12 : k # 12 => k \in 0 .. 11 /\ k + 1 \in 0 .. 12
    OBVIOUS
  <2>2. \A k \in 0 .. 12 : k # 12 => turn[k][b[k + 1]] = Bit(k, b[k + 1])
    BY <1>2, <1>4, <2>1, Zenon
  <2> HIDE DEF Bit
  <2>3. [k \in 0 .. 12 |-> IF k = 12 THEN 0 ELSE turn[k][b[k + 1]]]
          = [k \in 0 .. 12 |-> IF k = 12 THEN 0 ELSE Bit(k, b[k + 1])]
    BY <2>2
  <2> QED
    BY <1>4, <2>3
<1>5. \E b : Bits(b)
  BY <1>3, <1>4, StepsDown
<1> DEFINE root == CHOOSE b : Bits(b)
<1>6. Bits(root)
  BY <1>5
<1>7. Committee!Root(x) = root[0]
  BY Zenon DEF Committee!Root
<1> HIDE DEF root
<1>8. root[12] = 0 /\ \A k \in 0 .. 11 : root[k] = Bit(k, root[k + 1])
  <2>1. \A k \in 0 .. 11 : k \in 0 .. 12 /\ k # 12
    OBVIOUS
  <2> HIDE DEF Bit
  <2> QED
    BY <1>6, <2>1
<1>9. \A k \in 0 .. 11 : root[k + 1] \in Nat => root[k] \in Nat
  <2> HIDE DEF Bit
  <2> SUFFICES ASSUME NEW k \in 0 .. 11, NEW h \in Nat, h = root[k + 1] PROVE root[k] \in Nat
    OBVIOUS
  <2>1. turn[k][h] \in Nat /\ turn[k][h] = Bit(k, h)
    BY <1>2, <1>3
  <2>2. root[k] = Bit(k, h)
    BY <1>8
  <2> QED
    BY <2>1, <2>2
<1>10. root[1] \in Nat
  <2>0. root[11 + 1] \in Nat
    BY <1>8
  <2>1. root[10 + 1] \in Nat
    BY <1>9, <2>0
  <2>2. root[9 + 1] \in Nat
    BY <1>9, <2>1
  <2>3. root[8 + 1] \in Nat
    BY <1>9, <2>2
  <2>4. root[7 + 1] \in Nat
    BY <1>9, <2>3
  <2>5. root[6 + 1] \in Nat
    BY <1>9, <2>4
  <2>6. root[5 + 1] \in Nat
    BY <1>9, <2>5
  <2>7. root[4 + 1] \in Nat
    BY <1>9, <2>6
  <2>8. root[3 + 1] \in Nat
    BY <1>9, <2>7
  <2>9. root[2 + 1] \in Nat
    BY <1>9, <2>8
  <2>10. root[1 + 1] \in Nat
    BY <1>9, <2>9
  <2>11. root[0 + 1] \in Nat
    BY <1>9, <2>10
  <2> QED
    BY <2>11
<1>11. PICK h : h = root[1]
  OBVIOUS
<1>12. h \in Nat /\ root[0] = IF (h + 1) * (h + 1) <= x THEN h + 1 ELSE h
  <2>1. 2 ^ 0 = 1 /\ root[0] = Bit(0, root[0 + 1])
    BY <1>8
  <2> QED
    BY <1>10, <1>11, <2>1
<1> QED
  BY <1>7, <1>12

\* How like each other two strategies are
LEMMA CorrelationTyped ==
  ASSUME NEW cs \in Seq(Matured), NEW ds \in Seq(Matured)
  PROVE  Committee!Cohort_Correlation(Committee!Excess(cs), Committee!Excess(ds)) \in Int
<1>1. PICK xs, ys : xs = Committee!Excess(cs) /\ ys = Committee!Excess(ds)
  OBVIOUS
<1>2. PICK j, k : j = Len(cs) /\ k = Len(ds)
  OBVIOUS
<1>3. j \in Nat /\ k \in Nat /\ DOMAIN cs = 1 .. j /\ DOMAIN ds = 1 .. k
  BY <1>2
<1>4. xs = [i \in 1 .. j |-> cs[i].excess] /\ ys = [i \in 1 .. k |-> ds[i].excess]
  BY <1>1, <1>3 DEF Committee!Excess
<1>5. (\A i \in 1 .. j : xs[i] \in Int) /\ (\A i \in 1 .. k : ys[i] \in Int)
  BY <1>3, <1>4, ExcessTyped
<1>6. Committee!Count(xs) = j /\ Committee!Count(ys) = k
  <2>1. PICK D, E : D = DOMAIN xs /\ E = DOMAIN ys
    OBVIOUS
  <2>2. D = 1 .. j /\ E = 1 .. k /\ 1 \in Int /\ j \in Int /\ k \in Int
    BY <1>3, <1>4, <2>1
  <2>3. Cardinality(D) = IF 1 > j THEN 0 ELSE j - 1 + 1
    BY <2>2, IntervalSize
  <2>4. Cardinality(E) = IF 1 > k THEN 0 ELSE k - 1 + 1
    BY <2>2, IntervalSize
  <2> QED
    BY <1>3, <2>1, <2>3, <2>4 DEF Committee!Count, Committee!Cardinality, Cardinality
<1>7. PICK n : n = Committee!Min({j, k})
  OBVIOUS
<1>8. n \in Nat /\ n <= j /\ n <= k
  <2>1. j \in Int /\ k \in Int
    BY <1>3
  <2>2. n = IF j <= k THEN j ELSE k
    BY <1>7, <2>1, LargerSmaller
  <2> QED
    BY <1>3, <2>2
<1>9. PICK D : D = 1 .. n
  OBVIOUS
<1>10. IsFiniteSet(D)
  <2>1. 1 \in Int /\ n \in Int
    BY <1>8
  <2> QED
    BY <1>9, <2>1, IntervalSize
<1> DEFINE Co(us, vs) == n * Committee!Total([i \in 1 .. n |-> us[i] * vs[i]])
                         - Committee!Sum(us, 1 .. n) * Committee!Sum(vs, 1 .. n)
<1>11. ASSUME NEW us, NEW vs, \A i \in D : us[i] \in Int /\ vs[i] \in Int
       PROVE  Co(us, vs) \in Int
  <2>1. PICK f, p, q, t : /\ f = [i \in D |-> us[i] * vs[i]]
                          /\ p = Committee!Sum(us, D) /\ q = Committee!Sum(vs, D)
                          /\ t = Committee!Total(f)
    OBVIOUS
  <2>2. \A i \in D : f[i] \in Int
    <3> TAKE i \in D
    <3>1. PICK u, v : u = us[i] /\ v = vs[i]
      OBVIOUS
    <3>2. u \in Int /\ v \in Int /\ f[i] = u * v
      BY <1>11, <2>1, <3>1
    <3> QED
      BY <3>2
  <2>3. DOMAIN f = D
    BY <2>1
  <2>4. t \in Int
    BY <1>10, <2>1, <2>2, <2>3, TotalTyped
  <2>5. p \in Int /\ q \in Int
    BY <1>10, <1>11, <2>1, CommitteeSums, SumWithout
  <2>6. Co(us, vs) = n * t - p * q
    BY <1>9, <2>1
  <2>7. n * t \in Int /\ p * q \in Int
    BY <1>8, <2>4, <2>5
  <2> QED
    BY <2>6, <2>7
<1>12. \A i \in D : xs[i] \in Int /\ ys[i] \in Int
  BY <1>3, <1>5, <1>8, <1>9
<1>13. PICK a, b, c : a = Co(xs, xs) /\ b = Co(ys, ys) /\ c = Co(xs, ys)
  OBVIOUS
<1>14. a \in Int /\ b \in Int /\ c \in Int
  BY <1>11, <1>12, <1>13
<1>15. Committee!Cohort_Correlation(xs, ys) =
         IF n < 4 \/ a <= 0 \/ b <= 0 \/ c <= 0 THEN 0 ELSE (100 * c) \div Committee!Root(a * b)
  BY <1>6, <1>7, <1>13, Zenon DEF Committee!Cohort_Correlation
<1>16. ASSUME a > 0, b > 0 PROVE (100 * c) \div Committee!Root(a * b) \in Int
  <2>1. PICK x, r : x = a * b /\ r = Committee!Root(x)
    OBVIOUS
  <2>2. x \in Nat \ {0}
    BY <1>14, <1>16, <2>1
  <2>3. r \in Nat \ {0}
    BY <2>1, <2>2, RootTyped
  <2>4. PICK y : y = 100 * c
    OBVIOUS
  <2>5. y \in Int
    BY <1>14, <2>4
  <2>6. y \div r \in Int
    BY <2>3, <2>5, Divided
  <2> QED
    BY <2>1, <2>4, <2>6
<1> QED
  BY <1>1, <1>14, <1>15, <1>16

LEMMA RedundancyTyped ==
  ASSUME NEW table, Seen(table), NEW s \in Strategies, NEW t \in Strategies
  PROVE  Committee!Redundancy(table, s, t) \in Int
<1>1. PICK a, b : /\ a = Committee!Position_Overlap[s][t]
                  /\ b = Committee!Cohort_Correlation(Committee!Excess(table[s].cohorts),
                                                      Committee!Excess(table[t].cohorts))
  OBVIOUS
<1>2. a \in Int
  BY <1>1, OverlapTyped
<1>3. b \in Int
  BY <1>1, CorrelationTyped DEF Seen
<1>4. Committee!Max({a, b}) \in Int
  BY <1>2, <1>3, LargerSmaller
<1> QED
  BY <1>1, <1>4 DEF Committee!Redundancy

\* What a strategy is worth
LEMMA UtilityTyped ==
  ASSUME NEW table, Seen(table), NEW fits, NEW budget, Sound(fits, budget),
         NEW approved \in SUBSET Strategies, NEW s \in approved
  PROVE  Committee!Allocation_Utility(table, fits, approved, s) \in Nat
<1>1. PICK others : others = approved \ {s}
  OBVIOUS
<1>2. IsFiniteSet(others) /\ others \subseteq Strategies
  BY <1>1, FewOfEach, FS_Subset
<1>3. PICK weaker : weaker = {t \in others : Committee!Weaker(table, t, s)}
  OBVIOUS
<1>4. PICK rank, size : rank = Cardinality(weaker) /\ size = Cardinality(others)
  OBVIOUS
<1>5. rank \in Nat /\ size \in Nat /\ (others # {} => size # 0)
  <2>1. weaker \subseteq others
    BY <1>3
  <2> QED
    BY <1>2, <1>4, <2>1, FS_Subset, FS_CardinalityType, FS_EmptySet
<1>6. PICK e : e = IF others = {} THEN 100 ELSE 90 + (20 * rank) \div size
  OBVIOUS
<1>7. e \in Nat
  <2>1. PICK x : x = 20 * rank
    OBVIOUS
  <2>2. x \in Nat /\ x \in Int
    BY <1>5, <2>1
  <2>3. others # {} => x \div size \in Nat
    BY <1>5, <2>2, Divided
  <2> QED
    BY <1>6, <2>1, <2>3
<1>8. PICK like : like = [t \in others |-> Committee!Redundancy(table, s, t)]
  OBVIOUS
<1>9. PICK average : average = Committee!Average(like)
  OBVIOUS
<1>10. average \in Int
  <2>1. \A t \in others : like[t] \in Int
    BY <1>2, <1>8, RedundancyTyped
  <2>2. DOMAIN like = others
    BY <1>8
  <2> QED
    BY <1>2, <1>9, <2>1, <2>2, AverageTyped
<1>11. PICK unique : unique = Committee!Max({0, 100 - average})
  OBVIOUS
<1>12. unique \in Nat
  <2>1. PICK x : x = 100 - average
    OBVIOUS
  <2>2. 0 \in Int /\ x \in Int
    BY <1>10, <2>1
  <2>3. unique = IF 0 >= x THEN 0 ELSE x
    BY <1>11, <2>1, <2>2, LargerSmaller
  <2> QED
    BY <2>2, <2>3
<1>13. PICK u : u = 70 + (30 * unique) \div 100
  OBVIOUS
<1>14. u \in Nat
  <2>1. PICK x : x = 30 * unique
    OBVIOUS
  <2>2. x \in Nat /\ x \in Int /\ 100 \in Nat \ {0}
    BY <1>12, <2>1
  <2>3. x \div 100 \in Nat
    BY <2>2, Divided
  <2> QED
    BY <1>13, <2>1, <2>3
<1>15. PICK d : d = IF Committee!Decaying(table[s]) THEN 55 ELSE 100
  OBVIOUS
<1>16. d \in Nat
  BY <1>15
<1>17. PICK tilt : tilt = Committee!Min({110, fits[s].tilt})
  OBVIOUS
<1>18. tilt \in Nat
  <2>1. PICK x : x = fits[s].tilt
    OBVIOUS
  <2>2. x \in Nat /\ x \in Int /\ 110 \in Int
    BY <2>1 DEF Sound
  <2>3. tilt = IF 110 <= x THEN 110 ELSE x
    BY <1>17, <2>1, <2>2, LargerSmaller
  <2> QED
    BY <2>2, <2>3
<1>19. Committee!Allocation_Utility(table, fits, approved, s) = (((e * u * d) \div 100) * tilt) \div 10000
  BY <1>1, <1>3, <1>4, <1>6, <1>8, <1>9, <1>11, <1>13, <1>15, <1>17
     DEF Committee!Allocation_Utility, Committee!Cardinality, Cardinality
<1>20. PICK x : x = e * u * d
  OBVIOUS
<1>21. x \in Nat
  <2>1. e * u \in Nat
    BY <1>7, <1>14
  <2> QED
    BY <1>16, <1>20, <2>1
<1>22. PICK y : y = x \div 100
  OBVIOUS
<1>23. y \in Nat
  BY <1>21, <1>22, Divided
<1>24. PICK z : z = y * tilt
  OBVIOUS
<1>25. z \in Nat
  BY <1>18, <1>23, <1>24
<1>26. z \div 10000 \in Nat
  BY <1>25, Divided
<1> QED
  BY <1>19, <1>20, <1>22, <1>24, <1>26

\* Some numbers have a least one.
LEMMA Least ==
  ASSUME NEW Q \in SUBSET Nat, Q # {}
  PROVE  \E m \in Q : \A k \in Q : m <= k
<1>1. PICK n \in Q : TRUE
  OBVIOUS
<1>2. PICK below : below = [m \in 0 .. n |-> 0 .. m]
  OBVIOUS
<1>3. PICK T : T = {below[m] : m \in Q \cap (0 .. n)}
  OBVIOUS
<1>4. n \in Q \cap (0 .. n) /\ \A m \in 0 .. n : below[m] = 0 .. m /\ below[m] \subseteq 0 .. n
  BY <1>1, <1>2
<1>5. T \subseteq SUBSET (0 .. n) /\ T # {}
  BY <1>3, <1>4
<1>6. IsFiniteSet(0 .. n)
  <2>1. 0 \in Int /\ n \in Int
    BY <1>1
  <2> QED
    BY <2>1, FS_Interval
<1>7. PICK U \in T : \A V \in T : V \subseteq U => V = U
  <2>1. PICK S : S = 0 .. n
    OBVIOUS
  <2>2. IsFiniteSet(S) /\ T \subseteq SUBSET S
    BY <1>5, <1>6, <2>1, Zenon
  <2>3. T # {}
    BY <1>5
  <2>4. \E U \in T : \A V \in T : V \subseteq U => V = U
    BY <2>2, <2>3, Smallest
  <2> QED
    BY <2>4
<1>8. PICK m \in Q \cap (0 .. n) : U = below[m]
  BY <1>3, <1>7
<1>9. ASSUME NEW k \in Q, ~(m <= k) PROVE FALSE
  <2>1. k \in 0 .. n /\ k < m /\ m \in 0 .. n
    BY <1>1, <1>8, <1>9
  <2>2. below[k] \in T /\ below[k] \subseteq below[m] /\ m \in below[m] /\ m \notin below[k]
    BY <1>3, <1>4, <2>1
  <2> QED
    BY <1>7, <1>8, <2>2
<1> QED
  BY <1>8, <1>9

\* A number of steps, each from what the one before has come to
Stepped(n, D, turn, b) ==
  /\ b = [k \in 0 .. n |-> IF k = 0 THEN {} ELSE turn[b[k - 1]]]
  /\ \A k \in 0 .. n : b[k] \in D

LEMMA StepsUp ==
  ASSUME NEW n \in Nat, NEW D, {} \in D, NEW turn, \A x \in D : turn[x] \in D
  PROVE  \E b : Stepped(n, D, turn, b)
<1> DEFINE P(m, b) == /\ b = [k \in 0 .. m |-> IF k = 0 THEN {} ELSE turn[b[k - 1]]]
                      /\ \A k \in 0 .. m : b[k] \in D
<1>1. PICK Q : Q = {m \in Nat : ~ \E b : P(m, b)}
  OBVIOUS
<1>2. SUFFICES ASSUME Q # {} PROVE FALSE
  BY <1>1, Zenon DEF Stepped
<1>3. Q \in SUBSET Nat
  BY <1>1, Zenon
<1>4. PICK m \in Q : \A k \in Q : m <= k
  BY <1>2, <1>3, Least
<1>5. m \in Nat /\ ~ \E b : P(m, b)
  BY <1>1, Zenon
<1>6. m # 0
  <2>1. P(0, [k \in 0 .. 0 |-> {}])
    OBVIOUS
  <2> QED
    BY <1>5, <2>1
<1>7. m - 1 \in Nat /\ ~(m <= m - 1)
  BY <1>5, <1>6
<1>8. PICK b : P(m - 1, b)
  <2>1. m - 1 \notin Q
    BY <1>4, <1>7
  <2> QED
    BY <1>1, <1>7, <2>1, Zenon
<1>9. PICK c : c = [k \in 0 .. m |-> IF k = m THEN turn[b[m - 1]] ELSE b[k]]
  OBVIOUS
<1>10. c[m] = turn[b[m - 1]] /\ \A k \in 0 .. m - 1 : c[k] = b[k]
  BY <1>5, <1>9
<1>11. \A k \in 0 .. m - 1 : b[k] = IF k = 0 THEN {} ELSE turn[b[k - 1]]
  BY <1>8
<1>12. \A k \in 0 .. m : c[k] = IF k = 0 THEN {} ELSE turn[c[k - 1]]
  <2>1. \A k \in 0 .. m : k = m \/ (k \in 0 .. m - 1 /\ (k # 0 => k - 1 \in 0 .. m - 1))
    BY <1>5
  <2>2. m - 1 \in 0 .. m - 1
    BY <1>7
  <2> QED
    BY <1>6, <1>10, <1>11, <2>1, <2>2
<1>13. c = [k \in 0 .. m |-> c[k]]
  BY <1>9
<1>14. \A k \in 0 .. m : c[k] \in D
  <2>1. \A k \in 0 .. m - 1 : b[k] \in D
    BY <1>8
  <2>2. \A k \in 0 .. m : k = m \/ k \in 0 .. m - 1
    BY <1>5
  <2>3. m - 1 \in 0 .. m - 1
    BY <1>7
  <2> QED
    BY <1>10, <2>1, <2>2, <2>3
<1>15. P(m, c)
  <2>1. c = [k \in 0 .. m |-> IF k = 0 THEN {} ELSE turn[c[k - 1]]]
    BY <1>12, <1>13
  <2> QED
    BY <1>14, <2>1
<1> QED
  BY <1>5, <1>15

\* Some numbers, if not too many, have a greatest one.
LEMMA LargestIs ==
  ASSUME NEW S, IsFiniteSet(S), \A x \in S : x \in Int, S # {}
  PROVE  Committee!Max(S) \in Int
<1>1. PICK above : above = [x \in S |-> {y \in S : y > x}]
  OBVIOUS
<1>2. PICK T : T = {above[x] : x \in S}
  OBVIOUS
<1>21. IsFiniteSet(S)
  OBVIOUS
<1>3. \A x \in S : above[x] = {y \in S : y > x} /\ above[x] \subseteq S
  BY <1>1
<1>31. T \subseteq SUBSET S
  BY <1>2, <1>3
<1>32. T # {}
  BY <1>2
<1>4. \E U \in T : \A V \in T : V \subseteq U => V = U
  BY <1>21, <1>31, <1>32, Smallest
<1>5. PICK U \in T : \A V \in T : V \subseteq U => V = U
  BY <1>4
<1>6. PICK x \in S : U = above[x]
  BY <1>2, <1>5
<1>7. ASSUME NEW y \in S, ~(x >= y) PROVE FALSE
  <2>1. x \in Int /\ y \in Int /\ y > x /\ \A z \in S : z \in Int
    BY <1>6, <1>7
  <2>2. y \in above[x] /\ y \notin above[y]
    BY <1>3, <1>6, <1>7, <2>1
  <2>21. ASSUME NEW z \in above[y] PROVE z \in above[x]
    <3>1. z \in S /\ z > y
      BY <1>3, <1>7, <2>21
    <3>2. z > x
      BY <2>1, <3>1
    <3> QED
      BY <1>3, <1>6, <3>1, <3>2
  <2> QED
    BY <1>2, <1>5, <1>6, <1>7, <2>2, <2>21
<1>8. \E z \in S : \A y \in S : z >= y
  BY <1>7
<1>9. Committee!Max(S) \in S
  BY <1>8 DEF Committee!Max
<1> QED
  BY <1>9

\* There are no more values than arguments.
LEMMA FewValues ==
  ASSUME NEW S, IsFiniteSet(S), NEW f, DOMAIN f = S
  PROVE  IsFiniteSet({f[x] : x \in S})
<1>1. PICK T, g : T = {f[x] : x \in S} /\ g = [x \in S |-> f[x]]
  OBVIOUS
<1>2. g \in Surjection(S, T)
  BY <1>1 DEF Surjection
<1> QED
  BY <1>1, <1>2, FS_Surjection

\* A set whose members are all the same has one at most.
LEMMA OneAtMost ==
  ASSUME NEW S, \A x, y \in S : x = y
  PROVE  IsFiniteSet(S) /\ Cardinality(S) <= 1 /\ Cardinality(S) \in Nat
<1>1. CASE S = {}
  BY <1>1, FS_EmptySet
<1>2. CASE S # {}
  <2>1. PICK x \in S : S = {x}
    BY <1>2
  <2>2. IsFiniteSet({x}) /\ Cardinality({x}) = 1
    BY FS_Singleton
  <2> QED
    BY <2>1, <2>2
<1> QED
  BY <1>1, <1>2

\* One at a time, so many strategies are selected, of those that are approved.
LEMMA SelectedFew ==
  ASSUME NEW table, Seen(table), NEW approved \in SUBSET Strategies, NEW utility,
         \A s \in approved : utility[s] \in Nat, MaxSelected \in Nat
  PROVE  /\ Committee!Selected(table, approved, utility) \subseteq approved
         /\ Cardinality(Committee!Selected(table, approved, utility)) <= MaxSelected
<1> DEFINE Score(s, sofar) ==
             utility[s] * (200 - Committee!Max({0} \cup {Committee!Redundancy(table, s, t) : t \in sofar}))
           Best(S, sofar) == {s \in S : \A t \in S :
             Score(s, sofar) > Score(t, sofar) \/ (Score(s, sofar) = Score(t, sofar) /\ s >= t)}
           More(sofar) == sofar \cup Best(approved \ sofar, sofar)
           Leading(b) == b = [n \in 0 .. MaxSelected |-> IF n = 0 THEN {} ELSE More(b[n - 1])]
<1>1. ASSUME NEW sofar \in SUBSET approved, NEW s \in approved PROVE Score(s, sofar) \in Int
  <2>1. PICK S : S = {Committee!Redundancy(table, s, t) : t \in sofar}
    OBVIOUS
  <2>2. PICK f : f = [t \in sofar |-> Committee!Redundancy(table, s, t)]
    OBVIOUS
  <2>3. IsFiniteSet(sofar) /\ sofar \subseteq Strategies /\ s \in Strategies
    BY FewOfEach, FS_Subset
  <2>4. S = {f[t] : t \in sofar}
    BY <2>1, <2>2
  <2>5. IsFiniteSet(S)
    BY <2>2, <2>3, <2>4, FewValues
  <2>6. S \subseteq Int
    BY <2>1, <2>3, RedundancyTyped
  <2>7. PICK V : V = {0} \cup S
    OBVIOUS
  <2>8. IsFiniteSet(V)
    <3>1. V = S \cup {0}
      BY <2>7
    <3> QED
      BY <2>5, <3>1, FS_AddElement
  <2>9. PICK m, u : m = Committee!Max(V) /\ u = utility[s]
    OBVIOUS
  <2>10. m \in Int
    <3>1. V # {} /\ \A x \in V : x \in Int
      BY <2>6, <2>7
    <3> QED
      BY <2>8, <2>9, <3>1, LargestIs
  <2>11. u \in Int
    BY <2>9
  <2>12. Score(s, sofar) = u * (200 - m)
    BY <2>1, <2>7, <2>9
  <2> QED
    BY <2>10, <2>11, <2>12
<1> HIDE DEF Score
<1>2. ASSUME NEW sofar \in SUBSET approved
      PROVE  /\ More(sofar) \in SUBSET approved
             /\ IsFiniteSet(sofar) /\ Cardinality(sofar) \in Nat
             /\ Cardinality(More(sofar)) <= Cardinality(sofar) + 1
  <2>1. PICK B : B = Best(approved \ sofar, sofar)
    OBVIOUS
  <2>2. \A s, t \in B : s = t
    <3> TAKE s, t \in B
    <3>1. PICK a, b : a = Score(s, sofar) /\ b = Score(t, sofar)
      OBVIOUS
    <3>2. s \in approved /\ t \in approved
      BY <2>1
    <3>3. a \in Int /\ b \in Int /\ s \in Nat /\ t \in Nat
      BY <1>1, <3>1, <3>2, FewOfEach
    <3>4. (a > b \/ (a = b /\ s >= t)) /\ (b > a \/ (b = a /\ t >= s))
      BY <2>1, <3>1
    <3> QED
      BY <3>3, <3>4
  <2>3. IsFiniteSet(B) /\ Cardinality(B) <= 1 /\ Cardinality(B) \in Nat
    BY <2>2, OneAtMost
  <2>4. IsFiniteSet(sofar)
    BY FewOfEach, FS_Subset
  <2>5. B \cap sofar = {} /\ B \subseteq approved
    BY <2>1
  <2>6. PICK U : U = sofar \cup B
    OBVIOUS
  <2>7. Cardinality(U) = Cardinality(sofar) + Cardinality(B) - Cardinality(sofar \cap B)
    BY <2>3, <2>4, <2>6, FS_Union
  <2>8. Cardinality(sofar \cap B) = 0
    BY <2>5, FS_EmptySet
  <2>9. Cardinality(sofar) \in Nat
    BY <2>4, FS_CardinalityType
  <2>10. More(sofar) = U
    BY <2>1, <2>6
  <2>11. More(sofar) \in SUBSET approved
    BY <2>5, <2>6, <2>10
  <2>12. Cardinality(U) <= Cardinality(sofar) + 1
    BY <2>3, <2>7, <2>8, <2>9
  <2> HIDE DEF More
  <2> QED
    BY <2>4, <2>9, <2>10, <2>11, <2>12
<1> HIDE DEF Best
<1>3. \E b : Leading(b)
  <2>1. PICK turn : turn = [x \in SUBSET approved |-> More(x)]
    OBVIOUS
  <2>2. \A x \in SUBSET approved : turn[x] \in SUBSET approved
    BY <1>2, <2>1
  <2>3. PICK D : D = SUBSET approved
    OBVIOUS
  <2>4. {} \in D /\ \A x \in D : turn[x] \in D
    BY <2>2, <2>3
  <2>5. \E b : Stepped(MaxSelected, D, turn, b)
    BY <2>4, StepsUp
  <2>55. PICK b : Stepped(MaxSelected, D, turn, b)
    BY <2>5
  <2>6. /\ b = [k \in 0 .. MaxSelected |-> IF k = 0 THEN {} ELSE turn[b[k - 1]]]
        /\ \A k \in 0 .. MaxSelected : b[k] \in D
    BY <2>55 DEF Stepped
  <2>7. \A k \in 0 .. MaxSelected : k # 0 => turn[b[k - 1]] = More(b[k - 1])
    <3>1. \A k \in 0 .. MaxSelected : k # 0 => k - 1 \in 0 .. MaxSelected
      OBVIOUS
    <3> HIDE DEF More
    <3> QED
      BY <2>1, <2>3, <2>6, <3>1
  <2> HIDE DEF More
  <2>8. [k \in 0 .. MaxSelected |-> IF k = 0 THEN {} ELSE turn[b[k - 1]]]
         = [k \in 0 .. MaxSelected |-> IF k = 0 THEN {} ELSE More(b[k - 1])]
    BY <2>7
  <2>9. Leading(b)
    BY <2>6, <2>8
  <2> QED
    BY <2>9
<1> DEFINE first == CHOOSE b : Leading(b)
<1>4. Leading(first)
  BY <1>3
<1>5. Committee!Selected(table, approved, utility) = first[MaxSelected]
  BY Zenon DEF Committee!Selected, Score, Best
<1> HIDE DEF first, More
<1> DEFINE Good1(n) == first[n] \in SUBSET approved /\ Cardinality(first[n]) <= n
<1>6. PICK Q : Q = {n \in 0 .. MaxSelected : ~ Good1(n)}
  OBVIOUS
<1>7. ASSUME Q # {} PROVE FALSE
  <2>1. Q \in SUBSET Nat
    BY <1>6
  <2>2. \E m \in Q : \A k \in Q : m <= k
    BY <1>7, <2>1, Least
  <2>3. PICK m \in Q : \A k \in Q : m <= k
    BY <2>2
  <2>4. m \in 0 .. MaxSelected /\ ~ Good1(m)
    BY <1>6, Zenon
  <2>5. m # 0
    <3>1. first[0] = {}
      BY <1>4
    <3> QED
      BY <2>4, <3>1, FS_EmptySet
  <2>6. m - 1 \in 0 .. MaxSelected /\ m - 1 \notin Q
    BY <2>3, <2>4, <2>5
  <2>7. Good1(m - 1)
    BY <1>6, <2>6, Zenon
  <2>8. first[m] = More(first[m - 1])
    BY <1>4, <2>4, <2>5
  <2>9. PICK sofar : sofar = first[m - 1]
    OBVIOUS
  <2>10. sofar \in SUBSET approved /\ Cardinality(sofar) <= m - 1
    BY <2>7, <2>9
  <2>11. /\ More(sofar) \in SUBSET approved /\ Cardinality(sofar) \in Nat
         /\ Cardinality(More(sofar)) <= Cardinality(sofar) + 1
    BY <1>2, <2>10
  <2>12. Cardinality(More(sofar)) \in Nat
    <3>1. IsFiniteSet(More(sofar))
      BY <2>11, FewOfEach, FS_Subset
    <3> QED
      BY <3>1, FS_CardinalityType
  <2>13. Good1(m)
    BY <2>4, <2>8, <2>9, <2>10, <2>11, <2>12
  <2> QED
    BY <2>4, <2>13
<1>8. Good1(MaxSelected)
  BY <1>6, <1>7
<1> QED
  BY <1>5, <1>8

\* What a function of sets comes to that drops part of a set until nothing is
\* dropped
Narrowing(F, drop, end, g) ==
  g = [S \in F |-> IF drop[S] # {} THEN g[S \ drop[S]] ELSE end[S]]

\* There is one.
LEMMA NarrowingEnds ==
  ASSUME NEW T, IsFiniteSet(T), NEW drop, NEW end, \A S \in SUBSET T : drop[S] \subseteq S
  PROVE  \E g : Narrowing(SUBSET T, drop, end, g)
<1> DEFINE Closed(F) == F \in SUBSET (SUBSET T) /\ \A S \in F : S \ drop[S] \in F
           Done(F) == Closed(F) /\ \E g : Narrowing(F, drop, end, g)
<1>1. PICK entire : entire = SUBSET T
  OBVIOUS
<1>2. IsFiniteSet(entire)
  BY <1>1, FS_SUBSET
<1>3. PICK Q : Q = {entire \ F : F \in {G \in SUBSET entire : Done(G)}}
  OBVIOUS
<1>4. Done({})
  <2>1. Narrowing({}, drop, end, [S \in {} |-> {}])
    BY DEF Narrowing
  <2> QED
    BY <2>1
<1> HIDE DEF Done
<1>5. Q # {} /\ Q \subseteq SUBSET entire
  BY <1>3, <1>4
<1>6. \E U \in Q : \A V \in Q : V \subseteq U => V = U
  BY <1>2, <1>5, Smallest
<1>7. PICK U \in Q : \A V \in Q : V \subseteq U => V = U
  BY <1>6
<1>8. PICK F \in SUBSET entire : Done(F) /\ U = entire \ F
  BY <1>3, <1>7
<1>9. CASE U = {}
  <2>1. F = SUBSET T
    BY <1>1, <1>8, <1>9
  <2> QED
    BY <1>8, <2>1 DEF Done
<1>10. CASE U # {}
  <2>1. U \subseteq SUBSET T
    BY <1>1, <1>8
  <2>2. \E S \in U : \A V \in U : V \subseteq S => V = S
    BY <1>10, <2>1, Smallest
  <2>3. PICK S \in U : \A V \in U : V \subseteq S => V = S
    BY <2>2
  <2>4. S \in SUBSET T /\ S \notin F
    BY <1>8, <2>1, <2>3
  <2>5. drop[S] # {} => S \ drop[S] \in F
    <3>1. SUFFICES ASSUME drop[S] # {} PROVE S \ drop[S] \in F
      OBVIOUS
    <3>2. drop[S] \subseteq S
      BY <2>4
    <3>3. PICK V : V = S \ drop[S]
      OBVIOUS
    <3>4. V \subseteq S /\ V # S /\ V \in entire
      BY <1>1, <2>4, <3>1, <3>2, <3>3
    <3>5. V \notin U
      BY <2>3, <3>4
    <3> QED
      BY <1>8, <3>3, <3>4, <3>5
  <2>6. PICK more : more = F \cup {S}
    OBVIOUS
  <2>7. Closed(F)
    BY <1>8 DEF Done
  <2>8. Closed(more)
    <3>1. more \in SUBSET (SUBSET T)
      BY <2>4, <2>6, <2>7
    <3>2. ASSUME NEW V \in more PROVE V \ drop[V] \in more
      <4>1. CASE V \in F
        BY <2>6, <2>7, <4>1
      <4>2. CASE V = S
        <5>1. CASE drop[S] = {}
          BY <2>6, <4>2, <5>1
        <5>2. CASE drop[S] # {}
          BY <2>5, <2>6, <4>2, <5>2
        <5> QED
          BY <5>1, <5>2
      <4> QED
        BY <2>6, <4>1, <4>2
    <3> QED
      BY <3>1, <3>2
  <2>9. PICK g : Narrowing(F, drop, end, g)
    BY <1>8 DEF Done
  <2>10. PICK h : h = [V \in more |-> IF V = S THEN IF drop[S] # {} THEN g[S \ drop[S]] ELSE end[S]
                                      ELSE g[V]]
    OBVIOUS
  <2>11. \A V \in F : V # S /\ V \in more /\ h[V] = g[V]
    BY <2>4, <2>6, <2>10
  <2>12. \A V \in more : h[V] = IF drop[V] # {} THEN h[V \ drop[V]] ELSE end[V]
    <3> TAKE V \in more
    <3>1. CASE V \in F
      <4>1. g[V] = IF drop[V] # {} THEN g[V \ drop[V]] ELSE end[V]
        BY <2>9, <3>1 DEF Narrowing
      <4>2. V \ drop[V] \in F
        BY <2>7, <3>1
      <4>3. h[V] = g[V] /\ h[V \ drop[V]] = g[V \ drop[V]]
        BY <2>11, <3>1, <4>2
      <4> QED
        BY <4>1, <4>3
    <3>2. CASE V = S
      <4>1. h[S] = IF drop[S] # {} THEN g[S \ drop[S]] ELSE end[S]
        BY <2>6, <2>10
      <4>2. drop[S] # {} => h[S \ drop[S]] = g[S \ drop[S]]
        BY <2>5, <2>11
      <4> QED
        BY <3>2, <4>1, <4>2
    <3> QED
      BY <2>6, <3>1, <3>2
  <2>13. h = [V \in more |-> IF drop[V] # {} THEN h[V \ drop[V]] ELSE end[V]]
    <3>1. h = [V \in more |-> h[V]]
      BY <2>10
    <3> QED
      BY <2>12, <3>1
  <2>14. Done(more)
    BY <2>8, <2>13 DEF Done, Narrowing
  <2>15. more \in SUBSET entire /\ entire \ more \in Q
    <3>1. more \in SUBSET entire
      BY <1>1, <1>8, <2>4, <2>6
    <3> QED
      BY <1>3, <2>14, <3>1
  <2>16. entire \ more \subseteq U /\ S \in U /\ S \notin entire \ more
    BY <1>8, <2>3, <2>6
  <2> QED
    BY <1>7, <2>15, <2>16
<1> QED
  BY <1>9, <1>10

\* What is capped, and gets no less in proportion, gets no more than there is.
LEMMA CappedIsLeft ==
  ASSUME NEW C, IsFiniteSet(C), NEW raw, \A s \in C : raw[s] \in Nat,
         NEW total \in Nat \ {0}, Sum(raw, C) <= total, NEW rest \in Int, NEW cap \in Nat,
         \A s \in C : rest * raw[s] >= cap * total, C # {}, cap > 0
  PROVE  rest \in Nat /\ cap * Cardinality(C) <= rest
<1>1. PICK n, each, sum : n = Cardinality(C) /\ each = cap * total /\ sum = Sum(raw, C)
  OBVIOUS
<1>2. n \in Nat /\ each \in Nat /\ each > 0 /\ sum \in Nat
  <2>1. n \in Nat
    BY <1>1, FS_CardinalityType
  <2>2. sum \in Nat
    BY <1>1, SumOfNaturals
  <2>3. each \in Nat /\ each > 0
    BY <1>1
  <2> QED
    BY <2>1, <2>2, <2>3
<1>3. rest > 0
  <2>1. PICK s \in C : TRUE
    OBVIOUS
  <2>2. PICK r : r = raw[s]
    OBVIOUS
  <2>3. r \in Nat /\ rest * r >= each
    BY <1>1, <2>1, <2>2
  <2> QED
    BY <1>2, <2>3
<1>4. PICK zero : zero = [s \in C |-> 0]
  OBVIOUS
<1>5. \A s \in C : zero[s] \in Int /\ raw[s] \in Int /\ 0 * zero[s] <= rest * raw[s] + (-each)
  <2> TAKE s \in C
  <2>1. PICK r : r = raw[s]
    OBVIOUS
  <2>2. r \in Nat /\ rest * r >= each /\ zero[s] = 0 /\ rest * r \in Int
    BY <1>1, <1>4, <2>1
  <2> QED
    BY <1>2, <2>1, <2>2
<1>6. 0 * Sum(zero, C) <= rest * sum + (-each) * n
  <2>1. 0 \in Int /\ rest \in Int /\ -each \in Int
    BY <1>2
  <2> QED
    BY <1>1, <1>5, <2>1, SumBound
<1>7. 0 * Sum(zero, C) = 0
  <2>1. \A s \in C : zero[s] \in Int
    BY <1>4
  <2>2. Sum(zero, C) \in Int
    BY <2>1, SumWithout
  <2> QED
    BY <2>2
<1>8. each * n <= rest * sum
  <2>1. (-each) * n = -(each * n) /\ each * n \in Int /\ rest * sum \in Int
    BY <1>2
  <2> QED
    BY <1>6, <1>7, <2>1
<1>9. rest * sum <= rest * total
  <2>1. rest \in Nat /\ sum <= total
    BY <1>1, <1>3
  <2> QED
    BY <1>2, <2>1, Scaling
<1>10. total * (cap * n) <= total * rest
  <2>1. each * n = total * (cap * n) /\ rest * total = total * rest
    BY <1>1, <1>2
  <2>2. each * n \in Int /\ rest * sum \in Int /\ rest * total \in Int
    BY <1>2
  <2> QED
    BY <1>8, <1>9, <2>1, <2>2
<1>11. cap * n \in Int
  BY <1>2
<1>12. cap * n <= rest
  BY <1>10, <1>11, Cancelled
<1> QED
  BY <1>1, <1>3, <1>12

\* Part of a whole: in proportion and rounded down
LEMMA Proportion ==
  ASSUME NEW S, IsFiniteSet(S), NEW raw, \A s \in S : raw[s] \in Nat,
         NEW rest \in Nat, NEW total \in Nat \ {0}, total = Sum(raw, S),
         NEW w, \A s \in S : w[s] = (rest * raw[s]) \div total
  PROVE  (\A s \in S : w[s] \in Nat) /\ Sum(w, S) \in Nat /\ Sum(w, S) <= rest
<1>1. \A s \in S : w[s] \in Nat /\ total * w[s] <= rest * raw[s] + 0
  <2> TAKE s \in S
  <2>1. PICK x : x = rest * raw[s]
    OBVIOUS
  <2>2. x \in Nat /\ x \in Int
    BY <2>1
  <2>3. x \div total \in Nat /\ total * (x \div total) <= x
    BY <2>2, Divided
  <2> QED
    BY <2>1, <2>2, <2>3
<1>2. PICK t, n : t = Sum(w, S) /\ n = Cardinality(S)
  OBVIOUS
<1>3. t \in Nat /\ n \in Nat
  BY <1>1, <1>2, SumOfNaturals, FS_CardinalityType
<1>4. total * t <= rest * total + 0 * n
  <2>1. total \in Int /\ rest \in Int /\ 0 \in Int
    OBVIOUS
  <2>2. \A s \in S : w[s] \in Int /\ raw[s] \in Int
    BY <1>1
  <2> QED
    BY <1>1, <1>2, <2>1, <2>2, SumBound
<1>5. total * t <= total * rest
  BY <1>3, <1>4
<1>6. t <= rest
  BY <1>3, <1>5, Cancelled
<1> QED
  BY <1>1, <1>2, <1>3, <1>6

\* Nobody has less than nothing or more than the cap, and together they have
\* what there is at most (_capped_weights).
GivesWithin(w, D, target, cap) ==
  /\ \A s \in D : w[s] \in Nat /\ w[s] <= cap
  /\ Sum(w, D) <= target

LEMMA CappedWeights ==
  ASSUME NEW raw, IsFiniteSet(DOMAIN raw), \A s \in DOMAIN raw : raw[s] \in Nat,
         NEW target \in Nat, NEW cap \in Nat \ {0}
  PROVE  GivesWithin(Committee!Capped_Weights(raw, target, cap), DOMAIN raw, target, cap)
<1> DEFINE some == {s \in DOMAIN raw : raw[s] > 0}
           Limit(S) == target - cap * Cardinality(some \ S)
           Share0(g) == g = [S \in SUBSET some |->
             IF {s \in S : Limit(S) * raw[s] > cap * Sum(raw, S)} # {}
             THEN g[S \ {s \in S : Limit(S) * raw[s] > cap * Sum(raw, S)}]
             ELSE [s \in DOMAIN raw |-> CASE s \in S -> (Limit(S) * raw[s]) \div Sum(raw, S)
                                           [] s \in some \ S -> cap
                                           [] OTHER -> 0]]
           share == CHOOSE g : Share0(g)
<1>0. Committee!Capped_Weights(raw, target, cap) = share[some]
  BY Zenon DEF Committee!Capped_Weights, Committee!Cardinality, Cardinality, Committee!Sum, Sum
<1>01. PICK D : D = DOMAIN raw
  OBVIOUS
<1>02. IsFiniteSet(D) /\ \A s \in D : raw[s] \in Nat
  BY <1>01
<1>1. some = {s \in D : raw[s] > 0}
  BY <1>01
<1>2. some \subseteq D /\ IsFiniteSet(some) /\ \A s \in some : raw[s] \in Nat /\ raw[s] > 0
  BY <1>02, <1>1, FS_Subset
<1> HIDE DEF some, share
<1> DEFINE Rest(S) == target - cap * Cardinality(some \ S)
           Over(S) == {s \in S : Rest(S) * raw[s] > cap * Sum(raw, S)}
           End(S) == [s \in D |-> IF s \in S THEN (Rest(S) * raw[s]) \div Sum(raw, S)
                                  ELSE IF s \in some \ S THEN cap ELSE 0]
<1>3. PICK drop, end : drop = [S \in SUBSET some |-> Over(S)] /\ end = [S \in SUBSET some |-> End(S)]
  OBVIOUS
<1>4. \A S \in SUBSET some : drop[S] \subseteq S
  BY <1>3
<1> DEFINE Share(g) == g = [S \in SUBSET some |->
             IF Over(S) # {} THEN g[S \ Over(S)]
             ELSE [s \in D |-> CASE s \in S -> (Rest(S) * raw[s]) \div Sum(raw, S)
                                 [] s \in some \ S -> cap
                                 [] OTHER -> 0]]
<1>5. \E g : Share(g)
  <2>1. PICK g : Narrowing(SUBSET some, drop, end, g)
    BY <1>2, <1>4, NarrowingEnds
  <2>2. g = [S \in SUBSET some |-> IF drop[S] # {} THEN g[S \ drop[S]] ELSE end[S]]
    BY <2>1 DEF Narrowing
  <2>3. \A S \in SUBSET some :
          End(S) = [s \in D |-> CASE s \in S -> (Rest(S) * raw[s]) \div Sum(raw, S)
                                  [] s \in some \ S -> cap
                                  [] OTHER -> 0]
    <3> HIDE DEF Rest
    <3> QED
      OBVIOUS
  <2> HIDE DEF Over, End
  <2>4. \A S \in SUBSET some : drop[S] = Over(S) /\ end[S] = End(S)
    BY <1>3
  <2>5. \A S \in SUBSET some : g[S] = IF Over(S) # {} THEN g[S \ Over(S)] ELSE End(S)
    <3> TAKE S \in SUBSET some
    <3>1. g[S] = IF drop[S] # {} THEN g[S \ drop[S]] ELSE end[S]
      BY <2>2
    <3> QED
      BY <2>4, <3>1
  <2>6. g = [S \in SUBSET some |-> g[S]]
    BY <2>2
  <2>7. g = [S \in SUBSET some |-> IF Over(S) # {} THEN g[S \ Over(S)] ELSE End(S)]
    BY <2>5, <2>6
  <2> HIDE DEF Rest
  <2>8. g = [S \in SUBSET some |->
             IF Over(S) # {} THEN g[S \ Over(S)]
             ELSE [s \in D |-> CASE s \in S -> (Rest(S) * raw[s]) \div Sum(raw, S)
                                 [] s \in some \ S -> cap
                                 [] OTHER -> 0]]
    BY <2>3, <2>7
  <2> QED
    BY <2>8
<1>6. Share(share)
  <2>1. \E g : Share0(g)
    BY <1>01, <1>5
  <2>2. Share0(share)
    BY <2>1, Zenon DEF share
  <2> QED
    BY <1>01, <2>2
<1>8. ASSUME NEW S \in SUBSET some
      PROVE  share[S] = IF Over(S) # {} THEN share[S \ Over(S)] ELSE End(S)
  <2> HIDE DEF Over, Rest
  <2>1. share[S] = IF Over(S) # {} THEN share[S \ Over(S)]
                   ELSE [s \in D |-> CASE s \in S -> (Rest(S) * raw[s]) \div Sum(raw, S)
                                       [] s \in some \ S -> cap
                                       [] OTHER -> 0]
    BY <1>6
  <2>2. End(S) = [s \in D |-> CASE s \in S -> (Rest(S) * raw[s]) \div Sum(raw, S)
                                [] s \in some \ S -> cap
                                [] OTHER -> 0]
    OBVIOUS
  <2> QED
    BY <2>1, <2>2
<1>9. PICK Q : Q = {S \in SUBSET some : Rest(S) \in Nat /\ ~ GivesWithin(share[S], D, target, cap)}
  OBVIOUS
<1>10. ASSUME NEW S \in SUBSET some
       PROVE  /\ IsFiniteSet(S) /\ Cardinality(some \ S) \in Nat
              /\ Rest(S) \in Int /\ Sum(raw, S) \in Nat /\ (S # {} => Sum(raw, S) > 0)
  <2>1. IsFiniteSet(S) /\ IsFiniteSet(some \ S)
    BY <1>2, FS_Subset
  <2>2. Cardinality(some \ S) \in Nat
    BY <2>1, FS_CardinalityType
  <2>3. Sum(raw, S) \in Nat /\ \A s \in S : raw[s] <= Sum(raw, S)
    BY <1>2, <2>1, SumOfNaturals
  <2>4. S # {} => Sum(raw, S) > 0
    BY <1>2, <2>3
  <2> QED
    BY <2>1, <2>2, <2>3, <2>4
<1>11. CASE Q # {}
  <2>1. Q \subseteq SUBSET some
    BY <1>9, Zenon
  <2>2. \E S \in Q : \A U \in Q : U \subseteq S => U = S
    BY <1>2, <1>11, <2>1, Smallest
  <2>3. PICK S \in Q : \A U \in Q : U \subseteq S => U = S
    BY <2>2
  <2>4. S \in SUBSET some /\ Rest(S) \in Nat /\ ~ GivesWithin(share[S], D, target, cap)
    BY <1>9, <2>3, Zenon
  <2>5. PICK rest, total, over : rest = Rest(S) /\ total = Sum(raw, S) /\ over = Over(S)
    OBVIOUS
  <2>6. rest \in Nat /\ total \in Nat /\ (S # {} => total > 0) /\ over \subseteq S
        /\ over = {s \in S : rest * raw[s] > cap * total} /\ IsFiniteSet(S)
    BY <1>10, <2>4, <2>5
  <2>7. CASE over # {}
    <3>1. PICK V : V = S \ over
      OBVIOUS
    <3>2. V \in SUBSET some /\ V \subseteq S /\ V # S
      BY <2>4, <2>6, <2>7, <3>1
    <3>3. IsFiniteSet(over) /\ \A s \in over : raw[s] \in Nat
      BY <1>2, <2>4, <2>6, FS_Subset
    <3>4. cap * Cardinality(over) <= rest
      <4>1. total \in Nat \ {0}
        BY <2>6, <2>7
      <4>2. Sum(raw, over) <= total
        <5>1. \A s \in S : raw[s] \in Nat
          BY <1>2, <2>4
        <5> QED
          BY <2>5, <2>6, <5>1, SumOfNaturals
      <4>3. \A s \in over : rest * raw[s] >= cap * total
        <5> TAKE s \in over
        <5>1. PICK r : r = raw[s]
          OBVIOUS
        <5>2. rest * r > cap * total /\ rest * r \in Int /\ cap * total \in Int
          BY <2>6, <3>3, <5>1
        <5> QED
          BY <5>1, <5>2
      <4>4. rest \in Int /\ cap \in Nat /\ cap > 0
        BY <2>6
      <4> QED
        BY <2>7, <3>3, <4>1, <4>2, <4>3, <4>4, CappedIsLeft
    <3>5. Cardinality(some \ V) = Cardinality(some \ S) + Cardinality(over)
      <4>1. PICK A, B : A = some \ S /\ B = some \ V
        OBVIOUS
      <4>2. B = A \cup over /\ A \cap over = {}
        BY <2>4, <2>6, <3>1, <4>1
      <4>3. IsFiniteSet(A)
        BY <1>2, <4>1, FS_Subset
      <4>4. Cardinality(A \cup over) = Cardinality(A) + Cardinality(over) - Cardinality(A \cap over)
        BY <3>3, <4>3, FS_Union
      <4>5. Cardinality({}) = 0 /\ Cardinality(A) \in Nat /\ Cardinality(over) \in Nat
        BY <3>3, <4>3, FS_EmptySet, FS_CardinalityType
      <4>6. PICK a, b, c : a = Cardinality(A) /\ b = Cardinality(over) /\ c = Cardinality(B)
        OBVIOUS
      <4>7. c = a + b - 0 /\ a \in Nat /\ b \in Nat
        BY <4>2, <4>4, <4>5, <4>6
      <4> QED
        BY <4>1, <4>6, <4>7
    <3>6. Rest(V) = rest - cap * Cardinality(over) /\ Rest(V) \in Nat
      <4>1. PICK a, b, c : a = Cardinality(some \ S) /\ b = Cardinality(over) /\ c = Cardinality(some \ V)
        OBVIOUS
      <4>2. a \in Nat /\ b \in Nat
        BY <1>10, <2>4, <3>3, <4>1, FS_CardinalityType
      <4>3. c = a + b
        BY <3>5, <4>1
      <4>4. cap * c = cap * a + cap * b /\ cap * a \in Nat /\ cap * b \in Nat
        BY <4>2, <4>3
      <4>5. rest = target - cap * a /\ Rest(V) = target - cap * c
        BY <2>5, <4>1
      <4> QED
        BY <2>6, <3>4, <4>1, <4>4, <4>5
    <3>7. V \notin Q
      BY <2>3, <3>2
    <3>8. GivesWithin(share[V], D, target, cap)
      <4> HIDE DEF Rest
      <4> QED
        BY <1>9, <3>2, <3>6, <3>7
    <3>9. share[S] = share[V]
      <4> HIDE DEF Over
      <4> QED
        BY <1>8, <2>4, <2>5, <2>7, <3>1
    <3> QED
      BY <2>4, <3>8, <3>9
  <2>8. CASE over = {}
    <3>1. PICK w : w = share[S]
      OBVIOUS
    <3>2. w = [s \in D |-> IF s \in S THEN (rest * raw[s]) \div total
                           ELSE IF s \in some \ S THEN cap ELSE 0]
      <4>1. share[S] = End(S)
        <5> HIDE DEF Over
        <5> QED
          BY <1>8, <2>4, <2>5, <2>8
      <4>2. End(S) = [s \in D |-> IF s \in S THEN (rest * raw[s]) \div total
                                  ELSE IF s \in some \ S THEN cap ELSE 0]
        <5> HIDE DEF Rest
        <5> QED
          BY <2>5
      <4> QED
        BY <3>1, <4>1, <4>2
    <3>3. /\ \A s \in S : w[s] = (rest * raw[s]) \div total
          /\ \A s \in some \ S : w[s] = cap
          /\ \A s \in D \ some : w[s] = 0
      BY <1>2, <2>4, <3>2
    <3>4. (\A s \in S : w[s] \in Nat) /\ Sum(w, S) \in Nat /\ Sum(w, S) <= rest
      <4>1. CASE S = {}
        <5>1. Sum(w, {}) = 0
          BY SumOfNone
        <5> QED
          BY <2>6, <4>1, <5>1
      <4>2. CASE S # {}
        <5>1. total \in Nat \ {0} /\ total = Sum(raw, S) /\ rest \in Nat /\ IsFiniteSet(S)
          BY <2>5, <2>6, <4>2
        <5>2. \A s \in S : raw[s] \in Nat
          BY <1>2, <2>4
        <5>3. \A s \in S : w[s] = (rest * raw[s]) \div total
          BY <3>3
        <5> QED
          BY <5>1, <5>2, <5>3, Proportion
      <4> QED
        BY <4>1, <4>2
    <3>5. \A s \in S : w[s] <= cap
      <4> TAKE s \in S
      <4>1. PICK r, x : r = raw[s] /\ x = w[s]
        OBVIOUS
      <4>2. r \in Nat /\ total \in Nat \ {0} /\ rest \in Nat
        BY <1>2, <2>4, <2>6, <4>1
      <4>3. PICK y : y = rest * r
        OBVIOUS
      <4>4. y \in Nat /\ y \in Int
        BY <4>2, <4>3
      <4>5. total * (y \div total) <= y
        BY <4>2, <4>4, Divided
      <4>6. x \in Nat /\ total * x <= y
        BY <3>3, <3>4, <4>1, <4>3, <4>5
      <4>7. ~(y > cap * total)
        BY <2>6, <2>8, <4>1, <4>3
      <4>8. total * x <= total * cap /\ cap \in Int /\ x \in Int
        BY <4>2, <4>4, <4>6, <4>7
      <4>9. x <= cap
        BY <4>2, <4>8, Cancelled
      <4> QED
        BY <4>1, <4>9
    <3>6. \A s \in D : w[s] \in Nat /\ w[s] <= cap
      BY <3>3, <3>4, <3>5
    <3>7. Sum(w, D) = Sum(w, some)
      <4>1. \A s \in D : w[s] \in Int
        BY <3>6
      <4>2. IsFiniteSet(D) /\ some \subseteq D /\ \A s \in D \ some : w[s] = 0
        BY <1>02, <1>2, <3>3
      <4> QED
        BY <4>1, <4>2, SumOfRest
    <3>8. Sum(w, some) = Sum(w, S) + Sum(w, some \ S)
      <4>1. PICK f, g : f = [s \in some |-> IF s \in S THEN w[s] ELSE 0]
                        /\ g = [s \in some |-> IF s \in S THEN 0 ELSE w[s]]
        OBVIOUS
      <4>2. \A s \in some : f[s] \in Int /\ g[s] \in Int /\ w[s] = f[s] + g[s]
        BY <1>2, <3>6, <4>1
      <4>3. Sum(w, some) = Sum(f, some) + Sum(g, some)
        BY <1>2, <4>2, SumOfBoth
      <4>4. Sum(f, some) = Sum(f, S)
        <5>1. S \subseteq some /\ \A s \in some \ S : f[s] = 0
          BY <2>4, <4>1
        <5>2. \A s \in some : f[s] \in Int
          BY <4>2
        <5> QED
          BY <1>2, <5>1, <5>2, SumOfRest
      <4>5. Sum(g, some) = Sum(g, some \ S)
        <5>1. some \ S \subseteq some /\ \A s \in some \ (some \ S) : g[s] = 0
          BY <2>4, <4>1
        <5>2. \A s \in some : g[s] \in Int
          BY <4>2
        <5>3. PICK V : V = some \ S
          OBVIOUS
        <5> QED
          BY <1>2, <5>1, <5>2, <5>3, SumOfRest
      <4>6. Sum(f, S) = Sum(w, S)
        <5>1. \A s \in S : f[s] \in Int /\ f[s] = w[s]
          BY <2>4, <4>1, <4>2
        <5> QED
          BY <2>6, <5>1, SumOfSame
      <4>7. Sum(g, some \ S) = Sum(w, some \ S)
        <5>1. PICK V : V = some \ S
          OBVIOUS
        <5>2. \A s \in V : g[s] \in Int /\ g[s] = w[s]
          BY <4>1, <4>2, <5>1
        <5>3. IsFiniteSet(V)
          BY <1>2, <5>1, FS_Subset
        <5> QED
          BY <5>1, <5>2, <5>3, SumOfSame
      <4> QED
        BY <4>3, <4>4, <4>5, <4>6, <4>7
    <3>9. Sum(w, some \ S) = cap * Cardinality(some \ S)
      <4>1. PICK V : V = some \ S
        OBVIOUS
      <4>2. IsFiniteSet(V) /\ cap \in Int /\ \A s \in V : w[s] = cap
        BY <1>2, <3>3, <4>1, FS_Subset
      <4> QED
        BY <4>1, <4>2, SumOfEqual
    <3>10. Sum(w, D) <= target
      <4>1. PICK a : a = cap * Cardinality(some \ S)
        OBVIOUS
      <4>2. a \in Int /\ rest = target - a
        BY <1>10, <2>4, <2>5, <4>1
      <4> QED
        BY <2>6, <3>4, <3>7, <3>8, <3>9, <4>1, <4>2
    <3>11. GivesWithin(w, D, target, cap)
      BY <3>6, <3>10 DEF GivesWithin
    <3> QED
      BY <2>4, <3>1, <3>11
  <2> QED
    BY <2>7, <2>8
<1>12. CASE Q = {}
  <2>1. Rest(some) = target
    <3>1. some \ some = {}
      OBVIOUS
    <3>2. Cardinality(some \ some) = 0
      BY <3>1, FS_EmptySet
    <3>3. cap * Cardinality(some \ some) = 0
      BY <3>2
    <3> QED
      BY <3>3
  <2>2. Rest(some) \in Nat
    BY <2>1
  <2>3. some \notin Q /\ some \in SUBSET some
    BY <1>12
  <2> HIDE DEF Rest
  <2>4. GivesWithin(share[some], D, target, cap)
    BY <1>9, <2>2, <2>3
  <2> QED
    BY <1>0, <1>01, <2>4
<1> QED
  BY <1>11, <1>12

\* The hub never multiplies by more than 1.
LEMMA MultiplierBound ==
  ASSUME NEW fits, NEW budget, Sound(fits, budget), NEW selected \in SUBSET Strategies,
         NEW utility, \A s \in selected : utility[s] \in Nat
  PROVE  /\ Committee!Regime_Multiplier(fits, budget, selected, utility) \in Nat
         /\ Committee!Regime_Multiplier(fits, budget, selected, utility) <= 100
<1>1. IsFiniteSet(selected)
  BY FewOfEach, FS_Subset
<1>2. PICK entire : entire = Sum(utility, selected)
  OBVIOUS
<1>3. PICK f : f = [s \in selected |-> utility[s] * Committee!Min({100, fits[s].risk})]
  OBVIOUS
<1>4. PICK multiplier : multiplier = Committee!Regime_Multiplier(fits, budget, selected, utility)
  OBVIOUS
<1>5. multiplier = IF selected = {} \/ entire = 0 THEN Committee!Min({100, budget})
                   ELSE Committee!Total(f) \div entire
  <2>1. Committee!Sum(utility, selected) = entire
    BY <1>2, CommitteeSums
  <2> QED
    BY <1>3, <1>4, <2>1 DEF Committee!Regime_Multiplier
<1>6. \A x \in Nat : Committee!Min({100, x}) \in Nat /\ Committee!Min({100, x}) <= 100
  <2> TAKE x \in Nat
  <2>1. 100 \in Int /\ x \in Int
    OBVIOUS
  <2>2. Committee!Min({100, x}) = IF 100 <= x THEN 100 ELSE x
    BY <2>1, LargerSmaller
  <2> QED
    BY <2>1, <2>2
<1>7. CASE selected = {} \/ entire = 0
  <2>1. budget \in Nat
    BY DEF Sound
  <2> QED
    BY <1>4, <1>5, <1>6, <1>7, <2>1
<1>8. CASE ~(selected = {} \/ entire = 0)
  <2>1. entire \in Nat \ {0}
    BY <1>1, <1>2, <1>8, SumOfNaturals
  <2>2. \A s \in selected : /\ f[s] \in Nat /\ utility[s] \in Nat
                            /\ 1 * f[s] <= 100 * utility[s] + 0
    <3> TAKE s \in selected
    <3>1. fits[s].risk \in Nat
      BY DEF Sound
    <3>2. PICK u, x : u = utility[s] /\ x = Committee!Min({100, fits[s].risk})
      OBVIOUS
    <3>3. u \in Nat /\ x \in Nat /\ x <= 100 /\ 100 \in Nat
      BY <1>6, <3>1, <3>2
    <3>4. u * x <= u * 100 /\ u * x \in Nat
      BY <3>3, Scaling
    <3>5. f[s] = u * x
      BY <1>3, <3>2
    <3> QED
      BY <3>2, <3>3, <3>4, <3>5
  <2>3. PICK t : t = Sum(f, selected)
    OBVIOUS
  <2>4. t \in Nat /\ 1 * t <= 100 * entire + 0 * Cardinality(selected)
    <3>1. \A s \in selected : f[s] \in Int /\ utility[s] \in Int
      BY <2>2
    <3>2. 1 \in Int /\ 100 \in Int /\ 0 \in Int
      OBVIOUS
    <3> QED
      BY <1>1, <1>2, <2>2, <2>3, <3>1, <3>2, SumBound, SumOfNaturals
  <2>5. Cardinality(selected) \in Nat
    BY <1>1, FS_CardinalityType
  <2>6. t <= entire * 100
    BY <2>1, <2>4, <2>5
  <2>7. PICK q : q = t \div entire
    OBVIOUS
  <2>8. q \in Nat /\ entire * q <= t
    <3>1. t \in Int
      BY <2>4
    <3> QED
      BY <2>1, <2>4, <2>7, <3>1, Divided
  <2>9. q <= 100
    <3>1. entire * q <= entire * 100 /\ q \in Int /\ 100 \in Int
      <4>1. entire * q \in Int /\ entire * 100 \in Int
        BY <2>1, <2>8
      <4> QED
        BY <2>4, <2>6, <2>8, <4>1
    <3> QED
      BY <2>1, <3>1, Cancelled
  <2>10. Committee!Total(f) = t
    <3>1. DOMAIN f = selected
      BY <1>3
    <3> QED
      BY <2>3, <3>1, CommitteeTotal
  <2> QED
    BY <1>4, <1>5, <1>8, <2>7, <2>8, <2>9, <2>10
<1> QED
  BY <1>7, <1>8

\* What the strategies give the symbols is what they have, at most.
LEMMA SpreadOut ==
  ASSUME NEW S, IsFiniteSet(S), NEW Y, IsFiniteSet(Y), NEW weightOf, NEW part,
         \A s \in S : weightOf[s] \in Nat /\ (\A y \in Y : part[s][y] \in Nat)
                      /\ Sum(part[s], Y) <= weightOf[s]
  PROVE  \E entire : /\ entire = [y \in Y |-> Sum([s \in S |-> part[s][y]], S)]
                     /\ Sum(entire, Y) <= Sum(weightOf, S)
<1> DEFINE Row(y) == [s \in S |-> part[s][y]]
           Come(V) == [y \in Y |-> Sum(Row(y), V)]
           P(V) == Sum(Come(V), Y) <= Sum(weightOf, V)
<1>1. PICK Q : Q = {V \in SUBSET S : ~ P(V)}
  OBVIOUS
<1>2. Q \subseteq SUBSET S
  BY <1>1, Zenon
<1>3. ASSUME NEW V \in SUBSET S
      PROVE  /\ IsFiniteSet(V)
             /\ \A y \in Y : Sum(Row(y), V) \in Nat
             /\ \A y \in Y, x \in V : Sum(Row(y), V) = part[x][y] + Sum(Row(y), V \ {x})
  <2>1. IsFiniteSet(V)
    BY FS_Subset
  <2>2. \A y \in Y : \A s \in V : Row(y)[s] = part[s][y] /\ part[s][y] \in Nat
    OBVIOUS
  <2> HIDE DEF Row
  <2>3. ASSUME NEW y \in Y
        PROVE  /\ Sum(Row(y), V) \in Nat
               /\ \A x \in V : Sum(Row(y), V) = part[x][y] + Sum(Row(y), V \ {x})
    <3>1. PICK r : r = Row(y)
      OBVIOUS
    <3>2. \A s \in V : r[s] \in Nat /\ r[s] = part[s][y]
      BY <2>2, <3>1
    <3>3. Sum(r, V) \in Nat
      BY <2>1, <3>2, SumOfNaturals
    <3>4. \A s \in V : r[s] \in Int
      BY <3>2
    <3>5. \A x \in V : Sum(r, V) = r[x] + Sum(r, V \ {x})
      BY <2>1, <3>4, SumWithout
    <3> QED
      BY <3>1, <3>2, <3>3, <3>5
  <2> QED
    BY <2>1, <2>3
<1> HIDE DEF Row
<1>4. ASSUME Q # {} PROVE FALSE
  <2>1. \E V \in Q : \A U \in Q : U \subseteq V => U = V
    BY <1>2, <1>4, Smallest
  <2>2. PICK V \in Q : \A U \in Q : U \subseteq V => U = V
    BY <2>1
  <2>3. V \in SUBSET S /\ ~ P(V)
    BY <1>1, <2>2, Zenon
  <2>4. V # {}
    <3>1. SUFFICES ASSUME V = {} PROVE FALSE
      OBVIOUS
    <3>2. PICK f : f = Come({})
      OBVIOUS
    <3>3. \A y \in Y : f[y] = 0
      BY <3>2, SumOfNone
    <3>4. Sum(f, Y) = 0 * Cardinality(Y)
      <4>1. 0 \in Int
        OBVIOUS
      <4> QED
        BY <3>3, <4>1, SumOfEqual
    <3>5. Cardinality(Y) \in Nat
      BY FS_CardinalityType
    <3>6. Sum(weightOf, {}) = 0
      BY SumOfNone
    <3> QED
      BY <2>3, <3>1, <3>2, <3>4, <3>5, <3>6
  <2>5. PICK x \in V : TRUE
    BY <2>4
  <2>6. PICK U : U = V \ {x}
    OBVIOUS
  <2>7. U \in SUBSET S /\ U \subseteq V /\ U # V
    BY <2>3, <2>6
  <2>8. P(U)
    <3>1. U \notin Q
      BY <2>2, <2>7
    <3> QED
      BY <1>1, <2>7, <3>1, Zenon
  <2>9. PICK f, g, h : f = part[x] /\ g = Come(U) /\ h = Come(V)
    OBVIOUS
  <2>10. \A y \in Y : f[y] \in Int /\ g[y] \in Int /\ h[y] = f[y] + g[y]
    <3> TAKE y \in Y
    <3>1. g[y] = Sum(Row(y), U) /\ h[y] = Sum(Row(y), V)
      BY <2>9
    <3>2. Sum(Row(y), U) \in Nat
      BY <1>3, <2>7
    <3>3. Sum(Row(y), V) = part[x][y] + Sum(Row(y), U)
      BY <1>3, <2>3, <2>5, <2>6
    <3>4. part[x][y] \in Nat
      BY <2>3, <2>5
    <3> QED
      BY <2>9, <3>1, <3>2, <3>3, <3>4
  <2>11. Sum(h, Y) = Sum(f, Y) + Sum(g, Y)
    BY <2>10, SumOfBoth
  <2>12. Sum(weightOf, V) = weightOf[x] + Sum(weightOf, U) /\ Sum(weightOf, U) \in Int
    <3>1. IsFiniteSet(V) /\ \A s \in V : weightOf[s] \in Int
      BY <1>3, <2>3
    <3>2. IsFiniteSet(U) /\ \A s \in U : weightOf[s] \in Int
      BY <1>3, <2>7
    <3>3. Sum(weightOf, U) \in Int
      BY <3>2, SumWithout
    <3>4. \A s \in V : Sum(weightOf, V) = weightOf[s] + Sum(weightOf, V \ {s})
      BY <3>1, SumWithout
    <3> QED
      BY <2>5, <2>6, <3>3, <3>4
  <2>13. Sum(f, Y) <= weightOf[x] /\ Sum(f, Y) \in Int /\ weightOf[x] \in Nat
    <3>1. \A y \in Y : f[y] \in Int
      BY <2>10
    <3>2. Sum(f, Y) \in Int
      BY <3>1, SumWithout
    <3> QED
      BY <2>3, <2>5, <2>9, <3>2
  <2>14. Sum(g, Y) \in Int
    <3>1. \A y \in Y : g[y] \in Int
      BY <2>10
    <3> QED
      BY <3>1, SumWithout
  <2>15. Sum(g, Y) <= Sum(weightOf, U)
    BY <2>8, <2>9, Zenon
  <2>16. Sum(h, Y) <= Sum(weightOf, V)
    BY <2>11, <2>12, <2>13, <2>14, <2>15
  <2> QED
    BY <2>3, <2>9, <2>16, Zenon
<1>5. P(S)
  <2>1. S \in SUBSET S
    OBVIOUS
  <2> QED
    BY <1>1, <1>4, <2>1, Zenon
<1>6. PICK entire : entire = Come(S)
  OBVIOUS
<1>7. Sum(entire, Y) <= Sum(weightOf, S)
  BY <1>5, <1>6, Zenon
<1>8. entire = [y \in Y |-> Sum([s \in S |-> part[s][y]], S)]
  BY <1>6 DEF Row
<1> QED
  BY <1>7, <1>8

\* A candidate has no more than the cap and no more than what was meant for it.
LEMMA CandidateBound ==
  ASSUME NEW x \in Nat
  PROVE  /\ Committee!Candidate_Cap(x) \in Nat /\ Committee!Candidate_Cap(x) <= x
         /\ Committee!Candidate_Cap(x) <= 2500
<1>1. x \in Int /\ 2500 \in Int
  OBVIOUS
<1>2. Committee!Candidate_Cap(x) = IF x <= 2500 THEN x ELSE 2500
  BY <1>1, LargerSmaller DEF Committee!Candidate_Cap, Committee!MAX_CANDIDATE_MODEL_WEIGHT
<1> QED
  BY <1>1, <1>2

\* What is given to the symbols is within what the strategies have.
LEMMA TargetsBound ==
  ASSUME NEW weightOf, \A s \in Strategies : weightOf[s] \in Nat, NEW target
  PROVE  target = [y \in Symbols |-> Committee!Candidate_Cap(Committee!Total(
                    [s \in Strategies |-> (weightOf[s] * Committee!Normalised[s][y]) \div 100]))] =>
         /\ \A y \in Symbols : target[y] <= 2500
         /\ Committee!Total(target) \in Nat /\ Committee!Total(target) <= Sum(weightOf, Strategies)
<1>0. SUFFICES ASSUME target = [y \in Symbols |-> Committee!Candidate_Cap(Committee!Total(
                    [s \in Strategies |-> (weightOf[s] * Committee!Normalised[s][y]) \div 100]))]
               PROVE  /\ \A y \in Symbols : target[y] <= 2500
                      /\ Committee!Total(target) \in Nat
                      /\ Committee!Total(target) <= Sum(weightOf, Strategies)
  OBVIOUS
<1>1. PICK part : part = [s \in Strategies |-> [y \in Symbols |->
                            (weightOf[s] * Committee!Normalised[s][y]) \div 100]]
  OBVIOUS
<1>2. ASSUME NEW s \in Strategies
      PROVE  /\ \A y \in Symbols : part[s][y] \in Nat
             /\ Sum(part[s], Symbols) <= weightOf[s]
  <2>1. PICK w, shares, p : w = weightOf[s] /\ shares = Committee!Normalised[s] /\ p = part[s]
    OBVIOUS
  <2>2. w \in Nat /\ (\A y \in Symbols : shares[y] \in Nat) /\ Sum(shares, Symbols) <= 100
    BY <2>1, NormalisedTyped
  <2>3. \A y \in Symbols : p[y] = (w * shares[y]) \div 100
    BY <1>1, <2>1
  <2>4. \A y \in Symbols : p[y] \in Nat /\ 100 * p[y] <= w * shares[y] + 0
    <3> TAKE y \in Symbols
    <3>1. PICK x : x = w * shares[y]
      OBVIOUS
    <3>2. x \in Nat /\ x \in Int /\ 100 \in Nat \ {0}
      BY <2>2, <3>1
    <3>3. x \div 100 \in Nat /\ 100 * (x \div 100) <= x
      BY <3>2, Divided
    <3> QED
      BY <2>3, <3>1, <3>2, <3>3
  <2>5. PICK t, n, h : t = Sum(p, Symbols) /\ n = Cardinality(Symbols) /\ h = Sum(shares, Symbols)
    OBVIOUS
  <2>6. t \in Nat /\ n \in Nat /\ h \in Nat /\ h <= 100
    <3>1. t \in Nat
      BY <2>4, <2>5, FewOfEach, SumOfNaturals
    <3>2. h \in Nat
      BY <2>2, <2>5, FewOfEach, SumOfNaturals
    <3>3. n \in Nat
      BY <2>5, FewOfEach, FS_CardinalityType
    <3> QED
      BY <2>2, <2>5, <3>1, <3>2, <3>3
  <2>7. 100 * t <= w * h + 0 * n
    <3>1. 100 \in Int /\ w \in Int /\ 0 \in Int
      BY <2>2
    <3>2. \A y \in Symbols : p[y] \in Int /\ shares[y] \in Int
      BY <2>2, <2>4
    <3> QED
      BY <2>4, <2>5, <3>1, <3>2, FewOfEach, SumBound
  <2>8. w * h <= w * 100
    <3>1. 100 \in Nat
      OBVIOUS
    <3> QED
      BY <2>2, <2>6, <3>1, Scaling
  <2>9. t <= w
    <3>1. w * h \in Nat /\ 0 * n = 0
      BY <2>2, <2>6
    <3> QED
      BY <2>2, <2>6, <2>7, <2>8, <3>1
  <2> QED
    BY <2>1, <2>4, <2>5, <2>9
<1>3. PICK entire : /\ entire = [y \in Symbols |-> Sum([s \in Strategies |-> part[s][y]], Strategies)]
                    /\ Sum(entire, Symbols) <= Sum(weightOf, Strategies)
  <2>1. \A s \in Strategies : /\ weightOf[s] \in Nat /\ \A y \in Symbols : part[s][y] \in Nat
                              /\ Sum(part[s], Symbols) <= weightOf[s]
    BY <1>2
  <2> QED
    BY <2>1, FewOfEach, SpreadOut
<1>4. ASSUME NEW y \in Symbols
      PROVE  entire[y] \in Nat /\ target[y] = Committee!Candidate_Cap(entire[y])
  <2>1. PICK column : column = [s \in Strategies |-> part[s][y]]
    OBVIOUS
  <2>2. column = [s \in Strategies |-> (weightOf[s] * Committee!Normalised[s][y]) \div 100]
    BY <1>1, <2>1
  <2>3. Committee!Total(column) = Sum(column, Strategies)
    <3>1. DOMAIN column = Strategies
      BY <2>1
    <3> QED
      BY <3>1, CommitteeTotal
  <2>4. target[y] = Committee!Candidate_Cap(Committee!Total(column))
    BY <1>0, <2>2
  <2>5. entire[y] = Sum(column, Strategies)
    BY <1>3, <2>1
  <2>6. entire[y] \in Nat
    <3>1. \A s \in Strategies : column[s] \in Nat
      BY <1>2, <2>1
    <3> QED
      BY <2>5, <3>1, FewOfEach, SumOfNaturals
  <2> QED
    BY <2>3, <2>4, <2>5, <2>6
<1>5. \A y \in Symbols : target[y] \in Nat /\ target[y] <= entire[y] /\ target[y] <= 2500
  BY <1>4, CandidateBound
<1>6. PICK t, a, w : t = Sum(target, Symbols) /\ a = Sum(entire, Symbols) /\ w = Sum(weightOf, Strategies)
  OBVIOUS
<1>7. t \in Nat /\ a \in Nat /\ w \in Nat /\ t <= a
  <2>1. \A y \in Symbols : target[y] \in Int /\ entire[y] \in Int /\ target[y] <= entire[y]
    BY <1>4, <1>5
  <2>2. t <= a
    BY <1>6, <2>1, FewOfEach, SumOfLess
  <2>3. t \in Nat
    <3>1. PICK f : f = target
      OBVIOUS
    <3>2. \A y \in Symbols : f[y] \in Nat
      BY <1>5, <3>1
    <3>3. Sum(f, Symbols) \in Nat
      BY <3>2, FewOfEach, SumOfNaturals
    <3> QED
      BY <1>6, <3>1, <3>3
  <2>4. a \in Nat
    BY <1>4, <1>6, FewOfEach, SumOfNaturals
  <2>5. w \in Nat
    BY <1>6, FewOfEach, SumOfNaturals
  <2> QED
    BY <2>2, <2>3, <2>4, <2>5
<1>8. Committee!Total(target) = t
  <2>1. DOMAIN target = Symbols
    BY <1>0
  <2> QED
    BY <1>6, <2>1, CommitteeTotal
<1>9. t <= w
  BY <1>3, <1>6, <1>7
<1>10. \A y \in Symbols : target[y] <= 2500
  BY <1>5
<1>11. PICK total : total = Committee!Total(target)
  OBVIOUS
<1>12. total \in Nat /\ total <= Sum(weightOf, Strategies)
  BY <1>6, <1>7, <1>8, <1>9, <1>11
<1> QED
  BY <1>10, <1>11, <1>12

\* What is composed keeps the limits (compose_committee).
LEMMA ComposedKeepsLimits ==
  ASSUME NEW table, Seen(table), NEW fits, NEW budget, Sound(fits, budget),
         MinMature \in Nat, MinMature >= 3, MaxSelected \in Nat
  PROVE  Committee!KeepsLimits(table, fits, Committee!Compose(table, fits, budget))
<1> DEFINE approved == Committee!Approved(table, fits)
           utility == Committee!Utilities(table, fits, approved)
           selected == Committee!Selected(table, approved, utility)
           redundancy == Committee!Average_Redundancy(table, selected)
           base == Committee!Base_Investable(selected, redundancy)
           multiplier == Committee!Regime_Multiplier(fits, budget, selected, utility)
           investable == base * multiplier
           weightOf == Committee!Shares(selected, utility, investable)
           target == Committee!Targets(weightOf)
           cash == Committee!Max({0, 10000 - Committee!Total(target)})
           state == [s \in Strategies |-> Committee!Committee_State(table[s], fits[s])]
           states == [s \in Strategies |-> IF s \in approved \ selected THEN "reserve" ELSE state[s]]
           status == IF \E s \in Strategies : state[s] = "suspended" THEN "degraded"
                     ELSE IF selected = {} THEN "collecting"
                     ELSE IF Committee!Cardinality(selected) = 1 \/ redundancy >= 65
                     THEN "concentrated" ELSE "active"
           result == Committee!Compose(table, fits, budget)
<1>0. \E a, b : result = [state |-> a, weight |-> weightOf, target |-> target, base |-> base,
                         investable |-> investable, cash |-> cash, status |-> b]
  <2>1. result = [state |-> states, weight |-> weightOf, target |-> target, base |-> base,
                  investable |-> investable, cash |-> cash, status |-> status]
    BY Zenon DEF Committee!Compose, Committee!Result
  <2> HIDE DEF states, status, weightOf, target, base, investable, cash, result
  <2> QED
    BY <2>1
<1>1. approved = Committee!Approved(table, fits)
  OBVIOUS
<1> HIDE DEF approved
<1>2. utility = Committee!Utilities(table, fits, approved)
  OBVIOUS
<1> HIDE DEF utility
<1>3. selected = Committee!Selected(table, approved, utility)
  OBVIOUS
<1> HIDE DEF selected, redundancy
<1>5. base = Committee!Base_Investable(selected, redundancy)
  OBVIOUS
<1> HIDE DEF base
<1>6. multiplier = Committee!Regime_Multiplier(fits, budget, selected, utility)
  OBVIOUS
<1> HIDE DEF multiplier
<1>7. investable = base * multiplier
  OBVIOUS
<1> HIDE DEF investable
<1>8. weightOf = Committee!Shares(selected, utility, investable)
  OBVIOUS
<1> HIDE DEF weightOf
<1>9. target = Committee!Targets(weightOf)
  OBVIOUS
<1> HIDE DEF target
<1>10. cash = Committee!Max({0, 10000 - Committee!Total(target)})
  OBVIOUS
<1> HIDE DEF cash
<1>11. result = Committee!Compose(table, fits, budget)
  OBVIOUS
<1> HIDE DEF result
<1>12. /\ result.weight = weightOf /\ result.target = target /\ result.base = base
       /\ result.investable = investable /\ result.cash = cash
  <2>2. PICK a, b : result = [state |-> a, weight |-> weightOf, target |-> target, base |-> base,
                              investable |-> investable, cash |-> cash, status |-> b]
    BY <1>0
  <2> QED
    BY <2>2
<1> DEFINE cap == Committee!MAX_STRATEGY_WEIGHT
<1>71. cap = 5000
  BY DEF Committee!MAX_STRATEGY_WEIGHT
<1> HIDE DEF cap
<1>13. approved \in SUBSET Strategies /\ \A s \in approved : utility[s] \in Nat
  <2>1. approved \in SUBSET Strategies
    BY <1>1 DEF Committee!Approved
  <2>2. \A s \in approved : Committee!Allocation_Utility(table, fits, approved, s) \in Nat
    BY <2>1, UtilityTyped
  <2> QED
    BY <1>2, <2>1, <2>2 DEF Committee!Utilities
<1>14. selected \subseteq approved /\ Cardinality(selected) <= MaxSelected
  BY <1>3, <1>13, SelectedFew
<1>15. IsFiniteSet(selected) /\ selected \in SUBSET Strategies /\ \A s \in selected : utility[s] \in Nat
  <2>1. selected \in SUBSET Strategies /\ \A s \in selected : utility[s] \in Nat
    BY <1>13, <1>14
  <2> QED
    BY <2>1, FewOfEach, FS_Subset
<1>16. base \in Nat
  BY <1>5 DEF Committee!Base_Investable
<1>17. multiplier \in Nat /\ multiplier <= 100
  BY <1>6, <1>15, MultiplierBound
<1>18. investable \in Nat /\ investable <= 100 * base
  <2>1. 100 \in Nat
    OBVIOUS
  <2>2. base * multiplier <= base * 100 /\ base * multiplier \in Nat
    BY <1>16, <1>17, <2>1, Scaling
  <2> QED
    BY <1>7, <1>16, <2>2
<1>70. PICK raw : raw = [s \in selected |-> utility[s]]
  OBVIOUS
<1>72. PICK weights : weights = Committee!Capped_Weights(raw, investable, cap)
  OBVIOUS
<1>73. weightOf = [s \in Strategies |-> IF s \in selected THEN weights[s] ELSE 0]
  BY <1>8, <1>70, <1>72 DEF Committee!Shares, cap
<1>19. GivesWithin(weights, selected, investable, cap)
  <2>1. DOMAIN raw = selected
    BY <1>70
  <2>2. \A s \in DOMAIN raw : raw[s] \in Nat
    BY <1>70, <1>15
  <2>3. IsFiniteSet(DOMAIN raw) /\ cap \in Nat \ {0}
    BY <1>15, <1>71, <2>1
  <2>4. GivesWithin(Committee!Capped_Weights(raw, investable, cap), DOMAIN raw, investable, cap)
    BY <1>18, <2>2, <2>3, CappedWeights
  <2> QED
    BY <1>72, <2>1, <2>4
<1>20. \A s \in Strategies : /\ weightOf[s] \in Nat /\ weightOf[s] <= cap
                              /\ (weightOf[s] > 0 => s \in selected)
  BY <1>73, <1>19, <1>71 DEF GivesWithin
<1>21. Sum(weightOf, Strategies) <= investable
  <2>1. (\A s \in Strategies : weightOf[s] \in Int) /\ \A s \in Strategies \ selected : weightOf[s] = 0
    BY <1>73, <1>20
  <2>2. Sum(weightOf, Strategies) = Sum(weightOf, selected)
    BY <1>15, <2>1, FewOfEach, SumOfRest
  <2>3. \A s \in selected : weightOf[s] \in Int /\ weightOf[s] = weights[s]
    BY <1>73, <1>15, <1>20
  <2>4. Sum(weightOf, selected) = Sum(weights, selected)
    BY <1>15, <2>3, SumOfSame
  <2>5. Sum(weights, selected) <= investable
    BY <1>19 DEF GivesWithin
  <2> QED
    BY <2>2, <2>4, <2>5
<1>22. Committee!Total(weightOf) = Sum(weightOf, Strategies)
  <2>1. DOMAIN weightOf = Strategies
    BY <1>73
  <2> QED
    BY <2>1, CommitteeTotal
<1>23. /\ \A y \in Symbols : target[y] <= 2500
       /\ Committee!Total(target) \in Nat /\ Committee!Total(target) <= Sum(weightOf, Strategies)
  <2>1. \A s \in Strategies : weightOf[s] \in Nat
    BY <1>20
  <2> QED
    BY <1>9, <2>1, TargetsBound DEF Committee!Targets
<1>24. cash >= 10000 - investable
  <2>1. PICK t, x : t = Committee!Total(target) /\ x = 10000 - t
    OBVIOUS
  <2>2. PICK w : w = Sum(weightOf, Strategies)
    OBVIOUS
  <2>3. w \in Nat /\ t \in Nat /\ t <= w /\ w <= investable
    <3>1. \A s \in Strategies : weightOf[s] \in Nat
      BY <1>20
    <3>2. w \in Nat
      BY <2>2, <3>1, FewOfEach, SumOfNaturals
    <3> QED
      BY <1>21, <1>23, <2>1, <2>2, <3>2
  <2>4. 0 \in Int /\ x \in Int
    BY <2>1, <2>3
  <2>5. cash = IF 0 >= x THEN 0 ELSE x
    BY <1>10, <2>1, <2>4, LargerSmaller
  <2> QED
    BY <1>18, <2>1, <2>3, <2>4, <2>5
<1> DEFINE some == {s \in Strategies : result.weight[s] > 0}
<1>25. some = {s \in Strategies : result.weight[s] > 0}
  OBVIOUS
<1> HIDE DEF some
<1>26. some \subseteq selected
  BY <1>12, <1>20, <1>25
<1>27. Cardinality(some) <= MaxSelected
  <2>1. IsFiniteSet(some) /\ Cardinality(some) <= Cardinality(selected)
    BY <1>15, <1>26, FS_Subset
  <2>2. Cardinality(some) \in Nat /\ Cardinality(selected) \in Nat
    BY <1>15, <2>1, FS_CardinalityType
  <2> QED
    BY <1>14, <2>1, <2>2
<1>28. ASSUME NEW s \in some
       PROVE  result.weight[s] <= cap /\ Committee!HasEarned(table[s], fits[s])
  <2>1. s \in Strategies /\ Committee!Committee_State(table[s], fits[s]) = "approved"
    BY <1>1, <1>13, <1>14, <1>26 DEF Committee!Approved
  <2>2. PICK fit : fit = fits[s]
    OBVIOUS
  <2>3. Committee!HasEarned(table[s], fit)
    BY <2>1, <2>2, ApprovedHasWon
  <2>4. result.weight[s] <= cap
    BY <1>12, <1>20, <2>1
  <2> QED
    BY <2>2, <2>3, <2>4
<1>29. /\ \A y \in Symbols : result.target[y] <= Committee!MAX_CANDIDATE_MODEL_WEIGHT
       /\ Committee!Total(result.weight) <= result.investable
       /\ result.investable <= 100 * result.base
       /\ result.cash >= 10000 - result.investable
  BY <1>12, <1>18, <1>21, <1>22, <1>23, <1>24 DEF Committee!MAX_CANDIDATE_MODEL_WEIGHT
<1> QED
  BY <1>11, <1>25, <1>27, <1>28, <1>29 DEF Committee!KeepsLimits, cap, Committee!Cardinality, Cardinality

\* What a request is at decides what it must have read, and can rely on.
HasSeen(r) ==
  /\ r.at # "idle" => Seen(r.rows)
  /\ r.at \notin {"idle", "inputs"} => Sound(r.hub.fits, r.hub.budget)

\* Every request has read that, and the mandates keep their limits.
CommitteeReads ==
  /\ \A d \in Desks : HasSeen(desk[d])
  /\ Committee!MandatesKeepTheirLimits

LEMMA NobodyReads == Committee!Init => CommitteeReads
  BY DEF Committee!Init, CommitteeReads, HasSeen, Committee!Idle, Committee!MandatesKeepTheirLimits

\* One request goes on.
LEMMA ReadsGo ==
  ASSUME CommitteeInv, CommitteeReads, NEW d \in Desks, NEW new,
         desk' = [desk EXCEPT ![d] = new], HasSeen(new),
         Committee!MandatesKeepTheirLimits'
  PROVE  CommitteeReads'
<1>1. desk' = [e \in Desks |-> IF e = d THEN new ELSE desk[e]]
  BY DEF CommitteeInv
<1>2. \A e \in Desks : HasSeen(desk'[e])
  <2> TAKE e \in Desks
  <2>1. HasSeen(desk[e])
    BY DEF CommitteeReads
  <2>2. desk'[e] = new \/ desk'[e] = desk[e]
    BY <1>1
  <2> QED
    BY <2>1, <2>2
<1>3. \A e \in Desks : HasSeen(desk[e])'
  BY <1>2
<1> QED
  BY <1>3 DEF CommitteeReads

\* Where no mandate is frozen, all keep their limits.
LEMMA LimitsStay ==
  ASSUME CommitteeReads, mandates' = mandates PROVE Committee!MandatesKeepTheirLimits'
<1>1. Committee!MandatesKeepTheirLimits
  BY DEF CommitteeReads
<1> QED
  BY <1>1 DEF Committee!MandatesKeepTheirLimits

\* A mandate that is frozen keeps them.
LEMMA LimitsKept ==
  ASSUME CommitteeReads, NEW d \in Desks, Committee!Create_Mandate(d)
  PROVE  Committee!MandatesKeepTheirLimits'
<1>1. PICK r : r = desk[d]
  OBVIOUS
<1>2. r.at = "insert" /\ mandates' = Committee!Inserted(mandates, Committee!MandateOf(r))
  BY <1>1 DEF Committee!Create_Mandate
<1>3. PICK q, fits, budget, hub : q = r.rows /\ fits = hub.fits /\ budget = hub.budget /\ hub = r.hub
  OBVIOUS
<1>4. Seen(q) /\ Sound(fits, budget)
  BY <1>1, <1>2, <1>3 DEF CommitteeReads, HasSeen
<1>5. PICK result : result = Committee!Compose(q, fits, budget)
  OBVIOUS
<1>6. Committee!KeepsLimits(q, fits, result)
  BY <1>4, <1>5, ComposedKeepsLimits, CommitteeAssumption
<1>7. PICK evidence : evidence = Committee!Evidence(q, hub, r.snapshot)
  OBVIOUS
<1>8. evidence.rows = q /\ evidence.fits = fits
  BY <1>3, <1>7 DEF Committee!Evidence
<1>9. PICK drift : drift = Committee!Drift(result, {p \in mandates : p.stamp = r.prior})
  OBVIOUS
<1>10. PICK new : new = [stamp |-> r.stamp, evidence |-> evidence, result |-> result,
                         prior |-> r.prior, drift |-> drift]
  OBVIOUS
<1>11. Committee!MandateOf(r) = new
  BY <1>3, <1>5, <1>7, <1>9, <1>10 DEF Committee!MandateOf
<1>12. mandates' \subseteq mandates \cup {new}
  BY <1>2, <1>11 DEF Committee!Inserted
<1>13. new.evidence = evidence /\ new.result = result
  BY <1>10
<1>14. \A m \in mandates : Committee!KeepsLimits(m.evidence.rows, m.evidence.fits, m.result)
  BY DEF CommitteeReads, Committee!MandatesKeepTheirLimits
<1>15. \A m \in mandates' : Committee!KeepsLimits(m.evidence.rows, m.evidence.fits, m.result)
  BY <1>6, <1>8, <1>12, <1>13, <1>14
<1> QED
  BY <1>15 DEF Committee!MandatesKeepTheirLimits

\* Every step keeps it.
LEMMA ReadsStep ==
  ASSUME CommitteeInv, CommitteeTypes, CommitteeReads, [Committee!Next]_(Committee!vars)
  PROVE  CommitteeReads'
<1>1. ASSUME UNCHANGED <<desk, mandates>> PROVE CommitteeReads'
  <2>1. Committee!MandatesKeepTheirLimits'
    BY <1>1, LimitsStay
  <2>2. \A d \in Desks : HasSeen(desk'[d])
    BY <1>1 DEF CommitteeReads
  <2>3. \A d \in Desks : HasSeen(desk[d])'
    BY <2>2
  <2> QED
    BY <2>1, <2>3 DEF CommitteeReads
<1>2. CASE UNCHANGED Committee!vars
  BY <1>1, <1>2 DEF Committee!vars
<1>3. CASE Committee!NewDay \/ \E s \in Strategies : Committee!World(s)
  BY <1>1, <1>3
     DEF Committee!NewDay, Committee!World, Committee!Scan, Committee!Mature,
         Committee!Persist_Scorecard, Committee!Plan
<1>4. ASSUME NEW d \in Desks, Committee!Request(d) PROVE CommitteeReads'
  <2>0. Asking(desk[d]) /\ HasSeen(desk[d])
    BY DEF CommitteeInv, CommitteeReads
  <2>1. ASSUME NEW kind \in {"hub", "committee"}, Committee!Read_Rows(d, kind) PROVE CommitteeReads'
    <3>1. PICK q : q = Committee!Evidence_Rows
      OBVIOUS
    <3>2. PICK new : new = [Committee!Idle EXCEPT !.at = "inputs", !.kind = kind, !.rows = q]
      OBVIOUS
    <3>3. new.at = "inputs" /\ new.rows = q
      BY <3>2 DEF Committee!Idle
    <3>4. HasSeen(new)
      BY <3>1, <3>3, RowsAreSeen DEF HasSeen
    <3>5. desk' = [desk EXCEPT ![d] = new] /\ mandates' = mandates
      BY <2>1, <3>1, <3>2 DEF Committee!Read_Rows, Committee!Goes
    <3> QED
      BY <3>4, <3>5, ReadsGo, LimitsStay
  <2>2. ASSUME Committee!Load_Current_Inputs(d) PROVE CommitteeReads'
    <3>1. PICK q, h : q = desk[d].rows /\ h = Committee!Hub(q, scans, day)
      OBVIOUS
    <3>2. PICK new : new = [desk[d] EXCEPT !.at = "snapshot", !.hub = h]
      OBVIOUS
    <3>3. new.at = "snapshot" /\ new.rows = q /\ new.hub = h
      BY <2>0, <3>1, <3>2 DEF Asking
    <3>4. Seen(q)
      BY <2>0, <2>2, <3>1 DEF HasSeen, Committee!Load_Current_Inputs
    <3>5. PICK sc, date : sc = scans /\ date = day
      OBVIOUS
    <3>6. Sound(h.fits, h.budget)
      BY <3>1, <3>4, <3>5, HubIsSound
    <3>7. HasSeen(new)
      BY <3>3, <3>4, <3>6 DEF HasSeen
    <3>8. desk' = [desk EXCEPT ![d] = new] /\ mandates' = mandates
      BY <2>2, <3>1, <3>2 DEF Committee!Load_Current_Inputs, Committee!Goes
    <3> QED
      BY <3>7, <3>8, ReadsGo, LimitsStay
  <2>3. ASSUME Committee!Latest_Snapshot(d) PROVE CommitteeReads'
    <3>1. PICK at, s : /\ at = IF desk[d].kind = "hub" THEN "compose" ELSE "mandate"
                       /\ s = Committee!LatestStamp(snapshots)
      OBVIOUS
    <3>2. PICK new : new = [desk[d] EXCEPT !.at = at, !.snapshot = s]
      OBVIOUS
    <3>3. desk[d].at = "snapshot" /\ new.rows = desk[d].rows /\ new.hub = desk[d].hub
      BY <2>0, <2>3, <3>2 DEF Asking, Committee!Latest_Snapshot
    <3>4. HasSeen(new)
      BY <2>0, <3>3 DEF HasSeen
    <3>5. desk' = [desk EXCEPT ![d] = new] /\ mandates' = mandates
      BY <2>3, <3>1, <3>2 DEF Committee!Latest_Snapshot, Committee!Goes
    <3> QED
      BY <3>4, <3>5, ReadsGo, LimitsStay
  <2>4. ASSUME Committee!Latest_Mandate(d) PROVE CommitteeReads'
    <3>1. PICK s : s = Committee!LatestStamp(mandates)
      OBVIOUS
    <3>2. PICK new : new = [desk[d] EXCEPT !.at = "compose", !.prior = s]
      OBVIOUS
    <3>3. desk[d].at = "mandate" /\ new.rows = desk[d].rows /\ new.hub = desk[d].hub
      BY <2>0, <2>4, <3>2 DEF Asking, Committee!Latest_Mandate
    <3>4. HasSeen(new)
      BY <2>0, <3>3 DEF HasSeen
    <3>5. desk' = [desk EXCEPT ![d] = new] /\ mandates' = mandates
      BY <2>4, <3>1, <3>2 DEF Committee!Latest_Mandate, Committee!Goes
    <3> QED
      BY <3>4, <3>5, ReadsGo, LimitsStay
  <2>5. ASSUME Committee!Take_Time(d) PROVE CommitteeReads'
    <3>1. PICK new : new = [desk[d] EXCEPT !.at = "insert", !.stamp = clock + 1]
      OBVIOUS
    <3>2. desk[d].at = "compose" /\ new.rows = desk[d].rows /\ new.hub = desk[d].hub
      BY <2>0, <2>5, <3>1 DEF Asking, Committee!Take_Time
    <3>3. HasSeen(new)
      BY <2>0, <3>2 DEF HasSeen
    <3>4. desk = [e \in Desks |-> desk[e]]
      BY DEF CommitteeInv
    <3>5. desk' = [desk EXCEPT ![d] = new] /\ mandates' = mandates
      BY <2>5, <3>1, <3>4 DEF Committee!Take_Time
    <3> QED
      BY <3>3, <3>5, ReadsGo, LimitsStay
  <2>6. PICK idle : idle = Committee!Idle
    OBVIOUS
  <2>7. HasSeen(idle)
    BY <2>6 DEF HasSeen, Committee!Idle
  <2>8. ASSUME Committee!Create_Snapshot(d) PROVE CommitteeReads'
    <3>1. desk' = [desk EXCEPT ![d] = idle] /\ mandates' = mandates
      BY <2>6, <2>8 DEF Committee!Create_Snapshot
    <3> QED
      BY <2>7, <3>1, ReadsGo, LimitsStay
  <2>9. ASSUME Committee!Create_Mandate(d) PROVE CommitteeReads'
    <3>1. desk' = [desk EXCEPT ![d] = idle]
      BY <2>6, <2>9 DEF Committee!Create_Mandate
    <3>2. Committee!MandatesKeepTheirLimits'
      BY <2>9, LimitsKept
    <3> QED
      BY <2>7, <3>1, <3>2, ReadsGo
  <2> QED
    BY <1>4, <2>1, <2>2, <2>3, <2>4, <2>5, <2>8, <2>9 DEF Committee!Request
<1> QED
  BY <1>2, <1>3, <1>4 DEF Committee!Next

-----------------------------------------------------------------------------
(* The amounts.                                                            *)

USE PortfolioAssumption, SizingAssumption

\* Sums of the module are sums.
LEMMA SameSum == ASSUME NEW f, NEW S PROVE Sizing!Sum(f, S) = Sum(f, S)
  BY Zenon DEF Sizing!Sum, Sum

\* The larger and the smaller of two.
LEMMA OfTwo ==
  ASSUME NEW x \in Int, NEW y \in Int
  PROVE  /\ Sizing!Max({x, y}) = IF x >= y THEN x ELSE y
         /\ Sizing!Min({x, y}) = IF x <= y THEN x ELSE y
<1>1. \E z \in {x, y} : \A w \in {x, y} : z >= w
  OBVIOUS
<1>2. \E z \in {x, y} : \A w \in {x, y} : z =< w
  OBVIOUS
<1>3. Sizing!Max({x, y}) \in {x, y} /\ \A w \in {x, y} : Sizing!Max({x, y}) >= w
  BY <1>1 DEF Sizing!Max
<1>4. Sizing!Min({x, y}) \in {x, y} /\ \A w \in {x, y} : Sizing!Min({x, y}) =< w
  BY <1>2 DEF Sizing!Min
<1> QED
  BY <1>3, <1>4

\* Rounding is off by half at most.
LEMMA Rounding ==
  ASSUME NEW n \in Nat, NEW d \in Nat \ {0}
  PROVE  /\ Sizing!Rounded(n, d) \in Nat
         /\ 2 * d * Sizing!Rounded(n, d) <= 2 * n + d
<1>1. 2 * n + d \in Nat /\ 2 * d \in Nat \ {0}
  OBVIOUS
<1> QED
  BY <1>1, Division DEF Sizing!Rounded

\* A part, rounded, is not more than the whole.
LEMMA RoundedPart ==
  ASSUME NEW n \in Nat, NEW k \in Nat, NEW d \in Nat \ {0}, k <= d
  PROVE  Sizing!Rounded(n * k, d) <= n
<1>1. n * k \in Nat /\ n * k <= n * d
  BY Scaling
<1>2. PICK r : r = Sizing!Rounded(n * k, d)
  OBVIOUS
<1>3. r \in Nat /\ 2 * d * r <= 2 * (n * k) + d
  BY <1>1, <1>2, Rounding
<1>4. 2 * d * r < 2 * d * (n + 1)
  <2>1. 2 * d * (n + 1) = 2 * (n * d) + 2 * d
    OBVIOUS
  <2> QED
    BY <1>1, <1>3, <2>1
<1>5. r < n + 1
  BY <1>3, <1>4, Cancelled
<1> QED
  BY <1>2, <1>3, <1>5

\* What the route has shared out: assets that are not open have the cap, and
\* were better than those that are; what was given and what is left are the
\* budget, until the rest is shared in proportion, but for what rounding loses.
Proportional(amount, total) ==
  /\ total > 0
  /\ \A a \in open :
       /\ total * weight[a] <= amount * score[a] /\ amount * score[a] < total * (weight[a] + 1)
       /\ weight[a] < RouteCap

RouteInv ==
  /\ \A a \in open : score[a] > 0
  /\ \A a \in Assets \ open : weight[a] = IF score[a] > 0 THEN RouteCap ELSE 0
  /\ \A a \in open, b \in Assets \ open : score[b] > 0 => score[a] < score[b]
  /\ \/ (\A a \in open : weight[a] = 0) /\ Sum(weight, Assets) + left = RouteBudget
     \/ /\ left = 0 /\ open # {}
        /\ \E amount \in Nat : Proportional(amount, Sum(score, open))
        /\ Sum(weight, Assets) <= RouteBudget
        /\ RouteBudget <= Sum(weight, Assets) + Cardinality(open) - 1

\* What a plan gives to an asset: no more than is wanted, or than the asset has
\* room for, and no more than its part of the room there is, but for rounding.
Given ==
  \A a \in Assets :
    /\ given[a] <= single[a] /\ given[a] <= Sizing!Desired(a)
    /\ a \in vetoed => given[a] = 0
    /\ Sizing!Wanted > room =>
         2 * Sizing!Wanted * given[a] <= 2 * room * Sizing!Desired(a) + Sizing!Wanted

Gives == \E a \in Assets : given[a] > 0

PlanInv ==
  /\ step \in {"plan", "stress", "search", "done"} => left = 0 \/ open = {}
  /\ step \in {"stress", "search", "done"} => Given /\ (Gives => ~closed /\ 0 \in passing)
  /\ step \in {"route", "plan", "stress"} => low = 0 /\ high = Whole
  /\ step = "search" => 0 \in passing /\ low \in passing /\ low < high
  /\ step = "done" => (Gives => low \in passing)

SizingInv == Sizing!TypeOK /\ RouteInv /\ PlanInv

\* Assets, their scores and what they get are natural numbers.
SizingTypes ==
  /\ open \in SUBSET Assets /\ left \in Nat
  /\ score \in [Assets -> Nat] /\ wish \in [Assets -> Nat] /\ single \in [Assets -> Nat]
  /\ weight \in [Assets -> Nat] /\ given \in [Assets -> Nat]
  /\ room \in Nat /\ low \in 0 .. Whole /\ high \in 0 .. Whole

LEMMA TypesOfSizing == Sizing!TypeOK => SizingTypes
<1> SUFFICES ASSUME Sizing!TypeOK PROVE SizingTypes
  OBVIOUS
<1>1. /\ score \in [Assets -> Scores] /\ wish \in [Assets -> Wishes]
      /\ single \in [Assets -> Rooms] /\ room \in Rooms
      /\ left \in 0 .. RouteBudget /\ open \in SUBSET Assets
      /\ weight \in [Assets -> 0 .. RouteCap] /\ given \in [Assets -> Nat]
      /\ low \in 0 .. Whole /\ high \in 0 .. Whole
  BY DEF Sizing!TypeOK
<1>2. Scores \subseteq Nat /\ Wishes \subseteq Nat /\ Rooms \subseteq Nat
      /\ RouteCap \in Nat /\ RouteBudget \in Nat
  OBVIOUS
<1>3. score \in [Assets -> Nat] /\ wish \in [Assets -> Nat] /\ single \in [Assets -> Nat]
  BY <1>1, <1>2
<1>4. weight \in [Assets -> Nat] /\ left \in Nat /\ room \in Nat
  BY <1>1, <1>2
<1> QED
  BY <1>1, <1>3, <1>4 DEF SizingTypes

\* Nothing is shared out yet.
LEMMA SizingStarts == Sizing!Init => SizingInv
<1> SUFFICES ASSUME Sizing!Init PROVE SizingInv
  OBVIOUS
<1>1. /\ step = "route" /\ low = 0 /\ high = Whole
      /\ score \in [Assets -> Scores] /\ wish \in [Assets -> Wishes] /\ vetoed \in SUBSET Assets
      /\ room \in Rooms /\ single \in [Assets -> Rooms]
      /\ passing \in SUBSET (0 .. Whole) /\ closed \in BOOLEAN
      /\ left = RouteBudget /\ open = {a \in Assets : score[a] > 0}
      /\ weight = [a \in Assets |-> 0] /\ given = [a \in Assets |-> 0]
  BY DEF Sizing!Init
<1>2. RouteBudget \in Nat /\ RouteCap \in Nat /\ Whole \in Nat
  OBVIOUS
<1>3. weight \in [Assets -> 0 .. RouteCap] /\ given \in [Assets -> Nat]
      /\ left \in 0 .. RouteBudget /\ low \in 0 .. Whole /\ high \in 0 .. Whole
  BY <1>1, <1>2
<1>4. Sizing!TypeOK
  BY <1>1, <1>3 DEF Sizing!TypeOK
<1>5. \A a \in Assets : score[a] \in Nat
  BY <1>4, TypesOfSizing DEF SizingTypes
<1>6. Sum(weight, Assets) = 0
  <2>1. \A a \in Assets \ {} : weight[a] = 0
    BY <1>1
  <2>2. \A a \in Assets : weight[a] \in Int
    BY <1>1
  <2>3. Sum(weight, Assets) = Sum(weight, {})
    BY <2>1, <2>2, SumOfRest
  <2> QED
    BY <2>3, SumOfNone
<1>7. RouteInv
  <2>1. \A a \in Assets \ open : ~(score[a] > 0)
    BY <1>1
  <2>2. \A a \in Assets : weight[a] = 0
    BY <1>1
  <2>3. Sum(weight, Assets) + left = RouteBudget
    BY <1>1, <1>2, <1>6
  <2>4. (\A a \in open : score[a] > 0) /\ open \subseteq Assets
    BY <1>1
  <2> QED
    BY <2>1, <2>2, <2>3, <2>4 DEF RouteInv
<1>8. PlanInv
  BY <1>1 DEF PlanInv
<1> QED
  BY <1>4, <1>7, <1>8 DEF SizingInv

\* The assets at their cap.
LEMMA Capping ==
  ASSUME SizingInv, Sizing!CapRound PROVE SizingInv'
<1> DEFINE C == Sizing!Capped
<1>1. /\ step = "route" /\ left > 0 /\ C # {}
      /\ weight' = [a \in Assets |-> IF a \in C THEN RouteCap ELSE weight[a]]
      /\ left' = left - RouteCap * Cardinality(C)
      /\ open' = open \ C
      /\ UNCHANGED <<step, score, wish, vetoed, room, single, passing, closed, given, low, high>>
  <2>1. UNCHANGED <<step, Sizing!inputs, given, low, high>>
    BY DEF Sizing!CapRound
  <2>2. UNCHANGED <<score, wish, vetoed, room, single, passing, closed>>
    BY <2>1 DEF Sizing!inputs
  <2>3. step = "route" /\ left > 0 /\ C # {}
    BY Zenon DEF Sizing!CapRound
  <2>4. weight' = [a \in Assets |-> IF a \in C THEN RouteCap ELSE weight[a]]
    BY Zenon DEF Sizing!CapRound
  <2>5. left' = left - RouteCap * Cardinality(C)
    BY Zenon DEF Sizing!CapRound, Sizing!Cardinality, Cardinality
  <2>6. open' = open \ C
    BY Zenon DEF Sizing!CapRound
  <2> QED
    BY <2>1, <2>2, <2>3, <2>4, <2>5, <2>6
<1>2. SizingTypes /\ RouteCap \in Nat /\ RouteBudget \in Nat /\ IsFiniteSet(Assets)
  BY TypesOfSizing DEF SizingInv
<1>3. open \subseteq Assets /\ IsFiniteSet(open)
  BY <1>2, FS_Subset DEF SizingTypes
<1>4. PICK total : total = Sum(score, open)
  OBVIOUS
<1>5. C = {a \in open : left * score[a] >= RouteCap * total}
  BY <1>4, SameSum DEF Sizing!Capped
<1>6. C \in SUBSET open /\ C \in SUBSET Assets /\ IsFiniteSet(C)
  BY <1>3, <1>5, FS_Subset
<1>7. \A a \in open : score[a] \in Nat /\ score[a] > 0
  BY <1>2, <1>3 DEF SizingInv, RouteInv, SizingTypes
<1>8. total \in Nat /\ Sum(score, C) \in Nat /\ Sum(score, C) <= total /\ total > 0
  <2>1. /\ total \in Nat /\ Sum(score, C) \in Nat /\ Sum(score, C) <= total
        /\ \A x \in open : score[x] <= total
    BY <1>3, <1>4, <1>6, <1>7, SumOfNaturals
  <2>2. PICK x : x \in C
    BY <1>1
  <2> QED
    BY <1>6, <1>7, <2>1, <2>2
<1>9. left \in Nat /\ Cardinality(C) \in Nat
  BY <1>2, <1>6, FS_CardinalityType DEF SizingTypes
<1>10. RouteCap * Cardinality(C) <= left
  <2>1. PICK one : one = [a \in C |-> RouteCap * total]
    OBVIOUS
  <2>2. PICK many : many = left * total
    OBVIOUS
  <2>3. PICK each : each = RouteCap * total
    OBVIOUS
  <2>4. each \in Nat /\ many \in Nat
    BY <1>2, <1>8, <1>9, <2>2, <2>3
  <2>5. PICK zero : zero = [a \in C |-> 0]
    OBVIOUS
  <2>6. \A a \in C : /\ zero[a] \in Int /\ score[a] \in Int
                     /\ 0 * zero[a] <= left * score[a] + (-each)
    <3> TAKE a \in C
    <3>1. left * score[a] >= each /\ score[a] \in Nat
      BY <1>5, <1>7, <2>3
    <3>2. zero[a] = 0
      BY <2>5
    <3>3. left * score[a] \in Nat
      BY <1>9, <3>1
    <3> QED
      BY <2>4, <3>1, <3>2, <3>3
  <2>7. 0 * Sum(zero, C) <= left * Sum(score, C) + (-each) * Cardinality(C)
    <3>1. 0 \in Int /\ left \in Int /\ -each \in Int
      BY <1>9, <2>4
    <3> QED
      BY <1>6, <2>6, <3>1, SumBound
  <2>8. 0 * Sum(zero, C) = 0
    <3>1. \A a \in C : zero[a] \in Int
      BY <2>5
    <3>2. Sum(zero, C) \in Int
      BY <1>6, <3>1, SumWithout
    <3> QED
      BY <3>2
  <2>9. each * Cardinality(C) <= left * Sum(score, C)
    <3>1. PICK n, s : n = Cardinality(C) /\ s = Sum(score, C)
      OBVIOUS
    <3>2. n \in Nat /\ s \in Nat /\ 0 <= left * s + (-each) * n
      BY <1>8, <1>9, <2>7, <2>8, <3>1
    <3>3. (-each) * n = -(each * n) /\ each * n \in Int /\ left * s \in Int
      BY <1>9, <2>4, <3>2
    <3>4. each * n <= left * s
      BY <3>2, <3>3
    <3> QED
      BY <3>1, <3>4
  <2>10. left * Sum(score, C) <= many
    BY <1>8, <1>9, <2>2, Scaling
  <2>11. PICK n : n = Cardinality(C)
    OBVIOUS
  <2>12. each * n <= many /\ n \in Nat
    <3>1. each * n \in Int /\ left * Sum(score, C) \in Int
      BY <1>8, <1>9, <2>4, <2>11
    <3> QED
      BY <1>9, <2>4, <2>9, <2>10, <2>11, <3>1
  <2>13. each * n = total * (RouteCap * n) /\ many = total * left
    BY <1>2, <1>8, <1>9, <2>2, <2>3, <2>12
  <2>14. RouteCap * n \in Int /\ left \in Int /\ total \in Nat \ {0}
    BY <1>2, <1>8, <1>9, <2>12
  <2>15. RouteCap * n <= left
    BY <2>12, <2>13, <2>14, Cancelled
  <2> QED
    BY <2>11, <2>15
<1>11. left' \in 0 .. RouteBudget /\ left' \in Nat
  <2>1. RouteCap * Cardinality(C) \in Nat
    BY <1>2, <1>9
  <2>2. left <= RouteBudget
    BY DEF SizingInv, Sizing!TypeOK
  <2> QED
    BY <1>1, <1>2, <1>9, <1>10, <2>1, <2>2
<1>12. weight' \in [Assets -> 0 .. RouteCap]
  BY <1>1, <1>2 DEF SizingInv, Sizing!TypeOK
<1>13. Sizing!TypeOK'
  BY <1>1, <1>3, <1>11, <1>12 DEF SizingInv, Sizing!TypeOK
<1>14. \A a \in open : weight[a] = 0
  BY <1>1 DEF SizingInv, RouteInv
<1>15. Sum(weight, Assets) + left = RouteBudget
  BY <1>1 DEF SizingInv, RouteInv
<1>16. Sum(weight', Assets) = Sum(weight, Assets) + RouteCap * Cardinality(C)
  <2>1. PICK cap : cap = [a \in Assets |-> IF a \in C THEN RouteCap ELSE 0]
    OBVIOUS
  <2>2. \A a \in Assets : weight[a] \in Int /\ cap[a] \in Int /\ weight'[a] = weight[a] + cap[a]
    <3> TAKE a \in Assets
    <3>1. weight[a] \in Int
      BY <1>2 DEF SizingTypes
    <3>2. CASE a \in C
      BY <1>1, <1>2, <1>6, <1>14, <2>1, <3>2
    <3>3. CASE a \notin C
      BY <1>1, <2>1, <3>1, <3>3
    <3> QED
      BY <3>1, <3>2, <3>3
  <2>3. Sum(weight', Assets) = Sum(weight, Assets) + Sum(cap, Assets)
    BY <1>2, <2>2, SumOfBoth
  <2>4. Sum(cap, Assets) = Sum(cap, C)
    <3>1. \A a \in Assets \ C : cap[a] = 0
      BY <2>1
    <3> QED
      BY <1>2, <1>6, <2>2, <3>1, SumOfRest
  <2>5. Sum(cap, C) = RouteCap * Cardinality(C)
    <3>1. \A a \in C : cap[a] = RouteCap
      BY <1>6, <2>1
    <3> QED
      BY <1>2, <1>6, <3>1, SumOfEqual
  <2> QED
    BY <2>3, <2>4, <2>5
<1>17. Sum(weight', Assets) + left' = RouteBudget
  <2>1. RouteCap * Cardinality(C) \in Int
    BY <1>2, <1>9
  <2>2. Sum(weight, Assets) \in Int
    <3>1. \A a \in Assets : weight[a] \in Int
      BY <1>2 DEF SizingTypes
    <3> QED
      BY <1>2, <3>1, SumWithout
  <2> QED
    BY <1>1, <1>2, <1>9, <1>15, <1>16, <2>1, <2>2
<1>18. \A a \in open' : score[a] > 0 /\ weight'[a] = 0
  BY <1>1, <1>3, <1>7, <1>14
<1>19. \A a \in Assets \ open' : weight'[a] = IF score[a] > 0 THEN RouteCap ELSE 0
  <2> TAKE a \in Assets \ open'
  <2>1. a \in Assets /\ (a \in C \/ a \notin open)
    BY <1>1
  <2>2. CASE a \in C
    BY <1>1, <1>6, <1>7, <2>1, <2>2
  <2>3. CASE a \notin open
    <3>1. a \notin C /\ weight'[a] = weight[a]
      BY <1>1, <1>6, <2>1, <2>3
    <3> QED
      BY <2>1, <2>3, <3>1 DEF SizingInv, RouteInv
  <2> QED
    BY <2>1, <2>2, <2>3
<1>20. \A a \in open', b \in Assets \ open' : score[b] > 0 => score[a] < score[b]
  <2> TAKE a \in open', b \in Assets \ open'
  <2>1. a \in open /\ a \notin C /\ b \in Assets /\ (b \in C \/ b \notin open)
    BY <1>1
  <2>2. CASE b \notin open
    BY <2>1, <2>2 DEF SizingInv, RouteInv
  <2>3. CASE b \in C
    <3>1. left * score[b] >= RouteCap * total /\ ~(left * score[a] >= RouteCap * total)
      BY <1>5, <2>1, <2>3
    <3>2. score[a] \in Nat /\ score[b] \in Nat
      BY <1>6, <1>7, <2>1, <2>3
    <3>3. left * score[a] < left * score[b]
      <4>1. left * score[a] \in Nat /\ left * score[b] \in Nat /\ RouteCap * total \in Nat
        BY <1>2, <1>8, <1>9, <3>2
      <4> QED
        BY <3>1, <4>1
    <3> QED
      BY <1>1, <1>9, <3>2, <3>3, Cancelled
  <2> QED
    BY <2>1, <2>2, <2>3
<1>21. RouteInv'
  BY <1>1, <1>17, <1>18, <1>19, <1>20 DEF RouteInv
<1>22. PlanInv'
  BY <1>1 DEF SizingInv, PlanInv
<1> QED
  BY <1>13, <1>21, <1>22 DEF SizingInv

\* A share of the rest.
LEMMA Sharing ==
  ASSUME SizingInv, Sizing!ShareRound PROVE SizingInv'
<1>1. /\ step = "route" /\ left > 0 /\ open # {} /\ Sizing!Capped = {} /\ left' = 0
      /\ weight' = [a \in Assets |-> IF a \in open THEN Sizing!Share(a) ELSE weight[a]]
      /\ UNCHANGED <<step, score, wish, vetoed, room, single, passing, closed, open, given, low, high>>
  <2>1. UNCHANGED <<step, Sizing!inputs, open, given, low, high>>
    BY DEF Sizing!ShareRound
  <2>2. UNCHANGED <<score, wish, vetoed, room, single, passing, closed>>
    BY <2>1 DEF Sizing!inputs
  <2>3. step = "route" /\ left > 0 /\ open # {} /\ Sizing!Capped = {} /\ left' = 0
    BY DEF Sizing!ShareRound
  <2>4. weight' = [a \in Assets |-> IF a \in open THEN Sizing!Share(a) ELSE weight[a]]
    BY Zenon DEF Sizing!ShareRound
  <2> QED
    BY <2>1, <2>2, <2>3, <2>4
<1>2. SizingTypes /\ RouteCap \in Nat /\ RouteBudget \in Nat /\ IsFiniteSet(Assets)
  BY TypesOfSizing DEF SizingInv
<1>3. open \subseteq Assets /\ IsFiniteSet(open)
  BY <1>2, FS_Subset DEF SizingTypes
<1>4. PICK total : total = Sum(score, open)
  OBVIOUS
<1>5. \A a \in open : score[a] \in Nat /\ score[a] > 0
  BY <1>2, <1>3 DEF SizingInv, RouteInv, SizingTypes
<1>6. total \in Nat \ {0}
  <2>1. total \in Nat /\ \A x \in open : score[x] <= total
    BY <1>3, <1>4, <1>5, SumOfNaturals
  <2> QED
    BY <1>1, <1>5, <2>1
<1>7. left \in Nat
  BY <1>2 DEF SizingTypes
<1>8. \A a \in open : left * score[a] < RouteCap * total
  <2> TAKE a \in open
  <2>1. ~(left * score[a] >= RouteCap * total)
    BY <1>1, <1>4, SameSum DEF Sizing!Capped
  <2>2. left * score[a] \in Nat /\ RouteCap * total \in Nat
    BY <1>2, <1>5, <1>6, <1>7
  <2> QED
    BY <2>1, <2>2
<1>9. \A a \in open : /\ weight'[a] \in Nat
                      /\ total * weight'[a] <= left * score[a]
                      /\ left * score[a] < total * (weight'[a] + 1)
                      /\ weight'[a] < RouteCap
  <2> TAKE a \in open
  <2>1. weight'[a] = (left * score[a]) \div total
    BY <1>1, <1>3, <1>4, SameSum DEF Sizing!Share
  <2>2. PICK n : n = left * score[a]
    OBVIOUS
  <2>3. n \in Nat
    BY <1>5, <1>7, <2>2
  <2>4. PICK w : w = n \div total
    OBVIOUS
  <2>5. w \in Nat /\ total * w <= n /\ n < total * (w + 1)
    BY <1>6, <2>3, <2>4, Division
  <2>6. total * w < total * RouteCap
    <3>1. n < RouteCap * total
      BY <1>8, <2>2
    <3>2. total * w \in Int /\ RouteCap * total \in Int /\ RouteCap * total = total * RouteCap
      BY <1>2, <1>6, <2>5
    <3> QED
      BY <2>3, <2>5, <3>1, <3>2
  <2>7. w < RouteCap
    BY <1>2, <1>6, <2>5, <2>6, Cancelled
  <2> QED
    BY <2>1, <2>2, <2>4, <2>5, <2>7
<1>10. weight' \in [Assets -> 0 .. RouteCap]
  <2>1. weight \in [Assets -> 0 .. RouteCap]
    BY DEF SizingInv, Sizing!TypeOK
  <2>2. \A a \in Assets : weight'[a] \in 0 .. RouteCap
    <3> TAKE a \in Assets
    <3>1. CASE a \in open
      BY <1>2, <1>9, <3>1
    <3>2. CASE a \notin open
      BY <1>1, <2>1, <3>2
    <3> QED
      BY <3>1, <3>2
  <2>3. weight' = [a \in Assets |-> weight'[a]]
    BY <1>1
  <2> QED
    BY <2>2, <2>3
<1>11. Sizing!TypeOK'
  BY <1>1, <1>2, <1>10 DEF SizingInv, Sizing!TypeOK
<1>12. (\A a \in open : weight[a] = 0) /\ Sum(weight, Assets) + left = RouteBudget
  BY <1>1 DEF SizingInv, RouteInv
<1>13. Sum(weight', Assets) = Sum(weight, Assets) + Sum(weight', open)
  <2>1. PICK new : new = [a \in Assets |-> IF a \in open THEN weight'[a] ELSE 0]
    OBVIOUS
  <2>2. \A a \in Assets : weight[a] \in Int /\ new[a] \in Int /\ weight'[a] = weight[a] + new[a]
    <3> TAKE a \in Assets
    <3>1. weight[a] \in Int
      BY <1>2 DEF SizingTypes
    <3>2. CASE a \in open
      BY <1>9, <1>12, <2>1, <3>2
    <3>3. CASE a \notin open
      BY <1>1, <2>1, <3>1, <3>3
    <3> QED
      BY <3>1, <3>2, <3>3
  <2>3. Sum(weight', Assets) = Sum(weight, Assets) + Sum(new, Assets)
    BY <1>2, <2>2, SumOfBoth
  <2>4. Sum(new, Assets) = Sum(new, open)
    <3>1. \A a \in Assets \ open : new[a] = 0
      BY <2>1
    <3> QED
      BY <1>2, <1>3, <2>2, <3>1, SumOfRest
  <2>5. Sum(new, open) = Sum(weight', open)
    <3>1. \A a \in open : new[a] \in Int /\ new[a] = weight'[a]
      BY <1>3, <2>1, <2>2
    <3> QED
      BY <1>3, <3>1, SumOfSame
  <2> QED
    BY <2>3, <2>4, <2>5
<1>14. PICK s, n : s = Sum(weight', open) /\ n = Cardinality(open)
  OBVIOUS
<1>15. s \in Nat /\ n \in Nat
  BY <1>3, <1>9, <1>14, SumOfNaturals, FS_CardinalityType
<1>16. s <= left
  <2>1. \A a \in open : weight'[a] \in Int /\ score[a] \in Int /\ total * weight'[a] <= left * score[a] + 0
    <3> TAKE a \in open
    <3>1. weight'[a] \in Nat /\ total * weight'[a] <= left * score[a]
      BY <1>9
    <3>2. score[a] \in Nat
      BY <1>5
    <3>3. left * score[a] \in Int
      BY <1>7, <3>2
    <3> QED
      BY <3>1, <3>2, <3>3
  <2>2. total * s <= left * total + 0 * n
    <3>1. total \in Int /\ left \in Int /\ 0 \in Int
      BY <1>6, <1>7
    <3>2. total * Sum(weight', open) <= left * Sum(score, open) + 0 * Cardinality(open)
      BY <1>3, <2>1, <3>1, SumBound
    <3> QED
      BY <1>4, <1>14, <3>2
  <2>3. left * total + 0 * n = total * left
    BY <1>6, <1>7, <1>15
  <2> QED
    BY <1>6, <1>7, <1>15, <2>2, <2>3, Cancelled
<1>17. left <= s + n - 1
  <2>1. \A a \in open : /\ score[a] \in Int /\ weight'[a] \in Int
                        /\ left * score[a] <= total * weight'[a] + (total - 1)
    <3> TAKE a \in open
    <3>1. weight'[a] \in Nat /\ left * score[a] < total * (weight'[a] + 1)
      BY <1>9
    <3>2. score[a] \in Nat
      BY <1>5
    <3>3. left * score[a] \in Int /\ total * (weight'[a] + 1) = total * weight'[a] + total
          /\ total * weight'[a] \in Int
      BY <1>6, <1>7, <3>1, <3>2
    <3> QED
      BY <1>6, <3>1, <3>2, <3>3
  <2>2. left * total <= total * s + (total - 1) * n
    <3>1. total \in Int /\ left \in Int /\ total - 1 \in Int
      BY <1>6, <1>7
    <3>2. left * Sum(score, open) <= total * Sum(weight', open) + (total - 1) * Cardinality(open)
      BY <1>3, <2>1, <3>1, SumBound
    <3> QED
      BY <1>4, <1>14, <3>2
  <2>3. n > 0
    BY <1>1, <1>3, <1>14, <1>15, FS_EmptySet
  <2>4. total * s + (total - 1) * n < total * (s + n)
    <3>1. total * (s + n) = total * s + total * n /\ (total - 1) * n = total * n - n
          /\ total * s \in Int /\ total * n \in Int
      BY <1>6, <1>15
    <3> QED
      BY <1>15, <2>3, <3>1
  <2>5. total * left < total * (s + n)
    <3>1. left * total = total * left /\ total * left \in Int /\ total * (s + n) \in Int
          /\ total * s + (total - 1) * n \in Int
      BY <1>6, <1>7, <1>15
    <3> QED
      BY <2>2, <2>4, <3>1
  <2>6. left < s + n
    <3>1. s + n \in Int /\ left \in Int
      BY <1>7, <1>15
    <3> QED
      BY <1>6, <2>5, <3>1, Cancelled
  <2> QED
    BY <1>7, <1>15, <2>6
<1>18. PICK before : before = Sum(weight, Assets)
  OBVIOUS
<1>19. before \in Int
  <2>1. \A a \in Assets : weight[a] \in Int
    BY <1>2 DEF SizingTypes
  <2> QED
    BY <1>2, <1>18, <2>1, SumWithout
<1>20. Sum(weight', Assets) <= RouteBudget /\ RouteBudget <= Sum(weight', Assets) + n - 1
  <2>1. Sum(weight', Assets) = before + s /\ before + left = RouteBudget
    BY <1>12, <1>13, <1>14, <1>18
  <2> QED
    BY <1>7, <1>15, <1>16, <1>17, <1>19, <2>1
<1>22. PICK m : m = left
  OBVIOUS
<1>23. \E amount \in Nat : /\ Sum(score, open)' > 0
                           /\ \A a \in open :
                                /\ Sum(score, open)' * weight'[a] <= amount * score'[a]
                                /\ amount * score'[a] < Sum(score, open)' * (weight'[a] + 1)
                                /\ weight'[a] < RouteCap
  <2>1. Sum(score, open)' = total /\ score' = score
    BY <1>1, <1>4
  <2>2. total > 0 /\ m \in Nat
    BY <1>6, <1>7, <1>22
  <2>3. \A a \in open :
         /\ total * weight'[a] <= m * score[a]
         /\ m * score[a] < total * (weight'[a] + 1)
         /\ weight'[a] < RouteCap
    BY <1>9, <1>22
  <2> QED
    BY <2>1, <2>2, <2>3
<1>24. RouteInv'
  <2>1. \A a \in open' : score'[a] > 0
    BY <1>1, <1>5
  <2>2. \A a \in Assets \ open' : weight'[a] = IF score'[a] > 0 THEN RouteCap ELSE 0
    <3> TAKE a \in Assets \ open'
    <3>1. a \in Assets \ open /\ weight'[a] = weight[a] /\ score' = score
      BY <1>1
    <3> QED
      BY <3>1 DEF SizingInv, RouteInv
  <2>3. \A a \in open', b \in Assets \ open' : score'[b] > 0 => score'[a] < score'[b]
    BY <1>1 DEF SizingInv, RouteInv
  <2>4. /\ left' = 0 /\ open' # {}
        /\ Sum(weight, Assets)' <= RouteBudget
        /\ RouteBudget <= Sum(weight, Assets)' + Cardinality(open)' - 1
    BY <1>1, <1>14, <1>20
  <2>5. \E amount \in Nat : Proportional(amount, Sum(score, open))'
    <3>1. PICK amount \in Nat :
            /\ Sum(score, open)' > 0
            /\ \A a \in open :
                 /\ Sum(score, open)' * weight'[a] <= amount * score'[a]
                 /\ amount * score'[a] < Sum(score, open)' * (weight'[a] + 1)
                 /\ weight'[a] < RouteCap
      BY <1>23
    <3>2. open' = open
      BY <1>1
    <3>3. Proportional(amount, Sum(score, open))'
      BY <3>1, <3>2 DEF Proportional
    <3> QED
      BY <3>3
  <2> QED
    BY <2>1, <2>2, <2>3, <2>4, <2>5 DEF RouteInv
<1>25. PlanInv'
  BY <1>1 DEF SizingInv, PlanInv
<1> QED
  BY <1>11, <1>24, <1>25 DEF SizingInv

\* The route is what it was.
LEMMA SameRoute ==
  ASSUME RouteInv, UNCHANGED <<score, open, weight, left>> PROVE RouteInv'
  BY DEF RouteInv, Proportional

\* What is wanted is the sum of natural numbers.
LEMMA Wanting ==
  ASSUME SizingTypes
  PROVE  /\ \A a \in Assets : /\ Sizing!Desired(a) \in Nat
                              /\ wish[a] <= Sizing!Desired(a) /\ weight[a] <= Sizing!Desired(a)
                              /\ Sizing!Desired(a) \in {wish[a], weight[a]}
         /\ Sizing!Free \subseteq Assets /\ IsFiniteSet(Sizing!Free)
         /\ Sizing!Wanted \in Nat
         /\ \A a \in Sizing!Free : Sizing!Desired(a) <= Sizing!Wanted
<1>1. IsFiniteSet(Assets)
  OBVIOUS
<1>2. \A a \in Assets : /\ Sizing!Desired(a) \in Nat
                        /\ wish[a] <= Sizing!Desired(a) /\ weight[a] <= Sizing!Desired(a)
                        /\ Sizing!Desired(a) \in {wish[a], weight[a]}
  <2> TAKE a \in Assets
  <2>1. wish[a] \in Nat /\ weight[a] \in Nat
    BY DEF SizingTypes
  <2>2. Sizing!Desired(a) = IF wish[a] >= weight[a] THEN wish[a] ELSE weight[a]
    BY <2>1, OfTwo DEF Sizing!Desired
  <2> QED
    BY <2>1, <2>2
<1>3. Sizing!Free \subseteq Assets /\ IsFiniteSet(Sizing!Free)
  <2>1. Sizing!Free \subseteq Assets
    BY DEF Sizing!Free
  <2> QED
    BY <1>1, <2>1, FS_Subset
<1>4. PICK d : d = [a \in Sizing!Free |-> Sizing!Desired(a)]
  OBVIOUS
<1>5. Sizing!Wanted = Sum(d, Sizing!Free)
  BY <1>4, SameSum DEF Sizing!Wanted
<1>6. \A a \in Sizing!Free : d[a] \in Nat /\ d[a] = Sizing!Desired(a)
  BY <1>2, <1>3, <1>4
<1>7. Sum(d, Sizing!Free) \in Nat /\ \A a \in Sizing!Free : d[a] <= Sum(d, Sizing!Free)
  BY <1>3, <1>6, SumOfNaturals
<1> QED
  BY <1>2, <1>3, <1>5, <1>6, <1>7

\* Who gives no more than before keeps the limits.
LEMMA LessIsGiven ==
  ASSUME SizingTypes, Given, UNCHANGED <<wish, weight, vetoed, room, single>>,
         given' \in [Assets -> Nat], \A a \in Assets : given'[a] <= given[a]
  PROVE  Given' /\ (Gives' => Gives)
<1>1. /\ Sizing!Wanted' = Sizing!Wanted
      /\ \A a \in Assets : Sizing!Desired(a)' = Sizing!Desired(a)
  BY DEF Sizing!Wanted, Sizing!Free, Sizing!Desired
<1>2. Sizing!Wanted \in Nat /\ room \in Nat
  BY Wanting DEF SizingTypes
<1>3. ASSUME NEW a \in Assets
      PROVE  /\ given'[a] <= single'[a] /\ given'[a] <= Sizing!Desired(a)'
             /\ a \in vetoed' => given'[a] = 0
             /\ given'[a] > 0 => given[a] > 0
             /\ Sizing!Wanted > room =>
                  2 * Sizing!Wanted * given'[a] <= 2 * room * Sizing!Desired(a) + Sizing!Wanted
  <2>1. /\ given[a] \in Nat /\ given'[a] \in Nat /\ given'[a] <= given[a] /\ single[a] \in Nat
        /\ Sizing!Desired(a) \in Nat
    BY Wanting DEF SizingTypes
  <2>2. /\ given[a] <= single[a] /\ given[a] <= Sizing!Desired(a)
        /\ a \in vetoed => given[a] = 0
        /\ Sizing!Wanted > room =>
             2 * Sizing!Wanted * given[a] <= 2 * room * Sizing!Desired(a) + Sizing!Wanted
    BY DEF Given
  <2>3. given'[a] <= single'[a] /\ given'[a] <= Sizing!Desired(a)'
        /\ (a \in vetoed' => given'[a] = 0) /\ (given'[a] > 0 => given[a] > 0)
    BY <1>1, <2>1, <2>2
  <2>4. ASSUME Sizing!Wanted > room
        PROVE  2 * Sizing!Wanted * given'[a] <= 2 * room * Sizing!Desired(a) + Sizing!Wanted
    <3>1. PICK w, d, g, h : /\ w = 2 * Sizing!Wanted /\ g = given[a] /\ h = given'[a]
                            /\ d = 2 * room * Sizing!Desired(a)
      OBVIOUS
    <3>2. w \in Nat /\ g \in Nat /\ h \in Nat /\ h <= g
      BY <1>2, <2>1, <3>1
    <3>3. d \in Nat
      BY <1>2, <2>1, <3>1
    <3>4. w * h <= w * g /\ w * h \in Nat /\ w * g \in Nat
      BY <3>2, Scaling
    <3>5. w * g <= d + Sizing!Wanted
      BY <2>2, <2>4, <3>1
    <3>6. w * h <= d + Sizing!Wanted
      BY <1>2, <3>3, <3>4, <3>5
    <3> QED
      BY <3>1, <3>6
  <2> QED
    BY <2>3, <2>4
<1>4. Given'
  BY <1>1, <1>3 DEF Given
<1>5. Gives' => Gives
  BY <1>3 DEF Gives
<1> QED
  BY <1>4, <1>5

\* The route is over when there is nothing left or nobody to give it to.
LEMMA RouteEnds ==
  ASSUME SizingInv, Sizing!EndRoute PROVE SizingInv'
<1>1. /\ step = "route" /\ step' = "plan" /\ (left = 0 \/ open = {})
      /\ UNCHANGED <<score, wish, vetoed, room, single, passing, closed, left, open, weight, given,
                     low, high>>
  <2>1. UNCHANGED <<Sizing!inputs, Sizing!route, given, low, high>>
    BY DEF Sizing!EndRoute
  <2>2. UNCHANGED <<score, wish, vetoed, room, single, passing, closed, left, open, weight>>
    BY <2>1 DEF Sizing!inputs, Sizing!route
  <2> QED
    BY <2>1, <2>2 DEF Sizing!EndRoute
<1>2. Sizing!TypeOK'
  BY <1>1 DEF SizingInv, Sizing!TypeOK
<1>3. RouteInv'
  BY <1>1, SameRoute DEF SizingInv
<1>4. PlanInv'
  BY <1>1 DEF SizingInv, PlanInv
<1> QED
  BY <1>2, <1>3, <1>4 DEF SizingInv

\* The plan gives nobody more than its part.
LEMMA Sized ==
  ASSUME SizingInv, Sizing!Size PROVE SizingInv'
<1>1. /\ step = "plan" /\ step' = "stress"
      /\ given' = [a \in Assets |-> IF closed \/ 0 \notin passing THEN 0 ELSE Sizing!Amount(a)]
      /\ UNCHANGED <<score, wish, vetoed, room, single, passing, closed, left, open, weight, low, high>>
  <2>1. UNCHANGED <<Sizing!inputs, Sizing!route, low, high>>
    BY DEF Sizing!Size
  <2>2. UNCHANGED <<score, wish, vetoed, room, single, passing, closed, left, open, weight>>
    BY <2>1 DEF Sizing!inputs, Sizing!route
  <2>3. given' = [a \in Assets |-> IF closed \/ 0 \notin passing THEN 0 ELSE Sizing!Amount(a)]
    BY Zenon DEF Sizing!Size
  <2> QED
    BY <2>1, <2>2, <2>3 DEF Sizing!Size
<1>2. SizingTypes
  BY TypesOfSizing DEF SizingInv
<1>3. PICK W : W = Sizing!Wanted
  OBVIOUS
<1>4. W \in Nat /\ room \in Nat
  BY <1>2, <1>3, Wanting DEF SizingTypes
<1>5. ASSUME NEW a \in Assets
      PROVE  LET d == Sizing!Desired(a)  s == Sizing!Amount(a)
             IN  /\ s \in Nat /\ s <= single[a] /\ s <= d /\ d \in Nat
                 /\ a \in vetoed => s = 0
                 /\ W > room => 2 * W * s <= 2 * room * d + W
  <2>1. PICK d : d = Sizing!Desired(a)
    OBVIOUS
  <2>2. PICK s : s = Sizing!Amount(a)
    OBVIOUS
  <2>3. d \in Nat /\ single[a] \in Nat
    BY <1>2, <2>1, Wanting DEF SizingTypes
  <2>4. 2 * room * d \in Nat
    BY <1>4, <2>3
  <2>5. CASE a \notin Sizing!Free
    <3>1. s = 0
      BY <2>2, <2>5 DEF Sizing!Amount
    <3>2. 2 * W * s = 0
      BY <1>4, <3>1
    <3> QED
      BY <1>4, <2>1, <2>2, <2>3, <2>4, <3>1, <3>2
  <2>6. CASE a \in Sizing!Free
    <3>1. a \notin vetoed
      BY <2>6 DEF Sizing!Free
    <3>2. PICK t : t = Sizing!Scaled(a)
      OBVIOUS
    <3>3. t \in Nat /\ t <= d /\ (W > room => 2 * W * t <= 2 * room * d + W)
      <4>1. CASE W <= room
        <5>1. t = d
          BY <1>3, <2>1, <3>2, <4>1 DEF Sizing!Scaled
        <5> QED
          BY <1>4, <2>3, <4>1, <5>1
      <4>2. CASE ~(W <= room)
        <5>1. t = Sizing!Rounded(d * room, W)
          BY <1>3, <2>1, <3>2, <4>2 DEF Sizing!Scaled
        <5>2. W \in Nat \ {0} /\ room <= W
          BY <1>4, <4>2
        <5>3. t <= d
          BY <1>4, <2>3, <5>1, <5>2, RoundedPart
        <5>4. d * room \in Nat
          BY <1>4, <2>3
        <5>5. t \in Nat /\ 2 * W * t <= 2 * (d * room) + W
          BY <5>1, <5>2, <5>4, Rounding
        <5>6. 2 * (d * room) = 2 * room * d
          BY <1>4, <2>3
        <5> QED
          BY <5>3, <5>5, <5>6
      <4> QED
        BY <4>1, <4>2
    <3>4. s = IF t <= single[a] THEN t ELSE single[a]
      <4>1. s = Sizing!Min({t, single[a]})
        BY <2>2, <2>6, <3>2, Zenon DEF Sizing!Amount
      <4>2. t \in Int /\ single[a] \in Int
        BY <2>3, <3>3
      <4> QED
        BY <4>1, <4>2, OfTwo
    <3>5. s \in Nat /\ s <= t /\ s <= single[a] /\ s <= d
      BY <2>3, <3>3, <3>4
    <3>6. W > room => 2 * W * s <= 2 * room * d + W
      <4>1. PICK w : w = 2 * W
        OBVIOUS
      <4>2. w \in Nat
        BY <1>4, <4>1
      <4>3. w * s <= w * t /\ w * s \in Nat /\ w * t \in Nat
        BY <3>3, <3>5, <4>2, Scaling
      <4> QED
        BY <1>4, <2>4, <3>3, <4>1, <4>3
    <3> QED
      BY <2>1, <2>2, <2>3, <3>1, <3>5, <3>6
  <2> QED
    BY <2>5, <2>6
<1>6. ASSUME NEW a \in Assets
      PROVE  /\ given'[a] \in Nat /\ given'[a] <= single[a] /\ given'[a] <= Sizing!Desired(a)
             /\ a \in vetoed => given'[a] = 0
             /\ W > room => 2 * W * given'[a] <= 2 * room * Sizing!Desired(a) + W
             /\ given'[a] > 0 => ~closed /\ 0 \in passing
  <2>1. CASE closed \/ 0 \notin passing
    <3>1. given'[a] = 0
      BY <1>1, <2>1
    <3>2. PICK d : d = Sizing!Desired(a)
      OBVIOUS
    <3>3. d \in Nat /\ single[a] \in Nat
      BY <1>2, <1>5, <3>2 DEF SizingTypes
    <3>4. 2 * room * d \in Nat /\ 2 * W * 0 = 0
      BY <1>4, <3>3
    <3> QED
      BY <1>4, <3>1, <3>2, <3>3, <3>4
  <2>2. CASE ~(closed \/ 0 \notin passing)
    <3>1. given'[a] = Sizing!Amount(a)
      BY <1>1, <2>2
    <3> QED
      BY <1>5, <2>2, <3>1
  <2> QED
    BY <2>1, <2>2
<1>7. given' \in [Assets -> Nat]
  <2>1. given' = [a \in Assets |-> given'[a]]
    BY <1>1
  <2> QED
    BY <1>6, <2>1
<1>8. Sizing!TypeOK'
  BY <1>1, <1>7 DEF SizingInv, Sizing!TypeOK
<1>9. RouteInv'
  BY <1>1, SameRoute DEF SizingInv
<1>10. Given'
  <2>1. /\ Sizing!Wanted' = Sizing!Wanted
        /\ \A a \in Assets : Sizing!Desired(a)' = Sizing!Desired(a)
    BY <1>1 DEF Sizing!Wanted, Sizing!Free, Sizing!Desired
  <2> QED
    BY <1>1, <1>3, <1>6, <2>1 DEF Given
<1>11. Gives' => ~closed' /\ 0 \in passing'
  BY <1>1, <1>6 DEF Gives
<1>12. PlanInv'
  BY <1>1, <1>10, <1>11 DEF SizingInv, PlanInv
<1> QED
  BY <1>8, <1>9, <1>12 DEF SizingInv

\* Money is given when somebody gets some.
LEMMA SomeIsGiven ==
  ASSUME SizingTypes PROVE Gives <=> Sizing!Total(given) > 0
<1>1. \A a \in Assets : given[a] \in Nat
  BY DEF SizingTypes
<1>2. Sizing!Total(given) = Sum(given, Assets)
  BY SameSum DEF Sizing!Total
<1>3. IsFiniteSet(Assets)
  OBVIOUS
<1>4. /\ Sum(given, Assets) \in Nat
      /\ \A a \in Assets : given[a] <= Sum(given, Assets)
      /\ Sum(given, Assets) > 0 => \E a \in Assets : given[a] > 0
  BY <1>1, <1>3, SumOfNaturals
<1> QED
  BY <1>1, <1>2, <1>4 DEF Gives

\* The test of the whole plan.
LEMMA Stressed ==
  ASSUME SizingInv, Sizing!Stress PROVE SizingInv'
<1>1. /\ step = "stress"
      /\ UNCHANGED <<score, wish, vetoed, room, single, passing, closed, left, open, weight, given, high>>
  <2>1. UNCHANGED <<Sizing!inputs, Sizing!route, given, high>> /\ step = "stress"
    BY DEF Sizing!Stress
  <2> QED
    BY <2>1 DEF Sizing!inputs, Sizing!route
<1>2. SizingTypes
  BY TypesOfSizing DEF SizingInv
<1>3. \/ /\ Sizing!Total(given) > 0 /\ ~Sizing!Passes(Whole) /\ step' = "search" /\ low' = low
      \/ /\ ~(Sizing!Total(given) > 0 /\ ~Sizing!Passes(Whole)) /\ step' = "done" /\ low' = Whole
  BY Zenon DEF Sizing!Stress
<1>4. low' \in 0 .. Whole /\ Whole \in Nat /\ Whole > 0 /\ low = 0 /\ high = Whole
  <2>1. Whole \in Nat /\ Whole > 0
    OBVIOUS
  <2>2. low = 0 /\ high = Whole
    BY <1>1 DEF SizingInv, PlanInv
  <2> QED
    BY <1>3, <2>1, <2>2
<1>5. Sizing!TypeOK'
  <2>1. step' \in {"route", "plan", "stress", "search", "done"}
    BY <1>3
  <2> QED
    BY <1>1, <1>4, <2>1 DEF SizingInv, Sizing!TypeOK
<1>6. RouteInv'
  BY <1>1, SameRoute DEF SizingInv
<1>7. Given' /\ (Gives' => Gives)
  <2>1. Given
    BY <1>1 DEF SizingInv, PlanInv
  <2>2. given' \in [Assets -> Nat] /\ \A a \in Assets : given'[a] <= given[a]
    BY <1>1, <1>2 DEF SizingTypes
  <2> QED
    BY <1>1, <1>2, <2>1, <2>2, LessIsGiven
<1>8. (Gives => ~closed /\ 0 \in passing) /\ (left = 0 \/ open = {})
  BY <1>1 DEF SizingInv, PlanInv
<1>9. Gives <=> Sizing!Total(given) > 0
  BY <1>2, SomeIsGiven
<1>10. CASE step' = "search"
  <2>1. Gives /\ low' = 0
    BY <1>3, <1>4, <1>9, <1>10
  <2> QED
    BY <1>1, <1>4, <1>5, <1>6, <1>7, <1>8, <1>10, <2>1 DEF SizingInv, PlanInv
<1>11. CASE step' = "done"
  <2>1. low' = Whole /\ (Gives => Whole \in passing)
    BY <1>3, <1>9, <1>11 DEF Sizing!Passes
  <2> QED
    BY <1>1, <1>5, <1>6, <1>7, <1>8, <1>11, <2>1 DEF SizingInv, PlanInv
<1> QED
  BY <1>3, <1>10, <1>11

\* The search keeps what passed and what did not apart.
LEMMA Halved ==
  ASSUME SizingInv, Sizing!Halve PROVE SizingInv'
<1>1. /\ step = "search" /\ step' = "search" /\ high - low > 1
      /\ UNCHANGED <<score, wish, vetoed, room, single, passing, closed, left, open, weight, given>>
  <2>1. UNCHANGED <<step, Sizing!inputs, Sizing!route, given>> /\ step = "search" /\ high - low > 1
    BY DEF Sizing!Halve
  <2> QED
    BY <2>1 DEF Sizing!inputs, Sizing!route
<1>2. SizingTypes
  BY TypesOfSizing DEF SizingInv
<1>3. PICK m : m = Sizing!Middle
  OBVIOUS
<1>4. \/ m \in passing /\ low' = m /\ high' = high
      \/ low' = low /\ high' = m
  BY <1>3, Zenon DEF Sizing!Halve, Sizing!Passes
<1>5. low \in 0 .. Whole /\ high \in 0 .. Whole /\ Whole \in Nat
  BY <1>2 DEF SizingTypes
<1>6. low < m /\ m < high /\ m \in 0 .. Whole
  BY <1>1, <1>3, <1>5 DEF Sizing!Middle
<1>7. 0 \in passing /\ low \in passing /\ low < high /\ (left = 0 \/ open = {})
  BY <1>1 DEF SizingInv, PlanInv
<1>8. low' \in 0 .. Whole /\ high' \in 0 .. Whole /\ low' < high' /\ low' \in passing
  BY <1>4, <1>5, <1>6, <1>7
<1>9. Sizing!TypeOK'
  BY <1>1, <1>8 DEF SizingInv, Sizing!TypeOK
<1>10. RouteInv'
  BY <1>1, SameRoute DEF SizingInv
<1>11. Given' /\ (Gives' => Gives) /\ (Gives => ~closed /\ 0 \in passing)
  <2>1. Given /\ (Gives => ~closed /\ 0 \in passing)
    BY <1>1 DEF SizingInv, PlanInv
  <2>2. given' \in [Assets -> Nat] /\ \A a \in Assets : given'[a] <= given[a]
    BY <1>1, <1>2 DEF SizingTypes
  <2> QED
    BY <1>1, <1>2, <2>1, <2>2, LessIsGiven
<1>12. PlanInv'
  BY <1>1, <1>7, <1>8, <1>11 DEF PlanInv
<1> QED
  BY <1>9, <1>10, <1>12 DEF SizingInv

\* The part that passed is no more than the whole.
LEMMA Settled ==
  ASSUME SizingInv, Sizing!Settle PROVE SizingInv'
<1>1. /\ step = "search" /\ step' = "done" /\ given' = Sizing!Part(low)
      /\ UNCHANGED <<score, wish, vetoed, room, single, passing, closed, left, open, weight, low, high>>
  <2>1. UNCHANGED <<Sizing!inputs, Sizing!route, low, high>> /\ step = "search" /\ step' = "done"
        /\ given' = Sizing!Part(low)
    BY DEF Sizing!Settle
  <2> QED
    BY <2>1 DEF Sizing!inputs, Sizing!route
<1>2. SizingTypes
  BY TypesOfSizing DEF SizingInv
<1>3. low \in 0 .. Whole /\ Whole \in Nat \ {0}
  BY <1>2 DEF SizingTypes
<1>4. \A a \in Assets : given'[a] \in Nat /\ given'[a] <= given[a]
  <2> TAKE a \in Assets
  <2>1. given'[a] = Sizing!Rounded(given[a] * low, Whole)
    BY <1>1 DEF Sizing!Part
  <2>2. given[a] \in Nat /\ low \in Nat /\ low <= Whole
    BY <1>2, <1>3 DEF SizingTypes
  <2>3. given[a] * low \in Nat
    BY <2>2
  <2>4. Sizing!Rounded(given[a] * low, Whole) \in Nat
    BY <1>3, <2>3, Rounding
  <2>5. Sizing!Rounded(given[a] * low, Whole) <= given[a]
    BY <1>3, <2>2, RoundedPart
  <2> QED
    BY <2>1, <2>4, <2>5
<1>5. given' \in [Assets -> Nat]
  <2>1. given' = [a \in Assets |-> given'[a]]
    BY <1>1 DEF Sizing!Part
  <2> QED
    BY <1>4, <2>1
<1>6. Given /\ (Gives => ~closed /\ 0 \in passing) /\ low \in passing /\ (left = 0 \/ open = {})
  BY <1>1 DEF SizingInv, PlanInv
<1>7. Given' /\ (Gives' => Gives)
  BY <1>1, <1>2, <1>4, <1>5, <1>6, LessIsGiven
<1>8. Sizing!TypeOK'
  BY <1>1, <1>5 DEF SizingInv, Sizing!TypeOK
<1>9. RouteInv'
  BY <1>1, SameRoute DEF SizingInv
<1>10. PlanInv'
  BY <1>1, <1>6, <1>7 DEF PlanInv
<1> QED
  BY <1>8, <1>9, <1>10 DEF SizingInv

\* No step breaks it.
LEMMA SizingStep ==
  ASSUME SizingInv, [Sizing!Next]_(Sizing!vars) PROVE SizingInv'
<1>1. CASE Sizing!CapRound
  BY <1>1, Capping
<1>2. CASE Sizing!ShareRound
  BY <1>2, Sharing
<1>3. CASE Sizing!EndRoute
  BY <1>3, RouteEnds
<1>4. CASE Sizing!Size
  BY <1>4, Sized
<1>5. CASE Sizing!Stress
  BY <1>5, Stressed
<1>6. CASE Sizing!Halve
  BY <1>6, Halved
<1>7. CASE Sizing!Settle
  BY <1>7, Settled
<1>8. CASE UNCHANGED Sizing!vars
  <2>1. UNCHANGED <<step, score, wish, vetoed, room, single, passing, closed, left, open, weight,
                    given, low, high>>
    BY <1>8 DEF Sizing!vars, Sizing!inputs, Sizing!route
  <2>2. Sizing!TypeOK'
    BY <2>1 DEF SizingInv, Sizing!TypeOK
  <2>3. RouteInv'
    BY <2>1, SameRoute DEF SizingInv
  <2>4. Gives' = Gives
    BY <2>1 DEF Gives
  <2>5. Given => Given'
    <3>1. SizingTypes
      BY TypesOfSizing DEF SizingInv
    <3>2. given' \in [Assets -> Nat] /\ \A a \in Assets : given'[a] <= given[a]
      BY <2>1, <3>1 DEF SizingTypes
    <3> QED
      BY <2>1, <3>1, <3>2, LessIsGiven
  <2>6. PlanInv'
    BY <2>1, <2>4, <2>5 DEF SizingInv, PlanInv
  <2> QED
    BY <2>2, <2>3, <2>6 DEF SizingInv
<1> QED
  BY <1>1, <1>2, <1>3, <1>4, <1>5, <1>6, <1>7, <1>8 DEF Sizing!Next

\* A finished route is fair.
LEMMA Fair == SizingInv => Sizing!RouteIsFair
<1> SUFFICES ASSUME SizingInv, step = "plan" PROVE Sizing!RouteIsFair
  BY DEF Sizing!RouteIsFair
<1>1. SizingTypes /\ RouteCap \in Nat /\ RouteBudget \in Nat /\ IsFiniteSet(Assets)
  BY TypesOfSizing DEF SizingInv
<1>2. open \in SUBSET Assets /\ IsFiniteSet(open) /\ left \in Nat
  BY <1>1, FS_Subset DEF SizingTypes
<1>3. \A a \in Assets : score[a] \in Nat /\ weight[a] \in Nat /\ weight[a] <= RouteCap
  <2>1. weight \in [Assets -> 0 .. RouteCap]
    BY DEF SizingInv, Sizing!TypeOK
  <2> QED
    BY <1>1, <2>1 DEF SizingTypes
<1>4. left = 0 \/ open = {}
  BY DEF SizingInv, PlanInv
<1>5. PICK In : In = {a \in Assets : score[a] > 0}
  OBVIOUS
<1>6. In \subseteq Assets /\ IsFiniteSet(In) /\ open \subseteq In
  <2>1. In \subseteq Assets /\ open \subseteq In
    BY <1>2, <1>5 DEF SizingInv, RouteInv
  <2> QED
    BY <1>1, <2>1, FS_Subset
<1>7. PICK t, n, i : t = Sum(weight, Assets) /\ n = Cardinality(open) /\ i = Cardinality(In)
  OBVIOUS
<1>8. t \in Nat /\ n \in Nat /\ i \in Nat
  <2>1. \A a \in Assets : weight[a] \in Nat
    BY <1>3
  <2>2. Sum(weight, Assets) \in Nat
    BY <1>1, <2>1, SumOfNaturals
  <2> QED
    BY <1>2, <1>6, <1>7, <2>2, FS_CardinalityType
<1>9. /\ \A a \in open : score[a] > 0
      /\ \A a \in Assets \ open : weight[a] = IF score[a] > 0 THEN RouteCap ELSE 0
      /\ \A a \in open, b \in Assets \ open : score[b] > 0 => score[a] < score[b]
  BY DEF SizingInv, RouteInv
<1>10. PICK u : u = Cardinality({a \in In : weight[a] < RouteCap})
  OBVIOUS
<1>11. u \in Nat
  <2>1. IsFiniteSet({a \in In : weight[a] < RouteCap})
    <3>1. {a \in In : weight[a] < RouteCap} \subseteq In
      OBVIOUS
    <3> QED
      BY <1>6, <3>1, FS_Subset
  <2> QED
    BY <1>10, <2>1, FS_CardinalityType
<1>12. RouteCap * i \in Nat
  BY <1>1, <1>8
<1>13. ASSUME t + (IF u - 1 > 0 THEN u - 1 ELSE 0) >= RouteBudget \/ t = RouteCap * i
       PROVE  t + Sizing!Max({0, u - 1}) >= Sizing!Min({RouteBudget, RouteCap * i})
  <2>1. Sizing!Max({0, u - 1}) = IF 0 >= u - 1 THEN 0 ELSE u - 1
    <3>1. 0 \in Int /\ u - 1 \in Int
      BY <1>11
    <3> QED
      BY <3>1, OfTwo
  <2>2. Sizing!Min({RouteBudget, RouteCap * i})
          = IF RouteBudget <= RouteCap * i THEN RouteBudget ELSE RouteCap * i
    <3>1. PICK p, q : p = RouteBudget /\ q = RouteCap * i
      OBVIOUS
    <3>2. p \in Int /\ q \in Int
      BY <1>1, <1>12, <3>1
    <3>3. Sizing!Min({p, q}) = IF p <= q THEN p ELSE q
      BY <3>2, OfTwo
    <3> QED
      BY <3>1, <3>3
  <2> QED
    BY <1>1, <1>8, <1>11, <1>12, <1>13, <2>1, <2>2
<1>14. ASSUME NEW a \in In, NEW b \in In
       PROVE  /\ score[a] \in Nat /\ score[b] \in Nat /\ weight[a] \in Nat /\ weight[b] \in Nat
              /\ weight[b] <= RouteCap /\ score[a] > 0 /\ score[b] > 0
              /\ a \notin open => weight[a] = RouteCap
              /\ b \notin open => weight[b] = RouteCap
              /\ a \in open /\ score[a] >= score[b] => b \in open
  <2>1. a \in Assets /\ b \in Assets /\ score[a] > 0 /\ score[b] > 0
    BY <1>5
  <2>2. score[a] \in Nat /\ score[b] \in Nat
    BY <1>3, <2>1
  <2>3. a \in open /\ score[a] >= score[b] => b \in open
    BY <1>9, <2>1, <2>2
  <2> QED
    BY <1>3, <1>9, <2>1, <2>3
<1>15. ASSUME t <= RouteBudget,
              t + (IF u - 1 > 0 THEN u - 1 ELSE 0) >= RouteBudget \/ t = RouteCap * i,
              \A a, b \in open :
                /\ score[a] >= score[b] => weight[a] >= weight[b]
                /\ weight[a] * score[b] < (weight[b] + 1) * score[a]
       PROVE  Sizing!RouteIsFair
  <2>1. Sizing!Total(weight) = t
    BY <1>7, SameSum DEF Sizing!Total
  <2>2. t + Sizing!Max({0, u - 1}) >= Sizing!Min({RouteBudget, RouteCap * i})
    BY <1>13, <1>15
  <2>3. ASSUME NEW a \in In, NEW b \in In
        PROVE  /\ score[a] >= score[b] => weight[a] >= weight[b]
               /\ weight[a] < RouteCap /\ weight[b] < RouteCap =>
                    weight[a] * score[b] < (weight[b] + 1) * score[a]
    <3>1. CASE a \in open /\ b \in open
      BY <1>15, <3>1
    <3>2. CASE a \notin open
      BY <1>1, <1>14, <3>2
    <3>3. CASE a \in open /\ b \notin open
      BY <1>1, <1>14, <3>3
    <3> QED
      BY <3>1, <3>2, <3>3
  <2>4. Sizing!Cardinality(In) = i /\ Sizing!Cardinality({a \in In : weight[a] < RouteCap}) = u
    BY <1>7, <1>10 DEF Sizing!Cardinality, Cardinality
  <2>5. \A a, b \in In : /\ score[a] >= score[b] => weight[a] >= weight[b]
                         /\ weight[a] < RouteCap /\ weight[b] < RouteCap =>
                              weight[a] * score[b] < (weight[b] + 1) * score[a]
    BY <2>3
  <2> QED
    BY <1>5, <1>15, <2>1, <2>2, <2>4, <2>5, Zenon DEF Sizing!RouteIsFair
<1>16. CASE open = {}
  <2>1. weight = [a \in Assets |-> weight[a]]
    BY DEF SizingInv, Sizing!TypeOK
  <2>2. \A a \in Assets : weight[a] \in Int
    BY <1>3
  <2>3. \A a \in Assets \ In : weight[a] = 0
    BY <1>5, <1>9, <1>16, <1>3
  <2>4. \A a \in In : weight[a] = RouteCap
    BY <1>5, <1>9, <1>16
  <2>5. Sum(weight, Assets) = Sum(weight, In)
    BY <1>1, <1>6, <2>2, <2>3, SumOfRest
  <2>6. Sum(weight, In) = RouteCap * Cardinality(In)
    <3>1. RouteCap \in Int
      BY <1>1
    <3> QED
      BY <1>6, <2>4, <3>1, SumOfEqual
  <2>7. t = RouteCap * i
    BY <1>7, <2>5, <2>6
  <2>8. t <= RouteBudget
    <3>1. Sum(weight, Assets) + left = RouteBudget
      BY <1>16 DEF SizingInv, RouteInv
    <3> QED
      BY <1>1, <1>2, <1>7, <1>8, <3>1
  <2> QED
    BY <1>15, <1>16, <2>7, <2>8
<1>17. CASE open # {} /\ (\A a \in open : weight[a] = 0) /\ Sum(weight, Assets) + left = RouteBudget
  <2>1. left = 0 /\ t + left = RouteBudget
    BY <1>4, <1>7, <1>17
  <2>2. t = RouteBudget
    BY <1>8, <2>1
  <2>3. \A a, b \in open : /\ score[a] >= score[b] => weight[a] >= weight[b]
                           /\ weight[a] * score[b] < (weight[b] + 1) * score[a]
    <3> TAKE a, b \in open
    <3>1. score[a] \in Nat /\ score[b] \in Nat /\ score[a] > 0 /\ weight[a] = 0 /\ weight[b] = 0
      BY <1>2, <1>3, <1>9, <1>17
    <3> QED
      BY <3>1
  <2> QED
    BY <1>1, <1>8, <1>11, <1>15, <2>2, <2>3
<1>18. CASE /\ left = 0 /\ open # {}
            /\ \E amount \in Nat : Proportional(amount, Sum(score, open))
            /\ Sum(weight, Assets) <= RouteBudget
            /\ RouteBudget <= Sum(weight, Assets) + Cardinality(open) - 1
  <2>1. PICK m \in Nat : Proportional(m, Sum(score, open))
    BY <1>18
  <2>2. PICK total : total = Sum(score, open)
    OBVIOUS
  <2>3. total \in Nat
    <3>1. \A a \in open : score[a] \in Nat
      BY <1>2, <1>3
    <3> QED
      BY <1>2, <2>2, <3>1, SumOfNaturals
  <2>4. total > 0 /\ \A a \in open : /\ total * weight[a] <= m * score[a]
                                   /\ m * score[a] < total * (weight[a] + 1)
                                   /\ weight[a] < RouteCap
    BY <2>1, <2>2, Zenon DEF Proportional
  <2>5. u = n
    <3>1. {a \in In : weight[a] < RouteCap} = open
      <4>1. \A a \in In : a \notin open => ~(weight[a] < RouteCap)
        BY <1>1, <1>14
      <4> QED
        BY <1>6, <2>4, <4>1
    <3> QED
      BY <1>7, <1>10, <3>1
  <2>6. t <= RouteBudget /\ t + (IF u - 1 > 0 THEN u - 1 ELSE 0) >= RouteBudget
    <3>1. RouteBudget <= t + n - 1 /\ t <= RouteBudget
      BY <1>7, <1>18
    <3> QED
      BY <1>1, <1>8, <2>5, <3>1
  <2>7. ASSUME NEW a \in open, NEW b \in open
        PROVE  /\ score[a] >= score[b] => weight[a] >= weight[b]
               /\ weight[a] * score[b] < (weight[b] + 1) * score[a]
    <3>1. PICK p, q, x, y : p = score[a] /\ q = score[b] /\ x = weight[a] /\ y = weight[b]
      OBVIOUS
    <3>2. p \in Nat /\ q \in Nat /\ x \in Nat /\ y \in Nat /\ p > 0 /\ q > 0
      BY <1>2, <1>3, <1>9, <3>1
    <3>3. total * x <= m * p /\ m * p < total * (x + 1) /\ total * y <= m * q /\ m * q < total * (y + 1)
      BY <2>4, <3>1
    <3>4. /\ m * p \in Nat /\ m * q \in Nat /\ total * x \in Nat /\ total * y \in Nat
          /\ total * (x + 1) \in Nat /\ total * (y + 1) \in Nat
      BY <2>3, <3>2
    <3>5. p >= q => x >= y
      <4> SUFFICES ASSUME p >= q PROVE x >= y
        OBVIOUS
      <4>1. m * q <= m * p
        BY <3>2, Scaling
      <4>2. total * y < total * (x + 1)
        BY <3>3, <3>4, <4>1
      <4>3. y < x + 1
        BY <2>3, <2>4, <3>2, <4>2, Cancelled
      <4> QED
        BY <3>2, <4>3
    <3>6. x * q < (y + 1) * p
      <4>1. (total * x) * q <= (m * p) * q
        BY <3>2, <3>3, <3>4, Scaling
      <4>2. (m * q) * p < (total * (y + 1)) * p
        <5>1. p * (m * q) < p * (total * (y + 1))
          <6>1. PICK k, l : k = m * q /\ l = total * (y + 1)
            OBVIOUS
          <6>2. k \in Nat /\ l \in Nat /\ k < l
            BY <3>3, <3>4, <6>1
          <6>3. p * k < p * l
            <7>1. p * (k + 1) <= p * l
              BY <3>2, <6>2, Scaling
            <7>2. p * (k + 1) = p * k + p /\ p * k \in Nat /\ p * l \in Nat
              BY <3>2, <6>2
            <7> QED
              BY <3>2, <7>1, <7>2
          <6> QED
            BY <6>1, <6>3
        <5> QED
          BY <3>2, <3>4, <5>1
      <4>3. (m * p) * q = (m * q) * p
        BY <3>2
      <4>4. (total * x) * q = total * (x * q) /\ (total * (y + 1)) * p = total * ((y + 1) * p)
        BY <2>3, <3>2
      <4>5. (total * x) * q \in Int /\ (m * p) * q \in Int /\ (total * (y + 1)) * p \in Int
        BY <3>2, <3>4
      <4>6. total * (x * q) < total * ((y + 1) * p)
        BY <4>1, <4>2, <4>3, <4>4, <4>5
      <4>7. x * q \in Int /\ (y + 1) * p \in Int
        BY <3>2
      <4> QED
        BY <2>3, <2>4, <4>6, <4>7, Cancelled
    <3> QED
      BY <3>1, <3>5, <3>6
  <2> QED
    BY <1>15, <2>6, <2>7
<1> QED
  BY <1>16, <1>17, <1>18 DEF SizingInv, RouteInv

\* A plan keeps its limits.
LEMMA Limited == SizingInv => Sizing!PlanKeepsItsLimits
<1> SUFFICES ASSUME SizingInv, step = "done" PROVE Sizing!PlanKeepsItsLimits
  BY DEF Sizing!PlanKeepsItsLimits, Sizing!Ended
<1>1. SizingTypes /\ RouteBudget \in Nat /\ IsFiniteSet(Assets)
  BY TypesOfSizing DEF SizingInv
<1>2. Given /\ (Gives => ~closed /\ 0 \in passing) /\ (Gives => low \in passing)
  BY DEF SizingInv, PlanInv
<1>3. PICK P : P = {a \in Assets : given[a] > 0}
  OBVIOUS
<1>4. P \subseteq Assets /\ IsFiniteSet(P)
  <2>1. P \subseteq Assets
    BY <1>3
  <2> QED
    BY <1>1, <2>1, FS_Subset
<1>5. PICK g, W, n : g = Sum(given, P) /\ W = Sizing!Wanted /\ n = Cardinality(P)
  OBVIOUS
<1>6. \A a \in Assets : given[a] \in Nat
  BY <1>1 DEF SizingTypes
<1>7. Sizing!Total(given) = g
  <2>1. \A a \in Assets : given[a] \in Int
    BY <1>6
  <2>2. \A a \in Assets \ P : given[a] = 0
    BY <1>3, <1>6
  <2>3. Sum(given, Assets) = Sum(given, P)
    BY <1>1, <1>4, <2>1, <2>2, SumOfRest
  <2> QED
    BY <1>5, <2>3, SameSum DEF Sizing!Total
<1>8. g \in Nat /\ W \in Nat /\ n \in Nat /\ room \in Nat
  <2>1. \A a \in P : given[a] \in Nat
    BY <1>4, <1>6
  <2>2. Sum(given, P) \in Nat
    BY <1>4, <2>1, SumOfNaturals
  <2> QED
    BY <1>1, <1>4, <1>5, <2>2, Wanting, FS_CardinalityType DEF SizingTypes
<1>9. PICK d : d = [a \in Assets |-> Sizing!Desired(a)]
  OBVIOUS
<1>10. \A a \in Assets : d[a] = Sizing!Desired(a) /\ d[a] \in Nat
  BY <1>1, <1>9, Wanting
<1>11. P \subseteq Sizing!Free
  BY <1>2, <1>3, <1>6 DEF Given, Sizing!Free
<1>12. Sum(d, P) \in Nat /\ Sum(d, P) <= W
  <2>1. Sizing!Free \subseteq Assets /\ IsFiniteSet(Sizing!Free)
    BY <1>1, Wanting
  <2>2. PICK e : e = [a \in Sizing!Free |-> Sizing!Desired(a)]
    OBVIOUS
  <2>3. \A a \in Sizing!Free : e[a] \in Int /\ e[a] = d[a]
    BY <1>10, <2>1, <2>2
  <2>4. Sum(e, Sizing!Free) = Sum(d, Sizing!Free)
    BY <2>1, <2>3, SumOfSame
  <2>5. W = Sum(e, Sizing!Free)
    BY <1>5, <2>2, SameSum DEF Sizing!Wanted
  <2>6. \A a \in Sizing!Free : d[a] \in Nat
    BY <1>10, <2>1
  <2>7. Sum(d, P) \in Nat /\ Sum(d, P) <= Sum(d, Sizing!Free)
    BY <1>11, <2>1, <2>6, SumOfNaturals
  <2> QED
    BY <2>4, <2>5, <2>7
<1>13. 2 * g <= 2 * room + n
  <2>1. PICK s : s = Sum(d, P)
    OBVIOUS
  <2>2. CASE W <= room
    <3>1. \A a \in P : given[a] \in Int /\ d[a] \in Int /\ given[a] <= d[a]
      BY <1>2, <1>4, <1>6, <1>10 DEF Given
    <3>2. Sum(given, P) <= Sum(d, P)
      BY <1>4, <3>1, SumOfLess
    <3> QED
      BY <1>5, <1>8, <1>12, <2>2, <3>2
  <2>3. CASE ~(W <= room)
    <3>1. W > room /\ W \in Nat \ {0}
      BY <1>8, <2>3
    <3>2. \A a \in P : /\ given[a] \in Int /\ d[a] \in Int
                       /\ (2 * W) * given[a] <= (2 * room) * d[a] + W
      BY <1>2, <1>4, <1>5, <1>6, <1>10, <3>1 DEF Given
    <3>3. 2 * W \in Int /\ 2 * room \in Int /\ W \in Int
      BY <1>8
    <3>4. (2 * W) * Sum(given, P) <= (2 * room) * Sum(d, P) + W * Cardinality(P)
      BY <1>4, <3>2, <3>3, SumBound
    <3>5. (2 * W) * g <= (2 * room) * s + W * n
      BY <1>5, <2>1, <3>4
    <3>6. s \in Nat /\ s <= W
      BY <1>12, <2>1
    <3>7. (2 * room) * s <= (2 * room) * W
      <4>1. 2 * room \in Nat
        BY <1>8
      <4> QED
        BY <1>8, <3>6, <4>1, Scaling
    <3>8. /\ (2 * room) * s \in Int /\ (2 * room) * W \in Int /\ W * n \in Int /\ (2 * W) * g \in Int
      BY <1>8, <3>6
    <3>9. (2 * W) * g <= (2 * room) * W + W * n
      BY <3>5, <3>7, <3>8
    <3>10. (2 * W) * g = W * (2 * g) /\ (2 * room) * W + W * n = W * (2 * room + n)
      BY <1>8
    <3>11. W * (2 * g) <= W * (2 * room + n) /\ 2 * g \in Int /\ 2 * room + n \in Int
      BY <1>8, <3>9, <3>10
    <3> QED
      BY <3>1, <3>11, Cancelled
  <2> QED
    BY <2>2, <2>3
<1>14. PICK h : h = [a \in Assets |-> IF wish[a] = 0 THEN given[a] ELSE 0]
  OBVIOUS
<1>15. Sizing!Total(h) <= RouteBudget
  <2>1. \A a \in Assets : h[a] \in Int /\ weight[a] \in Int /\ h[a] <= weight[a]
    <3> TAKE a \in Assets
    <3>1. weight[a] \in Nat /\ wish[a] \in Nat /\ given[a] \in Nat
      BY <1>1 DEF SizingTypes
    <3>2. given[a] <= Sizing!Desired(a) /\ Sizing!Desired(a) \in {wish[a], weight[a]}
          /\ Sizing!Desired(a) \in Nat
      BY <1>1, <1>2, Wanting DEF Given
    <3>3. CASE wish[a] = 0
      BY <1>14, <3>1, <3>2, <3>3
    <3>4. CASE wish[a] # 0
      BY <1>14, <3>1, <3>4
    <3> QED
      BY <3>3, <3>4
  <2>2. Sum(h, Assets) <= Sum(weight, Assets)
    BY <1>1, <2>1, SumOfLess
  <2>3. Sum(weight, Assets) <= RouteBudget
    <3>1. Sum(weight, Assets) \in Int /\ left \in Nat
      BY <1>1, <2>1, SumWithout DEF SizingTypes
    <3> QED
      BY <1>1, <3>1 DEF SizingInv, RouteInv
  <2>4. Sum(h, Assets) \in Int /\ Sum(weight, Assets) \in Int
    BY <1>1, <2>1, SumWithout
  <2>5. Sizing!Total(h) = Sum(h, Assets)
    BY SameSum DEF Sizing!Total
  <2> QED
    BY <1>1, <2>2, <2>3, <2>4, <2>5
<1>16. Sizing!Total(given) > 0 => ~closed /\ Sizing!Passes(0) /\ Sizing!Passes(low)
  BY <1>1, <1>2, SomeIsGiven DEF Sizing!Passes
<1>17. \A a \in Assets : given[a] <= single[a] /\ (a \in vetoed => given[a] = 0)
  BY <1>2 DEF Given
<1>18. Sizing!Cardinality({a \in Assets : given[a] > 0}) = n
  BY <1>3, <1>5 DEF Sizing!Cardinality, Cardinality
<1>19. 2 * Sizing!Total(given) <= 2 * room + Sizing!Cardinality({a \in Assets : given[a] > 0})
  BY <1>7, <1>13, <1>18
<1> QED
  BY <1>14, <1>15, <1>16, <1>17, <1>19, Zenon DEF Sizing!PlanKeepsItsLimits

-----------------------------------------------------------------------------
(* All of them together, as MCPortfolio has them.                          *)

PortfolioInv ==
  /\ focus = "plans" => CapitalInv
  /\ focus = "quant" => QuantInv
  /\ focus = "routes" => RoutesInv
  /\ focus = "committee" => CommitteeInv
  /\ focus = "sizing" => SizingInv

\* Whatever component is in focus starts with its invariant,
LEMMA PortfolioStarts == MCInit => PortfolioInv
<1> SUFFICES ASSUME MCInit PROVE PortfolioInv
  OBVIOUS
<1>1. focus = "plans" => Capital!Init
  BY DEF MCInit
<1>2. focus = "quant" => Quant!Init
  BY DEF MCInit
<1>3. focus = "routes" => Routes!Init
  BY DEF MCInit
<1>4. focus = "committee" => Committee!Init
  BY DEF MCInit
<1>5. focus = "sizing" => Sizing!Init
  BY DEF MCInit, SizingInit
<1> QED
  BY <1>1, <1>2, <1>3, <1>4, <1>5, CapitalStarts, QuantStarts, RoutesStart, CommitteeStarts,
     SizingStarts DEF PortfolioInv

\* A step is one of the component in focus.
LEMMA InFocus ==
  ASSUME [MCNext]_all
  PROVE  /\ focus' = focus
         /\ focus = "plans" => [Capital!Next]_(Capital!vars)
         /\ focus = "quant" => [Quant!Next]_(Quant!vars)
         /\ focus = "routes" => [Routes!Next]_(Routes!vars)
         /\ focus = "committee" => [Committee!Next]_(Committee!vars)
         /\ focus = "sizing" => [Sizing!Next]_(Sizing!vars)
<1>1. CASE UNCHANGED all
  <2>1. UNCHANGED <<focus, plansVars, quantVars, routesVars, sizingVars, committeeVars>>
    BY <1>1 DEF all
  <2>2. UNCHANGED Capital!vars /\ UNCHANGED Quant!vars /\ UNCHANGED Routes!vars
    BY <2>1 DEF plansVars, quantVars, routesVars, Capital!vars, Quant!vars, Routes!vars
  <2>3. UNCHANGED Committee!vars
    BY <2>1 DEF committeeVars, Committee!vars, Committee!world
  <2>4. UNCHANGED Sizing!vars
    BY <2>1 DEF sizingVars, Sizing!vars, Sizing!inputs, Sizing!route
  <2> QED
    BY <2>1, <2>2, <2>3, <2>4
<1>2. CASE MCNext
  BY <1>2 DEF MCNext, QuantNext, RoutesNext, CommitteeNext
<1> QED
  BY <1>1, <1>2

\* its steps keep it,
LEMMA PortfolioStep == PortfolioInv /\ [MCNext]_all => PortfolioInv'
<1> SUFFICES ASSUME PortfolioInv, [MCNext]_all PROVE PortfolioInv'
  OBVIOUS
<1>1. focus = "plans" => CapitalInv'
  BY InFocus, CapitalStep DEF PortfolioInv
<1>2. focus = "quant" => QuantInv'
  BY InFocus, QuantStep DEF PortfolioInv
<1>3. focus = "routes" => RoutesInv'
  BY InFocus, RoutesStep DEF PortfolioInv
<1>4. focus = "committee" => CommitteeInv'
  BY InFocus, CommitteeStep DEF PortfolioInv
<1>5. focus = "sizing" => SizingInv'
  BY InFocus, SizingStep DEF PortfolioInv
<1> QED
  BY <1>1, <1>2, <1>3, <1>4, <1>5, InFocus DEF PortfolioInv

\* and so it holds throughout.
LEMMA PortfolioStands == MCSpec => []PortfolioInv
  BY PortfolioStarts, PortfolioStep, PTL DEF MCSpec

\* The variables of the experiments
LEMMA QuantTypesOK == QuantInv => Quant!TypeOK
<1> SUFFICES ASSUME QuantInv PROVE Quant!TypeOK
  OBVIOUS
<1>1. /\ held \in Quant!Held /\ profile \in 1 .. MaxProfiles /\ dated \in 0 .. MaxSnapshots
      /\ mandate \subseteq Quant!Runs
  BY DEF QuantInv, QuantTypes, Owned
<1>2. \A i \in Quant!Snapshots : snapshot[i].holdings \in Quant!Held
                                 /\ snapshot[i].gate \in {"none", "blocked", "risk", "trade"}
  BY DEF QuantInv, QuantTypes, Valuation, Owned, Gates, Dates
<1>3. \A r \in Quant!Runs :
        /\ run[r].status \in {"none", "queued", "running"} \cup Quant!Terminal
        /\ job[r] \in {"none", "queued", "running", "succeeded", "failed"}
        /\ executor[r] \subseteq {"owner", "computing", "lost"}
  BY DEF QuantInv, QuantTypes, Experiment, Quant!Terminal
<1>4. \A q \in Requests : experiment[q].at \in
        {"none", "valuing", "start", "valued", "created", "bind", "agreed"} \cup DOMAIN Quant!Checks
  BY DEF QuantInv, QuantTypes, Question, Quant!Checks
<1> QED
  BY <1>1, <1>2, <1>3, <1>4 DEF Quant!TypeOK

\* The variables of the component in focus keep their types.
PortfolioTypes ==
  /\ focus = "plans" => CapitalTypes
  /\ focus = "routes" => RoutesTypes
  /\ focus = "committee" => CommitteeTypes

LEMMA TypesStart == MCInit => PortfolioTypes
<1> SUFFICES ASSUME MCInit PROVE PortfolioTypes
  OBVIOUS
<1>1. focus = "plans" => Capital!Init
  BY DEF MCInit
<1>2. focus = "routes" => Routes!Init
  BY DEF MCInit
<1>3. focus = "committee" => Committee!Init
  BY DEF MCInit
<1> QED
  BY <1>1, <1>2, <1>3, CapitalTypesStart, RoutesTypesStart, CommitteeTypesStart DEF PortfolioTypes

LEMMA TypesStep ==
  PortfolioInv /\ PortfolioTypes /\ [MCNext]_all /\ PortfolioInv' => PortfolioTypes'
<1> SUFFICES ASSUME PortfolioInv, PortfolioTypes, [MCNext]_all, PortfolioInv'
             PROVE  PortfolioTypes'
  OBVIOUS
<1>1. ASSUME focus = "plans" PROVE CapitalTypes'
  <2>1. CapitalInv /\ CapitalInv' /\ CapitalTypes /\ [Capital!Next]_(Capital!vars)
    BY <1>1, InFocus DEF PortfolioInv, PortfolioTypes
  <2> QED
    BY <2>1, CapitalTyped
<1>2. ASSUME focus = "routes" PROVE RoutesTypes'
  BY <1>2, InFocus, RoutesTyped DEF PortfolioInv, PortfolioTypes
<1>3. ASSUME focus = "committee" PROVE CommitteeTypes'
  BY <1>3, InFocus, CommitteeTyped DEF PortfolioInv, PortfolioTypes
<1> QED
  BY <1>1, <1>2, <1>3, InFocus DEF PortfolioTypes

LEMMA TypesStand == MCSpec => []PortfolioTypes
  BY TypesStart, TypesStep, PortfolioStands, PTL DEF MCSpec

\* Every variable of every component keeps its type: the statuses, versions and
\* references of portfolio_capital_repository.py, portfolio_quant_repository.py,
\* alpha_capital_repository.py and opportunity_committee_repository.py, and the
\* amounts of portfolio_capital_decision.py.
THEOREM Typed == MCSpec => []TypesOK
<1>1. PortfolioInv /\ PortfolioTypes => TypesOK
  BY QuantTypesOK, RoutesTypesOK, CommitteeTypesOK
     DEF PortfolioInv, PortfolioTypes, CapitalTypes, SizingInv, TypesOK
<1> QED
  BY <1>1, TypesStand, PortfolioStands, PTL

\* A mandate is of holdings, valuation and policy of one moment
\* (freeze_mandate), a plan follows a route of what it was computed from, and
\* a committee's mandate that is bound to the present evidence is what would be
\* given now and has drifted from an older one (freeze_committee).
THEOREM Readings == MCSpec => []ReadsAgree
<1>1. PortfolioInv => ReadsAgree
  BY RoutesFollowed, BoundIsOfNow DEF PortfolioInv, QuantInv, CommitteeInv, ReadsAgree
<1> QED
  BY <1>1, PortfolioStands, PTL

\* However its caps and limits meet, a route is shared out fairly
\* (_allocate_with_cap), a plan stays within the room of the portfolio and of
\* each asset and was tested as a whole (assemble), and a committee's mandate
\* gives to strategies that have earned it, within their caps and what the hub
\* allows (compose_committee).
THEOREM AmountsRight == MCSpec => []AmountsAreRight
<1> DEFINE Reads == focus = "committee" => CommitteeReads
<1>1. MCInit => Reads
  BY NobodyReads DEF MCInit
<1>2. PortfolioInv /\ PortfolioTypes /\ Reads /\ [MCNext]_all => Reads'
  <2> SUFFICES ASSUME PortfolioInv, PortfolioTypes, Reads, [MCNext]_all, focus = "committee"
               PROVE  CommitteeReads'
    BY InFocus
  <2>1. CommitteeInv /\ CommitteeTypes /\ CommitteeReads /\ [Committee!Next]_(Committee!vars)
    BY InFocus DEF PortfolioInv, PortfolioTypes
  <2> QED
    BY <2>1, ReadsStep
<1>3. PortfolioInv /\ Reads => AmountsAreRight
  BY Fair, Limited DEF PortfolioInv, CommitteeReads, AmountsAreRight
<1> HIDE DEF Reads
<1>4. MCSpec => []Reads
  BY <1>1, <1>2, PortfolioStands, TypesStand, PTL DEF MCSpec
<1> QED
  BY <1>3, <1>4, PortfolioStands, PTL

\* A job that succeeded has an experiment with a result, whichever of several
\* executions brought it (execute_portfolio_quant_run_job).
THEOREM JobSuccess == MCSpec => []JobSuccessIsBacked
<1>1. PortfolioInv => JobSuccessIsBacked
  BY DEF PortfolioInv, QuantInv, JobSuccessIsBacked
<1> QED
  BY <1>1, PortfolioStands, PTL

\* A purchase is confirmed for one plan, a deviation is reviewed as it is, and
\* what was confirmed of a month's budget stays taken, whatever is deleted from
\* the ledger and however requests overlap (create_execution_event,
\* review_execution_deviation, monthly_execution_summary).
THEOREM CountedOnce == MCSpec => PurchasesAreCountedOnce
<1> DEFINE Stands == focus = "plans" => Capital!ServesOnePlan /\ Capital!ReviewIsOfWhatStands
<1>1. PortfolioInv => Stands
  BY ReviewedStands DEF PortfolioInv, CapitalInv
<1>2. PortfolioInv /\ PortfolioTypes /\ PortfolioInv' /\ Stands' /\ [MCNext]_all =>
        [focus = "plans" =>
           Capital!StaysTaken /\ Capital!ServesOnePlan' /\ Capital!ReviewIsOfWhatStands']_all
  <2> SUFFICES ASSUME PortfolioInv, PortfolioTypes, PortfolioInv', Stands', [MCNext]_all,
                      focus = "plans"
               PROVE  Capital!StaysTaken /\ Capital!ServesOnePlan' /\ Capital!ReviewIsOfWhatStands'
    OBVIOUS
  <2>1. CapitalInv /\ CapitalTypes /\ CapitalInv' /\ [Capital!Next]_(Capital!vars)
    BY InFocus DEF PortfolioInv, PortfolioTypes
  <2>2. Capital!StaysTaken
    BY <2>1, Taken
  <2>3. focus' = "plans"
    BY InFocus
  <2> QED
    BY <2>2, <2>3
<1> QED
  BY <1>1, <1>2, TypesStand, PortfolioStands, PTL DEF MCSpec, PurchasesAreCountedOnce

\* Nothing that was confirmed for a plan is taken back, whatever is deleted
\* from the ledger and however requests overlap (create_execution_event).
THEOREM ConfirmedStays ==
  MCSpec => [][focus = "plans" =>
                 \A p \in PlanNames : Capital!Confirmed(p) \subseteq Capital!Confirmed(p)']_all
<1>1. PortfolioInv /\ [MCNext]_all =>
        [focus = "plans" =>
           \A p \in PlanNames : Capital!Confirmed(p) \subseteq Capital!Confirmed(p)']_all
  BY InFocus, ConfirmedGrows DEF PortfolioInv
<1> QED
  BY <1>1, PortfolioStands, PTL DEF MCSpec
=============================================================================
