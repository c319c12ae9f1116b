--------------------------------- MODULE Sums ---------------------------------
(***************************************************************************)
(* The sum of the values of a function over a finite set.  It is defined   *)
(* by a recursive function, which the proofs can take apart.               *)
(***************************************************************************)
EXTENDS Integers

Sum(f, S) ==
  LET sum[T \in SUBSET S] ==
        IF T = {} THEN 0 ELSE LET x == CHOOSE x \in T : TRUE IN f[x] + sum[T \ {x}]
  IN sum[S]
=============================================================================
