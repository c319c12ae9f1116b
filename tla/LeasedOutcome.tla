---------------------------- MODULE LeasedOutcome ----------------------------
(***************************************************************************)
(* What a durable, leased piece of work promises, without queues, clocks   *)
(* or retries: at any time at most one process holds an item; only its     *)
(* holder can decide it; anyone may withdraw an undecided item; and what   *)
(* is decided stays decided.                                               *)
(***************************************************************************)
EXTENDS Naturals

CONSTANTS
  Items, Processes, Nobody,
  HolderOutcomes,   \* the outcomes only the holder of an item may record
  OpenOutcomes,     \* the outcomes that need no lease (a cancellation)
  Pending

VARIABLES
  holder,           \* who may decide an item, or Nobody
  outcome           \* what was decided, or Pending

vars == <<holder, outcome>>

Init ==
  /\ holder = [x \in Items |-> Nobody]
  /\ outcome = [x \in Items |-> Pending]

\* An undecided item is granted to a process, be it taken from another one.
Grant(x, p) ==
  /\ outcome[x] = Pending
  /\ holder' = [holder EXCEPT ![x] = p]
  /\ UNCHANGED outcome

\* Leases lapse, or are given up, several at a time.
Revoke(S) ==
  /\ holder' = [x \in Items |-> IF x \in S THEN Nobody ELSE holder[x]]
  /\ UNCHANGED outcome

\* The holder decides.
Decide(x, p, o) ==
  /\ outcome[x] = Pending
  /\ holder[x] = p
  /\ outcome' = [outcome EXCEPT ![x] = o]
  /\ holder' = [holder EXCEPT ![x] = Nobody]

\* Somebody else closes the item.
Withdraw(x, o) ==
  /\ outcome[x] = Pending
  /\ outcome' = [outcome EXCEPT ![x] = o]
  /\ holder' = [holder EXCEPT ![x] = Nobody]

Next ==
  \/ \E x \in Items, p \in Processes :
       \/ Grant(x, p)
       \/ \E o \in HolderOutcomes : Decide(x, p, o)
  \/ \E x \in Items, o \in OpenOutcomes : Withdraw(x, o)
  \/ \E S \in SUBSET Items : Revoke(S)

Spec == Init /\ [][Next]_vars
=============================================================================
