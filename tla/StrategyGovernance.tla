-------------------------- MODULE StrategyGovernance --------------------------
(***************************************************************************)
(* The life of one version of an agent strategy (src/backend/agent/        *)
(* strategy_governance.py, agent/repository.py, strategy_admin.py):        *)
(* administrators move it from status to status, each after reading its    *)
(* row and its audit chain, and runs ask whether it may be used for a      *)
(* decision, reading the row and then the chain.                           *)
(*                                                                         *)
(* The manifest's checks are a constant.  Hashes are left out: a row or a  *)
(* chain that was changed otherwise is not modelled.                       *)
(***************************************************************************)
EXTENDS Integers, Sequences, SequencesExt

CONSTANTS
  Admins, Callers,
  ChecksPassed, \* whether the manifest declares every required check as passed
  MaxAudit      \* bound on the length of the chain

\* _TRANSITIONS
Transitions ==
  [draft    |-> {"review", "paused", "retired"},
   review   |-> {"shadow", "paused", "retired"},
   shadow   |-> {"canary", "paused", "retired"},
   canary   |-> {"active", "paused", "retired"},
   active   |-> {"paused", "retired"},
   paused   |-> {"shadow", "retired"},
   retired  |-> {}]

Statuses == DOMAIN Transitions
Released == {"canary", "active"}
Roles == {"owner", "strategy_manager", "reviewer", "operator"}

VARIABLES
  status, \* agent_strategy_versions
  audit,  \* agent_strategy_audit_events: the status each leads to
  admin,  \* the transition each administrator's command is about to make
  caller  \* what each caller has read, and its answer

vars == <<status, audit, admin, caller>>

NoCommand == [at |-> "none", seen |-> "none", target |-> "none"]
NoCall == [at |-> "none", seen |-> "none", allowed |-> FALSE]

\* register_strategy_version, as a draft or by seed_defaults
Init ==
  /\ status \in {"draft", "shadow"} /\ audit = <<status>>
  /\ admin = [a \in Admins |-> NoCommand] /\ caller = [c \in Callers |-> NoCall]

-----------------------------------------------------------------------------
(* transition.                                                             *)

\* Who may lead where; a release needs somebody who does not own the strategy.
Permitted(role, target) ==
  CASE target \in Released -> role = "reviewer"
    [] target = "review" -> role \in {"owner", "strategy_manager"}
    [] target = "shadow" -> role \in {"reviewer", "strategy_manager"}
    [] target \in {"paused", "retired"} -> role \in Roles \ {"owner"}

\* The row is read.
Command(a, role, target) ==
  /\ admin[a] = NoCommand /\ Len(audit) < MaxAudit
  /\ target \in Transitions[status] /\ Permitted(role, target)
  /\ admin' = [admin EXCEPT ![a] = [at |-> "read", seen |-> status, target |-> target]]
  /\ UNCHANGED <<status, audit, caller>>

\* Mutant: the chain need not lead to the row that was read.
AgreesAlways(seen) == TRUE

\* registry_state_verified
Agrees(seen) == Last(audit) = seen

\* _release_assessment
ReleaseReady(seen) == ChecksPassed /\ Agrees(seen)

Assess(a) ==
  /\ admin[a].at = "read"
  /\ admin[a].target \in Released => ReleaseReady(admin[a].seen)
  /\ admin' = [admin EXCEPT ![a].at = "assessed"]
  /\ UNCHANGED <<status, audit, caller>>

\* Mutant: the status is not compared again.
StandsAlways(a) == TRUE

Stands(a) == status = admin[a].seen

\* transition_strategy_status
Apply(a) ==
  /\ admin[a].at = "assessed" /\ Stands(a) /\ Len(audit) < MaxAudit
  /\ status' = admin[a].target /\ audit' = Append(audit, admin[a].target)
  /\ admin' = [admin EXCEPT ![a] = NoCommand]
  /\ UNCHANGED caller

\* The command is refused or ends.
Refuse(a) ==
  /\ admin[a] # NoCommand /\ admin' = [admin EXCEPT ![a] = NoCommand]
  /\ UNCHANGED <<status, audit, caller>>

-----------------------------------------------------------------------------
(* evaluate_runtime_use.                                                   *)

Ask(c) ==
  /\ caller[c].at # "read"
  /\ caller' = [caller EXCEPT ![c] = [at |-> "read", seen |-> status, allowed |-> FALSE]]
  /\ UNCHANGED <<status, audit, admin>>

\* decision_use_allowed, in the strategy's scope; whether a canary is for this
\* user is a choice.
Answer(c) ==
  /\ caller[c].at = "read"
  /\ \E selected \in BOOLEAN :
       caller' = [caller EXCEPT ![c] =
         [at |-> "answered", seen |-> caller[c].seen,
          allowed |-> /\ ReleaseReady(caller[c].seen)
                      /\ \/ caller[c].seen = "active"
                         \/ caller[c].seen = "canary" /\ selected]]
  /\ UNCHANGED <<status, audit, admin>>

-----------------------------------------------------------------------------
Next ==
  \/ \E a \in Admins : \/ Assess(a) \/ Apply(a) \/ Refuse(a)
                       \/ \E role \in Roles, target \in Statuses : Command(a, role, target)
  \/ \E c \in Callers : Ask(c) \/ Answer(c)

Spec == Init /\ [][Next]_vars

-----------------------------------------------------------------------------
(* Properties.                                                             *)

\* Everything has its type.
TypeOK ==
  /\ status \in Statuses /\ audit \in Seq(Statuses) /\ Len(audit) \in 1..MaxAudit
  /\ admin \in [Admins -> [at : {"none", "read", "assessed"}, seen : Statuses \cup {"none"},
                           target : Statuses \cup {"none"}]]
  /\ caller \in [Callers -> [at : {"none", "read", "answered"}, seen : Statuses \cup {"none"},
                             allowed : BOOLEAN]]

\* Nothing skips a stage and nothing returns from retirement, however the
\* commands of several administrators overlap.
StagesAreInOrder ==
  \A i \in 1..(Len(audit) - 1) : audit[i + 1] \in Transitions[audit[i]]

\* A use is allowed only while the strategy is released: not one that was
\* stopped after the caller had read its row.
Allowing == \A c \in Callers : caller'[c].allowed /\ ~caller[c].allowed => status \in Released

AllowedIsReleased == [][Allowing]_vars
=============================================================================
