----------------------------- MODULE MCAgentRuns -----------------------------
(* Instances of AgentRuns for TLC. *)
EXTENDS AgentRuns, TLC

Symmetry == Permutations(Workers)

\* Three steps: a required one, an optional one and the synthesis, whose input
\* names the evidence of both.
Synthesis == <<{}, {}, {1, 2}>>
=============================================================================
