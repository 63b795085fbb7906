--------------------------- MODULE MCAgentMonitor ---------------------------
(* Two hosts; two keepers whose containers have one name.                  *)
EXTENDS AgentMonitor, TLC

CONSTANTS k1, k2

MCKeepers == {k1, k2}
MCNameOf == [k \in Keepers |-> "web"]
Symmetry == Permutations(MCKeepers)
=============================================================================
