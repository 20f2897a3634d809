---------------------------- MODULE MCCoordination ----------------------------
(* Instances of CoordinationLedger for TLC.                                  *)
EXTENDS CoordinationLedger, TLC

CONSTANTS a1, a2, a3, r1, l1, l2, s1, s2, h1

Single    == {a1}
Pair      == {a1, a2}
Trio      == {a1, a2, a3}
OneRes    == {r1}
OneLease    == {l1}
TwoLeases   == {l1, l2}
TwoSessions == {s1, s2}
OneHandoff  == {h1}
NoIds == {}

LedgerOps  == {"claim", "renew", "release", "handoff", "forced_writeback"}
SessionOps == {"start", "heartbeat", "close"}

\* Ids and agents are only compared, so permuting them changes nothing.
Symmetry == Permutations(LeaseIds) \cup Permutations(Agents)
===============================================================================
