------------------------------ MODULE MCMetrics ------------------------------
(***************************************************************************)
(* An instance of Metrics for TLC: two calls on two cores, which fill two  *)
(* batches together or one alone, and are one batch too large.             *)
(***************************************************************************)
EXTENDS Metrics

CONSTANTS c1, c2, core1, core2, s1, s2, manager

TwoCalls    == {c1, c2}
TwoCores    == {core1, core2}
OneSession  == {s1}
TwoSessions == {s1, s2}
Together    == [c \in TwoCalls |-> core1]
Apart       == [Together EXCEPT ![c2] = core2]
Both        == {Together, Apart}
Rows        == {1, 3}
==============================================================================
