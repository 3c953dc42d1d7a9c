---------------------------- MODULE MCModelServer ----------------------------
(***************************************************************************)
(* An instance of ModelServer for TLC: two models behind a channel with a  *)
(* single place, so that main has to wait for the manager.                 *)
(***************************************************************************)
EXTENDS ModelServer

CONSTANTS m1, m2, nobody, c1, c2, q1, q2

TwoModels   == {m1, m2}
TwoCores    == {c1, c2}
TwoRequests == {q1, q2}

Of(first, second) == [q \in TwoRequests |-> IF q = q1 THEN first ELSE second]

MixedWorkloads == {Of("ModelInfer", "ModelInfer"),
                   Of("ModelInfer", "ModelMetadata"),
                   Of("ModelReady", "TraceSetting")}
BothPlacements == {Of(c1, c1), Of(c1, c2)}
===============================================================================
