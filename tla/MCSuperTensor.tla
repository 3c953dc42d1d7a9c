---------------------------- MODULE MCSuperTensor ----------------------------
(***************************************************************************)
(* Instances of SuperTensor for TLC.  Every manager runs three warmups per *)
(* session, so the ring has already turned when the first request arrives. *)
(***************************************************************************)
EXTENDS SuperTensorService, TLC

CONSTANTS r1, r2, r3, r4, e1, e2, m

OneRequest    == {r1}
TwoRequests   == {r1, r2}
ThreeRequests == {r1, r2, r3}
FourRequests  == {r1, r2, r3, r4}

OneExecutor  == {e1}
TwoExecutors == {e1, e2}

OneRow       == {1}
UpToThree    == {1, 2, 3}

ThreeWarmups == 3
SixWarmups   == 6

AlwaysOk  == {TRUE}
OkOrError == {TRUE, FALSE}

Symmetry == Permutations(Requests) \cup Permutations(Executors)
==============================================================================
