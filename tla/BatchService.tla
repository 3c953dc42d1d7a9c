---------------------------- MODULE BatchService ----------------------------
(***************************************************************************)
(* What a model's batching promises its callers, without the ring: a call  *)
(* is refused or accepted as a whole, its rows are run in batches of at    *)
(* most BatchSize rows, each row once, and it is answered with the outputs *)
(* of its own rows, or with an error when a batch that held one of them    *)
(* failed.                                                                 *)
(***************************************************************************)
EXTENDS Integers, Sequences, FiniteSets

CONSTANTS Requests, ReqSizes, BatchSize

VARIABLES rows,    \* rows each call carries
          status,  \* "new", "accepted", "ok", "refused" or "failed"
          ran,     \* the verdict of each row that was run: TRUE is Ok
          reply    \* the row outputs handed to the caller

vars == <<rows, status, ran, reply>>

RowsOf(r) == {r} \X (0 .. rows[r] - 1)

\* Rows that were accepted and not yet run.
Pending ==
    (UNION {RowsOf(r) : r \in {q \in Requests :
                                  status[q] \notin {"new", "refused"}}})
        \ DOMAIN ran

Init ==
    /\ rows \in [Requests -> ReqSizes]
    /\ status = [r \in Requests |-> "new"]
    /\ ran = <<>>
    /\ reply = [r \in Requests |-> <<>>]

Decide(r) ==
    /\ status[r] = "new"
    /\ \E s \in {"accepted", "refused"} : status' = [status EXCEPT ![r] = s]
    /\ UNCHANGED <<rows, ran, reply>>

\* One run of the session: all rows of the batch share its verdict.
RunBatch ==
    /\ DOMAIN ran' # DOMAIN ran
    /\ \E batch \in SUBSET Pending, ok \in BOOLEAN :
        /\ batch # {} /\ Cardinality(batch) <= BatchSize
        /\ ran' = [w \in DOMAIN ran \cup batch |->
                       IF w \in batch THEN ok ELSE ran[w]]
    /\ UNCHANGED <<rows, status, reply>>

Reply(r) ==
    /\ status[r] = "accepted"
    /\ RowsOf(r) \subseteq DOMAIN ran /\ \A w \in RowsOf(r) : ran[w]
    /\ status' = [status EXCEPT ![r] = "ok"]
    /\ reply' = [reply EXCEPT ![r] = [i \in 1 .. rows[r] |-> <<r, i - 1>>]]
    /\ UNCHANGED <<rows, ran>>

Fail(r) ==
    /\ status[r] = "accepted"
    /\ \E w \in RowsOf(r) \cap DOMAIN ran : ~ran[w]
    /\ status' = [status EXCEPT ![r] = "failed"]
    /\ UNCHANGED <<rows, ran, reply>>

Next ==
    \/ RunBatch
    \/ \E r \in Requests : Decide(r) \/ Reply(r) \/ Fail(r)

Spec == Init /\ [][Next]_vars
==============================================================================
