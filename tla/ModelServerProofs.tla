-------------------------- MODULE ModelServerProofs --------------------------
(***************************************************************************)
(* ModelServer for every number of models, cores, calls, sessions and      *)
(* places of the load channel: what main, the manager and the cores may    *)
(* rely on while models are loaded and calls are answered.                 *)
(***************************************************************************)
EXTENDS ModelServer, DataLemmas, TLAPS

USE DEF mainVars, channelVars, pinVars, managerVars, callVars, vars

(***************************************************************************)
(* The inductive invariant.                                                *)
(***************************************************************************)

Occurs(m, s) == \E i \in 1 .. Len(s) : s[i] = m
NoRepeats(s) == \A i, j \in 1 .. Len(s) : s[i] = s[j] => i = j

\* A model main has not sent, or that waits in the channel, was never touched.
Untouched(m) == /\ m # task /\ reply[m] = "none"
                /\ warmups[m] = 0 /\ threads[m] = 0

\* main sends each model once: what is still to be loaded is all different.
EachModelOnce ==
    /\ NoRepeats(pending) /\ NoRepeats(queue)
    /\ \A m \in Models : Occurs(m, pending) => ~Occurs(m, queue)
    /\ \A m \in Models : Occurs(m, pending) \/ Occurs(m, queue) => Untouched(m)

\* How far the manager is with its model.
TaskProgress ==
    /\ stage # "idle" => reply[task] = "none"
    /\ stage \in {"build", "buffers"} => warmups[task] = 0
    /\ stage = "warm" => warmups[task] < WarmupRuns
    /\ stage \in {"register", "spawn"} => warmups[task] = WarmupRuns
    /\ stage = "spawn" => task \in loaded

Typed == TypeOK /\ EachModelOnce /\ TaskProgress

\* Every model main has to see loaded is still on its way, or serves.
NoneForgotten ==
    aborted \/ \A m \in Models : \/ Occurs(m, pending) \/ Occurs(m, expected)
                                 \/ m \in loaded

\* The places of the pin pool are filled in turn.
PinsFollowCounter ==
    \E lap \in Nat, next \in 0 .. PinPool - 1 :
        /\ pinCounter = lap * PinPool + next
        /\ \A p \in 0 .. PinPool - 1 :
            pins[p] = IF p < next THEN lap + 1 ELSE lap

\* Only inference calls are between two steps; who read the map saw the model.
CallsInFlight ==
    \A q \in Requests :
        /\ rpc[q] \in {"found", "wait"} => method[q] = "ModelInfer"
        /\ method[q] \in Readers /\ rpc[q] = "ok" => asked[q] \in loaded

-------------------------------------------------------------------------------
(***************************************************************************)
(* Types and the order of loading.                                         *)
(***************************************************************************)

LEMMA Sizes == /\ QueueSize \in Nat /\ NumExecutors \in Nat /\ NumExecutors > 0
               /\ PinPool \in Nat /\ PinPool > 0
               /\ WarmupRuns \in Nat /\ WarmupRuns > 0
BY SizesAssumption, SMT DEF WarmupRuns

\* A sequence of all models that is as long as their number repeats none.
LEMMA ArrangementRepeatsNone ==
    ASSUME NEW s \in [1 .. Cardinality(Models) -> Models],
           \A m \in Models : \E i \in DOMAIN s : s[i] = m
    PROVE  s \in Seq(Models) /\ NoRepeats(s) /\ Len(s) = Cardinality(Models)
<1> DEFINE n == Cardinality(Models)
<1>1. n \in Nat
  BY FiniteAssumption, FS_CardinalityType
<1>2. s \in Seq(Models) /\ Len(s) = n
  BY <1>1
<1>3. s \in Surjection(1 .. n, Models)
  BY DEF Surjection
<1>4. IsFiniteSet(1 .. n) /\ Cardinality(1 .. n) = n
  BY <1>1, FS_Interval, SMT
<1>5. s \in Injection(1 .. n, Models)
  BY <1>3, <1>4, FiniteAssumption, FS_Surjection
<1>6. NoRepeats(s)
  BY <1>2, <1>5 DEF NoRepeats, Injection, IsInjective
<1> QED  BY <1>2, <1>6

LEMMA InitTyped == Init => Typed
<1> SUFFICES ASSUME Init PROVE Typed
  OBVIOUS
<1>1. /\ pending \in Seq(Models) /\ NoRepeats(pending)
      /\ \A i \in 1 .. Len(pending) : pending[i] \in Models
  BY ArrangementRepeatsNone DEF Init
<1>2. TypeOK
  <2>1. NoCounts \in [Names -> [Statuses -> Nat]]
    BY DEF NoCounts
  <2>2. queue \in Seq(Models) /\ expected \in Seq(Models) /\ Len(queue) = 0
    BY DEF Init
  <2>3. task \in Names /\ warmups \in [Models -> 0 .. WarmupRuns]
    BY Sizes DEF Init, Names
  <2>4. threads \in [Models -> 0 .. NumExecutors]
    BY Sizes DEF Init
  <2>5. reply \in [Models -> {"none", "ok", "err"}] /\ gauge \in Nat
    BY DEF Init
  <2>6. pins \in [0 .. PinPool - 1 -> Nat] /\ pinCounter \in Nat
    BY DEF Init
  <2>7. rpc \in [Requests -> {"new", "found", "wait"} \cup Answers]
    BY DEF Init
  <2>8. local \in [Cores -> [Names -> [Statuses -> Nat]]]
    BY <2>1 DEF Init
  <2>9. /\ asked \in [Requests -> Names] /\ core \in Placements
        /\ method \in Workloads /\ stage = "idle" /\ loaded = {}
        /\ total \in [Names -> [Statuses -> Nat]] /\ aborted = FALSE
    BY <2>1 DEF Init
  <2>10. Len(queue) <= QueueSize
    BY <2>2, Sizes, SMT
  <2> QED  BY <1>1, <2>2, <2>3, <2>4, <2>5, <2>6, <2>7, <2>8, <2>9, <2>10
           DEF TypeOK
<1>3. EachModelOnce
  BY <1>1, UnknownAssumption
     DEF Init, EachModelOnce, NoRepeats, Occurs, Untouched
<1>4. TaskProgress
  BY DEF Init, TaskProgress
<1> QED  BY <1>2, <1>3, <1>4 DEF Typed

LEMMA DispatchTyped == Typed /\ Dispatch => Typed'
<1> SUFFICES ASSUME Typed, Dispatch PROVE Typed'
  OBVIOUS
<1> DEFINE m == Head(pending)
<1>1. /\ pending \in Seq(Models) /\ pending # <<>> /\ Len(pending) > 0
      /\ m \in Models /\ m = pending[1]
      /\ pending' = Tail(pending) /\ pending' \in Seq(Models)
      /\ Len(pending') = Len(pending) - 1
      /\ \A i \in 1 .. Len(pending') : pending'[i] = pending[i + 1]
  BY DEF Dispatch, Typed, TypeOK
<1>2. /\ queue \in Seq(Models) /\ queue' \in Seq(Models)
      /\ Len(queue') = Len(queue) + 1
      /\ \A i \in 1 .. Len(queue) : queue'[i] = queue[i]
      /\ queue'[Len(queue) + 1] = m
  BY <1>1 DEF Dispatch, Typed, TypeOK
<1>3. TypeOK'
  <2>1. Len(queue') <= QueueSize
    BY <1>2, Sizes, SMT DEF Dispatch
  <2>2. expected' \in Seq(Models)
    BY <1>1 DEF Dispatch, Typed, TypeOK
  <2> QED  BY <1>1, <1>2, <2>1, <2>2 DEF Dispatch, Typed, TypeOK
<1>4. \A k \in Models : Occurs(k, pending') => Occurs(k, pending) /\ k # m
  BY <1>1, SMT DEF Occurs, Typed, EachModelOnce, NoRepeats
<1>5. \A k \in Models : Occurs(k, queue') => Occurs(k, queue) \/ k = m
  BY <1>2, SMT DEF Occurs
<1>6. Occurs(m, pending) /\ ~Occurs(m, queue)
  BY <1>1, SMT DEF Occurs, Typed, EachModelOnce
<1>7. NoRepeats(pending')
  BY <1>1, SMT DEF Typed, EachModelOnce, NoRepeats
<1>8. NoRepeats(queue')
  BY <1>2, <1>6, SMT DEF Typed, EachModelOnce, NoRepeats, Occurs
<1>9. EachModelOnce'
  <2>1. \A k \in Models : Occurs(k, pending') => ~Occurs(k, queue')
    BY <1>4, <1>5 DEF Typed, EachModelOnce
  <2>2. \A k \in Models :
            Occurs(k, pending') \/ Occurs(k, queue') => Untouched(k)
    BY <1>4, <1>5, <1>6 DEF Typed, EachModelOnce
  <2>3. \A k \in Models : Untouched(k)' <=> Untouched(k)
    BY DEF Dispatch, Untouched
  <2> QED  BY <1>7, <1>8, <2>1, <2>2, <2>3 DEF EachModelOnce, Occurs
<1>10. TaskProgress'
  BY DEF Dispatch, Typed, TaskProgress
<1> QED  BY <1>3, <1>9, <1>10 DEF Typed

(***************************************************************************)
(* A step that touches only the model the manager is busy with keeps the   *)
(* others apart from what is still to be loaded.                           *)
(***************************************************************************)
LEMMA OnlyTaskTouched ==
    ASSUME Typed, UNCHANGED <<pending, queue>>, task' \in {task, Unknown},
           \A m \in Models \ {task} : /\ reply'[m] = reply[m]
                                      /\ warmups'[m] = warmups[m]
                                      /\ threads'[m] = threads[m]
    PROVE  EachModelOnce'
<1>1. \A m \in Models : Untouched(m) => Untouched(m)'
  BY UnknownAssumption DEF Untouched
<1> QED  BY <1>1 DEF Typed, EachModelOnce, NoRepeats, Occurs

LEMMA CollectTyped == Typed /\ CollectReply => Typed'
<1> SUFFICES ASSUME Typed, CollectReply PROVE Typed'
  OBVIOUS
<1>1. expected' \in Seq(Models)
  BY DEF CollectReply, Typed, TypeOK
<1>2. TypeOK'
  BY <1>1 DEF CollectReply, FailureIsFatal, Typed, TypeOK
<1>3. EachModelOnce'
  BY OnlyTaskTouched DEF CollectReply
<1>4. TaskProgress'
  BY DEF CollectReply, Typed, TaskProgress
<1> QED  BY <1>2, <1>3, <1>4 DEF Typed

LEMMA ReceiveTyped == Typed /\ ReceiveLoad => Typed'
<1> SUFFICES ASSUME Typed, ReceiveLoad PROVE Typed'
  OBVIOUS
<1>1. /\ queue \in Seq(Models) /\ queue # <<>> /\ Len(queue) > 0
      /\ task' = queue[1] /\ task' \in Models
      /\ queue' = Tail(queue) /\ queue' \in Seq(Models)
      /\ Len(queue') = Len(queue) - 1
      /\ \A i \in 1 .. Len(queue') : queue'[i] = queue[i + 1]
  BY DEF ReceiveLoad, Typed, TypeOK
<1>2. TypeOK'
  <2>1. Len(queue') <= QueueSize
    BY <1>1, Sizes, SMT DEF Typed, TypeOK
  <2> QED  BY <1>1, <2>1 DEF ReceiveLoad, Typed, TypeOK, Names
<1>3. \A k \in Models : Occurs(k, queue') => Occurs(k, queue) /\ k # task'
  BY <1>1, SMT DEF Occurs, Typed, EachModelOnce, NoRepeats
<1>4. Occurs(task', queue)
  BY <1>1, SMT DEF Occurs
<1>5. Untouched(task')
  BY <1>1, <1>4 DEF Typed, EachModelOnce
<1>6. EachModelOnce'
  <2>1. NoRepeats(queue')
    BY <1>1, SMT DEF Typed, EachModelOnce, NoRepeats
  <2>2. \A k \in Models \ {task'} : Untouched(k) => Untouched(k)'
    BY DEF ReceiveLoad, Untouched
  <2>3. \A k \in Models : Occurs(k, pending') <=> Occurs(k, pending)
    BY DEF ReceiveLoad
  <2>4. \A k \in Models : Occurs(k, pending') => ~Occurs(k, queue') /\ k # task'
    BY <1>1, <1>3, <1>4, <2>3 DEF Typed, EachModelOnce
  <2>5. NoRepeats(pending')
    BY DEF ReceiveLoad, Typed, EachModelOnce, NoRepeats
  <2>6. \A k \in Models : Occurs(k, pending') \/ Occurs(k, queue') => Untouched(k)'
    BY <1>3, <2>2, <2>3, <2>4 DEF Typed, EachModelOnce
  <2> QED  BY <2>1, <2>4, <2>5, <2>6 DEF EachModelOnce, Occurs
<1>7. TaskProgress'
  BY <1>5 DEF ReceiveLoad, TaskProgress, Untouched
<1> QED  BY <1>2, <1>6, <1>7 DEF Typed

LEMMA BuildSessionsTyped == Typed /\ BuildSessions => Typed'
<1> SUFFICES ASSUME Typed, BuildSessions PROVE Typed'
  OBVIOUS
<1>1. task \in Models
  BY DEF BuildSessions, Typed, TypeOK
<1>2. TypeOK'
  BY <1>1 DEF BuildSessions, ReplyError, Typed, TypeOK, Names
<1>3. EachModelOnce'
  BY OnlyTaskTouched DEF BuildSessions, ReplyError, Typed, TypeOK
<1>4. TaskProgress'
  BY DEF BuildSessions, ReplyError, Typed, TaskProgress
<1> QED  BY <1>2, <1>3, <1>4 DEF Typed

LEMMA BuildBuffersTyped == Typed /\ BuildBuffers => Typed'
<1> SUFFICES ASSUME Typed, BuildBuffers PROVE Typed'
  OBVIOUS
<1>1. task \in Models
  BY DEF BuildBuffers, Typed, TypeOK
<1>2. TypeOK'
  BY <1>1 DEF BuildBuffers, ReplyError, Typed, TypeOK, Names
<1>3. EachModelOnce'
  BY OnlyTaskTouched DEF BuildBuffers, ReplyError, Typed, TypeOK
<1>4. TaskProgress'
  BY Sizes DEF BuildBuffers, ReplyError, Typed, TaskProgress
<1> QED  BY <1>2, <1>3, <1>4 DEF Typed

LEMMA WarmUpTyped == Typed /\ WarmUp => Typed'
<1> SUFFICES ASSUME Typed, WarmUp PROVE Typed'
  OBVIOUS
<1>1. /\ task \in Models /\ warmups \in [Models -> 0 .. WarmupRuns]
      /\ warmups[task] \in 0 .. WarmupRuns /\ warmups[task] < WarmupRuns
  BY DEF WarmUp, Typed, TypeOK, TaskProgress
<1>2. warmups[task] + 1 \in 0 .. WarmupRuns
  BY <1>1, Sizes, SMT
<1>3. warmups' \in [Models -> 0 .. WarmupRuns]
  BY <1>1, <1>2 DEF WarmUp
<1>4. TypeOK'
  BY <1>1, <1>3 DEF WarmUp, Typed, TypeOK
<1>5. EachModelOnce'
  BY <1>1, OnlyTaskTouched DEF WarmUp
<1>6. TaskProgress'
  <2>1. stage' \in {"warm", "register"} /\ reply'[task'] = "none"
    BY DEF WarmUp, Typed, TaskProgress
  <2>2. stage' = "warm" => warmups'[task'] < WarmupRuns
    <3>1. CASE UNCHANGED <<warmups, stage>>
      BY <1>1, <3>1 DEF WarmUp
    <3>2. CASE warmups' = [warmups EXCEPT ![task] = @ + 1]
      BY <1>1, <1>2, <3>2, Sizes, SMT DEF WarmUp
    <3> QED  BY <3>1, <3>2 DEF WarmUp
  <2>3. stage' = "register" => warmups'[task'] = WarmupRuns
    BY <1>1 DEF WarmUp
  <2> QED  BY <2>1, <2>2, <2>3 DEF TaskProgress
<1> QED  BY <1>4, <1>5, <1>6 DEF Typed

LEMMA RegisterTyped == Typed /\ RegisterModel => Typed'
<1> SUFFICES ASSUME Typed, RegisterModel PROVE Typed'
  OBVIOUS
<1>1. task \in Models /\ loaded' = loaded \cup {task} /\ gauge' \in Nat
  BY DEF RegisterModel, NewMap, Typed, TypeOK
<1>2. TypeOK'
  BY <1>1 DEF RegisterModel, Typed, TypeOK
<1>3. EachModelOnce'
  BY OnlyTaskTouched DEF RegisterModel
<1>4. TaskProgress'
  BY <1>1 DEF RegisterModel, Typed, TaskProgress
<1> QED  BY <1>2, <1>3, <1>4 DEF Typed

\* Every session gets a place of the pin pool.
LEMMA NextPinInPool ==
    ASSUME pinCounter \in Nat, NEW m
    PROVE  NextPin(m) \in 0 .. PinPool - 1
BY Sizes, SMT DEF NextPin

LEMMA SpawnTyped == Typed /\ SpawnSession => Typed'
<1> SUFFICES ASSUME Typed, SpawnSession PROVE Typed'
  OBVIOUS
<1>1. /\ task \in Models /\ threads \in [Models -> 0 .. NumExecutors]
      /\ threads[task] \in 0 .. NumExecutors /\ threads[task] < NumExecutors
  BY DEF SpawnSession, SessionLeft, Typed, TypeOK
<1>2. threads' \in [Models -> 0 .. NumExecutors]
  <2>1. threads[task] + 1 \in 0 .. NumExecutors
    BY <1>1, Sizes, SMT
  <2> QED  BY <1>1, <2>1 DEF SpawnSession
<1>3. pins' \in [0 .. PinPool - 1 -> Nat] /\ pinCounter' \in Nat
  BY NextPinInPool DEF SpawnSession, Typed, TypeOK
<1>4. TypeOK'
  BY <1>2, <1>3 DEF SpawnSession, Typed, TypeOK
<1>5. EachModelOnce'
  BY <1>1, OnlyTaskTouched DEF SpawnSession
<1>6. TaskProgress'
  BY DEF SpawnSession, Typed, TaskProgress
<1> QED  BY <1>4, <1>5, <1>6 DEF Typed

LEMMA ReplyLoadedTyped == Typed /\ ReplyLoaded => Typed'
<1> SUFFICES ASSUME Typed, ReplyLoaded PROVE Typed'
  OBVIOUS
<1>1. task \in Models
  BY DEF ReplyLoaded, Typed, TypeOK
<1>2. TypeOK'
  BY <1>1 DEF ReplyLoaded, Typed, TypeOK, Names
<1>3. EachModelOnce'
  BY OnlyTaskTouched DEF ReplyLoaded, Typed, TypeOK
<1>4. TaskProgress'
  BY DEF ReplyLoaded, Typed, TaskProgress
<1> QED  BY <1>2, <1>3, <1>4 DEF Typed

\* What a core knows of the call it serves.
LEMMA CallTypes ==
    ASSUME Typed, NEW q \in Requests
    PROVE  core[q] \in Cores /\ asked[q] \in Names /\ method[q] \in Methods
BY CallsAssumption DEF Typed, TypeOK

LEMMA AnswerTyped ==
    ASSUME Typed, NEW q \in Requests, NEW answer \in Answers, Answer(q, answer)
    PROVE  /\ rpc' \in [Requests -> {"new", "found", "wait"} \cup Answers]
           /\ local' \in [Cores -> [Names -> [Statuses -> Nat]]]
<1>1. core[q] \in Cores /\ asked[q] \in Names
  BY CallTypes
<1> DEFINE old == local[core[q]][asked[q]]
           row == [s \in Statuses |->
                      IF s \in CountedAs(q, answer) THEN old[s] + 1 ELSE old[s]]
<1>2. old \in [Statuses -> Nat]
  BY <1>1 DEF Typed, TypeOK
<1>3. row \in [Statuses -> Nat]
  BY <1>2
<1>4. local' = [local EXCEPT ![core[q]] = [@ EXCEPT ![asked[q]] = row]]
  BY <1>1 DEF Answer, Typed, TypeOK
<1>5. [local[core[q]] EXCEPT ![asked[q]] = row] \in [Names -> [Statuses -> Nat]]
  BY <1>1, <1>3 DEF Typed, TypeOK
<1>6. local' \in [Cores -> [Names -> [Statuses -> Nat]]]
  BY <1>1, <1>4, <1>5 DEF Typed, TypeOK
<1>7. rpc' \in [Requests -> {"new", "found", "wait"} \cup Answers]
  BY DEF Answer, Typed, TypeOK
<1> QED  BY <1>6, <1>7

(***************************************************************************)
(* A call moves on, or is answered: nothing but rpc and the core's own     *)
(* counters changes, unless the process ends.                              *)
(***************************************************************************)
LEMMA CallSteps ==
    ASSUME Typed, NEW q \in Requests, Call(q)
    PROVE  /\ \/ UNCHANGED local /\ aborted' = aborted
              \/ UNCHANGED <<rpc, local>> /\ aborted' = TRUE
              \/ \E answer \in Answers : Answer(q, answer) /\ aborted' = aborted
           /\ rpc' \in [Requests -> {"new", "found", "wait"} \cup Answers]
           /\ local' \in [Cores -> [Names -> [Statuses -> Nat]]]
           /\ UNCHANGED <<mainVars, channelVars, managerVars, method, asked,
                          core, total>>
<1> DEFINE Goal == /\ \/ UNCHANGED local /\ aborted' = aborted
                      \/ UNCHANGED <<rpc, local>> /\ aborted' = TRUE
                      \/ \E answer \in Answers :
                            Answer(q, answer) /\ aborted' = aborted
                   /\ rpc' \in [Requests -> {"new", "found", "wait"} \cup Answers]
                   /\ local' \in [Cores -> [Names -> [Statuses -> Nat]]]
<1>1. /\ rpc \in [Requests -> {"new", "found", "wait"} \cup Answers]
      /\ local \in [Cores -> [Names -> [Statuses -> Nat]]]
  BY DEF Typed, TypeOK
<1>2. ASSUME NEW answer \in Answers, Answer(q, answer), aborted' = aborted
      PROVE  Goal
  BY <1>2, AnswerTyped
<1>3. ASSUME NEW at \in {"new", "found", "wait"} \cup Answers,
             rpc' = [rpc EXCEPT ![q] = at], UNCHANGED <<local, aborted>>
      PROVE  Goal
  BY <1>1, <1>3
<1>4. CASE Lookup(q)
  BY <1>2, <1>3, <1>4 DEF Lookup, Answers, Statuses
<1>5. CASE Enter(q)
  <2>1. CASE rpc' = [rpc EXCEPT ![q] = "wait"] /\ UNCHANGED local
    BY <1>3, <1>5, <2>1 DEF Enter
  <2>2. CASE \E answer \in {"invalid_argument", "resource_exhausted", "error"} :
                Answer(q, answer)
    <3>1. PICK answer \in Answers : Answer(q, answer)
      BY <2>2 DEF Answers, Statuses
    <3> QED  BY <1>2, <1>5, <3>1 DEF Enter
  <2> QED  BY <1>5, <2>1, <2>2 DEF Enter
<1>6. CASE Complete(q)
  <2>1. PICK answer \in Answers : Answer(q, answer)
    BY <1>6 DEF Complete, Answers, Statuses
  <2> QED  BY <1>2, <1>6, <2>1 DEF Complete
<1>7. CASE Describe(q)
  <2>1. PICK at \in Answers : rpc' = [rpc EXCEPT ![q] = at]
    BY <1>7 DEF Describe, Answers, Statuses
  <2> QED  BY <1>3, <1>7, <2>1 DEF Describe
<1>8. CASE AnswerConstant(q)
  <2>1. "ok" \in Answers
    BY DEF Answers, Statuses
  <2> QED  BY <1>3, <1>8, <2>1 DEF AnswerConstant
<1>9. CASE Todo(q)
  BY <1>1, <1>9 DEF Todo
<1>10. UNCHANGED <<mainVars, channelVars, managerVars, method, asked, core, total>>
  BY DEF Call, Lookup, Enter, Complete, Describe, AnswerConstant, Todo
<1> QED  BY <1>4, <1>5, <1>6, <1>7, <1>8, <1>9, <1>10 DEF Call

LEMMA CallTyped == Typed /\ (\E q \in Requests : Call(q)) => Typed'
<1> SUFFICES ASSUME Typed, NEW q \in Requests, Call(q) PROVE Typed'
  OBVIOUS
<1>1. aborted' \in BOOLEAN
  BY CallSteps DEF Typed, TypeOK
<1>2. TypeOK'
  BY <1>1, CallSteps DEF Typed, TypeOK
<1>3. EachModelOnce'
  BY CallSteps, OnlyTaskTouched
<1>4. TaskProgress'
  <2>1. UNCHANGED <<reply, stage, task, warmups, loaded>>
    BY CallSteps
  <2> QED  BY <2>1 DEF Typed, TaskProgress
<1> QED  BY <1>2, <1>3, <1>4 DEF Typed

LEMMA FlushTyped == Typed /\ (\E c \in Cores : Flush(c)) => Typed'
<1> SUFFICES ASSUME Typed, NEW c \in Cores, Flush(c) PROVE Typed'
  OBVIOUS
<1>1. local' \in [Cores -> [Names -> [Statuses -> Nat]]]
  BY DEF Flush, CountsAfterFlush, NoCounts, Typed, TypeOK
<1>2. total' \in [Names -> [Statuses -> Nat]]
  <2>1. ASSUME NEW n \in Names, NEW s \in Statuses
        PROVE  total[n][s] + local[c][n][s] \in Nat
    BY DEF Typed, TypeOK
  <2> QED  BY <2>1 DEF Flush
<1>3. TypeOK'
  BY <1>1, <1>2 DEF Flush, Typed, TypeOK
<1>4. EachModelOnce'
  BY OnlyTaskTouched DEF Flush
<1>5. TaskProgress'
  BY DEF Flush, Typed, TaskProgress
<1> QED  BY <1>3, <1>4, <1>5 DEF Typed

LEMMA StepTyped == Typed /\ [Next]_vars => Typed'
<1> SUFFICES ASSUME Typed, [Next]_vars PROVE Typed'
  OBVIOUS
<1>1. CASE UNCHANGED vars
  BY <1>1 DEF Typed, TypeOK, EachModelOnce, NoRepeats, Occurs, Untouched,
              TaskProgress
<1>2. CASE Next
  BY <1>2, DispatchTyped, CollectTyped, ReceiveTyped, BuildSessionsTyped,
     BuildBuffersTyped, WarmUpTyped, RegisterTyped, SpawnTyped,
     ReplyLoadedTyped, CallTyped, FlushTyped DEF Next, Main, Manager
<1> QED  BY <1>1, <1>2

LEMMA AlwaysTyped == Spec => []Typed
BY InitTyped, StepTyped, PTL DEF Spec

(***************************************************************************)
(* Type correctness of main, the manager and the cores.                    *)
(***************************************************************************)
THEOREM ServerTypeCorrect == Spec => []TypeOK
<1>1. Typed => TypeOK
  BY DEF Typed
<1> QED  BY <1>1, AlwaysTyped, PTL

-------------------------------------------------------------------------------
(***************************************************************************)
(* Loading.                                                                *)
(***************************************************************************)

\* The steps that leave the manager's models alone.
LEMMA ManagerRests ==
    ASSUME Typed, Dispatch \/ CollectReply \/ (\E q \in Requests : Call(q))
                           \/ (\E c \in Cores : Flush(c))
    PROVE  UNCHANGED <<reply, managerVars>>
BY CallSteps DEF Dispatch, CollectReply, Flush

LEMMA StaffedStep ==
    ASSUME Typed, LoadedModelsAreStaffed, [Next]_vars
    PROVE  LoadedModelsAreStaffed'
<1>1. ASSUME UNCHANGED <<reply, loaded, warmups, threads>>
      PROVE  LoadedModelsAreStaffed'
  BY <1>1 DEF LoadedModelsAreStaffed
<1>2. CASE UNCHANGED vars
  BY <1>1, <1>2
<1>3. CASE Dispatch \/ CollectReply \/ (\E q \in Requests : Call(q))
                    \/ (\E c \in Cores : Flush(c))
  BY <1>1, <1>3, ManagerRests
<1>4. CASE ReceiveLoad
  BY <1>1, <1>4 DEF ReceiveLoad
<1>5. CASE BuildSessions \/ BuildBuffers
  <2>1. /\ reply \in [Models -> {"none", "ok", "err"}]
        /\ reply' = reply \/ reply' = [reply EXCEPT ![task] = "err"]
        /\ UNCHANGED <<loaded, warmups, threads>>
    BY <1>5 DEF BuildSessions, BuildBuffers, ReplyError, Typed, TypeOK
  <2> QED  BY <2>1 DEF LoadedModelsAreStaffed
<1>6. CASE WarmUp
  <2>1. /\ warmups \in [Models -> 0 .. WarmupRuns] /\ reply[task] = "none"
        /\ UNCHANGED <<reply, loaded, threads>>
        /\ warmups' = warmups \/ warmups' = [warmups EXCEPT ![task] = @ + 1]
    BY <1>6 DEF WarmUp, Typed, TypeOK, TaskProgress
  <2> QED  BY <2>1 DEF LoadedModelsAreStaffed
<1>7. CASE RegisterModel
  BY <1>7 DEF RegisterModel, NewMap, LoadedModelsAreStaffed
<1>8. CASE SpawnSession
  <2>1. /\ threads \in [Models -> 0 .. NumExecutors] /\ reply[task] = "none"
        /\ UNCHANGED <<reply, loaded, warmups>>
        /\ threads' = [threads EXCEPT ![task] = @ + 1]
    BY <1>8 DEF SpawnSession, Typed, TypeOK, TaskProgress
  <2> QED  BY <2>1 DEF LoadedModelsAreStaffed
<1>9. CASE ReplyLoaded
  <2>1. /\ reply \in [Models -> {"none", "ok", "err"}]
        /\ reply' = [reply EXCEPT ![task] = "ok"]
        /\ UNCHANGED <<loaded, warmups, threads>>
        /\ task \in loaded /\ warmups[task] = WarmupRuns
        /\ threads[task] = NumExecutors
    BY <1>9 DEF ReplyLoaded, AllThreadsRun, Typed, TypeOK, TaskProgress
  <2> QED  BY <2>1 DEF LoadedModelsAreStaffed
<1> QED  BY <1>2, <1>3, <1>4, <1>5, <1>6, <1>7, <1>8, <1>9
         DEF Next, Main, Manager

(***************************************************************************)
(* A model main was told about is registered, warmed up and fully staffed, *)
(* whatever is loaded after it.                                            *)
(***************************************************************************)
THEOREM LoadedModelsStayStaffed == Spec => []LoadedModelsAreStaffed
<1>1. Init => LoadedModelsAreStaffed
  BY DEF Init, LoadedModelsAreStaffed
<1> QED  BY <1>1, AlwaysTyped, StaffedStep, PTL DEF Spec

LEMMA NoneForgottenStep ==
    ASSUME Typed, LoadedModelsAreStaffed, NoneForgotten, Next
    PROVE  NoneForgotten'
<1>7. ~aborted
  BY DEF Next
<1>1. loaded \subseteq loaded'
  <2>1. CASE RegisterModel
    BY <2>1 DEF RegisterModel, NewMap
  <2>2. CASE ~RegisterModel
    BY <2>2, ManagerRests
       DEF Next, Main, Manager, ReceiveLoad, BuildSessions, BuildBuffers,
           WarmUp, SpawnSession, ReplyLoaded
  <2> QED  BY <2>1, <2>2
<1>2. ASSUME UNCHANGED <<pending, expected>>
      PROVE  NoneForgotten'
  BY <1>1, <1>2, <1>7 DEF NoneForgotten, Occurs
<1>3. CASE Dispatch
  <2>1. /\ pending \in Seq(Models) /\ pending # <<>> /\ Len(pending) > 0
        /\ pending' = Tail(pending)
        /\ Len(pending') = Len(pending) - 1
        /\ \A i \in 1 .. Len(pending') : pending'[i] = pending[i + 1]
    BY <1>3 DEF Dispatch, Typed, TypeOK
  <2>6. pending[1] \in Models /\ expected' = Append(expected, pending[1])
    BY <1>3, <2>1 DEF Dispatch
  <2>2. /\ expected \in Seq(Models) /\ expected' \in Seq(Models)
        /\ Len(expected') = Len(expected) + 1
        /\ \A i \in 1 .. Len(expected) : expected'[i] = expected[i]
        /\ expected'[Len(expected) + 1] = pending[1]
    BY <2>6 DEF Typed, TypeOK
  <2>3. ASSUME NEW m \in Models, Occurs(m, pending)
        PROVE  Occurs(m, pending') \/ m = pending[1]
    <3>1. PICK i \in 1 .. Len(pending) : pending[i] = m
      BY <2>3 DEF Occurs
    <3>2. CASE i # 1
      <4>1. i - 1 \in 1 .. Len(pending') /\ (i - 1) + 1 = i
        BY <2>1, <3>1, <3>2, SMT
      <4>2. pending'[i - 1] = pending[i]
        BY <2>1, <4>1
      <4> QED  BY <3>1, <4>1, <4>2 DEF Occurs
    <3> QED  BY <3>1, <3>2 DEF Occurs
  <2>4. ASSUME NEW m \in Models, Occurs(m, expected) \/ m = pending[1]
        PROVE  Occurs(m, expected')
    BY <2>2, <2>4, SMT DEF Occurs
  <2> QED  BY <1>1, <1>7, <2>3, <2>4 DEF NoneForgotten, Occurs
<1>4. CASE CollectReply
  <2> DEFINE h == Head(expected)
  <2>1. /\ expected \in Seq(Models) /\ expected # <<>> /\ Len(expected) > 0
        /\ h = expected[1] /\ h \in Models
        /\ expected' = Tail(expected)
        /\ Len(expected') = Len(expected) - 1
        /\ \A i \in 1 .. Len(expected') : expected'[i] = expected[i + 1]
        /\ pending' = pending
    BY <1>4 DEF CollectReply, Typed, TypeOK
  <2>2. aborted' \/ h \in loaded
    BY <1>4, <2>1 DEF CollectReply, FailureIsFatal, LoadedModelsAreStaffed,
                      Typed, TypeOK
  <2>3. ASSUME NEW m \in Models, Occurs(m, expected)
        PROVE  Occurs(m, expected') \/ m = h
    <3>1. PICK i \in 1 .. Len(expected) : expected[i] = m
      BY <2>3 DEF Occurs
    <3>2. CASE i # 1
      <4>1. i - 1 \in 1 .. Len(expected') /\ (i - 1) + 1 = i
        BY <2>1, <3>1, <3>2, SMT
      <4>2. expected'[i - 1] = expected[i]
        BY <2>1, <4>1
      <4> QED  BY <3>1, <4>1, <4>2 DEF Occurs
    <3> QED  BY <2>1, <3>1, <3>2
  <2>4. \A m \in Models : Occurs(m, pending) => Occurs(m, pending')
    BY <2>1
  <2> QED  BY <1>1, <1>7, <2>2, <2>3, <2>4 DEF NoneForgotten
<1>5. CASE ReceiveLoad \/ BuildSessions \/ BuildBuffers \/ WarmUp
             \/ RegisterModel \/ SpawnSession \/ ReplyLoaded
  <2>1. UNCHANGED <<pending, expected>>
    BY <1>5 DEF ReceiveLoad, BuildSessions, BuildBuffers, WarmUp,
                RegisterModel, SpawnSession, ReplyLoaded
  <2> QED  BY <1>2, <2>1
<1>6. CASE (\E q \in Requests : Call(q)) \/ (\E c \in Cores : Flush(c))
  <2>1. UNCHANGED <<pending, expected>>
    BY <1>6, CallSteps DEF Flush
  <2> QED  BY <1>2, <2>1
<1> QED  BY <1>3, <1>4, <1>5, <1>6 DEF Next, Main, Manager

(***************************************************************************)
(* When main is done with loading and the process is not gone, all models  *)
(* serve: none is lost on the way through the channel and the replies.     *)
(***************************************************************************)
THEOREM AllModelsServeOrNone == Spec => []AllModelsOrNone
<1>1. Init => NoneForgotten
  <2> SUFFICES ASSUME Init PROVE NoneForgotten
    OBVIOUS
  <2>1. Len(pending) = Cardinality(Models) /\ DOMAIN pending = 1 .. Cardinality(Models)
    BY ArrangementRepeatsNone DEF Init
  <2>2. \A m \in Models : \E i \in DOMAIN pending : pending[i] = m
    BY DEF Init
  <2> QED  BY <2>1, <2>2 DEF NoneForgotten, Occurs
<1>2. NoneForgotten /\ UNCHANGED vars => NoneForgotten'
  BY DEF NoneForgotten, Occurs
<1>3. Typed /\ LoadedModelsAreStaffed /\ NoneForgotten /\ [Next]_vars
        => NoneForgotten'
  BY <1>2, NoneForgottenStep
<1>4. Typed /\ NoneForgotten => AllModelsOrNone
  <2> SUFFICES ASSUME Typed, NoneForgotten, pending = <<>>, expected = <<>>, ~aborted
               PROVE  loaded = Models
    BY DEF AllModelsOrNone
  <2>1. \A m : ~Occurs(m, pending) /\ ~Occurs(m, expected)
    BY DEF Occurs
  <2> QED  BY <2>1 DEF NoneForgotten, Typed, TypeOK
<1> QED  BY <1>1, <1>3, <1>4, AlwaysTyped, LoadedModelsStayStaffed, PTL DEF Spec

-------------------------------------------------------------------------------
(***************************************************************************)
(* Pinning.                                                                *)
(***************************************************************************)

LEMMA PinsStep ==
    ASSUME Typed, PinsFollowCounter, [Next]_vars
    PROVE  PinsFollowCounter'
<1>1. CASE UNCHANGED pinVars
  BY <1>1 DEF PinsFollowCounter
<1>2. CASE SpawnSession
  <2>1. PICK lap \in Nat, next \in 0 .. PinPool - 1 :
            /\ pinCounter = lap * PinPool + next
            /\ \A p \in 0 .. PinPool - 1 :
                pins[p] = IF p < next THEN lap + 1 ELSE lap
    BY DEF PinsFollowCounter
  <2>2. NextPin(task) = next
    <3>1. next \in Nat /\ next < PinPool
      BY Sizes, SMT
    <3> QED  BY <2>1, <3>1, SizesAssumption, RemainderUnique DEF NextPin
  <2>3. pins \in [0 .. PinPool - 1 -> Nat]
    BY DEF Typed, TypeOK
  <2>4. \A p \in 0 .. PinPool - 1 :
            pins'[p] = IF p = next THEN lap + 1 ELSE pins[p]
    BY <1>2, <2>1, <2>2, <2>3, SMT DEF SpawnSession
  <2>5. pinCounter' = lap * PinPool + next + 1
    BY <1>2, <2>1 DEF SpawnSession
  <2>6. CASE next + 1 < PinPool
    <3>1. next + 1 \in 0 .. PinPool - 1
      BY <2>6, Sizes, SMT
    <3>2. \A p \in 0 .. PinPool - 1 :
            pins'[p] = IF p < next + 1 THEN lap + 1 ELSE lap
      BY <2>1, <2>4, Sizes, SMT
    <3>3. pinCounter' = lap * PinPool + (next + 1)
      BY <2>5, Sizes, SMT
    <3> QED  BY <3>1, <3>2, <3>3 DEF PinsFollowCounter
  <2>7. CASE next + 1 = PinPool
    <3>1. 0 \in 0 .. PinPool - 1 /\ lap + 1 \in Nat
      BY Sizes, SMT
    <3>2. \A p \in 0 .. PinPool - 1 :
            pins'[p] = IF p < 0 THEN (lap + 1) + 1 ELSE lap + 1
      BY <2>1, <2>4, <2>7, Sizes, SMT
    <3>3. pinCounter' = (lap + 1) * PinPool + 0
      BY <2>5, <2>7, Sizes, SMT
    <3> QED  BY <3>1, <3>2, <3>3 DEF PinsFollowCounter
  <2>8. next + 1 < PinPool \/ next + 1 = PinPool
    BY Sizes, SMT
  <2> QED  BY <2>6, <2>7, <2>8
<1>3. CASE Next /\ ~SpawnSession
  <2>1. UNCHANGED pinVars
    BY <1>3, ManagerRests
       DEF Next, Main, Manager, ReceiveLoad, BuildSessions, BuildBuffers,
           WarmUp, RegisterModel, ReplyLoaded
  <2> QED  BY <1>1, <2>1
<1> QED  BY <1>1, <1>2, <1>3

(***************************************************************************)
(* One counter for all models and a remainder spread the session threads   *)
(* evenly over the pool, for every number of models, sessions and CPUs.    *)
(***************************************************************************)
THEOREM PinsStayBalanced == Spec => []PinsBalanced
<1>1. Init => PinsFollowCounter
  <2> SUFFICES ASSUME Init PROVE PinsFollowCounter
    OBVIOUS
  <2>1. 0 \in 0 .. PinPool - 1 /\ 0 = 0 * PinPool + 0
    BY Sizes, SMT
  <2>2. \A p \in 0 .. PinPool - 1 : pins[p] = IF p < 0 THEN 0 + 1 ELSE 0
    BY Sizes, SMT DEF Init
  <2> QED  BY <2>1, <2>2 DEF Init, PinsFollowCounter
<1>2. Typed /\ PinsFollowCounter => PinsBalanced
  <2> SUFFICES ASSUME Typed, PinsFollowCounter PROVE PinsBalanced
    OBVIOUS
  <2>1. DOMAIN pins = 0 .. PinPool - 1
    BY DEF Typed, TypeOK
  <2>2. PICK lap \in Nat, next \in 0 .. PinPool - 1 :
            \A p \in 0 .. PinPool - 1 :
                pins[p] = IF p < next THEN lap + 1 ELSE lap
    BY DEF PinsFollowCounter
  <2> QED  BY <2>1, <2>2, SMT DEF PinsBalanced
<1> QED  BY <1>1, <1>2, AlwaysTyped, PinsStep, PTL DEF Spec

-------------------------------------------------------------------------------
(***************************************************************************)
(* Calls and their counters.                                               *)
(***************************************************************************)

\* The map only grows.
LEMMA MapGrows ==
    ASSUME Typed, [Next]_vars
    PROVE  loaded \subseteq loaded'
<1>1. CASE RegisterModel
  BY <1>1 DEF RegisterModel, NewMap
<1>2. CASE ~RegisterModel
  BY <1>2, ManagerRests
     DEF Next, Main, Manager, ReceiveLoad, BuildSessions, BuildBuffers,
         WarmUp, SpawnSession, ReplyLoaded
<1> QED  BY <1>1, <1>2

\* Steps of others leave a call alone.
LEMMA CallsRest ==
    ASSUME [Next]_vars
    PROVE  UNCHANGED <<rpc, method, asked>> \/ \E q \in Requests : Call(q)
BY DEF Next, Main, Manager, Dispatch, CollectReply, ReceiveLoad, BuildSessions,
       BuildBuffers, WarmUp, RegisterModel, SpawnSession, ReplyLoaded, Flush

(***************************************************************************)
(* What a step of a call does to rpc.                                      *)
(***************************************************************************)
LEMMA CallMoves ==
    ASSUME Typed, CallsInFlight, NEW q \in Requests, Call(q)
    PROVE  /\ UNCHANGED <<method, asked>>
           /\ rpc[q] \in {"new", "found", "wait"}
           /\ \A r \in Requests \ {q} : rpc'[r] = rpc[r]
           /\ rpc'[q] \in {"found", "wait"} => method[q] = "ModelInfer"
           /\ method[q] \in Readers /\ rpc'[q] = "ok" => asked[q] \in loaded
           /\ rpc[q] = "new" /\ rpc'[q] = "not_found" => asked[q] \notin loaded
<1>1. UNCHANGED <<method, asked>>
  BY CallSteps
<1>2. rpc \in [Requests -> {"new", "found", "wait"} \cup Answers]
  BY DEF Typed, TypeOK
<1>3. "ModelInfer" \notin Readers /\ Readers \cap Constants = {}
  BY DEF Readers, Constants
<1>4. CASE Lookup(q)
  BY <1>1, <1>2, <1>3, <1>4 DEF Lookup, Answer
<1>5. CASE Enter(q)
  BY <1>1, <1>2, <1>3, <1>5 DEF Enter, Answer, CallsInFlight
<1>6. CASE Complete(q)
  BY <1>1, <1>2, <1>3, <1>6 DEF Complete, Answer, CallsInFlight
<1>7. CASE Describe(q)
  BY <1>1, <1>2, <1>3, <1>7 DEF Describe
<1>8. CASE AnswerConstant(q)
  BY <1>1, <1>2, <1>3, <1>8 DEF AnswerConstant
<1>9. CASE Todo(q)
  BY <1>1, <1>9 DEF Todo
<1> QED  BY <1>4, <1>5, <1>6, <1>7, <1>8, <1>9 DEF Call

LEMMA InFlightStep ==
    ASSUME Typed, CallsInFlight, [Next]_vars
    PROVE  CallsInFlight'
<1>1. loaded \subseteq loaded'
  BY MapGrows
<1>2. CASE UNCHANGED <<rpc, method, asked>>
  BY <1>1, <1>2 DEF CallsInFlight
<1>3. CASE \E q \in Requests : Call(q)
  <2>1. PICK q \in Requests : Call(q)
    BY <1>3
  <2> QED  BY <1>1, <2>1, CallMoves DEF CallsInFlight
<1> QED  BY <1>2, <1>3, CallsRest

LEMMA AlwaysInFlight == Spec => []CallsInFlight
<1>1. Init => CallsInFlight
  BY DEF Init, CallsInFlight
<1> QED  BY <1>1, AlwaysTyped, InFlightStep, PTL DEF Spec

(***************************************************************************)
(* Who was told about a model finds it: the map the metadata came from is  *)
(* only ever replaced by a larger one.                                     *)
(***************************************************************************)
THEOREM DescribedModelsStayFound == Spec => DescribedModelsAreFound
<1> DEFINE Found == \A q, r \in Requests :
          method[q] \in Readers /\ rpc[q] = "ok" /\ asked[r] = asked[q]
              /\ rpc[r] = "new" => rpc'[r] # "not_found"
<1>1. ASSUME Typed, CallsInFlight, [Next]_vars
      PROVE  Found
  <2> SUFFICES ASSUME NEW q \in Requests, NEW r \in Requests,
                      method[q] \in Readers, rpc[q] = "ok",
                      asked[r] = asked[q], rpc[r] = "new"
               PROVE  rpc'[r] # "not_found"
    OBVIOUS
  <2>1. asked[r] \in loaded
    BY <1>1 DEF CallsInFlight
  <2>2. CASE UNCHANGED <<rpc, method, asked>>
    BY <2>2
  <2>3. CASE \E p \in Requests : Call(p)
    BY <1>1, <2>1, <2>3, CallMoves
  <2> QED  BY <1>1, <2>2, <2>3, CallsRest
<1>2. Typed /\ CallsInFlight /\ [Next]_vars => [Found]_vars
  BY <1>1
<1> QED  BY <1>2, AlwaysTyped, AlwaysInFlight, PTL DEF Spec, DescribedModelsAreFound

(***************************************************************************)
(* An answer raises the counter of its model and status by one, and leaves *)
(* the other counters of the core, and the other cores, alone.             *)
(***************************************************************************)
LEMMA AnswerCounts ==
    ASSUME Typed, NEW q \in Requests, NEW answer \in Answers, Answer(q, answer),
           NEW n \in Names, NEW s \in Statuses
    PROVE  /\ \A c \in Cores \ {core[q]} : local'[c][n][s] = local[c][n][s]
           /\ local'[core[q]][n][s] = local[core[q]][n][s]
                 + IF n = asked[q] /\ s = answer THEN 1 ELSE 0
<1>1. core[q] \in Cores /\ asked[q] \in Names
  BY CallTypes
<1>2. local \in [Cores -> [Names -> [Statuses -> Nat]]]
  BY DEF Typed, TypeOK
<1> DEFINE old == local[core[q]][asked[q]]
           row == [t \in Statuses |->
                      IF t \in CountedAs(q, answer) THEN old[t] + 1 ELSE old[t]]
<1>3. local' = [local EXCEPT ![core[q]] = [@ EXCEPT ![asked[q]] = row]]
  BY <1>1, <1>2 DEF Answer
<1>4. row[s] = IF s = answer THEN old[s] + 1 ELSE old[s]
  BY DEF CountedAs
<1> HIDE DEF row
<1>5. \A c \in Cores \ {core[q]} : local'[c] = local[c]
  BY <1>2, <1>3
<1>6. local'[core[q]] = [local[core[q]] EXCEPT ![asked[q]] = row]
  BY <1>1, <1>2, <1>3
<1>7. local[core[q]] \in [Names -> [Statuses -> Nat]]
  BY <1>1, <1>2
<1>8. CASE n = asked[q]
  <2>1. local'[core[q]][n] = row
    BY <1>1, <1>6, <1>7, <1>8
  <2>2. local[core[q]][n][s] \in Nat
    BY <1>7
  <2> QED  BY <1>4, <1>5, <1>8, <2>1, <2>2
<1>9. CASE n # asked[q]
  <2>1. local'[core[q]][n] = local[core[q]][n] /\ local[core[q]][n][s] \in Nat
    BY <1>1, <1>6, <1>7, <1>9
  <2> QED  BY <1>5, <1>9, <2>1
<1> QED  BY <1>8, <1>9

\* The unflushed counts are the units of the cores' counters.
LEMMA UnflushedUnits ==
    ASSUME Typed, NEW n \in Names, NEW s \in Statuses
    PROVE  /\ [c \in Cores |-> local[c][n][s]] \in [Cores -> Nat]
           /\ Unflushed(n, s) = Units(Cores, [c \in Cores |-> local[c][n][s]])
BY DEF Typed, TypeOK, Unflushed, Units

\* The counts balance for one model and one status.
Balanced(n, s) ==
    total[n][s] + Cardinality(Unflushed(n, s)) = Cardinality(Answered(n, s))

LEMMA CallBalances ==
    ASSUME Typed, Typed', CallsInFlight, NEW q \in Requests, Call(q),
           NEW n \in Names, NEW s \in Statuses, Balanced(n, s)
    PROVE  Balanced(n, s)'
<1> DEFINE f == [c \in Cores |-> local[c][n][s]]
           g == [c \in Cores |-> local'[c][n][s]]
<1>1. /\ f \in [Cores -> Nat] /\ Unflushed(n, s) = Units(Cores, f)
      /\ g \in [Cores -> Nat] /\ Unflushed(n, s)' = Units(Cores, g)
  <2>1. Unflushed(n, s)' = Units(Cores, g) /\ g \in [Cores -> Nat]
    BY DEF Typed, TypeOK, Unflushed, Units
  <2> QED  BY <2>1, UnflushedUnits
<1>2. UNCHANGED total
  BY CallSteps
<1>3. /\ Cardinality(Unflushed(n, s)) \in Nat /\ Cardinality(Unflushed(n, s)') \in Nat
      /\ total[n][s] \in Nat
  BY <1>1, UnitsFinite, FiniteAssumption DEF Typed, TypeOK
<1>4. IsFiniteSet(Answered(n, s)) /\ Cardinality(Answered(n, s)) \in Nat
  BY FiniteAssumption, FS_Subset, FS_CardinalityType DEF Answered
<1>5. q \notin Answered(n, s)
  BY CallMoves DEF Answered, Statuses
<1>6. CASE Answered(n, s)' = Answered(n, s) /\ f = g
  BY <1>1, <1>2, <1>6 DEF Balanced
<1>7. ASSUME UNCHANGED local,
             method[q] # "ModelInfer" \/ rpc'[q] \notin Statuses
      PROVE  Balanced(n, s)'
  <2>1. Answered(n, s)' = Answered(n, s)
    BY <1>5, <1>7, CallMoves DEF Answered
  <2>2. f = g
    BY <1>7
  <2> QED  BY <1>6, <2>1, <2>2
<1>8. ASSUME NEW answer \in Answers, Answer(q, answer), method[q] = "ModelInfer"
      PROVE  Balanced(n, s)'
  <2>1. rpc' = [rpc EXCEPT ![q] = answer] /\ rpc'[q] = answer
    BY <1>8 DEF Answer, Typed, TypeOK
  <2>2. CASE n = asked[q] /\ s = answer
    <3>1. Answered(n, s)' = Answered(n, s) \cup {q}
      BY <1>8, <2>1, <2>2, CallMoves DEF Answered
    <3>2. Cardinality(Answered(n, s)') = Cardinality(Answered(n, s)) + 1
      BY <1>4, <1>5, <3>1, FS_AddElement
    <3>3. /\ core[q] \in Cores /\ g[core[q]] = f[core[q]] + 1
          /\ f[core[q]] \in Nat
          /\ \A c \in Cores \ {core[q]} : g[c] = f[c]
      BY <1>1, <1>8, <2>2, AnswerCounts, CallTypes
    <3>4. Cardinality(Units(Cores, g))
            = Cardinality(Units(Cores, f)) - f[core[q]] + g[core[q]]
      BY <1>1, <3>3, UnitsChange, FiniteAssumption
    <3>5. Cardinality(Unflushed(n, s)') = Cardinality(Unflushed(n, s)) + 1
      <4> HIDE DEF f, g
      <4> QED  BY <1>1, <1>3, <3>3, <3>4, SMT
    <3> QED  BY <1>2, <1>3, <1>4, <3>2, <3>5, SMT DEF Balanced
  <2>3. CASE ~(n = asked[q] /\ s = answer)
    <3>1. Answered(n, s)' = Answered(n, s)
      BY <1>5, <1>8, <2>1, <2>3, CallMoves DEF Answered
    <3>2. \A c \in Cores : g[c] = f[c]
      <4>1. /\ \A c \in Cores \ {core[q]} : g[c] = f[c]
            /\ core[q] \in Cores => g[core[q]] = f[core[q]] + 0
        BY <1>8, <2>3, AnswerCounts
      <4>2. \A c \in Cores : f[c] \in Nat
        BY <1>1
      <4> QED  BY <4>1, <4>2
    <3> QED  BY <1>6, <3>1, <3>2
  <2> QED  BY <2>2, <2>3
<1>9. rpc \in [Requests -> {"new", "found", "wait"} \cup Answers]
  BY DEF Typed, TypeOK
<1>10. CASE Lookup(q)
  <2>1. method[q] = "ModelInfer"
    BY <1>10 DEF Lookup
  <2>2. CASE rpc' = [rpc EXCEPT ![q] = "found"] /\ UNCHANGED local
    BY <1>7, <1>9, <2>2 DEF Statuses
  <2>3. CASE Answer(q, "not_found")
    BY <1>8, <2>1, <2>3 DEF Answers, Statuses
  <2> QED  BY <1>10, <2>2, <2>3 DEF Lookup
<1>11. CASE Enter(q)
  <2>1. method[q] = "ModelInfer"
    BY <1>11 DEF Enter, CallsInFlight
  <2>2. CASE rpc' = [rpc EXCEPT ![q] = "wait"] /\ UNCHANGED local
    BY <1>7, <1>9, <2>2 DEF Statuses
  <2>3. CASE \E answer \in {"invalid_argument", "resource_exhausted", "error"} :
                Answer(q, answer)
    BY <1>8, <2>1, <2>3 DEF Answers, Statuses
  <2> QED  BY <1>11, <2>2, <2>3 DEF Enter
<1>12. CASE Complete(q)
  <2>1. method[q] = "ModelInfer"
    BY <1>12 DEF Complete, CallsInFlight
  <2> QED  BY <1>8, <1>12, <2>1 DEF Complete, Answers, Statuses
<1>13. CASE Describe(q)
  BY <1>7, <1>13 DEF Describe, Readers
<1>14. CASE AnswerConstant(q)
  BY <1>7, <1>14 DEF AnswerConstant, Constants
<1>15. CASE Todo(q)
  BY <1>7, <1>15 DEF Todo, Unimplemented
<1> QED  BY <1>10, <1>11, <1>12, <1>13, <1>14, <1>15 DEF Call

LEMMA FlushBalances ==
    ASSUME Typed, Typed', NEW k \in Cores, Flush(k),
           NEW n \in Names, NEW s \in Statuses, Balanced(n, s)
    PROVE  Balanced(n, s)'
<1> DEFINE f == [c \in Cores |-> local[c][n][s]]
           g == [c \in Cores |-> local'[c][n][s]]
<1>1. /\ f \in [Cores -> Nat] /\ Unflushed(n, s) = Units(Cores, f)
      /\ g \in [Cores -> Nat] /\ Unflushed(n, s)' = Units(Cores, g)
  <2>1. Unflushed(n, s)' = Units(Cores, g) /\ g \in [Cores -> Nat]
    BY DEF Typed, TypeOK, Unflushed, Units
  <2> QED  BY <2>1, UnflushedUnits
<1>2. g[k] = 0 /\ \A c \in Cores \ {k} : g[c] = f[c]
  BY DEF Flush, CountsAfterFlush, NoCounts, Typed, TypeOK
<1>3. total[n][s] \in Nat /\ total'[n][s] = total[n][s] + f[k] /\ f[k] \in Nat
  BY <1>1 DEF Flush, Typed, TypeOK
<1>4. Answered(n, s)' = Answered(n, s)
  BY DEF Flush, Answered
<1>5. Cardinality(Units(Cores, g)) = Cardinality(Units(Cores, f)) - f[k] + g[k]
  BY <1>1, <1>2, UnitsChange, FiniteAssumption
<1>6. Cardinality(Units(Cores, f)) \in Nat
  BY <1>1, UnitsFinite, FiniteAssumption
<1> HIDE DEF f, g
<1> QED  BY <1>1, <1>2, <1>3, <1>4, <1>5, <1>6, SMT DEF Balanced

LEMMA BalancedStep ==
    ASSUME Typed, Typed', CallsInFlight, [Next]_vars, EveryAnswerCountedOnce
    PROVE  EveryAnswerCountedOnce'
<1> SUFFICES ASSUME NEW n \in Names, NEW s \in Statuses
             PROVE  Balanced(n, s)'
  BY DEF EveryAnswerCountedOnce, Balanced, Unflushed, Answered
<1>1. Balanced(n, s)
  BY DEF EveryAnswerCountedOnce, Balanced
<1>2. CASE UNCHANGED <<rpc, method, asked, local, total>>
  BY <1>1, <1>2 DEF Balanced, Unflushed, Answered
<1>3. CASE \E q \in Requests : Call(q)
  BY <1>1, <1>3, CallBalances
<1>4. CASE \E c \in Cores : Flush(c)
  BY <1>1, <1>4, FlushBalances
<1>5. CASE Main \/ Manager
  BY <1>2, <1>5 DEF Main, Manager, Dispatch, CollectReply, ReceiveLoad,
     BuildSessions, BuildBuffers, WarmUp, RegisterModel, SpawnSession,
     ReplyLoaded
<1> QED  BY <1>2, <1>3, <1>4, <1>5 DEF Next

(***************************************************************************)
(* Flushes lose no answer and count none twice, for every number of cores  *)
(* and calls and every interleaving of their steps and flushes.            *)
(***************************************************************************)
THEOREM AnswersAreCountedOnce == Spec => []EveryAnswerCountedOnce
<1>1. Init => EveryAnswerCountedOnce
  <2> SUFFICES ASSUME Init, NEW n \in Names, NEW s \in Statuses
               PROVE  Balanced(n, s)
    BY DEF EveryAnswerCountedOnce, Balanced
  <2>1. total[n][s] = 0 /\ \A c \in Cores : local[c][n][s] = 0
    BY DEF Init, NoCounts
  <2>2. 1 .. 0 = {}
    BY SMT
  <2>3. Unflushed(n, s) = {}
    BY <2>1, <2>2 DEF Unflushed
  <2>4. Answered(n, s) = {}
    BY DEF Init, Answered, Statuses
  <2> QED  BY <2>1, <2>3, <2>4, FS_EmptySet DEF Balanced
<1> QED  BY <1>1, AlwaysTyped, AlwaysInFlight, BalancedStep, PTL DEF Spec
==============================================================================
