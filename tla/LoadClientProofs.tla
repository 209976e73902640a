-------------------------- MODULE LoadClientProofs --------------------------
(***************************************************************************)
(* The load client, for any number of requests, workers and attempts and   *)
(* any length of the series that stops it: what the summary adds up to,    *)
(* what the exit code tells, and when the client stops itself.             *)
(*                                                                         *)
(* The numbers count the jobs that have recorded themselves, and nothing   *)
(* else: which of them have left since does not matter.                    *)
(***************************************************************************)
EXTENDS LoadClient, FiniteSetTheorems, TLAPS

Recorded == {j \in Jobs : At(j, {"recorded", "done"})}

RecordedAs(verdicts) == {j \in Recorded : job[j].verdict \in verdicts}

Recovered == {j \in Recorded : job[j].verdict = "ok" /\ job[j].retried}

Left == {j \in Jobs : At(j, {"done"})}

NoneOK == \A j \in Jobs : job[j].verdict # "ok"

\* A worker has a verdict from the end of its calls on, and not before.
JobOK(j) ==
    /\ At(j, {"idle", "mask", "restore"}) => job[j].verdict = "none"
    /\ At(j, {"idle"}) => ~job[j].garbled
    /\ At(j, {"valid"}) => job[j].verdict = "ok"
    /\ At(j, {"invalid"}) => job[j].verdict \in Reasons
    /\ At(j, {"recorded", "done"}) => job[j].verdict \in {"ok"} \cup Reasons

CountsOK ==
    /\ metrics.requests = Cardinality(Recorded)
    /\ metrics.invalid = Cardinality(RecordedAs(Reasons))
    /\ \A r \in Reasons :
         metrics.failureReasons[r] = Cardinality(RecordedAs({r}))
    /\ metrics.http429Persistent = metrics.failureReasons["persistent 429"]
    /\ metrics.recoveredByRetry = Cardinality(Recovered)

SeriesOK ==
    /\ metrics.consecutiveInvalid <= metrics.maxConsecutiveInvalid
    /\ NoneOK => metrics.consecutiveInvalid = Cardinality(Recorded)
    /\ stopCh => metrics.maxConsecutiveInvalid >= StopAfterInvalid
    /\ NoneOK /\ Cardinality(Left) >= StopAfterInvalid => stopCh

GarbledOK == metrics.roundtripFailures > 0 <=> \E j \in Jobs : job[j].garbled

LoopOK == loop = "done" => Running = {}

IInv ==
    /\ TypeOK
    /\ \A j \in Jobs : JobOK(j)
    /\ CountsOK /\ SeriesOK /\ GarbledOK /\ LoopOK

-----------------------------------------------------------------------------
(* Counting jobs *)

LEMMA JobsFinite ==
    ASSUME NEW S \in SUBSET Jobs
    PROVE  IsFiniteSet(S) /\ Cardinality(S) \in Nat
<1>1. IsFiniteSet(Jobs)
  BY LoadAssumption, FS_Interval DEF Jobs
<1> QED BY <1>1, FS_Subset, FS_CardinalityType

\* One more counts one more.
LEMMA OneMore ==
    ASSUME NEW S \in SUBSET Jobs, NEW j \in Jobs \ S
    PROVE  Cardinality(S \cup {j}) = Cardinality(S) + 1
BY JobsFinite, FS_AddElement

-----------------------------------------------------------------------------
(* The steps *)

LEMMA Initially == Init => IInv
<1> SUFFICES ASSUME Init PROVE IInv
  OBVIOUS
<1>1. TypeOK
  <2>1. job \in [Jobs -> Job]
    BY LoadAssumption DEF Init, Job
  <2>2. metrics \in Metrics
    BY DEF Init, Metrics
  <2> QED BY <2>1, <2>2 DEF Init, TypeOK
<1>2. Recorded = {} /\ RecordedAs(Reasons) = {} /\ Recovered = {} /\ Left = {}
      /\ \A r \in Reasons : RecordedAs({r}) = {}
  BY DEF Init, Recorded, RecordedAs, Recovered, Left, At
<1>3. Cardinality({}) = 0
  BY FS_EmptySet
<1>4. CountsOK
  BY <1>2, <1>3 DEF Init, CountsOK, Reasons
<1>5. SeriesOK
  BY <1>2, <1>3, LoadAssumption DEF Init, SeriesOK
<1> QED BY <1>1, <1>4, <1>5 DEF Init, IInv, JobOK, At, GarbledOK, LoopOK

\* The loop and the world outside touch no number and no worker.
LEMMA OutsideKeeps ==
    ASSUME IInv,
           CheckDeadline \/ Interrupted \/ SkipTick \/ Join \/ DeadlinePasses
             \/ Signal \/ UNCHANGED vars
    PROVE  IInv'
<1>1. UNCHANGED <<stopCh, job, metrics>>
  BY DEF CheckDeadline, Interrupted, SkipTick, Join, LoopTo, DeadlinePasses,
         Signal, vars
<1>2. TypeOK'
  BY DEF IInv, TypeOK, CheckDeadline, Interrupted, SkipTick, Join, LoopTo,
         DeadlinePasses, Signal, vars
<1>3. /\ Recorded' = Recorded /\ Recovered' = Recovered /\ Left' = Left
      /\ \A v : RecordedAs(v)' = RecordedAs(v)
      /\ NoneOK' = NoneOK /\ Running' = Running
      /\ \A j \in Jobs : JobOK(j)' = JobOK(j)
  BY <1>1 DEF Recorded, Recovered, Left, RecordedAs, NoneOK, Running, JobOK, At
<1>4. CountsOK' /\ SeriesOK' /\ GarbledOK'
  BY <1>1, <1>3 DEF IInv, CountsOK, SeriesOK, GarbledOK
<1>5. LoopOK'
  BY <1>3 DEF IInv, LoopOK, CheckDeadline, Interrupted, SkipTick, Join, AllJoined,
              LoopTo, DeadlinePasses, Signal, vars
<1> QED BY <1>2, <1>3, <1>4, <1>5 DEF IInv

\* Until a worker records itself, the numbers about requests stay as they are.
LEMMA CallKeeps ==
    ASSUME IInv, NEW j \in Jobs, At(j, {"idle", "mask", "restore"}),
           \A i \in Jobs \ {j} : job'[i] = job[i],
           TypeOK', JobOK(j)', At(j, {"mask", "restore", "valid", "invalid"})',
           stopCh' = stopCh,
           \E n \in Nat : metrics' = [metrics EXCEPT !.roundtripFailures = n]
    PROVE  (\A i \in Jobs : JobOK(i))' /\ CountsOK' /\ SeriesOK'
<1>1. j \notin Recorded /\ j \notin Recorded' /\ job[j].verdict = "none"
  BY DEF Recorded, At, IInv, JobOK
<1>2. Recorded' = Recorded
  BY <1>1 DEF Recorded, At
<1>3. \A i \in Recorded : job'[i] = job[i]
  BY <1>1 DEF Recorded
<1>4. Recovered' = Recovered
  BY <1>2, <1>3 DEF Recovered
<1>5. \A v : RecordedAs(v)' = RecordedAs(v)
  BY <1>2, <1>3 DEF RecordedAs
<1>6. Left' = Left
  BY <1>1 DEF Left, Recorded, At
<1>7. NoneOK' => NoneOK
  BY <1>1 DEF NoneOK
<1>8. /\ metrics'.requests = metrics.requests
      /\ metrics'.invalid = metrics.invalid
      /\ metrics'.failureReasons = metrics.failureReasons
      /\ metrics'.http429Persistent = metrics.http429Persistent
      /\ metrics'.recoveredByRetry = metrics.recoveredByRetry
      /\ metrics'.consecutiveInvalid = metrics.consecutiveInvalid
      /\ metrics'.maxConsecutiveInvalid = metrics.maxConsecutiveInvalid
  BY DEF IInv, TypeOK, Metrics
<1>9. CountsOK'
  BY <1>2, <1>4, <1>5, <1>8 DEF IInv, CountsOK
<1>10. SeriesOK'
  BY <1>2, <1>6, <1>7, <1>8 DEF IInv, SeriesOK
<1>11. \A i \in Jobs : JobOK(i)'
  BY DEF IInv, JobOK, At
<1> QED BY <1>9, <1>10, <1>11

LEMMA LaunchKeeps ==
    ASSUME IInv, NEW j \in Jobs, Launch(j)
    PROVE  IInv'
<1>1. /\ job' = [job EXCEPT ![j].pc = "mask"] /\ At(j, {"idle"})
      /\ loop' = "check" /\ UNCHANGED <<expired, cancelled, stopCh, metrics>>
  BY DEF Launch, LoopTo, Goto, Idle
<1>2. job[j] \in Job /\ job' \in [Jobs -> Job]
  BY <1>1 DEF IInv, TypeOK, Job
<1>3. job'[j] = [job[j] EXCEPT !.pc = "mask"]
      /\ \A i \in Jobs \ {j} : job'[i] = job[i]
  BY <1>1 DEF IInv, TypeOK
<1>4. TypeOK'
  BY <1>1, <1>2 DEF IInv, TypeOK
<1>5. JobOK(j)'
  BY <1>1, <1>2, <1>3 DEF IInv, JobOK, At, Job
<1>6. metrics' = [metrics EXCEPT !.roundtripFailures = metrics.roundtripFailures]
      /\ metrics.roundtripFailures \in Nat
  BY <1>1 DEF IInv, TypeOK, Metrics
<1>7. (\A i \in Jobs : JobOK(i))' /\ CountsOK' /\ SeriesOK'
  BY <1>1, <1>2, <1>3, <1>4, <1>5, <1>6, CallKeeps DEF At, Job
<1>8. \A i \in Jobs : job'[i].garbled = job[i].garbled
  BY <1>2, <1>3 DEF Job
<1>9. GarbledOK' /\ LoopOK'
  BY <1>1, <1>8 DEF IInv, GarbledOK, LoopOK
<1> QED BY <1>4, <1>7, <1>9 DEF IInv

\* A worker that has something to do finds the loop not yet through.
LEMMA LoopWaits ==
    ASSUME IInv, NEW j \in Jobs, ~At(j, {"idle", "done"}), loop' = loop
    PROVE  LoopOK'
BY DEF IInv, LoopOK, Running

LEMMA FailsKeeps ==
    ASSUME IInv, NEW j \in Jobs, NEW reason \in Reasons, Fails(j, reason)
    PROVE  IInv'
<1>1. /\ At(j, {"mask", "restore"})
      /\ UNCHANGED <<loop, expired, cancelled, stopCh, metrics>>
      /\ IF LastAttempt(j) THEN GiveUp(j, reason) ELSE TryAgain(j)
  BY DEF Fails, Calling
<1>2. job[j] \in Job /\ job[j].verdict = "none"
  BY <1>1 DEF IInv, TypeOK, JobOK, At
<1>3. /\ \A i \in Jobs \ {j} : job'[i] = job[i]
      /\ \/ job'[j] = [job[j] EXCEPT !.verdict = reason, !.pc = "invalid"]
         \/ /\ ~LastAttempt(j)
            /\ job'[j] = [job[j] EXCEPT !.attempt = @ + 1, !.retried = TRUE]
  BY <1>1 DEF GiveUp, TryAgain, IInv, TypeOK
<1>4. job'[j] \in Job
  <2>1. CASE job'[j] = [job[j] EXCEPT !.verdict = reason, !.pc = "invalid"]
    BY <1>2, <2>1 DEF Job
  <2>2. CASE /\ ~LastAttempt(j)
             /\ job'[j] = [job[j] EXCEPT !.attempt = @ + 1, !.retried = TRUE]
    <3>1. job[j].attempt + 1 \in 0 .. MaxAttempts - 1
      BY <1>2, <2>2, LoadAssumption DEF Job, LastAttempt
    <3> QED BY <1>2, <2>2, <3>1 DEF Job
  <2> QED BY <1>3, <2>1, <2>2
<1>5. job' \in [Jobs -> Job]
  BY <1>1, <1>3, <1>4 DEF IInv, TypeOK, GiveUp, TryAgain
<1>6. TypeOK'
  BY <1>1, <1>5 DEF IInv, TypeOK
<1>7. JobOK(j)' /\ At(j, {"mask", "restore", "valid", "invalid"})'
  BY <1>1, <1>2, <1>3 DEF JobOK, At, Job
<1>8. metrics' = [metrics EXCEPT !.roundtripFailures = metrics.roundtripFailures]
      /\ metrics.roundtripFailures \in Nat
  BY <1>1 DEF IInv, TypeOK, Metrics
<1>9. (\A i \in Jobs : JobOK(i))' /\ CountsOK' /\ SeriesOK'
  BY <1>1, <1>3, <1>6, <1>7, <1>8, CallKeeps DEF At
<1>10. \A i \in Jobs : job'[i].garbled = job[i].garbled
  BY <1>2, <1>3 DEF Job
<1>11. GarbledOK' /\ LoopOK'
  BY <1>1, <1>10, LoopWaits DEF IInv, GarbledOK, At
<1> QED BY <1>6, <1>9, <1>11 DEF IInv

LEMMA AnsweredKeeps ==
    ASSUME IInv, NEW j \in Jobs, NEW good \in BOOLEAN, Answered(j, good)
    PROVE  IInv'
<1>1. /\ At(j, {"mask", "restore"})
      /\ UNCHANGED <<loop, expired, cancelled, stopCh>>
      /\ Judge(j, good)
  BY DEF Answered, Calling
<1>2. job[j] \in Job /\ job[j].verdict = "none"
  BY <1>1 DEF IInv, TypeOK, JobOK, At
<1>3. PICK g \in BOOLEAN : g = (job[j].garbled \/ ~good)
  OBVIOUS
<1>4. PICK pc, attempt, verdict :
         /\ pc      = IF At(j, {"mask"}) THEN "restore" ELSE "valid"
         /\ attempt = IF At(j, {"mask"}) THEN 0 ELSE job[j].attempt
         /\ verdict = IF At(j, {"mask"}) THEN job[j].verdict ELSE "ok"
  OBVIOUS
<1>5. PICK w : w = [pc |-> pc, attempt |-> attempt, retried |-> job[j].retried,
                     verdict |-> verdict, garbled |-> g]
  OBVIOUS
<1>6. w \in Job
  <2>1. 0 \in 0 .. MaxAttempts - 1
    BY LoadAssumption
  <2>2. attempt \in 0 .. MaxAttempts - 1
    BY <1>2, <1>4, <2>1 DEF Job
  <2>3. verdict \in {"none", "ok"} /\ pc \in {"restore", "valid"}
    BY <1>2, <1>4
  <2>4. job[j].retried \in BOOLEAN
    BY <1>2 DEF Job
  <2> QED BY <1>5, <2>2, <2>3, <2>4 DEF Job
<1>7. job' = [job EXCEPT ![j] = w]
  <2>1. PICK v : v = [job[j] EXCEPT !.attempt = attempt, !.garbled = g,
                                    !.verdict = verdict, !.pc = pc]
    OBVIOUS
  <2>2. job' = [job EXCEPT ![j] = v]
    BY <1>3, <1>4, <2>1 DEF Answered, IInv, TypeOK
  <2>3. v = w
    <3>1. PICK r \in Job : r = job[j]
      BY <1>2
    <3>2. v = [r EXCEPT !.attempt = attempt, !.garbled = g,
                        !.verdict = verdict, !.pc = pc]
      BY <2>1, <3>1
    <3>3. v = [pc |-> pc, attempt |-> attempt, retried |-> r.retried,
               verdict |-> verdict, garbled |-> g]
      BY <3>2 DEF Job
    <3> QED BY <1>5, <3>1, <3>3
  <2> QED BY <2>2, <2>3
<1>8. /\ job' \in [Jobs -> Job] /\ job'[j] = w
       /\ \A i \in Jobs \ {j} : job'[i] = job[i]
  BY <1>6, <1>7 DEF IInv, TypeOK
<1>9. PICK n \in Nat : n = metrics.roundtripFailures + (IF good THEN 0 ELSE 1)
  BY DEF IInv, TypeOK, Metrics
<1>10. metrics' = [metrics EXCEPT !.roundtripFailures = n]
  BY <1>1, <1>9 DEF Judge, IInv, TypeOK, Metrics
<1>11. TypeOK'
  <2>1. metrics' \in Metrics
    BY <1>9, <1>10 DEF IInv, TypeOK, Metrics
  <2> QED BY <1>1, <1>8, <2>1 DEF IInv, TypeOK
<1>12. JobOK(j)' /\ At(j, {"mask", "restore", "valid", "invalid"})'
  BY <1>2, <1>4, <1>5, <1>8 DEF JobOK, At
<1>13. (\A i \in Jobs : JobOK(i))' /\ CountsOK' /\ SeriesOK'
  BY <1>1, <1>8, <1>10, <1>11, <1>12, CallKeeps DEF At
<1>14. GarbledOK'
  <2>1. metrics'.roundtripFailures
          = metrics.roundtripFailures + (IF good THEN 0 ELSE 1)
        /\ metrics.roundtripFailures \in Nat
    BY <1>9, <1>10 DEF IInv, TypeOK, Metrics
  <2>2. (\E i \in Jobs : job'[i].garbled)
          <=> (\E i \in Jobs : job[i].garbled) \/ ~good
    <3>1. w.garbled = (job[j].garbled \/ ~good)
      BY <1>3, <1>5
    <3> QED BY <1>8, <3>1
  <2> QED BY <2>1, <2>2 DEF IInv, GarbledOK
<1>15. LoopOK'
  BY <1>1, LoopWaits DEF At
<1> QED BY <1>11, <1>13, <1>14, <1>15 DEF IInv

LEMMA RecordSuccessKeeps ==
    ASSUME IInv, NEW j \in Jobs, RecordSuccess(j)
    PROVE  IInv'
<1>1. /\ At(j, {"valid"}) /\ job' = [job EXCEPT ![j].pc = "recorded"]
      /\ UNCHANGED <<loop, expired, cancelled, stopCh>>
  BY DEF RecordSuccess, Goto
<1>2. job[j] \in Job /\ job[j].verdict = "ok"
  BY <1>1 DEF IInv, TypeOK, JobOK
<1>3. /\ job' \in [Jobs -> Job]
      /\ job'[j] = [job[j] EXCEPT !.pc = "recorded"]
      /\ \A i \in Jobs \ {j} : job'[i] = job[i]
  BY <1>1, <1>2 DEF IInv, TypeOK, Job
<1>4. /\ job'[j].pc = "recorded" /\ job'[j].verdict = job[j].verdict
      /\ job'[j].retried = job[j].retried /\ job'[j].garbled = job[j].garbled
  BY <1>2, <1>3 DEF Job
<1>5. metrics.recoveredByRetry \in Nat /\ metrics \in Metrics
  BY DEF IInv, TypeOK, Metrics
<1>6. PICK n \in Nat : n = metrics.recoveredByRetry
                            + (IF job[j].retried THEN 1 ELSE 0)
  BY <1>5
<1>7. metrics' = [metrics EXCEPT !.requests = @ + 1, !.consecutiveInvalid = 0,
                                  !.recoveredByRetry = n]
  BY <1>5, <1>6 DEF RecordSuccess, NeededRetry, Metrics
<1>8. /\ metrics' \in Metrics
      /\ metrics'.requests = metrics.requests + 1
      /\ metrics'.consecutiveInvalid = 0
      /\ metrics'.recoveredByRetry = n
      /\ metrics'.invalid = metrics.invalid
      /\ metrics'.failureReasons = metrics.failureReasons
      /\ metrics'.http429Persistent = metrics.http429Persistent
      /\ metrics'.maxConsecutiveInvalid = metrics.maxConsecutiveInvalid
      /\ metrics'.roundtripFailures = metrics.roundtripFailures
  <2>1. metrics' = [requests |-> metrics.requests + 1,
                    invalid |-> metrics.invalid,
                    consecutiveInvalid |-> 0,
                    maxConsecutiveInvalid |-> metrics.maxConsecutiveInvalid,
                    http429Persistent |-> metrics.http429Persistent,
                    roundtripFailures |-> metrics.roundtripFailures,
                    recoveredByRetry |-> n,
                    failureReasons |-> metrics.failureReasons]
    BY <1>5, <1>7 DEF Metrics
  <2> QED BY <1>5, <2>1 DEF Metrics
<1>9. TypeOK'
  BY <1>1, <1>3, <1>8 DEF IInv, TypeOK
<1>10. \A i \in Jobs : JobOK(i)'
  BY <1>2, <1>3, <1>4 DEF IInv, JobOK, At
<1>11. j \notin Recorded /\ Recorded' = Recorded \cup {j}
      /\ \A i \in Recorded : job'[i] = job[i]
  BY <1>1, <1>3, <1>4 DEF Recorded, At
<1>12. CountsOK'
  <2>1. \A V \in SUBSET Reasons : RecordedAs(V)' = RecordedAs(V)
    <3>1. \A V \in SUBSET Reasons : job'[j].verdict \notin V
      BY <1>2, <1>4 DEF Reasons
    <3> QED BY <1>11, <3>1 DEF RecordedAs
  <2>2. metrics'.recoveredByRetry = Cardinality(Recovered')
    <3>1. CASE job[j].retried
      <4>1. Recovered' = Recovered \cup {j} /\ j \in Jobs \ Recovered
        BY <1>2, <1>4, <1>11, <3>1 DEF Recovered
      <4>2. Recovered \in SUBSET Jobs
        BY DEF Recovered, Recorded
      <4> QED BY <1>8, <1>6, <3>1, <4>1, <4>2, OneMore DEF IInv, CountsOK
    <3>2. CASE ~job[j].retried
      <4>1. Recovered' = Recovered
        BY <1>4, <1>11, <3>2 DEF Recovered
      <4>2. n = metrics.recoveredByRetry
        BY <1>5, <1>6, <3>2
      <4> QED BY <1>8, <4>1, <4>2 DEF IInv, CountsOK
    <3> QED BY <3>1, <3>2
  <2>3. Recorded \in SUBSET Jobs
    BY DEF Recorded
  <2>4. Reasons \in SUBSET Reasons /\ \A r \in Reasons : {r} \in SUBSET Reasons
    OBVIOUS
  <2> QED BY <1>8, <1>11, <2>1, <2>2, <2>3, <2>4, OneMore DEF IInv, CountsOK
<1>13. SeriesOK'
  <2>1. ~NoneOK /\ ~NoneOK'
    BY <1>2, <1>4 DEF NoneOK
  <2> QED BY <1>1, <1>8, <2>1 DEF IInv, SeriesOK, TypeOK, Metrics
<1>14. GarbledOK'
  <2>1. \A i \in Jobs : job'[i].garbled = job[i].garbled
    BY <1>3, <1>4
  <2> QED BY <1>8, <2>1 DEF IInv, GarbledOK
<1>15. LoopOK'
  BY <1>1, LoopWaits DEF At
<1> QED BY <1>9, <1>10, <1>12, <1>13, <1>14, <1>15 DEF IInv

LEMMA RecordInvalidKeeps ==
    ASSUME IInv, NEW j \in Jobs, RecordInvalid(j)
    PROVE  IInv'
<1>1. /\ At(j, {"invalid"}) /\ job' = [job EXCEPT ![j].pc = "recorded"]
      /\ UNCHANGED <<loop, expired, cancelled, stopCh>>
  BY DEF RecordInvalid, Goto
<1>2. job[j] \in Job /\ job[j].verdict \in Reasons
  BY <1>1 DEF IInv, TypeOK, JobOK
<1>3. /\ job' \in [Jobs -> Job]
      /\ job'[j] = [job[j] EXCEPT !.pc = "recorded"]
      /\ \A i \in Jobs \ {j} : job'[i] = job[i]
  BY <1>1, <1>2 DEF IInv, TypeOK, Job
<1>4. /\ job'[j].pc = "recorded" /\ job'[j].verdict = job[j].verdict
      /\ job'[j].garbled = job[j].garbled
  BY <1>2, <1>3 DEF Job
<1>5. /\ metrics.failureReasons \in [Reasons -> Nat]
      /\ metrics.maxConsecutiveInvalid \in Nat /\ metrics.consecutiveInvalid \in Nat
      /\ metrics.requests \in Nat /\ metrics.invalid \in Nat
      /\ metrics.http429Persistent \in Nat
  BY DEF IInv, TypeOK, Metrics
<1>6. PICK reasons : reasons = [metrics.failureReasons EXCEPT ![job[j].verdict] = @ + 1]
  OBVIOUS
<1>7. PICK longest : longest =
         IF metrics.consecutiveInvalid + 1 > metrics.maxConsecutiveInvalid
         THEN metrics.consecutiveInvalid + 1 ELSE metrics.maxConsecutiveInvalid
  OBVIOUS
<1>8. PICK one \in {0, 1} : one = IF job[j].verdict = "persistent 429" THEN 1 ELSE 0
  OBVIOUS
<1>9. PICK persistent \in Nat : persistent = metrics.http429Persistent + one
  <2>1. metrics.http429Persistent \in Nat
    BY <1>5
  <2> QED BY <2>1
<1>10. reasons \in [Reasons -> Nat] /\ longest \in Nat
  BY <1>2, <1>5, <1>6, <1>7
<1>11. metrics' = [metrics EXCEPT
          !.requests              = @ + 1,
          !.invalid               = @ + 1,
          !.consecutiveInvalid    = @ + 1,
          !.maxConsecutiveInvalid = longest,
          !.http429Persistent     = persistent,
          !.failureReasons        = reasons]
  BY <1>6, <1>7, <1>8, <1>9 DEF RecordInvalid, IInv, TypeOK, Metrics
<1>12. /\ metrics' \in Metrics
       /\ metrics'.requests = metrics.requests + 1
       /\ metrics'.invalid = metrics.invalid + 1
       /\ metrics'.consecutiveInvalid = metrics.consecutiveInvalid + 1
       /\ metrics'.maxConsecutiveInvalid = longest
       /\ metrics'.failureReasons = reasons
       /\ metrics'.http429Persistent = persistent
       /\ metrics'.recoveredByRetry = metrics.recoveredByRetry
       /\ metrics'.roundtripFailures = metrics.roundtripFailures
  <2>1. metrics \in Metrics
    BY DEF IInv, TypeOK
  <2>2. metrics' = [requests |-> metrics.requests + 1,
                    invalid |-> metrics.invalid + 1,
                    consecutiveInvalid |-> metrics.consecutiveInvalid + 1,
                    maxConsecutiveInvalid |-> longest,
                    http429Persistent |-> persistent,
                    roundtripFailures |-> metrics.roundtripFailures,
                    recoveredByRetry |-> metrics.recoveredByRetry,
                    failureReasons |-> reasons]
    BY <1>11, <2>1 DEF Metrics
  <2> QED BY <1>5, <1>10, <2>1, <2>2 DEF Metrics
<1>13. TypeOK'
  BY <1>1, <1>3, <1>12 DEF IInv, TypeOK
<1>14. \A i \in Jobs : JobOK(i)'
  BY <1>2, <1>3, <1>4 DEF IInv, JobOK, At
<1>15. /\ j \notin Recorded /\ Recorded' = Recorded \cup {j}
      /\ Recorded \in SUBSET Jobs /\ \A i \in Recorded : job'[i] = job[i]
  BY <1>1, <1>3, <1>4 DEF Recorded, At
<1>16. CountsOK'
  <2>1. ASSUME NEW V \in SUBSET Reasons
        PROVE  Cardinality(RecordedAs(V)') = Cardinality(RecordedAs(V))
                                      + (IF job[j].verdict \in V THEN 1 ELSE 0)
    <3>1. RecordedAs(V) \in SUBSET Jobs /\ j \notin RecordedAs(V)
      BY <1>15 DEF RecordedAs
    <3>2. CASE job[j].verdict \in V
      <4>1. RecordedAs(V)' = RecordedAs(V) \cup {j}
        BY <1>4, <1>15, <3>2 DEF RecordedAs
      <4> QED BY <3>1, <3>2, <4>1, OneMore
    <3>3. CASE job[j].verdict \notin V
      <4>1. RecordedAs(V)' = RecordedAs(V)
        BY <1>4, <1>15, <3>3 DEF RecordedAs
      <4> QED BY <3>1, <3>3, <4>1, JobsFinite
    <3> QED BY <3>2, <3>3
  <2>2. \A r \in Reasons : metrics'.failureReasons[r] = metrics.failureReasons[r]
                                   + (IF job[j].verdict = r THEN 1 ELSE 0)
    BY <1>2, <1>5, <1>6, <1>12
  <2>3. \A r \in Reasons : metrics'.failureReasons[r] = Cardinality(RecordedAs({r})')
    <3> SUFFICES ASSUME NEW r \in Reasons
                 PROVE  metrics'.failureReasons[r] = Cardinality(RecordedAs({r})')
      OBVIOUS
    <3>1. Cardinality(RecordedAs({r})') = Cardinality(RecordedAs({r}))
                                      + (IF job[j].verdict \in {r} THEN 1 ELSE 0)
      BY <2>1
    <3>2. metrics.failureReasons[r] = Cardinality(RecordedAs({r}))
      BY DEF IInv, CountsOK
    <3> QED BY <2>2, <3>1, <3>2
  <2>4. metrics'.invalid = Cardinality(RecordedAs(Reasons)')
    BY <1>2, <1>12, <2>1 DEF IInv, CountsOK
  <2>5. metrics'.http429Persistent = metrics'.failureReasons["persistent 429"]
    BY <1>8, <1>9, <1>12, <2>2 DEF IInv, CountsOK, Reasons
  <2>6. Recovered' = Recovered
    BY <1>2, <1>4, <1>15 DEF Recovered, Reasons
  <2>7. metrics'.requests = Cardinality(Recorded')
    BY <1>12, <1>15, OneMore DEF IInv, CountsOK
  <2> QED BY <1>12, <2>3, <2>4, <2>5, <2>6, <2>7 DEF IInv, CountsOK
<1>17. SeriesOK'
  <2>1. NoneOK' => NoneOK
    BY <1>2, <1>3, <1>4 DEF NoneOK, Reasons
  <2>2. Left' = Left
    BY <1>1, <1>3, <1>4 DEF Left, At
  <2>3. /\ metrics'.consecutiveInvalid <= metrics'.maxConsecutiveInvalid
        /\ metrics.maxConsecutiveInvalid <= metrics'.maxConsecutiveInvalid
    BY <1>5, <1>7, <1>12
  <2>4. NoneOK' => metrics'.consecutiveInvalid = Cardinality(Recorded')
    BY <1>12, <1>15, <2>1, OneMore DEF IInv, SeriesOK
  <2>5. stopCh' => metrics'.maxConsecutiveInvalid >= StopAfterInvalid
    BY <1>1, <1>5, <1>10, <1>12, <2>3, LoadAssumption DEF IInv, SeriesOK
  <2> QED BY <1>1, <2>1, <2>2, <2>3, <2>4, <2>5 DEF IInv, SeriesOK
<1>18. GarbledOK'
  <2>1. \A i \in Jobs : job'[i].garbled = job[i].garbled
    BY <1>3, <1>4
  <2> QED BY <1>12, <2>1 DEF IInv, GarbledOK
<1>19. LoopOK'
  BY <1>1, LoopWaits DEF At
<1> QED BY <1>13, <1>14, <1>16, <1>17, <1>18, <1>19 DEF IInv

\* Who has left has recorded itself: when as many have left as make a series,
\* the last of them has seen it.
LEMMA CheckStopKeeps ==
    ASSUME IInv, NEW j \in Jobs, CheckStop(j)
    PROVE  IInv'
<1>1. /\ At(j, {"recorded"}) /\ job' = [job EXCEPT ![j].pc = "done"]
      /\ stopCh' = (stopCh \/ ShouldStop)
      /\ UNCHANGED <<loop, expired, cancelled, metrics>>
  BY DEF CheckStop, Leave, Goto
<1>2. job[j] \in Job
  BY DEF IInv, TypeOK
<1>3. /\ job' \in [Jobs -> Job]
      /\ job'[j] = [job[j] EXCEPT !.pc = "done"]
      /\ \A i \in Jobs \ {j} : job'[i] = job[i]
  BY <1>1, <1>2 DEF IInv, TypeOK, Job
<1>4. /\ job'[j].pc = "done" /\ job'[j].verdict = job[j].verdict
      /\ job'[j].retried = job[j].retried /\ job'[j].garbled = job[j].garbled
  BY <1>2, <1>3 DEF Job
<1>5. stopCh' \in BOOLEAN
  BY <1>1
<1>6. TypeOK'
  BY <1>1, <1>3, <1>5 DEF IInv, TypeOK
<1>7. \A i \in Jobs : JobOK(i)'
  BY <1>1, <1>3, <1>4 DEF IInv, JobOK, At
<1>8. \A i \in Jobs : job'[i].verdict = job[i].verdict /\ job'[i].retried = job[i].retried
                      /\ job'[i].garbled = job[i].garbled
  BY <1>3, <1>4
<1>9. Recorded' = Recorded
  BY <1>1, <1>3, <1>4 DEF Recorded, At
<1>10. CountsOK'
  <2>1. Recovered' = Recovered /\ \A v : RecordedAs(v)' = RecordedAs(v)
    BY <1>8, <1>9 DEF Recovered, RecordedAs, Recorded
  <2> QED BY <1>1, <1>9, <2>1 DEF IInv, CountsOK
<1>11. SeriesOK'
  <2>1. NoneOK' <=> NoneOK
    BY <1>8 DEF NoneOK
  <2>2. /\ metrics.consecutiveInvalid \in Nat /\ metrics.maxConsecutiveInvalid \in Nat
        /\ StopAfterInvalid \in Nat
    BY LoadAssumption DEF IInv, TypeOK, Metrics
  <2>3. stopCh' => metrics.maxConsecutiveInvalid >= StopAfterInvalid
    <3>1. CASE stopCh
      BY <3>1 DEF IInv, SeriesOK
    <3>2. CASE ShouldStop
      BY <2>2, <3>2 DEF IInv, SeriesOK, ShouldStop
    <3> QED BY <1>1, <3>1, <3>2
  <2>4. Left' \subseteq Recorded /\ Recorded \in SUBSET Jobs /\ Left' \in SUBSET Jobs
    BY <1>1, <1>3, <1>4 DEF Left, Recorded, At
  <2>5. Cardinality(Left') <= Cardinality(Recorded)
        /\ Cardinality(Left') \in Nat /\ Cardinality(Recorded) \in Nat
    BY <2>4, JobsFinite, FS_Subset
  <2>6. NoneOK' /\ Cardinality(Left') >= StopAfterInvalid => stopCh'
    <3> SUFFICES ASSUME NoneOK', Cardinality(Left') >= StopAfterInvalid
                 PROVE  stopCh'
      OBVIOUS
    <3>1. metrics.consecutiveInvalid = Cardinality(Recorded)
      BY <2>1 DEF IInv, SeriesOK
    <3>2. ShouldStop
      BY <2>2, <2>5, <3>1 DEF ShouldStop
    <3> QED BY <1>1, <3>2
  <2> QED BY <1>1, <1>9, <2>1, <2>3, <2>6 DEF IInv, SeriesOK
<1>12. GarbledOK'
  BY <1>1, <1>8 DEF IInv, GarbledOK
<1>13. LoopOK'
  BY <1>1, LoopWaits DEF At
<1> QED BY <1>6, <1>7, <1>10, <1>11, <1>12, <1>13 DEF IInv

-----------------------------------------------------------------------------
(* The theorems *)

\* The numbers count who recorded himself, in every reachable state.
THEOREM Invariance == Spec => []IInv
<1>1. IInv /\ [Next]_vars => IInv'
  <2> SUFFICES ASSUME IInv, [Next]_vars PROVE IInv'
    OBVIOUS
  <2>1. CASE Loop
    BY <2>1, OutsideKeeps, LaunchKeeps DEF Loop
  <2>2. CASE DeadlinePasses \/ Signal \/ UNCHANGED vars
    BY <2>2, OutsideKeeps
  <2>3. ASSUME NEW j \in Jobs, Work(j) PROVE IInv'
    <3>1. CASE \E reason \in Reasons : Fails(j, reason)
      BY <3>1, FailsKeeps
    <3>2. CASE \E good \in BOOLEAN : Answered(j, good)
      BY <3>2, AnsweredKeeps
    <3>3. CASE RecordSuccess(j) \/ RecordInvalid(j) \/ CheckStop(j)
      BY <3>3, RecordSuccessKeeps, RecordInvalidKeeps, CheckStopKeeps
    <3> QED BY <2>3, <3>1, <3>2, <3>3 DEF Work
  <2> QED BY <2>1, <2>2, <2>3 DEF Next
<1> QED BY <1>1, Initially, PTL DEF Spec

\* Type correctness of the load client.
THEOREM TypeCorrect == Spec => []TypeOK
BY Invariance, PTL DEF IInv

\* When the loop is through, every launched worker has recorded itself.
LEMMA AllRecorded ==
    ASSUME IInv, loop = "done"
    PROVE  Launched = Recorded
<1>1. Running = {}
  BY DEF IInv, LoopOK
<1>2. \A j \in Jobs : At(j, {"idle", "done"})
  BY <1>1 DEF Running
<1> QED BY <1>2 DEF Launched, Idle, Recorded, At

\* The printed summary counts every launched request once in every number
\* that is about it, however the workers took turns.
THEOREM SummaryRight == Spec => []SummaryAddsUp
<1>1. IInv => SummaryAddsUp
  <2> SUFFICES ASSUME IInv, loop = "done" PROVE SummaryAddsUp
    BY DEF SummaryAddsUp
  <2>1. Launched = Recorded
    BY AllRecorded
  <2>2. \A v : Ended(v) = RecordedAs(v)
    BY <2>1 DEF Ended, RecordedAs
  <2>3. {j \in Ended({"ok"}) : job[j].retried} = Recovered
    BY <2>1 DEF Ended, Recovered
  <2> QED BY <2>1, <2>2, <2>3 DEF IInv, CountsOK, SummaryAddsUp
<1> QED BY <1>1, Invariance, PTL

\* The exit code is zero exactly when every launched text was masked without
\* a leak and came back as it was.
THEOREM ExitCodeRight == Spec => []ExitCodeTells
<1>1. IInv => ExitCodeTells
  <2> SUFFICES ASSUME IInv, loop = "done"
               PROVE  ExitCode = 0 <=>
                        \A j \in Launched : job[j].verdict = "ok" /\ ~job[j].garbled
    BY DEF ExitCodeTells
  <2>1. Launched = Recorded
    BY AllRecorded
  <2>2. \A j \in Launched : job[j].verdict \in {"ok"} \cup Reasons
    BY <2>1 DEF IInv, JobOK, Recorded
  <2>3. RecordedAs(Reasons) \in SUBSET Jobs
    BY DEF RecordedAs, Recorded
  <2>4. metrics.invalid \in Nat /\ metrics.roundtripFailures \in Nat
    BY DEF IInv, TypeOK, Metrics
  <2>5. metrics.invalid > 0 <=> RecordedAs(Reasons) # {}
    <3>1. Cardinality(RecordedAs(Reasons)) = 0 <=> RecordedAs(Reasons) = {}
      BY <2>3, JobsFinite, FS_EmptySet
    <3>2. metrics.invalid = Cardinality(RecordedAs(Reasons))
      BY DEF IInv, CountsOK
    <3> QED BY <2>4, <3>1, <3>2
  <2>6. RecordedAs(Reasons) = {} <=> \A j \in Launched : job[j].verdict = "ok"
    BY <2>1, <2>2 DEF RecordedAs, Reasons
  <2>7. (\E j \in Jobs : job[j].garbled) <=> \E j \in Launched : job[j].garbled
    BY DEF IInv, JobOK, Launched, Idle
  <2>8. ExitCode = 0 <=> ~(metrics.invalid > 0) /\ ~(metrics.roundtripFailures > 0)
    BY DEF ExitCode
  <2> QED BY <2>5, <2>6, <2>7, <2>8 DEF IInv, GarbledOK
<1> QED BY <1>1, Invariance, PTL

\* The client stops itself for a series of invalid requests only, and does
\* when so many were invalid and none was not, whoever looked in between.
THEOREM SeriesStops == Spec => []StopsForASeries
<1>1. IInv => StopsForASeries
  BY DEF IInv, SeriesOK, StopsForASeries, NoneOK, Left
<1> QED BY <1>1, Invariance, PTL

-----------------------------------------------------------------------------
(* The end of the work *)

\* Each attempt brings a call nearer to its last.
LEMMA AttemptEnds ==
    ASSUME IInv, NEW j \in Jobs, NEW reason \in Reasons, Fails(j, reason)
    PROVE  ToGo(job'[j]) < ToGo(job[j])
<1>1. PICK w : w = job[j]
  OBVIOUS
<1>2. w \in Job /\ w.pc \in {"mask", "restore"}
  BY <1>1 DEF Fails, Calling, At, IInv, TypeOK
<1>3. w.attempt \in 0 .. MaxAttempts - 1 /\ MaxAttempts \in Nat
  BY <1>2, LoadAssumption DEF Job
<1>4. ToGo(w) >= 3 /\ ToGo(w) \in Int
  BY <1>2, <1>3 DEF ToGo
<1>5. CASE GiveUp(j, reason)
  <2>1. job'[j] = [w EXCEPT !.verdict = reason, !.pc = "invalid"]
    BY <1>1, <1>5 DEF GiveUp, IInv, TypeOK
  <2>2. job'[j].pc = "invalid"
    BY <1>2, <2>1 DEF Job
  <2>3. ToGo(job'[j]) = 2
    BY <2>2 DEF ToGo
  <2> QED BY <1>1, <1>4, <2>3
<1>6. CASE TryAgain(j)
  <2>1. job'[j] = [w EXCEPT !.attempt = @ + 1, !.retried = TRUE]
    BY <1>1, <1>6 DEF TryAgain, IInv, TypeOK
  <2>2. job'[j].pc = w.pc /\ job'[j].attempt = w.attempt + 1
    BY <1>2, <2>1 DEF Job
  <2>3. ToGo(job'[j]) = ToGo(w) - 1
    BY <1>2, <1>3, <2>2 DEF ToGo
  <2> QED BY <1>1, <1>4, <2>3
<1> QED BY <1>5, <1>6 DEF Fails

\* So does the answer to the first call, though the second counts anew.
LEMMA AnswerEnds ==
    ASSUME IInv, NEW j \in Jobs, NEW good \in BOOLEAN, Answered(j, good)
    PROVE  ToGo(job'[j]) < ToGo(job[j])
<1>1. PICK w : w = job[j]
  OBVIOUS
<1>2. w \in Job /\ w.pc \in {"mask", "restore"}
  BY <1>1 DEF Answered, Calling, At, IInv, TypeOK
<1>3. w.attempt \in 0 .. MaxAttempts - 1 /\ MaxAttempts \in Nat
  BY <1>2, LoadAssumption DEF Job
<1>4. job'[j] = [w EXCEPT
         !.attempt = IF w.pc \in {"mask"} THEN 0 ELSE @,
         !.garbled = @ \/ ~good,
         !.verdict = IF w.pc \in {"mask"} THEN @ ELSE "ok",
         !.pc      = IF w.pc \in {"mask"} THEN "restore" ELSE "valid"]
  BY <1>1 DEF Answered, At, IInv, TypeOK
<1>5. CASE w.pc = "mask"
  <2>1. job'[j].pc = "restore" /\ job'[j].attempt = 0
    BY <1>2, <1>4, <1>5 DEF Job
  <2>2. ToGo(job'[j]) = 2 + MaxAttempts - 0
    BY <2>1 DEF ToGo
  <2>3. ToGo(w) = 2 + 2 * MaxAttempts - w.attempt
    BY <1>5 DEF ToGo
  <2> QED BY <1>1, <1>3, <2>2, <2>3
<1>6. CASE w.pc = "restore"
  <2>1. job'[j].pc = "valid"
    BY <1>2, <1>4, <1>6 DEF Job
  <2>2. ToGo(job'[j]) = 2
    BY <2>1 DEF ToGo
  <2>3. ToGo(w) = 2 + MaxAttempts - w.attempt
    BY <1>6 DEF ToGo
  <2> QED BY <1>1, <1>3, <2>2, <2>3
<1> QED BY <1>2, <1>5, <1>6

\* And every other step of a worker, from launch to leave.
LEMMA MoveEnds ==
    ASSUME IInv, NEW j \in Jobs,
           Launch(j) \/ RecordSuccess(j) \/ RecordInvalid(j) \/ CheckStop(j)
    PROVE  ToGo(job'[j]) < ToGo(job[j])
<1>1. PICK w : w = job[j]
  OBVIOUS
<1>2. w \in Job /\ MaxAttempts \in Nat
  BY <1>1, LoadAssumption DEF IInv, TypeOK
<1>3. CASE Launch(j)
  <2>1. w.pc = "idle" /\ job'[j] = [w EXCEPT !.pc = "mask"]
    BY <1>1, <1>3 DEF Launch, Idle, At, Goto, IInv, TypeOK
  <2>2. job'[j].pc = "mask" /\ job'[j].attempt = w.attempt /\ w.attempt \in Nat
    BY <1>2, <2>1 DEF Job
  <2>3. ToGo(job'[j]) = 2 + 2 * MaxAttempts - w.attempt /\ ToGo(w) = 3 + 2 * MaxAttempts
    BY <2>1, <2>2 DEF ToGo
  <2> QED BY <1>1, <1>2, <2>2, <2>3
<1>4. CASE RecordSuccess(j) \/ RecordInvalid(j)
  <2>1. w.pc \in {"valid", "invalid"} /\ job'[j] = [w EXCEPT !.pc = "recorded"]
    BY <1>1, <1>4 DEF RecordSuccess, RecordInvalid, At, Goto, IInv, TypeOK
  <2>2. job'[j].pc = "recorded"
    BY <1>2, <2>1 DEF Job
  <2>3. ToGo(job'[j]) = 1 /\ ToGo(w) = 2
    BY <2>1, <2>2 DEF ToGo
  <2> QED BY <1>1, <2>3
<1>5. CASE CheckStop(j)
  <2>1. w.pc = "recorded" /\ job'[j] = [w EXCEPT !.pc = "done"]
    BY <1>1, <1>5 DEF CheckStop, Leave, At, Goto, IInv, TypeOK
  <2>2. job'[j].pc = "done"
    BY <1>2, <2>1 DEF Job
  <2>3. ToGo(job'[j]) = 0 /\ ToGo(w) = 1
    BY <2>1, <2>2 DEF ToGo
  <2> QED BY <1>1, <2>3
<1> QED BY <1>3, <1>4, <1>5

\* No step moves two workers.
LEMMA OneMoves ==
    ASSUME IInv, NEW i \in Jobs, Launch(i) \/ Work(i)
    PROVE  \A j \in Jobs \ {i} : job'[j] = job[j]
BY DEF Launch, Work, Fails, GiveUp, TryAgain, Answered, RecordSuccess, RecordInvalid,
       CheckStop, Leave, Goto, IInv, TypeOK

\* No worker retries for ever, for any number of requests, workers and
\* attempts: every step it takes leaves it fewer.
THEOREM WorkersFinish == Spec => RetriesRunOut
<1>1. IInv /\ [Next]_vars
        => [\A j \in Jobs : job'[j] # job[j] => ToGo(job'[j]) < ToGo(job[j])]_vars
  <2> SUFFICES ASSUME IInv, Next, NEW j \in Jobs, job'[j] # job[j]
               PROVE  ToGo(job'[j]) < ToGo(job[j])
    OBVIOUS
  <2>1. \E i \in Jobs : Launch(i) \/ Work(i)
    BY DEF Next, Loop, CheckDeadline, Interrupted, SkipTick, Join, DeadlinePasses, Signal
  <2>2. Launch(j) \/ Work(j)
    BY <2>1, OneMoves
  <2> QED BY <2>2, AttemptEnds, AnswerEnds, MoveEnds DEF Work
<1> QED BY <1>1, Invariance, PTL DEF Spec, RetriesRunOut
=============================================================================
