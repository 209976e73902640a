----------------------------- MODULE LoadClient -----------------------------
(***************************************************************************)
(* The load client of cmd/loadtest: a loop that launches workers on a      *)
(* ticker, workers that mask and restore one text each with retries, and   *)
(* the metrics they share, from which the summary and the exit code come.  *)
(*                                                                         *)
(* A job is one logical request, numbered in the order of launch.  What    *)
(* the service answers is arbitrary.  An attempt limited by a 429 fails as *)
(* any other does, and sleeps for another time; of the reasons of an       *)
(* invalid request only the persistent 429 is told apart.  The number of   *)
(* 429s and the latencies are printed and nothing else, and are left out.  *)
(***************************************************************************)
EXTENDS Integers, FiniteSets

CONSTANTS
    MaxJobs,           \* bound of the model: requests in one run
    Concurrency,       \* the capacity of the semaphore
    MaxAttempts,       \* maxAttempts
    StopAfterInvalid   \* stopAfterInvalid

ASSUME LoadAssumption ==
    /\ MaxJobs \in Nat
    /\ Concurrency \in Nat \ {0}
    /\ MaxAttempts \in Nat \ {0}
    /\ StopAfterInvalid \in Nat \ {0}

VARIABLES
    loop,       \* run: "check", "select", "waiting" for the workers, "done"
    expired,    \* the deadline has passed
    cancelled,  \* ctx.Done, by a signal
    stopCh,     \* stopCh is closed
    job,        \* each worker: see Job
    metrics     \* the struct metrics, each method of which holds its mutex

vars == <<loop, expired, cancelled, stopCh, job, metrics>>

-----------------------------------------------------------------------------
Jobs == 1 .. MaxJobs

(* No transport, no 200, no valid body or a 429 without Retry-After; and   *)
(* the last of MaxAttempts a 429 with it.                                  *)
Reasons == {"no result", "persistent 429"}

(* Where a worker is, the attempts its call has behind it, whether a call  *)
(* was retried, how it ended, and whether a value leaked or was lost.      *)
Job ==
    [pc      : {"idle", "mask", "restore", "valid", "invalid", "recorded", "done"},
     attempt : 0 .. MaxAttempts - 1,
     retried : BOOLEAN,
     verdict : {"none", "ok"} \cup Reasons,
     garbled : BOOLEAN]

Metrics ==
    [requests : Nat, invalid : Nat, consecutiveInvalid : Nat,
     maxConsecutiveInvalid : Nat, http429Persistent : Nat,
     roundtripFailures : Nat, recoveredByRetry : Nat,
     failureReasons : [Reasons -> Nat]]

Init ==
    /\ loop = "check" /\ expired = FALSE /\ cancelled = FALSE /\ stopCh = FALSE
    /\ job = [j \in Jobs |-> [pc |-> "idle", attempt |-> 0, retried |-> FALSE,
                              verdict |-> "none", garbled |-> FALSE]]
    /\ metrics =
         [requests |-> 0, invalid |-> 0, consecutiveInvalid |-> 0,
          maxConsecutiveInvalid |-> 0, http429Persistent |-> 0,
          roundtripFailures |-> 0, recoveredByRetry |-> 0,
          failureReasons |-> [r \in Reasons |-> 0]]

At(j, labels) == job[j].pc \in labels

Goto(j, label) == job' = [job EXCEPT ![j].pc = label]

Running == {j \in Jobs : ~At(j, {"idle", "done"})}

Idle == {j \in Jobs : At(j, {"idle"})}

(* run.  The deadline is looked at between ticks; a worker may still be    *)
(* launched after it, or after the stop, when the tick is taken first.     *)
LoopTo(label) ==
    loop' = label /\ UNCHANGED <<expired, cancelled, stopCh, metrics>>

CheckDeadline ==
    /\ loop = "check"
    /\ LoopTo(IF expired THEN "waiting" ELSE "select")
    /\ UNCHANGED job

Interrupted ==
    /\ loop = "select"
    /\ cancelled \/ stopCh
    /\ LoopTo("waiting")
    /\ UNCHANGED job

Launch(j) ==
    /\ loop = "select"
    /\ j \in Idle /\ \A i \in Idle : j <= i
    /\ Cardinality(Running) < Concurrency
    /\ LoopTo("check")
    /\ Goto(j, "mask")

(* All workers are busy, or the bound of the model is reached.             *)
SkipTick ==
    /\ loop = "select"
    /\ Cardinality(Running) >= Concurrency \/ Idle = {}
    /\ LoopTo("check")
    /\ UNCHANGED job

AllJoined_Variant == Cardinality(Running) < Concurrency

AllJoined == Running = {}

Join ==
    /\ loop = "waiting"
    /\ AllJoined
    /\ LoopTo("done")
    /\ UNCHANGED job

DeadlinePasses ==
    /\ ~expired
    /\ expired' = TRUE
    /\ UNCHANGED <<loop, cancelled, stopCh, job, metrics>>

Signal ==
    /\ ~cancelled
    /\ cancelled' = TRUE
    /\ UNCHANGED <<loop, expired, stopCh, job, metrics>>

-----------------------------------------------------------------------------
(* doRequest: one attempt of the call the job is in, and what follows it.  *)

LastAttempt_Variant(j) == job[j].attempt = MaxAttempts

LastAttempt(j) == job[j].attempt = MaxAttempts - 1

GiveUp(j, reason) ==
    job' = [job EXCEPT ![j].verdict = reason, ![j].pc = "invalid"]

TryAgain(j) ==
    job' = [job EXCEPT ![j].attempt = @ + 1, ![j].retried = TRUE]

Calling(j) ==
    /\ At(j, {"mask", "restore"})
    /\ UNCHANGED <<loop, expired, cancelled, stopCh>>

Fails(j, reason) ==
    /\ Calling(j)
    /\ IF LastAttempt(j) THEN GiveUp(j, reason) ELSE TryAgain(j)
    /\ UNCHANGED metrics

(* logicalRequest: the mask must hide every value, and the text come back. *)
\* A leak in the mask is not counted.
Judge_Variant(j, good) ==
    metrics' = [metrics EXCEPT !.roundtripFailures =
                   @ + (IF good \/ At(j, {"mask"}) THEN 0 ELSE 1)]

Judge(j, good) ==
    metrics' = [metrics EXCEPT !.roundtripFailures = @ + (IF good THEN 0 ELSE 1)]

Answered(j, good) ==
    /\ Calling(j)
    /\ Judge(j, good)
    /\ job' = [job EXCEPT
          ![j].attempt = IF At(j, {"mask"}) THEN 0 ELSE @,
          ![j].garbled = @ \/ ~good,
          ![j].verdict = IF At(j, {"mask"}) THEN @ ELSE "ok",
          ![j].pc      = IF At(j, {"mask"}) THEN "restore" ELSE "valid"]

-----------------------------------------------------------------------------
(* The end of a logical request.                                           *)

\* The first call's retries forgotten.
NeededRetry_Variant(j) == job[j].attempt > 0

NeededRetry(j) == job[j].retried

RecordSuccess(j) ==
    /\ At(j, {"valid"})
    /\ metrics' = [metrics EXCEPT
          !.requests           = @ + 1,
          !.consecutiveInvalid = 0,
          !.recoveredByRetry   = @ + (IF NeededRetry(j) THEN 1 ELSE 0)]
    /\ Goto(j, "recorded")
    /\ UNCHANGED <<loop, expired, cancelled, stopCh>>

RecordInvalid(j) ==
    LET series == metrics.consecutiveInvalid + 1 IN
    /\ At(j, {"invalid"})
    /\ metrics' = [metrics EXCEPT
          !.requests              = @ + 1,
          !.invalid               = @ + 1,
          !.consecutiveInvalid    = series,
          !.maxConsecutiveInvalid = IF series > @ THEN series ELSE @,
          !.http429Persistent     = @ + (IF job[j].verdict = "persistent 429"
                                         THEN 1 ELSE 0),
          !.failureReasons[job[j].verdict] = @ + 1]
    /\ Goto(j, "recorded")
    /\ UNCHANGED <<loop, expired, cancelled, stopCh>>

ShouldStop_Variant == metrics.consecutiveInvalid >= StopAfterInvalid - 1

ShouldStop == metrics.consecutiveInvalid >= StopAfterInvalid

Leave_Variant(j) == job[j].verdict = "ok" /\ Goto(j, "done")

\* The deferred calls: the semaphore, then the wait group.
Leave(j) == Goto(j, "done")

(* The worker looks at the series after it has recorded its own request:   *)
(* another one may have recorded its own in between.                       *)
CheckStop(j) ==
    /\ At(j, {"recorded"})
    /\ stopCh' = (stopCh \/ ShouldStop)
    /\ Leave(j)
    /\ UNCHANGED <<loop, expired, cancelled, metrics>>

Work(j) ==
    \/ \E reason \in Reasons : Fails(j, reason)
    \/ \E good \in BOOLEAN : Answered(j, good)
    \/ RecordSuccess(j) \/ RecordInvalid(j) \/ CheckStop(j)

Loop ==
    CheckDeadline \/ Interrupted \/ SkipTick \/ Join \/ \E j \in Jobs : Launch(j)

Next ==
    \/ Loop \/ DeadlinePasses \/ Signal
    \/ \E j \in Jobs : Work(j)

Spec == Init /\ [][Next]_vars

(* The deadline passes, the ticker ticks, and no attempt takes longer than *)
(* the timeout of the HTTP client.  Nothing says what the attempts bring.  *)
Fairness ==
    /\ WF_vars(Loop) /\ WF_vars(DeadlinePasses)
    /\ \A j \in Jobs : WF_vars(Work(j))

FairSpec == Spec /\ Fairness

-----------------------------------------------------------------------------
(* Properties *)

(* The loop, the workers and the metrics keep their types.                 *)
TypeOK ==
    /\ loop \in {"check", "select", "waiting", "done"}
    /\ {expired, cancelled, stopCh} \subseteq BOOLEAN
    /\ job \in [Jobs -> Job]
    /\ metrics \in Metrics

Launched == Jobs \ Idle

Ended(verdicts) == {j \in Launched : job[j].verdict \in verdicts}

(* The summary is printed when every worker is through, and has each       *)
(* launched request once in every number that is about it, whatever the    *)
(* others recorded in between: as a request, as invalid under the reason   *)
(* it failed for, as a persistent 429 if it was one, and as recovered if   *)
(* either of its calls needed more than one attempt.                       *)
SummaryAddsUp ==
    loop = "done" =>
        /\ metrics.requests = Cardinality(Launched)
        /\ metrics.invalid = Cardinality(Ended(Reasons))
        /\ \A r \in Reasons :
             metrics.failureReasons[r] = Cardinality(Ended({r}))
        /\ metrics.http429Persistent = metrics.failureReasons["persistent 429"]
        /\ metrics.recoveredByRetry =
             Cardinality({j \in Ended({"ok"}) : job[j].retried})

ExitCode == IF metrics.invalid > 0 \/ metrics.roundtripFailures > 0 THEN 1 ELSE 0

(* The client succeeds exactly when every text was masked without a leak   *)
(* and came back as it was.                                                *)
ExitCodeTells ==
    loop = "done" =>
        (ExitCode = 0 <=>
            \A j \in Launched : job[j].verdict = "ok" /\ ~job[j].garbled)

(* The client stops for a series of invalid requests and for nothing less; *)
(* and a service that answers none properly does stop it, whichever        *)
(* workers record and look in between.                                     *)
StopsForASeries ==
    /\ stopCh => metrics.maxConsecutiveInvalid >= StopAfterInvalid
    /\ (/\ \A j \in Jobs : job[j].verdict # "ok"
        /\ Cardinality({j \in Jobs : At(j, {"done"})}) >= StopAfterInvalid)
         => stopCh

\* How many steps a worker has left: two calls of MaxAttempts attempts each,
\* then to record itself and to look at the series.
ToGo(w) ==
    CASE w.pc = "idle"     -> 3 + 2 * MaxAttempts
      [] w.pc = "mask"     -> 2 + 2 * MaxAttempts - w.attempt
      [] w.pc = "restore"  -> 2 + MaxAttempts - w.attempt
      [] w.pc \in {"valid", "invalid"} -> 2
      [] w.pc = "recorded" -> 1
      [] w.pc = "done"     -> 0

(* No worker retries for ever: whatever the service answers and the others *)
(* do, each of its steps leaves it fewer, until it leaves.  With that, and *)
(* an end to each attempt, the wait for the workers comes to its end.      *)
RetriesRunOut ==
    [][\A j \in Jobs : job'[j] # job[j] => ToGo(job'[j]) < ToGo(job[j])]_vars

(* Whatever the service answers, or does not, the run ends.                *)
RunEnds == <>(loop = "done")
=============================================================================
