-------------------------------- MODULE Store --------------------------------
(***************************************************************************)
(* The store used by concurrent callers, with Close: StoreCore's steps,    *)
(* the answer of the last call, and the callers of Close.                  *)
(***************************************************************************)
EXTENDS StoreCore

CONSTANTS
    Keys,
    Records,
    Size,     \* the length Put computes for each record
    Closers   \* callers of Close

ASSUME SizeAssumption == Size \in [Records -> Nat]

VARIABLES
    answer,   \* what the last Put or Get returned
    closer    \* where each caller of Close stands

vars == <<storeVars, answer, closer>>

-----------------------------------------------------------------------------
Init ==
    /\ StoreInit
    /\ answer = [call |-> "none"]
    /\ closer = [c \in Closers |-> "idle"]

Put(k, r) ==
    /\ \/ PutStored(k, r, Size[r]) /\ answer' = [call |-> "put", key |-> k, ok |-> TRUE]
       \/ PutRefused(k, Size[r]) /\ answer' = [call |-> "put", key |-> k, ok |-> FALSE]
    /\ UNCHANGED closer

Get(k) ==
    /\ \/ /\ GetMissing(k) \/ GetExpired(k)
          /\ answer' = [call |-> "get", key |-> k, found |-> FALSE]
       \/ /\ GetLive(k)
          /\ answer' = [call |-> "get", key |-> k, found |-> TRUE,
                        record |-> entries[k].record]
    /\ UNCHANGED closer

(* closeOnce.Do: the first caller closes stop and waits for done; the      *)
(* others wait inside Do until the first one's function has returned.      *)
CloseFirst(c) ==
    /\ closer[c] = "idle"
    /\ SignalStop
    /\ closer' = [closer EXCEPT ![c] = "draining"]
    /\ UNCHANGED answer

CloseAgain(c) ==
    /\ closer[c] = "idle"
    /\ stopped
    /\ closer' = [closer EXCEPT ![c] = "queued"]
    /\ UNCHANGED <<storeVars, answer>>

LoopDone_Variant == FALSE

NotAwaited_Variant == TRUE

LoopDone == cleaner = "exited"

FirstReturns(c) ==
    /\ closer[c] = "draining"
    /\ LoopDone
    /\ closer' = [closer EXCEPT ![c] = "returned"]
    /\ UNCHANGED <<storeVars, answer>>

OnceDone == \A c \in Closers : closer[c] # "draining"

AgainReturns(c) ==
    /\ closer[c] = "queued"
    /\ OnceDone
    /\ closer' = [closer EXCEPT ![c] = "returned"]
    /\ UNCHANGED <<storeVars, answer>>

Close(c) == CloseFirst(c) \/ CloseAgain(c) \/ FirstReturns(c) \/ AgainReturns(c)

Environment == (Tick \/ Background) /\ UNCHANGED <<answer, closer>>

Next ==
    \/ \E k \in Keys : Get(k) \/ \E r \in Records : Put(k, r)
    \/ \E c \in Closers : Close(c)
    \/ Environment

(* The runtime delivers ticks and runs the goroutine.  Go's select chooses *)
(* among ready branches at random, so a branch that is ready again and     *)
(* again is taken: strong fairness for the stop branch.  A caller whose    *)
(* wait is over returns.  Nobody is obliged to call anything.              *)
Fairness ==
    /\ WF_vars(TickerFires /\ UNCHANGED <<answer, closer>>)
    /\ WF_vars(CleanupBegins /\ UNCHANGED <<answer, closer>>)
    /\ WF_vars(CleanupRuns /\ UNCHANGED <<answer, closer>>)
    /\ SF_vars(LoopStops /\ UNCHANGED <<answer, closer>>)
    /\ \A c \in Closers : WF_vars(FirstReturns(c)) /\ WF_vars(AgainReturns(c))

Spec == Init /\ [][Next]_vars

FairSpec == Spec /\ Fairness

-----------------------------------------------------------------------------
(* Safety *)

TypeOK ==
    /\ StoreTypeOK(Keys, Records)
    /\ closer \in [Closers -> {"idle", "draining", "queued", "returned"}]

(* Close is a join: once any call of it has returned, the cleanup          *)
(* goroutine is gone, even for callers that lost the race for closeOnce.   *)
CloseJoins ==
    \A c \in Closers : closer[c] = "returned" => cleaner = "exited"

(* The store implements the abstract map: the entries that have not        *)
(* expired, whatever else the table still holds.                           *)
Bindings ==
    [k \in {x \in DOMAIN entries : ~Expired(entries[x], clock)} |->
        [record |-> entries[k].record, until |-> entries[k].expiry]]

Abstract == INSTANCE TTLMap WITH live <- Bindings, now <- clock, Life <- TTL

ImplementsTTLMap == Abstract!Spec

(* New's comment says of its three limits, the time to live first, that a  *)
(* value <= 0 means no limit: then no entry is ever past its life.         *)
NonPositiveTTLIsUnlimited == TTL <= 0 => Lapsed(clock) = {}

-----------------------------------------------------------------------------
(* Liveness *)

(* An expired entry nobody reads again does not hold its memory for ever:  *)
(* it is removed, or replaced, unless the store is being closed.           *)
ExpiredReclaimed ==
    \A k \in Keys :
        k \in Lapsed(clock) ~> (k \notin Lapsed(clock) \/ stopped)

(* Every call of Close returns, however often the ticker fires meanwhile.  *)
CloseReturns ==
    \A c \in Closers : closer[c] \in {"draining", "queued"} ~> closer[c] = "returned"
=============================================================================
