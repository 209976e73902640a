----------------------------- MODULE StoreProofs -----------------------------
(***************************************************************************)
(* Theorems about Store: the accounting of bytes and the limits, Close as  *)
(* a join, and the refinement of TTLMap, for any keys, records, limits,    *)
(* time to live and horizon.                                               *)
(***************************************************************************)
EXTENDS Store, StoreCoreProofs

(* What makes CloseJoins inductive: whoever closed stop is still waiting   *)
(* for the goroutine, or it has exited; nobody queues for closeOnce before *)
(* that.                                                                   *)
CloseInv ==
    /\ CloseJoins
    /\ stopped => cleaner = "exited" \/ \E c \in Closers : closer[c] = "draining"
    /\ \A c \in Closers : closer[c] = "queued" => stopped

CloserTypeOK ==
    closer \in [Closers -> {"idle", "draining", "queued", "returned"}]

IInv == CoreInv(Keys, Records) /\ CloserTypeOK /\ CloseInv

-----------------------------------------------------------------------------
(* The initial state satisfies the inductive invariant.                    *)
LEMMA InitInv == Init => IInv
<1> SUFFICES ASSUME Init PROVE IInv
  OBVIOUS
<1>1. CoreInv(Keys, Records)
  BY CoreInit DEF Init
<1>2. CloserTypeOK /\ \A c \in Closers : closer[c] = "idle"
  BY DEF Init, CloserTypeOK
<1>3. stopped = FALSE
  BY DEF Init, StoreInit
<1> QED BY <1>1, <1>2, <1>3 DEF IInv, CloseInv, CloseJoins

(* A call of Put.                                                          *)
LEMMA PutInv ==
    ASSUME IInv, NEW k \in Keys, NEW r \in Records, Put(k, r)
    PROVE  IInv'
<1>1. Size[r] \in Nat
  BY SizeAssumption
<1>2. CoreInv(Keys, Records)'
  <2>1. CASE PutStored(k, r, Size[r])
    BY <1>1, <2>1, PutStoredInv DEF IInv
  <2>2. CASE PutRefused(k, Size[r])
    BY <2>2, QuietStepInv DEF IInv, PutRefused
  <2> QED BY <2>1, <2>2 DEF Put
<1>3. UNCHANGED <<cleaner, stopped, closer>>
  BY DEF Put, PutStored, PutRefused, storeVars, loopVars
<1> QED BY <1>2, <1>3 DEF IInv, CloserTypeOK, CloseInv, CloseJoins

(* A call of Get.                                                          *)
LEMMA GetInv ==
    ASSUME IInv, NEW k \in Keys, Get(k)
    PROVE  IInv'
<1>1. CoreInv(Keys, Records)'
  <2>1. CASE GetExpired(k)
    BY <2>1, GetExpiredInv DEF IInv
  <2>2. CASE GetMissing(k) \/ GetLive(k)
    BY <2>2, QuietStepInv DEF IInv, GetMissing, GetLive
  <2> QED BY <2>1, <2>2 DEF Get
<1>2. UNCHANGED <<cleaner, stopped, closer>>
  BY DEF Get, GetExpired, GetMissing, GetLive, storeVars, loopVars
<1> QED BY <1>1, <1>2 DEF IInv, CloserTypeOK, CloseInv, CloseJoins

(* A step of a caller of Close.                                            *)
LEMMA CloseInvStep ==
    ASSUME IInv, NEW c \in Closers, Close(c)
    PROVE  IInv'
<1>1. CASE CloseFirst(c)
  <2>1. CoreInv(Keys, Records)'
    BY <1>1, QuietStepInv DEF IInv, CloseFirst
  <2>2. stopped' /\ cleaner' = cleaner
        /\ closer' = [closer EXCEPT ![c] = "draining"]
    BY <1>1, Zenon DEF CloseFirst, SignalStop, loopVars
  <2> QED BY <2>1, <2>2 DEF IInv, CloserTypeOK, CloseInv, CloseJoins
<1>2. CASE CloseAgain(c) \/ FirstReturns(c) \/ AgainReturns(c)
  <2>1. CoreInv(Keys, Records)'
    BY <1>2, QuietStepInv DEF IInv, CloseAgain, FirstReturns, AgainReturns
  <2>2. cleaner' = cleaner /\ stopped' = stopped
    BY <1>2 DEF CloseAgain, FirstReturns, AgainReturns, storeVars
  <2>3. CASE CloseAgain(c)
    BY <2>1, <2>2, <2>3
       DEF CloseAgain, IInv, CloserTypeOK, CloseInv, CloseJoins
  <2>4. CASE FirstReturns(c)
    BY <2>1, <2>2, <2>4
       DEF FirstReturns, LoopDone, IInv, CloserTypeOK, CloseInv, CloseJoins
  <2>5. CASE AgainReturns(c)
    <3>1. cleaner = "exited"
      BY <2>5 DEF AgainReturns, OnceDone, IInv, CloseInv
    <3> QED BY <2>1, <2>2, <2>5, <3>1
            DEF AgainReturns, IInv, CloserTypeOK, CloseInv, CloseJoins
  <2> QED BY <1>2, <2>3, <2>4, <2>5
<1> QED BY <1>1, <1>2 DEF Close

(* A step of time or of the cleanup goroutine, which never comes back once *)
(* it has exited.                                                          *)
LEMMA EnvironmentInv ==
    ASSUME IInv, Environment
    PROVE  IInv'
<1>1. CoreInv(Keys, Records)'
  BY QuietStepInv, BackgroundInv DEF IInv, Environment
<1>2. stopped' = stopped /\ closer' = closer
  BY DEF Environment, Tick, Background, TickerFires, CleanupBegins,
         CleanupRuns, LoopStops
<1>3. cleaner = "exited" => cleaner' = "exited"
  BY DEF Environment, Tick, Background, TickerFires, CleanupBegins,
         CleanupRuns, LoopStops, loopVars
<1> QED BY <1>1, <1>2, <1>3 DEF IInv, CloserTypeOK, CloseInv, CloseJoins

(* Every step keeps the inductive invariant.                               *)
LEMMA NextInv == IInv /\ [Next]_vars => IInv'
<1> SUFFICES ASSUME IInv, [Next]_vars PROVE IInv'
  OBVIOUS
<1>1. ASSUME NEW k \in Keys, Get(k) PROVE IInv'
  BY <1>1, GetInv
<1>2. ASSUME NEW k \in Keys, NEW r \in Records, Put(k, r) PROVE IInv'
  BY <1>2, PutInv
<1>3. ASSUME NEW c \in Closers, Close(c) PROVE IInv'
  BY <1>3, CloseInvStep
<1>4. CASE Environment
  BY <1>4, EnvironmentInv
<1>5. CASE UNCHANGED vars
  <2>1. UNCHANGED storeVars /\ closer' = closer
    BY <1>5 DEF vars
  <2>2. CoreInv(Keys, Records)'
    BY <2>1, QuietStepInv DEF IInv
  <2> QED BY <2>1, <2>2 DEF storeVars, IInv, CloserTypeOK, CloseInv, CloseJoins
<1> QED BY <1>1, <1>2, <1>3, <1>4, <1>5 DEF Next

(* The invariant holds in every reachable state.                           *)
THEOREM Invariance == Spec => []IInv
BY InitInv, NextInv, PTL DEF Spec

(* The variables keep their types, the table stays finite.                 *)
THEOREM TypeCorrect == Spec => []TypeOK
<1>1. IInv => TypeOK
  BY DEF IInv, CoreInv, CloserTypeOK, TypeOK
<1> QED BY <1>1, Invariance, PTL

(* totalBytes is at all times the length of what the map holds, through    *)
(* replacement, expiry on read and cleanup in any interleaving.            *)
THEOREM AccountingHolds == Spec => []ByteAccounting
<1>1. IInv => ByteAccounting
  BY DEF IInv, CoreInv
<1> QED BY <1>1, Invariance, PTL

(* Neither limit is ever passed.                                           *)
THEOREM LimitsHold == Spec => []WithinLimits
<1>1. IInv => WithinLimits
  BY DEF IInv, CoreInv
<1> QED BY <1>1, Invariance, PTL

(* No call of Close returns before the cleanup goroutine has exited.       *)
THEOREM CloseIsAJoin == Spec => []CloseJoins
<1>1. IInv => CloseJoins
  BY DEF IInv, CloseInv
<1> QED BY <1>1, Invariance, PTL

-----------------------------------------------------------------------------
(* The refinement.  Fresh is what the proof needs of the state: times are  *)
(* numbers, so that "not past" and "expired" are opposites.                *)
Fresh(es, t) == {k \in DOMAIN es : ~Expired(es[k], t)}

Timed(es) == \A k \in DOMAIN es : es[k].expiry \in Int

(* Bindings keeps, of a table, the entries whose time is not past.         *)
LEMMA BindingsOf ==
    ASSUME Timed(entries), clock \in Int
    PROVE  /\ DOMAIN Bindings = Fresh(entries, clock)
           /\ \A k \in DOMAIN entries :
                 Expired(entries[k], clock) <=> ~(clock <= entries[k].expiry)
           /\ \A k \in DOMAIN Bindings :
                 Bindings[k] = [record |-> entries[k].record,
                                until |-> entries[k].expiry]
BY DEF Bindings, Fresh, Expired, Timed

(* A store step that only removes expired entries changes no binding.      *)
LEMMA RemovalIsInvisible ==
    ASSUME clock' = clock, NEW ks \in SUBSET Lapsed(clock),
           entries' = Without(entries, ks)
    PROVE  Bindings' = Bindings
<1>1. {x \in DOMAIN entries' : ~Expired(entries'[x], clock')}
        = {x \in DOMAIN entries : ~Expired(entries[x], clock)}
  BY DEF Without, Restrict, Lapsed
<1>2. \A x \in DOMAIN entries' : entries'[x] = entries[x]
  BY DEF Without, Restrict
<1> QED BY <1>1, <1>2 DEF Bindings

(* Put, when it stores, is the abstract write.                             *)
LEMMA PutStoredWrites ==
    ASSUME IInv, NEW k \in Keys, NEW r \in Records,
           PutStored(k, r, Size[r]),
           answer' = [call |-> "put", key |-> k, ok |-> TRUE]
    PROVE  Abstract!Write(k, r)
<1> DEFINE e == [record |-> r, bytes |-> Size[r], expiry |-> clock + TTL]
           b == [record |-> r, until |-> clock + TTL]
           m == [x \in DOMAIN Bindings \cup {k} |->
                    IF x = k THEN b ELSE Bindings[x]]
<1>1. clock \in Int /\ clock' = clock /\ Timed(entries)
  BY TableSized
     DEF PutStored, IInv, CoreInv, StoreTypeOK, LoopTypeOK, Timed, Entry
<1>2. /\ DOMAIN entries' = DOMAIN entries \cup {k}
      /\ entries'[k] = e
      /\ \A x \in DOMAIN entries \ {k} : entries'[x] = entries[x]
  BY DEF PutStored, Upsert
<1>3. clock + TTL \in Int
  BY <1>1, StoreAssumption
<1>4. Timed(entries')
  BY <1>1, <1>2, <1>3 DEF Timed
<1>5. DOMAIN m = Fresh(entries, clock) \cup {k}
  BY <1>1, BindingsOf
<1>6. m[k] = b /\ \A x \in DOMAIN m \ {k} :
        m[x] = [record |-> entries[x].record, until |-> entries[x].expiry]
  BY <1>1, <1>5, BindingsOf
<1>7. {x \in DOMAIN m : clock <= m[x].until}
        = {x \in DOMAIN entries' : ~Expired(entries'[x], clock')}
  <2>1. ASSUME NEW x \in DOMAIN entries'
        PROVE  Expired(entries'[x], clock') <=> ~(clock <= entries'[x].expiry)
    BY <1>1, <1>4 DEF Timed, Expired
  <2>2. ASSUME NEW x \in DOMAIN entries, x # k
        PROVE  Expired(entries[x], clock) <=> ~(clock <= entries[x].expiry)
    BY <1>1 DEF Timed, Expired
  <2>3. ASSUME NEW x
        PROVE  (x \in DOMAIN m /\ clock <= m[x].until) <=>
                 (x \in DOMAIN entries' /\ ~Expired(entries'[x], clock'))
    <3>1. CASE x = k
      <4>1. x \in DOMAIN m /\ m[x].until = clock + TTL
        BY <1>5, <1>6, <3>1
      <4>2. x \in DOMAIN entries' /\ entries'[x].expiry = clock + TTL
        BY <1>2, <3>1
      <4> HIDE DEF m
      <4> QED BY <2>1, <4>1, <4>2
    <3>2. CASE x # k /\ x \in DOMAIN entries
      <4>1. /\ entries'[x] = entries[x] /\ x \in DOMAIN entries'
            /\ Expired(entries'[x], clock') <=> ~(clock <= entries[x].expiry)
        BY <1>2, <2>1, <3>2
      <4>2. x \in DOMAIN m <=> ~Expired(entries[x], clock)
        BY <1>5, <3>2 DEF Fresh
      <4>3. x \in DOMAIN m => m[x].until = entries[x].expiry
        <5> HIDE DEF m
        <5> QED BY <1>6, <3>2
      <4> HIDE DEF m
      <4> QED BY <2>2, <3>2, <4>1, <4>2, <4>3
    <3>3. CASE x # k /\ x \notin DOMAIN entries
      <4> HIDE DEF m
      <4> QED BY <1>2, <1>5, <3>3 DEF Fresh
    <3> QED BY <3>1, <3>2, <3>3
  <2> HIDE DEF m
  <2> QED BY <2>3
<1>8. Abstract!Keep(clock, m) = Bindings'
  <2>1. \A x \in DOMAIN m : x \in DOMAIN entries' =>
          m[x] = [record |-> entries'[x].record, until |-> entries'[x].expiry]
    <3> HIDE DEF m
    <3> QED BY <1>2, <1>5, <1>6 DEF Fresh
  <2> HIDE DEF m
  <2> QED BY <1>7, <2>1 DEF Abstract!Keep, Bindings
<1> QED BY <1>1, <1>8 DEF Abstract!Write, Abstract!Written

(* A read, whether it finds the entry, finds nothing, or finds it expired, *)
(* is the abstract read.                                                   *)
LEMMA GetReads ==
    ASSUME IInv, NEW k \in Keys, Get(k)
    PROVE  Abstract!Read(k)
<1>1. clock \in Int /\ clock' = clock /\ Timed(entries)
  BY TableSized DEF Get, GetMissing, GetExpired, GetLive, storeVars,
     IInv, CoreInv, StoreTypeOK, LoopTypeOK, Timed, Entry
<1>2. CASE GetMissing(k) /\ answer' = [call |-> "get", key |-> k, found |-> FALSE]
  <2>1. Bindings' = Bindings
    BY <1>2 DEF GetMissing, storeVars, Bindings
  <2>2. k \notin DOMAIN Bindings
    BY <1>1, <1>2, BindingsOf DEF GetMissing, Fresh
  <2> QED BY <1>1, <1>2, <2>1, <2>2 DEF Abstract!Read, Abstract!Missed
<1>3. CASE GetExpired(k) /\ answer' = [call |-> "get", key |-> k, found |-> FALSE]
  <2>1. Bindings' = Bindings
    <3>1. {k} \in SUBSET Lapsed(clock) /\ entries' = Without(entries, {k})
      BY <1>3 DEF GetExpired, Lapsed
    <3> QED BY <1>1, <3>1, RemovalIsInvisible
  <2>2. k \notin DOMAIN Bindings
    BY <1>1, <1>3, BindingsOf DEF GetExpired, Fresh
  <2> QED BY <1>1, <1>3, <2>1, <2>2 DEF Abstract!Read, Abstract!Missed
<1>4. CASE /\ GetLive(k)
           /\ answer' = [call |-> "get", key |-> k, found |-> TRUE,
                         record |-> entries[k].record]
  <2>1. Bindings' = Bindings
    BY <1>4 DEF GetLive, storeVars, Bindings
  <2>2. k \in DOMAIN Bindings /\ Bindings[k].record = entries[k].record
    BY <1>1, <1>4, BindingsOf DEF GetLive, Fresh
  <2> QED BY <1>1, <1>4, <2>1, <2>2 DEF Abstract!Read, Abstract!Found
<1> QED BY <1>2, <1>3, <1>4 DEF Get

(* The clock moves: what just passed its time leaves the abstract map.     *)
LEMMA TickElapses ==
    ASSUME IInv, Tick, UNCHANGED answer
    PROVE  Abstract!Elapse
<1>1. /\ clock \in Int /\ clock' = clock + 1 /\ clock' \in Int
      /\ Timed(entries) /\ entries' = entries
  BY TableSized DEF Tick, IInv, CoreInv, StoreTypeOK, LoopTypeOK, Timed,
     Entry, tableVars
<1>2. DOMAIN Bindings = Fresh(entries, clock)
      /\ \A k \in DOMAIN Bindings :
            Bindings[k] = [record |-> entries[k].record,
                           until |-> entries[k].expiry]
  BY <1>1, BindingsOf
<1>3. {x \in DOMAIN Bindings : clock' <= Bindings[x].until}
        = {x \in DOMAIN entries' : ~Expired(entries'[x], clock')}
  <2>1. \A x \in DOMAIN entries :
           /\ Expired(entries[x], clock) <=> clock > entries[x].expiry
           /\ Expired(entries'[x], clock') <=> clock' > entries[x].expiry
           /\ entries[x].expiry \in Int
    BY <1>1 DEF Timed, Expired
  <2>2. \A x \in DOMAIN entries :
           ~(clock' > entries[x].expiry) <=>
             (~(clock > entries[x].expiry) /\ clock' <= entries[x].expiry)
    BY <1>1, <2>1
  <2> QED BY <1>1, <1>2, <2>1, <2>2 DEF Fresh
<1>4. Abstract!Keep(clock', Bindings) = Bindings'
  BY <1>1, <1>2, <1>3 DEF Abstract!Keep, Bindings
<1> QED BY <1>1, <1>4 DEF Abstract!Elapse, Tick

(* The goroutine and Close are invisible.  Only CleanupRuns deletes, and   *)
(* its clock, read before the lock, is never ahead of the time.            *)
LEMMA RestStutters ==
    ASSUME IInv,
           \/ Background /\ UNCHANGED <<answer, closer>>
           \/ \E c \in Closers : Close(c)
           \/ UNCHANGED vars
    PROVE  UNCHANGED <<Bindings, clock, answer>>
<1>1. CASE CleanupRuns /\ UNCHANGED answer
  <2>1. clock \in Int /\ cleanupNow \in Int /\ cleanupNow <= clock /\ Timed(entries)
    BY TableSized
       DEF IInv, CoreInv, StoreTypeOK, LoopTypeOK, Timed, Entry
  <2>2. Lapsed(cleanupNow) \in SUBSET Lapsed(clock)
    BY <2>1 DEF Lapsed, Expired, Timed
  <2> QED BY <1>1, <2>2, RemovalIsInvisible DEF CleanupRuns
<1>2. CASE UNCHANGED <<entries, clock, answer>>
  BY <1>2 DEF Bindings
<1> QED BY <1>1, <1>2 DEF Background, TickerFires, CleanupBegins, LoopStops,
        tableVars, Close, CloseFirst, CloseAgain, FirstReturns, AgainReturns,
        SignalStop, storeVars, vars

(* The store implements the map with a time to live: a step of the store   *)
(* is the abstract operation it stands for, or nothing at all.             *)
THEOREM Refinement == Spec => ImplementsTTLMap
<1>1. Init => Abstract!Init
  <2> SUFFICES ASSUME Init PROVE Abstract!Init
    OBVIOUS
  <2>1. entries = [k \in {} |-> 0] /\ clock = 0 /\ answer = [call |-> "none"]
    BY DEF Init, StoreInit
  <2>2. Bindings = [k \in {} |-> 0]
    BY <2>1 DEF Bindings
  <2> QED BY <2>1, <2>2 DEF Abstract!Init
<1>2. IInv /\ [Next]_vars => [Abstract!Next]_(Abstract!vars)
  <2> SUFFICES ASSUME IInv, [Next]_vars
               PROVE  Abstract!Next \/ UNCHANGED Abstract!vars
    OBVIOUS
  <2>1. ASSUME NEW k \in Keys, Get(k) PROVE Abstract!Next
    BY <2>1, GetReads DEF Abstract!Next
  <2>2. ASSUME NEW k \in Keys, NEW r \in Records, Put(k, r)
        PROVE  Abstract!Next
    <3>1. CASE PutStored(k, r, Size[r])
               /\ answer' = [call |-> "put", key |-> k, ok |-> TRUE]
      BY <3>1, PutStoredWrites DEF Abstract!Next
    <3>2. CASE PutRefused(k, Size[r])
               /\ answer' = [call |-> "put", key |-> k, ok |-> FALSE]
      <4>1. UNCHANGED <<entries, clock>>
        BY <3>2 DEF PutRefused, storeVars
      <4>2. Bindings' = Bindings
        BY <4>1 DEF Bindings
      <4> QED BY <3>2, <4>1, <4>2
              DEF Abstract!Next, Abstract!Refuse, Abstract!Refused
    <3> QED BY <2>2, <3>1, <3>2 DEF Put
  <2>3. CASE Tick /\ UNCHANGED <<answer, closer>>
    BY <2>3, TickElapses DEF Abstract!Next
  <2>4. CASE \/ Background /\ UNCHANGED <<answer, closer>>
             \/ \E c \in Closers : Close(c)
             \/ UNCHANGED vars
    BY <2>4, RestStutters DEF Abstract!vars
  <2> QED BY <2>1, <2>2, <2>3, <2>4 DEF Next, Environment
<1> QED BY <1>1, <1>2, Invariance, PTL DEF Spec, Abstract!Spec, ImplementsTTLMap
=============================================================================
