--------------------------- MODULE StoreCoreProofs ---------------------------
(***************************************************************************)
(* What each step of the store preserves, whoever takes it.  Store's and   *)
(* Proxy's proofs cite the theorems at the end; the lemmas before them are *)
(* about the byte sum of a map.                                            *)
(***************************************************************************)
EXTENDS StoreCore, FiniteSetTheorems, TLAPS

(* A finite map whose entries have natural lengths.                        *)
Sized(es) == IsFiniteSet(DOMAIN es) /\ \A k \in DOMAIN es : es[k].bytes \in Nat

-----------------------------------------------------------------------------
(* The byte sum of a finite map is a natural number: store.go's totalBytes *)
(* has a value to be equal to.                                             *)
LEMMA UnitsFinite ==
    ASSUME NEW es, Sized(es)
    PROVE  IsFiniteSet(Units(es)) /\ StoredBytes(es) \in Nat
<1> DEFINE D == DOMAIN es
           F == [k \in D |-> {k} \X (1 .. es[k].bytes)]
           T == {{k} \X (1 .. es[k].bytes) : k \in D}
<1>1. IsFiniteSet(D)
  BY DEF Sized
<1>2. F \in Surjection(D, T)
  BY DEF Surjection
<1>3. IsFiniteSet(T)
  <2> HIDE DEF D, F, T
  <2> QED BY <1>1, <1>2, FS_Surjection
<1>4. ASSUME NEW k \in D PROVE IsFiniteSet({k} \X (1 .. es[k].bytes))
  <2>1. IsFiniteSet({k})
    BY FS_Singleton
  <2>2. es[k].bytes \in Int
    BY DEF Sized
  <2>3. IsFiniteSet(1 .. es[k].bytes)
    BY <2>2, FS_Interval
  <2> QED BY <2>1, <2>3, FS_Product
<1>5. \A U \in T : IsFiniteSet(U)
  BY <1>4
<1>6. IsFiniteSet(UNION T)
  <2> HIDE DEF T
  <2> QED BY <1>3, <1>5, FS_UNION
<1> QED BY <1>6, FS_CardinalityType DEF Units, StoredBytes

(* Splitting a map in two splits its byte sum: what cleanup subtracts for  *)
(* the entries it deletes is what the others no longer share.              *)
LEMMA SplitBytes ==
    ASSUME NEW es, Sized(es), NEW ks \in SUBSET DOMAIN es
    PROVE  /\ Sized(Restrict(es, ks)) /\ Sized(Without(es, ks))
           /\ StoredBytes(es) =
                 StoredBytes(Restrict(es, ks)) + StoredBytes(Without(es, ks))
<1> DEFINE A == Restrict(es, ks)
           B == Without(es, ks)
<1>1. DOMAIN A = ks /\ DOMAIN B = DOMAIN es \ ks
  BY DEF Restrict, Without
<1>2. /\ \A k \in ks : A[k] = es[k]
      /\ \A k \in DOMAIN es \ ks : B[k] = es[k]
  BY DEF Restrict, Without
<1>3. Sized(A)
  BY <1>1, <1>2, FS_Subset DEF Sized
<1>4. Sized(B)
  BY <1>1, <1>2, FS_Difference DEF Sized
<1>5. Units(A) = UNION {{k} \X (1 .. es[k].bytes) : k \in ks}
  BY <1>1, <1>2 DEF Units
<1>6. Units(B) = UNION {{k} \X (1 .. es[k].bytes) : k \in DOMAIN es \ ks}
  BY <1>1, <1>2 DEF Units
<1>7. Units(es) = Units(A) \cup Units(B)
  BY <1>5, <1>6 DEF Units
<1>8. Units(A) \cap Units(B) = {}
  BY <1>5, <1>6
<1>9. IsFiniteSet(Units(A)) /\ IsFiniteSet(Units(B))
  <2> HIDE DEF A, B
  <2> QED BY <1>3, <1>4, UnitsFinite
<1>10. Cardinality(Units(es)) = Cardinality(Units(A)) + Cardinality(Units(B))
  <2> HIDE DEF A, B
  <2>1. Cardinality(Units(A)) \in Nat /\ Cardinality(Units(B)) \in Nat
    BY <1>9, FS_CardinalityType
  <2>2. Cardinality(Units(A) \cup Units(B)) =
          Cardinality(Units(A)) + Cardinality(Units(B)) - Cardinality({})
    BY <1>8, <1>9, FS_Union
  <2> QED BY <1>7, <2>1, <2>2, FS_EmptySet
<1> QED BY <1>3, <1>4, <1>10 DEF StoredBytes

(* A map with one entry holds as many bytes as that entry.                 *)
LEMMA OneEntryBytes ==
    ASSUME NEW es, NEW k, DOMAIN es = {k}, es[k].bytes \in Nat
    PROVE  StoredBytes(es) = es[k].bytes
<1> DEFINE n == es[k].bytes
<1>1. Units(es) = {k} \X (1 .. n)
  BY DEF Units
<1>2. IsFiniteSet({k}) /\ Cardinality({k}) = 1
  BY FS_Singleton
<1> HIDE DEF n
<1>3. n \in Nat
  BY DEF n
<1>4. IsFiniteSet(1 .. n) /\ Cardinality(1 .. n) = n
  <2>1. 1 \in Int /\ n \in Int
    BY <1>3
  <2>2. /\ IsFiniteSet(1 .. n)
        /\ Cardinality(1 .. n) = IF 1 > n THEN 0 ELSE n - 1 + 1
    BY <2>1, FS_Interval, Zenon
  <2>3. (IF 1 > n THEN 0 ELSE n - 1 + 1) = n
    BY <1>3
  <2> QED BY <2>2, <2>3
<1>5. Cardinality({k} \X (1 .. n)) = Cardinality({k}) * Cardinality(1 .. n)
  BY <1>2, <1>4, FS_Product
<1>6. StoredBytes(es) = n
  BY <1>1, <1>2, <1>3, <1>4, <1>5 DEF StoredBytes
<1> QED BY <1>6 DEF n

(* Deleting a key takes its length off the sum, as Get does for an expired *)
(* entry.                                                                  *)
LEMMA RemoveBytes ==
    ASSUME NEW es, Sized(es), NEW k \in DOMAIN es
    PROVE  /\ Sized(Without(es, {k}))
           /\ StoredBytes(Without(es, {k})) = StoredBytes(es) - es[k].bytes
<1>1. /\ Sized(Restrict(es, {k})) /\ Sized(Without(es, {k}))
      /\ StoredBytes(es) = StoredBytes(Restrict(es, {k}))
                             + StoredBytes(Without(es, {k}))
  BY SplitBytes
<1>2. DOMAIN Restrict(es, {k}) = {k} /\ Restrict(es, {k})[k] = es[k]
  BY DEF Restrict
<1>3. StoredBytes(Restrict(es, {k})) = es[k].bytes
  BY <1>2, OneEntryBytes DEF Sized
<1>4. StoredBytes(Without(es, {k})) \in Nat /\ es[k].bytes \in Nat
  BY <1>1, UnitsFinite DEF Sized
<1> QED BY <1>1, <1>3, <1>4

(* Storing an entry takes the old length off the sum and adds the new one, *)
(* as Put does.                                                            *)
LEMMA UpsertBytes ==
    ASSUME NEW es, Sized(es), NEW k, NEW e, e.bytes \in Nat
    PROVE  /\ Sized(Upsert(es, k, e))
           /\ StoredBytes(Upsert(es, k, e)) =
                StoredBytes(es) - (IF k \in DOMAIN es THEN es[k].bytes ELSE 0)
                  + e.bytes
<1> DEFINE u == Upsert(es, k, e)
<1>1. DOMAIN u = DOMAIN es \cup {k} /\ u[k] = e
      /\ \A x \in DOMAIN es \ {k} : u[x] = es[x]
  BY DEF Upsert
<1>2. Sized(u)
  <2>1. IsFiniteSet(DOMAIN es \cup {k})
    BY FS_AddElement DEF Sized
  <2> QED BY <1>1, <2>1 DEF Sized
<1>3. /\ Sized(Without(u, {k}))
      /\ StoredBytes(Without(u, {k})) = StoredBytes(u) - e.bytes
  <2> HIDE DEF u
  <2> QED BY <1>1, <1>2, RemoveBytes
<1>4. StoredBytes(u) \in Nat /\ StoredBytes(es) \in Nat
  <2> HIDE DEF u
  <2> QED BY <1>2, UnitsFinite
<1>5. Without(u, {k}) = Without(es, {k})
  <2>1. DOMAIN u \ {k} = DOMAIN es \ {k}
    BY <1>1
  <2> QED BY <1>1, <2>1 DEF Without, Restrict
<1>6. CASE k \in DOMAIN es
  <2>1. /\ StoredBytes(Without(es, {k})) = StoredBytes(es) - es[k].bytes
        /\ es[k].bytes \in Nat
    BY <1>6, RemoveBytes DEF Sized
  <2> QED BY <1>2, <1>3, <1>4, <1>5, <1>6, <2>1
<1>7. CASE k \notin DOMAIN es
  <2>1. Without(es, {k}) = Restrict(es, DOMAIN es)
    BY <1>7 DEF Without, Restrict
  <2>2. Units(Restrict(es, DOMAIN es)) = Units(es)
    BY DEF Units, Restrict
  <2>3. StoredBytes(Without(es, {k})) = StoredBytes(es)
    BY <2>1, <2>2 DEF StoredBytes
  <2> QED BY <1>2, <1>3, <1>4, <1>5, <1>7, <2>3
<1> QED BY <1>6, <1>7

-----------------------------------------------------------------------------
(* The invariant of the store, with the parts of it in the order in which  *)
(* each relies on the ones before: the limits hold of the map because the  *)
(* total they are tested against is the map's.                             *)
CoreInv(K, R) == StoreTypeOK(K, R) /\ ByteAccounting /\ WithinLimits

(* The table of a well-typed store is a finite map of natural lengths.     *)
LEMMA TableSized ==
    ASSUME NEW K, NEW R, TableTypeOK(K, R)
    PROVE  /\ Sized(entries)
           /\ \A k \in DOMAIN entries : entries[k] \in Entry(R)
BY DEF TableTypeOK, Entry, Sized

(* The empty store New builds satisfies the invariant.                     *)
THEOREM CoreInit ==
    ASSUME NEW K, NEW R, StoreInit
    PROVE  CoreInv(K, R)
<1>1. entries = [k \in {} |-> 0] /\ DOMAIN entries = {}
  BY DEF StoreInit
<1>2. StoreTypeOK(K, R)
  <2>1. entries \in [DOMAIN entries -> Entry(R)]
    BY <1>1
  <2>2. IsFiniteSet(DOMAIN entries)
    BY <1>1, FS_EmptySet
  <2>3. TableTypeOK(K, R)
    BY <1>1, <2>1, <2>2 DEF TableTypeOK, StoreInit
  <2>4. tickPending \in BOOLEAN /\ stopped \in BOOLEAN
    BY Zenon DEF StoreInit
  <2>5. clock \in Nat /\ cleanupNow \in 0 .. clock
    BY DEF StoreInit
  <2>6. LoopTypeOK
    BY <2>4, <2>5 DEF StoreInit, LoopTypeOK
  <2> QED BY <2>3, <2>6 DEF StoreTypeOK
<1>3. StoredBytes(entries) = 0
  <2>1. Units(entries) = {}
    BY <1>1 DEF Units
  <2> QED BY <2>1, FS_EmptySet DEF StoredBytes
<1>4. WithinLimits
  BY <1>1, <1>3, FS_EmptySet, StoreAssumption DEF WithinLimits
<1> QED BY <1>2, <1>3, <1>4 DEF CoreInv, ByteAccounting, StoreInit

(* A process that takes the place of a dead one starts from such a store   *)
(* too, later.                                                             *)
THEOREM StoreAnewInv ==
    ASSUME NEW K, NEW R, CoreInv(K, R), StoreAnew
    PROVE  CoreInv(K, R)'
<1>1. entries' = [k \in {} |-> 0] /\ DOMAIN entries' = {}
  BY DEF StoreAnew
<1>2. TableTypeOK(K, R)'
  <2>1. entries' \in [DOMAIN entries' -> Entry(R)]
    BY <1>1
  <2>2. IsFiniteSet(DOMAIN entries')
    BY <1>1, FS_EmptySet
  <2> QED BY <1>1, <2>1, <2>2 DEF TableTypeOK, StoreAnew, Entry
<1>3. LoopTypeOK'
  <2>1. tickPending' \in BOOLEAN /\ stopped' \in BOOLEAN
    BY Zenon DEF StoreAnew
  <2>2. clock' \in Nat /\ cleanupNow' \in 0 .. clock'
    BY DEF StoreAnew, CoreInv, StoreTypeOK, LoopTypeOK
  <2> QED BY <2>1, <2>2 DEF StoreAnew, LoopTypeOK
<1>4. StoredBytes(entries') = 0
  <2>1. Units(entries') = {}
    BY <1>1 DEF Units
  <2> QED BY <2>1, FS_EmptySet DEF StoredBytes
<1>5. ByteAccounting'
  BY <1>4 DEF ByteAccounting, StoreAnew, StoredBytes, Units
<1>6. WithinLimits'
  <2>1. StoredBytes(entries)' = 0
    BY <1>4 DEF StoredBytes, Units
  <2> QED BY <1>1, <2>1, FS_EmptySet, StoreAssumption DEF WithinLimits
<1> QED BY <1>2, <1>3, <1>5, <1>6 DEF CoreInv, StoreTypeOK

(* Put, when it stores: the entry count grows only under EntryFits, and    *)
(* BytesFit tests the very total that the assignment will leave.           *)
THEOREM PutStoredInv ==
    ASSUME NEW K, NEW R, CoreInv(K, R),
           NEW k \in K, NEW r \in R, NEW b \in Nat, PutStored(k, r, b)
    PROVE  CoreInv(K, R)'
<1> DEFINE e == [record |-> r, bytes |-> b, expiry |-> clock + TTL]
<1>1. Sized(entries) /\ totalBytes = StoredBytes(entries) /\ totalBytes \in Int
  BY TableSized DEF CoreInv, StoreTypeOK, TableTypeOK, ByteAccounting
<1>2. e \in Entry(R) /\ e.bytes = b
  BY StoreAssumption DEF CoreInv, StoreTypeOK, LoopTypeOK, Entry
<1>3. entries' = Upsert(entries, k, e)
  BY DEF PutStored
<1>4. /\ Sized(entries')
      /\ StoredBytes(entries') = StoredBytes(entries) - OldBytes(k) + b
  <2> HIDE DEF e
  <2> QED BY <1>1, <1>2, <1>3, UpsertBytes DEF OldBytes
<1>5. DOMAIN entries' = DOMAIN entries \cup {k}
  BY <1>3 DEF Upsert
<1>6. TableTypeOK(K, R)'
  <2>1. \A x \in DOMAIN entries' : entries'[x] \in Entry(R)
    BY <1>2, <1>3, <1>5, TableSized DEF CoreInv, StoreTypeOK, Upsert
  <2>2. entries' \in [DOMAIN entries' -> Entry(R)]
    <3> HIDE DEF e
    <3> QED BY <1>3, <2>1 DEF Upsert
  <2>3. OldBytes(k) \in Int
    BY <1>1 DEF OldBytes, Sized
  <2>4. totalBytes' \in Int
    BY <1>1, <2>3 DEF PutStored
  <2> QED BY <1>4, <1>5, <2>2, <2>4 DEF TableTypeOK, CoreInv, StoreTypeOK, Sized
<1>7. LoopTypeOK'
  BY DEF CoreInv, StoreTypeOK, LoopTypeOK, PutStored, loopVars
<1>8. ByteAccounting'
  BY <1>1, <1>4 DEF PutStored, ByteAccounting
<1>9. MaxEntries > 0 => Cardinality(DOMAIN entries') <= MaxEntries
  <2>1. IsFiniteSet(DOMAIN entries) /\ Cardinality(DOMAIN entries) \in Nat
    BY <1>1, FS_CardinalityType DEF Sized
  <2>2. Cardinality(DOMAIN entries') =
          IF k \in DOMAIN entries THEN Cardinality(DOMAIN entries)
                                  ELSE Cardinality(DOMAIN entries) + 1
    BY <1>5, <2>1, FS_AddElement
  <2> QED BY <2>1, <2>2, StoreAssumption
          DEF PutStored, EntryFits, CoreInv, WithinLimits
<1>10. MaxBytes > 0 => StoredBytes(entries') <= MaxBytes
  BY <1>1, <1>4, StoreAssumption DEF PutStored, BytesFit
<1> QED BY <1>6, <1>7, <1>8, <1>9, <1>10 DEF CoreInv, StoreTypeOK, WithinLimits

(* Deleting keys from the table, with their bytes: common to the read of   *)
(* an expired entry and to cleanup.                                        *)
LEMMA RemovalInv ==
    ASSUME NEW K, NEW R, CoreInv(K, R),
           NEW ks \in SUBSET DOMAIN entries,
           entries' = Without(entries, ks),
           totalBytes' = totalBytes - StoredBytes(Restrict(entries, ks)),
           LoopTypeOK'
    PROVE  CoreInv(K, R)'
<1>1. Sized(entries) /\ totalBytes = StoredBytes(entries)
      /\ \A k \in DOMAIN entries : entries[k] \in Entry(R)
  BY TableSized DEF CoreInv, StoreTypeOK, ByteAccounting
<1>2. /\ Sized(Restrict(entries, ks)) /\ Sized(entries')
      /\ StoredBytes(entries) =
            StoredBytes(Restrict(entries, ks)) + StoredBytes(entries')
  BY <1>1, SplitBytes
<1>3. /\ StoredBytes(entries) \in Nat
      /\ StoredBytes(Restrict(entries, ks)) \in Nat
      /\ StoredBytes(entries') \in Nat
  BY <1>1, <1>2, UnitsFinite
<1>4. DOMAIN entries' = DOMAIN entries \ ks
  BY DEF Without, Restrict
<1>5. TableTypeOK(K, R)'
  <2>1. entries' \in [DOMAIN entries' -> Entry(R)]
    BY <1>1, <1>4 DEF Without, Restrict
  <2> QED BY <1>1, <1>2, <1>3, <1>4, <2>1
          DEF TableTypeOK, CoreInv, StoreTypeOK, Sized
<1>6. ByteAccounting'
  BY <1>1, <1>2, <1>3 DEF ByteAccounting
<1>7. WithinLimits'
  <2>1. /\ Cardinality(DOMAIN entries') <= Cardinality(DOMAIN entries)
        /\ Cardinality(DOMAIN entries') \in Nat
        /\ Cardinality(DOMAIN entries) \in Nat
    BY <1>1, <1>2, <1>4, FS_Subset, FS_CardinalityType DEF Sized
  <2> QED BY <1>2, <1>3, <2>1, StoreAssumption DEF CoreInv, WithinLimits
<1> QED BY <1>5, <1>6, <1>7 DEF CoreInv, StoreTypeOK

(* Get, when it finds an expired entry and deletes it.                     *)
THEOREM GetExpiredInv ==
    ASSUME NEW K, NEW R, CoreInv(K, R), NEW k, GetExpired(k)
    PROVE  CoreInv(K, R)'
<1>1. Sized(entries) /\ k \in DOMAIN entries
  BY TableSized DEF CoreInv, StoreTypeOK, GetExpired
<1>2. StoredBytes(Restrict(entries, {k})) = entries[k].bytes
  <2>1. DOMAIN Restrict(entries, {k}) = {k} /\ Restrict(entries, {k})[k] = entries[k]
    BY DEF Restrict
  <2> QED BY <1>1, <2>1, OneEntryBytes DEF Sized
<1>3. LoopTypeOK'
  BY DEF CoreInv, StoreTypeOK, LoopTypeOK, GetExpired, loopVars
<1> QED BY <1>1, <1>2, <1>3, RemovalInv DEF GetExpired

(* cleanup, with whatever clock it read before it took the lock.           *)
THEOREM CleanupRunsInv ==
    ASSUME NEW K, NEW R, CoreInv(K, R), CleanupRuns
    PROVE  CoreInv(K, R)'
<1>1. LoopTypeOK'
  BY DEF CoreInv, StoreTypeOK, LoopTypeOK, CleanupRuns
<1>2. Lapsed(cleanupNow) \in SUBSET DOMAIN entries
  BY DEF Lapsed
<1> QED BY <1>1, <1>2, RemovalInv DEF CleanupRuns

(* A step that leaves the table alone: the clock, the ticker, the rest of  *)
(* the loop, a read, a refused Put, any step of another component.         *)
THEOREM TableKeptInv ==
    ASSUME NEW K, NEW R, CoreInv(K, R), UNCHANGED tableVars, LoopTypeOK'
    PROVE  CoreInv(K, R)'
BY DEF CoreInv, StoreTypeOK, TableTypeOK, tableVars, ByteAccounting,
       WithinLimits, StoredBytes, Units, Entry

(* The steps of time and of the loop keep the loop's own types.            *)
THEOREM LoopStepType ==
    ASSUME LoopTypeOK,
           \/ Tick \/ TickerFires \/ CleanupBegins \/ LoopStops \/ SignalStop
           \/ UNCHANGED storeVars
    PROVE  LoopTypeOK' /\ UNCHANGED tableVars
<1> USE DEF LoopTypeOK, loopVars, tableVars
<1>1. CASE Tick
  BY <1>1 DEF Tick
<1>2. CASE TickerFires
  BY <1>2 DEF TickerFires
<1>3. CASE CleanupBegins
  <2>1. cleanupNow' \in 0 .. clock' /\ clock' \in Nat
    BY <1>3 DEF CleanupBegins, ReadClock
  <2>2. tickPending' \in BOOLEAN /\ stopped' \in BOOLEAN
    BY <1>3, Zenon DEF CleanupBegins
  <2>3. cleaner' \in {"select", "cleanup", "exited"} /\ UNCHANGED tableVars
    BY <1>3 DEF CleanupBegins, ReadClock
  <2> QED BY <2>1, <2>2, <2>3
<1>4. CASE LoopStops
  BY <1>4 DEF LoopStops
<1>5. CASE SignalStop
  BY <1>5 DEF SignalStop
<1>6. CASE UNCHANGED storeVars
  BY <1>6 DEF storeVars
<1> QED BY <1>1, <1>2, <1>3, <1>4, <1>5, <1>6

(* The reads and refusals change nothing.                                  *)
THEOREM QuietStepInv ==
    ASSUME NEW K, NEW R, CoreInv(K, R),
           \/ Tick \/ TickerFires \/ CleanupBegins \/ LoopStops \/ SignalStop
           \/ UNCHANGED storeVars
    PROVE  CoreInv(K, R)'
BY LoopStepType, TableKeptInv DEF CoreInv, StoreTypeOK

(* Every background step keeps the invariant.                              *)
THEOREM BackgroundInv ==
    ASSUME NEW K, NEW R, CoreInv(K, R), Background
    PROVE  CoreInv(K, R)'
BY QuietStepInv, CleanupRunsInv DEF Background
=============================================================================
