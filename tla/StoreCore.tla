------------------------------ MODULE StoreCore ------------------------------
(***************************************************************************)
(* The record store of internal/store/store.go: a map with a time to live, *)
(* a limit on the number of entries, a byte budget, and a goroutine that   *)
(* removes expired entries.                                                *)
(*                                                                         *)
(* This module holds the state and the steps.  Store closes them into a    *)
(* specification with arbitrary callers; Proxy drives the same steps from  *)
(* the HTTP handlers.  Every method body between Lock and Unlock is one    *)
(* step, since nothing else can touch the fields meanwhile.                *)
(*                                                                         *)
(* A key is the pair (consumer, payload id), a record is whatever the      *)
(* caller saves, and a length is a number the caller gives.                *)
(***************************************************************************)
EXTENDS Integers, FiniteSets, Functions

CONSTANTS
    TTL,         \* life of an entry, in clock units
    MaxEntries,  \* limit on the number of entries; none if <= 0
    MaxBytes,    \* byte budget; none if <= 0
    Horizon      \* bound of the model: the clock stops here

VARIABLES
    entries,      \* the map: key -> [record, bytes, expiry]
    totalBytes,   \* the running byte total
    clock,        \* time.Now(), monotonic
    tickPending,  \* the ticker's channel, of capacity one
    cleaner,      \* where cleanupLoop stands
    cleanupNow,   \* the local `now' of cleanup, read before the lock
    stopped       \* the channel stop is closed

tableVars == <<entries, totalBytes>>
loopVars  == <<tickPending, cleaner, cleanupNow>>
storeVars == <<entries, totalBytes, clock, tickPending, cleaner, cleanupNow,
               stopped>>

ASSUME StoreAssumption ==
    /\ TTL \in Int
    /\ MaxEntries \in Int
    /\ MaxBytes \in Int
    /\ Horizon \in Nat

-----------------------------------------------------------------------------
(* Helpers.  A definition whose name ends in _Variant is a plausible slip *)
(* in the definition that follows it; no specification uses it.            *)

Entry(R) == [record : R, bytes : Nat, expiry : Int]

Expired_Variant(e, now) == now >= e.expiry

\* time.Time.After is strict: at the very instant of its expiry an entry lives.
Expired(e, now) == now > e.expiry

Upsert(es, k, e) ==
    [x \in DOMAIN es \cup {k} |-> IF x = k THEN e ELSE es[x]]

Without(es, ks) == Restrict(es, DOMAIN es \ ks)

(* The sum of the lengths of all entries, as the number of pairs of a key  *)
(* and a position in its entry: a sum that needs no recursion.             *)
Units(es) == UNION {{k} \X (1 .. es[k].bytes) : k \in DOMAIN es}

StoredBytes(es) == Cardinality(Units(es))

Lapsed(now) == {k \in DOMAIN entries : Expired(entries[k], now)}

OldBytes_Variant(k) == 0

OldBytes(k) == IF k \in DOMAIN entries THEN entries[k].bytes ELSE 0

EntryFits_Variant(k) ==
    k \in DOMAIN entries \/ MaxEntries <= 0 \/ Cardinality(DOMAIN entries) <= MaxEntries

\* Only a new key counts against the number of entries.
EntryFits(k) ==
    \/ k \in DOMAIN entries
    \/ MaxEntries <= 0
    \/ Cardinality(DOMAIN entries) < MaxEntries

BytesFit(k, b) ==
    \/ MaxBytes <= 0
    \/ totalBytes - OldBytes(k) + b <= MaxBytes

-----------------------------------------------------------------------------
(* The methods *)

StoreInit ==
    /\ entries = [k \in {} |-> 0]
    /\ totalBytes = 0
    /\ clock = 0
    /\ tickPending = FALSE
    /\ cleaner = "select"
    /\ cleanupNow = 0
    /\ stopped = FALSE

(* New, in a process that takes the place of one that has died: time alone *)
(* goes on.                                                                *)
StoreAnew ==
    /\ entries' = [k \in {} |-> 0]
    /\ totalBytes' = 0
    /\ tickPending' = FALSE
    /\ cleaner' = "select"
    /\ cleanupNow' = 0
    /\ stopped' = FALSE
    /\ UNCHANGED clock

(* Put replaces whatever the key holds, an expired entry included.         *)
PutStored(k, r, b) ==
    /\ EntryFits(k)
    /\ BytesFit(k, b)
    /\ entries' = Upsert(entries, k,
                         [record |-> r, bytes |-> b, expiry |-> clock + TTL])
    /\ totalBytes' = totalBytes - OldBytes(k) + b
    /\ UNCHANGED <<clock, loopVars, stopped>>

(* ErrCapacityExceeded: an entry already under this key stays as it is.    *)
PutRefused(k, b) ==
    /\ ~(EntryFits(k) /\ BytesFit(k, b))
    /\ UNCHANGED storeVars

GetMissing(k) ==
    /\ k \notin DOMAIN entries
    /\ UNCHANGED storeVars

GetExpired(k) ==
    /\ k \in DOMAIN entries
    /\ Expired(entries[k], clock)
    /\ entries' = Without(entries, {k})
    /\ totalBytes' = totalBytes - entries[k].bytes
    /\ UNCHANGED <<clock, loopVars, stopped>>

GetLive(k) ==
    /\ k \in DOMAIN entries
    /\ ~Expired(entries[k], clock)
    /\ UNCHANGED storeVars

-----------------------------------------------------------------------------
(* Time and the cleanup goroutine *)

Tick ==
    /\ clock < Horizon
    /\ clock' = clock + 1
    /\ UNCHANGED <<tableVars, loopVars, stopped>>

(* A tick nobody has received yet absorbs the ones after it.               *)
TickerFires ==
    /\ cleaner # "exited"
    /\ ~tickPending
    /\ tickPending' = TRUE
    /\ UNCHANGED <<tableVars, clock, cleaner, cleanupNow, stopped>>

ReadAhead_Variant == clock + 1

ReadOnce_Variant == 0

ReadClock == clock

(* The tick branch of the select, up to the read of the clock that         *)
(* precedes the lock.  When stop is closed too, either branch may be taken.*)
CleanupBegins ==
    /\ cleaner = "select"
    /\ tickPending
    /\ tickPending' = FALSE
    /\ cleaner' = "cleanup"
    /\ cleanupNow' = ReadClock
    /\ UNCHANGED <<tableVars, clock, stopped>>

CleanupRuns ==
    /\ cleaner = "cleanup"
    /\ entries' = Without(entries, Lapsed(cleanupNow))
    /\ totalBytes' =
          totalBytes - StoredBytes(Restrict(entries, Lapsed(cleanupNow)))
    /\ cleaner' = "select"
    /\ cleanupNow' = 0
    /\ UNCHANGED <<clock, tickPending, stopped>>

LoopStops ==
    /\ cleaner = "select"
    /\ stopped
    /\ cleaner' = "exited"
    /\ UNCHANGED <<tableVars, clock, tickPending, cleanupNow, stopped>>

SignalStop ==
    /\ ~stopped
    /\ stopped' = TRUE
    /\ UNCHANGED <<tableVars, clock, loopVars>>

Background == TickerFires \/ CleanupBegins \/ CleanupRuns \/ LoopStops

-----------------------------------------------------------------------------
(* The parts of the invariant, for keys K and records R *)

TableTypeOK(K, R) ==
    /\ IsFiniteSet(DOMAIN entries)
    /\ DOMAIN entries \subseteq K
    /\ entries \in [DOMAIN entries -> Entry(R)]
    /\ totalBytes \in Int

LoopTypeOK ==
    /\ clock \in Nat
    /\ tickPending \in BOOLEAN
    /\ cleaner \in {"select", "cleanup", "exited"}
    /\ cleanupNow \in 0 .. clock
    /\ stopped \in BOOLEAN

StoreTypeOK(K, R) == TableTypeOK(K, R) /\ LoopTypeOK

(* The running total that Put, Get and cleanup each adjust on their own is *)
(* the number of bytes the map holds.                                      *)
ByteAccounting == totalBytes = StoredBytes(entries)

(* Neither limit is ever passed, by what the map really holds.             *)
WithinLimits ==
    /\ MaxEntries > 0 => Cardinality(DOMAIN entries) <= MaxEntries
    /\ MaxBytes > 0 => StoredBytes(entries) <= MaxBytes
=============================================================================
