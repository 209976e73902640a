-------------------------- MODULE LifecycleProofs --------------------------
(***************************************************************************)
(* Type correctness of the process, the limits it runs with and its        *)
(* graceful exit, for every width of an int and any number of connections. *)
(*                                                                         *)
(* The invariant says what each part of main knows: past the settings the  *)
(* environment is valid, past the store the limits are made of it, once    *)
(* Shutdown has begun no listener takes a connection, and once it is over  *)
(* in time none is in flight.                                              *)
(***************************************************************************)
EXTENDS Lifecycle, FiniteSetTheorems, TLAPS

(* What fits in an int is not changed by its conversion.                   *)
LEMMA WrapExact ==
    ASSUME NEW i \in Ints
    PROVE  Wrap(i) = i
<1> DEFINE w == 2 * (Largest + 1)
<1>1. i \in Int /\ w \in Nat \ {0} /\ Largest \in Nat
  BY SettingsAssumption DEF Ints
<1>2. i + Largest + 1 \in 0 .. w - 1
  BY <1>1 DEF Ints
<1>3. ASSUME NEW n \in 0 .. w - 1
      PROVE  n % w = n
  <2> HIDE DEF w
  <2> QED
    BY <1>1, <1>3, SMTT(30)
<1>4. (i + Largest + 1) % w = i + Largest + 1
  BY <1>2, <1>3
<1> QED
  BY <1>1, <1>4 DEF Wrap

(* The result of a conversion is an int, whatever goes in.                 *)
LEMMA WrapInInts ==
    ASSUME NEW i \in Int
    PROVE  Wrap(i) \in Ints
<1> DEFINE w == 2 * (Largest + 1)
<1>1. w \in Nat \ {0} /\ Largest \in Nat
  BY SettingsAssumption
<1>2. ASSUME NEW n \in Int
      PROVE  n % w \in 0 .. w - 1
  <2> HIDE DEF w
  <2> QED
    BY <1>1, <1>2, SMTT(30)
<1>3. (i + Largest + 1) % w \in 0 .. w - 1
  BY <1>1, <1>2
<1> QED
  BY <1>1, <1>3 DEF Wrap, Ints

LEMMA GetenvInts ==
    ASSUME NEW e \in Environment, NEW name \in Names
    PROVE  Getenv(e, name) \in Ints
<1>1. Default[name] \in Ints
  BY SettingsAssumption DEF Ints
<1>2. e[name] \in {Absent, Bad} \cup {Number(i) : i \in Ints}
  BY DEF Environment
<1>3. 0 \in Ints
  BY SettingsAssumption DEF Ints
<1> QED
  BY <1>1, <1>2, <1>3 DEF Getenv, Absent, Bad, Number

LEMMA LimitsTyped ==
    ASSUME NEW e \in Environment
    PROVE  LimitsOf(e) \in Limits
<1>1. \A name \in Names : Getenv(e, name) \in Ints
  BY GetenvInts
<1>2. \A name \in Names, k \in Nat : Getenv(e, name) * k \in Int
  BY <1>1, SettingsAssumption DEF Ints
<1>3. \A name \in Names, k \in Nat : Wrap(Getenv(e, name) * k) \in Ints
  BY <1>2, WrapInInts
<1>4. /\ {"STATE_TTL_SECONDS", "STATE_MAX_ENTRIES", "STATE_MAX_MB",
          "MAX_INFLIGHT"} \subseteq Names
      /\ Second \in Nat /\ Megabyte \in Nat
  BY SettingsAssumption DEF Names
<1> QED
  BY <1>1, <1>3, <1>4 DEF LimitsOf, Limits

(* What the environment asks for is what Getenv reads, where it is valid.  *)
LEMMA AskedIsRead ==
    ASSUME env \in Environment, Valid(env), NEW name \in Names
    PROVE  Asked(name) = Getenv(env, name) /\ env[name].kind # "bad"
<1>1. env[name] \in {Absent} \cup {Number(i) : i \in Ints}
  BY DEF Environment, Valid
<1> QED
  BY <1>1 DEF Asked, Getenv, Absent, Number

-----------------------------------------------------------------------------
Mains ==
    {"settings", "registry", "starting", "notify", "serving", "draining",
     "closing", "panicking"} \cup Ended

(* The inductive invariant: types, and what each part of main knows.       *)
Typed ==
    /\ env \in Environments
    /\ main \in Mains
    /\ limits \in Limits
    /\ listener \in {"none", "binding", "listening", "failed", "closed"}
    /\ signal \in {"none", "sent", "stop"}
    /\ timedOut \in BOOLEAN
    /\ cleaner \in {"none", "running", "gone"}
    /\ conn \in [Connections -> {"none", "served", "answered", "refused", "cut"}]

Known ==
    /\ main = "registry" => Valid(env)
    /\ main \in {"settings", "registry", "panicking"} => listener = "none"
    /\ main \in {"starting", "notify", "serving"} => listener # "none"
    /\ listener = "none" => InFlight = {}
    /\ listener # "none" => Valid(env) /\ limits = LimitsOf(env) /\ ~Panics(env)

Fits == listener # "none" => Cardinality(InFlight) <= limits.slots

Draining ==
    /\ main \in {"draining", "closing"} => listener = "closed"
    /\ main = "closing" /\ ~timedOut => InFlight = {}
    /\ main \notin Ended => \A c \in Connections : conn[c] # "cut"
    /\ main = "exit 0" /\ ~timedOut => \A c \in Connections : conn[c] # "cut"
    /\ signal = "stop" => main \in {"serving", "draining", "closing"} \cup Ended

IInv == Typed /\ Known /\ Fits /\ Draining

LEMMA InFlightFinite == IsFiniteSet(InFlight) /\ Cardinality(InFlight) \in Nat
<1>1. IsFiniteSet(InFlight)
  BY LifecycleAssumption, FS_Subset DEF InFlight
<1> QED
  BY <1>1, FS_CardinalityType

THEOREM InitInv == Init => IInv
<1> SUFFICES ASSUME Init PROVE IInv
  OBVIOUS
<1> USE DEF Init
<1>1. NoLimits \in Limits
  BY SettingsAssumption DEF NoLimits, Limits, Ints
<1>2. InFlight = {}
  BY DEF InFlight
<1> QED
  BY <1>1, <1>2 DEF IInv, Typed, Known, Fits, Draining, Mains, Ended

LEMMA SlotsNat ==
    ASSUME IInv, listener # "none"
    PROVE  limits.slots \in Nat
<1>1. limits = LimitsOf(env) /\ ~(LimitsOf(env).slots < 0)
  BY DEF IInv, Known, Panics
<1>2. limits.slots \in Int
  BY SettingsAssumption DEF IInv, Typed, Limits, Ints
<1> QED
  BY <1>1, <1>2

(* The end of the process disturbs nothing, but ends with 0 only when none *)
(* is in flight or the time is over.                                       *)
LEMMA DiesInv ==
    ASSUME IInv, Alive, NEW how \in Ended, Dies(how)
    PROVE  (how = "exit 0" => Drained) => IInv'
<1>0. /\ main' = how /\ UNCHANGED <<env, limits>>
      /\ listener' # "none" <=> listener # "none"
  BY DEF Dies
<1>1. InFlight' = {}
  BY DEF Dies, IInv, Typed, InFlight
<1>2. Typed'
  BY DEF Dies, IInv, Typed, Mains
<1>3. Known'
  <2>1. main' \notin {"settings", "registry", "panicking", "starting", "notify",
                        "serving"}
    BY <1>0 DEF Ended
  <2> QED
    BY <1>0, <1>1, <2>1 DEF IInv, Known, Valid, Panics, LimitsOf, Getenv
<1>4. Fits'
  <2>1. listener # "none" => limits.slots \in Nat
    BY SlotsNat
  <2>2. Cardinality(InFlight') = 0
    BY <1>1, FS_EmptySet
  <2>3. limits' = limits
    BY <1>0
  <2> QED
    BY <1>0, <2>1, <2>2, <2>3 DEF Fits
<1>5. ASSUME how = "exit 0" => Drained PROVE Draining'
  <2>1. \A c \in Connections : conn[c] # "cut"
    BY DEF IInv, Draining, Alive
  <2>2. how = "exit 0" /\ ~timedOut => \A c \in Connections : conn'[c] # "cut"
    BY <1>5, <2>1 DEF Dies, Drained, InFlight
  <2>3. timedOut' = timedOut
    BY DEF Dies
  <2> QED
    BY <2>2, <2>3, <1>0 DEF Draining, Ended
<1> QED
  BY <1>2, <1>3, <1>4, <1>5 DEF IInv

(* A step that changes no connection, no listener and no limit.            *)
LEMMA QuietInv ==
    ASSUME IInv, UNCHANGED <<env, limits, listener, conn>>,
           Typed', Draining', main' = "registry" => Valid(env),
           main' \in {"settings", "registry", "panicking"} => listener = "none",
           main' \in {"starting", "notify", "serving"} => listener # "none"
    PROVE  IInv'
<1>1. InFlight' = InFlight
  BY DEF InFlight
<1>2. Known'
  BY <1>1 DEF IInv, Known, Valid, Panics, LimitsOf, Getenv
<1>3. Fits'
  BY <1>1 DEF IInv, Fits
<1> QED
  BY <1>2, <1>3 DEF IInv

-----------------------------------------------------------------------------
(* main.                                                                   *)

LEMMA LoadSettingsInv == IInv /\ LoadSettings => IInv'
<1> SUFFICES ASSUME IInv, LoadSettings PROVE IInv'
  OBVIOUS
<1>1. CASE Valid(env)
  <2>1. Goto("registry")
    BY <1>1 DEF LoadSettings
  <2>2. Typed'
    BY <2>1 DEF Goto, others, IInv, Typed, Mains
  <2>3. Draining'
    BY <2>1 DEF Goto, others, IInv, Draining, InFlight, LoadSettings, Ended
  <2>4. listener = "none" /\ main' = "registry"
    BY <2>1 DEF Goto, IInv, Known, LoadSettings
  <2> QED
    BY <1>1, <2>1, <2>2, <2>3, <2>4, QuietInv DEF Goto, others
<1>2. CASE ~Valid(env)
  BY <1>2, DiesInv DEF LoadSettings, Alive, Ended
<1> QED
  BY <1>1, <1>2

LEMMA LoadRegistryInv == IInv /\ LoadRegistry => IInv'
<1> SUFFICES ASSUME IInv, LoadRegistry PROVE IInv'
  OBVIOUS
<1> USE DEF LoadRegistry
<1>1. Valid(env) /\ listener = "none" /\ InFlight = {} /\ env \in Environment
  BY LifecycleAssumption DEF IInv, Known, Typed
<1>2. InFlight' = {}
  BY <1>1 DEF InFlight
<1>3. limits' \in Limits
  BY <1>1, LimitsTyped
<1>4. Typed'
  BY <1>1, <1>3 DEF IInv, Typed, Mains
<1>5. Known'
  BY <1>1, <1>2 DEF Known, Valid, Panics, LimitsOf, Getenv
<1>6. Fits'
  <2>1. ~Panics(env) => limits'.slots \in Nat
    BY <1>3 DEF Panics, LimitsOf, Limits, Ints
  <2> QED
    BY <1>1, <1>2, <2>1, FS_EmptySet DEF Fits
<1>7. Draining'
  BY <1>1 DEF IInv, Draining, Ended, Typed
<1> QED
  BY <1>4, <1>5, <1>6, <1>7 DEF IInv

LEMMA StartInv == IInv /\ (RegistryFails \/ StartFails \/ LogReady \/ Notify) => IInv'
<1>1. IInv /\ RegistryFails => IInv'
  BY DiesInv DEF RegistryFails, Alive, Ended
<1>2. IInv /\ StartFails => IInv'
  BY DiesInv DEF StartFails, Alive, Ended
<1>3. ASSUME IInv, LogReady \/ Notify PROVE IInv'
  <2>1. /\ main \in {"starting", "notify"} /\ main' \in {"notify", "serving"}
        /\ UNCHANGED others
    BY <1>3 DEF LogReady, Notify, Goto
  <2>2. Typed'
    BY <1>3, <2>1 DEF others, IInv, Typed, Mains
  <2>3. Draining'
    BY <1>3, <2>1 DEF others, IInv, Draining, Ended, InFlight
  <2>4. listener # "none"
    BY <1>3, <2>1 DEF IInv, Known
  <2> QED
    BY <1>3, <2>1, <2>2, <2>3, <2>4, QuietInv DEF others
<1> QED
  BY <1>1, <1>2, <1>3

LEMMA BeginShutdownInv == IInv /\ BeginShutdown => IInv'
<1> SUFFICES ASSUME IInv, BeginShutdown PROVE IInv'
  OBVIOUS
<1> USE DEF BeginShutdown, Closes
<1>1. InFlight' = InFlight /\ listener # "none"
  BY DEF IInv, Known, InFlight
<1>2. Typed'
  BY DEF IInv, Typed, Mains
<1>3. Known'
  BY <1>1 DEF IInv, Known, Valid, Panics, LimitsOf, Getenv
<1>4. Fits'
  BY <1>1 DEF IInv, Fits
<1>5. Draining'
  BY DEF IInv, Draining, Ended
<1> QED
  BY <1>2, <1>3, <1>4, <1>5 DEF IInv

LEMMA EndShutdownInv == IInv /\ EndShutdown => IInv'
<1> SUFFICES ASSUME IInv, EndShutdown PROVE IInv'
  OBVIOUS
<1> USE DEF EndShutdown, Goto, others
<1>1. Typed'
  BY DEF IInv, Typed, Mains
<1>2. Draining'
  BY DEF IInv, Draining, Ended, Drained, InFlight
<1> QED
  BY <1>1, <1>2, QuietInv

LEMMA ReturnInv == IInv /\ Return => IInv'
<1> SUFFICES ASSUME IInv, Return PROVE IInv'
  OBVIOUS
<1>1. Alive
  BY DEF Return, Closing, Alive, Ended
<1>2. main = "closing" => Drained
  BY DEF IInv, Draining, Drained
<1>3. CASE main = "closing"
  BY <1>1, <1>2, <1>3, DiesInv DEF Return, Ended
<1>4. CASE main = "panicking"
  BY <1>1, <1>4, DiesInv DEF Return, Ended
<1> QED
  BY <1>3, <1>4 DEF Return, Closing

(* The listener, signals, timers and the cleanup goroutine.                *)

LEMMA ListenerInv == IInv /\ (Listens \/ ListenerFails) => IInv'
<1> SUFFICES ASSUME IInv, Listens \/ ListenerFails PROVE IInv'
  OBVIOUS
<1>1. /\ listener \in {"binding", "listening"}
      /\ listener' \in {"listening", "failed"}
      /\ UNCHANGED <<env, main, limits, signal, timedOut, cleaner, conn>>
  BY DEF Listens, ListenerFails
<1>2. InFlight' = InFlight
  BY <1>1 DEF InFlight
<1>3. Typed'
  BY <1>1 DEF IInv, Typed, Mains
<1>4. Known'
  BY <1>1, <1>2 DEF IInv, Known, Draining, Valid, Panics, LimitsOf, Getenv
<1>5. Fits'
  BY <1>1, <1>2 DEF IInv, Fits
<1>6. Draining'
  BY <1>1, <1>2 DEF IInv, Draining, Ended
<1> QED
  BY <1>3, <1>4, <1>5, <1>6 DEF IInv

LEMMA AroundInv ==
    IInv /\ (SendSignal \/ DeliverSignal \/ TimeOut \/ CleanerStops) => IInv'
<1>1. ASSUME IInv, DeliverSignal, ~Notified PROVE IInv'
  BY <1>1, DiesInv DEF DeliverSignal, Ended
<1>2. ASSUME IInv,
             \/ SendSignal \/ TimeOut \/ CleanerStops
             \/ DeliverSignal /\ Notified
      PROVE  IInv'
  <2>1. /\ UNCHANGED <<env, main, limits, listener, conn>>
        /\ \/ signal' = signal
           \/ signal' = "sent"
           \/ signal' = "stop" /\ main \in {"serving", "draining", "closing"}
        /\ timedOut' \in BOOLEAN /\ (timedOut => timedOut')
        /\ cleaner' = cleaner \/ cleaner' = "gone"
    BY <1>2 DEF SendSignal, TimeOut, CleanerStops, DeliverSignal, Notified,
                IInv, Typed
  <2>2. Typed'
    BY <1>2, <2>1 DEF IInv, Typed, Mains
  <2>3. Draining'
    <3>1. InFlight' = InFlight
      BY <2>1 DEF InFlight
    <3> QED
      BY <1>2, <2>1, <3>1 DEF IInv, Typed, Draining
  <2> QED
    BY <1>2, <2>1, <2>2, <2>3, QuietInv DEF IInv, Known
<1> QED
  BY <1>1, <1>2

(* Connections.                                                            *)

LEMMA OpenInv == ASSUME NEW c \in Connections PROVE IInv /\ Open(c) => IInv'
<1> SUFFICES ASSUME IInv, Open(c) PROVE IInv'
  OBVIOUS
<1> USE DEF Open
<1>1. limits.slots \in Nat /\ IsFiniteSet(InFlight) /\ Cardinality(InFlight) \in Nat
  BY SlotsNat, InFlightFinite
<1>2. c \notin InFlight
  BY DEF InFlight
<1>3. Typed'
  BY DEF IInv, Typed, Mains
<1>4. Known'
  BY DEF IInv, Known, Valid, Panics, LimitsOf, Getenv
<1>5. Fits'
  <2>1. CASE Cardinality(InFlight) < limits.slots
    <3>1. InFlight' = InFlight \cup {c}
      BY <2>1 DEF InFlight, IInv, Typed
    <3>2. Cardinality(InFlight') = Cardinality(InFlight) + 1
      BY <1>1, <1>2, <3>1, FS_AddElement
    <3> QED
      BY <1>1, <2>1, <3>2 DEF Fits
  <2>2. CASE ~(Cardinality(InFlight) < limits.slots)
    <3>1. InFlight' = InFlight
      BY <2>2 DEF InFlight, IInv, Typed
    <3> QED
      BY <3>1 DEF IInv, Fits
  <2> QED
    BY <2>1, <2>2
<1>6. Draining'
  <2>1. \A d \in Connections : conn[d] # "cut" => conn'[d] # "cut"
    BY DEF IInv, Typed
  <2>2. listener = "listening" /\ main \notin {"draining", "closing"}
    BY DEF IInv, Draining
  <2> QED
    BY <2>1, <2>2 DEF IInv, Draining
<1> QED
  BY <1>3, <1>4, <1>5, <1>6 DEF IInv

LEMMA ReplyInv == ASSUME NEW c \in Connections PROVE IInv /\ Reply(c) => IInv'
<1> SUFFICES ASSUME IInv, Reply(c) PROVE IInv'
  OBVIOUS
<1> USE DEF Reply
<1>1. InFlight' = InFlight \ {c} /\ c \in InFlight
  BY DEF InFlight, IInv, Typed
<1>2. Typed'
  BY DEF IInv, Typed, Mains
<1>3. Known'
  BY <1>1 DEF IInv, Known, Valid, Panics, LimitsOf, Getenv
<1>4. Fits'
  <2>1. Cardinality(InFlight') = Cardinality(InFlight) - 1
    BY <1>1, InFlightFinite, FS_RemoveElement
  <2>2. listener # "none"
    BY <1>1 DEF IInv, Known
  <2> QED
    BY <2>1, <2>2, InFlightFinite, SlotsNat DEF IInv, Fits
<1>5. Draining'
  <2>1. \A d \in Connections : conn[d] # "cut" => conn'[d] # "cut"
    BY DEF IInv, Typed
  <2> QED
    BY <1>1, <2>1 DEF IInv, Draining
<1> QED
  BY <1>2, <1>3, <1>4, <1>5 DEF IInv

THEOREM NextInv == IInv /\ [Next]_vars => IInv'
<1> SUFFICES ASSUME IInv, [Next]_vars PROVE IInv'
  OBVIOUS
<1>1. CASE MainSteps
  BY <1>1, LoadSettingsInv, LoadRegistryInv, StartInv, BeginShutdownInv,
     EndShutdownInv, ReturnInv DEF MainSteps
<1>2. CASE Listens \/ ListenerFails \/ SendSignal \/ DeliverSignal
              \/ TimeOut \/ CleanerStops
  BY <1>2, ListenerInv, AroundInv
<1>3. CASE \E c \in Connections : Open(c) \/ Reply(c)
  BY <1>3, OpenInv, ReplyInv
<1>4. CASE UNCHANGED vars
  BY <1>4 DEF vars, others, IInv, Typed, Known, Fits, Draining, InFlight,
              Valid, Panics, LimitsOf, Getenv
<1> QED
  BY <1>1, <1>2, <1>3, <1>4 DEF Next

(* The invariant holds in every state of every execution.                  *)
THEOREM Invariance == Spec => []IInv
  BY InitInv, NextInv, PTL DEF Spec

(* The variables of the process keep their types, and no signal waits in   *)
(* the channel before main has asked for signals.                          *)
THEOREM TypeCorrect == Spec => []TypeOK
<1>1. IInv => TypeOK
  BY DEF IInv, Typed, Draining, Mains, TypeOK
<1> QED
  BY <1>1, Invariance, PTL

(* Exit code 0 before the five seconds are over cuts off no request.       *)
THEOREM GracefulExit == Spec => []ExitIsGraceful
<1>1. IInv => ExitIsGraceful
  BY DEF IInv, Draining, ExitIsGraceful
<1> QED
  BY <1>1, Invariance, PTL

(* A process that listens runs with the limits of its environment, for any *)
(* width of an int, wherever their products with the units fit into one.   *)
THEOREM LimitsKept == Spec => []LimitsAsSet
<1>1. ASSUME IInv PROVE LimitsAsSet
  <2> SUFFICES ASSUME listener # "none"
               PROVE  /\ \A name \in Names : env[name].kind # "bad"
                      /\ Asked("STATE_TTL_SECONDS") * Second \in Ints =>
                            limits.ttl = Asked("STATE_TTL_SECONDS") * Second
                      /\ Asked("STATE_MAX_ENTRIES") * 1 \in Ints =>
                            limits.entries = Asked("STATE_MAX_ENTRIES") * 1
                      /\ Asked("STATE_MAX_MB") * Megabyte \in Ints =>
                            limits.bytes = Asked("STATE_MAX_MB") * Megabyte
                      /\ Asked("MAX_INFLIGHT") >= Cardinality(InFlight)
    BY DEF LimitsAsSet
  <2>1. /\ env \in Environment /\ Valid(env) /\ limits = LimitsOf(env)
        /\ Cardinality(InFlight) <= limits.slots
    BY <1>1, LifecycleAssumption DEF IInv, Typed, Known, Fits
  <2>2. \A name \in Names : Asked(name) = Getenv(env, name)
                                /\ env[name].kind # "bad"
    BY <2>1, AskedIsRead
  <2>3. /\ {"STATE_TTL_SECONDS", "STATE_MAX_ENTRIES", "STATE_MAX_MB",
            "MAX_INFLIGHT"} \subseteq Names
        /\ Getenv(env, "STATE_MAX_ENTRIES") \in Int
    BY <2>1, GetenvInts, SettingsAssumption DEF Names, Ints
  <2>4. limits.slots \in Int /\ Cardinality(InFlight) \in Int
    BY <1>1, SlotsNat, InFlightFinite
  <2> QED
    BY <2>1, <2>2, <2>3, <2>4, WrapExact DEF LimitsOf
<1> QED
  BY <1>1, Invariance, PTL
=============================================================================
