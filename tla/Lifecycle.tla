------------------------------ MODULE Lifecycle ------------------------------
(***************************************************************************)
(* One life of the process of cmd/piiproxy: settings, registry, store,     *)
(* listener, readiness, the signal, and the shutdown within five seconds.  *)
(*                                                                         *)
(* A connection is one request to /process.  The store is seen through its *)
(* limits and its cleanup goroutine, which Close joins (module Store).     *)
(* The channel errCh holds an error exactly when the listener has failed.  *)
(***************************************************************************)
EXTENDS Settings, FiniteSets

CONSTANTS
    Connections,
    Environments    \* the environments the process may be started in

ASSUME LifecycleAssumption ==
    Environments \subseteq Environment /\ IsFiniteSet(Connections)

VARIABLES
    env,        \* the environment
    main,       \* where main stands, or how the process has ended
    limits,     \* what the store and the server were made with
    listener,   \* the API: "none", "binding", "listening", "failed", "closed"
    signal,     \* SIGINT or SIGTERM: "none", "sent", "stop" (in the channel)
    timedOut,   \* the five seconds of the shutdown context are over
    cleaner,    \* the cleanup goroutine: "none", "running", "gone"
    conn        \* each: "none", "served", "answered", "refused", "cut"

others == <<env, limits, listener, signal, timedOut, cleaner, conn>>
vars == <<main, others>>

Ended == {"exit 0", "exit 1", "exit 2", "killed"}

-----------------------------------------------------------------------------
Init ==
    /\ env \in Environments
    /\ main = "settings"
    /\ limits = NoLimits
    /\ listener = "none"
    /\ signal = "none"
    /\ timedOut = FALSE
    /\ cleaner = "none"
    /\ conn = [c \in Connections |-> "none"]

Alive == main \notin Ended

InFlight == {c \in Connections : conn[c] = "served"}

Goto(label) == main' = label /\ UNCHANGED others

(* The process is gone, and with it every goroutine and connection.        *)
Dies(how) ==
    /\ main' = how
    /\ conn' = [c \in Connections |-> IF c \in InFlight THEN "cut" ELSE conn[c]]
    /\ listener' = IF listener = "none" THEN "none" ELSE "closed"
    /\ cleaner' = IF cleaner = "none" THEN "none" ELSE "gone"
    /\ UNCHANGED <<env, limits, signal, timedOut>>

LoadSettings ==
    /\ main = "settings"
    /\ IF Valid(env) THEN Goto("registry") ELSE Dies("exit 1")

(* A file that cannot be read or is not valid (module ConfigLoad).         *)
RegistryFails ==
    /\ main = "registry"
    /\ Dies("exit 1")

LoadRegistry ==
    /\ main = "registry"
    /\ limits' = LimitsOf(env)
    /\ cleaner' = "running"
    /\ IF Panics(env)
       THEN main' = "panicking" /\ UNCHANGED listener
       ELSE main' = "starting" /\ listener' = "binding"
    /\ UNCHANGED <<env, signal, timedOut, conn>>

(* ListenAndServe, in its own goroutine, takes the time it takes.          *)
Listens ==
    /\ listener = "binding"
    /\ listener' = "listening"
    /\ UNCHANGED <<env, main, limits, signal, timedOut, cleaner, conn>>

(* The address is in use, a certificate does not load, or Accept fails.    *)
ListenerFails ==
    /\ listener \in {"binding", "listening"}
    /\ listener' = "failed"
    /\ UNCHANGED <<env, main, limits, signal, timedOut, cleaner, conn>>

(* When the error and the 100 ms are there together, select takes either.  *)
StartFails ==
    /\ main = "starting"
    /\ listener = "failed"
    /\ Dies("exit 1")

LogReady == main = "starting" /\ Goto("notify")

Notify == main = "notify" /\ Goto("serving")

SendSignal ==
    /\ signal = "none"
    /\ Alive
    /\ signal' = "sent"
    /\ UNCHANGED <<env, main, limits, listener, timedOut, cleaner, conn>>

Notified_Variant == main \notin {"settings", "registry"}

Notified == main \in {"serving", "draining", "closing"}

(* Before signal.Notify, a signal ends the process at once.                *)
DeliverSignal ==
    /\ signal = "sent" /\ Alive
    /\ IF Notified
       THEN /\ signal' = "stop"
            /\ UNCHANGED <<env, main, limits, listener, timedOut, cleaner, conn>>
       ELSE Dies("killed")

-----------------------------------------------------------------------------
(* A request finds a slot, or is answered with 429 (module Proxy).         *)
Open(c) ==
    /\ listener = "listening"
    /\ conn[c] = "none"
    /\ conn' = [conn EXCEPT ![c] =
                   IF Cardinality(InFlight) < limits.slots THEN "served" ELSE "refused"]
    /\ UNCHANGED <<env, main, limits, listener, signal, timedOut, cleaner>>

Reply(c) ==
    /\ conn[c] = "served"
    /\ conn' = [conn EXCEPT ![c] = "answered"]
    /\ UNCHANGED <<env, main, limits, listener, signal, timedOut, cleaner>>

Closes(label) ==
    /\ main = "serving"
    /\ signal = "stop"
    /\ main' = label
    /\ listener' = "closed"
    /\ UNCHANGED <<env, limits, signal, timedOut, cleaner, conn>>

\* Close in the place of Shutdown.
BeginShutdown_Variant == Closes("closing")

(* Shutdown closes the listeners, then waits for the handlers.             *)
BeginShutdown == Closes("draining")

TimeOut ==
    /\ main = "draining"
    /\ ~timedOut
    /\ timedOut' = TRUE
    /\ UNCHANGED <<env, main, limits, listener, signal, cleaner, conn>>

Drained == InFlight = {} \/ timedOut

(* Its error is ignored; the metrics server has no handler that waits.     *)
EndShutdown == main = "draining" /\ Drained /\ Goto("closing")

(* The deferred Close of the store runs on return and in a panic alike.    *)
Closing == main \in {"closing", "panicking"}

CleanerStops ==
    /\ Closing
    /\ cleaner = "running"
    /\ cleaner' = "gone"
    /\ UNCHANGED <<env, main, limits, listener, signal, timedOut, conn>>

StoreClosed_Variant == cleaner = "none"

StoreClosed == cleaner = "gone"

Return ==
    /\ Closing
    /\ StoreClosed
    /\ Dies(IF main = "closing" THEN "exit 0" ELSE "exit 2")

MainSteps ==
    \/ LoadSettings \/ RegistryFails \/ LoadRegistry \/ StartFails \/ LogReady
    \/ Notify \/ BeginShutdown \/ EndShutdown \/ Return

Next ==
    \/ MainSteps
    \/ Listens \/ ListenerFails \/ SendSignal \/ DeliverSignal
    \/ TimeOut \/ CleanerStops
    \/ \E c \in Connections : Open(c) \/ Reply(c)

Spec == Init /\ [][Next]_vars

(* main runs, signals and timers arrive, the cleanup goroutine sees stop.  *)
(* No handler is obliged to return: the five seconds are there for that.   *)
Fairness ==
    WF_vars(MainSteps) /\ WF_vars(DeliverSignal) /\ WF_vars(TimeOut)
        /\ WF_vars(CleanerStops)

FairSpec == Spec /\ Fairness

-----------------------------------------------------------------------------
(* Properties *)

(* Every variable keeps its type, and a signal waits in the channel only   *)
(* once main has asked for it.                                             *)
TypeOK ==
    /\ env \in Environments
    /\ main \in {"settings", "registry", "starting", "notify", "serving",
                 "draining", "closing", "panicking"} \cup Ended
    /\ limits \in Limits
    /\ listener \in {"none", "binding", "listening", "failed", "closed"}
    /\ signal \in {"none", "sent", "stop"}
    /\ timedOut \in BOOLEAN
    /\ cleaner \in {"none", "running", "gone"}
    /\ conn \in [Connections -> {"none", "served", "answered", "refused", "cut"}]
    /\ signal = "stop" => main \in {"serving", "draining", "closing"} \cup Ended

(* A process that ends with code 0 cut off no request it was serving,      *)
(* unless the five seconds were over.                                      *)
ExitIsGraceful ==
    main = "exit 0" /\ ~timedOut => \A c \in Connections : conn[c] # "cut"

Asked(name) == IF env[name].kind = "number" THEN env[name].n ELSE Default[name]

(* Where a listener was ever opened, no number of the environment was      *)
(* unusable, and each limit is the one set, or the default, as long as its *)
(* product with the unit is an int (README.md:114-117); what is served at  *)
(* once never passes MAX_INFLIGHT as set.                                  *)
LimitsAsSet ==
    listener # "none" =>
        /\ \A name \in Names : env[name].kind # "bad"
        /\ \A l \in {<<"STATE_TTL_SECONDS", Second, limits.ttl>>,
                     <<"STATE_MAX_ENTRIES", 1, limits.entries>>,
                     <<"STATE_MAX_MB", Megabyte, limits.bytes>>} :
             Asked(l[1]) * l[2] \in Ints => l[3] = Asked(l[1]) * l[2]
        /\ Asked("MAX_INFLIGHT") >= Cardinality(InFlight)

(* A process asked to end does end, whatever its handlers and listeners do *)
(* and wherever in its start the signal finds it.                          *)
SignalEndsProcess == signal = "sent" ~> ~Alive

(* The comment in main: wait until the listener listens, or fails to.      *)
ReadyIsListening == [][LogReady => listener \in {"listening"}]_vars
=============================================================================
