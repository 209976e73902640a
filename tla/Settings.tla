------------------------------ MODULE Settings ------------------------------
(***************************************************************************)
(* The numbers of the environment and the limits made of them: loadSettings*)
(* of cmd/piiproxy, and what store.New and httpapi.New do with its result. *)
(* An environment gives each name a setting: absent or empty, no integer   *)
(* of the machine, or an integer.                                          *)
(***************************************************************************)
EXTENDS Integers

CONSTANTS
    Largest,    \* the largest int and the longest time.Duration, 2^63 - 1
    Second,     \* time.Second
    Megabyte,   \* 1024 * 1024
    Default     \* the numbers of loadSettings, by name

Names == {"STATE_TTL_SECONDS", "STATE_MAX_ENTRIES", "STATE_MAX_MB", "MAX_INFLIGHT"}

ASSUME SettingsAssumption ==
    /\ {Largest, Second, Megabyte} \subseteq Nat \ {0}
    /\ Default \in [Names -> 1 .. Largest]

Ints == -Largest - 1 .. Largest

Absent == [kind |-> "absent", n |-> 0]

Bad == [kind |-> "bad", n |-> 0]

Number(i) == [kind |-> "number", n |-> i]

Environment == [Names -> {Absent, Bad} \cup {Number(i) : i \in Ints}]

(* A product keeps the low bits of its two's complement.                   *)
Wrap(i) == ((i + Largest + 1) % (2 * (Largest + 1))) - (Largest + 1)

Valid(env) == \A name \in Names : env[name] # Bad

\* Zero taken for a variable that is not set.
Getenv_Variant(env, name) ==
    IF env[name].n = 0 THEN Default[name] ELSE env[name].n

Getenv(env, name) ==
    IF env[name] = Absent THEN Default[name] ELSE env[name].n

(* The limits of the store, and the capacity of the channel of slots.      *)
LimitsOf(env) ==
    [ttl     |-> Wrap(Getenv(env, "STATE_TTL_SECONDS") * Second),
     entries |-> Getenv(env, "STATE_MAX_ENTRIES"),
     bytes   |-> Wrap(Getenv(env, "STATE_MAX_MB") * Megabyte),
     slots   |-> Getenv(env, "MAX_INFLIGHT")]

(* No channel has a negative capacity: make panics.                        *)
Panics(env) == LimitsOf(env).slots < 0

NoLimits == [ttl |-> 0, entries |-> 0, bytes |-> 0, slots |-> 0]

Limits == [ttl : Ints, entries : Ints, bytes : Ints, slots : Ints]
=============================================================================
