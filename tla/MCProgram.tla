----------------------------- MODULE MCProgram -----------------------------
(* Instances of Program for TLC. *)
EXTENDS Program, TLC

CONSTANTS q1, q2, one, two, bad, envA, envB, envA2, unset, ka, kb, email, typo

MCConnections == {q1, q2}

(* Five bits to an int, of which a product of the settings may need more.  *)
MCDefault ==
    [name \in Names |-> CASE name = "STATE_TTL_SECONDS" -> 4
                          [] name = "STATE_MAX_ENTRIES" -> 3
                          [] name = "STATE_MAX_MB" -> 2
                          [] name = "MAX_INFLIGHT" -> 2]

(* At most two of the four differ from the default.                        *)
MCSettings == {Absent, Bad} \cup {Number(i) : i \in {-2, 0, 1, 5, 15}}

MCEnvironments ==
    {e \in [Names -> MCSettings] :
        Cardinality({name \in Names : e[name] # Absent}) <= 2}

\* Two variables hold the same key, and one is not set.
MCEnviron == envA :> ka @@ envA2 :> ka @@ envB :> kb @@ unset :> NoKey

MCRaw(ids, envs, types) ==
    [id : ids, env : envs, enabled : BOOLEAN, types : types, unmask : {FALSE}]

MCSequences(S, n) == UNION {[1 .. m -> S] : m \in 0 .. n}

\* Every short list of consumers, in a file that is otherwise in order.
MCLists ==
    [head : {"expected"}, tail : {"nothing"},
     consumers : MCSequences(MCRaw(IDs, Envs, {{}, {email}, {typo}}), 2)
        \cup [1 .. 3 -> MCRaw({one, two}, {envA, envA2, unset}, {{}})]]

\* Every kind of file, with no consumers or one.
MCShapes ==
    [head : Heads, tail : Tails,
     consumers : MCSequences(MCRaw({one}, {envA}, {{}}), 1)]

MCFiles == MCLists \cup MCShapes

(* Every file where nothing is set, and a file of every shape elsewhere.   *)
MCInit ==
    /\ env = [name \in Names |-> Absent] \/ file \in MCShapes
    /\ ProgramInit

MCSpec == MCInit /\ [][ProgramNext]_programVars /\ ProgramFairness
=============================================================================
