----------------------------- MODULE MaskService -----------------------------
(***************************************************************************)
(* What POST /process promises clients that wait for each answer, with no  *)
(* slots, locks, handlers or cleanup.  The first text under a key binds it *)
(* to a mask in one indivisible step.  For as long as the binding lives,   *)
(* every text under the key is answered from it and from nothing else.  A  *)
(* binding ends when its time is past or the process dies, never earlier   *)
(* and never later.  A request may be refused, and then changes nothing.   *)
(***************************************************************************)
EXTENDS Integers

CONSTANTS
    Requests, Calls, None,
    KeyOf(_),         \* the key a call goes to
    Made(_, _),       \* the record that masking the text of a call makes
    MayRestore(_),    \* the caller may have values restored
    Holds(_, _),      \* the text of a call holds a token of a record
    Restored(_, _),   \* that text with the values of the record
    Life, Horizon, MaxCrashes

VARIABLES
    bound,    \* key -> [record, until], the bindings whose time is not past
    now,
    crashes,
    asked,    \* the call of each request
    stage,    \* "idle", "asked", "answered", "heard", "lost"
    answer    \* what was decided: [status, direction, result]

vars == <<bound, now, crashes, asked, stage, answer>>

Masked(x)       == [status |-> 200, direction |-> "mask", result |-> x.masked]
Unmasked(text)  == [status |-> 200, direction |-> "unmask", result |-> text]
Refusal(status) == [status |-> status, direction |-> "reject", result |-> None]

(* The answer to call c under a key bound to record x.                     *)
Verdict(c, x) ==
    IF c.payload = x.source THEN Masked(x)
    ELSE IF ~MayRestore(c) THEN Refusal(403)
    ELSE IF ~Holds(c, x) THEN Refusal(409)
    ELSE Unmasked(Restored(c, x))

Living(t, m) == [k \in {j \in DOMAIN m : t <= m[j].until} |-> m[k]]

Init ==
    /\ bound = [k \in {} |-> 0]
    /\ now = 0
    /\ crashes = 0
    /\ asked = [r \in Requests |-> None]
    /\ stage = [r \in Requests |-> "idle"]
    /\ answer = [r \in Requests |-> None]

Ask(r) ==
    /\ stage[r] = "idle"
    /\ stage' = [stage EXCEPT ![r] = "asked"]
    /\ asked'[r] \in Calls
    /\ asked' = [asked EXCEPT ![r] = asked'[r]]
    /\ UNCHANGED <<bound, now, crashes, answer>>

Decide(r, a) ==
    /\ stage' = [stage EXCEPT ![r] = "answered"]
    /\ answer' = [answer EXCEPT ![r] = a]
    /\ UNCHANGED <<now, crashes, asked>>

(* The key of a request bound, until its time is past, to its own mask.    *)
Rebind(r) ==
    LET k == KeyOf(asked[r])
        x == Made(asked[r], r)
    IN  /\ Decide(r, Masked(x))
        /\ bound' = Living(now, [j \in DOMAIN bound \cup {k} |->
                                    IF j = k THEN [record |-> x, until |-> now + Life]
                                             ELSE bound[j]])

Bind(r) ==
    /\ stage[r] = "asked"
    /\ KeyOf(asked[r]) \notin DOMAIN bound
    /\ Rebind(r)

Consult(r) ==
    /\ stage[r] = "asked"
    /\ KeyOf(asked[r]) \in DOMAIN bound
    /\ Decide(r, Verdict(asked[r], bound[KeyOf(asked[r])].record))
    /\ UNCHANGED bound

Refuse(r) ==
    /\ stage[r] = "asked"
    /\ \E status \in {429, 503} : Decide(r, Refusal(status))
    /\ UNCHANGED bound

Hear(r) ==
    /\ stage[r] = "answered"
    /\ stage' = [stage EXCEPT ![r] = "heard"]
    /\ UNCHANGED <<bound, now, crashes, asked, answer>>

Elapse ==
    /\ now < Horizon
    /\ now' = now + 1
    /\ bound' = Living(now', bound)
    /\ UNCHANGED <<crashes, asked, stage, answer>>

(* The process dies, and with it all bindings and unheard answers.         *)
Crash ==
    /\ crashes < MaxCrashes
    /\ crashes' = crashes + 1
    /\ bound' = [k \in {} |-> 0]
    /\ stage' = [r \in Requests |->
                    IF stage[r] \in {"idle", "heard", "lost"} THEN stage[r] ELSE "lost"]
    /\ answer' = [r \in Requests |->
                    IF stage[r] = "heard" THEN answer[r] ELSE None]
    /\ UNCHANGED <<now, asked>>

Next ==
    \/ \E r \in Requests : Ask(r) \/ Bind(r) \/ Consult(r) \/ Refuse(r) \/ Hear(r)
    \/ Elapse \/ Crash

Spec == Init /\ [][Next]_vars
=============================================================================
