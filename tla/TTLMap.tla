------------------------------- MODULE TTLMap -------------------------------
(***************************************************************************)
(* What the store promises its callers, with no table, budget or           *)
(* goroutine: a map whose bindings vanish by themselves once their time is *)
(* past.  A write binds the key or is refused and changes nothing; a read  *)
(* answers with the binding if there is one.                               *)
(***************************************************************************)
EXTENDS Integers

CONSTANTS Keys, Records, Life, Horizon

VARIABLES
    live,    \* key -> [record, until], the bindings whose time is not past
    now,
    answer   \* what the last call returned

vars == <<live, now, answer>>

Missed(k)  == [call |-> "get", key |-> k, found |-> FALSE]
Found(k)   == [call |-> "get", key |-> k, found |-> TRUE,
               record |-> live[k].record]
Written(k) == [call |-> "put", key |-> k, ok |-> TRUE]
Refused(k) == [call |-> "put", key |-> k, ok |-> FALSE]

Keep(t, m) == [k \in {x \in DOMAIN m : t <= m[x].until} |-> m[k]]

Init ==
    /\ live = [k \in {} |-> 0]
    /\ now = 0
    /\ answer = [call |-> "none"]

(* With a negative life the binding is past its time when it is made.      *)
Write(k, r) ==
    /\ live' = Keep(now, [x \in DOMAIN live \cup {k} |->
                             IF x = k THEN [record |-> r, until |-> now + Life]
                                      ELSE live[x]])
    /\ answer' = Written(k)
    /\ UNCHANGED now

Refuse(k) ==
    /\ answer' = Refused(k)
    /\ UNCHANGED <<live, now>>

Read(k) ==
    /\ answer' = IF k \in DOMAIN live THEN Found(k) ELSE Missed(k)
    /\ UNCHANGED <<live, now>>

Elapse ==
    /\ now < Horizon
    /\ now' = now + 1
    /\ live' = Keep(now', live)
    /\ UNCHANGED answer

Next ==
    \/ \E k \in Keys : Refuse(k) \/ Read(k) \/ \E r \in Records : Write(k, r)
    \/ Elapse

Spec == Init /\ [][Next]_vars
=============================================================================
