------------------------------- MODULE MCProxy -------------------------------
(* Instances of Proxy for TLC. *)
EXTENDS Proxy, TLC

CONSTANTS
    alice, bob,              \* consumers
    r1, r2, r3,              \* requests
    id1,                     \* payload ids
    email, phone,            \* kinds
    v,                       \* a value
    letter, reply,           \* skeletons
    ka, kb, bad              \* keys

Account(key, enabled, allowed, unmask) ==
    [key |-> key, enabled |-> enabled, allowed |-> allowed, unmask |-> unmask]

\* alice masks every kind and may unmask; bob masks e-mails only and may not.
MCRegistered ==
    alice :> Account(ka, TRUE, {}, TRUE) @@ bob :> Account(kb, TRUE, {email}, FALSE)

Text(items) == [skel |-> letter, raw |-> items, toks |-> {}]

\* A text with an item of each kind, and one with a single item.
MCTwoTexts == {Text({<<email, v>>, <<phone, v>>}), Text({<<email, v>>})}
MCOneText  == {Text({<<k, v>> : k \in Kinds})}

Headers(apiKey, bearer) == [apiKey |-> apiKey, bearer |-> bearer]

\* alice's key; bob's as a bearer token; an unknown key hiding a good one.
MCHeaders ==
    {Headers(ka, NoKey), Headers(NoKey, kb), Headers(bad, ka)}
\* alice's key alone.
MCAliceHeaders == {Headers(ka, NoKey)}
\* alice's key; no key at all; an unknown key hiding a good one.
MCPublicHeaders ==
    {Headers(ka, NoKey), Headers(NoKey, NoKey), Headers(bad, ka)}

MCRequests3 == {r1, r2, r3}
Symmetry3 == Permutations(MCRequests3)
=============================================================================
