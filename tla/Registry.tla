------------------------------ MODULE Registry ------------------------------
(***************************************************************************)
(* The consumers of internal/config as the HTTP layer sees them: who may   *)
(* call, what is masked for whom, who may have values restored.  The       *)
(* registry is built once at start and never changes.                      *)
(*                                                                         *)
(* An operator that looks a consumer up returns the set of the consumers   *)
(* it finds, which has one element or none.                                *)
(***************************************************************************)
CONSTANTS
    Consumers,       \* the ids of the configuration
    Kinds,           \* pii.Type
    NoKey,           \* an absent header, or an unset environment variable
    Registered,      \* consumer -> [key, enabled, allowed, unmask]
    PublicConsumer   \* {id} named by PUBLIC_CONSUMER, or {}

(* What config.Parse guarantees: two consumers share no key but the empty  *)
(* one, and the allowed types are known ones.                              *)
ASSUME RegistryAssumption ==
    /\ \A c \in Consumers : /\ Registered[c].enabled \in BOOLEAN
                            /\ Registered[c].unmask \in BOOLEAN
                            /\ Registered[c].allowed \subseteq Kinds
    /\ \A c, d \in Consumers :
          Registered[c].key = Registered[d].key /\ Registered[c].key # NoKey
             => c = d

\* No list of allowed types means all of them.
AllowsType(c, kind) ==
    Registered[c].allowed = {} \/ kind \in Registered[c].allowed

ByID(ids) == Consumers \cap ids

Enabled(cs) == {c \in cs : Registered[c].enabled}

Authenticate(key) == Enabled({c \in Consumers : Registered[c].key = key})

\* X-API-Key hides Authorization even when its key is unknown.
Presented(headers) ==
    IF headers.apiKey # NoKey THEN headers.apiKey ELSE headers.bearer

\* The public consumer stands in only for a request that presents no key.
Caller(headers) ==
    IF Presented(headers) # NoKey
    THEN Authenticate(Presented(headers))
    ELSE Enabled(ByID(PublicConsumer))
=============================================================================
