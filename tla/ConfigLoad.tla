----------------------------- MODULE ConfigLoad -----------------------------
(***************************************************************************)
(* How internal/config turns consumers.yaml and the environment into the   *)
(* registry of consumers: config.Load and everything it calls.             *)
(*                                                                         *)
(* A file is what the YAML decoder makes of it: whether its first document *)
(* can be decoded, what follows that document, and the consumers in it.    *)
(***************************************************************************)
EXTENDS Integers, FiniteSets, Sequences, Functions

CONSTANTS
    IDs,         \* the ids files name
    GoodIDs,     \* those that match idRe
    Envs,        \* the environment variables files name
    Environ,     \* variable -> its value
    NoKey,       \* the empty string: unset, set to nothing, or not named
    TypeNames,   \* the types files name
    KnownTypes,  \* pii.AllTypes
    Files        \* the files considered

RawConsumer == [id : IDs, env : Envs, enabled : BOOLEAN,
                types : SUBSET TypeNames, unmask : BOOLEAN]

(* The first document: as expected, with a field nobody knows, or not YAML.*)
Heads == {"expected", "unknownField", "malformed"}

(* After it: nothing, a second document, or something that is not YAML.    *)
Tails == {"nothing", "document", "malformed"}

File == [head : Heads, tail : Tails, consumers : Seq(RawConsumer)]

ASSUME ConfigAssumption ==
    /\ GoodIDs \subseteq IDs
    /\ KnownTypes \subseteq TypeNames
    /\ Envs = DOMAIN Environ
    /\ \A f \in Files : /\ f.head \in Heads
                        /\ f.tail \in Tails
                        /\ f.consumers \in Seq(RawConsumer)

VARIABLES
    file,
    phase,     \* "check", "decode", "consumers", "accepted", "rejected"
    next,      \* how many consumers have been taken in
    byID,      \* id -> consumer
    byKey,     \* key -> id
    seenKeys   \* key -> id, while parsing

loadVars == <<file, phase, next, byID, byKey, seenKeys>>

-----------------------------------------------------------------------------
LoadInit ==
    /\ file \in Files
    /\ phase = "check"
    /\ next = 0
    /\ byID = [c \in {} |-> 0]
    /\ byKey = [k \in {} |-> 0]
    /\ seenKeys = [k \in {} |-> 0]

Become(p) ==
    /\ phase' = p
    /\ UNCHANGED <<file, next, byID, byKey, seenKeys>>

SingleDocument_Variant == file.head # "malformed"

(* Any failure to decode a second document passes for the end of the file. *)
SingleDocument == file.head # "malformed" /\ file.tail # "document"

ValidateSingleDocument ==
    /\ phase = "check"
    /\ Become(IF SingleDocument THEN "decode" ELSE "rejected")

(* KnownFields(true), into a list of consumers that must not be empty.     *)
Decode ==
    /\ phase = "decode"
    /\ Become(IF file.head = "expected" /\ file.consumers # <<>>
              THEN "consumers" ELSE "rejected")

Key(rc) == Environ[rc.env]

Duplicate_Variant(rc) == rc.id \in DOMAIN byID

Duplicate(rc) ==
    \/ rc.id \in DOMAIN byID
    \/ Key(rc) # NoKey /\ Key(rc) \in DOMAIN seenKeys

ValidConsumer(rc) ==
    /\ rc.id \in GoodIDs
    /\ ~Duplicate(rc)
    /\ rc.types \subseteq KnownTypes

Consumer(rc) ==
    [key |-> Key(rc), enabled |-> rc.enabled, allowed |-> rc.types,
     unmask |-> rc.unmask]

Add(f, x, y) == [z \in DOMAIN f \cup {x} |-> IF z = x THEN y ELSE f[z]]

AddKey_Variant(f, rc) == Add(f, Key(rc), rc.id)

\* A consumer without a key is in no map of keys.
AddKey(f, rc) == IF Key(rc) = NoKey THEN f ELSE Add(f, Key(rc), rc.id)

AddConsumer ==
    /\ phase = "consumers"
    /\ next < Len(file.consumers)
    /\ LET rc == file.consumers[next + 1]
       IN  /\ ValidConsumer(rc)
           /\ byID' = Add(byID, rc.id, Consumer(rc))
           /\ byKey' = AddKey(byKey, rc)
           /\ seenKeys' = AddKey(seenKeys, rc)
    /\ next' = next + 1
    /\ UNCHANGED <<file, phase>>

RefuseConsumer ==
    /\ phase = "consumers"
    /\ next < Len(file.consumers)
    /\ ~ValidConsumer(file.consumers[next + 1])
    /\ Become("rejected")

ReturnRegistry ==
    /\ phase = "consumers"
    /\ next = Len(file.consumers)
    /\ Become("accepted")

LoadNext ==
    \/ ValidateSingleDocument \/ Decode
    \/ AddConsumer \/ RefuseConsumer \/ ReturnRegistry

LoadSpec == LoadInit /\ [][LoadNext]_loadVars

-----------------------------------------------------------------------------
(* Properties *)

ConsumerRecord ==
    [key : Range(Environ), enabled : BOOLEAN, allowed : SUBSET KnownTypes,
     unmask : BOOLEAN]

LoadTypeOK ==
    /\ file \in Files
    /\ phase \in {"check", "decode", "consumers", "accepted", "rejected"}
    /\ next \in 0 .. Len(file.consumers)
    /\ DOMAIN byID \subseteq GoodIDs
    /\ byID \in [DOMAIN byID -> ConsumerRecord]
    /\ DOMAIN byKey \subseteq Range(Environ) \ {NoKey}
    /\ byKey \in [DOMAIN byKey -> DOMAIN byID]
    /\ seenKeys = byKey

(* The first document as somebody sees it who has all of it before him: no *)
(* order of its consumers hides a fault in one.                            *)
Faultless(f) ==
    LET Is == DOMAIN f.consumers
        c(i) == f.consumers[i]
    IN  /\ f.head = "expected"
        /\ Is # {}
        /\ \A i \in Is : c(i).id \in GoodIDs /\ c(i).types \subseteq KnownTypes
        /\ \A i, j \in Is : i # j =>
              /\ c(i).id # c(j).id
              /\ Key(c(i)) = Key(c(j)) => Key(c(i)) = NoKey

(* A file to be accepted: one document, without a fault, and no more.      *)
Acceptable(f) == Faultless(f) /\ f.tail = "nothing"

(* Of what Parse accepts the first document is faultless, and no second    *)
(* one follows; what it rejects is not acceptable.  This leaves one case,  *)
(* that of something behind the first document that is none: OneDocument.  *)
FaultsDecide ==
    /\ phase = "accepted" => Faultless(file) /\ file.tail # "document"
    /\ phase = "rejected" => ~Acceptable(file)

(* The comment on validateSingleDocument (config.go:172): it checks that   *)
(* the file holds exactly one document.  Parse does not keep it.           *)
OneDocument == phase = "accepted" => file.tail = "nothing"

(* A key leads to one consumer, the one that has it: what the HTTP layer   *)
(* relies on, and the assumption of module Registry.                       *)
KeysUnique ==
    \A c, d \in DOMAIN byID :
        byID[c].key = byID[d].key /\ byID[c].key # NoKey => c = d

(* The two maps answer as Registry's definition by search does.            *)
R == INSTANCE Registry WITH
        Consumers <- DOMAIN byID, Kinds <- KnownTypes, Registered <- byID,
        PublicConsumer <- {}

AuthenticateByMap(key) ==
    {c \in DOMAIN byID : key \in DOMAIN byKey /\ byKey[key] = c /\ byID[c].enabled}

LookupsAgree ==
    phase = "accepted" =>
        \A key \in Range(Environ) :
            AuthenticateByMap(key) = IF key = NoKey THEN {} ELSE R!Authenticate(key)
=============================================================================
