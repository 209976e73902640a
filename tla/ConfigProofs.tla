---------------------------- MODULE ConfigProofs ----------------------------
(***************************************************************************)
(* Loading the configuration, for every file of any length and every       *)
(* environment: what is accepted, that a key leads to one consumer, and    *)
(* that the maps find whom a search of the registry finds.                 *)
(*                                                                         *)
(* The maps under construction stand for the consumers taken in so far     *)
(* (Prefix), every key in use leads back to its consumer, and every entry  *)
(* of the map of keys to a consumer with that key (Linked).                *)
(*                                                                         *)
(* At the end, module Program: what is proved of loading and of the        *)
(* process holds of both together, and nothing starts before the file.     *)
(***************************************************************************)
EXTENDS Program, TLAPS

Taken == 1 .. next

Raw(i) == file.consumers[i]

Linked ==
    /\ \A c \in DOMAIN byID :
          byID[c].key # NoKey =>
              byID[c].key \in DOMAIN byKey /\ byKey[byID[c].key] = c
    /\ \A k \in DOMAIN byKey : byID[byKey[k]].key = k

PrefixMaps ==
    /\ DOMAIN byID = {Raw(i).id : i \in Taken}
    /\ DOMAIN byKey = {Key(Raw(i)) : i \in Taken} \ {NoKey}

PrefixValid ==
    /\ \A i \in Taken : Raw(i).id \in GoodIDs /\ Raw(i).types \subseteq KnownTypes
    /\ \A i, j \in Taken : i # j =>
          /\ Raw(i).id # Raw(j).id
          /\ Key(Raw(i)) = Key(Raw(j)) => Key(Raw(i)) = NoKey

Stages ==
    /\ phase \in {"check", "decode"} => next = 0
    /\ phase \in {"decode", "consumers", "accepted"} => file.tail # "document"
    /\ phase \in {"consumers", "accepted"} =>
          file.head = "expected" /\ file.consumers # <<>>
    /\ phase = "accepted" => next = Len(file.consumers)
    /\ phase = "rejected" => ~Acceptable(file)

IInv == LoadTypeOK /\ Linked /\ PrefixMaps /\ PrefixValid /\ Stages

-----------------------------------------------------------------------------
\* The files are what the YAML decoder can make of one.
LEMMA FileShape ==
    ASSUME file \in Files
    PROVE  /\ file.consumers \in Seq(RawConsumer)
           /\ Len(file.consumers) \in Nat
           /\ DOMAIN file.consumers = 1 .. Len(file.consumers)
           /\ \A i \in 1 .. Len(file.consumers) :
                 /\ Raw(i) \in RawConsumer
                 /\ Key(Raw(i)) \in Range(Environ)
  <1>1. file.consumers \in Seq(RawConsumer)
    BY ConfigAssumption
  <1>2. \A i \in 1 .. Len(file.consumers) : Raw(i) \in RawConsumer
    BY <1>1 DEF Raw
  <1>3. \A i \in 1 .. Len(file.consumers) : Key(Raw(i)) \in Range(Environ)
    BY <1>2, ConfigAssumption DEF Key, RawConsumer, Range
  <1> QED
    BY <1>1, <1>2, <1>3

\* The empty maps stand for the empty prefix.
LEMMA Initially == LoadInit => IInv
  <1> SUFFICES ASSUME LoadInit PROVE IInv
    OBVIOUS
  <1>1. next = 0 /\ Taken = {} /\ Len(file.consumers) \in Nat
    BY FileShape DEF LoadInit, Taken
  <1>2. DOMAIN byID = {} /\ DOMAIN byKey = {} /\ seenKeys = byKey
    BY DEF LoadInit
  <1>3. LoadTypeOK
    BY <1>1, <1>2 DEF LoadInit, LoadTypeOK
  <1> QED
    BY <1>1, <1>2, <1>3 DEF LoadInit, IInv, Linked, PrefixMaps, PrefixValid, Stages

\* A step that only moves on keeps what has been built.
LEMMA MovingKeeps ==
    ASSUME IInv, UNCHANGED <<file, next, byID, byKey, seenKeys>>,
           phase' \in {"check", "decode", "consumers", "accepted", "rejected"},
           Stages'
    PROVE  IInv'
  <1>1. LoadTypeOK' /\ Linked'
    BY DEF IInv, LoadTypeOK, Linked
  <1>2. \A i : Raw(i)' = Raw(i) /\ Key(Raw(i))' = Key(Raw(i))
    BY DEF Raw, Key
  <1>3. Taken' = Taken
    BY DEF Taken
  <1>4. PrefixMaps'
    BY <1>2, <1>3 DEF IInv, PrefixMaps
  <1>5. PrefixValid'
    BY <1>2, <1>3 DEF IInv, PrefixValid
  <1> QED
    BY <1>1, <1>4, <1>5 DEF IInv

\* Only a file with a second document, or none at all, is turned down here.
LEMMA ValidateKeeps == IInv /\ ValidateSingleDocument => IInv'
  <1> SUFFICES ASSUME IInv, ValidateSingleDocument PROVE IInv'
    OBVIOUS
  <1>1. UNCHANGED <<file, next, byID, byKey, seenKeys>>
    BY DEF ValidateSingleDocument, Become
  <1>2. phase = "check" /\ next = 0
    BY DEF ValidateSingleDocument, IInv, Stages
  <1>3. CASE SingleDocument
    <2>1. phase' = "decode"
      BY <1>3 DEF ValidateSingleDocument, Become
    <2> QED
      BY <1>1, <1>2, <1>3, <2>1, MovingKeeps DEF Stages, SingleDocument
  <1>4. CASE ~SingleDocument
    <2>1. phase' = "rejected"
      BY <1>4 DEF ValidateSingleDocument, Become
    <2>2. ~Acceptable(file)
      BY <1>4 DEF SingleDocument, Acceptable, Faultless
    <2> QED
      BY <1>1, <2>1, <2>2, MovingKeeps DEF Stages
  <1> QED
    BY <1>3, <1>4

LEMMA DecodeKeeps == IInv /\ Decode => IInv'
  <1> SUFFICES ASSUME IInv, Decode PROVE IInv'
    OBVIOUS
  <1> DEFINE ok == file.head = "expected" /\ file.consumers # <<>>
  <1>1. UNCHANGED <<file, next, byID, byKey, seenKeys>>
    BY DEF Decode, Become
  <1>2. phase = "decode" /\ file.tail # "document"
    BY DEF Decode, IInv, Stages
  <1>3. CASE ok
    <2>1. phase' = "consumers"
      BY <1>3 DEF Decode, Become
    <2> QED
      BY <1>1, <1>2, <1>3, <2>1, MovingKeeps DEF Stages
  <1>4. CASE ~ok
    <2>1. phase' = "rejected"
      BY <1>4 DEF Decode, Become
    <2>2. ~Acceptable(file)
      <3>1. file.consumers = <<>> => DOMAIN file.consumers = {}
        OBVIOUS
      <3> QED
        BY <1>4, <3>1 DEF Acceptable, Faultless
    <2> QED
      BY <1>1, <2>1, <2>2, MovingKeeps DEF Stages
  <1> QED
    BY <1>3, <1>4

\* A consumer taken in has an id and a key nobody before it has.
LEMMA AddKeeps == IInv /\ AddConsumer => IInv'
  <1> SUFFICES ASSUME IInv, AddConsumer PROVE IInv'
    OBVIOUS
  <1> DEFINE rc == Raw(next + 1)
  <1>1. /\ file' = file /\ phase' = phase /\ next' = next + 1
        /\ phase = "consumers" /\ next \in Nat /\ next < Len(file.consumers)
        /\ Len(file.consumers) \in Nat
    BY FileShape DEF AddConsumer, IInv, LoadTypeOK
  <1>2. /\ ValidConsumer(rc)
        /\ byID' = Add(byID, rc.id, Consumer(rc))
        /\ byKey' = AddKey(byKey, rc)
        /\ seenKeys' = byKey'
    BY DEF AddConsumer, Raw, IInv, LoadTypeOK
  <1>3. rc \in RawConsumer /\ Key(rc) \in Range(Environ)
    BY <1>1, FileShape DEF IInv, LoadTypeOK
  <1>4. Taken' = Taken \cup {next + 1} /\ next + 1 \notin Taken
    BY <1>1 DEF Taken
  <1>5. /\ rc.id \in GoodIDs /\ rc.types \subseteq KnownTypes
        /\ rc.id \notin DOMAIN byID
        /\ Key(rc) = NoKey \/ Key(rc) \notin DOMAIN byKey
    BY <1>2 DEF ValidConsumer, Duplicate, IInv, LoadTypeOK
  <1>6. /\ Consumer(rc) \in ConsumerRecord
        /\ Consumer(rc).key = Key(rc)
    BY <1>3, <1>5 DEF Consumer, ConsumerRecord, RawConsumer
  <1>7. /\ DOMAIN byID' = DOMAIN byID \cup {rc.id}
        /\ byID'[rc.id] = Consumer(rc)
        /\ \A c \in DOMAIN byID : byID'[c] = byID[c]
    BY <1>2, <1>5 DEF Add
  <1>8. /\ DOMAIN byKey' = DOMAIN byKey \cup ({Key(rc)} \ {NoKey})
        /\ Key(rc) # NoKey => byKey'[Key(rc)] = rc.id
        /\ \A k \in DOMAIN byKey : byKey'[k] = byKey[k]
    <2>1. CASE Key(rc) = NoKey
      BY <1>2, <2>1 DEF AddKey
    <2>2. CASE Key(rc) # NoKey
      BY <1>2, <1>5, <2>2 DEF AddKey, Add
    <2> QED
      BY <2>1, <2>2
  <1>9. \A i \in Taken : Raw(i)' = Raw(i) /\ Key(Raw(i))' = Key(Raw(i))
    BY <1>1 DEF Raw, Key
  <1>10. \A i \in Taken' : i \notin Taken => Raw(i)' = rc /\ Key(Raw(i))' = Key(rc)
    BY <1>1, <1>4 DEF Raw, Key
  <1> HIDE DEF rc
  <1>11. LoadTypeOK'
    <2>1. byID' \in [DOMAIN byID' -> ConsumerRecord]
      <3>1. byID' = [z \in DOMAIN byID' |-> byID'[z]]
        BY <1>2, <1>7 DEF Add
      <3>2. \A c \in DOMAIN byID' : byID'[c] \in ConsumerRecord
        BY <1>6, <1>7 DEF IInv, LoadTypeOK
      <3> QED
        BY <3>1, <3>2
    <2>2. byKey' \in [DOMAIN byKey' -> DOMAIN byID']
      <3>1. byKey' = [z \in DOMAIN byKey' |-> byKey'[z]]
        BY <1>2, <1>8 DEF AddKey, Add, IInv, LoadTypeOK
      <3>2. \A k \in DOMAIN byKey' : byKey'[k] \in DOMAIN byID'
        BY <1>7, <1>8 DEF IInv, LoadTypeOK
      <3> QED
        BY <3>1, <3>2
    <2>3. next' \in 0 .. Len(file'.consumers)
      BY <1>1
    <2>4. DOMAIN byID' \subseteq GoodIDs
      BY <1>5, <1>7 DEF IInv, LoadTypeOK
    <2>5. DOMAIN byKey' \subseteq Range(Environ) \ {NoKey}
      BY <1>3, <1>8 DEF IInv, LoadTypeOK
    <2> QED
      BY <1>1, <1>2, <2>1, <2>2, <2>3, <2>4, <2>5 DEF IInv, LoadTypeOK
  <1>12. Linked'
    <2>1. ASSUME NEW c \in DOMAIN byID', byID'[c].key # NoKey
          PROVE  byID'[c].key \in DOMAIN byKey' /\ byKey'[byID'[c].key] = c
      BY <1>5, <1>6, <1>7, <1>8, <2>1 DEF IInv, Linked
    <2>2. ASSUME NEW k \in DOMAIN byKey'
          PROVE  byID'[byKey'[k]].key = k
      <3>1. CASE k \in DOMAIN byKey
        BY <1>7, <1>8, <3>1 DEF IInv, LoadTypeOK, Linked
      <3>2. CASE k \notin DOMAIN byKey
        BY <1>6, <1>7, <1>8, <2>2, <3>2
      <3> QED
        BY <3>1, <3>2
    <2> QED
      BY <2>1, <2>2 DEF Linked
  <1>13. PrefixMaps'
    <2>1. {Raw(i).id : i \in Taken}' = {Raw(i).id : i \in Taken} \cup {rc.id}
      BY <1>4, <1>9, <1>10
    <2>2. {Key(Raw(i)) : i \in Taken}' = {Key(Raw(i)) : i \in Taken} \cup {Key(rc)}
      BY <1>4, <1>9, <1>10
    <2> QED
      BY <1>7, <1>8, <2>1, <2>2 DEF IInv, PrefixMaps
  <1>14. PrefixValid'
    <2>1. \A i \in Taken' : (Raw(i).id \in GoodIDs /\ Raw(i).types \subseteq KnownTypes)'
      BY <1>4, <1>5, <1>9, <1>10 DEF IInv, PrefixValid
    <2>2. \A i \in Taken : /\ Raw(i).id # rc.id
                           /\ Key(Raw(i)) = Key(rc) => Key(rc) = NoKey
      BY <1>5 DEF IInv, PrefixMaps
    <2>3. ASSUME NEW i \in Taken', NEW j \in Taken', i # j
          PROVE  (/\ Raw(i).id # Raw(j).id
                  /\ Key(Raw(i)) = Key(Raw(j)) => Key(Raw(i)) = NoKey)'
      BY <1>4, <1>9, <1>10, <2>2, <2>3 DEF IInv, PrefixValid
    <2> QED
      BY <2>1, <2>3 DEF PrefixValid
  <1>15. Stages'
    BY <1>1 DEF IInv, Stages
  <1> QED
    BY <1>11, <1>12, <1>13, <1>14, <1>15 DEF IInv

\* What is turned down here clashes with itself or with one taken in before.
LEMMA RefuseKeeps == IInv /\ RefuseConsumer => IInv'
  <1> SUFFICES ASSUME IInv, RefuseConsumer PROVE IInv'
    OBVIOUS
  <1> DEFINE rc == Raw(next + 1)
  <1>1. /\ UNCHANGED <<file, next, byID, byKey, seenKeys>>
        /\ phase' = "rejected" /\ next \in Nat /\ next < Len(file.consumers)
        /\ Len(file.consumers) \in Nat /\ seenKeys = byKey
        /\ DOMAIN file.consumers = 1 .. Len(file.consumers)
    BY FileShape DEF RefuseConsumer, Become, IInv, LoadTypeOK
  <1>2. ~ValidConsumer(rc)
    BY DEF RefuseConsumer, Raw
  <1>3. ~Acceptable(file)
    <2>1. next + 1 \in DOMAIN file.consumers
      BY <1>1
    <2>2. CASE rc.id \notin GoodIDs \/ ~(rc.types \subseteq KnownTypes)
      BY <2>1, <2>2 DEF Acceptable, Faultless, Raw
    <2>3. CASE Duplicate(rc)
      <3>1. PICK i \in Taken : \/ Raw(i).id = rc.id
                               \/ Key(Raw(i)) = Key(rc) /\ Key(rc) # NoKey
        BY <1>1, <2>3 DEF Duplicate, IInv, PrefixMaps
      <3>2. i \in DOMAIN file.consumers /\ i # next + 1
        BY <1>1 DEF Taken
      <3> QED
        BY <2>1, <3>1, <3>2 DEF Acceptable, Faultless, Raw
    <2> QED
      BY <1>2, <2>2, <2>3 DEF ValidConsumer
  <1>4. Stages'
    BY <1>1, <1>3 DEF Stages
  <1> QED
    BY <1>1, <1>4, MovingKeeps

LEMMA ReturnKeeps == IInv /\ ReturnRegistry => IInv'
  <1> SUFFICES ASSUME IInv, ReturnRegistry PROVE IInv'
    OBVIOUS
  <1>1. /\ UNCHANGED <<file, next, byID, byKey, seenKeys>>
        /\ phase' = "accepted" /\ next = Len(file.consumers) /\ phase = "consumers"
    BY DEF ReturnRegistry, Become
  <1>2. Stages'
    BY <1>1 DEF IInv, Stages
  <1> QED
    BY <1>1, <1>2, MovingKeeps

\* The invariant holds of every reachable state.
THEOREM Invariance == LoadSpec => []IInv
  <1>1. IInv /\ [LoadNext]_loadVars => IInv'
    <2> SUFFICES ASSUME IInv, [LoadNext]_loadVars PROVE IInv'
      OBVIOUS
    <2>1. CASE UNCHANGED loadVars
      BY <2>1 DEF loadVars, IInv, LoadTypeOK, Linked, PrefixMaps, PrefixValid, Stages,
                  Taken, Raw
    <2> QED
      BY <2>1, ValidateKeeps, DecodeKeeps, AddKeeps, RefuseKeeps, ReturnKeeps
         DEF LoadNext
  <1> QED
    BY <1>1, Initially, PTL DEF LoadSpec

\* A key leads to one consumer only, in every registry and on the way to it.
THEOREM OneConsumerPerKey == LoadSpec => []KeysUnique
  <1>1. IInv => KeysUnique
    BY DEF IInv, Linked, KeysUnique
  <1> QED
    BY <1>1, Invariance, PTL

\* What is accepted has a first document without a fault and no second one,
\* whatever the order of its consumers and however many there are; what is
\* rejected has a fault in its first document, or something behind it.
THEOREM AcceptanceRight == LoadSpec => []FaultsDecide
  <1>1. ASSUME IInv, phase = "accepted"
        PROVE  Faultless(file) /\ file.tail # "document"
    <2>1. Taken = DOMAIN file.consumers
      BY <1>1, FileShape DEF IInv, LoadTypeOK, Stages, Taken
    <2>2. DOMAIN file.consumers # {}
      <3>1. file.consumers # <<>> /\ file.consumers \in Seq(RawConsumer)
        BY <1>1, FileShape DEF IInv, LoadTypeOK, Stages
      <3>2. \A s \in Seq(RawConsumer) : s # <<>> => DOMAIN s # {}
        OBVIOUS
      <3> QED
        BY <3>1, <3>2
    <2> QED
      BY <1>1, <2>1, <2>2 DEF IInv, Stages, PrefixValid, Faultless, Raw
  <1>2. IInv => FaultsDecide
    BY <1>1 DEF IInv, Stages, FaultsDecide
  <1> QED
    BY <1>2, Invariance, PTL

\* The two maps of the registry answer every key as a search of all of its
\* consumers would, and nobody is let in without a key.
THEOREM MapsAgree == LoadSpec => []LookupsAgree
  <1>1. IInv => LookupsAgree
    <2> SUFFICES ASSUME IInv, NEW key \in Range(Environ)
                 PROVE  AuthenticateByMap(key)
                          = IF key = NoKey THEN {} ELSE R!Authenticate(key)
      BY DEF LookupsAgree
    <2>1. CASE key = NoKey
      BY <2>1 DEF IInv, LoadTypeOK, AuthenticateByMap
    <2>2. CASE key # NoKey
      <3>1. R!Authenticate(key) = {c \in DOMAIN byID : byID[c].key = key
                                                        /\ byID[c].enabled}
        BY DEF R!Authenticate, R!Enabled
      <3>2. \A c \in DOMAIN byID :
               key \in DOMAIN byKey /\ byKey[key] = c <=> byID[c].key = key
        BY <2>2 DEF IInv, LoadTypeOK, Linked
      <3> QED
        BY <2>2, <3>1, <3>2 DEF AuthenticateByMap
    <2> QED
      BY <2>1, <2>2
  <1> QED
    BY <1>1, Invariance, PTL

\* Type correctness of loading.
THEOREM TypeCorrect == LoadSpec => []LoadTypeOK
  BY Invariance, PTL DEF IInv

-----------------------------------------------------------------------------
\* The program loads its file as ConfigLoad says, whatever happens around it:
\* each of its steps is one of loading, or leaves that alone.
THEOREM ProgramLoads == ProgramSpec => LoadSpec
  <1>1. [ProgramNext]_programVars => [LoadNext]_loadVars
    BY DEF ProgramNext, programVars, Load, Runs
  <1>2. ProgramInit => LoadInit
    BY DEF ProgramInit
  <1> QED
    BY <1>1, <1>2, PTL DEF ProgramSpec, LoadSpec

\* The process around the loading is that of Lifecycle, so that what holds of
\* every process there holds of the program.
THEOREM ProgramRuns == ProgramSpec => Spec
  <1>1. [ProgramNext]_programVars => [Next]_vars
    BY DEF ProgramNext, programVars, Load, Runs
  <1>2. ProgramInit => Init
    BY DEF ProgramInit
  <1> QED
    BY <1>1, <1>2, PTL DEF ProgramSpec, Spec

Started ==
    \/ main \in {"starting", "notify", "serving", "draining", "closing", "panicking"}
    \/ listener # "none"

\* Nothing but an accepted file takes main past the loading, and nothing is
\* loaded after one has been accepted.
LEMMA StartedKeeps ==
    ASSUME [ProgramNext]_programVars, Started => phase = "accepted"
    PROVE  (Started => phase = "accepted")'
  <1>1. CASE Load
    <2>1. phase # "accepted"
      BY <1>1 DEF Load, LoadNext, ValidateSingleDocument, Decode, AddConsumer,
                  RefuseConsumer, ReturnRegistry
    <2> QED
      BY <1>1, <2>1 DEF Load, vars, others, Started
  <1>2. CASE Runs(Next)
    <2>1. phase' = phase
      BY <1>2 DEF Runs, loadVars
    <2>2. CASE LoadRegistry
      BY <1>2, <2>1, <2>2 DEF Runs, FileDecides
    <2>3. ASSUME NEW how \in Ended, Dies(how) PROVE Started' => Started
      BY <2>3 DEF Dies, Ended, Started
    <2>4. CASE MainSteps /\ ~LoadRegistry
      <3>1. CASE LoadSettings
        BY <2>1, <2>3, <3>1 DEF LoadSettings, Goto, others, Ended, Started
      <3>2. CASE RegistryFails \/ StartFails \/ Return
        BY <2>1, <2>3, <3>2 DEF RegistryFails, StartFails, Return, Ended
      <3>3. CASE LogReady \/ Notify \/ BeginShutdown \/ EndShutdown
        BY <2>1, <3>3 DEF LogReady, Notify, BeginShutdown, EndShutdown, Goto, others,
                           Closes, Started
      <3> QED
        BY <2>1, <2>4, <3>1, <3>2, <3>3 DEF MainSteps
    <2>5. CASE DeliverSignal
      BY <2>1, <2>3, <2>5 DEF DeliverSignal, Ended, Started
    <2>6. CASE \/ Listens \/ ListenerFails \/ SendSignal \/ TimeOut \/ CleanerStops
               \/ \E c \in Connections : Open(c) \/ Reply(c)
      BY <2>1, <2>6 DEF Listens, ListenerFails, SendSignal, TimeOut, CleanerStops,
                        Open, Reply, Started
    <2> QED
      BY <1>2, <2>2, <2>4, <2>5, <2>6 DEF Runs, Next
  <1>3. CASE UNCHANGED programVars
    BY <1>3 DEF programVars, vars, others, loadVars, Started
  <1> QED
    BY <1>1, <1>2, <1>3 DEF ProgramNext

\* A program that has its store, or ever had a listener, runs on a file whose
\* first document is faultless and which has no second one, and its registry
\* holds all of the consumers of that document, not some.
StartsFromFile ==
    Started =>
        /\ Faultless(file) /\ file.tail # "document"
        /\ DOMAIN byID = {file.consumers[i].id : i \in DOMAIN file.consumers}

THEOREM StartsRight == ProgramSpec => []StartsFromFile
  <1>1. ProgramInit => (Started => phase = "accepted")
    BY DEF ProgramInit, Init, Started
  <1>2. ProgramSpec => [](Started => phase = "accepted")
    BY <1>1, StartedKeeps, PTL DEF ProgramSpec
  <1>3. IInv /\ FaultsDecide /\ (Started => phase = "accepted") => StartsFromFile
    <2> SUFFICES ASSUME IInv, FaultsDecide, phase = "accepted", Started
                 PROVE  StartsFromFile
      BY DEF StartsFromFile
    <2>1. Taken = DOMAIN file.consumers
      BY FileShape DEF IInv, LoadTypeOK, Stages, Taken
    <2> QED
      BY <2>1 DEF StartsFromFile, FaultsDecide, IInv, PrefixMaps, Raw
  <1> QED
    BY <1>2, <1>3, ProgramLoads, Invariance, AcceptanceRight, PTL
=============================================================================
