-------------------------------- MODULE Proxy --------------------------------
(***************************************************************************)
(* The HTTP layer of internal/httpapi/httpapi.go: concurrent handlers of   *)
(* POST /process over the registry, the store and the pool of slots.       *)
(*                                                                         *)
(* One element of Requests is one HTTP request, handled once; a client     *)
(* that retries sends another request.  A handler step is what the code    *)
(* does between two accesses to shared state: the slot channel, the store  *)
(* (whose methods hold its mutex) and the metrics.                         *)
(*                                                                         *)
(* Text is abstracted to what masking tells apart: a skeleton, the items   *)
(* of personal data in it, at most one of each kind, and the tokens in it. *)
(* A token is the nonce of the masking that made it, for which the request *)
(* stands, and the kind of item it replaces: the number in a real token    *)
(* separates items of one kind.  That Mask and Unmask do to the tokens of  *)
(* a text what they do here is AsProxyTakesIt of module Masking.  A        *)
(* SHA-256 stands for the text it is of.                                   *)
(***************************************************************************)
EXTENDS StoreCore, Registry

CONSTANTS
    Requests,
    PayloadIDs,
    Values,        \* what an item of some kind may be
    Skeletons,
    Reply,         \* the skeleton of the text a language model answers with
    Originals,     \* the texts clients mask
    HeaderSets,    \* the headers clients send
    MaxInflight,   \* the capacity of the slot channel
    SerialKeys,    \* clients wait for the answer before they send more
                   \* under the same payload id
    MaxRestarts,   \* bound of the model: how often the process dies
    None           \* no text, no record

Items  == Kinds \X Values
Tokens == Requests \X Kinds

Payload   == [skel : Skeletons, raw : SUBSET Items, toks : SUBSET Tokens]
TokenMaps == UNION {[S -> Items] : S \in SUBSET Tokens}
Records   == [source : Payload, masked : Payload, tokens : TokenMaps]
StoreKeys == Consumers \X PayloadIDs
Accounts  == [consumer : Consumers, id : PayloadIDs, payload : Payload]

OneOfEachKind(items) == \A i, j \in items : i[1] = j[1] => i = j

ASSUME ProxyAssumption ==
    /\ IsFiniteSet(Requests) /\ IsFiniteSet(Kinds) /\ IsFiniteSet(Values)
    /\ MaxInflight \in Nat /\ MaxRestarts \in Nat
    /\ SerialKeys \in BOOLEAN
    /\ Reply \in Skeletons
    /\ None \notin Accounts
    /\ Originals \subseteq Payload
    /\ \A p \in Originals : OneOfEachKind(p.raw) /\ p.toks = {}

VARIABLES
    pc,             \* where the handler of each request stands
    req,            \* who sent it and what: [consumer, id, payload]
    rec,            \* the record it read, or is about to save
    out,            \* processState and the body: [status, direction, result]
    slot,           \* its use of the slot: "none", "held", "freed"
    inflight,       \* the length of the slot channel
    requestsTotal,  \* pii_requests_total by <<direction, status>>
    entitiesTotal,  \* pii_entities_total by kind
    restarts        \* how often the process has died and come back

handlerVars == <<pc, req, rec, out, slot>>
metricVars  == <<requestsTotal, entitiesTotal>>
vars == <<storeVars, pc, req, rec, out, slot, inflight, requestsTotal,
          entitiesTotal, restarts>>

-----------------------------------------------------------------------------
(* Masking and restoring, internal/pii/mask.go seen from the handler *)

Hidden(p, c) == {i \in p.raw : AllowsType(c, i[1])}

Mask(p, c, nonce) ==
    [skel |-> p.skel,
     raw  |-> p.raw \ Hidden(p, c),
     toks |-> p.toks \cup {<<nonce, i[1]>> : i \in Hidden(p, c)}]

TokenMap(p, c, nonce) ==
    [t \in {<<nonce, i[1]>> : i \in Hidden(p, c)} |->
        CHOOSE i \in Hidden(p, c) : i[1] = t[2]]

Record(p, c, nonce) ==
    [source |-> p, masked |-> Mask(p, c, nonce), tokens |-> TokenMap(p, c, nonce)]

KnownTokens(p, tokens) == p.toks \cap DOMAIN tokens

Unmask_Variant(p, tokens) ==
    LET t == CHOOSE t \in KnownTokens(p, tokens) : TRUE
    IN  [skel |-> p.skel, raw |-> p.raw \cup {tokens[t]}, toks |-> p.toks \ {t}]

Unmask(p, tokens) ==
    [skel |-> p.skel,
     raw  |-> p.raw \cup {tokens[t] : t \in KnownTokens(p, tokens)},
     toks |-> p.toks \ DOMAIN tokens]

\* One unit for the skeleton and for each item or token.
Length(p) == 1 + Cardinality(p.raw) + Cardinality(p.toks)

RecordBytes(r) == Length(r.masked) + Cardinality(DOMAIN r.tokens)

-----------------------------------------------------------------------------
(* What clients send *)

Done(r) == pc[r] = "done"

MaskedFor(r) == Done(r) /\ out[r].status = 200 /\ out[r].direction = "mask"

TokensSeen == UNION {out[r].result.toks : r \in {q \in Requests : MaskedFor(q)}}

(* A text to mask, a mask as it was answered, or the answer of a model     *)
(* that kept some of the tokens, moved between ids and consumers at will.  *)
Sendable ==
    Originals
      \cup {out[r].result : r \in {q \in Requests : MaskedFor(q)}}
      \cup [skel : {Reply}, raw : {{}}, toks : SUBSET TokensSeen]

Key_Variant(r) == <<CHOOSE c \in Consumers : TRUE, req[r].id>>

Key(r) == <<req[r].consumer, req[r].id>>

Accepted(r) == req[r] # None

\* It came in, and the process that received it has not finished with it.
Unfinished(r) == pc[r] \notin {"new", "done", "lost"}

Busy(c, id) ==
    \E r \in Requests : Accepted(r) /\ Unfinished(r) /\ Key(r) = <<c, id>>

-----------------------------------------------------------------------------
Directions == {"mask", "unmask", "reject"}
Statuses   == {200, 400, 401, 403, 409, 429, 503}

Unanswered == [status |-> 200, direction |-> "mask", result |-> None]

Init ==
    /\ StoreInit
    /\ pc = [r \in Requests |-> "new"]
    /\ req = [r \in Requests |-> None]
    /\ rec = [r \in Requests |-> None]
    /\ out = [r \in Requests |-> Unanswered]
    /\ slot = [r \in Requests |-> "none"]
    /\ inflight = 0
    /\ requestsTotal = [m \in Directions \X Statuses |-> 0]
    /\ entitiesTotal = [k \in Kinds |-> 0]
    /\ restarts = 0

Goto(r, label) == pc' = [pc EXCEPT ![r] = label]

Answer(r, status, direction, result) ==
    out' = [out EXCEPT ![r] = [status |-> status, direction |-> direction,
                               result |-> result]]

Reject(r, status) == Answer(r, status, "reject", None)

(* A body that is no JSON, or has an empty field.                          *)
RejectBody(r) ==
    /\ pc[r] = "new"
    /\ Reject(r, 400)
    /\ Goto(r, "record")
    /\ UNCHANGED <<storeVars, req, rec, slot, inflight, metricVars>>

RejectCaller(r) ==
    /\ pc[r] = "new"
    /\ \E h \in HeaderSets : Caller(h) = {}
    /\ Reject(r, 401)
    /\ Goto(r, "record")
    /\ UNCHANGED <<storeVars, req, rec, slot, inflight, metricVars>>

Accept(r) ==
    /\ pc[r] = "new"
    /\ \E h \in HeaderSets, id \in PayloadIDs, p \in Sendable :
          \E c \in Caller(h) :
             /\ SerialKeys => ~Busy(c, id)
             /\ req' = [req EXCEPT ![r] = [consumer |-> c, id |-> id,
                                           payload |-> p]]
    /\ Goto(r, "slot")
    /\ UNCHANGED <<storeVars, rec, out, slot, inflight, metricVars>>

(* acquireSlot never waits.                                                *)
AcquireSlot(r) ==
    /\ pc[r] = "slot"
    /\ inflight < MaxInflight
    /\ inflight' = inflight + 1
    /\ slot' = [slot EXCEPT ![r] = "held"]
    /\ Goto(r, "lookup")
    /\ UNCHANGED <<storeVars, req, rec, out, metricVars>>

RejectOverload(r) ==
    /\ pc[r] = "slot"
    /\ inflight >= MaxInflight
    /\ Reject(r, 429)
    /\ Goto(r, "record")
    /\ UNCHANGED <<storeVars, req, rec, slot, inflight, metricVars>>

GiveBackTwice_Variant(r) ==
    /\ inflight > 0
    /\ inflight' = inflight - 1
    /\ slot' = [slot EXCEPT ![r] = "freed"]

(* The function acquireSlot returned: only its first call gives back.  It  *)
(* takes a value out of the channel, and would wait at an empty one.       *)
GiveBack(r) ==
    /\ slot[r] = "held" => inflight > 0
    /\ inflight' = inflight - (IF slot[r] = "held" THEN 1 ELSE 0)
    /\ slot' = [slot EXCEPT ![r] = "freed"]

-----------------------------------------------------------------------------
LookupMiss(r) ==
    /\ pc[r] = "lookup"
    /\ GetMissing(Key(r)) \/ GetExpired(Key(r))
    /\ Goto(r, "mask")
    /\ UNCHANGED <<req, rec, out, slot, inflight, metricVars>>

LookupHit(r) ==
    /\ pc[r] = "lookup"
    /\ GetLive(Key(r))
    /\ rec' = [rec EXCEPT ![r] = entries[Key(r)].record]
    /\ Goto(r, "unmask")
    /\ UNCHANGED <<req, out, slot, inflight, metricVars>>

(* Every kind found counts once, when its first entity is met.             *)
Count(kinds) ==
    entitiesTotal' = [k \in Kinds |-> entitiesTotal[k]
                                        + (IF k \in kinds THEN 1 ELSE 0)]

FoundKinds(r) == {i[1] : i \in Hidden(req[r].payload, req[r].consumer)}

MaskPayload(r) ==
    /\ pc[r] = "mask"
    /\ Count(FoundKinds(r))
    /\ rec' = [rec EXCEPT ![r] = Record(req[r].payload, req[r].consumer, r)]
    /\ Goto(r, "put")
    /\ UNCHANGED <<storeVars, req, out, slot, inflight, requestsTotal>>

(* A panic in a detector, after some of the kinds were counted, or no      *)
(* randomness for the nonce.                                               *)
MaskFails(r) ==
    /\ pc[r] = "mask"
    /\ \E kinds \in SUBSET FoundKinds(r) : Count(kinds)
    /\ Reject(r, 503)
    /\ Goto(r, "release")
    /\ UNCHANGED <<storeVars, req, rec, slot, inflight, requestsTotal>>

Save(r) ==
    /\ pc[r] = "put"
    /\ PutStored(Key(r), rec[r], RecordBytes(rec[r]))
    /\ Answer(r, 200, "mask", rec[r].masked)
    /\ Goto(r, "release")
    /\ UNCHANGED <<req, rec, slot, inflight, metricVars>>

SaveRefusedUnheeded_Variant(r) ==
    /\ pc[r] = "put"
    /\ PutRefused(Key(r), RecordBytes(rec[r]))
    /\ Answer(r, 200, "mask", rec[r].masked)
    /\ Goto(r, "release")
    /\ UNCHANGED <<req, rec, slot, inflight, metricVars>>

SaveRefused_Variant(r) ==
    /\ pc[r] = "put"
    /\ ~(EntryFits(Key(r)) /\ BytesFit(Key(r), RecordBytes(rec[r])))
    /\ entries' = Upsert(entries, Key(r),
                         [record |-> rec[r], bytes |-> RecordBytes(rec[r]),
                          expiry |-> clock + TTL])
    /\ Goto(r, "overflow")
    /\ UNCHANGED <<totalBytes, clock, loopVars, stopped, req, rec, out, slot,
                   inflight, metricVars>>

SaveRefused(r) ==
    /\ pc[r] = "put"
    /\ PutRefused(Key(r), RecordBytes(rec[r]))
    /\ Goto(r, "overflow")
    /\ UNCHANGED <<req, rec, out, slot, inflight, metricVars>>

(* A full store gives the slot back before it answers.                     *)
RejectOverflow(r) ==
    /\ pc[r] = "overflow"
    /\ GiveBack(r)
    /\ Reject(r, 429)
    /\ Goto(r, "release")
    /\ UNCHANGED <<storeVars, req, rec, metricVars>>

-----------------------------------------------------------------------------
(* handleUnmask, on the record LookupHit read: the store may have dropped  *)
(* or replaced it since.                                                   *)
Unmasking(r) ==
    /\ pc[r] = "unmask"
    /\ Goto(r, "release")
    /\ UNCHANGED <<storeVars, req, rec, slot, inflight, metricVars>>

SameSource(r) == req[r].payload = rec[r].source

MaskAgainRaw_Variant(r) ==
    /\ Unmasking(r)
    /\ SameSource(r)
    /\ Answer(r, 200, "mask", req[r].payload)

MaskAgainAfresh_Variant(r) ==
    /\ Unmasking(r)
    /\ SameSource(r)
    /\ Answer(r, 200, "mask", Mask(req[r].payload, req[r].consumer, r))

\* Read again from the store, where another handler may have saved its own.
MaskAgainReread_Variant(r) ==
    /\ Unmasking(r)
    /\ SameSource(r)
    /\ Answer(r, 200, "mask",
              IF Key(r) \in DOMAIN entries THEN entries[Key(r)].record.masked
              ELSE rec[r].masked)

MaskAgain(r) ==
    /\ Unmasking(r)
    /\ SameSource(r)
    /\ Answer(r, 200, "mask", rec[r].masked)

MayUnmask(r) == Registered[req[r].consumer].unmask

Forbid(r) ==
    /\ Unmasking(r)
    /\ ~SameSource(r)
    /\ ~MayUnmask(r)
    /\ Reject(r, 403)

Recognised_Variant(r) == DOMAIN rec[r].tokens \subseteq req[r].payload.toks

Recognised(r) == KnownTokens(req[r].payload, rec[r].tokens) # {}

Conflict(r) ==
    /\ Unmasking(r)
    /\ ~SameSource(r)
    /\ MayUnmask(r)
    /\ ~Recognised(r)
    /\ Reject(r, 409)

Restore(r) ==
    /\ Unmasking(r)
    /\ ~SameSource(r)
    /\ MayUnmask(r)
    /\ Recognised(r)
    /\ Answer(r, 200, "unmask", Unmask(req[r].payload, rec[r].tokens))

-----------------------------------------------------------------------------
(* The deferred calls, last registered first.                              *)
Release(r) ==
    /\ pc[r] = "release"
    /\ GiveBack(r)
    /\ Goto(r, "record")
    /\ UNCHANGED <<storeVars, req, rec, out, metricVars>>

RecordMetrics(r) ==
    /\ pc[r] = "record"
    /\ requestsTotal' =
          [requestsTotal EXCEPT ![<<out[r].direction, out[r].status>>] = @ + 1]
    /\ Goto(r, "done")
    /\ UNCHANGED <<storeVars, req, rec, out, slot, inflight, entitiesTotal>>

Receive(r) == RejectBody(r) \/ RejectCaller(r) \/ Accept(r)

Handle(r) ==
    \/ AcquireSlot(r) \/ RejectOverload(r)
    \/ LookupMiss(r) \/ LookupHit(r)
    \/ MaskPayload(r) \/ MaskFails(r)
    \/ Save(r) \/ SaveRefused(r) \/ RejectOverflow(r)
    \/ MaskAgain(r) \/ Forbid(r) \/ Conflict(r) \/ Restore(r)
    \/ Release(r) \/ RecordMetrics(r)

StoreSteps ==
    /\ Tick \/ Background
    /\ UNCHANGED <<handlerVars, inflight, metricVars>>

(* The process dies at any moment, and another takes its place: all it had *)
(* is gone.  Answers are sent when the handler has returned, so that those *)
(* it was working on never reach their clients.                            *)
Restart ==
    /\ restarts < MaxRestarts
    /\ restarts' = restarts + 1
    /\ StoreAnew
    /\ pc' = [r \in Requests |-> IF Unfinished(r) THEN "lost" ELSE pc[r]]
    /\ rec' = [r \in Requests |-> IF Unfinished(r) THEN None ELSE rec[r]]
    /\ out' = [r \in Requests |-> IF Unfinished(r) THEN Unanswered ELSE out[r]]
    /\ slot' = [r \in Requests |-> IF Unfinished(r) THEN "none" ELSE slot[r]]
    /\ inflight' = 0
    /\ requestsTotal' = [m \in Directions \X Statuses |-> 0]
    /\ entitiesTotal' = [k \in Kinds |-> 0]
    /\ UNCHANGED req

OneLife == (\E r \in Requests : Receive(r) \/ Handle(r)) \/ StoreSteps

Next == (OneLife /\ UNCHANGED restarts) \/ Restart

Spec == Init /\ [][Next]_vars

-----------------------------------------------------------------------------
(* Safety *)

Labels == {"new", "slot", "lookup", "mask", "put", "overflow", "unmask",
           "release", "record", "done", "lost"}

TypeOK ==
    /\ StoreTypeOK(StoreKeys, Records)
    /\ pc \in [Requests -> Labels]
    /\ req \in [Requests -> Accounts \cup {None}]
    /\ rec \in [Requests -> Records \cup {None}]
    /\ out \in [Requests -> [status : Statuses, direction : Directions,
                             result : Payload \cup {None}]]
    /\ slot \in [Requests -> {"none", "held", "freed"}]
    /\ inflight \in Int
    /\ requestsTotal \in [Directions \X Statuses -> Nat]
    /\ entitiesTotal \in [Kinds -> Nat]
    /\ restarts \in 0 .. MaxRestarts

(* The channel holds exactly one value for each request between its        *)
(* acquireSlot and its release, early or deferred: no slot leaks on an     *)
(* error path and none is given back twice.                                *)
SlotAccounting ==
    /\ inflight = Cardinality({r \in Requests : slot[r] = "held"})
    /\ inflight <= MaxInflight
    /\ \A r \in Requests : slot[r] = "held" =>
          pc[r] \in {"lookup", "mask", "put", "overflow", "unmask", "release"}

(* A request that has come in can always take its next step: no handler    *)
(* waits for a slot, for the store or for another handler, and a second    *)
(* release does not block on an empty channel.                             *)
NobodyWaits ==
    \A r \in Requests : Unfinished(r) => ENABLED Handle(r)

Revealed(r) == out[r].result.raw \ req[r].payload.raw

(* A value appears in an answer to a text that did not hold it only if the *)
(* caller may unmask, and sent that value itself under that payload id:    *)
(* nothing crosses consumers, ids, or the unmask_enabled flag, whatever    *)
(* tokens the caller has got hold of.                                      *)
ValuesStayWithOwner ==
    \A r \in Requests : Done(r) /\ out[r].status = 200 =>
        \A i \in Revealed(r) :
            /\ Registered[req[r].consumer].unmask
            /\ \E q \in Requests : /\ Accepted(q)
                                    /\ req[q].consumer = req[r].consumer
                                    /\ req[q].id = req[r].id
                                    /\ i \in req[q].payload.raw

(* A text answered as masked holds no item of a kind the consumer masks,   *)
(* be it masked now or read from a record another request saved.           *)
MaskHidesItems ==
    \A r \in Requests : MaskedFor(r) =>
        Hidden(out[r].result, req[r].consumer) = {}

(* The store holds a mask with tokens only if the request that made it     *)
(* answered, or is about to answer, 200 with that very mask: a request     *)
(* that ends in 429 or 503 leaves nothing behind.                          *)
StoredMeansAnswered ==
    \A k \in DOMAIN entries :
        \A t \in DOMAIN entries[k].record.tokens :
            /\ pc[t[1]] \in {"release", "record", "done"}
            /\ Key(t[1]) = k
            /\ out[t[1]].status = 200
            /\ out[t[1]].direction = "mask"
            /\ out[t[1]].result = entries[k].record.masked

Minted(q) == out[q].result.toks \ req[q].payload.toks

(* r sends, under the id of q's mask, a text with tokens of that mask only.*)
AnswersTo(r, q) ==
    /\ MaskedFor(q)
    /\ Done(r) /\ Accepted(r)
    /\ Key(q) = Key(r)
    /\ req[r].payload.toks # {}
    /\ req[r].payload.toks \subseteq Minted(q)

(* When such a text is restored, every token is replaced, each by another  *)
(* value of the text that was masked, whichever requests ran in between.   *)
RestoredExactly ==
    \A q, r \in Requests :
        AnswersTo(r, q) /\ out[r].direction = "unmask" =>
            /\ out[r].result.toks = {}
            /\ Revealed(r) \subseteq req[q].payload.raw
            /\ Cardinality(Revealed(r)) = Cardinality(req[r].payload.toks)

-----------------------------------------------------------------------------
(* Safety while nothing has had the time to expire and the process lives,  *)
(* for clients that wait for each answer before they use an id again *)

NothingForgotten == clock <= TTL /\ restarts = 0

(* README, on idempotency: masking again with the same payload_id returns  *)
(* the same mask.                                                          *)
RepeatedMaskIsSame ==
    NothingForgotten =>
        \A q, r \in Requests :
            (/\ MaskedFor(q) /\ MaskedFor(r) /\ Key(q) = Key(r)
             /\ req[q].payload = req[r].payload)
               => out[q].result = out[r].result

(* Whoever got a mask can have it restored for as long as the record       *)
(* lives: neither another caller's load nor a full store drops it.         *)
AnsweredMaskIsKept ==
    NothingForgotten =>
        \A r \in Requests : MaskedFor(r) =>
            /\ Key(r) \in DOMAIN entries
            /\ entries[Key(r)].record.masked = out[r].result

(* A model's answer that kept some of the tokens of a mask, sent under the *)
(* id of that mask by a consumer that may unmask, is never a conflict, and *)
(* is never taken for a new text.                                          *)
RoundTrip ==
    NothingForgotten =>
        \A q, r \in Requests :
            AnswersTo(r, q) =>
                /\ out[r].status # 409
                /\ out[r].status = 200 => out[r].direction = "unmask"

-----------------------------------------------------------------------------
(* The abstract services, for all clients and for those that wait.  A call *)
(* is decided when the store is read, if it holds the id, and when the     *)
(* record is saved, if it does not.                                        *)

CallKey(c)     == <<c.consumer, c.id>>
Made(c, r)     == Record(c.payload, c.consumer, r)
MayRestore(c)  == Registered[c.consumer].unmask
Holds(c, x)    == c.payload.toks \cap DOMAIN x.tokens # {}
Restored(c, x) == Unmask(c.payload, x.tokens)

Stage(r) ==
    IF ~Accepted(r) THEN "idle"
    ELSE IF pc[r] \in {"unmask", "release", "record"} THEN "answered"
    ELSE IF pc[r] = "done" THEN "heard"
    ELSE IF pc[r] = "lost" THEN "lost"
    ELSE IF pc[r] \in {"mask", "put", "overflow"} THEN "missed"
    ELSE "asked"

\* What handleUnmask is about to answer from the record it was given.
Foretold(r) ==
    IF SameSource(r)
    THEN [status |-> 200, direction |-> "mask", result |-> rec[r].masked]
    ELSE IF ~MayUnmask(r)
    THEN [status |-> 403, direction |-> "reject", result |-> None]
    ELSE IF ~Recognised(r)
    THEN [status |-> 409, direction |-> "reject", result |-> None]
    ELSE [status |-> 200, direction |-> "unmask",
          result |-> Unmask(req[r].payload, rec[r].tokens)]

Decided(r) ==
    IF Stage(r) \notin {"answered", "heard"} THEN None
    ELSE IF pc[r] = "unmask" THEN Foretold(r) ELSE out[r]

Live(k) == k \in DOMAIN entries /\ ~Expired(entries[k], clock)

Bindings ==
    [k \in {x \in DOMAIN entries : Live(x)} |->
        [record |-> entries[k].record, until |-> entries[k].expiry]]

Racy == INSTANCE RacyService WITH
    Calls <- Accounts, KeyOf <- CallKey, Life <- TTL, MaxCrashes <- MaxRestarts,
    bound <- Bindings, now <- clock, crashes <- restarts, asked <- req,
    stage <- [r \in Requests |-> Stage(r)],
    answer <- [r \in Requests |-> Decided(r)]

(* For every client, slots, interleaved handlers, expired entries and      *)
(* their cleanup, full stores, panics and restarts show nothing but this:  *)
(* a request looks an id up at one instant.  Bound, it is answered from    *)
(* that binding alone, whatever becomes of it; unbound, its own mask is    *)
(* bound at a later instant, in the place of what others bound meanwhile.  *)
ImplementsRacyService == Racy!RacySpec

Service == INSTANCE MaskService WITH
    Calls <- Accounts, KeyOf <- CallKey, Life <- TTL, MaxCrashes <- MaxRestarts,
    bound <- Bindings, now <- clock, crashes <- restarts, asked <- req,
    stage <- [r \in Requests |-> IF Stage(r) = "missed" THEN "asked" ELSE Stage(r)],
    answer <- [r \in Requests |-> Decided(r)]

(* For clients that wait there is no instant in between: a request takes   *)
(* effect at once, an id is bound from its first mask until its time is    *)
(* past or the process dies, and answers come from that binding alone.     *)
ImplementsMaskService == Service!Spec
=============================================================================
