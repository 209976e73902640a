----------------------------- MODULE ProxyProofs -----------------------------
(***************************************************************************)
(* Theorems about Proxy for any requests, consumers, payload ids, texts,   *)
(* limits and time to live: types, slots, accounting, masks without items, *)
(* values that stay with their owner; what is stored was answered, and     *)
(* what is restored is what the tokens stand for.                          *)
(*                                                                         *)
(* For every client Proxy implements RacyService.  For clients that wait   *)
(* for each answer before they use a payload id again it implements        *)
(* MaskService, which follows from that; and a mask that was answered is   *)
(* kept, repeated and restored, for any number of restarts.                *)
(***************************************************************************)
EXTENDS Proxy, StoreCoreProofs

(* A text with this content was accepted under this key.                   *)
Sent(k, p) ==
    \E q \in Requests : Accepted(q) /\ Key(q) = k /\ req[q].payload = p

(* What is true of a record under key k, wherever it is held: it was made  *)
(* from a text sent under k, its mask shows nothing of what k's consumer   *)
(* hides, and its tokens stand for items of that text.                     *)
GoodRecord(x, k) ==
    /\ x \in Records
    /\ Sent(k, x.source)
    /\ Hidden(x.masked, k[1]) = {}
    /\ x.masked.raw \subseteq x.source.raw
    /\ \A t \in DOMAIN x.tokens : x.tokens[t] \in x.source.raw

Answering == {"release", "record", "done"}
Accepting == {"slot", "lookup", "mask", "put", "overflow", "unmask", "release"}

(* What is true of the answer of a request, once it is decided.            *)
AnswerOK(r) ==
    out[r].status = 200 =>
        /\ Accepted(r)
        /\ out[r].result \in Payload
        /\ \/ /\ out[r].direction = "mask"
              /\ Hidden(out[r].result, req[r].consumer) = {}
              /\ Revealed(r) = {}
           \/ /\ out[r].direction = "unmask"
              /\ MayUnmask(r)
              /\ \A i \in Revealed(r) : \E p \in Payload : Sent(Key(r), p) /\ i \in p.raw

HandlerOK(r) ==
    /\ pc[r] = "new" => req[r] = None
    /\ pc[r] \in Accepting => Accepted(r)
    /\ pc[r] \in {"new", "slot"} => slot[r] = "none"
    /\ slot[r] = "held" => pc[r] \in Accepting \ {"slot"}
    /\ pc[r] \in {"put", "unmask"} => GoodRecord(rec[r], Key(r))
    /\ pc[r] = "put" => rec[r].source = req[r].payload
    /\ pc[r] \in Answering => AnswerOK(r)

HandlersOK == \A r \in Requests : HandlerOK(r)

StoreOK == \A k \in DOMAIN entries : GoodRecord(entries[k].record, k)

HandlerTypeOK ==
    /\ pc \in [Requests -> Labels]
    /\ req \in [Requests -> Accounts \cup {None}]
    /\ rec \in [Requests -> Records \cup {None}]
    /\ out \in [Requests -> [status : Statuses, direction : Directions,
                             result : Payload \cup {None}]]
    /\ slot \in [Requests -> {"none", "held", "freed"}]

MetricTypeOK ==
    /\ requestsTotal \in [Directions \X Statuses -> Nat]
    /\ entitiesTotal \in [Kinds -> Nat]

Holders == {r \in Requests : slot[r] = "held"}

SlotsOK == inflight = Cardinality(Holders) /\ inflight <= MaxInflight

IInv ==
    /\ CoreInv(StoreKeys, Records)
    /\ HandlerTypeOK
    /\ MetricTypeOK
    /\ SlotsOK
    /\ HandlersOK
    /\ StoreOK
    /\ restarts \in 0 .. MaxRestarts

-----------------------------------------------------------------------------
(* Masking and restoring *)

(* A token map takes each of its tokens to an item it hides.               *)
LEMMA TokenMapValues ==
    ASSUME NEW p, NEW c, NEW n, NEW t \in DOMAIN TokenMap(p, c, n)
    PROVE  TokenMap(p, c, n)[t] \in Hidden(p, c)
<1>1. TokenMap(p, c, n)[t] = CHOOSE i \in Hidden(p, c) : i[1] = t[2]
  BY DEF TokenMap
<1>2. PICK j \in Hidden(p, c) : t = <<n, j[1]>>
  BY DEF TokenMap
<1>3. \E i \in Hidden(p, c) : i[1] = t[2]
  BY <1>2
<1> QED BY <1>1, <1>3

(* Masking a text gives a well-formed record whose mask shows nothing of a *)
(* kind the consumer masks.                                                *)
LEMMA RecordIsGood ==
    ASSUME NEW p \in Payload, NEW c, NEW n \in Requests
    PROVE  /\ Record(p, c, n) \in Records
           /\ Record(p, c, n).source = p
           /\ Hidden(Record(p, c, n).masked, c) = {}
           /\ Record(p, c, n).masked.raw \subseteq p.raw
           /\ \A t \in DOMAIN Record(p, c, n).tokens :
                 Record(p, c, n).tokens[t] \in p.raw
<1> DEFINE m == Mask(p, c, n)
           f == TokenMap(p, c, n)
<1>1. p.raw \subseteq Items /\ p.toks \subseteq Tokens /\ p.skel \in Skeletons
  BY DEF Payload
<1>2. Hidden(p, c) \subseteq p.raw
  BY DEF Hidden
<1>3. \A i \in Hidden(p, c) : <<n, i[1]>> \in Tokens
  BY <1>1, <1>2 DEF Items, Tokens
<1>4. m \in Payload
  BY <1>1, <1>3 DEF Mask, Payload
<1>5. m.raw \subseteq p.raw /\ Hidden(m, c) = {}
  BY DEF Mask, Hidden
<1>6. DOMAIN f \subseteq Tokens
  BY <1>3 DEF TokenMap
<1>7. \A t \in DOMAIN f : f[t] \in p.raw /\ f[t] \in Items
  BY <1>1, <1>2, TokenMapValues
<1>8. f \in [DOMAIN f -> Items]
  BY <1>7 DEF TokenMap
<1>9. f \in TokenMaps
  BY <1>6, <1>8 DEF TokenMaps
<1>10. Record(p, c, n) = [source |-> p, masked |-> m, tokens |-> f]
  BY DEF Record
<1> HIDE DEF m, f
<1> QED BY <1>4, <1>5, <1>7, <1>9, <1>10 DEF Records

(* Restoring a text adds nothing to it but values of the token map.        *)
LEMMA UnmaskAdds ==
    ASSUME NEW p \in Payload, NEW f \in TokenMaps
    PROVE  /\ Unmask(p, f) \in Payload
           /\ \A i \in Unmask(p, f).raw \ p.raw : \E t \in DOMAIN f : i = f[t]
<1>1. \A t \in DOMAIN f : f[t] \in Items
  BY DEF TokenMaps
<1> QED BY <1>1 DEF Unmask, KnownTokens, Payload

(* The length Put is given is a natural number.                            *)
LEMMA RecordHasLength ==
    ASSUME NEW x \in Records
    PROVE  RecordBytes(x) \in Nat
<1>1. IsFiniteSet(Items) /\ IsFiniteSet(Tokens)
  BY ProxyAssumption, FS_Product DEF Items, Tokens
<1>2. x.masked.raw \subseteq Items /\ x.masked.toks \subseteq Tokens
      /\ DOMAIN x.tokens \subseteq Tokens
  BY DEF Records, Payload, TokenMaps
<1>3. /\ Cardinality(x.masked.raw) \in Nat
      /\ Cardinality(x.masked.toks) \in Nat
      /\ Cardinality(DOMAIN x.tokens) \in Nat
  BY <1>1, <1>2, FS_Subset, FS_CardinalityType
<1> QED BY <1>3 DEF RecordBytes, Length

-----------------------------------------------------------------------------
(* What a step leaves alone *)

Same(q) ==
    /\ pc'[q] = pc[q] /\ req'[q] = req[q] /\ rec'[q] = rec[q]
    /\ out'[q] = out[q] /\ slot'[q] = slot[q]

\* What has been accepted is not accepted again as something else.
Kept == \A q \in Requests : Accepted(q) => req'[q] = req[q]

(* A handler touches its own request only, and accepts it at most once.    *)
LEMMA HandlerFrame ==
    ASSUME IInv, NEW r \in Requests, Receive(r) \/ Handle(r)
    PROVE  Kept /\ \A q \in Requests \ {r} : Same(q)
<1> USE DEF IInv, HandlerTypeOK, HandlersOK
<1>1. CASE Receive(r)
  <2>1. pc[r] = "new" => ~Accepted(r)
    BY DEF HandlerOK, Accepted
  <2>2. CASE RejectBody(r) \/ RejectCaller(r)
    BY <2>2 DEF RejectBody, RejectCaller, Reject, Answer, Goto, Same, Kept
  <2>3. CASE Accept(r)
    BY <2>1, <2>3 DEF Accept, Goto, Same, Kept
  <2> QED BY <1>1, <2>2, <2>3 DEF Receive
<1>2. CASE AcquireSlot(r) \/ RejectOverload(r) \/ LookupMiss(r) \/ LookupHit(r)
  BY <1>2 DEF AcquireSlot, RejectOverload, LookupMiss, LookupHit, Reject,
              Answer, Goto, Same, Kept
<1>3. CASE \/ MaskPayload(r) \/ MaskFails(r) \/ Save(r) \/ SaveRefused(r)
           \/ RejectOverflow(r)
  BY <1>3 DEF MaskPayload, MaskFails, Save, SaveRefused, RejectOverflow,
              GiveBack, Reject, Answer, Goto, Same, Kept
<1>4. CASE MaskAgain(r) \/ Forbid(r) \/ Conflict(r) \/ Restore(r)
  BY <1>4 DEF MaskAgain, Forbid, Conflict, Restore, Unmasking, Reject, Answer,
              Goto, Same, Kept
<1>5. CASE Release(r) \/ RecordMetrics(r)
  BY <1>5 DEF Release, RecordMetrics, GiveBack, Goto, Same, Kept
<1> QED BY <1>1, <1>2, <1>3, <1>4, <1>5 DEF Handle

(* The facts about a request the step does not touch still hold.           *)
LEMMA OthersStayOK ==
    ASSUME Kept, NEW q \in Requests, Same(q), HandlerOK(q)
    PROVE  HandlerOK(q)'
<1>1. Accepted(q)' <=> Accepted(q)
  BY DEF Same, Accepted
<1>2. Key(q)' = Key(q)
  BY DEF Same, Key
<1>3. \A p : Sent(Key(q), p) => Sent(Key(q), p)'
  BY <1>2 DEF Kept, Sent, Accepted, Key
<1>4. pc[q] \in {"put", "unmask"} => GoodRecord(rec[q], Key(q))'
  <2>1. GoodRecord(rec[q], Key(q)) => GoodRecord(rec[q], Key(q))'
    BY <1>2, <1>3 DEF GoodRecord, Hidden, Same
  <2> QED BY <2>1 DEF HandlerOK
<1>5. AnswerOK(q) => AnswerOK(q)'
  BY <1>1, <1>2, <1>3 DEF AnswerOK, Revealed, Hidden, MayUnmask, Same
<1> QED BY <1>1, <1>4, <1>5 DEF HandlerOK, Same

-----------------------------------------------------------------------------
(* The initial state *)

(* The state in which the server starts satisfies the invariant.           *)
LEMMA InitInv == Init => IInv
<1> SUFFICES ASSUME Init PROVE IInv
  OBVIOUS
<1>1. CoreInv(StoreKeys, Records)
  BY CoreInit DEF Init
<1>2. HandlerTypeOK /\ MetricTypeOK /\ restarts \in 0 .. MaxRestarts
  BY ProxyAssumption
     DEF Init, Unanswered, HandlerTypeOK, MetricTypeOK, Labels, Statuses, Directions
<1>3. Holders = {}
  BY DEF Init, Holders
<1>4. SlotsOK
  BY <1>3, FS_EmptySet, ProxyAssumption DEF Init, SlotsOK
<1>5. HandlersOK
  BY DEF Init, HandlersOK, HandlerOK, Accepting, Answering
<1>6. StoreOK
  BY DEF Init, StoreInit, StoreOK
<1> QED BY <1>1, <1>2, <1>4, <1>5, <1>6 DEF IInv

-----------------------------------------------------------------------------
(* Types *)

(* Every text a client can send is a text: the originals, the masks that   *)
(* were answered, and the replies made of their tokens.                    *)
LEMMA SendableAreTexts ==
    ASSUME HandlersOK
    PROVE  Sendable \subseteq Payload
<1>1. \A r \in Requests : MaskedFor(r) => out[r].result \in Payload
  BY DEF HandlersOK, HandlerOK, AnswerOK, MaskedFor, Done, Answering
<1>2. TokensSeen \subseteq Tokens
  BY <1>1 DEF TokensSeen, Payload
<1>3. [skel : {Reply}, raw : {{}}, toks : SUBSET TokensSeen] \subseteq Payload
  BY <1>2, ProxyAssumption DEF Payload
<1> QED BY <1>1, <1>3, ProxyAssumption DEF Sendable

(* Whoever calls is a consumer of the registry.                            *)
LEMMA CallersAreConsumers == \A h : Caller(h) \subseteq Consumers
BY DEF Caller, Authenticate, Enabled, ByID

(* Every step keeps the types of the handlers' variables.                  *)
LEMMA HandlerTypes ==
    ASSUME IInv, NEW r \in Requests, Receive(r) \/ Handle(r)
    PROVE  HandlerTypeOK' /\ MetricTypeOK'
<1> USE DEF HandlerTypeOK, MetricTypeOK, Labels, Goto
<1>0. HandlerTypeOK /\ MetricTypeOK
  BY DEF IInv
<1>1. \A s \in Statuses :
        Reject(r, s) => out' \in [Requests -> [status : Statuses,
                          direction : Directions, result : Payload \cup {None}]]
  BY <1>0 DEF Reject, Answer, Directions
<1>2. CASE RejectBody(r) \/ RejectCaller(r)
  BY <1>0, <1>1, <1>2 DEF RejectBody, RejectCaller, metricVars, Statuses
<1>3. CASE Accept(r)
  <2>1. PICK h \in HeaderSets, id \in PayloadIDs, p \in Sendable :
          \E c \in Caller(h) :
             req' = [req EXCEPT ![r] = [consumer |-> c, id |-> id, payload |-> p]]
    BY <1>3 DEF Accept
  <2>2. \A c \in Caller(h) : [consumer |-> c, id |-> id, payload |-> p] \in Accounts
    BY <2>1, SendableAreTexts, CallersAreConsumers DEF IInv, Accounts
  <2>3. req' \in [Requests -> Accounts \cup {None}]
    BY <1>0, <2>1, <2>2
  <2> QED BY <1>0, <1>3, <2>3 DEF Accept, metricVars
<1>4. CASE AcquireSlot(r)
  BY <1>0, <1>4 DEF AcquireSlot, metricVars
<1>5. CASE RejectOverload(r)
  BY <1>0, <1>1, <1>5 DEF RejectOverload, metricVars, Statuses
<1>6. CASE LookupMiss(r) \/ SaveRefused(r)
  BY <1>0, <1>6 DEF LookupMiss, SaveRefused, metricVars
<1>7. CASE LookupHit(r)
  <2>1. entries[Key(r)].record \in Records
    BY <1>7 DEF LookupHit, GetLive, IInv, StoreOK, GoodRecord
  <2> QED BY <1>0, <1>7, <2>1 DEF LookupHit, metricVars
<1>8. \A kinds : Count(kinds) => entitiesTotal' \in [Kinds -> Nat]
  BY <1>0 DEF Count
<1>9. CASE MaskPayload(r)
  <2>1. req[r].payload \in Payload
    BY <1>0, <1>9 DEF MaskPayload, IInv, HandlersOK, HandlerOK, Accepting,
                      Accepted, Accounts
  <2>2. Record(req[r].payload, req[r].consumer, r) \in Records
    BY <2>1, RecordIsGood
  <2> QED BY <1>0, <1>8, <1>9, <2>2 DEF MaskPayload
<1>10. CASE MaskFails(r)
  BY <1>0, <1>1, <1>8, <1>10 DEF MaskFails, Statuses
<1>11. CASE Save(r)
  <2>1. rec[r].masked \in Payload
    BY <1>11 DEF Save, IInv, HandlersOK, HandlerOK, GoodRecord, Records
  <2> QED BY <1>0, <1>11, <2>1 DEF Save, Answer, Statuses, Directions, metricVars
<1>12. CASE RejectOverflow(r)
  BY <1>0, <1>1, <1>12 DEF RejectOverflow, GiveBack, metricVars, Statuses
<1>13. CASE MaskAgain(r)
  <2>1. rec[r].masked \in Payload
    BY <1>13 DEF MaskAgain, Unmasking, IInv, HandlersOK, HandlerOK, GoodRecord,
                 Records
  <2> QED BY <1>0, <1>13, <2>1
          DEF MaskAgain, Unmasking, Answer, Statuses, Directions, metricVars
<1>14. CASE Forbid(r) \/ Conflict(r)
  BY <1>0, <1>1, <1>14 DEF Forbid, Conflict, Unmasking, metricVars, Statuses
<1>15. CASE Restore(r)
  <2>1. req[r].payload \in Payload
    BY <1>0, <1>15 DEF Restore, Unmasking, IInv, HandlersOK, HandlerOK,
                       Accepting, Accepted, Accounts
  <2>2. rec[r].tokens \in TokenMaps
    BY <1>15 DEF Restore, Unmasking, IInv, HandlersOK, HandlerOK, GoodRecord,
                 Records
  <2>3. Unmask(req[r].payload, rec[r].tokens) \in Payload
    BY <2>1, <2>2, UnmaskAdds
  <2> QED BY <1>0, <1>15, <2>3
          DEF Restore, Unmasking, Answer, Statuses, Directions, metricVars
<1>16. CASE Release(r)
  BY <1>0, <1>16 DEF Release, GiveBack, metricVars
<1>17. CASE RecordMetrics(r)
  BY <1>0, <1>17 DEF RecordMetrics
<1> QED BY <1>2, <1>3, <1>4, <1>5, <1>6, <1>7, <1>9, <1>10, <1>11, <1>12,
           <1>13, <1>14, <1>15, <1>16, <1>17 DEF Receive, Handle

-----------------------------------------------------------------------------
(* Slots *)

(* Giving the slot back, once or again, keeps the channel's length the     *)
(* number of holders.                                                      *)
LEMMA GiveBackSlots ==
    ASSUME IInv, NEW r \in Requests, GiveBack(r)
    PROVE  SlotsOK'
<1>1. IsFiniteSet(Holders) /\ inflight = Cardinality(Holders)
      /\ inflight \in Nat /\ inflight <= MaxInflight
  BY ProxyAssumption, FS_Subset, FS_CardinalityType DEF Holders, IInv, SlotsOK
<1>2. Holders' = Holders \ {r}
  BY DEF GiveBack, Holders, IInv, HandlerTypeOK
<1>3. Cardinality(Holders') = inflight - (IF r \in Holders THEN 1 ELSE 0)
  <2>1. Cardinality(Holders \ {r}) = IF r \in Holders
                                      THEN Cardinality(Holders) - 1
                                      ELSE Cardinality(Holders)
    BY <1>1, FS_RemoveElement, Zenon
  <2> QED BY <1>1, <1>2, <2>1
<1>4. inflight' = inflight - (IF r \in Holders THEN 1 ELSE 0)
  BY DEF GiveBack, Holders
<1> QED BY <1>1, <1>3, <1>4, ProxyAssumption DEF SlotsOK

(* Every step of a handler keeps the slots accounted for.                  *)
LEMMA HandlerSlots ==
    ASSUME IInv, NEW r \in Requests, Receive(r) \/ Handle(r)
    PROVE  SlotsOK'
<1>1. CASE AcquireSlot(r)
  <2>1. IsFiniteSet(Holders) /\ inflight = Cardinality(Holders)
        /\ inflight \in Nat
    BY ProxyAssumption, FS_Subset, FS_CardinalityType DEF Holders, IInv, SlotsOK
  <2>2. r \notin Holders
    BY <1>1 DEF AcquireSlot, IInv, HandlersOK, HandlerOK, Holders
  <2>3. Holders' = Holders \cup {r}
    BY <1>1 DEF AcquireSlot, Holders, IInv, HandlerTypeOK
  <2>4. Cardinality(Holders') = inflight + 1
    BY <2>1, <2>2, <2>3, FS_AddElement
  <2> QED BY <1>1, <2>1, <2>4, ProxyAssumption DEF AcquireSlot, SlotsOK
<1>2. CASE RejectOverflow(r) \/ Release(r)
  BY <1>2, GiveBackSlots DEF RejectOverflow, Release
<1>3. CASE UNCHANGED <<slot, inflight>>
  BY <1>3 DEF IInv, SlotsOK, Holders
<1> QED BY <1>1, <1>2, <1>3
        DEF Receive, Handle, RejectBody, RejectCaller, Accept, RejectOverload,
            LookupMiss, LookupHit, MaskPayload, MaskFails, Save, SaveRefused,
            MaskAgain, Forbid, Conflict, Restore, Unmasking, RecordMetrics

-----------------------------------------------------------------------------
(* The store *)

(* Every step of a handler keeps the store's own invariant: the record it  *)
(* saves is a record and has a length.                                     *)
LEMMA HandlerCore ==
    ASSUME IInv, NEW r \in Requests, Receive(r) \/ Handle(r)
    PROVE  CoreInv(StoreKeys, Records)'
<1>0. CoreInv(StoreKeys, Records)
  BY DEF IInv
<1>1. CASE Save(r)
  <2>1. Key(r) \in StoreKeys
    BY <1>1 DEF Save, IInv, HandlersOK, HandlerOK, HandlerTypeOK, Accepting,
                Accepted, Accounts, Key, StoreKeys
  <2>2. rec[r] \in Records
    BY <1>1 DEF Save, IInv, HandlersOK, HandlerOK, GoodRecord
  <2>3. RecordBytes(rec[r]) \in Nat
    BY <2>2, RecordHasLength
  <2> QED BY <1>0, <1>1, <2>1, <2>2, <2>3, PutStoredInv DEF Save
<1>2. CASE LookupMiss(r)
  BY <1>0, <1>2, GetExpiredInv, QuietStepInv DEF LookupMiss, GetMissing
<1>3. CASE UNCHANGED storeVars
  BY <1>0, <1>3, QuietStepInv
<1> QED BY <1>1, <1>2, <1>3
        DEF Receive, Handle, RejectBody, RejectCaller, Accept, AcquireSlot,
            RejectOverload, LookupHit, GetLive, MaskPayload, MaskFails,
            SaveRefused, PutRefused, RejectOverflow, MaskAgain, Forbid,
            Conflict, Restore, Unmasking, Release, RecordMetrics

(* Every record in the store stays good: one that is saved was good in the *)
(* hands of its handler, the others were good before.                      *)
LEMMA HandlerStore ==
    ASSUME IInv, NEW r \in Requests, Receive(r) \/ Handle(r)
    PROVE  StoreOK'
<1> USE DEF StoreOK, GoodRecord, Sent, Accepted, Key
<1>1. Kept /\ StoreOK
  BY HandlerFrame DEF IInv
<1>2. CASE Save(r)
  <2>1. /\ DOMAIN entries' = DOMAIN entries \cup {Key(r)}
        /\ entries'[Key(r)].record = rec[r]
        /\ \A k \in DOMAIN entries \ {Key(r)} : entries'[k] = entries[k]
    BY <1>2 DEF Save, PutStored, Upsert
  <2>2. GoodRecord(rec[r], Key(r))
    BY <1>2 DEF Save, IInv, HandlersOK, HandlerOK
  <2>3. req' = req
    BY <1>2 DEF Save
  <2> QED BY <1>1, <2>1, <2>2, <2>3
<1>3. CASE \E k : GetExpired(k)
  BY <1>1, <1>3 DEF GetExpired, Without, Restrict, Kept
<1>4. CASE UNCHANGED storeVars
  BY <1>1, <1>4 DEF storeVars, Kept
<1> QED BY <1>2, <1>3, <1>4
        DEF Receive, Handle, RejectBody, RejectCaller, Accept, AcquireSlot,
            RejectOverload, LookupMiss, GetMissing, LookupHit, GetLive,
            MaskPayload, MaskFails, SaveRefused, PutRefused, RejectOverflow,
            MaskAgain, Forbid, Conflict, Restore, Unmasking, Release,
            RecordMetrics

-----------------------------------------------------------------------------
(* What a handler knows *)

(* A step into "record" or "release" with an error decided.                *)
LEMMA RejectedIsOK ==
    ASSUME HandlerTypeOK, NEW r \in Requests, NEW s \in Statuses \ {200},
           Reject(r, s)
    PROVE  AnswerOK(r)'
BY DEF HandlerTypeOK, Reject, Answer, AnswerOK

(* Each step of a handler establishes what its next label promises.        *)
LEMMA HandlerKnows ==
    ASSUME IInv, NEW r \in Requests, Receive(r) \/ Handle(r)
    PROVE  HandlerOK(r)'
<1> USE DEF Goto, Accepting, Answering
<1>0. HandlerTypeOK /\ HandlerOK(r) /\ pc[r] \in Labels /\ Kept
  BY HandlerFrame DEF IInv, HandlersOK, HandlerTypeOK
<1>1. CASE RejectBody(r) \/ RejectCaller(r)
  <2>1. AnswerOK(r)'
    BY <1>0, <1>1, RejectedIsOK DEF RejectBody, RejectCaller, Statuses
  <2> QED BY <1>0, <1>1, <2>1
          DEF RejectBody, RejectCaller, HandlerTypeOK, HandlerOK
<1>2. CASE Accept(r)
  <2>1. Accepted(r)' /\ pc'[r] = "slot" /\ slot' = slot
    BY <1>0, <1>2, SendableAreTexts, CallersAreConsumers, ProxyAssumption
       DEF Accept, Accepted, Accounts, HandlerTypeOK, IInv
  <2> QED BY <1>0, <1>2, <2>1 DEF Accept, HandlerOK
<1>3. CASE AcquireSlot(r)
  BY <1>0, <1>3 DEF AcquireSlot, HandlerTypeOK, HandlerOK, Accepted
<1>4. CASE RejectOverload(r)
  <2>1. AnswerOK(r)'
    BY <1>0, <1>4, RejectedIsOK DEF RejectOverload, Statuses
  <2> QED BY <1>0, <1>4, <2>1 DEF RejectOverload, HandlerTypeOK, HandlerOK
<1>5. CASE LookupMiss(r) \/ SaveRefused(r)
  BY <1>0, <1>5 DEF LookupMiss, SaveRefused, HandlerTypeOK, HandlerOK, Accepted
<1>6. CASE LookupHit(r)
  <2>1. GoodRecord(entries[Key(r)].record, Key(r))
    BY <1>6 DEF LookupHit, GetLive, IInv, StoreOK
  <2>2. GoodRecord(rec[r], Key(r))'
    BY <1>0, <1>6, <2>1
       DEF LookupHit, HandlerTypeOK, GoodRecord, Sent, Accepted, Key, Kept
  <2> QED BY <1>0, <1>6, <2>2 DEF LookupHit, HandlerTypeOK, HandlerOK, Accepted
<1>7. CASE MaskPayload(r)
  <2>1. Accepted(r) /\ req[r] \in Accounts /\ req[r].payload \in Payload
    BY <1>0, <1>7 DEF MaskPayload, HandlerOK, HandlerTypeOK, Accepted, Accounts
  <2>2. rec'[r] = Record(req[r].payload, req[r].consumer, r) /\ req' = req
    BY <1>0, <1>7 DEF MaskPayload, HandlerTypeOK
  <2>3. Key(r)[1] = req[r].consumer
    BY DEF Key
  <2> DEFINE p == req[r].payload
             c == req[r].consumer
             x == Record(p, c, r)
  <2>4. /\ x \in Records /\ x.source = req[r].payload
        /\ Hidden(x.masked, req[r].consumer) = {}
        /\ x.masked.raw \subseteq x.source.raw
        /\ \A t \in DOMAIN x.tokens : x.tokens[t] \in x.source.raw
    <3> HIDE DEF p, c
    <3>1. p \in Payload
      BY <2>1 DEF p
    <3> QED BY <3>1, RecordIsGood DEF p, c
  <2> HIDE DEF x
  <2>5. Sent(Key(r), x.source)
    BY <2>1, <2>4 DEF Sent
  <2>6. GoodRecord(rec[r], Key(r))' /\ rec'[r].source = req'[r].payload
    BY <2>2, <2>3, <2>4, <2>5 DEF x, GoodRecord, Sent, Accepted, Key
  <2> QED BY <1>0, <1>7, <2>6 DEF MaskPayload, HandlerTypeOK, HandlerOK, Accepted
<1>8. CASE MaskFails(r)
  <2>1. AnswerOK(r)'
    BY <1>0, <1>8, RejectedIsOK DEF MaskFails, Statuses
  <2> QED BY <1>0, <1>8, <2>1 DEF MaskFails, HandlerTypeOK, HandlerOK, Accepted
<1>9. CASE Save(r)
  <2>1. GoodRecord(rec[r], Key(r)) /\ Accepted(r)
    BY <1>0, <1>9 DEF Save, HandlerOK
  <2>2. out'[r] = [status |-> 200, direction |-> "mask", result |-> rec[r].masked]
        /\ req' = req
    BY <1>0, <1>9 DEF Save, Answer, HandlerTypeOK
  <2>3. rec[r].masked.raw \subseteq req[r].payload.raw
    <3>1. rec[r].source = req[r].payload
      BY <1>0, <1>9 DEF Save, HandlerOK
    <3> QED BY <2>1, <3>1 DEF GoodRecord
  <2>4. AnswerOK(r)'
    BY <2>1, <2>2, <2>3 DEF AnswerOK, GoodRecord, Records, Revealed, Accepted, Key
  <2> QED BY <1>0, <1>9, <2>4 DEF Save, HandlerTypeOK, HandlerOK, Accepted
<1>10. CASE RejectOverflow(r)
  <2>1. AnswerOK(r)'
    BY <1>0, <1>10, RejectedIsOK DEF RejectOverflow, Statuses
  <2> QED BY <1>0, <1>10, <2>1
          DEF RejectOverflow, GiveBack, HandlerTypeOK, HandlerOK, Accepted
<1>11. CASE MaskAgain(r)
  <2>1. GoodRecord(rec[r], Key(r)) /\ Accepted(r)
        /\ rec[r].source = req[r].payload
    BY <1>0, <1>11 DEF MaskAgain, Unmasking, SameSource, HandlerOK
  <2>2. out'[r] = [status |-> 200, direction |-> "mask", result |-> rec[r].masked]
        /\ req' = req
    BY <1>0, <1>11 DEF MaskAgain, Unmasking, Answer, HandlerTypeOK
  <2>3. AnswerOK(r)'
    BY <2>1, <2>2 DEF AnswerOK, GoodRecord, Records, Revealed, Accepted, Key
  <2> QED BY <1>0, <1>11, <2>3
          DEF MaskAgain, Unmasking, HandlerTypeOK, HandlerOK, Accepted
<1>12. CASE Forbid(r) \/ Conflict(r)
  <2>1. AnswerOK(r)'
    BY <1>0, <1>12, RejectedIsOK DEF Forbid, Conflict, Statuses
  <2> QED BY <1>0, <1>12, <2>1
          DEF Forbid, Conflict, Unmasking, HandlerTypeOK, HandlerOK, Accepted
<1>13. CASE Restore(r)
  <2> DEFINE p == req[r].payload
             f == rec[r].tokens
  <2>1. GoodRecord(rec[r], Key(r)) /\ Accepted(r) /\ MayUnmask(r)
    BY <1>0, <1>13 DEF Restore, Unmasking, HandlerOK
  <2>2. out'[r] = [status |-> 200, direction |-> "unmask", result |-> Unmask(p, f)]
        /\ req' = req
    BY <1>0, <1>13 DEF Restore, Unmasking, Answer, HandlerTypeOK
  <2>3. p \in Payload /\ f \in TokenMaps /\ rec[r].source \in Payload
    BY <1>0, <2>1 DEF HandlerTypeOK, Accepted, Accounts, GoodRecord, Records
  <2>4. Unmask(p, f) \in Payload
        /\ \A i \in Unmask(p, f).raw \ p.raw : i \in rec[r].source.raw
    BY <2>1, <2>3, UnmaskAdds DEF GoodRecord
  <2>5. Sent(Key(r), rec[r].source)
    BY <2>1 DEF GoodRecord
  <2>6. AnswerOK(r)'
    <3> HIDE DEF p, f
    <3>1. Revealed(r)' = Unmask(p, f).raw \ p.raw
      BY <2>2 DEF Revealed, p
    <3>2. \A i \in Revealed(r)' : \E x \in Payload : Sent(Key(r), x)' /\ i \in x.raw
      BY <2>2, <2>3, <2>4, <2>5, <3>1 DEF Sent, Accepted, Key
    <3> QED BY <2>1, <2>2, <2>4, <3>2 DEF AnswerOK, Accepted, MayUnmask
  <2> QED BY <1>0, <1>13, <2>6
          DEF Restore, Unmasking, HandlerTypeOK, HandlerOK, Accepted
<1>14. CASE Release(r) \/ RecordMetrics(r)
  <2>1. AnswerOK(r) => AnswerOK(r)'
    BY <1>14 DEF Release, RecordMetrics, AnswerOK, Revealed, Accepted, Sent,
                 Key, MayUnmask
  <2> QED BY <1>0, <1>14, <2>1
          DEF Release, RecordMetrics, GiveBack, HandlerTypeOK, HandlerOK, Accepted
<1> QED BY <1>1, <1>2, <1>3, <1>4, <1>5, <1>6, <1>7, <1>8, <1>9, <1>10,
           <1>11, <1>12, <1>13, <1>14 DEF Receive, Handle

-----------------------------------------------------------------------------
(* The steps of the specification *)

(* A step of any handler keeps the invariant.                              *)
LEMMA HandlerInv ==
    ASSUME IInv, NEW r \in Requests, Receive(r) \/ Handle(r), UNCHANGED restarts
    PROVE  IInv'
<1>1. ASSUME NEW q \in Requests PROVE HandlerOK(q)'
  <2>1. CASE q = r
    BY <2>1, HandlerKnows
  <2>2. CASE q # r
    BY <2>2, HandlerFrame, OthersStayOK DEF IInv, HandlersOK
  <2> QED BY <2>1, <2>2
<1>2. HandlersOK'
  BY <1>1 DEF HandlersOK
<1> QED BY <1>2, HandlerTypes, HandlerSlots, HandlerCore, HandlerStore DEF IInv

(* Time and the cleanup goroutine touch no request, and only drop records. *)
LEMMA StoreStepsInv ==
    ASSUME IInv, StoreSteps \/ UNCHANGED vars, UNCHANGED restarts
    PROVE  IInv'
<1>1. CoreInv(StoreKeys, Records)'
  BY QuietStepInv, BackgroundInv DEF IInv, StoreSteps, vars, storeVars
<1>2. UNCHANGED <<handlerVars, inflight, metricVars>>
  BY DEF StoreSteps, vars, handlerVars, metricVars
<1>3. HandlerTypeOK' /\ MetricTypeOK' /\ SlotsOK'
  BY <1>2 DEF IInv, HandlerTypeOK, MetricTypeOK, SlotsOK, Holders, handlerVars,
              metricVars
<1>4. Kept /\ \A q \in Requests : Same(q)
  BY <1>2 DEF Kept, Same, handlerVars
<1>5. HandlersOK'
  BY <1>4, OthersStayOK DEF IInv, HandlersOK
<1>6. StoreOK'
  <2>1. /\ DOMAIN entries' \subseteq DOMAIN entries
        /\ \A k \in DOMAIN entries' : entries'[k] = entries[k]
    BY DEF StoreSteps, Tick, Background, TickerFires, CleanupBegins, LoopStops,
           CleanupRuns, Without, Restrict, tableVars, vars, storeVars
  <2> QED BY <1>2, <2>1
          DEF IInv, StoreOK, GoodRecord, Sent, Accepted, Key, handlerVars
<1> QED BY <1>1, <1>3, <1>5, <1>6 DEF IInv

(* The process that takes the place of a dead one satisfies the invariant: *)
(* it knows no record, and what was answered before stays answered.        *)
LEMMA RestartInv ==
    ASSUME IInv, Restart
    PROVE  IInv'
<1>1. CoreInv(StoreKeys, Records)'
  BY StoreAnewInv DEF IInv, Restart
<1>2. HandlerTypeOK' /\ MetricTypeOK' /\ (restarts \in 0 .. MaxRestarts)'
  BY ProxyAssumption
     DEF IInv, Restart, Unanswered, HandlerTypeOK, MetricTypeOK, Labels, Statuses,
         Directions
<1>3. ASSUME NEW q \in Requests PROVE HandlerOK(q)'
  <2>1. CASE Unfinished(q)
    BY <2>1 DEF Restart, HandlerOK, Accepting, Answering, IInv, HandlerTypeOK
  <2>2. CASE ~Unfinished(q)
    <3>1. Kept /\ Same(q)
      BY <2>2 DEF Restart, Kept, Same, IInv, HandlerTypeOK
    <3> QED BY <3>1, OthersStayOK DEF IInv, HandlersOK
  <2> QED BY <2>1, <2>2
<1>4. HandlersOK'
  BY <1>3 DEF HandlersOK
<1>5. Holders' = {}
  BY DEF IInv, HandlersOK, HandlerOK, HandlerTypeOK, Accepting, Restart,
         Unfinished, Holders
<1>6. SlotsOK'
  <2>1. inflight' = 0
    BY DEF Restart
  <2> QED BY <1>5, <2>1, FS_EmptySet, ProxyAssumption DEF SlotsOK
<1>7. StoreOK'
  BY DEF Restart, StoreAnew, StoreOK
<1> QED BY <1>1, <1>2, <1>4, <1>6, <1>7 DEF IInv

(* Every step keeps the invariant.                                         *)
LEMMA NextInv == IInv /\ [Next]_vars => IInv'
<1> SUFFICES ASSUME IInv, [Next]_vars PROVE IInv'
  OBVIOUS
<1>1. CASE OneLife /\ UNCHANGED restarts
  BY <1>1, HandlerInv, StoreStepsInv DEF OneLife
<1>2. CASE Restart
  BY <1>2, RestartInv
<1>3. CASE UNCHANGED vars
  BY <1>3, StoreStepsInv DEF vars
<1> QED BY <1>1, <1>2, <1>3 DEF Next

(* The invariant holds in every reachable state.                           *)
THEOREM Invariance == Spec => []IInv
BY InitInv, NextInv, PTL DEF Spec

-----------------------------------------------------------------------------
(* What follows from it *)

(* The variables keep their types, for any number of requests.             *)
THEOREM TypeCorrect == Spec => []TypeOK
<1>1. IInv => TypeOK
  <2>1. IInv => inflight \in Int
    BY ProxyAssumption, FS_Subset, FS_CardinalityType DEF IInv, SlotsOK, Holders
  <2> QED BY <2>1 DEF IInv, CoreInv, HandlerTypeOK, MetricTypeOK, TypeOK
<1> QED BY <1>1, Invariance, PTL

(* Slots are neither leaked nor given back twice, on any path through the  *)
(* handler, and never exceed MAX_INFLIGHT.                                 *)
THEOREM SlotsAccounted == Spec => []SlotAccounting
<1>1. IInv => SlotAccounting
  BY DEF IInv, SlotsOK, HandlersOK, HandlerOK, Accepting, Holders, SlotAccounting
<1> QED BY <1>1, Invariance, PTL

(* A handler about to give back its slot, early on a full store or with    *)
(* the deferred call: it takes a value out of the channel of slots.        *)
GivesBack(r) == pc[r] \in {"overflow", "release"} /\ slot[r] = "held"

(* The one step of a handler that could have to wait never does: whoever   *)
(* gives back its slot finds the channel not empty, whatever the others    *)
(* have given back.  At every other place the guards of NobodyWaits cover  *)
(* all cases.                                                              *)
THEOREM NoWaitForASlot == Spec => [](\A r \in Requests : GivesBack(r) => inflight > 0)
<1>1. IInv => \A r \in Requests : GivesBack(r) => inflight > 0
  <2> SUFFICES ASSUME IInv, NEW r \in Requests, GivesBack(r)
               PROVE  inflight > 0
    OBVIOUS
  <2>1. IsFiniteSet(Holders) /\ inflight = Cardinality(Holders)
    BY ProxyAssumption, FS_Subset DEF Holders, IInv, SlotsOK
  <2>2. r \in Holders
    BY DEF GivesBack, Holders
  <2>3. Cardinality(Holders) # 0
    BY <2>1, <2>2, FS_EmptySet
  <2>4. Cardinality(Holders) \in Nat
    BY <2>1, FS_CardinalityType
  <2> QED BY <2>1, <2>3, <2>4
<1> QED BY <1>1, Invariance, PTL

(* The store's byte total is right under the traffic the handlers make.    *)
THEOREM StoreAccounted == Spec => []ByteAccounting
<1>1. IInv => ByteAccounting
  BY DEF IInv, CoreInv
<1> QED BY <1>1, Invariance, PTL

(* The store's limits hold under that traffic.                             *)
THEOREM StoreWithinLimits == Spec => []WithinLimits
<1>1. IInv => WithinLimits
  BY DEF IInv, CoreInv
<1> QED BY <1>1, Invariance, PTL

(* No text answered as masked shows an item of a kind its consumer masks.  *)
THEOREM MasksHide == Spec => []MaskHidesItems
<1>1. IInv => MaskHidesItems
  BY DEF IInv, HandlersOK, HandlerOK, AnswerOK, MaskHidesItems, MaskedFor, Done,
         Answering
<1> QED BY <1>1, Invariance, PTL

(* A value is revealed only to a consumer that may unmask and that sent it *)
(* under the same payload id.                                              *)
THEOREM ValuesStay == Spec => []ValuesStayWithOwner
<1>1. IInv => ValuesStayWithOwner
  <2> SUFFICES ASSUME IInv, NEW r \in Requests, Done(r), out[r].status = 200,
                      NEW i \in Revealed(r)
               PROVE  /\ Registered[req[r].consumer].unmask
                      /\ \E q \in Requests : /\ Accepted(q)
                                              /\ req[q].consumer = req[r].consumer
                                              /\ req[q].id = req[r].id
                                              /\ i \in req[q].payload.raw
    BY DEF ValuesStayWithOwner
  <2>1. AnswerOK(r)
    BY DEF IInv, HandlersOK, HandlerOK, Done, Answering
  <2>2. MayUnmask(r) /\ \E p \in Payload : Sent(Key(r), p) /\ i \in p.raw
    BY <2>1 DEF AnswerOK
  <2> QED BY <2>2 DEF Sent, Key, MayUnmask
<1> QED BY <1>1, Invariance, PTL

-----------------------------------------------------------------------------
(* The store seen as bindings *)

(* Steps that drop expired entries, or none, leave the bindings alone.     *)
LEMMA SameBindings ==
    ASSUME IInv,
           \/ \E k : GetExpired(k)
           \/ Background
           \/ UNCHANGED storeVars
    PROVE  UNCHANGED <<Bindings, clock>>
<1>1. ASSUME NEW S, \A k \in S \cap DOMAIN entries : Expired(entries[k], clock),
             entries' = Without(entries, S), clock' = clock
      PROVE  UNCHANGED Bindings
  BY <1>1 DEF Bindings, Live, Without, Restrict
<1>2. CASE \E k : GetExpired(k)
  BY <1>1, <1>2 DEF GetExpired
<1>3. CASE CleanupRuns
  <2>1. \A k \in Lapsed(cleanupNow) : Expired(entries[k], clock)
    <3> SUFFICES ASSUME NEW k \in Lapsed(cleanupNow)
                 PROVE  Expired(entries[k], clock)
      OBVIOUS
    <3>1. cleanupNow \in Int /\ clock \in Int /\ cleanupNow <= clock
      BY DEF IInv, CoreInv, StoreTypeOK, LoopTypeOK
    <3>2. entries[k].expiry \in Int /\ cleanupNow > entries[k].expiry
      BY TableSized DEF IInv, CoreInv, StoreTypeOK, Lapsed, Expired, Entry
    <3> QED BY <3>1, <3>2 DEF Expired
  <2> QED BY <1>1, <1>3, <2>1 DEF CleanupRuns
<1>4. CASE TickerFires \/ CleanupBegins \/ LoopStops \/ UNCHANGED storeVars
  BY <1>4 DEF TickerFires, CleanupBegins, LoopStops, tableVars, storeVars,
              Bindings, Live
<1> QED BY <1>2, <1>3, <1>4 DEF Background

(* Time ends the bindings whose time is then past.                         *)
LEMMA TickBindings ==
    ASSUME IInv, Tick
    PROVE  Bindings' = Racy!Living(clock', Bindings)
<1>1. \A k \in DOMAIN entries : entries[k].expiry \in Int
  BY TableSized DEF IInv, CoreInv, StoreTypeOK, Entry
<1>2. clock \in Nat /\ clock' = clock + 1 /\ entries' = entries
  BY DEF IInv, CoreInv, StoreTypeOK, LoopTypeOK, Tick, tableVars
<1>3. \A k \in DOMAIN entries :
        Live(k)' <=> Live(k) /\ clock' <= entries[k].expiry
  BY <1>1, <1>2 DEF Live, Expired
<1> QED BY <1>2, <1>3 DEF Bindings, Racy!Living

(* Saving a record binds its key to it, if it is to live at all.           *)
LEMMA PutBindings ==
    ASSUME IInv, NEW k, NEW x, NEW b, PutStored(k, x, b)
    PROVE  /\ clock' = clock
           /\ Bindings' =
                 Racy!Living(clock,
                     [j \in DOMAIN Bindings \cup {k} |->
                         IF j = k THEN [record |-> x, until |-> clock + TTL]
                                  ELSE Bindings[j]])
<1> DEFINE e == [record |-> x, bytes |-> b, expiry |-> clock + TTL]
           m == [j \in DOMAIN Bindings \cup {k} |->
                    IF j = k THEN [record |-> x, until |-> clock + TTL]
                             ELSE Bindings[j]]
<1>1. entries' = Upsert(entries, k, e) /\ clock' = clock
  BY DEF PutStored
<1>2. \A j \in DOMAIN entries : entries[j].expiry \in Int
  BY TableSized DEF IInv, CoreInv, StoreTypeOK, Entry
<1>3. clock \in Int /\ TTL \in Int
  BY StoreAssumption DEF IInv, CoreInv, StoreTypeOK, LoopTypeOK
<1>4. \A j \in DOMAIN entries' :
        Live(j)' <=> j \in DOMAIN m /\ clock <= m[j].until
  BY <1>1, <1>2, <1>3 DEF Upsert, Live, Expired, Bindings
<1>5. DOMAIN m \subseteq DOMAIN entries'
  BY <1>1 DEF Upsert, Bindings
<1>6. \A j \in DOMAIN m :
        m[j] = [record |-> entries'[j].record, until |-> entries'[j].expiry]
  BY <1>1 DEF Upsert, Bindings
<1>7. DOMAIN Bindings' = {j \in DOMAIN m : clock <= m[j].until}
  BY <1>4, <1>5 DEF Bindings, Live
<1>8. \A j \in DOMAIN Bindings' : Bindings'[j] = m[j]
  BY <1>6, <1>7 DEF Bindings
<1>9. Bindings' = [j \in DOMAIN Bindings' |-> Bindings'[j]]
  BY DEF Bindings
<1> HIDE DEF m
<1>10. Bindings' = Racy!Living(clock, m)
  BY <1>7, <1>8, <1>9 DEF Racy!Living
<1> QED BY <1>1, <1>10 DEF m

-----------------------------------------------------------------------------
(* For all clients: what is saved was made from the text of its request *)

MadeOK == \A r \in Requests : pc[r] = "put" => rec[r] = Made(req[r], r)

MInv == IInv /\ MadeOK

(* What is about to be saved was made from the text of the request.        *)
LEMMA HandlerMade ==
    ASSUME IInv, MadeOK, NEW r \in Requests, Receive(r) \/ Handle(r)
    PROVE  MadeOK'
<1>1. HandlerTypeOK
  BY DEF IInv
<1>2. \A q \in Requests \ {r} : Same(q)
  BY <1>1, HandlerFrame
<1>3. ASSUME NEW q \in Requests \ {r}, pc'[q] = "put"
      PROVE  rec'[q] = Made(req'[q], q)
  BY <1>2, <1>3 DEF MadeOK, Same
<1>4. ASSUME pc'[r] = "put"
      PROVE  rec'[r] = Made(req'[r], r)
  <2>1. MaskPayload(r)
    BY <1>1, <1>4
       DEF HandlerTypeOK, Goto, Receive, Handle, RejectBody, RejectCaller,
           Accept, AcquireSlot, RejectOverload, LookupMiss, LookupHit,
           MaskFails, Save, SaveRefused, RejectOverflow, MaskAgain, Forbid,
           Conflict, Restore, Unmasking, Release, RecordMetrics
  <2> QED BY <1>1, <2>1 DEF MaskPayload, HandlerTypeOK, Made
<1> QED BY <1>3, <1>4 DEF MadeOK

(* The other steps put no record into the hands of a handler.              *)
LEMMA OthersMade ==
    ASSUME MadeOK, StoreSteps \/ Restart \/ UNCHANGED vars
    PROVE  MadeOK'
<1>1. CASE StoreSteps \/ UNCHANGED vars
  BY <1>1 DEF StoreSteps, vars, handlerVars, MadeOK, Made
<1>2. CASE Restart
  BY <1>2 DEF Restart, Unfinished, MadeOK
<1> QED BY <1>1, <1>2

THEOREM MadeInvariance == Spec => []MInv
<1>1. Init => MInv
  BY InitInv DEF Init, MInv, MadeOK
<1>2. MInv /\ [Next]_vars => MInv'
  BY NextInv, HandlerMade, OthersMade DEF MInv, Next, OneLife
<1> QED BY <1>1, <1>2, PTL DEF Spec

-----------------------------------------------------------------------------
(* The refinement for all clients *)

SameView(q) == Stage(q)' = Stage(q) /\ Decided(q)' = Decided(q)

(* A request that a step does not touch looks the same to the service.     *)
LEMMA SameIsSameView ==
    ASSUME NEW q \in Requests, Same(q)
    PROVE  SameView(q)
BY DEF Same, SameView, Stage, Decided, Foretold, Accepted, SameSource, MayUnmask,
       Recognised

(* A step the service does not see.                                        *)
LEMMA Stutters ==
    ASSUME \A q \in Requests : SameView(q),
           UNCHANGED <<Bindings, clock, restarts, req>>
    PROVE  UNCHANGED Racy!vars
BY DEF SameView, Racy!vars

(* A step that decides the answer to one request.                          *)
LEMMA Decides ==
    ASSUME NEW r \in Requests, NEW a,
           \A q \in Requests \ {r} : SameView(q),
           Stage(r)' = "answered", Decided(r)' = a,
           UNCHANGED <<clock, restarts, req>>
    PROVE  Racy!Decide(r, a)
BY DEF SameView, Racy!Decide

(* A request whose label is one of the early ones has been asked, and has  *)
(* found nothing if it has looked.                                         *)
LEMMA AskedStage ==
    ASSUME HandlersOK, NEW r \in Requests,
           pc[r] \in {"slot", "lookup", "mask", "put", "overflow"}
    PROVE  /\ Accepted(r) /\ Decided(r) = None
           /\ Stage(r) = IF pc[r] \in {"slot", "lookup"} THEN "asked" ELSE "missed"
BY DEF HandlersOK, HandlerOK, Accepting, Stage, Decided

(* The steps before a request is decided, and those that only refuse.      *)
LEMMA EarlySteps ==
    ASSUME IInv, NEW r \in Requests, UNCHANGED restarts,
           \/ RejectBody(r) \/ RejectCaller(r) \/ Accept(r)
           \/ AcquireSlot(r) \/ RejectOverload(r)
           \/ LookupMiss(r) \/ MaskPayload(r) \/ MaskFails(r)
           \/ SaveRefused(r) \/ RejectOverflow(r)
    PROVE  [Racy!RacyNext]_(Racy!vars)
<1>1. IInv /\ HandlerTypeOK /\ HandlersOK
  BY DEF IInv
<1>2. \A q \in Requests \ {r} : SameView(q)
  BY <1>1, HandlerFrame, SameIsSameView DEF Receive, Handle
<1>3. UNCHANGED <<Bindings, clock>>
  <2>1. (\E k : GetExpired(k)) \/ UNCHANGED storeVars
    BY DEF RejectBody, RejectCaller, Accept, AcquireSlot, RejectOverload,
           LookupMiss, GetMissing, MaskPayload, MaskFails, SaveRefused,
           PutRefused, RejectOverflow
  <2> QED BY <1>1, <2>1, SameBindings
<1>4. CASE RejectBody(r) \/ RejectCaller(r)
  <2>1. ~Accepted(r) /\ req' = req
    BY <1>1, <1>4 DEF RejectBody, RejectCaller, HandlersOK, HandlerOK, Accepted
  <2>2. SameView(r)
    BY <2>1 DEF SameView, Stage, Decided, Accepted
  <2> QED BY <1>2, <1>3, <2>1, <2>2, Stutters
<1>5. CASE Accept(r)
  <2>1. Stage(r) = "idle" /\ Decided(r) = None
    BY <1>1, <1>5 DEF Accept, HandlersOK, HandlerOK, Accepted, Stage, Decided
  <2>2. /\ req'[r] \in Accounts /\ pc'[r] = "slot"
        /\ req' = [req EXCEPT ![r] = req'[r]]
    BY <1>1, <1>5, SendableAreTexts, CallersAreConsumers
       DEF Accept, Goto, Accounts, HandlerTypeOK
  <2>3. Stage(r)' = "asked" /\ Decided(r)' = None
    BY <2>2, ProxyAssumption DEF Stage, Decided, Accepted
  <2>4. Racy!Ask(r)
    BY <1>2, <1>3, <2>1, <2>2, <2>3 DEF SameView, Racy!Ask
  <2> QED BY <2>4 DEF Racy!RacyNext
<1>6. CASE AcquireSlot(r) \/ MaskPayload(r) \/ SaveRefused(r)
  <2>1. Accepted(r) /\ req' = req
    BY <1>1, <1>6, AskedStage DEF AcquireSlot, MaskPayload, SaveRefused
  <2>2. \/ pc[r] = "slot" /\ pc'[r] = "lookup"
        \/ pc[r] \in {"mask", "put"} /\ pc'[r] \in {"put", "overflow"}
    BY <1>1, <1>6 DEF AcquireSlot, MaskPayload, SaveRefused, Goto, HandlerTypeOK
  <2>3. SameView(r)
    BY <2>1, <2>2 DEF SameView, Stage, Decided, Accepted
  <2> QED BY <1>2, <1>3, <2>1, <2>3, Stutters
<1>7. CASE LookupMiss(r)
  <2>1. Stage(r) = "asked" /\ Decided(r) = None /\ Accepted(r) /\ req' = req
    BY <1>1, <1>7, AskedStage DEF LookupMiss
  <2>2. pc'[r] = "mask"
    BY <1>1, <1>7 DEF LookupMiss, Goto, HandlerTypeOK
  <2>3. Stage(r)' = "missed" /\ Decided(r)' = None
    BY <2>1, <2>2 DEF Stage, Decided, Accepted
  <2>4. CallKey(req[r]) \notin DOMAIN Bindings
    BY <1>7 DEF LookupMiss, GetMissing, GetExpired, Bindings, Live, Key, CallKey
  <2>5. Racy!Miss(r)
    BY <1>2, <1>3, <2>1, <2>3, <2>4 DEF SameView, Racy!Miss
  <2> QED BY <2>5 DEF Racy!RacyNext
<1>8. CASE RejectOverload(r) \/ MaskFails(r) \/ RejectOverflow(r)
  <2>1. Stage(r) \in {"asked", "missed"} /\ Accepted(r) /\ req' = req
    BY <1>1, <1>8, AskedStage DEF RejectOverload, MaskFails, RejectOverflow
  <2>2. PICK status \in {429, 503} : Reject(r, status)
    BY <1>8 DEF RejectOverload, MaskFails, RejectOverflow
  <2>3. pc'[r] \in {"record", "release"} /\ out'[r] = Racy!Refusal(status)
    BY <1>1, <1>8, <2>2 DEF RejectOverload, MaskFails, RejectOverflow, Goto,
                            Reject, Answer, HandlerTypeOK, Racy!Refusal
  <2>4. Stage(r)' = "answered" /\ Decided(r)' = Racy!Refusal(status)
    BY <2>1, <2>3 DEF Stage, Decided, Accepted
  <2>5. Racy!Decide(r, Racy!Refusal(status))
    BY <1>2, <1>3, <2>1, <2>4, Decides
  <2>6. Racy!Refuse(r) \/ Racy!RefuseLate(r)
    BY <1>3, <2>1, <2>2, <2>5 DEF Racy!Refuse, Racy!RefuseLate
  <2> QED BY <2>6 DEF Racy!RacyNext
<1> QED BY <1>4, <1>5, <1>6, <1>7, <1>8

(* Saving a record is the instant a masking takes effect.                  *)
LEMMA SaveBinds ==
    ASSUME MInv, NEW r \in Requests, Save(r), UNCHANGED restarts
    PROVE  Racy!BindLate(r)
<1>1. IInv /\ HandlerTypeOK /\ HandlersOK /\ MadeOK
  BY DEF MInv, IInv
<1>2. \A q \in Requests \ {r} : SameView(q)
  BY <1>1, HandlerFrame, SameIsSameView DEF Handle
<1>3. Stage(r) = "missed" /\ Accepted(r) /\ req' = req /\ pc[r] = "put"
  BY <1>1, AskedStage DEF Save
<1>4. rec[r] = Made(req[r], r) /\ Key(r) = CallKey(req[r])
  BY <1>1, <1>3 DEF MadeOK, Key, CallKey
<1>5. PutStored(Key(r), rec[r], RecordBytes(rec[r]))
  BY DEF Save
<1>6. /\ clock' = clock
      /\ Bindings' =
            Racy!Living(clock,
                [j \in DOMAIN Bindings \cup {Key(r)} |->
                    IF j = Key(r) THEN [record |-> rec[r], until |-> clock + TTL]
                                  ELSE Bindings[j]])
  BY <1>1, <1>5, PutBindings
<1>7. pc'[r] = "release" /\ out'[r] = Racy!Masked(rec[r])
  BY <1>1 DEF Save, Goto, Answer, HandlerTypeOK, Racy!Masked
<1>8. Stage(r)' = "answered" /\ Decided(r)' = Racy!Masked(rec[r])
  BY <1>3, <1>7 DEF Stage, Decided, Accepted
<1>9. Racy!Decide(r, Racy!Masked(rec[r]))
  BY <1>2, <1>3, <1>6, <1>8, Decides
<1> QED BY <1>3, <1>4, <1>6, <1>9 DEF Racy!BindLate, Racy!Rebind

(* Reading a record is the instant an answer from it takes effect.         *)
LEMMA HitConsults ==
    ASSUME IInv, NEW r \in Requests, LookupHit(r), UNCHANGED restarts
    PROVE  Racy!Consult(r)
<1>1. IInv /\ HandlerTypeOK /\ HandlersOK
  BY DEF IInv
<1>2. \A q \in Requests \ {r} : SameView(q)
  BY <1>1, HandlerFrame, SameIsSameView DEF Handle
<1>3. Stage(r) = "asked" /\ Accepted(r) /\ req' = req
  BY <1>1, AskedStage DEF LookupHit
<1>4. UNCHANGED <<Bindings, clock>>
  <2>1. UNCHANGED storeVars
    BY DEF LookupHit, GetLive
  <2> QED BY <1>1, <2>1, SameBindings
<1>5. /\ Key(r) \in DOMAIN Bindings /\ Key(r) = CallKey(req[r])
      /\ Bindings[Key(r)].record = entries[Key(r)].record
  BY DEF LookupHit, GetLive, Bindings, Live, Key, CallKey
<1> DEFINE x == entries[Key(r)].record
<1>6. rec'[r] = x /\ pc'[r] = "unmask"
  BY <1>1 DEF LookupHit, Goto, HandlerTypeOK
<1>7. Foretold(r)' = Racy!Verdict(req[r], x)
  <2> HIDE DEF x
  <2> QED BY <1>3, <1>6
          DEF Foretold, SameSource, MayUnmask, Recognised, KnownTokens,
              Racy!Verdict, Racy!Masked, Racy!Unmasked, Racy!Refusal,
              MayRestore, Holds, Restored
<1>8. Stage(r)' = "answered" /\ Decided(r)' = Racy!Verdict(req[r], x)
  BY <1>3, <1>6, <1>7 DEF Stage, Decided, Accepted
<1>9. Racy!Decide(r, Racy!Verdict(req[r], x))
  <2> HIDE DEF x
  <2> QED BY <1>2, <1>3, <1>4, <1>8, Decides
<1> QED BY <1>3, <1>4, <1>5, <1>9 DEF Racy!Consult

(* Answering from the record that was read shows what was decided then.    *)
LEMMA UnmaskingStutters ==
    ASSUME IInv, NEW r \in Requests, UNCHANGED restarts,
           MaskAgain(r) \/ Forbid(r) \/ Conflict(r) \/ Restore(r)
    PROVE  UNCHANGED Racy!vars
<1>1. IInv /\ HandlerTypeOK /\ HandlersOK
  BY DEF IInv
<1>2. \A q \in Requests \ {r} : SameView(q)
  BY <1>1, HandlerFrame, SameIsSameView DEF Handle
<1>3. /\ pc[r] = "unmask" /\ req' = req /\ UNCHANGED storeVars
      /\ pc'[r] = "release" /\ Accepted(r)
  BY <1>1 DEF MaskAgain, Forbid, Conflict, Restore, Unmasking, Goto,
              HandlerTypeOK, HandlersOK, HandlerOK, Accepting
<1>4. UNCHANGED <<Bindings, clock>>
  BY <1>1, <1>3, SameBindings
<1>5. out'[r] = Foretold(r)
  BY <1>1 DEF MaskAgain, Forbid, Conflict, Restore, Unmasking, Reject, Answer,
              Foretold, HandlerTypeOK
<1>6. SameView(r)
  BY <1>3, <1>5 DEF SameView, Stage, Decided, Accepted
<1> QED BY <1>2, <1>3, <1>4, <1>6, Stutters

(* Releasing the slot is not seen; with the metrics recorded the handler   *)
(* returns, and the client hears the answer.                               *)
LEMMA LastSteps ==
    ASSUME IInv, NEW r \in Requests, UNCHANGED restarts,
           Release(r) \/ RecordMetrics(r)
    PROVE  [Racy!RacyNext]_(Racy!vars)
<1>1. IInv /\ HandlerTypeOK /\ HandlersOK
  BY DEF IInv
<1>2. \A q \in Requests \ {r} : SameView(q)
  BY <1>1, HandlerFrame, SameIsSameView DEF Handle
<1>3. req' = req /\ out' = out /\ UNCHANGED storeVars
  BY DEF Release, RecordMetrics
<1>4. UNCHANGED <<Bindings, clock>>
  BY <1>1, <1>3, SameBindings
<1>5. CASE Release(r) \/ ~Accepted(r)
  <2>1. \/ ~Accepted(r) /\ ~Accepted(r)'
        \/ pc[r] = "release" /\ pc'[r] = "record" /\ Accepted(r)'
    BY <1>1, <1>3, <1>5 DEF Release, Goto, HandlerTypeOK, Accepted
  <2>2. SameView(r)
    BY <1>3, <2>1 DEF SameView, Stage, Decided, Accepted
  <2> QED BY <1>2, <1>3, <1>4, <2>2, Stutters
<1>6. CASE RecordMetrics(r) /\ Accepted(r)
  <2>1. pc[r] = "record" /\ pc'[r] = "done" /\ Accepted(r)'
    BY <1>1, <1>3, <1>6 DEF RecordMetrics, Goto, HandlerTypeOK, Accepted
  <2>2. /\ Stage(r) = "answered" /\ Stage(r)' = "heard"
        /\ Decided(r)' = Decided(r)
    BY <1>3, <1>6, <2>1 DEF Stage, Decided
  <2>3. Racy!Hear(r)
    BY <1>2, <1>3, <1>4, <2>2 DEF SameView, Racy!Hear
  <2> QED BY <2>3 DEF Racy!RacyNext
<1> QED BY <1>5, <1>6

(* The store's own steps are the passing of time, or are not seen.         *)
LEMMA StoreStepsRefine ==
    ASSUME IInv, StoreSteps \/ UNCHANGED vars, UNCHANGED restarts
    PROVE  [Racy!RacyNext]_(Racy!vars)
<1>1. UNCHANGED handlerVars
  BY DEF StoreSteps, vars, handlerVars
<1>2. \A q \in Requests : SameView(q)
  BY <1>1, SameIsSameView DEF Same, handlerVars
<1>3. CASE Tick
  <2>1. Bindings' = Racy!Living(clock', Bindings)
    BY <1>3, TickBindings
  <2>2. Racy!Elapse
    BY <1>1, <1>2, <1>3, <2>1 DEF SameView, Tick, handlerVars, Racy!Elapse
  <2> QED BY <2>2 DEF Racy!RacyNext
<1>4. CASE Background \/ UNCHANGED vars
  <2>1. UNCHANGED <<Bindings, clock>>
    BY <1>4, SameBindings DEF vars, storeVars
  <2> QED BY <1>1, <1>2, <2>1, Stutters DEF handlerVars
<1> QED BY <1>3, <1>4 DEF StoreSteps

(* The death of the process is the death of all bindings.                  *)
LEMMA RestartCrashes ==
    ASSUME IInv, Restart
    PROVE  Racy!Crash
<1>1. HandlerTypeOK /\ HandlersOK
  BY DEF IInv
<1>2. Bindings' = [k \in {} |-> 0] /\ clock' = clock
  BY DEF Restart, StoreAnew, Bindings
<1>3. req' = req /\ restarts < MaxRestarts /\ restarts' = restarts + 1
  BY DEF Restart
<1>4. ASSUME NEW q \in Requests
      PROVE  /\ Stage(q)' = IF Stage(q) \in {"idle", "heard", "lost"}
                             THEN Stage(q) ELSE "lost"
             /\ Decided(q)' = IF Stage(q) = "heard" THEN Decided(q) ELSE None
  <2>1. CASE ~Accepted(q)
    BY <1>3, <2>1 DEF Stage, Decided, Accepted
  <2>2. CASE Accepted(q) /\ Unfinished(q)
    <3>1. pc'[q] = "lost" /\ Accepted(q)'
      BY <1>3, <2>2 DEF Restart, Accepted
    <3>2. Stage(q)' = "lost" /\ Decided(q)' = None
      BY <3>1 DEF Stage, Decided
    <3>3. Stage(q) \in {"asked", "missed", "answered"}
      BY <2>2 DEF Stage, Unfinished
    <3> QED BY <3>2, <3>3
  <2>3. CASE Accepted(q) /\ ~Unfinished(q)
    <3>1. pc[q] \in {"done", "lost"}
      BY <1>1, <2>3 DEF Unfinished, HandlersOK, HandlerOK, Accepted
    <3>2. pc'[q] = pc[q] /\ out'[q] = out[q] /\ Accepted(q)'
      BY <1>3, <2>3 DEF Restart, Accepted
    <3> QED BY <2>3, <3>1, <3>2 DEF Stage, Decided
  <2> QED BY <2>1, <2>2, <2>3
<1> QED BY <1>2, <1>3, <1>4 DEF Racy!Crash

(* Every step of the server is a step of the service, or is not seen.      *)
LEMMA StepRefines ==
    ASSUME MInv, [Next]_vars
    PROVE  [Racy!RacyNext]_(Racy!vars)
<1> USE DEF MInv
<1>1. ASSUME NEW r \in Requests, Receive(r) \/ Handle(r), UNCHANGED restarts
      PROVE  [Racy!RacyNext]_(Racy!vars)
  <2>1. CASE \/ RejectBody(r) \/ RejectCaller(r) \/ Accept(r)
             \/ AcquireSlot(r) \/ RejectOverload(r)
             \/ LookupMiss(r) \/ MaskPayload(r) \/ MaskFails(r)
             \/ SaveRefused(r) \/ RejectOverflow(r)
    BY <1>1, <2>1, EarlySteps
  <2>2. CASE Save(r) \/ LookupHit(r)
    BY <1>1, <2>2, SaveBinds, HitConsults DEF Racy!RacyNext
  <2>3. CASE MaskAgain(r) \/ Forbid(r) \/ Conflict(r) \/ Restore(r)
    BY <1>1, <2>3, UnmaskingStutters
  <2>4. CASE Release(r) \/ RecordMetrics(r)
    BY <1>1, <2>4, LastSteps
  <2> QED BY <1>1, <2>1, <2>2, <2>3, <2>4 DEF Receive, Handle
<1>2. CASE (StoreSteps \/ UNCHANGED vars) /\ UNCHANGED restarts
  BY <1>2, StoreStepsRefine
<1>3. CASE Restart
  BY <1>3, RestartCrashes DEF Racy!RacyNext
<1>4. CASE UNCHANGED vars
  BY <1>2, <1>4 DEF vars
<1> QED BY <1>1, <1>2, <1>3, <1>4 DEF Next, OneLife

(* For every client, waiting or not, the server is the racy service: a     *)
(* request is answered from what one look at the store found, or saves     *)
(* what it made itself.                                                    *)
THEOREM ImplementsRacy == Spec => ImplementsRacyService
<1>1. Init => Racy!Init
  <2> SUFFICES ASSUME Init PROVE Racy!Init
    OBVIOUS
  <2>1. \A r \in Requests : Stage(r) = "idle" /\ Decided(r) = None
    BY DEF Init, Stage, Decided, Accepted
  <2>2. Bindings = [k \in {} |-> 0]
    BY DEF Init, StoreInit, Bindings
  <2> QED BY <2>1, <2>2 DEF Racy!Init, Init, StoreInit
<1>2. MInv /\ [Next]_vars => [Racy!RacyNext]_(Racy!vars)
  BY StepRefines
<1> QED BY <1>1, <1>2, MadeInvariance, PTL
        DEF Spec, ImplementsRacyService, Racy!RacySpec

-----------------------------------------------------------------------------
(* Clients that wait: the invariant behind MaskService *)

(* Two requests that are being worked on have different keys.              *)
OneAtATime ==
    \A q, r \in Requests :
        (/\ Accepted(q) /\ Unfinished(q)
         /\ Accepted(r) /\ Unfinished(r)
         /\ Key(q) = Key(r)) => q = r

(* The store holds nothing that lives under the key of a request that has  *)
(* found nothing there.                                                    *)
Missing == {"mask", "put", "overflow"}

FreshOK == \A r \in Requests : pc[r] \in Missing => ~Live(Key(r))

SInv == MInv /\ OneAtATime /\ FreshOK

(* What lives after a step of a handler lived before it, but for the key   *)
(* under which the handler saves.                                          *)
LEMMA HandlerLive ==
    ASSUME IInv, NEW r \in Requests, Receive(r) \/ Handle(r), NEW k, Live(k)'
    PROVE  Live(k) \/ (Save(r) /\ k = Key(r))
<1>1. CASE Save(r)
  BY <1>1 DEF Save, PutStored, Upsert, Live
<1>2. CASE \E j : GetExpired(j)
  <2>1. UNCHANGED Bindings
    BY <1>2, SameBindings
  <2> QED BY <2>1 DEF Bindings, Live
<1>3. CASE UNCHANGED storeVars
  BY <1>3 DEF storeVars, Live
<1> QED BY <1>1, <1>2, <1>3
        DEF Receive, Handle, RejectBody, RejectCaller, Accept, AcquireSlot,
            RejectOverload, LookupMiss, GetMissing, LookupHit, GetLive,
            MaskPayload, MaskFails, SaveRefused, PutRefused, RejectOverflow,
            MaskAgain, Forbid, Conflict, Restore, Unmasking, Release,
            RecordMetrics

(* A request is accepted only by Accept, and was being worked on before    *)
(* any other step of its handler.                                          *)
LEMMA WorkedOn ==
    ASSUME IInv, NEW r \in Requests, Receive(r) \/ Handle(r), ~Accept(r),
           Accepted(r)'
    PROVE  req' = req /\ (pc[r] # "new" => Accepted(r) /\ Unfinished(r))
<1>1. req' = req
  BY DEF Receive, Handle, RejectBody, RejectCaller, AcquireSlot,
         RejectOverload, LookupMiss, LookupHit, MaskPayload, MaskFails, Save,
         SaveRefused, RejectOverflow, MaskAgain, Forbid, Conflict, Restore,
         Unmasking, Release, RecordMetrics
<1>2. pc[r] \notin {"done", "lost"}
  BY DEF Receive, Handle, RejectBody, RejectCaller, Accept, AcquireSlot,
         RejectOverload, LookupMiss, LookupHit, MaskPayload, MaskFails, Save,
         SaveRefused, RejectOverflow, MaskAgain, Forbid, Conflict, Restore,
         Unmasking, Release, RecordMetrics
<1> QED BY <1>1, <1>2 DEF Accepted, Unfinished

(* Clients that wait never have two requests under way with one key.       *)
LEMMA HandlerOneAtATime ==
    ASSUME SInv, SerialKeys, NEW r \in Requests, Receive(r) \/ Handle(r)
    PROVE  OneAtATime'
<1>1. IInv /\ OneAtATime /\ HandlerOK(r) /\ HandlerTypeOK
  BY DEF SInv, MInv, IInv, HandlersOK
<1>2. \A q \in Requests \ {r} : Same(q)
  BY <1>1, HandlerFrame
<1>3. ASSUME NEW q \in Requests \ {r}, Accepted(q)', Unfinished(q)',
             Accepted(r)', Unfinished(r)', Key(q)' = Key(r)'
      PROVE  FALSE
  <2>1. Accepted(q) /\ Unfinished(q) /\ Key(q)' = Key(q)
    BY <1>2, <1>3 DEF Same, Accepted, Unfinished, Key
  <2>2. CASE Accept(r)
    <3>1. PICK c, id : ~Busy(c, id) /\ Key(r)' = <<c, id>>
      BY <1>1, <2>2 DEF Accept, HandlerTypeOK, Key
    <3> QED BY <1>3, <2>1, <3>1 DEF Busy
  <2>3. CASE ~Accept(r)
    <3>1. req' = req /\ (pc[r] # "new" => Accepted(r) /\ Unfinished(r))
      BY <1>1, <1>3, <2>3, WorkedOn
    <3>2. pc[r] # "new"
      BY <1>1, <1>3, <3>1 DEF HandlerOK, Accepted
    <3> QED BY <1>1, <1>3, <2>1, <3>1, <3>2 DEF OneAtATime, Key
  <2> QED BY <2>2, <2>3
<1>4. ASSUME NEW p \in Requests \ {r}, NEW q \in Requests \ {r},
             Accepted(p)', Unfinished(p)', Accepted(q)', Unfinished(q)',
             Key(p)' = Key(q)'
      PROVE  p = q
  BY <1>1, <1>2, <1>4 DEF OneAtATime, Same, Accepted, Unfinished, Key
<1> QED BY <1>3, <1>4 DEF OneAtATime

(* Nothing comes to live under the key of a request that found nothing.    *)
LEMMA HandlerFresh ==
    ASSUME SInv, NEW r \in Requests, Receive(r) \/ Handle(r)
    PROVE  FreshOK'
<1>1. IInv /\ OneAtATime /\ FreshOK /\ HandlersOK /\ HandlerTypeOK
  BY DEF SInv, MInv, IInv
<1>2. \A q \in Requests \ {r} : Same(q)
  BY <1>1, HandlerFrame
<1>3. ASSUME NEW q \in Requests \ {r}, pc'[q] \in Missing, Live(Key(q))'
      PROVE  FALSE
  <2>1. pc[q] \in Missing /\ Key(q)' = Key(q) /\ Live(Key(q))'
    BY <1>2, <1>3 DEF Same, Key
  <2>2. ~Live(Key(q)) /\ Accepted(q) /\ Unfinished(q)
    BY <1>1, <2>1 DEF FreshOK, Missing, HandlersOK, HandlerOK, Accepting,
                      Unfinished
  <2>3. Save(r) /\ Key(q) = Key(r)
    BY <1>1, <2>1, <2>2, HandlerLive
  <2>4. Accepted(r) /\ Unfinished(r)
    BY <1>1, <2>3 DEF Save, HandlersOK, HandlerOK, Accepting, Unfinished
  <2> QED BY <1>1, <2>2, <2>3, <2>4 DEF OneAtATime
<1>4. ASSUME pc'[r] \in Missing, Live(Key(r))'
      PROVE  FALSE
  <2>1. LookupMiss(r) \/ MaskPayload(r) \/ SaveRefused(r)
    BY <1>1, <1>4
       DEF HandlerTypeOK, Goto, Missing, Receive, Handle, RejectBody, RejectCaller,
           Accept, AcquireSlot, RejectOverload, LookupHit, MaskFails, Save,
           RejectOverflow, MaskAgain, Forbid, Conflict, Restore,
           Unmasking, Release, RecordMetrics
  <2>2. Key(r)' = Key(r)
    BY <2>1 DEF LookupMiss, MaskPayload, SaveRefused, Key
  <2>3. Live(Key(r))
    <3>1. ~Save(r)
      BY <2>1 DEF LookupMiss, MaskPayload, SaveRefused, Save, PutStored, PutRefused
    <3> QED BY <1>1, <1>4, <2>2, <3>1, HandlerLive
  <2> QED BY <1>1, <2>1, <2>3
          DEF LookupMiss, MaskPayload, SaveRefused, GetMissing, GetExpired,
              FreshOK, Missing, Live
<1> QED BY <1>3, <1>4 DEF FreshOK

(* Time, the cleanup goroutine and stuttering bring nothing to life.       *)
LEMMA StoreStepsSerial ==
    ASSUME SInv, StoreSteps \/ UNCHANGED vars
    PROVE  OneAtATime' /\ FreshOK'
<1>1. UNCHANGED handlerVars
  BY DEF StoreSteps, vars, handlerVars
<1>2. ASSUME NEW k, Live(k)' PROVE Live(k)
  <2>1. CASE Background \/ UNCHANGED vars
    <3>1. UNCHANGED Bindings
      BY <2>1, SameBindings DEF SInv, MInv, vars, storeVars
    <3> QED BY <1>2, <3>1 DEF Bindings, Live
  <2>2. CASE Tick
    <3>1. Bindings' = Racy!Living(clock', Bindings)
      BY <2>2, TickBindings DEF SInv, MInv
    <3> QED BY <1>2, <3>1 DEF Bindings, Live, Racy!Living
  <2> QED BY <2>1, <2>2 DEF StoreSteps
<1> QED BY <1>1, <1>2
        DEF SInv, OneAtATime, FreshOK, handlerVars, Accepted, Unfinished, Key

(* The process that takes the place of a dead one has no request under way.*)
LEMMA RestartSerial ==
    ASSUME SInv, Restart
    PROVE  OneAtATime' /\ FreshOK'
<1>1. \A r \in Requests : pc'[r] \in {"new", "done", "lost"} /\ req'[r] = req[r]
  BY DEF Restart, Unfinished
<1> QED BY <1>1 DEF OneAtATime, FreshOK, Missing, Unfinished

(* The invariant of clients that wait holds in every reachable state.      *)
THEOREM SerialInvariance == SerialKeys => (Spec => []SInv)
<1> SUFFICES ASSUME SerialKeys PROVE Spec => []SInv
  OBVIOUS
<1>1. Init => SInv
  <2> SUFFICES ASSUME Init PROVE SInv
    OBVIOUS
  <2> QED BY InitInv
          DEF Init, SInv, MInv, MadeOK, OneAtATime, FreshOK, Missing, Unfinished
<1>2. SInv /\ [Next]_vars => SInv'
  <2> SUFFICES ASSUME SInv, [Next]_vars PROVE SInv'
    OBVIOUS
  <2>1. MInv'
    BY NextInv, HandlerMade, OthersMade DEF SInv, MInv, Next, OneLife
  <2>2. CASE \E r \in Requests : Receive(r) \/ Handle(r)
    BY <2>1, <2>2, HandlerOneAtATime, HandlerFresh DEF SInv
  <2>3. CASE StoreSteps \/ UNCHANGED vars
    BY <2>1, <2>3, StoreStepsSerial DEF SInv
  <2>4. CASE Restart
    BY <2>1, <2>4, RestartSerial DEF SInv
  <2> QED BY <2>2, <2>3, <2>4 DEF Next, OneLife
<1> QED BY <1>1, <1>2, PTL DEF Spec

-----------------------------------------------------------------------------
(* The refinement for clients that wait *)

(* What a client that waits sees of a request: no instant of having missed. *)
Shown(r) == IF Stage(r) = "missed" THEN "asked" ELSE Stage(r)

LEMMA ShownDecided ==
    ASSUME NEW r \in Requests,
           \A q \in Requests : Stage(q)' = IF q = r THEN "answered" ELSE Stage(q)
    PROVE  [q \in Requests |-> Shown(q)']
               = [[q \in Requests |-> Shown(q)] EXCEPT ![r] = "answered"]
<1>1. \A q \in Requests : Shown(q)' = IF q = r THEN "answered" ELSE Shown(q)
  BY DEF Shown
<1> QED BY <1>1

(* If nothing can be bound between a look that found nothing and the       *)
(* masking that follows it, the racy service is the one without races.     *)
LEMMA RacyIsSerial ==
    ASSUME HandlersOK, FreshOK, [Racy!RacyNext]_(Racy!vars)
    PROVE  [Service!Next]_(Service!vars)
<1> USE DEF Service!Decide, Racy!Decide, Service!Masked, Racy!Masked,
            Service!Refusal, Racy!Refusal, Service!Unmasked, Racy!Unmasked,
            Service!Verdict, Racy!Verdict, Service!Living, Racy!Living
<1>1. ASSUME NEW r \in Requests, Racy!Ask(r)
      PROVE  Service!Ask(r)
  BY <1>1 DEF Racy!Ask, Service!Ask
<1>2. ASSUME NEW r \in Requests, Racy!Miss(r)
      PROVE  UNCHANGED Service!vars
  BY <1>2 DEF Racy!Miss, Service!vars
<1>3. ASSUME NEW r \in Requests, Racy!BindLate(r)
      PROVE  Service!Bind(r)
  <2>1. CallKey(req[r]) \notin DOMAIN Bindings
    BY <1>3 DEF Racy!BindLate, FreshOK, Missing, Stage, Bindings, CallKey, Key
  <2> QED BY <1>3, <2>1 DEF Racy!BindLate, Racy!Rebind, Service!Bind, Service!Rebind
<1>4. ASSUME NEW r \in Requests, Racy!Consult(r)
      PROVE  Service!Consult(r)
  BY <1>4 DEF Racy!Consult, Service!Consult
<1>5. ASSUME NEW r \in Requests, Racy!Refuse(r) \/ Racy!RefuseLate(r)
      PROVE  Service!Refuse(r)
  <2>1. PICK status \in {429, 503} : Racy!Decide(r, Racy!Refusal(status))
    BY <1>5 DEF Racy!Refuse, Racy!RefuseLate
  <2>2. Service!Decide(r, Service!Refusal(status))
    <3>1. /\ [q \in Requests |-> Stage(q)']
                = [[q \in Requests |-> Stage(q)] EXCEPT ![r] = "answered"]
          /\ [q \in Requests |-> Decided(q)']
                = [[q \in Requests |-> Decided(q)] EXCEPT ![r] = Racy!Refusal(status)]
          /\ UNCHANGED <<clock, restarts, req>>
      BY <2>1
    <3>2. \A q \in Requests : Stage(q)' = IF q = r THEN "answered" ELSE Stage(q)
      BY <3>1
    <3>3. [q \in Requests |-> Shown(q)']
            = [[q \in Requests |-> Shown(q)] EXCEPT ![r] = "answered"]
      BY <3>2, ShownDecided
    <3>4. Racy!Refusal(status) = Service!Refusal(status)
      OBVIOUS
    <3> QED BY <3>1, <3>3, <3>4 DEF Shown
  <2>3. Stage(r) \in {"asked", "missed"} /\ UNCHANGED Bindings
    BY <1>5 DEF Racy!Refuse, Racy!RefuseLate
  <2> HIDE DEF Service!Decide, Service!Refusal
  <2> QED BY <2>2, <2>3 DEF Service!Refuse
<1>6. ASSUME NEW r \in Requests, Racy!Hear(r)
      PROVE  Service!Hear(r)
  BY <1>6 DEF Racy!Hear, Service!Hear
<1>7. ASSUME Racy!Elapse
      PROVE  Service!Elapse
  BY <1>7 DEF Racy!Elapse, Service!Elapse
<1>8. ASSUME Racy!Crash
      PROVE  Service!Crash
  BY <1>8 DEF Racy!Crash, Service!Crash
<1>9. ASSUME UNCHANGED Racy!vars
      PROVE  UNCHANGED Service!vars
  BY <1>9 DEF Racy!vars, Service!vars
<1> QED BY <1>1, <1>2, <1>3, <1>4, <1>5, <1>6, <1>7, <1>8, <1>9
        DEF Racy!RacyNext, Service!Next

(* For clients that wait, the server is the abstract service: each request *)
(* takes effect at one instant, whatever slots, interleaved handlers, the  *)
(* cleanup, full stores and restarts do.                                   *)
THEOREM Implements == SerialKeys => (Spec => ImplementsMaskService)
<1> SUFFICES ASSUME SerialKeys PROVE Spec => ImplementsMaskService
  OBVIOUS
<1>1. Init => Service!Init
  <2> SUFFICES ASSUME Init PROVE Service!Init
    OBVIOUS
  <2>1. \A r \in Requests : Stage(r) = "idle" /\ Decided(r) = None
    BY DEF Init, Stage, Decided, Accepted
  <2>2. Bindings = [k \in {} |-> 0]
    BY DEF Init, StoreInit, Bindings
  <2> QED BY <2>1, <2>2 DEF Service!Init, Init, StoreInit
<1>2. SInv /\ [Next]_vars => [Service!Next]_(Service!vars)
  BY StepRefines, RacyIsSerial DEF SInv, MInv, IInv
<1> QED BY <1>1, <1>2, SerialInvariance, PTL DEF Spec, ImplementsMaskService, Service!Spec

-----------------------------------------------------------------------------
(* While nothing is forgotten *)

(* What masking puts into a text are the tokens of the map.                *)
WellMade(x) == x.masked.toks = x.source.toks \cup DOMAIN x.tokens

RecordsOK ==
    \A k \in DOMAIN entries : entries[k].expiry >= TTL /\ WellMade(entries[k].record)

Bound(r) == Key(r) \in DOMAIN entries

(* What the store still holds of a request that read or saved a record:    *)
(* the very record its answer is made from.                                *)
KeptOK(r) ==
    /\ pc[r] = "unmask" => Bound(r) /\ entries[Key(r)].record = rec[r]
    /\ pc[r] \in Answering /\ out[r].status = 200 /\ out[r].direction = "mask" =>
          /\ Bound(r)
          /\ entries[Key(r)].record.masked = out[r].result
          /\ entries[Key(r)].record.source = req[r].payload
    /\ pc[r] \in Answering /\ out[r].status = 409 =>
          /\ Bound(r)
          /\ KnownTokens(req[r].payload, entries[Key(r)].record.tokens) = {}

KInv ==
    /\ SInv
    /\ RecordsOK
    /\ NothingForgotten => \A r \in Requests : KeptOK(r)

(* While nothing is forgotten, everything in the store lives.              *)
LEMMA NothingLapses ==
    ASSUME KInv, NothingForgotten
    PROVE  /\ \A k \in DOMAIN entries : Live(k)
           /\ Lapsed(cleanupNow) = {}
<1>1. \A k \in DOMAIN entries : entries[k].expiry \in Int /\ entries[k].expiry >= TTL
  BY TableSized DEF KInv, RecordsOK, SInv, MInv, IInv, CoreInv, StoreTypeOK, Entry
<1>2. /\ clock \in Int /\ cleanupNow \in Int /\ TTL \in Int
      /\ cleanupNow <= clock /\ clock <= TTL
  BY StoreAssumption DEF KInv, SInv, MInv, IInv, CoreInv, StoreTypeOK, LoopTypeOK,
                         NothingForgotten
<1> QED BY <1>1, <1>2 DEF Live, Expired, Lapsed

(* What was forgotten stays forgotten.                                     *)
LEMMA Forgetting ==
    ASSUME KInv, [Next]_vars, NothingForgotten'
    PROVE  NothingForgotten /\ UNCHANGED restarts
<1>1. restarts \in Nat /\ clock \in Int /\ TTL \in Int
  BY StoreAssumption, ProxyAssumption
     DEF KInv, SInv, MInv, IInv, CoreInv, StoreTypeOK, LoopTypeOK
<1>2. ~Restart
  BY <1>1 DEF Restart, NothingForgotten
<1>3. UNCHANGED restarts
  BY <1>2 DEF Next, vars
<1>4. clock' = clock \/ clock' = clock + 1
  <2>1. ASSUME NEW r \in Requests, Receive(r) \/ Handle(r)
        PROVE  clock' = clock
    BY <2>1 DEF storeVars, Receive, Handle, RejectBody,
         RejectCaller, Accept, AcquireSlot, RejectOverload, LookupMiss,
         GetMissing, GetExpired, LookupHit, GetLive, MaskPayload, MaskFails,
         Save, PutStored, SaveRefused, PutRefused, RejectOverflow, MaskAgain,
         Forbid, Conflict, Restore, Unmasking, Release, RecordMetrics
  <2>2. ASSUME StoreSteps
        PROVE  clock' = clock \/ clock' = clock + 1
    BY <2>2 DEF StoreSteps, Tick, Background, TickerFires, CleanupBegins,
                CleanupRuns, LoopStops
  <2>3. ASSUME UNCHANGED vars
        PROVE  clock' = clock
    BY <2>3 DEF vars, storeVars
  <2> QED BY <1>2, <2>1, <2>2, <2>3 DEF Next, OneLife
<1> QED BY <1>1, <1>3, <1>4 DEF NothingForgotten

(* The store only ever gains well-made records with a whole life to live.  *)
LEMMA NextRecordsOK ==
    ASSUME KInv, [Next]_vars
    PROVE  RecordsOK'
<1>1. RecordsOK /\ MadeOK /\ clock \in Nat /\ TTL \in Int
  BY StoreAssumption DEF KInv, SInv, MInv, IInv, CoreInv, StoreTypeOK, LoopTypeOK
<1>2. CASE \E r \in Requests : Save(r)
  <2>1. PICK r \in Requests : Save(r)
    BY <1>2
  <2>2. /\ DOMAIN entries' = DOMAIN entries \cup {Key(r)}
        /\ entries'[Key(r)].record = rec[r] /\ entries'[Key(r)].expiry = clock + TTL
        /\ \A k \in DOMAIN entries \ {Key(r)} : entries'[k] = entries[k]
    BY <2>1 DEF Save, PutStored, Upsert
  <2>3. rec[r] = Made(req[r], r)
    BY <1>1, <2>1 DEF Save, MadeOK
  <2>4. WellMade(rec[r])
    BY <2>3 DEF WellMade, Made, Record, Mask, TokenMap
  <2> QED BY <1>1, <2>2, <2>4 DEF RecordsOK, WellMade
<1>3. CASE (\E k : GetExpired(k)) \/ CleanupRuns
  BY <1>1, <1>3 DEF GetExpired, CleanupRuns, Without, Restrict, RecordsOK, WellMade
<1>4. CASE entries' = entries
  BY <1>1, <1>4 DEF RecordsOK, WellMade
<1>5. CASE Restart
  BY <1>5 DEF Restart, StoreAnew, RecordsOK
<1> QED BY <1>2, <1>3, <1>4, <1>5
        DEF Next, OneLife, vars, storeVars, tableVars, StoreSteps, Tick,
            Background, TickerFires,
            CleanupBegins, LoopStops, Receive, Handle, RejectBody,
            RejectCaller, Accept, AcquireSlot, RejectOverload, LookupMiss,
            GetMissing, LookupHit, GetLive, MaskPayload, MaskFails,
            SaveRefused, PutRefused, RejectOverflow, MaskAgain,
            Forbid, Conflict, Restore, Unmasking, Release, RecordMetrics

(* While nothing is forgotten, the store gives up no record for another.   *)
LEMMA StoreKeeps ==
    ASSUME KInv, [Next]_vars, NothingForgotten, ~Restart
    PROVE  \A k \in DOMAIN entries : k \in DOMAIN entries' /\ entries'[k] = entries[k]
<1>1. /\ \A k \in DOMAIN entries : Live(k)
      /\ Lapsed(cleanupNow) = {}
  BY NothingLapses
<1>2. CASE \E r \in Requests : Save(r)
  <2>1. PICK r \in Requests : Save(r)
    BY <1>2
  <2>2. Key(r) \notin DOMAIN entries
    BY <1>1, <2>1 DEF Save, KInv, SInv, MInv, FreshOK, Missing
  <2> QED BY <2>1, <2>2 DEF Save, PutStored, Upsert
<1>3. CASE \E k : GetExpired(k)
  BY <1>1, <1>3 DEF GetExpired, Live
<1>4. CASE CleanupRuns
  BY <1>1, <1>4 DEF CleanupRuns, Without, Restrict
<1>5. CASE entries' = entries
  BY <1>5
<1> QED BY <1>2, <1>3, <1>4, <1>5
        DEF Next, OneLife, vars, storeVars, tableVars, StoreSteps, Tick,
            Background, TickerFires,
            CleanupBegins, LoopStops, Receive, Handle, RejectBody,
            RejectCaller, Accept, AcquireSlot, RejectOverload, LookupMiss,
            GetMissing, LookupHit, GetLive, MaskPayload, MaskFails,
            SaveRefused, PutRefused, RejectOverflow, MaskAgain,
            Forbid, Conflict, Restore, Unmasking, Release, RecordMetrics

(* A request that a step does not touch keeps what it has in the store.    *)
LEMMA SameKeeps ==
    ASSUME NEW q \in Requests, Same(q), KeptOK(q),
           \A k \in DOMAIN entries : k \in DOMAIN entries' /\ entries'[k] = entries[k]
    PROVE  KeptOK(q)'
<1>1. Key(q)' = Key(q)
  BY DEF Same, Key
<1>2. Bound(q) => Bound(q)' /\ entries'[Key(q)] = entries[Key(q)]
  BY <1>1 DEF Bound
<1> QED BY <1>1, <1>2 DEF KeptOK, Same, KnownTokens

(* A handler answers from what the store then keeps.                       *)
LEMMA HandlerKeeps ==
    ASSUME KInv, NEW r \in Requests, Receive(r) \/ Handle(r), KeptOK(r),
           \A k \in DOMAIN entries : k \in DOMAIN entries' /\ entries'[k] = entries[k]
    PROVE  KeptOK(r)'
<1>0. HandlerTypeOK /\ MadeOK /\ HandlerOK(r)
  BY DEF KInv, SInv, MInv, IInv, HandlersOK
<1> DEFINE quiet == /\ pc'[r] # "unmask"
                    /\ \/ pc'[r] \notin Answering
                       \/ out'[r].status \notin {200, 409}
                       \/ out'[r].status = 200 /\ out'[r].direction # "mask"
<1>1. quiet => KeptOK(r)'
  BY DEF KeptOK
<1>2. CASE \/ RejectBody(r) \/ RejectCaller(r) \/ Accept(r)
           \/ AcquireSlot(r) \/ RejectOverload(r)
           \/ LookupMiss(r) \/ MaskPayload(r) \/ MaskFails(r)
           \/ SaveRefused(r) \/ RejectOverflow(r) \/ Forbid(r) \/ Restore(r)
  <2>1. quiet
    BY <1>0, <1>2
       DEF RejectBody, RejectCaller, Accept, AcquireSlot, RejectOverload,
           LookupMiss, MaskPayload, MaskFails, SaveRefused, RejectOverflow,
           Forbid, Restore, Unmasking, Goto, Reject, Answer, HandlerTypeOK,
           Answering
  <2> HIDE DEF quiet
  <2> QED BY <1>1, <2>1
<1>3. CASE LookupHit(r)
  <2>1. Key(r)' = Key(r) /\ pc'[r] = "unmask" /\ rec'[r] = entries[Key(r)].record
        /\ Key(r) \in DOMAIN entries /\ entries' = entries
    BY <1>0, <1>3 DEF LookupHit, GetLive, storeVars, Goto, HandlerTypeOK, Key
  <2> QED BY <2>1 DEF KeptOK, Bound, Answering
<1>4. CASE Save(r)
  <2>1. /\ Key(r)' = Key(r) /\ req' = req /\ pc'[r] = "release"
        /\ out'[r] = [status |-> 200, direction |-> "mask", result |-> rec[r].masked]
    BY <1>0, <1>4 DEF Save, Goto, Answer, HandlerTypeOK, Key
  <2>2. Key(r) \in DOMAIN entries' /\ entries'[Key(r)].record = rec[r]
    BY <1>4 DEF Save, PutStored, Upsert
  <2>3. rec[r].source = req[r].payload
    BY <1>0, <1>4 DEF Save, HandlerOK
  <2> QED BY <2>1, <2>2, <2>3 DEF KeptOK, Bound
<1>5. CASE MaskAgain(r) \/ Conflict(r)
  <2>1. /\ Key(r)' = Key(r) /\ req' = req /\ entries' = entries
        /\ pc[r] = "unmask" /\ pc'[r] = "release"
    BY <1>0, <1>5 DEF MaskAgain, Conflict, Unmasking, storeVars, Goto,
                      HandlerTypeOK, Key
  <2>2. Key(r) \in DOMAIN entries /\ entries[Key(r)].record = rec[r]
    BY <2>1 DEF KeptOK, Bound
  <2>3. CASE MaskAgain(r)
    <3>1. /\ out'[r] = [status |-> 200, direction |-> "mask",
                         result |-> rec[r].masked]
          /\ rec[r].source = req[r].payload
      BY <1>0, <2>3 DEF MaskAgain, SameSource, Answer, HandlerTypeOK
    <3> QED BY <2>1, <2>2, <3>1 DEF KeptOK, Bound
  <2>4. CASE Conflict(r)
    <3>1. /\ out'[r].status = 409
          /\ KnownTokens(req[r].payload, rec[r].tokens) = {}
      BY <1>0, <2>4 DEF Conflict, Recognised, Reject, Answer, HandlerTypeOK
    <3> QED BY <2>1, <2>2, <3>1 DEF KeptOK, Bound, KnownTokens
  <2> QED BY <1>5, <2>3, <2>4
<1>6. CASE Release(r) \/ RecordMetrics(r)
  <2>1. /\ Key(r)' = Key(r) /\ req' = req /\ entries' = entries /\ out' = out
        /\ pc[r] \in Answering /\ pc'[r] \in {"record", "done"}
    BY <1>0, <1>6 DEF Release, RecordMetrics, storeVars, Goto, HandlerTypeOK,
                      Key, Answering
  <2> QED BY <2>1 DEF KeptOK, Bound, KnownTokens
<1> QED BY <1>2, <1>3, <1>4, <1>5, <1>6 DEF Receive, Handle

(* For clients that wait, what was answered is what the store keeps, until *)
(* something is forgotten.                                                 *)
THEOREM KeptInvariance == SerialKeys => (Spec => []KInv)
<1> SUFFICES ASSUME SerialKeys PROVE Spec => []KInv
  OBVIOUS
<1>1. SInv /\ Init => KInv
  <2> SUFFICES ASSUME SInv, Init PROVE KInv
    OBVIOUS
  <2> QED BY DEF Init, StoreInit, KInv, RecordsOK, KeptOK, Answering
<1>2. KInv /\ SInv' /\ [Next]_vars => KInv'
  <2> SUFFICES ASSUME KInv, SInv', [Next]_vars PROVE KInv'
    OBVIOUS
  <2>1. RecordsOK'
    BY NextRecordsOK
  <2>2. ASSUME NothingForgotten', NEW q \in Requests PROVE KeptOK(q)'
    <3>1. NothingForgotten /\ ~Restart
      <4>1. NothingForgotten /\ UNCHANGED restarts
        BY <2>2, Forgetting
      <4>2. restarts \in Int
        BY ProxyAssumption DEF KInv, SInv, MInv, IInv
      <4> QED BY <4>1, <4>2 DEF Restart
    <3>2. KeptOK(q)
      BY <3>1 DEF KInv
    <3>3. \A k \in DOMAIN entries : k \in DOMAIN entries' /\ entries'[k] = entries[k]
      BY <3>1, StoreKeeps
    <3>4. CASE Receive(q) \/ Handle(q)
      BY <3>2, <3>3, <3>4, HandlerKeeps
    <3>5. CASE ~(Receive(q) \/ Handle(q))
      <4>1. Same(q)
        <5>1. CASE \E r \in Requests : Receive(r) \/ Handle(r)
          BY <3>5, <5>1, HandlerFrame DEF KInv, SInv, MInv
        <5>2. CASE StoreSteps \/ UNCHANGED vars
          BY <5>2 DEF StoreSteps, vars, handlerVars, Same
        <5> QED BY <3>1, <5>1, <5>2 DEF Next, OneLife
      <4> QED BY <3>2, <3>3, <4>1, SameKeeps
    <3> QED BY <3>4, <3>5
  <2> QED BY <2>1, <2>2 DEF KInv
<1> QED BY <1>1, <1>2, SerialInvariance, PTL DEF Spec

(* Whoever got a mask can have it restored until its time is past or the   *)
(* process dies: neither load nor a full store drops it.                   *)
THEOREM MaskKept == SerialKeys => (Spec => []AnsweredMaskIsKept)
<1>1. KInv => AnsweredMaskIsKept
  BY DEF KInv, AnsweredMaskIsKept, MaskedFor, Done, KeptOK, Bound, Answering
<1> QED BY <1>1, KeptInvariance, PTL

(* Masking again under the same id returns the same mask.                  *)
THEOREM MaskRepeated == SerialKeys => (Spec => []RepeatedMaskIsSame)
<1>1. KInv => RepeatedMaskIsSame
  <2> SUFFICES ASSUME KInv, NothingForgotten,
                      NEW q \in Requests, NEW r \in Requests,
                      MaskedFor(q), MaskedFor(r), Key(q) = Key(r)
               PROVE  out[q].result = out[r].result
    BY DEF RepeatedMaskIsSame
  <2> QED BY DEF KInv, MaskedFor, Done, KeptOK, Answering
<1> QED BY <1>1, KeptInvariance, PTL

(* An answer that kept some of the tokens of a mask, sent under the id of  *)
(* that mask by one who may unmask, is neither refused as a conflict nor   *)
(* taken for a new text.                                                   *)
THEOREM RoundTrips == SerialKeys => (Spec => []RoundTrip)
<1>1. KInv => RoundTrip
  <2> SUFFICES ASSUME KInv, NothingForgotten,
                      NEW q \in Requests, NEW r \in Requests, AnswersTo(r, q)
               PROVE  /\ out[r].status # 409
                      /\ out[r].status = 200 => out[r].direction = "unmask"
    BY DEF RoundTrip
  <2> DEFINE x == entries[Key(q)].record
  <2>1. /\ MaskedFor(q) /\ Done(r) /\ Key(q) = Key(r)
        /\ req[r].payload.toks # {}
        /\ req[r].payload.toks \subseteq out[q].result.toks \ req[q].payload.toks
    BY DEF AnswersTo, Minted
  <2>2. /\ Key(q) \in DOMAIN entries
        /\ x.masked = out[q].result /\ x.source = req[q].payload
    BY <2>1 DEF KInv, MaskedFor, Done, KeptOK, Bound, Answering
  <2>3. x.masked.toks = x.source.toks \cup DOMAIN x.tokens
    BY <2>2 DEF KInv, RecordsOK, WellMade
  <2>4. req[r].payload.toks \subseteq DOMAIN x.tokens
    BY <2>1, <2>2, <2>3
  <2>5. KnownTokens(req[r].payload, x.tokens) # {}
    BY <2>1, <2>4 DEF KnownTokens
  <2>6. x.source # req[r].payload
    BY <2>1, <2>2
  <2>7. KeptOK(r) /\ pc[r] = "done"
    BY <2>1 DEF KInv, Done
  <2>8. out[r].direction \in Directions /\ (out[r].status = 200 => AnswerOK(r))
    BY <2>7 DEF KInv, SInv, MInv, IInv, HandlerTypeOK, HandlersOK, HandlerOK, Answering
  <2> QED BY <2>1, <2>5, <2>6, <2>7, <2>8 DEF KeptOK, Answering, AnswerOK
<1> QED BY <1>1, KeptInvariance, PTL

-----------------------------------------------------------------------------
(* For all clients: nothing is left behind by a request that failed *)

AInv == IInv /\ MadeOK /\ StoredMeansAnswered

(* A step of a handler leaves alone what was answered, and saves only what *)
(* it answers.                                                             *)
LEMMA HandlerAnswered ==
    ASSUME AInv, NEW r \in Requests, Receive(r) \/ Handle(r)
    PROVE  StoredMeansAnswered'
<1>1. IInv /\ HandlerTypeOK /\ MadeOK /\ StoredMeansAnswered
  BY DEF AInv, IInv
<1>2. \A k \in DOMAIN entries :
        \A t \in DOMAIN entries[k].record.tokens : t[1] \in Requests
  BY <1>1 DEF IInv, StoreOK, GoodRecord, Records, TokenMaps, Tokens
<1>3. ASSUME NEW q \in Requests, pc[q] \in Answering
      PROVE  pc'[q] \in Answering /\ out'[q] = out[q] /\ Key(q)' = Key(q)
  <2>1. CASE q # r
    BY <1>1, <1>3, <2>1, HandlerFrame DEF Same, Key
  <2>2. CASE q = r
    <3>1. Release(r) \/ RecordMetrics(r)
      BY <1>3, <2>2
         DEF Answering, Receive, Handle, RejectBody, RejectCaller, Accept,
             AcquireSlot, RejectOverload, LookupMiss, LookupHit, MaskPayload,
             MaskFails, Save, SaveRefused, RejectOverflow, MaskAgain, Forbid,
             Conflict, Restore, Unmasking
    <3> QED BY <1>1, <2>2, <3>1 DEF Release, RecordMetrics, Goto, HandlerTypeOK,
                                    Answering, Key
  <2> QED BY <2>1, <2>2
<1>4. \A k \in DOMAIN entries : \A t \in DOMAIN entries[k].record.tokens :
         /\ pc'[t[1]] \in Answering /\ Key(t[1])' = k
         /\ out'[t[1]].status = 200 /\ out'[t[1]].direction = "mask"
         /\ out'[t[1]].result = entries[k].record.masked
  BY <1>1, <1>2, <1>3 DEF StoredMeansAnswered, Answering
<1>5. CASE Save(r)
  <2>1. /\ DOMAIN entries' = DOMAIN entries \cup {Key(r)}
        /\ entries'[Key(r)].record = rec[r]
        /\ \A k \in DOMAIN entries \ {Key(r)} : entries'[k] = entries[k]
    BY <1>5 DEF Save, PutStored, Upsert
  <2>2. rec[r] = Made(req[r], r)
    BY <1>1, <1>5 DEF Save, MadeOK
  <2>3. \A t \in DOMAIN rec[r].tokens : t[1] = r
    BY <2>2 DEF Made, Record, TokenMap
  <2>4. /\ pc'[r] \in Answering /\ Key(r)' = Key(r)
        /\ out'[r] = [status |-> 200, direction |-> "mask", result |-> rec[r].masked]
    BY <1>1, <1>5 DEF Save, Goto, Answer, HandlerTypeOK, Answering, Key
  <2> QED BY <1>4, <2>1, <2>3, <2>4 DEF StoredMeansAnswered, Answering
<1>6. CASE ~Save(r)
  <2>1. /\ DOMAIN entries' \subseteq DOMAIN entries
        /\ \A k \in DOMAIN entries' : entries'[k] = entries[k]
    BY <1>6
       DEF Receive, Handle, RejectBody, RejectCaller, Accept, AcquireSlot,
           RejectOverload, LookupMiss, GetMissing, GetExpired, Without, Restrict,
           LookupHit, GetLive, MaskPayload, MaskFails, SaveRefused, PutRefused,
           RejectOverflow, MaskAgain, Forbid, Conflict, Restore, Unmasking,
           Release, RecordMetrics, storeVars
  <2> QED BY <1>4, <2>1 DEF StoredMeansAnswered, Answering
<1> QED BY <1>5, <1>6

(* A request that ends in an error leaves no record, and no mask is stored *)
(* that was not answered.                                                  *)
THEOREM StoredAnswered == Spec => []StoredMeansAnswered
<1>1. Init => AInv
  BY InitInv DEF Init, StoreInit, AInv, MadeOK, StoredMeansAnswered
<1>2. AInv /\ [Next]_vars => AInv'
  <2> SUFFICES ASSUME AInv, [Next]_vars PROVE AInv'
    OBVIOUS
  <2>1. IInv'
    BY NextInv DEF AInv
  <2>2. CASE \E r \in Requests : Receive(r) \/ Handle(r)
    BY <2>1, <2>2, HandlerMade, HandlerAnswered DEF AInv
  <2>3. CASE StoreSteps \/ UNCHANGED vars
    <3>1. UNCHANGED handlerVars
      BY <2>3 DEF StoreSteps, vars, handlerVars
    <3>2. /\ DOMAIN entries' \subseteq DOMAIN entries
          /\ \A k \in DOMAIN entries' : entries'[k] = entries[k]
      BY <2>3 DEF StoreSteps, Tick, Background, TickerFires, CleanupBegins,
                  LoopStops, CleanupRuns, Without, Restrict, tableVars, vars,
                  storeVars
    <3>3. MadeOK'
      BY <3>1 DEF AInv, MadeOK, Made, handlerVars
    <3>4. StoredMeansAnswered'
      BY <3>1, <3>2 DEF AInv, StoredMeansAnswered, handlerVars, Key
    <3> QED BY <2>1, <3>3, <3>4 DEF AInv
  <2>4. CASE Restart
    <3>1. MadeOK'
      BY <2>4 DEF Restart, Unfinished, MadeOK
    <3>2. StoredMeansAnswered'
      BY <2>4 DEF Restart, StoreAnew, StoredMeansAnswered
    <3> QED BY <2>1, <3>1, <3>2 DEF AInv
  <2> QED BY <2>2, <2>3, <2>4 DEF Next, OneLife
<1>3. AInv => StoredMeansAnswered
  BY DEF AInv
<1> QED BY <1>1, <1>2, <1>3, PTL DEF Spec

-----------------------------------------------------------------------------
(* For all clients: a text with tokens of one mask is restored exactly *)

(* What a token stands for: the item its masking replaced.                 *)
Meaning(t) == TokenMap(req[t[1]].payload, req[t[1]].consumer, t[1])[t]

(* The token was made by the masking of a request that came in, and stands *)
(* for an item of what that request sent.                                  *)
Minting(t) ==
    /\ t[1] \in Requests /\ Accepted(t[1])
    /\ t \in DOMAIN TokenMap(req[t[1]].payload, req[t[1]].consumer, t[1])

(* No token of the text stands for an item it also shows.                  *)
Clean(p) == \A t \in p.toks : Minting(t) /\ Meaning(t) \notin p.raw

(* The record was made for a request with this key.                        *)
MadeFor(x, k) ==
    \E a \in Requests : Accepted(a) /\ Key(a) = k /\ x = Made(req[a], a)

(* An answer other than a rejection comes from such a record.              *)
AnsweredFrom(r, x) ==
    \/ /\ out[r].direction = "mask"
       /\ req[r].payload = x.source
       /\ out[r].result = x.masked
    \/ /\ out[r].direction = "unmask"
       /\ KnownTokens(req[r].payload, x.tokens) # {}
       /\ out[r].result = Unmask(req[r].payload, x.tokens)

TextOK(r) == Accepted(r) => Clean(req[r].payload)

ReadOK(r) ==
    /\ pc[r] = "unmask" => MadeFor(rec[r], Key(r))
    /\ pc[r] \in Answering /\ out[r].direction # "reject" =>
          Accepted(r) /\ \E x : MadeFor(x, Key(r)) /\ AnsweredFrom(r, x)

RInv ==
    /\ IInv /\ MadeOK
    /\ \A r \in Requests : TextOK(r) /\ ReadOK(r)
    /\ \A k \in DOMAIN entries : MadeFor(entries[k].record, k)

-----------------------------------------------------------------------------
(* A mask of a clean text is clean: what is hidden now is no longer shown, *)
(* and what was hidden before was not shown then.                          *)
LEMMA MaskIsClean ==
    ASSUME NEW a \in Requests, Accepted(a), Clean(req[a].payload)
    PROVE  Clean(Made(req[a], a).masked)
<1> DEFINE p == req[a].payload
           c == req[a].consumer
           m == Mask(p, c, a)
<1>1. Made(req[a], a).masked = m
  BY DEF Made, Record
<1>2. m.raw = p.raw \ Hidden(p, c)
      /\ m.toks = p.toks \cup DOMAIN TokenMap(p, c, a)
  BY DEF Mask, TokenMap
<1>3. ASSUME NEW t \in p.toks
      PROVE  Minting(t) /\ Meaning(t) \notin m.raw
  BY <1>2, <1>3 DEF Clean
<1>4. ASSUME NEW t \in DOMAIN TokenMap(p, c, a)
      PROVE  Minting(t) /\ Meaning(t) \notin m.raw
  <2>1. t[1] = a
    BY <1>4 DEF TokenMap
  <2>2. Meaning(t) = TokenMap(p, c, a)[t]
    BY <2>1 DEF Meaning
  <2>3. Meaning(t) \in Hidden(p, c)
    BY <1>4, <2>2, TokenMapValues
  <2> QED BY <1>2, <1>4, <2>1, <2>3 DEF Minting
<1> HIDE DEF m
<1> QED BY <1>1, <1>2, <1>3, <1>4 DEF Clean

(* Any text a client can send is clean.                                    *)
LEMMA SendableAreClean ==
    ASSUME RInv, NEW p \in Sendable
    PROVE  Clean(p)
<1>1. ASSUME NEW q \in Requests, MaskedFor(q)
      PROVE  Clean(out[q].result)
  <2>1. PICK a \in Requests :
           Accepted(a) /\ out[q].result = Made(req[a], a).masked
    BY <1>1 DEF RInv, ReadOK, MaskedFor, Done, Answering, MadeFor, AnsweredFrom
  <2> QED BY <2>1, MaskIsClean DEF RInv, TextOK
<1>2. CASE p \in Originals
  BY <1>2, ProxyAssumption DEF Clean
<1>3. CASE p \in {out[r].result : r \in {q \in Requests : MaskedFor(q)}}
  BY <1>1, <1>3
<1>4. CASE p \in [skel : {Reply}, raw : {{}}, toks : SUBSET TokensSeen]
  <2>1. ASSUME NEW t \in p.toks
        PROVE  Minting(t)
    <3>1. PICK q \in Requests : MaskedFor(q) /\ t \in out[q].result.toks
      BY <1>4, <2>1 DEF TokensSeen
    <3> QED BY <1>1, <3>1 DEF Clean
  <2> QED BY <1>4, <2>1 DEF Clean
<1> QED BY <1>2, <1>3, <1>4 DEF Sendable

(* What is kept of the requests keeps tokens and records their meaning.    *)
LEMMA MadeStays ==
    ASSUME Kept
    PROVE  /\ \A p : Clean(p) => Clean(p)'
           /\ \A x, k : MadeFor(x, k) => MadeFor(x, k)'
<1>1. \A a \in Requests : Accepted(a) =>
         Accepted(a)' /\ Key(a)' = Key(a) /\ req'[a] = req[a]
  BY DEF Kept, Accepted, Key
<1>2. ASSUME NEW t, Minting(t)
      PROVE  Minting(t)' /\ Meaning(t)' = Meaning(t)
  BY <1>1, <1>2 DEF Minting, Meaning
<1>3. \A p : Clean(p) => Clean(p)'
  BY <1>2 DEF Clean
<1>4. \A x, k : MadeFor(x, k) => MadeFor(x, k)'
  BY <1>1 DEF MadeFor, Made
<1> QED BY <1>3, <1>4

(* A step of a handler reads and answers only what was made for its key.   *)
LEMMA HandlerReads ==
    ASSUME RInv, NEW r \in Requests, Receive(r) \/ Handle(r)
    PROVE  TextOK(r)' /\ ReadOK(r)'
<1>1. IInv /\ HandlerTypeOK /\ HandlerOK(r) /\ TextOK(r) /\ ReadOK(r) /\ Kept
  BY HandlerFrame DEF RInv, IInv, HandlersOK
<1>2. /\ \A p : Clean(p) => Clean(p)'
      /\ \A x, k : MadeFor(x, k) => MadeFor(x, k)'
  BY <1>1, MadeStays
<1>3. CASE Receive(r)
  <2>1. CASE RejectBody(r) \/ RejectCaller(r)
    BY <1>1, <1>2, <2>1
       DEF RejectBody, RejectCaller, Reject, Answer, Goto, TextOK, ReadOK,
           Accepted, HandlerTypeOK
  <2>2. CASE Accept(r)
    <3>1. PICK p \in Sendable : req'[r].payload = p
      BY <1>1, <2>2 DEF Accept, HandlerTypeOK
    <3>2. Clean(p)'
      BY <1>2, <3>1, SendableAreClean
    <3>3. TextOK(r)'
      BY <3>1, <3>2 DEF TextOK
    <3>4. pc'[r] = "slot"
      BY <1>1, <2>2 DEF Accept, Goto, HandlerTypeOK
    <3> QED BY <3>3, <3>4 DEF ReadOK, Answering
  <2> QED BY <1>3, <2>1, <2>2 DEF Receive
<1>4. CASE Handle(r)
  <2>1. Accepted(r) \/ RecordMetrics(r)
    BY <1>1, <1>4
       DEF HandlerOK, Accepting, Handle, AcquireSlot, RejectOverload, LookupMiss,
           LookupHit, MaskPayload, MaskFails, Save, SaveRefused, RejectOverflow,
           MaskAgain, Forbid, Conflict, Restore, Unmasking, Release
  <2>2. req' = req
    BY <1>4 DEF Handle, AcquireSlot, RejectOverload, LookupMiss, LookupHit,
                MaskPayload, MaskFails, Save, SaveRefused, RejectOverflow,
                MaskAgain, Forbid, Conflict, Restore, Unmasking, Release,
                RecordMetrics
  <2>3. TextOK(r)'
    BY <1>1, <1>2, <2>2 DEF TextOK, Accepted
  <2>4. CASE \/ AcquireSlot(r) \/ LookupMiss(r) \/ MaskPayload(r)
             \/ SaveRefused(r)
    <3>1. pc'[r] \in {"lookup", "mask", "put", "overflow"}
      BY <1>1, <2>4 DEF AcquireSlot, LookupMiss, MaskPayload, SaveRefused, Goto,
                        HandlerTypeOK
    <3> QED BY <2>3, <3>1 DEF ReadOK, Answering
  <2>5. CASE \/ RejectOverload(r) \/ MaskFails(r) \/ RejectOverflow(r)
             \/ Forbid(r) \/ Conflict(r)
    <3>1. pc'[r] # "unmask" /\ out'[r].direction = "reject"
      BY <1>1, <2>5 DEF RejectOverload, MaskFails, RejectOverflow, Forbid,
                        Conflict, Unmasking, Reject, Answer, Goto, HandlerTypeOK
    <3> QED BY <2>3, <3>1 DEF ReadOK
  <2>6. CASE LookupHit(r)
    <3>1. PICK x : x = entries[Key(r)].record
      OBVIOUS
    <3>2. pc'[r] = "unmask" /\ rec'[r] = x /\ Key(r) \in DOMAIN entries
      BY <1>1, <2>6, <3>1 DEF LookupHit, GetLive, Goto, HandlerTypeOK
    <3>3. MadeFor(x, Key(r))
      BY <3>1, <3>2 DEF RInv
    <3>4. MadeFor(x, Key(r))'
      BY <1>2, <2>2, <3>3 DEF Key
    <3>5. MadeFor(rec[r], Key(r))'
      BY <3>2, <3>4 DEF MadeFor
    <3> QED BY <2>3, <3>2, <3>5 DEF ReadOK, Answering
  <2>7. CASE Save(r)
    <3>1. PICK x : x = Made(req[r], r)
      OBVIOUS
    <3>2. /\ rec[r] = x /\ pc'[r] = "release" /\ pc[r] = "put"
          /\ out'[r] = [status |-> 200, direction |-> "mask", result |-> x.masked]
      BY <1>1, <2>7, <3>1 DEF Save, Answer, Goto, HandlerTypeOK, RInv, MadeOK
    <3>3. Accepted(r) /\ MadeFor(x, Key(r)) /\ x.source = req[r].payload
      BY <2>1, <3>1, <3>2 DEF MadeFor, Made, Record, RecordMetrics
    <3>4. AnsweredFrom(r, x)'
      BY <2>2, <3>2, <3>3 DEF AnsweredFrom
    <3>5. Accepted(r)' /\ MadeFor(x, Key(r))'
      BY <1>2, <2>2, <3>3 DEF Accepted, Key
    <3> QED BY <2>3, <3>2, <3>4, <3>5 DEF ReadOK
  <2>8. CASE MaskAgain(r) \/ Restore(r)
    <3>1. PICK x : x = rec[r]
      OBVIOUS
    <3>2. /\ pc'[r] = "release" /\ pc[r] = "unmask"
          /\ \/ /\ req[r].payload = x.source
                /\ out'[r] = [status |-> 200, direction |-> "mask",
                              result |-> x.masked]
             \/ /\ KnownTokens(req[r].payload, x.tokens) # {}
                /\ out'[r] = [status |-> 200, direction |-> "unmask",
                              result |-> Unmask(req[r].payload, x.tokens)]
      BY <1>1, <2>8, <3>1
         DEF MaskAgain, Restore, Unmasking, SameSource, Recognised, Answer,
             Goto, HandlerTypeOK
    <3>3. Accepted(r) /\ MadeFor(x, Key(r))
      BY <1>1, <2>1, <3>1, <3>2 DEF ReadOK, RecordMetrics
    <3>4. AnsweredFrom(r, x)'
      <4>1. req' = req
        BY <2>2
      <4>2. CASE /\ req[r].payload = x.source
                 /\ out'[r] = [status |-> 200, direction |-> "mask",
                               result |-> x.masked]
        BY <4>1, <4>2 DEF AnsweredFrom
      <4>3. CASE /\ KnownTokens(req[r].payload, x.tokens) # {}
                 /\ out'[r] = [status |-> 200, direction |-> "unmask",
                               result |-> Unmask(req[r].payload, x.tokens)]
        BY <4>1, <4>3 DEF AnsweredFrom
      <4> QED BY <3>2, <4>2, <4>3
    <3>5. Accepted(r)' /\ MadeFor(x, Key(r))'
      BY <1>2, <2>2, <3>3 DEF Accepted, Key
    <3> QED BY <2>3, <3>2, <3>4, <3>5 DEF ReadOK
  <2>9. CASE Release(r) \/ RecordMetrics(r)
    <3>1. /\ pc[r] \in Answering /\ pc'[r] # "unmask" /\ out'[r] = out[r]
      BY <1>1, <2>9 DEF Release, RecordMetrics, Goto, HandlerTypeOK, Answering
    <3>2. ASSUME out[r].direction # "reject"
          PROVE  Accepted(r)' /\ \E x : (MadeFor(x, Key(r)) /\ AnsweredFrom(r, x))'
      <4>1. PICK x : MadeFor(x, Key(r)) /\ AnsweredFrom(r, x)
        BY <1>1, <3>1, <3>2 DEF ReadOK
      <4>2. MadeFor(x, Key(r))'
        BY <1>2, <2>2, <4>1 DEF Key
      <4>3. AnsweredFrom(r, x)'
        BY <2>2, <3>1, <4>1 DEF AnsweredFrom, KnownTokens, Unmask
      <4>4. Accepted(r)'
        BY <1>1, <2>2, <3>1, <3>2 DEF ReadOK, Accepted
      <4> QED BY <4>2, <4>3, <4>4
    <3> QED BY <2>3, <3>1, <3>2 DEF ReadOK
  <2> QED BY <1>4, <2>4, <2>5, <2>6, <2>7, <2>8, <2>9 DEF Handle
<1> QED BY <1>3, <1>4

(* The facts about a request the step does not touch still hold.           *)
LEMMA AnswersStay ==
    ASSUME Kept, NEW q \in Requests, Same(q), TextOK(q), ReadOK(q)
    PROVE  TextOK(q)' /\ ReadOK(q)'
<1>1. /\ \A p : Clean(p) => Clean(p)'
      /\ \A x, k : MadeFor(x, k) => MadeFor(x, k)'
  BY MadeStays
<1>2. Key(q)' = Key(q) /\ Accepted(q)' = Accepted(q)
  BY DEF Same, Key, Accepted
<1>3. TextOK(q)'
  BY <1>1, <1>2 DEF TextOK, Same
<1>4. ASSUME pc[q] = "unmask"
      PROVE  MadeFor(rec[q], Key(q))'
  <2>1. PICK x : x = rec[q]
    OBVIOUS
  <2>2. MadeFor(x, Key(q))'
    BY <1>1, <1>2, <1>4, <2>1 DEF ReadOK
  <2> QED BY <2>1, <2>2 DEF Same, MadeFor
<1>5. ASSUME pc[q] \in Answering, out[q].direction # "reject"
      PROVE  Accepted(q)' /\ \E x : (MadeFor(x, Key(q)) /\ AnsweredFrom(q, x))'
  <2>1. PICK x : MadeFor(x, Key(q)) /\ AnsweredFrom(q, x)
    BY <1>5 DEF ReadOK
  <2>2. MadeFor(x, Key(q))'
    BY <1>1, <1>2, <2>1
  <2>3. AnsweredFrom(q, x)'
    BY <2>1 DEF Same, AnsweredFrom, KnownTokens, Unmask
  <2> QED BY <1>2, <1>5, <2>2, <2>3 DEF ReadOK
<1> QED BY <1>3, <1>4, <1>5 DEF ReadOK, Same

(* A step of a handler keeps all of it, for every request and every entry. *)
LEMMA HandlerKeepsMeaning ==
    ASSUME RInv, NEW r \in Requests, Receive(r) \/ Handle(r), IInv'
    PROVE  RInv'
<1>1. IInv /\ HandlerTypeOK /\ MadeOK /\ Kept /\ \A q \in Requests \ {r} : Same(q)
  BY HandlerFrame DEF RInv, IInv
<1>2. /\ \A p : Clean(p) => Clean(p)'
      /\ \A x, k : MadeFor(x, k) => MadeFor(x, k)'
  BY <1>1, MadeStays
<1>3. MadeOK'
  BY <1>1, HandlerMade
<1>4. \A q \in Requests \ {r} : TextOK(q)' /\ ReadOK(q)'
  BY <1>1, AnswersStay DEF RInv
<1>5. \A q \in Requests : TextOK(q)' /\ ReadOK(q)'
  BY <1>4, HandlerReads
<1>6. ASSUME NEW k \in DOMAIN entries, NEW x, x = entries[k].record
      PROVE  MadeFor(x, k)'
  BY <1>2, <1>6 DEF RInv
<1>7. ASSUME NEW k \in DOMAIN entries'
      PROVE  MadeFor(entries[k].record, k)'
  <2>1. PICK x : x = entries'[k].record
    OBVIOUS
  <2>2. CASE Save(r)
    <3>1. /\ DOMAIN entries' = DOMAIN entries \cup {Key(r)}
          /\ entries'[Key(r)].record = rec[r]
          /\ \A l \in DOMAIN entries \ {Key(r)} : entries'[l] = entries[l]
      BY <2>2 DEF Save, PutStored, Upsert
    <3>2. rec[r] = Made(req[r], r) /\ Accepted(r)
      BY <1>1, <2>2 DEF Save, MadeOK, IInv, HandlersOK, HandlerOK, Accepting
    <3>3. MadeFor(rec[r], Key(r))
      BY <3>2 DEF MadeFor
    <3>4. CASE k = Key(r)
      <4>1. MadeFor(x, k)
        BY <2>1, <3>1, <3>3, <3>4
      <4>2. MadeFor(x, k)'
        BY <1>2, <4>1
      <4> QED BY <2>1, <4>2 DEF MadeFor
    <3>5. CASE k # Key(r)
      <4>1. MadeFor(x, k)'
        BY <1>6, <1>7, <2>1, <3>1, <3>5
      <4> QED BY <2>1, <4>1 DEF MadeFor
    <3> QED BY <3>4, <3>5
  <2>3. CASE ~Save(r)
    <3>1. /\ DOMAIN entries' \subseteq DOMAIN entries
          /\ \A l \in DOMAIN entries' : entries'[l] = entries[l]
      BY <2>3
         DEF Receive, Handle, RejectBody, RejectCaller, Accept, AcquireSlot,
             RejectOverload, LookupMiss, GetMissing, GetExpired, Without, Restrict,
             LookupHit, GetLive, MaskPayload, MaskFails, SaveRefused, PutRefused,
             RejectOverflow, MaskAgain, Forbid, Conflict, Restore, Unmasking,
             Release, RecordMetrics, storeVars
    <3>2. MadeFor(x, k)'
      BY <1>6, <1>7, <2>1, <3>1
    <3> QED BY <2>1, <3>2 DEF MadeFor
  <2> QED BY <2>2, <2>3
<1> QED BY <1>3, <1>5, <1>7 DEF RInv

(* Neither the store's own steps nor a restart change what a token means.  *)
LEMMA OthersKeepMeaning ==
    ASSUME RInv, StoreSteps \/ Restart \/ UNCHANGED vars, IInv'
    PROVE  RInv'
<1>1. CASE StoreSteps \/ UNCHANGED vars
  <2>1. UNCHANGED handlerVars
    BY <1>1 DEF StoreSteps, vars, handlerVars
  <2>2. /\ DOMAIN entries' \subseteq DOMAIN entries
        /\ \A k \in DOMAIN entries' : entries'[k] = entries[k]
    BY <1>1 DEF StoreSteps, Tick, Background, TickerFires, CleanupBegins,
                LoopStops, CleanupRuns, Without, Restrict, tableVars, vars,
                storeVars
  <2>3. /\ \A p : Clean(p)' = Clean(p)
        /\ \A x, k : MadeFor(x, k)' = MadeFor(x, k)
    BY <2>1 DEF handlerVars, Clean, Minting, Meaning, MadeFor, Made, Accepted, Key
  <2>4. MadeOK'
    BY <2>1 DEF RInv, MadeOK, Made, handlerVars
  <2>5. \A r \in Requests : TextOK(r)' /\ ReadOK(r)'
    BY <2>1, AnswersStay DEF RInv, handlerVars, Kept, Same
  <2>6. \A k \in DOMAIN entries' : MadeFor(entries[k].record, k)'
    BY <2>1, <2>2 DEF RInv, MadeFor, Made, handlerVars, Accepted, Key
  <2> QED BY <2>4, <2>5, <2>6 DEF RInv
<1>2. CASE Restart
  <2>1. req' = req /\ DOMAIN entries' = {}
    BY <1>2 DEF Restart, StoreAnew
  <2>2. MadeOK'
    BY <1>2 DEF Restart, Unfinished, MadeOK
  <2>3. ASSUME NEW r \in Requests
        PROVE  TextOK(r)' /\ ReadOK(r)'
    <3>1. TextOK(r)'
      BY <2>1 DEF RInv, TextOK, Clean, Minting, Meaning, Accepted
    <3>2. CASE Unfinished(r) \/ pc[r] \in {"new", "lost"}
      <4>1. pc'[r] \in {"new", "lost"}
        BY <1>2, <3>2 DEF Restart, Unfinished
      <4> QED BY <3>1, <4>1 DEF ReadOK, Answering
    <3>3. CASE pc[r] = "done"
      <4>1. Kept /\ Same(r)
        BY <1>2, <3>3 DEF Restart, Unfinished, Kept, Same
      <4> QED BY <4>1, AnswersStay DEF RInv
    <3> QED BY <3>2, <3>3 DEF Unfinished
  <2> QED BY <2>1, <2>2, <2>3 DEF RInv
<1> QED BY <1>1, <1>2

(* Distinct tokens of one masking stand for distinct items.                *)
LEMMA MeaningsDiffer ==
    ASSUME NEW p, NEW c, NEW n, NEW t \in DOMAIN TokenMap(p, c, n)
    PROVE  TokenMap(p, c, n)[t][1] = t[2] /\ t = <<n, t[2]>>
<1>1. PICK j \in Hidden(p, c) : t = <<n, j[1]>>
  BY DEF TokenMap
<1>2. TokenMap(p, c, n)[t] = CHOOSE i \in Hidden(p, c) : i[1] = t[2]
  BY DEF TokenMap
<1>3. \E i \in Hidden(p, c) : i[1] = t[2]
  BY <1>1
<1> QED BY <1>1, <1>2, <1>3

(* A function with distinct values has as many values as arguments.        *)
LEMMA AsManyValues ==
    ASSUME NEW f, NEW S, S \subseteq DOMAIN f, IsFiniteSet(S),
           \A s, t \in S : f[s] = f[t] => s = t
    PROVE  Cardinality({f[t] : t \in S}) = Cardinality(S)
<1> DEFINE T == {f[t] : t \in S}
           g == [t \in S |-> f[t]]
<1>1. g \in [S -> T] /\ \A s, t \in S : g[s] = g[t] => s = t
  OBVIOUS
<1>2. \A v \in T : \E t \in S : g[t] = v
  OBVIOUS
<1>3. g \in Bijection(S, T)
  BY <1>1, <1>2 DEF Bijection, Injection, IsInjective, Surjection
<1> HIDE DEF g
<1>4. ExistsBijection(S, T)
  BY <1>3 DEF ExistsBijection
<1> QED BY <1>4, FS_Bijection

(* What an answer restores is what the tokens stand for, each of them once.*)
LEMMA RestoresAll ==
    ASSUME RInv, NEW q \in Requests, NEW r \in Requests,
           AnswersTo(r, q), out[r].direction = "unmask"
    PROVE  /\ out[r].result.toks = {}
           /\ Revealed(r) \subseteq req[q].payload.raw
           /\ Cardinality(Revealed(r)) = Cardinality(req[r].payload.toks)
<1> DEFINE p == req[r].payload
<1>1. /\ MaskedFor(q) /\ Done(r) /\ Accepted(r) /\ Key(q) = Key(r)
      /\ p.toks # {} /\ p.toks \subseteq Minted(q)
  BY DEF AnswersTo
<1>2. PICK a \in Requests :
         /\ Accepted(a) /\ Key(a) = Key(q)
         /\ req[q].payload = req[a].payload
         /\ out[q].result = Made(req[a], a).masked
  <2>1. PICK x : MadeFor(x, Key(q)) /\ AnsweredFrom(q, x)
    BY <1>1 DEF RInv, ReadOK, MaskedFor, Done, Answering
  <2>2. out[q].direction = "mask"
    BY <1>1 DEF MaskedFor
  <2> QED BY <2>1, <2>2 DEF MadeFor, AnsweredFrom, Made, Record
<1>3. PICK b \in Requests :
         /\ Accepted(b) /\ Key(b) = Key(r)
         /\ KnownTokens(p, Made(req[b], b).tokens) # {}
         /\ out[r].result = Unmask(p, Made(req[b], b).tokens)
  <2>1. PICK x : MadeFor(x, Key(r)) /\ AnsweredFrom(r, x)
    BY <1>1 DEF RInv, ReadOK, Done, Answering
  <2> QED BY <2>1 DEF MadeFor, AnsweredFrom
<1> DEFINE f == TokenMap(req[a].payload, req[a].consumer, a)
<1>4. Made(req[a], a).tokens = f
      /\ Made(req[a], a).masked.toks = req[a].payload.toks \cup DOMAIN f
  BY DEF Made, Record, Mask, TokenMap
<1>5. p.toks \subseteq DOMAIN f
  BY <1>1, <1>2, <1>4 DEF Minted
<1>6. a = b
  <2>1. PICK t \in p.toks : t \in DOMAIN Made(req[b], b).tokens
    BY <1>3 DEF KnownTokens
  <2>2. t[1] = b
    BY <2>1 DEF Made, Record, TokenMap
  <2>3. t[1] = a
    BY <1>5, <2>1 DEF TokenMap
  <2> QED BY <2>2, <2>3
<1>7. out[r].result = Unmask(p, f) /\ KnownTokens(p, f) = p.toks
  BY <1>3, <1>4, <1>5, <1>6 DEF KnownTokens
<1>8. out[r].result.toks = {}
  BY <1>5, <1>7 DEF Unmask
<1>9. \A t \in p.toks : f[t] \notin p.raw
  <2>1. Clean(p)
    BY <1>1 DEF RInv, TextOK
  <2>2. \A t \in p.toks : t[1] = a
    BY <1>5 DEF TokenMap
  <2> QED BY <2>1, <2>2 DEF Clean, Meaning
<1>10. Revealed(r) = {f[t] : t \in p.toks}
  BY <1>7, <1>9 DEF Revealed, Unmask
<1>11. Revealed(r) \subseteq req[q].payload.raw
  <2>1. \A t \in p.toks : f[t] \in req[a].payload.raw
    BY <1>5, TokenMapValues DEF Hidden
  <2> QED BY <1>2, <1>10, <2>1
<1>12. Cardinality(Revealed(r)) = Cardinality(p.toks)
  <2>1. IsFiniteSet(p.toks)
    <3>1. IsFiniteSet(Tokens)
      BY ProxyAssumption, FS_Product DEF Tokens
    <3>2. p.toks \subseteq Tokens
      BY <1>1 DEF RInv, IInv, HandlerTypeOK, Accepted, Accounts, Payload
    <3> QED BY <3>1, <3>2, FS_Subset
  <2>2. \A s, t \in p.toks : f[s] = f[t] => s = t
    BY <1>5, MeaningsDiffer
  <2> HIDE DEF f, p
  <2> QED BY <1>5, <1>10, <2>1, <2>2, AsManyValues
<1> QED BY <1>8, <1>11, <1>12

(* A text whose tokens come from one mask is restored without a token      *)
(* left, to values of the text that was masked, one for each token,        *)
(* whoever else used the id and whatever the store dropped in between.     *)
THEOREM RestoresExactly == Spec => []RestoredExactly
<1>1. Init => RInv
  BY InitInv DEF Init, StoreInit, RInv, MadeOK, TextOK, ReadOK, Accepted, Answering
<1>2. RInv /\ [Next]_vars => RInv'
  <2> SUFFICES ASSUME RInv, [Next]_vars PROVE RInv'
    OBVIOUS
  <2>1. IInv'
    BY NextInv DEF RInv
  <2>2. CASE \E r \in Requests : Receive(r) \/ Handle(r)
    BY <2>1, <2>2, HandlerKeepsMeaning
  <2>3. CASE StoreSteps \/ Restart \/ UNCHANGED vars
    BY <2>1, <2>3, OthersKeepMeaning
  <2> QED BY <2>2, <2>3 DEF Next, OneLife
<1>3. RInv => RestoredExactly
  BY RestoresAll DEF RestoredExactly
<1> QED BY <1>1, <1>2, <1>3, PTL DEF Spec
=============================================================================
