# Verification of the PII proxy

TLA+ models of the AlfaGen PII proxy, checked with TLC and, for the results that
matter most, proved with TLAPS. The proxy takes a text and a `payload_id` on
`POST /process`. The first text under an id is masked: personal data is replaced
by tokens, and the text, the mask and the map of tokens are stored. A later text
under the same id is masked again (the same text), restored (a text with tokens
of the stored map) or refused.

References to code are to files under `src/`.

## 1. Inventory

| Component | Code | State | Operations |
|---|---|---|---|
| record store | `internal/store/store.go` | map of entries, running byte total, `stop`/`done` channels, `closeOnce`, ticker | `New`, `Put`, `Get`, `Close`, `cleanupLoop`/`cleanup` |
| HTTP layer | `internal/httpapi/httpapi.go` | channel of slots, Prometheus counters; per request `processState` and the released flag of `acquireSlot` | `processHandler`: parse, `authenticate`, `acquireSlot`, `Get`, `handleMask` or `handleUnmask`, release, `recordMetrics` |
| consumer registry | `internal/config/config.go` | `byID`, `byKey`; `seenKeys` while parsing | `Load`/`Parse`, `Authenticate`, `ByID`, `AllowsType` |
| masking | `internal/pii/mask.go`, `types.go` | none between calls; the text and the map of tokens inside one | `Mask`, `selectNonOverlapping`, `Unmask` |
| detectors | `internal/pii/detectors.go` | none | 26 `Find` methods |
| process | `cmd/piiproxy/main.go` | stage of `main`, `errCh`, `stop`, the shutdown context | settings, start, ready line, signal, shutdown |
| load client | `cmd/loadtest/main.go` | semaphore, wait group, `stopCh`, metrics | `run`, `logicalRequest`, `doRequest`, `record*`, `shouldStop` |
| archive script, container files, tests | `scripts/`, `Dockerfile`, `*_test.go` | none of the program's | not modelled |

How they interact. `main` builds the registry and the store, hands both to the
HTTP layer and runs it in a goroutine. Each request is a goroutine; handlers share
the channel of slots, the store (each method holds its mutex from start to end)
and the counters. The cleanup goroutine shares the store's mutex. The registry
does not change after start, so it needs no lock. Masking is a pure computation
between two calls of the store: what the store says may have changed when its
result is saved.

What is hard, and what makes each component correct:

- **Store.** Three pieces of code adjust one byte total; limits must hold over
  overwrites and expired entries that still take room; cleanup compares entries
  with a clock it read before it took the lock; `Close` waits inside
  `closeOnce` for a goroutine that has something else to do. Correct means: it
  behaves as a map with a time to live, never passes its limits, reclaims what
  nobody reads, and `Close` is a join that returns.
- **HTTP layer.** `Get` and `Put` are two critical sections; the record
  `handleUnmask` works on may be gone; slots are given back on two paths. One
  endpoint decides by the state of the store what a text is. Correct means: no
  slot leaks, no handler waits, no value reaches anybody who did not send it, a
  failed request leaves nothing behind, an answered mask can be restored. The
  store is in memory: when the process dies every id is forgotten, and its
  successor takes what comes under one for a new text.
- **Registry.** One faulty consumer must spoil the whole file wherever it stands;
  a key must lead to one consumer, and no key to none.
- **Masking.** Edits by offset need entities that do not overlap; the sort is not
  stable; tokens are replaced one by one in the random order of a Go map.
- **Detectors.** What is masked depends on more than the match: the segment it
  lies in, the words before it, a word anywhere in the text. Correct means:
  these filters look where they are meant to, and values stand where their
  offsets say.
- **Process.** A signal may come at any moment; the listener reports its failure
  on a channel that `main` reads only during the first 100 ms. Numbers of the
  environment are multiplied by units and may pass the range of an `int`.
- **Load client.** Workers record a result and look at the series in two steps.

Every hazard is listed at its line in `PROJECT.json` with the properties that
would catch it.

## 2. Modules

```
StoreCore ──┬── Store ── MCStore          implements TTLMap
Registry ───┴── Proxy ── MCProxy          implements RacyService (any clients)
                                          and MaskService (clients that wait)
MaskService ── RacyService
   └── instantiated by ConfigLoad ──┐
              Settings ── Lifecycle ──┴── Program ── MCProgram
Detectors ── Filters ── Masking ── MCMasking
LoadClient
proofs: StoreCoreProofs ── StoreProofs
        StoreCoreProofs ── ProxyProofs
        DetectorsProofs ── MaskingProofs
        ConfigProofs (with Program);  LifecycleProofs;  LoadClientProofs
```

- **StoreCore** has the state of the store and its steps: `PutStored`,
  `PutRefused`, `GetMissing`, `GetExpired`, `GetLive`, the ticker and the
  branches of `cleanupLoop`. A method between `Lock` and `Unlock` is one step.
  `cleanup` is two, since it reads the clock before it locks. Time is a counter;
  `Expired` is strict, as `time.Time.After` is. The byte total is compared with
  the entries through the set of pairs of a key and a position in its entry, a
  sum that needs no recursion.
- **Store** adds callers, what the last call answered, and callers of `Close`.
  `ImplementsTTLMap` refines **TTLMap**, in which bindings vanish by themselves
  the moment their time is past and there is no cleanup at all: the mapping
  shows the entries that have not expired.
- **Registry** is the registry as the HTTP layer uses it. It assumes that a key
  leads to one consumer; `ConfigLoad` shows that loading guarantees it.
- **Proxy** is every request to `/process` on `StoreCore` and `Registry`. A
  handler step is what the code does between two accesses to shared state; `pc`
  names the place. `req` is what was sent, `rec` the record read or about to be
  saved, `out` the answer (`processState` and the body), `slot` the released
  flag with its channel operation. A text is a skeleton, a set of items (kind
  and value) and a set of tokens. A token is the request that made it, which
  stands for the nonce, and a kind. Clients send an original, any mask they have
  been given, or a model's reply with any tokens that were ever shown, under any
  id and any key. `SerialKeys` restricts them to clients that wait for an answer
  before they use an id again.
  `Restart` is the death of the process and the start of the next: store, slots
  and counters begin anew, requests that were being worked on are lost, clients
  and what they have been told remain, and so does the model's clock. A client
  that gives up or misses an answer and tries again is another request under
  the same id; with `SerialKeys` it does so when the first is through.
  Giving a slot back takes a value out of the channel, and would wait at an
  empty one.
- **MaskService** is what `Proxy` promises clients that wait: no slots, locks,
  handlers or cleanup. A request takes effect at one instant. The first text
  under a key binds it to a mask; while the binding lives, every text under the
  key is answered from it; a binding ends when its time is past or the process
  dies, neither earlier nor later; a request may be refused, and then changes
  nothing. In the refinement (`ImplementsMaskService`) a call is decided when
  the store is read, if the id is there (`Foretold` is what `handleUnmask` will
  answer from the copy it was given), and when the record is saved, if it is
  not. A key is the pair of consumer and id; the code hashes their
  concatenation with a separator.
- **RacyService** is what it promises all others. It is `MaskService` with one
  instant more: a request that finds its key unbound (`Miss`) binds it later
  (`BindLate`), whoever has bound it meanwhile, whose mask is then restored by
  nobody. It pins down what the race of section 4 can do and what it cannot: the
  answer of a request that found the key bound comes from that binding alone,
  though the binding may have ended or been replaced since, nothing is bound
  but by the answer that shows it, and whoever is refused changes nothing.
- **Masking** is one call of `maskPayload`, `Mask` and `Unmask` on real
  offsets: a text is a sequence, a match any span, the order among equals is
  free, and so is the order in which tokens are replaced. A reply may hold
  tokens nobody gave it. `AsProxyTakesIt` says of these texts
  what `Proxy` takes `Mask`, `TokenMap` and `Unmask` for: which tokens are in a mask, what
  they stand for, and which of them are left of a reply.
- **Detectors** is what detectors make of a match before they return it: where
  an address, a birth place and an issuing authority are cut, and how a
  citizenship is rebuilt from its words. A text is a sequence of words and
  signs, told apart only as far as these functions do (capital, small or number;
  address marker; abbreviation; date; bank).
- **Filters** says which matches they pass over: those in a segment with a bank
  (`isBankSegment`), passport numbers behind the label of another document,
  dates that continue a number, bare postal codes no city follows, names without
  capitals, public figures where no word speaks of a client, pairs that are in
  no list of names, card holders not in Latin capitals. Each type stands for one
  detector. `Masking` takes its matches from here.
- **ConfigLoad** is `Load` and what it calls, for what the YAML decoder makes
  of a file. Its names begin with `Load` where `Lifecycle` has the same.
- **LoadClient** is the loop, the workers with their retries, the metrics and
  the exit code. Jobs are numbered in the order of launch. All ways in which an
  attempt fails are one action with a reason: of the reasons only the
  persistent 429 is told apart, since the others differ in the length of a sleep
  and in the key they are counted under.
- **Settings** is how four numbers of the environment become the limits of the
  store and the number of slots: absent or empty takes the default, what is no
  integer is an error, and a product keeps the low bits, as Go's does. The width
  of an `int` is a constant.
- **Lifecycle** is one life of the process, in any environment: settings,
  registry, store, listener, ready line, signal, shutdown, exit. Requests are
  connections, of which no more are served at once than there are slots.
  Whether the file is accepted is open here.
- **Program** puts the two together: while `main` stands at `config.Load`,
  `ConfigLoad` takes its steps, signals come between them, and its outcome
  decides whether there is a store and a listener (`FileDecides`).

A definition whose name ends in `_Variant` is a plausible slip in the definition
that follows it. No specification uses it; `PROJECT.json` says which property
notices which slip.

## 3. What is checked

| Run | Instance | Shows |
|---|---|---|
| `store` | 3 keys, 2 lengths of record, 2 entries, 3 bytes, life 1, clock to 3, 2 closers | types, `ByteAccounting`, `WithinLimits`, `CloseJoins`, `ImplementsTTLMap`; `ExpiredReclaimed` and `CloseReturns` under fairness |
| `store_zero_ttl` | life 0 | **violation** of `NonPositiveTTLIsUnlimited` |
| `proxy_safety` | 3 requests, 2 consumers (one public), 1 id, 2 slots, room for 1 record | types, `SlotAccounting`, `NobodyWaits`, `ValuesStayWithOwner`, `MaskHidesItems`, `StoredMeansAnswered`, `RestoredExactly` |
| `proxy_serial` | the same with clients that wait, nobody public, two texts | `RepeatedMaskIsSame`, `AnsweredMaskIsKept`, `RoundTrip`, `ImplementsMaskService` |
| `proxy_racy` | 3 requests of one client that does not wait, life 0, the process may die once | `ImplementsRacyService` |
| `proxy_race` | two requests at once, nothing expires | **violation** of `RepeatedMaskIsSame` |
| `masking` | up to 3 matches of 3 types anywhere in a text of five elements; every text of up to 4 elements over 9, and of 5 over the 5 that `buildEntity` looks for | types, `DroppedForBetter`, `MaskIsAsRead`, `AllAtOnce`, `OriginalRestored`, `AsProxyTakesIt` on the first; `TrimmedIsPrefix`, `BankStaysOut` and `ContextIsLocal` on every text, and on names and numbers over two segments |
| `masking_wide_gap` | two blanks between the words | **violation** of `OriginalRestored` |
| `load_client` | 3 requests, 2 workers, 2 attempts, a series of 2 | `SummaryAddsUp`, `ExitCodeTells`, `StopsForASeries`, `RetriesRunOut`; `RunEnds` under fairness |
| `program` | every list of up to 3 consumers and every shape of file where no number is set, every shape of file in 241 environments; 2 connections, an `int` of 5 bits | types of both parts, `FaultsDecide`, `LookupsAgree`, `ExitIsGraceful`, `LimitsAsSet`; `SignalEndsProcess` under fairness |
| `config_second_document` | the same | **violation** of `OneDocument` |
| `lifecycle_ready` | the same | **violation** of `ReadyIsListening` |

Why the bounds are enough. Three keys for two places, and records of one and two
bytes for three, make each limit refuse on its own, and let an overwrite fit where
a new entry would not. With a life of one and a clock to three an entry expires,
is overwritten and expires again, and cleanup works on a clock one and two units
old. In `proxy_safety` one request saves, one overwrites or reads, and one finds
the slots taken or the store full; a third is also what it takes for a reply with
the tokens of one mask to meet a record made by another. The runs of `Proxy` in
which anything expires use a life of zero, which makes an entry expire at the next
instant and changes nothing else. Three matches are what it takes for a dropped entity to
be covered by one that outlived another; a text of five elements lets spans
nest, touch and cross. Four elements hold the longest pattern `trimAddress` and
`isBankSegment` look for, with one element to spare on either side; five hold
a name, a date and the code of a unit. Two requests in a series of two, and one more, let a
success fall between recording and looking; one retry is enough to tell the first
attempt from the last, and the code's third attempt is like its second. An `int`
of five bits with units of 3 and 4 lets products wrap to zero, to a
negative and to another limit; at most two of the four numbers
differ from their defaults at once. In `proxy_serial` a third request meets
a record that has been saved, has expired or has been cleaned up while the second
is still in it; two texts, one of two kinds, make a second text under one id a
conflict, and let a reply keep a part of its tokens. In `proxy_racy` two requests
miss together and a third meets the record of either, or finds that it was lost
with the process; what full stores and slots add to that are refusals, which
`proxy_serial` has. Only `proxy_racy` lets the process die; the theorems let it die as
often as one likes. The bounds are `Horizon` (clock),
`MaxRestarts`, `Requests`, `MaxJobs`, `MaxMatches`, `Texts`, `Files`,
`Connections`, `Environments`; nothing else is capped.

Symmetry is used among requests in the three large runs of `Proxy`, none of
which checks liveness: the two refinements say what initial states and steps
may be, and treat all requests alike. Deadlock is checked in both runs of the store. It
is not in the others, where a finished instance has nothing left to do; that no
handler is stuck before its end is the invariant `NobodyWaits`, and that the
client and the process end is a liveness property.

Properties of `proxy_serial` stop where the first entry may expire
or the process dies (`NothingForgotten`): after that the service has forgotten
the id and treats whatever comes under it as a new text, by design. What can be
relied on beyond that is `ImplementsMaskService`: nothing is forgotten for any
other reason, and what is forgotten is forgotten whole.

### Fairness

- *Store*: the ticker ticks and the goroutine runs (weak). `select` picks among
  ready branches at random, so the stop branch, ready again and again, is taken
  in the end: strong fairness for `LoopStops`. A caller whose wait is over
  returns. Nobody is obliged to call anything.
- *Load client*: the deadline passes, the ticker ticks, and every attempt ends,
  because the HTTP client has a timeout. What attempts bring is arbitrary.
- *Process*: `main` runs, the loading of the file included, a signal sent is delivered, the five seconds pass, and
  the cleanup goroutine sees `stop` (shown in `Store`: `CloseReturns`). No handler is
  obliged to return.

## 4. Where the code and its documents disagree

- `proxy_race`: `Get` and `Put` are separate critical sections
  (`httpapi.go:138`, `:204`). Two requests with one text and one id in flight
  together both miss, both mask with their own nonce and both answer 200. The
  second `Put` replaces the first record, and the first mask can no longer be
  restored. The README promises the same mask under the same id.
- `store_zero_ttl`: `New` promises that a time to live of zero or less means no
  limit (`store.go:42-44`); `Put` makes such entries expire at once (`:91`).
- `masking_wide_gap`: the citizenship detector joins its words with single
  blanks and takes the length of the result for that of the match
  (`detectors.go:535`). With a wider gap the last characters of the match stay
  in the mask, and the text restored differs from the original.
- `lifecycle_ready`: the ready line is printed after 100 ms though the listener
  is not up (`main.go:78`); an error that comes later stays unread.
- `config_second_document`: the comment on `validateSingleDocument`
  (`config.go:172`) promises that the file holds exactly one document. The code
  tries to decode a second one and takes every failure for the end of the file
  (`:180`), so that a second document which is not YAML is accepted and ignored.
  `FaultsDecide` leaves this case open and judges all others: an accepted file has
  a faultless first document and no second one that decodes, and a rejected one is
  not acceptable.

More have no run:

- The help text of `pii_entities_total` speaks of entities, and the code counts
  each type once per request (`httpapi.go:258`).
- The README says that a 429 with `Retry-After` does not count as invalid; the
  load client counts the third in a row as such (`loadtest/main.go:193`).
- `trimAddress` is said to cut an address at a comma before a word in small
  letters that is no marker (`detectors.go:745-746`); it cuts before a number too
  (`:770`). Of «г. Москва, ул. Ленина, 10» no digit is left, and an address
  without a digit is not returned at all (`:731`).
- A very large `STATE_TTL_SECONDS` or `STATE_MAX_MB` wraps (`main.go:132`,
  `store.go:49`), and a positive setting then acts as one of zero or less.
- `publicFigureFilter` is said to look for a client near the name
  (`detectors.go:972-973`); it looks in the whole text (`:982`). Surnames with
  initials are not under the filter at all (`:904-907`), against the comment at
  `:1047-1048`.
- `blockedByDocLabel` is said to look at the last two words before a number
  (`detectors.go:258-260`); a word that begins more than forty bytes before it,
  twenty Cyrillic letters, is cut and not recognised (`:313`).
- A client's address beside a bank's is masked, as the README says, only if a
  semicolon stands between them.

## 5. What is proved

For every value of the constants that meets the named assumptions.

**Store** (`StoreCoreProofs`, `StoreProofs`). From `StoreAssumption`,
`SizeAssumption`. The core invariant is that the entries are a finite, well-typed
function whose running total is exact and which is within its limits; the loop is where
`cleanupNow` is no later than the clock. Exactness is needed for the limits:
`Put` tests the running total, the property speaks of the entries. The lemmas
on bytes (`UpsertBytes`, `RemoveBytes`) say what replacing and removing do to
the sum, by splitting the set of pairs; every step then has one theorem, cited
by `Store` and `Proxy` alike. `CloseIsAJoin` needs that whoever is past the
wait has seen the loop end and that the loop never comes back. `Refinement` has
one step per action: cleanup and the removal in `Get` change only entries that
have expired, which the mapping hides, because `cleanupNow` is not ahead of
the clock; `Tick` is the abstract `Elapse`.

**Proxy** (`ProxyProofs`). From `ProxyAssumption`, `RegistryAssumption`,
`StoreAssumption`. None of the safety properties is inductive alone. The
invariant says of a record, wherever it is (in the store or in the hands of a
handler): it was made from a text sent under its key, its mask shows nothing of
what that consumer masks, and its tokens stand for items of that text
(`GoodRecord`). Since a request keeps what it sent, a good record stays good
though the store drops or replaces it meanwhile, so the stale copy
`handleUnmask` works on is harmless. With it go the answers of decided
requests (`AnswerOK`) and where a slot may be held. `SlotsAccounted` counts
the holders: acquiring adds one, the first release takes one away, the second
none. From the same count `NoWaitForASlot`: whoever gives back a slot finds the
channel not empty. That is the only step of a handler that could have to wait, and the
part of `NobodyWaits` that is not plain from the guards (a slot is taken or refused, an
id found or not, a text accepted or refused); the other part needs `ENABLED`.

**Service** (`ProxyProofs`, second half). From the same assumptions; every
set of requests, keys and texts, every limit and any number of restarts.
`ImplementsRacy` is for every client and needs one fact more than the
invariant above: what a handler is about to save was made from its own request
(`MadeOK`). It has one step per kind of handler step: `LookupMiss` is the abstract
`Miss`, `Save` is `BindLate`, `LookupHit` is `Consult`, refusals are `Refuse` and
`RefuseLate`, the last step is `Hear`, `Restart` is `Crash`, the clock is `Elapse`,
and all else stutters, expiry and cleanup included, since the bindings shown are
those that live. `Implements` follows, for `SerialKeys`. Clients that wait give
two facts more (`SInv`): no two unfinished requests share a key, and nothing live
stands under the key of a request that found nothing there (`FreshOK`). Where
that holds, a step of the racy service is one of the other (`RacyIsSerial`): the
look that missed is a stutter, and what is bound late could as well have been
bound at once. `MaskKept`
adds that until the first entry may expire nothing leaves the store (`KInv`), from
which `MaskRepeated` and `RoundTrips` follow; `StoredAnswered` holds for
every client and leans on records being bound to the request that made their
tokens. `RestoresExactly` holds for every client too. Its invariant (`RInv`) is
that no text a client can send shows what one of its tokens stands for: a reply
shows nothing, and a mask hides what its new tokens stand for and shows no more
than the text it was made of. Two masks under one id never share a token, so the
record a handler recognised is the one that minted the tokens; distinct tokens
stand for items of distinct kinds.

**Masking: the selection** (`MaskingProofs`). From `MaskingAssumption`. Whatever
has been selected is no worse than anything still pending (`NoWorse`): that is
what makes a dropped entity covered by something no worse, in every order a sort
that is not stable may yield. `Before` need not be shown transitive for it, as
the next entity is one before which none is pending.

**Masking: the detectors** (`DetectorsProofs`). From `DetectorAssumption` and
`FilterAssumption`. `ValuesInPlace` takes every function that shortens a match as
one that returns its first n elements, for some n: those that cut at the first of
a set of positions because a set of numbers has a least one, `TrimSpace` because
the match begins with no space. The second is needed: an address of one or two
characters after two blanks is matched with a blank in front, and its value then
lies one character further than its offsets say (`detectors.go:725`). `BankStays`
rests on the segment of a match being what no semicolon cuts off from it
(`AroundIs`). `ContextStays` compares two texts: whatever a filter looks at (the
segment, the words before a number, the element before it, the city behind a
postal code) lies at the same distance from the match in the part of the text on
its side of a semicolon, and the ways filters walk end at a semicolon, which is
why it must be none of the signs they pass over. Of names less is stated and
proved (`SegmentDecides`): the filter for public figures looks for a client in the
whole text, so that one behind a semicolon may let a name through that would not be
masked without it; and behind a semicolon only what goes by segments alone is
compared, since the others look back across it.

**Masking: the texts** (`MaskingProofs`). From the same assumptions, among them
that a text holds no token of the call (its nonce is drawn after the text has
come). Nothing about a text that is edited several times is inductive by itself. The
invariant of editing (`Edited`) cuts the text at `Border`, where the entity edited
last begins: what is before is the original, so that the offsets of the entities
still to come mean what they meant; what is behind is the mask of the rest, piece
by piece (`Bits`); the table holds the tokens in it, and no others; and putting
the values back gives the rest of the original, if each value is what stood in
its place. One edit moves `Border` to the left (`EditRemakes`, `EditMasks`,
`EditRestores`): no selected entity shares a character with another, so that all
between its end and the old border is as it was, and its token is new, so that
replacing in the rest is unchanged. `MaskIsRight` is the invariant with nothing
left to edit. The invariant of restoring says that what has been gone over has
been replaced all at once; values hold no tokens, so that nothing put in is ever
replaced (`SubstAgain`), and `ReplacedAtOnce` follows for every reply.

`ProxyTakesItRightly` turns both into statements about the set of
tokens in a text, the form in which `Proxy` has them. What is in a sequence put
together is what is in its pieces (`FlatRange`): of the pieces of a mask only the
first of each selected entity is a token, its own, and they are as many as the
entities because their numbers differ (`TokenEach`); of a reply with the table put
in, what was in it and is not in the table, and values, which are no tokens
(`SubstRange`).

`ComesBack` puts both together: a mask sent back unchanged is restored to the
text, provided that words are set apart by single blanks and no selected entity
begins with one (`Regular`). That is the condition under which every value is what
stood in its place (`RegularStands`): the detector of citizenships joins the words
of its match with single blanks, and the ones that trim take a blank in front
away without moving the offsets. It cannot be dropped, as the run
`masking_wide_gap` shows.

These proofs rest on what `FlattenSeq` does. It is a recursive function of the
community modules, and induction over data is out of the prover's reach, so that
`FlatExists` shows that a function with its equation exists for every sequence by
the least length without one; from `FlatLast` on it is known by its last step
only, and `FlatConcat`, `SubstConcat`, `SubstAgain` and their kind are proved from
that.

**Registry** (`ConfigProofs`). From `ConfigAssumption`. The maps stand for the
prefix of the list taken in so far, each key leads back to its consumer, and the
prefix has no fault; every entry of the map of keys leads to a consumer that has
that key. Whatever is rejected shows its fault in one of its own parts
(`AcceptanceRight`, which does not claim that nothing follows the first document,
as `OneDocument` fails). `OneConsumerPerKey` is the assumption `Registry` makes,
and `MapsAgree` says that the lookup of the code, by two maps, is the search of
`Registry`: nobody is found under another's key, or under none.

**Program** (`ConfigProofs`, last part). Each step of the program is a step of
loading or leaves it alone (`ProgramLoads`), and one of the process or leaves that
alone (`ProgramRuns`), so that the theorems on both hold of it. `StartsRight` needs one
fact about both, that no store and no listener is there before the file has been
accepted (`StartedKeeps`): then the registry is the one of the whole file, not of a
prefix that was good.

**Process** (`LifecycleProofs`). From `SettingsAssumption` and
`LifecycleAssumption`, for every width of `int`. The invariant says what each
stage of `main` may take for granted: behind the settings the environment is valid,
behind the store the limits are those made of it, and once the listener is
closed and the shutdown over in time nobody is being served. `LimitsKept` needs
that a product within the range is not changed by wrapping (`WrapExact`), and that
requests in flight never outnumber the slots.

**Load client** (`LoadClientProofs`). From `LoadAssumption`, for any number of
requests, workers and attempts and any length of the series. Each number of the
summary is the number of jobs that have recorded themselves with the verdict it
counts (`CountsOK`); a step of `record` adds one job to the sets it adds one to,
and touches no other. That is what the exit code is computed from
(`ExitCodeRight`). For the series, a job leaves only when it has looked at
what it recorded, or something later: while nobody was valid the series only
grows, so that when as many have left as stop the run, the last of them to look
saw it (`SeriesStops`). `WorkersFinish` is the part of `RunEnds` that is no matter
of fairness: each step of a worker leaves it fewer of the 2 · `maxAttempts` + 3 it
can take (`ToGo`), so that no answer of the service makes it try for ever.

Only model-checked: all liveness (the prover has no rule for fairness here) and
`NobodyWaits` (it speaks of `ENABLED`; what of it can be said without is
`NoWaitForASlot`). Every other invariant and action property
that a run checks is a theorem.

## 6. What is not modelled

- Where the regular expressions of the detectors match: expressions and word
  lists, left to the tests. A match is any span, except that those `masking`
  masks neither begin nor end with a blank. Three expressions can make others:
  an address (`detectors.go:503`) may begin and end with a blank, a birth place
  (`:558`) and an authority (`:612`) may end with one. No run
  masks such a match. Of those that end with a blank `TrimmedIsPrefix` tells what is
  left, as it takes every short text for a match, and `ComesBack` holds for
  them; a match that begins with one is outside the conditions of both.
  `strings.ToLower` may change lengths in bytes, which offsets would show; a
  character is one element here.
- Latency histogram, log line, token estimate, the wording of errors, `/healthz`
  and the metrics page: no state any step depends on. The metrics listener is
  left out of `Lifecycle`: nothing waits for it.
- The exclusion of toll-free numbers, which looks at digits inside a number. The
  forty bytes before a passport number are a number of elements, so that no word
  is cut in two.
- What a setting must look like to be an integer (`strconv.Atoi`), and the
  addresses, paths and certificates among the settings.
- The total of 429s, latencies, percentiles and flags of the load client; the
  archive script; build and container files.

## 7. Plan

Done: (1) store with its abstract map, (2) registry and HTTP layer, (3) masking,
(4) loading of the configuration, (5) load client, (6) process and the program, (7) the abstract
service with restarts, refined and proved, (8) settings, (9) the filters of
the detectors, (10) theorems about the mask and what it is restored to, the context of a match,
the maps of the registry and the load client, (11) the service for clients that
do not wait, and the tokens of `Proxy` as those of `Masking`.

To come:

1. The exclusion of toll-free numbers, once digits are worth telling apart.
2. `Masking` and `Proxy` over one set of texts: that the items in a text are those of the
   entities selected, which ties the values a mask hides to the detectors that
   found them. Of the tokens it is shown.
