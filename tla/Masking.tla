------------------------------- MODULE Masking -------------------------------
(***************************************************************************)
(* One call of maskPayload (internal/httpapi) with pii.Mask under it, and  *)
(* of pii.Unmask on what a language model made of the mask: how detected   *)
(* entities are filtered, which of the overlapping ones are kept, how the  *)
(* text is edited, and how tokens are replaced.                            *)
(*                                                                         *)
(* A text is a sequence of words, signs and tokens; a token is one         *)
(* element, since only whole tokens are ever looked for.  All tokens of a  *)
(* call share its nonce, which is left out.                                *)
(***************************************************************************)
EXTENDS Filters

CONSTANTS
    Texts,       \* payloads, without tokens
    Types,       \* pii.Type
    Confidence,  \* type -> the confidence of its detector
    Allowed,     \* the types the consumer lets mask
    Spans,       \* <<start, end>> of what regular expressions match
    MaxMatches   \* bound of the model: text -> the number of matches

(* No expression matches nothing.  Texts hold none of the tokens of the    *)
(* call, whose nonce was drawn after the text had come.                    *)
ASSUME MaskingAssumption ==
    /\ Confidence \in [Types -> Int]
    /\ Allowed \subseteq Types
    /\ Spans \subseteq Nat \X Nat
    /\ \A s \in Spans : s[1] < s[2]
    /\ MaxMatches \in [Texts -> Nat]
    /\ Texts \subseteq Seq(Words \cup Signs)
    /\ \A w \in Words \cup Signs : w \notin [type : Types, number : Nat]

VARIABLES
    phase,
    text,      \* the payload
    matches,   \* what the detectors return, in their order
    pos,       \* how many matches have been looked at
    entities,  \* the matches of allowed types
    pending,   \* indices of entities not yet selected or dropped
    kept,      \* indices of entities selected
    masked,    \* the text as edited so far
    left,      \* how many kept entities are still in the text
    tokens,    \* token -> value
    reply,     \* the text to restore
    restored,  \* the same as edited so far
    todo       \* tokens not yet looked for

inputVars  == <<text, matches>>
detectVars == <<pos, entities>>
selectVars == <<pending, kept>>
editVars   == <<masked, left, tokens>>
unmaskVars == <<reply, restored, todo>>
vars == <<phase, text, matches, pos, entities, pending, kept, masked, left, tokens,
          reply, restored, todo>>

-----------------------------------------------------------------------------
(* What the detectors return, modules Detectors and Filters *)

\* The end of an entity is where its value would end, were it in the text.
Entity(s, t, span) ==
    LET value == Value(t, Slice(s, span[1], span[2]))
    IN  [type |-> t, start |-> span[1], end |-> span[1] + Len(value),
         value |-> value, conf |-> Confidence[t]]

MatchesIn(s) ==
    {Entity(s, x[1], x[2]) :
        x \in {y \in Types \X Spans :
                 y[2][2] <= Len(s) /\ Returned(y[1], s, y[2])}}

Init ==
    /\ phase = "detect"
    /\ text \in Texts
    /\ matches \in UNION {[1 .. n -> MatchesIn(text)] : n \in 0 .. MaxMatches[text]}
    /\ pos = 0
    /\ entities = <<>>
    /\ pending = {}
    /\ kept = {}
    /\ masked = text
    /\ left = 0
    /\ tokens = <<>>
    /\ reply = <<>>
    /\ restored = <<>>
    /\ todo = {}

Permitted_Variant(e) == TRUE

Permitted(e) == e.type \in Allowed

(* Matches of types the consumer does not let mask are passed over; the    *)
(* metrics counted on the way are in module Proxy.                         *)
Detect ==
    /\ phase = "detect"
    /\ pos < Len(matches)
    /\ pos' = pos + 1
    /\ entities' = IF Permitted(matches[pos + 1])
                    THEN Append(entities, matches[pos + 1]) ELSE entities
    /\ UNCHANGED <<phase, inputVars, selectVars, editVars, unmaskVars>>

StartSelecting ==
    /\ phase = "detect"
    /\ pos = Len(matches)
    /\ phase' = "select"
    /\ pending' = DOMAIN entities
    /\ UNCHANGED <<inputVars, detectVars, kept, editVars, unmaskVars>>

-----------------------------------------------------------------------------
(* selectNonOverlapping: by length, then confidence, then start.  The sort *)
(* is not stable, so entities that compare equal come in any order.        *)

Size(e) == e.end - e.start

Before(d, e) ==
    \/ Size(d) > Size(e)
    \/ Size(d) = Size(e) /\ d.conf > e.conf
    \/ Size(d) = Size(e) /\ d.conf = e.conf /\ d.start < e.start

Overlaps(d, e) == d.start < e.end /\ e.start < d.end

IsNext_Variant(n) == n \in pending

IsNext(n) ==
    /\ n \in pending
    /\ \A m \in pending : ~Before(entities[m], entities[n])

OverlapsAny_Variant(n) ==
    \E m \in kept : /\ entities[m].type = entities[n].type
                    /\ Overlaps(entities[n], entities[m])

OverlapsAny(n) == \E m \in kept : Overlaps(entities[n], entities[m])

Keep(n) ==
    /\ phase = "select"
    /\ IsNext(n)
    /\ ~OverlapsAny(n)
    /\ kept' = kept \cup {n}
    /\ pending' = pending \ {n}
    /\ UNCHANGED <<phase, inputVars, detectVars, editVars, unmaskVars>>

Drop(n) ==
    /\ phase = "select"
    /\ IsNext(n)
    /\ OverlapsAny(n)
    /\ pending' = pending \ {n}
    /\ UNCHANGED <<phase, inputVars, kept, detectVars, editVars, unmaskVars>>

StartEditing ==
    /\ phase = "select"
    /\ pending = {}
    /\ phase' = "edit"
    /\ left' = Cardinality(kept)
    /\ UNCHANGED <<inputVars, detectVars, selectVars, masked, tokens, unmaskVars>>

-----------------------------------------------------------------------------
(* The loop of Mask: from the last kept entity to the first, so that the   *)
(* offsets of those still to come stay good.                               *)

InText ==
    CHOOSE f \in SetToSeqs(kept) :
        \A i, j \in DOMAIN f : i < j => entities[f[i]].start <= entities[f[j]].start

Token_Variant(i) == [type |-> entities[InText[i]].type, number |-> 0]

Token(i) == [type |-> entities[InText[i]].type, number |-> i - 1]

After_Variant(e) == Slice(masked, e.end + 1, Len(masked))

After(e) == Slice(masked, e.end, Len(masked))

Edit ==
    /\ phase = "edit"
    /\ left > 0
    /\ LET e == entities[InText[left]]
           t == Token(left)
       IN  /\ masked' = Slice(masked, 0, e.start) \o <<t>> \o After(e)
           /\ tokens' = [x \in DOMAIN tokens \cup {t} |->
                            IF x = t THEN e.value ELSE tokens[x]]
    /\ left' = left - 1
    /\ UNCHANGED <<phase, inputVars, detectVars, selectVars, unmaskVars>>

\* Tokens that are not of this call: they are in no table.
Foreign == [type : Types, number : {Cardinality(kept)}]

(* What a model may make of the mask: nothing, or something with a token   *)
(* nobody gave it, all the others twice, and in another order.             *)
Replies == {masked} \cup {<<t>> \o Reverse(masked) \o masked : t \in Foreign}

StartRestoring ==
    /\ phase = "edit"
    /\ left = 0
    /\ phase' = "restore"
    /\ \E answer \in Replies : reply' = answer /\ restored' = answer
    /\ todo' = DOMAIN tokens
    /\ UNCHANGED <<inputVars, detectVars, selectVars, editVars>>

-----------------------------------------------------------------------------
(* Unmask goes over the map of tokens in any order.                        *)

Substitute(s, value(_)) == FlattenSeq([n \in DOMAIN s |-> value(s[n])])

ReplaceOne_Variant(s, t) ==
    LET first == {n \in DOMAIN s : s[n] = t}
    IN  IF first = {} THEN s
        ELSE LET n == Min(first)
             IN  SubSeq(s, 1, n - 1) \o tokens[t] \o SubSeq(s, n + 1, Len(s))

ReplaceOne(s, t) ==
    Substitute(s, LAMBDA c : IF c = t THEN tokens[t] ELSE <<c>>)

Replace(t) ==
    /\ phase = "restore"
    /\ t \in todo
    /\ restored' = ReplaceOne(restored, t)
    /\ todo' = todo \ {t}
    /\ UNCHANGED <<phase, inputVars, detectVars, selectVars, editVars, reply>>

Finish ==
    /\ phase = "restore"
    /\ todo = {}
    /\ phase' = "done"
    /\ UNCHANGED <<inputVars, detectVars, selectVars, editVars, unmaskVars>>

Next ==
    \/ Detect \/ StartSelecting
    \/ \E n \in pending : Keep(n) \/ Drop(n)
    \/ StartEditing \/ Edit \/ StartRestoring
    \/ \E t \in todo : Replace(t)
    \/ Finish

Spec == Init /\ [][Next]_vars

-----------------------------------------------------------------------------
(* Properties *)

TypeOK ==
    /\ phase \in {"detect", "select", "edit", "restore", "done"}
    /\ text \in Texts
    /\ LET found == MatchesIn(text)
       IN  matches \in Seq(found) /\ entities \in Seq({e \in found : e.type \in Allowed})
    /\ pos \in 0 .. Len(matches)
    /\ pending \subseteq DOMAIN entities
    /\ kept \subseteq DOMAIN entities
    /\ left \in 0 .. Cardinality(kept)
    /\ todo \subseteq DOMAIN tokens

(* No two selected entities share a character: the precondition of editing *)
(* the text by offsets, which Mask does not check again.                   *)
KeptApart ==
    \A m, n \in kept : m # n => ~Overlaps(entities[m], entities[n])

(* The comment of selectNonOverlapping: of entities that overlap, the      *)
(* longest stays, and among those of equal length the most confident.      *)
(* Whatever was dropped overlaps something selected that is no worse.      *)
DroppedForBetter ==
    \A n \in DOMAIN entities :
        phase # "detect" /\ n \notin pending \cup kept =>
            \E m \in kept : /\ Overlaps(entities[n], entities[m])
                            /\ ~Before(entities[n], entities[m])

(* The mask, read from left to right: a token where a selected entity      *)
(* begins, nothing in the rest of it, and every other character as it was. *)
MaskRead ==
    FlattenSeq([c \in 1 .. Len(text) |->
        IF \E i \in 1 .. Len(InText) : entities[InText[i]].start = c - 1
        THEN <<Token(CHOOSE i \in 1 .. Len(InText) :
                        entities[InText[i]].start = c - 1)>>
        ELSE IF \E n \in kept : entities[n].start < c /\ c <= entities[n].end
        THEN <<>>
        ELSE <<text[c]>>])

\* The edits by offset, from the last to the first, yield that mask.
MaskIsAsRead == phase \in {"restore", "done"} => masked = MaskRead

(* Replacing tokens one after another, in whatever order the map yields    *)
(* them, replaces every occurrence of each by its value at once.           *)
AllAtOnce ==
    phase = "done" =>
        restored = Substitute(reply, LAMBDA c :
                       IF c \in DOMAIN tokens THEN tokens[c] ELSE <<c>>)

(* README: send the result back under the same id, and the service         *)
(* restores the original text.                                             *)
OriginalRestored == phase = "done" /\ reply = masked => restored = text

TokensIn(s) == Range(s) \ (Words \cup Signs)

\* The tokens in the mask are those of the table, one for each selected
\* entity, of its type and with its value.
MaskShowsTable ==
    phase \in {"restore", "done"} =>
        /\ TokensIn(masked) = DOMAIN tokens
        /\ Cardinality(DOMAIN tokens) = Cardinality(kept)
        /\ \A n \in kept : \E t \in DOMAIN tokens :
              t.type = entities[n].type /\ tokens[t] = entities[n].value

\* Of the tokens in a reply the known ones are gone, every one, and those the
\* table does not know stay.
OnlyKnownGone ==
    phase = "done" => TokensIn(restored) = TokensIn(reply) \ DOMAIN tokens

(* What module Proxy takes Mask and Unmask for, though it has neither      *)
(* offsets nor an order of replacement: both texts tell their tokens.      *)
AsProxyTakesIt == MaskShowsTable /\ OnlyKnownGone

Fresh == phase = "detect" /\ pos = 0

(* Detectors that shorten a match take its length for their offsets, so    *)
(* that what they leave must be where the match began: it is, if the match *)
(* begins with no space.                                                   *)
TrimmedIsPrefix == Fresh => KeepsItsStart(text)

(* Nothing is masked as an address, or a part of one, in a segment that    *)
(* mentions a bank, be it before or after the place of the match.          *)
BankStaysOut == Fresh => NoBankReturned(text)

(* Matches are judged where they stand: a bank in another segment does not *)
(* keep a client's address from being masked, nor does anything that comes *)
(* behind a semicolon keep a name or a number before it (README.md:79-82). *)
ContextIsLocal == Fresh => SegmentDecides(text)
=============================================================================
