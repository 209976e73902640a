------------------------------- MODULE Filters -------------------------------
(***************************************************************************)
(* Which matches the detectors of internal/pii/detectors.go pass over: by  *)
(* the segment they lie in, by the words before them, by their own words,  *)
(* by words anywhere in the text.                                          *)
(*                                                                         *)
(* A type stands for one detector here: of the five that find a FullName,  *)
(* FullName are the three under both filters, SurnameInitials and NamePair *)
(* the other two; CardholderName may be the whole of a text as well.       *)
(* PassportNumber are the numbers found without the word for a series:     *)
(* behind that word no label is looked for.                                *)
(***************************************************************************)
EXTENDS Detectors, FiniteSets

CONSTANTS
    Filtered,               \* the types with bankFilter, and Address
    FullName, SurnameInitials, NamePair, CardholderName, PassportNumber,
    DateTypes,              \* those of dateDetectorImpl
    BarePostalCode,         \* a PostalCode found without its label
    CityMark,               \* the abbreviation of the word for a city
    Latin,                  \* the words of latinUpperWordRe
    CommonNames,            \* commonNames
    Surnames,               \* words that look like one (surnameSuffixes)
    PublicFigures,          \* words that contain one of publicFigures
    ClientWords,            \* words that contain a sign of a client
    DocLabels,              \* docLabels
    Reach                   \* the forty bytes before a number, in elements

(* What the other detectors find.                                          *)
Others == {SurnameInitials, CardholderName, PassportNumber} \cup DateTypes

ASSUME FilterAssumption ==
    /\ {FullName, NamePair} \cap (Filtered \cup Others) = {}
    /\ PassportNumber \notin Filtered
    /\ CommonNames \cup Surnames \cup PublicFigures \cup ClientWords \cup DocLabels
         \subseteq Words
    /\ CityMark \in Abbreviations
    /\ Latin \subseteq Capital
    /\ (CommonNames \cup Surnames) \cap Latin = {}
    /\ Reach \in Nat

-----------------------------------------------------------------------------
(* bankFilter and addressDetectorImpl *)

\* Forwards only.
Around_Variant(text, pos) ==
    pos + 1 .. Min({i \in pos + 1 .. Len(text) : text[i] = Semicolon}
                      \cup {Len(text) + 1}) - 1

\* A bank anywhere behind the last semicolon.
AroundWide_Variant(text, pos) ==
    Max({0} \cup {i \in 1 .. pos : text[i] = Semicolon}) + 1 .. Len(text)

\* The positions between the semicolon before pos and the one after it.
Around(text, pos) ==
    Max({0} \cup {i \in 1 .. pos : text[i] = Semicolon}) + 1
      .. Min({i \in pos + 1 .. Len(text) : text[i] = Semicolon}
                \cup {Len(text) + 1}) - 1

IsBankSegment(text, pos) == \E i \in Around(text, pos) : text[i] \in BankWords

HasNumber(s) == \E i \in DOMAIN s : s[i] \in Numbers

\* postalCodeDetectorImpl: a comma, spaces and the name of a city.
CityFollows(text, end) ==
    \E n \in end + 3 .. Len(text) :
        /\ text[end + 1] = Comma
        /\ \A i \in end + 2 .. n - 1 : text[i] \in Spaces
        /\ \/ text[n] \in Capital
           \/ text[n] = CityMark /\ n < Len(text) /\ text[n + 1] = Dot

-----------------------------------------------------------------------------
(* passportNumberDetectorImpl and dateDetectorImpl: what stands before *)

\* The last word before pos is a label of another document, or the one before.
BlockedByDocLabel(text, pos) ==
    LET words == {i \in DOMAIN text : /\ i <= pos /\ i > pos - Reach
                                      /\ text[i] \in Words}
    IN  \E i \in words : /\ text[i] \in DocLabels
                         /\ Cardinality({j \in words : j > i}) <= 1

ContinuesNumber(text, pos) == pos > 0 /\ text[pos] \in Numbers \cup {Dash}

-----------------------------------------------------------------------------
(* The detectors of names *)

\* cyrillicWordRe
Cyrillic == (Capital \cup Small) \ Latin

AllWordsCapitalized(s) ==
    LET words == {i \in DOMAIN s : s[i] \in Cyrillic}
    IN  words # {} /\ \A i \in words : s[i] \in Capital

HasClient(text) == \E i \in DOMAIN text : text[i] \in ClientWords

ContainsPublicFigure(s) == \E i \in DOMAIN s : s[i] \in PublicFigures

\* publicFigureFilter looks for a client in the whole text.
PrivateName(text, name) == HasClient(text) \/ ~ContainsPublicFigure(name)

\* namePairDetectorImpl: two words with nothing but spaces between them.
IsNamePair(s) ==
    LET first == s[1]
        last  == s[Len(s)]
    IN  /\ Solid(s) = {1, Len(s)} /\ Len(s) > 1
        /\ \/ first \in CommonNames /\ last \in Surnames
           \/ last \in CommonNames /\ first \in Surnames

\* allLatinUpper: two or three fields, each of them one word.
AllLatinUpper(s) ==
    /\ Cardinality(Solid(s)) \in {2, 3}
    /\ \A i \in Solid(s) : s[i] \in Latin /\ (i > 1 => s[i - 1] \in Spaces)

-----------------------------------------------------------------------------
\* Whether the detector of type t returns what it made of the match.
Returned(t, text, span) ==
    LET value == Value(t, Slice(text, span[1], span[2]))
    IN  /\ value # <<>>
        /\ t = Address => HasNumber(value)
        /\ t = BarePostalCode => CityFollows(text, span[2])
        /\ t \in Filtered => ~IsBankSegment(text, span[1])
        /\ t = PassportNumber => ~BlockedByDocLabel(text, span[1])
        /\ t \in DateTypes => ~ContinuesNumber(text, span[1])
        /\ t \in {FullName, SurnameInitials} => AllWordsCapitalized(value)
        /\ t = NamePair => IsNamePair(value)
        /\ t \in {FullName, NamePair} => PrivateName(text, value)
        /\ t = CardholderName => AllLatinUpper(value)

-----------------------------------------------------------------------------
(* What the properties of Masking say of one text *)

SpansOf(s) == {x \in (0 .. Len(s)) \X (0 .. Len(s)) : x[1] < x[2]}

SameSegment(s, i, j) ==
    \A k \in DOMAIN s : s[k] = Semicolon => k \notin (i .. j) \cup (j .. i)

\* No match of the detectors in Filtered begins with a semicolon.
NoBankReturned(s) ==
    \A t \in Filtered, x \in SpansOf(s) :
        s[x[1] + 1] # Semicolon /\ Returned(t, s, x) =>
            ~\E i \in DOMAIN s :
                s[i] \in BankWords /\ SameSegment(s, i, x[1] + 1)

\* What is returned from s is returned from its part up to a semicolon, and
\* the reverse; of the part behind one, where a segment is all that matters.
SegmentDecides(s) ==
    \A k \in {i \in DOMAIN s : s[i] = Semicolon}, x \in SpansOf(s) :
        LET before == SubSeq(s, 1, k - 1)
            behind == SubSeq(s, k + 1, Len(s))
        IN  /\ x[2] < k =>
                 /\ \A t \in Filtered \cup Others :
                      Returned(t, s, x) <=> Returned(t, before, x)
                 /\ \A t \in {FullName, NamePair} :
                      Returned(t, before, x) => Returned(t, s, x)
            /\ x[1] >= k =>
                 \A t \in Filtered :
                     Returned(t, s, x) <=> Returned(t, behind, <<x[1] - k, x[2] - k>>)
=============================================================================
