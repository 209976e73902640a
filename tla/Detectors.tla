------------------------------ MODULE Detectors ------------------------------
(***************************************************************************)
(* What the detectors of internal/pii/detectors.go do with what their      *)
(* regular expressions match: cut it short and join its words.             *)
(* The expressions are not here: a match is any span of a text.            *)
(*                                                                         *)
(* A text is a sequence of words and signs, each of length one: no match   *)
(* begins or ends inside a word.  strings.ToLower is left out: the sets of *)
(* words below are sets of words in whatever case.                         *)
(***************************************************************************)
EXTENDS Integers, SequencesExt

CONSTANTS
    Capital, Small, Numbers,   \* words, by what they begin with
    Markers,                   \* addressMarker
    Abbreviations,             \* words abbrevDotRe accepts before a dot
    Dates,                     \* what dateInTextRe finds
    BankWords,                 \* words that contain the word for a bank
    UnitCode,                  \* the words for the code of a unit
    Blank, Newline, Dot, Comma, Semicolon,
    Dash,                      \* "-" or ")", as before a date
    Address, BirthPlace, Citizenship, IssuingAuthority    \* of pii.Type

Words  == Capital \cup Small \cup Numbers
Spaces == {Blank, Newline}
Signs  == Spaces \cup {Dot, Comma, Semicolon, Dash}

ASSUME DetectorAssumption ==
    /\ Words \cap Signs = {}
    /\ Semicolon \notin Spaces \cup {Dot, Comma, Dash}
    /\ Markers \cup Abbreviations \cup BankWords \cup {UnitCode} \subseteq Words
    /\ Dates \subseteq Numbers
    /\ Address \notin {BirthPlace, Citizenship, IssuingAuthority}
    /\ BirthPlace \notin {Citizenship, IssuingAuthority}
    /\ Citizenship # IssuingAuthority

-----------------------------------------------------------------------------
\* Offsets are from 0, ends are exclusive.
Slice(s, a, b) == SubSeq(s, a + 1, b)

\* s up to the first of the positions stops.
UpTo(s, stops) == SubSeq(s, 1, IF stops = {} THEN Len(s) ELSE Min(stops) - 1)

Solid(s) == {i \in DOMAIN s : s[i] \notin Spaces}

TrimRight(s) ==
    SubSeq(s, 1, Max({0} \cup {i \in DOMAIN s : s[i] # Blank}))

TrimSpace(s) ==
    IF Solid(s) = {} THEN <<>> ELSE SubSeq(s, Min(Solid(s)), Max(Solid(s)))

\* A dot, a blank and a capital, unless the dot is that of an abbreviation.
SentenceEnds(s) ==
    {i \in DOMAIN s : /\ s[i] = Dot
                      /\ i + 2 <= Len(s)
                      /\ s[i + 1] = Blank
                      /\ s[i + 2] \in Capital
                      /\ ~(i > 1 /\ s[i - 1] \in Abbreviations)}

WordsFrom(s, n) == {i \in n .. Len(s) : s[i] \in Words}

\* A comma and a blank before a word that neither is a marker nor a capital.
ListEnds(s) ==
    {i \in DOMAIN s : /\ s[i] = Comma
                      /\ i < Len(s)
                      /\ s[i + 1] = Blank
                      /\ WordsFrom(s, i + 2) # {}
                      /\ s[Min(WordsFrom(s, i + 2))] \notin Capital \cup Markers}

\* The dot that ends a sentence stays in an address.
TrimAddress(s) ==
    TrimSpace(UpTo(s, {i + 1 : i \in SentenceEnds(s)} \cup ListEnds(s)
                         \cup {i \in DOMAIN s : s[i] \in {Semicolon, Newline}}))

\* strings.Join(strings.Fields(s), " ") of what begins and ends with a word.
Joined(s) ==
    FlattenSeq([i \in DOMAIN s |->
        IF s[i] \notin Spaces THEN <<s[i]>>
        ELSE IF s[i - 1] \in Spaces THEN <<>> ELSE <<Blank>>])

TrimBirthPlace_Variant(s) == Joined(TrimSpace(UpTo(s, SentenceEnds(s))))

TrimBirthPlace(s) == TrimSpace(UpTo(s, SentenceEnds(s)))

\* buildEntity: up to a date, and up to the code of the unit before it.
TrimAuthority(s) ==
    LET undated == UpTo(s, {i \in DOMAIN s : s[i] \in Dates})
        codes   == {i \in DOMAIN undated : /\ i + 2 <= Len(undated)
                                           /\ undated[i] = Comma
                                           /\ undated[i + 1] = Blank
                                           /\ undated[i + 2] = UnitCode}
    IN  TrimRight(UpTo(undated, codes))

\* The leading fields that begin with a capital.
TrimToCapitalized(s) ==
    Joined(TrimSpace(UpTo(s, {i \in Solid(s) : /\ i = 1 \/ s[i - 1] \in Spaces
                                               /\ s[i] \notin Capital})))

Value(t, s) ==
    CASE t = Address          -> TrimAddress(s)
      [] t = BirthPlace       -> TrimBirthPlace(s)
      [] t = Citizenship      -> TrimToCapitalized(s)
      [] t = IssuingAuthority -> TrimAuthority(s)
      [] OTHER                -> s

-----------------------------------------------------------------------------
(* What the properties of Masking say of one text *)

Trimming == {Address, BirthPlace, IssuingAuthority}

KeepsItsStart(s) ==
    s # <<>> /\ s[1] \notin Spaces =>
        \A t \in Trimming : IsPrefix(Value(t, s), s)
=============================================================================
