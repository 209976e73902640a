------------------------------ MODULE MCMasking ------------------------------
(* Instances of Masking and of the properties of Detectors for TLC. *)
EXTENDS Masking, TLC

CONSTANTS
    moscow, kazan,        \* words with a capital
    near, st, bank,       \* small ones: any, an abbreviation, one for a bank
    seven, date, code,    \* a number, a date, the code of a unit
    roman, pushkin, ivan, \* a name, a public figure, a word in Latin letters
    client, inn,          \* signs of a client and of another document
    blank, newline, dot, comma, semicolon, dash,
    address, birthPlace, citizenship, authority, city,
    fullName, initials, pair, cardholder, passport, birthDate, postal

\* A detector of one type is surer of itself than the other.
MCConfidence == address :> 1 @@ citizenship :> 2 @@ city :> 2

\* Three fields, a dot inside the first, one blank between them.
MCText == <<moscow, dot, kazan, blank, seven>>

\* Two names with two blanks between them.
MCWideText == <<moscow, blank, blank, kazan, seven>>

\* Every short text, what may follow the name of an authority or a postal
\* code, and names and numbers in two segments.
MCSamples ==
    UNION {[1 .. n -> {moscow, near, st, bank, seven, blank, dot, comma, semicolon}] :
              n \in 0 .. 4}
      \cup [1 .. 5 -> {moscow, blank, comma, date, code}]
      \cup [1 .. 5 -> {moscow, blank, comma, seven, semicolon}]
      \cup {s \in [1 .. 5 -> {roman, pushkin, ivan, client, blank, semicolon}]
                     \cup [1 .. 5 -> {inn, near, seven, dash, semicolon}] :
               \E i \in 2 .. 4 : s[i] = semicolon}

MCTexts == {MCText} \cup MCSamples

\* Matches begin and end with something else than a blank.
MCSpansIn(s) ==
    {x \in (0 .. Len(s)) \X (0 .. Len(s)) :
        /\ x[1] < x[2]
        /\ s[x[1] + 1] # Blank
        /\ s[x[2]] # Blank}
MCSpans == MCSpansIn(MCText)
MCWideSpans == MCSpansIn(MCWideText)

\* Masking goes on with what was found in the first text only.
MCMaxMatches     == [s \in Texts |-> IF s = MCText THEN 3 ELSE 0]
MCWideMaxMatches == [s \in Texts |-> 1]
MCWideTexts == {MCWideText}
=============================================================================
