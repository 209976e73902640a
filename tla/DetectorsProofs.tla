-------------------------- MODULE DetectorsProofs ----------------------------
(***************************************************************************)
(* What detectors leave of a match is its beginning, for every match that  *)
(* begins with no space: each function on the way is shown to return the   *)
(* first n elements of its argument, for some n.  And what is returned does *)
(* not depend on what a semicolon cuts off: everything a filter looks at is *)
(* shown to be at the same distance from the match in the part of the text *)
(* as in the whole.                                                        *)
(***************************************************************************)
EXTENDS Filters, TLAPS, NaturalsInduction, WellFoundedInduction, SequenceTheorems,
        FiniteSetTheorems

IsBeginning(b, s) == \E n \in 0 .. Len(s) : b = SubSeq(s, 1, n)

\* A set of natural numbers that is not empty has a least one.
LEMMA Least ==
    ASSUME NEW S \in SUBSET Nat, S # {}
    PROVE  Min(S) \in S /\ \A y \in S : Min(S) <= y
  <1> DEFINE R == OpToRel(<, Nat)
  <1>1. \E x \in S : \A y \in S : <<y, x>> \notin R
    <2>1. IsWellFoundedOn(R, Nat)
      BY NatLessThanWellFounded
    <2> HIDE DEF R
    <2> QED
      BY <2>1, WFMin
  <1>2. PICK x \in S : \A y \in S : <<y, x>> \notin R
    BY <1>1
  <1>3. \A y \in S : ~(y < x)
    BY <1>2 DEF OpToRel
  <1>4. \A y \in S : x <= y
    BY <1>3
  <1> QED
    BY <1>4 DEF Min

\* A set of numbers up to n that is not empty has a greatest one.
LEMMA Greatest ==
    ASSUME NEW n \in Nat, NEW S \in SUBSET (0 .. n), S # {}
    PROVE  Max(S) \in S /\ \A y \in S : y <= Max(S)
  <1> DEFINE T == {n - x : x \in S}
  <1>1. T \in SUBSET Nat /\ T # {}
    <2>1. \A x \in S : n - x \in Nat
      OBVIOUS
    <2>2. PICK x \in S : TRUE
      OBVIOUS
    <2>3. n - x \in T
      BY <2>2
    <2> QED
      BY <2>1, <2>3
  <1>2. Min(T) \in T /\ \A y \in T : Min(T) <= y
    <2> HIDE DEF T
    <2> QED
      BY <1>1, Least
  <1>3. PICK x \in S : Min(T) = n - x
    BY <1>2
  <1>4. \A y \in S : x >= y
    <2> SUFFICES ASSUME NEW y \in S PROVE x >= y
      OBVIOUS
    <2>1. n - x <= n - y
      BY <1>2, <1>3
    <2> QED
      BY <2>1
  <1>5. Max(S) \in S /\ \A y \in S : Max(S) >= y
    BY <1>4 DEF Max
  <1> QED
    BY <1>5

\* The first n elements of s.
LEMMA FirstOnes ==
    ASSUME NEW E, NEW s \in Seq(E), NEW n \in 0 .. Len(s)
    PROVE  /\ SubSeq(s, 1, n) \in Seq(E)
           /\ Len(SubSeq(s, 1, n)) = n
           /\ \A i \in 1 .. n : SubSeq(s, 1, n)[i] = s[i]
           /\ IsPrefix(SubSeq(s, 1, n), s)
  <1> DEFINE b == SubSeq(s, 1, n)
  <1>1. n \in Nat /\ n <= Len(s)
    OBVIOUS
  <1>2. b \in Seq(E) /\ Len(b) = n /\ \A i \in 1 .. n : b[i] = s[i]
    BY <1>1, SubSeqProperties
  <1>3. SubSeq(b, 1, Len(b)) = b
    BY <1>2
  <1>4. IsPrefix(b, s)
    BY <1>1, <1>2, <1>3 DEF IsPrefix
  <1> QED
    BY <1>2, <1>4

\* A beginning of a beginning is a beginning.
LEMMA BeginningAgain ==
    ASSUME NEW E, NEW s \in Seq(E), NEW b, IsBeginning(b, s),
           NEW c, IsBeginning(c, b)
    PROVE  IsBeginning(c, s)
  <1>1. PICK n \in 0 .. Len(s) : b = SubSeq(s, 1, n)
    BY DEF IsBeginning
  <1>2. Len(b) = n
    BY <1>1, FirstOnes
  <1>3. PICK m \in 0 .. n : c = SubSeq(b, 1, m)
    BY <1>2 DEF IsBeginning
  <1>4. c = SubSeq(s, 1, m)
    BY <1>1, <1>3
  <1>5. m \in 0 .. Len(s)
    BY <1>1, <1>3
  <1> QED
    BY <1>4, <1>5 DEF IsBeginning

\* Cutting at a position leaves a beginning.
LEMMA UpToBegins ==
    ASSUME NEW E, NEW s \in Seq(E), NEW stops \in SUBSET (1 .. Len(s) + 1)
    PROVE  IsBeginning(UpTo(s, stops), s)
  <1>1. CASE stops = {}
    BY <1>1 DEF UpTo, IsBeginning
  <1>2. CASE stops # {}
    <2>1. Min(stops) \in 1 .. Len(s) + 1
      <3>1. stops \in SUBSET Nat
        OBVIOUS
      <3> QED
        BY <1>2, <3>1, Least
    <2> QED
      BY <1>2, <2>1 DEF UpTo, IsBeginning
  <1> QED
    BY <1>1, <1>2

\* Trimming on the right leaves a beginning.
LEMMA TrimRightBegins ==
    ASSUME NEW E, NEW s \in Seq(E)
    PROVE  IsBeginning(TrimRight(s), s)
  <1> DEFINE S == {0} \cup {i \in DOMAIN s : s[i] # Blank}
  <1>1. S \in SUBSET (0 .. Len(s)) /\ S # {}
    OBVIOUS
  <1>2. Max(S) \in 0 .. Len(s)
    <2>1. Len(s) \in Nat
      OBVIOUS
    <2> HIDE DEF S
    <2>2. Max(S) \in S
      BY <1>1, <2>1, Greatest
    <2> QED
      BY <1>1, <2>2
  <1> QED
    BY <1>2 DEF TrimRight, IsBeginning

\* So does trimming on both sides what begins with no space.
LEMMA TrimSpaceBegins ==
    ASSUME NEW E, NEW s \in Seq(E), s # <<>> => s[1] \notin Spaces
    PROVE  IsBeginning(TrimSpace(s), s)
  <1>1. Solid(s) \in SUBSET (0 .. Len(s)) /\ Solid(s) \in SUBSET (1 .. Len(s))
    BY DEF Solid
  <1>2. CASE Solid(s) = {}
    BY <1>2 DEF TrimSpace, IsBeginning
  <1>3. CASE Solid(s) # {}
    <2>1. 1 \in Solid(s)
      BY <1>1, <1>3 DEF Solid
    <2>2. Min(Solid(s)) = 1
      BY <1>1, <2>1, Least
    <2>3. Max(Solid(s)) \in 1 .. Len(s)
      <3>1. Len(s) \in Nat
        OBVIOUS
      <3>2. Max(Solid(s)) \in Solid(s)
        BY <1>1, <1>3, <3>1, Greatest
      <3> QED
        BY <1>1, <3>2
    <2> QED
      BY <1>3, <2>2, <2>3 DEF TrimSpace, IsBeginning
  <1> QED
    BY <1>2, <1>3

\* A beginning of what begins with no space begins with none.
LEMMA BeginsAlike ==
    ASSUME NEW E, NEW s \in Seq(E), s # <<>>, s[1] \notin Spaces,
           NEW b, IsBeginning(b, s)
    PROVE  b \in Seq(E) /\ (b # <<>> => b[1] \notin Spaces)
  <1>1. PICK n \in 0 .. Len(s) : b = SubSeq(s, 1, n)
    BY DEF IsBeginning
  <1> QED
    BY <1>1, FirstOnes

\* Addresses and birth places: cut, then trimmed.
LEMMA CutAndTrimmed ==
    ASSUME NEW E, NEW s \in Seq(E), s # <<>>, s[1] \notin Spaces,
           NEW stops \in SUBSET (1 .. Len(s) + 1)
    PROVE  IsBeginning(TrimSpace(UpTo(s, stops)), s)
  <1> DEFINE b == UpTo(s, stops)
  <1>1. IsBeginning(b, s)
    BY UpToBegins
  <1> HIDE DEF b
  <1>2. b \in Seq(E) /\ (b # <<>> => b[1] \notin Spaces)
    BY <1>1, BeginsAlike
  <1>3. IsBeginning(TrimSpace(b), b)
    BY <1>2, TrimSpaceBegins
  <1>4. IsBeginning(TrimSpace(b), s)
    BY <1>1, <1>3, BeginningAgain
  <1> QED
    BY <1>4 DEF b

\* Issuing authorities: cut twice, then trimmed on the right.
LEMMA AuthorityBegins ==
    ASSUME NEW E, NEW s \in Seq(E), s # <<>>, s[1] \notin Spaces
    PROVE  IsBeginning(TrimAuthority(s), s)
  <1> DEFINE u == UpTo(s, {i \in DOMAIN s : s[i] \in Dates})
             codes == {i \in DOMAIN u : /\ i + 2 <= Len(u)
                                        /\ u[i] = Comma
                                        /\ u[i + 1] = Blank
                                        /\ u[i + 2] = UnitCode}
             c == UpTo(u, codes)
  <1>1. TrimAuthority(s) = TrimRight(c)
    BY DEF TrimAuthority
  <1>2. IsBeginning(u, s)
    <2>1. {i \in DOMAIN s : s[i] \in Dates} \in SUBSET (1 .. Len(s) + 1)
      OBVIOUS
    <2> QED
      BY <2>1, UpToBegins
  <1> HIDE DEF u
  <1>3. u \in Seq(E)
    BY <1>2, BeginsAlike
  <1>4. codes \in SUBSET (1 .. Len(u) + 1)
    BY <1>3
  <1> HIDE DEF codes
  <1>5. IsBeginning(c, u)
    BY <1>3, <1>4, UpToBegins
  <1> HIDE DEF c
  <1>6. IsBeginning(c, s)
    BY <1>2, <1>5, BeginningAgain
  <1>7. c \in Seq(E)
    BY <1>6, BeginsAlike
  <1>8. IsBeginning(TrimRight(c), c)
    BY <1>7, TrimRightBegins
  <1> QED
    BY <1>1, <1>6, <1>8, BeginningAgain

\* What is left of a match that begins with no space is its beginning.
LEMMA TrimmingBegins ==
    ASSUME NEW E, NEW s \in Seq(E), s # <<>>, s[1] \notin Spaces,
           NEW t \in Trimming
    PROVE  IsBeginning(Value(t, s), s)
  <1>1. IsBeginning(TrimAddress(s), s)
    <2> DEFINE stops == {i + 1 : i \in SentenceEnds(s)} \cup ListEnds(s)
                          \cup {i \in DOMAIN s : s[i] \in {Semicolon, Newline}}
    <2>1. stops \in SUBSET (1 .. Len(s) + 1)
      BY DEF SentenceEnds, ListEnds
    <2>2. TrimAddress(s) = TrimSpace(UpTo(s, stops))
      BY DEF TrimAddress
    <2> HIDE DEF stops
    <2> QED
      BY <2>1, <2>2, CutAndTrimmed
  <1>2. IsBeginning(TrimBirthPlace(s), s)
    <2>1. SentenceEnds(s) \in SUBSET (1 .. Len(s) + 1)
      BY DEF SentenceEnds
    <2> QED
      BY <2>1, CutAndTrimmed DEF TrimBirthPlace
  <1> QED
    BY <1>1, <1>2, AuthorityBegins, DetectorAssumption DEF Value, Trimming

\* What these detectors leave of a match is a prefix of it.
THEOREM TrimmedFirst ==
    ASSUME NEW E, NEW s \in Seq(E)
    PROVE  KeepsItsStart(s)
  <1> SUFFICES ASSUME s # <<>>, s[1] \notin Spaces, NEW t \in Trimming
               PROVE  IsPrefix(Value(t, s), s)
    BY DEF KeepsItsStart
  <1>1. IsBeginning(Value(t, s), s)
    BY TrimmingBegins
  <1> QED
    BY <1>1, FirstOnes DEF IsBeginning

-----------------------------------------------------------------------------
(* Segments *)

\* The part of s before its element k, and the part behind it.
Ahead(s, k) == SubSeq(s, 1, k - 1)

\* And what is behind it.
Rest(s, k) == SubSeq(s, k + 1, Len(s))

\* i is not cut off from p by a semicolon.
InSegment(s, p, i) ==
    /\ i \in 1 .. Len(s)
    /\ \A j \in 1 .. Len(s) : s[j] = Semicolon =>
            (j <= p => j < i) /\ (p < j => i < j)

\* The segment around pos: behind every semicolon up to pos, before every
\* one after it.
LEMMA AroundIs ==
    ASSUME NEW S, NEW s \in Seq(S), NEW p \in 0 .. Len(s), NEW i
    PROVE  i \in Around(s, p) <=> InSegment(s, p, i)
  <1> DEFINE L == {0} \cup {j \in 1 .. p : s[j] = Semicolon}
             R == {j \in p + 1 .. Len(s) : s[j] = Semicolon} \cup {Len(s) + 1}
  <1>1. Len(s) \in Nat /\ DOMAIN s = 1 .. Len(s) /\ p \in Nat
    OBVIOUS
  <1>2. Max(L) \in L /\ \A j \in L : j <= Max(L)
    <2>1. L \in SUBSET (0 .. p) /\ L # {}
      OBVIOUS
    <2> HIDE DEF L
    <2> QED BY <1>1, <2>1, Greatest
  <1>3. Min(R) \in R /\ \A j \in R : Min(R) <= j
    <2>1. R \in SUBSET Nat /\ R # {}
      BY <1>1
    <2> HIDE DEF R
    <2> QED BY <2>1, Least
  <1>4. PICK l, r : l = Max(L) /\ r = Min(R)
    OBVIOUS
  <1>5. i \in Around(s, p) <=> i \in l + 1 .. r - 1
    BY <1>4 DEF Around
  <1>6. l \in L /\ r \in R /\ (\A j \in L : j <= l) /\ (\A j \in R : r <= j)
    <2> HIDE DEF L, R
    <2> QED BY <1>2, <1>3, <1>4
  <1>7. l \in Nat /\ r \in Nat /\ l <= p /\ r <= Len(s) + 1
    BY <1>1, <1>6
  <1>8. ASSUME i \in l + 1 .. r - 1
        PROVE  InSegment(s, p, i)
    BY <1>1, <1>6, <1>7, <1>8 DEF InSegment
  <1>9. ASSUME InSegment(s, p, i)
        PROVE  i \in l + 1 .. r - 1
    <2>1. l < i
      BY <1>1, <1>6, <1>9 DEF InSegment
    <2>2. i < r
      BY <1>1, <1>6, <1>9 DEF InSegment
    <2> QED BY <1>1, <1>7, <1>9, <2>1, <2>2 DEF InSegment
  <1> QED BY <1>5, <1>8, <1>9

\* The filter finds every bank in the segment of a match: the semicolons
\* around its first element are looked for on both sides of it.
LEMMA NoBank ==
    ASSUME NEW S, NEW s \in Seq(S)
    PROVE  NoBankReturned(s)
  <1> SUFFICES ASSUME NEW t \in Filtered, NEW x \in SpansOf(s),
                      s[x[1] + 1] # Semicolon, Returned(t, s, x),
                      NEW i \in DOMAIN s,
                      s[i] \in BankWords, SameSegment(s, i, x[1] + 1)
               PROVE  FALSE
    BY DEF NoBankReturned
  <1>1. PICK p \in Nat : p = x[1] /\ p < Len(s)
    BY DEF SpansOf
  <1>2. \A j \in DOMAIN s : s[j] = Semicolon => j \notin (i .. p + 1) \cup (p + 1 .. i)
    BY <1>1 DEF SameSegment
  <1>3. InSegment(s, p, i)
    BY <1>1, <1>2 DEF InSegment
  <1>4. i \in Around(s, p)
    BY <1>1, <1>3, AroundIs
  <1> QED BY <1>1, <1>4 DEF Returned, IsBankSegment

\* The part of a text before a semicolon, and the part behind it.
LEMMA AheadIs ==
    ASSUME NEW s \in Seq(Words \cup Signs), NEW k \in 1 .. Len(s)
    PROVE  /\ Ahead(s, k) \in Seq(Words \cup Signs) /\ Len(Ahead(s, k)) = k - 1
           /\ \A i \in 1 .. k - 1 : Ahead(s, k)[i] = s[i]
  <1>1. k \in Nat /\ Len(s) \in Nat /\ 1 <= k /\ k <= Len(s)
    OBVIOUS
  <1> QED BY <1>1, SubSeqProperties DEF Ahead

\* The same of what is behind it.
LEMMA RestIs ==
    ASSUME NEW s \in Seq(Words \cup Signs), NEW k \in 1 .. Len(s)
    PROVE  /\ Rest(s, k) \in Seq(Words \cup Signs) /\ Len(Rest(s, k)) = Len(s) - k
           /\ \A i \in 1 .. Len(s) - k : Rest(s, k)[i] = s[i + k]
           /\ \A j \in k + 1 .. Len(s) : Rest(s, k)[j - k] = s[j]
  <1>1. k \in Nat /\ Len(s) \in Nat /\ 1 <= k /\ k <= Len(s)
    OBVIOUS
  <1>2. /\ Rest(s, k) \in Seq(Words \cup Signs) /\ Len(Rest(s, k)) = Len(s) - k
        /\ \A i \in 1 .. Len(s) - k : Rest(s, k)[i] = s[i + k]
    BY <1>1, SubSeqProperties DEF Rest
  <1>3. ASSUME NEW j \in k + 1 .. Len(s) PROVE Rest(s, k)[j - k] = s[j]
    <2>1. j - k \in 1 .. Len(s) - k /\ (j - k) + k = j
      BY <1>1
    <2> QED BY <1>2, <2>1
  <1> QED BY <1>2, <1>3

\* What a detector makes of a match does not depend on where it lies.
LEMMA SameMatch ==
    ASSUME NEW s \in Seq(Words \cup Signs), NEW k \in 1 .. Len(s), NEW a \in Nat, NEW b \in Nat, a < b
    PROVE  /\ b < k => Slice(Ahead(s, k), a, b) = Slice(s, a, b)
           /\ k <= a /\ b <= Len(s) =>
                Slice(Rest(s, k), a - k, b - k) = Slice(s, a, b)
  BY DEF Slice, Ahead, Rest

\* A bank is found in the part before a semicolon when it is in the text.
LEMMA BankBefore ==
    ASSUME NEW s \in Seq(Words \cup Signs), NEW k \in 1 .. Len(s), s[k] = Semicolon,
           NEW p \in Nat, p < k
    PROVE  IsBankSegment(s, p) <=> IsBankSegment(Ahead(s, k), p)
  <1> SUFFICES ASSUME NEW before, before = Ahead(s, k)
               PROVE  IsBankSegment(s, p) <=> IsBankSegment(before, p)
    OBVIOUS
  <1>1. /\ before \in Seq(Words \cup Signs) /\ Len(before) = k - 1
        /\ \A i \in 1 .. k - 1 : before[i] = s[i]
    BY AheadIs
  <1>2. k \in Nat /\ Len(s) \in Nat /\ 1 <= k /\ k <= Len(s)
    OBVIOUS
  <1>3. ASSUME NEW i
        PROVE  /\ InSegment(s, p, i) <=> InSegment(before, p, i)
               /\ InSegment(s, p, i) => before[i] = s[i]
    <2>1. ASSUME InSegment(s, p, i) PROVE InSegment(before, p, i) /\ before[i] = s[i]
      <3>1. i < k
        BY <1>2, <2>1 DEF InSegment
      <3> QED BY <1>1, <1>2, <2>1, <3>1 DEF InSegment
    <2>2. ASSUME InSegment(before, p, i) PROVE InSegment(s, p, i)
      BY <1>1, <1>2, <2>2 DEF InSegment
    <2> QED BY <2>1, <2>2
  <1>4. p \in 0 .. Len(s) /\ p \in 0 .. Len(before)
    BY <1>1, <1>2
  <1>5. \A i : i \in Around(s, p) <=> InSegment(s, p, i)
    BY <1>4, AroundIs
  <1>6. \A i : i \in Around(before, p) <=> InSegment(before, p, i)
    BY <1>1, <1>4, AroundIs
  <1> QED BY <1>3, <1>5, <1>6 DEF IsBankSegment

\* And in the part behind one.
LEMMA BankBehind ==
    ASSUME NEW s \in Seq(Words \cup Signs), NEW k \in 1 .. Len(s), s[k] = Semicolon,
           NEW p \in Nat, k <= p, p < Len(s)
    PROVE  IsBankSegment(s, p) <=> IsBankSegment(Rest(s, k), p - k)
  <1> SUFFICES ASSUME NEW behind, behind = Rest(s, k)
               PROVE  IsBankSegment(s, p) <=> IsBankSegment(behind, p - k)
    OBVIOUS
  <1>1. /\ behind \in Seq(Words \cup Signs) /\ Len(behind) = Len(s) - k
        /\ \A i \in 1 .. Len(s) - k : behind[i] = s[i + k]
        /\ \A j \in k + 1 .. Len(s) : behind[j - k] = s[j]
    BY RestIs
  <1>2. k \in Nat /\ Len(s) \in Nat /\ 1 <= k /\ k <= Len(s)
    OBVIOUS
  <1>3. PICK q \in Nat : q = p - k
    BY <1>2
  <1>4. ASSUME NEW i, InSegment(s, p, i)
        PROVE  InSegment(behind, q, i - k) /\ behind[i - k] = s[i]
    <2>1. k < i /\ i \in 1 .. Len(s)
      BY <1>2, <1>4 DEF InSegment
    <2>2. i - k \in 1 .. Len(behind) /\ behind[i - k] = s[i]
      <3>1. i \in k + 1 .. Len(s)
        BY <1>2, <2>1
      <3>2. behind[i - k] = s[i]
        BY <1>1, <3>1
      <3>3. i - k \in 1 .. Len(s) - k
        BY <1>2, <2>1
      <3> QED BY <1>1, <3>2, <3>3
    <2>3. ASSUME NEW j \in 1 .. Len(behind), behind[j] = Semicolon
          PROVE  (j <= q => j < i - k) /\ (q < j => i - k < j)
      <3>1. PICK m \in 1 .. Len(s) : m = j + k
        BY <1>1, <1>2
      <3>2. s[m] = Semicolon
        BY <1>1, <2>3, <3>1
      <3>3. (m <= p => m < i) /\ (p < m => i < m)
        BY <1>4, <3>2 DEF InSegment
      <3> QED BY <1>2, <1>3, <2>1, <3>1, <3>3
    <2> QED BY <2>2, <2>3 DEF InSegment
  <1>5. ASSUME NEW i, InSegment(behind, q, i)
        PROVE  InSegment(s, p, i + k) /\ s[i + k] = behind[i]
    <2>1. i \in 1 .. Len(s) - k /\ i \in Nat
      BY <1>1, <1>2, <1>5 DEF InSegment
    <2>2. i + k \in 1 .. Len(s) /\ s[i + k] = behind[i]
      <3>1. i + k \in 1 .. Len(s)
        BY <1>2, <2>1
      <3> QED BY <1>1, <2>1, <3>1
    <2>3. ASSUME NEW j \in 1 .. Len(s), s[j] = Semicolon
          PROVE  (j <= p => j < i + k) /\ (p < j => i + k < j)
      <3>1. CASE j <= k
        BY <1>2, <2>1, <3>1
      <3>2. CASE j > k
        <4>1. PICK m \in 1 .. Len(behind) : m = j - k
          BY <1>1, <1>2, <3>2
        <4>2. behind[m] = Semicolon
          BY <1>1, <1>2, <2>3, <3>2, <4>1
        <4>3. (m <= q => m < i) /\ (q < m => i < m)
          BY <1>5, <4>2 DEF InSegment
        <4> QED BY <1>2, <1>3, <2>1, <4>1, <4>3
      <3> QED BY <1>2, <3>1, <3>2
    <2> QED BY <2>2, <2>3 DEF InSegment
  <1>6. p \in 0 .. Len(s) /\ q \in 0 .. Len(behind)
    BY <1>1, <1>2, <1>3
  <1>7. \A i : i \in Around(s, p) <=> InSegment(s, p, i)
    BY <1>6, AroundIs
  <1>8. \A i : i \in Around(behind, q) <=> InSegment(behind, q, i)
    BY <1>1, <1>6, AroundIs
  <1>9. IsBankSegment(s, p) <=> IsBankSegment(behind, q)
    BY <1>4, <1>5, <1>7, <1>8 DEF IsBankSegment
  <1> QED BY <1>3, <1>9

\* A city after a comma is found before a semicolon or not at all.
LEMMA CityBefore ==
    ASSUME NEW s \in Seq(Words \cup Signs), NEW k \in 1 .. Len(s), s[k] = Semicolon,
           NEW p \in Nat, p < k
    PROVE  CityFollows(s, p) <=> CityFollows(Ahead(s, k), p)
  <1> SUFFICES ASSUME NEW before, before = Ahead(s, k)
               PROVE  CityFollows(s, p) <=> CityFollows(before, p)
    OBVIOUS
  <1>1. /\ Len(before) = k - 1
        /\ \A i \in 1 .. k - 1 : before[i] = s[i]
    BY AheadIs
  <1>2. k \in Nat /\ Len(s) \in Nat /\ 1 <= k /\ k <= Len(s)
    OBVIOUS
  <1>3. /\ Semicolon \notin Spaces /\ Semicolon # Comma /\ Semicolon # Dot
        /\ Semicolon \notin Capital /\ Semicolon # CityMark
    BY DetectorAssumption, FilterAssumption DEF Signs, Words
  <1>4. ASSUME CityFollows(s, p) PROVE CityFollows(before, p)
    <2>1. PICK n \in p + 3 .. Len(s) :
             /\ s[p + 1] = Comma
             /\ \A i \in p + 2 .. n - 1 : s[i] \in Spaces
             /\ \/ s[n] \in Capital
                \/ s[n] = CityMark /\ n < Len(s) /\ s[n + 1] = Dot
      BY <1>4 DEF CityFollows
    <2>2. k # p + 1 /\ k # n /\ k \notin p + 2 .. n - 1
      BY <1>3, <2>1
    <2>3. n < k
      BY <1>2, <2>2
    <2>4. n \in p + 3 .. Len(before) /\ before[n] = s[n]
      BY <1>1, <1>2, <2>3
    <2>5. before[p + 1] = Comma /\ \A i \in p + 2 .. n - 1 : before[i] \in Spaces
      BY <1>1, <1>2, <2>1, <2>3
    <2>6. CASE s[n] \in Capital
      BY <2>4, <2>5, <2>6 DEF CityFollows
    <2>7. CASE s[n] = CityMark /\ n < Len(s) /\ s[n + 1] = Dot
      <3>1. k # n + 1
        BY <1>3, <2>7
      <3>2. n < Len(before) /\ before[n + 1] = Dot
        BY <1>1, <1>2, <2>3, <2>7, <3>1
      <3> QED BY <2>4, <2>5, <2>7, <3>2 DEF CityFollows
    <2> QED BY <2>1, <2>6, <2>7
  <1>5. ASSUME CityFollows(before, p) PROVE CityFollows(s, p)
    <2>1. PICK n \in p + 3 .. Len(before) :
             /\ before[p + 1] = Comma
             /\ \A i \in p + 2 .. n - 1 : before[i] \in Spaces
             /\ \/ before[n] \in Capital
                \/ before[n] = CityMark /\ n < Len(before) /\ before[n + 1] = Dot
      BY <1>5 DEF CityFollows
    <2>2. n \in p + 3 .. Len(s) /\ s[n] = before[n] /\ s[p + 1] = Comma
      BY <1>1, <1>2, <2>1
    <2>3. \A i \in p + 2 .. n - 1 : s[i] \in Spaces
      BY <1>1, <1>2, <2>1
    <2>4. n < Len(before) => n < Len(s) /\ s[n + 1] = before[n + 1]
      BY <1>1, <1>2, <2>1
    <2> QED BY <2>1, <2>2, <2>3, <2>4 DEF CityFollows
  <1> QED BY <1>4, <1>5

\* And behind it.
LEMMA CityBehind ==
    ASSUME NEW s \in Seq(Words \cup Signs), NEW k \in 1 .. Len(s),
           NEW p \in Nat, k <= p, p <= Len(s)
    PROVE  CityFollows(s, p) <=> CityFollows(Rest(s, k), p - k)
  <1> SUFFICES ASSUME NEW behind, behind = Rest(s, k)
               PROVE  CityFollows(s, p) <=> CityFollows(behind, p - k)
    OBVIOUS
  <1>1. /\ Len(behind) = Len(s) - k
        /\ \A i \in 1 .. Len(s) - k : behind[i] = s[i + k]
        /\ \A j \in k + 1 .. Len(s) : behind[j - k] = s[j]
    BY RestIs
  <1>2. k \in Nat /\ Len(s) \in Nat /\ 1 <= k /\ k <= Len(s)
    OBVIOUS
  <1>3. PICK q \in Nat : q = p - k
    BY <1>2
  <1>4. ASSUME CityFollows(s, p) PROVE CityFollows(behind, q)
    <2>1. PICK n \in p + 3 .. Len(s) :
             /\ s[p + 1] = Comma
             /\ \A i \in p + 2 .. n - 1 : s[i] \in Spaces
             /\ \/ s[n] \in Capital
                \/ s[n] = CityMark /\ n < Len(s) /\ s[n + 1] = Dot
      BY <1>4 DEF CityFollows
    <2>2. PICK m \in q + 3 .. Len(behind) : m = n - k /\ m + k = n
      BY <1>1, <1>2, <1>3
    <2>3. behind[m] = s[n]
      BY <1>1, <1>2, <1>3, <2>2
    <2>4. behind[q + 1] = Comma
      <3>1. q + 1 \in 1 .. Len(s) - k /\ (q + 1) + k = p + 1
        BY <1>2, <1>3, <2>1
      <3> QED BY <1>1, <2>1, <3>1
    <2>5. ASSUME NEW i \in q + 2 .. m - 1 PROVE behind[i] \in Spaces
      <3>1. m <= Len(s) - k /\ n \in Int /\ m \in Int /\ i \in Int
        BY <1>1, <1>2, <1>3
      <3>2. i \in 1 .. Len(s) - k /\ i + k \in p + 2 .. n - 1
        BY <1>2, <1>3, <2>2, <3>1
      <3> QED BY <1>1, <2>1, <3>2
    <2>6. n < Len(s) => m < Len(behind) /\ behind[m + 1] = s[n + 1]
      <3> SUFFICES ASSUME n < Len(s) PROVE m < Len(behind) /\ behind[m + 1] = s[n + 1]
        OBVIOUS
      <3>1. m + 1 \in 1 .. Len(s) - k /\ (m + 1) + k = n + 1 /\ m < Len(behind)
        BY <1>1, <1>2, <1>3, <2>2
      <3> QED BY <1>1, <3>1
    <2> QED BY <2>1, <2>3, <2>4, <2>5, <2>6 DEF CityFollows
  <1>5. ASSUME CityFollows(behind, q) PROVE CityFollows(s, p)
    <2>1. PICK m \in q + 3 .. Len(behind) :
             /\ behind[q + 1] = Comma
             /\ \A i \in q + 2 .. m - 1 : behind[i] \in Spaces
             /\ \/ behind[m] \in Capital
                \/ behind[m] = CityMark /\ m < Len(behind) /\ behind[m + 1] = Dot
      BY <1>5 DEF CityFollows
    <2>2. PICK n \in p + 3 .. Len(s) : n = m + k
      BY <1>1, <1>2, <1>3
    <2>3. s[n] = behind[m]
      BY <1>1, <1>2, <1>3, <2>2
    <2>4. s[p + 1] = Comma
      <3>1. q + 1 \in 1 .. Len(s) - k /\ (q + 1) + k = p + 1
        BY <1>1, <1>2, <1>3, <2>1
      <3> QED BY <1>1, <2>1, <3>1
    <2>5. ASSUME NEW i \in p + 2 .. n - 1 PROVE s[i] \in Spaces
      <3>1. m <= Len(s) - k /\ n \in Int /\ m \in Int /\ i \in Int
        BY <1>1, <1>2, <1>3
      <3>2. i \in k + 1 .. Len(s) /\ i - k \in q + 2 .. m - 1
        BY <1>2, <1>3, <2>2, <3>1
      <3> QED BY <1>1, <2>1, <3>2
    <2>6. m < Len(behind) => n < Len(s) /\ s[n + 1] = behind[m + 1]
      <3> SUFFICES ASSUME m < Len(behind) PROVE n < Len(s) /\ s[n + 1] = behind[m + 1]
        OBVIOUS
      <3>1. m + 1 \in 1 .. Len(s) - k /\ (m + 1) + k = n + 1 /\ n < Len(s)
        BY <1>1, <1>2, <1>3, <2>2
      <3> QED BY <1>1, <3>1
    <2> QED BY <2>1, <2>2, <2>3, <2>4, <2>5, <2>6 DEF CityFollows
  <1> QED BY <1>3, <1>4, <1>5

\* The labels and numbers before a match are the same in the part it lies in.
LEMMA SameBefore ==
    ASSUME NEW s \in Seq(Words \cup Signs), NEW k \in 1 .. Len(s), NEW p \in Nat, p < k
    PROVE  /\ BlockedByDocLabel(s, p) <=> BlockedByDocLabel(Ahead(s, k), p)
           /\ ContinuesNumber(s, p) <=> ContinuesNumber(Ahead(s, k), p)
           /\ HasClient(Ahead(s, k)) => HasClient(s)
  <1> SUFFICES ASSUME NEW before, before = Ahead(s, k)
               PROVE  /\ BlockedByDocLabel(s, p) <=> BlockedByDocLabel(before, p)
                      /\ ContinuesNumber(s, p) <=> ContinuesNumber(before, p)
                      /\ HasClient(before) => HasClient(s)
    OBVIOUS
  <1>1. /\ before \in Seq(Words \cup Signs) /\ Len(before) = k - 1
        /\ \A i \in 1 .. k - 1 : before[i] = s[i]
    BY AheadIs
  <1>2. k \in Nat /\ Len(s) \in Nat /\ 1 <= k /\ k <= Len(s)
        /\ DOMAIN s = 1 .. Len(s) /\ DOMAIN before = 1 .. k - 1
    BY <1>1
  <1>3. BlockedByDocLabel(s, p) <=> BlockedByDocLabel(before, p)
    <2>1. PICK words : words = {i \in DOMAIN s : /\ i <= p /\ i > p - Reach
                                                  /\ s[i] \in Words}
      OBVIOUS
    <2>2. words = {i \in DOMAIN before : /\ i <= p /\ i > p - Reach
                                         /\ before[i] \in Words}
      BY <1>1, <1>2, <2>1
    <2>3. \A i \in words : before[i] = s[i]
      BY <1>1, <1>2, <2>1
    <2>4. BlockedByDocLabel(s, p) <=>
            \E i \in words : /\ s[i] \in DocLabels
                            /\ Cardinality({j \in words : j > i}) <= 1
      BY <2>1 DEF BlockedByDocLabel
    <2>5. BlockedByDocLabel(before, p) <=>
            \E i \in words : /\ before[i] \in DocLabels
                            /\ Cardinality({j \in words : j > i}) <= 1
      BY <2>2 DEF BlockedByDocLabel
    <2> QED BY <2>3, <2>4, <2>5
  <1>4. ContinuesNumber(s, p) <=> ContinuesNumber(before, p)
    BY <1>1, <1>2 DEF ContinuesNumber
  <1>5. HasClient(before) => HasClient(s)
    BY <1>1, <1>2 DEF HasClient
  <1> QED BY <1>3, <1>4, <1>5

\* Matches are judged where they stand: what is in another segment decides
\* nothing, except that a client anywhere makes a public name a private one.
LEMMA SegmentsApart ==
    ASSUME NEW s \in Seq(Words \cup Signs)
    PROVE  SegmentDecides(s)
  <1> SUFFICES ASSUME NEW k \in 1 .. Len(s), s[k] = Semicolon, NEW x \in SpansOf(s)
               PROVE  /\ x[2] < k =>
                           /\ \A t \in Filtered \cup Others :
                                Returned(t, s, x) <=> Returned(t, Ahead(s, k), x)
                           /\ \A t \in {FullName, NamePair} :
                                Returned(t, Ahead(s, k), x) => Returned(t, s, x)
                      /\ x[1] >= k =>
                           \A t \in Filtered :
                               Returned(t, s, x)
                                 <=> Returned(t, Rest(s, k), <<x[1] - k, x[2] - k>>)
    <2>1. DOMAIN s = 1 .. Len(s)
      OBVIOUS
    <2> QED BY <2>1, Zenon DEF SegmentDecides, Ahead, Rest
  <1>1. PICK a \in Nat, b \in Nat : a = x[1] /\ b = x[2] /\ a < b /\ b <= Len(s)
    BY DEF SpansOf
  <1>2. k \in Nat /\ Len(s) \in Nat /\ 1 <= k /\ k <= Len(s)
    OBVIOUS
  <1>3. ASSUME b < k
        PROVE  /\ \A t \in Filtered \cup Others :
                     Returned(t, s, x) <=> Returned(t, Ahead(s, k), x)
               /\ \A t \in {FullName, NamePair} :
                     Returned(t, Ahead(s, k), x) => Returned(t, s, x)
    <2>1. a < k /\ Slice(Ahead(s, k), a, b) = Slice(s, a, b)
      BY <1>1, <1>2, <1>3, SameMatch
    <2>2. CityFollows(s, b) <=> CityFollows(Ahead(s, k), b)
      BY <1>3, CityBefore
    <2>3. IsBankSegment(s, a) <=> IsBankSegment(Ahead(s, k), a)
      BY <2>1, BankBefore
    <2>4. /\ BlockedByDocLabel(s, a) <=> BlockedByDocLabel(Ahead(s, k), a)
          /\ ContinuesNumber(s, a) <=> ContinuesNumber(Ahead(s, k), a)
          /\ HasClient(Ahead(s, k)) => HasClient(s)
      BY <2>1, SameBefore
    <2>5. \A t \in Filtered \cup Others : t \notin {FullName, NamePair}
      BY FilterAssumption
    <2>6. \A n : PrivateName(Ahead(s, k), n) => PrivateName(s, n)
      BY <2>4 DEF PrivateName
    <2> QED BY <1>1, <2>1, <2>2, <2>3, <2>4, <2>5, <2>6 DEF Returned
  <1>4. ASSUME a >= k, NEW t \in Filtered
        PROVE  Returned(t, s, x) <=> Returned(t, Rest(s, k), <<a - k, b - k>>)
    <2>1. Slice(Rest(s, k), a - k, b - k) = Slice(s, a, b)
      BY <1>1, <1>2, <1>4, SameMatch
    <2>2. CityFollows(s, b) <=> CityFollows(Rest(s, k), b - k)
      BY <1>1, <1>2, <1>4, CityBehind
    <2>3. IsBankSegment(s, a) <=> IsBankSegment(Rest(s, k), a - k)
      BY <1>1, <1>2, <1>4, BankBehind
    <2>4. ContinuesNumber(s, a) <=> ContinuesNumber(Rest(s, k), a - k)
      <3>1. CASE a = k
        <4>1. Semicolon \notin Numbers \cup {Dash}
          BY DetectorAssumption DEF Signs, Words
        <4> QED BY <1>2, <3>1, <4>1 DEF ContinuesNumber
      <3>2. CASE a > k
        <4>1. a \in k + 1 .. Len(s) /\ a > 0 /\ a - k > 0
          BY <1>1, <1>2, <3>2
        <4>2. Rest(s, k)[a - k] = s[a]
          BY <4>1, RestIs
        <4> QED BY <4>1, <4>2 DEF ContinuesNumber
      <3> QED BY <1>2, <1>4, <3>1, <3>2
    <2>5. t \notin {FullName, NamePair, PassportNumber}
      BY FilterAssumption
    <2> QED BY <1>1, <2>1, <2>2, <2>3, <2>4, <2>5 DEF Returned
  <1> QED BY <1>1, <1>3, <1>4
=============================================================================
