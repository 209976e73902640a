--------------------------- MODULE MaskingProofs -----------------------------
(***************************************************************************)
(* What the selection of entities guarantees, and what becomes of the text, *)
(* for every text, every set of matches in any order, and any confidences. *)
(*                                                                         *)
(* Being selected before a pending entity means being no worse than it:    *)
(* that is what a dropped entity inherits from the one it overlaps, and    *)
(* why the invariant relates kept to pending.                              *)
(*                                                                         *)
(* The mask is built from its end.  The invariant of editing says what the *)
(* text is made of in between: its beginning as it was, then the mask of the *)
(* rest.  What the rest is rests on lemmas about FlattenSeq, which puts the *)
(* pieces of the mask together and replaces tokens: its recursive function *)
(* is shown to exist for every sequence by the least length without one.   *)
(***************************************************************************)
EXTENDS Masking, DetectorsProofs

(* The selection *)

NoWorse ==
    \A m \in kept, n \in pending : ~Before(entities[n], entities[m])

NotYet ==
    /\ phase = "detect" => pending = {} /\ kept = {}
    /\ phase \in {"edit", "restore", "done"} => pending = {}

IInv == TypeOK /\ NotYet /\ NoWorse /\ KeptApart /\ DroppedForBetter

\* To share a character is symmetric.
LEMMA OverlapsBothWays ==
    ASSUME NEW x, NEW y
    PROVE  Overlaps(x, y) <=> Overlaps(y, x)
  BY DEF Overlaps

\* A set of indices of a sequence is finite.
LEMMA IndicesFinite ==
    ASSUME NEW S, NEW s \in Seq(S), NEW K \in SUBSET DOMAIN s
    PROVE  IsFiniteSet(K) /\ Cardinality(K) \in Nat
  <1>1. DOMAIN s = 1 .. Len(s) /\ Len(s) \in Nat
    OBVIOUS
  <1>2. IsFiniteSet(1 .. Len(s))
    BY <1>1, FS_Interval
  <1> QED
    BY <1>1, <1>2, FS_Subset, FS_CardinalityType

\* The selection starts with everything pending and nothing selected.
LEMMA Initially == Init => IInv
  <1> SUFFICES ASSUME Init PROVE IInv
    OBVIOUS
  <1>1. matches \in Seq(MatchesIn(text))
    <2> DEFINE M == MatchesIn(text)
    <2>1. MaxMatches[text] \in Nat
      BY MaskingAssumption DEF Init
    <2>2. PICK n \in 0 .. MaxMatches[text] : matches \in [1 .. n -> M]
      BY DEF Init
    <2>3. n \in Nat
      BY <2>1
    <2> HIDE DEF M
    <2>4. matches \in Seq(M)
      BY <2>2, <2>3
    <2> QED
      BY <2>4 DEF M
  <1>2. TypeOK
    <2>1. Cardinality(kept) = 0
      BY FS_EmptySet DEF Init
    <2> QED
      BY <1>1, <2>1 DEF Init, TypeOK
  <1> QED
    BY <1>2 DEF Init, IInv, NotYet, NoWorse, KeptApart, DroppedForBetter

\* Looking at a match touches neither the selection nor the text.
LEMMA DetectKeeps == IInv /\ Detect => IInv'
  <1> SUFFICES ASSUME IInv, Detect PROVE IInv'
    OBVIOUS
  <1> DEFINE e == matches[pos + 1]
  <1>1. e \in MatchesIn(text) /\ pos' \in 0 .. Len(matches)
    BY DEF IInv, TypeOK, Detect
  <1>2. kept = {} /\ pending = {} /\ phase = "detect"
    BY DEF IInv, NotYet, Detect
  <1>3. entities' \in Seq({x \in MatchesIn(text) : x.type \in Allowed})
    <2> DEFINE A == {x \in MatchesIn(text) : x.type \in Allowed}
    <2>1. entities \in Seq(A)
      BY DEF IInv, TypeOK
    <2>2. CASE Permitted(e)
      <3>1. e \in A
        BY <1>1, <2>2 DEF Permitted
      <3>2. entities' = Append(entities, e)
        BY <2>2 DEF Detect
      <3> HIDE DEF A, e
      <3>3. entities' \in Seq(A)
        BY <2>1, <3>1, <3>2
      <3> QED
        BY <3>3 DEF A
    <2>3. CASE ~Permitted(e)
      BY <2>1, <2>3 DEF Detect
    <2> QED
      BY <2>2, <2>3
  <1>5. UNCHANGED <<phase, text, matches, pending, kept, masked, left, tokens, todo>>
    BY DEF Detect, inputVars, selectVars, editVars, unmaskVars
  <1>6. TypeOK'
    BY <1>1, <1>2, <1>3, <1>5 DEF IInv, TypeOK
  <1> QED
    BY <1>2, <1>5, <1>6 DEF IInv, NotYet, NoWorse, KeptApart, DroppedForBetter

\* Selecting starts with nothing kept.
LEMMA StartSelectingKeeps == IInv /\ StartSelecting => IInv'
  <1> SUFFICES ASSUME IInv, StartSelecting PROVE IInv'
    OBVIOUS
  <1>1. kept' = {} /\ pending' = DOMAIN entities' /\ phase' = "select"
    BY DEF IInv, NotYet, StartSelecting, inputVars, detectVars
  <1>2. TypeOK'
    BY DEF IInv, TypeOK, StartSelecting, inputVars, detectVars, editVars, unmaskVars
  <1> QED
    BY <1>1, <1>2 DEF IInv, NotYet, NoWorse, KeptApart, DroppedForBetter

\* A selected entity overlaps none selected before, and nothing that is
\* still pending comes before it.
LEMMA KeepKeeps ==
    ASSUME IInv, NEW n \in pending, Keep(n)
    PROVE  IInv'
  <1>1. /\ kept' = kept \cup {n} /\ pending' = pending \ {n}
        /\ UNCHANGED <<phase, text, matches, pos, entities, left, tokens, todo>>
    BY DEF Keep, inputVars, detectVars, editVars, unmaskVars
  <1>2. phase = "select" /\ n \in DOMAIN entities
    BY DEF IInv, TypeOK, Keep
  <1>3. TypeOK'
    <2>1. Cardinality(kept) \in Nat
      BY IndicesFinite DEF IInv, TypeOK
    <2>2. kept' \subseteq DOMAIN entities
      BY <1>1, <1>2 DEF IInv, TypeOK
    <2>3. IsFiniteSet(kept') /\ Cardinality(kept') \in Nat
      BY <2>2, IndicesFinite DEF IInv, TypeOK
    <2>4. Cardinality(kept) <= Cardinality(kept')
      BY <1>1, <2>3, FS_Subset
    <2> QED
      BY <1>1, <2>1, <2>2, <2>3, <2>4 DEF IInv, TypeOK
  <1>4. NoWorse'
    BY <1>1 DEF IInv, NoWorse, Keep, IsNext
  <1>5. KeptApart'
    <2> SUFFICES ASSUME NEW m1 \in kept', NEW m2 \in kept', m1 # m2
                 PROVE  ~Overlaps(entities[m1], entities[m2])
      BY <1>1 DEF KeptApart
    <2>1. \A m \in kept : ~Overlaps(entities[n], entities[m])
      BY DEF Keep, OverlapsAny
    <2>2. \A m \in kept : ~Overlaps(entities[m], entities[n])
      BY <2>1, OverlapsBothWays
    <2> QED
      BY <1>1, <2>1, <2>2 DEF IInv, KeptApart
  <1>6. DroppedForBetter'
    BY <1>1, <1>2 DEF IInv, DroppedForBetter
  <1> QED
    BY <1>1, <1>2, <1>3, <1>4, <1>5, <1>6 DEF IInv, NotYet

\* A dropped entity overlaps one selected while it was pending.
LEMMA DropKeeps ==
    ASSUME IInv, NEW n \in pending, Drop(n)
    PROVE  IInv'
  <1>1. /\ pending' = pending \ {n}
        /\ UNCHANGED <<phase, text, matches, pos, entities, kept, left,
                       tokens, todo>>
    BY DEF Drop, inputVars, detectVars, editVars, unmaskVars
  <1>2. phase = "select"
    BY DEF Drop
  <1>3. TypeOK'
    BY <1>1 DEF IInv, TypeOK
  <1>4. PICK m \in kept : Overlaps(entities[n], entities[m])
    BY DEF Drop, OverlapsAny
  <1>5. ~Before(entities[n], entities[m])
    BY <1>4 DEF IInv, NoWorse
  <1>6. DroppedForBetter'
    BY <1>1, <1>2, <1>4, <1>5 DEF IInv, DroppedForBetter
  <1> QED
    BY <1>1, <1>2, <1>3, <1>6 DEF IInv, NotYet, NoWorse, KeptApart

\* Editing starts where selecting ends.
LEMMA StartEditingKeeps == IInv /\ StartEditing => IInv'
  <1> SUFFICES ASSUME IInv, StartEditing PROVE IInv'
    OBVIOUS
  <1>1. /\ UNCHANGED <<text, matches, pos, entities, pending, kept, tokens, todo>>
        /\ pending = {} /\ phase = "select" /\ phase' = "edit"
        /\ left' = Cardinality(kept)
    BY DEF StartEditing, inputVars, detectVars, selectVars, unmaskVars
  <1>2. Cardinality(kept) \in Nat
    BY IndicesFinite DEF IInv, TypeOK
  <1>3. TypeOK'
    BY <1>1, <1>2 DEF IInv, TypeOK
  <1> QED
    BY <1>1, <1>3 DEF IInv, NotYet, NoWorse, KeptApart, DroppedForBetter

\* Neither editing nor restoring goes back on the selection.
LEMMA LaterKeeps ==
    ASSUME IInv, Edit \/ StartRestoring \/ (\E t \in todo : Replace(t)) \/ Finish
    PROVE  IInv'
  <1>1. /\ UNCHANGED <<text, matches, pos, entities, pending, kept>>
        /\ phase \in {"edit", "restore"} /\ phase' \in {"edit", "restore", "done"}
    BY DEF Edit, StartRestoring, Replace, Finish, inputVars, detectVars, selectVars
  <1>2. left' \in 0 .. Cardinality(kept)
    <2>1. Cardinality(kept) \in Nat
      BY IndicesFinite DEF IInv, TypeOK
    <2> QED
      BY <2>1 DEF IInv, TypeOK, Edit, StartRestoring, Replace, Finish, editVars
  <1>3. todo' \subseteq DOMAIN tokens'
    <2>1. CASE Edit
      <3>1. todo' = todo
        BY <2>1 DEF Edit, unmaskVars
      <3>2. DOMAIN tokens \subseteq DOMAIN tokens'
        BY <2>1 DEF Edit
      <3> QED
        BY <3>1, <3>2 DEF IInv, TypeOK
    <2>2. CASE StartRestoring
      BY <2>2 DEF StartRestoring, editVars
    <2>3. CASE \E t \in todo : Replace(t)
      BY <2>3 DEF Replace, editVars, IInv, TypeOK
    <2>4. CASE Finish
      BY <2>4 DEF Finish, editVars, unmaskVars, IInv, TypeOK
    <2> QED
      BY <2>1, <2>2, <2>3, <2>4
  <1>4. TypeOK'
    BY <1>1, <1>2, <1>3 DEF IInv, TypeOK
  <1> QED
    BY <1>1, <1>4 DEF IInv, NotYet, NoWorse, KeptApart, DroppedForBetter

\* The invariant holds of every reachable state.
THEOREM Invariance == Spec => []IInv
  <1>1. IInv /\ [Next]_vars => IInv'
    <2> SUFFICES ASSUME IInv, [Next]_vars PROVE IInv'
      OBVIOUS
    <2>1. CASE Detect
      BY <2>1, DetectKeeps
    <2>2. CASE StartSelecting
      BY <2>2, StartSelectingKeeps
    <2>3. CASE \E n \in pending : Keep(n) \/ Drop(n)
      BY <2>3, KeepKeeps, DropKeeps
    <2>4. CASE StartEditing
      BY <2>4, StartEditingKeeps
    <2>5. CASE Edit \/ StartRestoring \/ (\E t \in todo : Replace(t)) \/ Finish
      BY <2>5, LaterKeeps
    <2>6. CASE UNCHANGED vars
      BY <2>6 DEF vars, IInv, TypeOK, NotYet, NoWorse, KeptApart, DroppedForBetter
    <2> QED
      BY <2>1, <2>2, <2>3, <2>4, <2>5, <2>6 DEF Next
  <1> QED
    BY <1>1, Initially, PTL DEF Spec

\* The entities selected for masking never share a character, so that the
\* offsets by which the text is edited stay good.
THEOREM SelectionApart == Spec => []KeptApart
  BY Invariance, PTL DEF IInv

\* Nothing detected is dropped except for something no shorter, and no less
\* certain at equal length, that overlaps it and is masked.
THEOREM SelectionBest == Spec => []DroppedForBetter
  BY Invariance, PTL DEF IInv

\* Type correctness of one call of maskPayload.
THEOREM TypeCorrect == Spec => []TypeOK
  BY Invariance, PTL DEF IInv

\* What detectors leave of a match lies where they say it begins.
THEOREM ValuesInPlace == Spec => []TrimmedIsPrefix
  <1>1. IInv => TrimmedIsPrefix
    BY TrimmedFirst, MaskingAssumption DEF IInv, TypeOK, TrimmedIsPrefix
  <1> QED
    BY <1>1, Invariance, PTL

\* No address, nor a part of one, is masked in a segment that mentions a
\* bank, in any text.
THEOREM BankStays == Spec => []BankStaysOut
  <1>1. IInv => BankStaysOut
    <2>1. IInv => text \in Seq(Words \cup Signs)
      BY MaskingAssumption DEF IInv, TypeOK
    <2>2. text \in Seq(Words \cup Signs) => NoBankReturned(text)
      BY NoBank
    <2> QED
      BY <2>1, <2>2 DEF BankStaysOut
  <1> QED
    BY <1>1, Invariance, PTL

\* What is found before a semicolon does not depend on what is behind it, but
\* for names a client behind it lets through; nor does what is found behind
\* one under the filter of banks depend on what is before it, in any text.
THEOREM ContextStays == Spec => []ContextIsLocal
  <1>1. IInv => ContextIsLocal
    <2>1. IInv => text \in Seq(Words \cup Signs)
      BY MaskingAssumption DEF IInv, TypeOK
    <2>2. text \in Seq(Words \cup Signs) => SegmentDecides(text)
      BY SegmentsApart
    <2> QED
      BY <2>1, <2>2 DEF ContextIsLocal
  <1> QED
    BY <1>1, Invariance, PTL

-----------------------------------------------------------------------------
(* Sequences put together *)

\* What texts, masks and replies are made of.
Element == Words \cup Signs \cup [type : Types, number : Nat]

\* Induction over a set of natural numbers.
LEMMA Induction ==
    ASSUME NEW S, 0 \in S, \A n \in Nat : n \in S => n + 1 \in S
    PROVE  \A n \in Nat : n \in S
  <1> SUFFICES ASSUME NEW m \in Nat, m \notin S PROVE FALSE
    OBVIOUS
  <1>1. PICK x : x = Min(Nat \ S)
    OBVIOUS
  <1>2. x \in Nat \ S /\ \A y \in Nat \ S : x <= y
    <2>1. (Nat \ S) \in SUBSET Nat /\ Nat \ S # {}
      OBVIOUS
    <2> QED BY <1>1, <2>1, Least
  <1>3. x - 1 \in Nat /\ x - 1 \in S
    BY <1>2
  <1> QED BY <1>2, <1>3

\* What the recursive function under FlattenSeq satisfies: the first i of the
\* sequences s, one after another.
IsFlat(g, s) ==
    g = [i \in 1 .. Len(s) |-> IF i = 1 THEN s[i] ELSE g[i - 1] \o s[i]]

\* There is such a function: the shortest sequences without one do not exist.
LEMMA FlatExists ==
    ASSUME NEW s \in Seq(Seq(Element))
    PROVE  \E g : IsFlat(g, s)
  <1> DEFINE Ok(n) == \A t \in Seq(Seq(Element)) : Len(t) = n => \E g : IsFlat(g, t)
             S == {n \in Nat : Ok(n)}
  <1>1. 0 \in S
    <2> SUFFICES ASSUME NEW t \in Seq(Seq(Element)), Len(t) = 0
                 PROVE  \E g : IsFlat(g, t)
      OBVIOUS
    <2> WITNESS [i \in 1 .. 0 |-> <<>>]
    <2> QED BY DEF IsFlat
  <1>2. ASSUME NEW n \in Nat, n \in S PROVE n + 1 \in S
    <2> SUFFICES ASSUME NEW t \in Seq(Seq(Element)), Len(t) = n + 1
                 PROVE  \E g : IsFlat(g, t)
      OBVIOUS
    <2>1. PICK u : u = SubSeq(t, 1, n)
      OBVIOUS
    <2>2. u \in Seq(Seq(Element)) /\ Len(u) = n /\ \A i \in 1 .. n : u[i] = t[i]
      BY <2>1, SubSeqProperties
    <2>3. PICK h : IsFlat(h, u)
      BY <1>2, <2>2
    <2>4. PICK g : g = [i \in 1 .. n + 1 |->
                          IF i <= n THEN h[i]
                          ELSE IF i = 1 THEN t[i] ELSE h[i - 1] \o t[i]]
      OBVIOUS
    <2>5. \A i \in 1 .. n : g[i] = h[i]
      BY <2>4
    <2>6. \A i \in 1 .. n : h[i] = IF i = 1 THEN u[i] ELSE h[i - 1] \o u[i]
      BY <2>2, <2>3 DEF IsFlat
    <2>7. ASSUME NEW i \in 1 .. n + 1
          PROVE  g[i] = IF i = 1 THEN t[i] ELSE g[i - 1] \o t[i]
      <3>1. CASE i <= n
        <4>1. i \in 1 .. n /\ (i # 1 => i - 1 \in 1 .. n)
          BY <3>1
        <4> QED BY <2>2, <2>5, <2>6, <4>1
      <3>2. CASE i = n + 1
        <4>1. g[i] = IF i = 1 THEN t[i] ELSE h[i - 1] \o t[i]
          BY <2>4, <3>2
        <4>2. i # 1 => i - 1 \in 1 .. n
          BY <3>2
        <4> QED BY <2>5, <4>1, <4>2
      <3> QED BY <3>1, <3>2
    <2>8. PICK f : f = [i \in 1 .. Len(t) |-> IF i = 1 THEN t[i] ELSE g[i - 1] \o t[i]]
      OBVIOUS
    <2>9. g = [i \in 1 .. n + 1 |-> g[i]] /\ f = [i \in 1 .. n + 1 |-> f[i]]
      BY <2>4, <2>8
    <2>10. \A i \in 1 .. n + 1 : f[i] = g[i]
      BY <2>7, <2>8
    <2>11. g = f
      BY <2>9, <2>10
    <2> QED BY <2>8, <2>11 DEF IsFlat
  <1>3. \A n \in Nat : n \in S
    <2> HIDE DEF S
    <2> QED BY <1>1, <1>2, Induction
  <1> QED BY <1>3

\* It is determined by the sequences it puts together.
LEMMA FlatAlike ==
    ASSUME NEW s \in Seq(Seq(Element)), NEW t \in Seq(Seq(Element)),
           NEW g, IsFlat(g, s), NEW h, IsFlat(h, t),
           NEW m \in Nat, m <= Len(s), m <= Len(t), \A i \in 1 .. m : s[i] = t[i]
    PROVE  \A i \in 1 .. m : g[i] = h[i] /\ g[i] \in Seq(Element)
  <1> DEFINE S == {n \in Nat : n \in 1 .. m => g[n] = h[n] /\ g[n] \in Seq(Element)}
  <1>1. 0 \in S
    OBVIOUS
  <1>2. ASSUME NEW n \in Nat, n \in S PROVE n + 1 \in S
    <2> SUFFICES ASSUME n + 1 \in 1 .. m
                 PROVE  g[n + 1] = h[n + 1] /\ g[n + 1] \in Seq(Element)
      OBVIOUS
    <2>1. n + 1 \in 1 .. Len(s) /\ n + 1 \in 1 .. Len(t)
      OBVIOUS
    <2>2. /\ g[n + 1] = IF n + 1 = 1 THEN s[n + 1] ELSE g[(n + 1) - 1] \o s[n + 1]
          /\ h[n + 1] = IF n + 1 = 1 THEN t[n + 1] ELSE h[(n + 1) - 1] \o t[n + 1]
      BY <2>1 DEF IsFlat
    <2>3. s[n + 1] = t[n + 1] /\ s[n + 1] \in Seq(Element)
      BY <2>1
    <2>4. CASE n = 0
      BY <2>2, <2>3, <2>4
    <2>5. CASE n # 0
      <3>1. (n + 1) - 1 = n /\ n \in 1 .. m /\ n + 1 # 1
        BY <2>5
      <3>2. g[n] = h[n] /\ g[n] \in Seq(Element)
        BY <1>2, <3>1
      <3>3. g[n + 1] = g[n] \o s[n + 1] /\ h[n + 1] = h[n] \o t[n + 1]
        BY <2>2, <3>1
      <3> QED BY <2>3, <3>2, <3>3, ConcatProperties
    <2> QED BY <2>4, <2>5
  <1>3. \A n \in Nat : n \in S
    <2> HIDE DEF S
    <2> QED BY <1>1, <1>2, Induction
  <1> QED BY <1>3

\* Nothing put together is nothing.
LEMMA FlatEmpty == FlattenSeq(<<>>) = <<>>
  BY DEF FlattenSeq

\* What is put together is the last value of that function.
LEMMA FlatIs ==
    ASSUME NEW s \in Seq(Seq(Element)), s # <<>>
    PROVE  \E g : IsFlat(g, s) /\ FlattenSeq(s) = g[Len(s)]
  <1>1. FlattenSeq(s) = (CHOOSE g : IsFlat(g, s))[Len(s)]
    <2>1. Len(s) # 0
      OBVIOUS
    <2> QED BY <2>1 DEF FlattenSeq, IsFlat
  <1> QED BY <1>1, FlatExists

\* All but the last, then the last.
LEMMA FlatLast ==
    ASSUME NEW s \in Seq(Seq(Element)), s # <<>>, NEW n \in Nat, Len(s) = n + 1
    PROVE  /\ FlattenSeq(s) = FlattenSeq(SubSeq(s, 1, n)) \o s[n + 1]
           /\ FlattenSeq(s) \in Seq(Element)
           /\ FlattenSeq(SubSeq(s, 1, n)) \in Seq(Element)
  <1>1. PICK u : u = SubSeq(s, 1, n)
    OBVIOUS
  <1>2. u \in Seq(Seq(Element)) /\ Len(u) = n /\ \A i \in 1 .. n : u[i] = s[i]
    BY <1>1, SubSeqProperties
  <1>3. PICK g : IsFlat(g, s) /\ FlattenSeq(s) = g[n + 1]
    BY FlatIs
  <1>4. g[n + 1] \in Seq(Element)
    BY <1>3, FlatAlike
  <1>5. s[n + 1] \in Seq(Element)
    OBVIOUS
  <1>6. g[n + 1] = IF n = 0 THEN s[n + 1] ELSE g[n] \o s[n + 1]
    <2>1. n + 1 \in 1 .. Len(s) /\ (n + 1) - 1 = n /\ (n + 1 = 1 <=> n = 0)
      OBVIOUS
    <2>2. g[n + 1] = IF n + 1 = 1 THEN s[n + 1] ELSE g[(n + 1) - 1] \o s[n + 1]
      BY <1>3, <2>1 DEF IsFlat
    <2> QED BY <2>1, <2>2
  <1>7. CASE n = 0
    <2>1. u = <<>>
      BY <1>2, <1>7
    <2>2. <<>> \o s[n + 1] = s[n + 1] /\ <<>> \in Seq(Element)
      BY <1>5, ConcatEmptySeq
    <2> QED BY <1>1, <1>3, <1>4, <1>6, <1>7, <2>1, <2>2, FlatEmpty
  <1>8. CASE n # 0
    <2>1. u # <<>>
      BY <1>2, <1>8
    <2>2. PICK h : IsFlat(h, u) /\ FlattenSeq(u) = h[n]
      BY <1>2, <2>1, FlatIs
    <2>3. n <= Len(s) /\ n <= Len(u) /\ n \in 1 .. n
      BY <1>2, <1>8
    <2>4. h[n] = g[n] /\ h[n] \in Seq(Element)
      BY <1>2, <1>3, <2>2, <2>3, FlatAlike
    <2>5. g[n + 1] = g[n] \o s[n + 1]
      BY <1>6, <1>8
    <2> QED BY <1>1, <1>3, <1>4, <2>2, <2>4, <2>5
  <1> QED BY <1>7, <1>8

\* Sequences put together are a sequence.
LEMMA FlatTyped ==
    ASSUME NEW s \in Seq(Seq(Element))
    PROVE  FlattenSeq(s) \in Seq(Element)
  <1>1. CASE s = <<>>
    <2>1. <<>> \in Seq(Element)
      OBVIOUS
    <2> QED BY <1>1, <2>1, FlatEmpty
  <1>2. CASE s # <<>>
    <2>1. PICK n \in Nat : Len(s) = n + 1
      <3>1. Len(s) \in Nat \ {0}
        BY <1>2
      <3>2. Len(s) - 1 \in Nat /\ Len(s) = (Len(s) - 1) + 1
        BY <3>1
      <3> QED BY <3>2
    <2> QED BY <1>2, <2>1, FlatLast
  <1> QED BY <1>1, <1>2

\* One sequence is itself.
LEMMA FlatOne ==
    ASSUME NEW s \in Seq(Seq(Element)), Len(s) = 1
    PROVE  FlattenSeq(s) = s[1]
  <1>1. SubSeq(s, 1, 0) = <<>> /\ s # <<>> /\ Len(s) = 0 + 1
    OBVIOUS
  <1>2. FlattenSeq(s) = FlattenSeq(SubSeq(s, 1, 0)) \o s[0 + 1]
    BY <1>1, FlatLast
  <1>3. <<>> \o s[1] = s[1]
    BY ConcatEmptySeq
  <1> QED BY <1>1, <1>2, <1>3, FlatEmpty

\* Concatenation is associative.
LEMMA AllThree ==
    ASSUME NEW r \in Seq(Element), NEW s \in Seq(Element), NEW t \in Seq(Element)
    PROVE  (r \o s) \o t = r \o (s \o t)
  BY ConcatAssociative

\* Sequences can be put together part by part.
LEMMA FlatConcat ==
    ASSUME NEW s \in Seq(Seq(Element)), NEW t \in Seq(Seq(Element))
    PROVE  FlattenSeq(s \o t) = FlattenSeq(s) \o FlattenSeq(t)
  <1> DEFINE Ok(n) == \A u \in Seq(Seq(Element)) : Len(u) = n =>
                          FlattenSeq(s \o u) = FlattenSeq(s) \o FlattenSeq(u)
             S == {n \in Nat : Ok(n)}
  <1>1. 0 \in S
    <2> SUFFICES ASSUME NEW u \in Seq(Seq(Element)), Len(u) = 0
                 PROVE  FlattenSeq(s \o u) = FlattenSeq(s) \o FlattenSeq(u)
      OBVIOUS
    <2>1. u = <<>> /\ s \o u = s
      OBVIOUS
    <2>2. FlattenSeq(s) \o <<>> = FlattenSeq(s)
      BY FlatTyped, ConcatEmptySeq
    <2> QED BY <2>1, <2>2, FlatEmpty
  <1>2. ASSUME NEW n \in Nat, n \in S PROVE n + 1 \in S
    <2> SUFFICES ASSUME NEW u \in Seq(Seq(Element)), Len(u) = n + 1
                 PROVE  FlattenSeq(s \o u) = FlattenSeq(s) \o FlattenSeq(u)
      OBVIOUS
    <2>1. PICK v : v = SubSeq(u, 1, n)
      OBVIOUS
    <2>2. v \in Seq(Seq(Element)) /\ Len(v) = n /\ \A i \in 1 .. n : v[i] = u[i]
      BY <2>1, SubSeqProperties
    <2>3. FlattenSeq(s \o v) = FlattenSeq(s) \o FlattenSeq(v)
      BY <1>2, <2>2
    <2>4. FlattenSeq(u) = FlattenSeq(v) \o u[n + 1]
      <3>1. u # <<>>
        OBVIOUS
      <3> QED BY <2>1, <3>1, FlatLast
    <2>5. PICK w : w = s \o u
      OBVIOUS
    <2>6. PICK m \in Nat : m = Len(s) + n
      OBVIOUS
    <2>7. /\ w \in Seq(Seq(Element)) /\ Len(w) = m + 1 /\ w # <<>>
          /\ w[m + 1] = u[n + 1]
          /\ SubSeq(w, 1, m) = s \o v
      <3>1. w \in Seq(Seq(Element)) /\ Len(w) = m + 1
            /\ \A i \in 1 .. m + 1 : w[i] = IF i <= Len(s) THEN s[i] ELSE u[i - Len(s)]
        BY <2>5, <2>6, ConcatProperties
      <3>2. w # <<>>
        BY <3>1
      <3>3. (m + 1) - Len(s) = n + 1 /\ ~(m + 1 <= Len(s)) /\ m + 1 \in 1 .. m + 1
        BY <2>6
      <3>4. w[m + 1] = u[n + 1]
        <4>1. w[m + 1] = IF m + 1 <= Len(s) THEN s[m + 1] ELSE u[(m + 1) - Len(s)]
          BY <3>1, <3>3
        <4> QED BY <3>3, <4>1
      <3>5. PICK x : x = SubSeq(w, 1, m)
        OBVIOUS
      <3>6. x \in Seq(Seq(Element)) /\ Len(x) = m /\ \A i \in 1 .. m : x[i] = w[i]
        BY <3>1, <3>5, SubSeqProperties
      <3>7. PICK y : y = s \o v
        OBVIOUS
      <3>8. y \in Seq(Seq(Element)) /\ Len(y) = m
            /\ \A i \in 1 .. m : y[i] = IF i <= Len(s) THEN s[i] ELSE v[i - Len(s)]
        <4>1. Len(s) + Len(v) = m
          BY <2>2, <2>6
        <4> QED BY <2>2, <3>7, <4>1, ConcatProperties
      <3>9. ASSUME NEW i \in 1 .. m PROVE x[i] = y[i]
        <4>1. i \in 1 .. m + 1 /\ (~(i <= Len(s)) => i - Len(s) \in 1 .. n)
          BY <2>6
        <4> QED BY <2>2, <3>1, <3>6, <3>8, <4>1
      <3>10. x = y
        BY <3>6, <3>8, <3>9, SeqEqual
      <3> QED BY <3>1, <3>2, <3>4, <3>5, <3>7, <3>10
    <2>8. FlattenSeq(w) = FlattenSeq(s \o v) \o u[n + 1]
      BY <2>7, FlatLast
    <2>9. u[n + 1] \in Seq(Element)
      OBVIOUS
    <2>10. FlattenSeq(s) \in Seq(Element) /\ FlattenSeq(v) \in Seq(Element)
      BY <2>2, FlatTyped
    <2>11. (FlattenSeq(s) \o FlattenSeq(v)) \o u[n + 1]
             = FlattenSeq(s) \o (FlattenSeq(v) \o u[n + 1])
      <3>1. PICK f \in Seq(Element), g \in Seq(Element), h \in Seq(Element) :
               f = FlattenSeq(s) /\ g = FlattenSeq(v) /\ h = u[n + 1]
        BY <2>9, <2>10
      <3>2. (f \o g) \o h = f \o (g \o h)
        BY AllThree, Zenon
      <3> QED BY <3>1, <3>2
    <2> QED BY <2>3, <2>4, <2>5, <2>8, <2>11
  <1>3. \A n \in Nat : n \in S
    <2> HIDE DEF S
    <2> QED BY <1>1, <1>2, Induction
  <1> QED BY <1>3

\* Sequences of one element each.
LEMMA FlatSingles ==
    ASSUME NEW a \in Seq(Element), NEW w \in Seq(Seq(Element)), Len(w) = Len(a),
           \A i \in 1 .. Len(a) : w[i] = <<a[i]>>
    PROVE  FlattenSeq(w) = a
  <1> DEFINE S == {n \in Nat : n <= Len(a) =>
                       FlattenSeq(SubSeq(w, 1, n)) = SubSeq(a, 1, n)}
  <1>1. 0 \in S
    <2>1. SubSeq(w, 1, 0) = <<>> /\ SubSeq(a, 1, 0) = <<>>
      OBVIOUS
    <2> QED BY <2>1, FlatEmpty
  <1>2. ASSUME NEW n \in Nat, n \in S PROVE n + 1 \in S
    <2> SUFFICES ASSUME n + 1 <= Len(a)
                 PROVE  FlattenSeq(SubSeq(w, 1, n + 1)) = SubSeq(a, 1, n + 1)
      OBVIOUS
    <2>1. PICK x : x = SubSeq(w, 1, n + 1)
      OBVIOUS
    <2>2. n + 1 \in 0 .. Len(w) /\ n \in 0 .. Len(w) /\ n + 1 \in 1 .. Len(a)
          /\ n + 1 \in 1 .. n + 1 /\ (n + 1) - 1 = n
      OBVIOUS
    <2>3. x \in Seq(Seq(Element)) /\ Len(x) = n + 1 /\ x[n + 1] = <<a[n + 1]>>
      BY <2>1, <2>2, FirstOnes
    <2>4. SubSeq(x, 1, n) = SubSeq(w, 1, n)
      BY <2>1, <2>2
    <2>5. x # <<>>
      BY <2>3
    <2>6. FlattenSeq(x) = FlattenSeq(SubSeq(x, 1, n)) \o x[n + 1]
      BY <2>3, <2>5, FlatLast
    <2>7. FlattenSeq(SubSeq(w, 1, n)) = SubSeq(a, 1, n)
      BY <1>2
    <2>8. SubSeq(a, 1, n + 1) = SubSeq(a, 1, n) \o <<a[n + 1]>>
      <3>1. 1 \in 1 .. Len(a) /\ n + 1 \in 1 .. Len(a)
        OBVIOUS
      <3>2. SubSeq(a, 1, n + 1) = SubSeq(a, 1, (n + 1) - 1) \o <<a[n + 1]>>
        BY <3>1, SubSeqRecursiveSecond
      <3> QED BY <2>2, <3>2
    <2> QED BY <2>1, <2>3, <2>4, <2>6, <2>7, <2>8
  <1>3. \A n \in Nat : n \in S
    <2> HIDE DEF S
    <2> QED BY <1>1, <1>2, Induction
  <1>4. FlattenSeq(SubSeq(w, 1, Len(a))) = SubSeq(a, 1, Len(a))
    <2>1. PICK k \in Nat : k = Len(a)
      OBVIOUS
    <2>2. k \in S /\ k <= Len(a)
      BY <1>3, <2>1
    <2>3. FlattenSeq(SubSeq(w, 1, k)) = SubSeq(a, 1, k)
      BY <2>2
    <2> QED BY <2>1, <2>3, Zenon
  <1> QED BY <1>4, SubSeqFull

\* Empty sequences.
LEMMA FlatNothing ==
    ASSUME NEW w \in Seq(Seq(Element)), \A i \in 1 .. Len(w) : w[i] = <<>>
    PROVE  FlattenSeq(w) = <<>>
  <1> DEFINE S == {n \in Nat : n <= Len(w) => FlattenSeq(SubSeq(w, 1, n)) = <<>>}
  <1>1. 0 \in S
    <2>1. SubSeq(w, 1, 0) = <<>>
      OBVIOUS
    <2> QED BY <2>1, FlatEmpty
  <1>2. ASSUME NEW n \in Nat, n \in S PROVE n + 1 \in S
    <2> SUFFICES ASSUME n + 1 <= Len(w)
                 PROVE  FlattenSeq(SubSeq(w, 1, n + 1)) = <<>>
      OBVIOUS
    <2>1. PICK x : x = SubSeq(w, 1, n + 1)
      OBVIOUS
    <2>2. n + 1 \in 0 .. Len(w) /\ n \in 0 .. Len(w) /\ n + 1 \in 1 .. Len(w)
          /\ n + 1 \in 1 .. n + 1
      OBVIOUS
    <2>3. x \in Seq(Seq(Element)) /\ Len(x) = n + 1 /\ x[n + 1] = <<>>
      BY <2>1, <2>2, FirstOnes
    <2>4. SubSeq(x, 1, n) = SubSeq(w, 1, n)
      BY <2>1, <2>2
    <2>5. x # <<>>
      BY <2>3
    <2>6. FlattenSeq(x) = FlattenSeq(SubSeq(x, 1, n)) \o x[n + 1]
      BY <2>3, <2>5, FlatLast
    <2>7. FlattenSeq(SubSeq(w, 1, n)) = <<>>
      BY <1>2
    <2>8. <<>> \o <<>> = <<>>
      OBVIOUS
    <2> QED BY <2>1, <2>3, <2>4, <2>6, <2>7, <2>8
  <1>3. \A n \in Nat : n \in S
    <2> HIDE DEF S
    <2> QED BY <1>1, <1>2, Induction
  <1>4. FlattenSeq(SubSeq(w, 1, Len(w))) = <<>>
    BY <1>3
  <1> QED BY <1>4, SubSeqFull

\* Sequences of no more than one element each.
LEMMA FlatShort ==
    ASSUME NEW w \in Seq(Seq(Element)), \A i \in 1 .. Len(w) : Len(w[i]) <= 1
    PROVE  Len(FlattenSeq(w)) <= Len(w)
  <1> DEFINE S == {n \in Nat : n <= Len(w) => Len(FlattenSeq(SubSeq(w, 1, n))) <= n}
  <1>1. 0 \in S
    <2>1. SubSeq(w, 1, 0) = <<>>
      OBVIOUS
    <2>2. PICK f : f = FlattenSeq(SubSeq(w, 1, 0))
      OBVIOUS
    <2>3. f = <<>>
      BY <2>1, <2>2, FlatEmpty
    <2>4. Len(f) <= 0
      BY <2>3
    <2> QED BY <2>2, <2>4
  <1>2. ASSUME NEW n \in Nat, n \in S PROVE n + 1 \in S
    <2> SUFFICES ASSUME n + 1 <= Len(w)
                 PROVE  Len(FlattenSeq(SubSeq(w, 1, n + 1))) <= n + 1
      OBVIOUS
    <2>1. PICK x : x = SubSeq(w, 1, n + 1)
      OBVIOUS
    <2>2. n + 1 \in 0 .. Len(w) /\ n \in 0 .. Len(w) /\ n + 1 \in 1 .. Len(w)
          /\ n + 1 \in 1 .. n + 1
      OBVIOUS
    <2>3. x \in Seq(Seq(Element)) /\ Len(x) = n + 1 /\ x[n + 1] = w[n + 1]
      BY <2>1, <2>2, FirstOnes
    <2>4. SubSeq(x, 1, n) = SubSeq(w, 1, n)
      BY <2>1, <2>2
    <2>5. x # <<>>
      BY <2>3
    <2>6. PICK f \in Seq(Element) : f = FlattenSeq(SubSeq(w, 1, n))
      <3>1. SubSeq(w, 1, n) \in Seq(Seq(Element))
        BY <2>2, FirstOnes
      <3> QED BY <3>1, FlatTyped
    <2>7. FlattenSeq(x) = f \o w[n + 1]
      BY <2>3, <2>4, <2>5, <2>6, FlatLast
    <2>8. Len(f) <= n /\ Len(w[n + 1]) <= 1 /\ w[n + 1] \in Seq(Element)
      BY <1>2, <2>2, <2>6
    <2>9. Len(f \o w[n + 1]) = Len(f) + Len(w[n + 1])
      BY <2>8
    <2>10. Len(f) \in Nat /\ Len(w[n + 1]) \in Nat
      BY <2>8
    <2> QED BY <2>1, <2>7, <2>8, <2>9, <2>10
  <1>3. \A n \in Nat : n \in S
    <2> HIDE DEF S
    <2> QED BY <1>1, <1>2, Induction
  <1>4. Len(FlattenSeq(SubSeq(w, 1, Len(w)))) <= Len(w)
    BY <1>3
  <1> QED BY <1>4, SubSeqFull

-----------------------------------------------------------------------------
(* Substituting sequences for elements *)

\* What each element of s is replaced by.
Pieces(s, d) ==
    [n \in DOMAIN s |-> IF s[n] \in DOMAIN d THEN d[s[n]] ELSE <<s[n]>>]

\* s with every element in the domain of d replaced.
Subst(s, d) == FlattenSeq(Pieces(s, d))

\* Facts of the library about sequences of sequences.
LEMMA TwoParts ==
    ASSUME NEW s \in Seq(Seq(Element)), NEW t \in Seq(Seq(Element))
    PROVE  /\ s \o t \in Seq(Seq(Element)) /\ Len(s \o t) = Len(s) + Len(t)
           /\ \A i \in 1 .. Len(s) + Len(t) : (s \o t)[i] =
                 IF i <= Len(s) THEN s[i] ELSE t[i - Len(s)]
  BY ConcatProperties

\* Sequences of sequences that agree everywhere are equal.
LEMMA SameParts ==
    ASSUME NEW s \in Seq(Seq(Element)), NEW t \in Seq(Seq(Element)),
           Len(s) = Len(t), \A i \in 1 .. Len(s) : s[i] = t[i]
    PROVE  s = t
  BY SeqEqual

\* There is a sequence for each element.
LEMMA PiecesTyped ==
    ASSUME NEW s \in Seq(Element), NEW d, d \in [DOMAIN d -> Seq(Element)]
    PROVE  /\ Pieces(s, d) \in Seq(Seq(Element)) /\ Len(Pieces(s, d)) = Len(s)
           /\ \A i \in 1 .. Len(s) : Pieces(s, d)[i]
                  = IF s[i] \in DOMAIN d THEN d[s[i]] ELSE <<s[i]>>
  <1>1. PICK p : p = Pieces(s, d)
    OBVIOUS
  <1>2. p = [n \in 1 .. Len(s) |-> IF s[n] \in DOMAIN d THEN d[s[n]] ELSE <<s[n]>>]
    BY <1>1 DEF Pieces
  <1>3. \A i \in 1 .. Len(s) : p[i] \in Seq(Element)
    BY <1>2
  <1>4. p \in [1 .. Len(s) -> Seq(Element)]
    BY <1>2, <1>3
  <1>5. p \in Seq(Seq(Element)) /\ Len(p) = Len(s)
    BY <1>4
  <1> QED BY <1>1, <1>2, <1>5

\* Substituting in a sequence gives one.
LEMMA SubstTyped ==
    ASSUME NEW s \in Seq(Element), NEW d, d \in [DOMAIN d -> Seq(Element)]
    PROVE  Subst(s, d) \in Seq(Element)
  BY PiecesTyped, FlatTyped DEF Subst

\* Substitution goes part by part.
LEMMA SubstConcat ==
    ASSUME NEW s \in Seq(Element), NEW t \in Seq(Element),
           NEW d, d \in [DOMAIN d -> Seq(Element)]
    PROVE  Subst(s \o t, d) = Subst(s, d) \o Subst(t, d)
  <1>1. PICK w \in Seq(Element) : w = s \o t
    BY ConcatProperties
  <1>2. Len(w) = Len(s) + Len(t)
        /\ \A i \in 1 .. Len(s) + Len(t) :
              w[i] = IF i <= Len(s) THEN s[i] ELSE t[i - Len(s)]
    BY <1>1, ConcatProperties
  <1>3. PICK p, q, r : p = Pieces(s, d) /\ q = Pieces(t, d) /\ r = Pieces(w, d)
    OBVIOUS
  <1>4. /\ p \in Seq(Seq(Element)) /\ Len(p) = Len(s)
        /\ \A i \in 1 .. Len(s) : p[i] = IF s[i] \in DOMAIN d THEN d[s[i]] ELSE <<s[i]>>
    BY <1>3, PiecesTyped
  <1>5. /\ q \in Seq(Seq(Element)) /\ Len(q) = Len(t)
        /\ \A i \in 1 .. Len(t) : q[i] = IF t[i] \in DOMAIN d THEN d[t[i]] ELSE <<t[i]>>
    BY <1>3, PiecesTyped
  <1>6. /\ r \in Seq(Seq(Element)) /\ Len(r) = Len(w)
        /\ \A i \in 1 .. Len(w) : r[i] = IF w[i] \in DOMAIN d THEN d[w[i]] ELSE <<w[i]>>
    BY <1>3, PiecesTyped
  <1>7. PICK x : x = p \o q
    OBVIOUS
  <1>8. x \in Seq(Seq(Element)) /\ Len(x) = Len(p) + Len(q)
        /\ \A i \in 1 .. Len(p) + Len(q) :
              x[i] = IF i <= Len(p) THEN p[i] ELSE q[i - Len(p)]
    BY <1>4, <1>5, <1>7, TwoParts
  <1>9. ASSUME NEW i \in 1 .. Len(w) PROVE r[i] = x[i]
    <2>1. CASE i <= Len(s)
      <3>1. i \in 1 .. Len(s) /\ w[i] = s[i] /\ x[i] = p[i]
        BY <1>2, <1>4, <1>5, <1>8, <2>1
      <3> QED BY <1>4, <1>6, <3>1
    <2>2. CASE ~(i <= Len(s))
      <3>1. PICK j : j = i - Len(s)
        OBVIOUS
      <3>2. j \in 1 .. Len(t) /\ w[i] = t[j] /\ x[i] = q[j]
        BY <1>2, <1>4, <1>5, <1>8, <2>2, <3>1
      <3> QED BY <1>5, <1>6, <3>2
    <2> QED BY <2>1, <2>2
  <1>10. r = x
    <2>1. Len(r) = Len(x)
      BY <1>2, <1>4, <1>5, <1>6, <1>8
    <2>2. \A i \in 1 .. Len(r) : r[i] = x[i]
      BY <1>6, <1>9
    <2> QED BY <1>6, <1>8, <2>1, <2>2, SameParts
  <1>11. FlattenSeq(p \o q) = FlattenSeq(p) \o FlattenSeq(q)
    BY <1>4, <1>5, FlatConcat
  <1> QED BY <1>1, <1>3, <1>7, <1>10, <1>11 DEF Subst

\* Where nothing occurs that is to be replaced, nothing changes.
LEMMA SubstNothing ==
    ASSUME NEW s \in Seq(Element), NEW d, d \in [DOMAIN d -> Seq(Element)],
           \A i \in 1 .. Len(s) : s[i] \notin DOMAIN d
    PROVE  Subst(s, d) = s
  <1>1. PICK p : p = Pieces(s, d)
    OBVIOUS
  <1>2. /\ p \in Seq(Seq(Element)) /\ Len(p) = Len(s)
        /\ \A i \in 1 .. Len(s) : p[i] = <<s[i]>>
    BY <1>1, PiecesTyped
  <1> QED BY <1>1, <1>2, FlatSingles DEF Subst

\* What one element is replaced by.
LEMMA SubstOne ==
    ASSUME NEW c \in Element, NEW d, d \in [DOMAIN d -> Seq(Element)]
    PROVE  Subst(<<c>>, d) = IF c \in DOMAIN d THEN d[c] ELSE <<c>>
  <1>1. PICK s : s = <<c>>
    OBVIOUS
  <1>2. s \in Seq(Element) /\ Len(s) = 1 /\ s[1] = c
    BY <1>1
  <1>3. PICK p : p = Pieces(s, d)
    OBVIOUS
  <1>4. p \in Seq(Seq(Element)) /\ Len(p) = 1
        /\ p[1] = IF c \in DOMAIN d THEN d[c] ELSE <<c>>
    <2>1. 1 \in 1 .. Len(s)
      BY <1>2
    <2> QED BY <1>2, <1>3, <2>1, PiecesTyped
  <1> QED BY <1>1, <1>3, <1>4, FlatOne DEF Subst

\* Substituting in a sequence put together is substituting in its parts.
LEMMA SubstFlat ==
    ASSUME NEW w \in Seq(Seq(Element)), NEW d, d \in [DOMAIN d -> Seq(Element)],
           NEW z \in Seq(Seq(Element)), Len(z) = Len(w),
           \A i \in 1 .. Len(w) : z[i] = Subst(w[i], d)
    PROVE  Subst(FlattenSeq(w), d) = FlattenSeq(z)
  <1> DEFINE S == {n \in Nat : n <= Len(w) =>
                     Subst(FlattenSeq(SubSeq(w, 1, n)), d) = FlattenSeq(SubSeq(z, 1, n))}
  <1>1. 0 \in S
    <2>1. SubSeq(w, 1, 0) = <<>> /\ SubSeq(z, 1, 0) = <<>>
      OBVIOUS
    <2>2. Subst(<<>>, d) = <<>>
      <3>1. PICK e : e = <<>>
        OBVIOUS
      <3>2. e \in Seq(Element) /\ \A i \in 1 .. Len(e) : e[i] \notin DOMAIN d
        BY <3>1
      <3> QED BY <3>1, <3>2, SubstNothing
    <2> QED BY <2>1, <2>2, FlatEmpty
  <1>2. ASSUME NEW n \in Nat, n \in S PROVE n + 1 \in S
    <2> SUFFICES ASSUME n + 1 <= Len(w)
                 PROVE  Subst(FlattenSeq(SubSeq(w, 1, n + 1)), d)
                          = FlattenSeq(SubSeq(z, 1, n + 1))
      OBVIOUS
    <2>1. PICK x, y : x = SubSeq(w, 1, n + 1) /\ y = SubSeq(z, 1, n + 1)
      OBVIOUS
    <2>2. n + 1 \in 0 .. Len(w) /\ n \in 0 .. Len(w) /\ n + 1 \in 1 .. Len(w)
          /\ n + 1 \in 1 .. n + 1
      OBVIOUS
    <2>3. x \in Seq(Seq(Element)) /\ Len(x) = n + 1 /\ x[n + 1] = w[n + 1]
      BY <2>1, <2>2, FirstOnes
    <2>4. y \in Seq(Seq(Element)) /\ Len(y) = n + 1 /\ y[n + 1] = z[n + 1]
      BY <2>1, <2>2, FirstOnes
    <2>5. SubSeq(x, 1, n) = SubSeq(w, 1, n) /\ SubSeq(y, 1, n) = SubSeq(z, 1, n)
      BY <2>1, <2>2
    <2>6. x # <<>> /\ y # <<>>
      BY <2>3, <2>4
    <2>7. PICK f \in Seq(Element) : f = FlattenSeq(SubSeq(w, 1, n))
      <3>1. SubSeq(w, 1, n) \in Seq(Seq(Element))
        BY <2>2, FirstOnes
      <3> QED BY <3>1, FlatTyped
    <2>8. PICK e \in Seq(Element) : e = w[n + 1]
      BY <2>2
    <2>9. FlattenSeq(x) = f \o e
      BY <2>3, <2>5, <2>6, <2>7, <2>8, FlatLast
    <2>10. FlattenSeq(y) = FlattenSeq(SubSeq(z, 1, n)) \o z[n + 1]
      BY <2>4, <2>5, <2>6, FlatLast
    <2>11. Subst(f \o e, d) = Subst(f, d) \o Subst(e, d)
      BY SubstConcat
    <2>12. Subst(f, d) = FlattenSeq(SubSeq(z, 1, n))
      BY <1>2, <2>7
    <2>13. z[n + 1] = Subst(e, d)
      BY <2>2, <2>8
    <2> QED BY <2>1, <2>9, <2>10, <2>11, <2>12, <2>13
  <1>3. \A n \in Nat : n \in S
    <2> HIDE DEF S
    <2> QED BY <1>1, <1>2, Induction
  <1>4. Subst(FlattenSeq(SubSeq(w, 1, Len(w))), d) = FlattenSeq(SubSeq(z, 1, Len(z)))
    BY <1>3
  <1> QED BY <1>4, SubSeqFull

\* f is d and then e, and what d puts in is nothing that e replaces.
InTurn(d, e, f) ==
    /\ d \in [DOMAIN d -> Seq(Element)]
    /\ e \in [DOMAIN e -> Seq(Element)]
    /\ f \in [DOMAIN f -> Seq(Element)]
    /\ DOMAIN f = DOMAIN d \cup DOMAIN e /\ DOMAIN d \cap DOMAIN e = {}
    /\ \A x \in DOMAIN d : f[x] = d[x]
    /\ \A x \in DOMAIN e : f[x] = e[x]
    /\ \A x \in DOMAIN d : \A i \in 1 .. Len(d[x]) : d[x][i] \notin DOMAIN e

\* One after another is then all at once.
LEMMA SubstAgain ==
    ASSUME NEW s \in Seq(Element), NEW d, NEW e, NEW f, InTurn(d, e, f)
    PROVE  Subst(Subst(s, d), e) = Subst(s, f)
  <1>0. /\ d \in [DOMAIN d -> Seq(Element)]
        /\ e \in [DOMAIN e -> Seq(Element)]
        /\ f \in [DOMAIN f -> Seq(Element)]
        /\ DOMAIN f = DOMAIN d \cup DOMAIN e /\ DOMAIN d \cap DOMAIN e = {}
        /\ \A x \in DOMAIN d : f[x] = d[x]
        /\ \A x \in DOMAIN e : f[x] = e[x]
        /\ \A x \in DOMAIN d : \A i \in 1 .. Len(d[x]) : d[x][i] \notin DOMAIN e
    BY DEF InTurn
  <1>1. PICK w, z : w = Pieces(s, d) /\ z = Pieces(s, f)
    OBVIOUS
  <1>2. /\ w \in Seq(Seq(Element)) /\ Len(w) = Len(s)
        /\ \A i \in 1 .. Len(s) : w[i] = IF s[i] \in DOMAIN d THEN d[s[i]] ELSE <<s[i]>>
    BY <1>0, <1>1, PiecesTyped
  <1>3. /\ z \in Seq(Seq(Element)) /\ Len(z) = Len(s)
        /\ \A i \in 1 .. Len(s) : z[i] = IF s[i] \in DOMAIN f THEN f[s[i]] ELSE <<s[i]>>
    BY <1>0, <1>1, PiecesTyped
  <1>4. ASSUME NEW i \in 1 .. Len(w) PROVE z[i] = Subst(w[i], e)
    <2>1. PICK c \in Element : c = s[i]
      BY <1>2
    <2>2. CASE c \in DOMAIN d
      <3>1. w[i] = d[c] /\ z[i] = d[c] /\ d[c] \in Seq(Element)
        BY <1>0, <1>2, <1>3, <2>1, <2>2
      <3>2. \A j \in 1 .. Len(d[c]) : d[c][j] \notin DOMAIN e
        BY <1>0, <2>2
      <3>3. Subst(d[c], e) = d[c]
        BY <1>0, <3>1, <3>2, SubstNothing
      <3> QED BY <3>1, <3>3
    <2>3. CASE c \notin DOMAIN d
      <3>1. w[i] = <<c>>
        BY <1>2, <2>1, <2>3
      <3>2. z[i] = IF c \in DOMAIN e THEN e[c] ELSE <<c>>
        BY <1>0, <1>2, <1>3, <2>1, <2>3
      <3> QED BY <1>0, <3>1, <3>2, SubstOne
    <2> QED BY <2>2, <2>3
  <1>5. Subst(FlattenSeq(w), e) = FlattenSeq(z)
    BY <1>0, <1>2, <1>3, <1>4, SubstFlat
  <1> QED BY <1>1, <1>5 DEF Subst

-----------------------------------------------------------------------------
(* Texts and the values in them *)

\* Elements are words, signs and tokens.
LEMMA ElementIs == Element = Words \cup Signs \cup [type : Types, number : Nat]
  BY DEF Element

\* Texts, and values in them: they hold no tokens.
Plain == Seq(Words \cup Signs)

\* A text has a length.
LEMMA LengthIsNat ==
    ASSUME NEW s \in Plain
    PROVE  Len(s) \in Nat
  BY DEF Plain

\* Part of a text is a text.
LEMMA PartIsPlain ==
    ASSUME NEW s \in Plain, NEW a \in Nat, NEW b \in Nat, 1 <= a, b <= Len(s)
    PROVE  SubSeq(s, a, b) \in Plain /\ Len(SubSeq(s, a, b)) <= Len(s)
  <1>1. \A i \in a .. b : s[i] \in Words \cup Signs
    BY DEF Plain
  <1>2. /\ SubSeq(s, a, b) \in Plain
        /\ Len(SubSeq(s, a, b)) = IF a <= b THEN b - a + 1 ELSE 0
    BY <1>1, SubSeqProperties DEF Plain
  <1>3. Len(s) \in Nat
    BY DEF Plain
  <1> QED BY <1>2, <1>3

\* A text cut off is a text.
LEMMA UpToIsPlain ==
    ASSUME NEW s \in Plain, NEW stops \in SUBSET (1 .. Len(s) + 1)
    PROVE  UpTo(s, stops) \in Plain /\ Len(UpTo(s, stops)) <= Len(s)
  <1>1. IsBeginning(UpTo(s, stops), s)
    BY UpToBegins DEF Plain
  <1>2. PICK n \in 0 .. Len(s) : UpTo(s, stops) = SubSeq(s, 1, n)
    BY <1>1 DEF IsBeginning
  <1>3. Len(s) \in Nat
    BY DEF Plain
  <1> QED BY <1>2, <1>3, PartIsPlain

\* So is one without the blanks at its end.
LEMMA TrimRightIsPlain ==
    ASSUME NEW s \in Plain
    PROVE  TrimRight(s) \in Plain /\ Len(TrimRight(s)) <= Len(s)
  <1>1. IsBeginning(TrimRight(s), s)
    BY TrimRightBegins DEF Plain
  <1>2. PICK n \in 0 .. Len(s) : TrimRight(s) = SubSeq(s, 1, n)
    BY <1>1 DEF IsBeginning
  <1>3. Len(s) \in Nat
    BY DEF Plain
  <1> QED BY <1>2, <1>3, PartIsPlain

\* What is trimmed on both sides is a text that neither begins nor ends with
\* a space.
LEMMA TrimSpaceIsPlain ==
    ASSUME NEW s \in Plain
    PROVE  /\ TrimSpace(s) \in Plain /\ Len(TrimSpace(s)) <= Len(s)
           /\ TrimSpace(s) # <<>> => TrimSpace(s)[1] \notin Spaces
  <1>1. Solid(s) \in SUBSET Nat /\ Solid(s) \in SUBSET (0 .. Len(s)) /\ Solid(s) \in SUBSET (1 .. Len(s))
    BY DEF Solid, Plain
  <1>2. Len(s) \in Nat /\ DOMAIN s = 1 .. Len(s)
    BY DEF Plain
  <1>3. CASE Solid(s) = {}
    BY <1>2, <1>3 DEF TrimSpace, Plain
  <1>4. CASE Solid(s) # {}
    <2>1. PICK a, b : a = Min(Solid(s)) /\ b = Max(Solid(s))
      OBVIOUS
    <2>2. a \in Solid(s) /\ \A i \in Solid(s) : a <= i
      BY <1>1, <1>4, <2>1, Least
    <2>3. b \in Solid(s)
      BY <1>1, <1>2, <1>4, <2>1, Greatest
    <2>4. a \in 1 .. Len(s) /\ b \in 1 .. Len(s) /\ a <= b /\ s[a] \notin Spaces
      BY <1>1, <2>2, <2>3 DEF Solid
    <2>5. TrimSpace(s) = SubSeq(s, a, b)
      BY <1>4, <2>1 DEF TrimSpace
    <2>6. SubSeq(s, a, b) \in Plain /\ Len(SubSeq(s, a, b)) <= Len(s)
      BY <1>2, <2>4, PartIsPlain
    <2>7. SubSeq(s, a, b)[1] = s[a]
      BY <1>2, <2>4 DEF Plain
    <2> QED BY <2>4, <2>5, <2>6, <2>7
  <1> QED BY <1>3, <1>4

\* A sequence of what is in U is a sequence over U.
LEMMA MadeOf ==
    ASSUME NEW e \in Seq(Element), NEW U, \A j \in 1 .. Len(e) : e[j] \in U
    PROVE  e \in Seq(U)
  <1>1. PICK n \in Nat : n = Len(e) /\ e \in [1 .. n -> Element]
    OBVIOUS
  <1>2. e \in [1 .. n -> U]
    BY <1>1
  <1> QED BY <1>1, <1>2

\* What all parts are made of, the whole is made of.
LEMMA FlatWithin ==
    ASSUME NEW U, NEW w \in Seq(Seq(Element)), U \subseteq Element,
           \A i \in 1 .. Len(w) : \A j \in 1 .. Len(w[i]) : w[i][j] \in U
    PROVE  FlattenSeq(w) \in Seq(U)
  <1> DEFINE S == {n \in Nat : n <= Len(w) => FlattenSeq(SubSeq(w, 1, n)) \in Seq(U)}
  <1>1. 0 \in S
    <2>1. SubSeq(w, 1, 0) = <<>> /\ <<>> \in Seq(U)
      OBVIOUS
    <2> QED BY <2>1, FlatEmpty
  <1>2. ASSUME NEW n \in Nat, n \in S PROVE n + 1 \in S
    <2> SUFFICES ASSUME n + 1 <= Len(w)
                 PROVE  FlattenSeq(SubSeq(w, 1, n + 1)) \in Seq(U)
      OBVIOUS
    <2>1. PICK x : x = SubSeq(w, 1, n + 1)
      OBVIOUS
    <2>2. n + 1 \in 0 .. Len(w) /\ n \in 0 .. Len(w) /\ n + 1 \in 1 .. Len(w)
          /\ n + 1 \in 1 .. n + 1
      OBVIOUS
    <2>3. x \in Seq(Seq(Element)) /\ Len(x) = n + 1 /\ x[n + 1] = w[n + 1]
      BY <2>1, <2>2, FirstOnes
    <2>4. SubSeq(x, 1, n) = SubSeq(w, 1, n)
      BY <2>1, <2>2
    <2>5. x # <<>>
      BY <2>3
    <2>6. FlattenSeq(x) = FlattenSeq(SubSeq(w, 1, n)) \o w[n + 1]
      BY <2>3, <2>4, <2>5, FlatLast
    <2>7. FlattenSeq(SubSeq(w, 1, n)) \in Seq(U)
      BY <1>2
    <2>8. w[n + 1] \in Seq(U)
      <3>1. w[n + 1] \in Seq(Element)
        BY <2>2
      <3>2. \A j \in 1 .. Len(w[n + 1]) : w[n + 1][j] \in U
        BY <2>2
      <3> QED BY <3>1, <3>2, MadeOf
    <2> QED BY <2>1, <2>6, <2>7, <2>8, ConcatProperties
  <1>3. \A n \in Nat : n \in S
    <2> HIDE DEF S
    <2> QED BY <1>1, <1>2, Induction
  <1>4. FlattenSeq(SubSeq(w, 1, Len(w))) \in Seq(U)
    BY <1>3
  <1> QED BY <1>4, SubSeqFull

\* A text is a sequence of words and signs.
LEMMA PlainIs ==
    ASSUME NEW s
    PROVE  s \in Plain <=>
              s \in Seq(Element) /\ \A i \in 1 .. Len(s) : s[i] \in Words \cup Signs
  BY ElementIs DEF Plain

\* The words of a text, each with the blank before it.
Fields(s) ==
    [i \in DOMAIN s |->
        IF s[i] \notin Spaces THEN <<s[i]>>
        ELSE IF s[i - 1] \in Spaces THEN <<>> ELSE <<Blank>>]

\* What fields are made of.
LEMMA FieldsTyped ==
    ASSUME NEW s \in Plain
    PROVE  /\ Fields(s) \in Seq(Seq(Element)) /\ Len(Fields(s)) = Len(s)
           /\ \A i \in 1 .. Len(s) : /\ Fields(s)[i] \in Plain
                                     /\ Len(Fields(s)[i]) <= 1
           /\ \A i \in 1 .. Len(s) : Fields(s)[i] =
                 IF s[i] \notin Spaces THEN <<s[i]>>
                 ELSE IF s[i - 1] \in Spaces THEN <<>> ELSE <<Blank>>
  <1>1. PICK p : p = Fields(s)
    OBVIOUS
  <1>2. Len(s) \in Nat /\ DOMAIN s = 1 .. Len(s) /\ \A i \in 1 .. Len(s) : s[i] \in Words \cup Signs
    BY DEF Plain
  <1>3. p = [i \in 1 .. Len(s) |->
                IF s[i] \notin Spaces THEN <<s[i]>>
                ELSE IF s[i - 1] \in Spaces THEN <<>> ELSE <<Blank>>]
    BY <1>1, <1>2 DEF Fields
  <1>4. Blank \in Words \cup Signs
    BY DEF Signs, Spaces
  <1>5. ASSUME NEW c \in Words \cup Signs
        PROVE  <<c>> \in Plain /\ Len(<<c>>) = 1
    BY DEF Plain
  <1>6. <<>> \in Plain /\ Len(<<>>) = 0
    BY DEF Plain
  <1>7. \A i \in 1 .. Len(s) : p[i] \in Plain /\ Len(p[i]) <= 1
    <2> SUFFICES ASSUME NEW i \in 1 .. Len(s) PROVE p[i] \in Plain /\ Len(p[i]) <= 1
      OBVIOUS
    <2>1. p[i] \in {<<s[i]>>, <<>>, <<Blank>>}
      BY <1>3
    <2>2. s[i] \in Words \cup Signs
      BY <1>2
    <2>3. CASE p[i] = <<s[i]>>
      <3>1. <<s[i]>> \in Plain /\ Len(<<s[i]>>) = 1
        BY <2>2, <1>5
      <3> QED BY <2>3, <3>1
    <2>4. CASE p[i] = <<>>
      BY <2>4, <1>6
    <2>5. CASE p[i] = <<Blank>>
      <3>1. <<Blank>> \in Plain /\ Len(<<Blank>>) = 1
        BY <1>4, <1>5
      <3> QED BY <2>5, <3>1
    <2> QED BY <2>1, <2>3, <2>4, <2>5
  <1>8. \A i \in 1 .. Len(s) : p[i] \in Seq(Element)
    BY <1>7, PlainIs
  <1>9. p \in [1 .. Len(s) -> Seq(Element)]
    BY <1>3, <1>8
  <1>10. p \in Seq(Seq(Element)) /\ Len(p) = Len(s)
    BY <1>2, <1>9
  <1> QED BY <1>1, <1>3, <1>7, <1>10

\* Joined again, they are a text no longer than before.
LEMMA JoinedIsPlain ==
    ASSUME NEW s \in Plain
    PROVE  Joined(s) \in Plain /\ Len(Joined(s)) <= Len(s)
  <1>1. PICK p : p = Fields(s)
    OBVIOUS
  <1>2. /\ p \in Seq(Seq(Element)) /\ Len(p) = Len(s)
        /\ \A i \in 1 .. Len(s) : p[i] \in Plain /\ Len(p[i]) <= 1
    BY <1>1, FieldsTyped
  <1>3. Joined(s) = FlattenSeq(p)
    BY <1>1 DEF Joined, Fields
  <1>4. Len(FlattenSeq(p)) <= Len(p)
    BY <1>2, FlatShort
  <1>5. \A i \in 1 .. Len(p) : \A j \in 1 .. Len(p[i]) : p[i][j] \in Words \cup Signs
    BY <1>2 DEF Plain
  <1>6. PICK U : U = Words \cup Signs
    OBVIOUS
  <1>7. FlattenSeq(p) \in Seq(U)
    <2>1. U \subseteq Element
      BY <1>6, ElementIs
    <2> QED BY <1>2, <1>5, <1>6, <2>1, FlatWithin
  <1> QED BY <1>2, <1>3, <1>4, <1>6, <1>7 DEF Plain

\* Joining words that are one blank apart changes nothing.
LEMMA JoinedAlready ==
    ASSUME NEW s \in Plain,
           \A i \in 1 .. Len(s) : s[i] \in Spaces =>
               s[i] = Blank /\ s[i - 1] \notin Spaces
    PROVE  Joined(s) = s
  <1>1. PICK p : p = Fields(s)
    OBVIOUS
  <1>2. p \in Seq(Seq(Element)) /\ Len(p) = Len(s) /\ s \in Seq(Element)
    BY <1>1, FieldsTyped, PlainIs
  <1>3. \A i \in 1 .. Len(s) : p[i] = <<s[i]>>
    <2> SUFFICES ASSUME NEW i \in 1 .. Len(s) PROVE p[i] = <<s[i]>>
      OBVIOUS
    <2>1. p[i] = IF s[i] \notin Spaces THEN <<s[i]>>
                 ELSE IF s[i - 1] \in Spaces THEN <<>> ELSE <<Blank>>
      BY <1>1, FieldsTyped
    <2>2. CASE s[i] \notin Spaces
      BY <2>1, <2>2
    <2>3. CASE s[i] \in Spaces
      <3>1. s[i] = Blank /\ s[i - 1] \notin Spaces
        BY <2>3
      <3> QED BY <2>1, <2>3, <3>1
    <2> QED BY <2>2, <2>3
  <1>4. FlattenSeq(p) = s
    BY <1>2, <1>3, FlatSingles
  <1> QED BY <1>1, <1>4 DEF Joined, Fields

\* What a detector makes of a match is a text no longer than it.
LEMMA ValueIsPlain ==
    ASSUME NEW t, NEW s \in Plain
    PROVE  Value(t, s) \in Plain /\ Len(Value(t, s)) <= Len(s)
  <1>0. DOMAIN s = 1 .. Len(s) /\ Len(s) \in Nat
    BY DEF Plain
  <1>1. TrimAddress(s) \in Plain /\ Len(TrimAddress(s)) <= Len(s)
    <2> DEFINE stops == {i + 1 : i \in SentenceEnds(s)} \cup ListEnds(s)
                          \cup {i \in DOMAIN s : s[i] \in {Semicolon, Newline}}
    <2>1. stops \in SUBSET (1 .. Len(s) + 1)
      BY <1>0 DEF SentenceEnds, ListEnds
    <2>2. TrimAddress(s) = TrimSpace(UpTo(s, stops))
      BY DEF TrimAddress
    <2> HIDE DEF stops
    <2>3. UpTo(s, stops) \in Plain /\ Len(UpTo(s, stops)) <= Len(s)
      BY <2>1, UpToIsPlain
    <2> QED BY <1>0, <2>2, <2>3, TrimSpaceIsPlain, LengthIsNat
  <1>2. TrimBirthPlace(s) \in Plain /\ Len(TrimBirthPlace(s)) <= Len(s)
    <2>1. SentenceEnds(s) \in SUBSET (1 .. Len(s) + 1)
      BY <1>0 DEF SentenceEnds
    <2>2. UpTo(s, SentenceEnds(s)) \in Plain /\ Len(UpTo(s, SentenceEnds(s))) <= Len(s)
      BY <2>1, UpToIsPlain
    <2> QED BY <1>0, <2>2, TrimSpaceIsPlain, LengthIsNat DEF TrimBirthPlace
  <1>3. TrimAuthority(s) \in Plain /\ Len(TrimAuthority(s)) <= Len(s)
    <2>1. PICK u : u = UpTo(s, {i \in DOMAIN s : s[i] \in Dates})
      OBVIOUS
    <2>2. u \in Plain /\ Len(u) <= Len(s)
      <3>1. {i \in DOMAIN s : s[i] \in Dates} \in SUBSET (1 .. Len(s) + 1)
        BY <1>0
      <3> QED BY <2>1, <3>1, UpToIsPlain
    <2>3. PICK codes : codes = {i \in DOMAIN u : /\ i + 2 <= Len(u)
                                                /\ u[i] = Comma
                                                /\ u[i + 1] = Blank
                                                /\ u[i + 2] = UnitCode}
      OBVIOUS
    <2>4. codes \in SUBSET (1 .. Len(u) + 1)
      BY <2>2, <2>3 DEF Plain
    <2>5. UpTo(u, codes) \in Plain /\ Len(UpTo(u, codes)) <= Len(u)
      BY <2>2, <2>4, UpToIsPlain
    <2>6. TrimAuthority(s) = TrimRight(UpTo(u, codes))
      BY <2>1, <2>3 DEF TrimAuthority
    <2> QED BY <1>0, <2>2, <2>5, <2>6, TrimRightIsPlain, LengthIsNat
  <1>4. TrimToCapitalized(s) \in Plain /\ Len(TrimToCapitalized(s)) <= Len(s)
    <2>1. PICK stops : stops = {i \in Solid(s) : /\ i = 1 \/ s[i - 1] \in Spaces
                                                /\ s[i] \notin Capital}
      OBVIOUS
    <2>2. stops \in SUBSET (1 .. Len(s) + 1)
      BY <1>0, <2>1 DEF Solid
    <2>3. PICK u : u = TrimSpace(UpTo(s, stops))
      OBVIOUS
    <2>4. u \in Plain /\ Len(u) <= Len(s)
      <3>1. UpTo(s, stops) \in Plain /\ Len(UpTo(s, stops)) <= Len(s)
        BY <2>2, UpToIsPlain
      <3> QED BY <1>0, <2>3, <3>1, TrimSpaceIsPlain, LengthIsNat
    <2>5. TrimToCapitalized(s) = Joined(u)
      BY <2>1, <2>3 DEF TrimToCapitalized
    <2> QED BY <1>0, <2>4, <2>5, JoinedIsPlain, LengthIsNat
  <1> QED BY <1>0, <1>1, <1>2, <1>3, <1>4 DEF Value

-----------------------------------------------------------------------------
(* Parts of a text, and one edit of it *)

\* Facts of the library, about parts of sequences.
LEMMA SliceTyped ==
    ASSUME NEW s \in Seq(Element), NEW a \in Nat, NEW b \in Nat,
           a <= b, b <= Len(s)
    PROVE  /\ Slice(s, a, b) \in Seq(Element) /\ Len(Slice(s, a, b)) = b - a
           /\ \A i \in 1 .. b - a : Slice(s, a, b)[i] = s[a + i]
  <1>1. \A i \in a + 1 .. b : s[i] \in Element
    OBVIOUS
  <1> QED BY <1>1, SubSeqProperties DEF Slice

\* Two parts that meet are one.
LEMMA Adjacent ==
    ASSUME NEW s \in Seq(Element), NEW a \in Nat, NEW b \in Nat, NEW c \in Nat,
           a <= b, b <= c, c <= Len(s)
    PROVE  Slice(s, a, b) \o Slice(s, b, c) = Slice(s, a, c)
  <1>1. a + 1 \in 1 .. Len(s) + 1 /\ b \in (a + 1) - 1 .. Len(s) /\ c \in b .. Len(s)
    OBVIOUS
  <1> QED BY <1>1, ConcatAdjacentSubSeq DEF Slice

\* The same, of sequences of sequences.
LEMMA PartsTyped ==
    ASSUME NEW s \in Seq(Seq(Element)), NEW a \in Nat, NEW b \in Nat,
           a <= b, b <= Len(s)
    PROVE  /\ Slice(s, a, b) \in Seq(Seq(Element)) /\ Len(Slice(s, a, b)) = b - a
           /\ \A i \in 1 .. b - a : Slice(s, a, b)[i] = s[a + i]
  <1>1. \A i \in a + 1 .. b : s[i] \in Seq(Element)
    OBVIOUS
  <1> QED BY <1>1, SubSeqProperties DEF Slice

\* And of the parts of these.
LEMMA AdjacentParts ==
    ASSUME NEW s \in Seq(Seq(Element)), NEW a \in Nat, NEW b \in Nat, NEW c \in Nat,
           a <= b, b <= c, c <= Len(s)
    PROVE  Slice(s, a, b) \o Slice(s, b, c) = Slice(s, a, c)
  <1>1. a + 1 \in 1 .. Len(s) + 1 /\ b \in (a + 1) - 1 .. Len(s) /\ c \in b .. Len(s)
    OBVIOUS
  <1> QED BY <1>1, ConcatAdjacentSubSeq DEF Slice

\* What a concatenation holds.
LEMMA Both ==
    ASSUME NEW r \in Seq(Element), NEW s \in Seq(Element)
    PROVE  /\ r \o s \in Seq(Element) /\ Len(r \o s) = Len(r) + Len(s)
           /\ \A i \in 1 .. Len(r) + Len(s) : (r \o s)[i] =
                 IF i <= Len(r) THEN r[i] ELSE s[i - Len(r)]
  BY ConcatProperties

\* Sequences have lengths.
LEMMA LenNat ==
    ASSUME NEW s \in Seq(Element)
    PROVE  Len(s) \in Nat
  OBVIOUS

\* Sequences that agree everywhere are equal.
LEMMA Alike ==
    ASSUME NEW s \in Seq(Element), NEW t \in Seq(Element),
           Len(s) = Len(t), \A i \in 1 .. Len(s) : s[i] = t[i]
    PROVE  s = t
  BY SeqEqual

\* One element is a sequence.
LEMMA SingleTyped ==
    ASSUME NEW c \in Element
    PROVE  <<c>> \in Seq(Element)
  OBVIOUS

\* Concatenation, for steps in which the provers need not look into it.
Glued(r, s) == r \o s

\* One edit: what is before b has not been touched, so that offsets up to b
\* mean what they meant in s.
LEMMA EditByOffset ==
    ASSUME NEW s \in Seq(Element), NEW r,
           NEW a \in Nat, NEW z \in Nat, NEW b \in Nat,
           a <= z, z <= b, b <= Len(s), NEW m
    PROVE  r \in Seq(Element) /\ m = Glued(Slice(s, 0, b), r) =>
              /\ Slice(m, 0, a) = Slice(s, 0, a)
              /\ Slice(m, z, Len(m)) = Glued(Slice(s, z, b), r)
  <1>0. SUFFICES ASSUME r \in Seq(Element), m = Slice(s, 0, b) \o r
                 PROVE  /\ Slice(m, 0, a) = Slice(s, 0, a)
                        /\ Slice(m, z, Len(m)) = Slice(s, z, b) \o r
    BY Zenon DEF Glued
  <1>1. PICK h : h = Slice(s, 0, b)
    OBVIOUS
  <1>2. h \in Seq(Element) /\ Len(h) = b /\ \A i \in 1 .. b : h[i] = s[i]
    <2>1. 0 \in Nat /\ 0 <= b /\ b - 0 = b /\ \A i \in 1 .. b : 0 + i = i
      OBVIOUS
    <2>2. /\ h \in Seq(Element) /\ Len(h) = b - 0
          /\ \A i \in 1 .. b - 0 : h[i] = s[0 + i]
      BY <1>1, <2>1, SliceTyped
    <2> QED BY <2>1, <2>2
  <1>3. PICK n : n = Len(r)
    OBVIOUS
  <1>4. n \in Nat
    BY <1>0, <1>3, LenNat
  <1>5. /\ m \in Seq(Element) /\ Len(m) = b + n
        /\ \A i \in 1 .. b + n : m[i] = IF i <= b THEN h[i] ELSE r[i - b]
    <2>1. m = h \o r
      BY <1>0, <1>1, Zenon
    <2>2. /\ h \o r \in Seq(Element) /\ Len(h \o r) = Len(h) + Len(r)
          /\ \A i \in 1 .. Len(h) + Len(r) :
                (h \o r)[i] = IF i <= Len(h) THEN h[i] ELSE r[i - Len(h)]
      BY <1>0, <1>2, Both, Zenon
    <2> QED BY <1>2, <1>3, <2>1, <2>2, Zenon
  <1>6. b <= Len(m) /\ Len(m) \in Nat /\ z <= Len(m) /\ a <= Len(m) /\ a <= Len(s)
        /\ Len(m) <= Len(m) /\ 0 \in Nat /\ 0 <= a /\ a - 0 = a
    BY <1>4, <1>5
  <1>7. PICK u1, v1, u2, v2, w :
           /\ u1 = Slice(m, 0, a) /\ v1 = Slice(s, 0, a)
           /\ u2 = Slice(s, z, b) /\ v2 = Slice(m, z, Len(m))
           /\ w = u2 \o r
    OBVIOUS
  <1>8. u1 = v1
    <2>0. \A i \in 1 .. a : 0 + i = i
      OBVIOUS
    <2>1. u1 \in Seq(Element) /\ Len(u1) = a /\ \A i \in 1 .. a : u1[i] = m[i]
      <3>1. /\ u1 \in Seq(Element) /\ Len(u1) = a - 0
            /\ \A i \in 1 .. a - 0 : u1[i] = m[0 + i]
        BY <1>5, <1>6, <1>7, SliceTyped
      <3> QED BY <1>6, <2>0, <3>1
    <2>2. v1 \in Seq(Element) /\ Len(v1) = a /\ \A i \in 1 .. a : v1[i] = s[i]
      <3>1. /\ v1 \in Seq(Element) /\ Len(v1) = a - 0
            /\ \A i \in 1 .. a - 0 : v1[i] = s[0 + i]
        BY <1>6, <1>7, SliceTyped
      <3> QED BY <1>6, <2>0, <3>1
    <2>3. ASSUME NEW i \in 1 .. a PROVE u1[i] = v1[i]
      <3>1. i \in 1 .. b /\ i \in 1 .. b + n /\ i <= b
        BY <1>4
      <3> QED BY <1>2, <1>5, <2>1, <2>2, <3>1
    <2> QED BY <2>1, <2>2, <2>3, Alike
  <1>9. v2 = w
    <2>1. u2 \in Seq(Element) /\ Len(u2) = b - z /\ \A i \in 1 .. b - z : u2[i] = s[z + i]
      BY <1>7, SliceTyped
    <2>2. v2 \in Seq(Element) /\ Len(v2) = Len(m) - z
          /\ \A i \in 1 .. Len(m) - z : v2[i] = m[z + i]
      BY <1>5, <1>6, <1>7, SliceTyped
    <2>3. /\ w \in Seq(Element) /\ Len(w) = (b - z) + n
          /\ \A i \in 1 .. (b - z) + n :
                w[i] = IF i <= b - z THEN u2[i] ELSE r[i - (b - z)]
      <3>1. /\ u2 \o r \in Seq(Element) /\ Len(u2 \o r) = Len(u2) + Len(r)
            /\ \A i \in 1 .. Len(u2) + Len(r) :
                  (u2 \o r)[i] = IF i <= Len(u2) THEN u2[i] ELSE r[i - Len(u2)]
        BY <1>0, <2>1, Both, Zenon
      <3> QED BY <1>3, <1>7, <2>1, <3>1, Zenon
    <2>4. Len(w) = Len(v2) /\ Len(w) = Len(m) - z
      BY <1>4, <1>5, <2>2, <2>3
    <2>5. ASSUME NEW i \in 1 .. Len(w) PROVE w[i] = v2[i]
      <3>1. i \in 1 .. (b - z) + n /\ i \in 1 .. Len(m) - z /\ z + i \in 1 .. b + n
        BY <1>4, <1>5, <2>3, <2>4
      <3>2. v2[i] = m[z + i]
        BY <2>2, <3>1
      <3>3. CASE i <= b - z
        <4>1. z + i <= b /\ i \in 1 .. b - z /\ z + i \in 1 .. b
          BY <3>1, <3>3
        <4> QED BY <1>2, <1>5, <2>1, <2>3, <3>1, <3>2, <3>3, <4>1
      <3>4. CASE ~(i <= b - z)
        <4>1. ~(z + i <= b) /\ (z + i) - b = i - (b - z)
          BY <3>1, <3>4
        <4> QED BY <1>5, <2>3, <3>1, <3>2, <3>4, <4>1
      <3> QED BY <3>3, <3>4
    <2> QED BY <2>2, <2>3, <2>4, <2>5, Alike
  <1> QED BY <1>7, <1>8, <1>9, Zenon

\* t stands for s from a to z, the rest of s up to b for itself.
Stands(p, s, t, a, z, b) ==
    /\ p[a + 1] = <<t>>
    /\ \A c \in a + 2 .. z : p[c] = <<>>
    /\ \A c \in z + 1 .. b : p[c] = <<s[c]>>

\* The same, read off the pieces of the mask.
LEMMA PiecesOfEdit ==
    ASSUME NEW s \in Seq(Element), NEW p \in Seq(Seq(Element)), Len(p) = Len(s),
           NEW t \in Element, NEW y,
           NEW a \in Nat, NEW z \in Nat, NEW b \in Nat,
           a < z, z <= b, b <= Len(s)
    PROVE  Stands(p, s, t, a, z, b) /\ y = <<t>> =>
              FlattenSeq(Slice(p, a, Len(s)))
                = Glued(y, Glued(Slice(s, z, b), FlattenSeq(Slice(p, b, Len(s)))))
  <1>0. SUFFICES ASSUME /\ p[a + 1] = <<t>>
                        /\ \A c \in a + 2 .. z : p[c] = <<>>
                        /\ \A c \in z + 1 .. b : p[c] = <<s[c]>>
                 PROVE  FlattenSeq(Slice(p, a, Len(s)))
                          = <<t>> \o (Slice(s, z, b) \o FlattenSeq(Slice(p, b, Len(s))))
    BY Zenon DEF Glued, Stands
  <1>1. PICK n \in Nat : n = Len(s) /\ n = Len(p)
    BY LenNat
  <1>2. PICK w1, w2, w3, w4 :
           /\ w1 = Slice(p, a, a + 1) /\ w2 = Slice(p, a + 1, z)
           /\ w3 = Slice(p, z, b) /\ w4 = Slice(p, b, n)
    OBVIOUS
  <1>3. /\ a + 1 \in Nat /\ a <= a + 1 /\ a + 1 <= z /\ z <= n /\ b <= n /\ n <= n /\ a + 1 <= n
        /\ n <= Len(p)
    BY <1>1
  <1>4. w1 \in Seq(Seq(Element)) /\ Len(w1) = 1 /\ w1[1] = <<t>>
    <2>1. /\ w1 \in Seq(Seq(Element)) /\ Len(w1) = (a + 1) - a
          /\ \A i \in 1 .. (a + 1) - a : w1[i] = p[a + i]
      BY <1>1, <1>2, <1>3, PartsTyped
    <2>2. (a + 1) - a = 1 /\ 1 \in 1 .. 1
      OBVIOUS
    <2> QED BY <1>0, <2>1, <2>2
  <1>5. w2 \in Seq(Seq(Element)) /\ \A i \in 1 .. Len(w2) : w2[i] = <<>>
    <2>1. /\ w2 \in Seq(Seq(Element)) /\ Len(w2) = z - (a + 1)
          /\ \A i \in 1 .. z - (a + 1) : w2[i] = p[(a + 1) + i]
      BY <1>1, <1>2, <1>3, PartsTyped
    <2>2. \A i \in 1 .. z - (a + 1) : (a + 1) + i \in a + 2 .. z
      OBVIOUS
    <2> QED BY <1>0, <2>1, <2>2
  <1>6. PICK u : u = Slice(s, z, b)
    OBVIOUS
  <1>7. u \in Seq(Element) /\ Len(u) = b - z /\ \A i \in 1 .. b - z : u[i] = s[z + i]
    BY <1>6, SliceTyped
  <1>8. w3 \in Seq(Seq(Element)) /\ Len(w3) = Len(u) /\ \A i \in 1 .. Len(u) : w3[i] = <<u[i]>>
    <2>1. /\ w3 \in Seq(Seq(Element)) /\ Len(w3) = b - z
          /\ \A i \in 1 .. b - z : w3[i] = p[z + i]
      BY <1>1, <1>2, <1>3, PartsTyped
    <2>2. \A i \in 1 .. b - z : z + i \in z + 1 .. b
      OBVIOUS
    <2>3. ASSUME NEW i \in 1 .. Len(u) PROVE w3[i] = <<u[i]>>
      <3>1. i \in 1 .. b - z
        BY <1>7
      <3>2. w3[i] = p[z + i] /\ u[i] = s[z + i] /\ z + i \in z + 1 .. b
        BY <1>7, <2>1, <2>2, <3>1
      <3> QED BY <1>0, <3>2
    <2> QED BY <1>7, <2>1, <2>3
  <1>9. w4 \in Seq(Seq(Element))
    BY <1>1, <1>2, <1>3, PartsTyped
  <1>10. Slice(p, a, n) = w1 \o (w2 \o (w3 \o w4))
    <2>1. w3 \o w4 = Slice(p, z, n)
      BY <1>1, <1>2, <1>3, AdjacentParts, Zenon
    <2>2. w2 \o Slice(p, z, n) = Slice(p, a + 1, n)
      BY <1>1, <1>2, <1>3, AdjacentParts, Zenon
    <2>3. w1 \o Slice(p, a + 1, n) = Slice(p, a, n)
      BY <1>1, <1>2, <1>3, AdjacentParts, Zenon
    <2> QED BY <2>1, <2>2, <2>3, Zenon
  <1>11. PICK v3, v2 : v3 = w3 \o w4 /\ v2 = w2 \o v3
    OBVIOUS
  <1>12. v3 \in Seq(Seq(Element)) /\ v2 \in Seq(Seq(Element))
    <2>1. v3 \in Seq(Seq(Element))
      BY <1>8, <1>9, <1>11, TwoParts
    <2> QED BY <1>5, <1>11, <2>1, TwoParts
  <1>13. FlattenSeq(v3) = u \o FlattenSeq(w4)
    <2>1. FlattenSeq(w3) = u
      BY <1>7, <1>8, FlatSingles
    <2>2. FlattenSeq(w3 \o w4) = FlattenSeq(w3) \o FlattenSeq(w4)
      BY <1>8, <1>9, FlatConcat, Zenon
    <2> QED BY <1>11, <2>1, <2>2, Zenon
  <1>14. FlattenSeq(v2) = FlattenSeq(v3)
    <2>1. FlattenSeq(w2 \o v3) = FlattenSeq(w2) \o FlattenSeq(v3)
      BY <1>5, <1>12, FlatConcat, Zenon
    <2>2. FlattenSeq(w2) = <<>>
      BY <1>5, FlatNothing
    <2>3. PICK f \in Seq(Element) : f = FlattenSeq(v3)
      BY <1>12, FlatTyped
    <2>4. <<>> \o f = f
      BY ConcatEmptySeq
    <2> QED BY <1>11, <2>1, <2>2, <2>3, <2>4, Zenon
  <1>15. FlattenSeq(w1 \o v2) = <<t>> \o FlattenSeq(v2)
    <2>1. FlattenSeq(w1) = <<t>>
      BY <1>4, FlatOne
    <2>2. FlattenSeq(w1 \o v2) = FlattenSeq(w1) \o FlattenSeq(v2)
      BY <1>4, <1>12, FlatConcat, Zenon
    <2> QED BY <2>1, <2>2, Zenon
  <1>16. FlattenSeq(Slice(p, a, n)) = <<t>> \o (u \o FlattenSeq(w4))
    BY <1>10, <1>11, <1>13, <1>14, <1>15, Zenon
  <1> QED BY <1>1, <1>2, <1>6, <1>16, Zenon

\* And restored.
LEMMA RestoredPiece ==
    ASSUME NEW s, NEW r, NEW t \in Element,
           NEW d, d \in [DOMAIN d -> Seq(Element)],
           NEW a \in Nat, NEW z \in Nat, NEW b \in Nat,
           a <= z, z <= b, b <= Len(s), t \in DOMAIN d
    PROVE  /\ s \in Seq(Element) /\ r \in Seq(Element)
           /\ \A i \in 1 .. Len(s) : s[i] \notin DOMAIN d
           /\ d[t] = Slice(s, a, z)
           /\ Subst(r, d) = Slice(s, b, Len(s))
           => Subst(Glued(<<t>>, Glued(Slice(s, z, b), r)), d) = Slice(s, a, Len(s))
  <1>0. SUFFICES ASSUME s \in Seq(Element), r \in Seq(Element),
                        \A i \in 1 .. Len(s) : s[i] \notin DOMAIN d,
                        d[t] = Slice(s, a, z),
                        Subst(r, d) = Slice(s, b, Len(s))
                 PROVE  Subst(<<t>> \o (Slice(s, z, b) \o r), d) = Slice(s, a, Len(s))
    BY Zenon DEF Glued
  <1>1. PICK n : n = Len(s)
    OBVIOUS
  <1>2. s \in Seq(Element) /\ r \in Seq(Element)
    BY <1>0
  <1>3. n \in Nat /\ n <= n /\ z <= n /\ b <= n /\ a <= n /\ n <= Len(s)
    BY <1>1, <1>2, LenNat
  <1>4. PICK u : u = Slice(s, z, b)
    OBVIOUS
  <1>5. u \in Seq(Element) /\ Len(u) = b - z /\ \A i \in 1 .. b - z : u[i] = s[z + i]
    BY <1>2, <1>4, SliceTyped
  <1>6. Subst(u, d) = u
    <2>1. ASSUME NEW i \in 1 .. Len(u) PROVE u[i] \notin DOMAIN d
      <3>1. i \in 1 .. b - z
        BY <1>5
      <3>2. z + i \in 1 .. n
        BY <1>3, <3>1
      <3> QED BY <1>0, <1>1, <1>5, <3>1, <3>2
    <2> QED BY <1>5, <2>1, SubstNothing
  <1>7. PICK v, y : v = u \o r /\ y = <<t>>
    OBVIOUS
  <1>8. v \in Seq(Element) /\ y \in Seq(Element)
    <2>1. u \in Seq(Element) /\ r \in Seq(Element)
      BY <1>2, <1>5
    <2> QED BY <1>7, <2>1, Both, SingleTyped, Zenon
  <1>9. Subst(v, d) = Slice(s, z, n)
    <2>1. Subst(u \o r, d) = Subst(u, d) \o Subst(r, d)
      <3>1. u \in Seq(Element) /\ r \in Seq(Element)
        BY <1>2, <1>5
      <3> QED BY <3>1, SubstConcat, Zenon
    <2>2. Slice(s, z, b) \o Slice(s, b, n) = Slice(s, z, n)
      BY <1>2, <1>3, Adjacent
    <2> QED BY <1>0, <1>1, <1>4, <1>6, <1>7, <2>1, <2>2, Zenon
  <1>10. Subst(y, d) = Slice(s, a, z)
    <2>1. Subst(<<t>>, d) = d[t]
      BY SubstOne
    <2> QED BY <1>0, <1>7, <2>1, Zenon
  <1>11. Subst(y \o v, d) = Subst(y, d) \o Subst(v, d)
    BY <1>8, SubstConcat, Zenon
  <1>12. Slice(s, a, z) \o Slice(s, z, n) = Slice(s, a, n)
    BY <1>2, <1>3, Adjacent
  <1> QED BY <1>1, <1>4, <1>7, <1>9, <1>10, <1>11, <1>12, Zenon

\* What does not occur is not replaced.
LEMMA SubstAlike ==
    ASSUME NEW s \in Seq(Element),
           NEW d, d \in [DOMAIN d -> Seq(Element)],
           NEW e, e \in [DOMAIN e -> Seq(Element)],
           \A i \in 1 .. Len(s) : /\ s[i] \in DOMAIN d <=> s[i] \in DOMAIN e
                                  /\ s[i] \in DOMAIN d => d[s[i]] = e[s[i]]
    PROVE  Subst(s, d) = Subst(s, e)
  <1>1. PICK p, q : p = Pieces(s, d) /\ q = Pieces(s, e)
    OBVIOUS
  <1>2. /\ p \in Seq(Seq(Element)) /\ Len(p) = Len(s)
        /\ \A i \in 1 .. Len(s) : p[i] = IF s[i] \in DOMAIN d THEN d[s[i]] ELSE <<s[i]>>
    BY <1>1, PiecesTyped
  <1>3. /\ q \in Seq(Seq(Element)) /\ Len(q) = Len(s)
        /\ \A i \in 1 .. Len(s) : q[i] = IF s[i] \in DOMAIN e THEN e[s[i]] ELSE <<s[i]>>
    BY <1>1, PiecesTyped
  <1>4. p = q
    <2>1. \A i \in 1 .. Len(p) : p[i] = q[i]
      BY <1>2, <1>3
    <2> QED BY <1>2, <1>3, <2>1, SameParts
  <1> QED BY <1>1, <1>4 DEF Subst

-----------------------------------------------------------------------------
(* The selected entities in the order of the text *)

\* A finite set can be sorted by numbers given to its elements.
LEMMA SortedExists ==
    ASSUME NEW K, IsFiniteSet(K), NEW st, NEW N \in Nat, \A k \in K : st[k] \in 0 .. N
    PROVE  \E f \in SetToSeqs(K) :
              \A i, j \in DOMAIN f : i < j => st[f[i]] <= st[f[j]]
  <1> DEFINE Sorted(f, n) == \A i, j \in 1 .. n : i < j => /\ f[i] # f[j]
                                                         /\ st[f[i]] <= st[f[j]]
             Ok(n) == \A L \in SUBSET K : Cardinality(L) = n =>
                          \E f \in [1 .. n -> L] : Sorted(f, n)
             S == {n \in Nat : Ok(n)}
  <1>1. 0 \in S
    <2> SUFFICES ASSUME NEW L \in SUBSET K
                 PROVE  \E f \in [1 .. 0 -> L] : Sorted(f, 0)
      OBVIOUS
    <2>1. [i \in 1 .. 0 |-> 0] \in [1 .. 0 -> L]
      OBVIOUS
    <2>2. Sorted([i \in 1 .. 0 |-> 0], 0)
      OBVIOUS
    <2> QED BY <2>1, <2>2
  <1>2. ASSUME NEW n \in Nat, n \in S PROVE n + 1 \in S
    <2> SUFFICES ASSUME NEW L \in SUBSET K, Cardinality(L) = n + 1
                 PROVE  \E f \in [1 .. n + 1 -> L] : Sorted(f, n + 1)
      OBVIOUS
    <2>1. IsFiniteSet(L)
      BY FS_Subset
    <2>2. L # {}
      BY FS_EmptySet
    <2>3. PICK V : V = {st[k] : k \in L}
      OBVIOUS
    <2>4. V \in SUBSET (0 .. N) /\ V # {}
      BY <2>2, <2>3
    <2>5. Max(V) \in V /\ \A y \in V : y <= Max(V)
      BY <2>4, Greatest
    <2>6. PICK m \in L : \A k \in L : st[k] <= st[m]
      <3>1. PICK m \in L : st[m] = Max(V)
        BY <2>3, <2>5
      <3>2. \A k \in L : st[k] \in V
        BY <2>3
      <3>3. \A k \in L : st[k] <= st[m]
        BY <2>5, <3>1, <3>2
      <3> QED BY <3>3
    <2>7. Cardinality(L \ {m}) = n
      <3>1. Cardinality(L \ {m}) = Cardinality(L) - 1
        BY <2>1, FS_RemoveElement
      <3> QED BY <3>1
    <2>8. PICK g \in [1 .. n -> L \ {m}] : Sorted(g, n)
      <3>1. L \ {m} \in SUBSET K
        OBVIOUS
      <3> QED BY <1>2, <2>7, <3>1
    <2>9. PICK f : f = [i \in 1 .. n + 1 |-> IF i <= n THEN g[i] ELSE m]
      OBVIOUS
    <2>10. f \in [1 .. n + 1 -> L]
      <3>1. \A i \in 1 .. n + 1 : f[i] \in L
        <4> SUFFICES ASSUME NEW i \in 1 .. n + 1 PROVE f[i] \in L
          OBVIOUS
        <4>1. CASE i <= n
          BY <2>9, <4>1
        <4>2. CASE ~(i <= n)
          BY <2>9, <4>2
        <4> QED BY <4>1, <4>2
      <3> QED BY <2>9, <3>1
    <2>11. Sorted(f, n + 1)
      <3> SUFFICES ASSUME NEW i \in 1 .. n + 1, NEW j \in 1 .. n + 1, i < j
                   PROVE  f[i] # f[j] /\ st[f[i]] <= st[f[j]]
        OBVIOUS
      <3>1. i \in 1 .. n /\ i <= n /\ f[i] = g[i]
        BY <2>9
      <3>2. CASE j <= n
        <4>1. j \in 1 .. n /\ f[j] = g[j]
          BY <2>9, <3>2
        <4> QED BY <2>8, <3>1, <4>1
      <3>3. CASE ~(j <= n)
        <4>1. f[j] = m
          BY <2>9, <3>3
        <4>2. g[i] \in L \ {m}
          BY <3>1
        <4> QED BY <2>6, <3>1, <4>1, <4>2
      <3> QED BY <3>2, <3>3
    <2> QED BY <2>10, <2>11
  <1>3. \A n \in Nat : n \in S
    <2> HIDE DEF S
    <2> QED BY <1>1, <1>2, Induction
  <1>4. PICK n \in Nat : n = Cardinality(K)
    BY FS_CardinalityType
  <1>5. PICK f \in [1 .. n -> K] : Sorted(f, n)
    BY <1>3, <1>4
  <1>6. \A i, j \in 1 .. n : i # j => f[i] # f[j]
    BY <1>5
  <1>7. f \in SetToSeqs(K) /\ DOMAIN f = 1 .. n
    BY <1>4, <1>6 DEF SetToSeqs
  <1> QED BY <1>5, <1>7

\* What detection promises of an entity.
LEMMA EntityIs ==
    ASSUME text \in Plain, NEW e \in MatchesIn(text)
    PROVE  /\ e.type \in Types
           /\ e.start \in Nat /\ e.end \in Nat
           /\ e.start < e.end /\ e.end <= Len(text)
           /\ e.value \in Plain
           /\ \E b \in Nat : /\ e.start < b /\ b <= Len(text)
                             /\ e.value = Value(e.type, Slice(text, e.start, b))
                             /\ e.end = e.start + Len(e.value)
  <1>1. PICK y \in Types \X Spans : y[2][2] <= Len(text) /\ Returned(y[1], text, y[2])
                                    /\ e = Entity(text, y[1], y[2])
    BY DEF MatchesIn
  <1>2. PICK t, a, b : t = y[1] /\ a = y[2][1] /\ b = y[2][2]
    OBVIOUS
  <1>3. t \in Types /\ a \in Nat /\ b \in Nat /\ a < b /\ a <= b /\ b <= Len(text)
    BY <1>1, <1>2, MaskingAssumption
  <1>4. PICK v : v = Value(t, Slice(text, a, b))
    OBVIOUS
  <1>5. e = [type |-> t, start |-> a, end |-> a + Len(v), value |-> v, conf |-> Confidence[t]]
    BY <1>1, <1>2, <1>4 DEF Entity
  <1>6. v # <<>>
    BY <1>1, <1>2, <1>4 DEF Returned
  <1>7. Slice(text, a, b) \in Plain /\ Len(Slice(text, a, b)) = b - a
    <2>1. text \in Seq(Element)
      BY PlainIs
    <2>2. /\ Slice(text, a, b) \in Seq(Element) /\ Len(Slice(text, a, b)) = b - a
          /\ \A i \in 1 .. b - a : Slice(text, a, b)[i] = text[a + i]
      BY <1>3, <2>1, SliceTyped
    <2>3. \A i \in 1 .. b - a : a + i \in 1 .. Len(text)
      BY <1>3, LengthIsNat
    <2> QED BY <2>2, <2>3, PlainIs
  <1>8. v \in Plain /\ Len(v) <= b - a
    BY <1>4, <1>7, ValueIsPlain
  <1>9. Len(v) \in Nat /\ Len(v) # 0
    BY <1>6, <1>8 DEF Plain
  <1>10. a + Len(v) \in Nat /\ a < a + Len(v) /\ a + Len(v) <= Len(text)
    BY <1>3, <1>8, <1>9, LengthIsNat
  <1>11. e.type = t /\ e.start = a /\ e.end = a + Len(v) /\ e.value = v
    BY <1>5
  <1> QED BY <1>3, <1>4, <1>8, <1>10, <1>11

\* The kept entities in the order of the text.
At(i) == entities[InText[i]]

\* Selected entities lie in the text, and none is empty.
KeptPlaced ==
    \A k \in kept : /\ entities[k].start \in Nat /\ entities[k].end \in Nat
                    /\ entities[k].start < entities[k].end
                    /\ entities[k].end <= Len(text)

\* They do in every state the invariant allows.
LEMMA Placed ==
    ASSUME IInv
    PROVE  text \in Plain /\ KeptPlaced
  <1>1. text \in Plain
    BY MaskingAssumption DEF IInv, TypeOK, Plain
  <1>2. ASSUME NEW k \in kept PROVE entities[k] \in MatchesIn(text)
    BY DEF IInv, TypeOK
  <1> QED BY <1>1, <1>2, EntityIs DEF KeptPlaced

\* They are all there, and each ends before the next one begins.
LEMMA InTextIs ==
    ASSUME IInv, NEW n, n = Cardinality(kept)
    PROVE  /\ n \in Nat /\ InText \in [1 .. n -> kept] /\ Len(InText) = n
           /\ \A i, j \in 1 .. n : i < j => At(i).end <= At(j).start
           /\ \A k \in kept : \E i \in 1 .. n : InText[i] = k
  <1>1. IsFiniteSet(kept) /\ n \in Nat
    BY IndicesFinite DEF IInv, TypeOK
  <1>2. text \in Plain /\ KeptPlaced /\ Len(text) \in Nat
    BY Placed, LengthIsNat
  <1>3. PICK st : st = [k \in kept |-> entities[k].start]
    OBVIOUS
  <1>4. \A k \in kept : st[k] \in 0 .. Len(text)
    BY <1>2, <1>3 DEF KeptPlaced
  <1>5. \E f \in SetToSeqs(kept) :
           \A i, j \in DOMAIN f : i < j => st[f[i]] <= st[f[j]]
    BY <1>1, <1>2, <1>4, SortedExists
  <1>6. \A f \in SetToSeqs(kept) : f \in [1 .. n -> kept] /\ DOMAIN f = 1 .. n
                                   /\ \A i, j \in 1 .. n : i # j => f[i] # f[j]
    BY DEF SetToSeqs
  <1>7. \E f \in SetToSeqs(kept) :
           \A i, j \in DOMAIN f : i < j => entities[f[i]].start <= entities[f[j]].start
    <2>1. PICK f \in SetToSeqs(kept) :
             \A i, j \in DOMAIN f : i < j => st[f[i]] <= st[f[j]]
      BY <1>5
    <2>2. \A i \in DOMAIN f : st[f[i]] = entities[f[i]].start
      BY <1>3, <1>6
    <2> QED BY <2>1, <2>2
  <1>8. PICK g : g = InText
    OBVIOUS
  <1>9. /\ g \in SetToSeqs(kept)
        /\ \A i, j \in DOMAIN g : i < j => entities[g[i]].start <= entities[g[j]].start
    BY <1>7, <1>8 DEF InText
  <1>10. g \in [1 .. n -> kept] /\ Len(g) = n /\ DOMAIN g = 1 .. n
         /\ \A i, j \in 1 .. n : i # j => g[i] # g[j]
    BY <1>1, <1>6, <1>9
  <1>11. ASSUME NEW i \in 1 .. n, NEW j \in 1 .. n, i < j
         PROVE  entities[g[i]].end <= entities[g[j]].start
    <2>1. g[i] \in kept /\ g[j] \in kept /\ g[i] # g[j]
      BY <1>10, <1>11
    <2>2. ~Overlaps(entities[g[i]], entities[g[j]])
      BY <2>1 DEF IInv, KeptApart
    <2>3. entities[g[i]].start <= entities[g[j]].start
      BY <1>9, <1>10, <1>11
    <2>4. PICK a, z, b, c : /\ a = entities[g[i]].start /\ z = entities[g[i]].end
                            /\ b = entities[g[j]].start /\ c = entities[g[j]].end
      OBVIOUS
    <2>5. a \in Nat /\ z \in Nat /\ b \in Nat /\ c \in Nat /\ a < z /\ b < c
      BY <1>2, <2>1, <2>4 DEF KeptPlaced
    <2>6. ~(a < c /\ b < z) /\ a <= b
      BY <2>2, <2>3, <2>4 DEF Overlaps
    <2>7. z <= b
      BY <2>5, <2>6
    <2> QED BY <2>4, <2>7
  <1>12. ASSUME NEW k \in kept PROVE \E i \in 1 .. n : g[i] = k
    <2>1. g \in Injection(1 .. n, kept)
      BY <1>10 DEF Injection, IsInjective
    <2>2. Cardinality(1 .. n) = Cardinality(kept)
      BY <1>1, FS_Interval
    <2>3. g \in Surjection(1 .. n, kept)
      BY <1>1, <2>1, <2>2, FS_Injection
    <2> QED BY <2>3 DEF Surjection
  <1> QED BY <1>1, <1>8, <1>10, <1>11, <1>12 DEF At

\* The mask, one piece per element of the text.
Bits ==
    [c \in 1 .. Len(text) |->
        IF \E i \in 1 .. Len(InText) : entities[InText[i]].start = c - 1
        THEN <<Token(CHOOSE i \in 1 .. Len(InText) :
                        entities[InText[i]].start = c - 1)>>
        ELSE IF \E n \in kept : entities[n].start < c /\ c <= entities[n].end
        THEN <<>>
        ELSE <<text[c]>>]

\* What a token is made of.
LEMMA TokenIs ==
    ASSUME IInv, NEW i \in 1 .. Cardinality(kept)
    PROVE  Token(i) \in [type : Types, number : Nat] /\ Token(i).number = i - 1
  <1>1. InText[i] \in kept
    BY InTextIs
  <1>2. entities[InText[i]] \in MatchesIn(text)
    BY <1>1 DEF IInv, TypeOK
  <1>3. entities[InText[i]].type \in Types
    BY <1>2, Placed, EntityIs
  <1>4. i \in Nat /\ i - 1 \in Nat
    <2>1. Cardinality(kept) \in Nat
      BY InTextIs
    <2> QED BY <2>1
  <1> QED BY <1>3, <1>4 DEF Token

\* Where an entity begins is its token, the rest of it is nothing.
LEMMA BitsInside ==
    ASSUME IInv, NEW i \in 1 .. Cardinality(kept)
    PROVE  /\ Bits[At(i).start + 1] = <<Token(i)>>
           /\ \A c \in At(i).start + 2 .. At(i).end : Bits[c] = <<>>
  <1>1. PICK n : n = Cardinality(kept)
    OBVIOUS
  <1>2. /\ n \in Nat /\ InText \in [1 .. n -> kept] /\ Len(InText) = n
        /\ \A j, k \in 1 .. n : j < k => At(j).end <= At(k).start
        /\ \A k \in kept : \E j \in 1 .. n : InText[j] = k
    BY <1>1, InTextIs
  <1>3. \A j \in 1 .. n : /\ At(j).start \in Nat /\ At(j).end \in Nat
                          /\ At(j).start < At(j).end /\ At(j).end <= Len(text)
    BY <1>2, Placed DEF KeptPlaced, At
  <1>4. Len(text) \in Nat /\ i \in 1 .. n
    BY <1>1, Placed, LengthIsNat
  <1>5. ASSUME NEW j \in 1 .. n, NEW c \in Int, At(i).start < c, c <= At(i).end,
               At(j).start = c - 1
        PROVE  j = i
    <2>1. CASE j < i
      <3>1. At(j).end <= At(i).start
        BY <1>2, <1>4, <2>1
      <3> QED BY <1>3, <1>4, <1>5, <3>1
    <2>2. CASE i < j
      <3>1. At(i).end <= At(j).start
        BY <1>2, <1>4, <2>2
      <3> QED BY <1>3, <1>4, <1>5, <3>1
    <2> QED BY <1>4, <2>1, <2>2
  <1>6. PICK c : c = At(i).start + 1
    OBVIOUS
  <1>7. c \in 1 .. Len(text) /\ At(i).start < c /\ c <= At(i).end /\ At(i).start = c - 1
    BY <1>3, <1>4, <1>6
  <1>8. (CHOOSE j \in 1 .. Len(InText) : At(j).start = c - 1) = i
    <2>1. \A j \in 1 .. n : At(j).start = c - 1 => j = i
      BY <1>5, <1>7
    <2> QED BY <1>2, <1>4, <1>7, <2>1
  <1>9. Bits[c] = <<Token(i)>>
    <2>1. \E j \in 1 .. Len(InText) : At(j).start = c - 1
      BY <1>2, <1>4, <1>7
    <2>2. Bits[c] = <<Token(CHOOSE j \in 1 .. Len(InText) : At(j).start = c - 1)>>
      BY <1>7, <2>1 DEF Bits, At
    <2> QED BY <1>8, <2>2
  <1>10. ASSUME NEW e \in At(i).start + 2 .. At(i).end PROVE Bits[e] = <<>>
    <2>1. e \in 1 .. Len(text) /\ At(i).start < e /\ e <= At(i).end /\ e \in Int
          /\ At(i).start # e - 1
      BY <1>3, <1>4
    <2>2. ~\E j \in 1 .. Len(InText) : At(j).start = e - 1
      BY <1>2, <1>5, <2>1
    <2>3. \E k \in kept : entities[k].start < e /\ e <= entities[k].end
      BY <1>2, <1>4, <2>1 DEF At
    <2> QED BY <2>1, <2>2, <2>3 DEF Bits, At
  <1> QED BY <1>6, <1>9, <1>10

\* What lies in no entity stays.
LEMMA BitsOutside ==
    ASSUME IInv, NEW c \in 1 .. Len(text),
           \A i \in 1 .. Cardinality(kept) : ~(At(i).start < c /\ c <= At(i).end)
    PROVE  Bits[c] = <<text[c]>>
  <1>1. PICK n : n = Cardinality(kept)
    OBVIOUS
  <1>2. /\ n \in Nat /\ InText \in [1 .. n -> kept] /\ Len(InText) = n
        /\ \A k \in kept : \E j \in 1 .. n : InText[j] = k
    BY <1>1, InTextIs
  <1>3. \A j \in 1 .. n : At(j).start \in Nat /\ At(j).end \in Nat /\ At(j).start < At(j).end
    BY <1>2, Placed DEF KeptPlaced, At
  <1>4. Len(text) \in Nat
    BY Placed, LengthIsNat
  <1>5. ~\E j \in 1 .. Len(InText) : At(j).start = c - 1
    <2> SUFFICES ASSUME NEW j \in 1 .. n, At(j).start = c - 1 PROVE FALSE
      BY <1>2
    <2>1. At(j).start < c /\ c <= At(j).end
      BY <1>3, <1>4
    <2> QED BY <1>1, <2>1
  <1>6. ~\E k \in kept : entities[k].start < c /\ c <= entities[k].end
    BY <1>1, <1>2 DEF At
  <1> QED BY <1>5, <1>6 DEF Bits, At

\* There is a piece of the mask for every element of the text.
LEMMA BitsTyped ==
    ASSUME IInv
    PROVE  Bits \in Seq(Seq(Element)) /\ Len(Bits) = Len(text)
  <1>1. text \in Plain /\ Len(text) \in Nat
    BY Placed, LengthIsNat
  <1>2. ASSUME NEW c \in 1 .. Len(text) PROVE Bits[c] \in Seq(Element)
    <2>1. CASE \E i \in 1 .. Cardinality(kept) : At(i).start < c /\ c <= At(i).end
      <3>1. PICK i \in 1 .. Cardinality(kept) : At(i).start < c /\ c <= At(i).end
        BY <2>1
      <3>2. InText[i] \in kept /\ i \in Nat
        BY InTextIs
      <3>3. At(i).start \in Nat /\ At(i).end \in Nat
        BY <3>2, Placed DEF At, KeptPlaced
      <3>4. CASE c = At(i).start + 1
        <4>1. Bits[c] = <<Token(i)>>
          BY <3>4, BitsInside
        <4>2. Token(i) \in Element
          BY TokenIs, ElementIs
        <4> QED BY <4>1, <4>2, SingleTyped
      <3>5. CASE c # At(i).start + 1
        <4>1. c \in At(i).start + 2 .. At(i).end
          BY <3>1, <3>3, <3>5
        <4>2. Bits[c] = <<>>
          BY <4>1, BitsInside
        <4> QED BY <4>2
      <3> QED BY <3>4, <3>5
    <2>2. CASE ~\E i \in 1 .. Cardinality(kept) : At(i).start < c /\ c <= At(i).end
      <3>1. Bits[c] = <<text[c]>>
        BY <2>2, BitsOutside
      <3>2. text[c] \in Element
        BY <1>1, PlainIs
      <3> QED BY <3>1, <3>2, SingleTyped
    <2> QED BY <2>1, <2>2
  <1>3. PICK f : f = Bits
    OBVIOUS
  <1>4. f = [c \in 1 .. Len(text) |-> f[c]]
    BY <1>3 DEF Bits
  <1>5. f \in [1 .. Len(text) -> Seq(Element)]
    BY <1>2, <1>3, <1>4
  <1>6. f \in Seq(Seq(Element)) /\ Len(f) = Len(text)
    BY <1>1, <1>5
  <1> QED BY <1>3, <1>6

-----------------------------------------------------------------------------
(* Editing *)

\* Where the part of the text begins that has been edited.
Border == IF left = Cardinality(kept) THEN Len(text) ELSE At(left + 1).start

\* What it has become.
Remade == FlattenSeq(Slice(Bits, Border, Len(text)))

\* Every kept entity has the value of its place in the text.
ValuesStand ==
    \A k \in kept :
        entities[k].value = Slice(text, entities[k].start, entities[k].end)

\* The tokens of the entities from l + 1 on.
TokensOf(l) == {Token(i) : i \in l + 1 .. Cardinality(kept)}

\* Until the selection is made, nothing is masked.
Untouched == phase \in {"detect", "select"} => masked = text /\ tokens = <<>>

\* The invariant of editing: the text before Border is as it was, the rest is
\* the rest of the mask; the table holds the tokens in it with the values of
\* their entities.  Putting these back, where each is what stood in its
\* place, gives the rest of the text.
Edited ==
    phase \in {"edit", "restore", "done"} =>
        /\ DOMAIN tokens = TokensOf(left)
        /\ tokens \in [DOMAIN tokens -> Plain]
        /\ \A i \in left + 1 .. Cardinality(kept) : tokens[Token(i)] = At(i).value
        /\ masked = Glued(Slice(text, 0, Border), Remade)
        /\ \A j \in 1 .. Len(Remade) : Remade[j] \in Words \cup Signs \cup DOMAIN tokens
        /\ ValuesStand => Subst(Remade, tokens) = Slice(text, Border, Len(text))

\* Nothing that a step leaves of the selection changes the mask.
LEMMA SameMask ==
    ASSUME UNCHANGED <<text, entities, kept>>
    PROVE  /\ InText' = InText /\ Bits' = Bits /\ Cardinality(kept)' = Cardinality(kept)
           /\ \A i : Token(i)' = Token(i) /\ At(i)' = At(i)
           /\ ValuesStand' <=> ValuesStand
  <1>1. InText' = InText
    BY DEF InText
  <1>2. \A i : Token(i)' = Token(i) /\ At(i)' = At(i)
    BY <1>1 DEF Token, At
  <1>3. Bits' = Bits
    BY <1>1 DEF Bits, Token
  <1>4. ValuesStand' <=> ValuesStand
    BY DEF ValuesStand
  <1> QED BY <1>1, <1>2, <1>3, <1>4

\* Bounds of what an edit replaces.
LEMMA Bounds ==
    ASSUME IInv, left > 0
    PROVE  /\ left \in 1 .. Cardinality(kept)
           /\ At(left).start \in Nat /\ At(left).end \in Nat /\ Border \in Nat
           /\ At(left).start < At(left).end /\ At(left).end <= Border
           /\ Border <= Len(text)
           /\ \A c \in At(left).end + 1 .. Border :
                 \A i \in 1 .. Cardinality(kept) : ~(At(i).start < c /\ c <= At(i).end)
  <1>1. PICK n : n = Cardinality(kept)
    OBVIOUS
  <1>2. /\ n \in Nat /\ InText \in [1 .. n -> kept]
        /\ \A j, k \in 1 .. n : j < k => At(j).end <= At(k).start
    BY <1>1, InTextIs
  <1>3. \A j \in 1 .. n : /\ At(j).start \in Nat /\ At(j).end \in Nat
                          /\ At(j).start < At(j).end /\ At(j).end <= Len(text)
    BY <1>2, Placed DEF KeptPlaced, At
  <1>4. PICK l : l = left
    OBVIOUS
  <1>5. l \in 1 .. n
    BY <1>1, <1>2, <1>4 DEF IInv, TypeOK
  <1>6. Len(text) \in Nat
    BY Placed, LengthIsNat
  <1>7. PICK b : b = Border
    OBVIOUS
  <1>8. b = IF l = n THEN Len(text) ELSE At(l + 1).start
    BY <1>1, <1>4, <1>7 DEF Border
  <1>9. l # n => l + 1 \in 1 .. n /\ l < l + 1
    BY <1>2, <1>5
  <1>10. b \in Nat /\ b <= Len(text) /\ At(l).end <= b
    <2>1. CASE l = n
      BY <1>3, <1>5, <1>6, <1>8, <2>1
    <2>2. CASE l # n
      <3>1. b = At(l + 1).start /\ l + 1 \in 1 .. n /\ l < l + 1
        BY <1>8, <1>9, <2>2
      <3>2. At(l).end <= At(l + 1).start
        BY <1>2, <1>5, <3>1
      <3>3. At(l + 1).start \in Nat /\ At(l + 1).end \in Nat /\ At(l + 1).start < At(l + 1).end
            /\ At(l + 1).end <= Len(text)
        BY <1>3, <3>1
      <3> QED BY <1>6, <3>1, <3>2, <3>3
    <2> QED BY <2>1, <2>2
  <1>11. ASSUME NEW c \in At(l).end + 1 .. b, NEW i \in 1 .. n
         PROVE  ~(At(i).start < c /\ c <= At(i).end)
    <2>0. At(l).start \in Nat /\ At(l).end \in Nat /\ At(l).start < At(l).end
          /\ At(i).start \in Nat /\ At(i).end \in Nat /\ At(i).start < At(i).end
          /\ At(i).end <= Len(text)
      BY <1>3, <1>5
    <2>1. CASE i < l
      <3>1. At(i).end <= At(l).start
        BY <1>2, <1>5, <2>1
      <3> QED BY <1>10, <2>0, <3>1
    <2>2. CASE i = l
      BY <1>10, <2>0, <2>2
    <2>3. CASE i > l
      <3>1. b = At(l + 1).start /\ l + 1 \in 1 .. n
        BY <1>2, <1>5, <1>8, <1>9, <2>3
      <3>2. b <= At(i).start
        <4>1. CASE i = l + 1
          BY <1>10, <3>1, <4>1
        <4>2. CASE i > l + 1
          <5>1. At(l + 1).end <= At(i).start
            BY <1>2, <3>1, <4>2
          <5>2. At(l + 1).start \in Nat /\ At(l + 1).end \in Nat /\ At(l + 1).start < At(l + 1).end
            BY <1>3, <3>1
          <5> QED BY <2>0, <3>1, <5>1, <5>2
        <4> QED BY <1>5, <2>3, <4>1, <4>2
      <3> QED BY <1>10, <2>0, <3>2
    <2> QED BY <1>5, <2>1, <2>2, <2>3
  <1>12. /\ At(l).start \in Nat /\ At(l).end \in Nat /\ At(l).start < At(l).end
    BY <1>3, <1>5
  <1> QED BY <1>1, <1>4, <1>5, <1>7, <1>10, <1>11, <1>12

\* The number of a token is its place: no other token is put into the text.
LEMMA TokenNew ==
    ASSUME IInv, left > 0
    PROVE  /\ Token(left) \notin TokensOf(left)
           /\ Token(left) \notin Words \cup Signs
           /\ TokensOf(left - 1) = TokensOf(left) \cup {Token(left)}
           /\ \A i \in left + 1 .. Cardinality(kept) : Token(i) # Token(left)
  <1>1. PICK n, l : n = Cardinality(kept) /\ l = left
    OBVIOUS
  <1>2. n \in Nat /\ l \in 1 .. n
    BY <1>1, Bounds, InTextIs
  <1>3. \A i \in 1 .. n : Token(i) \in [type : Types, number : Nat] /\ Token(i).number = i - 1
    BY <1>1, TokenIs
  <1>4. \A i \in l + 1 .. n : Token(i) # Token(l)
    <2> SUFFICES ASSUME NEW i \in l + 1 .. n PROVE Token(i) # Token(l)
      OBVIOUS
    <2>1. i \in 1 .. n /\ i - 1 # l - 1
      BY <1>2
    <2>2. Token(i).number # Token(l).number
      BY <1>2, <1>3, <2>1
    <2> QED BY <2>2
  <1>5. Token(l) \notin Words \cup Signs
    BY <1>2, <1>3, MaskingAssumption
  <1>6. (l - 1) + 1 .. n = (l + 1 .. n) \cup {l}
    BY <1>2
  <1>7. {Token(i) : i \in (l - 1) + 1 .. n} = {Token(i) : i \in l + 1 .. n} \cup {Token(l)}
    BY <1>6, Zenon
  <1> QED BY <1>1, <1>4, <1>5, <1>7 DEF TokensOf

\* Border lies in the text, and what is behind it is made of elements.
LEMMA RemadeTyped ==
    ASSUME IInv
    PROVE  /\ text \in Seq(Element) /\ Len(text) \in Nat
           /\ Border \in Nat /\ Border <= Len(text)
           /\ Remade \in Seq(Element)
  <1>1. text \in Seq(Element) /\ Len(text) \in Nat
    BY Placed, PlainIs, LengthIsNat
  <1>2. PICK n, l, b, k : n = Cardinality(kept) /\ l = left /\ b = Border /\ k = Len(text)
    OBVIOUS
  <1>3. k \in Nat
    BY <1>1, <1>2
  <1>4. n \in Nat /\ InText \in [1 .. n -> kept]
    BY <1>2, InTextIs
  <1>5. l \in 0 .. n
    BY <1>2, <1>4 DEF IInv, TypeOK
  <1>6. b = IF l = n THEN k ELSE At(l + 1).start
    BY <1>2 DEF Border
  <1>7. b \in Nat /\ b <= k
    <2>1. CASE l = n
      BY <1>3, <1>6, <2>1
    <2>2. CASE l # n
      <3>1. l + 1 \in 1 .. n
        BY <1>4, <1>5, <2>2
      <3>2. At(l + 1).start \in Nat /\ At(l + 1).end \in Nat
            /\ At(l + 1).start < At(l + 1).end /\ At(l + 1).end <= k
        BY <1>2, <1>4, <3>1, Placed DEF KeptPlaced, At
      <3> QED BY <1>3, <1>6, <2>2, <3>2
    <2> QED BY <2>1, <2>2
  <1>8. Slice(Bits, b, k) \in Seq(Seq(Element))
    <2>1. Bits \in Seq(Seq(Element)) /\ Len(Bits) = k /\ k <= k
      BY <1>2, <1>3, BitsTyped
    <2> QED BY <1>3, <1>7, <2>1, PartsTyped
  <1>9. Remade \in Seq(Element)
    BY <1>2, <1>8, FlatTyped DEF Remade
  <1> QED BY <1>1, <1>2, <1>3, <1>7, <1>9

\* What the next edit makes of the end of the text.
LEMMA EditRemakes ==
    ASSUME IInv, left > 0
    PROVE  FlattenSeq(Slice(Bits, At(left).start, Len(text)))
             = Glued(<<Token(left)>>, Glued(Slice(text, At(left).end, Border), Remade))
  <1>1. PICK l, a, z, b, t :
           l = left /\ a = At(left).start /\ z = At(left).end /\ b = Border /\ t = Token(left)
    OBVIOUS
  <1>2. /\ l \in 1 .. Cardinality(kept) /\ a \in Nat /\ z \in Nat /\ b \in Nat
        /\ a < z /\ z <= b /\ b <= Len(text)
        /\ \A c \in z + 1 .. b :
              \A i \in 1 .. Cardinality(kept) : ~(At(i).start < c /\ c <= At(i).end)
    BY <1>1, Bounds
  <1>3. text \in Seq(Element) /\ Len(text) \in Nat
    BY RemadeTyped
  <1>4. Bits \in Seq(Seq(Element)) /\ Len(Bits) = Len(text)
    BY BitsTyped
  <1>5. t \in Element
    BY <1>1, <1>2, TokenIs, ElementIs
  <1>6. Bits[a + 1] = <<t>> /\ \A c \in a + 2 .. z : Bits[c] = <<>>
    BY <1>1, <1>2, BitsInside
  <1>7. ASSUME NEW c \in z + 1 .. b PROVE Bits[c] = <<text[c]>>
    <2>1. c \in 1 .. Len(text)
      BY <1>2, <1>3
    <2> QED BY <1>2, <2>1, BitsOutside
  <1>8. FlattenSeq(Slice(Bits, a, Len(text)))
          = Glued(<<t>>, Glued(Slice(text, z, b), FlattenSeq(Slice(Bits, b, Len(text)))))
    <2>1. a \in Nat /\ z \in Nat /\ b \in Nat /\ a < z /\ z <= b /\ b <= Len(text)
      BY <1>2
    <2>2. PICK p, s : p = Bits /\ s = text
      OBVIOUS
    <2>3. s \in Seq(Element) /\ p \in Seq(Seq(Element)) /\ Len(p) = Len(s) /\ b <= Len(s)
      BY <1>3, <1>4, <2>1, <2>2
    <2>4. Stands(p, s, t, a, z, b)
      BY <1>6, <1>7, <2>2 DEF Stands
    <2>5. PICK y : y = <<t>>
      OBVIOUS
    <2>6. Stands(p, s, t, a, z, b) /\ y = <<t>> =>
            FlattenSeq(Slice(p, a, Len(s)))
              = Glued(y, Glued(Slice(s, z, b), FlattenSeq(Slice(p, b, Len(s)))))
      BY <1>5, <2>1, <2>3, PiecesOfEdit
    <2> QED BY <2>2, <2>4, <2>5, <2>6, Zenon
  <1>9. Remade = FlattenSeq(Slice(Bits, b, Len(text)))
    BY <1>1 DEF Remade
  <1> QED BY <1>1, <1>8, <1>9, Zenon

\* What the next edit makes of the whole: the offsets of the entity are
\* those of the original text, though the text behind it has changed.
LEMMA EditMasks ==
    ASSUME IInv, Edited, phase = "edit", left > 0
    PROVE  Slice(masked, 0, At(left).start) \o <<Token(left)>>
             \o Slice(masked, At(left).end, Len(masked))
             = Glued(Slice(text, 0, At(left).start),
                 Glued(<<Token(left)>>, Glued(Slice(text, At(left).end, Border), Remade)))
  <1>1. PICK l, a, z, b, t, m, r, s :
           /\ l = left /\ a = At(left).start /\ z = At(left).end /\ b = Border
           /\ t = Token(left) /\ m = masked /\ r = Remade /\ s = text
    OBVIOUS
  <1>2. /\ l \in 1 .. Cardinality(kept) /\ a \in Nat /\ z \in Nat /\ b \in Nat
        /\ a < z /\ z <= b /\ b <= Len(s) /\ a <= z
    BY <1>1, Bounds
  <1>3. s \in Seq(Element) /\ Len(s) \in Nat /\ r \in Seq(Element)
    BY <1>1, RemadeTyped
  <1>4. t \in Element
    BY <1>1, <1>2, TokenIs, ElementIs
  <1>5. m = Glued(Slice(s, 0, b), r)
    BY <1>1 DEF Edited
  <1>6. Slice(m, 0, a) = Slice(s, 0, a) /\ Slice(m, z, Len(m)) = Glued(Slice(s, z, b), r)
    <2>1. a <= z /\ z <= b /\ b <= Len(s) /\ a \in Nat /\ z \in Nat /\ b \in Nat
      BY <1>2
    <2> QED BY <1>3, <1>5, <2>1, EditByOffset
  <1>7. PICK h, y, v, u : h = Slice(s, 0, a) /\ y = <<t>> /\ u = Slice(s, z, b) /\ v = Glued(u, r)
    OBVIOUS
  <1>8. h \in Seq(Element)
    <2>1. 0 \in Nat /\ 0 <= a /\ a <= Len(s)
      BY <1>2, <1>3
    <2> QED BY <1>2, <1>3, <1>7, <2>1, SliceTyped
  <1>9. y \in Seq(Element)
    BY <1>4, <1>7, SingleTyped
  <1>10. u \in Seq(Element)
    BY <1>2, <1>3, <1>7, SliceTyped
  <1>11. v \in Seq(Element)
    BY <1>3, <1>7, <1>10, Both DEF Glued
  <1>12. (h \o y) \o v = Glued(h, Glued(y, v))
    BY <1>8, <1>9, <1>11, AllThree DEF Glued
  <1>13. Slice(m, 0, a) \o <<t>> \o Slice(m, z, Len(m))
           = Glued(Slice(s, 0, a), Glued(<<t>>, Glued(Slice(s, z, b), r)))
    BY <1>6, <1>7, <1>12, Zenon
  <1> QED BY <1>1, <1>13, Zenon

\* The table with the token of the next edit.
Extended ==
    [x \in DOMAIN tokens \cup {Token(left)} |->
        IF x = Token(left) THEN At(left).value ELSE tokens[x]]

\* It is the table with one more token, which none of the others is.
LEMMA NewTokens ==
    ASSUME IInv, Edited, phase = "edit", left > 0, NEW d, d = Extended
    PROVE  /\ DOMAIN d = TokensOf(left - 1)
           /\ d \in [DOMAIN d -> Plain] /\ tokens \in [DOMAIN tokens -> Plain]
           /\ \A i \in (left - 1) + 1 .. Cardinality(kept) : d[Token(i)] = At(i).value
           /\ \A x \in DOMAIN tokens : x \in DOMAIN d /\ d[x] = tokens[x]
           /\ DOMAIN d = DOMAIN tokens \cup {Token(left)}
           /\ d[Token(left)] = At(left).value
           /\ Token(left) \notin DOMAIN tokens
  <1>1. PICK n, l : n = Cardinality(kept) /\ l = left
    OBVIOUS
  <1>2. n \in Nat /\ l \in 1 .. n /\ InText \in [1 .. n -> kept]
    BY <1>1, Bounds, InTextIs
  <1>3. /\ DOMAIN tokens = TokensOf(l) /\ tokens \in [DOMAIN tokens -> Plain]
        /\ \A i \in l + 1 .. n : tokens[Token(i)] = At(i).value
    BY <1>1 DEF Edited
  <1>4. PICK t, v : t = Token(l) /\ v = At(l).value
    OBVIOUS
  <1>5. d = [x \in DOMAIN tokens \cup {t} |-> IF x = t THEN v ELSE tokens[x]]
    BY <1>1, <1>4 DEF Extended
  <1>6. /\ t \notin DOMAIN tokens /\ TokensOf(l - 1) = DOMAIN tokens \cup {t}
        /\ \A i \in l + 1 .. n : Token(i) # t
    BY <1>1, <1>3, <1>4, TokenNew
  <1>7. v \in Plain
    <2>1. InText[l] \in kept
      BY <1>2
    <2>2. entities[InText[l]] \in MatchesIn(text)
      BY <2>1 DEF IInv, TypeOK
    <2> QED BY <1>4, <2>2, Placed, EntityIs DEF At
  <1>8. DOMAIN d = DOMAIN tokens \cup {t} /\ d[t] = v
        /\ \A x \in DOMAIN tokens : x \in DOMAIN d /\ d[x] = tokens[x]
    BY <1>5, <1>6
  <1>9. d \in [DOMAIN d -> Plain]
    <2>1. \A x \in DOMAIN tokens \cup {t} : (IF x = t THEN v ELSE tokens[x]) \in Plain
      BY <1>3, <1>7
    <2> QED BY <1>5, <2>1
  <1>10. ASSUME NEW i \in (l - 1) + 1 .. n PROVE d[Token(i)] = At(i).value
    <2>1. CASE i = l
      BY <1>4, <1>8, <2>1
    <2>2. CASE i # l
      <3>1. i \in l + 1 .. n
        BY <1>2, <2>2
      <3>2. Token(i) \in DOMAIN tokens
        BY <1>1, <1>3, <3>1 DEF TokensOf
      <3> QED BY <1>3, <1>8, <3>1, <3>2
    <2> QED BY <2>1, <2>2
  <1> QED BY <1>1, <1>3, <1>4, <1>6, <1>8, <1>9, <1>10

\* What a text is made of is no token.
LEMMA NoTokens ==
    ASSUME IInv, NEW l \in Nat
    PROVE  \A x \in Words \cup Signs : x \notin TokensOf(l)
  <1>1. Cardinality(kept) \in Nat
    BY InTextIs
  <1>2. ASSUME NEW i \in l + 1 .. Cardinality(kept)
        PROVE  Token(i) \in [type : Types, number : Nat]
    <2>1. i \in 1 .. Cardinality(kept)
      BY <1>1
    <2> QED BY <2>1, TokenIs
  <1> QED BY <1>2, MaskingAssumption DEF TokensOf

\* The edit puts words, signs and known tokens, and no others, into the text.
LEMMA EditElements ==
    ASSUME IInv, Edited, phase = "edit", left > 0,
           NEW g, g = Glued(<<Token(left)>>, Glued(Slice(text, At(left).end, Border), Remade))
    PROVE  /\ g \in Seq(Element)
           /\ \A j \in 1 .. Len(g) :
                 g[j] \in Words \cup Signs \cup DOMAIN tokens \cup {Token(left)}
  <1>1. PICK l, z, b, t, r, s :
           l = left /\ z = At(left).end /\ b = Border /\ t = Token(left) /\ r = Remade /\ s = text
    OBVIOUS
  <1>2. PICK U : U = Words \cup Signs \cup DOMAIN tokens \cup {t}
    OBVIOUS
  <1>3. /\ l \in 1 .. Cardinality(kept) /\ z \in Nat /\ b \in Nat /\ z <= b /\ b <= Len(s)
    BY <1>1, Bounds
  <1>4. s \in Seq(Element) /\ s \in Plain /\ Len(s) \in Nat /\ r \in Seq(Element)
    BY <1>1, RemadeTyped, Placed
  <1>5. t \in Element
    BY <1>1, <1>3, TokenIs, ElementIs
  <1>6. PICK y, u, v : y = <<t>> /\ u = Slice(s, z, b) /\ v = Glued(u, r)
    OBVIOUS
  <1>7. y \in Seq(Element) /\ \A j \in 1 .. Len(y) : y[j] \in U
    <2>1. y \in Seq(Element)
      BY <1>5, <1>6, SingleTyped
    <2>2. \A j \in 1 .. Len(y) : y[j] = t
      BY <1>6
    <2> QED BY <1>2, <2>1, <2>2
  <1>8. u \in Seq(Element) /\ \A j \in 1 .. Len(u) : u[j] \in U
    <2>1. u \in Seq(Element) /\ Len(u) = b - z /\ \A j \in 1 .. b - z : u[j] = s[z + j]
      BY <1>3, <1>4, <1>6, SliceTyped
    <2>2. \A j \in 1 .. b - z : z + j \in 1 .. Len(s)
      BY <1>3, <1>4
    <2>3. \A i \in 1 .. Len(s) : s[i] \in Words \cup Signs
      BY <1>4, PlainIs
    <2> QED BY <1>2, <2>1, <2>2, <2>3
  <1>9. \A j \in 1 .. Len(r) : r[j] \in U
    BY <1>1, <1>2 DEF Edited
  <1>10. ASSUME NEW e, NEW f, e \in Seq(Element), f \in Seq(Element),
                \A j \in 1 .. Len(e) : e[j] \in U, \A j \in 1 .. Len(f) : f[j] \in U,
                NEW c, c = Glued(e, f)
         PROVE  c \in Seq(Element) /\ \A j \in 1 .. Len(c) : c[j] \in U
    <2>1. Len(e) \in Nat /\ Len(f) \in Nat
      BY <1>10, LenNat
    <2>2. /\ c \in Seq(Element) /\ Len(c) = Len(e) + Len(f)
          /\ \A i \in 1 .. Len(e) + Len(f) : c[i] =
                IF i <= Len(e) THEN e[i] ELSE f[i - Len(e)]
      BY <1>10, Both, Zenon DEF Glued
    <2>3. ASSUME NEW j \in 1 .. Len(c) PROVE c[j] \in U
      <3>1. CASE j <= Len(e)
        <4>1. j \in 1 .. Len(e) /\ c[j] = e[j]
          BY <2>1, <2>2, <3>1
        <4> QED BY <1>10, <4>1
      <3>2. CASE ~(j <= Len(e))
        <4>1. j - Len(e) \in 1 .. Len(f) /\ c[j] = f[j - Len(e)]
          BY <2>1, <2>2, <3>2
        <4> QED BY <1>10, <4>1
      <3> QED BY <3>1, <3>2
    <2> QED BY <2>2, <2>3
  <1>11. v \in Seq(Element) /\ \A j \in 1 .. Len(v) : v[j] \in U
    BY <1>4, <1>6, <1>8, <1>9, <1>10
  <1>12. g = Glued(y, v)
    BY <1>1, <1>6, Zenon
  <1>13. g \in Seq(Element) /\ \A j \in 1 .. Len(g) : g[j] \in U
    BY <1>7, <1>10, <1>11, <1>12
  <1> QED BY <1>1, <1>2, <1>13

\* Replacing its tokens in what has become of the end of the text gives the
\* end of the text, if values are what stands at their places.
LEMMA EditRestores ==
    ASSUME IInv, Edited, phase = "edit", left > 0, ValuesStand, NEW d, d = Extended,
           NEW g, g = Glued(<<Token(left)>>, Glued(Slice(text, At(left).end, Border), Remade))
    PROVE  Subst(g, d) = Slice(text, At(left).start, Len(text))
  <1>1. PICK l, a, z, b, t, r, s :
           /\ l = left /\ a = At(left).start /\ z = At(left).end /\ b = Border
           /\ t = Token(left) /\ r = Remade /\ s = text
    OBVIOUS
  <1>2. /\ l \in 1 .. Cardinality(kept) /\ a \in Nat /\ z \in Nat /\ b \in Nat
        /\ a < z /\ z <= b /\ b <= Len(s)
    BY <1>1, Bounds
  <1>3. s \in Seq(Element) /\ Len(s) \in Nat /\ r \in Seq(Element)
    BY <1>1, RemadeTyped
  <1>4. t \in Element
    BY <1>1, <1>2, TokenIs, ElementIs
  <1>5. /\ d \in [DOMAIN d -> Plain] /\ DOMAIN d = DOMAIN tokens \cup {t}
        /\ tokens \in [DOMAIN tokens -> Plain]
        /\ \A x \in DOMAIN tokens : x \in DOMAIN d /\ d[x] = tokens[x]
        /\ d[t] = At(l).value /\ t \notin DOMAIN tokens /\ DOMAIN d = TokensOf(l - 1)
    BY <1>1, NewTokens
  <1>6. \A x : x \in Plain => x \in Seq(Element)
    BY PlainIs
  <1>7. d \in [DOMAIN d -> Seq(Element)] /\ tokens \in [DOMAIN tokens -> Seq(Element)]
    BY <1>5, <1>6
  <1>8. d[t] = Slice(s, a, z)
    <2>1. InText[l] \in kept
      BY <1>2, InTextIs
    <2> QED BY <1>1, <1>5, <2>1 DEF ValuesStand, At
  <1>9. Subst(r, d) = Subst(r, tokens)
    <2>1. \A j \in 1 .. Len(r) : r[j] \in Words \cup Signs \cup DOMAIN tokens
      BY <1>1 DEF Edited
    <2>2. t \notin Words \cup Signs
      BY <1>1, TokenNew
    <2>3. \A j \in 1 .. Len(r) : r[j] # t
      BY <1>5, <2>1, <2>2
    <2>4. \A j \in 1 .. Len(r) : /\ r[j] \in DOMAIN d <=> r[j] \in DOMAIN tokens
                                 /\ r[j] \in DOMAIN d => d[r[j]] = tokens[r[j]]
      BY <1>5, <2>3
    <2> QED BY <1>3, <1>7, <2>4, SubstAlike
  <1>10. Subst(r, d) = Slice(s, b, Len(s))
    BY <1>1, <1>9 DEF Edited
  <1>11. \A i \in 1 .. Len(s) : s[i] \notin DOMAIN d
    <2>1. \A i \in 1 .. Len(s) : s[i] \in Words \cup Signs
      BY <1>1, Placed, PlainIs
    <2>2. l - 1 \in Nat /\ DOMAIN d = TokensOf(l - 1)
      <3>1. Cardinality(kept) \in Nat
        BY InTextIs
      <3> QED BY <1>2, <1>5, <3>1
    <2> QED BY <2>1, <2>2, NoTokens
  <1>12. Subst(Glued(<<t>>, Glued(Slice(s, z, b), r)), d) = Slice(s, a, Len(s))
    <2>1. a <= z /\ t \in DOMAIN d
      BY <1>2, <1>5
    <2>2. PICK D : D = DOMAIN d
      OBVIOUS
    <2> QED BY <1>2, <1>3, <1>4, <1>7, <1>8, <1>10, <1>11, <2>1, RestoredPiece
  <1> QED BY <1>1, <1>12, Zenon

-----------------------------------------------------------------------------
(* The steps *)

\* The part of the table that has been gone over.
Taken == [x \in DOMAIN tokens \ todo |-> tokens[x]]

\* The invariant of restoring: what has been gone over has been replaced, all
\* at once, in what came back.
Restoring ==
    phase \in {"restore", "done"} =>
        /\ left = 0
        /\ reply \in Seq(Element)
        /\ restored = Subst(reply, Taken)
        /\ phase = "done" => todo = {}

\* Together, the strengthening the properties of the mask need.
Rewriting == Untouched /\ Edited /\ Restoring

\* An edit moves Border to the beginning of its entity.
LEMMA EditKeeps == IInv /\ Rewriting /\ Edit => Rewriting'
  <1> SUFFICES ASSUME IInv, Rewriting, Edit PROVE Rewriting'
    OBVIOUS
  <1>1. phase = "edit" /\ left > 0 /\ Edited
    BY DEF Edit, Rewriting
  <1>2. UNCHANGED <<phase, text, entities, kept>> /\ left' = left - 1
    BY DEF Edit, inputVars, detectVars, selectVars
  <1>3. PICK n, l, a, z, t, g, d, s :
           /\ n = Cardinality(kept) /\ l = left /\ a = At(left).start /\ z = At(left).end
           /\ t = Token(left) /\ d = Extended /\ s = text
           /\ g = Glued(<<Token(left)>>, Glued(Slice(text, At(left).end, Border), Remade))
    OBVIOUS
  <1>4. n \in Nat /\ l \in 1 .. n
    BY <1>1, <1>3, Bounds, InTextIs
  <1>5. /\ InText' = InText /\ Bits' = Bits /\ Cardinality(kept)' = n
        /\ \A i : Token(i)' = Token(i) /\ At(i)' = At(i)
        /\ ValuesStand' <=> ValuesStand
    BY <1>2, <1>3, SameMask
  <1>6. Border' = a
    <2>1. Border' = IF left' = n THEN Len(s) ELSE (entities[InText[left' + 1]]).start
      BY <1>2, <1>3, <1>5 DEF Border, At
    <2>2. left' # n /\ left' + 1 = l
      BY <1>2, <1>3, <1>4
    <2> QED BY <1>3, <2>1, <2>2 DEF At
  <1>7. Remade' = g
    <2>1. Remade' = FlattenSeq(Slice(Bits, a, Len(s)))
      BY <1>2, <1>3, <1>5, <1>6 DEF Remade
    <2>2. FlattenSeq(Slice(Bits, a, Len(s))) = g
      BY <1>1, <1>3, EditRemakes, Zenon
    <2> QED BY <2>1, <2>2
  <1>8. tokens' = d
    BY <1>3 DEF Edit, Extended, At
  <1>9. masked' = Glued(Slice(s, 0, a), g)
    <2>1. masked' = Slice(masked, 0, a) \o <<t>> \o Slice(masked, z, Len(masked))
      BY <1>3, Zenon DEF Edit, At, After
    <2>2. Slice(masked, 0, a) \o <<t>> \o Slice(masked, z, Len(masked)) = Glued(Slice(s, 0, a), g)
      BY <1>1, <1>3, EditMasks, Zenon
    <2> QED BY <2>1, <2>2, Zenon
  <1>10. /\ DOMAIN d = TokensOf(l - 1)
         /\ d \in [DOMAIN d -> Plain]
         /\ \A i \in (l - 1) + 1 .. n : d[Token(i)] = At(i).value
         /\ DOMAIN d = DOMAIN tokens \cup {t}
    BY <1>1, <1>3, NewTokens
  <1>11. TokensOf(left)' = TokensOf(l - 1)
    <2>1. TokensOf(left)' = {Token(i)' : i \in left' + 1 .. n}
      BY <1>5 DEF TokensOf
    <2>2. left' + 1 .. n = (l - 1) + 1 .. n
      BY <1>2, <1>3
    <2>3. TokensOf(l - 1) = {Token(i) : i \in (l - 1) + 1 .. n}
      BY <1>3 DEF TokensOf
    <2> QED BY <1>5, <2>1, <2>2, <2>3, Zenon
  <1>12. \A i \in left' + 1 .. n : d[Token(i)'] = (At(i)').value
    BY <1>2, <1>3, <1>5, <1>10
  <1>13. \A j \in 1 .. Len(g) : g[j] \in Words \cup Signs \cup DOMAIN d
    BY <1>1, <1>3, <1>10, EditElements
  <1>14. ValuesStand => Subst(g, d) = Slice(s, a, Len(s))
    BY <1>1, <1>3, EditRestores
  <1>15. Edited'
    <2>1. (Words \cup Signs)' = Words \cup Signs /\ Plain' = Plain
      OBVIOUS
    <2>2. (DOMAIN tokens = TokensOf(left) /\ tokens \in [DOMAIN tokens -> Plain])'
      BY <1>8, <1>10, <1>11
    <2>3. (\A i \in left + 1 .. Cardinality(kept) : tokens[Token(i)] = At(i).value)'
      BY <1>5, <1>8, <1>12
    <2>4. (masked = Glued(Slice(text, 0, Border), Remade))'
      BY <1>2, <1>3, <1>6, <1>7, <1>9
    <2>5. (\A j \in 1 .. Len(Remade) : Remade[j] \in Words \cup Signs \cup DOMAIN tokens)'
      BY <1>7, <1>8, <1>13
    <2>6. (ValuesStand => Subst(Remade, tokens) = Slice(text, Border, Len(text)))'
      BY <1>2, <1>3, <1>5, <1>6, <1>7, <1>8, <1>14
    <2> QED BY <2>2, <2>3, <2>4, <2>5, <2>6 DEF Edited
  <1> QED BY <1>1, <1>2, <1>15 DEF Rewriting, Untouched, Restoring

\* No step before the editing touches the text.
LEMMA EarlyKeeps ==
    ASSUME IInv, Rewriting,
           Detect \/ StartSelecting \/ (\E n \in pending : Keep(n) \/ Drop(n))
    PROVE  Rewriting'
  <1>1. phase \in {"detect", "select"} /\ phase' \in {"detect", "select"}
        /\ UNCHANGED <<text, masked, tokens>>
    BY DEF Detect, StartSelecting, Keep, Drop, inputVars, editVars
  <1> QED BY <1>1 DEF Rewriting, Untouched, Edited, Restoring

\* Before the first edit, everything is yet to be edited.
LEMMA StartEditingRewrites == IInv /\ Rewriting /\ StartEditing => Rewriting'
  <1> SUFFICES ASSUME IInv, Rewriting, StartEditing PROVE Rewriting'
    OBVIOUS
  <1>1. /\ UNCHANGED <<text, entities, kept, masked, tokens>>
        /\ phase = "select" /\ phase' = "edit" /\ left' = Cardinality(kept)
        /\ masked = text /\ tokens = <<>>
    BY DEF StartEditing, inputVars, detectVars, selectVars, Rewriting, Untouched
  <1>2. PICK n, s, k : n = Cardinality(kept) /\ s = text /\ k = Len(text)
    OBVIOUS
  <1>3. n \in Nat
    BY <1>2, InTextIs
  <1>4. /\ Bits' = Bits /\ Cardinality(kept)' = n
        /\ \A i : Token(i)' = Token(i) /\ At(i)' = At(i)
    BY <1>1, <1>2, SameMask
  <1>5. s \in Seq(Element) /\ k \in Nat /\ k <= k /\ k = Len(s)
    BY <1>2, RemadeTyped
  <1>6. Border' = k
    BY <1>1, <1>2, <1>4 DEF Border
  <1>7. Slice(Bits, k, k) = <<>>
    <2>1. Bits \in Seq(Seq(Element)) /\ Len(Bits) = k
      BY <1>2, BitsTyped
    <2>2. Slice(Bits, k, k) \in Seq(Seq(Element)) /\ Len(Slice(Bits, k, k)) = k - k
      BY <1>5, <2>1, PartsTyped
    <2>3. Len(Slice(Bits, k, k)) = 0
      BY <1>5, <2>2
    <2> QED BY <2>2, <2>3, EmptySeq
  <1>8. Remade' = <<>>
    <2>1. Remade' = FlattenSeq(Slice(Bits, k, k))
      BY <1>1, <1>2, <1>4, <1>6 DEF Remade
    <2> QED BY <1>7, <2>1, FlatEmpty
  <1>9. PICK e : e = <<>>
    OBVIOUS
  <1>10. e \in Seq(Element) /\ Len(e) = 0 /\ DOMAIN e = {}
    BY <1>9
  <1>11. PICK h : h = Slice(s, 0, k)
    OBVIOUS
  <1>12. h = s
    <2>1. 0 \in Nat /\ 0 <= k /\ k - 0 = k /\ \A i \in 1 .. k : 0 + i = i
      BY <1>5
    <2>2. h \in Seq(Element) /\ Len(h) = k - 0 /\ \A i \in 1 .. k - 0 : h[i] = s[0 + i]
      BY <1>5, <1>11, <2>1, SliceTyped
    <2> QED BY <1>5, <2>1, <2>2, Alike
  <1>13. s = Glued(Slice(s, 0, k), e)
    <2>1. s \o <<>> = s
      BY <1>5, ConcatEmptySeq
    <2> QED BY <1>9, <1>11, <1>12, <2>1, Zenon DEF Glued
  <1>14. TokensOf(left)' = {}
    <2>1. TokensOf(left)' = {Token(i)' : i \in left' + 1 .. n}
      BY <1>4 DEF TokensOf
    <2>2. left' + 1 .. n = {}
      BY <1>1, <1>2, <1>3
    <2> QED BY <2>1, <2>2
  <1>15. Subst(e, e) = Slice(s, k, k)
    <2>1. PICK w : w = Slice(s, k, k)
      OBVIOUS
    <2>2. w \in Seq(Element) /\ Len(w) = k - k
      BY <1>5, <2>1, SliceTyped
    <2>3. w = e
      BY <1>5, <1>10, <2>2, EmptySeq, <1>9
    <2>4. e \in [DOMAIN e -> Seq(Element)]
      BY <1>9
    <2>5. \A i \in 1 .. Len(e) : e[i] \notin DOMAIN e
      BY <1>10
    <2>6. Subst(e, e) = e
      BY <1>10, <2>4, <2>5, SubstNothing
    <2> QED BY <2>1, <2>3, <2>6
  <1>16. Edited'
    <2>1. tokens' = e /\ masked' = s /\ Remade' = e
      BY <1>1, <1>2, <1>8, <1>9
    <2>2. (DOMAIN tokens = TokensOf(left) /\ tokens \in [DOMAIN tokens -> Plain])'
      <3>1. e \in [DOMAIN e -> Plain]
        BY <1>9
      <3> QED BY <1>10, <1>14, <2>1, <3>1
    <2>3. (\A i \in left + 1 .. Cardinality(kept) : tokens[Token(i)] = At(i).value)'
      BY <1>1, <1>2, <1>3, <1>4
    <2>4. (masked = Glued(Slice(text, 0, Border), Remade))'
      BY <1>1, <1>2, <1>6, <1>13, <2>1
    <2>5. (\A j \in 1 .. Len(Remade) : Remade[j] \in Words \cup Signs \cup DOMAIN tokens)'
      BY <1>10, <2>1
    <2>6. (ValuesStand => Subst(Remade, tokens) = Slice(text, Border, Len(text)))'
      BY <1>1, <1>2, <1>6, <1>15, <2>1
    <2> QED BY <2>2, <2>3, <2>4, <2>5, <2>6 DEF Edited
  <1> QED BY <1>1, <1>16 DEF Rewriting, Untouched, Restoring

\* What is masked is made of the elements of the model.
LEMMA MaskedTyped ==
    ASSUME IInv, Edited, phase \in {"edit", "restore", "done"}
    PROVE  masked \in Seq(Element)
  <1>1. PICK s, b, r, h, m : s = text /\ b = Border /\ r = Remade /\ h = Slice(text, 0, Border)
                             /\ m = masked
    OBVIOUS
  <1>2. s \in Seq(Element) /\ b \in Nat /\ b <= Len(s) /\ r \in Seq(Element)
    BY <1>1, RemadeTyped
  <1>3. 0 \in Nat /\ 0 <= b
    BY <1>2
  <1>4. h = Slice(s, 0, b)
    BY <1>1
  <1>5. h \in Seq(Element)
    BY <1>2, <1>3, <1>4, SliceTyped
  <1>6. m = Glued(h, r)
    BY <1>1 DEF Edited
  <1>7. m \in Seq(Element)
    BY <1>2, <1>5, <1>6, Both DEF Glued
  <1> QED BY <1>1, <1>7

\* A step that leaves the mask alone leaves the invariant of editing.
LEMMA EditedStays ==
    ASSUME IInv, Edited, phase \in {"edit", "restore", "done"},
           UNCHANGED <<text, entities, kept, masked, left, tokens>>
    PROVE  Edited'
  <1>1. PICK n, l : n = Cardinality(kept) /\ l = left
    OBVIOUS
  <1>2. /\ InText' = InText /\ Bits' = Bits /\ Cardinality(kept)' = n
        /\ \A i : Token(i)' = Token(i) /\ At(i)' = At(i)
        /\ ValuesStand' <=> ValuesStand
    BY <1>1, SameMask
  <1>3. Border' = Border
    <2>1. Border' = IF left = n THEN Len(text) ELSE (entities[InText[left + 1]]).start
      BY <1>1, <1>2 DEF Border, At
    <2> QED BY <1>1, <2>1 DEF Border, At
  <1>4. Remade' = Remade
    BY <1>2, <1>3 DEF Remade
  <1>5. TokensOf(left)' = TokensOf(left)
    <2>1. TokensOf(left)' = {Token(i)' : i \in left + 1 .. n}
      BY <1>2 DEF TokensOf
    <2>2. TokensOf(left) = {Token(i) : i \in left + 1 .. n}
      BY <1>1 DEF TokensOf
    <2> QED BY <1>2, <2>1, <2>2, Zenon
  <1>6. (\A i \in left + 1 .. Cardinality(kept) : tokens[Token(i)] = At(i).value)'
    <2>1. \A i \in left + 1 .. n : tokens[Token(i)] = At(i).value
      BY <1>1 DEF Edited
    <2> QED BY <1>1, <1>2, <2>1
  <1>7. (DOMAIN tokens = TokensOf(left) /\ tokens \in [DOMAIN tokens -> Plain])'
    BY <1>5 DEF Edited
  <1>8. (masked = Glued(Slice(text, 0, Border), Remade))'
    BY <1>3, <1>4 DEF Edited
  <1>9. (\A j \in 1 .. Len(Remade) : Remade[j] \in Words \cup Signs \cup DOMAIN tokens)'
    BY <1>4 DEF Edited
  <1>10. (ValuesStand => Subst(Remade, tokens) = Slice(text, Border, Len(text)))'
    BY <1>2, <1>3, <1>4 DEF Edited
  <1> QED BY <1>6, <1>7, <1>8, <1>9, <1>10 DEF Edited

\* Nothing has been replaced in what a model made of the mask.
LEMMA StartRestoringKeeps == IInv /\ Rewriting /\ StartRestoring => Rewriting'
  <1> SUFFICES ASSUME IInv, Rewriting, StartRestoring PROVE Rewriting'
    OBVIOUS
  <1>1. /\ phase = "edit" /\ phase' = "restore" /\ left = 0 /\ left' = 0
        /\ UNCHANGED <<text, entities, kept, masked, left, tokens>>
        /\ todo' = DOMAIN tokens
    BY DEF StartRestoring, inputVars, detectVars, selectVars, editVars
  <1>2. Edited'
    BY <1>1, EditedStays DEF Rewriting
  <1>3. PICK m : m = masked
    OBVIOUS
  <1>4. m \in Seq(Element)
    BY <1>1, <1>3, MaskedTyped DEF Rewriting
  <1>5. PICK q \in {m} \cup {<<t>> \o Reverse(m) \o m : t \in Foreign} :
           reply' = q /\ restored' = q
    BY <1>3, Zenon DEF StartRestoring, Replies
  <1>6. q \in Seq(Element)
    <2>1. Reverse(m) \in Seq(Element)
      <3>1. PICK k : k = Len(m)
        OBVIOUS
      <3>2. k \in Nat /\ m \in [1 .. k -> Element]
        BY <1>4, <3>1
      <3>3. \A i \in 1 .. k : (k - i) + 1 \in 1 .. k
        BY <3>2
      <3>4. [i \in 1 .. k |-> m[(k - i) + 1]] \in [1 .. k -> Element]
        BY <3>2, <3>3
      <3>5. Reverse(m) = [i \in 1 .. k |-> m[(k - i) + 1]]
        BY <3>1 DEF Reverse
      <3>6. Reverse(m) \in [1 .. k -> Element]
        BY <3>4, <3>5
      <3> QED BY <3>2, <3>6
    <2>2. ASSUME NEW t \in Foreign PROVE <<t>> \o Reverse(m) \o m \in Seq(Element)
      <3>1. Cardinality(kept) \in Nat
        BY InTextIs
      <3>2. t \in Element
        BY <3>1, ElementIs DEF Foreign
      <3>3. <<t>> \o Reverse(m) \in Seq(Element)
        BY <2>1, <3>2, SingleTyped, Both
      <3> QED BY <1>4, <3>3, Both
    <2> QED BY <1>4, <1>5, <2>1, <2>2, Zenon
  <1>7. PICK e : e = Taken'
    OBVIOUS
  <1>8. DOMAIN e = {}
    BY <1>1, <1>7 DEF Taken
  <1>9. e \in [DOMAIN e -> Seq(Element)]
    <2>1. e = [x \in {} |-> tokens[x]]
      BY <1>1, <1>7 DEF Taken
    <2> QED BY <1>8, <2>1
  <1>10. Subst(q, e) = q
    BY <1>6, <1>8, <1>9, SubstNothing
  <1>11. (reply \in Seq(Element) /\ restored = Subst(reply, Taken))'
    BY <1>5, <1>6, <1>7, <1>10, Zenon
  <1> QED BY <1>1, <1>2, <1>11 DEF Rewriting, Untouched, Restoring

\* Values hold no tokens: what a replacement has put in is never replaced.
LEMMA ReplaceKeeps ==
    ASSUME IInv, Rewriting, NEW t \in todo, Replace(t)
    PROVE  Rewriting'
  <1>1. /\ phase = "restore" /\ phase' = "restore"
        /\ UNCHANGED <<text, entities, kept, masked, left, tokens, reply>>
        /\ todo' = todo \ {t} /\ restored' = ReplaceOne(restored, t)
        /\ left = 0
    BY DEF Replace, inputVars, detectVars, selectVars, editVars, Rewriting, Restoring
  <1>2. Edited'
    BY <1>1, EditedStays DEF Rewriting
  <1>3. PICK d, e, f, s, T :
           /\ d = Taken /\ e = [x \in {t} |-> tokens[t]] /\ f = Taken'
           /\ s = reply /\ T = DOMAIN tokens
    OBVIOUS
  <1>4. s \in Seq(Element) /\ restored = Subst(s, d)
    BY <1>1, <1>3 DEF Rewriting, Restoring
  <1>5. t \in T /\ tokens \in [T -> Plain] /\ todo \subseteq T /\ T = TokensOf(left)
    BY <1>1, <1>3 DEF IInv, TypeOK, Rewriting, Edited
  <1>6. d = [x \in T \ todo |-> tokens[x]] /\ f = [x \in T \ (todo \ {t}) |-> tokens[x]]
    BY <1>1, <1>3 DEF Taken
  <1>7. \A x : x \in Plain => x \in Seq(Element)
    BY PlainIs
  <1>8. /\ DOMAIN d = T \ todo /\ DOMAIN e = {t} /\ DOMAIN f = T \ (todo \ {t})
        /\ \A x \in DOMAIN d : d[x] = tokens[x]
        /\ \A x \in DOMAIN e : e[x] = tokens[x]
        /\ \A x \in DOMAIN f : f[x] = tokens[x]
    BY <1>3, <1>6
  <1>9. /\ d \in [DOMAIN d -> Seq(Element)] /\ e \in [DOMAIN e -> Seq(Element)]
        /\ f \in [DOMAIN f -> Seq(Element)]
    BY <1>3, <1>5, <1>6, <1>7, <1>8
  <1>10. /\ DOMAIN f = DOMAIN d \cup DOMAIN e /\ DOMAIN d \cap DOMAIN e = {}
         /\ \A x \in DOMAIN d : f[x] = d[x]
         /\ \A x \in DOMAIN e : f[x] = e[x]
    BY <1>5, <1>8
  <1>11. \A x \in DOMAIN d : \A i \in 1 .. Len(d[x]) : d[x][i] \notin DOMAIN e
    <2> SUFFICES ASSUME NEW x \in DOMAIN d, NEW i \in 1 .. Len(d[x])
                 PROVE  d[x][i] \notin DOMAIN e
      OBVIOUS
    <2>1. d[x] \in Plain
      BY <1>5, <1>8
    <2>2. d[x][i] \in Words \cup Signs
      BY <2>1, PlainIs
    <2>3. \A y \in Words \cup Signs : y \notin TokensOf(left)
      BY <1>1, NoTokens
    <2> QED BY <1>5, <1>8, <2>2, <2>3
  <1>12. Subst(Subst(s, d), e) = Subst(s, f)
    <2>1. s \in Seq(Element)
      BY <1>4
    <2>2. InTurn(d, e, f)
      BY <1>9, <1>10, <1>11 DEF InTurn
    <2> QED BY <2>1, <2>2, SubstAgain
  <1>13. restored' = Subst(restored, e)
    <2>1. PICK c : c = restored
      OBVIOUS
    <2>2. restored' = FlattenSeq([n \in DOMAIN c |-> IF c[n] = t THEN tokens[t] ELSE <<c[n]>>])
      BY <1>1, <2>1, Zenon DEF ReplaceOne, Substitute
    <2>3. Subst(c, e) = FlattenSeq([n \in DOMAIN c |-> IF c[n] \in DOMAIN e THEN e[c[n]] ELSE <<c[n]>>])
      BY Zenon DEF Subst, Pieces
    <2>4. PICK p, q : /\ p = [n \in DOMAIN c |-> IF c[n] = t THEN tokens[t] ELSE <<c[n]>>]
                      /\ q = [n \in DOMAIN c |-> IF c[n] \in DOMAIN e THEN e[c[n]] ELSE <<c[n]>>]
      OBVIOUS
    <2>5. \A x : x \in DOMAIN e <=> x = t
      BY <1>8
    <2>6. e[t] = tokens[t]
      BY <1>8
    <2>7. p = q
      BY <2>4, <2>5, <2>6
    <2> QED BY <2>1, <2>2, <2>3, <2>4, <2>7, Zenon
  <1>14. (reply \in Seq(Element) /\ restored = Subst(reply, Taken))'
    BY <1>1, <1>3, <1>4, <1>12, <1>13, Zenon
  <1> QED BY <1>1, <1>2, <1>14 DEF Rewriting, Untouched, Restoring

\* Finishing changes nothing of the text.
LEMMA FinishKeeps == IInv /\ Rewriting /\ Finish => Rewriting'
  <1> SUFFICES ASSUME IInv, Rewriting, Finish PROVE Rewriting'
    OBVIOUS
  <1>1. /\ phase = "restore" /\ phase' = "done"
        /\ UNCHANGED <<text, entities, kept, masked, left, tokens, reply, restored, todo>>
        /\ todo = {}
    BY DEF Finish, inputVars, detectVars, selectVars, editVars, unmaskVars
  <1>2. Edited'
    BY <1>1, EditedStays DEF Rewriting
  <1>3. Taken' = Taken
    BY <1>1 DEF Taken
  <1> QED BY <1>1, <1>2, <1>3 DEF Rewriting, Untouched, Restoring

\* Nor does a step that is none.
LEMMA StutterKeeps == IInv /\ Rewriting /\ UNCHANGED vars => Rewriting'
  <1> SUFFICES ASSUME IInv, Rewriting, UNCHANGED vars PROVE Rewriting'
    OBVIOUS
  <1>1. UNCHANGED <<phase, text, entities, kept, masked, left, tokens, reply, restored, todo>>
    BY DEF vars
  <1>2. phase \in {"edit", "restore", "done"} => Edited'
    BY <1>1, EditedStays DEF Rewriting
  <1>3. Taken' = Taken
    BY <1>1 DEF Taken
  <1>4. phase \in {"detect", "select", "edit", "restore", "done"}
    BY DEF IInv, TypeOK
  <1>5. Edited'
    <2>1. CASE phase \in {"detect", "select"}
      BY <1>1, <2>1 DEF Edited
    <2> QED BY <1>2, <1>4, <2>1
  <1> QED BY <1>1, <1>3, <1>5 DEF Rewriting, Untouched, Restoring

\* The mask grows from the end of the text, and restoring replaces the
\* tokens taken so far.
THEOREM Rewrites == Spec => []Rewriting
  <1>1. Init => Rewriting
    BY DEF Init, Rewriting, Untouched, Edited, Restoring
  <1>2. IInv /\ Rewriting /\ [Next]_vars => Rewriting'
    <2> SUFFICES ASSUME IInv, Rewriting, [Next]_vars PROVE Rewriting'
      OBVIOUS
    <2>1. CASE Detect \/ StartSelecting \/ (\E n \in pending : Keep(n) \/ Drop(n))
      BY <2>1, EarlyKeeps
    <2>2. CASE StartEditing
      BY <2>2, StartEditingRewrites
    <2>3. CASE Edit
      BY <2>3, EditKeeps
    <2>4. CASE StartRestoring
      BY <2>4, StartRestoringKeeps
    <2>5. CASE \E t \in todo : Replace(t)
      BY <2>5, ReplaceKeeps
    <2>6. CASE Finish
      BY <2>6, FinishKeeps
    <2>7. CASE UNCHANGED vars
      BY <2>7, StutterKeeps
    <2> QED BY <2>1, <2>2, <2>3, <2>4, <2>5, <2>6, <2>7 DEF Next
  <1> QED BY <1>1, <1>2, Invariance, PTL DEF Spec

-----------------------------------------------------------------------------
(* The mask, and what comes back *)

\* Tokens replaced one after another are replaced all at once.
LEMMA AllTaken == Rewriting => AllAtOnce
  <1> SUFFICES ASSUME Rewriting, phase = "done"
               PROVE  restored = Substitute(reply, LAMBDA c :
                                   IF c \in DOMAIN tokens THEN tokens[c] ELSE <<c>>)
    BY DEF AllAtOnce
  <1>1. restored = Subst(reply, Taken) /\ todo = {}
    BY DEF Rewriting, Restoring
  <1>2. PICK d, q : d = tokens /\ q = reply
    OBVIOUS
  <1>3. Taken = [x \in DOMAIN d |-> d[x]]
    BY <1>1, <1>2 DEF Taken
  <1>4. Taken = d
    <2>1. d \in [DOMAIN d -> Plain]
      BY <1>2 DEF Rewriting, Edited
    <2> QED BY <1>3, <2>1
  <1>5. restored = FlattenSeq([n \in DOMAIN q |-> IF q[n] \in DOMAIN d THEN d[q[n]] ELSE <<q[n]>>])
    BY <1>1, <1>2, <1>4, Zenon DEF Subst, Pieces
  <1> QED BY <1>2, <1>5, Zenon DEF Substitute

\* Before the first entity, the mask is the text.
LEMMA MaskBegins ==
    ASSUME IInv, left = 0
    PROVE  FlattenSeq(Slice(Bits, 0, Border)) = Slice(text, 0, Border)
  <1>1. PICK n, b, p, s : n = Cardinality(kept) /\ b = Border /\ p = Bits /\ s = text
    OBVIOUS
  <1>2. s \in Seq(Element) /\ Len(s) \in Nat /\ b \in Nat /\ b <= Len(s)
    BY <1>1, RemadeTyped
  <1>3. p \in Seq(Seq(Element)) /\ Len(p) = Len(s)
    BY <1>1, BitsTyped
  <1>4. /\ n \in Nat /\ InText \in [1 .. n -> kept]
        /\ \A i, j \in 1 .. n : i < j => At(i).end <= At(j).start
    BY <1>1, InTextIs
  <1>5. \A i \in 1 .. n : At(i).start \in Nat /\ At(i).end \in Nat /\ At(i).start < At(i).end
    BY <1>4, Placed DEF KeptPlaced, At
  <1>6. \A i \in 1 .. n : b <= At(i).start
    <2> SUFFICES ASSUME NEW i \in 1 .. n PROVE b <= At(i).start
      OBVIOUS
    <2>1. 1 \in 1 .. n /\ n # 0 /\ 0 + 1 = 1
      BY <1>4
    <2>2. b = At(1).start
      BY <1>1, <2>1 DEF Border
    <2>3. CASE i = 1
      BY <1>5, <2>2, <2>3
    <2>4. CASE i # 1
      <3>1. 1 < i
        BY <1>4, <2>4
      <3>2. At(1).end <= At(i).start
        BY <1>4, <2>1, <3>1
      <3> QED BY <1>5, <2>1, <2>2, <3>2
    <2> QED BY <2>3, <2>4
  <1>7. ASSUME NEW c \in 1 .. b PROVE p[c] = <<s[c]>>
    <2>1. c \in 1 .. Len(text)
      BY <1>1, <1>2
    <2>2. \A i \in 1 .. Cardinality(kept) : ~(At(i).start < c /\ c <= At(i).end)
      BY <1>1, <1>2, <1>5, <1>6
    <2> QED BY <1>1, <2>1, <2>2, BitsOutside
  <1>8. PICK u, w : u = Slice(s, 0, b) /\ w = Slice(p, 0, b)
    OBVIOUS
  <1>9. 0 \in Nat /\ 0 <= b /\ b - 0 = b /\ \A i \in 1 .. b : 0 + i = i
    BY <1>2
  <1>10. u \in Seq(Element) /\ Len(u) = b /\ \A i \in 1 .. b : u[i] = s[i]
    <2>1. u \in Seq(Element) /\ Len(u) = b - 0 /\ \A i \in 1 .. b - 0 : u[i] = s[0 + i]
      BY <1>2, <1>8, <1>9, SliceTyped
    <2> QED BY <1>9, <2>1
  <1>11. w \in Seq(Seq(Element)) /\ Len(w) = b /\ \A i \in 1 .. b : w[i] = p[i]
    <2>1. b <= Len(p)
      BY <1>2, <1>3
    <2>2. w \in Seq(Seq(Element)) /\ Len(w) = b - 0 /\ \A i \in 1 .. b - 0 : w[i] = p[0 + i]
      BY <1>2, <1>3, <1>8, <1>9, <2>1, PartsTyped
    <2> QED BY <1>9, <2>2
  <1>12. \A i \in 1 .. Len(u) : w[i] = <<u[i]>>
    BY <1>7, <1>10, <1>11
  <1>13. FlattenSeq(w) = u
    BY <1>10, <1>11, <1>12, FlatSingles
  <1> QED BY <1>1, <1>8, <1>13

\* The edits have made of the text what reading it from left to right makes.
LEMMA MaskRight == IInv /\ Rewriting => MaskIsAsRead
  <1> SUFFICES ASSUME IInv, Rewriting, phase \in {"restore", "done"}
               PROVE  masked = MaskRead
    BY DEF MaskIsAsRead
  <1>1. left = 0 /\ masked = Glued(Slice(text, 0, Border), Remade)
    BY DEF Rewriting, Restoring, Edited
  <1>2. PICK b, p, s, k : b = Border /\ p = Bits /\ s = text /\ k = Len(text)
    OBVIOUS
  <1>3. s \in Seq(Element) /\ k \in Nat /\ b \in Nat /\ b <= k /\ k <= k
    BY <1>2, RemadeTyped
  <1>4. p \in Seq(Seq(Element)) /\ Len(p) = k
    BY <1>2, BitsTyped
  <1>5. PICK v, w : v = Slice(p, 0, b) /\ w = Slice(p, b, k)
    OBVIOUS
  <1>6. 0 \in Nat /\ 0 <= b /\ 0 <= k /\ k - 0 = k /\ \A i \in 1 .. k : 0 + i = i
    BY <1>3
  <1>7. v \in Seq(Seq(Element)) /\ w \in Seq(Seq(Element))
    BY <1>3, <1>4, <1>5, <1>6, PartsTyped
  <1>8. v \o w = p
    <2>1. v \o w = Slice(p, 0, k)
      BY <1>3, <1>4, <1>5, <1>6, AdjacentParts
    <2>2. PICK y : y = Slice(p, 0, k)
      OBVIOUS
    <2>3. y \in Seq(Seq(Element)) /\ Len(y) = k - 0 /\ \A i \in 1 .. k - 0 : y[i] = p[0 + i]
      BY <1>3, <1>4, <1>6, <2>2, PartsTyped
    <2>4. y = p
      BY <1>4, <1>6, <2>3, SameParts
    <2> QED BY <2>1, <2>2, <2>4, Zenon
  <1>9. FlattenSeq(v \o w) = FlattenSeq(v) \o FlattenSeq(w)
    BY <1>7, FlatConcat, Zenon
  <1>10. FlattenSeq(v) = Slice(text, 0, Border)
    BY <1>1, <1>2, <1>5, MaskBegins
  <1>11. FlattenSeq(w) = Remade
    BY <1>2, <1>5 DEF Remade
  <1>12. masked = FlattenSeq(p)
    BY <1>1, <1>8, <1>9, <1>10, <1>11, Zenon DEF Glued
  <1>13. MaskRead = FlattenSeq(Bits)
    BY Zenon DEF MaskRead, Bits
  <1> QED BY <1>2, <1>12, <1>13

\* A mask sent back unchanged is restored to the text.
LEMMA TextBack == IInv /\ Rewriting /\ ValuesStand => OriginalRestored
  <1> SUFFICES ASSUME IInv, Rewriting, ValuesStand, phase = "done", reply = masked
               PROVE  restored = text
    BY DEF OriginalRestored
  <1>1. PICK b, s, k, r, d, h :
           /\ b = Border /\ s = text /\ k = Len(text) /\ r = Remade /\ d = tokens
           /\ h = Slice(text, 0, Border)
    OBVIOUS
  <1>2. /\ left = 0 /\ masked = Glued(h, r) /\ restored = Subst(reply, Taken) /\ todo = {}
        /\ d \in [DOMAIN d -> Plain] /\ DOMAIN d = TokensOf(0)
        /\ Subst(r, d) = Slice(s, b, k)
    BY <1>1 DEF Rewriting, Restoring, Edited
  <1>3. s \in Seq(Element) /\ k \in Nat /\ b \in Nat /\ b <= k /\ k <= k /\ r \in Seq(Element)
        /\ k = Len(s)
    BY <1>1, RemadeTyped
  <1>4. Taken = d
    <2>1. Taken = [x \in DOMAIN d |-> d[x]]
      BY <1>1, <1>2 DEF Taken
    <2> QED BY <1>2, <2>1
  <1>5. d \in [DOMAIN d -> Seq(Element)]
    <2>1. \A x : x \in Plain => x \in Seq(Element)
      BY PlainIs
    <2> QED BY <1>2, <2>1
  <1>6. 0 \in Nat /\ 0 <= b /\ 0 <= k /\ b - 0 = b /\ k - 0 = k
        /\ \A i \in 1 .. k : 0 + i = i
    BY <1>3
  <1>7. h \in Seq(Element) /\ Len(h) = b /\ \A i \in 1 .. b : h[i] = s[i]
    <2>1. h = Slice(s, 0, b)
      BY <1>1
    <2>2. h \in Seq(Element) /\ Len(h) = b - 0 /\ \A i \in 1 .. b - 0 : h[i] = s[0 + i]
      <3>1. s \in Seq(Element) /\ b \in Nat /\ b <= Len(s) /\ 0 \in Nat /\ 0 <= b
        BY <1>3
      <3> QED BY <2>1, <3>1, SliceTyped
    <2> QED BY <1>3, <1>6, <2>2
  <1>8. Subst(h, d) = h
    <2>1. \A i \in 1 .. Len(s) : s[i] \in Words \cup Signs
      BY <1>1, Placed, PlainIs
    <2>2. \A i \in 1 .. b : i \in 1 .. Len(s)
      BY <1>3
    <2>3. \A y \in Words \cup Signs : y \notin TokensOf(0)
      BY <1>6, NoTokens
    <2>4. \A i \in 1 .. Len(h) : h[i] \notin DOMAIN d
      BY <1>2, <1>7, <2>1, <2>2, <2>3
    <2> QED BY <1>5, <1>7, <2>4, SubstNothing
  <1>9. Subst(h \o r, d) = Subst(h, d) \o Subst(r, d)
    BY <1>3, <1>5, <1>7, SubstConcat, Zenon
  <1>10. Slice(s, 0, b) \o Slice(s, b, k) = Slice(s, 0, k)
    BY <1>3, <1>6, Adjacent
  <1>11. Slice(s, 0, k) = s
    <2>1. PICK y : y = Slice(s, 0, k)
      OBVIOUS
    <2>2. y \in Seq(Element) /\ Len(y) = k - 0 /\ \A i \in 1 .. k - 0 : y[i] = s[0 + i]
      <3>1. s \in Seq(Element) /\ k \in Nat /\ k <= Len(s) /\ 0 \in Nat /\ 0 <= k
        BY <1>3
      <3> QED BY <2>1, <3>1, SliceTyped
    <2> QED BY <1>3, <1>6, <2>1, <2>2, Alike
  <1>12. restored = Subst(h \o r, d)
    BY <1>2, <1>4, Zenon DEF Glued
  <1> QED BY <1>1, <1>2, <1>8, <1>9, <1>10, <1>11, <1>12, Zenon

\* A text whose words are set apart by single blanks, of which no selected
\* entity begins with one.
Regular ==
    /\ \A i \in 1 .. Len(text) : text[i] \in Spaces =>
          text[i] = Blank /\ (i > 1 => text[i - 1] \notin Spaces)
    /\ \A k \in kept : text[entities[k].start + 1] \notin Spaces

\* What is left of a match in such a text is its beginning, also where it is
\* put together from its fields.
LEMMA ValueBegins ==
    ASSUME NEW t, NEW s \in Plain, s # <<>>, s[1] \notin Spaces,
           \A i \in 1 .. Len(s) : s[i] \in Spaces =>
              s[i] = Blank /\ (i > 1 => s[i - 1] \notin Spaces),
           Value(t, s) # <<>>
    PROVE  IsBeginning(Value(t, s), s)
  <1>0. s \in Seq(Words \cup Signs)
    BY DEF Plain
  <1>1. CASE t \in Trimming
    BY <1>0, <1>1, TrimmingBegins
  <1>2. CASE t = Citizenship
    <2>1. PICK stops : stops = {i \in Solid(s) : /\ i = 1 \/ s[i - 1] \in Spaces
                                                /\ s[i] \notin Capital}
      OBVIOUS
    <2>2. stops \in SUBSET (1 .. Len(s) + 1)
      BY <1>0, <2>1 DEF Solid
    <2>3. PICK w : w = TrimSpace(UpTo(s, stops))
      OBVIOUS
    <2>4. IsBeginning(w, s)
      BY <1>0, <2>2, <2>3, CutAndTrimmed
    <2>5. PICK n \in 0 .. Len(s) : w = SubSeq(s, 1, n)
      BY <2>4 DEF IsBeginning
    <2>6. w \in Plain /\ Len(w) = n /\ \A i \in 1 .. n : w[i] = s[i]
      BY <1>0, <2>5, FirstOnes DEF Plain
    <2>7. Joined(w) = w
      <3>1. Len(s) \in Nat
        BY LengthIsNat
      <3>2. ASSUME NEW i \in 1 .. Len(w), w[i] \in Spaces
            PROVE  w[i] = Blank /\ w[i - 1] \notin Spaces
        <4>1. i \in 1 .. Len(s) /\ w[i] = s[i]
          BY <2>6, <3>1
        <4>2. i # 1
          BY <3>2, <4>1
        <4>3. i - 1 \in 1 .. n /\ i > 1
          BY <2>6, <4>1, <4>2
        <4> QED BY <2>6, <3>2, <4>1, <4>3
      <3> QED BY <2>6, <3>2, JoinedAlready
    <2>8. Value(t, s) = w
      BY <1>2, <2>1, <2>3, <2>7, DetectorAssumption DEF Value, TrimToCapitalized
    <2> QED BY <2>4, <2>8
  <1>3. CASE t \notin Trimming \cup {Citizenship}
    <2>1. Value(t, s) = s
      BY <1>3 DEF Value, Trimming
    <2>2. s = SubSeq(s, 1, Len(s)) /\ Len(s) \in 0 .. Len(s)
      BY <1>0, SubSeqFull, LengthIsNat
    <2> QED BY <2>1, <2>2 DEF IsBeginning
  <1> QED BY <1>1, <1>2, <1>3

\* There, every selected entity has the value of its place.
LEMMA RegularStands == IInv /\ Regular => ValuesStand
  <1> SUFFICES ASSUME IInv, Regular, NEW k \in kept
               PROVE  entities[k].value = Slice(text, entities[k].start, entities[k].end)
    BY DEF ValuesStand
  <1>1. PICK e, s, a, z : e = entities[k] /\ s = text /\ a = e.start /\ z = e.end
    OBVIOUS
  <1>2. s \in Plain /\ s \in Seq(Element) /\ Len(s) \in Nat
    BY <1>1, Placed, PlainIs, LengthIsNat
  <1>3. e \in MatchesIn(text)
    BY <1>1 DEF IInv, TypeOK
  <1>4. /\ a \in Nat /\ z \in Nat /\ a < z /\ z <= Len(s)
        /\ \E b \in Nat : /\ a < b /\ b <= Len(s)
                          /\ e.value = Value(e.type, Slice(s, a, b))
                          /\ z = a + Len(e.value)
        /\ e.value \in Plain
    BY <1>1, <1>2, <1>3, EntityIs
  <1>5. PICK b \in Nat : /\ a < b /\ b <= Len(s)
                         /\ e.value = Value(e.type, Slice(s, a, b))
                         /\ z = a + Len(e.value)
    BY <1>4
  <1>6. PICK u, v, t : u = Slice(s, a, b) /\ v = e.value /\ t = e.type
    OBVIOUS
  <1>7. u \in Seq(Element) /\ Len(u) = b - a /\ \A i \in 1 .. b - a : u[i] = s[a + i]
    <2>1. s \in Seq(Element) /\ a \in Nat /\ a <= b /\ b <= Len(s) /\ u = Slice(s, a, b)
      BY <1>2, <1>4, <1>5, <1>6
    <2> QED BY <2>1, SliceTyped
  <1>8. \A i \in 1 .. b - a : a + i \in 1 .. Len(s)
    BY <1>2, <1>4, <1>5
  <1>9. u \in Plain
    <2>1. \A i \in 1 .. Len(s) : s[i] \in Words \cup Signs
      BY <1>2, PlainIs
    <2> QED BY <1>7, <1>8, <2>1, PlainIs
  <1>10. u # <<>> /\ u[1] \notin Spaces /\ 1 \in 1 .. b - a
    <2>1. 1 \in 1 .. b - a
      BY <1>4, <1>5
    <2>2. u[1] = s[a + 1]
      BY <1>7, <2>1
    <2>3. s[a + 1] \notin Spaces
      BY <1>1 DEF Regular
    <2> QED BY <1>7, <2>1, <2>2, <2>3
  <1>11. \A i \in 1 .. Len(s) : s[i] \in Spaces =>
            s[i] = Blank /\ (i > 1 => s[i - 1] \notin Spaces)
    BY <1>1 DEF Regular
  <1>12. ASSUME NEW i \in 1 .. Len(u), u[i] \in Spaces
         PROVE  u[i] = Blank /\ (i > 1 => u[i - 1] \notin Spaces)
    <2>1. i \in 1 .. b - a /\ u[i] = s[a + i] /\ a + i \in 1 .. Len(s)
      BY <1>7, <1>8
    <2>2. s[a + i] = Blank /\ (a + i > 1 => s[(a + i) - 1] \notin Spaces)
      BY <1>11, <1>12, <2>1
    <2>3. CASE i > 1
      <3>1. i - 1 \in 1 .. b - a /\ a + (i - 1) = (a + i) - 1 /\ a + i > 1
        BY <1>4, <2>1, <2>3
      <3>2. u[i - 1] = s[(a + i) - 1]
        BY <1>7, <3>1
      <3> QED BY <2>1, <2>2, <3>1, <3>2
    <2> QED BY <2>1, <2>2, <2>3
  <1>13. v = Value(t, u) /\ v # <<>> /\ v \in Plain
    <2>1. Len(e.value) # 0
      BY <1>4, <1>5
    <2> QED BY <1>4, <1>5, <1>6, <2>1
  <1>14. IsBeginning(v, u)
    BY <1>9, <1>10, <1>12, <1>13, ValueBegins
  <1>15. PICK n \in 0 .. Len(u) : v = SubSeq(u, 1, n)
    BY <1>14 DEF IsBeginning
  <1>16. Len(v) = n /\ v \in Seq(Element) /\ \A i \in 1 .. n : v[i] = u[i]
    BY <1>7, <1>15, FirstOnes
  <1>17. PICK y : y = Slice(s, a, z)
    OBVIOUS
  <1>18. y \in Seq(Element) /\ Len(y) = z - a /\ \A i \in 1 .. z - a : y[i] = s[a + i]
    <2>1. a <= z
      BY <1>4
    <2> QED BY <1>2, <1>4, <1>17, <2>1, SliceTyped
  <1>19. z - a = n /\ \A i \in 1 .. n : i \in 1 .. b - a
    <2>1. z = a + n
      BY <1>5, <1>6, <1>16
    <2>2. n \in 0 .. b - a
      BY <1>7
    <2> QED BY <1>4, <1>5, <2>1, <2>2
  <1>20. \A i \in 1 .. Len(y) : y[i] = v[i]
    BY <1>7, <1>16, <1>18, <1>19
  <1>21. y = v
    BY <1>16, <1>18, <1>19, <1>20, Alike
  <1> QED BY <1>1, <1>6, <1>17, <1>21

-----------------------------------------------------------------------------
(* The tokens in a text *)

\* What is in two sequences is in both put together.
LEMMA InBoth ==
    ASSUME NEW s \in Seq(Element), NEW t \in Seq(Element)
    PROVE  \A x : x \in Range(s \o t) <=> x \in Range(s) \/ x \in Range(t)
  <1>1. PICK w, m, n : w = s \o t /\ m = Len(s) /\ n = Len(t)
    OBVIOUS
  <1>2. m \in Nat /\ n \in Nat /\ DOMAIN s = 1 .. m /\ DOMAIN t = 1 .. n
    BY <1>1
  <1>3. /\ w \in Seq(Element) /\ Len(w) = m + n
        /\ \A i \in 1 .. m + n : w[i] = IF i <= m THEN s[i] ELSE t[i - m]
    BY <1>1, Both
  <1>4. DOMAIN w = 1 .. m + n
    BY <1>3
  <1>5. ASSUME NEW i \in 1 .. m + n
        PROVE  \/ i \in 1 .. m /\ w[i] = s[i]
               \/ i - m \in 1 .. n /\ w[i] = t[i - m]
    BY <1>2, <1>3
  <1>6. ASSUME NEW i \in 1 .. m PROVE i \in 1 .. m + n /\ w[i] = s[i]
    BY <1>2, <1>3
  <1>7. ASSUME NEW i \in 1 .. n PROVE m + i \in 1 .. m + n /\ w[m + i] = t[i]
    <2>1. m + i \in 1 .. m + n /\ ~(m + i <= m) /\ (m + i) - m = i
      BY <1>2
    <2> QED BY <1>3, <2>1
  <1>8. /\ Range(w) = {w[i] : i \in 1 .. m + n}
        /\ Range(s) = {s[i] : i \in 1 .. m}
        /\ Range(t) = {t[i] : i \in 1 .. n}
    BY <1>2, <1>4 DEF Range
  <1>9. ASSUME NEW x \in Range(w) PROVE x \in Range(s) \/ x \in Range(t)
    <2>1. PICK i \in 1 .. m + n : x = w[i]
      BY <1>8
    <2> QED BY <1>5, <1>8, <2>1
  <1>10. ASSUME NEW x \in Range(s) PROVE x \in Range(w)
    <2>1. PICK i \in 1 .. m : x = s[i]
      BY <1>8
    <2> QED BY <1>6, <1>8, <2>1
  <1>11. ASSUME NEW x \in Range(t) PROVE x \in Range(w)
    <2>1. PICK i \in 1 .. n : x = t[i]
      BY <1>8
    <2> QED BY <1>7, <1>8, <2>1
  <1> QED BY <1>1, <1>9, <1>10, <1>11

\* What is in sequences is in all of them put together.
LEMMA FlatRange ==
    ASSUME NEW w \in Seq(Seq(Element)), NEW x
    PROVE  x \in Range(FlattenSeq(w)) <=> \E j \in 1 .. Len(w) : x \in Range(w[j])
  <1> DEFINE Ok(n) == x \in Range(FlattenSeq(SubSeq(w, 1, n)))
                         <=> \E j \in 1 .. n : x \in Range(w[j])
             S == {n \in Nat : n <= Len(w) => Ok(n)}
  <1>1. 0 \in S
    <2>1. SubSeq(w, 1, 0) = <<>>
      OBVIOUS
    <2>2. PICK f : f = FlattenSeq(SubSeq(w, 1, 0))
      OBVIOUS
    <2>3. f = <<>>
      BY <2>1, <2>2, FlatEmpty
    <2>4. x \notin Range(f)
      BY <2>3 DEF Range
    <2> QED BY <2>2, <2>4
  <1>2. ASSUME NEW n \in Nat, n \in S PROVE n + 1 \in S
    <2> SUFFICES ASSUME n + 1 <= Len(w) PROVE Ok(n + 1)
      OBVIOUS
    <2>1. PICK y : y = SubSeq(w, 1, n + 1)
      OBVIOUS
    <2>2. n + 1 \in 0 .. Len(w) /\ n \in 0 .. Len(w) /\ n + 1 \in 1 .. Len(w)
          /\ n + 1 \in 1 .. n + 1
      OBVIOUS
    <2>3. y \in Seq(Seq(Element)) /\ Len(y) = n + 1 /\ y[n + 1] = w[n + 1]
      BY <2>1, <2>2, FirstOnes
    <2>4. SubSeq(y, 1, n) = SubSeq(w, 1, n)
      BY <2>1, <2>2
    <2>5. PICK f \in Seq(Element) : f = FlattenSeq(SubSeq(w, 1, n))
      <3>1. SubSeq(w, 1, n) \in Seq(Seq(Element))
        BY <2>2, FirstOnes
      <3> QED BY <3>1, FlatTyped
    <2>6. PICK g : g = w[n + 1]
      OBVIOUS
    <2>7. FlattenSeq(y) = f \o g /\ g \in Seq(Element)
      <3>1. y # <<>>
        BY <2>3
      <3>2. FlattenSeq(y) = FlattenSeq(SubSeq(y, 1, n)) \o y[n + 1]
        BY <2>3, <3>1, FlatLast
      <3>3. g \in Seq(Element)
        BY <2>2, <2>6
      <3> QED BY <2>3, <2>4, <2>5, <2>6, <3>2, <3>3
    <2>8. x \in Range(f \o g) <=> x \in Range(f) \/ x \in Range(g)
      BY <2>7, InBoth
    <2>9. x \in Range(f) <=> \E j \in 1 .. n : x \in Range(w[j])
      BY <1>2, <2>5
    <2>10. (\E j \in 1 .. n + 1 : x \in Range(w[j]))
              <=> (\E j \in 1 .. n : x \in Range(w[j])) \/ x \in Range(g)
      <3>1. \A j : j \in 1 .. n + 1 <=> j \in 1 .. n \/ j = n + 1
        OBVIOUS
      <3> QED BY <2>6, <3>1
    <2>11. x \in Range(FlattenSeq(y)) <=> \E j \in 1 .. n + 1 : x \in Range(w[j])
      BY <2>7, <2>8, <2>9, <2>10, Zenon
    <2> QED BY <2>1, <2>11, Zenon
  <1>3. \A n \in Nat : n \in S
    <2> HIDE DEF S
    <2> QED BY <1>1, <1>2, Induction
  <1>4. Len(w) \in Nat /\ Ok(Len(w))
    BY <1>3
  <1>5. SubSeq(w, 1, Len(w)) = w
    BY SubSeqFull
  <1> QED BY <1>4, <1>5, Zenon

\* What is in a sequence after a substitution: what was in it and is not
\* replaced, and what is in that which replaces something.
LEMMA SubstRange ==
    ASSUME NEW s \in Seq(Element), NEW d, d \in [DOMAIN d -> Seq(Element)], NEW x
    PROVE  x \in Range(Subst(s, d)) <=>
              \/ x \in Range(s) /\ x \notin DOMAIN d
              \/ \E y \in Range(s) \cap DOMAIN d : x \in Range(d[y])
  <1>1. PICK p, n : p = Pieces(s, d) /\ n = Len(s)
    OBVIOUS
  <1>2. /\ p \in Seq(Seq(Element)) /\ Len(p) = n /\ n \in Nat /\ DOMAIN s = 1 .. n
        /\ \A i \in 1 .. n : p[i] = IF s[i] \in DOMAIN d THEN d[s[i]] ELSE <<s[i]>>
    BY <1>1, PiecesTyped
  <1>3. x \in Range(Subst(s, d)) <=> \E i \in 1 .. n : x \in Range(p[i])
    BY <1>1, <1>2, FlatRange DEF Subst
  <1>4. \A c : Range(<<c>>) = {c}
    BY DEF Range
  <1>5. ASSUME NEW i \in 1 .. n
        PROVE  x \in Range(p[i]) <=>
                  IF s[i] \in DOMAIN d THEN x \in Range(d[s[i]]) ELSE x = s[i]
    BY <1>2, <1>4
  <1>6. Range(s) = {s[i] : i \in 1 .. n}
    BY <1>2 DEF Range
  <1>7. ASSUME NEW i \in 1 .. n, x \in Range(p[i])
        PROVE  \/ x \in Range(s) /\ x \notin DOMAIN d
               \/ \E y \in Range(s) \cap DOMAIN d : x \in Range(d[y])
    BY <1>5, <1>6, <1>7
  <1>8. ASSUME x \in Range(s), x \notin DOMAIN d
        PROVE  \E i \in 1 .. n : x \in Range(p[i])
    BY <1>5, <1>6, <1>8
  <1>9. ASSUME NEW y \in Range(s) \cap DOMAIN d, x \in Range(d[y])
        PROVE  \E i \in 1 .. n : x \in Range(p[i])
    BY <1>5, <1>6, <1>9
  <1> QED BY <1>3, <1>7, <1>8, <1>9

\* The tokens in the mask are those of the table.
LEMMA MaskTokens ==
    ASSUME IInv, Rewriting, phase \in {"restore", "done"}
    PROVE  TokensIn(masked) = TokensOf(0)
  <1>1. masked = FlattenSeq(Bits)
    <2>1. masked = MaskRead
      BY MaskRight DEF MaskIsAsRead
    <2>2. MaskRead = FlattenSeq(Bits)
      BY Zenon DEF MaskRead, Bits
    <2> QED BY <2>1, <2>2
  <1>2. PICK n, p, s : n = Cardinality(kept) /\ p = Bits /\ s = text
    OBVIOUS
  <1>3. p \in Seq(Seq(Element)) /\ Len(p) = Len(s)
    BY <1>2, BitsTyped
  <1>4. s \in Plain /\ Len(s) \in Nat /\ \A i \in 1 .. Len(s) : s[i] \in Words \cup Signs
    BY <1>2, Placed, PlainIs, LengthIsNat
  <1>5. n \in Nat /\ InText \in [1 .. n -> kept]
    BY <1>2, InTextIs
  <1>6. \A i \in 1 .. n : /\ At(i).start \in Nat /\ At(i).end \in Nat
                          /\ At(i).start < At(i).end /\ At(i).end <= Len(s)
    BY <1>2, <1>5, Placed DEF KeptPlaced, At
  <1>7. Range(<<>>) = {} /\ \A c : Range(<<c>>) = {c}
    BY DEF Range
  <1>8. ASSUME NEW x, x \in TokensIn(masked) PROVE x \in TokensOf(0)
    <2>1. x \in Range(FlattenSeq(p)) /\ x \notin Words \cup Signs
      BY <1>1, <1>2, <1>8 DEF TokensIn
    <2>2. PICK c \in 1 .. Len(s) : x \in Range(p[c])
      BY <1>3, <2>1, FlatRange
    <2>3. PICK i \in 1 .. n : At(i).start < c /\ c <= At(i).end
      <3> SUFFICES ASSUME \A i \in 1 .. n : ~(At(i).start < c /\ c <= At(i).end)
                   PROVE  FALSE
        OBVIOUS
      <3>1. p[c] = <<s[c]>>
        BY <1>2, BitsOutside
      <3> QED BY <1>4, <1>7, <2>1, <2>2, <3>1
    <2>4. CASE c = At(i).start + 1
      <3>1. p[c] = <<Token(i)>>
        BY <1>2, <2>4, BitsInside
      <3>2. x = Token(i) /\ i \in 0 + 1 .. n
        BY <1>7, <2>2, <3>1
      <3> QED BY <1>2, <3>2 DEF TokensOf
    <2>5. CASE c # At(i).start + 1
      <3>1. c \in At(i).start + 2 .. At(i).end
        BY <1>6, <2>3, <2>5
      <3>2. p[c] = <<>>
        BY <1>2, <3>1, BitsInside
      <3> QED BY <1>7, <2>2, <3>2
    <2> QED BY <2>4, <2>5
  <1>9. ASSUME NEW x, x \in TokensOf(0) PROVE x \in TokensIn(masked)
    <2>1. PICK i \in 1 .. n : x = Token(i)
      BY <1>2, <1>9 DEF TokensOf
    <2>2. PICK c : c = At(i).start + 1
      OBVIOUS
    <2>3. c \in 1 .. Len(s)
      BY <1>4, <1>6, <2>2
    <2>4. p[c] = <<x>>
      BY <1>2, <2>1, <2>2, BitsInside
    <2>5. x \in Range(FlattenSeq(p))
      BY <1>3, <1>7, <2>3, <2>4, FlatRange
    <2>6. x \notin Words \cup Signs
      BY <1>9, NoTokens
    <2> QED BY <1>1, <1>2, <2>5, <2>6 DEF TokensIn
  <1> QED BY <1>8, <1>9

\* A token of its own for each selected entity.
LEMMA TokenEach ==
    ASSUME IInv
    PROVE  Cardinality(TokensOf(0)) = Cardinality(kept)
  <1>1. PICK n, T : n = Cardinality(kept) /\ T = TokensOf(0)
    OBVIOUS
  <1>2. n \in Nat
    BY <1>1, InTextIs
  <1>3. PICK f : f = [i \in 1 .. n |-> Token(i)]
    OBVIOUS
  <1>4. T = {f[i] : i \in 1 .. n}
    <2>1. T = {Token(i) : i \in 0 + 1 .. n}
      BY <1>1 DEF TokensOf
    <2>2. 0 + 1 = 1
      OBVIOUS
    <2> QED BY <1>3, <2>1, <2>2
  <1>5. \A i, j \in 1 .. n : f[i] = f[j] => i = j
    <2>1. \A i \in 1 .. n : f[i].number = i - 1
      BY <1>1, <1>3, TokenIs
    <2> QED BY <1>2, <2>1
  <1>6. f \in Bijection(1 .. n, T)
    BY <1>3, <1>4, <1>5 DEF Bijection, Injection, Surjection, IsInjective
  <1>7. IsFiniteSet(1 .. n) /\ Cardinality(1 .. n) = n
    BY <1>2, FS_Interval
  <1>8. Cardinality(T) = n
    <2>1. PICK N : N = 1 .. n
      OBVIOUS
    <2>2. IsFiniteSet(N) /\ Cardinality(N) = n /\ f \in Bijection(N, T)
      BY <1>6, <1>7, <2>1
    <2>3. ExistsBijection(N, T)
      BY <2>2 DEF ExistsBijection
    <2> QED BY <2>2, <2>3, FS_Bijection
  <1> QED BY <1>1, <1>8

\* The mask shows its table.
LEMMA TableShown == IInv /\ Rewriting => MaskShowsTable
  <1> SUFFICES ASSUME IInv, Rewriting, phase \in {"restore", "done"}
               PROVE  /\ TokensIn(masked) = DOMAIN tokens
                      /\ Cardinality(DOMAIN tokens) = Cardinality(kept)
                      /\ \A n \in kept : \E t \in DOMAIN tokens :
                            t.type = entities[n].type /\ tokens[t] = entities[n].value
    BY DEF MaskShowsTable
  <1>1. /\ left = 0 /\ DOMAIN tokens = TokensOf(0)
        /\ \A i \in 1 .. Cardinality(kept) : tokens[Token(i)] = At(i).value
    <2>1. left = 0
      BY DEF Rewriting, Restoring
    <2>2. left + 1 = 1
      BY <2>1
    <2> QED BY <2>1, <2>2 DEF Rewriting, Edited
  <1>2. ASSUME NEW k \in kept
        PROVE  \E t \in DOMAIN tokens :
                  t.type = entities[k].type /\ tokens[t] = entities[k].value
    <2>1. PICK i \in 1 .. Cardinality(kept) : InText[i] = k
      BY InTextIs
    <2>2. Token(i) \in DOMAIN tokens
      BY <1>1 DEF TokensOf
    <2>3. Token(i).type = entities[k].type /\ At(i).value = entities[k].value
      BY <2>1 DEF Token, At
    <2> QED BY <1>1, <2>2, <2>3
  <1> QED BY <1>1, <1>2, MaskTokens, TokenEach

\* Restoring takes the known tokens out of a reply, and no others.
LEMMA KnownGone == IInv /\ Rewriting => OnlyKnownGone
  <1> SUFFICES ASSUME IInv, Rewriting, phase = "done"
               PROVE  TokensIn(restored) = TokensIn(reply) \ DOMAIN tokens
    BY DEF OnlyKnownGone
  <1>1. PICK d, q, r : d = tokens /\ q = reply /\ r = restored
    OBVIOUS
  <1>2. /\ r = Subst(q, Taken) /\ q \in Seq(Element) /\ todo = {}
        /\ d \in [DOMAIN d -> Plain] /\ DOMAIN d = TokensOf(0)
    BY <1>1 DEF Rewriting, Restoring, Edited
  <1>3. Taken = d
    <2>1. Taken = [x \in DOMAIN d |-> d[x]]
      BY <1>1, <1>2 DEF Taken
    <2> QED BY <1>2, <2>1
  <1>4. /\ d \in [DOMAIN d -> Seq(Element)]
        /\ \A y \in DOMAIN d : \A x \in Range(d[y]) : x \in Words \cup Signs
    <2>1. \A v : v \in Plain => /\ v \in Seq(Element)
                                /\ \A i \in 1 .. Len(v) : v[i] \in Words \cup Signs
      BY PlainIs
    <2>2. \A v : v \in Plain => \A x \in Range(v) : x \in Words \cup Signs
      BY DEF Plain, Range
    <2> QED BY <1>2, <2>1, <2>2
  <1>5. \A x : x \in Range(r) <=>
                  \/ x \in Range(q) /\ x \notin DOMAIN d
                  \/ \E y \in Range(q) \cap DOMAIN d : x \in Range(d[y])
    BY <1>2, <1>3, <1>4, SubstRange
  <1>6. TokensIn(r) = TokensIn(q) \ DOMAIN d
    BY <1>4, <1>5 DEF TokensIn
  <1> QED BY <1>1, <1>6

-----------------------------------------------------------------------------
(* Theorems *)

\* In whatever order tokens are replaced, it is as if all were at once.
THEOREM ReplacedAtOnce == Spec => []AllAtOnce
  <1> QED BY Rewrites, AllTaken, PTL

\* Editing by offsets from the last entity to the first yields the mask as it
\* is read from the first to the last, for every text and every selection.
THEOREM MaskIsRight == Spec => []MaskIsAsRead
  <1> QED BY Invariance, Rewrites, MaskRight, PTL

\* A mask sent back unchanged is restored to the text, for every text of
\* single blanks of which no selected entity begins with one: other blanks
\* may be lost, as a run of module MCMasking shows.
THEOREM ComesBack == Spec => [](Regular => OriginalRestored)
  <1>1. IInv /\ Rewriting => (Regular => OriginalRestored)
    BY RegularStands, TextBack
  <1> QED BY <1>1, Invariance, Rewrites, PTL

\* What module Proxy takes Mask and Unmask for: a mask shows the tokens of
\* its table and no others, one for each selected entity, and in whatever a
\* model made of it every token of the table is replaced wherever it stands,
\* while tokens of other calls stay.
THEOREM ProxyTakesItRightly == Spec => []AsProxyTakesIt
  <1>1. IInv /\ Rewriting => AsProxyTakesIt
    BY TableShown, KnownGone DEF AsProxyTakesIt
  <1> QED BY <1>1, Invariance, Rewrites, PTL
=============================================================================
