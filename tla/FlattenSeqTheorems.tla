-------------------------- MODULE FlattenSeqTheorems --------------------------
(***************************************************************************)
(* What FlattenSeq of the community modules gives, for all sequences of    *)
(* sequences.  It is a recursive function, and the induction it needs is   *)
(* taken from the well-foundedness of < on the natural numbers.            *)
(***************************************************************************)
EXTENDS Integers, Sequences, SequencesExt, SequenceTheorems, WellFoundedInduction, TLAPS

\* A set of natural numbers has a least one.
LEMMA LeastOf ==
  ASSUME NEW T, T \subseteq Nat, T # {}
  PROVE \E x \in T : \A y \in T : ~(y < x)
<1> DEFINE R == {ss \in Nat \X Nat : ss[1] < ss[2]}
<1>1. IsWellFoundedOn(R, Nat)
  BY NatLessThanWellFounded DEF OpToRel
<1> HIDE DEF R
<1>2. PICK x \in T : \A y \in T : ~(<<y, x>> \in R)
  BY <1>1, WFMin
<1>3. \A y \in T : <<y, x>> \in R <=> y < x
  BY DEF R
<1>4. QED
  BY <1>2, <1>3

\* Induction, for a set: the theorems of NaturalsInduction are about an operator.
LEMMA NatSets ==
  ASSUME NEW T \in SUBSET Nat, 0 \in T, \A n \in T : n + 1 \in T
  PROVE T = Nat
<1>1. SUFFICES ASSUME T # Nat PROVE FALSE
  OBVIOUS
<1>2. PICK x \in Nat \ T : \A y \in Nat \ T : ~(y < x)
  BY <1>1, LeastOf
<1>3. x # 0 /\ x - 1 \in Nat /\ x - 1 < x
  BY <1>2
<1>4. x - 1 \in T
  BY <1>2, <1>3
<1>5. QED
  BY <1>2, <1>3, <1>4

-----------------------------------------------------------------------------
\* f[i] is what the first i sequences make together.
Builds(f, seqs, n) ==
  \A i \in 1 .. n : f[i] = IF i = 1 THEN seqs[i] ELSE f[i - 1] \o seqs[i]

\* There is such a function, by induction on n.
LEMMA PartsAreBuilt ==
  ASSUME NEW S, NEW seqs \in Seq(Seq(S)), NEW n \in Nat, n <= Len(seqs)
  PROVE  \E f \in [1 .. n -> Seq(S)] : Builds(f, seqs, n)
<1> DEFINE T == {k \in Nat : k <= Len(seqs) => \E f \in [1 .. k -> Seq(S)] : Builds(f, seqs, k)}
<1>1. Len(seqs) \in Nat /\ \A i \in 1 .. Len(seqs) : seqs[i] \in Seq(S)
  BY LenProperties, ElementOfSeq
<1>2. 0 \in T
  <2>1. [i \in 1 .. 0 |-> <<>>] \in [1 .. 0 -> Seq(S)]
    OBVIOUS
  <2>2. Builds([i \in 1 .. 0 |-> <<>>], seqs, 0)
    BY DEF Builds
  <2>3. QED
    BY <2>1, <2>2
<1>3. ASSUME NEW k \in T PROVE k + 1 \in T
  <2>1. k \in Nat
    BY DEF T
  <2>2. SUFFICES ASSUME k + 1 <= Len(seqs) PROVE \E f \in [1 .. k + 1 -> Seq(S)] : Builds(f, seqs, k + 1)
    OBVIOUS
  <2>3. PICK f \in [1 .. k -> Seq(S)] : Builds(f, seqs, k)
    BY <1>1, <2>2
  <2> DEFINE g == [i \in 1 .. k + 1 |-> IF i <= k THEN f[i] ELSE IF i = 1 THEN seqs[i] ELSE f[k] \o seqs[i]]
  <2>4. g \in [1 .. k + 1 -> Seq(S)]
    <3>1. ASSUME NEW i \in 1 .. k + 1 PROVE g[i] \in Seq(S)
      <4>1. CASE i <= k
        BY <4>1
      <4>2. CASE i = k + 1 /\ i = 1
        BY <1>1, <2>2, <4>2
      <4>3. CASE i = k + 1 /\ i # 1
        <5>1. f[k] \in Seq(S) /\ seqs[i] \in Seq(S)
          BY <1>1, <2>2, <4>3
        <5>2. f[k] \o seqs[i] \in Seq(S)
          BY <5>1, ConcatProperties
        <5>3. QED
          BY <4>3, <5>2
      <4>4. QED
        BY <4>1, <4>2, <4>3
    <3>2. QED
      BY <3>1
  <2>5. ASSUME NEW i \in 1 .. k + 1 PROVE g[i] = IF i = 1 THEN seqs[i] ELSE g[i - 1] \o seqs[i]
    <3>1. CASE i <= k
      <4>1. f[i] = IF i = 1 THEN seqs[i] ELSE f[i - 1] \o seqs[i]
        <5>1. i \in 1 .. k
          BY <2>1, <3>1
        <5>2. QED
          BY <2>3, <5>1 DEF Builds
      <4>2. i # 1 => i - 1 \in 1 .. k /\ g[i - 1] = f[i - 1]
        BY <3>1
      <4>3. QED
        BY <3>1, <4>1, <4>2
    <3>2. CASE i = k + 1
      <4>1. i # 1 => i - 1 = k /\ g[i - 1] = f[k]
        BY <3>2
      <4>2. QED
        BY <3>2, <4>1
    <3>3. QED
      BY <3>1, <3>2
  <2>6. QED
    BY <2>4, <2>5 DEF Builds
<1> HIDE DEF T
<1>4. T = Nat
  <2>1. T \in SUBSET Nat
    BY DEF T
  <2>2. QED
    BY <1>2, <1>3, <2>1, NatSets
<1>5. QED
  BY <1>4 DEF T

\* And there is only one.
LEMMA BuildsOnce ==
  ASSUME NEW seqs, NEW n \in Nat, NEW f, NEW g, Builds(f, seqs, n), Builds(g, seqs, n)
  PROVE  \A i \in 1 .. n : f[i] = g[i]
<1> DEFINE T == {k \in Nat : k \in 1 .. n => f[k] = g[k]}
<1>1. 0 \in T
  OBVIOUS
<1>2. ASSUME NEW k \in T PROVE k + 1 \in T
  <2>1. k \in Nat
    BY DEF T
  <2>2. SUFFICES ASSUME k + 1 \in 1 .. n PROVE f[k + 1] = g[k + 1]
    BY <2>1
  <2>3. f[k + 1] = (IF k + 1 = 1 THEN seqs[k + 1] ELSE f[k] \o seqs[k + 1])
    BY <2>1, <2>2 DEF Builds
  <2>4. g[k + 1] = (IF k + 1 = 1 THEN seqs[k + 1] ELSE g[k] \o seqs[k + 1])
    BY <2>1, <2>2 DEF Builds
  <2>5. k # 0 => f[k] = g[k]
    BY <2>1, <2>2
  <2>6. QED
    BY <2>1, <2>3, <2>4, <2>5
<1>3. T \in SUBSET Nat
  OBVIOUS
<1> HIDE DEF T
<1>4. T = Nat
  BY <1>1, <1>2, <1>3, NatSets
<1>5. QED
  BY <1>4 DEF T

\* The recursive function in FlattenSeq is one of these.
LEMMA Flattened ==
  ASSUME NEW S, NEW seqs \in Seq(Seq(S)), seqs # <<>>
  PROVE  \E f \in [1 .. Len(seqs) -> Seq(S)] : Builds(f, seqs, Len(seqs)) /\ FlattenSeq(seqs) = f[Len(seqs)]
<1> DEFINE n == Len(seqs)
           Is(f) == f = [i \in 1 .. n |-> IF i = 1 THEN seqs[i] ELSE f[i - 1] \o seqs[i]]
           flatten == CHOOSE f : Is(f)
<1>1. n \in Nat /\ n > 0
  BY LenProperties, EmptySeq
<1>2. PICK f \in [1 .. n -> Seq(S)] : Builds(f, seqs, n)
  <2>1. n <= Len(seqs)
    BY <1>1
  <2> HIDE DEF n
  <2>2. QED
    BY <1>1, <2>1, PartsAreBuilt
<1>3. Is(f)
  BY <1>2 DEF Builds
<1>4. Is(flatten)
  BY <1>3
<1>5. FlattenSeq(seqs) = flatten[n]
  BY <1>1 DEF FlattenSeq
<1>6. Builds(flatten, seqs, n)
  BY <1>4 DEF Builds
<1>7. f[n] = flatten[n]
  BY <1>1, <1>2, <1>6, BuildsOnce
<1>8. QED
  BY <1>2, <1>5, <1>7

\* Each element of s is the p[j]-th of the o[j]-th sequence, and no place occurs twice.
Places(s, seqs, m, o, p) ==
  /\ \A j \in 1 .. Len(s) : o[j] \in 1 .. m /\ p[j] \in 1 .. Len(seqs[o[j]]) /\ s[j] = seqs[o[j]][p[j]]
  /\ \A i, j \in 1 .. Len(s) : o[i] = o[j] /\ p[i] = p[j] => i = j

\* One more sequence brings its own places.
LEMMA PlacesNext ==
  ASSUME NEW S, NEW seqs \in Seq(Seq(S)), NEW m \in Nat, m + 1 <= Len(seqs), NEW s \in Seq(S),
         NEW o, NEW p, Places(s, seqs, m, o, p)
  PROVE  \E oo, pp : Places(s \o seqs[m + 1], seqs, m + 1, oo, pp)
<1> DEFINE new == seqs[m + 1]
           all == s \o new
           oo == [j \in 1 .. Len(all) |-> IF j <= Len(s) THEN o[j] ELSE m + 1]
           pp == [j \in 1 .. Len(all) |-> IF j <= Len(s) THEN p[j] ELSE j - Len(s)]
<1>1. new \in Seq(S) /\ Len(new) \in Nat /\ Len(s) \in Nat
  BY LenProperties, ElementOfSeq
<1>2. /\ Len(all) = Len(s) + Len(new)
      /\ \A j \in 1 .. Len(s) : all[j] = s[j]
      /\ \A j \in 1 .. Len(new) : all[Len(s) + j] = new[j]
  BY <1>1, ConcatProperties
<1> HIDE DEF all
<1>3. ASSUME NEW j \in 1 .. Len(all)
      PROVE  oo[j] \in 1 .. m + 1 /\ pp[j] \in 1 .. Len(seqs[oo[j]]) /\ all[j] = seqs[oo[j]][pp[j]]
  <2>1. CASE j <= Len(s)
    <3>1. j \in 1 .. Len(s)
      BY <1>1, <1>2, <2>1
    <3>2. o[j] \in 1 .. m /\ p[j] \in 1 .. Len(seqs[o[j]]) /\ s[j] = seqs[o[j]][p[j]]
      BY <3>1 DEF Places
    <3>3. oo[j] = o[j] /\ pp[j] = p[j] /\ all[j] = s[j]
      BY <1>2, <2>1, <3>1
    <3>4. QED
      BY <3>2, <3>3
  <2>2. CASE j > Len(s)
    <3>1. j - Len(s) \in 1 .. Len(new)
      BY <1>1, <1>2, <2>2
    <3>2. all[Len(s) + (j - Len(s))] = new[j - Len(s)] /\ Len(s) + (j - Len(s)) = j
      BY <1>1, <1>2, <3>1
    <3>3. oo[j] = m + 1 /\ pp[j] = j - Len(s)
      BY <1>1, <2>2
    <3>4. QED
      BY <3>1, <3>2, <3>3
  <2>3. QED
    BY <1>1, <1>2, <2>1, <2>2
<1>4. ASSUME NEW i \in 1 .. Len(all), NEW j \in 1 .. Len(all), oo[i] = oo[j], pp[i] = pp[j]
      PROVE  i = j
  <2>1. \A k \in 1 .. Len(s) : o[k] \in 1 .. m
    BY DEF Places
  <2>2. CASE i <= Len(s) /\ j <= Len(s)
    <3>1. i \in 1 .. Len(s) /\ j \in 1 .. Len(s) /\ o[i] = o[j] /\ p[i] = p[j]
      BY <1>1, <1>2, <1>4, <2>2
    <3>2. QED
      BY <3>1 DEF Places
  <2>3. CASE i > Len(s) /\ j > Len(s)
    BY <1>1, <1>2, <1>4, <2>3
  <2>4. CASE i <= Len(s) /\ j > Len(s)
    <3>1. i \in 1 .. Len(s) /\ o[i] = m + 1
      BY <1>1, <1>2, <1>4, <2>4
    <3>2. QED
      BY <2>1, <3>1
  <2>5. CASE i > Len(s) /\ j <= Len(s)
    <3>1. j \in 1 .. Len(s) /\ o[j] = m + 1
      BY <1>1, <1>2, <1>4, <2>5
    <3>2. QED
      BY <2>1, <3>1
  <2>6. QED
    BY <1>1, <1>2, <2>2, <2>3, <2>4, <2>5
<1>5. Places(all, seqs, m + 1, oo, pp)
  BY <1>3, <1>4 DEF Places
<1>6. QED
  BY <1>5 DEF all

\* FlattenSeq(seqs) is a sequence whose elements are those of seqs, each place once.
THEOREM FlattenSeqPlaces ==
  ASSUME NEW S, NEW seqs \in Seq(Seq(S))
  PROVE  /\ FlattenSeq(seqs) \in Seq(S)
         /\ \E o, p : Places(FlattenSeq(seqs), seqs, Len(seqs), o, p)
<1>1. CASE seqs = <<>>
  <2>1. FlattenSeq(seqs) = <<>> /\ Len(seqs) = 0
    BY <1>1, EmptySeq DEF FlattenSeq
  <2>2. Places(<<>>, seqs, 0, <<>>, <<>>)
    BY EmptySeq DEF Places
  <2>3. QED
    BY <2>1, <2>2, EmptySeq
<1>2. CASE seqs # <<>>
  <2> DEFINE n == Len(seqs)
  <2>1. n \in Nat /\ n > 0
    BY <1>2, LenProperties, EmptySeq
  <2>2. PICK f \in [1 .. n -> Seq(S)] : Builds(f, seqs, n) /\ FlattenSeq(seqs) = f[n]
    BY <1>2, Flattened
  <2> DEFINE T == {k \in Nat : k \in 1 .. n => \E o, p : Places(f[k], seqs, k, o, p)}
  <2>3. 0 \in T
    OBVIOUS
  <2>4. ASSUME NEW k \in T PROVE k + 1 \in T
    <3>1. k \in Nat
      BY DEF T
    <3>2. SUFFICES ASSUME k + 1 \in 1 .. n PROVE \E o, p : Places(f[k + 1], seqs, k + 1, o, p)
      BY <3>1
    <3>3. CASE k = 0
      <4>1. f[1] = seqs[1]
        <5>1. 1 \in 1 .. n /\ Builds(f, seqs, n)
          BY <2>1, <2>2
        <5> HIDE DEF n
        <5>2. QED
          BY <5>1 DEF Builds
      <4>2. Places(<<>>, seqs, 0, <<>>, <<>>) /\ <<>> \in Seq(S)
        BY EmptySeq DEF Places
      <4>3. \E o, p : Places(<<>> \o seqs[0 + 1], seqs, 0 + 1, o, p)
        <5>1. 0 + 1 <= Len(seqs)
          BY <2>1
        <5>2. QED
          BY <4>2, <5>1, PlacesNext
      <4>4. <<>> \o seqs[1] = seqs[1]
        <5>1. seqs[1] \in Seq(S)
          BY <2>1, ElementOfSeq
        <5>2. QED
          BY <5>1, ConcatEmptySeq
      <4>5. QED
        BY <3>3, <4>1, <4>3, <4>4
    <3>4. CASE k # 0
      <4>1. k \in 1 .. n /\ k + 1 <= Len(seqs)
        BY <3>1, <3>2, <3>4, <2>1
      <4>2. f[k + 1] = f[k] \o seqs[k + 1]
        <5>1. (k + 1) - 1 = k /\ k + 1 # 1
          BY <3>1, <3>4
        <5>2. QED
          BY <2>2, <3>2, <5>1 DEF Builds
      <4>3. PICK o, p : Places(f[k], seqs, k, o, p)
        BY <4>1
      <4>4. f[k] \in Seq(S)
        BY <4>1, <2>2
      <4>5. QED
        BY <3>1, <4>1, <4>2, <4>3, <4>4, PlacesNext
    <3>5. QED
      BY <3>3, <3>4
  <2>5. T \in SUBSET Nat
    OBVIOUS
  <2> HIDE DEF T
  <2>6. T = Nat
    BY <2>3, <2>4, <2>5, NatSets
  <2>7. \E o, p : Places(f[n], seqs, n, o, p)
    BY <2>1, <2>6 DEF T
  <2>8. f[n] \in Seq(S)
    <3>1. n \in 1 .. n /\ f \in [1 .. n -> Seq(S)]
      BY <2>1, <2>2
    <3> HIDE DEF n
    <3>2. QED
      BY <3>1
  <2>9. QED
    BY <2>2, <2>7, <2>8
<1>3. QED
  BY <1>1, <1>2
=============================================================================
