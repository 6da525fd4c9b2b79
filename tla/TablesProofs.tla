---------------------------- MODULE TablesProofs ----------------------------
(***************************************************************************)
(* Proofs about the tables of StoredTable: the text of rows and where its  *)
(* cells end, the index that a scan of it finds, what decode() makes of    *)
(* encode(), what the views show, and then the life of a table, which ends *)
(* in StoredTableReadsBack: every cell reads back as it was written.       *)
(***************************************************************************)
EXTENDS StoredTable, FlattenSeqTheorems, FiniteSetTheorems

-----------------------------------------------------------------------------
\* FlattenSeq of nothing is nothing.
LEMMA FlattenNone == FlattenSeq(<<>>) = <<>>
BY EmptySeq DEF FlattenSeq

\* The pieces of a sequence make a sequence.
LEMMA FlattenIsSeq ==
  ASSUME NEW S, NEW seqs \in Seq(Seq(S))
  PROVE  FlattenSeq(seqs) \in Seq(S)
BY FlattenSeqPlaces

\* One more piece is put at the end.
LEMMA FlattenAppend ==
  ASSUME NEW S, NEW seqs \in Seq(Seq(S)), NEW s \in Seq(S)
  PROVE  FlattenSeq(Append(seqs, s)) = FlattenSeq(seqs) \o s
<1>1. PICK more, n : more = Append(seqs, s) /\ n = Len(seqs)
  OBVIOUS
<1>2. /\ n \in Nat /\ more \in Seq(Seq(S)) /\ Len(more) = n + 1 /\ more # <<>>
      /\ \A i \in 1 .. n : more[i] = seqs[i]
      /\ more[n + 1] = s
  BY <1>1, AppendProperties, LenProperties, EmptySeq
<1>3. PICK f \in [1 .. Len(more) -> Seq(S)] : Builds(f, more, Len(more)) /\ FlattenSeq(more) = f[Len(more)]
  BY <1>2, Flattened
<1>4. f \in [1 .. n + 1 -> Seq(S)] /\ Builds(f, more, n + 1) /\ FlattenSeq(more) = f[n + 1]
  BY <1>2, <1>3
<1>5. CASE n = 0
  <2>1. seqs = <<>>
    BY <1>1, <1>5, EmptySeq
  <2>2. f[n + 1] = s
    BY <1>2, <1>4, <1>5 DEF Builds
  <2>3. <<>> \o s = s
    BY ConcatEmptySeq
  <2>4. QED
    BY <1>1, <1>4, <2>1, <2>2, <2>3, FlattenNone
<1>6. CASE n # 0
  <2>1. seqs # <<>>
    BY <1>1, <1>6, EmptySeq
  <2>2. PICK g \in [1 .. Len(seqs) -> Seq(S)] : Builds(g, seqs, Len(seqs)) /\ FlattenSeq(seqs) = g[Len(seqs)]
    BY <2>1, Flattened
  <2>3. Builds(g, seqs, n) /\ FlattenSeq(seqs) = g[n]
    BY <1>1, <2>2
  <2>4. Builds(f, seqs, n)
    <3>1. ASSUME NEW i \in 1 .. n PROVE f[i] = IF i = 1 THEN seqs[i] ELSE f[i - 1] \o seqs[i]
      <4>1. i \in 1 .. n + 1 /\ more[i] = seqs[i]
        BY <1>2
      <4>2. f[i] = IF i = 1 THEN more[i] ELSE f[i - 1] \o more[i]
        BY <1>4, <4>1 DEF Builds
      <4>3. QED
        BY <4>1, <4>2
    <3>2. QED
      BY <3>1 DEF Builds
  <2>5. n \in 1 .. n
    BY <1>2, <1>6
  <2>6. f[n] = g[n]
    <3>1. \A i \in 1 .. n : f[i] = g[i]
      <4>1. PICK a, b, all : a = f /\ b = g /\ all = seqs
        OBVIOUS
      <4>2. n \in Nat /\ Builds(a, all, n) /\ Builds(b, all, n)
        BY <1>2, <2>3, <2>4, <4>1
      <4>3. \A i \in 1 .. n : a[i] = b[i]
        BY <4>2, BuildsOnce
      <4>4. QED
        BY <4>1, <4>3
    <3>2. QED
      BY <2>5, <3>1
  <2>7. f[n + 1] = f[n] \o s
    <3>1. n + 1 \in 1 .. n + 1 /\ n + 1 # 1 /\ (n + 1) - 1 = n
      BY <1>2, <1>6
    <3>2. QED
      BY <1>2, <1>4, <3>1 DEF Builds
  <2>8. QED
    BY <1>1, <1>4, <2>3, <2>6, <2>7
<1>7. QED
  BY <1>5, <1>6

\* A function on 1 .. n is a sequence of n.
LEMMA FunctionIsSeq ==
  ASSUME NEW S, NEW n \in Nat, NEW f \in [1 .. n -> S]
  PROVE  f \in Seq(S) /\ Len(f) = n
<1>1. f \in Seq(S)
  BY SeqDef
<1>2. DOMAIN f = 1 .. n /\ DOMAIN f = 1 .. Len(f) /\ Len(f) \in Nat
  BY <1>1, LenProperties
<1>3. QED
  BY <1>2

\* One piece is the whole.
LEMMA FlattenOneSeq ==
  ASSUME NEW S, NEW s \in Seq(S)
  PROVE  FlattenSeq(<<s>>) = s
<1>1. <<>> \in Seq(Seq(S)) /\ Append(<<>>, s) = <<s>> /\ <<>> \o s = s
  BY EmptySeq, ConcatEmptySeq
<1>2. QED
  BY <1>1, FlattenAppend, FlattenNone

\* The pieces of two lists, one after the other.
LEMMA FlattenConcat ==
  ASSUME NEW S, NEW seqs \in Seq(Seq(S)), NEW more \in Seq(Seq(S))
  PROVE  FlattenSeq(seqs \o more) = FlattenSeq(seqs) \o FlattenSeq(more)
<1> DEFINE T == {n \in Nat : \A t \in Seq(Seq(S)) : Len(t) = n => FlattenSeq(seqs \o t) = FlattenSeq(seqs) \o FlattenSeq(t)}
<1>1. FlattenSeq(seqs) \in Seq(S)
  BY FlattenIsSeq
<1>2. 0 \in T
  <2>1. FlattenSeq(seqs) \o <<>> = FlattenSeq(seqs) /\ seqs \o <<>> = seqs
    BY <1>1, ConcatEmptySeq
  <2>2. ASSUME NEW t \in Seq(Seq(S)), Len(t) = 0 PROVE t = <<>>
    BY <2>2, EmptySeq
  <2>3. QED
    BY <2>1, <2>2, FlattenNone
<1>3. ASSUME NEW n \in T PROVE n + 1 \in T
  <2>1. n \in Nat
    OBVIOUS
  <2>2. ASSUME NEW t \in Seq(Seq(S)), Len(t) = n + 1 PROVE FlattenSeq(seqs \o t) = FlattenSeq(seqs) \o FlattenSeq(t)
    <3>1. PICK s \in Seq(Seq(S)), x \in Seq(S) : t = Append(s, x)
      <4>1. t # <<>>
        BY <2>1, <2>2, EmptySeq
      <4>2. QED
        BY <4>1, SequenceEmptyOrAppend
    <3>2. Len(s) = n
      BY <2>1, <2>2, <3>1, AppendProperties, LenProperties
    <3>3. FlattenSeq(seqs \o s) = FlattenSeq(seqs) \o FlattenSeq(s)
      BY <3>2
    <3>4. seqs \o s \in Seq(Seq(S)) /\ seqs \o t = Append(seqs \o s, x)
      <4>1. Append(s, x) = s \o <<x>> /\ <<x>> \in Seq(Seq(S))
        BY AppendIsConcat
      <4>2. seqs \o s \in Seq(Seq(S))
        BY ConcatProperties
      <4>3. Append(seqs \o s, x) = (seqs \o s) \o <<x>>
        BY <4>2, AppendIsConcat
      <4>4. (seqs \o s) \o <<x>> = seqs \o (s \o <<x>>)
        <5>1. PICK y, Lists : y = <<x>> /\ Lists = Seq(S)
          OBVIOUS
        <5>2. seqs \in Seq(Lists) /\ s \in Seq(Lists) /\ y \in Seq(Lists)
          BY <4>1, <5>1
        <5>3. (seqs \o s) \o y = seqs \o (s \o y)
          BY ONLY <5>2, ConcatAssociative, SMTT(30)
        <5>4. QED
          BY <5>1, <5>3
      <4>5. QED
        BY <3>1, <4>1, <4>2, <4>3, <4>4
    <3>5. FlattenSeq(s) \in Seq(S)
      BY FlattenIsSeq
    <3>6. FlattenSeq(seqs \o t) = (FlattenSeq(seqs) \o FlattenSeq(s)) \o x
      <4>1. PICK both : both = seqs \o s
        OBVIOUS
      <4>2. both \in Seq(Seq(S)) /\ seqs \o t = Append(both, x) /\ FlattenSeq(both) = FlattenSeq(seqs) \o FlattenSeq(s)
        BY <3>3, <3>4, <4>1
      <4>3. FlattenSeq(Append(both, x)) = FlattenSeq(both) \o x
        <5>1. both \in Seq(Seq(S)) /\ x \in Seq(S)
          BY <4>2
        <5>2. QED
          BY ONLY <5>1, FlattenAppend, ZenonT(40)
      <4>4. QED
        BY <4>2, <4>3
    <3>7. FlattenSeq(t) = FlattenSeq(s) \o x
      BY <3>1, FlattenAppend
    <3>8. (FlattenSeq(seqs) \o FlattenSeq(s)) \o x = FlattenSeq(seqs) \o (FlattenSeq(s) \o x)
      BY <1>1, <3>5, ConcatAssociative, SMTT(30)
    <3>9. QED
      BY <3>6, <3>7, <3>8
  <2>3. QED
    BY <2>1, <2>2
<1>4. T \in SUBSET Nat
  OBVIOUS
<1> HIDE DEF T
<1>5. T = Nat
  BY <1>2, <1>3, <1>4, NatSets
<1>6. QED
  BY <1>5, LenProperties DEF T

-----------------------------------------------------------------------------
(***************************************************************************)
(* A text of pieces, one after the other: e[j] is where the j-th ends.     *)
(***************************************************************************)
Text == Seq(Characters)
Laid(data, e, pieces) ==
  /\ e[0] = 0 /\ e[Len(pieces)] = Len(data)
  /\ \A j \in 0 .. Len(pieces) : e[j] \in Nat
  /\ \A j \in 1 .. Len(pieces) :
       /\ e[j] = e[j - 1] + Len(pieces[j])
       /\ \A i \in 1 .. Len(pieces[j]) : data[e[j - 1] + i] = pieces[j][i]

\* A text of no pieces.
LEMMA LaidNone == Laid(<<>>, [j \in 0 .. 0 |-> 0], <<>>)
BY EmptySeq DEF Laid

\* One more piece ends where the text does; those before it stay.
LEMMA LaidOne ==
  ASSUME NEW data \in Text, NEW pieces \in Seq(Text), NEW e, Laid(data, e, pieces), NEW piece \in Text
  PROVE  \E f : /\ Laid(data \o piece, f, Append(pieces, piece))
                /\ \A j \in 0 .. Len(pieces) : f[j] = e[j]
<1>1. PICK n, size, len : n = Len(pieces) /\ size = Len(data) /\ len = Len(piece)
  OBVIOUS
<1>2. n \in Nat /\ size \in Nat /\ len \in Nat
  BY <1>1, LenProperties DEF Text
<1>3. PICK all, more : all = data \o piece /\ more = Append(pieces, piece)
  OBVIOUS
<1>4. /\ Len(all) = size + len
      /\ \A i \in 1 .. size : all[i] = data[i]
      /\ \A i \in 1 .. len : all[size + i] = piece[i]
  BY <1>1, <1>2, <1>3, ConcatProperties DEF Text
<1>5. /\ Len(more) = n + 1 /\ more[n + 1] = piece
      /\ \A j \in 1 .. n : more[j] = pieces[j]
  BY <1>1, <1>3, AppendProperties
<1>6. /\ e[0] = 0 /\ e[n] = size
      /\ \A j \in 0 .. n : e[j] \in Nat
      /\ \A j \in 1 .. n :
           /\ e[j] = e[j - 1] + Len(pieces[j])
           /\ \A i \in 1 .. Len(pieces[j]) : data[e[j - 1] + i] = pieces[j][i]
  BY <1>1 DEF Laid
<1>7. ASSUME NEW j \in 1 .. n PROVE Len(pieces[j]) \in Nat
  BY <1>1, <1>7, ElementOfSeq, LenProperties DEF Text
<1>8. \A j \in 0 .. n : e[j] <= size
  <2> DEFINE T == {k \in Nat : k <= n => e[n - k] <= size}
  <2>1. 0 \in T
    BY <1>2, <1>6
  <2>2. ASSUME NEW k \in T PROVE k + 1 \in T
    <3>1. SUFFICES ASSUME k + 1 <= n PROVE e[n - (k + 1)] <= size
      OBVIOUS
    <3>2. n - k \in 1 .. n /\ (n - k) - 1 = n - (k + 1) /\ n - (k + 1) \in 0 .. n /\ n - k \in 0 .. n
      BY <1>2, <3>1
    <3>3. e[n - k] = e[n - (k + 1)] + Len(pieces[n - k]) /\ e[n - k] <= size
      BY <1>2, <1>6, <3>1, <3>2
    <3>4. QED
      BY <1>2, <1>6, <1>7, <3>2, <3>3
  <2>3. T \in SUBSET Nat
    OBVIOUS
  <2> HIDE DEF T
  <2>4. T = Nat
    BY <2>1, <2>2, <2>3, NatSets
  <2>5. ASSUME NEW j \in 0 .. n PROVE e[j] <= size
    <3>1. n - j \in T /\ n - j <= n /\ n - (n - j) = j
      BY <1>2, <2>4
    <3>2. QED
      BY <3>1 DEF T
  <2>6. QED
    BY <2>5
<1> DEFINE g == [j \in 0 .. n + 1 |-> IF j <= n THEN e[j] ELSE size + len]
<1>9. /\ \A j \in 0 .. n : g[j] = e[j]
      /\ g[n + 1] = size + len
  BY <1>2
<1>10. \A j \in 0 .. n + 1 : g[j] \in Nat
  BY <1>2, <1>6
<1> HIDE DEF g
<1>11. PICK f : f = g
  OBVIOUS
<1>12. ASSUME NEW j \in 1 .. n + 1
       PROVE  /\ f[j] = f[j - 1] + Len(more[j])
              /\ \A i \in 1 .. Len(more[j]) : all[f[j - 1] + i] = more[j][i]
  <2>1. CASE j <= n
    <3>1. j \in 1 .. n /\ j \in 0 .. n /\ j - 1 \in 0 .. n
      BY <1>2, <2>1
    <3>2. f[j] = e[j] /\ f[j - 1] = e[j - 1] /\ more[j] = pieces[j]
      BY <1>5, <1>9, <1>11, <3>1
    <3>3. /\ e[j] = e[j - 1] + Len(pieces[j]) /\ e[j - 1] \in Nat /\ e[j] <= size
          /\ \A i \in 1 .. Len(pieces[j]) : data[e[j - 1] + i] = pieces[j][i]
      BY <1>6, <1>8, <3>1
    <3>4. ASSUME NEW i \in 1 .. Len(pieces[j]) PROVE all[e[j - 1] + i] = pieces[j][i]
      <4>1. e[j - 1] + i \in 1 .. size
        BY <1>2, <1>7, <3>1, <3>3
      <4>2. QED
        BY <1>4, <3>3, <4>1
    <3>5. QED
      BY <3>2, <3>3, <3>4
  <2>2. CASE j = n + 1
    <3>1. j - 1 = n /\ n \in 0 .. n
      BY <1>2, <2>2
    <3>2. f[j] = size + len /\ f[j - 1] = size /\ more[j] = piece
      BY <1>5, <1>6, <1>9, <1>11, <2>2, <3>1
    <3>3. QED
      BY <1>1, <1>4, <3>2
  <2>3. QED
    BY <1>2, <2>1, <2>2
<1>13. f[0] = 0 /\ f[n + 1] = Len(all) /\ \A j \in 0 .. n + 1 : f[j] \in Nat
  BY <1>2, <1>4, <1>6, <1>9, <1>10, <1>11
<1>14. Laid(all, f, more)
  BY <1>5, <1>12, <1>13 DEF Laid
<1>15. QED
  BY <1>1, <1>3, <1>9, <1>11, <1>14

\* And more of them.
LEMMA LaidMore ==
  ASSUME NEW data \in Text, NEW pieces \in Seq(Text), NEW e, Laid(data, e, pieces), NEW more \in Seq(Text)
  PROVE  \E f : /\ Laid(data \o FlattenSeq(more), f, pieces \o more)
                /\ \A j \in 0 .. Len(pieces) : f[j] = e[j]
<1> DEFINE Follows(t) == \E f : /\ Laid(data \o FlattenSeq(t), f, pieces \o t)
                                /\ \A j \in 0 .. Len(pieces) : f[j] = e[j]
           T == {n \in Nat : \A t \in Seq(Text) : Len(t) = n => Follows(t)}
<1>1. 0 \in T
  <2>1. ASSUME NEW t \in Seq(Text), Len(t) = 0 PROVE Follows(t)
    <3>1. t = <<>>
      BY <2>1, EmptySeq
    <3>2. data \o <<>> = data /\ pieces \o <<>> = pieces
      BY ConcatEmptySeq DEF Text
    <3>3. QED
      BY <3>1, <3>2, FlattenNone
  <2>2. QED
    BY <2>1
<1>2. ASSUME NEW n \in T PROVE n + 1 \in T
  <2>1. n \in Nat
    OBVIOUS
  <2>2. ASSUME NEW t \in Seq(Text), Len(t) = n + 1 PROVE Follows(t)
    <3>1. PICK s \in Seq(Text), x \in Text : t = Append(s, x)
      <4>1. t # <<>>
        BY <2>1, <2>2, EmptySeq
      <4>2. QED
        BY <4>1, SequenceEmptyOrAppend
    <3>2. Len(s) = n
      BY <2>1, <2>2, <3>1, AppendProperties, LenProperties
    <3>3. PICK f : /\ Laid(data \o FlattenSeq(s), f, pieces \o s)
                   /\ \A j \in 0 .. Len(pieces) : f[j] = e[j]
      BY <3>2
    <3>4. PICK text, d, ps : text = FlattenSeq(s) /\ d = data \o text /\ ps = pieces \o s
      OBVIOUS
    <3>5. text \in Text /\ d \in Text /\ ps \in Seq(Text) /\ Len(ps) = Len(pieces) + n
      BY <3>2, <3>4, FlattenIsSeq, ConcatProperties DEF Text
    <3>6. PICK g : /\ Laid(d \o x, g, Append(ps, x))
                   /\ \A j \in 0 .. Len(ps) : g[j] = f[j]
      <4>1. Laid(d, f, ps)
        BY <3>3, <3>4
      <4>2. \E g : /\ Laid(d \o x, g, Append(ps, x))
                   /\ \A j \in 0 .. Len(ps) : g[j] = f[j]
        BY <3>5, <4>1, LaidOne
      <4>3. QED
        BY <4>2
    <3>7. d \o x = data \o FlattenSeq(t)
      <4>1. FlattenSeq(t) = text \o x
        <5>1. s \in Seq(Seq(Characters)) /\ x \in Seq(Characters)
          BY DEF Text
        <5>2. FlattenSeq(Append(s, x)) = FlattenSeq(s) \o x
          BY <5>1, FlattenAppend
        <5>3. QED
          BY <3>1, <3>4, <5>2
      <4>2. (data \o text) \o x = data \o (text \o x)
        <5>1. data \in Seq(Characters) /\ text \in Seq(Characters) /\ x \in Seq(Characters)
          BY <3>5 DEF Text
        <5>2. QED
          BY <5>1, ConcatAssociative, SMTT(30)
      <4>3. QED
        BY <3>4, <4>1, <4>2
    <3>8. Append(ps, x) = pieces \o t
      <4>1. PICK y, Texts0 : y = <<x>> /\ Texts0 = Text
        OBVIOUS
      <4>2. pieces \in Seq(Texts0) /\ s \in Seq(Texts0) /\ y \in Seq(Texts0)
        BY <4>1
      <4>3. (pieces \o s) \o y = pieces \o (s \o y)
        BY <4>2, ConcatAssociative, SMTT(30)
      <4>4. Append(ps, x) = ps \o <<x>> /\ Append(s, x) = s \o <<x>>
        BY <3>5, AppendIsConcat
      <4>5. QED
        BY <3>1, <3>4, <4>1, <4>3, <4>4
    <3>9. \A j \in 0 .. Len(pieces) : g[j] = e[j]
      <4>1. Len(pieces) \in Nat
        BY LenProperties
      <4>2. \A j \in 0 .. Len(pieces) : j \in 0 .. Len(ps)
        BY <2>1, <3>5, <4>1
      <4>3. QED
        BY <3>3, <3>6, <4>2
    <3>10. QED
      BY <3>6, <3>7, <3>8, <3>9
  <2>3. QED
    BY <2>1, <2>2
<1>3. T \in SUBSET Nat
  OBVIOUS
<1> HIDE DEF T
<1>4. T = Nat
  BY <1>1, <1>2, <1>3, NatSets
<1>5. Follows(more)
  BY <1>4, LenProperties DEF T
<1>6. QED
  BY <1>5

\* The part of a sequence between two of its places.
LEMMA SpanOf ==
  ASSUME NEW S, NEW s \in Seq(S), NEW a \in Nat, NEW b \in Nat, a <= b, b <= Len(s)
  PROVE  /\ SubSeq(s, a + 1, b) \in Seq(S) /\ Len(SubSeq(s, a + 1, b)) = b - a
         /\ \A i \in 1 .. b - a : SubSeq(s, a + 1, b)[i] = s[a + i]
<1>1. Len(s) \in Nat
  BY LenProperties
<1>2. \A i \in a + 1 .. b : s[i] \in S
  <2>1. \A i \in a + 1 .. b : i \in 1 .. Len(s)
    BY <1>1
  <2>2. QED
    BY <2>1, ElementOfSeq
<1>3. PICK m : m = a + 1
  OBVIOUS
<1>4. m \in Int /\ b \in Int /\ \A i \in m .. b : s[i] \in S
  BY <1>2, <1>3
<1>5. PICK t : t = SubSeq(s, m, b)
  OBVIOUS
<1>6. /\ t \in Seq(S) /\ Len(t) = IF m <= b THEN b - m + 1 ELSE 0
      /\ \A i \in 1 .. b - m + 1 : t[i] = s[m + i - 1]
  BY <1>4, <1>5, SubSeqProperties
<1>7. Len(t) = b - a /\ b - m + 1 = b - a
  BY <1>3, <1>6
<1>8. ASSUME NEW i \in 1 .. b - a PROVE t[i] = s[a + i]
  <2>1. m + i - 1 = a + i
    BY <1>3
  <2>2. QED
    BY <1>6, <1>7, <2>1
<1>9. QED
  BY <1>3, <1>5, <1>6, <1>7, <1>8

\* What a text holds of each piece, with its length for a name.
LEMMA LaidFacts ==
  ASSUME NEW data \in Text, NEW pieces \in Seq(Text), NEW e, Laid(data, e, pieces), NEW n, n = Len(pieces)
  PROVE  /\ n \in Nat /\ e[0] = 0 /\ e[n] = Len(data)
         /\ \A j \in 0 .. n : e[j] \in Nat
         /\ \A j \in 1 .. n :
              /\ pieces[j] \in Text /\ Len(pieces[j]) \in Nat
              /\ e[j] = e[j - 1] + Len(pieces[j])
              /\ \A i \in 1 .. Len(pieces[j]) : data[e[j - 1] + i] = pieces[j][i]
<1>1. n \in Nat
  BY LenProperties
<1>2. \A j \in 1 .. n : pieces[j] \in Text
  BY ElementOfSeq
<1>3. \A j \in 1 .. n : Len(pieces[j]) \in Nat
  BY <1>2, LenProperties DEF Text
<1>4. QED
  BY <1>1, <1>2, <1>3 DEF Laid

\* The ends go upwards, by one at least when no piece is empty.
LEMMA LaidGrows ==
  ASSUME NEW data \in Text, NEW pieces \in Seq(Text), NEW e, Laid(data, e, pieces),
         NEW a \in Nat, NEW b \in Nat, a <= b, b <= Len(pieces)
  PROVE  /\ e[a] <= e[b]
         /\ (\A j \in 1 .. Len(pieces) : pieces[j] # <<>>) => e[a] + (b - a) <= e[b]
<1>1. PICK n : n = Len(pieces)
  OBVIOUS
<1>2. /\ n \in Nat /\ \A j \in 0 .. n : e[j] \in Nat
      /\ \A j \in 1 .. n : pieces[j] \in Text /\ Len(pieces[j]) \in Nat /\ e[j] = e[j - 1] + Len(pieces[j])
  BY <1>1, LaidFacts, SMTT(30)
<1> DEFINE Full == \A j \in 1 .. n : pieces[j] # <<>>
           T == {k \in Nat : a + k <= n => e[a] <= e[a + k] /\ (Full => e[a] + k <= e[a + k])}
<1>3. 0 \in T
  <2>1. a \in 0 .. n /\ a + 0 = a
    BY <1>1
  <2>2. e[a] \in Nat
    BY <1>2, <2>1
  <2>3. QED
    BY <2>1, <2>2
<1>4. ASSUME NEW k \in T PROVE k + 1 \in T
  <2>1. SUFFICES ASSUME a + (k + 1) <= n
                 PROVE  e[a] <= e[a + (k + 1)] /\ (Full => e[a] + (k + 1) <= e[a + (k + 1)])
    OBVIOUS
  <2>2. PICK j : j = a + (k + 1)
    OBVIOUS
  <2>3. j \in 1 .. n /\ j - 1 = a + k /\ a + k <= n /\ a + k \in 0 .. n /\ a \in 0 .. n
    BY <1>2, <2>1, <2>2
  <2>4. e[j] = e[a + k] + Len(pieces[j]) /\ Len(pieces[j]) \in Nat
    BY <1>2, <2>3
  <2>5. e[a] \in Nat /\ e[a + k] \in Nat
    BY <1>2, <2>3
  <2>6. Full => Len(pieces[j]) > 0
    <3>1. ASSUME pieces[j] # <<>> PROVE Len(pieces[j]) > 0
      <4>1. pieces[j] \in Seq(Characters)
        BY <1>2, <2>3 DEF Text
      <4>2. QED
        BY <3>1, <4>1, EmptySeq
    <3>2. QED
      BY <2>3, <3>1
  <2>7. e[a] <= e[a + k] /\ (Full => e[a] + k <= e[a + k])
    BY <2>3
  <2> HIDE DEF Full
  <2>8. PICK x, y, len : x = e[a] /\ y = e[a + k] /\ len = Len(pieces[j])
    OBVIOUS
  <2>9. /\ x \in Nat /\ y \in Nat /\ len \in Nat /\ k \in Nat /\ e[j] = y + len
        /\ x <= y /\ (Full => x + k <= y /\ len > 0)
    BY <2>4, <2>5, <2>6, <2>7, <2>8
  <2>10. x <= y + len /\ (Full => x + (k + 1) <= y + len)
    BY ONLY <2>9
  <2>11. QED
    BY ONLY <2>2, <2>8, <2>9, <2>10
<1>5. T \in SUBSET Nat
  OBVIOUS
<1> HIDE DEF T
<1>6. T = Nat
  BY <1>3, <1>4, <1>5, NatSets
<1>7. b - a \in T /\ a + (b - a) = b
  BY <1>6
<1>8. QED
  BY <1>1, <1>7 DEF T

\* The text between two ends is that of the pieces between them.
LEMMA LaidSpan ==
  ASSUME NEW data \in Text, NEW pieces \in Seq(Text), NEW e, Laid(data, e, pieces),
         NEW a \in Nat, NEW b \in Nat, a <= b, b <= Len(pieces)
  PROVE  FlattenSeq(SubSeq(pieces, a + 1, b)) = SubSeq(data, e[a] + 1, e[b])
<1>1. PICK n : n = Len(pieces)
  OBVIOUS
<1>2. /\ n \in Nat /\ e[n] = Len(data) /\ \A j \in 0 .. n : e[j] \in Nat
      /\ \A j \in 1 .. n :
           /\ pieces[j] \in Text /\ Len(pieces[j]) \in Nat
           /\ e[j] = e[j - 1] + Len(pieces[j])
           /\ \A i \in 1 .. Len(pieces[j]) : data[e[j - 1] + i] = pieces[j][i]
  BY <1>1, LaidFacts, SMTT(30)
<1> DEFINE T == {k \in Nat : a + k <= n => FlattenSeq(SubSeq(pieces, a + 1, a + k)) = SubSeq(data, e[a] + 1, e[a + k])}
<1>3. 0 \in T
  <2>1. a + 0 = a /\ a \in 0 .. n /\ a < a + 1
    BY <1>1
  <2>2. e[a] \in Nat /\ e[a] < e[a] + 1
    BY <1>2, <2>1
  <2>3. SubSeq(pieces, a + 1, a) = <<>> /\ SubSeq(data, e[a] + 1, e[a]) = <<>>
    BY <2>1, <2>2, SubSeqEmpty
  <2>4. QED
    BY <2>1, <2>3, FlattenNone
<1>4. ASSUME NEW k \in T PROVE k + 1 \in T
  <2>1. SUFFICES ASSUME a + (k + 1) <= n
                 PROVE  FlattenSeq(SubSeq(pieces, a + 1, a + (k + 1))) = SubSeq(data, e[a] + 1, e[a + (k + 1)])
    OBVIOUS
  <2>2. PICK j, i : j = a + (k + 1) /\ i = a + k
    OBVIOUS
  <2>3. j \in 1 .. n /\ j - 1 = i /\ i <= n /\ i \in 0 .. n /\ j \in 0 .. n /\ a \in 0 .. n /\ a <= i /\ a <= j /\ i \in Nat /\ j \in Nat
    BY <1>2, <2>1, <2>2
  <2>4. PICK before, after, piece : before = SubSeq(pieces, a + 1, i) /\ after = SubSeq(pieces, a + 1, j) /\ piece = pieces[j]
    OBVIOUS
  <2>5. /\ before \in Seq(Text) /\ Len(before) = i - a
        /\ \A x \in 1 .. i - a : before[x] = pieces[a + x]
    <3>1. i <= Len(pieces)
      BY <1>1, <2>3
    <3>2. /\ SubSeq(pieces, a + 1, i) \in Seq(Text) /\ Len(SubSeq(pieces, a + 1, i)) = i - a
          /\ \A x \in 1 .. i - a : SubSeq(pieces, a + 1, i)[x] = pieces[a + x]
      BY ONLY <2>3, <3>1, SpanOf, SMTT(30)
    <3>3. QED
      BY <2>4, <3>2
  <2>6. /\ after \in Seq(Text) /\ Len(after) = j - a
        /\ \A x \in 1 .. j - a : after[x] = pieces[a + x]
    BY ONLY <1>1, <2>3, <2>4, SpanOf, SMTT(30)
  <2>7. piece \in Text
    BY <1>2, <2>3, <2>4
  <2>8. after = Append(before, piece)
    <3>1. PICK all : all = Append(before, piece)
      OBVIOUS
    <3>2. /\ all \in Seq(Text) /\ Len(all) = j - a
          /\ \A x \in 1 .. i - a : all[x] = before[x]
          /\ all[(i - a) + 1] = piece
      BY <2>3, <2>5, <2>7, <3>1, AppendProperties
    <3>3. ASSUME NEW x \in 1 .. j - a PROVE after[x] = all[x]
      <4>1. CASE x \in 1 .. i - a
        BY <2>5, <2>6, <3>2, <4>1
      <4>2. CASE x = (i - a) + 1
        <5>1. a + x = j
          BY <2>3, <4>2
        <5>2. QED
          BY <2>4, <2>6, <3>2, <4>2, <5>1
      <4>3. QED
        BY <2>3, <4>1, <4>2
    <3>4. QED
      BY <2>6, <3>1, <3>2, <3>3, SeqEqual
  <2>9. PICK text, span, whole :
          text = FlattenSeq(before) /\ span = SubSeq(data, e[a] + 1, e[i]) /\ whole = SubSeq(data, e[a] + 1, e[j])
    OBVIOUS
  <2>10. text = span
    BY <2>2, <2>3, <2>4, <2>9
  <2>11. FlattenSeq(after) = span \o piece
    <3>1. before \in Seq(Seq(Characters)) /\ piece \in Seq(Characters)
      BY <2>5, <2>7 DEF Text
    <3>2. FlattenSeq(Append(before, piece)) = FlattenSeq(before) \o piece
      BY <3>1, FlattenAppend
    <3>3. QED
      BY <2>8, <2>9, <2>10, <3>2
  <2>12. PICK p, q, r, m : p = e[a] /\ q = e[i] /\ r = e[j] /\ m = Len(piece)
    OBVIOUS
  <2>13. /\ p \in Nat /\ q \in Nat /\ r \in Nat /\ m \in Nat /\ p <= q /\ q <= r /\ r = q + m
         /\ r <= Len(data)
    <3>1. e[a] <= e[i]
      BY <1>1, <1>2, <2>3, LaidGrows
    <3>2. e[j] <= e[n]
      BY <1>1, <1>2, <2>3, LaidGrows, SMTT(30)
    <3>3. e[j] = e[i] + Len(pieces[j]) /\ Len(pieces[j]) \in Nat /\ e[n] = Len(data)
      BY <1>2, <2>3
    <3>4. e[a] \in Nat /\ e[i] \in Nat /\ e[j] \in Nat
      BY <1>2, <2>3
    <3>5. QED
      BY <2>4, <2>12, <3>1, <3>2, <3>3, <3>4
  <2>14. /\ span \in Seq(Characters) /\ Len(span) = q - p
         /\ \A x \in 1 .. q - p : span[x] = data[p + x]
    <3>1. data \in Seq(Characters) /\ span = SubSeq(data, p + 1, q)
      BY <2>9, <2>12 DEF Text
    <3>2. q <= Len(data)
      <4>1. Len(data) \in Nat
        BY <3>1, LenProperties
      <4>2. QED
        BY <2>13, <4>1
    <3>3. /\ SubSeq(data, p + 1, q) \in Seq(Characters) /\ Len(SubSeq(data, p + 1, q)) = q - p
          /\ \A x \in 1 .. q - p : SubSeq(data, p + 1, q)[x] = data[p + x]
      BY ONLY <2>13, <3>1, <3>2, SpanOf, SMTT(30)
    <3>4. QED
      BY <3>1, <3>3
  <2>15. /\ whole \in Seq(Characters) /\ Len(whole) = r - p
         /\ \A x \in 1 .. r - p : whole[x] = data[p + x]
    <3>1. data \in Seq(Characters) /\ whole = SubSeq(data, p + 1, r)
      BY <2>9, <2>12 DEF Text
    <3>2. p <= r
      BY <2>13
    <3>3. /\ SubSeq(data, p + 1, r) \in Seq(Characters) /\ Len(SubSeq(data, p + 1, r)) = r - p
          /\ \A x \in 1 .. r - p : SubSeq(data, p + 1, r)[x] = data[p + x]
      BY ONLY <2>13, <3>1, <3>2, SpanOf, SMTT(30)
    <3>4. QED
      BY <3>1, <3>3
  <2>16. whole = span \o piece
    <3>1. PICK all : all = span \o piece
      OBVIOUS
    <3>2. piece \in Seq(Characters)
      BY <2>7 DEF Text
    <3>3. /\ all \in Seq(Characters) /\ Len(all) = (q - p) + m
          /\ \A x \in 1 .. (q - p) + m : all[x] = IF x <= q - p THEN span[x] ELSE piece[x - (q - p)]
      <4>1. /\ span \o piece \in Seq(Characters) /\ Len(span \o piece) = Len(span) + Len(piece)
            /\ \A x \in 1 .. Len(span) + Len(piece) : (span \o piece)[x] = IF x <= Len(span) THEN span[x] ELSE piece[x - Len(span)]
        BY <2>14, <3>2, ConcatProperties
      <4>2. Len(span) = q - p /\ Len(piece) = m
        BY <2>12, <2>14
      <4>3. QED
        BY <3>1, <4>1, <4>2
    <3>4. (q - p) + m = r - p
      BY <2>13
    <3>5. ASSUME NEW x \in 1 .. r - p PROVE whole[x] = all[x]
      <4>1. CASE x <= q - p
        <5>1. x \in 1 .. q - p
          BY <2>13, <4>1
        <5>2. QED
          BY <2>14, <2>15, <3>3, <3>4, <4>1, <5>1
      <4>2. CASE x > q - p
        <5>1. x - (q - p) \in 1 .. m /\ q + (x - (q - p)) = p + x
          BY <2>13, <3>4, <4>2
        <5>2. data[q + (x - (q - p))] = piece[x - (q - p)]
          BY <1>2, <2>3, <2>4, <2>12, <5>1
        <5>3. all[x] = piece[x - (q - p)]
          BY ONLY <2>13, <3>3, <3>4, <4>2, SMTT(30)
        <5>4. QED
          BY <2>15, <5>1, <5>2, <5>3
      <4>3. QED
        BY <2>13, <4>1, <4>2
    <3>6. QED
      BY <2>15, <3>1, <3>3, <3>4, <3>5, SeqEqual
  <2>17. QED
    BY <2>2, <2>4, <2>9, <2>11, <2>16
<1>5. T \in SUBSET Nat
  OBVIOUS
<1> HIDE DEF T
<1>6. T = Nat
  BY <1>3, <1>4, <1>5, NatSets
<1>7. b - a \in T /\ a + (b - a) = b
  BY <1>6
<1>8. QED
  BY <1>1, <1>7 DEF T

-----------------------------------------------------------------------------
(***************************************************************************)
(* Sets of numbers, in their order.                                        *)
(***************************************************************************)
\* As many as there are indices, where none is met twice.
LEMMA CountOf ==
  ASSUME NEW S, NEW n \in Nat, NEW f,
         \A x : x \in S <=> \E i \in 1 .. n : x = f[i],
         \A i, j \in 1 .. n : f[i] = f[j] => i = j
  PROVE  IsFiniteSet(S) /\ Cardinality(S) = n
<1> DEFINE g == [i \in 1 .. n |-> f[i]]
<1>1. g \in [1 .. n -> S]
  OBVIOUS
<1>2. \A i, j \in 1 .. n : g[i] = g[j] => i = j
  OBVIOUS
<1>3. \A x \in S : \E i \in 1 .. n : g[i] = x
  OBVIOUS
<1> HIDE DEF g
<1>4. DOMAIN g = 1 .. n
  BY <1>1
<1>5. g \in Bijection(1 .. n, S)
  BY <1>1, <1>2, <1>3, <1>4 DEF Bijection, Injection, Surjection, IsInjective
<1>6. ExistsBijection(1 .. n, S)
  BY <1>5 DEF ExistsBijection
<1>7. IsFiniteSet(S)
  BY <1>6, FS_NatBijection
<1>8. QED
  BY <1>6, <1>7, FS_CountingElements

\* Ascending(S) is the function that goes through S upwards.
LEMMA AscendingOf ==
  ASSUME NEW S, NEW n \in Nat, NEW f,
         \A x : x \in S <=> \E i \in 1 .. n : x = f[i],
         \A i \in 1 .. n : f[i] \in Nat,
         \A i, j \in 1 .. n : i < j => f[i] < f[j]
  PROVE  /\ Cardinality(S) = n
         /\ Ascending(S) \in [1 .. n -> Nat] /\ \A i \in 1 .. n : Ascending(S)[i] = f[i]
<1>1. \A i, j \in 1 .. n : f[i] < f[j] => i < j
  <2>1. ASSUME NEW i \in 1 .. n, NEW j \in 1 .. n, f[i] < f[j], ~(i < j) PROVE FALSE
    <3>1. f[i] \in Nat /\ f[j] \in Nat
      OBVIOUS
    <3>2. i = j \/ j < i
      BY <2>1
    <3>3. f[i] = f[j] \/ f[j] < f[i]
      BY <3>2
    <3>4. QED
      BY <2>1, <3>1, <3>3
  <2>2. QED
    BY <2>1
<1>2. \A i, j \in 1 .. n : f[i] = f[j] => i = j
  <2>1. ASSUME NEW i \in 1 .. n, NEW j \in 1 .. n, f[i] = f[j], i # j PROVE FALSE
    <3>1. f[i] \in Nat /\ f[j] \in Nat
      OBVIOUS
    <3>2. i < j \/ j < i
      BY <2>1
    <3>3. f[i] < f[j] \/ f[j] < f[i]
      BY <3>2
    <3>4. QED
      BY <2>1, <3>1, <3>3
  <2>2. QED
    BY <2>1
<1>3. Cardinality(S) = n
  BY <1>2, CountOf
<1>4. ASSUME NEW k \in 1 .. n PROVE Cardinality({y \in S : y < f[k]}) = k - 1
  <2>1. PICK below, m : below = {y \in S : y < f[k]} /\ m = k - 1
    OBVIOUS
  <2>2. m \in Nat /\ \A i \in 1 .. m : i \in 1 .. n /\ i < k
    BY <2>1
  <2>3. \A x : x \in below <=> \E i \in 1 .. m : x = f[i]
    <3>1. ASSUME NEW x \in below PROVE \E i \in 1 .. m : x = f[i]
      <4>1. PICK i \in 1 .. n : x = f[i]
        BY <2>1, <3>1
      <4>2. i < k
        BY <1>1, <2>1, <3>1, <4>1
      <4>3. i \in 1 .. m
        BY <2>1, <4>2
      <4>4. QED
        BY <4>1, <4>3
    <3>2. ASSUME NEW x, NEW i \in 1 .. m, x = f[i] PROVE x \in below
      <4>1. i \in 1 .. n /\ i < k
        BY <2>2
      <4>2. x \in S /\ f[i] < f[k]
        BY <3>2, <4>1
      <4>3. QED
        BY <2>1, <3>2, <4>2
    <3>3. QED
      BY <3>1, <3>2
  <2>4. \A i, j \in 1 .. m : f[i] = f[j] => i = j
    BY <1>2, <2>2
  <2>5. Cardinality(below) = m
    <3>1. m \in Nat
      BY <2>2
    <3>2. PICK h : h = f
      OBVIOUS
    <3>3. \A x : x \in below <=> \E i \in 1 .. m : x = h[i]
      BY <2>3, <3>2
    <3>4. \A i, j \in 1 .. m : h[i] = h[j] => i = j
      BY <2>4, <3>2
    <3>5. IsFiniteSet(below) /\ Cardinality(below) = m
      BY ONLY <3>1, <3>3, <3>4, CountOf
    <3>6. QED
      BY <3>5
  <2>6. QED
    BY <2>1, <2>5
<1>5. ASSUME NEW k \in 1 .. n PROVE (CHOOSE x \in S : Cardinality({y \in S : y < x}) = k - 1) = f[k]
  <2>1. f[k] \in S
    OBVIOUS
  <2>2. ASSUME NEW x \in S, Cardinality({y \in S : y < x}) = k - 1 PROVE x = f[k]
    <3>1. PICK j \in 1 .. n : x = f[j]
      OBVIOUS
    <3>2. Cardinality({y \in S : y < x}) = j - 1
      BY <1>4, <3>1
    <3>3. j = k
      BY <2>2, <3>2
    <3>4. QED
      BY <3>1, <3>3
  <2>3. QED
    BY <1>4, <2>1, <2>2
<1>6. Ascending(S) = [i \in 1 .. n |-> f[i]]
  BY <1>3, <1>5 DEF Ascending
<1>7. QED
  BY <1>3, <1>6

\* The least of a set that is known to be in it.
LEMMA LeastIs ==
  ASSUME NEW S, NEW x \in S, S \subseteq Nat, \A y \in S : x <= y
  PROVE  Min(S) = x
<1>1. ASSUME NEW z \in S, \A y \in S : z =< y PROVE z = x
  <2>1. z <= x /\ x <= z /\ x \in Nat /\ z \in Nat
    BY <1>1
  <2>2. QED
    BY <2>1
<1>2. QED
  BY <1>1 DEF Min

-----------------------------------------------------------------------------
(***************************************************************************)
(* Pieces that a separator ends, and nothing before it: the separators of  *)
(* the text are the ends of its pieces.                                    *)
(***************************************************************************)
IsPiece(p) == p \in Text /\ p # <<>> /\ \A i \in 1 .. Len(p) : p[i] \in Separators <=> i = Len(p)

\* A piece is not empty.
LEMMA PieceLength ==
  ASSUME NEW p, IsPiece(p)
  PROVE  Len(p) \in Nat /\ Len(p) > 0 /\ Len(p) \in 1 .. Len(p)
<1>1. p \in Seq(Characters) /\ p # <<>>
  BY DEF IsPiece, Text
<1>2. Len(p) \in Nat \ {0}
  BY <1>1, EmptySeq
<1>3. QED
  BY <1>2

Climbs(data, e, pieces, n) ==
  /\ n \in Nat /\ Len(data) \in Nat
  /\ \A i, j \in 0 .. n : i < j => e[i] < e[j]
  /\ \A j \in 1 .. n : e[j] \in 1 .. Len(data) /\ data[e[j]] = pieces[j][Len(pieces[j])]

\* The ends go upwards, and each is that of a separator.
LEMMA LaidEnds ==
  ASSUME NEW data \in Text, NEW pieces \in Seq(Text), NEW e, Laid(data, e, pieces),
         NEW n, n = Len(pieces), \A j \in 1 .. n : IsPiece(pieces[j])
  PROVE  Climbs(data, e, pieces, n)
<1>1. /\ n \in Nat /\ e[0] = 0 /\ e[n] = Len(data)
      /\ \A j \in 0 .. n : e[j] \in Nat
      /\ \A j \in 1 .. n :
           /\ pieces[j] \in Text /\ Len(pieces[j]) \in Nat
           /\ e[j] = e[j - 1] + Len(pieces[j])
           /\ \A i \in 1 .. Len(pieces[j]) : data[e[j - 1] + i] = pieces[j][i]
  BY LaidFacts, SMTT(30)
<1>2. \A j \in 1 .. Len(pieces) : pieces[j] # <<>>
  BY DEF IsPiece
<1>3. Len(data) \in Nat
  BY <1>1
<1>4. ASSUME NEW i \in 0 .. n, NEW j \in 0 .. n, i <= j PROVE e[i] + (j - i) <= e[j]
  <2>1. i \in Nat /\ j \in Nat /\ j <= Len(pieces)
    BY <1>1
  <2>2. QED
    BY <1>2, <1>4, <2>1, LaidGrows
<1>5. ASSUME NEW i \in 0 .. n, NEW j \in 0 .. n, i < j PROVE e[i] < e[j]
  <2>1. i <= j /\ i \in Int /\ j \in Int
    BY <1>5
  <2>2. e[i] + (j - i) <= e[j] /\ e[i] \in Nat /\ e[j] \in Nat
    BY <1>1, <1>4, <2>1
  <2>3. QED
    BY <1>5, <2>1, <2>2
<1>6. ASSUME NEW j \in 1 .. n PROVE e[j] \in 1 .. Len(data) /\ data[e[j]] = pieces[j][Len(pieces[j])]
  <2>1. j \in 0 .. n /\ n \in 0 .. n /\ 0 \in 0 .. n /\ 0 < j /\ j <= n
    BY <1>1
  <2>2. e[0] < e[j] /\ (j = n \/ e[j] < e[n])
    BY ONLY <1>1, <1>5, <2>1, SMTT(30)
  <2>3. e[j] \in 1 .. Len(data)
    BY <1>1, <2>1, <2>2
  <2>4. IsPiece(pieces[j])
    OBVIOUS
  <2>5. Len(pieces[j]) \in 1 .. Len(pieces[j])
    BY <2>4, PieceLength
  <2>6. data[e[j - 1] + Len(pieces[j])] = pieces[j][Len(pieces[j])]
    BY <1>1, <2>5
  <2>7. QED
    BY <1>1, <2>3, <2>6
<1>7. QED
  BY <1>1, <1>3, <1>5, <1>6 DEF Climbs

\* The separators of the text are the ends of its pieces.
LEMMA LaidMarks ==
  ASSUME NEW data \in Text, NEW pieces \in Seq(Text), NEW e, Laid(data, e, pieces),
         NEW n, n = Len(pieces), \A j \in 1 .. n : IsPiece(pieces[j]),
         NEW x \in 1 .. Len(data)
  PROVE  data[x] \in Separators <=> \E j \in 1 .. n : x = e[j]
<1>1. /\ n \in Nat /\ e[0] = 0 /\ e[n] = Len(data)
      /\ \A j \in 0 .. n : e[j] \in Nat
      /\ \A j \in 1 .. n :
           /\ pieces[j] \in Text /\ Len(pieces[j]) \in Nat
           /\ e[j] = e[j - 1] + Len(pieces[j])
           /\ \A i \in 1 .. Len(pieces[j]) : data[e[j - 1] + i] = pieces[j][i]
  BY LaidFacts, SMTT(30)
<1> DEFINE T == {k \in Nat : k <= n => \A y \in 1 .. e[k] : \E j \in 1 .. k : e[j - 1] < y /\ y <= e[j]}
<1>2. 0 \in T
  <2>1. \A y \in 1 .. e[0] : FALSE
    BY <1>1
  <2>2. QED
    BY <2>1
<1>3. ASSUME NEW k \in T PROVE k + 1 \in T
  <2>1. k \in Nat
    OBVIOUS
  <2>2. SUFFICES ASSUME k + 1 <= n, NEW y \in 1 .. e[k + 1] PROVE \E j \in 1 .. k + 1 : e[j - 1] < y /\ y <= e[j]
    BY <2>1
  <2>3. k \in 0 .. n /\ k + 1 \in 0 .. n
    BY <1>1, <2>1, <2>2
  <2>4. e[k] \in Nat /\ e[k + 1] \in Nat
    BY <1>1, <2>3
  <2>5. CASE y <= e[k]
    <3>1. y \in 1 .. e[k] /\ k <= n
      BY <1>1, <2>1, <2>2, <2>4, <2>5
    <3>2. PICK j \in 1 .. k : e[j - 1] < y /\ y <= e[j]
      BY <3>1
    <3>3. j \in 1 .. k + 1
      BY <2>1
    <3>4. QED
      BY <3>2, <3>3
  <2>6. CASE e[k] < y
    <3>1. k + 1 \in 1 .. k + 1 /\ (k + 1) - 1 = k /\ y <= e[k + 1]
      BY <2>1, <2>4
    <3>2. QED
      BY <2>6, <3>1
  <2>7. QED
    BY <2>4, <2>5, <2>6
<1>4. T \in SUBSET Nat
  OBVIOUS
<1> HIDE DEF T
<1>5. T = Nat
  BY <1>2, <1>3, <1>4, NatSets
<1>6. PICK j \in 1 .. n : e[j - 1] < x /\ x <= e[j]
  <2>1. n \in T /\ n <= n /\ x \in 1 .. e[n]
    BY <1>1, <1>5
  <2>2. QED
    BY <2>1 DEF T
<1>7. j \in 0 .. n /\ j - 1 \in 0 .. n
  BY <1>1
<1>8. PICK p, len, y : p = pieces[j] /\ len = Len(p) /\ y = x - e[j - 1]
  OBVIOUS
<1>9. /\ e[j] = e[j - 1] + len /\ len \in Nat /\ e[j - 1] \in Nat /\ e[j] \in Nat
      /\ \A i \in 1 .. len : data[e[j - 1] + i] = p[i]
  BY <1>1, <1>7, <1>8
<1>10. y \in 1 .. len /\ e[j - 1] + y = x
  BY <1>6, <1>8, <1>9
<1>11. data[x] = p[y]
  BY <1>9, <1>10
<1>12. p[y] \in Separators <=> y = len
  BY <1>8, <1>10 DEF IsPiece
<1>13. y = len <=> x = e[j]
  BY <1>9, <1>10
<1>14. ASSUME NEW k \in 1 .. n, x = e[k] PROVE k = j
  <2>1. k \in 0 .. n
    BY <1>1
  <2>2. \A a, b \in 0 .. n : a < b => e[a] < e[b]
    <3>1. Climbs(data, e, pieces, n)
      BY LaidEnds
    <3>2. QED
      BY ONLY <3>1 DEF Climbs
  <2>3. e[k] \in Nat /\ e[k] = x
    BY <1>1, <1>14, <2>1
  <2>4. ~(j < k)
    <3>1. j < k => e[j] < e[k]
      BY <1>7, <2>1, <2>2
    <3>2. QED
      BY <1>6, <1>9, <2>3, <3>1
  <2>5. k # j - 1
    BY <1>6, <1>9, <2>3
  <2>6. ~(k < j - 1)
    <3>1. k < j - 1 => e[k] < e[j - 1]
      BY <1>7, <2>1, <2>2
    <3>2. QED
      BY <1>6, <1>9, <2>3, <3>1
  <2>7. k \in Int /\ j \in Int
    BY <1>1
  <2>8. QED
    BY <2>4, <2>5, <2>6, <2>7
<1>15. QED
  BY <1>11, <1>12, <1>13, <1>14

-----------------------------------------------------------------------------
(***************************************************************************)
(* Rows of m cells.  Where the table's text has row after row, the pieces  *)
(* are its cells with what ends them, m to a row.                          *)
(***************************************************************************)

\* Products grow.
LEMMA Times ==
  /\ \A a, m \in Nat : a * m \in Nat /\ (a + 1) * m = a * m + m
  /\ \A a, b, m \in Nat : a <= b => a * m <= b * m
<1>1. \A a, m \in Nat : a * m \in Nat /\ (a + 1) * m = a * m + m
  OBVIOUS
<1>2. ASSUME NEW a \in Nat, NEW b \in Nat, NEW m \in Nat, a <= b PROVE a * m <= b * m
  <2>1. PICK d \in Nat : b = a + d
    <3>1. b - a \in Nat /\ b = a + (b - a)
      BY <1>2
    <3>2. QED
      BY <3>1
  <2>2. (a + d) * m = a * m + d * m /\ d * m \in Nat /\ a * m \in Nat
    OBVIOUS
  <2>3. QED
    BY <2>1, <2>2
<1>3. QED
  BY <1>1, <1>2

\* Every number from 1 to n * m is that of a place in a row of m.
LEMMA RowOfPlace ==
  ASSUME NEW n \in Nat, NEW m \in Nat \ {0}
  PROVE  /\ \A j \in 1 .. n * m : \E r \in 1 .. n, c \in 1 .. m : j = (r - 1) * m + c
         /\ \A r \in 1 .. n, c \in 1 .. m : (r - 1) * m + c \in 1 .. n * m
<1>1. ASSUME NEW r \in 1 .. n, NEW c \in 1 .. m PROVE (r - 1) * m + c \in 1 .. n * m
  <2>1. r - 1 \in Nat /\ r <= n /\ r \in Nat /\ (r - 1) + 1 = r
    OBVIOUS
  <2>2. (r - 1) * m \in Nat /\ r * m = (r - 1) * m + m /\ r * m <= n * m /\ n * m \in Nat
    BY <2>1, Times
  <2>3. QED
    BY <2>2
<1> DEFINE T == {k \in Nat : \A j \in 1 .. k * m : \E r \in 1 .. k, c \in 1 .. m : j = (r - 1) * m + c}
<1>2. 0 \in T
  <2>1. 0 * m = 0
    OBVIOUS
  <2>2. QED
    BY <2>1
<1>3. ASSUME NEW k \in T PROVE k + 1 \in T
  <2>1. k \in Nat
    OBVIOUS
  <2>2. k * m \in Nat /\ (k + 1) * m = k * m + m
    BY <2>1, Times
  <2>3. ASSUME NEW j \in 1 .. (k + 1) * m PROVE \E r \in 1 .. k + 1, c \in 1 .. m : j = (r - 1) * m + c
    <3>1. CASE j <= k * m
      <4>1. PICK r \in 1 .. k, c \in 1 .. m : j = (r - 1) * m + c
        <5>1. j \in 1 .. k * m
          BY <2>2, <3>1
        <5>2. \A i \in 1 .. k * m : \E r \in 1 .. k, c \in 1 .. m : i = (r - 1) * m + c
          BY <2>1
        <5>3. QED
          BY ONLY <5>1, <5>2
      <4>2. r \in 1 .. k + 1
        BY <2>1
      <4>3. QED
        BY <4>1, <4>2
    <3>2. CASE j > k * m
      <4>1. j - k * m \in 1 .. m /\ k + 1 \in 1 .. k + 1 /\ (k + 1) - 1 = k /\ j = k * m + (j - k * m)
        BY <2>1, <2>2, <3>2
      <4>2. QED
        BY <4>1
    <3>3. QED
      BY <2>2, <3>1, <3>2
  <2>4. QED
    BY <2>3
<1>4. T \in SUBSET Nat
  OBVIOUS
<1> HIDE DEF T
<1>5. T = Nat
  BY <1>2, <1>3, <1>4, NatSets
<1>6. n \in T
  BY <1>5
<1>7. QED
  BY <1>1, <1>6 DEF T

IsCell(v) == v \in Text /\ \A i \in 1 .. Len(v) : v[i] \notin Separators
IsRow(row, m) == row \in Seq(Text) /\ Len(row) = m /\ \A c \in 1 .. m : IsCell(row[c])
PiecesOf(row) == [c \in DOMAIN row |-> row[c] \o <<IF c = Len(row) THEN NL ELSE Tab>>]

\* A cell and what ends it.
LEMMA PieceOfCell ==
  ASSUME NEW v, IsCell(v), NEW s \in Separators, NEW t \in Text, Len(t) = 1, t[1] = s, NEW p, p = v \o t
  PROVE  /\ IsPiece(p) /\ p[Len(p)] = s /\ Len(p) = Len(v) + 1
         /\ \A i \in 1 .. Len(v) : p[i] = v[i]
<1>1. v \in Seq(Characters) /\ s \in Characters
  <2>1. v \in Seq(Characters)
    BY DEF IsCell, Text
  <2>2. s \in Characters
    BY TextAssumption
  <2>3. QED
    BY <2>1, <2>2
<1>2. PICK n : n = Len(v)
  OBVIOUS
<1>3. n \in Nat
  BY <1>1, <1>2, LenProperties
<1>5. t \in Seq(Characters) /\ Len(t) = 1 /\ t[1] = s /\ p = v \o t
  BY DEF Text
<1>6. /\ p \in Seq(Characters) /\ Len(p) = n + 1
      /\ \A i \in 1 .. n + 1 : p[i] = IF i <= n THEN v[i] ELSE t[i - n]
  <2>1. /\ v \o t \in Seq(Characters) /\ Len(v \o t) = Len(v) + Len(t)
        /\ \A i \in 1 .. Len(v) + Len(t) : (v \o t)[i] = IF i <= Len(v) THEN v[i] ELSE t[i - Len(v)]
    BY <1>1, <1>5, ConcatProperties
  <2>2. QED
    BY <1>2, <1>5, <2>1
<1>7. p[n + 1] = s /\ \A i \in 1 .. n : p[i] = v[i]
  <2>1. n + 1 \in 1 .. n + 1 /\ ~(n + 1 <= n) /\ (n + 1) - n = 1
    BY <1>3
  <2>2. p[n + 1] = t[1]
    BY <1>6, <2>1
  <2>3. \A i \in 1 .. n : p[i] = v[i]
    BY <1>3, <1>6
  <2>4. QED
    BY <1>5, <2>2, <2>3
<1>8. p # <<>>
  BY <1>3, <1>6, EmptySeq
<1>9. \A i \in 1 .. n + 1 : p[i] \in Separators <=> i = n + 1
  <2>1. ASSUME NEW i \in 1 .. n PROVE p[i] \notin Separators
    BY <1>2, <1>7, <2>1 DEF IsCell
  <2>2. QED
    BY <1>3, <1>7, <2>1
<1>10. QED
  BY <1>2, <1>6, <1>7, <1>8, <1>9 DEF IsPiece, Text

\* The pieces of a row: its cells, each with what ends it.
LEMMA PiecesOfRow ==
  ASSUME NEW m \in Nat \ {0}, NEW row, IsRow(row, m)
  PROVE  /\ PiecesOf(row) \in Seq(Text) /\ Len(PiecesOf(row)) = m
         /\ FlattenSeq(PiecesOf(row)) = RowText(row) /\ RowText(row) \in Text
         /\ \A c \in 1 .. m : LET p == PiecesOf(row)[c]
                             IN  /\ IsPiece(p) /\ p[Len(p)] = (IF c = m THEN NL ELSE Tab)
                                 /\ Len(p) = Len(row[c]) + 1 /\ \A i \in 1 .. Len(row[c]) : p[i] = row[c][i]
<1>1. row \in Seq(Text) /\ Len(row) = m /\ DOMAIN row = 1 .. m
  BY LenProperties DEF IsRow
<1>2. ASSUME NEW c \in 1 .. m, NEW p, p = PiecesOf(row)[c]
      PROVE  /\ IsPiece(p) /\ p[Len(p)] = (IF c = m THEN NL ELSE Tab)
             /\ Len(p) = Len(row[c]) + 1 /\ \A i \in 1 .. Len(row[c]) : p[i] = row[c][i]
  <2>1. PICK s : s = IF c = m THEN NL ELSE Tab
    OBVIOUS
  <2>2. s \in Separators
    BY <2>1 DEF Separators
  <2>3. p = row[c] \o <<s>>
    BY <1>1, <1>2, <2>1 DEF PiecesOf
  <2>4. PICK v : v = row[c]
    OBVIOUS
  <2>5. PICK t : t = <<s>> /\ IsCell(v) /\ p = v \o t
    BY <2>3, <2>4 DEF IsRow
  <2>8. t \in Text /\ Len(t) = 1 /\ t[1] = s
    <3>1. s \in Characters
      BY <2>2, TextAssumption
    <3>2. QED
      BY <2>5, <3>1 DEF Text
  <2>6. /\ IsPiece(p) /\ p[Len(p)] = s /\ Len(p) = Len(v) + 1
        /\ \A i \in 1 .. Len(v) : p[i] = v[i]
    <3>1. IsCell(v) /\ p = v \o t
      BY <2>5
    <3>2. \A w : IsCell(w) => \A q : q = w \o t =>
            /\ IsPiece(q) /\ q[Len(q)] = s /\ Len(q) = Len(w) + 1
            /\ \A i \in 1 .. Len(w) : q[i] = w[i]
      BY ONLY <2>2, <2>8, PieceOfCell, ZenonT(40)
    <3>3. QED
      BY <3>1, <3>2
  <2>7. QED
    BY <2>1, <2>4, <2>6
<1>3. PICK ps : ps = PiecesOf(row)
  OBVIOUS
<1>4. ps \in Seq(Text) /\ Len(ps) = m
  <2>1. \A c \in 1 .. m : ps[c] \in Text
    BY <1>2, <1>3 DEF IsPiece
  <2>2. ps = [c \in 1 .. m |-> ps[c]]
    BY <1>1, <1>3 DEF PiecesOf
  <2>3. QED
    BY <2>1, <2>2
<1>5. FlattenSeq(ps) = RowText(row)
  BY <1>3 DEF PiecesOf, RowText
<1>6. RowText(row) \in Text
  <2>1. ps \in Seq(Seq(Characters))
    BY <1>4 DEF Text
  <2>2. FlattenSeq(ps) \in Seq(Characters)
    BY <2>1, FlattenIsSeq
  <2>3. QED
    BY <1>5, <2>2 DEF Text
<1>7. QED
  BY <1>2, <1>3, <1>4, <1>5, <1>6

\* What the text of rows is made of.
Sheet(data, rows, e, pieces, m) ==
  /\ data \in Text /\ pieces \in Seq(Text) /\ Laid(data, e, pieces)
  /\ rows \in Seq(Seq(Text)) /\ \A r \in 1 .. Len(rows) : IsRow(rows[r], m)
  /\ Len(pieces) = Len(rows) * m
  /\ \A r \in 1 .. Len(rows), c \in 1 .. m : pieces[(r - 1) * m + c] = PiecesOf(rows[r])[c]

\* A text of no rows.
LEMMA SheetNone ==
  ASSUME NEW m \in Nat
  PROVE  \E e : Sheet(<<>>, <<>>, e, <<>>, m)
<1>1. <<>> \in Text /\ <<>> \in Seq(Text) /\ <<>> \in Seq(Seq(Text)) /\ Len(<<>>) = 0 /\ 0 * m = 0
  BY EmptySeq DEF Text
<1>2. QED
  BY <1>1, LaidNone DEF Sheet

\* One more row at the end of the text.
LEMMA SheetRow ==
  ASSUME NEW m \in Nat \ {0}, NEW data, NEW rows, NEW e, NEW pieces, Sheet(data, rows, e, pieces, m),
         NEW row, IsRow(row, m)
  PROVE  \E f, ps : /\ Sheet(data \o RowText(row), Append(rows, row), f, ps, m)
                    /\ \A j \in 0 .. Len(pieces) : f[j] = e[j]
<1>1. PICK n, more : n = Len(rows) /\ more = PiecesOf(row)
  OBVIOUS
<1>2. /\ data \in Text /\ pieces \in Seq(Text) /\ Laid(data, e, pieces)
      /\ rows \in Seq(Seq(Text)) /\ \A r \in 1 .. n : IsRow(rows[r], m)
      /\ Len(pieces) = n * m
      /\ \A r \in 1 .. n, c \in 1 .. m : pieces[(r - 1) * m + c] = PiecesOf(rows[r])[c]
  BY <1>1 DEF Sheet
<1>3. /\ more \in Seq(Text) /\ Len(more) = m
      /\ FlattenSeq(more) = RowText(row) /\ RowText(row) \in Text
  BY <1>1, PiecesOfRow
<1>4. n \in Nat /\ n * m \in Nat /\ (n + 1) * m = n * m + m
  BY <1>1, <1>2, LenProperties, Times
<1>5. PICK f : /\ Laid(data \o FlattenSeq(more), f, pieces \o more)
               /\ \A j \in 0 .. Len(pieces) : f[j] = e[j]
  BY <1>2, <1>3, LaidMore
<1>6. PICK ps, all, lines : ps = pieces \o more /\ all = data \o RowText(row) /\ lines = Append(rows, row)
  OBVIOUS
<1>7. all \in Text
  BY <1>2, <1>3, <1>6, ConcatProperties DEF Text
<1>8. /\ ps \in Seq(Text) /\ Len(ps) = n * m + m
      /\ \A j \in 1 .. n * m : ps[j] = pieces[j]
      /\ \A c \in 1 .. m : ps[n * m + c] = more[c]
  <2>1. /\ pieces \o more \in Seq(Text) /\ Len(pieces \o more) = Len(pieces) + Len(more)
        /\ \A j \in 1 .. Len(pieces) + Len(more) :
             (pieces \o more)[j] = IF j <= Len(pieces) THEN pieces[j] ELSE more[j - Len(pieces)]
    BY <1>2, <1>3, ConcatProperties
  <2>2. PICK k : k = n * m
    OBVIOUS
  <2>3. /\ k \in Nat /\ ps \in Seq(Text) /\ Len(ps) = k + m
        /\ \A j \in 1 .. k + m : ps[j] = IF j <= k THEN pieces[j] ELSE more[j - k]
    BY <1>2, <1>3, <1>4, <1>6, <2>1, <2>2
  <2>4. \A j \in 1 .. k : ps[j] = pieces[j]
    BY <2>3
  <2>5. ASSUME NEW c \in 1 .. m PROVE ps[k + c] = more[c]
    <3>1. k + c \in 1 .. k + m /\ ~(k + c <= k) /\ (k + c) - k = c
      BY <2>3
    <3>2. QED
      BY <2>3, <3>1
  <2>6. QED
    BY <2>2, <2>3, <2>4, <2>5
<1>9. /\ lines \in Seq(Seq(Text)) /\ Len(lines) = n + 1 /\ lines[n + 1] = row
      /\ \A r \in 1 .. n : lines[r] = rows[r]
  <2>1. row \in Seq(Text)
    BY DEF IsRow
  <2>2. QED
    BY <1>1, <1>2, <1>6, <2>1, AppendProperties
<1>10. \A r \in 1 .. n + 1 : IsRow(lines[r], m)
  <2>1. \A r \in 1 .. n + 1 : r \in 1 .. n \/ r = n + 1
    BY <1>4
  <2>2. QED
    BY <1>2, <1>9, <2>1
<1>11. ASSUME NEW r \in 1 .. n + 1, NEW c \in 1 .. m PROVE ps[(r - 1) * m + c] = PiecesOf(lines[r])[c]
  <2>1. CASE r \in 1 .. n
    <3>1. (r - 1) * m + c \in 1 .. n * m
      BY <1>4, <2>1, RowOfPlace
    <3>2. QED
      BY <1>2, <1>8, <1>9, <2>1, <3>1
  <2>2. CASE r = n + 1
    <3>1. r - 1 = n
      BY <1>4, <2>2
    <3>2. ps[n * m + c] = more[c]
      BY <1>8
    <3>3. QED
      BY <1>1, <1>9, <2>2, <3>1, <3>2
  <2>3. QED
    BY <1>4, <2>1, <2>2
<1>12. Laid(all, f, ps)
  BY <1>3, <1>5, <1>6
<1>13. Len(ps) = Len(lines) * m
  BY <1>4, <1>8, <1>9
<1>14. Sheet(all, lines, f, ps, m)
  BY <1>7, <1>8, <1>9, <1>10, <1>11, <1>12, <1>13 DEF Sheet
<1>15. QED
  BY <1>5, <1>6, <1>14

\* The text of rows, and that of one more.
LEMMA TextsMore ==
  ASSUME NEW m \in Nat \ {0}, NEW rows \in Seq(Seq(Text)), \A r \in 1 .. Len(rows) : IsRow(rows[r], m)
  PROVE  /\ Texts(<<>>) = <<>> /\ Texts(rows) \in Text
         /\ \A row : IsRow(row, m) => Texts(Append(rows, row)) = Texts(rows) \o RowText(row)
<1>1. PICK n, parts : n = Len(rows) /\ parts = [i \in DOMAIN rows |-> RowText(rows[i])]
  OBVIOUS
<1>2. DOMAIN rows = 1 .. n /\ n \in Nat
  BY <1>1, LenProperties
<1>3. \A i \in 1 .. n : RowText(rows[i]) \in Seq(Characters)
  BY <1>1, PiecesOfRow DEF Text
<1>4. parts \in Seq(Seq(Characters)) /\ Len(parts) = n /\ \A i \in 1 .. n : parts[i] = RowText(rows[i])
  <2>1. parts = [i \in 1 .. n |-> parts[i]] /\ \A i \in 1 .. n : parts[i] = RowText(rows[i])
    BY <1>1, <1>2
  <2>2. \A i \in 1 .. n : parts[i] \in Seq(Characters)
    BY <1>3, <2>1
  <2>3. parts \in [1 .. n -> Seq(Characters)]
    BY <1>1, <1>2, <1>3
  <2>4. parts \in Seq(Seq(Characters)) /\ Len(parts) = n
    BY <1>2, <2>3, FunctionIsSeq
  <2>5. QED
    BY <2>1, <2>4
<1>5. Texts(rows) = FlattenSeq(parts) /\ Texts(rows) \in Text
  <2>1. FlattenSeq(parts) \in Seq(Characters)
    BY <1>4, FlattenIsSeq
  <2>2. QED
    BY <1>1, <2>1 DEF Texts, Text
<1>6. ASSUME NEW row, IsRow(row, m) PROVE Texts(Append(rows, row)) = Texts(rows) \o RowText(row)
  <2>1. PICK more, text : more = Append(rows, row) /\ text = RowText(row)
    OBVIOUS
  <2>2. row \in Seq(Text)
    BY <1>6 DEF IsRow
  <2>3. /\ more \in Seq(Seq(Text)) /\ Len(more) = n + 1 /\ more[n + 1] = row
        /\ \A r \in 1 .. n : more[r] = rows[r]
    BY <1>1, <2>1, <2>2, AppendProperties
  <2>4. DOMAIN more = 1 .. n + 1
    BY <2>3, LenProperties
  <2>5. text \in Seq(Characters)
    BY <1>6, <2>1, PiecesOfRow DEF Text
  <2>6. PICK all : all = Append(parts, text)
    OBVIOUS
  <2>7. /\ all \in Seq(Seq(Characters)) /\ Len(all) = n + 1 /\ all[n + 1] = text
        /\ \A r \in 1 .. n : all[r] = parts[r]
    BY <1>4, <2>5, <2>6, AppendProperties
  <2>8. DOMAIN all = 1 .. n + 1
    BY <2>7, LenProperties
  <2>9. all = [i \in 1 .. n + 1 |-> all[i]]
    <3>1. all \in [1 .. Len(all) -> Seq(Characters)]
      BY <2>7, LenProperties
    <3>2. QED
      BY <2>7, <3>1
  <2>10. \A i \in 1 .. n + 1 : all[i] = RowText(more[i])
    <3>1. \A i \in 1 .. n + 1 : i \in 1 .. n \/ i = n + 1
      BY <1>2
    <3>2. QED
      BY <1>4, <2>1, <2>3, <2>7, <3>1
  <2>11. [i \in DOMAIN more |-> RowText(more[i])] = all
    BY <2>4, <2>9, <2>10
  <2>12. FlattenSeq(all) = FlattenSeq(parts) \o text
    BY <1>4, <2>5, <2>6, FlattenAppend
  <2>13. Texts(more) = FlattenSeq(all)
    BY <2>11 DEF Texts
  <2>14. QED
    BY <1>5, <2>1, <2>12, <2>13
<1>7. Texts(<<>>) = <<>>
  <2>1. [i \in DOMAIN <<>> |-> RowText(<<>>[i])] = <<>>
    OBVIOUS
  <2>2. QED
    BY <2>1, FlattenNone DEF Texts
<1>8. QED
  BY <1>5, <1>6, <1>7

\* A chunk of rows.
LEMMA SheetRows ==
  ASSUME NEW m \in Nat \ {0}, NEW data, NEW rows, NEW e, NEW pieces, Sheet(data, rows, e, pieces, m),
         NEW more \in Seq(Seq(Text)), \A r \in 1 .. Len(more) : IsRow(more[r], m)
  PROVE  \E f, ps : /\ Sheet(data \o Texts(more), rows \o more, f, ps, m)
                    /\ \A j \in 0 .. Len(pieces) : f[j] = e[j]
<1> DEFINE Follows(t) == \E f, ps : /\ Sheet(data \o Texts(t), rows \o t, f, ps, m)
                                    /\ \A j \in 0 .. Len(pieces) : f[j] = e[j]
           Good(t) == t \in Seq(Seq(Text)) /\ \A r \in 1 .. Len(t) : IsRow(t[r], m)
           T == {k \in Nat : \A t : Good(t) /\ Len(t) = k => Follows(t)}
<1>1. data \in Text /\ rows \in Seq(Seq(Text)) /\ Len(pieces) = Len(rows) * m /\ Len(rows) \in Nat
  BY LenProperties DEF Sheet
<1>2. 0 \in T
  <2>1. ASSUME NEW t, Good(t), Len(t) = 0 PROVE Follows(t)
    <3>1. t = <<>>
      BY <2>1, EmptySeq
    <3>2. Texts(<<>>) = <<>>
      <4>1. <<>> \in Seq(Seq(Text)) /\ Len(<<>>) = 0
        BY EmptySeq
      <4>2. \A r \in 1 .. Len(<<>>) : IsRow(<<>>[r], m)
        BY <4>1
      <4>3. QED
        BY <4>1, <4>2, TextsMore
    <3>3. data \o <<>> = data /\ rows \o <<>> = rows
      BY <1>1, ConcatEmptySeq DEF Text
    <3>4. QED
      BY <3>1, <3>2, <3>3
  <2>2. QED
    BY <2>1
<1>3. ASSUME NEW k \in T PROVE k + 1 \in T
  <2>1. k \in Nat
    OBVIOUS
  <2>2. ASSUME NEW t, Good(t), Len(t) = k + 1 PROVE Follows(t)
    <3>1. PICK s \in Seq(Seq(Text)), row \in Seq(Text) : t = Append(s, row)
      <4>1. t # <<>> /\ t \in Seq(Seq(Text))
        BY <2>1, <2>2, EmptySeq
      <4>2. QED
        BY <4>1, SequenceEmptyOrAppend
    <3>2. /\ Len(s) \in Nat /\ Len(t) = Len(s) + 1 /\ t[Len(s) + 1] = row
          /\ \A r \in 1 .. Len(s) : t[r] = s[r]
      BY <3>1, AppendProperties, LenProperties
    <3>3. Len(s) = k
      BY <2>1, <2>2, <3>2
    <3>4. IsRow(row, m) /\ \A r \in 1 .. Len(s) : IsRow(s[r], m)
      BY <2>1, <2>2, <3>2, <3>3
    <3>5. PICK f, qs : /\ Sheet(data \o Texts(s), rows \o s, f, qs, m)
                       /\ \A j \in 0 .. Len(pieces) : f[j] = e[j]
      BY <3>3, <3>4
    <3>6. PICK text, all, lines : text = Texts(s) /\ all = data \o text /\ lines = rows \o s
      OBVIOUS
    <3>7. /\ text \in Text /\ Texts(t) = text \o RowText(row) /\ RowText(row) \in Text
      <4>1. Texts(s) \in Text /\ \A q : IsRow(q, m) => Texts(Append(s, q)) = Texts(s) \o RowText(q)
        BY <3>4, TextsMore
      <4>2. RowText(row) \in Text
        BY <3>4, PiecesOfRow
      <4>3. QED
        BY <3>1, <3>4, <3>6, <4>1, <4>2
    <3>8. Sheet(all, lines, f, qs, m)
      BY <3>5, <3>6
    <3>9. PICK g, ps : /\ Sheet(all \o RowText(row), Append(lines, row), g, ps, m)
                       /\ \A j \in 0 .. Len(qs) : g[j] = f[j]
      BY <3>4, <3>8, SheetRow
    <3>10. all \o RowText(row) = data \o Texts(t)
      <4>1. PICK x : x = RowText(row)
        OBVIOUS
      <4>2. data \in Seq(Characters) /\ text \in Seq(Characters) /\ x \in Seq(Characters)
        BY <1>1, <3>7, <4>1 DEF Text
      <4>3. (data \o text) \o x = data \o (text \o x)
        BY ONLY <4>2, ConcatAssociative, SMTT(30)
      <4>4. QED
        BY <3>6, <3>7, <4>1, <4>3
    <3>11. Append(lines, row) = rows \o t
      <4>1. PICK y, Lines : y = <<row>> /\ Lines = Seq(Text)
        OBVIOUS
      <4>2. rows \in Seq(Lines) /\ s \in Seq(Lines) /\ y \in Seq(Lines) /\ lines \in Seq(Lines) /\ row \in Lines
        BY <1>1, <3>6, <4>1, ConcatProperties
      <4>3. (rows \o s) \o y = rows \o (s \o y)
        BY <4>2, ConcatAssociative, SMTT(30)
      <4>4. Append(lines, row) = lines \o <<row>> /\ Append(s, row) = s \o <<row>>
        BY <4>2, AppendIsConcat
      <4>5. QED
        BY <3>1, <3>6, <4>1, <4>3, <4>4
    <3>12. \A j \in 0 .. Len(pieces) : g[j] = e[j]
      <4>1. Len(qs) = Len(lines) * m /\ Len(lines) = Len(rows) + k
        BY <1>1, <3>3, <3>6, <3>8, ConcatProperties DEF Sheet
      <4>2. Len(rows) * m \in Nat /\ Len(lines) * m \in Nat /\ Len(rows) * m <= Len(lines) * m
        <5>1. PICK a, b : a = Len(rows) /\ b = Len(lines)
          OBVIOUS
        <5>2. a \in Nat /\ b \in Nat /\ a <= b
          BY <1>1, <2>1, <4>1, <5>1
        <5>3. a * m \in Nat /\ b * m \in Nat /\ a * m <= b * m
          BY <5>2, Times
        <5>4. QED
          BY <5>1, <5>3
      <4>3. \A j \in 0 .. Len(pieces) : j \in 0 .. Len(qs)
        <5>1. PICK a, b : a = Len(rows) * m /\ b = Len(lines) * m
          OBVIOUS
        <5>2. a \in Nat /\ b \in Nat /\ a <= b /\ Len(pieces) = a /\ Len(qs) = b
          BY <1>1, <4>1, <4>2, <5>1
        <5>3. QED
          BY <5>2
      <4>4. QED
        BY <3>5, <3>9, <4>3
    <3>13. QED
      BY <3>9, <3>10, <3>11, <3>12
  <2>3. QED
    BY <2>1, <2>2
<1>4. T \in SUBSET Nat
  OBVIOUS
<1> HIDE DEF T
<1>5. T = Nat
  BY <1>2, <1>3, <1>4, NatSets
<1>6. Follows(more)
  BY <1>5, LenProperties DEF T
<1>7. QED
  BY <1>6

\* Where the separators are, and which of them end a row.
Marked(data, e, m, n, size) ==
  /\ n \in Nat /\ size \in Nat /\ e[0] = 0 /\ e[size] = Len(data) /\ Len(data) \in Nat
  /\ \A j \in 0 .. size : e[j] \in Nat
  /\ \A i, j \in 0 .. size : i < j => e[i] < e[j]
  /\ \A j \in 1 .. size : e[j] \in 1 .. Len(data)
  /\ \A x \in 1 .. Len(data) : data[x] \in Separators <=> \E j \in 1 .. size : x = e[j]
  /\ \A x \in 1 .. Len(data) : data[x] = NL <=> \E r \in 1 .. n : x = e[r * m]

\* In the text of rows the separators end cells, and every m-th of them a row.
LEMMA SheetMarks ==
  ASSUME NEW m \in Nat \ {0}, NEW data, NEW rows, NEW e, NEW pieces, Sheet(data, rows, e, pieces, m),
         NEW n, n = Len(rows), NEW size, size = n * m
  PROVE  Marked(data, e, m, n, size)
<1>1. /\ data \in Text /\ pieces \in Seq(Text) /\ Laid(data, e, pieces)
      /\ \A r \in 1 .. n : IsRow(rows[r], m)
      /\ Len(pieces) = size /\ n \in Nat
      /\ \A r \in 1 .. n, c \in 1 .. m : pieces[(r - 1) * m + c] = PiecesOf(rows[r])[c]
  BY LenProperties DEF Sheet
<1>2. size \in Nat
  BY <1>1, Times
<1>3. ASSUME NEW r \in 1 .. n, NEW c \in 1 .. m, NEW j, j = (r - 1) * m + c
      PROVE  j \in 1 .. size /\ IsPiece(pieces[j]) /\ pieces[j][Len(pieces[j])] = IF c = m THEN NL ELSE Tab
  <2>1. j \in 1 .. size
    BY <1>1, <1>3, RowOfPlace
  <2>2. pieces[j] = PiecesOf(rows[r])[c] /\ IsRow(rows[r], m)
    BY <1>1, <1>3
  <2>3. PICK row, ps : row = rows[r] /\ ps = PiecesOf(row)
    OBVIOUS
  <2>4. IsPiece(ps[c]) /\ ps[c][Len(ps[c])] = IF c = m THEN NL ELSE Tab
    BY <2>2, <2>3, PiecesOfRow
  <2>5. QED
    BY <2>1, <2>2, <2>3, <2>4
<1>4. \A j \in 1 .. size : \E r \in 1 .. n, c \in 1 .. m : j = (r - 1) * m + c
  <2>1. \A j \in 1 .. n * m : \E r \in 1 .. n, c \in 1 .. m : j = (r - 1) * m + c
    BY ONLY <1>1, m \in Nat \ {0}, RowOfPlace
  <2>2. QED
    BY <2>1
<1>5. \A j \in 1 .. size : IsPiece(pieces[j])
  BY ONLY <1>3, <1>4, ZenonT(40)
<1>6. e[0] = 0 /\ e[size] = Len(data) /\ \A j \in 0 .. size : e[j] \in Nat
  BY <1>1, LaidFacts, SMTT(30)
<1>7. /\ Len(data) \in Nat
      /\ \A i, j \in 0 .. size : i < j => e[i] < e[j]
      /\ \A j \in 1 .. size : e[j] \in 1 .. Len(data) /\ data[e[j]] = pieces[j][Len(pieces[j])]
  <2>1. data \in Text /\ pieces \in Seq(Text) /\ Laid(data, e, pieces) /\ size = Len(pieces)
    BY <1>1
  <2>2. Climbs(data, e, pieces, size)
    BY ONLY <2>1, <1>5, LaidEnds
  <2>3. QED
    BY ONLY <2>2 DEF Climbs
<1>8. \A x \in 1 .. Len(data) : data[x] \in Separators <=> \E j \in 1 .. size : x = e[j]
  <2>1. Laid(data, e, pieces) /\ pieces \in Seq(Text) /\ \A j \in 1 .. Len(pieces) : IsPiece(pieces[j])
    BY <1>1, <1>5
  <2>2. QED
    BY <1>1, <2>1, LaidMarks
<1>9. ASSUME NEW r \in 1 .. n PROVE r * m \in 1 .. size /\ data[e[r * m]] = NL
  <2>1. (r - 1) * m + m = r * m
    <3>1. r - 1 \in Nat /\ (r - 1) + 1 = r
      BY <1>1
    <3>2. QED
      BY <3>1, Times
  <2>2. m \in 1 .. m
    OBVIOUS
  <2>3. r * m \in 1 .. size /\ pieces[r * m][Len(pieces[r * m])] = NL
    BY <1>3, <2>1, <2>2
  <2>4. QED
    BY <1>7, <2>3
<1>10. ASSUME NEW x \in 1 .. Len(data), data[x] = NL PROVE \E r \in 1 .. n : x = e[r * m]
  <2>1. NL \in Separators /\ NL # Tab
    BY DEF Separators, NL, Tab
  <2>2. PICK j \in 1 .. size : x = e[j]
    BY <1>8, <1>10, <2>1
  <2>3. PICK r \in 1 .. n, c \in 1 .. m : j = (r - 1) * m + c
    BY <1>4
  <2>4. pieces[j][Len(pieces[j])] = NL
    BY <1>7, <1>10, <2>2
  <2>5. c = m
    BY <1>3, <2>1, <2>3, <2>4
  <2>6. (r - 1) * m + m = r * m
    <3>1. r - 1 \in Nat /\ (r - 1) + 1 = r
      BY <1>1
    <3>2. QED
      BY <3>1, Times
  <2>7. QED
    BY <2>2, <2>3, <2>5, <2>6
<1>11. QED
  <2>1. ASSUME NEW x \in 1 .. Len(data) PROVE data[x] = NL <=> \E r \in 1 .. n : x = e[r * m]
    BY ONLY <1>9, <1>10, <2>1
  <2>2. \A j \in 1 .. size : e[j] \in 1 .. Len(data)
    BY ONLY <1>7
  <2>3. QED
    BY ONLY <1>1, <1>2, <1>6, <1>7, <1>8, <2>1, <2>2, ZenonT(40) DEF Marked

IsPlace(j, r, c, m) == j = (r - 1) * m + c
CellIsAt(j, data, e, cell) == SubSeq(data, e[j - 1] + 1, e[j] - 1) = cell

\* A cell is what is between two ends, without what ends it.
LEMMA SheetCell ==
  ASSUME NEW m \in Nat \ {0}, NEW data, NEW rows, NEW e, NEW pieces, Sheet(data, rows, e, pieces, m),
         NEW r \in 1 .. Len(rows), NEW c \in 1 .. m, NEW j, IsPlace(j, r, c, m)
  PROVE  CellIsAt(j, data, e, rows[r][c])
<1> USE DEF IsPlace
<1>1. PICK n, size : n = Len(rows) /\ size = n * m
  OBVIOUS
<1>2. /\ data \in Text /\ pieces \in Seq(Text) /\ Laid(data, e, pieces)
      /\ \A q \in 1 .. n : IsRow(rows[q], m)
      /\ Len(pieces) = size /\ n \in Nat
      /\ \A q \in 1 .. n, d \in 1 .. m : pieces[(q - 1) * m + d] = PiecesOf(rows[q])[d]
  BY <1>1, LenProperties DEF Sheet
<1>3. j \in 1 .. size
  BY <1>1, <1>2, RowOfPlace
<1>4. PICK p, v : p = pieces[j] /\ v = rows[r][c]
  OBVIOUS
<1>5. IsRow(rows[r], m) /\ IsCell(v)
  BY <1>1, <1>2, <1>4 DEF IsRow
<1>6. p = PiecesOf(rows[r])[c]
  BY <1>1, <1>2, <1>4
<1>7. Len(p) = Len(v) + 1 /\ \A i \in 1 .. Len(v) : p[i] = v[i]
  <2>1. PICK row, ps : row = rows[r] /\ ps = PiecesOf(row)
    OBVIOUS
  <2>2. Len(ps[c]) = Len(row[c]) + 1 /\ \A i \in 1 .. Len(row[c]) : ps[c][i] = row[c][i]
    <3>1. IsRow(row, m)
      BY <1>5, <2>1
    <3>2. LET q == PiecesOf(row)[c]
          IN  Len(q) = Len(row[c]) + 1 /\ \A i \in 1 .. Len(row[c]) : q[i] = row[c][i]
      BY <3>1, PiecesOfRow
    <3>3. QED
      BY <2>1, <3>2
  <2>3. QED
    BY <1>4, <1>6, <2>1, <2>2
<1>8. v \in Seq(Characters) /\ Len(v) \in Nat
  BY <1>5, LenProperties DEF IsCell, Text
<1>9. /\ e[j] = e[j - 1] + Len(p)
      /\ \A i \in 1 .. Len(p) : data[e[j - 1] + i] = p[i]
  <2>1. j \in 1 .. Len(pieces)
    BY <1>2, <1>3
  <2>2. /\ e[j] = e[j - 1] + Len(pieces[j])
        /\ \A i \in 1 .. Len(pieces[j]) : data[e[j - 1] + i] = pieces[j][i]
    <3>1. PICK k : k = Len(pieces)
      OBVIOUS
    <3>2. \A i \in 1 .. k : /\ e[i] = e[i - 1] + Len(pieces[i])
                            /\ \A x \in 1 .. Len(pieces[i]) : data[e[i - 1] + x] = pieces[i][x]
      <4>1. data \in Text /\ pieces \in Seq(Text) /\ Laid(data, e, pieces)
        BY <1>2
      <4>2. QED
        BY ONLY <4>1, <3>1, LaidFacts, SMTT(30)
    <3>3. QED
      BY <2>1, <3>1, <3>2
  <2>3. QED
    BY <1>4, <2>2
<1>10. e[j - 1] \in Nat /\ e[j] \in 1 .. Len(data) /\ Len(data) \in Nat
  <2>1. j - 1 \in 0 .. size /\ j \in 1 .. size
    BY <1>3, <1>2
  <2>2. QED
    BY <1>1, <2>1, SheetMarks DEF Marked
<1>11. PICK a, b, t : a = e[j - 1] /\ b = e[j] - 1 /\ t = SubSeq(data, a + 1, b)
  OBVIOUS
<1>12. a \in Nat /\ b \in Nat /\ a <= b /\ b <= Len(data) /\ b - a = Len(v)
  <2>1. PICK k, f, d : k = Len(v) /\ f = e[j] /\ d = Len(data)
    OBVIOUS
  <2>2. k \in Nat /\ a \in Nat /\ f \in 1 .. d /\ d \in Nat /\ f = a + (k + 1) /\ b = f - 1
    BY <1>7, <1>8, <1>9, <1>10, <1>11, <2>1
  <2>3. a \in Nat /\ b \in Nat /\ a <= b /\ b <= d /\ b - a = k
    BY <2>2
  <2>4. QED
    BY <2>1, <2>3
<1>13. /\ t \in Seq(Characters) /\ Len(t) = Len(v)
       /\ \A i \in 1 .. Len(v) : t[i] = data[a + i]
  <2>1. data \in Seq(Characters)
    BY <1>2 DEF Text
  <2>2. /\ SubSeq(data, a + 1, b) \in Seq(Characters) /\ Len(SubSeq(data, a + 1, b)) = b - a
        /\ \A i \in 1 .. b - a : SubSeq(data, a + 1, b)[i] = data[a + i]
    BY <1>12, <2>1, SpanOf
  <2>3. QED
    BY <1>11, <1>12, <2>2
<1>14. ASSUME NEW i \in 1 .. Len(v) PROVE t[i] = v[i]
  <2>1. i \in 1 .. Len(p)
    BY <1>7, <1>8
  <2>2. QED
    BY <1>7, <1>9, <1>11, <1>13, <2>1
<1>15. t = v
  BY <1>8, <1>13, <1>14, SeqEqual
<1>16. QED
  BY <1>1, <1>3, <1>4, <1>11, <1>15 DEF CellIsAt

\* The text between the ends of rows a and b is that of the rows after a, up to b.
LEMMA SheetSpan ==
  ASSUME NEW m \in Nat \ {0}, NEW data, NEW rows, NEW e, NEW pieces, Sheet(data, rows, e, pieces, m),
         NEW n, n = Len(rows), NEW a \in Nat, NEW b \in Nat, a <= b, b <= n
  PROVE  SubSeq(data, e[a * m] + 1, e[b * m]) = Texts(SubSeq(rows, a + 1, b))
<1>1. PICK size : size = n * m
  OBVIOUS
<1>2. /\ data \in Text /\ pieces \in Seq(Text) /\ Laid(data, e, pieces)
      /\ rows \in Seq(Seq(Text)) /\ \A r \in 1 .. n : IsRow(rows[r], m)
      /\ Len(pieces) = size /\ n \in Nat
      /\ \A r \in 1 .. n, c \in 1 .. m : pieces[(r - 1) * m + c] = PiecesOf(rows[r])[c]
  BY <1>1, LenProperties DEF Sheet
<1>3. /\ size \in Nat /\ e[0] = 0 /\ e[size] = Len(data) /\ Len(data) \in Nat
      /\ \A j \in 0 .. size : e[j] \in Nat
      /\ \A i, j \in 0 .. size : i < j => e[i] < e[j]
  <2>1. Marked(data, e, m, n, size)
    BY <1>1, SheetMarks
  <2>2. QED
    BY <2>1 DEF Marked
<1>4. ASSUME NEW r \in 0 .. n PROVE r * m \in 0 .. size
  <2>1. r \in Nat /\ n \in Nat /\ m \in Nat /\ r <= n
    BY <1>2
  <2>2. r * m \in Nat /\ n * m \in Nat /\ r * m <= n * m
    BY <2>1, Times
  <2>3. QED
    BY <1>1, <2>2
<1>5. ASSUME NEW r \in 1 .. n, NEW p, p = (r - 1) * m, NEW q, q = r * m
      PROVE  /\ p \in 0 .. size /\ q \in 0 .. size /\ p < q
             /\ RowText(rows[r]) = SubSeq(data, e[p] + 1, e[q])
  <2>1. r - 1 \in 0 .. n /\ r \in 0 .. n /\ r - 1 \in Nat /\ (r - 1) + 1 = r /\ m \in Nat
    BY <1>2
  <2>2. p \in 0 .. size /\ q \in 0 .. size
    BY <1>4, <1>5, <2>1
  <2>3. q = p + m
    BY <1>5, <2>1, Times
  <2>4. p \in Nat /\ q \in Nat /\ p <= q /\ q <= Len(pieces) /\ q - p = m /\ p < q
    BY <1>2, <1>3, <2>2, <2>3
  <2>5. PICK row, ps, span : row = rows[r] /\ ps = PiecesOf(row) /\ span = SubSeq(pieces, p + 1, q)
    OBVIOUS
  <2>6. IsRow(row, m)
    BY <1>2, <2>5
  <2>7. ps \in Seq(Text) /\ Len(ps) = m /\ FlattenSeq(ps) = RowText(row)
    BY <2>5, <2>6, PiecesOfRow
  <2>8. span \in Seq(Text) /\ Len(span) = m /\ \A c \in 1 .. m : span[c] = pieces[p + c]
    <3>1. /\ SubSeq(pieces, p + 1, q) \in Seq(Text) /\ Len(SubSeq(pieces, p + 1, q)) = q - p
          /\ \A c \in 1 .. q - p : SubSeq(pieces, p + 1, q)[c] = pieces[p + c]
      <4>1. pieces \in Seq(Text) /\ p \in Nat /\ q \in Nat /\ p <= q /\ q <= Len(pieces)
        BY <1>2, <2>4
      <4>2. QED
        BY ONLY <4>1, SpanOf
    <3>2. QED
      BY <2>4, <2>5, <3>1
  <2>9. \A c \in 1 .. m : span[c] = ps[c]
    BY <1>2, <1>5, <2>5, <2>8
  <2>10. span = ps
    BY <2>7, <2>8, <2>9, SeqEqual
  <2>11. FlattenSeq(span) = SubSeq(data, e[p] + 1, e[q])
    <3>1. data \in Text /\ pieces \in Seq(Text) /\ Laid(data, e, pieces)
      BY <1>2
    <3>2. FlattenSeq(SubSeq(pieces, p + 1, q)) = SubSeq(data, e[p] + 1, e[q])
      BY ONLY <2>4, <3>1, LaidSpan
    <3>3. QED
      BY <2>5, <3>2
  <2>12. QED
    BY <2>2, <2>4, <2>5, <2>7, <2>10, <2>11
<1> DEFINE lines0 == [r \in 1 .. n |-> RowText(rows[r])]
           f0 == [r \in 0 .. n |-> e[r * m]]
<1>6. PICK lines, f : lines = lines0 /\ f = f0
  OBVIOUS
<1>7. \A r \in 1 .. n : RowText(rows[r]) \in Text
  BY <1>2, PiecesOfRow
<1>8. lines \in Seq(Text) /\ Len(lines) = n /\ \A r \in 1 .. n : lines[r] = RowText(rows[r])
  <2>1. lines \in [1 .. n -> Text]
    BY <1>6, <1>7
  <2>2. QED
    BY <1>2, <1>6, <2>1, FunctionIsSeq
<1>9. \A r \in 0 .. n : f[r] = e[r * m]
  BY <1>6
<1>10. Laid(data, f, lines)
  <2>1. f[0] = 0 /\ f[n] = Len(data) /\ \A r \in 0 .. n : f[r] \in Nat
    <3>1. 0 * m = 0 /\ 0 \in 0 .. n /\ n \in 0 .. n
      BY <1>2
    <3>2. QED
      BY <1>1, <1>3, <1>4, <1>9, <3>1
  <2>2. ASSUME NEW r \in 1 .. n
        PROVE  /\ f[r] = f[r - 1] + Len(lines[r])
               /\ \A i \in 1 .. Len(lines[r]) : data[f[r - 1] + i] = lines[r][i]
    <3>1. PICK p, q : p = (r - 1) * m /\ q = r * m
      OBVIOUS
    <3>2. p \in 0 .. size /\ q \in 0 .. size /\ p < q /\ lines[r] = SubSeq(data, e[p] + 1, e[q])
      BY <1>5, <1>8, <3>1
    <3>3. PICK x, y, line : x = e[p] /\ y = e[q] /\ line = lines[r]
      OBVIOUS
    <3>4. x \in Nat /\ y \in Nat /\ x <= y /\ y <= Len(data)
      <4>1. e[p] \in Nat /\ e[q] \in Nat /\ e[p] < e[q]
        BY <1>3, <3>2
      <4>2. q < size \/ q = size
        BY <1>3, <3>2
      <4>3. e[q] < Len(data) \/ e[q] = Len(data)
        BY <1>3, <3>2, <4>2
      <4>4. QED
        BY <1>3, <3>3, <4>1, <4>3
    <3>5. line = SubSeq(data, x + 1, y) /\ data \in Seq(Characters)
      BY <1>2, <3>2, <3>3 DEF Text
    <3>6. /\ Len(SubSeq(data, x + 1, y)) = y - x
          /\ \A i \in 1 .. y - x : SubSeq(data, x + 1, y)[i] = data[x + i]
      BY ONLY <3>4, <3>5, SpanOf, SMTT(30)
    <3>7. f[r] = y /\ f[r - 1] = x
      <4>1. r \in 0 .. n /\ r - 1 \in 0 .. n
        BY <1>2
      <4>2. QED
        BY <1>9, <3>1, <3>3, <4>1
    <3>8. Len(line) = y - x /\ \A i \in 1 .. y - x : data[x + i] = line[i]
      BY <3>5, <3>6
    <3>9. y = x + (y - x)
      BY <3>4
    <3>10. QED
      BY <3>3, <3>7, <3>8, <3>9
  <2>3. QED
    BY <1>8, <2>1, <2>2 DEF Laid
<1>11. FlattenSeq(SubSeq(lines, a + 1, b)) = SubSeq(data, f[a] + 1, f[b])
  BY <1>2, <1>8, <1>10, LaidSpan
<1>12. PICK part, cut : part = SubSeq(rows, a + 1, b) /\ cut = SubSeq(lines, a + 1, b)
  OBVIOUS
<1>13. part \in Seq(Seq(Text)) /\ Len(part) = b - a /\ \A i \in 1 .. b - a : part[i] = rows[a + i]
  <2>1. PICK L : L = Seq(Text)
    OBVIOUS
  <2>2. rows \in Seq(L) /\ b <= Len(rows)
    BY <1>2, <2>1
  <2>3. /\ SubSeq(rows, a + 1, b) \in Seq(L) /\ Len(SubSeq(rows, a + 1, b)) = b - a
        /\ \A i \in 1 .. b - a : SubSeq(rows, a + 1, b)[i] = rows[a + i]
    BY <2>2, SpanOf
  <2>4. QED
    BY <1>12, <2>1, <2>3
<1>14. cut \in Seq(Text) /\ Len(cut) = b - a /\ \A i \in 1 .. b - a : cut[i] = lines[a + i]
  <2>1. b <= Len(lines)
    BY <1>8
  <2>2. /\ SubSeq(lines, a + 1, b) \in Seq(Text) /\ Len(SubSeq(lines, a + 1, b)) = b - a
        /\ \A i \in 1 .. b - a : SubSeq(lines, a + 1, b)[i] = lines[a + i]
    BY <1>8, <2>1, SpanOf
  <2>3. QED
    BY <1>12, <2>2
<1>15. \A i \in 1 .. b - a : cut[i] = RowText(part[i])
  <2>1. \A i \in 1 .. b - a : a + i \in 1 .. n
    BY <1>2
  <2>2. QED
    BY <1>8, <1>13, <1>14, <2>1
<1>16. [i \in DOMAIN part |-> RowText(part[i])] = cut
  <2>1. DOMAIN part = 1 .. b - a
    BY <1>13, LenProperties
  <2>2. cut = [i \in 1 .. b - a |-> cut[i]]
    <3>1. cut \in [1 .. Len(cut) -> Text]
      BY <1>14, LenProperties
    <3>2. QED
      BY <1>14, <3>1
  <2>3. QED
    BY <1>15, <2>1, <2>2
<1>17. Texts(part) = FlattenSeq(cut)
  BY <1>16 DEF Texts
<1>18. f[a] = e[a * m] /\ f[b] = e[b * m]
  <2>1. a \in 0 .. n /\ b \in 0 .. n
    BY <1>2
  <2>2. QED
    BY <1>9, <2>1
<1>19. QED
  BY <1>11, <1>12, <1>17, <1>18

\* And all of it that of all of them.
LEMMA SheetText ==
  ASSUME NEW m \in Nat \ {0}, NEW data, NEW rows, NEW e, NEW pieces, Sheet(data, rows, e, pieces, m)
  PROVE  data = Texts(rows)
<1>1. PICK n, size : n = Len(rows) /\ size = n * m
  OBVIOUS
<1>2. data \in Seq(Characters) /\ rows \in Seq(Seq(Text)) /\ n \in Nat
  BY <1>1, LenProperties DEF Sheet, Text
<1>3. e[0] = 0 /\ e[size] = Len(data)
  <2>1. Marked(data, e, m, n, size)
    BY <1>1, SheetMarks
  <2>2. QED
    BY <2>1 DEF Marked
<1>4. 0 * m = 0 /\ 0 + 1 = 1
  OBVIOUS
<1>5. SubSeq(data, e[0 * m] + 1, e[n * m]) = Texts(SubSeq(rows, 0 + 1, n))
  <2>1. \A a, b \in Nat : a <= b /\ b <= n => SubSeq(data, e[a * m] + 1, e[b * m]) = Texts(SubSeq(rows, a + 1, b))
    BY <1>1, SheetSpan
  <2>2. 0 \in Nat /\ n \in Nat /\ 0 <= n /\ n <= n
    BY <1>2
  <2>3. QED
    BY <2>1, <2>2
<1>6. SubSeq(data, 1, Len(data)) = Texts(SubSeq(rows, 1, n))
  BY <1>1, <1>3, <1>4, <1>5
<1>7. SubSeq(data, 1, Len(data)) = data
  BY <1>2, SubSeqFull
<1>8. SubSeq(rows, 1, n) = rows
  BY <1>1, <1>2, SubSeqFull
<1>9. QED
  BY <1>6, <1>7, <1>8

\* Rows make a sheet.
LEMMA SheetOf ==
  ASSUME NEW m \in Nat \ {0}, NEW rows \in Seq(Seq(Text)), \A r \in 1 .. Len(rows) : IsRow(rows[r], m)
  PROVE  \E e, pieces : Sheet(Texts(rows), rows, e, pieces, m)
<1>1. PICK e : Sheet(<<>>, <<>>, e, <<>>, m)
  BY SheetNone
<1>2. PICK none : none = <<>>
  OBVIOUS
<1>3. PICK f, ps : Sheet(none \o Texts(rows), none \o rows, f, ps, m)
  BY <1>1, <1>2, SheetRows
<1>4. none \o rows = rows
  BY <1>2, ConcatEmptySeq
<1>5. none \o Texts(rows) = Texts(rows)
  <2>1. Texts(rows) \in Seq(Characters)
    BY TextsMore DEF Text
  <2>2. QED
    BY <1>2, <2>1, ConcatEmptySeq
<1>6. QED
  BY <1>3, <1>4, <1>5

\* The text of one row.
LEMMA TextsOne ==
  ASSUME NEW m \in Nat \ {0}, NEW row, IsRow(row, m)
  PROVE  /\ <<row>> \in Seq(Seq(Text)) /\ Len(<<row>>) = 1 /\ <<row>>[1] = row
         /\ Texts(<<row>>) = RowText(row)
<1>1. PICK none, L : none = <<>> /\ L = Seq(Text)
  OBVIOUS
<1>2. row \in L /\ none \in Seq(L) /\ Len(none) = 0
  BY <1>1, EmptySeq DEF IsRow
<1>3. <<row>> = Append(none, row)
  BY <1>1, <1>2
<1>4. <<row>> \in Seq(L) /\ Len(<<row>>) = 1 /\ <<row>>[1] = row
  BY <1>2
<1>5. \A r \in 1 .. Len(none) : IsRow(none[r], m)
  BY <1>2
<1>6. Texts(Append(none, row)) = Texts(none) \o RowText(row) /\ Texts(none) = <<>>
  BY <1>1, <1>2, <1>5, TextsMore
<1>7. <<>> \o RowText(row) = RowText(row)
  <2>1. RowText(row) \in Seq(Characters)
    BY PiecesOfRow DEF Text
  <2>2. QED
    BY <2>1, ConcatEmptySeq
<1>8. QED
  BY <1>1, <1>3, <1>4, <1>6, <1>7

-----------------------------------------------------------------------------
(***************************************************************************)
(* The table: text and index agree.                                        *)
(***************************************************************************)
Width == Len(Columns)
Indexed(data, rows, e) ==
  [columns |-> Columns, data |-> data, count |-> Len(rows),
   offsets |-> [k \in 1 .. Len(rows) * Width |-> e[k - 1]],
   index |-> [rows |-> Len(rows), cols |-> Width]]

\* There are columns.
LEMMA WidthIs == Width \in Nat \ {0} /\ DOMAIN Columns = 1 .. Width
<1>1. PICK S : Columns \in Seq(S) /\ Columns # <<>>
  BY StoredAssumption
<1>2. QED
  BY <1>1, EmptySeq, LenProperties DEF Width

\* No text and no number is an outcome.
LEMMA NoOutcome ==
  \A outcome \in {None, Throws, Aborts, Undefined} :
    /\ \A t \in Text : t # outcome
    /\ \A n \in Nat : n # outcome
    /\ \A r, c \in Nat : [rows |-> r, cols |-> c] # outcome
BY TextAssumption DEF Text

\* The first chunk: the scan finds where every cell starts.
LEMMA FilledIndexed ==
  ASSUME NEW data, NEW rows, NEW e, NEW pieces, Sheet(data, rows, e, pieces, Width)
  PROVE  Filled(NewTable(Columns), data) = Indexed(data, rows, e)
<1>1. PICK m, n, size : m = Width /\ n = Len(rows) /\ size = n * m
  OBVIOUS
<1>2. m \in Nat \ {0}
  BY <1>1, WidthIs
<1>3. Marked(data, e, m, n, size)
  BY <1>1, <1>2, SheetMarks
<1>4. /\ n \in Nat /\ size \in Nat /\ e[0] = 0 /\ e[size] = Len(data) /\ Len(data) \in Nat
      /\ \A j \in 0 .. size : e[j] \in Nat
      /\ \A i, j \in 0 .. size : i < j => e[i] < e[j]
      /\ \A j \in 1 .. size : e[j] \in 1 .. Len(data)
      /\ \A x \in 1 .. Len(data) : data[x] \in Separators <=> \E j \in 1 .. size : x = e[j]
      /\ \A x \in 1 .. Len(data) : data[x] = NL <=> \E r \in 1 .. n : x = e[r * m]
  BY <1>3 DEF Marked
<1>5. DOMAIN data = 1 .. Len(data)
  <2>1. data \in Seq(Characters)
    BY DEF Sheet, Text
  <2>2. QED
    BY <2>1, LenProperties
<1>6. \A r \in 1 .. n : r * m \in 1 .. size
  <2>1. \A r \in 1 .. n : (r - 1) * m + m \in 1 .. n * m
    <3>1. m \in 1 .. m
      BY <1>2
    <3>2. QED
      BY <1>2, <1>4, <3>1, RowOfPlace
  <2>2. ASSUME NEW r \in 1 .. n PROVE (r - 1) * m + m = r * m
    <3>1. r - 1 \in Nat /\ (r - 1) + 1 = r /\ m \in Nat
      BY <1>2, <1>4
    <3>2. QED
      BY <3>1, Times
  <2>3. QED
    BY <1>1, <2>1, <2>2
<1>7. CalculateRowCount(data) = n
  <2>1. PICK S : S = {i \in DOMAIN data : data[i] = NL}
    OBVIOUS
  <2>2. PICK f : f = [r \in 1 .. n |-> e[r * m]]
    OBVIOUS
  <2>3. \A r \in 1 .. n : f[r] = e[r * m] /\ f[r] \in 1 .. Len(data)
    BY <1>4, <1>6, <2>2
  <2>4. \A x : x \in S <=> \E r \in 1 .. n : x = f[r]
    BY <1>4, <1>5, <2>1, <2>3
  <2>5. ASSUME NEW i \in 1 .. n, NEW j \in 1 .. n, i < j PROVE f[i] # f[j]
    <3>1. i * m < j * m
      <4>1. i \in Nat /\ j \in Nat /\ i + 1 \in Nat /\ i + 1 <= j /\ m \in Nat /\ m > 0
        BY <1>2, <1>4, <2>5
      <4>2. (i + 1) * m = i * m + m /\ (i + 1) * m <= j * m /\ i * m \in Nat /\ j * m \in Nat
        BY <4>1, Times
      <4>3. QED
        BY <4>1, <4>2
    <3>2. i * m \in 0 .. size /\ j * m \in 0 .. size
      BY <1>4, <1>6
    <3>3. e[i * m] < e[j * m] /\ e[i * m] \in Nat /\ e[j * m] \in Nat
      BY <1>4, <3>1, <3>2
    <3>4. QED
      BY <2>3, <3>3
  <2>6. \A i, j \in 1 .. n : f[i] = f[j] => i = j
    BY <1>4, <2>5
  <2>7. Cardinality(S) = n
    <3>1. n \in Nat
      BY <1>4
    <3>2. QED
      BY ONLY <2>4, <2>6, <3>1, CountOf
  <2>8. QED
    BY <2>1, <2>7 DEF CalculateRowCount
<1>8. BuildIndex(data) = [k \in 1 .. size |-> e[k - 1]]
  <2>1. PICK S, ends : S = {i \in DOMAIN data : data[i] \in Separators} /\ ends = Ascending(S)
    OBVIOUS
  <2>2. \A x : x \in S <=> \E j \in 1 .. size : x = e[j]
    BY <1>4, <1>5, <2>1
  <2>3. \A j \in 1 .. size : e[j] \in Nat
    BY <1>4
  <2>4. \A i, j \in 1 .. size : i < j => e[i] < e[j]
    BY <1>4
  <2>5. ends = [j \in 1 .. size |-> e[j]]
    <3>1. size \in Nat
      BY <1>4
    <3>2. Ascending(S) \in [1 .. size -> Nat] /\ \A j \in 1 .. size : Ascending(S)[j] = e[j]
      BY ONLY <2>2, <2>3, <2>4, <3>1, AscendingOf
    <3>3. QED
      BY <2>1, <3>2
  <2>6. [k \in DOMAIN ends |-> IF k = 1 THEN 0 ELSE ends[k - 1]] = [k \in 1 .. size |-> e[k - 1]]
    <3>1. DOMAIN ends = 1 .. size
      BY <2>5
    <3>2. ASSUME NEW k \in 1 .. size PROVE (IF k = 1 THEN 0 ELSE ends[k - 1]) = e[k - 1]
      <4>1. CASE k = 1
        BY <1>4, <4>1
      <4>2. CASE k # 1
        <5>1. k - 1 \in 1 .. size
          BY <1>4, <4>2
        <5>2. QED
          BY <2>5, <4>2, <5>1
      <4>3. QED
        BY <4>1, <4>2
    <3>3. QED
      BY <3>1, <3>2
  <2>7. QED
    BY <2>1, <2>6 DEF BuildIndex
<1>9. QED
  <2>1. NewTable(Columns).columns = Columns
    BY DEF NewTable
  <2>2. PICK offsets : offsets = [k \in 1 .. size |-> e[k - 1]]
    OBVIOUS
  <2>3. Indexed(data, rows, e) =
          [columns |-> Columns, data |-> data, count |-> n, offsets |-> offsets, index |-> [rows |-> n, cols |-> m]]
    BY <1>1, <2>2 DEF Indexed
  <2>4. Filled(NewTable(Columns), data) =
          [NewTable(Columns) EXCEPT !.data = data, !.count = n, !.offsets = offsets, !.index = [rows |-> n, cols |-> m]]
    BY <1>1, <1>7, <1>8, <2>1, <2>2 DEF Filled, Width
  <2>5. QED
    BY <2>3, <2>4 DEF NewTable

\* A later chunk: the scan finds where the cells after the first chunk start.
LEMMA AppendIndexed ==
  ASSUME NEW data, NEW rows, NEW e, NEW pieces, Sheet(data, rows, e, pieces, Width), rows # <<>>,
         NEW more \in Seq(Seq(Text)), \A r \in 1 .. Len(more) : IsRow(more[r], Width)
  PROVE  \E f, ps : /\ Sheet(data \o Texts(more), rows \o more, f, ps, Width)
                    /\ AppendRaw(Indexed(data, rows, e), Texts(more)) = Indexed(data \o Texts(more), rows \o more, f)
<1>1. PICK m, n, k, size : m = Width /\ n = Len(rows) /\ k = Len(more) /\ size = n * m
  OBVIOUS
<1>2. m \in Nat \ {0}
  BY <1>1, WidthIs
<1>3. /\ data \in Text /\ rows \in Seq(Seq(Text)) /\ Len(pieces) = size /\ n \in Nat \ {0} /\ k \in Nat
      /\ Texts(more) \in Text
  <2>1. data \in Text /\ rows \in Seq(Seq(Text)) /\ Len(pieces) = size
    BY <1>1 DEF Sheet
  <2>2. n \in Nat \ {0}
    BY <1>1, <2>1, EmptySeq
  <2>3. Texts(more) \in Text
    BY <1>1, <1>2, TextsMore
  <2>4. QED
    BY <1>1, <2>1, <2>2, <2>3, LenProperties
<1>4. PICK f, ps : /\ Sheet(data \o Texts(more), rows \o more, f, ps, m)
                   /\ \A j \in 0 .. Len(pieces) : f[j] = e[j]
  BY <1>1, <1>2, SheetRows
<1>5. PICK all, lines, N, whole, end, stop :
        /\ all = data \o Texts(more) /\ lines = rows \o more /\ N = n + k /\ whole = N * m
        /\ end = Len(data) /\ stop = Len(all)
  OBVIOUS
<1>6. N = Len(lines) /\ all \in Seq(Characters) /\ stop \in Nat /\ end \in Nat
  <2>1. data \in Seq(Characters) /\ Texts(more) \in Seq(Characters)
    BY <1>3 DEF Text
  <2>2. Len(lines) = n + k
    BY <1>1, <1>3, <1>5, ConcatProperties
  <2>3. all \in Seq(Characters)
    BY <1>5, <2>1, ConcatProperties
  <2>4. QED
    BY <1>5, <2>1, <2>2, <2>3, LenProperties
<1>7. Marked(all, f, m, N, whole)
  BY <1>2, <1>4, <1>5, <1>6, SheetMarks
<1>8. Marked(data, e, m, n, size)
  BY <1>1, <1>2, SheetMarks
<1>9. /\ N \in Nat /\ whole \in Nat /\ f[whole] = stop
      /\ \A j \in 0 .. whole : f[j] \in Nat
      /\ \A i, j \in 0 .. whole : i < j => f[i] < f[j]
      /\ \A j \in 1 .. whole : f[j] \in 1 .. stop
      /\ \A x \in 1 .. stop : all[x] \in Separators <=> \E j \in 1 .. whole : x = f[j]
      /\ \A x \in 1 .. stop : all[x] = NL <=> \E r \in 1 .. N : x = f[r * m]
  BY <1>5, <1>7 DEF Marked
<1>10. size \in Nat \ {0} /\ e[size] = end /\ \A j \in 0 .. size : f[j] = e[j] /\ e[j] \in Nat
  <2>1. size \in Nat /\ e[size] = Len(data) /\ \A j \in 0 .. size : e[j] \in Nat
    BY <1>8 DEF Marked
  <2>2. size # 0
    BY <1>1, <1>2, <1>3
  <2>3. QED
    BY <1>3, <1>4, <1>5, <2>1, <2>2
<1>11. \A r \in 0 .. N : r * m \in 0 .. whole
  <2>1. ASSUME NEW r \in 0 .. N PROVE r * m \in 0 .. whole
    <3>1. r \in Nat /\ N \in Nat /\ m \in Nat /\ r <= N
      BY <1>2, <1>9
    <3>2. r * m \in Nat /\ N * m \in Nat /\ r * m <= N * m
      BY <3>1, Times
    <3>3. QED
      BY <1>5, <3>2
  <2>2. QED
    BY <2>1
<1>12. size \in 0 .. whole /\ size <= whole /\ f[size] = end /\ 1 <= end
  <2>1. n \in 0 .. N
    BY <1>3, <1>5
  <2>2. size \in 0 .. whole
    BY <1>1, <1>11, <2>1
  <2>3. f[size] = end /\ size \in 1 .. whole
    BY <1>10, <2>2
  <2>4. f[size] \in 1 .. stop
    BY <1>9, <2>3
  <2>5. QED
    BY <1>6, <2>2, <2>3, <2>4
\* The order of places, as that of the ends.
<1>13. ASSUME NEW i \in 0 .. whole, NEW j \in 0 .. whole
       PROVE  (f[i] <= f[j] <=> i <= j) /\ (f[i] < f[j] <=> i < j)
  <2>1. f[i] \in Nat /\ f[j] \in Nat
    BY <1>9
  <2>2. (i < j => f[i] < f[j]) /\ (j < i => f[j] < f[i]) /\ (i = j => f[i] = f[j])
    BY <1>9
  <2>3. i < j \/ i = j \/ j < i
    BY <1>9
  <2>4. QED
    BY <1>9, <2>1, <2>2, <2>3
<1>14. PICK found : found = {i \in end .. stop - 1 : all[i] \in Separators}
  OBVIOUS
<1>15. PICK g, len : len = whole - size /\ g = [i \in 1 .. len |-> f[size + (i - 1)]]
  OBVIOUS
<1>16. len \in Nat /\ \A i \in 1 .. len : size + (i - 1) \in size .. whole - 1 /\ size + (i - 1) \in 0 .. whole
  BY <1>9, <1>10, <1>12, <1>15
<1>17. \A x : x \in found <=> \E j \in size .. whole - 1 : x = f[j]
  <2>1. ASSUME NEW x \in found PROVE \E j \in size .. whole - 1 : x = f[j]
    <3>1. x \in 1 .. stop /\ end <= x /\ x < stop /\ all[x] \in Separators
      BY <1>6, <1>12, <1>14
    <3>2. PICK j \in 1 .. whole : x = f[j]
      BY <1>9, <3>1
    <3>3. j \in 0 .. whole /\ whole \in 0 .. whole
      BY <1>9
    <3>4. f[size] <= f[j] /\ f[j] < f[whole]
      BY <1>9, <1>12, <3>1, <3>2
    <3>5. size <= j /\ j < whole
      BY <1>12, <1>13, <3>3, <3>4
    <3>6. QED
      BY <1>9, <1>10, <3>2, <3>5
  <2>2. ASSUME NEW j \in size .. whole - 1 PROVE f[j] \in found
    <3>1. j \in 0 .. whole /\ whole \in 0 .. whole /\ j \in 1 .. whole /\ size <= j /\ j < whole
      BY <1>9, <1>10
    <3>2. f[size] <= f[j] /\ f[j] < f[whole]
      BY <1>12, <1>13, <3>1
    <3>3. f[j] \in 1 .. stop /\ all[f[j]] \in Separators
      BY <1>9, <3>1
    <3>4. f[j] \in end .. stop - 1
      BY <1>6, <1>9, <1>12, <3>2, <3>3
    <3>5. QED
      BY <1>14, <3>3, <3>4
  <2>3. QED
    BY <2>1, <2>2
<1>18. \A x : x \in found <=> \E i \in 1 .. len : x = g[i]
  <2>1. ASSUME NEW j \in size .. whole - 1 PROVE \E i \in 1 .. len : f[j] = g[i]
    <3>1. j - size + 1 \in 1 .. len /\ size + ((j - size + 1) - 1) = j
      BY <1>9, <1>10, <1>15
    <3>2. g[j - size + 1] = f[j]
      BY <1>15, <3>1
    <3>3. QED
      BY <3>1, <3>2
  <2>2. ASSUME NEW i \in 1 .. len PROVE \E j \in size .. whole - 1 : g[i] = f[j]
    BY <1>15, <1>16
  <2>3. QED
    BY <1>17, <2>1, <2>2
<1>19. Ascending(found) \in [1 .. len -> Nat] /\ \A i \in 1 .. len : Ascending(found)[i] = g[i]
  <2>1. \A i \in 1 .. len : g[i] \in Nat
    BY <1>9, <1>15, <1>16
  <2>2. ASSUME NEW i \in 1 .. len, NEW j \in 1 .. len, i < j PROVE g[i] < g[j]
    <3>1. size + (i - 1) < size + (j - 1)
      BY <1>10, <1>16, <2>2
    <3>2. f[size + (i - 1)] < f[size + (j - 1)]
      BY <1>9, <1>16, <3>1
    <3>3. QED
      BY <1>15, <3>2
  <2>3. \A i, j \in 1 .. len : i < j => g[i] < g[j]
    BY <2>2
  <2>4. len \in Nat
    BY <1>16
  <2>5. QED
    BY ONLY <1>18, <2>1, <2>3, <2>4, AscendingOf
<1>20. PICK ends : ends = {i \in found : all[i] = NL}
  OBVIOUS
<1>21. Cardinality(ends) = k
  <2>1. PICK h : h = [i \in 1 .. k |-> f[(n + i) * m - m]]
    OBVIOUS
  <2>2. ASSUME NEW i \in 1 .. k PROVE n + i - 1 \in n .. N - 1 /\ h[i] = f[(n + i - 1) * m]
    <3>1. n + i - 1 \in Nat /\ m \in Nat /\ (n + i - 1) + 1 = n + i
      BY <1>2, <1>3
    <3>2. (n + i) * m = (n + i - 1) * m + m /\ (n + i - 1) * m \in Nat
      BY <3>1, Times
    <3>3. (n + i) * m - m = (n + i - 1) * m
      BY <1>2, <3>2
    <3>4. QED
      BY <1>3, <1>5, <2>1, <3>3
  <2>3. \A x : x \in ends <=> \E r \in n .. N - 1 : x = f[r * m]
    <3>1. ASSUME NEW x \in ends PROVE \E r \in n .. N - 1 : x = f[r * m]
      <4>1. x \in 1 .. stop /\ end <= x /\ x < stop /\ all[x] = NL
        BY <1>6, <1>12, <1>14, <1>20
      <4>2. PICK r \in 1 .. N : x = f[r * m]
        BY <1>9, <4>1
      <4>3. r \in 0 .. N /\ n \in 0 .. N /\ N \in 0 .. N
        BY <1>3, <1>5
      <4>4. r * m \in 0 .. whole /\ n * m \in 0 .. whole /\ N * m \in 0 .. whole
        BY <1>11, <4>3
      <4>5. f[n * m] <= f[r * m] /\ f[r * m] < f[N * m]
        BY <1>1, <1>5, <1>9, <1>12, <4>1, <4>2
      <4>6. n * m <= r * m /\ r * m < N * m
        BY <1>13, <4>4, <4>5
      <4>7. n <= r
        <5>1. SUFFICES ASSUME r < n PROVE FALSE
          BY <1>3, <1>9
        <5>2. r \in Nat /\ r + 1 \in Nat /\ n \in Nat /\ m \in Nat /\ r + 1 <= n /\ m > 0
          BY <1>2, <1>3, <1>9, <5>1
        <5>3. (r + 1) * m = r * m + m /\ (r + 1) * m <= n * m /\ r * m \in Nat /\ n * m \in Nat
          BY <5>2, Times
        <5>4. QED
          BY <4>6, <5>2, <5>3
      <4>8. r # N
        BY <1>9, <4>4, <4>6
      <4>9. QED
        BY <1>3, <1>9, <4>2, <4>7, <4>8
    <3>2. ASSUME NEW r \in n .. N - 1 PROVE f[r * m] \in ends
      <4>1. r \in Nat /\ n \in Nat /\ N \in Nat /\ m \in Nat /\ n <= r /\ r + 1 <= N /\ r \in 1 .. N /\ m > 0
        BY <1>2, <1>3, <1>9
      <4>2. /\ n * m <= r * m /\ (r + 1) * m = r * m + m /\ (r + 1) * m <= N * m
            /\ r * m \in Nat /\ N * m \in Nat
        BY <4>1, Times
      <4>3. r * m \in size .. whole - 1
        <5>1. PICK x, y, z : x = r * m /\ y = N * m /\ z = (r + 1) * m
          OBVIOUS
        <5>2. size <= x /\ z = x + m /\ z <= y /\ x \in Nat /\ y \in Nat
          BY <1>1, <4>2, <5>1
        <5>3. x \in size .. y - 1
          BY <1>10, <4>1, <5>2
        <5>4. QED
          BY <1>5, <5>1, <5>3
      <4>4. f[r * m] \in found
        BY <1>17, <4>3
      <4>5. f[r * m] \in 1 .. stop
        BY <1>6, <1>12, <1>14, <4>4
      <4>6. all[f[r * m]] = NL
        BY <1>9, <4>1, <4>5
      <4>7. QED
        BY <1>20, <4>4, <4>6
    <3>3. QED
      BY <3>1, <3>2
  <2>4. \A x : x \in ends <=> \E i \in 1 .. k : x = h[i]
    <3>1. ASSUME NEW r \in n .. N - 1 PROVE \E i \in 1 .. k : f[r * m] = h[i]
      <4>1. r - n + 1 \in 1 .. k /\ n + (r - n + 1) - 1 = r
        BY <1>3, <1>5
      <4>2. h[r - n + 1] = f[r * m]
        BY <2>2, <4>1
      <4>3. QED
        BY <4>1, <4>2
    <3>2. ASSUME NEW i \in 1 .. k PROVE \E r \in n .. N - 1 : h[i] = f[r * m]
      BY <2>2
    <3>3. \A x : x \in ends => \E i \in 1 .. k : x = h[i]
      BY ONLY <2>3, <3>1
    <3>4. \A x : (\E i \in 1 .. k : x = h[i]) => x \in ends
      BY ONLY <2>3, <3>2
    <3>5. QED
      BY ONLY <3>3, <3>4
  <2>5. ASSUME NEW i \in 1 .. k, NEW j \in 1 .. k, i < j PROVE h[i] # h[j]
    <3>1. PICK a, b : a = n + i - 1 /\ b = n + j - 1
      OBVIOUS
    <3>2. /\ a \in Nat /\ b \in Nat /\ m \in Nat /\ m > 0 /\ a + 1 <= b /\ a + 1 \in Nat
          /\ a \in 0 .. N /\ b \in 0 .. N /\ h[i] = f[a * m] /\ h[j] = f[b * m]
      BY <1>2, <1>3, <1>5, <2>2, <2>5, <3>1
    <3>3. (a + 1) * m = a * m + m /\ (a + 1) * m <= b * m /\ a * m \in Nat /\ b * m \in Nat
      BY <3>2, Times
    <3>4. a * m < b * m
      BY <3>2, <3>3
    <3>5. a * m \in 0 .. whole /\ b * m \in 0 .. whole
      BY <1>11, <3>2
    <3>6. f[a * m] < f[b * m] /\ f[a * m] \in Nat /\ f[b * m] \in Nat
      BY <1>9, <3>4, <3>5
    <3>7. QED
      BY <3>2, <3>6
  <2>6. \A i, j \in 1 .. k : h[i] = h[j] => i = j
    BY <1>3, <2>5
  <2>7. k \in Nat
    BY <1>3
  <2>8. QED
    BY ONLY <2>4, <2>6, <2>7, CountOf
<1>22. PICK old, new, joint :
         /\ old = [x \in 1 .. size |-> e[x - 1]] /\ new = Ascending(found)
         /\ joint = [x \in 1 .. whole |-> f[x - 1]]
  OBVIOUS
<1>23. old \o new = joint
  <2>1. old \in Seq(Nat) /\ Len(old) = size
    <3>1. \A x \in 1 .. size : x - 1 \in 0 .. size
      BY <1>10
    <3>2. old \in [1 .. size -> Nat]
      BY <1>10, <1>22, <3>1
    <3>3. QED
      BY <1>10, <3>2, FunctionIsSeq
  <2>2. new \in Seq(Nat) /\ Len(new) = len
    BY <1>16, <1>19, <1>22, FunctionIsSeq
  <2>3. joint \in Seq(Nat) /\ Len(joint) = whole
    <3>1. \A x \in 1 .. whole : x - 1 \in 0 .. whole
      BY <1>9
    <3>2. joint \in [1 .. whole -> Nat]
      BY <1>9, <1>22, <3>1
    <3>3. QED
      BY <1>9, <3>2, FunctionIsSeq
  <2>4. PICK sum : sum = old \o new
    OBVIOUS
  <2>5. /\ sum \in Seq(Nat) /\ Len(sum) = size + len
        /\ \A x \in 1 .. size + len : sum[x] = IF x <= size THEN old[x] ELSE new[x - size]
    <3>1. /\ old \o new \in Seq(Nat) /\ Len(old \o new) = Len(old) + Len(new)
          /\ \A x \in 1 .. Len(old) + Len(new) : (old \o new)[x] = IF x <= Len(old) THEN old[x] ELSE new[x - Len(old)]
      BY <2>1, <2>2, ConcatProperties
    <3>2. QED
      BY <2>1, <2>2, <2>4, <3>1
  <2>6. size + len = whole
    BY <1>9, <1>10, <1>15
  <2>7. ASSUME NEW x \in 1 .. whole PROVE sum[x] = joint[x]
    <3>1. CASE x <= size
      <4>1. x \in 1 .. size /\ x - 1 \in 0 .. size
        BY <1>9, <1>10, <3>1
      <4>2. sum[x] = e[x - 1] /\ e[x - 1] = f[x - 1]
        BY <1>10, <1>22, <2>5, <2>6, <3>1, <4>1
      <4>3. QED
        BY <1>22, <4>2
    <3>2. CASE ~(x <= size)
      <4>1. x - size \in 1 .. len /\ size + ((x - size) - 1) = x - 1
        BY <1>9, <1>10, <1>15, <3>2
      <4>2. sum[x] = new[x - size]
        BY <2>5, <2>6, <3>2
      <4>3. new[x - size] = f[x - 1]
        BY <1>15, <1>19, <1>22, <4>1
      <4>4. QED
        BY <1>22, <4>2, <4>3
    <3>3. QED
      BY <3>1, <3>2
  <2>8. sum = joint
    BY <2>3, <2>5, <2>6, <2>7, SeqEqual
  <2>9. QED
    BY <2>4, <2>8
<1>24. AppendRaw(Indexed(data, rows, e), Texts(more)) = Indexed(all, lines, f)
  <2>1. Indexed(data, rows, e) =
          [columns |-> Columns, data |-> data, count |-> n, offsets |-> old, index |-> [rows |-> n, cols |-> m]]
    BY <1>1, <1>22 DEF Indexed
  <2>2. Indexed(all, lines, f) =
          [columns |-> Columns, data |-> all, count |-> N, offsets |-> joint, index |-> [rows |-> N, cols |-> m]]
    BY <1>1, <1>5, <1>6, <1>22 DEF Indexed
  <2>3. PICK tbl : tbl = Indexed(data, rows, e)
    OBVIOUS
  <2>4. tbl.data = data /\ tbl.count = n /\ tbl.data # None
    BY <1>3, <2>1, <2>3, NoOutcome
  <2>5. AppendRaw(tbl, Texts(more)) =
          [tbl EXCEPT !.data = all, !.count = N, !.index.rows = N, !.offsets = @ \o new]
    BY <1>5, <1>14, <1>20, <1>21, <1>22, <2>4 DEF AppendRaw
  <2>6. tbl = [columns |-> Columns, data |-> data, count |-> n, offsets |-> old, index |-> [rows |-> n, cols |-> m]]
    BY <2>1, <2>3
  <2>7. AppendRaw(tbl, Texts(more)) =
          [columns |-> Columns, data |-> all, count |-> N, offsets |-> old \o new, index |-> [rows |-> N, cols |-> m]]
    BY ONLY <2>5, <2>6
  <2>8. QED
    BY <1>23, <2>2, <2>3, <2>7
<1>25. QED
  BY <1>1, <1>4, <1>5, <1>24

\* The index gives where the cell starts.
LEMMA OffsetIs ==
  ASSUME NEW data, NEW rows, NEW e, NEW pieces, Sheet(data, rows, e, pieces, Width),
         NEW r \in 0 .. Len(rows) - 1, NEW c \in 0 .. Width - 1
  PROVE  /\ GetOffset(Indexed(data, rows, e), r, c) = e[r * Width + c]
         /\ e[r * Width + c] \in Nat /\ e[r * Width + c] <= Len(data)
         /\ r * Width + c + 1 \in 1 .. Len(rows) * Width
<1>1. PICK m, n, size, k : m = Width /\ n = Len(rows) /\ size = n * m /\ k = r * m + c
  OBVIOUS
<1>2. m \in Nat \ {0}
  BY <1>1, WidthIs
<1>3. Marked(data, e, m, n, size)
  BY <1>1, <1>2, SheetMarks
<1>4. /\ n \in Nat /\ size \in Nat /\ e[size] = Len(data) /\ Len(data) \in Nat
      /\ \A j \in 0 .. size : e[j] \in Nat
      /\ \A j \in 1 .. size : e[j] \in 1 .. Len(data)
  BY <1>3 DEF Marked
<1>5. k \in Nat /\ k < size /\ r \in Nat /\ c \in Nat /\ r < n /\ c < m
  <2>1. r \in Nat /\ n \in Nat /\ m \in Nat /\ r + 1 \in Nat /\ r + 1 <= n /\ c \in Nat /\ c < m
    BY <1>1, <1>2, <1>4
  <2>2. r * m \in Nat /\ (r + 1) * m = r * m + m /\ (r + 1) * m <= n * m
    BY <2>1, Times
  <2>3. PICK x, y, z : x = r * m /\ y = n * m /\ z = (r + 1) * m
    OBVIOUS
  <2>4. k = x + c /\ size = y /\ x \in Nat /\ z = x + m /\ z <= y
    BY <1>1, <2>2, <2>3
  <2>5. QED
    BY <1>4, <2>1, <2>4
<1>6. PICK offsets : offsets = [x \in 1 .. size |-> e[x - 1]]
  OBVIOUS
<1>7. offsets \in Seq(Nat) /\ Len(offsets) = size
  <2>1. \A x \in 1 .. size : x - 1 \in 0 .. size
    BY <1>4
  <2>2. offsets \in [1 .. size -> Nat]
    BY <1>4, <1>6, <2>1
  <2>3. QED
    BY <1>4, <2>2, FunctionIsSeq
<1>8. PICK tbl : tbl = Indexed(data, rows, e)
  OBVIOUS
<1>9. tbl.index = [rows |-> n, cols |-> m] /\ tbl.offsets = offsets
  BY <1>1, <1>6, <1>8 DEF Indexed
<1>10. [rows |-> n, cols |-> m] # Undefined
  BY <1>2, <1>4, NoOutcome
<1>11. k \in 0 .. Len(tbl.offsets) - 1 /\ At(tbl.offsets, k) = e[k]
  <2>1. k + 1 \in 1 .. size /\ (k + 1) - 1 = k
    BY <1>4, <1>5
  <2>2. QED
    BY <1>4, <1>5, <1>6, <1>7, <1>9, <2>1 DEF At
<1>12. GetOffset(tbl, r, c) = e[k]
  <2>1. tbl.index # Undefined /\ tbl.index.rows = n /\ tbl.index.cols = m
    BY <1>9, <1>10
  <2>2. ~(r >= n) /\ ~(c >= m)
    BY <1>2, <1>4, <1>5
  <2>3. QED
    BY <1>1, <1>11, <2>1, <2>2 DEF GetOffset
<1>13. e[k] \in Nat /\ e[k] <= Len(data) /\ k + 1 \in 1 .. size
  <2>1. k = 0 \/ k \in 1 .. size
    BY <1>4, <1>5
  <2>2. e[0] = 0
    BY <1>3 DEF Marked
  <2>3. e[k] \in Nat /\ e[k] <= Len(data)
    BY <1>4, <1>5, <2>1, <2>2
  <2>4. QED
    BY <1>4, <1>5, <2>3
<1>14. QED
  BY <1>1, <1>8, <1>12, <1>13

\* No offset is a fault.
LEMMA NoFault == (\A n \in Nat : n \notin Faults) /\ (\A t \in Text : t \notin Faults)
BY NoOutcome DEF Faults

\* A cell reads back as it is in its row.
LEMMA ColumnIs ==
  ASSUME NEW data, NEW rows, NEW e, NEW pieces, Sheet(data, rows, e, pieces, Width),
         NEW r \in 0 .. Len(rows) - 1, NEW c \in 0 .. Width - 1
  PROVE  GetColumn(Indexed(data, rows, e), r, c) = rows[r + 1][c + 1]
<1>1. PICK m, n, size, k : m = Width /\ n = Len(rows) /\ size = n * m /\ k = r * m + c
  OBVIOUS
<1>2. m \in Nat \ {0}
  BY <1>1, WidthIs
<1>3. Marked(data, e, m, n, size)
  BY <1>1, <1>2, SheetMarks
<1>4. /\ n \in Nat /\ size \in Nat /\ e[size] = Len(data) /\ Len(data) \in Nat
      /\ \A j \in 0 .. size : e[j] \in Nat
      /\ \A i, j \in 0 .. size : i < j => e[i] < e[j]
      /\ \A j \in 1 .. size : e[j] \in 1 .. Len(data)
      /\ \A x \in 1 .. Len(data) : data[x] \in Separators <=> \E j \in 1 .. size : x = e[j]
  BY <1>3 DEF Marked
<1>5. PICK tbl, start, stop : tbl = Indexed(data, rows, e) /\ start = e[k] /\ stop = e[k + 1]
  OBVIOUS
<1>6. GetOffset(tbl, r, c) = start /\ start \in Nat /\ start <= Len(data) /\ k + 1 \in 1 .. size /\ k \in 0 .. size
  <2>1. /\ GetOffset(Indexed(data, rows, e), r, c) = e[r * Width + c]
        /\ e[r * Width + c] \in Nat /\ e[r * Width + c] <= Len(data)
        /\ r * Width + c + 1 \in 1 .. Len(rows) * Width
    BY OffsetIs
  <2>2. k \in Nat
    <3>1. r \in Nat /\ m \in Nat /\ c \in Nat
      BY <1>1, <1>2, <1>4
    <3>2. r * m \in Nat
      BY <3>1, Times
    <3>3. QED
      BY <1>1, <3>1, <3>2
  <2>3. GetOffset(tbl, r, c) = start /\ start \in Nat /\ start <= Len(data) /\ k + 1 \in 1 .. size
    BY <1>1, <1>5, <2>1
  <2>4. QED
    BY <1>4, <2>2, <2>3
<1>7. stop \in 1 .. Len(data) /\ start < stop /\ data[stop] \in Separators
  <2>1. k + 1 \in 0 .. size /\ k < k + 1
    BY <1>4, <1>6
  <2>2. QED
    BY <1>4, <1>5, <1>6, <2>1
<1>8. tbl.data = data
  BY <1>5 DEF Indexed
<1>9. PICK ends : ends = {i \in start .. Len(data) - 1 : At(data, i) \in Separators}
  OBVIOUS
<1>10. stop - 1 \in ends
  <2>1. stop - 1 \in start .. Len(data) - 1 /\ (stop - 1) + 1 = stop
    BY <1>4, <1>6, <1>7
  <2>2. At(data, stop - 1) \in Separators
    BY <1>7, <2>1 DEF At
  <2>3. QED
    BY <1>9, <2>1, <2>2
<1>11. ends \subseteq Nat
  BY <1>4, <1>6, <1>9
<1>12. ASSUME NEW i \in ends PROVE stop - 1 <= i
  <2>1. i \in Nat /\ start <= i /\ i + 1 \in 1 .. Len(data) /\ data[i + 1] \in Separators
    BY <1>4, <1>6, <1>9 DEF At
  <2>2. PICK j \in 1 .. size : i + 1 = e[j]
    BY <1>4, <2>1
  <2>3. k < j
    <3>1. SUFFICES ASSUME ~(k < j) PROVE FALSE
      OBVIOUS
    <3>2. j \in 0 .. size /\ (j < k \/ j = k)
      BY <1>4, <1>6, <3>1
    <3>3. e[j] \in Nat /\ (e[j] < e[k] \/ e[j] = e[k])
      BY <1>4, <1>6, <3>2
    <3>4. QED
      BY <1>5, <1>6, <2>1, <2>2, <3>3
  <2>4. k + 1 < j \/ k + 1 = j
    BY <1>6, <2>3
  <2>5. stop < e[j] \/ stop = e[j]
    <3>1. k + 1 \in 0 .. size /\ j \in 0 .. size
      BY <1>4, <1>6
    <3>2. QED
      BY <1>4, <1>5, <2>4, <3>1
  <2>6. e[j] \in Nat /\ stop \in Nat
    BY <1>4, <1>7
  <2>7. QED
    BY <2>1, <2>2, <2>5, <2>6
<1>13. Min(ends) = stop - 1 /\ ends # {}
  BY <1>10, <1>11, <1>12, LeastIs
<1>14. GetColumn(tbl, r, c) = SubSeq(data, start + 1, stop - 1)
  <2>1. start \notin Faults /\ ~(start > Len(data))
    BY <1>4, <1>6, NoFault
  <2>2. GetColumn(tbl, r, c) = SubSeq(data, start + 1, Min(ends))
    BY <1>6, <1>8, <1>9, <1>13, <2>1 DEF GetColumn
  <2>3. QED
    BY <1>13, <2>2
<1>15. SubSeq(data, start + 1, stop - 1) = rows[r + 1][c + 1]
  <2>1. PICK row, col, j : row = r + 1 /\ col = c + 1 /\ j = k + 1
    OBVIOUS
  <2>2. row \in 1 .. Len(rows) /\ col \in 1 .. m
    BY <1>1, <1>2, <1>4, <2>1
  <2>3. j = (row - 1) * m + col
    <3>1. row - 1 = r
      BY <1>4, <1>1, <2>1
    <3>2. r * m \in Nat /\ c \in Nat
      <4>1. r \in Nat /\ m \in Nat
        BY <1>1, <1>2, <1>4
      <4>2. QED
        BY <1>1, <1>2, <4>1, Times
    <3>3. QED
      BY <1>1, <2>1, <3>1, <3>2
  <2>4. Sheet(data, rows, e, pieces, m)
    BY <1>1
  <2>5. SubSeq(data, e[j - 1] + 1, e[j] - 1) = rows[row][col]
    <3>1. IsPlace(j, row, col, m)
      BY <2>3 DEF IsPlace
    <3>2. QED
      <4>1. m \in Nat \ {0}
        BY <1>2
      <4>2. CellIsAt(j, data, e, rows[row][col])
        BY ONLY <4>1, <2>2, <2>4, <3>1, SheetCell, SMTT(30)
      <4>3. QED
        BY ONLY <4>2 DEF CellIsAt
  <2>6. j - 1 = k
    BY <1>6, <2>1
  <2>7. QED
    BY <1>5, <2>1, <2>5, <2>6
<1>16. QED
  BY <1>5, <1>14, <1>15

\* Rows read back as their text.
LEMMA RowsAre ==
  ASSUME NEW data, NEW rows, NEW e, NEW pieces, Sheet(data, rows, e, pieces, Width),
         NEW s \in Nat, NEW k \in Nat, s < Len(rows), s + k <= Len(rows)
  PROVE  GetRows(Indexed(data, rows, e), s, k) = Texts(SubSeq(rows, s + 1, s + k))
<1>1. PICK m, n, size, b : m = Width /\ n = Len(rows) /\ size = n * m /\ b = s + k
  OBVIOUS
<1>2. m \in Nat \ {0}
  BY <1>1, WidthIs
<1>3. Marked(data, e, m, n, size)
  BY <1>1, <1>2, SheetMarks
<1>4. n \in Nat /\ e[size] = Len(data) /\ Len(data) \in Nat
  BY <1>3 DEF Marked
<1>5. PICK tbl, first, last : tbl = Indexed(data, rows, e) /\ first = e[s * m] /\ last = e[b * m]
  OBVIOUS
<1>6. tbl.data = data /\ tbl.count = n
  BY <1>1, <1>5 DEF Indexed
<1>7. ASSUME NEW r \in 0 .. n - 1 PROVE GetOffset(tbl, r, 0) = e[r * m] /\ e[r * m] \in Nat
  <2>1. 0 \in 0 .. Width - 1 /\ r \in 0 .. Len(rows) - 1
    BY <1>1, WidthIs
  <2>2. GetOffset(Indexed(data, rows, e), r, 0) = e[r * Width + 0] /\ e[r * Width + 0] \in Nat
    BY <2>1, OffsetIs
  <2>3. r * Width + 0 = r * m
    BY <1>1, <1>2, <1>4
  <2>4. QED
    BY <1>5, <2>2, <2>3
<1>8. GetOffset(tbl, s, 0) = first /\ first \in Nat
  BY <1>1, <1>4, <1>5, <1>7
<1>9. last = (IF b = n THEN Len(data) ELSE GetOffset(tbl, b, 0)) /\ last \in Nat
  <2>1. CASE b = n
    BY <1>1, <1>4, <1>5, <2>1
  <2>2. CASE b # n
    <3>1. b \in 0 .. n - 1
      BY <1>1, <1>4, <2>2
    <3>2. QED
      BY <1>5, <1>7, <2>2, <3>1
  <2>3. QED
    BY <2>1, <2>2
<1>10. GetRows(tbl, s, k) = SubSeq(data, first + 1, last)
  <2>1. first \notin Faults /\ last \notin Faults
    BY <1>8, <1>9, NoFault
  <2>2. ~(s + k > tbl.count)
    BY <1>1, <1>4, <1>6
  <2>3. QED
    BY <1>1, <1>6, <1>8, <1>9, <2>1, <2>2 DEF GetRows
<1>11. SubSeq(data, first + 1, last) = Texts(SubSeq(rows, s + 1, b))
  <2>1. b \in Nat /\ s <= b /\ b <= n /\ Sheet(data, rows, e, pieces, m)
    BY <1>1
  <2>2. SubSeq(data, e[s * m] + 1, e[b * m]) = Texts(SubSeq(rows, s + 1, b))
    BY <1>1, <1>2, <2>1, SheetSpan
  <2>3. QED
    BY <1>5, <2>2
<1>12. QED
  BY <1>1, <1>5, <1>10, <1>11

-----------------------------------------------------------------------------
(***************************************************************************)
(* encode() and decode().                                                  *)
(***************************************************************************)
Coded(x) ==
  IF x = Backslash THEN <<Backslash, Backslash>>
  ELSE IF x \in Separators THEN <<Backslash, Letter[x]>> ELSE <<x>>
CodesOf(v) == [i \in DOMAIN v |-> Coded(v[i])]

\* The letters of the escapes.
LEMMA Letters ==
  /\ Tab # NL /\ Tab # Backslash /\ NL # Backslash
  /\ Letter[Tab] # Letter[NL] /\ Letter[Tab] # Backslash /\ Letter[NL] # Backslash
  /\ Letter[Tab] \notin Separators /\ Letter[NL] \notin Separators
  /\ {Tab, NL, Backslash, Letter[Tab], Letter[NL]} \subseteq Characters
<1>1. Letter[Tab] = "t" /\ Letter[NL] = "n"
  BY DEF Letter, Tab, NL
<1>2. "t" # "n" /\ "t" # "\\" /\ "n" # "\\" /\ "TAB" # "NL" /\ "TAB" # "\\" /\ "NL" # "\\"
      /\ "t" # "TAB" /\ "t" # "NL" /\ "n" # "TAB" /\ "n" # "NL"
  OBVIOUS
<1>3. {Tab, NL, Backslash, Letter[Tab], Letter[NL]} \subseteq Characters
  BY TextAssumption DEF Separators
<1>4. QED
  BY <1>1, <1>2, <1>3 DEF Tab, NL, Backslash, Separators

\* One character is written as itself, or as two with a backslash first.
LEMMA CodeIs ==
  ASSUME NEW x \in Characters, NEW p, p = Coded(x)
  PROVE  /\ p \in Seq(Characters \ Separators) /\ p \in Text
         /\ \/ Len(p) = 1 /\ p[1] = x /\ x # Backslash /\ x \notin Separators
            \/ Len(p) = 2 /\ p[1] = Backslash /\ p[2] = Backslash /\ x = Backslash
            \/ Len(p) = 2 /\ p[1] = Backslash /\ p[2] = Letter[x] /\ x \in Separators
<1>1. PICK P : P = Characters \ Separators
  OBVIOUS
<1>2. Backslash \in P /\ \A s \in Separators : Letter[s] \in P
  BY <1>1, Letters DEF Separators
<1>3. CASE x = Backslash
  BY <1>1, <1>2, <1>3 DEF Coded, Text
<1>4. CASE x # Backslash /\ x \in Separators
  <2>1. PICK y : y = Letter[x]
    OBVIOUS
  <2>2. y \in P /\ p = <<Backslash, y>>
    BY <1>2, <1>4, <2>1 DEF Coded
  <2>3. p \in Seq(P) /\ Len(p) = 2 /\ p[1] = Backslash /\ p[2] = y
    BY <1>2, <2>2
  <2>4. p \in Seq(Characters)
    BY <1>1, <2>3, SeqMonotonic
  <2>5. QED
    BY <1>1, <1>4, <2>1, <2>3, <2>4 DEF Text
<1>5. CASE x # Backslash /\ x \notin Separators
  <2>1. x \in P /\ p = <<x>>
    BY <1>1, <1>5 DEF Coded
  <2>2. p \in Seq(P) /\ Len(p) = 1 /\ p[1] = x
    BY <2>1
  <2>3. p \in Seq(Characters)
    BY <1>1, <2>2, SeqMonotonic
  <2>4. QED
    BY <1>1, <1>5, <2>2, <2>3 DEF Text
<1>6. QED
  BY <1>3, <1>4, <1>5

\* An encoded value is a cell: no separator is in it.
LEMMA EncodedIsCell ==
  ASSUME NEW v \in Seq(Characters)
  PROVE  /\ IsCell(Encode(v))
         /\ \E e : Laid(Encode(v), e, CodesOf(v))
         /\ CodesOf(v) \in Seq(Text) /\ Len(CodesOf(v)) = Len(v)
         /\ \A j \in 1 .. Len(v) : CodesOf(v)[j] = Coded(v[j]) /\ v[j] \in Characters
<1>1. PICK P, n, codes : P = Characters \ Separators /\ n = Len(v) /\ codes = CodesOf(v)
  OBVIOUS
<1>2. n \in Nat /\ DOMAIN v = 1 .. n /\ \A j \in 1 .. n : v[j] \in Characters
  BY <1>1, LenProperties, ElementOfSeq
<1>3. codes = [j \in 1 .. n |-> Coded(v[j])]
  BY <1>1, <1>2 DEF CodesOf
<1>4. \A j \in 1 .. n : Coded(v[j]) \in Seq(P) /\ Coded(v[j]) \in Text
  BY <1>1, <1>2, CodeIs
<1>5. codes \in Seq(Seq(P)) /\ codes \in Seq(Text) /\ Len(codes) = n
  <2>1. codes \in [1 .. n -> Seq(P)] /\ codes \in [1 .. n -> Text]
    BY <1>3, <1>4
  <2>2. codes \in Seq(Seq(P)) /\ Len(codes) = n
    BY <1>2, <2>1, FunctionIsSeq
  <2>3. codes \in Seq(Text)
    BY <1>2, <2>1, FunctionIsSeq
  <2>4. QED
    BY <2>2, <2>3
<1>6. PICK text : text = Encode(v)
  OBVIOUS
<1>7. text = FlattenSeq(codes)
  BY <1>1, <1>6 DEF Encode, CodesOf, Coded
<1>8. text \in Seq(P)
  BY <1>5, <1>7, FlattenIsSeq
<1>9. IsCell(text)
  <2>1. text \in Seq(Characters)
    BY <1>1, <1>8, SeqMonotonic
  <2>2. \A i \in 1 .. Len(text) : text[i] \in P
    BY <1>8, ElementOfSeq
  <2>3. QED
    BY <1>1, <2>1, <2>2 DEF IsCell, Text
<1>10. \E e : Laid(text, e, codes)
  <2>1. PICK none, zero : none = <<>> /\ zero = [j \in 0 .. 0 |-> 0]
    OBVIOUS
  <2>2. Laid(none, zero, none) /\ none \in Text /\ none \in Seq(Text)
    BY <2>1, LaidNone, EmptySeq DEF Text
  <2>3. \E f : Laid(none \o FlattenSeq(codes), f, none \o codes)
    BY <1>5, <2>2, LaidMore
  <2>4. none \o codes = codes
    BY <1>5, <2>1, ConcatEmptySeq
  <2>5. none \o text = text
    BY <1>8, <2>1, ConcatEmptySeq
  <2>6. QED
    BY <1>7, <2>3, <2>4, <2>5
<1>11. QED
  BY <1>1, <1>2, <1>3, <1>5, <1>6, <1>9, <1>10

\* The count of backslashes before a place, odd or even.
LEMMA EscapedIs ==
  ASSUME NEW value \in Seq(Characters), NEW len, len = Len(value)
  PROVE  \E odd : /\ \A i \in 0 .. len : odd[i] <=> (i > 0 /\ value[i] = Backslash /\ ~odd[i - 1])
                  /\ Escaped(value) = {i \in DOMAIN value : odd[i - 1]}
<1>1. len \in Nat
  BY LenProperties
<1> DEFINE Is(f, k) == \A i \in 0 .. k : f[i] <=> (i > 0 /\ value[i] = Backslash /\ ~f[i - 1])
           T == {k \in Nat : \E f \in [0 .. k -> BOOLEAN] : Is(f, k)}
<1>2. 0 \in T
  <2>1. PICK f : f = [i \in 0 .. 0 |-> FALSE]
    OBVIOUS
  <2>2. f \in [0 .. 0 -> BOOLEAN] /\ Is(f, 0)
    BY <2>1
  <2>3. QED
    BY <2>2
<1>3. ASSUME NEW k \in T PROVE k + 1 \in T
  <2>1. k \in Nat
    OBVIOUS
  <2>2. PICK f \in [0 .. k -> BOOLEAN] : Is(f, k)
    OBVIOUS
  <2>3. PICK g : g = [i \in 0 .. k + 1 |-> IF i \in 0 .. k THEN f[i] ELSE value[k + 1] = Backslash /\ ~f[k]]
    OBVIOUS
  <2>4. g \in [0 .. k + 1 -> BOOLEAN]
    BY <2>1, <2>2, <2>3
  <2>5. ASSUME NEW i \in 0 .. k + 1 PROVE g[i] <=> (i > 0 /\ value[i] = Backslash /\ ~g[i - 1])
    <3>1. CASE i \in 0 .. k
      <4>1. g[i] = f[i] /\ (i > 0 => g[i - 1] = f[i - 1])
        BY <2>1, <2>3, <3>1
      <4>2. f[i] <=> (i > 0 /\ value[i] = Backslash /\ ~f[i - 1])
        BY <2>2, <3>1
      <4>3. QED
        BY <4>1, <4>2
    <3>2. CASE i = k + 1
      <4>1. g[i] = (value[i] = Backslash /\ ~f[k]) /\ g[i - 1] = f[k] /\ i > 0
        BY <2>1, <2>3, <3>2
      <4>2. QED
        BY <4>1
    <3>3. QED
      BY <2>1, <3>1, <3>2
  <2>6. QED
    BY ONLY <2>1, <2>4, <2>5, SMTT(30)
<1>4. T \in SUBSET Nat
  OBVIOUS
<1>5. ASSUME len \in T PROVE \E f : f = [i \in 0 .. len |-> i > 0 /\ value[i] = Backslash /\ ~f[i - 1]]
  <2>1. PICK f \in [0 .. len -> BOOLEAN] : Is(f, len)
    BY <1>5
  <2>2. f = [i \in 0 .. len |-> f[i]]
    OBVIOUS
  <2>3. \A i \in 0 .. len : f[i] = (i > 0 /\ value[i] = Backslash /\ ~f[i - 1])
    BY <2>1
  <2>4. QED
    BY <2>2, <2>3
<1> HIDE DEF T
<1>6. T = Nat
  BY <1>2, <1>3, <1>4, NatSets
<1>7. PICK odd : odd = CHOOSE f : f = [i \in 0 .. len |-> i > 0 /\ value[i] = Backslash /\ ~f[i - 1]]
  OBVIOUS
<1>8. odd = [i \in 0 .. len |-> i > 0 /\ value[i] = Backslash /\ ~odd[i - 1]]
  BY <1>1, <1>5, <1>6, <1>7
<1>9. Escaped(value) = {i \in DOMAIN value : odd[i - 1]}
  BY <1>7 DEF Escaped
<1>10. QED
  BY <1>8, <1>9

\* The pieces before one piece, and that piece.
LEMMA FlattenNext ==
  ASSUME NEW S, NEW seqs \in Seq(Seq(S)), NEW k \in 1 .. Len(seqs)
  PROVE  /\ FlattenSeq(SubSeq(seqs, 1, k)) = FlattenSeq(SubSeq(seqs, 1, k - 1)) \o seqs[k]
         /\ FlattenSeq(SubSeq(seqs, 1, k)) \in Seq(S)
<1>1. PICK L : L = Seq(S)
  OBVIOUS
<1>2. seqs \in Seq(L) /\ Len(seqs) \in Nat /\ 1 \in 1 .. Len(seqs) /\ k \in 1 .. Len(seqs) /\ k - 1 \in Nat /\ k - 1 <= Len(seqs) /\ k \in Nat
  BY <1>1, LenProperties
<1>3. SubSeq(seqs, 1, k) = SubSeq(seqs, 1, k - 1) \o <<seqs[k]>>
  BY ONLY <1>2, SubSeqRecursiveSecond
<1>4. PICK before, x : before = SubSeq(seqs, 1, k - 1) /\ x = seqs[k]
  OBVIOUS
<1>5. before \in Seq(L) /\ x \in L
  <2>1. \A a, b \in Nat : a <= b /\ b <= Len(seqs) => SubSeq(seqs, a + 1, b) \in Seq(L)
    BY <1>2, SpanOf
  <2>2. SubSeq(seqs, 0 + 1, k - 1) \in Seq(L)
    BY <1>2, <2>1
  <2>3. x \in L
    BY <1>2, <1>4, ElementOfSeq
  <2>4. QED
    BY <1>4, <2>2, <2>3
<1>6. before \o <<x>> = Append(before, x)
  BY <1>5, AppendIsConcat
<1>7. FlattenSeq(Append(before, x)) = FlattenSeq(before) \o x
  BY <1>1, <1>5, FlattenAppend
<1>8. FlattenSeq(before) \o x \in Seq(S)
  <2>1. FlattenSeq(before) \in Seq(S) /\ x \in Seq(S)
    BY <1>1, <1>5, FlattenIsSeq
  <2>2. QED
    BY <2>1, ConcatProperties
<1>9. QED
  BY <1>3, <1>4, <1>6, <1>7, <1>8

\* What decode() makes of a character after a backslash.
Unescaped(y) ==
  [c \in 1 .. Cardinality({s \in Separators : Letter[s] = y}) |-> CHOOSE s \in Separators : Letter[s] = y]

\* What is written for a character stands for it.
LEMMA UnescapedIs ==
  /\ \A y : Unescaped(y) \in Text
  /\ \A x \in Separators : Unescaped(Letter[x]) = <<x>>
<1>1. ASSUME NEW y, NEW x \in Separators, Letter[x] = y PROVE Unescaped(y) = <<x>>
  <2>1. \A s \in Separators : Letter[s] = y => s = x
    BY <1>1, Letters DEF Separators
  <2>2. {s \in Separators : Letter[s] = y} = {x}
    BY <1>1, <2>1
  <2>3. Cardinality({s \in Separators : Letter[s] = y}) = 1
    BY <2>2, FS_Singleton
  <2>4. (CHOOSE s \in Separators : Letter[s] = y) = x
    BY <1>1, <2>1
  <2>5. Unescaped(y) = [c \in 1 .. 1 |-> x]
    BY <2>3, <2>4 DEF Unescaped
  <2>6. QED
    BY <2>5
<1>2. ASSUME NEW y, ~\E x \in Separators : Letter[x] = y PROVE Unescaped(y) \in Text
  <2>1. Cardinality({s \in Separators : Letter[s] = y}) = 0
    <3>1. {s \in Separators : Letter[s] = y} = {}
      BY <1>2
    <3>2. QED
      BY <3>1, FS_EmptySet
  <2>2. Unescaped(y) = <<>>
    <3>1. PICK x, k : x = (CHOOSE s \in Separators : Letter[s] = y) /\ k = Cardinality({s \in Separators : Letter[s] = y})
      OBVIOUS
    <3>2. Unescaped(y) = [c \in 1 .. k |-> x] /\ k = 0
      BY <2>1, <3>1 DEF Unescaped
    <3>3. [c \in 1 .. 0 |-> x] = <<>>
      OBVIOUS
    <3>4. QED
      BY <3>2, <3>3
  <2>3. QED
    BY <2>2, EmptySeq DEF Text
<1>3. \A x \in Separators : <<x>> \in Text
  <2>1. \A x \in Separators : x \in Characters
    BY TextAssumption
  <2>2. QED
    BY <2>1 DEF Text
<1>4. QED
  BY <1>1, <1>2, <1>3

\* decode() undoes encode().
THEOREM DecodeEncode ==
  ASSUME NEW v \in Seq(Characters)
  PROVE  Decode(Encode(v)) = v
<1>1. PICK n, codes, text, len : n = Len(v) /\ codes = CodesOf(v) /\ text = Encode(v) /\ len = Len(text)
  OBVIOUS
<1>2. PICK e : Laid(text, e, codes)
  BY <1>1, EncodedIsCell
<1>3. /\ text \in Text /\ codes \in Seq(Text) /\ Len(codes) = n /\ n \in Nat /\ len \in Nat
      /\ \A j \in 1 .. n : codes[j] = Coded(v[j]) /\ v[j] \in Characters
  <2>1. text \in Text
    BY <1>1, EncodedIsCell DEF IsCell
  <2>2. QED
    BY <1>1, <2>1, EncodedIsCell, LenProperties DEF Text
<1>4. /\ e[0] = 0 /\ e[n] = len /\ \A j \in 0 .. n : e[j] \in Nat
      /\ \A j \in 1 .. n : /\ e[j] = e[j - 1] + Len(codes[j])
                           /\ \A i \in 1 .. Len(codes[j]) : text[e[j - 1] + i] = codes[j][i]
  <2>1. text \in Text /\ codes \in Seq(Text) /\ n = Len(codes)
    BY <1>3
  <2>2. QED
    <3>1. /\ e[0] = 0 /\ e[n] = Len(text) /\ \A j \in 0 .. n : e[j] \in Nat
          /\ \A j \in 1 .. n : /\ codes[j] \in Text /\ Len(codes[j]) \in Nat
                               /\ e[j] = e[j - 1] + Len(codes[j])
                               /\ \A i \in 1 .. Len(codes[j]) : text[e[j - 1] + i] = codes[j][i]
      BY ONLY <2>1, <1>2, LaidFacts, SMTT(30)
    <3>2. QED
      BY <1>1, <3>1
<1>5. PICK odd : /\ \A i \in 0 .. len : odd[i] <=> (i > 0 /\ text[i] = Backslash /\ ~odd[i - 1])
                 /\ Escaped(text) = {i \in DOMAIN text : odd[i - 1]}
  BY <1>1, <1>3, EscapedIs DEF Text
<1>6. DOMAIN text = 1 .. len
  BY <1>1, <1>3, LenProperties DEF Text
<1> DEFINE Char(i) == IF ~odd[i - 1] THEN IF text[i] = Backslash THEN <<>> ELSE <<text[i]>>
                      ELSE IF text[i] = Backslash THEN <<Backslash>> ELSE Unescaped(text[i])
<1>7. PICK chars : chars = [i \in 1 .. len |-> Char(i)]
  OBVIOUS
<1>8. Decode(text) = FlattenSeq(chars)
  <2>1. \A i \in 1 .. len : i \notin Escaped(text) <=> ~odd[i - 1]
    BY <1>5, <1>6
  <2>2. Decode(text) = FlattenSeq([i \in DOMAIN text |->
          IF i \notin Escaped(text) THEN IF text[i] = Backslash THEN <<>> ELSE <<text[i]>>
          ELSE IF text[i] = Backslash THEN <<Backslash>> ELSE Unescaped(text[i])])
    BY DEF Decode, Unescaped
  <2>3. [i \in DOMAIN text |->
          IF i \notin Escaped(text) THEN IF text[i] = Backslash THEN <<>> ELSE <<text[i]>>
          ELSE IF text[i] = Backslash THEN <<Backslash>> ELSE Unescaped(text[i])] = chars
    BY <1>6, <1>7, <2>1
  <2>4. QED
    BY <2>2, <2>3
<1>9. chars \in Seq(Seq(Characters)) /\ Len(chars) = len /\ \A i \in 1 .. len : chars[i] = Char(i)
  <2>1. ASSUME NEW i \in 1 .. len PROVE Char(i) \in Seq(Characters)
    <3>1. text[i] \in Characters /\ Backslash \in Characters
      BY <1>1, <1>3, ElementOfSeq, Letters DEF Text
    <3>2. Unescaped(text[i]) \in Seq(Characters)
      BY UnescapedIs DEF Text
    <3>3. <<>> \in Seq(Characters) /\ <<text[i]>> \in Seq(Characters) /\ <<Backslash>> \in Seq(Characters)
      BY <3>1
    <3>4. QED
      BY <3>2, <3>3
  <2>2. chars \in [1 .. len -> Seq(Characters)]
    BY <1>7, <2>1
  <2>3. \A i \in 1 .. len : chars[i] = Char(i)
    BY <1>7
  <2>4. QED
    BY <1>3, <2>2, <2>3, FunctionIsSeq
<1> HIDE DEF Char
<1> DEFINE Upto(k) == FlattenSeq(SubSeq(chars, 1, k))
           Good(j) == e[j] <= len /\ ~odd[e[j]] /\ Upto(e[j]) = SubSeq(v, 1, j)
           T == {j \in Nat : j <= n => Good(j)}
<1>10. \A k \in 1 .. len : Upto(k) = Upto(k - 1) \o chars[k] /\ Upto(k) \in Seq(Characters)
  BY <1>9, FlattenNext
<1>11. Upto(0) = <<>> /\ SubSeq(v, 1, 0) = <<>>
  <2>1. SubSeq(chars, 1, 0) = <<>> /\ SubSeq(v, 1, 0) = <<>>
    BY SubSeqEmpty
  <2>2. QED
    BY <2>1, FlattenNone
<1>12. \A k \in 0 .. len : Upto(k) \in Seq(Characters)
  <2>1. \A k \in 0 .. len : k = 0 \/ k \in 1 .. len
    BY <1>3
  <2>2. <<>> \in Seq(Characters)
    BY EmptySeq
  <2>3. QED
    BY <1>10, <1>11, <2>1, <2>2
<1> HIDE DEF Upto, Good
<1>13. 0 \in T
  <2>1. ~odd[0] /\ 0 <= len
    BY <1>3, <1>5
  <2>2. QED
    BY <1>4, <1>11, <2>1 DEF Good
<1>14. ASSUME NEW k \in T PROVE k + 1 \in T
  <2>1. PICK j : j = k + 1
    OBVIOUS
  <2>2. SUFFICES ASSUME j <= n PROVE Good(j)
    BY <2>1
  <2>3. k \in Nat /\ j \in 1 .. n /\ j - 1 = k /\ k <= n /\ k \in 0 .. n /\ j \in 0 .. n
    BY <1>3, <2>1, <2>2
  <2>4. PICK a, b, p, x : a = e[k] /\ b = e[j] /\ p = codes[j] /\ x = v[j]
    OBVIOUS
  <2>5. /\ a \in Nat /\ b \in Nat /\ b = a + Len(p) /\ \A i \in 1 .. Len(p) : text[a + i] = p[i]
        /\ x \in Characters /\ p = Coded(x)
    BY <1>3, <1>4, <2>3, <2>4
  <2>6. a <= len /\ ~odd[a] /\ Upto(a) = SubSeq(v, 1, k)
    <3>1. k <= n => Good(k)
      OBVIOUS
    <3>2. QED
      BY <2>3, <2>4, <3>1 DEF Good
  <2>7. b <= len
    <3>1. text \in Text /\ codes \in Seq(Text) /\ Laid(text, e, codes)
      BY <1>2, <1>3
    <3>2. \A i, q \in 0 .. n : i <= q => e[i] <= e[q]
      BY ONLY <1>3, <3>1, LaidGrows
    <3>3. n \in 0 .. n /\ j <= n
      BY <1>3, <2>3
    <3>4. QED
      BY <1>4, <2>3, <2>4, <3>2, <3>3
  <2>8. SubSeq(v, 1, j) = SubSeq(v, 1, k) \o <<x>>
    <3>1. j \in 1 .. Len(v) /\ 1 \in 1 .. Len(v) /\ j \in 1 .. Len(v)
      BY <1>1, <2>3
    <3>2. SubSeq(v, 1, j) = SubSeq(v, 1, j - 1) \o <<v[j]>>
      BY <3>1, SubSeqRecursiveSecond
    <3>3. QED
      BY <2>3, <2>4, <3>2
  <2>9. CASE Len(p) = 1 /\ p[1] = x /\ x # Backslash
    <3>1. b = a + 1 /\ text[b] = x /\ b \in 1 .. len /\ b - 1 = a /\ b \in 0 .. len
      BY <2>5, <2>7, <2>9
    <3>2. ~odd[b]
      BY <1>5, <2>9, <3>1
    <3>3. chars[b] = <<x>>
      BY <1>9, <2>6, <2>9, <3>1 DEF Char
    <3>4. Upto(b) = Upto(a) \o <<x>>
      BY <1>10, <3>1, <3>3
    <3>5. QED
      BY <2>4, <2>6, <2>7, <2>8, <3>2, <3>4 DEF Good
  <2>10. CASE Len(p) = 2 /\ p[1] = Backslash /\ ((p[2] = Backslash /\ x = Backslash) \/ (p[2] = Letter[x] /\ x \in Separators))
    <3>1. PICK c : c = a + 1
      OBVIOUS
    <3>2. /\ b = c + 1 /\ text[c] = Backslash /\ text[b] = p[2] /\ b \in 1 .. len /\ c \in 1 .. len
          /\ b - 1 = c /\ c - 1 = a /\ b \in 0 .. len /\ c \in 0 .. len /\ a \in 0 .. len
      <4>1. b = a + 2 /\ text[a + 1] = Backslash /\ text[a + 2] = p[2]
        BY <2>5, <2>10
      <4>2. b = c + 1 /\ c + 1 = a + 2
        BY <2>5, <3>1, <4>1
      <4>3. c - 1 = a /\ b - 1 = c /\ c \in Nat /\ 1 <= c
        BY <2>5, <3>1, <4>2
      <4>4. QED
        BY <1>3, <2>5, <2>7, <3>1, <4>1, <4>2, <4>3
    <3>3. odd[c]
      BY <1>5, <2>6, <3>2
    <3>4. ~odd[b]
      BY <1>5, <3>2, <3>3
    <3>5. chars[c] = <<>>
      BY <1>9, <2>6, <3>2 DEF Char
    <3>6. chars[b] = <<x>>
      <4>1. chars[b] = IF text[b] = Backslash THEN <<Backslash>> ELSE Unescaped(text[b])
        BY <1>9, <3>2, <3>3 DEF Char
      <4>2. CASE p[2] = Backslash /\ x = Backslash
        BY <3>2, <4>1, <4>2
      <4>3. CASE p[2] = Letter[x] /\ x \in Separators
        <5>1. Letter[x] # Backslash
          BY <4>3, Letters DEF Separators
        <5>2. Unescaped(Letter[x]) = <<x>>
          BY <4>3, UnescapedIs
        <5>3. QED
          BY <3>2, <4>1, <4>3, <5>1, <5>2
      <4>4. QED
        BY <2>10, <4>2, <4>3
    <3>7. Upto(c) = Upto(a)
      <4>1. Upto(c) = Upto(a) \o <<>>
        BY <1>10, <3>2, <3>5
      <4>2. Upto(a) \in Seq(Characters)
        BY <1>12, <3>2
      <4>3. QED
        BY <4>1, <4>2, ConcatEmptySeq
    <3>8. Upto(b) = Upto(a) \o <<x>>
      BY <1>10, <3>2, <3>6, <3>7
    <3>9. QED
      BY <2>4, <2>6, <2>7, <2>8, <3>4, <3>8 DEF Good
  <2>11. \/ Len(p) = 1 /\ p[1] = x /\ x # Backslash /\ x \notin Separators
         \/ Len(p) = 2 /\ p[1] = Backslash /\ p[2] = Backslash /\ x = Backslash
         \/ Len(p) = 2 /\ p[1] = Backslash /\ p[2] = Letter[x] /\ x \in Separators
    BY <2>5, CodeIs
  <2>12. \/ Len(p) = 1 /\ p[1] = x /\ x # Backslash
         \/ Len(p) = 2 /\ p[1] = Backslash /\ ((p[2] = Backslash /\ x = Backslash) \/ (p[2] = Letter[x] /\ x \in Separators))
    BY <2>11
  <2>13. QED
    BY ONLY <2>9, <2>10, <2>12
<1>15. T \in SUBSET Nat
  OBVIOUS
<1> HIDE DEF T
<1>16. T = Nat
  BY <1>13, <1>14, <1>15, NatSets
<1>17. Upto(len) = SubSeq(v, 1, n)
  <2>1. n \in T /\ n <= n
    BY <1>3, <1>16
  <2>2. QED
    BY <1>4, <2>1 DEF T, Good
<1>18. Upto(len) = FlattenSeq(chars)
  <2>1. SubSeq(chars, 1, len) = chars
    BY <1>9, SubSeqFull
  <2>2. QED
    BY <2>1 DEF Upto
<1>19. SubSeq(v, 1, n) = v
  BY <1>1, SubSeqFull
<1>20. QED
  BY <1>1, <1>8, <1>17, <1>18, <1>19

-----------------------------------------------------------------------------
(***************************************************************************)
(* Views: what a view says of the rows that it stands for.                 *)
(***************************************************************************)
AreRows(rows, w) == rows \in Seq(Seq(Text)) /\ \A r \in 1 .. Len(rows) : IsRow(rows[r], w)
Faithful(view, columns, rows) ==
  /\ view.columns = columns /\ view.count = Len(rows)
  /\ DOMAIN view.column = Cells(Len(rows), columns) /\ DOMAIN view.rows = Spans(Len(rows))
  /\ \A p \in Cells(Len(rows), columns) : view.column[p] = rows[p[1] + 1][p[2] + 1]
  /\ \A s \in Spans(Len(rows)) : s[1] < Len(rows) => view.rows[s] = Texts(SubSeq(rows, s[1] + 1, s[1] + s[2]))

\* A view that is faithful to rows shows them (the property that the runs check).
LEMMA FaithfulShows ==
  ASSUME NEW view, NEW columns, NEW rows, Faithful(view, columns, rows)
  PROVE  Shows(view, rows, {s \in DOMAIN view.rows : s[1] < view.count})
BY DEF Faithful, Shows

\* The text of some of the rows is the texts of each, one after the other.
LEMMA TextsOfPart ==
  ASSUME NEW w \in Nat \ {0}, NEW rows, AreRows(rows, w), NEW a \in Nat, NEW k \in Nat, a + k <= Len(rows),
         NEW texts, DOMAIN texts = 1 .. k, texts = [i \in 1 .. k |-> texts[i]],
         \A i \in 1 .. k : texts[i] = RowText(rows[a + i])
  PROVE  texts \in Seq(Text) /\ FlattenSeq(texts) = Texts(SubSeq(rows, a + 1, a + k))
<1>1. PICK L, part, b : L = Seq(Text) /\ b = a + k /\ part = SubSeq(rows, a + 1, b)
  OBVIOUS
<1>2. rows \in Seq(L) /\ b \in Nat /\ a <= b /\ b <= Len(rows) /\ b - a = k /\ Len(rows) \in Nat
  BY <1>1, LenProperties DEF AreRows
<1>3. part \in Seq(L) /\ Len(part) = k /\ \A i \in 1 .. k : part[i] = rows[a + i]
  <2>1. a \in Nat /\ b \in Nat /\ a <= b /\ b <= Len(rows) /\ rows \in Seq(L)
    BY <1>2
  <2>2. /\ SubSeq(rows, a + 1, b) \in Seq(L) /\ Len(SubSeq(rows, a + 1, b)) = b - a
        /\ \A i \in 1 .. b - a : SubSeq(rows, a + 1, b)[i] = rows[a + i]
    BY ONLY <2>1, SpanOf
  <2>3. QED
    BY <1>1, <1>2, <2>2
<1>4. DOMAIN part = 1 .. k
  BY <1>3, LenProperties
<1>5. \A i \in 1 .. k : texts[i] = RowText(part[i])
  BY <1>3
<1>6. [i \in DOMAIN part |-> RowText(part[i])] = texts
  BY <1>4, <1>5
<1>7. \A i \in 1 .. k : texts[i] \in Text
  <2>1. ASSUME NEW i \in 1 .. k PROVE texts[i] \in Text
    <3>1. a + i \in 1 .. Len(rows)
      BY <1>2
    <3>2. IsRow(rows[a + i], w)
      BY <3>1 DEF AreRows
    <3>3. PICK row : row = rows[a + i]
      OBVIOUS
    <3>4. RowText(row) \in Text
      BY <3>2, <3>3, PiecesOfRow
    <3>5. QED
      BY <3>3, <3>4
  <2>2. QED
    BY <2>1
<1>8. texts \in Seq(Text)
  <2>1. texts \in [1 .. k -> Text]
    BY <1>7
  <2>2. QED
    BY <2>1, FunctionIsSeq
<1>9. QED
  BY <1>1, <1>6, <1>8 DEF Texts

\* Rows that are asked for one by one, and none of them a fault.
Gather(texts) ==
  IF ToSet(texts) \cap Faults = {} THEN FlattenSeq(texts) ELSE CHOOSE f \in ToSet(texts) \cap Faults : TRUE

\* Texts are no faults.
LEMMA GatherTexts ==
  ASSUME NEW texts \in Seq(Text)
  PROVE  Gather(texts) = FlattenSeq(texts)
<1>1. \A i \in DOMAIN texts : texts[i] \in Text
  BY ElementOfSeq, LenProperties
<1>2. ToSet(texts) \cap Faults = {}
  BY <1>1, NoFault DEF ToSet
<1>3. QED
  BY <1>2 DEF Gather


\* So the rows of a view come out as their text.
LEMMA GatherRows ==
  ASSUME NEW w \in Nat \ {0}, NEW rows, AreRows(rows, w), NEW s \in Spans(Len(rows)),
         NEW texts, DOMAIN texts = 1 .. s[2], texts = [i \in 1 .. s[2] |-> texts[i]],
         \A i \in 1 .. s[2] : texts[i] = RowText(rows[s[1] + i])
  PROVE  Gather(texts) = Texts(SubSeq(rows, s[1] + 1, s[1] + s[2]))
<1>1. PICK a, k : a = s[1] /\ k = s[2]
  OBVIOUS
<1>2. a \in Nat /\ k \in Nat /\ a + k <= Len(rows)
  <2>1. Len(rows) \in Nat
    BY LenProperties DEF AreRows
  <2>2. QED
    BY <1>1, <2>1 DEF Spans
<1>3. DOMAIN texts = 1 .. k /\ texts = [i \in 1 .. k |-> texts[i]] /\ \A i \in 1 .. k : texts[i] = RowText(rows[a + i])
  BY <1>1
<1>4. texts \in Seq(Text) /\ FlattenSeq(texts) = Texts(SubSeq(rows, a + 1, a + k))
  BY ONLY w \in Nat \ {0}, AreRows(rows, w), <1>2, <1>3, TextsOfPart
<1>5. QED
  BY <1>1, <1>4, GatherTexts

\* One row, one cell of a view.
Given(view, columns, rows, r) ==
  /\ r < view.count
  /\ view.rows[<<r, 1>>] = RowText(rows[r + 1]) /\ OneRow(view, r) = RowText(rows[r + 1])
  /\ \A c \in 0 .. Len(columns) - 1 : /\ view.column[<<r, c>>] = rows[r + 1][c + 1]
                                      /\ OneCell(view, r, c) = rows[r + 1][c + 1]

\* A row and a cell of a view that is faithful to rows.
LEMMA OneOf ==
  ASSUME NEW w \in Nat \ {0}, NEW rows, AreRows(rows, w), NEW view, NEW columns, Faithful(view, columns, rows),
         NEW r \in 0 .. Len(rows) - 1
  PROVE  Given(view, columns, rows, r)
<1>1. PICK n : n = Len(rows)
  OBVIOUS
<1>2. n \in Nat /\ r \in Nat /\ r + 1 \in 1 .. n /\ view.count = n /\ r < n
  BY <1>1, LenProperties DEF AreRows, Faithful
<1>3. PICK s : s = <<r, 1>>
  OBVIOUS
<1>4. s \in Spans(n) /\ s[1] = r /\ s[2] = 1
  BY <1>2, <1>3 DEF Spans
<1>5. view.rows[s] = Texts(SubSeq(rows, r + 1, r + 1))
  BY <1>1, <1>2, <1>4 DEF Faithful
<1>6. Texts(SubSeq(rows, r + 1, r + 1)) = RowText(rows[r + 1])
  <2>1. PICK k, texts : k = 1 /\ texts = [i \in 1 .. k |-> RowText(rows[r + i])]
    OBVIOUS
  <2>2. r + k <= Len(rows) /\ r \in Nat /\ k \in Nat
    BY <1>1, <1>2, <2>1
  <2>3. DOMAIN texts = 1 .. k /\ texts = [i \in 1 .. k |-> texts[i]] /\ \A i \in 1 .. k : texts[i] = RowText(rows[r + i])
    BY <2>1
  <2>4. texts \in Seq(Text) /\ FlattenSeq(texts) = Texts(SubSeq(rows, r + 1, r + k))
    BY ONLY w \in Nat \ {0}, AreRows(rows, w), <2>2, <2>3, TextsOfPart, ZenonT(40)
  <2>5. PICK x : x = RowText(rows[r + 1])
    OBVIOUS
  <2>6. texts = <<x>>
    BY <2>1, <2>5
  <2>7. x \in Seq(Characters)
    BY <2>4, <2>6 DEF Text
  <2>8. FlattenSeq(<<x>>) = x
    BY <2>7, FlattenOneSeq
  <2>9. QED
    BY <2>1, <2>4, <2>5, <2>6, <2>8
<1>7. ASSUME NEW c \in 0 .. Len(columns) - 1 PROVE view.column[<<r, c>>] = rows[r + 1][c + 1]
  <2>1. PICK p : p = <<r, c>>
    OBVIOUS
  <2>2. p \in Cells(n, columns) /\ p[1] = r /\ p[2] = c
    BY <1>2, <2>1 DEF Cells
  <2>3. QED
    BY <1>1, <2>1, <2>2 DEF Faithful
<1>8. QED
  BY <1>2, <1>3, <1>5, <1>6, <1>7 DEF Given, OneRow, OneCell

\* The table itself.
LEMMA AsViewIs ==
  ASSUME NEW data, NEW rows, NEW e, NEW pieces, Sheet(data, rows, e, pieces, Width)
  PROVE  AreRows(rows, Width) /\ Faithful(AsView(Indexed(data, rows, e)), Columns, rows)
<1>1. PICK n, tbl, view : n = Len(rows) /\ tbl = Indexed(data, rows, e) /\ view = AsView(tbl)
  OBVIOUS
<1>2. AreRows(rows, Width) /\ n \in Nat
  BY <1>1, LenProperties DEF Sheet, AreRows
<1>3. tbl.columns = Columns /\ tbl.count = n
  BY <1>1 DEF Indexed
<1>4. /\ view.columns = Columns /\ view.count = n
      /\ view.column = [p \in Cells(n, Columns) |-> GetColumn(tbl, p[1], p[2])]
      /\ view.rows = [p \in Spans(n) |-> GetRows(tbl, p[1], p[2])]
  BY <1>1, <1>3 DEF AsView, View
<1>5. ASSUME NEW p \in Cells(n, Columns) PROVE view.column[p] = rows[p[1] + 1][p[2] + 1]
  <2>1. p[1] \in 0 .. n - 1 /\ p[2] \in 0 .. Width - 1
    BY DEF Cells, Width
  <2>2. GetColumn(tbl, p[1], p[2]) = rows[p[1] + 1][p[2] + 1]
    BY <1>1, <2>1, ColumnIs
  <2>3. QED
    BY <1>4, <2>2
<1>6. ASSUME NEW s \in Spans(n), s[1] < n PROVE view.rows[s] = Texts(SubSeq(rows, s[1] + 1, s[1] + s[2]))
  <2>1. s[1] \in Nat /\ s[2] \in Nat /\ s[1] + s[2] <= n
    BY <1>2 DEF Spans
  <2>2. GetRows(tbl, s[1], s[2]) = Texts(SubSeq(rows, s[1] + 1, s[1] + s[2]))
    BY <1>1, <1>6, <2>1, RowsAre
  <2>3. QED
    BY <1>4, <2>2
<1>7. QED
  BY <1>1, <1>2, <1>4, <1>5, <1>6 DEF Faithful

\* Any rows of a table, in any order.
LEMMA SplittedIs ==
  ASSUME NEW w \in Nat \ {0}, NEW rows, AreRows(rows, w), NEW view, NEW columns, Faithful(view, columns, rows),
         NEW lines, AreRows(lines, w), NEW picked, Len(picked) = Len(lines),
         \A i \in 1 .. Len(lines) : picked[i] \in 0 .. Len(rows) - 1 /\ lines[i] = rows[picked[i] + 1]
  PROVE  Faithful(Splitted(view, picked), columns, lines)
<1>0. \A r \in 0 .. Len(rows) - 1 : /\ OneRow(view, r) = RowText(rows[r + 1])
                                    /\ \A c \in 0 .. Len(columns) - 1 : /\ view.column[<<r, c>>] = rows[r + 1][c + 1]
                                                                        /\ OneCell(view, r, c) = rows[r + 1][c + 1]
  <2>1. \A r \in 0 .. Len(rows) - 1 : Given(view, columns, rows, r)
    BY OneOf
  <2>2. QED
    BY <2>1 DEF Given
<1>1. PICK n, shown : n = Len(lines) /\ shown = Splitted(view, picked)
  OBVIOUS
<1>2. n \in Nat
  BY <1>1, LenProperties DEF AreRows
<1>3. /\ shown.columns = columns /\ shown.count = n
      /\ shown.column = [p \in Cells(n, columns) |-> OneCell(view, At(picked, p[1]), p[2])]
      /\ shown.rows = [p \in Spans(n) |-> Gather([k \in 1 .. p[2] |-> OneRow(view, At(picked, p[1] + (k - 1)))])]
  BY <1>1 DEF Splitted, View, Collected, Gather, Faithful
<1>4. ASSUME NEW p \in Cells(n, columns) PROVE shown.column[p] = lines[p[1] + 1][p[2] + 1]
  <2>1. p[1] + 1 \in 1 .. n /\ p[2] \in 0 .. Len(columns) - 1
    BY <1>2 DEF Cells
  <2>2. PICK r : r = picked[p[1] + 1]
    OBVIOUS
  <2>3. r \in 0 .. Len(rows) - 1 /\ lines[p[1] + 1] = rows[r + 1]
    BY <1>1, <2>1, <2>2
  <2>4. OneCell(view, r, p[2]) = rows[r + 1][p[2] + 1]
    BY <1>0, <2>1, <2>3
  <2>5. QED
    BY <1>3, <2>2, <2>3, <2>4 DEF At
<1>5. ASSUME NEW s \in Spans(n) PROVE shown.rows[s] = Texts(SubSeq(lines, s[1] + 1, s[1] + s[2]))
  <2>1. PICK texts : texts = [k \in 1 .. s[2] |-> OneRow(view, At(picked, s[1] + (k - 1)))]
    OBVIOUS
  <2>2. s[1] \in Nat /\ s[2] \in Nat /\ s[1] + s[2] <= n
    BY <1>2 DEF Spans
  <2>3. ASSUME NEW i \in 1 .. s[2] PROVE texts[i] = RowText(lines[s[1] + i])
    <3>1. s[1] + i \in 1 .. n /\ (s[1] + (i - 1)) + 1 = s[1] + i
      BY <1>2, <2>2
    <3>2. PICK r : r = picked[s[1] + i]
      OBVIOUS
    <3>3. r \in 0 .. Len(rows) - 1 /\ lines[s[1] + i] = rows[r + 1]
      BY <1>1, <3>1, <3>2
    <3>4. OneRow(view, r) = RowText(rows[r + 1])
      BY <1>0, <3>3
    <3>5. texts[i] = OneRow(view, r)
      BY <2>1, <3>1, <3>2 DEF At
    <3>6. QED
      BY <3>3, <3>4, <3>5
  <2>4. DOMAIN texts = 1 .. s[2] /\ texts = [i \in 1 .. s[2] |-> texts[i]]
    BY <2>1
  <2>5. Gather(texts) = Texts(SubSeq(lines, s[1] + 1, s[1] + s[2]))
    BY <1>1, <2>3, <2>4, GatherRows
  <2>6. QED
    BY <1>3, <2>1, <2>5
<1>6. QED
  BY <1>1, <1>3, <1>4, <1>5 DEF Faithful

\* A range, row by row.
LEMMA RangeIs ==
  ASSUME NEW w \in Nat \ {0}, NEW rows, AreRows(rows, w), NEW view, NEW columns, Faithful(view, columns, rows),
         NEW s \in 0 .. Len(rows) - 1, NEW range, range = Range0(view, s, Len(rows) - s)
  PROVE  Shows(range, SubSeq(rows, s + 1, Len(rows)), {p \in {q \in DOMAIN range.rows : q[1] < range.count} : p[2] = 1})
<1>0. \A r \in 0 .. Len(rows) - 1 : /\ OneRow(view, r) = RowText(rows[r + 1])
                                    /\ \A c \in 0 .. Len(columns) - 1 : /\ view.column[<<r, c>>] = rows[r + 1][c + 1]
                                                                        /\ OneCell(view, r, c) = rows[r + 1][c + 1]
  <2>1. \A r \in 0 .. Len(rows) - 1 : Given(view, columns, rows, r)
    BY OneOf
  <2>2. QED
    BY <2>1 DEF Given
<1>1. PICK n, k, lines : n = Len(rows) /\ k = n - s /\ lines = SubSeq(rows, s + 1, n)
  OBVIOUS
<1>2. n \in Nat /\ k \in Nat /\ s \in Nat /\ s + k = n /\ s <= n
  BY <1>1, LenProperties DEF AreRows
<1>3. lines \in Seq(Seq(Text)) /\ Len(lines) = k /\ \A i \in 1 .. k : lines[i] = rows[s + i]
  <2>1. PICK L : L = Seq(Text)
    OBVIOUS
  <2>2. rows \in Seq(L) /\ s \in Nat /\ n \in Nat /\ s <= n /\ n <= Len(rows)
    BY <1>1, <1>2, <2>1 DEF AreRows
  <2>3. /\ SubSeq(rows, s + 1, n) \in Seq(L) /\ Len(SubSeq(rows, s + 1, n)) = n - s
        /\ \A i \in 1 .. n - s : SubSeq(rows, s + 1, n)[i] = rows[s + i]
    BY ONLY <2>2, SpanOf
  <2>4. QED
    BY <1>1, <2>1, <2>3
<1>4. \A i \in 1 .. k : s + i \in 1 .. n /\ IsRow(lines[i], w)
  <2>1. \A i \in 1 .. k : s + i \in 1 .. n
    BY <1>2
  <2>2. QED
    BY <1>1, <1>3, <2>1 DEF AreRows
<1>5. AreRows(lines, w)
  BY <1>3, <1>4 DEF AreRows
<1>6. /\ range.columns = columns /\ range.count = k
      /\ range.column = [p \in Cells(k, columns) |-> OneCell(view, s + p[1], p[2])]
      /\ range.rows = [p \in Spans(k) |-> Gather([i \in 1 .. p[2] |-> OneRow(view, s + p[1])])]
  BY <1>1 DEF Range0, View, Collected, Gather, Faithful
<1>7. ASSUME NEW p \in DOMAIN range.column PROVE range.column[p] = lines[p[1] + 1][p[2] + 1]
  <2>1. p \in Cells(k, columns)
    BY <1>6
  <2>2. p[1] \in Nat /\ p[1] + 1 \in 1 .. k /\ p[2] \in 0 .. Len(columns) - 1
    BY <1>2, <2>1 DEF Cells
  <2>3. PICK r : r = s + p[1]
    OBVIOUS
  <2>4. r \in 0 .. Len(rows) - 1 /\ r + 1 = s + (p[1] + 1)
    <3>1. PICK a : a = p[1]
      OBVIOUS
    <3>2. a \in Nat /\ a + 1 \in 1 .. k /\ r = s + a /\ Len(rows) = n
      BY <1>1, <2>2, <2>3, <3>1
    <3>3. r \in 0 .. n - 1 /\ r + 1 = s + (a + 1)
      BY <1>2, <3>2
    <3>4. QED
      BY <3>1, <3>2, <3>3
  <2>5. OneCell(view, r, p[2]) = rows[r + 1][p[2] + 1]
    BY <1>0, <2>2, <2>4
  <2>6. QED
    BY <1>3, <1>6, <2>1, <2>2, <2>3, <2>4, <2>5
<1>8. ASSUME NEW p \in DOMAIN range.rows, p[1] < range.count, p[2] = 1
      PROVE  range.rows[p] = Texts(SubSeq(lines, p[1] + 1, p[1] + p[2]))
  <2>1. p \in Spans(k)
    BY <1>6
  <2>2. PICK texts : texts = [i \in 1 .. p[2] |-> OneRow(view, s + p[1])]
    OBVIOUS
  <2>3. p[1] \in Nat /\ p[1] + 1 \in 1 .. k
    BY <1>2, <1>6, <1>8, <2>1 DEF Spans
  <2>4. ASSUME NEW i \in 1 .. p[2] PROVE texts[i] = RowText(lines[p[1] + i])
    <3>1. i = 1
      BY <1>8
    <3>2. PICK r : r = s + p[1]
      OBVIOUS
    <3>3. r \in 0 .. Len(rows) - 1 /\ r + 1 = s + (p[1] + 1)
      <4>1. PICK a : a = p[1]
        OBVIOUS
      <4>2. a \in Nat /\ a + 1 <= k /\ r = s + a /\ Len(rows) = n
        BY <1>1, <2>3, <3>2, <4>1
      <4>3. r \in 0 .. n - 1 /\ r + 1 = s + (a + 1)
        BY <1>2, <4>2
      <4>4. QED
        BY <1>1, <4>1, <4>3
    <3>4. OneRow(view, r) = RowText(rows[r + 1])
      BY <1>0, <3>3
    <3>5. lines[p[1] + 1] = rows[r + 1]
      BY ONLY <1>3, <2>3, <3>3, SMTT(30)
    <3>6. QED
      BY <2>2, <3>1, <3>2, <3>4, <3>5
  <2>5. DOMAIN texts = 1 .. p[2] /\ texts = [i \in 1 .. p[2] |-> texts[i]]
    BY <2>2
  <2>6. Gather(texts) = Texts(SubSeq(lines, p[1] + 1, p[1] + p[2]))
    BY ONLY <1>3, <1>5, <2>1, <2>4, <2>5, GatherRows, ZenonT(40)
  <2>7. QED
    BY <1>6, <2>1, <2>2, <2>6
<1>9. QED
  BY <1>1, <1>3, <1>6, <1>7, <1>8 DEF Shows

\* Where the tables of a joined table start.
LEMMA StartsAre ==
  ASSUME NEW view, NEW n \in Nat, view.count = n
  PROVE  /\ Starts(<<view, view>>)[0] = 0 /\ Starts(<<view, view>>)[1] = n
         /\ Starts(<<view, view>>)[2] = n + n
<1>1. PICK sources, g : /\ sources = <<view, view>>
                        /\ g = [i \in 0 .. 2 |-> IF i = 0 THEN 0 ELSE IF i = 1 THEN n ELSE n + n]
  OBVIOUS
<1>2. Len(sources) = 2 /\ sources[1] = view /\ sources[2] = view
  BY <1>1
<1>3. \A i \in 0 .. 2 : g[i] = IF i = 0 THEN 0 ELSE g[i - 1] + sources[i].count
  <2>1. g[0] = 0 /\ g[1] = n /\ g[2] = n + n
    BY <1>1
  <2>2. \A i \in 0 .. 2 : i = 0 \/ i = 1 \/ i = 2
    OBVIOUS
  <2>3. QED
    BY <1>2, <2>1, <2>2
<1>4. g = [i \in 0 .. 2 |-> IF i = 0 THEN 0 ELSE g[i - 1] + sources[i].count]
  <2>1. g = [i \in 0 .. 2 |-> g[i]]
    BY <1>1
  <2>2. QED
    BY <1>3, <2>1
<1>5. PICK before : before = CHOOSE f : f = [i \in 0 .. 2 |-> IF i = 0 THEN 0 ELSE f[i - 1] + sources[i].count]
  OBVIOUS
<1>6. before = [i \in 0 .. 2 |-> IF i = 0 THEN 0 ELSE before[i - 1] + sources[i].count]
  BY <1>4, <1>5
<1>7. Starts(sources) = before
  BY <1>2, <1>5 DEF Starts
<1>8. before[0] = 0 /\ before[1] = before[0] + n /\ before[2] = before[1] + n
  BY <1>2, <1>6
<1>9. QED
  BY <1>1, <1>7, <1>8

\* The source and the row of it that a row of a joined table is.
LEMMA RelativeIs ==
  ASSUME NEW view, NEW n \in Nat, view.count = n, NEW row \in 0 .. (n + n) - 1
  PROVE  Relative(<<view, view>>, row) = IF row < n THEN <<1, row>> ELSE <<2, row - n>>
<1>1. PICK sources, starts, i :
        /\ sources = <<view, view>> /\ starts = Starts(sources)
        /\ i = CHOOSE k \in DOMAIN sources : row >= starts[k - 1] /\ row < starts[k]
  OBVIOUS
<1>2. starts[0] = 0 /\ starts[1] = n /\ starts[2] = n + n /\ Len(sources) = 2 /\ DOMAIN sources = {1, 2}
  <2>1. DOMAIN sources = 1 .. 2 /\ Len(sources) = 2
    BY <1>1
  <2>2. QED
    BY <1>1, <2>1, StartsAre
<1>3. i = IF row < n THEN 1 ELSE 2
  <2>1. ASSUME NEW k \in {1, 2} PROVE (row >= starts[k - 1] /\ row < starts[k]) <=> k = IF row < n THEN 1 ELSE 2
    BY <1>2
  <2>2. (IF row < n THEN 1 ELSE 2) \in {1, 2}
    OBVIOUS
  <2>3. QED
    BY <1>1, <1>2, <2>1, <2>2
<1>4. ~(row >= starts[Len(sources)])
  BY <1>2
<1>5. Relative(sources, row) = <<i, row - starts[i - 1]>>
  BY <1>1, <1>4 DEF Relative
<1>6. row - starts[i - 1] = IF row < n THEN row ELSE row - n
  BY <1>2, <1>3
<1>7. QED
  BY <1>1, <1>3, <1>5, <1>6

\* The same rows twice.
LEMMA RowsTwice ==
  ASSUME NEW w \in Nat \ {0}, NEW rows, AreRows(rows, w)
  PROVE  /\ AreRows(rows \o rows, w) /\ Len(rows \o rows) = Len(rows) + Len(rows)
         /\ \A i \in 1 .. Len(rows) + Len(rows) :
              (rows \o rows)[i] = IF i <= Len(rows) THEN rows[i] ELSE rows[i - Len(rows)]
<1>1. PICK n, lines : n = Len(rows) /\ lines = rows \o rows
  OBVIOUS
<1>2. n \in Nat
  BY <1>1, LenProperties DEF AreRows
<1>3. lines \in Seq(Seq(Text)) /\ Len(lines) = n + n /\ \A i \in 1 .. n + n : lines[i] = IF i <= n THEN rows[i] ELSE rows[i - n]
  <2>1. PICK L : L = Seq(Text)
    OBVIOUS
  <2>2. rows \in Seq(L)
    BY <2>1 DEF AreRows
  <2>3. /\ rows \o rows \in Seq(L) /\ Len(rows \o rows) = Len(rows) + Len(rows)
        /\ \A i \in 1 .. Len(rows) + Len(rows) : (rows \o rows)[i] = IF i <= Len(rows) THEN rows[i] ELSE rows[i - Len(rows)]
    BY <2>2, ConcatProperties
  <2>4. QED
    BY <1>1, <2>1, <2>3
<1>4. AreRows(lines, w)
  <2>1. ASSUME NEW i \in 1 .. n + n PROVE IsRow(lines[i], w)
    <3>1. i <= n => i \in 1 .. n
      BY <1>2
    <3>2. ~(i <= n) => i - n \in 1 .. n
      BY <1>2
    <3>3. QED
      BY <1>1, <1>3, <3>1, <3>2 DEF AreRows
  <2>2. QED
    BY <1>3, <2>1 DEF AreRows
<1>5. QED
  BY <1>1, <1>3, <1>4

\* A table joined with itself.
LEMMA JoinedIs ==
  ASSUME NEW w \in Nat \ {0}, NEW rows, AreRows(rows, w), NEW view, NEW columns, Faithful(view, columns, rows)
  PROVE  /\ AreRows(rows \o rows, w) /\ Len(rows \o rows) = Len(rows) + Len(rows)
         /\ Faithful(Joined(<<view, view>>), columns, rows \o rows)
<1>0. \A r \in 0 .. Len(rows) - 1 : /\ OneRow(view, r) = RowText(rows[r + 1])
                                    /\ \A c \in 0 .. Len(columns) - 1 : /\ view.column[<<r, c>>] = rows[r + 1][c + 1]
                                                                        /\ OneCell(view, r, c) = rows[r + 1][c + 1]
  <2>1. \A r \in 0 .. Len(rows) - 1 : Given(view, columns, rows, r)
    BY OneOf
  <2>2. QED
    BY <2>1 DEF Given
<1>1. PICK n, lines, sources, shown :
        n = Len(rows) /\ lines = rows \o rows /\ sources = <<view, view>> /\ shown = Joined(sources)
  OBVIOUS
<1>2. n \in Nat /\ view.count = n /\ view.columns = columns
  BY <1>1, LenProperties DEF AreRows, Faithful
<1>3. /\ lines \in Seq(Seq(Text)) /\ Len(lines) = n + n
      /\ \A i \in 1 .. n + n : lines[i] = IF i <= n THEN rows[i] ELSE rows[i - n]
  BY <1>1, RowsTwice DEF AreRows
<1>4. AreRows(lines, w)
  BY <1>1, RowsTwice
<1>5. sources[1] = view /\ sources[2] = view /\ Starts(sources)[Len(sources)] = n + n
  BY <1>1, <1>2, StartsAre
<1>6. ~\E s \in ToSet(sources) : Len(s.columns) # Len(sources[1].columns)
  <2>1. DOMAIN sources = 1 .. 2
    BY <1>1
  <2>2. \A i \in DOMAIN sources : sources[i] = view
    BY <1>5, <2>1
  <2>3. QED
    BY <1>5, <2>2 DEF ToSet
<1> DEFINE In(row) == Relative(sources, row)
           Line(row) == OneRow(sources[In(row)[1]], In(row)[2])
<1>7. /\ shown.columns = columns /\ shown.count = n + n
      /\ shown.column = [p \in Cells(n + n, columns) |-> sources[In(p[1])[1]].column[<<In(p[1])[2], p[2]>>]]
      /\ shown.rows = [p \in Spans(n + n) |-> Gather([k \in 1 .. p[2] |-> Line(p[1] + (k - 1))])]
  BY <1>1, <1>2, <1>5, <1>6 DEF Joined, View, Collected, Gather
<1>8. ASSUME NEW row \in 0 .. (n + n) - 1
      PROVE  \E r \in 0 .. n - 1 : sources[In(row)[1]] = view /\ In(row)[2] = r /\ lines[row + 1] = rows[r + 1]
  <2>1. In(row) = IF row < n THEN <<1, row>> ELSE <<2, row - n>>
    BY <1>1, <1>2, RelativeIs
  <2>2. row + 1 \in 1 .. n + n
    BY <1>2
  <2>3. CASE row < n
    <3>1. In(row)[1] = 1 /\ In(row)[2] = row
      BY <2>1, <2>3
    <3>2. row \in 0 .. n - 1 /\ row + 1 <= n
      BY <1>2, <2>3
    <3>3. QED
      BY <1>3, <1>5, <2>2, <3>1, <3>2
  <2>4. CASE ~(row < n)
    <3>1. In(row)[1] = 2 /\ In(row)[2] = row - n
      BY <2>1, <2>4
    <3>2. row - n \in 0 .. n - 1 /\ ~(row + 1 <= n) /\ (row + 1) - n = (row - n) + 1
      BY <1>2, <2>4
    <3>3. QED
      BY <1>3, <1>5, <2>2, <3>1, <3>2
  <2>5. QED
    BY <2>3, <2>4
<1>9. ASSUME NEW p \in Cells(n + n, columns) PROVE shown.column[p] = lines[p[1] + 1][p[2] + 1]
  <2>1. p[1] \in 0 .. (n + n) - 1 /\ p[2] \in 0 .. Len(columns) - 1
    BY DEF Cells
  <2>2. PICK r \in 0 .. n - 1 : sources[In(p[1])[1]] = view /\ In(p[1])[2] = r /\ lines[p[1] + 1] = rows[r + 1]
    BY <1>8, <2>1
  <2>3. view.column[<<r, p[2]>>] = rows[r + 1][p[2] + 1]
    BY <1>0, <1>1, <2>1
  <2>4. QED
    BY <1>7, <2>2, <2>3
<1>10. ASSUME NEW s \in Spans(n + n) PROVE shown.rows[s] = Texts(SubSeq(lines, s[1] + 1, s[1] + s[2]))
  <2>1. PICK texts : texts = [k \in 1 .. s[2] |-> Line(s[1] + (k - 1))]
    OBVIOUS
  <2>2. s[1] \in Nat /\ s[2] \in Nat /\ s[1] + s[2] <= n + n
    BY <1>2 DEF Spans
  <2>3. ASSUME NEW i \in 1 .. s[2] PROVE texts[i] = RowText(lines[s[1] + i])
    <3>1. PICK row : row = s[1] + (i - 1)
      OBVIOUS
    <3>2. row \in 0 .. (n + n) - 1 /\ row + 1 = s[1] + i
      BY <1>2, <2>2, <3>1
    <3>3. PICK r \in 0 .. n - 1 : sources[In(row)[1]] = view /\ In(row)[2] = r /\ lines[row + 1] = rows[r + 1]
      BY <1>8, <3>2
    <3>4. OneRow(view, r) = RowText(rows[r + 1])
      BY <1>0, <1>1
    <3>5. texts[i] = OneRow(view, r)
      BY <2>1, <3>1, <3>3
    <3>6. QED
      BY <3>2, <3>3, <3>4, <3>5
  <2>4. DOMAIN texts = 1 .. s[2] /\ texts = [i \in 1 .. s[2] |-> texts[i]]
    BY <2>1
  <2>5. Gather(texts) = Texts(SubSeq(lines, s[1] + 1, s[1] + s[2]))
    BY <1>3, <1>4, <2>3, <2>4, GatherRows
  <2>6. QED
    BY <1>7, <2>1, <2>5
<1>11. QED
  BY <1>1, <1>3, <1>4, <1>7, <1>9, <1>10 DEF Faithful

\* A row twice, side by side.
Doubled(w, row, wide) ==
  /\ w + w \in Nat \ {0} /\ IsRow(wide, w + w) /\ Len(wide) = w + w /\ DOMAIN wide = 1 .. w + w
  /\ \A c \in 1 .. w + w : wide[c] = IF c <= w THEN row[c] ELSE row[c - w]

\* A row beside itself.
LEMMA WideRow ==
  ASSUME NEW w \in Nat \ {0}, NEW row, IsRow(row, w), NEW wide, wide = row \o row
  PROVE  Doubled(w, row, wide)
<1>1. row \in Seq(Text) /\ Len(row) = w
  BY DEF IsRow
<1>2. wide \in Seq(Text) /\ Len(wide) = w + w /\ \A c \in 1 .. w + w : wide[c] = IF c <= w THEN row[c] ELSE row[c - w]
  <2>1. /\ row \o row \in Seq(Text) /\ Len(row \o row) = Len(row) + Len(row)
        /\ \A c \in 1 .. Len(row) + Len(row) : (row \o row)[c] = IF c <= Len(row) THEN row[c] ELSE row[c - Len(row)]
    BY <1>1, ConcatProperties
  <2>2. QED
    BY <1>1, <2>1
<1>3. ASSUME NEW c \in 1 .. w + w PROVE IsCell(wide[c])
  <2>1. c <= w => c \in 1 .. w
    OBVIOUS
  <2>2. ~(c <= w) => c - w \in 1 .. w
    OBVIOUS
  <2>3. QED
    BY <1>2, <2>1, <2>2 DEF IsRow
<1>4. DOMAIN wide = 1 .. w + w
  BY <1>2, LenProperties
<1>5. QED
  BY <1>2, <1>3, <1>4 DEF IsRow, Doubled

\* The columns of a table twice, side by side.
LEMMA RefsAre ==
  ASSUME NEW view, NEW w \in Nat, DOMAIN view.columns = 1 .. w, NEW refs, refs = ColRefs(<<view, view>>)
  PROVE  /\ Len(refs) = w + w /\ DOMAIN refs = 1 .. w + w
         /\ \A i \in 1 .. w + w : refs[i] = IF i <= w THEN <<1, i - 1>> ELSE <<2, (i - w) - 1>>
<1>1. PICK tables, a, b, P :
        /\ tables = <<view, view>> /\ a = [c \in 1 .. w |-> <<1, c - 1>>] /\ b = [c \in 1 .. w |-> <<2, c - 1>>]
        /\ P = Nat \X Nat
  OBVIOUS
<1>2. a \in Seq(P) /\ Len(a) = w
  <2>1. a \in [1 .. w -> P]
    BY <1>1
  <2>2. QED
    BY <2>1, FunctionIsSeq
<1>3. b \in Seq(P) /\ Len(b) = w
  <2>1. b \in [1 .. w -> P]
    BY <1>1
  <2>2. QED
    BY <2>1, FunctionIsSeq
<1>4. [t \in DOMAIN tables |-> [c \in DOMAIN tables[t].columns |-> <<t, c - 1>>]] = <<a, b>>
  <2>1. DOMAIN tables = 1 .. 2 /\ tables[1] = view /\ tables[2] = view
    BY <1>1
  <2>2. [t \in 1 .. 2 |-> [c \in DOMAIN tables[t].columns |-> <<t, c - 1>>]] = [t \in 1 .. 2 |-> IF t = 1 THEN a ELSE b]
    <3>1. ASSUME NEW t \in 1 .. 2
          PROVE  [c \in DOMAIN tables[t].columns |-> <<t, c - 1>>] = IF t = 1 THEN a ELSE b
      <4>1. CASE t = 1
        BY <1>1, <2>1, <4>1
      <4>2. CASE t = 2
        BY <1>1, <2>1, <4>2
      <4>3. QED
        BY <4>1, <4>2
    <3>2. QED
      BY <3>1
  <2>3. [t \in 1 .. 2 |-> IF t = 1 THEN a ELSE b] = <<a, b>>
    OBVIOUS
  <2>4. QED
    BY <2>1, <2>2, <2>3
<1>5. refs = FlattenSeq(<<a, b>>)
  BY <1>1, <1>4 DEF ColRefs
<1>6. FlattenSeq(<<a, b>>) = a \o b
  <2>1. PICK one : one = <<a>>
    OBVIOUS
  <2>2. one \in Seq(Seq(P)) /\ <<a, b>> = Append(one, b)
    BY <1>2, <2>1
  <2>3. FlattenSeq(Append(one, b)) = FlattenSeq(one) \o b
    BY <1>3, <2>2, FlattenAppend
  <2>4. FlattenSeq(one) = a
    BY <1>2, <2>1, FlattenOneSeq
  <2>5. QED
    BY <2>2, <2>3, <2>4
<1>7. refs \in Seq(P) /\ Len(refs) = w + w /\ \A i \in 1 .. w + w : refs[i] = IF i <= w THEN a[i] ELSE b[i - w]
  <2>1. /\ a \o b \in Seq(P) /\ Len(a \o b) = Len(a) + Len(b)
        /\ \A i \in 1 .. Len(a) + Len(b) : (a \o b)[i] = IF i <= Len(a) THEN a[i] ELSE b[i - Len(a)]
    BY <1>2, <1>3, ConcatProperties
  <2>2. QED
    BY <1>2, <1>3, <1>5, <1>6, <2>1
<1>8. ASSUME NEW i \in 1 .. w + w PROVE refs[i] = IF i <= w THEN <<1, i - 1>> ELSE <<2, (i - w) - 1>>
  <2>1. i <= w => i \in 1 .. w
    OBVIOUS
  <2>2. ~(i <= w) => i - w \in 1 .. w
    OBVIOUS
  <2>3. QED
    BY <1>1, <1>7, <2>1, <2>2
<1>9. DOMAIN refs = 1 .. w + w
  BY <1>7, LenProperties
<1>10. QED
  BY <1>7, <1>8, <1>9

\* A table extended by itself.
LEMMA ExtendedIs ==
  ASSUME NEW w \in Nat \ {0}, NEW rows, AreRows(rows, w), NEW view, NEW columns, Faithful(view, columns, rows),
         Len(columns) = w, DOMAIN columns = 1 .. w,
         NEW lines, lines = [r \in 1 .. Len(rows) |-> rows[r] \o rows[r]]
  PROVE  \E wide : Faithful(Extended(<<view, view>>), wide, lines)
<1>0. \A r \in 0 .. Len(rows) - 1 : \A c \in 0 .. Len(columns) - 1 : view.column[<<r, c>>] = rows[r + 1][c + 1]
  <2>1. \A r \in 0 .. Len(rows) - 1 : Given(view, columns, rows, r)
    BY OneOf
  <2>2. QED
    BY <2>1 DEF Given
<1>1. PICK n, W, tables, shown :
        n = Len(rows) /\ W = w + w /\ tables = <<view, view>> /\ shown = Extended(tables)
  OBVIOUS
<1> DEFINE refs == ColRefs(tables)
<1> HIDE DEF refs
<1>2. n \in Nat /\ W \in Nat \ {0} /\ view.count = n /\ view.columns = columns
  BY <1>1, LenProperties DEF AreRows, Faithful
<1>3. tables[1] = view /\ tables[2] = view /\ ~\E t \in ToSet(tables) : t.count # tables[1].count
  <2>1. DOMAIN tables = 1 .. 2 /\ tables[1] = view /\ tables[2] = view
    BY <1>1
  <2>2. \A i \in DOMAIN tables : tables[i] = view
    BY <2>1
  <2>3. QED
    BY <2>1, <2>2 DEF ToSet
<1>4. /\ Len(refs) = W /\ DOMAIN refs = 1 .. W
      /\ \A i \in 1 .. W : refs[i] = IF i <= w THEN <<1, i - 1>> ELSE <<2, (i - w) - 1>>
  <2>1. DOMAIN view.columns = 1 .. w
    BY <1>2
  <2>2. QED
    BY <1>1, <2>1, RefsAre DEF refs
<1>5. \A r \in 1 .. n : IsRow(rows[r], w)
  BY <1>1 DEF AreRows
<1>6. /\ \A r \in 1 .. n : /\ IsRow(lines[r], W) /\ Len(lines[r]) = W /\ DOMAIN lines[r] = 1 .. W
                           /\ \A c \in 1 .. W : lines[r][c] = IF c <= w THEN rows[r][c] ELSE rows[r][c - w]
      /\ AreRows(lines, W) /\ Len(lines) = n
  <2>1. ASSUME NEW r \in 1 .. n
        PROVE  /\ IsRow(lines[r], W) /\ Len(lines[r]) = W /\ DOMAIN lines[r] = 1 .. W
               /\ \A c \in 1 .. W : lines[r][c] = IF c <= w THEN rows[r][c] ELSE rows[r][c - w]
    <3>1. PICK row, both : row = rows[r] /\ both = lines[r]
      OBVIOUS
    <3>2. both = row \o row /\ IsRow(row, w)
      BY <1>1, <1>5, <3>1
    <3>3. /\ IsRow(both, w + w) /\ Len(both) = w + w /\ DOMAIN both = 1 .. w + w
          /\ \A c \in 1 .. w + w : both[c] = IF c <= w THEN row[c] ELSE row[c - w]
      <4>1. \A x : IsRow(x, w) => Doubled(w, x, x \o x)
        BY WideRow
      <4>2. QED
        BY <3>2, <4>1 DEF Doubled
    <3>4. QED
      BY <1>1, <3>1, <3>3
  <2>2. lines \in Seq(Seq(Text)) /\ Len(lines) = n
    <3>1. \A r \in 1 .. n : lines[r] \in Seq(Text)
      BY <2>1 DEF IsRow
    <3>2. PICK L : L = Seq(Text)
      OBVIOUS
    <3>3. lines \in [1 .. n -> L]
      BY <1>1, <3>1, <3>2
    <3>4. QED
      BY <1>2, <3>2, <3>3, FunctionIsSeq
  <2>3. QED
    BY <2>1, <2>2 DEF AreRows
<1> DEFINE Cell(r, c) == tables[At(refs, c)[1]].column[<<r, At(refs, c)[2]>>]
           Part(r, c) == IF Cell(r, c) \in Faults THEN Cell(r, c)
                         ELSE Append(Cell(r, c), IF c = Len(refs) - 1 THEN NL ELSE Tab)
           Line(r) == Gather([c \in 1 .. Len(refs) |-> Part(r, c - 1)])
           wide == [k \in DOMAIN refs |-> tables[refs[k][1]].columns[refs[k][2] + 1]]
<1>8. Len(wide) = W
  <2>1. PICK S : S = {wide[k] : k \in 1 .. W}
    OBVIOUS
  <2>2. wide \in [1 .. W -> S]
    BY <1>4, <2>1
  <2>3. QED
    BY <1>2, <2>2, FunctionIsSeq
<1>9. /\ shown.columns = wide /\ shown.count = n
      /\ shown.column = [p \in Cells(n, wide) |-> Cell(p[1], p[2])]
      /\ shown.rows = [p \in Spans(n) |-> Gather([k \in 1 .. p[2] |-> Line(p[1] + (k - 1))])]
  BY <1>1, <1>2, <1>3 DEF Extended, View, Collected, Gather, refs
<1> HIDE DEF wide
<1>10. ASSUME NEW r \in 0 .. n - 1, NEW c \in 0 .. W - 1 PROVE Cell(r, c) = lines[r + 1][c + 1]
  <2>1. c + 1 \in 1 .. W /\ r + 1 \in 1 .. n
    BY <1>2
  <2>2. CASE c + 1 <= w
    <3>1. At(refs, c)[1] = 1 /\ At(refs, c)[2] = c
      BY <1>4, <2>1, <2>2 DEF At
    <3>2. c \in 0 .. Len(columns) - 1
      BY <1>2, <2>2
    <3>3. view.column[<<r, c>>] = rows[r + 1][c + 1]
      BY <1>0, <1>1, <3>2
    <3>4. lines[r + 1][c + 1] = rows[r + 1][c + 1]
      BY <1>6, <2>1, <2>2
    <3>5. QED
      BY <1>3, <3>1, <3>3, <3>4
  <2>3. CASE ~(c + 1 <= w)
    <3>1. PICK d : d = ((c + 1) - w) - 1
      OBVIOUS
    <3>2. At(refs, c)[1] = 2 /\ At(refs, c)[2] = d
      BY <1>4, <2>1, <2>3, <3>1 DEF At
    <3>3. d \in 0 .. Len(columns) - 1 /\ d + 1 = (c + 1) - w
      BY <1>1, <1>2, <2>3, <3>1
    <3>4. view.column[<<r, d>>] = rows[r + 1][d + 1]
      BY <1>0, <1>1, <3>3
    <3>5. lines[r + 1][c + 1] = rows[r + 1][d + 1]
      BY <1>6, <2>1, <2>3, <3>3
    <3>6. QED
      BY <1>3, <3>2, <3>4, <3>5
  <2>4. QED
    BY <2>2, <2>3
<1> HIDE DEF Cell
<1>11. ASSUME NEW r \in 0 .. n - 1 PROVE Line(r) = RowText(lines[r + 1])
  <2>1. PICK row, parts : row = lines[r + 1] /\ parts = [c \in 1 .. Len(refs) |-> Part(r, c - 1)]
    OBVIOUS
  <2>2. IsRow(row, W) /\ Len(row) = W /\ DOMAIN row = 1 .. W
    <3>1. r + 1 \in 1 .. n
      BY <1>2
    <3>2. QED
      BY <1>6, <2>1, <3>1
  <2>3. ASSUME NEW c \in 1 .. W PROVE Part(r, c - 1) = row[c] \o <<IF c = Len(row) THEN NL ELSE Tab>>
    <3>1. c - 1 \in 0 .. W - 1 /\ (c - 1) + 1 = c /\ (c - 1 = W - 1 <=> c = W)
      BY <1>2
    <3>2. PICK v, s : v = row[c] /\ s = IF c = W THEN NL ELSE Tab
      OBVIOUS
    <3>3. Cell(r, c - 1) = v
      BY <1>10, <2>1, <3>1, <3>2
    <3>4. v \in Text
      BY <2>2, <3>2 DEF IsRow, IsCell
    <3>5. v \notin Faults /\ v \in Seq(Characters) /\ s \in Characters
      BY <3>2, <3>4, NoFault, Letters DEF Text
    <3>6. Append(v, s) = v \o <<s>>
      BY <3>5, AppendIsConcat
    <3>7. QED
      BY <1>4, <2>2, <3>1, <3>2, <3>3, <3>5, <3>6
  <2> HIDE DEF Part
  <2>4. parts = PiecesOf(row)
    <3>1. PiecesOf(row) = [c \in 1 .. W |-> row[c] \o <<IF c = Len(row) THEN NL ELSE Tab>>]
      BY <2>2 DEF PiecesOf
    <3>2. QED
      BY ONLY <1>4, <2>1, <2>3, <3>1, ZenonT(40)
  <2>5. PiecesOf(row) \in Seq(Text) /\ FlattenSeq(PiecesOf(row)) = RowText(row)
    BY <1>2, <2>2, PiecesOfRow
  <2>6. Gather(parts) = RowText(row)
    BY <2>4, <2>5, GatherTexts
  <2>7. QED
    BY <2>1, <2>6
<1>12. ASSUME NEW p \in Cells(n, wide) PROVE shown.column[p] = lines[p[1] + 1][p[2] + 1]
  <2>1. p[1] \in 0 .. n - 1 /\ p[2] \in 0 .. W - 1
    BY <1>8 DEF Cells
  <2>2. Cell(p[1], p[2]) = lines[p[1] + 1][p[2] + 1]
    BY <1>10, <2>1
  <2>3. QED
    BY <1>9, <2>2
<1> HIDE DEF Line
<1>13. ASSUME NEW s \in Spans(n) PROVE shown.rows[s] = Texts(SubSeq(lines, s[1] + 1, s[1] + s[2]))
  <2>1. PICK texts : texts = [k \in 1 .. s[2] |-> Line(s[1] + (k - 1))]
    OBVIOUS
  <2>2. s[1] \in Nat /\ s[2] \in Nat /\ s[1] + s[2] <= n
    BY <1>2 DEF Spans
  <2>3. ASSUME NEW i \in 1 .. s[2] PROVE texts[i] = RowText(lines[s[1] + i])
    <3>1. PICK row : row = s[1] + (i - 1)
      OBVIOUS
    <3>2. row \in 0 .. n - 1 /\ row + 1 = s[1] + i
      BY ONLY <1>2, <2>2, <3>1, SMTT(30)
    <3>3. QED
      BY <1>11, <2>1, <3>1, <3>2
  <2>4. DOMAIN texts = 1 .. s[2] /\ texts = [i \in 1 .. s[2] |-> texts[i]]
    BY <2>1
  <2>5. Gather(texts) = Texts(SubSeq(lines, s[1] + 1, s[1] + s[2]))
    BY ONLY <1>2, <1>6, <2>3, <2>4, GatherRows, ZenonT(40)
  <2>6. QED
    BY <1>9, <2>1, <2>5
<1>14. Faithful(shown, wide, lines)
  BY <1>6, <1>9, <1>12, <1>13 DEF Faithful
<1>15. QED
  BY <1>1, <1>14

\* The rows of a table and then the same rows again, the last first.
LEMMA BackwardsIs ==
  ASSUME NEW w \in Nat \ {0}, NEW rows, AreRows(rows, w), NEW view, NEW columns,
         Faithful(view, columns, rows \o rows)
  PROVE  Faithful(Splitted(view, [k \in 1 .. 2 * Len(rows) |-> 2 * Len(rows) - k]), columns,
                  Reverse(rows) \o Reverse(rows))
<1>1. PICK n, both, picked, back, lines :
        /\ n = Len(rows) /\ both = rows \o rows /\ picked = [k \in 1 .. 2 * n |-> 2 * n - k]
        /\ back = Reverse(rows) /\ lines = back \o back
  OBVIOUS
<1>2. n \in Nat
  BY <1>1, LenProperties DEF AreRows
<1>3. PICK N : N = n + n
  OBVIOUS
<1>4. N \in Nat /\ 2 * n = N
  BY <1>2, <1>3
<1>5. picked = [k \in 1 .. N |-> N - k]
  BY <1>1, <1>4
<1>6. Len(picked) = N /\ \A k \in 1 .. N : picked[k] = N - k
  <2>1. picked \in [1 .. N -> Nat]
    BY <1>4, <1>5
  <2>2. QED
    BY <1>4, <1>5, <2>1, FunctionIsSeq
<1>7. PICK L : L = Seq(Text)
  OBVIOUS
<1>8. rows \in Seq(L) /\ Len(rows) = n
  BY <1>1, <1>7 DEF AreRows
<1>9. AreRows(both, w) /\ Len(both) = N /\ \A i \in 1 .. N : both[i] = IF i <= n THEN rows[i] ELSE rows[i - n]
  BY <1>1, <1>3, <1>8, RowsTwice
<1>10. back \in Seq(L) /\ Len(back) = n /\ \A i \in 1 .. n : back[i] = rows[(n - i) + 1]
  <2>1. back = [i \in 1 .. n |-> rows[(n - i) + 1]]
    BY <1>1, <1>8 DEF Reverse
  <2>2. \A i \in 1 .. n : rows[(n - i) + 1] \in L
    <3>1. ASSUME NEW i \in 1 .. n PROVE rows[(n - i) + 1] \in L
      <4>1. (n - i) + 1 \in 1 .. n
        BY <1>2
      <4>2. QED
        BY <1>8, <4>1, ElementOfSeq
    <3>2. QED
      BY <3>1
  <2>3. back \in [1 .. n -> L]
    BY <2>1, <2>2
  <2>4. QED
    BY <1>2, <2>1, <2>3, FunctionIsSeq
<1>11. AreRows(back, w)
  <2>1. ASSUME NEW i \in 1 .. n PROVE IsRow(back[i], w)
    <3>1. (n - i) + 1 \in 1 .. Len(rows)
      BY <1>2, <1>8
    <3>2. IsRow(rows[(n - i) + 1], w)
      BY <3>1 DEF AreRows
    <3>3. QED
      BY <1>10, <3>2
  <2>2. QED
    BY <1>7, <1>10, <2>1 DEF AreRows
<1>12. AreRows(lines, w) /\ Len(lines) = N /\ \A i \in 1 .. N : lines[i] = IF i <= n THEN back[i] ELSE back[i - n]
  <2>1. /\ AreRows(back \o back, w) /\ Len(back \o back) = Len(back) + Len(back)
        /\ \A i \in 1 .. Len(back) + Len(back) : (back \o back)[i] = IF i <= Len(back) THEN back[i] ELSE back[i - Len(back)]
    BY ONLY w \in Nat \ {0}, <1>11, RowsTwice
  <2>2. QED
    BY <1>1, <1>3, <1>10, <2>1
<1>13. ASSUME NEW i \in 1 .. N PROVE picked[i] \in 0 .. N - 1 /\ lines[i] = both[picked[i] + 1]
  <2>1. PICK p : p = N - i
    OBVIOUS
  <2>2. picked[i] = p /\ p \in 0 .. N - 1 /\ p + 1 \in 1 .. N
    BY <1>4, <1>6, <2>1
  <2>3. CASE i <= n
    <3>1. i \in 1 .. n /\ ~(p + 1 <= n) /\ (p + 1) - n = (n - i) + 1
      BY <1>2, <1>3, <2>1, <2>3
    <3>2. lines[i] = rows[(n - i) + 1]
      BY <1>10, <1>12, <2>3, <3>1
    <3>3. QED
      BY <1>9, <2>2, <3>1, <3>2
  <2>4. CASE ~(i <= n)
    <3>1. i - n \in 1 .. n /\ p + 1 <= n /\ p + 1 = (n - (i - n)) + 1
      BY <1>2, <1>3, <2>1, <2>4
    <3>2. lines[i] = rows[(n - (i - n)) + 1]
      BY <1>10, <1>12, <2>4, <3>1
    <3>3. QED
      BY <1>9, <2>2, <3>1, <3>2
  <2>5. QED
    BY <2>2, <2>3, <2>4
<1>14. Faithful(view, columns, both)
  BY <1>1
<1>15. Faithful(Splitted(view, picked), columns, lines)
  <2>1. \A i \in 1 .. Len(lines) : picked[i] \in 0 .. Len(both) - 1 /\ lines[i] = both[picked[i] + 1]
    BY <1>9, <1>12, <1>13
  <2>2. Len(picked) = Len(lines)
    BY <1>6, <1>12
  <2>3. QED
    BY ONLY w \in Nat \ {0}, <1>9, <1>12, <1>14, <2>1, <2>2, SplittedIs
<1>16. QED
  BY <1>1, <1>15

\* Tables of different row counts are not set side by side.
LEMMA ExtendedThrows ==
  ASSUME NEW view, NEW other, view.count # other.count
  PROVE  Extended(<<view, other>>) = Throws
<1>1. PICK tables : tables = <<view, other>>
  OBVIOUS
<1>2. DOMAIN tables = 1 .. 2 /\ tables[1] = view /\ tables[2] = other
  BY <1>1
<1>3. \E t \in ToSet(tables) : t.count # tables[1].count
  BY <1>2 DEF ToSet
<1>4. QED
  BY <1>1, <1>3 DEF Extended

\* What the table is when its index is the one of its text.
Sound(e, pieces) == Sheet(table.data, written, e, pieces, Width) /\ table = Indexed(table.data, written, e)

\* All the views of a table whose index is that of its text.
LEMMA ViewsAreShown ==
  ASSUME NEW e, NEW pieces, Sound(e, pieces)
  PROVE  ViewsShow
<1> DEFINE view == AsView(table)
           n == table.count
           twice == Joined(<<view, view>>)
           backwards == Splitted(twice, [k \in 1 .. 2 * n |-> 2 * n - k])
           wide == Extended(<<view, view>>)
           Everything(v) == {s \in DOMAIN v.rows : s[1] < v.count}
           Part(s) == Range0(view, s, n - s)
           lines == [r \in 1 .. n |-> written[r] \o written[r]]
<1>1. AreRows(written, Width) /\ Faithful(view, Columns, written)
  <2>1. PICK data : data = table.data
    OBVIOUS
  <2>2. Sheet(data, written, e, pieces, Width) /\ table = Indexed(data, written, e)
    BY <2>1 DEF Sound
  <2>3. AreRows(written, Width) /\ Faithful(AsView(Indexed(data, written, e)), Columns, written)
    BY ONLY <2>2, AsViewIs
  <2>4. QED
    BY <2>2, <2>3
<1>2. n = Len(written) /\ n \in Nat /\ view.count = n
  <2>1. table.count = Len(written)
    BY DEF Sound, Indexed
  <2>2. Len(written) \in Nat
    BY <1>1, LenProperties DEF AreRows
  <2>3. view.count = Len(written)
    BY <1>1 DEF Faithful
  <2>4. QED
    BY <2>1, <2>2, <2>3
<1>3. Width \in Nat \ {0} /\ DOMAIN Columns = 1 .. Width /\ Len(Columns) = Width
  BY WidthIs DEF Width
<1> HIDE DEF view
<1>4. Faithful(twice, Columns, written \o written) /\ Len(written \o written) = n + n
  BY <1>1, <1>2, <1>3, JoinedIs
<1> HIDE DEF twice
<1>5. Faithful(backwards, Columns, Reverse(written) \o Reverse(written))
  BY <1>1, <1>2, <1>3, <1>4, BackwardsIs
<1> HIDE DEF backwards
<1>6. \E headings : Faithful(wide, headings, lines)
  BY <1>1, <1>2, <1>3, ExtendedIs
<1> HIDE DEF wide
<1>7. ASSUME NEW s \in 0 .. n - 1
      PROVE  Shows(Part(s), SubSeq(written, s + 1, n), {p \in Everything(Part(s)) : p[2] = 1})
  BY <1>1, <1>2, <1>3, RangeIs
<1> HIDE DEF n, Part
<1>8. Shows(view, written, Everything(view))
  BY <1>1, FaithfulShows
<1>9. Shows(twice, written \o written, Everything(twice))
  BY <1>4, FaithfulShows
<1>10. Shows(backwards, Reverse(written) \o Reverse(written), Everything(backwards))
  BY <1>5, FaithfulShows
<1>11. Shows(wide, lines, Everything(wide))
  BY <1>6, FaithfulShows
<1>12. n > 0 => twice.count # n
  BY <1>2, <1>4 DEF Faithful
<1>13. n > 0 => Extended(<<view, twice>>) = Throws
  BY <1>2, <1>12, ExtendedThrows
<1>14. QED
  BY <1>7, <1>8, <1>9, <1>10, <1>11, <1>12, <1>13 DEF ViewsShow, view, n, twice, backwards, wide, Part

-----------------------------------------------------------------------------
(***************************************************************************)
(* The life of the table.                                                  *)
(***************************************************************************)

\* A row of encoded values has as many cells as there are columns.
LEMMA RowIs ==
  ASSUME NEW row \in Row
  PROVE  /\ IsRow(row, Width)
         /\ \A c \in 1 .. Width : \E v \in Seq(Characters) : row[c] = Encode(v)
<1>1. Width \in Nat \ {0} /\ DOMAIN Columns = 1 .. Width
  BY WidthIs
<1>2. PICK values \in [1 .. Width -> Values] : row = [c \in 1 .. Width |-> Encode(values[c])]
  BY <1>1 DEF Row
<1>3. \A c \in 1 .. Width : values[c] \in Seq(Characters) /\ row[c] = Encode(values[c])
  BY <1>2, StoredAssumption
<1>4. ASSUME NEW c \in 1 .. Width PROVE IsCell(row[c])
  <2>1. PICK v : v = values[c]
    OBVIOUS
  <2>2. IsCell(Encode(v))
    BY <1>3, <2>1, EncodedIsCell
  <2>3. QED
    BY <1>3, <2>1, <2>2
<1>5. row \in Seq(Text) /\ Len(row) = Width
  <2>1. row \in [1 .. Width -> Text]
    BY <1>2, <1>4 DEF IsCell
  <2>2. QED
    BY <1>1, <2>1, FunctionIsSeq
<1>6. QED
  BY <1>3, <1>4, <1>5 DEF IsRow

\* So every sequence of such rows is one that the lemmas above are about.
LEMMA RowsOf ==
  ASSUME NEW rows \in Seq(Row)
  PROVE  /\ rows \in Seq(Seq(Text)) /\ Len(rows) \in Nat /\ DOMAIN rows = 1 .. Len(rows)
         /\ \A r \in 1 .. Len(rows) : rows[r] \in Row /\ IsRow(rows[r], Width)
<1>1. Len(rows) \in Nat /\ DOMAIN rows = 1 .. Len(rows)
  BY LenProperties
<1>2. \A r \in 1 .. Len(rows) : rows[r] \in Row
  BY ElementOfSeq
<1>3. \A r \in 1 .. Len(rows) : IsRow(rows[r], Width)
  BY <1>2, RowIs
<1>4. rows \in Seq(Seq(Text))
  <2>1. PICK L : L = Seq(Text)
    OBVIOUS
  <2>2. \A r \in 1 .. Len(rows) : rows[r] \in L
    BY <1>3, <2>1 DEF IsRow
  <2>3. rows \in [1 .. Len(rows) -> L]
    <3>1. rows = [r \in 1 .. Len(rows) |-> rows[r]]
      BY <1>1
    <3>2. QED
      BY <2>2, <3>1
  <2>4. rows \in Seq(L)
    BY <1>1, <2>3, FunctionIsSeq
  <2>5. QED
    BY <2>1, <2>4
<1>5. QED
  BY <1>1, <1>2, <1>3, <1>4

\* What a table that was not misled holds.
Holds(tbl, rows) ==
  \/ rows = <<>> /\ tbl = NewTable(Columns)
  \/ \E e, pieces : Sheet(tbl.data, rows, e, pieces, Width) /\ tbl = Indexed(tbl.data, rows, e)

\* What a file says that was not written beside an older index.
Keeps(data, index, rows) ==
  \E e, pieces :
    /\ Sheet(data, rows, e, pieces, Width)
    /\ \/ index = None
       \/ index = [rows |-> Len(rows), cols |-> Width, offsets |-> [k \in 1 .. Len(rows) * Width |-> e[k - 1]]]

\* Rows that are appended, to a new table or to one that holds rows.
LEMMA Appended ==
  ASSUME NEW tbl, NEW rows \in Seq(Row), Holds(tbl, rows), rows = <<>> => tbl = NewTable(Columns),
         NEW more \in Seq(Row)
  PROVE  Holds(AppendRaw(tbl, Texts(more)), rows \o more)
<1>1. Width \in Nat \ {0} /\ more \in Seq(Seq(Text)) /\ \A r \in 1 .. Len(more) : IsRow(more[r], Width)
  BY RowsOf, WidthIs
<1>2. PICK text, whole : text = Texts(more) /\ whole = rows \o more
  OBVIOUS
<1>3. CASE rows = <<>>
  <2>1. tbl = NewTable(Columns) /\ tbl.data = None
    BY <1>3 DEF NewTable
  <2>2. PICK e, pieces : Sheet(text, more, e, pieces, Width)
    BY <1>1, <1>2, SheetOf
  <2>3. AppendRaw(tbl, text) = Indexed(text, more, e)
    <3>1. AppendRaw(tbl, text) = Filled(tbl, text)
      BY <2>1 DEF AppendRaw
    <3>2. Filled(NewTable(Columns), text) = Indexed(text, more, e)
      BY <2>2, FilledIndexed
    <3>3. QED
      BY <2>1, <3>1, <3>2
  <2>4. whole = more
    BY <1>2, <1>3, ConcatEmptySeq
  <2>5. Indexed(text, more, e).data = text
    BY DEF Indexed
  <2>6. QED
    BY <1>2, <2>2, <2>3, <2>4, <2>5 DEF Holds
<1>4. CASE rows # <<>>
  <2>1. PICK data, e, pieces : Sheet(data, rows, e, pieces, Width) /\ tbl = Indexed(data, rows, e)
    BY <1>4 DEF Holds
  <2>2. PICK f, ps : /\ Sheet(data \o Texts(more), rows \o more, f, ps, Width)
                     /\ AppendRaw(Indexed(data, rows, e), Texts(more)) = Indexed(data \o Texts(more), rows \o more, f)
    BY ONLY <1>1, <1>4, <2>1, AppendIndexed
  <2>3. PICK all : all = data \o text
    OBVIOUS
  <2>4. Sheet(all, whole, f, ps, Width) /\ AppendRaw(tbl, text) = Indexed(all, whole, f)
    BY <1>2, <2>1, <2>2, <2>3
  <2>5. Indexed(all, whole, f).data = all
    BY DEF Indexed
  <2>6. QED
    BY <1>2, <2>4, <2>5 DEF Holds
<1>5. QED
  BY <1>3, <1>4

\* What is saved is what the table holds.
LEMMA SavedKeeps ==
  ASSUME NEW tbl, NEW rows \in Seq(Row), Holds(tbl, rows)
  PROVE  LET saved == SaveTable(tbl)
         IN  /\ saved = [columns |-> Columns, data |-> saved.data, index |-> saved.index]
             /\ Keeps(saved.data, saved.index, rows)
<1>1. PICK n, m, saved : n = Len(rows) /\ m = Width /\ saved = SaveTable(tbl)
  OBVIOUS
<1>2. n \in Nat /\ m \in Nat \ {0}
  BY <1>1, RowsOf, WidthIs
<1>3. CASE rows = <<>> /\ tbl = NewTable(Columns)
  <2>1. n = 0 /\ tbl.count = 0 /\ tbl.data = None /\ tbl.offsets = <<>> /\ tbl.columns = Columns
    BY <1>1, <1>3, EmptySeq DEF NewTable
  <2>2. PICK e : Sheet(<<>>, <<>>, e, <<>>, Width)
    BY <1>1, <1>2, SheetNone
  <2>3. saved = [columns |-> Columns, data |-> <<>>, index |-> [rows |-> 0, cols |-> m, offsets |-> <<>>]]
    BY <1>1, <2>1 DEF SaveTable, Width
  <2>4. [k \in 1 .. n * m |-> e[k - 1]] = <<>>
    <3>1. n * m = 0
      BY <1>2, <2>1
    <3>2. 1 .. 0 = {}
      OBVIOUS
    <3>3. QED
      BY <3>1, <3>2
  <2>5. PICK offsets, size : offsets = [k \in 1 .. n * m |-> e[k - 1]] /\ size = n
    OBVIOUS
  <2>6. saved = [columns |-> Columns, data |-> <<>>, index |-> [rows |-> size, cols |-> m, offsets |-> offsets]]
    BY <2>1, <2>3, <2>4, <2>5
  <2>7. saved.data = <<>> /\ saved.index = [rows |-> size, cols |-> m, offsets |-> offsets]
    BY <2>6
  <2>8. Sheet(<<>>, rows, e, <<>>, Width)
    BY <1>3, <2>2
  <2>9. Keeps(<<>>, saved.index, rows)
    BY <1>1, <2>5, <2>7, <2>8 DEF Keeps
  <2>10. QED
    BY <1>1, <2>6, <2>7, <2>9
<1>4. CASE \E e, pieces : Sheet(tbl.data, rows, e, pieces, Width) /\ tbl = Indexed(tbl.data, rows, e)
  <2>1. PICK data, e, pieces : Sheet(data, rows, e, pieces, Width) /\ tbl = Indexed(data, rows, e)
    BY <1>4
  <2>2. PICK offsets : offsets = [k \in 1 .. n * m |-> e[k - 1]]
    OBVIOUS
  <2>3. tbl.columns = Columns /\ tbl.count = n /\ tbl.data = data /\ tbl.offsets = offsets
    BY <1>1, <2>1, <2>2 DEF Indexed
  <2>4. Len(offsets) = n * m /\ n * m \in Nat
    <3>1. PICK size : size = n * m
      OBVIOUS
    <3>2. size \in Nat
      BY <1>2, <3>1
    <3>3. PICK S : S = {e[k - 1] : k \in 1 .. size}
      OBVIOUS
    <3>4. offsets \in [1 .. size -> S]
      BY <2>2, <3>1, <3>3
    <3>5. QED
      BY <3>1, <3>2, <3>4, FunctionIsSeq
  <2>5. n # 0 => Len(offsets) % n = 0
    <3>1. n # 0 => (n * m) % n = 0
      BY <1>2
    <3>2. QED
      BY <2>4, <3>1
  <2>6. data # None
    BY <2>1, NoOutcome DEF Sheet
  <2>7. saved = [columns |-> Columns, data |-> data, index |-> [rows |-> n, cols |-> m, offsets |-> offsets]]
    BY <1>1, <2>3, <2>5, <2>6 DEF SaveTable, Width
  <2>8. saved.data = data /\ saved.index = [rows |-> n, cols |-> m, offsets |-> offsets]
    BY <2>7
  <2>9. Keeps(data, saved.index, rows)
    BY <1>1, <2>1, <2>2, <2>8 DEF Keeps
  <2>10. QED
    BY <1>1, <2>7, <2>8, <2>9
<1>5. QED
  BY <1>3, <1>4 DEF Holds

\* What is loaded is what the file says, by its index or by a new scan.
LEMMA LoadedHolds ==
  ASSUME NEW data, NEW index, NEW rows \in Seq(Row), Keeps(data, index, rows)
  PROVE  Holds(Load([columns |-> Columns, data |-> data, index |-> index]), rows)
<1>1. PICK n, m, source, loaded :
        n = Len(rows) /\ m = Width /\ source = [columns |-> Columns, data |-> data, index |-> index] /\ loaded = Load(source)
  OBVIOUS
<1>2. PICK e, pieces : /\ Sheet(data, rows, e, pieces, Width)
                       /\ (index = None \/ index = [rows |-> n, cols |-> m, offsets |-> [k \in 1 .. n * m |-> e[k - 1]]])
  BY <1>1 DEF Keeps
<1>3. source.columns = Columns /\ source.data = data /\ source.index = index /\ Columns # Throws
  BY <1>1, StoredAssumption
<1>4. CASE index = None
  <2>1. loaded = Filled(NewTable(Columns), data)
    BY <1>1, <1>3, <1>4 DEF Load
  <2>2. loaded = Indexed(data, rows, e)
    BY <1>2, <2>1, FilledIndexed
  <2>3. loaded.data = data
    BY <2>2 DEF Indexed
  <2>4. QED
    BY <1>1, <1>2, <2>2, <2>3 DEF Holds
<1>5. CASE index # None
  <2>1. PICK offsets : offsets = [k \in 1 .. n * m |-> e[k - 1]]
    OBVIOUS
  <2>2. index = [rows |-> n, cols |-> m, offsets |-> offsets]
    BY <1>2, <1>5, <2>1
  <2>3. index.rows = n /\ index.cols = m /\ index.offsets = offsets
    BY <2>2
  <2>4. loaded = [columns |-> Columns, data |-> data, count |-> n, offsets |-> offsets, index |-> [rows |-> n, cols |-> m]]
    BY <1>1, <1>3, <1>5, <2>3 DEF Load, Width
  <2>5. loaded = Indexed(data, rows, e) /\ loaded.data = data
    <3>1. offsets = [k \in 1 .. Len(rows) * Width |-> e[k - 1]]
      BY <1>1, <2>1
    <3>2. n = Len(rows) /\ m = Width
      BY <1>1
    <3>3. Indexed(data, rows, e)
            = [columns |-> Columns, data |-> data, count |-> n, offsets |-> offsets, index |-> [rows |-> n, cols |-> m]]
      BY ONLY <3>1, <3>2 DEF Indexed
    <3>4. QED
      BY ONLY <2>4, <3>3
  <2>6. QED
    BY <1>1, <1>2, <2>5 DEF Holds
<1>6. QED
  BY <1>4, <1>5

\* A text that someone wrote, with no index beside it.
LEMMA TextKeeps ==
  ASSUME NEW row \in Row
  PROVE  Keeps(RowText(row), None, <<row>>)
<1>1. IsRow(row, Width) /\ Width \in Nat \ {0}
  BY RowIs, WidthIs
<1>2. PICK rows : rows = <<row>>
  OBVIOUS
<1>3. rows \in Seq(Seq(Text)) /\ Len(rows) = 1 /\ rows[1] = row /\ Texts(rows) = RowText(row)
  BY <1>1, <1>2, TextsOne
<1>4. \A r \in 1 .. Len(rows) : IsRow(rows[r], Width)
  BY <1>1, <1>3
<1>5. \E e, pieces : Sheet(Texts(rows), rows, e, pieces, Width)
  BY <1>1, <1>3, <1>4, SheetOf
<1>6. QED
  BY <1>2, <1>3, <1>5 DEF Keeps

\* A view of the last row is saved as the text of that row.
LEMMA SavedView ==
  ASSUME NEW tbl, NEW rows \in Seq(Row), Holds(tbl, rows), tbl.count > 0
  PROVE  /\ Last(rows) \in Row
         /\ SaveView(Splitted(AsView(tbl), <<tbl.count - 1>>), None)
              = [columns |-> Columns, data |-> RowText(Last(rows)), index |-> None]
<1>1. PICK n : n = Len(rows)
  OBVIOUS
<1>2. tbl # NewTable(Columns)
  BY DEF NewTable
<1>3. PICK data, e, pieces : Sheet(data, rows, e, pieces, Width) /\ tbl = Indexed(data, rows, e)
  BY <1>2 DEF Holds
<1>4. AreRows(rows, Width) /\ Faithful(AsView(tbl), Columns, rows)
  BY <1>3, AsViewIs
<1>5. n \in Nat /\ tbl.count = n /\ n > 0 /\ n \in 1 .. n /\ n - 1 \in 0 .. n - 1 /\ Width \in Nat \ {0}
  BY <1>1, <1>3, RowsOf, WidthIs DEF Indexed
<1>6. PICK row, lines, picked, shown, view :
        /\ row = Last(rows) /\ lines = <<row>> /\ picked = <<n - 1>> /\ view = AsView(tbl)
        /\ shown = Splitted(view, picked)
  OBVIOUS
<1>7. row = rows[n] /\ row \in Row
  BY <1>1, <1>5, <1>6, RowsOf DEF Last
<1>8. lines \in Seq(Seq(Text)) /\ Len(lines) = 1 /\ lines[1] = row /\ Texts(lines) = RowText(row) /\ IsRow(row, Width)
  BY <1>5, <1>6, <1>7, TextsOne, RowIs
<1>9. AreRows(lines, Width)
  BY <1>8 DEF AreRows
<1>10. Len(picked) = Len(lines) /\ picked[1] = n - 1
  BY <1>6, <1>8
<1>11. \A i \in 1 .. Len(lines) : picked[i] \in 0 .. Len(rows) - 1 /\ lines[i] = rows[picked[i] + 1]
  <2>1. (n - 1) + 1 = n
    BY <1>5
  <2>2. \A i \in 1 .. Len(lines) : i = 1
    BY <1>8
  <2>3. QED
    BY <1>1, <1>5, <1>7, <1>8, <1>10, <2>1, <2>2
<1>12. Faithful(shown, Columns, lines)
  <2>1. Faithful(view, Columns, rows)
    BY <1>4, <1>6
  <2>2. Faithful(Splitted(view, picked), Columns, lines)
    BY ONLY <1>4, <1>5, <1>9, <1>10, <1>11, <2>1, SplittedIs
  <2>3. QED
    BY <1>6, <2>2
<1>13. Given(shown, Columns, lines, 0)
  <2>1. 0 \in 0 .. Len(lines) - 1
    BY <1>8
  <2>2. QED
    BY <1>5, <1>9, <1>12, <2>1, OneOf
<1>14. shown.columns = Columns /\ shown.count = 1 /\ shown.rows[<<0, 1>>] = RowText(row)
  BY <1>8, <1>12, <1>13 DEF Given, Faithful
<1>15. SaveView(shown, None) = [columns |-> Columns, data |-> RowText(row), index |-> None]
  BY <1>14 DEF SaveView
<1>16. QED
  BY <1>5, <1>6, <1>7, <1>15

\* The inductive invariant: a table that was not misled holds the rows that were put into it,
\* and the file, unless its index is stale, the rows it was written with.
StoredInv ==
  /\ written \in Seq(Row) /\ fileRows \in Seq(Row) /\ stale \in BOOLEAN
  /\ origin # "misled" => Holds(table, written)
  /\ origin = "built" /\ written = <<>> => table = NewTable(Columns)
  /\ file # None => /\ file = [columns |-> Columns, data |-> file.data, index |-> file.index]
                    /\ ~stale => Keeps(file.data, file.index, fileRows)

\* A new table holds no rows.
LEMMA StoredInvInit == StoredInit => StoredInv
<1>1. SUFFICES ASSUME StoredInit PROVE StoredInv
  OBVIOUS
<1>2. <<>> \in Seq(Row)
  BY EmptySeq
<1>3. QED
  BY <1>1, <1>2 DEF StoredInit, StoredInv, Holds

\* Every step keeps it: the chunks and rows that are appended, the file that is written by the
\* table, by a view of it or by hand, and the load.
LEMMA StoredInvNext == StoredInv /\ [StoredNext]_storedVars => StoredInv'
<1>1. SUFFICES ASSUME StoredInv, [StoredNext]_storedVars PROVE StoredInv'
  OBVIOUS
<1>2. CASE UNCHANGED storedVars
  BY <1>1, <1>2 DEF storedVars, StoredInv
<1>3. CASE AppendChunk
  <2>1. PICK rows \in {<<r>> : r \in Row} \cup {<<r, r>> : r \in Row} :
          /\ origin = "built"
          /\ table' = AppendRaw(table, Texts(rows)) /\ written' = written \o rows
          /\ UNCHANGED <<origin, file, fileRows, stale>>
    BY <1>3 DEF AppendChunk, Texts
  <2>2. rows \in Seq(Row) /\ Len(rows) \in Nat /\ Len(rows) > 0
    <3>1. CASE rows \in {<<r>> : r \in Row}
      <4>1. PICK r \in Row : rows = <<r>>
        BY <3>1
      <4>2. QED
        BY <4>1
    <3>2. CASE rows \in {<<r, r>> : r \in Row}
      <4>1. PICK r \in Row : rows = <<r, r>>
        BY <3>2
      <4>2. QED
        BY <4>1
    <3>3. QED
      BY <3>1, <3>2
  <2>3. Holds(AppendRaw(table, Texts(rows)), written \o rows)
    BY <1>1, <2>1, <2>2, Appended DEF StoredInv
  <2>4. written \o rows \in Seq(Row) /\ written \o rows # <<>>
    BY <1>1, <2>2 DEF StoredInv
  <2>5. QED
    BY <1>1, <2>1, <2>3, <2>4 DEF StoredInv
<1>4. CASE AddOneRow
  <2>1. PICK row \in Row :
          /\ origin = "built"
          /\ table' = AddRow(table, row) /\ written' = Append(written, row)
          /\ UNCHANGED <<origin, file, fileRows, stale>>
    BY <1>4 DEF AddOneRow
  <2>2. Holds(table, written) /\ written \in Seq(Row)
    BY <1>1, <2>1 DEF StoredInv
  <2>3. IsRow(row, Width) /\ Len(row) = Len(Columns)
    BY RowIs DEF IsRow, Width
  <2>4. table.columns = Columns
    BY <2>2 DEF Holds, NewTable, Indexed
  <2>5. PICK rows : rows = <<row>>
    OBVIOUS
  <2>6. rows \in Seq(Row) /\ Texts(rows) = RowText(row)
    BY <2>3, <2>5, TextsOne, WidthIs
  <2>7. table' = AppendRaw(table, Texts(rows))
    BY <2>1, <2>3, <2>4, <2>6 DEF AddRow
  <2>8. Holds(AppendRaw(table, Texts(rows)), written \o rows)
    BY <1>1, <2>1, <2>6, Appended DEF StoredInv
  <2>9. written' = written \o rows
    BY <2>1, <2>2, <2>5, AppendIsConcat
  <2>10. written' \in Seq(Row) /\ written' # <<>>
    BY <2>1, <2>2, AppendProperties
  <2>11. QED
    BY <1>1, <2>1, <2>7, <2>8, <2>9, <2>10 DEF StoredInv
<1>5. CASE Save
  <2>1. /\ origin # "misled" /\ file' = SaveTable(table) /\ fileRows' = written /\ stale' = FALSE
        /\ UNCHANGED <<table, written, origin>>
    BY <1>5 DEF Save
  <2>2. Holds(table, written) /\ written \in Seq(Row)
    BY <1>1, <2>1 DEF StoredInv
  <2>3. /\ SaveTable(table) = [columns |-> Columns, data |-> SaveTable(table).data, index |-> SaveTable(table).index]
        /\ Keeps(SaveTable(table).data, SaveTable(table).index, written)
    BY <2>2, SavedKeeps
  <2>4. QED
    BY <1>1, <2>1, <2>2, <2>3 DEF StoredInv
<1>6. CASE SaveAsView
  <2>1. /\ origin # "misled" /\ table.count > 0
        /\ file' = SaveView(Splitted(AsView(table), <<table.count - 1>>), None)
        /\ fileRows' = <<Last(written)>> /\ stale' = FALSE
        /\ UNCHANGED <<table, written, origin>>
    BY <1>6 DEF SaveAsView
  <2>2. Holds(table, written) /\ written \in Seq(Row)
    BY <1>1, <2>1 DEF StoredInv
  <2>3. /\ Last(written) \in Row
        /\ file' = [columns |-> Columns, data |-> RowText(Last(written)), index |-> None]
    BY <2>1, <2>2, SavedView
  <2>4. Keeps(RowText(Last(written)), None, <<Last(written)>>)
    BY <2>3, TextKeeps
  <2>5. <<Last(written)>> \in Seq(Row)
    BY <2>3
  <2>6. file'.data = RowText(Last(written)) /\ file'.index = None
    BY <2>3
  <2>7. QED
    BY <1>1, <2>1, <2>3, <2>4, <2>5, <2>6 DEF StoredInv
<1>7. CASE Edit
  <2>1. PICK row \in Row :
          /\ file # None /\ file' = [file EXCEPT !.data = RowText(row)]
          /\ fileRows' = <<row>> /\ stale' = (file.index # None)
          /\ UNCHANGED <<table, written, origin>>
    BY <1>7 DEF Edit
  <2>2. file = [columns |-> Columns, data |-> file.data, index |-> file.index]
    BY <1>1, <2>1 DEF StoredInv
  <2>3. file' = [columns |-> Columns, data |-> RowText(row), index |-> file.index]
    BY <2>1, <2>2
  <2>4. file'.data = RowText(row) /\ file'.index = file.index
    BY <2>3
  <2>5. ~stale' => Keeps(file'.data, file'.index, fileRows')
    BY <2>1, <2>4, TextKeeps
  <2>6. fileRows' \in Seq(Row) /\ stale' \in BOOLEAN
    BY <2>1
  <2>7. QED
    BY <1>1, <2>1, <2>3, <2>4, <2>5, <2>6 DEF StoredInv
<1>8. CASE LoadFile
  <2>1. /\ file # None /\ table' = Load(file) /\ written' = fileRows
        /\ origin' = (IF stale THEN "misled" ELSE "loaded") /\ UNCHANGED <<file, fileRows, stale>>
    BY <1>8 DEF LoadFile
  <2>2. file = [columns |-> Columns, data |-> file.data, index |-> file.index] /\ fileRows \in Seq(Row)
    BY <1>1, <2>1 DEF StoredInv
  <2>3. ~stale => Holds(Load(file), fileRows)
    <3>1. SUFFICES ASSUME ~stale PROVE Holds(Load(file), fileRows)
      OBVIOUS
    <3>2. PICK data, index : data = file.data /\ index = file.index
      OBVIOUS
    <3>3. Keeps(data, index, fileRows)
      BY <1>1, <2>1, <3>1, <3>2 DEF StoredInv
    <3>4. Holds(Load([columns |-> Columns, data |-> data, index |-> index]), fileRows)
      BY <2>2, <3>3, LoadedHolds
    <3>5. QED
      BY <2>2, <3>2, <3>4
  <2>4. origin' # "built" /\ (origin' # "misled" => ~stale)
    BY <1>1, <2>1 DEF StoredInv
  <2>5. QED
    BY <1>1, <2>1, <2>2, <2>3, <2>4 DEF StoredInv
<1>9. QED
  BY <1>1, <1>2, <1>3, <1>4, <1>5, <1>6, <1>7, <1>8 DEF StoredNext

\* A table that holds its rows reads them back, cell by cell, and so do its views.
LEMMA HoldsReadBack == StoredInv => TablesReadBack
<1>1. SUFFICES ASSUME StoredInv, origin # "misled" PROVE TablesReadBack
  BY DEF TablesReadBack
<1>2. written \in Seq(Row) /\ Holds(table, written)
  BY <1>1 DEF StoredInv
<1>3. CASE written = <<>> /\ table = NewTable(Columns)
  <2>1. table.count = 0 /\ Len(written) = 0
    BY <1>3, EmptySeq DEF NewTable
  <2>2. 0 .. 0 - 1 = {} /\ ~(0 > 0)
    OBVIOUS
  <2>3. ViewsShow
    BY <2>1, <2>2 DEF ViewsShow
  <2>4. QED
    BY <2>1, <2>2, <2>3 DEF TablesReadBack
<1>4. CASE \E e, pieces : Sound(e, pieces)
  <2>1. PICK data, e, pieces : data = table.data /\ Sound(e, pieces)
    BY <1>4
  <2>2. Sheet(data, written, e, pieces, Width) /\ table = Indexed(data, written, e)
    BY <2>1 DEF Sound
  <2>3. table.count = Len(written) /\ Len(written) \in Nat /\ Len(Columns) = Width /\ Width \in Nat
    BY <1>2, <2>2, RowsOf, WidthIs DEF Indexed, Width
  <2>4. ASSUME NEW r \in 0 .. Len(written) - 1, NEW c \in 0 .. Width - 1
        PROVE  /\ GetColumn(table, r, c) = written[r + 1][c + 1]
               /\ Encode(Decode(GetColumn(table, r, c))) = written[r + 1][c + 1]
    <3>1. GetColumn(table, r, c) = written[r + 1][c + 1]
      BY <2>2, ColumnIs
    <3>2. r + 1 \in 1 .. Len(written) /\ c + 1 \in 1 .. Width
      BY <2>3
    <3>3. written[r + 1] \in Row
      BY <1>2, <3>2, RowsOf
    <3>4. PICK v \in Seq(Characters) : written[r + 1][c + 1] = Encode(v)
      BY <3>2, <3>3, RowIs
    <3>5. Decode(Encode(v)) = v
      BY DecodeEncode
    <3>6. QED
      BY <3>1, <3>4, <3>5
  <2>5. ViewsShow
    BY <2>1, ViewsAreShown
  <2>6. QED
    BY <2>3, <2>4, <2>5 DEF TablesReadBack
<1>5. QED
  BY <1>2, <1>3, <1>4 DEF Holds, Sound

\* What is appended, saved and loaded holds its rows, in every table that was not misled.
THEOREM StoredSpecInv == StoredSpec => []StoredInv
<1>1. StoredInit => StoredInv
  BY StoredInvInit
<1>2. StoredInv /\ [StoredNext]_storedVars => StoredInv'
  BY StoredInvNext
<1>3. QED
  BY <1>1, <1>2, PTL DEF StoredSpec

\* Whatever was appended, saved and loaded, every cell reads back as it was written, in the
\* table and in its joined, splitted, extended and range views (TablesReadBack), unless the
\* index that was loaded is older than its text.
THEOREM StoredTableReadsBack == StoredSpec => []TablesReadBack
<1>1. StoredInv => TablesReadBack
  BY HoldsReadBack
<1>2. QED
  BY <1>1, StoredSpecInv, PTL
=============================================================================
