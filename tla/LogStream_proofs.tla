--------------------------- MODULE LogStream_proofs ---------------------------
(***************************************************************************)
(* Proofs about LogStream, for every number, length and kind of lines.     *)
(***************************************************************************)
EXTENDS LogStream, SequenceTheorems, FiniteSetTheorems, TLAPS

(***************************************************************************)
(* Counting: the ascending sequence of a finite set of numbers.            *)
(***************************************************************************)
Rank(S, i) == Cardinality({j \in S : j <= i})

\* The ranks of the elements of a finite set are 1, 2, ..., each taken once.
LEMMA RankIsBijective ==
  ASSUME NEW S \in SUBSET Nat, IsFiniteSet(S)
  PROVE  /\ \A i \in S : Rank(S, i) \in 1 .. Cardinality(S)
         /\ \A i, j \in S : i < j => Rank(S, i) < Rank(S, j)
         /\ \A n \in 1 .. Cardinality(S) : \E i \in S : Rank(S, i) = n
  <1>0. Cardinality(S) \in Nat
    BY FS_CardinalityType
  <1>1. ASSUME NEW i \in S
        PROVE  Rank(S, i) \in 1 .. Cardinality(S)
    <2> DEFINE T == {j \in S : j <= i}
    <2>1. IsFiniteSet(T) /\ Cardinality(T) <= Cardinality(S)
      BY FS_Subset
    <2>2. Cardinality(T) \in Nat
      BY <2>1, FS_CardinalityType
    <2>3. i \in T
      OBVIOUS
    <2>4. Cardinality(T) # 0
      BY <2>1, <2>3, FS_EmptySet
    <2> QED
      BY <1>0, <2>1, <2>2, <2>4 DEF Rank
  <1>2. ASSUME NEW i \in S, NEW j \in S, i < j
        PROVE  Rank(S, i) < Rank(S, j)
    <2> DEFINE T == {k \in S : k <= i}
               U == {k \in S : k <= j}
    <2>1. IsFiniteSet(U)
      BY FS_Subset
    <2>2. T \in SUBSET U
      <3>1. \A k \in S : k <= i => k <= j
        BY <1>2
      <3> QED
        BY <3>1
    <2>3. j \in U /\ j \notin T
      BY <1>2
    <2>4. Cardinality(T) <= Cardinality(U) /\ Cardinality(U) # Cardinality(T)
      BY <2>1, <2>2, <2>3, FS_Subset
    <2>5. Cardinality(T) \in Nat /\ Cardinality(U) \in Nat
      BY <2>1, <2>2, FS_Subset, FS_CardinalityType
    <2> QED
      BY <2>4, <2>5 DEF Rank
  <1>3. ASSUME NEW n \in 1 .. Cardinality(S)
        PROVE  \E i \in S : Rank(S, i) = n
    <2> DEFINE N == 1 .. Cardinality(S)
               r == [i \in S |-> Rank(S, i)]
    <2>1. r \in [S -> N]
      BY <1>1
    <2>2. r \in Injection(S, N)
      <3>1. ASSUME NEW i \in S, NEW j \in S, r[i] = r[j]
            PROVE  i = j
        BY <1>1, <1>2, <3>1
      <3> QED
        BY <2>1, <3>1 DEF Injection, IsInjective
    <2>3. IsFiniteSet(N) /\ Cardinality(N) = Cardinality(S)
      BY <1>0, FS_Interval
    <2>4. r \in Surjection(S, N)
      BY <2>2, <2>3, FS_Injection
    <2> QED
      BY <2>4 DEF Surjection
  <1> QED
    BY <1>1, <1>2, <1>3

\* Ascending(S) lists each element of S at the place of its rank.
LEMMA AscendingProperties ==
  ASSUME NEW S \in SUBSET Nat, IsFiniteSet(S)
  PROVE  /\ Ascending(S) \in Seq(S)
         /\ Len(Ascending(S)) = Cardinality(S)
         /\ DOMAIN Ascending(S) = 1 .. Cardinality(S)
         /\ \A i \in S : /\ Rank(S, i) \in 1 .. Cardinality(S)
                         /\ Ascending(S)[Rank(S, i)] = i
         /\ \A n \in 1 .. Cardinality(S) : /\ Ascending(S)[n] \in S
                                           /\ Rank(S, Ascending(S)[n]) = n
  <1>0. Cardinality(S) \in Nat
    BY FS_CardinalityType
  <1>1. ASSUME NEW i \in S, NEW j \in S, Rank(S, i) = Rank(S, j)
        PROVE  i = j
    BY <1>1, RankIsBijective
  <1>2. \A n \in 1 .. Cardinality(S) :
          /\ Ascending(S)[n] \in S
          /\ Rank(S, Ascending(S)[n]) = n
    BY RankIsBijective DEF Ascending, Rank
  <1>3. DOMAIN Ascending(S) = 1 .. Cardinality(S)
    BY DEF Ascending
  <1>4. Ascending(S) \in [1 .. Cardinality(S) -> S]
    BY <1>2 DEF Ascending
  <1>5. Ascending(S) \in Seq(S)
    BY <1>0, <1>4, SeqDef
  <1>6. Len(Ascending(S)) = Cardinality(S)
    BY <1>0, <1>3, <1>5, LenProperties
  <1>7. ASSUME NEW i \in S
        PROVE  /\ Rank(S, i) \in 1 .. Cardinality(S)
               /\ Ascending(S)[Rank(S, i)] = i
    BY <1>1, <1>2, RankIsBijective
  <1> QED
    BY <1>2, <1>3, <1>5, <1>6, <1>7

\* What lies beyond a set comes after it in the enumeration of both.
LEMMA AscendingConcat ==
  ASSUME NEW A \in SUBSET Nat, IsFiniteSet(A),
         NEW B \in SUBSET Nat, IsFiniteSet(B),
         \A a \in A, b \in B : a < b
  PROVE  Ascending(A \cup B) = Ascending(A) \o Ascending(B)
  <1> DEFINE S == A \cup B
             s == Ascending(S)
             t == Ascending(A) \o Ascending(B)
  <1>1. A \cap B = {}
    OBVIOUS
  <1>2. IsFiniteSet(S) /\ S \in SUBSET Nat
    BY FS_Union
  <1>3. Cardinality(A) \in Nat /\ Cardinality(B) \in Nat
    BY FS_CardinalityType
  <1>4. Cardinality(S) = Cardinality(A) + Cardinality(B)
    <2>1. Cardinality(S) =
            Cardinality(A) + Cardinality(B) - Cardinality(A \cap B)
      BY FS_Union
    <2>2. Cardinality(A \cap B) = 0
      BY <1>1, FS_EmptySet
    <2> HIDE DEF S
    <2> QED
      BY <1>3, <2>1, <2>2
  <1>5. Ascending(A) \in Seq(S) /\ Ascending(B) \in Seq(S)
    BY AscendingProperties, SeqMonotonic
  <1>6. /\ t \in Seq(S)
        /\ Len(t) = Cardinality(A) + Cardinality(B)
        /\ \A n \in 1 .. Cardinality(A) + Cardinality(B) :
             t[n] = IF n <= Cardinality(A) THEN Ascending(A)[n]
                    ELSE Ascending(B)[n - Cardinality(A)]
    <2> DEFINE a == Ascending(A)
               b == Ascending(B)
    <2>1. a \in Seq(S) /\ b \in Seq(S)
      BY <1>5
    <2>2. Len(a) = Cardinality(A) /\ Len(b) = Cardinality(B)
      BY AscendingProperties
    <2> HIDE DEF a, b, S
    <2>3. /\ a \o b \in Seq(S)
          /\ Len(a \o b) = Len(a) + Len(b)
          /\ \A n \in 1 .. Len(a) + Len(b) : (a \o b)[n] =
               IF n <= Len(a) THEN a[n] ELSE b[n - Len(a)]
      BY <2>1, ConcatProperties
    <2> QED
      BY <2>2, <2>3 DEF a, b
  <1>7. s \in Seq(S) /\ Len(s) = Cardinality(S)
    BY <1>2, AscendingProperties
  <1>8. ASSUME NEW a \in A
        PROVE  Rank(S, a) = Rank(A, a)
    <2>1. \A b \in B : ~(b <= a)
      BY <1>8
    <2>2. {j \in S : j <= a} = {j \in A : j <= a}
      BY <2>1
    <2> QED
      BY <2>2 DEF Rank
  <1>9. ASSUME NEW b \in B
        PROVE  Rank(S, b) = Cardinality(A) + Rank(B, b)
    <2> DEFINE C == {j \in B : j <= b}
    <2>0. \A a \in A : a <= b
      BY <1>9
    <2>1. {j \in S : j <= b} = A \cup C
      BY <2>0
    <2>2. IsFiniteSet(C) /\ Cardinality(C) \in Nat
      BY FS_Subset, FS_CardinalityType
    <2>3. A \cap C = {}
      BY <1>1
    <2>4. Cardinality(A \cup C) = Cardinality(A) + Cardinality(C)
      <3> HIDE DEF C
      <3>1. Cardinality(A \cup C) =
              Cardinality(A) + Cardinality(C) - Cardinality(A \cap C)
        BY <2>2, FS_Union
      <3> QED
        BY <1>3, <2>2, <2>3, <3>1, FS_EmptySet
    <2> QED
      BY <2>1, <2>4 DEF Rank
  <1>10. ASSUME NEW n \in 1 .. Len(s)
         PROVE  s[n] = t[n]
    <2>1. n \in 1 .. Cardinality(A) + Cardinality(B)
      BY <1>4, <1>7
    <2>2. CASE n <= Cardinality(A)
      <3>1. PICK a \in A : Rank(A, a) = n
        BY <1>3, <2>1, <2>2, RankIsBijective
      <3>2. Ascending(A)[n] = a
        BY <3>1, AscendingProperties
      <3>3. s[n] = a
        BY <1>2, <1>8, <3>1, AscendingProperties, ZenonT(30)
      <3> QED
        BY <1>6, <2>1, <2>2, <3>2, <3>3
    <2>3. CASE n > Cardinality(A)
      <3>1. n - Cardinality(A) \in 1 .. Cardinality(B)
        BY <1>3, <2>1, <2>3
      <3>2. PICK b \in B : Rank(B, b) = n - Cardinality(A)
        BY <3>1, RankIsBijective
      <3>3. Ascending(B)[n - Cardinality(A)] = b
        BY <3>2, AscendingProperties
      <3>4. Rank(S, b) = n
        <4>1. Rank(S, b) = Cardinality(A) + (n - Cardinality(A))
          BY <1>9, <3>2
        <4> HIDE DEF S
        <4> QED
          BY <1>3, <2>1, <4>1
      <3>5. s[n] = b
        BY <1>2, <3>4, AscendingProperties
      <3> QED
        BY <1>3, <1>6, <2>1, <2>3, <3>3, <3>5
    <2>4. n <= Cardinality(A) \/ n > Cardinality(A)
      BY <1>3, <2>1
    <2> QED
      BY <2>2, <2>3, <2>4
  <1> QED
    BY <1>4, <1>6, <1>7, <1>10, SeqEqual


(***************************************************************************)
(* The inductive invariant.                                                *)
(***************************************************************************)
\* A turn of the loop is begun before the time is over.
TurnInv == pc \in {"poll", "result", "pause"} => turn < Turns

\* What a short write has left is the end of the line it began.
RestInv ==
  rest # <<>> =>
    /\ "short" \in faults
    /\ written \in 1 .. Lines
    /\ \E n \in 1 .. Length[written] - 1 :
         rest = SubSeq(Text(written), n + 1, Length[written])

\* From i on the file holds the line that begins there, as far as it goes.
LineAt(i) ==
  \A k \in 1 .. Length[log[i].line] :
    i + k - 1 <= Len(log) => log[i + k - 1] = [line |-> log[i].line, at |-> k]
AllOfIt(i) == i + Length[log[i].line] - 1 <= Len(log)

\* Without short writes the file is made of whole lines, whoever wrote them.
WholeInv ==
  "short" \notin faults =>
    \A i \in 1 .. Len(log) : log[i].at = 1 => LineAt(i) /\ AllOfIt(i)

\* While the cursor is in its place there is nothing beyond it but lines of the
\* worker, each begun after the end of the one before, and at most the last of
\* them is not all there.
InPlace == pc # "launched" /\ ~drift
Beyond == cursor + 1 .. Len(log)
PlaceInv ==
  InPlace =>
    /\ mark <= cursor /\ cursor <= Len(log)
    /\ \A i \in Beyond : log[i].line \in 1 .. Lines
    /\ \A i \in Beyond : log[i].at = 1 =>
         /\ i = cursor + 1 \/ EndsLine(log[i - 1])
         /\ LineAt(i)
         /\ AllOfIt(i) \/ rest # <<>>
    /\ cursor < Len(log) =>
         IF rest = <<>> THEN EndsLine(log[Len(log)])
         ELSE log[Len(log)] =
                [line |-> written, at |-> Length[written] - Len(rest)]

\* The lines that begin at the places in S, in the order of the file.
LinesAt(S) == [n \in DOMAIN Ascending(S) |-> log[Ascending(S)[n]].line]

\* What was shown are the worker's records that begin before the cursor.
ShownInv ==
  ~drift =>
    IF pc = "launched" THEN shown = <<>>
    ELSE ShownLines = LinesAt(Begun(cursor))

\* Nothing is written after the end was seen, and all of it was read.
EndInv ==
  ending = "finished" =>
    /\ worker = "ended"
    /\ pc \in {"flush", "stop", "done"}
    /\ pc # "flush" /\ ~drift /\ "open" \notin faults => cursor = Len(log)

(***************************************************************************)
(* Lines and reading.                                                      *)
(***************************************************************************)
ShownRecord == [line : LineIds, whole : BOOLEAN]

LEMMA LengthType ==
  ASSUME NEW l \in LineIds
  PROVE  Length[l] \in Nat \ {0}
  BY StreamAssumption

LEMMA TextProperties ==
  ASSUME NEW l \in LineIds
  PROVE  /\ Text(l) \in Seq(Unit)
         /\ Len(Text(l)) = Length[l]
         /\ \A k \in 1 .. Length[l] : Text(l)[k] = [line |-> l, at |-> k]
  <1>1. Length[l] \in Nat
    BY LengthType
  <1>2. Text(l) \in [1 .. Length[l] -> Unit]
    BY <1>1 DEF Text, Unit
  <1>3. Text(l) \in Seq(Unit)
    BY <1>1, <1>2, SeqDef
  <1>4. DOMAIN Text(l) = 1 .. Length[l]
    BY DEF Text
  <1>5. Len(Text(l)) = Length[l]
    BY <1>1, <1>3, <1>4, LenProperties
  <1>6. \A k \in 1 .. Length[l] : Text(l)[k] = [line |-> l, at |-> k]
    BY DEF Text
  <1> QED
    BY <1>3, <1>5, <1>6

\* The first n units of a line and the others.
LEMMA PartOfText ==
  ASSUME NEW l \in LineIds, NEW m \in 1 .. Length[l], NEW n \in m .. Length[l]
  PROVE  /\ SubSeq(Text(l), m, n) \in Seq(Unit)
         /\ Len(SubSeq(Text(l), m, n)) = n - m + 1
         /\ \A k \in 1 .. n - m + 1 :
              SubSeq(Text(l), m, n)[k] = [line |-> l, at |-> m + k - 1]
  <1>0. Length[l] \in Nat
    BY LengthType
  <1>1. m \in Int /\ n \in Int /\ m <= n /\ n <= Length[l] /\ 1 <= m
    BY <1>0
  <1>2. \A i \in m .. n : Text(l)[i] \in Unit /\ i \in 1 .. Length[l]
    <2>1. Text(l) \in Seq(Unit) /\ Len(Text(l)) = Length[l]
      BY TextProperties
    <2> QED
      BY <1>0, <1>1, <2>1, ElementOfSeq
  <1>3. /\ SubSeq(Text(l), m, n) \in Seq(Unit)
        /\ Len(SubSeq(Text(l), m, n)) = IF m <= n THEN n - m + 1 ELSE 0
        /\ \A k \in 1 .. n - m + 1 : SubSeq(Text(l), m, n)[k] = Text(l)[m + k - 1]
    BY <1>1, <1>2, SubSeqProperties
  <1>4. ASSUME NEW k \in 1 .. n - m + 1
        PROVE  SubSeq(Text(l), m, n)[k] = [line |-> l, at |-> m + k - 1]
    <2>1. m + k - 1 \in 1 .. Length[l]
      BY <1>0, <1>1
    <2> QED
      BY <1>3, <2>1, TextProperties
  <1> QED
    BY <1>1, <1>3, <1>4

LEMMA LogUnits ==
  ASSUME TypeOK
  PROVE  /\ Len(log) \in Nat
         /\ \A i \in 1 .. Len(log) : /\ log[i] \in Unit
                                     /\ log[i].line \in LineIds
                                     /\ log[i].at \in Nat \ {0}
  <1>1. log \in Seq(Unit)
    BY DEF TypeOK
  <1>2. Len(log) \in Nat
    BY <1>1, LenProperties
  <1>3. \A i \in 1 .. Len(log) : log[i] \in Unit
    BY <1>1, ElementOfSeq
  <1> QED
    BY <1>2, <1>3 DEF Unit

\* A finite set of numbers that is not empty has a greatest one.
LEMMA MaxIsIn ==
  ASSUME NEW m \in Nat, NEW n \in Nat, NEW S \in SUBSET (m .. n), S # {}
  PROVE  Max(S) \in S /\ \A i \in S : Max(S) >= i
  <1> DEFINE D == {n - i : i \in S}
  <1>1. D \subseteq Nat /\ D # {}
    OBVIOUS
  <1>2. PICK d \in D : \A e \in D : ~(<<e, d>> \in OpToRel(<, Nat))
    BY <1>1, NatLessThanWellFounded, WFMin
  <1>3. PICK i \in S : d = n - i
    OBVIOUS
  <1>4. ASSUME NEW j \in S
        PROVE  i >= j
    <2>1. n - j \in D /\ n - j \in Nat /\ d \in Nat
      BY <1>1
    <2>2. ~(n - j < d)
      BY <1>2, <2>1 DEF OpToRel
    <2> QED
      BY <1>3, <2>2
  <1> QED
    BY <1>4 DEF Max

\* Without flush what is consumed ends with a line break, with it nothing is
\* left.
LEMMA ReadableEndProperties ==
  ASSUME TypeOK, NEW flush \in BOOLEAN, NEW c \in 0 .. Len(log)
  PROVE  LET end == ReadableEnd(flush, c)
         IN /\ end \in c .. Len(log)
            /\ flush => end = Len(log)
            /\ ~flush /\ c < end => EndsLine(log[end])
            /\ ~flush => \A i \in end + 1 .. Len(log) : ~EndsLine(log[i])
  <1> DEFINE breaks == {i \in c + 1 .. Len(log) : EndsLine(log[i])}
             end == ReadableEnd(flush, c)
  <1>1. Len(log) \in Nat /\ c \in Nat /\ c <= Len(log)
    BY LogUnits
  <1>2. CASE flush
    BY <1>1, <1>2 DEF ReadableEnd
  <1>3. CASE ~flush /\ breaks = {}
    BY <1>1, <1>3 DEF ReadableEnd
  <1>4. CASE ~flush /\ breaks # {}
    <2>1. breaks \in SUBSET (c + 1 .. Len(log)) /\ c + 1 \in Nat
      BY <1>1
    <2>2. end = Max(breaks)
      BY <1>4 DEF ReadableEnd
    <2>3. end \in breaks /\ \A i \in breaks : end >= i
      BY <1>1, <1>4, <2>1, <2>2, MaxIsIn
    <2>4. ASSUME NEW i \in end + 1 .. Len(log), EndsLine(log[i])
          PROVE  FALSE
      <3>1. i \in breaks
        BY <1>1, <2>3, <2>4
      <3> QED
        BY <1>1, <2>3, <2>4, <3>1
    <2> QED
      BY <1>1, <1>4, <2>3, <2>4
  <1> QED
    BY <1>2, <1>3, <1>4

\* One record for each start, in the order of the text.
LEMMA RecordsProperties ==
  ASSUME TypeOK, NEW c \in Nat, NEW end \in Nat, end <= Len(log)
  PROVE  LET starts == RecordStarts(c, end)
             firsts == Ascending(starts)
         IN /\ starts \in SUBSET (c + 1 .. end)
            /\ starts \in SUBSET Nat /\ IsFiniteSet(starts)
            /\ Records(c, end) \in Seq(ShownRecord)
            /\ Len(Records(c, end)) = Cardinality(starts)
            /\ DOMAIN Records(c, end) = 1 .. Cardinality(starts)
            /\ \A n \in 1 .. Cardinality(starts) :
                 /\ firsts[n] \in starts
                 /\ Records(c, end)[n] = Record(firsts[n], end)
  <1> DEFINE starts == RecordStarts(c, end)
             firsts == Ascending(starts)
  <1>1. starts \in SUBSET (c + 1 .. end)
    BY DEF RecordStarts, LineStarts
  <1>2. starts \in SUBSET Nat /\ IsFiniteSet(starts)
    <2>1. \A i \in c + 1 .. end : i \in Nat
      OBVIOUS
    <2>2. IsFiniteSet(c + 1 .. end)
      BY FS_Interval
    <2> QED
      BY <1>1, <2>1, <2>2, FS_Subset
  <1>3. Cardinality(starts) \in Nat
    BY <1>2, FS_CardinalityType
  <1>4. /\ firsts \in Seq(starts)
        /\ DOMAIN firsts = 1 .. Cardinality(starts)
        /\ Len(firsts) = Cardinality(starts)
    BY <1>2, AscendingProperties
  <1>5. \A n \in 1 .. Cardinality(starts) : firsts[n] \in starts
    BY <1>4, ElementOfSeq
  <1>6. DOMAIN Records(c, end) = 1 .. Cardinality(starts)
    BY <1>4 DEF Records
  <1>7. \A n \in 1 .. Cardinality(starts) :
          Records(c, end)[n] = Record(firsts[n], end)
    BY <1>4 DEF Records
  <1>8. ASSUME NEW i \in starts
        PROVE  Record(i, end) \in ShownRecord
    <2>1. i \in 1 .. Len(log)
      BY <1>1, LogUnits
    <2> QED
      BY <2>1, LogUnits DEF Record, ShownRecord
  <1>9. Records(c, end) \in [1 .. Cardinality(starts) -> ShownRecord]
    BY <1>4, <1>5, <1>8 DEF Records
  <1>10. Records(c, end) \in Seq(ShownRecord)
    BY <1>3, <1>9, SeqDef
  <1>11. Len(Records(c, end)) = Cardinality(starts)
    BY <1>3, <1>6, <1>10, LenProperties
  <1> QED
    BY <1>1, <1>2, <1>5, <1>6, <1>7, <1>10, <1>11

(***************************************************************************)
(* Type correctness.                                                       *)
(***************************************************************************)
\* A fresh cursor starts over in a file that has shrunk; this one never has.
LEMMA StreamType ==
  ASSUME TypeOK, NEW flush \in BOOLEAN, StreamLines(flush)
  PROVE  /\ cursor' \in Nat /\ silent' \in BOOLEAN
         /\ shown' \in Seq(ShownRecord)
         /\ ~drift => cursor' <= Len(log)
  <1>1. CASE "open" \in faults /\ silent' = TRUE /\ UNCHANGED <<cursor, shown>>
    BY <1>1 DEF TypeOK, ShownRecord
  <1>2. ASSUME NEW c, c = IF Len(log) < cursor THEN 0 ELSE cursor,
               NEW end, end = ReadableEnd(flush, c),
               cursor' = end, silent' = (end = c),
               shown' = shown \o Records(c, end)
        PROVE  /\ cursor' \in Nat /\ silent' \in BOOLEAN
               /\ shown' \in Seq(ShownRecord)
               /\ ~drift => cursor' <= Len(log)
    <2>1. c \in 0 .. Len(log) /\ c \in Nat /\ Len(log) \in Nat
      BY <1>2, LogUnits DEF TypeOK
    <2>2. end \in c .. Len(log)
      BY <1>2, <2>1, ReadableEndProperties
    <2>3. end \in Nat /\ end <= Len(log)
      BY <2>1, <2>2
    <2>4. Records(c, end) \in Seq(ShownRecord) /\ shown \in Seq(ShownRecord)
      BY <2>1, <2>3, RecordsProperties DEF TypeOK, ShownRecord
    <2>5. shown' \in Seq(ShownRecord)
      BY <1>2, <2>4, ConcatProperties
    <2> QED
      BY <1>2, <2>3, <2>5
  <1> QED
    BY <1>1, <1>2 DEF StreamLines

\* What is appended to the file stands behind what was there.
LEMMA Appended ==
  ASSUME TypeOK, NEW t \in Seq(Unit), log' = log \o t
  PROVE  /\ log' \in Seq(Unit)
         /\ Len(log') = Len(log) + Len(t)
         /\ Len(log) \in Nat /\ Len(t) \in Nat
         /\ \A i \in 1 .. Len(log) : log'[i] = log[i]
         /\ \A k \in 1 .. Len(t) : log'[Len(log) + k] = t[k]
  <1>1. log \in Seq(Unit)
    BY DEF TypeOK
  <1>2. Len(log) \in Nat /\ Len(t) \in Nat
    BY <1>1, LenProperties
  <1>3. /\ log \o t \in Seq(Unit)
        /\ Len(log \o t) = Len(log) + Len(t)
        /\ \A i \in 1 .. Len(log) + Len(t) : (log \o t)[i] =
             IF i <= Len(log) THEN log[i] ELSE t[i - Len(log)]
    BY <1>1, ConcatProperties
  <1>4. \A i \in 1 .. Len(log) : log'[i] = log[i]
    BY <1>2, <1>3
  <1>5. ASSUME NEW k \in 1 .. Len(t)
        PROVE  log'[Len(log) + k] = t[k]
    <2>1. Len(log) + k \in 1 .. Len(log) + Len(t) /\ ~(Len(log) + k <= Len(log))
      BY <1>2
    <2>2. Len(log) + k - Len(log) = k
      BY <1>2
    <2> QED
      BY <1>3, <2>1, <2>2
  <1> QED
    BY <1>2, <1>3, <1>4, <1>5

\* The lines that are written, and how.
HeartbeatLine == Lines + beats + 1

LEMMA LineNumbers ==
  ASSUME TypeOK
  PROVE  /\ written < Lines => /\ written + 1 \in 1 .. Lines
                               /\ written + 1 \in LineIds
         /\ beats < Beats => /\ HeartbeatLine \in Lines + 1 .. Lines + Beats
                             /\ HeartbeatLine \in LineIds
         /\ 1 .. Lines \subseteq LineIds
         /\ 0 \in LineIds
  BY StreamAssumption DEF TypeOK, LineIds, HeartbeatLine

\* WorkerLogs in its two ways: the whole line, or its first n units.
LEMMA WriteCases ==
  ASSUME TypeOK, WorkerLogs
  PROVE  LET line == written + 1
         IN /\ line \in 1 .. Lines /\ line \in LineIds
            /\ Length[line] \in Nat \ {0}
            /\ \/ log' = log \o Text(line) /\ rest' = <<>>
               \/ /\ "short" \in faults
                  /\ \E n \in 1 .. Length[line] - 1 :
                       /\ log' = log \o SubSeq(Text(line), 1, n)
                       /\ rest' = SubSeq(Text(line), n + 1, Length[line])
  BY LineNumbers, LengthType DEF WorkerLogs

LEMMA TypeInit ==
  ASSUME Init
  PROVE  TypeOK /\ TurnInv
  <1>1. 0 \in LineIds
    BY StreamAssumption DEF LineIds
  <1>2. log \in Seq(Unit)
    BY <1>1, TextProperties DEF Init
  <1>3. Len(log) \in Nat
    BY <1>2, LenProperties
  <1>4. rest \in Seq(Unit) /\ shown \in Seq(ShownRecord)
    BY EmptySeq DEF Init
  <1> QED
    BY <1>2, <1>3, <1>4, StreamAssumption
    DEF Init, TypeOK, TurnInv, ShownRecord, Endings

LEMMA HeartbeatType ==
  ASSUME TypeOK, TurnInv, Heartbeat
  PROVE  /\ log' \in Seq(Unit)
         /\ cursor' \in Nat /\ drift' \in BOOLEAN
         /\ ~drift' => cursor' <= Len(log')
         /\ beats' \in 0 .. Beats /\ turn' \in 0 .. Turns
  <1> DEFINE line == HeartbeatLine
  <1>1. line \in LineIds /\ Length[line] \in Nat
    BY LineNumbers, LengthType DEF Heartbeat
  <1>2. /\ \/ log' = log \o Text(line) /\ drift' = (drift \/ cursor # Len(log))
           \/ log' = log /\ drift' = TRUE
        /\ cursor' = cursor + Length[line]
        /\ beats' = beats + 1 /\ turn' = turn + 1
    BY DEF Heartbeat, HeartbeatLine
  <1>3. beats' \in 0 .. Beats /\ turn' \in 0 .. Turns
    BY <1>2, StreamAssumption DEF TypeOK, TurnInv, Heartbeat
  <1>4. cursor' \in Nat
    BY <1>1, <1>2 DEF TypeOK
  <1> HIDE DEF line
  <1>5. CASE log' = log \o Text(line) /\ drift' = (drift \/ cursor # Len(log))
    <2>1. Text(line) \in Seq(Unit) /\ Len(Text(line)) = Length[line]
      BY <1>1, TextProperties
    <2>2. log' \in Seq(Unit) /\ Len(log') = Len(log) + Length[line]
      BY <1>5, <2>1, Appended
    <2>3. drift' \in BOOLEAN
      BY <1>5 DEF TypeOK
    <2>4. ~drift' => cursor = Len(log)
      BY <1>5
    <2> QED
      BY <1>1, <1>2, <1>3, <1>4, <2>2, <2>3, <2>4
  <1>6. CASE log' = log /\ drift' = TRUE
    BY <1>3, <1>4, <1>6 DEF TypeOK
  <1> QED
    BY <1>2, <1>5, <1>6

LEMMA WriteType ==
  ASSUME TypeOK, WorkerLogs \/ WorkerLogsRest
  PROVE  /\ log' \in Seq(Unit) /\ rest' \in Seq(Unit)
         /\ written' \in 0 .. Lines
         /\ Len(log) <= Len(log')
  <1>1. CASE WorkerLogs
    <2> DEFINE line == written + 1
    <2>1. /\ line \in 1 .. Lines /\ line \in LineIds /\ written' = line
          /\ Length[line] \in Nat \ {0}
      BY <1>1, WriteCases DEF WorkerLogs
    <2>2. \/ log' = log \o Text(line) /\ rest' = <<>>
          \/ \E n \in 1 .. Length[line] - 1 :
               /\ log' = log \o SubSeq(Text(line), 1, n)
               /\ rest' = SubSeq(Text(line), n + 1, Length[line])
      BY <1>1, WriteCases
    <2> HIDE DEF line
    <2>3. CASE log' = log \o Text(line) /\ rest' = <<>>
      <3>1. Text(line) \in Seq(Unit)
        BY <2>1, TextProperties
      <3>2. rest' \in Seq(Unit)
        BY <2>3, EmptySeq
      <3>3. log' \in Seq(Unit) /\ Len(log) <= Len(log')
        BY <2>3, <3>1, Appended, SMTT(30)
      <3> QED
        BY <2>1, <3>2, <3>3
    <2>4. ASSUME NEW n \in 1 .. Length[line] - 1,
                 log' = log \o SubSeq(Text(line), 1, n),
                 rest' = SubSeq(Text(line), n + 1, Length[line])
          PROVE  log' \in Seq(Unit) /\ rest' \in Seq(Unit) /\ Len(log) <= Len(log')
      <3>1. /\ 1 \in 1 .. Length[line] /\ n \in 1 .. Length[line]
            /\ n + 1 \in 1 .. Length[line]
            /\ Length[line] \in n + 1 .. Length[line]
        BY <2>1
      <3>2. SubSeq(Text(line), 1, n) \in Seq(Unit)
        BY <2>1, <3>1, PartOfText
      <3>3. rest' \in Seq(Unit)
        BY <2>1, <2>4, <3>1, PartOfText
      <3> DEFINE t == SubSeq(Text(line), 1, n)
      <3>4. t \in Seq(Unit) /\ log' = log \o t
        BY <2>4, <3>2
      <3> HIDE DEF t
      <3>5. log' \in Seq(Unit) /\ Len(log) <= Len(log')
        BY <3>4, Appended
      <3> QED
        BY <3>3, <3>5
    <2>5. written' \in 0 .. Lines
      BY <2>1, StreamAssumption
    <2> QED
      BY <2>2, <2>3, <2>4, <2>5
  <1>2. CASE WorkerLogsRest
    <2>1. rest \in Seq(Unit) /\ log' = log \o rest
      BY <1>2 DEF TypeOK, WorkerLogsRest
    <2>2. log' \in Seq(Unit) /\ Len(log) <= Len(log')
      BY <2>1, Appended
    <2>3. rest' \in Seq(Unit)
      BY <1>2, EmptySeq DEF WorkerLogsRest
    <2> QED
      BY <1>2, <2>2, <2>3 DEF TypeOK, WorkerLogsRest
  <1> QED
    BY <1>1, <1>2

LEMMA TypeStep ==
  ASSUME TypeOK, TurnInv, [Next]_vars
  PROVE  TypeOK' /\ TurnInv'
  <1> USE StreamAssumption DEF TurnInv
  <1>0. Len(log) \in Nat
    BY LogUnits
  <1>1. CASE SetCursor
    BY <1>0, <1>1, SMTT(30) DEF TypeOK, SetCursor, workerVars
  <1>2. CASE TimedOut
    BY <1>2 DEF TypeOK, TimedOut, EndWith, Endings, workerVars
  <1>3. CASE AbortSeen
    BY <1>3 DEF TypeOK, AbortSeen, EndWith, Endings, workerVars
  <1>4. CASE Stream
    <2>1. /\ cursor' \in Nat /\ silent' \in BOOLEAN
          /\ shown' \in Seq(ShownRecord)
          /\ ~drift => cursor' <= Len(log)
      BY <1>4, StreamType DEF Stream
    <2> QED
      BY <1>4, <2>1 DEF TypeOK, Stream, workerVars, ShownRecord
  <1>5. CASE PollState
    BY <1>5 DEF TypeOK, PollState, workerVars
  <1>6. CASE PollResult
    BY <1>6 DEF TypeOK, PollResult, EndWith, Endings, workerVars
  <1>7. CASE Pause
    BY <1>7 DEF TypeOK, Pause, workerVars
  <1>8. CASE Heartbeat
    BY <1>8, HeartbeatType DEF TypeOK, Heartbeat, workerVars
  <1>9. CASE Flush
    <2>1. /\ cursor' \in Nat /\ silent' \in BOOLEAN
          /\ shown' \in Seq(ShownRecord)
          /\ ~drift => cursor' <= Len(log)
      BY <1>9, StreamType DEF Flush
    <2> QED
      BY <1>9, <2>1 DEF TypeOK, Flush, workerVars, ShownRecord
  <1>10. CASE FinishTask
    BY <1>10 DEF TypeOK, FinishTask
  <1>11. CASE WorkerStarts
    BY <1>11 DEF TypeOK, WorkerStarts, parentVars
  <1>12. CASE WorkerLogs
    <2>1. ~drift => cursor <= Len(log')
      BY <1>0, <1>12, WriteType, LenProperties DEF TypeOK
    <2> QED
      BY <1>12, <2>1, WriteType DEF TypeOK, WorkerLogs, parentVars
  <1>13. CASE WorkerLogsRest
    <2>1. ~drift => cursor <= Len(log')
      BY <1>0, <1>13, WriteType, LenProperties DEF TypeOK
    <2> QED
      BY <1>13, <2>1, WriteType DEF TypeOK, WorkerLogsRest, parentVars
  <1>14. CASE WorkerEnds
    BY <1>14 DEF TypeOK, WorkerEnds, parentVars
  <1>15. CASE UNCHANGED vars
    BY <1>15 DEF TypeOK, vars, workerVars
  <1> QED
    BY <1>1, <1>2, <1>3, <1>4, <1>5, <1>6, <1>7, <1>8, <1>9, <1>10, <1>11,
       <1>12, <1>13, <1>14, <1>15 DEF Next, ParentStep, WorkerStep

(***************************************************************************)
(* The file.                                                               *)
(***************************************************************************)
\* The steps that neither read nor write the file, nor place the cursor.
FileStep ==
  SetCursor \/ Stream \/ Flush \/ Heartbeat \/ WorkerLogs \/ WorkerLogsRest

LEMMA OtherSteps ==
  ASSUME [Next]_vars, ~FileStep
  PROVE  /\ UNCHANGED <<faults, log, rest, written, cursor, drift, mark, shown>>
         /\ pc' = "launched" <=> pc = "launched"
  BY DEF Next, ParentStep, WorkerStep, FileStep, TimedOut, AbortSeen,
         PollState, PollResult, EndWith, Pause, FinishTask, WorkerStarts,
         WorkerEnds, vars, workerVars, parentVars

LEMMA FaultsStay ==
  ASSUME [Next]_vars
  PROVE  faults' = faults
  BY DEF Next, ParentStep, WorkerStep, SetCursor, TimedOut, AbortSeen, Stream,
         PollState, PollResult, Pause, Heartbeat, Flush, FinishTask,
         WorkerStarts, WorkerLogs, WorkerLogsRest, WorkerEnds, vars,
         workerVars, parentVars

\* Only the worker's writes and the heartbeats change the file.
LEMMA WhoWrites ==
  ASSUME [Next]_vars
  PROVE  /\ Heartbeat \/ WorkerLogs \/ WorkerLogsRest \/ log' = log
         /\ WorkerLogs \/ WorkerLogsRest
            \/ UNCHANGED <<rest, written>>
  BY DEF Next, ParentStep, WorkerStep, SetCursor, TimedOut, AbortSeen, Stream,
         PollState, PollResult, Pause, Heartbeat, Flush, FinishTask,
         WorkerStarts, WorkerLogs, WorkerLogsRest, WorkerEnds, vars,
         workerVars, parentVars

\* What RestInv says of a rest that is left: it is the end of the line begun.
LEMMA RestProperties ==
  ASSUME TypeOK, RestInv, rest # <<>>
  PROVE  /\ written \in 1 .. Lines /\ written \in LineIds
         /\ Length[written] \in Nat
         /\ \E n \in 1 .. Length[written] - 1 :
              /\ Len(rest) = Length[written] - n
              /\ \A k \in 1 .. Len(rest) : rest[k] = [line |-> written, at |-> n + k]
  <1>1. written \in 1 .. Lines /\ written \in LineIds
    BY LineNumbers DEF RestInv
  <1>2. Length[written] \in Nat
    BY <1>1, LengthType
  <1>3. PICK n \in 1 .. Length[written] - 1 :
          rest = SubSeq(Text(written), n + 1, Length[written])
    BY DEF RestInv
  <1>4. n + 1 \in 1 .. Length[written] /\ Length[written] \in n + 1 .. Length[written]
    BY <1>2
  <1>5. /\ Len(rest) = Length[written] - (n + 1) + 1
        /\ \A k \in 1 .. Length[written] - (n + 1) + 1 :
             rest[k] = [line |-> written, at |-> (n + 1) + k - 1]
    BY <1>1, <1>3, <1>4, PartOfText
  <1>6. Len(rest) = Length[written] - n
    BY <1>2, <1>5
  <1>7. ASSUME NEW k \in 1 .. Len(rest)
        PROVE  rest[k] = [line |-> written, at |-> n + k]
    <2>1. k \in 1 .. Length[written] - (n + 1) + 1 /\ (n + 1) + k - 1 = n + k
      BY <1>2, <1>6
    <2> QED
      BY <1>5, <2>1
  <1> QED
    BY <1>1, <1>2, <1>6, <1>7

LEMMA RestStep ==
  ASSUME TypeOK, RestInv, [Next]_vars
  PROVE  RestInv'
  <1>1. CASE WorkerLogs
    <2>1. written' = written + 1 /\ faults' = faults
      BY <1>1 DEF WorkerLogs, parentVars
    <2> QED
      BY <1>1, <2>1, WriteCases DEF RestInv, Text
  <1>2. CASE WorkerLogsRest
    BY <1>2 DEF WorkerLogsRest, RestInv
  <1>3. CASE UNCHANGED <<rest, written>>
    BY <1>3, FaultsStay DEF RestInv, Text
  <1> QED
    BY <1>1, <1>2, <1>3, WhoWrites

\* A line that is all there stays as it is when more is appended.
LEMMA LineStays ==
  ASSUME TypeOK, NEW t \in Seq(Unit), log' = log \o t,
         NEW i \in 1 .. Len(log), LineAt(i), AllOfIt(i)
  PROVE  LineAt(i)' /\ AllOfIt(i)'
  <1>1. /\ Len(log') = Len(log) + Len(t)
        /\ Len(log) \in Nat /\ Len(t) \in Nat
        /\ \A j \in 1 .. Len(log) : log'[j] = log[j]
    BY Appended
  <1>2. log'[i] = log[i] /\ Length[log[i].line] \in Nat
    BY <1>1, LogUnits, LengthType
  <1>3. i + Length[log[i].line] - 1 <= Len(log)
    BY DEF AllOfIt
  <1>4. ASSUME NEW k \in 1 .. Length[log[i].line]
        PROVE  log'[i + k - 1] = [line |-> log[i].line, at |-> k]
    <2>1. i + k - 1 <= Len(log) /\ i + k - 1 \in 1 .. Len(log)
      BY <1>1, <1>2, <1>3
    <2> QED
      BY <1>1, <2>1 DEF LineAt
  <1>5. LineAt(i)'
    BY <1>2, <1>4 DEF LineAt
  <1>6. AllOfIt(i)'
    BY <1>1, <1>2, <1>3 DEF AllOfIt
  <1> QED
    BY <1>5, <1>6

\* Where a place behind the old end is in what was appended.
LEMMA Offset ==
  ASSUME NEW a \in Int, NEW b \in Int, NEW i \in Int, a < i, i <= a + b
  PROVE  \E k \in 1 .. b : i = a + k
  <1>1. i - a \in 1 .. b /\ i = a + (i - a)
    OBVIOUS
  <1> QED
    BY <1>1

\* From first on the file holds nothing but (a part of) line l.
OnlyLine(l, first) ==
  /\ LineAt(first)
  /\ \A i \in first .. Len(log) : log[i].line = l
  /\ \A i \in first .. Len(log) : log[i].at = 1 => i = first

\* A line that is appended, or the first part of it, begins at the old end.
LEMMA LineBegins ==
  ASSUME TypeOK, NEW t \in Seq(Unit), log' = log \o t,
         NEW l \in LineIds, Len(t) \in 1 .. Length[l],
         \A k \in 1 .. Len(t) : t[k] = [line |-> l, at |-> k],
         NEW first, first = Len(log) + 1
  PROVE  /\ OnlyLine(l, first)'
         /\ Len(t) = Length[l] => AllOfIt(first)'
         /\ log'[Len(log')] = [line |-> l, at |-> Len(t)]
  <1>0. Length[l] \in Nat
    BY LengthType
  <1>1. /\ Len(log') = Len(log) + Len(t)
        /\ Len(log) \in Nat /\ Len(t) \in Nat /\ first \in Nat
        /\ \A k \in 1 .. Len(t) : log'[Len(log) + k] = t[k]
    BY Appended
  <1>2. ASSUME NEW i \in first .. Len(log')
        PROVE  /\ log'[i] = [line |-> l, at |-> i - Len(log)]
               /\ log'[i].line = l /\ log'[i].at = i - Len(log)
    <2>1. /\ Len(log) \in Int /\ Len(t) \in Int /\ i \in Int
          /\ Len(log) < i /\ i <= Len(log) + Len(t)
      BY <1>1
    <2>2. PICK k \in 1 .. Len(t) : i = Len(log) + k
      BY <2>1, Offset
    <2>3. log'[i] = [line |-> l, at |-> k]
      BY <1>1, <2>2
    <2>4. i - Len(log) = k
      BY <2>1, <2>2
    <2> QED
      BY <2>3, <2>4
  <1>3. ASSUME NEW i \in first .. Len(log'), log'[i].at = 1
        PROVE  i = first
    <2>1. log'[i].at = i - Len(log)
      BY <1>2
    <2> QED
      BY <1>1, <1>3, <2>1
  <1>4. log'[Len(log')] = [line |-> l, at |-> Len(t)]
    BY <1>1, <1>2
  <1>5. log'[first].line = l
    <2>1. first \in first .. Len(log')
      BY <1>1
    <2> QED
      BY <1>2, <2>1
  <1>6. ASSUME NEW k \in 1 .. Length[l], first + k - 1 <= Len(log')
        PROVE  log'[first + k - 1] = [line |-> l, at |-> k]
    <2>1. first + k - 1 \in first .. Len(log') /\ first + k - 1 - Len(log) = k
      BY <1>0, <1>1, <1>6
    <2> QED
      BY <1>2, <2>1, SMTT(30)
  <1>7. LineAt(first)'
    BY <1>5, <1>6 DEF LineAt
  <1>8. Len(t) = Length[l] => AllOfIt(first)'
    BY <1>1, <1>5 DEF AllOfIt
  <1>9. OnlyLine(l, first)'
    BY <1>2, <1>3, <1>7 DEF OnlyLine
  <1> QED
    BY <1>4, <1>8, <1>9

\* The rest of a short write completes the line it belongs to.
LEMMA LineCompletes ==
  ASSUME TypeOK, RestInv, rest # <<>>, log' = log \o rest,
         NEW i \in 1 .. Len(log), LineAt(i), ~AllOfIt(i),
         log[Len(log)] = [line |-> written, at |-> Length[written] - Len(rest)]
  PROVE  LineAt(i)' /\ AllOfIt(i)'
  <1>1. PICK n \in 1 .. Length[written] - 1 :
          /\ Len(rest) = Length[written] - n
          /\ \A k \in 1 .. Len(rest) : rest[k] = [line |-> written, at |-> n + k]
    BY RestProperties
  <1>2. Length[written] \in Nat /\ rest \in Seq(Unit)
    BY RestProperties DEF TypeOK
  <1>3. /\ Len(log') = Len(log) + Len(rest)
        /\ Len(log) \in Nat
        /\ \A j \in 1 .. Len(log) : log'[j] = log[j]
        /\ \A k \in 1 .. Len(rest) : log'[Len(log) + k] = rest[k]
    BY <1>2, Appended
  <1>4. Length[log[i].line] \in Nat
    BY LogUnits, LengthType
  <1>5. PICK m : m = Len(log) - i + 1
    OBVIOUS
  <1>6. m \in 1 .. Length[log[i].line] /\ i + m - 1 = Len(log)
    <2>1. PICK a : a = Len(log)
      OBVIOUS
    <2>2. PICK b : b = Length[log[i].line]
      OBVIOUS
    <2>3. a \in Nat /\ b \in Nat /\ i \in 1 .. a /\ m = a - i + 1
      BY <1>3, <1>4, <1>5, <2>1, <2>2
    <2>4. ~(i + b - 1 <= a)
      BY <2>1, <2>2 DEF AllOfIt
    <2>5. m \in 1 .. b /\ i + m - 1 = a
      BY <2>3, <2>4
    <2> QED
      BY <2>1, <2>2, <2>5
  <1>7. log[i].line = written /\ m = n
    <2>1. i + m - 1 <= Len(log)
      BY <1>3, <1>6
    <2>2. log[i + m - 1] = [line |-> log[i].line, at |-> m]
      BY <1>6, <2>1 DEF LineAt
    <2>3. [line |-> log[i].line, at |-> m] =
            [line |-> written, at |-> Length[written] - Len(rest)]
      BY <1>6, <2>2
    <2>4. log[i].line = written /\ m = Length[written] - Len(rest)
      BY <2>3
    <2> QED
      BY <1>1, <1>2, <2>4
  <1>8. log'[i] = log[i]
    BY <1>3
  <1>9. AllOfIt(i)'
    <2>1. i + Length[written] - 1 <= Len(log) + Len(rest)
      BY <1>1, <1>2, <1>3, <1>6, <1>7, SMTT(30)
    <2> QED
      BY <1>3, <1>7, <1>8, <2>1 DEF AllOfIt
  <1>10. ASSUME NEW k \in 1 .. Length[written]
         PROVE  log'[i + k - 1] = [line |-> written, at |-> k]
    <2>1. CASE i + k - 1 <= Len(log)
      <3>1. log[i + k - 1] = [line |-> written, at |-> k]
        BY <1>7, <2>1 DEF LineAt
      <3>2. i + k - 1 \in 1 .. Len(log)
        BY <1>2, <1>3, <2>1
      <3> QED
        BY <1>3, <3>1, <3>2
    <2>2. CASE ~(i + k - 1 <= Len(log))
      <3>1. /\ Len(log) \in Int /\ Len(rest) \in Int /\ i + k - 1 \in Int
            /\ Len(log) < i + k - 1 /\ i + k - 1 <= Len(log) + Len(rest)
        <4>1. i \in Int /\ k \in Int /\ n \in Int /\ k <= Length[written]
          BY <1>2, <1>3
        <4>2. Len(rest) = Length[written] - n /\ Len(rest) \in Int
          BY <1>1, <1>2, <4>1
        <4>3. i + n - 1 = Len(log) /\ Len(log) \in Int
          BY <1>3, <1>6, <1>7
        <4>4. i + k - 1 <= Len(log) + Len(rest)
          BY <1>2, <4>1, <4>2, <4>3, SMTT(30)
        <4> QED
          BY <2>2, <4>1, <4>2, <4>3, <4>4, SMTT(30)
      <3>2. PICK j \in 1 .. Len(rest) : i + k - 1 = Len(log) + j
        BY <3>1, Offset
      <3>3. n + j = k
        <4>1. i \in Int /\ k \in Int /\ n \in Int /\ j \in Int
          BY <1>2, <1>3, <3>1, <3>2
        <4>2. i + n - 1 = Len(log) /\ Len(log) \in Int
          BY <1>3, <1>6, <1>7
        <4> QED
          BY <3>2, <4>1, <4>2
      <3> QED
        BY <1>1, <1>3, <3>2, <3>3
    <2> QED
      BY <2>1, <2>2
  <1>11. LineAt(i)'
    BY <1>7, <1>8, <1>10 DEF LineAt
  <1> QED
    BY <1>9, <1>11

LEMMA WholeStep ==
  ASSUME TypeOK, RestInv, WholeInv, [Next]_vars
  PROVE  WholeInv'
  <1> SUFFICES ASSUME "short" \notin faults
               PROVE  WholeInv'
    BY FaultsStay DEF WholeInv
  <1>1. ASSUME NEW l \in LineIds, log' = log \o Text(l)
        PROVE  WholeInv'
    <2>1. /\ Text(l) \in Seq(Unit) /\ Len(Text(l)) = Length[l]
          /\ \A k \in 1 .. Length[l] : Text(l)[k] = [line |-> l, at |-> k]
      BY TextProperties
    <2>2. Length[l] \in Nat \ {0}
      BY LengthType
    <2>3. /\ Len(log') = Len(log) + Length[l]
          /\ Len(log) \in Nat
          /\ \A i \in 1 .. Len(log) : log'[i] = log[i]
      BY <1>1, <2>1, Appended
    <2>4. ASSUME NEW i \in 1 .. Len(log'), log'[i].at = 1
          PROVE  LineAt(i)' /\ AllOfIt(i)'
      <3>1. CASE i \in 1 .. Len(log)
        <4>1. LineAt(i) /\ AllOfIt(i)
          BY <2>3, <2>4, <3>1 DEF WholeInv
        <4> QED
          BY <1>1, <2>1, <3>1, <4>1, LineStays
      <3>2. CASE i \notin 1 .. Len(log)
        <4>1. PICK first : first = Len(log) + 1
          OBVIOUS
        <4>2. Len(Text(l)) \in 1 .. Length[l]
          BY <2>1, <2>2
        <4>3. OnlyLine(l, first)' /\ AllOfIt(first)'
          <5>1. \A k \in 1 .. Len(Text(l)) : Text(l)[k] = [line |-> l, at |-> k]
            BY <2>1
          <5> HIDE DEF Text
          <5> QED
            BY <1>1, <2>1, <4>1, <4>2, <5>1, LineBegins
        <4>4. i \in first .. Len(log')
          BY <2>2, <2>3, <3>2, <4>1
        <4>5. i = first /\ LineAt(first)'
          BY <2>4, <4>3, <4>4 DEF OnlyLine
        <4> QED
          BY <4>3, <4>5
      <3> QED
        BY <3>1, <3>2
    <2> QED
      BY <2>4 DEF WholeInv
  <1>2. CASE WorkerLogs
    <2>1. log' = log \o Text(written + 1) /\ written + 1 \in LineIds
      BY <1>2, WriteCases
    <2> QED
      BY <1>1, <2>1
  <1>3. CASE WorkerLogsRest
    BY <1>3 DEF WorkerLogsRest, RestInv
  <1>4. CASE log' = log
    BY <1>4, FaultsStay DEF WholeInv, LineAt, AllOfIt
  <1>5. CASE Heartbeat
    <2>1. log' = log \o Text(HeartbeatLine) \/ log' = log
      BY <1>5 DEF Heartbeat, HeartbeatLine
    <2>2. HeartbeatLine \in LineIds
      BY <1>5, LineNumbers DEF Heartbeat
    <2> QED
      BY <1>1, <1>4, <2>1, <2>2
  <1> QED
    BY <1>2, <1>3, <1>4, <1>5, WhoWrites

\* What is beyond the cursor, under each kind of step.
LEMMA PlaceRead ==
  ASSUME TypeOK, PlaceInv, InPlace, NEW flush \in BOOLEAN, StreamLines(flush),
         log' = log, rest' = rest, written' = written, mark' = mark,
         drift' = drift
  PROVE  PlaceInv'
  <1>0. /\ Len(log) \in Nat /\ cursor \in Nat /\ cursor <= Len(log)
        /\ mark \in Nat /\ mark <= cursor
    BY LogUnits DEF TypeOK, PlaceInv
  <1>1. cursor' \in cursor .. Len(log)
    <2>1. CASE UNCHANGED cursor
      BY <1>0, <2>1
    <2>2. CASE cursor' = ReadableEnd(flush, cursor)
      BY <1>0, <2>2, ReadableEndProperties
    <2> QED
      BY <1>0, <2>1, <2>2 DEF StreamLines
  <1>2. PICK end \in cursor .. Len(log) : cursor' = end
    BY <1>1
  <1>3. mark <= end /\ end <= Len(log)
    BY <1>0
  <1>4. ASSUME NEW i \in end + 1 .. Len(log)
        PROVE  i \in Beyond /\ (i = cursor + 1 => i = end + 1)
    BY <1>0 DEF Beyond
  <1>5. end < Len(log) => cursor < Len(log)
    BY <1>0
  <1> QED
    BY <1>2, <1>3, <1>4, <1>5
    DEF PlaceInv, InPlace, Beyond, LineAt, AllOfIt, EndsLine

LEMMA PlaceWrite ==
  ASSUME TypeOK, RestInv, PlaceInv, InPlace, WorkerLogs
  PROVE  PlaceInv'
  <1>1. PICK line : line = written + 1
    OBVIOUS
  <1>2. /\ Len(log) \in Nat /\ cursor \in Nat /\ cursor <= Len(log)
        /\ mark \in Nat /\ mark <= cursor /\ rest = <<>>
        /\ cursor' = cursor /\ mark' = mark /\ written' = line
    BY <1>1, LogUnits DEF TypeOK, PlaceInv, WorkerLogs, parentVars
  <1>3. /\ line \in 1 .. Lines /\ line \in LineIds
        /\ Length[line] \in Nat \ {0}
    BY <1>1, <1>2, WriteCases
  <1>4. PICK t \in Seq(Unit) :
          /\ log' = log \o t
          /\ Len(t) \in 1 .. Length[line]
          /\ \A k \in 1 .. Len(t) : t[k] = [line |-> line, at |-> k]
          /\ IF Len(t) = Length[line] THEN rest' = <<>>
             ELSE rest' # <<>> /\ Len(rest') = Length[line] - Len(t)
    <2>1. CASE log' = log \o Text(line) /\ rest' = <<>>
      BY <1>3, <2>1, TextProperties
    <2>2. ASSUME NEW n \in 1 .. Length[line] - 1,
                 log' = log \o SubSeq(Text(line), 1, n),
                 rest' = SubSeq(Text(line), n + 1, Length[line])
          PROVE  \E t \in Seq(Unit) :
                   /\ log' = log \o t
                   /\ Len(t) \in 1 .. Length[line]
                   /\ \A k \in 1 .. Len(t) : t[k] = [line |-> line, at |-> k]
                   /\ IF Len(t) = Length[line] THEN rest' = <<>>
                      ELSE rest' # <<>> /\ Len(rest') = Length[line] - Len(t)
      <3> DEFINE t == SubSeq(Text(line), 1, n)
                 r == SubSeq(Text(line), n + 1, Length[line])
      <3>1. /\ 1 \in 1 .. Length[line] /\ n \in 1 .. Length[line]
            /\ n + 1 \in 1 .. Length[line]
            /\ Length[line] \in n + 1 .. Length[line]
        BY <1>3
      <3>2. /\ t \in Seq(Unit) /\ Len(t) = n - 1 + 1
            /\ \A k \in 1 .. n - 1 + 1 : t[k] = [line |-> line, at |-> 1 + k - 1]
        BY <1>3, <3>1, PartOfText
      <3>3. r \in Seq(Unit) /\ Len(r) = Length[line] - (n + 1) + 1
        BY <1>3, <3>1, PartOfText
      <3> HIDE DEF t, r
      <3>4. Len(t) = n
        BY <3>2
      <3>5. \A k \in 1 .. Len(t) : t[k] = [line |-> line, at |-> k]
        BY <3>2, <3>4
      <3>6. Len(r) = Length[line] - n /\ Len(r) # 0
        BY <1>3, <3>3
      <3>7. r # <<>>
        BY <3>6, EmptySeq
      <3>8. Len(t) \in 1 .. Length[line] /\ Len(t) # Length[line]
        BY <1>3, <3>1, <3>4
      <3>9. log' = log \o t /\ rest' = r
        BY <2>2 DEF t, r
      <3> QED
        BY <3>2, <3>4, <3>5, <3>6, <3>7, <3>8, <3>9
    <2> QED
      BY <1>1, <1>2, <2>1, <2>2, WriteCases
  <1>5. /\ Len(log') = Len(log) + Len(t) /\ Len(t) \in Nat
        /\ \A i \in 1 .. Len(log) : log'[i] = log[i]
    BY <1>4, Appended
  <1>6. PICK first : first = Len(log) + 1
    OBVIOUS
  <1>7. /\ OnlyLine(line, first)'
        /\ Len(t) = Length[line] => AllOfIt(first)'
        /\ log'[Len(log')] = [line |-> line, at |-> Len(t)]
    BY <1>3, <1>4, <1>6, LineBegins
  <1>8. cursor' <= Len(log') /\ mark' <= cursor'
    BY <1>1, <1>2, <1>5
  <1>9. ASSUME NEW i \in cursor + 1 .. Len(log)
        PROVE  /\ log'[i].line \in 1 .. Lines
               /\ log'[i].at = 1 =>
                    /\ i = cursor + 1 \/ EndsLine(log'[i - 1])
                    /\ LineAt(i)' /\ AllOfIt(i)'
    <2>1. i \in 1 .. Len(log) /\ log'[i] = log[i] /\ i \in Beyond
      BY <1>1, <1>2, <1>5 DEF Beyond
    <2>2. log[i].line \in 1 .. Lines
      BY <2>1 DEF PlaceInv
    <2>3. log[i].at = 1 => /\ i = cursor + 1 \/ EndsLine(log[i - 1])
                           /\ LineAt(i) /\ AllOfIt(i)
      BY <1>1, <1>2, <2>1 DEF PlaceInv
    <2>4. i # cursor + 1 => i - 1 \in 1 .. Len(log)
      BY <1>1, <1>2
    <2>5. i # cursor + 1 => log'[i - 1] = log[i - 1]
      BY <1>5, <2>4
    <2>6. LineAt(i) /\ AllOfIt(i) => LineAt(i)' /\ AllOfIt(i)'
      BY <1>4, <2>1, LineStays
    <2> QED
      BY <2>1, <2>2, <2>3, <2>5, <2>6
  <1>10. ASSUME NEW i \in first .. Len(log')
        PROVE  /\ log'[i].line \in 1 .. Lines
               /\ log'[i].at = 1 =>
                    /\ i = cursor + 1 \/ EndsLine(log'[i - 1])
                    /\ LineAt(i)'
                    /\ AllOfIt(i)' \/ rest' # <<>>
    <2>1. log'[i].line = line
      BY <1>7 DEF OnlyLine
    <2>2. ASSUME log'[i].at = 1
          PROVE  /\ i = cursor + 1 \/ EndsLine(log'[i - 1])
                 /\ LineAt(i)'
                 /\ AllOfIt(i)' \/ rest' # <<>>
      <3>1. i = first /\ LineAt(first)'
        BY <1>7, <2>2 DEF OnlyLine
      <3>2. CASE cursor = Len(log)
        BY <1>4, <1>6, <1>7, <3>1, <3>2
      <3>3. CASE cursor # Len(log)
        <4>1. cursor < Len(log) /\ Len(log) \in 1 .. Len(log)
          BY <1>1, <1>2, <3>3
        <4>2. EndsLine(log[Len(log)])
          BY <1>1, <1>2, <4>1 DEF PlaceInv
        <4>3. i - 1 = Len(log)
          BY <1>1, <1>2, <1>6, <3>1
        <4>4. EndsLine(log'[i - 1])
          BY <1>5, <4>1, <4>2, <4>3
        <4> QED
          BY <1>4, <1>7, <3>1, <4>4
      <3> QED
        BY <3>2, <3>3
    <2> QED
      BY <1>3, <2>1, <2>2
  <1>11. \A i \in cursor + 1 .. Len(log') :
          i \in cursor + 1 .. Len(log) \/ i \in first .. Len(log')
    BY <1>1, <1>2, <1>5, <1>6
  <1>12. IF rest' = <<>> THEN EndsLine(log'[Len(log')])
         ELSE log'[Len(log')] =
                [line |-> written', at |-> Length[written'] - Len(rest')]
    <2>1. CASE Len(t) = Length[line]
      BY <1>4, <1>7, <2>1 DEF EndsLine
    <2>2. CASE Len(t) # Length[line]
      <3>1. Length[line] - (Length[line] - Len(t)) = Len(t)
        BY <1>3, <1>5
      <3> QED
        BY <1>1, <1>2, <1>4, <1>7, <2>2, <3>1
    <2> QED
      BY <2>1, <2>2
  <1> QED
    BY <1>1, <1>2, <1>8, <1>9, <1>10, <1>11, <1>12 DEF PlaceInv, InPlace, Beyond

LEMMA PlaceWriteRest ==
  ASSUME TypeOK, RestInv, PlaceInv, InPlace, WorkerLogsRest
  PROVE  PlaceInv'
  <1>0. /\ Len(log) \in Nat /\ cursor \in Nat /\ cursor <= Len(log)
        /\ mark \in Nat /\ mark <= cursor
        /\ rest # <<>> /\ rest \in Seq(Unit) /\ log' = log \o rest
        /\ rest' = <<>>
        /\ cursor' = cursor /\ mark' = mark
    BY LogUnits DEF TypeOK, PlaceInv, WorkerLogsRest, parentVars
  <1>1. /\ written \in 1 .. Lines
        /\ Length[written] \in Nat
        /\ \E n \in 1 .. Length[written] - 1 :
             /\ Len(rest) = Length[written] - n
             /\ \A k \in 1 .. Len(rest) :
                  rest[k] = [line |-> written, at |-> n + k]
    BY <1>0, RestProperties
  <1>2. PICK n \in 1 .. Length[written] - 1 :
          /\ Len(rest) = Length[written] - n
          /\ \A k \in 1 .. Len(rest) : rest[k] = [line |-> written, at |-> n + k]
    BY <1>1
  <1>3. /\ Len(log') = Len(log) + Len(rest) /\ Len(rest) \in Nat
        /\ \A i \in 1 .. Len(log) : log'[i] = log[i]
        /\ \A k \in 1 .. Len(rest) : log'[Len(log) + k] = rest[k]
    BY <1>0, Appended
  <1>4. cursor' <= Len(log') /\ mark' <= cursor'
    BY <1>0, <1>3
  <1>5. ASSUME NEW i \in cursor + 1 .. Len(log)
        PROVE  /\ log'[i].line \in 1 .. Lines
               /\ log'[i].at = 1 =>
                    /\ i = cursor + 1 \/ EndsLine(log'[i - 1])
                    /\ LineAt(i)' /\ AllOfIt(i)'
    <2>1. i \in 1 .. Len(log) /\ log'[i] = log[i] /\ i \in Beyond
      BY <1>0, <1>3 DEF Beyond
    <2>2. log[i].line \in 1 .. Lines
      BY <2>1 DEF PlaceInv
    <2>3. log[i].at = 1 => (i = cursor + 1 \/ EndsLine(log[i - 1])) /\ LineAt(i)
      BY <2>1 DEF PlaceInv
    <2>4. i # cursor + 1 => i - 1 \in 1 .. Len(log)
      BY <1>0
    <2>5. i # cursor + 1 => log'[i - 1] = log[i - 1]
      BY <1>3, <2>4
    <2>6. cursor < Len(log)
      BY <1>0
    <2>7. log[Len(log)] = [line |-> written, at |-> Length[written] - Len(rest)]
      BY <1>0, <2>6 DEF PlaceInv
    <2>8. CASE AllOfIt(i)
      <3>1. LineAt(i) => LineAt(i)' /\ AllOfIt(i)'
        BY <1>0, <2>1, <2>8, LineStays
      <3> QED
        BY <2>1, <2>2, <2>3, <2>5, <3>1
    <2>9. CASE ~AllOfIt(i)
      <3>1. LineAt(i) => LineAt(i)' /\ AllOfIt(i)'
        BY <1>0, <2>1, <2>7, <2>9, LineCompletes
      <3> QED
        BY <2>1, <2>2, <2>3, <2>5, <3>1
    <2> QED
      BY <2>8, <2>9
  <1>6. ASSUME NEW k \in 1 .. Len(rest)
        PROVE  /\ log'[Len(log) + k].line = written
               /\ log'[Len(log) + k].at = n + k
               /\ log'[Len(log) + k].at # 1
    <2>1. log'[Len(log) + k] = [line |-> written, at |-> n + k]
      BY <1>2, <1>3
    <2>2. n + k # 1
      BY <1>3
    <2> QED
      BY <2>1, <2>2
  <1>7. PICK end : end = Len(log')
    OBVIOUS
  <1>8. ASSUME NEW i \in cursor + 1 .. end, i \notin cursor + 1 .. Len(log)
        PROVE  log'[i].line \in 1 .. Lines /\ log'[i].at # 1
    <2>1. /\ Len(log) \in Int /\ Len(rest) \in Int /\ i \in Int
          /\ Len(log) < i /\ i <= Len(log) + Len(rest)
      BY <1>0, <1>3, <1>7, <1>8
    <2>2. PICK k \in 1 .. Len(rest) : i = Len(log) + k
      BY <2>1, Offset
    <2> QED
      BY <1>1, <1>6, <2>2
  <1>9. EndsLine(log'[Len(log')])
    <2>1. Len(rest) \in 1 .. Len(rest) /\ n + Len(rest) = Length[written]
      BY <1>1, <1>2, <1>3, SMTT(30)
    <2> QED
      BY <1>3, <1>6, <2>1 DEF EndsLine
  <1> QED
    BY <1>0, <1>4, <1>5, <1>7, <1>8, <1>9 DEF PlaceInv, InPlace, Beyond

\* Where the cursor is put at the end of the file there is nothing beyond it.
LEMMA PlaceAtEnd ==
  ASSUME TypeOK', cursor' = Len(log'), mark' <= cursor'
  PROVE  PlaceInv'
  <1>1. PICK end \in Nat : cursor' = end
    BY DEF TypeOK
  <1>2. end + 1 .. end = {} /\ ~(end < end) /\ end <= end
    OBVIOUS
  <1> QED
    BY <1>1, <1>2 DEF PlaceInv, Beyond

LEMMA PlaceStep ==
  ASSUME TypeOK, TypeOK', RestInv, PlaceInv, [Next]_vars
  PROVE  PlaceInv'
  <1>0. Len(log) \in Nat
    BY LogUnits
  <1>1. CASE SetCursor
    <2>1. CASE drift' = TRUE
      BY <2>1 DEF PlaceInv, InPlace
    <2>2. CASE cursor' = Len(log)
      <3>1. log' = log /\ mark' = Len(log)
        BY <1>1 DEF SetCursor
      <3>2. mark' <= cursor'
        BY <1>0, <2>2, <3>1
      <3> QED
        BY <2>2, <3>1, <3>2, PlaceAtEnd
    <2> QED
      BY <1>1, <2>1, <2>2 DEF SetCursor
  <1>2. CASE Stream \/ Flush
    <2>1. CASE InPlace
      <3>1. /\ StreamLines(FALSE) \/ StreamLines(TRUE)
            /\ log' = log /\ rest' = rest /\ written' = written
            /\ mark' = mark /\ drift' = drift
        BY <1>2 DEF Stream, Flush, workerVars
      <3> QED
        BY <2>1, <3>1, PlaceRead
    <2>2. CASE ~InPlace
      <3>1. pc # "launched" /\ drift' = drift
        BY <1>2 DEF Stream, Flush
      <3>2. ~InPlace'
        BY <2>2, <3>1 DEF InPlace
      <3> QED
        BY <3>2 DEF PlaceInv
    <2> QED
      BY <2>1, <2>2
  <1>3. CASE Heartbeat
    <2>1. CASE drift' = TRUE
      BY <2>1 DEF PlaceInv, InPlace
    <2>2. CASE drift' # TRUE
      <3> DEFINE line == Lines + beats + 1
      <3>1. /\ log' = log \o Text(line) /\ drift' = (drift \/ cursor # Len(log))
            /\ cursor' = cursor + Length[line] /\ mark' = mark
        BY <1>3, <2>2 DEF Heartbeat
      <3>2. cursor = Len(log) /\ InPlace
        BY <1>3, <2>2, <3>1 DEF Heartbeat, InPlace, TypeOK
      <3>3. line \in LineIds
        BY <1>3, LineNumbers DEF Heartbeat, HeartbeatLine
      <3> HIDE DEF line
      <3>4. Length[line] \in Nat
        BY <3>3, LengthType
      <3>5. Len(log') = Len(log) + Length[line]
        BY <3>1, <3>3, TextProperties, Appended
      <3>6. mark <= cursor /\ mark \in Nat
        BY <3>2 DEF PlaceInv, TypeOK
      <3>7. mark <= cursor + Length[line]
        BY <1>0, <3>2, <3>4, <3>6
      <3> QED
        BY <3>1, <3>2, <3>5, <3>7, PlaceAtEnd
    <2> QED
      BY <2>1, <2>2
  <1>4. CASE WorkerLogs
    BY <1>4, PlaceWrite DEF WorkerLogs, parentVars, PlaceInv, InPlace
  <1>5. CASE WorkerLogsRest
    BY <1>5, PlaceWriteRest DEF WorkerLogsRest, parentVars, PlaceInv, InPlace
  <1>6. CASE ~FileStep
    BY <1>6, OtherSteps
    DEF PlaceInv, InPlace, Beyond, LineAt, AllOfIt, EndsLine
  <1> QED
    BY <1>1, <1>2, <1>3, <1>4, <1>5, <1>6 DEF FileStep

(***************************************************************************)
(* What is shown.                                                          *)
(***************************************************************************)
LEMMA BegunProperties ==
  ASSUME TypeOK, NEW end \in Nat
  PROVE  /\ Begun(end) \in SUBSET (mark + 1 .. end)
         /\ Begun(end) \in SUBSET Nat /\ IsFiniteSet(Begun(end))
         /\ end <= Len(log) => Begun(end) \in SUBSET (1 .. Len(log))
  <1>1. mark \in Nat /\ Len(log) \in Nat
    BY LogUnits DEF TypeOK
  <1>2. Begun(end) \in SUBSET (mark + 1 .. end)
    BY DEF Begun
  <1>3. \A i \in mark + 1 .. end : i \in Nat /\ (end <= Len(log) => i \in 1 .. Len(log))
    BY <1>1
  <1>4. IsFiniteSet(mark + 1 .. end)
    BY <1>1, FS_Interval
  <1>5. IsFiniteSet(Begun(end))
    BY <1>2, <1>4, FS_Subset
  <1> QED
    BY <1>2, <1>3, <1>5

LEMMA LinesAtType ==
  ASSUME TypeOK, NEW S \in SUBSET (1 .. Len(log))
  PROVE  /\ S \in SUBSET Nat /\ IsFiniteSet(S)
         /\ LinesAt(S) \in Seq(LineIds)
         /\ Len(LinesAt(S)) = Cardinality(S)
         /\ DOMAIN LinesAt(S) = 1 .. Cardinality(S)
         /\ \A n \in 1 .. Cardinality(S) : LinesAt(S)[n] = log[Ascending(S)[n]].line
  <1>1. Len(log) \in Nat
    BY LogUnits
  <1>2. S \in SUBSET Nat /\ IsFiniteSet(S)
    <2>1. IsFiniteSet(1 .. Len(log))
      BY <1>1, FS_Interval
    <2>2. IsFiniteSet(S)
      BY <2>1, FS_Subset
    <2>3. \A i \in 1 .. Len(log) : i \in Nat
      BY <1>1
    <2> QED
      BY <2>2, <2>3
  <1>3. Cardinality(S) \in Nat
    BY <1>2, FS_CardinalityType
  <1>4. /\ DOMAIN Ascending(S) = 1 .. Cardinality(S)
        /\ \A n \in 1 .. Cardinality(S) : Ascending(S)[n] \in S
    BY <1>2, AscendingProperties
  <1>5. \A n \in 1 .. Cardinality(S) : log[Ascending(S)[n]].line \in LineIds
    BY <1>4, LogUnits
  <1>6. LinesAt(S) \in [1 .. Cardinality(S) -> LineIds]
    BY <1>4, <1>5 DEF LinesAt
  <1>7. LinesAt(S) \in Seq(LineIds)
    BY <1>3, <1>6, SeqDef
  <1>8. DOMAIN LinesAt(S) = 1 .. Cardinality(S)
    BY <1>4 DEF LinesAt
  <1>9. Len(LinesAt(S)) = Cardinality(S)
    BY <1>3, <1>7, <1>8, LenProperties
  <1>10. \A n \in 1 .. Cardinality(S) : LinesAt(S)[n] = log[Ascending(S)[n]].line
    BY <1>4 DEF LinesAt
  <1> QED
    BY <1>2, <1>7, <1>8, <1>9, <1>10

LEMMA LinesAtConcat ==
  ASSUME TypeOK, NEW A \in SUBSET (1 .. Len(log)), NEW B \in SUBSET (1 .. Len(log)),
         \A a \in A, b \in B : a < b
  PROVE  LinesAt(A \cup B) = LinesAt(A) \o LinesAt(B)
  <1> DEFINE S == A \cup B
             s == LinesAt(S)
             a == LinesAt(A)
             b == LinesAt(B)
             m == Cardinality(A)
             n == Cardinality(B)
  <1>1. /\ A \in SUBSET Nat /\ IsFiniteSet(A) /\ a \in Seq(LineIds) /\ Len(a) = m
        /\ \A k \in 1 .. m : a[k] = log[Ascending(A)[k]].line
    BY LinesAtType
  <1>2. /\ B \in SUBSET Nat /\ IsFiniteSet(B) /\ b \in Seq(LineIds) /\ Len(b) = n
        /\ \A k \in 1 .. n : b[k] = log[Ascending(B)[k]].line
    BY LinesAtType
  <1>3. /\ S \in SUBSET Nat /\ IsFiniteSet(S) /\ s \in Seq(LineIds)
        /\ Len(s) = Cardinality(S)
        /\ \A k \in 1 .. Cardinality(S) : s[k] = log[Ascending(S)[k]].line
    BY LinesAtType
  <1>4. Ascending(S) = Ascending(A) \o Ascending(B)
    BY <1>1, <1>2, AscendingConcat
  <1>5. /\ Ascending(A) \in Seq(A) /\ Len(Ascending(A)) = m
        /\ Ascending(B) \in Seq(B) /\ Len(Ascending(B)) = n
        /\ Len(Ascending(S)) = Cardinality(S)
    BY <1>1, <1>2, <1>3, AscendingProperties
  <1>6. Ascending(A) \in Seq(Nat) /\ Ascending(B) \in Seq(Nat)
    BY <1>1, <1>2, <1>5, SeqMonotonic
  <1>7. m \in Nat /\ n \in Nat
    BY <1>1, <1>2, FS_CardinalityType
  <1> HIDE DEF a, b, s, m, n, S
  <1>8. /\ Cardinality(S) = m + n
        /\ \A k \in 1 .. m + n : Ascending(S)[k] =
             IF k <= m THEN Ascending(A)[k] ELSE Ascending(B)[k - m]
    <2> DEFINE f == Ascending(A)
               g == Ascending(B)
    <2>1. /\ f \in Seq(Nat) /\ g \in Seq(Nat) /\ Len(f) = m /\ Len(g) = n
          /\ Ascending(S) = f \o g
      BY <1>4, <1>5, <1>6
    <2> HIDE DEF f, g
    <2>2. /\ Len(f \o g) = m + n
          /\ \A k \in 1 .. m + n : (f \o g)[k] =
               IF k <= m THEN f[k] ELSE g[k - m]
      BY <2>1, ConcatProperties
    <2> QED
      BY <1>5, <2>1, <2>2 DEF f, g
  <1>9. /\ a \o b \in Seq(LineIds) /\ Len(a \o b) = m + n
        /\ \A k \in 1 .. m + n : (a \o b)[k] =
             IF k <= m THEN a[k] ELSE b[k - m]
    BY <1>1, <1>2, ConcatProperties, ZenonT(30)
  <1>10. ASSUME NEW k \in 1 .. m + n
         PROVE  s[k] = (a \o b)[k]
    <2>1. CASE k <= m
      <3>1. k \in 1 .. m
        BY <1>7, <2>1
      <3> QED
        BY <1>1, <1>3, <1>8, <1>9, <2>1, <3>1
    <2>2. CASE ~(k <= m)
      <3>1. k - m \in 1 .. n
        BY <1>7, <2>2
      <3> QED
        BY <1>2, <1>3, <1>8, <1>9, <2>2, <3>1
    <2> QED
      BY <2>1, <2>2
  <1>11. s = a \o b
    BY <1>3, <1>8, <1>9, <1>10, SeqEqual
  <1> QED
    BY <1>11 DEF s, a, b, S

\* What is read from the cursor on are the worker's records that begin there.
LEMMA StartsArePlaces ==
  ASSUME TypeOK, PlaceInv, InPlace, NEW end \in cursor .. Len(log)
  PROVE  /\ Begun(end) = Begun(cursor) \cup RecordStarts(cursor, end)
         /\ \A a \in Begun(cursor), b \in RecordStarts(cursor, end) : a < b
  <1>1. /\ mark \in Nat /\ cursor \in Nat /\ mark <= cursor
        /\ Len(log) \in Nat /\ cursor <= Len(log)
    BY LogUnits DEF TypeOK, PlaceInv
  <1>2. ASSUME NEW i \in cursor + 1 .. end
        PROVE  i \in RecordStarts(cursor, end) <=>
                 log[i].at = 1 /\ log[i].line \in Stamped \cap (1 .. Lines)
    <2>1. i \in Beyond
      BY <1>1 DEF Beyond
    <2>2. log[i].line \in 1 .. Lines
      BY <2>1 DEF PlaceInv
    <2>3. log[i].at = 1 => i = cursor + 1 \/ EndsLine(log[i - 1])
      BY <2>1 DEF PlaceInv
    <2> QED
      BY <2>2, <2>3 DEF RecordStarts, LineStarts, IsRecord
  <1>3. RecordStarts(cursor, end) \subseteq cursor + 1 .. end
    BY DEF RecordStarts, LineStarts
  <1>4. \A i \in mark + 1 .. end : i \in mark + 1 .. cursor \/ i \in cursor + 1 .. end
    BY <1>1
  <1>5. /\ mark + 1 .. cursor \subseteq mark + 1 .. end
        /\ cursor + 1 .. end \subseteq mark + 1 .. end
    BY <1>1
  <1>6. Begun(end) = Begun(cursor) \cup RecordStarts(cursor, end)
    BY <1>2, <1>3, <1>4, <1>5 DEF Begun
  <1>7. \A a \in mark + 1 .. cursor, b \in cursor + 1 .. end : a < b
    BY <1>1
  <1> QED
    BY <1>3, <1>6, <1>7 DEF Begun

\* The places up to the cursor, and the lines there, when the file has only
\* become longer.
LEMMA BegunStays ==
  ASSUME TypeOK, NEW c \in Nat, c <= Len(log), mark' = mark,
         \A i \in 1 .. Len(log) : log'[i] = log[i]
  PROVE  Begun(c)' = Begun(c) /\ LinesAt(Begun(c))' = LinesAt(Begun(c))
  <1> DEFINE S == Begun(c)
  <1>1. mark \in Nat /\ Len(log) \in Nat
    BY LogUnits DEF TypeOK
  <1>2. \A i \in mark + 1 .. c : i \in 1 .. Len(log)
    BY <1>1
  <1>3. \A i \in mark + 1 .. c : log'[i] = log[i]
    BY <1>2
  <1>4. Begun(c)' = S
    BY <1>3 DEF Begun
  <1>5. /\ S \in SUBSET (1 .. Len(log)) /\ S \in SUBSET Nat /\ IsFiniteSet(S)
    BY BegunProperties
  <1>6. /\ DOMAIN Ascending(S) = 1 .. Cardinality(S)
        /\ \A n \in 1 .. Cardinality(S) : Ascending(S)[n] \in S
    BY <1>5, AscendingProperties
  <1>7. \A n \in DOMAIN Ascending(S) : log'[Ascending(S)[n]] = log[Ascending(S)[n]]
    BY <1>5, <1>6
  <1> HIDE DEF S
  <1>8. [n \in DOMAIN Ascending(S) |-> log'[Ascending(S)[n]].line] =
          [n \in DOMAIN Ascending(S) |-> log[Ascending(S)[n]].line]
    BY <1>7
  <1>9. LinesAt(Begun(c))' =
          [n \in DOMAIN Ascending(S) |-> log'[Ascending(S)[n]].line]
    BY <1>4 DEF LinesAt
  <1>10. LinesAt(Begun(c)) =
          [n \in DOMAIN Ascending(S) |-> log[Ascending(S)[n]].line]
    BY DEF LinesAt, S
  <1> QED
    BY <1>4, <1>8, <1>9, <1>10 DEF S

LEMMA ShownLinesType ==
  ASSUME NEW s \in Seq(ShownRecord), NEW l, l = [n \in DOMAIN s |-> s[n].line]
  PROVE  /\ l \in Seq(LineIds) /\ Len(l) = Len(s) /\ DOMAIN l = 1 .. Len(s)
         /\ \A n \in 1 .. Len(s) : l[n] = s[n].line
  <1>1. DOMAIN s = 1 .. Len(s) /\ Len(s) \in Nat
    BY LenProperties
  <1>2. \A n \in 1 .. Len(s) : s[n].line \in LineIds
    <2>1. \A n \in 1 .. Len(s) : s[n] \in ShownRecord
      BY <1>1, ElementOfSeq
    <2> QED
      BY <2>1 DEF ShownRecord
  <1>3. l \in [1 .. Len(s) -> LineIds]
    BY <1>1, <1>2
  <1>4. l \in Seq(LineIds)
    BY <1>1, <1>3, SeqDef
  <1>5. Len(l) = Len(s)
    BY <1>1, <1>3, <1>4, LenProperties
  <1> QED
    BY <1>1, <1>3, <1>4, <1>5

\* What one read adds to what was shown, by its lines.
LEMMA ShownRead ==
  ASSUME TypeOK, PlaceInv, ShownInv, InPlace, NEW flush \in BOOLEAN,
         StreamLines(flush), log' = log, mark' = mark, drift' = drift,
         pc' # "launched"
  PROVE  ShownInv'
  <1>1. /\ cursor \in Nat /\ cursor <= Len(log) /\ Len(log) \in Nat
        /\ ~(Len(log) < cursor)
    BY LogUnits DEF TypeOK, PlaceInv
  <1>2. ShownLines = LinesAt(Begun(cursor))
    BY DEF ShownInv, InPlace
  <1>3. CASE cursor' = cursor /\ shown' = shown
    BY <1>2, <1>3, SMTT(30) DEF ShownInv, ShownLines, LinesAt, Begun, InPlace
  <1>4. CASE /\ cursor' = ReadableEnd(flush, cursor)
             /\ shown' = shown \o Records(cursor, cursor')
    <2>1. PICK end : end = ReadableEnd(flush, cursor)
      OBVIOUS
    <2>2. end \in cursor .. Len(log)
      BY <1>1, <2>1, ReadableEndProperties
    <2>3. end \in Nat /\ end <= Len(log)
      BY <1>1, <2>2
    <2>4. cursor' = end /\ shown' = shown \o Records(cursor, end)
      BY <1>4, <2>1
    <2> DEFINE A == Begun(cursor)
               B == RecordStarts(cursor, end)
               r == Records(cursor, end)
    <2>5. /\ A \in SUBSET (1 .. Len(log)) /\ Begun(end) \in SUBSET (1 .. Len(log))
      BY <1>1, <2>3, BegunProperties
    <2>6. Begun(end) = A \cup B /\ \A a \in A, b \in B : a < b
      BY <2>2, StartsArePlaces
    <2>7. B \in SUBSET (1 .. Len(log))
      BY <2>5, <2>6
    <2>8. LinesAt(Begun(end)) = LinesAt(A) \o LinesAt(B)
      BY <2>5, <2>6, <2>7, LinesAtConcat
    <2>9. /\ r \in Seq(ShownRecord)
          /\ Len(r) = Cardinality(B)
          /\ \A n \in 1 .. Cardinality(B) :
               /\ Ascending(B)[n] \in B
               /\ r[n] = Record(Ascending(B)[n], end)
      BY <1>1, <2>3, RecordsProperties
    <2>10. \A n \in 1 .. Cardinality(B) : r[n].line = LinesAt(B)[n]
      BY <2>7, <2>9, LinesAtType DEF Record
    <2>11. /\ LinesAt(B) \in Seq(LineIds) /\ Len(LinesAt(B)) = Cardinality(B)
           /\ LinesAt(A) \in Seq(LineIds)
      BY <2>5, <2>7, LinesAtType
    <2> HIDE DEF A, B, r
    <2>12. shown \in Seq(ShownRecord)
      BY DEF TypeOK, ShownRecord
    <2>13. /\ ShownLines \in Seq(LineIds) /\ Len(ShownLines) = Len(shown)
           /\ \A n \in 1 .. Len(shown) : ShownLines[n] = shown[n].line
      BY <2>12, ShownLinesType DEF ShownLines
    <2>14. /\ shown \o r \in Seq(ShownRecord)
           /\ Len(shown \o r) = Len(shown) + Len(r)
           /\ \A n \in 1 .. Len(shown) + Len(r) : (shown \o r)[n] =
                IF n <= Len(shown) THEN shown[n] ELSE r[n - Len(shown)]
      BY <2>9, <2>12, ConcatProperties
    <2>15. PICK t : t = [n \in DOMAIN (shown \o r) |-> (shown \o r)[n].line]
      OBVIOUS
    <2>16. /\ t \in Seq(LineIds) /\ Len(t) = Len(shown) + Len(r)
           /\ \A n \in 1 .. Len(shown) + Len(r) : t[n] = (shown \o r)[n].line
      BY <2>14, <2>15, ShownLinesType
    <2> DEFINE u == ShownLines \o LinesAt(B)
    <2>17. /\ u \in Seq(LineIds) /\ Len(u) = Len(shown) + Len(r)
           /\ \A n \in 1 .. Len(shown) + Len(r) : u[n] =
                IF n <= Len(shown) THEN ShownLines[n]
                ELSE LinesAt(B)[n - Len(shown)]
      <3> DEFINE v == ShownLines
                 w == LinesAt(B)
      <3>1. /\ v \in Seq(LineIds) /\ w \in Seq(LineIds)
            /\ Len(v) = Len(shown) /\ Len(w) = Len(r)
        BY <2>9, <2>11, <2>13
      <3> HIDE DEF v, w
      <3>2. /\ v \o w \in Seq(LineIds) /\ Len(v \o w) = Len(v) + Len(w)
            /\ \A n \in 1 .. Len(v) + Len(w) : (v \o w)[n] =
                 IF n <= Len(v) THEN v[n] ELSE w[n - Len(v)]
        BY <3>1, ConcatProperties
      <3> QED
        BY <3>1, <3>2 DEF v, w
    <2>18. Len(shown) \in Nat /\ Len(r) \in Nat
      BY <2>9, <2>12, LenProperties
    <2> HIDE DEF u
    <2>19. ASSUME NEW n \in 1 .. Len(shown) + Len(r)
           PROVE  t[n] = u[n]
      <3>1. CASE n <= Len(shown)
        <4>1. n \in 1 .. Len(shown)
          BY <2>18, <3>1
        <4> QED
          BY <2>13, <2>14, <2>16, <2>17, <3>1, <4>1
      <3>2. CASE ~(n <= Len(shown))
        <4>1. n - Len(shown) \in 1 .. Len(r)
          BY <2>18, <3>2
        <4> QED
          BY <2>9, <2>10, <2>14, <2>16, <2>17, <3>2, <4>1
      <3> QED
        BY <3>1, <3>2
    <2>20. t = u
      BY <2>16, <2>17, <2>19, SeqEqual
    <2>21. ShownLines' = t
      BY <2>4, <2>15 DEF ShownLines, r
    <2>22. t = LinesAt(Begun(end))
      BY <1>2, <2>8, <2>20 DEF u, A
    <2>23. LinesAt(Begun(cursor))' = LinesAt(Begun(end))
      BY <2>4 DEF LinesAt, Begun
    <2> QED
      BY <2>21, <2>22, <2>23 DEF ShownInv
  <1> QED
    BY <1>1, <1>3, <1>4 DEF StreamLines

LEMMA NothingShownAtStart ==
  ASSUME TypeOK, shown = <<>>, mark = cursor
  PROVE  ShownLines = LinesAt(Begun(cursor))
  <1>1. cursor \in Nat
    BY DEF TypeOK
  <1>2. Begun(cursor) = {}
    <2>1. cursor + 1 .. cursor = {}
      BY <1>1
    <2> QED
      BY <2>1 DEF Begun
  <1>3. IsFiniteSet({}) /\ {} \in SUBSET Nat /\ Cardinality({}) = 0
    BY FS_EmptySet
  <1>4. DOMAIN Ascending({}) = {}
    <2>1. DOMAIN Ascending({}) = 1 .. 0
      BY <1>3, AscendingProperties
    <2> QED
      BY <2>1
  <1>5. DOMAIN shown = {}
    OBVIOUS
  <1>6. [n \in DOMAIN shown |-> shown[n].line] =
          [n \in DOMAIN Ascending({}) |-> log[Ascending({})[n]].line]
    BY <1>4, <1>5
  <1> QED
    BY <1>2, <1>6 DEF ShownLines, LinesAt

LEMMA ShownStep ==
  ASSUME TypeOK, TypeOK', PlaceInv, ShownInv, [Next]_vars
  PROVE  ShownInv'
  <1>0. Len(log) \in Nat /\ cursor \in Nat
    BY LogUnits DEF TypeOK
  <1>1. CASE SetCursor
    <2>1. CASE drift' = TRUE
      BY <2>1 DEF ShownInv
    <2>2. CASE cursor' = Len(log) /\ drift' = drift
      <3>1. /\ shown' = shown /\ mark' = cursor' /\ pc = "launched"
            /\ pc' # "launched"
        BY <1>1, <2>2 DEF SetCursor
      <3>2. ~drift => shown' = <<>>
        BY <3>1 DEF ShownInv
      <3>3. (TypeOK /\ shown = <<>> /\ mark = cursor
               => ShownLines = LinesAt(Begun(cursor)))'
        BY NothingShownAtStart, PTL
      <3> QED
        BY <2>2, <3>1, <3>2, <3>3 DEF ShownInv
    <2> QED
      BY <1>1, <2>1, <2>2 DEF SetCursor
  <1>2. CASE Stream \/ Flush
    <2>1. /\ StreamLines(FALSE) \/ StreamLines(TRUE)
          /\ log' = log /\ mark' = mark /\ drift' = drift
          /\ pc # "launched" /\ pc' # "launched"
      BY <1>2 DEF Stream, Flush
    <2>2. CASE drift
      BY <2>1, <2>2 DEF ShownInv
    <2>3. CASE ~drift
      BY <2>1, <2>3, ShownRead DEF InPlace
    <2> QED
      BY <2>2, <2>3
  <1>3. CASE Heartbeat
    <2>1. CASE drift' = TRUE
      BY <2>1 DEF ShownInv
    <2>2. CASE drift' # TRUE
      <3>1. PICK line : line = Lines + beats + 1
        OBVIOUS
      <3>2. /\ log' = log \o Text(line) /\ drift' = (drift \/ cursor # Len(log))
            /\ cursor' = cursor + Length[line] /\ mark' = mark /\ shown' = shown
            /\ pc # "launched" /\ pc' # "launched"
        BY <1>3, <2>2, <3>1 DEF Heartbeat
      <3>3. cursor = Len(log) /\ InPlace
        BY <2>2, <3>2 DEF InPlace, TypeOK
      <3>4. line \in LineIds /\ line \in Lines + 1 .. Lines + Beats
        BY <1>3, <3>1, LineNumbers DEF Heartbeat, HeartbeatLine
      <3>5. Length[line] \in Nat \ {0}
        BY <3>4, LengthType
      <3>6. /\ Text(line) \in Seq(Unit) /\ Len(Text(line)) = Length[line]
            /\ \A k \in 1 .. Length[line] :
                 Text(line)[k] = [line |-> line, at |-> k]
        BY <3>4, TextProperties
      <3>7. /\ Len(log') = Len(log) + Length[line]
            /\ \A i \in 1 .. Len(log) : log'[i] = log[i]
        BY <3>2, <3>6, Appended
      <3>8. PICK c \in Nat : c = cursor
        BY <1>0
      <3>9. Begun(c)' = Begun(c) /\ LinesAt(Begun(c))' = LinesAt(Begun(c))
        BY <3>2, <3>3, <3>7, <3>8, BegunStays, <1>0
      <3>10. PICK first : first = Len(log) + 1
        OBVIOUS
      <3>11. OnlyLine(line, first)'
        <4>1. Len(Text(line)) \in 1 .. Length[line]
          BY <3>5, <3>6
        <4> QED
          BY <3>2, <3>4, <3>6, <3>10, <4>1, LineBegins
      <3>12. PICK end : end = c + Length[line]
        OBVIOUS
      <3>13. ASSUME NEW i \in mark + 1 .. end, i \notin mark + 1 .. c
             PROVE  log'[i].line \notin 1 .. Lines
        <4>1. mark \in Nat
          BY DEF TypeOK
        <4>2. i \in first .. Len(log')
          BY <1>0, <3>3, <3>5, <3>7, <3>8, <3>10, <3>12, <3>13, <4>1
        <4>3. log'[i].line = line
          BY <3>11, <4>2 DEF OnlyLine
        <4> QED
          BY <3>4, <4>3, StreamAssumption
      <3>14. mark + 1 .. c \subseteq mark + 1 .. end
        <4>1. mark \in Nat
          BY DEF TypeOK
        <4> QED
          BY <3>5, <3>12, <4>1
      <3>15. Begun(end)' = Begun(c)'
        BY <3>2, <3>13, <3>14 DEF Begun
      <3>16. cursor' = end
        BY <3>2, <3>8, <3>12
      <3>17. LinesAt(Begun(cursor))' = LinesAt(Begun(c))
        BY <3>9, <3>15, <3>16 DEF LinesAt
      <3>18. ShownLines = LinesAt(Begun(c))
        BY <3>3, <3>8 DEF ShownInv, InPlace
      <3> QED
        BY <3>2, <3>17, <3>18 DEF ShownInv, ShownLines
    <2> QED
      BY <2>1, <2>2
  <1>4. CASE WorkerLogs \/ WorkerLogsRest
    <2>1. /\ cursor' = cursor /\ mark' = mark /\ shown' = shown /\ drift' = drift
          /\ pc' = pc
      BY <1>4 DEF WorkerLogs, WorkerLogsRest, parentVars
    <2>2. PICK t \in Seq(Unit) : log' = log \o t
      <3>1. CASE WorkerLogsRest
        BY <3>1 DEF WorkerLogsRest, TypeOK
      <3>2. CASE WorkerLogs
        <4>1. PICK line : line = written + 1
          OBVIOUS
        <4>2. line \in LineIds /\ Length[line] \in Nat \ {0}
          BY <3>2, <4>1, WriteCases
        <4>3. \/ log' = log \o Text(line)
              \/ \E n \in 1 .. Length[line] - 1 :
                   log' = log \o SubSeq(Text(line), 1, n)
          BY <3>2, <4>1, WriteCases
        <4>4. CASE log' = log \o Text(line)
          BY <4>2, <4>4, TextProperties
        <4>5. ASSUME NEW n \in 1 .. Length[line] - 1,
                     log' = log \o SubSeq(Text(line), 1, n)
              PROVE  \E t \in Seq(Unit) : log' = log \o t
          <5>1. 1 \in 1 .. Length[line] /\ n \in 1 .. Length[line]
            BY <4>2
          <5>2. SubSeq(Text(line), 1, n) \in Seq(Unit)
            BY <4>2, <5>1, PartOfText
          <5> QED
            BY <4>5, <5>2
        <4> QED
          BY <4>3, <4>4, <4>5
      <3> QED
        BY <1>4, <3>1, <3>2
    <2>3. \A i \in 1 .. Len(log) : log'[i] = log[i]
      BY <2>2, Appended
    <2>4. CASE ~InPlace
      BY <2>1, <2>4 DEF ShownInv, InPlace
    <2>5. CASE InPlace
      <3>1. PICK c \in Nat : c = cursor
        BY <1>0
      <3>2. c <= Len(log)
        BY <2>5, <3>1 DEF PlaceInv
      <3>3. LinesAt(Begun(c))' = LinesAt(Begun(c))
        BY <2>1, <2>3, <3>2, BegunStays
      <3>4. cursor' = c
        BY <2>1, <3>1
      <3>5. LinesAt(Begun(cursor))' = LinesAt(Begun(c))'
        BY <3>4 DEF LinesAt, Begun
      <3> QED
        BY <2>1, <2>5, <3>1, <3>3, <3>5 DEF ShownInv, InPlace, ShownLines
    <2> QED
      BY <2>4, <2>5
  <1>5. CASE ~FileStep
    BY <1>5, OtherSteps DEF ShownInv, ShownLines, LinesAt, Begun
  <1> QED
    BY <1>1, <1>2, <1>3, <1>4, <1>5 DEF FileStep

LEMMA EndStep ==
  ASSUME TypeOK, EndInv, [Next]_vars
  PROVE  EndInv'
  <1>1. CASE SetCursor
    BY <1>1 DEF EndInv, SetCursor
  <1>2. CASE TimedOut
    BY <1>2 DEF EndInv, TimedOut, EndWith
  <1>3. CASE AbortSeen
    BY <1>3 DEF EndInv, AbortSeen, EndWith
  <1>4. CASE Stream
    BY <1>4 DEF EndInv, Stream
  <1>5. CASE PollState
    BY <1>5 DEF EndInv, PollState
  <1>6. CASE PollResult
    BY <1>6 DEF EndInv, PollResult, EndWith, workerVars
  <1>7. CASE Pause
    BY <1>7 DEF EndInv, Pause
  <1>8. CASE Heartbeat
    BY <1>8 DEF EndInv, Heartbeat
  <1>9. CASE Flush
    <2>1. /\ log' = log /\ worker' = worker /\ ending' = ending /\ pc' = "stop"
          /\ drift' = drift /\ faults' = faults /\ StreamLines(TRUE)
      BY <1>9 DEF Flush, workerVars
    <2>2. ~drift /\ "open" \notin faults => cursor' = Len(log)
      BY <2>1 DEF TypeOK, StreamLines, ReadableEnd
    <2> QED
      BY <2>1, <2>2 DEF EndInv
  <1>10. CASE FinishTask
    BY <1>10 DEF EndInv, FinishTask
  <1>11. CASE WorkerStarts
    BY <1>11 DEF EndInv, WorkerStarts, parentVars
  <1>12. CASE WorkerLogs
    BY <1>12 DEF EndInv, WorkerLogs, parentVars
  <1>13. CASE WorkerLogsRest
    BY <1>13 DEF EndInv, WorkerLogsRest, parentVars
  <1>14. CASE WorkerEnds
    BY <1>14 DEF EndInv, WorkerEnds, parentVars
  <1>15. CASE UNCHANGED vars
    BY <1>15 DEF EndInv, vars, workerVars
  <1> QED
    BY <1>1, <1>2, <1>3, <1>4, <1>5, <1>6, <1>7, <1>8, <1>9, <1>10, <1>11,
       <1>12, <1>13, <1>14, <1>15 DEF Next, ParentStep, WorkerStep

(***************************************************************************)
(* Whole and torn records.                                                 *)
(***************************************************************************)
\* A line that is all in the file is read as a whole by any read that ends at
\* a line break or at the end of the file.
LEMMA RecordIsWhole ==
  ASSUME TypeOK, NEW i \in 1 .. Len(log), LineAt(i), AllOfIt(i),
         NEW end \in i .. Len(log), end = Len(log) \/ EndsLine(log[end])
  PROVE  Record(i, end).whole
  <1>0. Len(log) \in Nat /\ log \in Seq(Unit)
    BY LogUnits DEF TypeOK
  <1>1. PICK l \in LineIds : l = log[i].line
    BY LogUnits
  <1>2. Length[l] \in Nat \ {0}
    BY LengthType
  <1>3. PICK stop : stop = i + Length[l] - 1
    OBVIOUS
  <1>4. stop \in i .. Len(log)
    BY <1>0, <1>1, <1>2, <1>3 DEF AllOfIt
  <1>5. ASSUME NEW j \in i .. stop
        PROVE  /\ log[j] = [line |-> l, at |-> j - i + 1]
               /\ EndsLine(log[j]) <=> j = stop
    <2>1. PICK k : k = j - i + 1
      OBVIOUS
    <2>2. k \in 1 .. Length[l] /\ i + k - 1 = j /\ j <= Len(log)
      BY <1>0, <1>2, <1>3, <1>4, <2>1
    <2>3. log[j] = [line |-> l, at |-> k]
      BY <1>1, <2>2 DEF LineAt
    <2>4. EndsLine(log[j]) <=> k = Length[l]
      BY <2>3 DEF EndsLine
    <2>5. k = Length[l] <=> j = stop
      BY <1>2, <1>3, <2>1
    <2> QED
      BY <2>1, <2>3, <2>4, <2>5
  <1>6. stop \in i .. end
    <2>1. CASE end = Len(log)
      BY <1>4, <2>1
    <2>2. CASE EndsLine(log[end])
      <3>1. ASSUME end < stop
            PROVE  FALSE
        <4>1. end \in i .. stop /\ end # stop
          BY <1>0, <1>4, <3>1
        <4> QED
          BY <1>5, <2>2, <4>1
      <3> QED
        BY <1>0, <1>4, <3>1
    <2> QED
      BY <2>1, <2>2
  <1> DEFINE Stop(j) == /\ j = end \/ EndsLine(log[j])
                        /\ \A k \in i .. j - 1 : ~EndsLine(log[k])
  <1>7. Stop(stop)
    <2>1. EndsLine(log[stop])
      <3>1. stop \in i .. stop
        BY <1>0, <1>4
      <3> QED
        BY <1>5, <3>1
    <2>2. \A k \in i .. stop - 1 : k \in i .. stop /\ k # stop
      BY <1>0, <1>4
    <2> QED
      BY <1>5, <2>1, <2>2
  <1>8. ASSUME NEW j \in i .. end, Stop(j)
        PROVE  j = stop
    <2>1. ASSUME j < stop
          PROVE  FALSE
      <3>1. j \in i .. stop /\ j # stop /\ j # end
        BY <1>0, <1>4, <1>6, <2>1
      <3> QED
        BY <1>5, <1>8, <3>1
    <2>2. ASSUME stop < j
          PROVE  FALSE
      <3>1. stop \in i .. j - 1 /\ stop \in i .. stop
        BY <1>0, <1>4, <2>2
      <3>2. EndsLine(log[stop])
        BY <1>5, <3>1
      <3> QED
        BY <1>8, <3>1, <3>2
    <2> QED
      BY <1>0, <1>4, <2>1, <2>2
  <1>9. LineStop(i, end) = stop
    BY <1>6, <1>7, <1>8 DEF LineStop
  <1>10. SubSeq(log, i, stop) = Text(l)
    <2>1. \A j \in i .. stop : log[j] \in Unit
      BY <1>0, <1>4, LogUnits
    <2>2. i \in Int /\ stop \in Int /\ i <= stop
      BY <1>0, <1>4
    <2>3. /\ SubSeq(log, i, stop) \in Seq(Unit)
          /\ Len(SubSeq(log, i, stop)) = stop - i + 1
          /\ \A k \in 1 .. stop - i + 1 : SubSeq(log, i, stop)[k] = log[i + k - 1]
      BY <2>1, <2>2, SubSeqProperties
    <2>4. stop - i + 1 = Length[l]
      BY <1>0, <1>2, <1>3
    <2>5. /\ Text(l) \in Seq(Unit) /\ Len(Text(l)) = Length[l]
          /\ \A k \in 1 .. Length[l] : Text(l)[k] = [line |-> l, at |-> k]
      BY TextProperties
    <2>6. ASSUME NEW k \in 1 .. Length[l]
          PROVE  log[i + k - 1] = Text(l)[k]
      <3>1. i + k - 1 <= Len(log)
        BY <1>0, <1>2, <1>3, <1>4
      <3>2. log[i + k - 1] = [line |-> l, at |-> k]
        BY <1>1, <3>1 DEF LineAt
      <3> QED
        BY <2>5, <3>2
    <2>7. \A k \in 1 .. Length[l] : SubSeq(log, i, stop)[k] = Text(l)[k]
      BY <2>3, <2>4, <2>6
    <2> QED
      BY <2>3, <2>4, <2>5, <2>7, SeqEqual
  <1> QED
    BY <1>1, <1>9, <1>10 DEF Record

\* Nothing begins after a line that is not all there, and a read up to a line
\* break does not come to it.
LEMMA TornIsLast ==
  ASSUME TypeOK, NEW i \in 1 .. Len(log), LineAt(i), ~AllOfIt(i),
         NEW j \in i .. Len(log)
  PROVE  /\ j # i => log[j].at # 1
         /\ ~EndsLine(log[j])
  <1>0. Len(log) \in Nat
    BY LogUnits
  <1>1. PICK l \in LineIds : l = log[i].line
    BY LogUnits
  <1>2. Length[l] \in Nat \ {0}
    BY LengthType
  <1>3. PICK k : k = j - i + 1
    OBVIOUS
  <1>4. ~(i + Length[l] - 1 <= Len(log))
    BY <1>1 DEF AllOfIt
  <1>5. k \in 1 .. Length[l] /\ k # Length[l] /\ i + k - 1 = j
    BY <1>0, <1>2, <1>3, <1>4
  <1>6. log[j] = [line |-> l, at |-> k]
    BY <1>1, <1>5 DEF LineAt
  <1>7. j # i => k # 1
    BY <1>0, <1>3
  <1> QED
    BY <1>5, <1>6, <1>7 DEF EndsLine

\* A read shows what it showed before and then its records.
LEMMA ReadShows ==
  ASSUME TypeOK, NEW flush \in BOOLEAN, StreamLines(flush)
  PROVE  \/ shown' = shown
         \/ \E c \in 0 .. Len(log) : \E end \in c .. Len(log) :
              /\ c = IF Len(log) < cursor THEN 0 ELSE cursor
              /\ end = ReadableEnd(flush, c)
              /\ \A n \in DOMAIN shown' :
                   \/ n \in DOMAIN shown /\ shown'[n] = shown[n]
                   \/ \E m \in 1 .. Cardinality(RecordStarts(c, end)) :
                        /\ Ascending(RecordStarts(c, end))[m] \in RecordStarts(c, end)
                        /\ n = Len(shown) + m
                        /\ shown'[n] =
                             Record(Ascending(RecordStarts(c, end))[m], end)
              /\ Len(shown') = Len(shown) + Cardinality(RecordStarts(c, end))
  <1> SUFFICES ASSUME NEW c, c = IF Len(log) < cursor THEN 0 ELSE cursor,
                      NEW end, end = ReadableEnd(flush, c),
                      shown' = shown \o Records(c, end)
               PROVE  /\ c \in 0 .. Len(log) /\ end \in c .. Len(log)
                      /\ \A n \in DOMAIN shown' :
                           \/ n \in DOMAIN shown /\ shown'[n] = shown[n]
                           \/ \E m \in 1 .. Cardinality(RecordStarts(c, end)) :
                                /\ Ascending(RecordStarts(c, end))[m]
                                     \in RecordStarts(c, end)
                                /\ n = Len(shown) + m
                                /\ shown'[n] =
                                     Record(Ascending(RecordStarts(c, end))[m], end)
                      /\ Len(shown') = Len(shown) + Cardinality(RecordStarts(c, end))
    BY DEF StreamLines
  <1>1. c \in 0 .. Len(log) /\ c \in Nat /\ Len(log) \in Nat
    BY LogUnits DEF TypeOK
  <1>2. end \in c .. Len(log)
    BY <1>1, ReadableEndProperties
  <1>3. end \in Nat /\ end <= Len(log)
    BY <1>1, <1>2
  <1> DEFINE r == Records(c, end)
             S == RecordStarts(c, end)
             f == Ascending(S)
  <1>4. /\ r \in Seq(ShownRecord) /\ Len(r) = Cardinality(S)
        /\ \A m \in 1 .. Cardinality(S) : f[m] \in S /\ r[m] = Record(f[m], end)
    BY <1>1, <1>3, RecordsProperties, ZenonT(30)
  <1>5. shown \in Seq(ShownRecord)
    BY DEF TypeOK, ShownRecord
  <1>6. shown' = shown \o r
    OBVIOUS
  <1> HIDE DEF r, S, f
  <1>7. /\ Len(shown) \in Nat /\ Len(r) \in Nat /\ DOMAIN shown = 1 .. Len(shown)
    BY <1>4, <1>5, LenProperties
  <1>8. /\ shown' \in Seq(ShownRecord)
        /\ Len(shown') = Len(shown) + Len(r)
        /\ \A n \in 1 .. Len(shown) + Len(r) : shown'[n] =
             IF n <= Len(shown) THEN shown[n] ELSE r[n - Len(shown)]
    <2>1. /\ shown \o r \in Seq(ShownRecord)
          /\ Len(shown \o r) = Len(shown) + Len(r)
          /\ \A n \in 1 .. Len(shown) + Len(r) : (shown \o r)[n] =
               IF n <= Len(shown) THEN shown[n] ELSE r[n - Len(shown)]
      BY <1>4, <1>5, ConcatProperties
    <2> QED
      BY <1>6, <2>1
  <1>9. DOMAIN shown' = 1 .. Len(shown) + Len(r)
    BY <1>8, LenProperties
  <1>10. ASSUME NEW n \in DOMAIN shown'
         PROVE  \/ n \in DOMAIN shown /\ shown'[n] = shown[n]
                \/ \E m \in 1 .. Cardinality(S) :
                     f[m] \in S /\ n = Len(shown) + m /\ shown'[n] = Record(f[m], end)
    <2>1. CASE n <= Len(shown)
      BY <1>7, <1>8, <1>9, <2>1
    <2>2. CASE ~(n <= Len(shown))
      <3>1. PICK m \in 1 .. Len(r) : n = Len(shown) + m
        BY <1>7, <1>9, <2>2, Offset, SMTT(30)
      <3>2. shown'[n] = r[m]
        <4>1. n - Len(shown) = m
          BY <1>7, <3>1
        <4> QED
          BY <1>8, <1>9, <2>2, <4>1
      <3> QED
        BY <1>4, <3>1, <3>2
    <2> QED
      BY <2>1, <2>2
  <1> QED
    BY <1>1, <1>2, <1>4, <1>8, <1>10, SMTT(30) DEF S, f

LEMMA ShownGrowsByReading ==
  ASSUME [Next]_vars
  PROVE  \/ Stream \/ Flush
         \/ /\ shown' = shown
            /\ ~drift' => ~drift \/ SetCursor
            /\ pc \in {"stop", "done"} => pc' \in {"stop", "done"}
  BY DEF Next, ParentStep, WorkerStep, SetCursor, TimedOut, AbortSeen,
         PollState, PollResult, EndWith, Pause, Heartbeat, FinishTask,
         WorkerStarts, WorkerLogs, WorkerLogsRest, WorkerEnds, vars,
         workerVars, parentVars

LEMMA NothingTornStep ==
  ASSUME TypeOK, WholeInv, NothingTornIsShown, [Next]_vars
  PROVE  NothingTornIsShown'
  <1> SUFFICES ASSUME "short" \notin faults, Stream \/ Flush
               PROVE  \A n \in DOMAIN shown' : shown'[n].whole
    BY FaultsStay, ShownGrowsByReading DEF NothingTornIsShown
  <1>1. PICK flush \in BOOLEAN : StreamLines(flush)
    BY DEF Stream, Flush
  <1>2. CASE shown' = shown
    BY <1>2 DEF NothingTornIsShown
  <1>3. ASSUME NEW c \in 0 .. Len(log), NEW end \in c .. Len(log),
               end = ReadableEnd(flush, c),
               NEW i \in RecordStarts(c, end)
        PROVE  Record(i, end).whole
    <2>1. Len(log) \in Nat
      BY LogUnits
    <2>2. i \in c + 1 .. end /\ log[i].at = 1
      BY DEF RecordStarts, LineStarts, IsRecord
    <2>3. i \in 1 .. Len(log) /\ end \in i .. Len(log) /\ c < end
      BY <2>1, <2>2
    <2>4. end = Len(log) \/ EndsLine(log[end])
      BY <1>3, <2>3, ReadableEndProperties
    <2>5. LineAt(i) /\ AllOfIt(i)
      BY <2>2, <2>3 DEF WholeInv
    <2> QED
      BY <2>3, <2>4, <2>5, RecordIsWhole
  <1>4. ASSUME NEW c \in 0 .. Len(log), NEW end \in c .. Len(log),
               end = ReadableEnd(flush, c),
               NEW n \in DOMAIN shown',
               \/ n \in DOMAIN shown /\ shown'[n] = shown[n]
               \/ \E m \in 1 .. Cardinality(RecordStarts(c, end)) :
                    /\ Ascending(RecordStarts(c, end))[m] \in RecordStarts(c, end)
                    /\ n = Len(shown) + m
                    /\ shown'[n] = Record(Ascending(RecordStarts(c, end))[m], end)
        PROVE  shown'[n].whole
    BY <1>3, <1>4 DEF NothingTornIsShown
  <1> QED
    BY <1>1, <1>2, <1>4, ReadShows

\* The element at the last place of an ascending sequence is the greatest.
LEMMA GreatestIsLast ==
  ASSUME NEW S \in SUBSET Nat, IsFiniteSet(S), NEW m \in 1 .. Cardinality(S),
         \A j \in S : j <= Ascending(S)[m]
  PROVE  m = Cardinality(S)
  <1>1. Rank(S, Ascending(S)[m]) = m
    BY AscendingProperties
  <1>2. {j \in S : j <= Ascending(S)[m]} = S
    OBVIOUS
  <1> QED
    BY <1>1, <1>2 DEF Rank

LEMMA TornStep ==
  ASSUME TypeOK, PlaceInv, OnlyTheLastIsTorn, [Next]_vars
  PROVE  OnlyTheLastIsTorn'
  <1>1. CASE SetCursor
    BY <1>1 DEF SetCursor, OnlyTheLastIsTorn
  <1>2. CASE /\ shown' = shown
             /\ ~drift' => ~drift
             /\ pc \in {"stop", "done"} => pc' \in {"stop", "done"}
    BY <1>2 DEF OnlyTheLastIsTorn
  <1>3. ASSUME Stream \/ Flush, ~drift',
               NEW n \in DOMAIN shown', ~shown'[n].whole
        PROVE  n = Len(shown') /\ pc' \in {"stop", "done"}
    <2>1. PICK flush \in BOOLEAN :
            StreamLines(flush) /\ (flush => pc' = "stop")
      BY <1>3 DEF Stream, Flush
    <2>2. /\ pc \notin {"stop", "done"} /\ pc # "launched"
          /\ drift' = drift
      BY <1>3 DEF Stream, Flush
    <2>3. InPlace
      BY <1>3, <2>2 DEF InPlace
    <2>4. /\ Len(log) \in Nat /\ cursor \in Nat /\ ~(Len(log) < cursor)
      BY <2>3, LogUnits DEF PlaceInv, TypeOK
    <2>5. \A k \in DOMAIN shown : shown[k].whole
      BY <2>2, <2>3 DEF OnlyTheLastIsTorn, InPlace
    <2>6. shown' # shown
      BY <1>3, <2>5
    <2>7. PICK c \in 0 .. Len(log) : \E end \in c .. Len(log) :
            /\ c = IF Len(log) < cursor THEN 0 ELSE cursor
            /\ end = ReadableEnd(flush, c)
            /\ \/ n \in DOMAIN shown /\ shown'[n] = shown[n]
               \/ \E m \in 1 .. Cardinality(RecordStarts(c, end)) :
                    /\ Ascending(RecordStarts(c, end))[m] \in RecordStarts(c, end)
                    /\ n = Len(shown) + m
                    /\ shown'[n] = Record(Ascending(RecordStarts(c, end))[m], end)
            /\ Len(shown') = Len(shown) + Cardinality(RecordStarts(c, end))
      BY <1>3, <2>1, <2>6, ReadShows
    <2>8. c = cursor
      BY <2>4, <2>7
    <2>9. PICK end \in c .. Len(log) :
            /\ end = ReadableEnd(flush, c)
            /\ \/ n \in DOMAIN shown /\ shown'[n] = shown[n]
               \/ \E m \in 1 .. Cardinality(RecordStarts(c, end)) :
                    /\ Ascending(RecordStarts(c, end))[m] \in RecordStarts(c, end)
                    /\ n = Len(shown) + m
                    /\ shown'[n] = Record(Ascending(RecordStarts(c, end))[m], end)
            /\ Len(shown') = Len(shown) + Cardinality(RecordStarts(c, end))
      BY <2>7
    <2>10. PICK m \in 1 .. Cardinality(RecordStarts(c, end)) :
            /\ Ascending(RecordStarts(c, end))[m] \in RecordStarts(c, end)
            /\ n = Len(shown) + m
            /\ shown'[n] = Record(Ascending(RecordStarts(c, end))[m], end)
      BY <1>3, <2>5, <2>9
    <2>11. PICK i \in RecordStarts(c, end) :
             i = Ascending(RecordStarts(c, end))[m]
      BY <2>10
    <2>12. ~Record(i, end).whole
      BY <1>3, <2>10, <2>11
    <2>13. i \in c + 1 .. end /\ log[i].at = 1
      BY DEF RecordStarts, LineStarts, IsRecord
    <2>14. /\ i \in 1 .. Len(log) /\ end \in i .. Len(log) /\ c < end
           /\ i \in cursor + 1 .. Len(log) /\ end \in Nat
      BY <2>4, <2>9, <2>8, <2>13
    <2>15. LineAt(i)
      BY <2>3, <2>13, <2>14 DEF PlaceInv, Beyond
    <2>16. flush \/ EndsLine(log[end])
      BY <2>9, <2>14, ReadableEndProperties
    <2>17. flush => end = Len(log)
      BY <2>9, ReadableEndProperties
    <2>18. ~AllOfIt(i)
      BY <2>12, <2>14, <2>15, <2>16, <2>17, RecordIsWhole
    <2>19. flush
      BY <2>14, <2>15, <2>16, <2>18, TornIsLast
    <2>20. ASSUME NEW j \in RecordStarts(c, end)
           PROVE  j <= i
      <3>1. j \in c + 1 .. end /\ log[j].at = 1
        BY DEF RecordStarts, LineStarts, IsRecord
      <3>2. ASSUME i < j
            PROVE  FALSE
        <4>1. j \in i .. Len(log) /\ j # i
          BY <2>4, <2>9, <2>14, <3>1, <3>2
        <4> QED
          BY <2>14, <2>15, <2>18, <3>1, <4>1, TornIsLast
      <3> QED
        BY <2>4, <2>9, <2>14, <3>1, <3>2
    <2>21. c \in Nat /\ end <= Len(log)
      BY <2>4, <2>9, <2>8
    <2>22. RecordStarts(c, end) \in SUBSET Nat /\ IsFiniteSet(RecordStarts(c, end))
      BY <2>14, <2>21, RecordsProperties
    <2>23. m = Cardinality(RecordStarts(c, end))
      BY <2>11, <2>20, <2>22, GreatestIsLast
    <2> QED
      BY <2>1, <2>9, <2>10, <2>19, <2>23
  <1> QED
    BY <1>1, <1>2, <1>3, ShownGrowsByReading DEF OnlyTheLastIsTorn

(***************************************************************************)
(* The theorems.                                                           *)
(***************************************************************************)
IInv ==
  /\ TypeOK /\ TurnInv /\ RestInv /\ WholeInv /\ PlaceInv /\ ShownInv /\ EndInv
  /\ NothingTornIsShown /\ OnlyTheLastIsTorn

LEMMA IInvInit ==
  ASSUME Init
  PROVE  IInv
  <1>1. TypeOK /\ TurnInv
    BY TypeInit
  <1>2. RestInv /\ PlaceInv /\ ShownInv /\ EndInv
    BY DEF Init, RestInv, PlaceInv, InPlace, ShownInv, EndInv
  <1>3. NothingTornIsShown /\ OnlyTheLastIsTorn
    BY DEF Init, NothingTornIsShown, OnlyTheLastIsTorn
  <1>4. WholeInv
    <2>1. 0 \in LineIds
      BY StreamAssumption DEF LineIds
    <2>2. /\ log = Text(0) /\ Len(Text(0)) = Length[0]
          /\ \A k \in 1 .. Length[0] : Text(0)[k] = [line |-> 0, at |-> k]
          /\ Length[0] \in Nat
      BY <2>1, TextProperties, LengthType DEF Init
    <2>3. ASSUME NEW i \in 1 .. Len(log), log[i].at = 1
          PROVE  LineAt(i) /\ AllOfIt(i)
      <3>1. log[i] = [line |-> 0, at |-> i]
        BY <2>2
      <3>2. i = 1 /\ log[i].line = 0
        BY <2>3, <3>1
      <3>3. \A k \in 1 .. Length[0] : 1 + k - 1 = k
        BY <2>2
      <3> QED
        BY <2>2, <3>2, <3>3 DEF LineAt, AllOfIt
    <2> QED
      BY <2>3 DEF WholeInv
  <1> QED
    BY <1>1, <1>2, <1>3, <1>4 DEF IInv

LEMMA IInvStep ==
  ASSUME IInv, [Next]_vars
  PROVE  IInv'
  BY TypeStep, RestStep, WholeStep, PlaceStep, ShownStep, EndStep,
     NothingTornStep, TornStep DEF IInv

LEMMA IInvHolds == Spec => []IInv
  <1>1. Init => IInv
    BY IInvInit
  <1>2. IInv /\ [Next]_vars => IInv'
    BY IInvStep
  <1> QED
    BY <1>1, <1>2, PTL DEF Spec

\* The types of the variables; that the cursor, while it is in its place, is
\* never beyond the end of the file rests on the file only growing.
THEOREM StreamTypeCorrect == Spec => []TypeOK
  <1>1. IInv => TypeOK
    BY DEF IInv
  <1> QED
    BY <1>1, IInvHolds, PTL

\* What begins before the cursor is shown, what begins behind it is still to
\* come: the shown lines are the beginning of the worker's.
LEMMA ShownIsPrefix ==
  ASSUME TypeOK, PlaceInv, ShownInv
  PROVE  StreamIsFaithful
  <1> SUFFICES ASSUME ~drift
               PROVE  IsPrefix(ShownLines, Streamable)
    BY DEF StreamIsFaithful
  <1>0. Len(log) \in Nat /\ cursor \in Nat
    BY LogUnits DEF TypeOK
  <1>1. /\ Begun(Len(log)) \in SUBSET (1 .. Len(log))
        /\ Streamable = LinesAt(Begun(Len(log)))
    BY <1>0, BegunProperties DEF Streamable, LinesAt
  <1>2. /\ LinesAt(Begun(Len(log))) \in Seq(LineIds)
    BY <1>1, LinesAtType
  <1>3. PICK t \in Seq(LineIds) : t = Streamable
    BY <1>1, <1>2
  <1>4. Len(t) \in Nat
    BY LenProperties
  <1>5. CASE pc = "launched"
    <2>1. shown = <<>>
      BY <1>5 DEF ShownInv
    <2>2. ShownLines = <<>>
      <3>1. shown \in Seq(ShownRecord) /\ Len(shown) = 0
        BY <2>1, EmptySeq
      <3>2. ShownLines \in Seq(LineIds) /\ Len(ShownLines) = 0
        BY <3>1, ShownLinesType DEF ShownLines
      <3> QED
        BY <3>2, EmptySeq
    <2>3. Len(<<>>) = 0 /\ SubSeq(<<>>, 1, 0) = SubSeq(t, 1, 0)
      BY SubSeqEmpty
    <2> QED
      BY <1>3, <1>4, <2>2, <2>3 DEF IsPrefix
  <1>6. CASE pc # "launched"
    <2>1. InPlace /\ cursor <= Len(log)
      BY <1>6 DEF InPlace, PlaceInv
    <2> DEFINE A == Begun(cursor)
               B == RecordStarts(cursor, Len(log))
    <2>2. Len(log) \in cursor .. Len(log)
      BY <1>0, <2>1
    <2>3. Begun(Len(log)) = A \cup B /\ \A a \in A, b \in B : a < b
      BY <2>1, <2>2, StartsArePlaces
    <2>4. A \in SUBSET (1 .. Len(log)) /\ B \in SUBSET (1 .. Len(log))
      BY <1>1, <2>3
    <2>5. Streamable = LinesAt(A) \o LinesAt(B)
      BY <1>1, <2>3, <2>4, LinesAtConcat
    <2>6. PICK a \in Seq(LineIds), b \in Seq(LineIds) :
            a = LinesAt(A) /\ b = LinesAt(B)
      BY <2>4, LinesAtType
    <2>7. ShownLines = a
      BY <1>6, <2>6 DEF ShownInv
    <2>8. Streamable = a \o b
      BY <2>5, <2>6
    <2>9. /\ Len(a) \in Nat /\ Len(b) \in Nat
          /\ a \o b \in Seq(LineIds) /\ Len(a \o b) = Len(a) + Len(b)
          /\ \A n \in 1 .. Len(a) + Len(b) :
               (a \o b)[n] = IF n <= Len(a) THEN a[n] ELSE b[n - Len(a)]
      BY LenProperties, ConcatProperties
    <2>10. Len(a) <= Len(a \o b)
      BY <2>9
    <2>11. SubSeq(a, 1, Len(a)) = SubSeq(a \o b, 1, Len(a))
      <3>1. CASE Len(a) = 0
        BY <3>1, SubSeqEmpty
      <3>2. CASE Len(a) # 0
        <4>1. 1 \in 1 .. Len(a) /\ Len(a) \in 1 .. Len(a)
          BY <2>9, <3>2
        <4> QED
          BY <4>1, SubSeqOfConcat1
      <3> QED
        BY <3>1, <3>2
    <2> QED
      BY <2>7, <2>8, <2>10, <2>11 DEF IsPrefix
  <1> QED
    BY <1>5, <1>6

\* The parent shows the worker's records in their order, each once, none left
\* out and never a line of its own, for any number and length of lines and
\* whenever it reads, as long as nothing moved its cursor off its place
\* (stream_child_log_lines and the heartbeat's advance of the cursor).
THEOREM StreamingIsFaithful == Spec => []StreamIsFaithful
  <1>1. IInv => StreamIsFaithful
    BY ShownIsPrefix DEF IInv
  <1> QED
    BY <1>1, IInvHolds, PTL

\* An end that was seen is announced after the last line the worker wrote: the
\* read with flush comes after the poll, and a worker that has ended writes no
\* more.
THEOREM TheLastLinesAreShown == Spec => []LastWordsAreShown
  <1>1. IInv => LastWordsAreShown
    <2> SUFFICES ASSUME IInv, pc \in {"stop", "done"}, ending = "finished",
                        ~drift, "open" \notin faults
                 PROVE  ShownLines = Streamable
      BY DEF LastWordsAreShown
    <2>1. cursor = Len(log)
      BY DEF IInv, EndInv
    <2>2. ShownLines = LinesAt(Begun(Len(log)))
      BY <2>1 DEF IInv, ShownInv
    <2> QED
      BY <2>2 DEF Streamable, LinesAt
  <1> QED
    BY <1>1, IInvHolds, PTL

\* Without a short write no half of a line is ever shown, also when the cursor
\* points into a line: what is read ends at a line break or at the end of the
\* file, and only what starts with a timestamp is shown.
THEOREM ShownRecordsAreWhole == Spec => []NothingTornIsShown
  <1>1. IInv => NothingTornIsShown
    BY DEF IInv
  <1> QED
    BY <1>1, IInvHolds, PTL

\* While the cursor is in its place it is at most the last record shown that is
\* not whole, by a short write, and only after the last read of the wait.
THEOREM TornRecordsComeLast == Spec => []OnlyTheLastIsTorn
  <1>1. IInv => OnlyTheLastIsTorn
    BY DEF IInv
  <1> QED
    BY <1>1, IInvHolds, PTL
===============================================================================
